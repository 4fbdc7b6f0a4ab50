SPECIFICATION FairSpec
CONSTANTS
  Threads = {t1, t2}
  MaxHandlers = 3
  MaxPosted = 2
INVARIANTS TypeOK StoppedWhenDestroyed DeadRoutingWindow StaleNfsWindow LostAnswersBlamed IdleNfsLive
PROPERTY StopEnds
CHECK_DEADLOCK FALSE
