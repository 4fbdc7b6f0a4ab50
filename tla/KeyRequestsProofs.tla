------------------------- MODULE KeyRequestsProofs -------------------------
(***************************************************************************)
(* What KeyRequests guarantees for any number of asio threads, handlers    *)
(* and queued requests.                                                    *)
(***************************************************************************)
EXTENDS KeyRequests, TLAPS

USE KeyRequestsAssumption

-----------------------------------------------------------------------------
(* The inductive invariant. *)

(* TypeOK in three parts: the caller's state, that of the requests, and the *)
(* note of an escape.                                                       *)
CallerOK ==
  /\ step \in Steps /\ joins \in 0 .. 2
  /\ handler \in 0 .. MaxHandlers /\ old \in 0 .. MaxHandlers
  /\ made \in 0 .. MaxHandlers
  /\ live \subseteq Handlers /\ joined \subseteq Handlers
  /\ nfs \in Dangling .. MaxHandlers

RequestsOK ==
  /\ posted \in [Handlers -> 0 .. MaxPosted]
  /\ task \in [Handlers -> [Threads -> Requests]]
  /\ faults \subseteq Faults

EscapedOK == escaped \in BOOLEAN

(* Which handlers exist, place by place in the caller's thread.             *)
Existing(hs) == live = hs \ {0}

HandlersExist ==
  /\ made + joins <= MaxHandlers
  /\ step = "construct" => joins > 0
  /\ handler \in 0 .. made
  /\ step \in {"idle", "construct", "join", "joining", "connect", "work", "cleanup"}
       => old = 0 /\ Existing({handler})
  /\ step \in {"join", "joining", "connect"} => handler # 0
  /\ step = "swap" => old = 0 /\ handler < made /\ Existing({handler, made})
  /\ step \in {"stop", "destroy"} => old \in 1 .. made /\ old # handler
                                    /\ Existing({handler, old})
  /\ step = "gone" => handler = 0 /\ old = 0 /\ live = {}

(* client_nfs_ is over the current handler until that is destroyed, unless  *)
(* an escaped call has left it over one that was destroyed before.          *)
LeftOver == escaped /\ nfs # Dangling /\ nfs \notin live

NfsPlace ==
  /\ step \in {"idle", "construct", "swap"} => nfs \in {0, handler} \/ LeftOver
  /\ step \in {"stop", "destroy"}
       => nfs \in {0, old} \/ (nfs = Dangling /\ handler = 0) \/ LeftOver
  /\ step \in {"join", "joining", "connect"} => nfs # handler
  /\ step = "work" => nfs = handler
  /\ nfs = Dangling => step \in {"stop", "destroy", "gone"}
  /\ nfs <= made

(* A handler has no requests before it has joined.                          *)
JoinedFirst ==
  /\ joined \subseteq 1 .. made
  /\ step = "swap" => made \notin joined
  /\ step \in {"stop", "destroy", "join"} => handler \notin joined
  /\ \A h \in Handlers : h \notin joined =>
       posted[h] = 0 /\ \A t \in Threads : task[h][t] = NoTask

(* A request that reads client_nfs_ has found it set.                       *)
UsesSomething ==
  \A h \in Handlers : \A t \in Threads : task[h][t].at = "using" => task[h][t].nfs # 0

(* While the network is joined a request has met client_nfs_ as it still    *)
(* is, because none that met an earlier one was left when the join began.   *)
ReadsLatest ==
  /\ step = "work" => nfs # 0
  /\ step \in {"joining", "connect"} =>
       \A h \in Handlers : \A t \in Threads :
         /\ task[h][t].at = "tested" => nfs # 0
         /\ task[h][t].at = "using" => task[h][t].nfs = nfs

(* A request over routing that exists is over that of its own handler,      *)
(* which cannot be destroyed before the request has been answered.          *)
OwnRouting ==
  \A h \in Handlers : \A t \in Threads :
    task[h][t].at \in {"using", "waiting"} =>
      /\ task[h][t].nfs <= made
      /\ task[h][t].nfs \in live => task[h][t].nfs = h

IInv == /\ TypeOK /\ HandlersExist /\ NfsPlace /\ JoinedFirst /\ UsesSomething
        /\ StoppedWhenDestroyed /\ DeadRoutingWindow /\ ReadsLatest /\ StaleNfsWindow
        /\ OwnRouting /\ LostAnswersBlamed

-----------------------------------------------------------------------------
(* What the two parts are parts of.                                         *)
LEMMA TypeParts ==
  /\ TypeOK <=> CallerOK /\ RequestsOK /\ EscapedOK
  /\ (TypeOK <=> CallerOK /\ RequestsOK /\ EscapedOK)'
PROOF
  BY DEF TypeOK, CallerOK, RequestsOK, EscapedOK

(* An asio thread that moves on changes its own request only.               *)
MovesOn(h, t, r) == task' = [task EXCEPT ![h][t] = r]

(* To set where one request is keeps the type of all of them.             *)
LEMMA TaskUpdate ==
  ASSUME RequestsOK, NEW h \in Handlers, NEW t \in Threads, NEW r \in Requests,
         MovesOn(h, t, r)
  PROVE  /\ task' \in [Handlers -> [Threads -> Requests]]
         /\ \A i \in Handlers : \A j \in Threads :
              task'[i][j] = IF i = h /\ j = t THEN r ELSE task[i][j]
PROOF
  BY DEF RequestsOK, MovesOn

(* What each of its steps makes of it.                                      *)
LEMMA TaskSteps ==
  ASSUME CallerOK, RequestsOK, NEW h \in Handlers, NEW t \in Threads, ThreadStep(h, t)
  PROVE  \E r \in Requests :
           /\ task' \in [Handlers -> [Threads -> Requests]]
           /\ \A i \in Handlers : \A j \in Threads :
                task'[i][j] = IF i = h /\ j = t THEN r ELSE task[i][j]
           /\ r.at = "using" => r.nfs # 0
           /\ task[h][t] = NoTask => h \in live /\ ~ Stopped(h) /\ posted[h] > 0
PROOF
<1>1. NoTask \in Requests /\ NoTask.at = "none"
  BY DEF NoTask, Requests, Dangling
<1>2. CASE TestNfs(h, t)
  <2>1. CASE nfs = 0
    <3>1. task' = task /\ h \in live /\ ~ Stopped(h) /\ posted[h] > 0
          /\ task[h][t] = NoTask
      BY <1>2, <2>1 DEF TestNfs
    <3> QED
      BY <1>1, <3>1 DEF RequestsOK
  <2>2. CASE nfs # 0
    <3> DEFINE r == [at |-> "tested", nfs |-> 0]
    <3>1. r \in Requests /\ r.at = "tested"
      BY DEF Requests, Dangling
    <3>2. MovesOn(h, t, r) /\ h \in live /\ ~ Stopped(h) /\ posted[h] > 0
      BY <1>2, <2>2 DEF TestNfs, MovesOn
    <3> HIDE DEF r
    <3> QED
      BY <3>1, <3>2, TaskUpdate
  <2> QED
    BY <2>1, <2>2
<1>3. CASE ReadNfs(h, t)
  <2> DEFINE r == IF nfs = 0 THEN NoTask ELSE [at |-> "using", nfs |-> nfs]
  <2>1. r \in Requests /\ (r.at = "using" => r.nfs # 0)
    BY DEF Requests, NoTask, Dangling, CallerOK
  <2>2. MovesOn(h, t, r)
    BY <1>3 DEF ReadNfs, MovesOn
  <2>3. task[h][t] # NoTask
    BY <1>1, <1>3 DEF ReadNfs
  <2> HIDE DEF r
  <2> QED
    BY <2>1, <2>2, <2>3, TaskUpdate
<1>4. CASE Get(h, t)
  <2> DEFINE r == [task[h][t] EXCEPT !.at = "waiting"]
  <2>1. task[h][t] \in Requests
    BY DEF RequestsOK
  <2>2. r \in Requests /\ r.at = "waiting"
    BY <2>1 DEF Requests
  <2>3. MovesOn(h, t, r)
    BY <1>4 DEF Get, MovesOn
  <2>4. task[h][t] # NoTask
    BY <1>1, <1>4 DEF Get
  <2> HIDE DEF r
  <2> QED
    BY <2>2, <2>3, <2>4, TaskUpdate
<1>5. CASE GiveKey(h, t)
  <2>1. MovesOn(h, t, NoTask)
    BY <1>5 DEF GiveKey, MovesOn
  <2>2. task[h][t] # NoTask
    BY <1>1, <1>5 DEF GiveKey
  <2> QED
    BY <1>1, <2>1, <2>2, TaskUpdate
<1> QED
  BY <1>2, <1>3, <1>4, <1>5 DEF ThreadStep

(* The steps of the system, each with its own kind of effect.               *)
LEMMA NextParts ==
  ASSUME [Next]_vars
  PROVE  \/ \E n \in {1, 2} : Call(n)
         \/ Construct \/ Swap \/ Stop \/ Destroy \/ Join \/ Joined \/ Connect
         \/ Work \/ CleanUp \/ Throws \/ Escapes \/ Quit
         \/ \E h \in Handlers : OnPublicKeyRequested(h)
         \/ \E h \in Handlers : \E t \in Threads : ThreadStep(h, t)
         \/ UNCHANGED vars
PROOF
  BY DEF Next, CallerStep

(* Threads leave the caller's variables alone.                              *)
LEMMA ThreadsLeaveCaller ==
  ASSUME NEW h, NEW t, ThreadStep(h, t)
  PROVE  UNCHANGED caller
PROOF
  BY DEF ThreadStep, TestNfs, ReadNfs, Get, GiveKey

(* They take requests only from the queue of their own handler.             *)
LEMMA ThreadsTake ==
  ASSUME RequestsOK, NEW h \in Handlers, NEW t, ThreadStep(h, t)
  PROVE  /\ posted' \in [Handlers -> 0 .. MaxPosted]
         /\ \A i \in Handlers : i # h => posted'[i] = posted[i]
PROOF
<1>1. CASE TestNfs(h, t)
  BY <1>1 DEF TestNfs, RequestsOK
<1>2. CASE posted' = posted
  BY <1>2 DEF RequestsOK
<1> QED
  BY <1>1, <1>2 DEF ThreadStep, ReadNfs, Get, GiveKey

(* The caller numbers no handler it has not constructed. *)
LEMMA CallerKept ==
  ASSUME CallerOK, HandlersExist, [Next]_vars
  PROVE  CallerOK'
PROOF
<1> USE DEF history, caller, Handlers, Steps, Dangling, CallerOK, HandlersExist
<1>1. ASSUME NEW n \in {1, 2}, Call(n) PROVE CallerOK'
  BY <1>1 DEF Call
<1>2. CASE Construct
  BY <1>2 DEF Construct
<1>3. CASE Swap
  BY <1>3 DEF Swap
<1>4. CASE Stop
  BY <1>4 DEF Stop
<1>5. CASE Destroy
  BY <1>5 DEF Destroy
<1>6. CASE Join
  BY <1>6 DEF Join
<1>7. CASE Joined
  BY <1>7 DEF Joined
<1>8. CASE Connect
  BY <1>8 DEF Connect
<1>9. CASE Work
  BY <1>9 DEF Work
<1>10. CASE CleanUp
  BY <1>10 DEF CleanUp
<1>11. CASE Throws
  BY <1>11 DEF Throws
<1>12. CASE Quit
  BY <1>12 DEF Quit
<1>16. CASE Escapes
  BY <1>16 DEF Escapes
<1>13. ASSUME NEW h \in Handlers, OnPublicKeyRequested(h) PROVE CallerOK'
  BY <1>13 DEF OnPublicKeyRequested
<1>14. ASSUME NEW h \in Handlers, NEW t \in Threads, ThreadStep(h, t) PROVE CallerOK'
  <2>1. UNCHANGED caller
    BY <1>14, ThreadsLeaveCaller
  <2> QED
    BY <2>1
<1>15. CASE UNCHANGED vars
  BY <1>15 DEF vars
<1> QED
  BY <1>1, <1>2, <1>3, <1>4, <1>5, <1>6, <1>7, <1>8,
     <1>9, <1>10, <1>11, <1>12, <1>13, <1>14, <1>15, <1>16, NextParts

(* A handler exists from its construction until its replacement has stopped it. *)
LEMMA HandlersExistKept ==
  ASSUME CallerOK, HandlersExist, [Next]_vars
  PROVE  HandlersExist'
PROOF
<1> USE DEF history, caller, Handlers, Steps, Dangling, CallerOK, HandlersExist, Existing
<1>1. ASSUME NEW n \in {1, 2}, Call(n) PROVE HandlersExist'
  BY <1>1 DEF Call
<1>2. CASE Construct
  BY <1>2 DEF Construct
<1>3. CASE Swap
  BY <1>3 DEF Swap
<1>4. CASE Stop
  BY <1>4 DEF Stop
<1>5. CASE Destroy
  BY <1>5 DEF Destroy
<1>6. CASE Join
  BY <1>6 DEF Join
<1>7. CASE Joined
  BY <1>7 DEF Joined
<1>8. CASE Connect
  BY <1>8 DEF Connect
<1>9. CASE Work
  BY <1>9 DEF Work
<1>10. CASE CleanUp
  BY <1>10 DEF CleanUp
<1>11. CASE Throws
  BY <1>11 DEF Throws
<1>12. CASE Quit
  BY <1>12 DEF Quit
<1>16. CASE Escapes
  BY <1>16 DEF Escapes
<1>13. ASSUME NEW h \in Handlers, OnPublicKeyRequested(h) PROVE HandlersExist'
  BY <1>13 DEF OnPublicKeyRequested
<1>14. ASSUME NEW h \in Handlers, NEW t \in Threads, ThreadStep(h, t) PROVE HandlersExist'
  <2>1. UNCHANGED caller
    BY <1>14, ThreadsLeaveCaller
  <2> QED
    BY <2>1
<1>15. CASE UNCHANGED vars
  BY <1>15 DEF vars
<1> QED
  BY <1>1, <1>2, <1>3, <1>4, <1>5, <1>6, <1>7, <1>8,
     <1>9, <1>10, <1>11, <1>12, <1>13, <1>14, <1>15, <1>16, NextParts

(* client_nfs_ falls behind routing_handler_ only while the caller is joining. *)
LEMMA NfsPlaceKept ==
  ASSUME CallerOK, HandlersExist, NfsPlace, [Next]_vars
  PROVE  NfsPlace'
PROOF
<1> USE DEF caller, history, Handlers, Steps, Dangling, CallerOK, HandlersExist, Existing, NfsPlace, LeftOver
<1>1. ASSUME NEW n \in {1, 2}, Call(n) PROVE NfsPlace'
  BY <1>1 DEF Call
<1>2. CASE Construct
  BY <1>2 DEF Construct
<1>3. CASE Swap
  BY <1>3 DEF Swap
<1>4. CASE Stop
  BY <1>4 DEF Stop
<1>5. CASE Destroy
  <2>1. /\ step = "destroy" /\ nfs' = nfs /\ handler' = handler /\ made' = made
        /\ step' = IF handler = 0 THEN "gone" ELSE "join"
    BY <1>5 DEF Destroy
  <2>2. handler # 0 => nfs # handler
    BY <2>1
  <2>3. nfs = Dangling => handler = 0
    BY <2>1
  <2>4. nfs <= made
    OBVIOUS
  <2> HIDE DEF LeftOver
  <2> QED
    BY <2>1, <2>2, <2>3, <2>4
<1>6. CASE Join
  BY <1>6 DEF Join
<1>7. CASE Joined
  BY <1>7 DEF Joined
<1>8. CASE Connect
  BY <1>8 DEF Connect
<1>9. CASE Work
  BY <1>9 DEF Work
<1>10. CASE CleanUp
  BY <1>10 DEF CleanUp
<1>11. CASE Throws
  BY <1>11 DEF Throws
<1>12. CASE Quit
  BY <1>12 DEF Quit
<1>16. CASE Escapes
  BY <1>16 DEF Escapes
<1>13. ASSUME NEW h \in Handlers, OnPublicKeyRequested(h) PROVE NfsPlace'
  BY <1>13 DEF OnPublicKeyRequested
<1>14. ASSUME NEW h \in Handlers, NEW t \in Threads, ThreadStep(h, t) PROVE NfsPlace'
  <2>1. UNCHANGED caller
    BY <1>14, ThreadsLeaveCaller
  <2> QED
    BY <2>1
<1>15. CASE UNCHANGED vars
  BY <1>15 DEF vars
<1> QED
  BY <1>1, <1>2, <1>3, <1>4, <1>5, <1>6, <1>7, <1>8,
     <1>9, <1>10, <1>11, <1>12, <1>13, <1>14, <1>15, <1>16, NextParts

(* Whether a call has escaped is noted by every step.                       *)
LEMMA EscapedKept ==
  ASSUME EscapedOK, [Next]_vars
  PROVE  EscapedOK'
PROOF
<1>1. escaped' \in {FALSE, escaped, escaped \/ step = "connect"}
  BY DEF Next, CallerStep, ThreadStep, Call, Construct, Swap, Stop, Destroy, Join, Joined, Connect,
     Work, CleanUp, Throws, Escapes, Quit, OnPublicKeyRequested, TestNfs, ReadNfs, Get, GiveKey,
     vars, caller, history
<1> QED
  BY <1>1 DEF EscapedOK

(* A fault is of a known kind, at a known step.                             *)
LEMMA FaultsOf ==
  ASSUME CallerOK, RequestsOK, EscapedOK,
         NEW w \in {"null nfs", "freed nfs", "dead routing", "dead service"}, Fault(w)
  PROVE  faults' \subseteq Faults
PROOF
<1>1. [what |-> w, step |-> step, escaped |-> escaped] \in Faults
  BY DEF Faults, CallerOK, EscapedOK
<1> QED
  BY <1>1 DEF Fault, RequestsOK

(* Requests stay within their queues, and their faults are of the known kinds. *)
LEMMA RequestsKept ==
  ASSUME CallerOK, RequestsOK, EscapedOK, [Next]_vars
  PROVE  RequestsOK'
PROOF
<1> USE DEF requests, history
<1>1. ASSUME NEW n \in {1, 2}, Call(n) PROVE RequestsOK'
  BY <1>1 DEF Call, RequestsOK
<1>2. CASE Construct
  BY <1>2 DEF Construct, RequestsOK
<1>3. CASE Swap
  BY <1>3 DEF Swap, RequestsOK
<1>4. CASE Stop
  BY <1>4 DEF Stop, RequestsOK
<1>5. CASE Destroy
  <2>1. 0 \in 0 .. MaxPosted
    BY KeyRequestsAssumption DEF KeyRequestsAssumption
  <2>2. posted' \in [Handlers -> 0 .. MaxPosted]
    BY <1>5, <2>1 DEF Destroy, RequestsOK
  <2> QED
    BY <1>5, <2>2 DEF Destroy, RequestsOK
<1>6. CASE Join
  BY <1>6 DEF Join, RequestsOK
<1>7. CASE Joined
  BY <1>7 DEF Joined, RequestsOK
<1>8. CASE Connect
  BY <1>8 DEF Connect, RequestsOK
<1>9. CASE Work
  BY <1>9 DEF Work, RequestsOK
<1>10. CASE CleanUp
  BY <1>10 DEF CleanUp, RequestsOK
<1>11. CASE Throws
  BY <1>11 DEF Throws, RequestsOK
<1>12. CASE Quit
  BY <1>12 DEF Quit, RequestsOK
<1>16. CASE Escapes
  BY <1>16 DEF Escapes, RequestsOK
<1>13. ASSUME NEW h \in Handlers, OnPublicKeyRequested(h) PROVE RequestsOK'
  <2>1. posted' \in [Handlers -> 0 .. MaxPosted] /\ task' = task
    <3>1. posted[h] < MaxPosted => posted[h] + 1 \in 0 .. MaxPosted
      BY KeyRequestsAssumption DEF RequestsOK, KeyRequestsAssumption
    <3> QED
      BY <1>13, <3>1 DEF OnPublicKeyRequested, RequestsOK
  <2>2. faults' = faults \/ Fault("dead service")
    BY <1>13 DEF OnPublicKeyRequested
  <2> QED
    BY <2>1, <2>2, FaultsOf DEF RequestsOK
<1>14. ASSUME NEW h \in Handlers, NEW t \in Threads, ThreadStep(h, t) PROVE RequestsOK'
  <2>1. posted' \in [Handlers -> 0 .. MaxPosted] /\ task' \in [Handlers -> [Threads -> Requests]]
    BY <1>14, ThreadsTake, TaskSteps
  <2>2. faults' = faults \/ \E w \in {"null nfs", "freed nfs", "dead routing"} : Fault(w)
    BY <1>14 DEF ThreadStep, TestNfs, ReadNfs, Get, GiveKey
  <2>3. faults' \subseteq Faults
    BY <2>2, FaultsOf DEF RequestsOK
  <2> QED
    BY <2>1, <2>3 DEF RequestsOK
<1>15. CASE UNCHANGED vars
  BY <1>15 DEF vars, caller, requests, RequestsOK
<1> QED
  BY <1>1, <1>2, <1>3, <1>4, <1>5, <1>6, <1>7, <1>8,
     <1>9, <1>10, <1>11, <1>12, <1>13, <1>14, <1>15, <1>16, NextParts

(* Each request keeps what it read. *)
LEMMA UsesSomethingKept ==
  ASSUME CallerOK, RequestsOK, UsesSomething, [Next]_vars
  PROVE  UsesSomething'
PROOF
<1> USE DEF requests, history, UsesSomething
<1>1. ASSUME NEW n \in {1, 2}, Call(n) PROVE UsesSomething'
  BY <1>1 DEF Call
<1>2. CASE Construct
  BY <1>2 DEF Construct
<1>3. CASE Swap
  BY <1>3 DEF Swap
<1>4. CASE Stop
  BY <1>4 DEF Stop
<1>5. CASE Destroy
  BY <1>5 DEF Destroy
<1>6. CASE Join
  BY <1>6 DEF Join
<1>7. CASE Joined
  BY <1>7 DEF Joined
<1>8. CASE Connect
  BY <1>8 DEF Connect
<1>9. CASE Work
  BY <1>9 DEF Work
<1>10. CASE CleanUp
  BY <1>10 DEF CleanUp
<1>11. CASE Throws
  BY <1>11 DEF Throws
<1>12. CASE Quit
  BY <1>12 DEF Quit
<1>16. CASE Escapes
  BY <1>16 DEF Escapes
<1>13. ASSUME NEW h \in Handlers, OnPublicKeyRequested(h) PROVE UsesSomething'
  BY <1>13 DEF OnPublicKeyRequested
<1>14. ASSUME NEW h \in Handlers, NEW t \in Threads, ThreadStep(h, t) PROVE UsesSomething'
  BY <1>14, TaskSteps
<1>15. CASE UNCHANGED vars
  BY <1>15 DEF vars, caller, requests, RequestsOK
<1> QED
  BY <1>1, <1>2, <1>3, <1>4, <1>5, <1>6, <1>7, <1>8,
     <1>9, <1>10, <1>11, <1>12, <1>13, <1>14, <1>15, <1>16, NextParts

(* No request outlives its handler. *)
LEMMA StoppedKept ==
  ASSUME CallerOK, RequestsOK, HandlersExist, StoppedWhenDestroyed, [Next]_vars
  PROVE  StoppedWhenDestroyed'
PROOF
<1> USE DEF requests, history, StoppedWhenDestroyed
<1>1. ASSUME NEW n \in {1, 2}, Call(n) PROVE StoppedWhenDestroyed'
  BY <1>1 DEF Call
<1>2. CASE Construct
  BY <1>2 DEF Construct
<1>3. CASE Swap
  BY <1>3 DEF Swap
<1>4. CASE Stop
  BY <1>4 DEF Stop
<1>5. CASE Destroy
  BY <1>5 DEF Destroy
<1>6. CASE Join
  BY <1>6 DEF Join
<1>7. CASE Joined
  BY <1>7 DEF Joined
<1>8. CASE Connect
  BY <1>8 DEF Connect
<1>9. CASE Work
  BY <1>9 DEF Work
<1>10. CASE CleanUp
  BY <1>10 DEF CleanUp
<1>11. CASE Throws
  BY <1>11 DEF Throws
<1>12. CASE Quit
  BY <1>12 DEF Quit
<1>16. CASE Escapes
  BY <1>16 DEF Escapes
<1>13. ASSUME NEW h \in Handlers, OnPublicKeyRequested(h) PROVE StoppedWhenDestroyed'
  BY <1>13 DEF OnPublicKeyRequested, caller
<1>14. ASSUME NEW h \in Handlers, NEW t \in Threads, ThreadStep(h, t) PROVE StoppedWhenDestroyed'
  BY <1>14, TaskSteps, ThreadsLeaveCaller DEF Stopped, caller
<1>15. CASE UNCHANGED vars
  BY <1>15 DEF vars, caller, requests, RequestsOK
<1> QED
  BY <1>1, <1>2, <1>3, <1>4, <1>5, <1>6, <1>7, <1>8,
     <1>9, <1>10, <1>11, <1>12, <1>13, <1>14, <1>15, <1>16, NextParts

(* Requests come to handlers that have joined. *)
LEMMA JoinedFirstKept ==
  ASSUME CallerOK, RequestsOK, HandlersExist, JoinedFirst, [Next]_vars
  PROVE  JoinedFirst'
PROOF
<1> USE DEF requests, history, JoinedFirst, HandlersExist, CallerOK
<1>1. ASSUME NEW n \in {1, 2}, Call(n) PROVE JoinedFirst'
  BY <1>1 DEF Call
<1>2. CASE Construct
  BY <1>2 DEF Construct
<1>3. CASE Swap
  BY <1>3 DEF Swap
<1>4. CASE Stop
  BY <1>4 DEF Stop
<1>5. CASE Destroy
  BY <1>5 DEF Destroy
<1>6. CASE Join
  BY <1>6 DEF Join
<1>7. CASE Joined
  BY <1>7 DEF Joined
<1>8. CASE Connect
  BY <1>8 DEF Connect
<1>9. CASE Work
  BY <1>9 DEF Work
<1>10. CASE CleanUp
  BY <1>10 DEF CleanUp
<1>11. CASE Throws
  BY <1>11 DEF Throws
<1>12. CASE Quit
  BY <1>12 DEF Quit
<1>16. CASE Escapes
  BY <1>16 DEF Escapes
<1>13. ASSUME NEW h \in Handlers, OnPublicKeyRequested(h) PROVE JoinedFirst'
  BY <1>13 DEF OnPublicKeyRequested, caller, RequestsOK
<1>14. ASSUME NEW h \in Handlers, NEW t \in Threads, ThreadStep(h, t) PROVE JoinedFirst'
  <2>1. UNCHANGED caller
    BY <1>14, ThreadsLeaveCaller
  <2>2. h \in joined
    BY <1>14, TaskSteps
  <2>3. \A i \in Handlers : i # h => posted'[i] = posted[i]
    BY <1>14, ThreadsTake
  <2>4. \A i \in Handlers : i # h => \A j \in Threads : task'[i][j] = task[i][j]
    BY <1>14, TaskSteps
  <2>5. joined' = joined /\ made' = made /\ step' = step /\ handler' = handler
    BY <2>1 DEF caller
  <2> QED
    BY <2>2, <2>3, <2>4, <2>5
<1>15. CASE UNCHANGED vars
  BY <1>15 DEF vars, caller, requests, RequestsOK
<1> QED
  BY <1>1, <1>2, <1>3, <1>4, <1>5, <1>6, <1>7, <1>8,
     <1>9, <1>10, <1>11, <1>12, <1>13, <1>14, <1>15, <1>16, NextParts

(* Where a fault leaves the window as it is.                                *)
LEMMA FaultKept ==
  ASSUME DeadRoutingWindow, NEW w, Fault(w),
         w = "dead routing" => step \in {"joining", "connect", "cleanup"} \/ escaped
  PROVE  DeadRoutingWindow'
PROOF
<1> SUFFICES ASSUME NEW f \in faults', f.what = "dead routing"
             PROVE  f.step \in {"joining", "connect", "cleanup"} \/ f.escaped
  BY DEF DeadRoutingWindow
<1>1. CASE f \in faults
  BY <1>1 DEF DeadRoutingWindow
<1>2. CASE f = [what |-> w, step |-> step, escaped |-> escaped]
  BY <1>2
<1> QED
  BY <1>1, <1>2 DEF Fault

(* Requests fault over dead routing in one window only. *)
LEMMA WindowKept ==
  ASSUME CallerOK, RequestsOK, HandlersExist, NfsPlace, JoinedFirst, UsesSomething, StoppedWhenDestroyed,
         DeadRoutingWindow, [Next]_vars
  PROVE  DeadRoutingWindow'
PROOF
<1> USE DEF requests, history, DeadRoutingWindow
<1>1. ASSUME NEW n \in {1, 2}, Call(n) PROVE DeadRoutingWindow'
  BY <1>1 DEF Call
<1>2. CASE Construct
  BY <1>2 DEF Construct
<1>3. CASE Swap
  BY <1>3 DEF Swap
<1>4. CASE Stop
  BY <1>4 DEF Stop
<1>5. CASE Destroy
  BY <1>5 DEF Destroy
<1>6. CASE Join
  BY <1>6 DEF Join
<1>7. CASE Joined
  BY <1>7 DEF Joined
<1>8. CASE Connect
  BY <1>8 DEF Connect
<1>9. CASE Work
  BY <1>9 DEF Work
<1>10. CASE CleanUp
  BY <1>10 DEF CleanUp
<1>11. CASE Throws
  BY <1>11 DEF Throws
<1>12. CASE Quit
  BY <1>12 DEF Quit
<1>16. CASE Escapes
  BY <1>16 DEF Escapes
<1>13. ASSUME NEW h \in Handlers, OnPublicKeyRequested(h) PROVE DeadRoutingWindow'
  <2>1. CASE faults' = faults
    BY <2>1
  <2>2. CASE Fault("dead service")
    BY <2>2, FaultKept
  <2> QED
    BY <1>13, <2>1, <2>2 DEF OnPublicKeyRequested
<1>14. ASSUME NEW h \in Handlers, NEW t \in Threads, ThreadStep(h, t) PROVE DeadRoutingWindow'
  <2>1. CASE faults' = faults
    BY <2>1
  <2>2. CASE Fault("null nfs") \/ Fault("freed nfs")
    BY <2>2, FaultKept
  <2>3. CASE /\ Fault("dead routing")
             /\ task[h][t].at = "using" /\ task[h][t].nfs = nfs /\ nfs # Dangling /\ nfs \notin live
    <3>1. NoTask.at = "none"
      BY DEF NoTask
    <3>2. nfs # 0 /\ task[h][t] # NoTask
      BY <2>3, <3>1 DEF UsesSomething
    <3>3. h \in live /\ ~ (h = old /\ step = "destroy") /\ h \in joined
      BY <3>2 DEF StoppedWhenDestroyed, JoinedFirst
    <3>4. step \in {"joining", "connect", "cleanup"} \/ escaped
      BY <2>3, <3>2, <3>3 DEF CallerOK, Steps, Handlers, HandlersExist, Existing, NfsPlace,
         LeftOver, JoinedFirst
    <3> QED
      BY <2>3, <3>4, FaultKept
  <2>4. TestNfs(h, t) \/ GiveKey(h, t) => faults' = faults
    BY DEF TestNfs, GiveKey
  <2>5. ReadNfs(h, t) => faults' = faults \/ Fault("null nfs")
    BY DEF ReadNfs
  <2>6. Get(h, t) => \/ faults' = faults \/ Fault("freed nfs")
                     \/ /\ Fault("dead routing")
                        /\ task[h][t].at = "using" /\ task[h][t].nfs = nfs
                        /\ nfs # Dangling /\ nfs \notin live
    BY DEF Get
  <2> QED
    BY <1>14, <2>1, <2>2, <2>3, <2>4, <2>5, <2>6 DEF ThreadStep
<1>15. CASE UNCHANGED vars
  BY <1>15 DEF vars, caller, requests, RequestsOK
<1> QED
  BY <1>1, <1>2, <1>3, <1>4, <1>5, <1>6, <1>7, <1>8,
     <1>9, <1>10, <1>11, <1>12, <1>13, <1>14, <1>15, <1>16, NextParts

(* When the old handler has been stopped and the new one has not joined no  *)
(* request is being served.                                                *)
LEMMA NoneServed ==
  ASSUME HandlersExist, JoinedFirst, StoppedWhenDestroyed, step \in {"destroy", "join", "gone"},
         NEW h \in Handlers, NEW t \in Threads
  PROVE  task[h][t] = NoTask
PROOF
<1>1. task[h][t] # NoTask => h \in live /\ ~ (h = old /\ step = "destroy") /\ h \in joined
  BY DEF StoppedWhenDestroyed, JoinedFirst
<1> QED
  BY <1>1 DEF HandlersExist, Existing, JoinedFirst

(* What one step of a thread makes of its request.                          *)
LEMMA TestsAndReads ==
  ASSUME RequestsOK, NEW h \in Handlers, NEW t \in Threads, ThreadStep(h, t)
  PROVE  /\ task'[h][t].at = "tested" => nfs # 0
         /\ task'[h][t].at = "using" => task[h][t] # NoTask /\ task'[h][t].nfs = nfs
         /\ task'[h][t].at = "waiting" =>
              Get(h, t) /\ task[h][t].at = "using" /\ task'[h][t].nfs = task[h][t].nfs
         /\ \A i \in Handlers : \A j \in Threads : i # h \/ j # t => task'[i][j] = task[i][j]
PROOF
<1>1. NoTask.at = "none" /\ task \in [Handlers -> [Threads -> Requests]]
  BY DEF NoTask, RequestsOK
<1>2. CASE TestNfs(h, t)
  BY <1>1, <1>2 DEF TestNfs
<1>3. CASE ReadNfs(h, t)
  BY <1>1, <1>3 DEF ReadNfs
<1>4. CASE Get(h, t)
  <2>1. task[h][t] \in Requests
    BY <1>1
  <2>2. task'[h][t].at = "waiting"
    BY <1>1, <1>4, <2>1 DEF Get, Requests
  <2>3. task'[h][t].nfs = task[h][t].nfs
    BY <1>1, <1>4, <2>1 DEF Get, Requests
  <2> QED
    BY <1>1, <1>4, <2>2, <2>3 DEF Get
<1>5. CASE GiveKey(h, t)
  BY <1>1, <1>5 DEF GiveKey
<1> QED
  BY <1>2, <1>3, <1>4, <1>5 DEF ThreadStep

(* client_nfs_ is not changed while the network is joined. *)
LEMMA LatestKept ==
  ASSUME CallerOK, RequestsOK, HandlersExist, JoinedFirst, StoppedWhenDestroyed,
         ReadsLatest, [Next]_vars
  PROVE  ReadsLatest'
PROOF
<1> USE DEF requests, history, ReadsLatest
<1>1. ASSUME NEW n \in {1, 2}, Call(n) PROVE ReadsLatest'
  BY <1>1 DEF Call
<1>2. CASE Construct \/ Swap \/ Stop \/ Destroy \/ Work \/ CleanUp \/ Throws \/ Escapes \/ Quit
  BY <1>2 DEF Construct, Swap, Stop, Destroy, Work, CleanUp, Throws, Escapes, Quit
<1>3. CASE Join
  <2>1. \A h \in Handlers : \A t \in Threads : task[h][t] = NoTask
    BY <1>3, NoneServed DEF Join
  <2> QED
    BY <1>3, <2>1 DEF Join, NoTask
<1>4. CASE Joined
  BY <1>4 DEF Joined
<1>5. CASE Connect
  BY <1>5 DEF Connect, HandlersExist
<1>6. ASSUME NEW h \in Handlers, OnPublicKeyRequested(h) PROVE ReadsLatest'
  BY <1>6 DEF OnPublicKeyRequested, caller
<1>7. ASSUME NEW h \in Handlers, NEW t \in Threads, ThreadStep(h, t) PROVE ReadsLatest'
  BY <1>7, ThreadsLeaveCaller, TestsAndReads DEF caller
<1>8. CASE UNCHANGED vars
  BY <1>8 DEF vars, caller
<1> QED
  BY <1>1, <1>2, <1>3, <1>4, <1>5, <1>6, <1>7, <1>8, NextParts

(* Where a fault leaves this window as it is.                               *)
LEMMA StaleFault ==
  ASSUME StaleNfsWindow, NEW w, Fault(w),
         w = "freed nfs" => step \in {"work", "cleanup", "idle", "construct", "swap", "stop"},
         w = "null nfs" => step \in {"cleanup", "idle", "construct", "swap", "stop"}
  PROVE  StaleNfsWindow'
PROOF
<1> SUFFICES ASSUME NEW f \in faults'
    PROVE  /\ f.what = "freed nfs" => f.step \in {"work", "cleanup", "idle", "construct", "swap", "stop"}
           /\ f.what = "null nfs" => f.step \in {"cleanup", "idle", "construct", "swap", "stop"}
  BY DEF StaleNfsWindow
<1>1. CASE f \in faults
  BY <1>1 DEF StaleNfsWindow
<1>2. CASE f = [what |-> w, step |-> step, escaped |-> escaped]
  BY <1>2
<1> QED
  BY <1>1, <1>2 DEF Fault

(* A request meets a client_nfs_ that was reset or replaced under it only   *)
(* outside a join. *)
LEMMA StaleKept ==
  ASSUME CallerOK, RequestsOK, HandlersExist, NfsPlace, JoinedFirst, StoppedWhenDestroyed,
         ReadsLatest, StaleNfsWindow, [Next]_vars
  PROVE  StaleNfsWindow'
PROOF
<1>1. NoTask.at = "none"
  BY DEF NoTask
<1>2. ASSUME NEW n \in {1, 2}, Call(n) PROVE StaleNfsWindow'
  BY <1>2 DEF Call, history, StaleNfsWindow
<1>3. CASE Construct \/ Swap \/ Stop \/ Destroy \/ Work \/ CleanUp \/ Throws \/ Escapes \/ Quit
  BY <1>3 DEF Construct, Swap, Stop, Destroy, Work, CleanUp, Throws, Escapes, Quit, history,
     StaleNfsWindow
<1>4. CASE Join \/ Joined \/ Connect
  BY <1>4 DEF Join, Joined, Connect, history, StaleNfsWindow
<1>5. ASSUME NEW w \in {"dead service", "dead routing"}, Fault(w) PROVE StaleNfsWindow'
  BY <1>5, StaleFault
<1>6. ASSUME NEW h \in Handlers, OnPublicKeyRequested(h) PROVE StaleNfsWindow'
  BY <1>5, <1>6 DEF OnPublicKeyRequested, StaleNfsWindow
<1>7. ASSUME NEW h \in Handlers, NEW t \in Threads, ThreadStep(h, t) PROVE StaleNfsWindow'
  <2>1. CASE faults' = faults
    BY <2>1 DEF StaleNfsWindow
  <2>2. CASE Fault("null nfs") /\ task[h][t].at = "tested" /\ nfs = 0
    <3>1. task[h][t] # NoTask
      BY <1>1, <2>2
    <3>2. step \in {"cleanup", "idle", "construct", "swap", "stop"}
      BY <2>2, <3>1, NoneServed DEF ReadsLatest, CallerOK, Steps
    <3> QED
      BY <2>2, <3>2, StaleFault
  <2>3. CASE /\ Fault("freed nfs") /\ task[h][t].at = "using"
             /\ task[h][t].nfs # nfs \/ nfs = Dangling
    <3>1. task[h][t] # NoTask
      BY <1>1, <2>3
    <3>2. nfs = Dangling => step \notin {"joining", "connect"}
      BY DEF NfsPlace
    <3>3. step \in {"work", "cleanup", "idle", "construct", "swap", "stop"}
      BY <2>3, <3>1, <3>2, NoneServed DEF ReadsLatest, CallerOK, Steps
    <3> QED
      BY <2>3, <3>3, StaleFault
  <2>4. CASE Fault("dead routing")
    BY <1>5, <2>4
  <2> QED
    BY <1>7, <2>1, <2>2, <2>3, <2>4 DEF ThreadStep, TestNfs, ReadNfs, Get, GiveKey
<1>8. CASE UNCHANGED vars
  BY <1>8 DEF vars, StaleNfsWindow
<1> QED
  BY <1>2, <1>3, <1>4, <1>6, <1>7, <1>8, NextParts

(* A request reads a client_nfs_ over its own handler's routing, or over     *)
(* routing that is gone: two routings exist only before the newer is joined. *)
LEMMA OwnRoutingKept ==
  ASSUME CallerOK, RequestsOK, HandlersExist, NfsPlace, JoinedFirst, StoppedWhenDestroyed,
         OwnRouting, [Next]_vars
  PROVE  OwnRouting'
PROOF
<1>1. /\ made \in Nat /\ live \subseteq 1 .. made
  BY KeyRequestsAssumption DEF HandlersExist, Existing, CallerOK, Steps, KeyRequestsAssumption
<1>2. ASSUME NEW n \in {1, 2}, Call(n) PROVE OwnRouting'
  BY <1>2 DEF Call, requests, OwnRouting
<1>3. CASE Construct
  <2>1. task' = task /\ made' = made + 1 /\ live' = live \cup {made + 1}
    BY <1>3 DEF Construct, requests
  <2>2. ASSUME NEW h \in Handlers, NEW t \in Threads, task[h][t].at \in {"using", "waiting"}
        PROVE  task[h][t].nfs <= made + 1 /\ task[h][t].nfs # made + 1
    <3>1. task[h][t].nfs \in Int /\ task[h][t].nfs <= made
      BY <2>2 DEF OwnRouting, RequestsOK, Requests, Dangling
    <3> QED
      BY <1>1, <3>1
  <2> QED
    BY <2>1, <2>2 DEF OwnRouting
<1>4. CASE Swap \/ Stop \/ Join \/ Joined \/ Connect \/ Work \/ CleanUp \/ Throws \/ Escapes \/ Quit
  BY <1>4 DEF Swap, Stop, Join, Joined, Connect, Work, CleanUp, Throws, Escapes, Quit, requests, OwnRouting
<1>5. CASE Destroy
  BY <1>5 DEF Destroy, requests, OwnRouting
<1>6. ASSUME NEW h \in Handlers, OnPublicKeyRequested(h) PROVE OwnRouting'
  BY <1>6 DEF OnPublicKeyRequested, caller, OwnRouting
<1>7. ASSUME NEW h \in Handlers, NEW t \in Threads, ThreadStep(h, t) PROVE OwnRouting'
  <2>1. UNCHANGED caller
    BY <1>7, ThreadsLeaveCaller
  <2>2. ASSUME task'[h][t].at = "using"
        PROVE  task'[h][t].nfs <= made /\ (task'[h][t].nfs \in live => task'[h][t].nfs = h)
    <3>1. task[h][t] # NoTask /\ task'[h][t].nfs = nfs
      BY <1>7, <2>2, TestsAndReads
    <3>2. h \in live /\ ~ (h = old /\ step = "destroy") /\ h \in joined
      BY <3>1 DEF StoppedWhenDestroyed, JoinedFirst
    <3>3. nfs \in live => nfs = h
      BY <3>2 DEF CallerOK, Steps, Handlers, Dangling, HandlersExist, Existing, NfsPlace,
         LeftOver, JoinedFirst
    <3> QED
      BY <3>1, <3>3 DEF NfsPlace
  <2>3. ASSUME task'[h][t].at = "waiting"
        PROVE  task'[h][t].nfs <= made /\ (task'[h][t].nfs \in live => task'[h][t].nfs = h)
    BY <1>7, <2>3, TestsAndReads DEF OwnRouting
  <2> QED
    BY <1>7, <2>1, <2>2, <2>3, TestsAndReads DEF caller, OwnRouting
<1>8. CASE UNCHANGED vars
  BY <1>8 DEF vars, caller, requests, OwnRouting
<1> QED
  BY <1>2, <1>3, <1>4, <1>5, <1>6, <1>7, <1>8, NextParts

(* So a request that waits over its own routing is answered before Destroy. *)
LEMMA BlameKept ==
  ASSUME CallerOK, RequestsOK, OwnRouting, StoppedWhenDestroyed, LostAnswersBlamed, [Next]_vars
  PROVE  LostAnswersBlamed'
PROOF
<1>1. faults \subseteq faults'
  BY DEF Next, CallerStep, ThreadStep, Call, Construct, Swap, Stop, Destroy, Join, Joined, Connect,
     Work, CleanUp, Throws, Escapes, Quit, OnPublicKeyRequested, TestNfs, ReadNfs, Get, GiveKey, Fault,
     history, vars
<1>2. CASE live \subseteq live' /\ task' = task
  BY <1>1, <1>2 DEF LostAnswersBlamed
<1>3. CASE Destroy
  <2>1. task' = task /\ live' = live \ {old} /\ step = "destroy"
    BY <1>3 DEF Destroy
  <2>2. ASSUME NEW h \in Handlers, NEW t \in Threads, task[h][t].at = "waiting",
               task[h][t].nfs \in live
        PROVE  task[h][t].nfs # old
    <3>1. task[h][t] # NoTask /\ task[h][t].nfs = h
      BY <2>2 DEF OwnRouting, NoTask
    <3> QED
      BY <2>1, <3>1 DEF StoppedWhenDestroyed
  <2> QED
    BY <1>1, <2>1, <2>2 DEF LostAnswersBlamed
<1>4. ASSUME NEW h \in Handlers, NEW t \in Threads, ThreadStep(h, t) PROVE LostAnswersBlamed'
  <2>1. live' = live
    BY <1>4, ThreadsLeaveCaller DEF caller
  <2>2. ASSUME task'[h][t].at = "waiting", task'[h][t].nfs \notin live
        PROVE  \E f \in faults' : f.what \in {"dead routing", "freed nfs"}
    <3>1. Get(h, t) /\ task'[h][t].nfs = task[h][t].nfs
      BY <1>4, <2>2, TestsAndReads
    <3>2. PICK w \in {"dead routing", "freed nfs"} : Fault(w)
      BY <2>2, <3>1 DEF Get
    <3>3. [what |-> w, step |-> step, escaped |-> escaped] \in faults'
      BY <3>2 DEF Fault
    <3> QED
      BY <3>3
  <2>3. ASSUME NEW i \in Handlers, NEW j \in Threads, i # h \/ j # t,
               task'[i][j].at = "waiting", task'[i][j].nfs \notin live
        PROVE  \E f \in faults' : f.what \in {"dead routing", "freed nfs"}
    <3>1. task'[i][j] = task[i][j]
      BY <1>4, <2>3, TestsAndReads
    <3> QED
      BY <1>1, <2>3, <3>1 DEF LostAnswersBlamed
  <2> QED
    BY <2>1, <2>2, <2>3 DEF LostAnswersBlamed
<1>5. \/ live \subseteq live' /\ task' = task
      \/ Destroy
      \/ \E h \in Handlers : \E t \in Threads : ThreadStep(h, t)
  BY NextParts DEF Call, Construct, Swap, Stop, Join, Joined, Connect, Work, CleanUp, Throws, Escapes, Quit,
     OnPublicKeyRequested, requests, caller, vars
<1> QED
  BY <1>2, <1>3, <1>4, <1>5

-----------------------------------------------------------------------------
(* The invariant holds at first. *)
LEMMA InitInv == Init => IInv
PROOF
<1> USE DEF Init, Handlers, NoTask, Dangling, Steps
<1>1. Init => TypeOK
  <2>1. Init => CallerOK
    BY DEF CallerOK
  <2>2. Init => RequestsOK
    BY DEF RequestsOK, Requests
  <2>3. Init => EscapedOK
    BY DEF EscapedOK
  <2> QED
    BY <2>1, <2>2, <2>3, TypeParts
<1>2. Init => HandlersExist /\ NfsPlace
  BY DEF HandlersExist, Existing, NfsPlace
<1>3. Init => JoinedFirst /\ UsesSomething
  BY DEF JoinedFirst, UsesSomething
<1>4. Init => StoppedWhenDestroyed /\ DeadRoutingWindow /\ ReadsLatest /\ StaleNfsWindow
  BY DEF StoppedWhenDestroyed, DeadRoutingWindow, ReadsLatest, StaleNfsWindow
<1>5. Init => OwnRouting /\ LostAnswersBlamed
  BY DEF OwnRouting, LostAnswersBlamed
<1> QED
  BY <1>1, <1>2, <1>3, <1>4, <1>5 DEF IInv

(* And every step keeps it.                                                *)
THEOREM Invariance == Spec => []IInv
PROOF
<1>1. IInv /\ [Next]_vars => IInv'
  BY TypeParts, CallerKept, RequestsKept, EscapedKept, HandlersExistKept, NfsPlaceKept,
     JoinedFirstKept, UsesSomethingKept, StoppedKept, WindowKept, LatestKept, StaleKept,
     OwnRoutingKept, BlameKept DEF IInv
<1> QED
  BY <1>1, InitInv, PTL DEF Spec

(* Type correctness, for any number of threads and handlers.                *)
THEOREM TypeCorrect == Spec => []TypeOK
PROOF
<1>1. IInv => TypeOK
  BY DEF IInv
<1> QED
  BY <1>1, Invariance, PTL

(* The asio threads of a handler that has been destroyed serve nothing.     *)
THEOREM NoneOutlivesItsHandler == Spec => []StoppedWhenDestroyed
PROOF
<1>1. IInv => StoppedWhenDestroyed
  BY DEF IInv
<1> QED
  BY <1>1, Invariance, PTL

(* A request uses a client_nfs_ over destroyed routing only between the     *)
(* return of routing_handler_.reset and that of client_nfs_.reset, or after *)
(* an exception has escaped a call there and until client_nfs_ is set.      *)
THEOREM OneWindow == Spec => []DeadRoutingWindow
PROOF
<1>1. IInv => DeadRoutingWindow
  BY DEF IInv
<1> QED
  BY <1>1, Invariance, PTL

(* A client_nfs_ that was reset or replaced under a request, which no lock  *)
(* prevents, is used by it only until the next JoinNetwork has waited for   *)
(* it: the destructor of the old handler is the only barrier there is.      *)
THEOREM StaleUntilJoin == Spec => []StaleNfsWindow
PROOF
<1>1. IInv => StaleNfsWindow
  BY DEF IInv
<1> QED
  BY <1>1, Invariance, PTL

(* The destructor of a handler, and so JoinNetwork and ~ClientMaid, waits in *)
(* vain only for a request that has used a client_nfs_ replaced or reset     *)
(* under it, or one over destroyed routing.                                 *)
THEOREM LostAfterFaultOnly == Spec => []LostAnswersBlamed
PROOF
<1>1. IInv => LostAnswersBlamed
  BY DEF IInv
<1> QED
  BY <1>1, Invariance, PTL

(* Between calls client_nfs_ is null or over the current routing, unless an *)
(* exception has escaped a call between JoinNetwork and client_nfs_.reset.  *)
THEOREM LiveBetweenCalls == Spec => []IdleNfsLive
PROOF
<1>1. IInv => IdleNfsLive
  BY DEF IInv, NfsPlace, LeftOver, HandlersExist, Existing, IdleNfsLive
<1> QED
  BY <1>1, Invariance, PTL

=============================================================================
