---------------------------- MODULE KeyRequests ----------------------------
(***************************************************************************)
(* Public key requests while the client joins the network.                 *)
(*                                                                         *)
(* The caller's thread, in ClientMaid::CreateUser and LogIn                *)
(* (src/src/maidsafe/lifestuff/detail/client_maid.cc), replaces            *)
(* routing_handler_ and then client_nfs_, which is built over it.  At any  *)
(* time routing asks for public keys: RoutingHandler                       *)
(* (src/src/maidsafe/lifestuff/detail/routing_handler.cc) posts each       *)
(* request to its two asio threads, which test client_nfs_, dereference it *)
(* and wait for the answer.  No lock protects client_nfs_.                 *)
(*                                                                         *)
(* Handlers are numbered in the order they are constructed, and a          *)
(* client_nfs_ has the number of the handler whose routing it refers to.   *)
(***************************************************************************)
EXTENDS Integers

CONSTANTS
  Threads,     \* asio threads of a handler; two in the code
  MaxHandlers, \* bound: handlers that are ever constructed
  MaxPosted    \* bound: requests queued at one handler

ASSUME KeyRequestsAssumption == MaxHandlers \in Nat /\ MaxPosted \in Nat

Handlers == 1 .. MaxHandlers
Steps    == {"idle", "construct", "swap", "stop", "destroy", "join", "joining",
             "connect", "work", "cleanup", "gone"}
Dangling == -1           \* what is left of a unique_ptr that has been destroyed
NoTask   == [at |-> "none", nfs |-> 0]

VARIABLES
  step,     \* where the caller's thread is
  joins,    \* JoinNetwork calls left in this CreateUser (1) or LogIn (2)
  handler,  \* routing_handler_, or 0
  old,      \* the handler that routing_handler_.reset is destroying, or 0
  made,     \* handlers 1 .. made have been constructed
  live,     \* handlers whose routing exists
  joined,   \* handlers whose routing has been given its functors
  nfs,      \* client_nfs_, or 0 when it is null, or Dangling
  escaped,  \* history: a call left after JoinNetwork, client_nfs_ not set since
  posted,   \* handler -> requests queued
  task,     \* handler -> thread -> the request it is serving
  faults    \* history: uses of what does not exist, and where the caller was

caller   == <<step, joins, handler, old, made, live, joined, nfs, escaped>>
requests == <<posted, task>>
history  == <<escaped, faults>>
vars     == <<caller, requests, faults>>

Requests == [at : {"none", "tested", "using", "waiting"}, nfs : Dangling .. MaxHandlers]
Faults   == [what : {"null nfs", "freed nfs", "dead routing", "dead service"},
             step : Steps, escaped : BOOLEAN]

TypeOK ==
  /\ step \in Steps /\ joins \in 0 .. 2
  /\ handler \in 0 .. MaxHandlers /\ old \in 0 .. MaxHandlers
  /\ made \in 0 .. MaxHandlers
  /\ live \subseteq Handlers /\ joined \subseteq Handlers
  /\ nfs \in Dangling .. MaxHandlers /\ escaped \in BOOLEAN
  /\ posted \in [Handlers -> 0 .. MaxPosted]
  /\ task \in [Handlers -> [Threads -> Requests]]
  /\ faults \subseteq Faults

Init ==
  /\ step = "idle" /\ joins = 0
  /\ handler = 0 /\ old = 0 /\ made = 0 /\ live = {} /\ joined = {}
  /\ nfs = 0 /\ escaped = FALSE
  /\ posted = [h \in Handlers |-> 0]
  /\ task = [h \in Handlers |-> [t \in Threads |-> NoTask]]
  /\ faults = {}

Fault(what) ==
  faults' = faults \cup {[what |-> what, step |-> step, escaped |-> escaped]}

-----------------------------------------------------------------------------
(* The caller's thread.                                                    *)

Call(n) ==
  /\ step = "idle" /\ made + n <= MaxHandlers
  /\ step' = "construct" /\ joins' = n
  /\ UNCHANGED <<handler, old, made, live, joined, nfs, requests, history>>

(* new RoutingHandler: its asio threads start.                             *)
Construct ==
  /\ step = "construct"
  /\ made' = made + 1 /\ live' = live \cup {made + 1}
  /\ joins' = joins - 1
  /\ step' = "swap"
  /\ UNCHANGED <<handler, old, joined, nfs, requests, history>>

(* reset stores the new pointer and then destroys the old handler.         *)
Swap ==
  /\ step = "swap"
  /\ handler' = made /\ old' = handler
  /\ step' = IF handler = 0 THEN "join" ELSE "stop"
  /\ UNCHANGED <<joins, made, live, joined, nfs, requests, history>>

(* MUTANT: the destructor does not wait for the requests being served.     *)
Stop_NoWait ==
  /\ step = "stop"
  /\ step' = "destroy"
  /\ UNCHANGED <<joins, handler, old, made, live, joined, nfs, requests, history>>

(* asio_service_.Stop() starts no queued request and joins the threads.    *)
Stop ==
  /\ step = "stop"
  /\ \A t \in Threads : task[old][t] = NoTask
  /\ step' = "destroy"
  /\ UNCHANGED <<joins, handler, old, made, live, joined, nfs, requests, history>>

(* asio_service_, declared last, is destroyed first, and routing_ last.    *)
Destroy ==
  /\ step = "destroy"
  /\ live' = live \ {old} /\ old' = 0
  /\ posted' = [posted EXCEPT ![old] = 0]
  /\ step' = IF handler = 0 THEN "gone" ELSE "join"
  /\ UNCHANGED <<joins, handler, made, joined, nfs, task, history>>

Join ==
  /\ step = "join"
  /\ joined' = joined \cup {handler}
  /\ step' = "joining"
  /\ UNCHANGED <<joins, handler, old, made, live, nfs, requests, history>>

Joined ==
  /\ step = "joining"
  /\ step' = "connect"
  /\ UNCHANGED <<joins, handler, old, made, live, joined, nfs, requests, history>>

(* MUTANT: a client_nfs_ that is set is kept.                              *)
Connect_KeepsNfs ==
  /\ step = "connect"
  /\ nfs' = IF nfs = 0 THEN handler ELSE nfs
  /\ escaped' = FALSE
  /\ step' = "work"
  /\ UNCHANGED <<joins, handler, old, made, live, joined, requests, faults>>

(* client_nfs_.reset(new ClientNfs(routing_handler_->routing(), maid)).    *)
Connect ==
  /\ step = "connect"
  /\ nfs' = handler
  /\ escaped' = FALSE
  /\ step' = "work"
  /\ UNCHANGED <<joins, handler, old, made, live, joined, requests, faults>>

(* MUTANT: the call joins again after every join.                          *)
Work_JoinsAgain ==
  /\ step = "work"
  /\ step' = "construct"
  /\ UNCHANGED <<joins, handler, old, made, live, joined, nfs, requests, history>>

(* The rest of the call; LogIn joins a second time after GetSession.       *)
Work ==
  /\ step = "work"
  /\ step' = IF joins > 0 THEN "construct" ELSE "idle"
  /\ UNCHANGED <<joins, handler, old, made, live, joined, nfs, requests, history>>

(* A std::exception, or a failure of JoinNetwork, is caught.                *)
Throws ==
  /\ step \in {"construct", "joining", "connect", "work"}
  /\ step' = "cleanup"
  /\ UNCHANGED <<joins, handler, old, made, live, joined, nfs, requests, history>>

(* report_progress, called before each of these steps, throws what is not a *)
(* std::exception: no catch block sees it, and nothing is reset.            *)
Escapes ==
  /\ step \in {"construct", "connect", "work"}
  /\ joins' = 0
  /\ escaped' = (escaped \/ step = "connect")
  /\ step' = "idle"
  /\ UNCHANGED <<handler, old, made, live, joined, nfs, requests, faults>>

(* MUTANT: the catch blocks only rethrow.                                  *)
CleanUp_KeepsNfs ==
  /\ step = "cleanup"
  /\ joins' = 0
  /\ step' = "idle"
  /\ UNCHANGED <<handler, old, made, live, joined, nfs, requests, history>>

(* The catch blocks: client_nfs_.reset().                                  *)
CleanUp ==
  /\ step = "cleanup"
  /\ nfs' = 0 /\ joins' = 0
  /\ escaped' = FALSE
  /\ step' = "idle"
  /\ UNCHANGED <<handler, old, made, live, joined, requests, faults>>

(* ~ClientMaid destroys its members from the last to the first: client_nfs_, *)
(* and only then routing_handler_, whose threads still look at client_nfs_.  *)
(* A destroyed unique_ptr reads as null or as what it pointed to.            *)
Quit ==
  /\ step = "idle"
  /\ nfs' \in IF nfs = 0 THEN {0} ELSE {0, Dangling}
  /\ handler' = 0 /\ old' = handler
  /\ step' = IF handler = 0 THEN "gone" ELSE "stop"
  /\ UNCHANGED <<joins, made, live, joined, requests, history>>

-----------------------------------------------------------------------------
(* The routing threads and the asio threads of handler h.                  *)

Stopped(h) == h = old /\ step \in {"stop", "destroy"}

(* OnPublicKeyRequested posts; not safely when asio_service_ has gone.     *)
OnPublicKeyRequested(h) ==
  /\ h \in live \cap joined
  /\ IF h = old /\ step = "destroy"
     THEN Fault("dead service") /\ UNCHANGED posted
     ELSE /\ posted[h] < MaxPosted
          /\ posted' = [posted EXCEPT ![h] = @ + 1]
          /\ UNCHANGED faults
  /\ UNCHANGED <<caller, task>>

(* PublicKeyRequest: if (client_nfs_) ... else throw in the asio thread.   *)
TestNfs(h, t) ==
  /\ h \in live /\ ~ Stopped(h)
  /\ posted[h] > 0 /\ task[h][t] = NoTask
  /\ posted' = [posted EXCEPT ![h] = @ - 1]
  /\ task' = IF nfs = 0 THEN task
             ELSE [task EXCEPT ![h][t] = [at |-> "tested", nfs |-> 0]]
  /\ UNCHANGED <<caller, faults>>

(* *client_nfs_ is read now, and need not be what was tested.              *)
ReadNfs(h, t) ==
  /\ task[h][t].at = "tested"
  /\ task' = [task EXCEPT ![h][t] =
                IF nfs = 0 THEN NoTask ELSE [at |-> "using", nfs |-> nfs]]
  /\ IF nfs = 0 THEN Fault("null nfs") ELSE UNCHANGED faults
  /\ UNCHANGED <<caller, posted>>

(* Get<PublicPmid> on what was read, which may have been replaced since.   *)
Get(h, t) ==
  /\ task[h][t].at = "using"
  /\ task' = [task EXCEPT ![h][t].at = "waiting"]
  /\ IF task[h][t].nfs # nfs \/ nfs = Dangling THEN Fault("freed nfs")
     ELSE IF nfs \notin live THEN Fault("dead routing")
     ELSE UNCHANGED faults
  /\ UNCHANGED <<caller, posted>>

(* MUTANT: the answer is handed on by the handler's own asio service.      *)
GiveKey_Posted(h, t) ==
  /\ task[h][t].at = "waiting" /\ task[h][t].nfs \in live /\ ~ Stopped(h)
  /\ task' = [task EXCEPT ![h][t] = NoTask]
  /\ UNCHANGED <<caller, posted, faults>>

(* pmid_future.get() returns, if there is a routing for the answer to come *)
(* through, and give_key is called.                                        *)
GiveKey(h, t) ==
  /\ task[h][t].at = "waiting" /\ task[h][t].nfs \in live
  /\ task' = [task EXCEPT ![h][t] = NoTask]
  /\ UNCHANGED <<caller, posted, faults>>

-----------------------------------------------------------------------------
CallerStep ==
  \/ Construct \/ Swap \/ Stop \/ Destroy \/ Join \/ Joined \/ Connect
  \/ Work \/ CleanUp

ThreadStep(h, t) ==
  TestNfs(h, t) \/ ReadNfs(h, t) \/ Get(h, t) \/ GiveKey(h, t)

Next ==
  \/ \E n \in {1, 2} : Call(n)
  \/ CallerStep \/ Throws \/ Escapes \/ Quit
  \/ \E h \in Handlers :
       OnPublicKeyRequested(h) \/ \E t \in Threads : ThreadStep(h, t)

Spec == Init /\ [][Next]_vars

(* Threads run, and a Get over an existing routing is answered or times out. *)
Fairness ==
  /\ WF_vars(CallerStep)
  /\ \A h \in Handlers : \A t \in Threads : WF_vars(ThreadStep(h, t))

FairSpec == Spec /\ Fairness

-----------------------------------------------------------------------------
(* Properties. *)

(* ~RoutingHandler stops its threads: no request is served, and so none    *)
(* touches routing or client_nfs_, on behalf of a destroyed handler.       *)
StoppedWhenDestroyed ==
  \A h \in Handlers : \A t \in Threads :
    task[h][t] # NoTask => h \in live /\ ~ (h = old /\ step = "destroy")

(* Where the missing lock bites.  A request dereferences a client_nfs_ over *)
(* destroyed routing only while the caller joins again, that is after       *)
(* JoinNetwork has destroyed the old handler and before client_nfs_ is      *)
(* replaced or reset; or at any time, even with no call running, once an    *)
(* exception that nothing catches has ended a call in just that window.     *)
DeadRoutingWindow ==
  \A f \in faults :
    f.what = "dead routing" => f.step \in {"joining", "connect", "cleanup"} \/ f.escaped

(* What Stop is good for.  A request that has met one client_nfs_ may find  *)
(* it reset or replaced only until the next JoinNetwork has waited for it:  *)
(* never while the network is being joined over the new routing, and as a   *)
(* null pointer never once client_nfs_ has been set again.                  *)
StaleNfsWindow ==
  \A f \in faults :
    /\ f.what = "freed nfs" => f.step \in {"work", "cleanup", "idle", "construct", "swap", "stop"}
    /\ f.what = "null nfs" => f.step \in {"cleanup", "idle", "construct", "swap", "stop"}

(* Between calls, and in the rest of a call after its joins, client_nfs_ is *)
(* null or over the routing of the current handler, which exists; unless an *)
(* exception escaped a call between JoinNetwork and client_nfs_.reset (the  *)
(* catch blocks take std::exception only) and no later call has set or      *)
(* reset client_nfs_.                                                       *)
IdleNfsLive ==
  step \in {"idle", "work"} /\ nfs # 0 =>
    (nfs = handler /\ nfs \in live) \/ (step = "idle" /\ escaped)

(* A request waits for an answer that cannot come only after it has used a  *)
(* client_nfs_ that was over destroyed routing, or not its own any more: the *)
(* routing that a request waits on is not destroyed before it is answered.  *)
(* The use may have been another request's: an answer is lost in no run     *)
(* that is free of such uses.                                               *)
LostAnswersBlamed ==
  \A h \in Handlers : \A t \in Threads :
    task[h][t].at = "waiting" /\ task[h][t].nfs \notin live
      => \E f \in faults : f.what \in {"dead routing", "freed nfs"}

(* Destroying the old handler, which waits for the requests it is serving,  *)
(* ends: neither JoinNetwork nor ~ClientMaid hangs on them, unless one of   *)
(* them waits for an answer over routing that no longer exists.             *)
StopEnds ==
  step = "stop" ~>
    (step # "stop"
     \/ \E t \in Threads : task[old][t].at = "waiting" /\ task[old][t].nfs \notin live)
=============================================================================
