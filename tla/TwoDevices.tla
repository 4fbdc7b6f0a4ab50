----------------------------- MODULE TwoDevices -----------------------------
(***************************************************************************)
(* Two devices of one user: two processes, each with its own LifeStuffImpl *)
(* (src/src/maidsafe/lifestuff/lifestuff_impl.cc) and its own session_, at *)
(* the same packets on the network.  The first creates the account; then   *)
(* both log in and change credentials as they like.                        *)
(*                                                                         *)
(* Nothing in ClientMaid coordinates them: PutSession overwrites what it   *)
(* finds, and DeleteSession (src/src/maidsafe/lifestuff/detail/            *)
(* client_maid.cc) deletes whatever the old name leads to by then, be it   *)
(* what the other device has just put there.  PutFob and DeleteFob return  *)
(* at once, so nothing orders the writes of one device against those of    *)
(* the other: Ordered only says that the network keeps the order of each   *)
(* device's own writes to a name.                                          *)
(***************************************************************************)
EXTENDS Integers, SequencesExt

CONSTANTS Keywords, Pins, Passwords, NoCred, MaxTmids, MaxCrashes, MaxRefusals,
          Ordered, Unchanged, Patient, Trouble

(* The assumption of SessionStore on these constants.                       *)
ASSUME TwoDevicesAssumption ==
  /\ MaxTmids \in Nat /\ MaxCrashes \in Nat /\ MaxRefusals \in Nat
  /\ Ordered \in BOOLEAN /\ Unchanged \in BOOLEAN /\ Trouble \in BOOLEAN
  /\ NoCred \notin [keyword : Keywords, pin : Pins, password : Passwords]

VARIABLES
  mids, midWrites, tmids, tmidWrites,  \* the network
  sealed, made, enrolled,              \* the account
  cut, crashes, refusals,              \* history
  session1, nfs1, call1,               \* the device that creates the account
  session2, nfs2, call2,               \* the other
  midFrom, tmidFrom,                   \* the device that issued each write in flight
  crossed, raced                       \* history: see Noticed

First  == INSTANCE SessionStore WITH session <- session1, nfs <- nfs1, call <- call1
Second == INSTANCE SessionStore WITH session <- session2, nfs <- nfs2, call <- call2

shared  == <<mids, midWrites, tmids, tmidWrites, sealed, made, enrolled,
             cut, crashes, refusals>>
device1 == <<session1, nfs1, call1>>
device2 == <<session2, nfs2, call2>>
senders == <<midFrom, tmidFrom>>
vars    == <<shared, device1, device2, senders, crossed, raced>>

(* Whose turn it is: each device's own writes to a name are in order.       *)
OwnTurn(from, i) == Ordered => \A j \in 1 .. i - 1 : from[j] # from[i]

(* Each write in flight has a sender.                                       *)
Senders ==
  /\ midFrom \in [First!MidNames -> Seq({1, 2})]
  /\ tmidFrom \in [First!Tmids -> Seq({1, 2})]
  /\ \A m \in First!MidNames : Len(midFrom[m]) = Len(midWrites[m])
  /\ \A t \in First!Tmids : Len(tmidFrom[t]) = Len(tmidWrites[t])

TypeOK ==
  First!TypeOK /\ Second!TypeOK /\ Senders /\ crossed \in BOOLEAN /\ raced \in BOOLEAN

Init ==
  /\ First!Init /\ Second!Init
  /\ midFrom = [m \in First!MidNames |-> <<>>]
  /\ tmidFrom = [t \in First!Tmids |-> <<>>]
  /\ crossed = FALSE /\ raced = FALSE

-----------------------------------------------------------------------------
(* The names whose packets the renames in progress have set out to delete:  *)
(* each has put its own packets under another name.                         *)
Doomed ==
  {First!MidName(s) : s \in (IF First!StopsRename THEN {session1} ELSE {})
                        \cup (IF Second!StopsRename THEN {session2} ELSE {})}

(* A rename puts its packets under a name that the other device, or itself  *)
(* when it is a rename to the name in use, is about to delete.              *)
Crossing ==
  \/ First!PutMid /\ First!StopsRename' /\ First!MidName(call1.cred) \in Doomed'
  \/ Second!PutMid /\ Second!StopsRename' /\ First!MidName(call2.cred) \in Doomed'

(* Each device has made a TMID for the same name and not put its MID yet.   *)
Racing ==
  /\ call1.step = "PutMid" /\ call2.step = "PutMid"
  /\ First!MidName(call1.cred) = First!MidName(call2.cred)

(* Writes of both devices are in flight to one name: the later may take      *)
(* effect first.                                                            *)
Mixing ==
  \/ \E m \in First!MidNames : {1, 2} \subseteq Range(midFrom[m])
  \/ \E t \in First!Tmids : {1, 2} \subseteq Range(tmidFrom[t])

Noticed ==
  /\ crossed' = (crossed \/ Crossing \/ Mixing')
  /\ raced' = (raced \/ Racing' \/ Mixing')

(* MaxTmids and MaxCrashes bound the sessions and the crashes of both.      *)
Bounded ==
  made' + Cardinality({c \in {<<1, call1'>>, <<2, call2'>>} : c[2].step = "PutTmid"})
    <= MaxTmids

(* A step of device d: the writes it issues are its own.                    *)
Sends(d) ==
  /\ midFrom' = [m \in First!MidNames |->
       IF midWrites'[m] = midWrites[m] THEN midFrom[m] ELSE Append(midFrom[m], d)]
  /\ tmidFrom' = [t \in First!Tmids |->
       IF tmidWrites'[t] = tmidWrites[t] THEN tmidFrom[t] ELSE Append(tmidFrom[t], d)]

Device1 ==
  /\ First!UserCall \/ First!ClientStep \/ First!CallThrows \/ First!Crash
  /\ Sends(1) /\ UNCHANGED device2

Device2 ==
  /\ Second!UserCall \/ Second!ClientStep \/ Second!CallThrows \/ Second!Crash
  /\ Sends(2) /\ UNCHANGED device1

ArriveMid(m, i) ==
  /\ \/ OwnTurn(midFrom[m], i) /\ First!LandMid(m, i)
     \/ First!DropMid(m, i)
  /\ midFrom' = [midFrom EXCEPT ![m] = RemoveAt(@, i)]
  /\ UNCHANGED <<tmidFrom, device2>>

ArriveTmid(t, i) ==
  /\ \/ OwnTurn(tmidFrom[t], i) /\ First!LandTmid(t, i)
     \/ First!DropTmid(t, i)
  /\ tmidFrom' = [tmidFrom EXCEPT ![t] = RemoveAt(@, i)]
  /\ UNCHANGED <<midFrom, device2>>

Network ==
  \/ \E m \in First!MidNames : \E i \in 1 .. Len(midWrites[m]) : ArriveMid(m, i)
  \/ \E t \in First!Tmids : \E i \in 1 .. Len(tmidWrites[t]) : ArriveTmid(t, i)

Next ==
  /\ Device1 \/ Device2 \/ Network
  /\ call2'.op # "CreateUser"
  /\ Bounded /\ Noticed

Spec == Init /\ [][Next]_vars

-----------------------------------------------------------------------------
(* Properties. *)

(* Two devices never make a name lead to a session of another keyword and   *)
(* pin: each decrypts what it finds, or the log in fails for want of it.    *)
MidsLeadHome == First!MidsLeadHome

(* As long as no write is refused, two devices lock the user out only when  *)
(* a rename has put its packets where the other was in the middle of        *)
(* deleting them, or when both have had writes to one name in flight at     *)
(* once.  As long as neither has happened, some credential opens the        *)
(* account once the writes have taken effect: however stale what a device   *)
(* believes when it reads and deletes, and wherever a call is cut short.    *)
LostOnlyByCrossing == refusals = 0 /\ ~ crossed => First!Reachable

(* A name leads back to an older session only when both devices have been   *)
(* between the two puts of one name, or have had writes to one name in      *)
(* flight, at the same time: until then no session is put over a newer one. *)
NoRollback ==
  [][~ raced => \A m \in First!MidNames : mids[m] # First!NoTmid /\ mids'[m] # First!NoTmid
       => mids[m] <= mids'[m]]_mids
=============================================================================
