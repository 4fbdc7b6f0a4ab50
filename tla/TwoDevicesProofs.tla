-------------------------- MODULE TwoDevicesProofs --------------------------
(***************************************************************************)
(* What holds of two devices at the packets of one account, for every      *)
(* value of the constants.                                                 *)
(*                                                                         *)
(* Each device is a client of SessionStore in company: P1 and P2 are the   *)
(* two instances of SessionTrustProofs, whose lemmas say what a step of one *)
(* client leaves to the other.  This module puts them together.            *)
(***************************************************************************)
EXTENDS TwoDevices, FiniteSetTheorems, SequenceTheorems, TLAPS

P1 == INSTANCE SessionTrustProofs WITH session <- session1, nfs <- nfs1, call <- call1
P2 == INSTANCE SessionTrustProofs WITH session <- session2, nfs <- nfs2, call <- call2

(* The lemmas of the instances rest on the assumption of this module.      *)
LEMMA Assumed == P1!StoreAssumption /\ P2!StoreAssumption
BY TwoDevicesAssumption DEF P1!StoreAssumption, P1!Cred, P2!StoreAssumption, P2!Cred

-----------------------------------------------------------------------------
(* The steps of TwoDevices are those of the clients the lemmas are about.  *)
LEMMA UserCall1 == First!UserCall => P1!UserCall
BY DEF First!MidName, P1!MidName, First!NoTmid, P1!NoTmid, First!Tmids, P1!Tmids,
   First!MidNames, P1!MidNames, First!Cred, P1!Cred, First!Changes, P1!Changes,
   First!Renames, P1!Renames, First!packets, P1!packets, First!account, P1!account,
   First!client, P1!client, First!history, P1!history, First!Idle, P1!Idle,
   First!Drained, P1!Drained, First!Start, P1!Start, First!CreateUser, P1!CreateUser,
   First!LogIn, P1!LogIn, First!Change, P1!Change, First!ChangeKeyword,
   P1!ChangeKeyword, First!ChangePin, P1!ChangePin, First!ChangePassword,
   P1!ChangePassword, First!ChangeWithoutNfs, P1!ChangeWithoutNfs, First!UserCall,
   P1!UserCall

LEMMA ClientStep1 == First!ClientStep => P1!ClientStep
BY DEF First!MidName, P1!MidName, First!NoTmid, P1!NoTmid, First!Tmids, P1!Tmids,
   First!MidNames, P1!MidNames, First!Cred, P1!Cred, First!Changes, P1!Changes,
   First!Renames, P1!Renames, First!packets, P1!packets, First!account, P1!account,
   First!client, P1!client, First!history, P1!history, First!Idle, P1!Idle, First!At,
   P1!At, First!GoTo, P1!GoTo, First!PutTmid, P1!PutTmid, First!PutMid, P1!PutMid,
   First!LookUpName, P1!LookUpName, First!GetMid, P1!GetMid, First!DeleteTmid,
   P1!DeleteTmid, First!DeleteMid, P1!DeleteMid, First!GetTmid, P1!GetTmid,
   First!Return, P1!Return, First!StopsRename, P1!StopsRename, First!Throw, P1!Throw,
   First!MidMissing, P1!MidMissing, First!TmidUnreadable, P1!TmidUnreadable,
   First!ClientStep, P1!ClientStep

LEMMA Stop1 == (First!CallThrows => P1!CallThrows) /\ (First!Crash => P1!Crash)
BY DEF First!MidName, P1!MidName, First!NoTmid, P1!NoTmid, First!Tmids, P1!Tmids,
   First!MidNames, P1!MidNames, First!Cred, P1!Cred, First!Changes, P1!Changes,
   First!Renames, P1!Renames, First!packets, P1!packets, First!account, P1!account,
   First!client, P1!client, First!history, P1!history, First!Idle, P1!Idle, First!At,
   P1!At, First!StopsRename, P1!StopsRename, First!Throw, P1!Throw, First!CallThrows,
   P1!CallThrows, First!Crash, P1!Crash

(* The network takes what is in flight in any order, ...                   *)
LEMMA Network1 == Network => P1!Arrival
BY DEF Network, ArriveMid, ArriveTmid, P1!Arrival, First!LandMid, P1!LandMid, First!LandTmid,
   P1!LandTmid, First!DropMid, P1!DropMid, First!DropTmid, P1!DropTmid, First!MidNames,
   P1!MidNames, First!Tmids, P1!Tmids, First!RemoveAt, P1!RemoveAt, First!account, P1!account,
   First!client, P1!client, First!history, P1!history

(* ... but a name to which one device alone has writes in flight in theirs. *)
LEMMA OrderedNetwork1 == Senders /\ ~ Mixing /\ Network => P1!NetworkStep
<1> SUFFICES ASSUME Senders, ~ Mixing, Network PROVE P1!NetworkStep
  OBVIOUS
<1>1. ASSUME NEW S, NEW f \in [S -> Seq({1, 2})], NEW x \in S, NEW i \in 1 .. Len(f[x]),
             OwnTurn(f[x], i), ~ \E y \in S : {1, 2} \subseteq Range(f[y]), Ordered
      PROVE  i = 1
  <2>1. SUFFICES ASSUME i # 1 PROVE FALSE
    OBVIOUS
  <2>2. f[x][1] # f[x][i] /\ f[x][1] \in {1, 2} /\ f[x][i] \in {1, 2}
    BY <1>1, <2>1 DEF OwnTurn
  <2>3. f[x][1] \in Range(f[x]) /\ f[x][i] \in Range(f[x])
    BY <1>1 DEF Range
  <2> QED
    BY <1>1, <2>2, <2>3
<1>2. ASSUME NEW m \in First!MidNames, NEW i \in 1 .. Len(midWrites[m]), ArriveMid(m, i)
      PROVE  P1!NetworkStep
  <2>1. CASE First!DropMid(m, i)
    BY <1>2, <2>1 DEF P1!NetworkStep, P1!RefuseMid, First!DropMid, P1!DropMid, First!MidNames,
       P1!MidNames, First!RemoveAt, P1!RemoveAt, First!account, P1!account, First!client, P1!client
  <2>2. CASE OwnTurn(midFrom[m], i) /\ First!LandMid(m, i)
    <3>1. Ordered => i = 1
      <4>1. midFrom \in [First!MidNames -> Seq({1, 2})] /\ i \in 1 .. Len(midFrom[m])
        BY <1>2 DEF Senders
      <4>2. ~ \E y \in First!MidNames : {1, 2} \subseteq Range(midFrom[y])
        BY DEF Mixing
      <4> QED
        BY <1>1, <2>2, <4>1, <4>2
    <3> QED
      BY <1>2, <2>2, <3>1 DEF P1!NetworkStep, P1!ApplyMid, P1!InTurn, First!LandMid, P1!LandMid,
         First!MidNames, P1!MidNames, First!RemoveAt, P1!RemoveAt, First!account, P1!account,
         First!client, P1!client, First!history, P1!history
  <2> QED
    BY <1>2, <2>1, <2>2 DEF ArriveMid
<1>3. ASSUME NEW t \in First!Tmids, NEW i \in 1 .. Len(tmidWrites[t]), ArriveTmid(t, i)
      PROVE  P1!NetworkStep
  <2>1. CASE First!DropTmid(t, i)
    BY <1>3, <2>1 DEF P1!NetworkStep, P1!RefuseTmid, First!DropTmid, P1!DropTmid, First!Tmids,
       P1!Tmids, First!RemoveAt, P1!RemoveAt, First!account, P1!account, First!client, P1!client
  <2>2. CASE OwnTurn(tmidFrom[t], i) /\ First!LandTmid(t, i)
    <3>1. Ordered => i = 1
      <4>1. tmidFrom \in [First!Tmids -> Seq({1, 2})] /\ i \in 1 .. Len(tmidFrom[t])
        BY <1>3 DEF Senders
      <4>2. ~ \E y \in First!Tmids : {1, 2} \subseteq Range(tmidFrom[y])
        BY DEF Mixing
      <4> QED
        BY <1>1, <2>2, <4>1, <4>2
    <3> QED
      BY <1>3, <2>2, <3>1 DEF P1!NetworkStep, P1!ApplyTmid, P1!InTurn, First!LandTmid, P1!LandTmid,
         First!Tmids, P1!Tmids, First!RemoveAt, P1!RemoveAt, First!account, P1!account,
         First!client, P1!client, First!history, P1!history
  <2> QED
    BY <1>3, <2>1, <2>2 DEF ArriveTmid
<1> QED
  BY <1>2, <1>3 DEF Network

LEMMA UserCall2 == Second!UserCall => P2!UserCall
BY DEF Second!MidName, P2!MidName, Second!NoTmid, P2!NoTmid, Second!Tmids, P2!Tmids,
   Second!MidNames, P2!MidNames, Second!Cred, P2!Cred, Second!Changes, P2!Changes,
   Second!Renames, P2!Renames, Second!packets, P2!packets, Second!account, P2!account,
   Second!client, P2!client, Second!history, P2!history, Second!Idle, P2!Idle,
   Second!Drained, P2!Drained, Second!Start, P2!Start, Second!CreateUser, P2!CreateUser,
   Second!LogIn, P2!LogIn, Second!Change, P2!Change, Second!ChangeKeyword,
   P2!ChangeKeyword, Second!ChangePin, P2!ChangePin, Second!ChangePassword,
   P2!ChangePassword, Second!ChangeWithoutNfs, P2!ChangeWithoutNfs, Second!UserCall,
   P2!UserCall

LEMMA ClientStep2 == Second!ClientStep => P2!ClientStep
BY DEF Second!MidName, P2!MidName, Second!NoTmid, P2!NoTmid, Second!Tmids, P2!Tmids,
   Second!MidNames, P2!MidNames, Second!Cred, P2!Cred, Second!Changes, P2!Changes,
   Second!Renames, P2!Renames, Second!packets, P2!packets, Second!account, P2!account,
   Second!client, P2!client, Second!history, P2!history, Second!Idle, P2!Idle,
   Second!At, P2!At, Second!GoTo, P2!GoTo, Second!PutTmid, P2!PutTmid, Second!PutMid,
   P2!PutMid, Second!LookUpName, P2!LookUpName, Second!GetMid, P2!GetMid,
   Second!DeleteTmid, P2!DeleteTmid, Second!DeleteMid, P2!DeleteMid, Second!GetTmid,
   P2!GetTmid, Second!Return, P2!Return, Second!StopsRename, P2!StopsRename,
   Second!Throw, P2!Throw, Second!MidMissing, P2!MidMissing, Second!TmidUnreadable,
   P2!TmidUnreadable, Second!ClientStep, P2!ClientStep

LEMMA Stop2 == (Second!CallThrows => P2!CallThrows) /\ (Second!Crash => P2!Crash)
BY DEF Second!MidName, P2!MidName, Second!NoTmid, P2!NoTmid, Second!Tmids, P2!Tmids,
   Second!MidNames, P2!MidNames, Second!Cred, P2!Cred, Second!Changes, P2!Changes,
   Second!Renames, P2!Renames, Second!packets, P2!packets, Second!account, P2!account,
   Second!client, P2!client, Second!history, P2!history, Second!Idle, P2!Idle,
   Second!At, P2!At, Second!StopsRename, P2!StopsRename, Second!Throw, P2!Throw,
   Second!CallThrows, P2!CallThrows, Second!Crash, P2!Crash

(* Every step is one of either client, which leaves the other as it is, ... *)
LEMMA OneMoves ==
  ASSUME [Next]_vars
  PROVE  \/ [P1!Move]_(P1!vars) /\ UNCHANGED device2
         \/ [P2!Move]_(P2!vars) /\ UNCHANGED device1
<1>1. CASE UNCHANGED vars
  BY <1>1 DEF vars, shared, device1, device2, P1!vars, P1!packets, P1!account, P1!client, P1!history
<1>2. CASE Device1
  BY <1>2, UserCall1, ClientStep1, Stop1 DEF Device1, P1!Move
<1>3. CASE Device2
  BY <1>3, UserCall2, ClientStep2, Stop2 DEF Device2, P2!Move
<1>4. CASE Network
  <2>1. UNCHANGED device2
    BY <1>4 DEF Network, ArriveMid, ArriveTmid
  <2> QED
    BY <1>4, <2>1, Network1 DEF P1!Move
<1> QED
  BY <1>1, <1>2, <1>3, <1>4 DEF Next

(* ... in the order of issue while no name has writes of both in flight.   *)
LEMMA OneSteps ==
  ASSUME [Next]_vars, Senders, ~ Mixing
  PROVE  \/ [P1!Next]_(P1!vars) /\ UNCHANGED device2
         \/ [P2!Next]_(P2!vars) /\ UNCHANGED device1
<1>1. CASE UNCHANGED vars
  BY <1>1 DEF vars, shared, device1, device2, P1!vars, P1!packets, P1!account, P1!client, P1!history
<1>2. CASE Device1
  BY <1>2, UserCall1, ClientStep1, Stop1 DEF Device1, P1!Next
<1>3. CASE Device2
  BY <1>3, UserCall2, ClientStep2, Stop2 DEF Device2, P2!Next
<1>4. CASE Network
  <2>1. UNCHANGED device2
    BY <1>4 DEF Network, ArriveMid, ArriveTmid
  <2> QED
    BY <1>4, <2>1, OrderedNetwork1 DEF P1!Next
<1> QED
  BY <1>1, <1>2, <1>3, <1>4 DEF Next

-----------------------------------------------------------------------------
(* The invariant. *)

(* Until a write is refused, or renames cross, the TMIDs about to be named  *)
(* will be stored and some credential is beyond them.                      *)
Kept ==
  refusals = 0 /\ ~ crossed =>
    /\ P1!Ready(call2)
    /\ enrolled => P1!Spared(Doomed)
    /\ enrolled \/ Doomed = {}

(* Until the devices race the writes to a name are in order.               *)
Ordering == ~ raced => P1!Orderly(call2) /\ ~ P1!Meets(call2)

Clients ==
  /\ P1!IInv /\ P2!IInv /\ P1!Apart(call2) /\ Senders
  /\ crossed \in BOOLEAN /\ raced \in BOOLEAN
  /\ Mixing => crossed /\ raced

(* The names that either device has set out to delete.                     *)
LEMMA DoomedIs ==
  /\ Doomed = P1!OwnDoomed \cup P2!OwnDoomed
  /\ Doomed' = P1!OwnDoomed' \cup P2!OwnDoomed'
<1>1. /\ Doomed = {First!MidName(s) : s \in (IF First!StopsRename THEN {session1} ELSE {})
                        \cup (IF Second!StopsRename THEN {session2} ELSE {})}
      /\ Doomed' = {First!MidName(s) : s \in (IF First!StopsRename' THEN {session1'} ELSE {})
                        \cup (IF Second!StopsRename' THEN {session2'} ELSE {})}
  BY DEF Doomed, First!MidName
<1>2. /\ P1!OwnDoomed = (IF First!StopsRename THEN {First!MidName(session1)} ELSE {})
      /\ P1!OwnDoomed' = (IF First!StopsRename' THEN {First!MidName(session1')} ELSE {})
      /\ P2!OwnDoomed = (IF Second!StopsRename THEN {First!MidName(session2)} ELSE {})
      /\ P2!OwnDoomed' = (IF Second!StopsRename' THEN {First!MidName(session2')} ELSE {})
  BY DEF P1!OwnDoomed, P2!OwnDoomed, First!MidName, P1!MidName, P2!MidName, First!StopsRename,
     P1!StopsRename, Second!StopsRename, P2!StopsRename, First!Renames, P1!Renames,
     Second!Renames, P2!Renames
<1> QED
  BY <1>1, <1>2

(* Both devices see the same packets.                                      *)
LEMMA SameApart ==
  /\ P2!Apart(call1) <=> P1!Apart(call2)
  /\ P2!Apart(call1)' <=> P1!Apart(call2)'
BY DEF P1!Apart, P2!Apart, P1!Fresh, P2!Fresh, P1!Entry, P2!Entry, P1!MidNames, P2!MidNames

LEMMA SameReady ==
  /\ P2!Ready(call1) <=> P1!Ready(call2)
  /\ P2!Ready(call1)' <=> P1!Ready(call2)'
BY DEF P1!Ready, P2!Ready, P1!TmidEnd, P2!TmidEnd, P1!Last, P2!Last

LEMMA SameOrderly ==
  /\ P2!Orderly(call1) <=> P1!Orderly(call2)
  /\ P2!Orderly(call1)' <=> P1!Orderly(call2)'
  /\ P2!Meets(call1) <=> P1!Meets(call2)
  /\ P2!Meets(call1)' <=> P1!Meets(call2)'
BY DEF P1!Orderly, P2!Orderly, P1!InOrder, P2!InOrder, P1!Newest, P2!Newest, P1!Entry, P2!Entry,
   P1!MidNames, P2!MidNames, P1!MidName, P2!MidName, P1!Meets, P2!Meets, P1!NoTmid, P2!NoTmid

LEMMA SameSpared ==
  \A D : /\ P2!Spared(D) <=> P1!Spared(D)
         /\ P2!Spared(D)' <=> P1!Spared(D)'
BY DEF P1!Spared, P2!Spared, P1!WillOpen, P2!WillOpen, P1!MidEnd, P2!MidEnd, P1!TmidEnd,
   P2!TmidEnd, P1!Last, P2!Last, P1!MidName, P2!MidName, P1!NoTmid, P2!NoTmid, P1!Cred, P2!Cred

LEMMA SameCarries ==
  /\ \A c : P2!Carries(c) <=> P1!Carries(c)
BY DEF P1!Carries, P2!Carries, P1!Cred, P2!Cred

(* A device that is about to make a TMID has room for it within MaxTmids.   *)
LEMMA RoomLeft ==
  ASSUME Clients, [Next]_vars, made' \in Nat, call1'.step = "PutTmid" \/ call2'.step = "PutTmid"
  PROVE  made' < MaxTmids
<1>1. CASE UNCHANGED vars
  <2>1. UNCHANGED <<made, call1, call2>>
    BY <1>1 DEF vars, shared, device1, device2
  <2>2. /\ call1.step = "PutTmid" => made < MaxTmids
        /\ call2.step = "PutTmid" => made < MaxTmids
    BY DEF Clients, P1!IInv, P1!CallOK, P1!Idle, P2!IInv, P2!CallOK, P2!Idle
  <2> QED
    BY <2>1, <2>2
<1>2. CASE Bounded
  <2> DEFINE S == {c \in {<<1, call1'>>, <<2, call2'>>} : c[2].step = "PutTmid"}
  <2>1. made' + Cardinality(S) <= MaxTmids
    BY <1>2 DEF Bounded
  <2>2. IsFiniteSet({<<1, call1'>>, <<2, call2'>>})
    <3>1. PICK a, b : a = <<1, call1'>> /\ b = <<2, call2'>>
      OBVIOUS
    <3>2. IsFiniteSet({a}) /\ {a, b} = {a} \cup {b}
      BY FS_Singleton
    <3>3. IsFiniteSet({a, b})
      BY <3>2, FS_AddElement
    <3> QED
      BY <3>1, <3>3
  <2>3. IsFiniteSet(S)
    <3>1. S \subseteq {<<1, call1'>>, <<2, call2'>>}
      OBVIOUS
    <3> QED
      BY <2>2, <3>1, FS_Subset
  <2>4. S # {}
    <3>1. CASE call1'.step = "PutTmid"
      <4>1. <<1, call1'>> \in S
        BY <3>1
      <4> QED
        BY <4>1
    <3>2. CASE call2'.step = "PutTmid"
      <4>1. <<2, call2'>> \in S
        BY <3>2
      <4> QED
        BY <4>1
    <3> QED
      BY <3>1, <3>2
  <2> HIDE DEF S
  <2>5. Cardinality(S) \in Nat /\ Cardinality(S) # 0
    BY <2>3, <2>4, FS_CardinalityType, FS_EmptySet
  <2> QED
    BY <2>1, <2>5, TwoDevicesAssumption DEF TwoDevicesAssumption
<1> QED
  BY <1>1, <1>2 DEF Next

(* A step of the first device leaves both clients sound and apart, ...     *)
LEMMA FirstMoves ==
  ASSUME Clients, [Next]_vars, [P1!Move]_(P1!vars), UNCHANGED device2
  PROVE  P1!IInv' /\ P2!IInv' /\ P1!Apart(call2)'
<1>1. P1!IInv'
  BY P1!MoveIInv, Assumed DEF Clients, P1!StoreAssumption
<1>2. /\ made <= made' /\ \A t \in 1 .. made : sealed'[t] = sealed[t]
      /\ made' \in Nat
  BY <1>1, P1!SealsKept, Assumed DEF Clients, P1!StoreAssumption, P1!IInv, P1!TypeOK
<1>3. UNCHANGED P2!client
  BY DEF device2, P2!client
<1>4. P2!TypeOK' /\ P2!SealedOK' /\ P2!MidsLeadHome'
  <2>1. P2!SealedOK' /\ P2!MidsLeadHome'
    BY <1>1 DEF P1!IInv, P1!SealedOK, P2!SealedOK, P1!MidsLeadHome, P2!MidsLeadHome, P1!MidNames,
       P2!MidNames, P1!MidName, P2!MidName, P1!NoTmid, P2!NoTmid, P1!Tmids, P2!Tmids, P1!Cred, P2!Cred
  <2>2. P2!TypeOK'
    BY <1>1, <1>3 DEF P1!IInv, P1!TypeOK, P2!TypeOK, P2!client, Clients, P2!IInv, P1!MidNames,
       P2!MidNames, P1!Tmids, P2!Tmids, P1!Cred, P2!Cred, P2!Calls, P2!Idle, P2!NoTmid
  <2> QED
    BY <2>1, <2>2
<1>5. call2.step = "PutTmid" => made' < MaxTmids
  BY <1>2, RoomLeft DEF device2
<1>6. P2!IInv'
  BY <1>2, <1>3, <1>4, <1>5, P2!OthersWrite, Assumed DEF Clients, P2!StoreAssumption
<1>7. PICK c : c = call2
  OBVIOUS
<1>8. P1!Carries(c)
  BY <1>7, P2!CallCarries, SameCarries, Assumed DEF Clients, P2!StoreAssumption
<1>9. P1!Apart(c)'
  BY <1>7, <1>8, P1!StepApart, Assumed DEF Clients, P1!StoreAssumption
<1>10. P1!Apart(call2)'
  BY <1>7, <1>9 DEF device2, P1!Apart
<1> QED
  BY <1>1, <1>6, <1>10

(* ... and so does one of the second.                                      *)
LEMMA SecondMoves ==
  ASSUME Clients, [Next]_vars, [P2!Move]_(P2!vars), UNCHANGED device1
  PROVE  P1!IInv' /\ P2!IInv' /\ P1!Apart(call2)'
<1>1. P2!IInv'
  BY P2!MoveIInv, Assumed DEF Clients, P2!StoreAssumption
<1>2. /\ made <= made' /\ \A t \in 1 .. made : sealed'[t] = sealed[t]
      /\ made' \in Nat
  BY <1>1, P2!SealsKept, Assumed DEF Clients, P2!StoreAssumption, P2!IInv, P2!TypeOK
<1>3. UNCHANGED P1!client
  BY DEF device1, P1!client
<1>4. P1!TypeOK' /\ P1!SealedOK' /\ P1!MidsLeadHome'
  <2>1. P1!SealedOK' /\ P1!MidsLeadHome'
    BY <1>1 DEF P2!IInv, P1!SealedOK, P2!SealedOK, P1!MidsLeadHome, P2!MidsLeadHome, P1!MidNames,
       P2!MidNames, P1!MidName, P2!MidName, P1!NoTmid, P2!NoTmid, P1!Tmids, P2!Tmids, P1!Cred, P2!Cred
  <2>2. P1!TypeOK'
    BY <1>1, <1>3 DEF P2!IInv, P1!TypeOK, P2!TypeOK, P1!client, Clients, P1!IInv, P1!MidNames,
       P2!MidNames, P1!Tmids, P2!Tmids, P1!Cred, P2!Cred, P1!Calls, P1!Idle, P1!NoTmid
  <2> QED
    BY <2>1, <2>2
<1>5. call1.step = "PutTmid" => made' < MaxTmids
  BY <1>2, RoomLeft DEF device1
<1>6. P1!IInv'
  BY <1>2, <1>3, <1>4, <1>5, P1!OthersWrite, Assumed DEF Clients, P1!StoreAssumption
<1>7. PICK c : c = call1
  OBVIOUS
<1>8. P2!Carries(c)
  BY <1>7, P1!CallCarries, SameCarries, Assumed DEF Clients, P1!StoreAssumption
<1>9. P2!Apart(c)'
  BY <1>7, <1>8, SameApart, P2!StepApart, Assumed DEF Clients, P2!StoreAssumption
<1>10. P2!Apart(call1)'
  BY <1>7, <1>9 DEF device1, P2!Apart
<1> QED
  BY <1>1, <1>6, <1>10, SameApart

(* A device's step leaves the writes to a name as they are or adds one.    *)
LEMMA WritesAppend1 ==
  ASSUME First!UserCall \/ First!ClientStep \/ First!CallThrows \/ First!Crash, P1!TypeOK
  PROVE  /\ \A m \in First!MidNames :
              midWrites'[m] = midWrites[m] \/ Len(midWrites'[m]) = Len(midWrites[m]) + 1
         /\ \A t \in First!Tmids :
              tmidWrites'[t] = tmidWrites[t] \/ Len(tmidWrites'[t]) = Len(tmidWrites[t]) + 1
<1>t. /\ midWrites \in [First!MidNames -> Seq(0 .. MaxTmids)]
      /\ tmidWrites \in [First!Tmids -> Seq(BOOLEAN)]
  BY DEF P1!TypeOK, First!MidNames, P1!MidNames, First!Tmids, P1!Tmids
<1>1. /\ midWrites' = midWrites \/ \E n, x : midWrites' = [midWrites EXCEPT ![n] = Append(@, x)]
      /\ tmidWrites' = tmidWrites \/ \E n, x : tmidWrites' = [tmidWrites EXCEPT ![n] = Append(@, x)]
  BY DEF First!UserCall, First!ClientStep, First!CallThrows, First!Crash, First!CreateUser,
     First!LogIn, First!ChangeKeyword, First!ChangePin, First!ChangePassword, First!Change,
     First!ChangeWithoutNfs, First!PutTmid, First!PutMid, First!GetMid, First!DeleteTmid,
     First!DeleteMid, First!GetTmid, First!Return, First!MidMissing, First!TmidUnreadable,
     First!Throw, First!packets
<1>2. ASSUME NEW S, NEW T, NEW f \in [S -> Seq(T)], NEW n, NEW x, NEW y \in S
      PROVE  LET g == [f EXCEPT ![n] = Append(@, x)]
             IN  g[y] = f[y] \/ Len(g[y]) = Len(f[y]) + 1
  <2>1. CASE y = n
    <3>1. f[y] \in Seq(T)
      OBVIOUS
    <3>2. Len(Append(f[y], x)) = Len(f[y]) + 1
      BY <3>1
    <3> QED
      BY <2>1, <3>2
  <2>2. CASE y # n
    BY <2>2
  <2> QED
    BY <2>1, <2>2
<1> QED
  BY <1>t, <1>1, <1>2

LEMMA WritesAppend2 ==
  ASSUME Second!UserCall \/ Second!ClientStep \/ Second!CallThrows \/ Second!Crash, P1!TypeOK
  PROVE  /\ \A m \in First!MidNames :
              midWrites'[m] = midWrites[m] \/ Len(midWrites'[m]) = Len(midWrites[m]) + 1
         /\ \A t \in First!Tmids :
              tmidWrites'[t] = tmidWrites[t] \/ Len(tmidWrites'[t]) = Len(tmidWrites[t]) + 1
<1>t. /\ midWrites \in [First!MidNames -> Seq(0 .. MaxTmids)]
      /\ tmidWrites \in [First!Tmids -> Seq(BOOLEAN)]
  BY DEF P1!TypeOK, First!MidNames, P1!MidNames, First!Tmids, P1!Tmids
<1>1. /\ midWrites' = midWrites \/ \E n, x : midWrites' = [midWrites EXCEPT ![n] = Append(@, x)]
      /\ tmidWrites' = tmidWrites \/ \E n, x : tmidWrites' = [tmidWrites EXCEPT ![n] = Append(@, x)]
  BY DEF Second!UserCall, Second!ClientStep, Second!CallThrows, Second!Crash, Second!CreateUser,
     Second!LogIn, Second!ChangeKeyword, Second!ChangePin, Second!ChangePassword, Second!Change,
     Second!ChangeWithoutNfs, Second!PutTmid, Second!PutMid, Second!GetMid, Second!DeleteTmid,
     Second!DeleteMid, Second!GetTmid, Second!Return, Second!MidMissing, Second!TmidUnreadable,
     Second!Throw, Second!packets
<1>2. ASSUME NEW S, NEW T, NEW f \in [S -> Seq(T)], NEW n, NEW x, NEW y \in S
      PROVE  LET g == [f EXCEPT ![n] = Append(@, x)]
             IN  g[y] = f[y] \/ Len(g[y]) = Len(f[y]) + 1
  <2>1. CASE y = n
    <3>1. f[y] \in Seq(T)
      OBVIOUS
    <3>2. Len(Append(f[y], x)) = Len(f[y]) + 1
      BY <3>1
    <3> QED
      BY <2>1, <3>2
  <2>2. CASE y # n
    BY <2>2
  <2> QED
    BY <2>1, <2>2
<1> QED
  BY <1>t, <1>1, <1>2

(* So each write keeps its sender.                                         *)
LEMMA StepSenders ==
  ASSUME Senders, P1!TypeOK, [Next]_vars
  PROVE  Senders'
<1>t. /\ midWrites \in [First!MidNames -> Seq(0 .. MaxTmids)]
      /\ tmidWrites \in [First!Tmids -> Seq(BOOLEAN)]
  BY DEF P1!TypeOK, First!MidNames, P1!MidNames, First!Tmids, P1!Tmids
<1>1. ASSUME NEW d \in {1, 2}, Sends(d),
             \A m \in First!MidNames :
               midWrites'[m] = midWrites[m] \/ Len(midWrites'[m]) = Len(midWrites[m]) + 1,
             \A t \in First!Tmids :
               tmidWrites'[t] = tmidWrites[t] \/ Len(tmidWrites'[t]) = Len(tmidWrites[t]) + 1
      PROVE  Senders'
  <2>1. \A q \in Seq({1, 2}) : Append(q, d) \in Seq({1, 2}) /\ Len(Append(q, d)) = Len(q) + 1
    OBVIOUS
  <2> QED
    BY <1>1, <2>1 DEF Senders, Sends
<1>2. ASSUME NEW q \in Seq({1, 2}), NEW i \in 1 .. Len(q)
      PROVE  RemoveAt(q, i) \in Seq({1, 2}) /\ Len(RemoveAt(q, i)) = Len(q) - 1
  BY P1!RemoveAtFacts, Assumed DEF P1!RemoveAt, RemoveAt
<1>0. ASSUME NEW T, NEW q \in Seq(T), NEW i \in 1 .. Len(q)
      PROVE  Len(First!RemoveAt(q, i)) = Len(q) - 1
  BY P1!RemoveAtFacts, Assumed DEF P1!RemoveAt, First!RemoveAt
<1>3. ASSUME NEW m \in First!MidNames, NEW i \in 1 .. Len(midWrites[m]), ArriveMid(m, i)
      PROVE  Senders'
  <2>1. /\ midWrites' = [midWrites EXCEPT ![m] = First!RemoveAt(@, i)]
        /\ midFrom' = [midFrom EXCEPT ![m] = RemoveAt(@, i)]
        /\ UNCHANGED <<tmidWrites, tmidFrom>>
    BY <1>3 DEF ArriveMid, First!LandMid, First!DropMid
  <2>2. Len(First!RemoveAt(midWrites[m], i)) = Len(midWrites[m]) - 1
    <3>1. midWrites[m] \in Seq(0 .. MaxTmids)
      BY <1>t
    <3> QED
      BY <3>1, <1>0
  <2>3. /\ RemoveAt(midFrom[m], i) \in Seq({1, 2})
        /\ Len(RemoveAt(midFrom[m], i)) = Len(midFrom[m]) - 1
    BY <1>2 DEF Senders
  <2> QED
    BY <1>t, <2>1, <2>2, <2>3 DEF Senders
<1>4. ASSUME NEW t \in First!Tmids, NEW i \in 1 .. Len(tmidWrites[t]), ArriveTmid(t, i)
      PROVE  Senders'
  <2>1. /\ tmidWrites' = [tmidWrites EXCEPT ![t] = First!RemoveAt(@, i)]
        /\ tmidFrom' = [tmidFrom EXCEPT ![t] = RemoveAt(@, i)]
        /\ UNCHANGED <<midWrites, midFrom>>
    BY <1>4 DEF ArriveTmid, First!LandTmid, First!DropTmid
  <2>2. Len(First!RemoveAt(tmidWrites[t], i)) = Len(tmidWrites[t]) - 1
    <3>1. tmidWrites[t] \in Seq(BOOLEAN)
      BY <1>t
    <3> QED
      BY <3>1, <1>0
  <2>3. /\ RemoveAt(tmidFrom[t], i) \in Seq({1, 2})
        /\ Len(RemoveAt(tmidFrom[t], i)) = Len(tmidFrom[t]) - 1
    BY <1>2 DEF Senders
  <2> QED
    BY <1>t, <2>1, <2>2, <2>3 DEF Senders
<1>5. CASE UNCHANGED vars
  BY <1>5 DEF vars, shared, senders, Senders
<1>6. CASE Device1
  BY <1>1, <1>6, WritesAppend1 DEF Device1
<1>7. CASE Device2
  BY <1>1, <1>7, WritesAppend2 DEF Device2
<1> QED
  BY <1>3, <1>4, <1>5, <1>6, <1>7 DEF Next, Network

(* The history variables only record.                                      *)
LEMMA StepHistory ==
  ASSUME crossed \in BOOLEAN, raced \in BOOLEAN, Mixing => crossed /\ raced, [Next]_vars
  PROVE  /\ crossed' \in BOOLEAN /\ raced' \in BOOLEAN
         /\ ~ crossed' => ~ crossed /\ (UNCHANGED vars \/ ~ Crossing)
         /\ ~ raced' => ~ raced /\ (UNCHANGED vars \/ ~ Racing')
         /\ Mixing' => crossed' /\ raced'
<1>1. Crossing \in BOOLEAN /\ Racing' \in BOOLEAN /\ Mixing' \in BOOLEAN
  BY DEF Crossing, Racing, Mixing
<1>2. CASE UNCHANGED vars
  BY <1>2 DEF vars, senders, Mixing
<1>3. CASE Noticed
  BY <1>1, <1>3 DEF Noticed
<1> QED
  BY <1>2, <1>3 DEF Next

LEMMA StepClients ==
  ASSUME Clients, [Next]_vars
  PROVE  Clients'
<1>1. P1!IInv' /\ P2!IInv' /\ P1!Apart(call2)'
  BY OneMoves, FirstMoves, SecondMoves
<1>2. Senders'
  BY StepSenders DEF Clients, P1!IInv
<1> QED
  BY <1>1, <1>2, StepHistory DEF Clients

-----------------------------------------------------------------------------
(* What is kept: a write refused by the network is the only thing that may  *)
(* take a TMID from under a name, and crossing renames all that may delete  *)
(* the last credential.                                                    *)

(* A put that crosses is one under a name doomed before or by this step.   *)
LEMMA NotCrossing ==
  ASSUME Clients, [Next]_vars, ~ crossed'
  PROVE  /\ ~ crossed
         /\ P1!PutMid /\ P1!StopsRename' => P1!MidName(call1.cred) \notin Doomed'
         /\ P2!PutMid /\ P2!StopsRename' => P2!MidName(call2.cred) \notin Doomed'
<1>1. ~ crossed /\ (UNCHANGED vars \/ ~ Crossing)
  BY StepHistory DEF Clients
<1>2. CASE UNCHANGED vars
  <2>1. call1' = call1 /\ call2' = call2
    BY <1>2 DEF vars, device1, device2
  <2>2. ~ P1!PutMid /\ ~ P2!PutMid
    BY <2>1, P1!AtWrites, P2!AtWrites, Assumed DEF Clients, P1!StoreAssumption, P2!StoreAssumption
  <2> QED
    BY <1>1, <2>2
<1>3. CASE ~ Crossing
  <2>1. /\ First!PutMid <=> P1!PutMid
        /\ Second!PutMid <=> P2!PutMid
    BY DEF First!PutMid, P1!PutMid, Second!PutMid, P2!PutMid, First!MidName, P1!MidName,
       Second!MidName, P2!MidName, First!At, P1!At, Second!At, P2!At, First!GoTo, P1!GoTo,
       Second!GoTo, P2!GoTo, First!Renames, P1!Renames, Second!Renames, P2!Renames,
       First!NoTmid, P1!NoTmid, Second!NoTmid, P2!NoTmid, First!history, P1!history,
       Second!history, P2!history
  <2>2. /\ First!StopsRename' <=> P1!StopsRename'
        /\ Second!StopsRename' <=> P2!StopsRename'
    BY DEF First!StopsRename, P1!StopsRename, Second!StopsRename, P2!StopsRename,
       First!Renames, P1!Renames, Second!Renames, P2!Renames
  <2>3. /\ First!MidName(call1.cred) = P1!MidName(call1.cred)
        /\ First!MidName(call2.cred) = P2!MidName(call2.cred)
    BY DEF First!MidName, P1!MidName, P2!MidName
  <2> QED
    BY <1>1, <1>3, <2>1, <2>2, <2>3 DEF Crossing
<1> QED
  BY <1>1, <1>2, <1>3

LEMMA FirstKeeps ==
  ASSUME Ordered, Clients, Kept, [Next]_vars, [P1!Next]_(P1!vars), UNCHANGED device2
  PROVE  Kept'
<1> SUFFICES ASSUME refusals' = 0, ~ crossed' PROVE Kept'
  BY DEF Kept
<1>1. refusals = 0 /\ ~ crossed
  BY P1!RefusalsCounted, P1!NextMoves, StepHistory, Assumed DEF Clients, P1!StoreAssumption
<1>2. P1!Ready(call2)'
  <2>1. PICK c : c = call2
    OBVIOUS
  <2>2. P1!Carries(c)
    BY <2>1, P2!CallCarries, SameCarries, Assumed DEF Clients, P2!StoreAssumption
  <2>3. P1!Ready(c) /\ P1!Apart(c)
    BY <1>1, <2>1 DEF Kept, Clients
  <2>4. P1!Ready(c)'
    BY <1>1, <2>2, <2>3, P1!StepReady, Assumed DEF Clients, P1!StoreAssumption
  <2> QED
    BY <2>1, <2>4 DEF device2, P1!Ready
<1>3. /\ enrolled' => P1!Spared(Doomed)'
      /\ enrolled' \/ Doomed' = {}
  <2>1. PICK D : D = P2!OwnDoomed
    OBVIOUS
  <2>2. P2!OwnDoomed' = D
    BY <2>1 DEF device2, P2!OwnDoomed, P2!StopsRename, P2!MidName
  <2>3. Doomed = D \cup P1!OwnDoomed /\ Doomed' = D \cup P1!OwnDoomed'
    BY <2>1, <2>2, DoomedIs
  <2>4. ~ crossed /\ (P1!PutMid /\ P1!StopsRename' => P1!MidName(call1.cred) \notin D \cup P1!OwnDoomed')
    BY <2>3, NotCrossing
  <2>5. /\ enrolled => P1!Spared(D \cup P1!OwnDoomed)
        /\ enrolled \/ D \cup P1!OwnDoomed = {}
        /\ call1.step = "PutMid" => P1!TmidEnd(call1.tmid)
    BY <1>1, <2>3, <2>4 DEF Kept, P1!Ready
  <2>6. /\ enrolled' => P1!Spared(D \cup P1!OwnDoomed)'
        /\ enrolled' \/ D \cup P1!OwnDoomed' = {}
    BY <1>1, <2>4, <2>5, P1!StepSpares, Assumed DEF Clients, P1!StoreAssumption
  <2> QED
    BY <2>3, <2>6 DEF P1!Spared
<1> QED
  BY <1>2, <1>3 DEF Kept

LEMMA SecondKeeps ==
  ASSUME Ordered, Clients, Kept, [Next]_vars, [P2!Next]_(P2!vars), UNCHANGED device1
  PROVE  Kept'
<1> SUFFICES ASSUME refusals' = 0, ~ crossed' PROVE Kept'
  BY DEF Kept
<1>1. refusals = 0 /\ ~ crossed
  BY P2!RefusalsCounted, P2!NextMoves, StepHistory, Assumed DEF Clients, P2!StoreAssumption
<1>2. P1!Ready(call2)'
  <2>1. PICK c : c = call1
    OBVIOUS
  <2>2. P2!Carries(c)
    BY <2>1, P1!CallCarries, SameCarries, Assumed DEF Clients, P1!StoreAssumption
  <2>3. P2!Ready(c) /\ P2!Apart(c)
    BY <1>1, <2>1, SameReady, SameApart DEF Kept, Clients
  <2>4. P2!Ready(c)'
    BY <1>1, <2>2, <2>3, P2!StepReady, Assumed DEF Clients, P2!StoreAssumption
  <2>5. P2!Ready(call1)'
    BY <2>1, <2>4 DEF device1, P2!Ready
  <2> QED
    BY <2>5, SameReady
<1>3. /\ enrolled' => P1!Spared(Doomed)'
      /\ enrolled' \/ Doomed' = {}
  <2>1. PICK D : D = P1!OwnDoomed
    OBVIOUS
  <2>2. P1!OwnDoomed' = D
    BY <2>1 DEF device1, P1!OwnDoomed, P1!StopsRename, P1!MidName
  <2>3. Doomed = D \cup P2!OwnDoomed /\ Doomed' = D \cup P2!OwnDoomed'
    BY <2>1, <2>2, DoomedIs
  <2>4. ~ crossed /\ (P2!PutMid /\ P2!StopsRename' => P2!MidName(call2.cred) \notin D \cup P2!OwnDoomed')
    BY <2>3, NotCrossing
  <2>5. /\ enrolled => P2!Spared(D \cup P2!OwnDoomed)
        /\ enrolled \/ D \cup P2!OwnDoomed = {}
        /\ call2.step = "PutMid" => P2!TmidEnd(call2.tmid)
    BY <1>1, <2>3, <2>4, SameReady, SameSpared DEF Kept, P2!Ready
  <2>6. /\ enrolled' => P2!Spared(D \cup P2!OwnDoomed)'
        /\ enrolled' \/ D \cup P2!OwnDoomed' = {}
    BY <1>1, <2>4, <2>5, P2!StepSpares, Assumed DEF Clients, P2!StoreAssumption
  <2>7. enrolled' => P2!Spared(Doomed)'
    BY <2>3, <2>6 DEF P2!Spared
  <2>8. P2!Spared(Doomed)' => P1!Spared(Doomed)'
    BY DEF P1!Spared, P2!Spared, P1!WillOpen, P2!WillOpen, P1!MidEnd, P2!MidEnd, P1!TmidEnd,
       P2!TmidEnd, P1!Last, P2!Last, P1!MidName, P2!MidName, P1!NoTmid, P2!NoTmid, P1!Cred, P2!Cred
  <2> QED
    BY <2>3, <2>6, <2>7, <2>8
<1> QED
  BY <1>2, <1>3 DEF Kept

LEMMA StepKept ==
  ASSUME Ordered, Clients, Kept, [Next]_vars
  PROVE  Kept'
<1>1. CASE crossed
  BY <1>1, StepHistory DEF Clients, Kept
<1>2. CASE ~ crossed
  BY <1>2, OneSteps, FirstKeeps, SecondKeeps DEF Clients
<1> QED
  BY <1>1, <1>2

-----------------------------------------------------------------------------
(* What is in order.                                                       *)
LEMMA StepOrdering ==
  ASSUME Ordered, Clients, Ordering, [Next]_vars
  PROVE  Ordering'
<1> SUFFICES ASSUME ~ raced' PROVE P1!Orderly(call2)' /\ ~ P1!Meets(call2)'
  BY DEF Ordering
<1>1. ~ raced /\ (UNCHANGED vars \/ ~ Racing')
  BY StepHistory DEF Clients
<1>2. P1!Orderly(call2) /\ ~ P1!Meets(call2)
  BY <1>1 DEF Ordering
<1>3. ~ P1!Meets(call2)'
  BY <1>1, <1>2 DEF vars, device1, device2, P1!Meets, Racing, First!MidName, P1!MidName
<1>4. CASE [P1!Next]_(P1!vars) /\ UNCHANGED device2
  <2>1. PICK c : c = call2
    OBVIOUS
  <2>2. P1!Carries(c)
    BY <2>1, P2!CallCarries, SameCarries, Assumed DEF Clients, P2!StoreAssumption
  <2>3. P1!Orderly(c)'
    BY <1>2, <1>4, <2>1, <2>2, P1!StepOrderly, Assumed DEF Clients, P1!StoreAssumption
  <2>4. P1!Orderly(call2)'
    BY <1>4, <2>1, <2>3 DEF device2, P1!Orderly
  <2> QED
    BY <1>3, <2>4
<1>5. CASE [P2!Next]_(P2!vars) /\ UNCHANGED device1
  <2>1. PICK c : c = call1
    OBVIOUS
  <2>2. P2!Carries(c)
    BY <2>1, P1!CallCarries, SameCarries, Assumed DEF Clients, P1!StoreAssumption
  <2>3. P2!Orderly(c) /\ ~ P2!Meets(c)
    BY <1>2, <2>1, SameOrderly
  <2>4. P2!Orderly(c)'
    BY <1>5, <2>2, <2>3, P2!StepOrderly, Assumed DEF Clients, P2!StoreAssumption
  <2>5. P2!Orderly(call1)'
    BY <1>5, <2>1, <2>4 DEF device1, P2!Orderly
  <2> QED
    BY <1>3, <2>5, SameOrderly
<1> QED
  BY <1>1, <1>4, <1>5, OneSteps DEF Clients

(* What may follow a step while the devices have not raced.                *)
LEMMA StepNoRollback ==
  ASSUME Ordered, Clients, Ordering, [Next]_vars, ~ raced,
         NEW m \in First!MidNames, mids[m] # First!NoTmid, mids'[m] # First!NoTmid
  PROVE  mids[m] <= mids'[m]
<1>1. /\ m \in P1!MidNames /\ mids[m] # P1!NoTmid /\ mids'[m] # P1!NoTmid
      /\ m \in P2!MidNames /\ mids[m] # P2!NoTmid /\ mids'[m] # P2!NoTmid
  BY DEF First!MidNames, P1!MidNames, P2!MidNames, First!NoTmid, P1!NoTmid, P2!NoTmid
<1>2. P1!InOrder /\ P2!InOrder
  BY SameOrderly DEF Ordering, P1!Orderly, P2!Orderly
<1>3. CASE [P1!Next]_(P1!vars)
  BY <1>1, <1>2, <1>3, P1!StepForward, Assumed DEF Clients, P1!StoreAssumption
<1>4. CASE [P2!Next]_(P2!vars)
  BY <1>1, <1>2, <1>4, P2!StepForward, Assumed DEF Clients, P2!StoreAssumption
<1> QED
  BY <1>3, <1>4, OneSteps DEF Clients

-----------------------------------------------------------------------------
(* At first there is no account, and no call.                              *)
LEMMA InitDevices == Init => Clients /\ Kept /\ Ordering
<1> SUFFICES ASSUME Init PROVE Clients /\ Kept /\ Ordering
  OBVIOUS
<1>1. P1!Init /\ P2!Init /\ crossed = FALSE /\ raced = FALSE
  BY DEF Init, First!Init, P1!Init, Second!Init, P2!Init, First!MidNames, P1!MidNames,
     Second!MidNames, P2!MidNames, First!Tmids, P1!Tmids, Second!Tmids, P2!Tmids,
     First!NoTmid, P1!NoTmid, Second!NoTmid, P2!NoTmid, First!Idle, P1!Idle, Second!Idle, P2!Idle
<1>2. P1!IInv /\ P2!IInv
  BY <1>1, P1!InitIInv, P2!InitIInv, Assumed DEF P1!StoreAssumption, P2!StoreAssumption
<1>3. call1.step = "idle" /\ call2.step = "idle" /\ ~ enrolled /\ call1.op = "none" /\ call2.op = "none"
  BY <1>1 DEF P1!Init, P2!Init, P1!Idle, P2!Idle
<1>s. Senders /\ ~ Mixing
  <2>1. /\ midFrom = [m \in First!MidNames |-> <<>>] /\ tmidFrom = [t \in First!Tmids |-> <<>>]
        /\ midWrites = [m \in First!MidNames |-> <<>>] /\ tmidWrites = [t \in First!Tmids |-> <<>>]
    BY DEF Init, First!Init
  <2>2. 1 \notin Range(<<>>)
    BY DEF Range
  <2> QED
    BY <2>1, <2>2 DEF Senders, Mixing
<1>4. Clients /\ P1!Ready(call2) /\ ~ P1!Meets(call2)
  BY <1>1, <1>2, <1>3, <1>s DEF Clients, P1!Apart, P1!Ready, P1!Meets
<1>5. Doomed = {}
  BY <1>3, DoomedIs DEF P1!OwnDoomed, P2!OwnDoomed, P1!StopsRename, P2!StopsRename
<1>6. P1!Orderly(call2)
  BY <1>1, <1>3 DEF P1!Init, P1!Orderly, P1!InOrder, P1!Entry
<1> QED
  BY <1>1, <1>3, <1>4, <1>5, <1>6 DEF Kept, Ordering

-----------------------------------------------------------------------------
(* The state of both devices, their calls and the packets they share has    *)
(* its type: a client stays sound whatever another does to its packets.    *)
THEOREM TypesKept == Spec => []TypeOK
<1>1. Clients => TypeOK
  BY DEF Clients, TypeOK, P1!IInv, P2!IInv, First!TypeOK, P1!TypeOK, Second!TypeOK, P2!TypeOK,
     First!MidNames, P1!MidNames, Second!MidNames, P2!MidNames, First!Tmids, P1!Tmids,
     Second!Tmids, P2!Tmids, First!Cred, P1!Cred, Second!Cred, P2!Cred, First!Calls, P1!Calls,
     Second!Calls, P2!Calls, First!Idle, P1!Idle, Second!Idle, P2!Idle, First!NoTmid, P1!NoTmid,
     Second!NoTmid, P2!NoTmid, First!Ops, P1!Ops, Second!Ops, P2!Ops, First!Steps, P1!Steps,
     Second!Steps, P2!Steps, First!Changes, P1!Changes, Second!Changes, P2!Changes
<1> QED
  BY <1>1, InitDevices, StepClients, PTL DEF Spec

(* Two devices never make a name lead to a session of another keyword and   *)
(* pin, on a network that reorders, loses and refuses writes, whichever of  *)
(* them crashes where.                                                     *)
THEOREM NamesLeadHome == Spec => []MidsLeadHome
<1>1. Clients => MidsLeadHome
  BY DEF Clients, MidsLeadHome, P1!IInv, First!MidsLeadHome, P1!MidsLeadHome, First!MidNames,
     P1!MidNames, First!MidName, P1!MidName, First!NoTmid, P1!NoTmid
<1> QED
  BY <1>1, InitDevices, StepClients, PTL DEF Spec

(* On a network that keeps the order of each device's own writes to a name, *)
(* the user is locked out only after a refused write, renames that cross,   *)
(* or writes of both devices in flight to one name: not by the stale belief *)
(* of a device whose credential the other changed, nor by a crash or an     *)
(* exception anywhere in either's calls.                                   *)
THEOREM OnlyCrossingLoses == Ordered => (Spec => []LostOnlyByCrossing)
<1> SUFFICES ASSUME Ordered PROVE Spec => []LostOnlyByCrossing
  OBVIOUS
<1>1. Clients /\ Kept /\ [Next]_vars => (Clients /\ Kept)'
  BY StepClients, StepKept
<1>2. Clients /\ Kept => LostOnlyByCrossing
  <2> SUFFICES ASSUME Clients, Kept, refusals = 0, ~ crossed PROVE First!Reachable
    BY DEF LostOnlyByCrossing
  <2>1. PICK D : D = Doomed
    OBVIOUS
  <2>2. enrolled => P1!Spared(D)
    BY <2>1 DEF Kept
  <2>3. P1!Reachable
    BY <2>2, P1!SparedIsReachable, Assumed DEF Clients, P1!StoreAssumption
  <2> QED
    BY <2>3 DEF P1!Reachable, First!Reachable, P1!Drained, First!Drained, P1!Cred, First!Cred,
       P1!Opens, First!Opens, P1!MidName, First!MidName, P1!MidNames, First!MidNames, P1!Tmids,
       First!Tmids
<1> QED
  BY <1>1, <1>2, InitDevices, PTL DEF Spec

(* And a name leads back to an older session only after both devices have   *)
(* been between the TMID and the MID of one name, or have had writes in     *)
(* flight to one name, at the same time.                                   *)
THEOREM OnlyRacingRollsBack == Ordered => (Spec => NoRollback)
<1> SUFFICES ASSUME Ordered PROVE Spec => NoRollback
  OBVIOUS
<1>1. Clients /\ Ordering /\ [Next]_vars => (Clients /\ Ordering)'
  BY StepClients, StepOrdering
<1>2. Clients /\ Ordering /\ [Next]_vars
        => [~ raced => \A m \in First!MidNames :
              mids[m] # First!NoTmid /\ mids'[m] # First!NoTmid => mids[m] <= mids'[m]]_mids
  BY StepNoRollback
<1> QED
  BY <1>1, <1>2, InitDevices, PTL DEF Spec, NoRollback
=============================================================================
