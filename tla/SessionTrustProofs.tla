------------------------- MODULE SessionTrustProofs -------------------------
(***************************************************************************)
(* What a client may trust, for every value of the constants of            *)
(* SessionStore.                                                           *)
(*                                                                         *)
(*   Order     on a network that applies the writes to one name in the     *)
(*             order of their issue, no name leads back to an older session *)
(*   Credential  the credential in session_ opens the account, and no      *)
(*             replaced one does                                           *)
(*   Company   what the steps of one client leave as they are for the      *)
(*             clients it shares the packets with: the lemmas from which   *)
(*             TwoDevicesProofs is put together                            *)
(***************************************************************************)
EXTENDS SessionStoreProofs

-----------------------------------------------------------------------------
(***************************************************************************)
(* Order: not after a crash, a lost or refused write, or a change to the   *)
(* name in use does a name lead back to an older session than before.      *)
(***************************************************************************)
(* No write in flight, nor what is stored, names TMID t.                    *)
Fresh(t) == \A m \in MidNames : \A i \in 0 .. Len(midWrites[m]) : Entry(m, i) # t

(* Name m leads to nothing later than t, now or once its writes are applied. *)
Newest(m, t) == \A i \in 0 .. Len(midWrites[m]) : Entry(m, i) <= t

InOrder ==
  \A m \in MidNames : \A i, j \in 0 .. Len(midWrites[m]) :
    i < j /\ Entry(m, i) # NoTmid /\ Entry(m, j) # NoTmid => Entry(m, i) <= Entry(m, j)

(* The TMID whose name PutSession is about to put is the newest of all.    *)
Latest == call # Idle /\ call.step = "PutMid" => call.tmid = made

OInv == IInv /\ InOrder /\ Latest

-----------------------------------------------------------------------------
(* Steps that leave the MIDs alone keep their order.                       *)
LEMMA OrderSame ==
  ASSUME InOrder, UNCHANGED <<mids, midWrites>>
  PROVE  InOrder'
BY DEF InOrder, Entry

(* A MID is deleted, or put for a TMID that is the newest of its name.      *)
LEMMA OrderAppend ==
  ASSUME IInv, InOrder, NEW m \in MidNames, NEW t, t = NoTmid \/ Newest(m, t),
         midWrites' = [midWrites EXCEPT ![m] = Append(@, t)],
         UNCHANGED <<mids, made>>
  PROVE  InOrder'
<1>1. /\ midWrites \in [MidNames -> Seq(0 .. MaxTmids)] /\ mids \in [MidNames -> 0 .. MaxTmids]
      /\ made \in 0 .. MaxTmids
  BY DEF IInv, TypeOK
<1> SUFFICES ASSUME NEW n \in MidNames, NEW i \in 0 .. Len(midWrites'[n]),
                    NEW j \in 0 .. Len(midWrites'[n]), i < j,
                    Entry(n, i)' # NoTmid, Entry(n, j)' # NoTmid
             PROVE  Entry(n, i)' <= Entry(n, j)'
  BY DEF InOrder, Entry
<1>2. \A k \in 0 .. Len(midWrites[n]) : Entry(n, k)' = Entry(n, k)
  BY <1>1 DEF Entry
<1>3. CASE n # m \/ j <= Len(midWrites[m])
  <2>1. i \in 0 .. Len(midWrites[n]) /\ j \in 0 .. Len(midWrites[n])
    BY <1>1, <1>3
  <2> QED
    BY <1>2, <2>1 DEF InOrder
<1>4. CASE n = m /\ j > Len(midWrites[m])
  <2>1. Len(midWrites'[m]) = Len(midWrites[m]) + 1 /\ Len(midWrites[m]) \in Nat
    BY <1>1
  <2>2. j = Len(midWrites[m]) + 1 /\ i \in 0 .. Len(midWrites[m]) /\ j # 0
    BY <1>4, <2>1
  <2>3. Entry(n, j)' = t
    BY <1>1, <1>4, <2>2 DEF Entry
  <2>4. Newest(m, t)
    BY <2>3
  <2> QED
    BY <1>2, <1>4, <2>2, <2>3, <2>4 DEF Newest
<1> QED
  BY <1>1, <1>3, <1>4

(* The first write in flight is applied (k = 0), or the k-th refused: the   *)
(* entries that are left keep their order.                                 *)
LEMMA OrderRemove ==
  ASSUME IInv, InOrder, NEW m \in MidNames, midWrites[m] # <<>>,
         NEW k \in 0 .. Len(midWrites[m]),
         midWrites' = [midWrites EXCEPT ![m] = RemoveAt(@, IF k = 0 THEN 1 ELSE k)],
         mids' = IF k = 0 THEN [mids EXCEPT ![m] = midWrites[m][1]] ELSE mids
  PROVE  InOrder'
<1> DEFINE s == midWrites[m]
           q == IF k = 0 THEN 1 ELSE k
           G(i) == IF i < k THEN i ELSE i + 1
<1>1. /\ midWrites \in [MidNames -> Seq(0 .. MaxTmids)] /\ mids \in [MidNames -> 0 .. MaxTmids]
      /\ s \in Seq(0 .. MaxTmids) /\ Len(s) \in Nat
  BY DEF IInv, TypeOK
<1>2. q \in 1 .. Len(s)
  BY <1>1, EmptySeq
<1>3. /\ Len(RemoveAt(s, q)) = Len(s) - 1
      /\ \A j \in 1 .. Len(s) - 1 : RemoveAt(s, q)[j] = IF j < q THEN s[j] ELSE s[j + 1]
  BY <1>1, <1>2, RemoveAtFacts
<1>4. midWrites'[m] = RemoveAt(s, q)
  BY <1>1
<1>5. ASSUME NEW i \in 0 .. Len(s) - 1
      PROVE  G(i) \in 0 .. Len(s) /\ Entry(m, i)' = Entry(m, G(i))
  <2>1. CASE i = 0
    <3>1. CASE k = 0
      BY <1>1, <1>2, <2>1, <3>1 DEF Entry
    <3>2. CASE k # 0
      BY <1>1, <1>2, <2>1, <3>2 DEF Entry
    <3> QED
      BY <3>1, <3>2
  <2>2. CASE i # 0
    <3>1. i \in 1 .. Len(s) - 1
      BY <1>1, <2>2
    <3>2. Entry(m, i)' = IF i < q THEN s[i] ELSE s[i + 1]
      BY <1>3, <1>4, <2>2, <3>1 DEF Entry
    <3> QED
      BY <1>1, <1>2, <3>1, <3>2 DEF Entry
  <2> QED
    BY <2>1, <2>2
<1> SUFFICES ASSUME NEW n \in MidNames, NEW i \in 0 .. Len(midWrites'[n]),
                    NEW j \in 0 .. Len(midWrites'[n]), i < j,
                    Entry(n, i)' # NoTmid, Entry(n, j)' # NoTmid
             PROVE  Entry(n, i)' <= Entry(n, j)'
  BY DEF InOrder, Entry
<1>6. CASE n # m
  <2>1. midWrites'[n] = midWrites[n] /\ mids'[n] = mids[n]
    BY <1>1, <1>6
  <2> QED
    BY <2>1 DEF InOrder, Entry
<1>7. CASE n = m
  <2>1. i \in 0 .. Len(s) - 1 /\ j \in 0 .. Len(s) - 1
    BY <1>3, <1>4, <1>7
  <2>2. /\ G(i) \in 0 .. Len(s) /\ Entry(m, i)' = Entry(m, G(i))
        /\ G(j) \in 0 .. Len(s) /\ Entry(m, j)' = Entry(m, G(j))
    BY <1>5, <2>1
  <2>3. G(i) < G(j)
    BY <2>1
  <2> HIDE DEF G
  <2> QED
    BY <1>7, <2>2, <2>3 DEF InOrder
<1> QED
  BY <1>6, <1>7

-----------------------------------------------------------------------------
(* The network keeps the order.                                            *)
LEMMA NetworkInOrder ==
  ASSUME IInv, InOrder, Ordered, NetworkStep
  PROVE  InOrder'
<1>1. ASSUME NEW m \in MidNames, ApplyMid(m) PROVE InOrder'
  <2>1. PICK i \in 1 .. Len(midWrites[m]) :
          /\ InTurn(i)
          /\ mids' = [mids EXCEPT ![m] = midWrites[m][i]]
          /\ midWrites' = [midWrites EXCEPT ![m] = RemoveAt(@, i)]
    BY <1>1 DEF ApplyMid, LandMid
  <2>2. i = 1 /\ midWrites[m] # <<>> /\ 0 \in 0 .. Len(midWrites[m])
    BY <2>1 DEF InTurn, IInv, TypeOK
  <2> QED
    BY <2>1, <2>2, OrderRemove
<1>2. ASSUME NEW m \in MidNames, RefuseMid(m) PROVE InOrder'
  <2>1. PICK i \in 1 .. Len(midWrites[m]) :
          /\ mids' = mids
          /\ midWrites' = [midWrites EXCEPT ![m] = RemoveAt(@, i)]
    BY <1>2 DEF RefuseMid, DropMid
  <2>2. i # 0 /\ midWrites[m] # <<>> /\ i \in 0 .. Len(midWrites[m])
    BY <2>1 DEF IInv, TypeOK
  <2> QED
    BY <2>1, <2>2, OrderRemove
<1>3. ASSUME NEW t \in Tmids, ApplyTmid(t) \/ RefuseTmid(t) PROVE InOrder'
  BY <1>3, OrderSame DEF ApplyTmid, LandTmid, RefuseTmid, DropTmid
<1> QED
  BY <1>1, <1>2, <1>3 DEF NetworkStep

(* A step that issues no write to a MID, nor applies one, keeps the order.  *)
LEMMA MidsSame ==
  ASSUME \/ UserCall \/ PutTmid \/ GetMid \/ DeleteTmid \/ GetTmid \/ Return \/ MidMissing
         \/ TmidUnreadable \/ CallThrows \/ Crash \/ UNCHANGED vars
  PROVE  UNCHANGED <<mids, midWrites>>
BY DEF UserCall, CreateUser, LogIn, ChangeKeyword, ChangePin, ChangePassword, Change,
   ChangeWithoutNfs, PutTmid, GetMid, DeleteTmid, GetTmid, Return, MidMissing,
   TmidUnreadable, CallThrows, Throw, Crash, packets, vars

(* A step of a client keeps the order, if the session it puts is the newest *)
(* of its name.                                                            *)
LEMMA StepOrder ==
  ASSUME IInv, InOrder, Ordered, [Next]_vars,
         PutMid => Newest(MidName(call.cred), call.tmid)
  PROVE  InOrder'
<1>t. /\ call \in Calls \cup {Idle} /\ session \in Cred \cup {NoCred}
  BY DEF IInv, TypeOK
<1>1. CASE PutMid
  <2>1. MidName(call.cred) \in MidNames
    BY <1>1, <1>t, CredFacts DEF PutMid, At, Idle, Calls
  <2> QED
    BY <1>1, <2>1, OrderAppend DEF PutMid
<1>2. CASE DeleteMid
  <2>1. call # Idle /\ call.step = "DeleteMid"
    BY <1>2, <1>t DEF DeleteMid, At, Idle
  <2>2. MidName(session) \in MidNames
    BY <1>t, <2>1, CredFacts DEF IInv, CallOK, Renames, Changes
  <2> QED
    BY <1>2, <2>2, OrderAppend DEF DeleteMid, account
<1>3. CASE NetworkStep
  BY <1>3, NetworkInOrder
<1> QED
  BY <1>1, <1>2, <1>3, MidsSame, OrderSame DEF Next, ClientStep

(* Every step keeps the order, and PutSession puts the newest TMID.         *)
LEMMA StepInOrder ==
  ASSUME OInv, Ordered, [Next]_vars
  PROVE  InOrder' /\ Latest'
<1> USE DEF OInv
<1>t. call \in Calls \cup {Idle}
  BY DEF IInv, TypeOK
<1>1. InOrder'
  <2>1. ASSUME PutMid PROVE Newest(MidName(call.cred), call.tmid)
    <3>1. call # Idle /\ call.step = "PutMid" /\ call \in Calls
      BY <1>t, <2>1 DEF PutMid, At, Idle
    <3>2. call.tmid = made /\ MidName(call.cred) \in MidNames /\ made \in Nat
      BY <3>1, CredFacts DEF Latest, Calls, IInv, TypeOK
    <3> QED
      BY <3>2 DEF Newest, Entry, IInv, MidsLeadHome, NoTmid
  <2> QED
    BY <2>1, StepOrder
<1>2. CASE PutTmid
  <2>1. call' = [call EXCEPT !.step = "PutMid", !.tmid = made + 1] /\ made' = made + 1
    BY <1>2 DEF PutTmid, GoTo
  <2>2. call \in Calls
    BY <1>2, <1>t DEF PutTmid, At, Idle
  <2>3. Latest'
    BY <2>1, <2>2 DEF Latest, Calls
  <2> QED
    BY <1>1, <2>3
<1>3. CASE PutMid \/ GetMid \/ DeleteTmid \/ DeleteMid \/ GetTmid
  <2>1. call.op # "none"
    BY <1>3 DEF PutMid, GetMid, DeleteTmid, DeleteMid, GetTmid, At
  <2>2. call \in Calls
    BY <1>t, <2>1 DEF Idle
  <2>3. call'.step # "PutMid"
    BY <1>3, <2>2 DEF PutMid, GetMid, DeleteTmid, DeleteMid, GetTmid, GoTo, Calls
  <2> QED
    BY <1>1, <2>3 DEF Latest
<1>4. CASE Return \/ MidMissing \/ TmidUnreadable \/ CallThrows \/ Crash
  <2>1. call' = Idle
    BY <1>4 DEF Return, MidMissing, TmidUnreadable, CallThrows, Throw, Crash
  <2> QED
    BY <1>1, <2>1 DEF Latest
<1>5. CASE UserCall
  <2>1. made' = made /\ (call' = call \/ call'.step \in {"PutTmid", "GetMid"})
    BY <1>5 DEF UserCall, CreateUser, LogIn, ChangeKeyword, ChangePin, ChangePassword, Change,
       ChangeWithoutNfs, Start, account
  <2> QED
    BY <1>1, <2>1 DEF Latest
<1>6. CASE NetworkStep \/ UNCHANGED vars
  <2>1. call' = call /\ made' = made
    BY <1>6 DEF NetworkStep, ApplyMid, LandMid, RefuseMid, DropMid, ApplyTmid, LandTmid,
       RefuseTmid, DropTmid, client, account, vars
  <2> QED
    BY <1>1, <2>1 DEF Latest
<1> QED
  BY <1>2, <1>3, <1>4, <1>5, <1>6 DEF Next, ClientStep

(* A name moves only when a write to it is applied, and the writes are in   *)
(* order: to the same TMID or a newer one.                                 *)
LEMMA StepForward ==
  ASSUME IInv, InOrder, Ordered, [Next]_vars,
         NEW m \in MidNames, mids[m] # NoTmid, mids'[m] # NoTmid
  PROVE  mids[m] <= mids'[m]
<1>1. mids \in [MidNames -> 0 .. MaxTmids] /\ midWrites \in [MidNames -> Seq(0 .. MaxTmids)]
  BY DEF IInv, TypeOK
<1>2. CASE mids' = mids
  BY <1>1, <1>2
<1>3. ASSUME NEW n \in MidNames, ApplyMid(n) PROVE mids[m] <= mids'[m]
  <2>1. PICK i \in 1 .. Len(midWrites[n]) :
          InTurn(i) /\ mids' = [mids EXCEPT ![n] = midWrites[n][i]]
    BY <1>3 DEF ApplyMid, LandMid
  <2>2. i = 1 /\ 0 \in 0 .. Len(midWrites[n]) /\ 1 \in 0 .. Len(midWrites[n])
    BY <1>1, <2>1 DEF InTurn
  <2>3. CASE n # m
    BY <1>1, <2>1, <2>3
  <2>4. CASE n = m
    <3>1. Entry(m, 0) = mids[m] /\ Entry(m, 1) = mids'[m]
      BY <1>1, <2>1, <2>2, <2>4 DEF Entry
    <3> QED
      BY <2>2, <2>4, <3>1 DEF InOrder
  <2> QED
    BY <2>3, <2>4
<1>4. mids' = mids \/ \E n \in MidNames : ApplyMid(n)
  BY MidsSame DEF Next, ClientStep, NetworkStep, PutMid, DeleteMid, RefuseMid, DropMid,
     ApplyTmid, LandTmid, RefuseTmid, DropTmid
<1> QED
  BY <1>2, <1>3, <1>4

(* Nothing has been put at first.                                          *)
LEMMA InitOInv == Init => OInv
<1>1. Init => InOrder /\ Latest
  BY DEF Init, InOrder, Entry, Latest
<1> QED
  BY <1>1, InitIInv DEF OInv

(* On an ordered network no name is ever rolled back to an older session,   *)
(* for any number of names, sessions, crashes and refused writes.          *)
THEOREM NeverRolledBack == Ordered => (Spec => NoRollback)
<1> SUFFICES ASSUME Ordered PROVE Spec => NoRollback
  OBVIOUS
<1>1. OInv /\ [Next]_vars => OInv'
  BY StepIInv, StepInOrder DEF OInv
<1>2. OInv /\ [Next]_vars
      => [\A m \in MidNames : mids[m] # NoTmid /\ mids'[m] # NoTmid => mids[m] <= mids'[m]]_mids
  BY StepForward DEF OInv
<1> QED
  BY <1>1, <1>2, InitOInv, PTL DEF Spec, NoRollback
-----------------------------------------------------------------------------
(***************************************************************************)
(* Credential: what a running client believes is right, if the network is as *)
(* in WellBehaved, and the user logs in only when no write is in flight and *)
(* meets no exceptions of the network.                                     *)
(***************************************************************************)
Settled == WellBehaved /\ ~ Trouble /\ "LogIn" \in Patient

(* A call that has not come to its deletes leaves the old credential valid, *)
(* one that has come to its end has made the new one valid.                *)
Trusts ==
  /\ session # NoCred /\ (\/ call.op \in {"none", "LogIn"}
                          \/ call.step \in {"PutTmid", "PutMid", "GetMid"})
       => session \in Valid
  /\ call.step = "Return" => call.cred \in Valid

(* A log in reads packets that nobody is writing.                          *)
ReadsSettled ==
  call.op = "LogIn" =>
    Drained /\ (call.step = "GetTmid" => call.tmid = mids[MidName(call.cred)])

(* Before the account exists nothing is valid, and nobody is logged in.    *)
NotYet ==
  /\ ~ enrolled => session = NoCred /\ Valid = {}
  /\ call.op = "CreateUser" /\ call.step \in {"PutTmid", "PutMid"} => ~ enrolled
  /\ call.op = "ChangePassword" => MidName(call.cred) = MidName(session)

(* One credential is valid; two while a rename has put and not yet deleted. *)
OneValid ==
  ~ cut => \A c, d \in Valid :
             c = d \/ (StopsRename /\ c \in {session, call.cred} /\ d \in {session, call.cred})

SInv == IInv /\ Survives /\ Trusts /\ ReadsSettled /\ NotYet /\ OneValid

-----------------------------------------------------------------------------
(* When the network has settled, the valid credentials are those that open. *)
LEMMA DrainedOpens ==
  ASSUME IInv, Drained, NEW c \in Cred
  PROVE  Opens(c) <=> c \in Valid
<1>1. c \in Valid => Opens(c)
  BY SettledOpens DEF Valid
<1>2. ASSUME Opens(c) PROVE c \in Valid
  <2>1. mids[MidName(c)] \in Tmids /\ mids[MidName(c)] \in tmids /\ sealed[mids[MidName(c)]] = c
    BY <1>2 DEF Opens, IInv, TypeOK
  <2>2. MidEnd(MidName(c)) = mids[MidName(c)] /\ MidEnd(MidName(c)) # NoTmid
    <3>1. MidName(c) \in MidNames
      BY CredFacts
    <3>2. midWrites[MidName(c)] = <<>>
      BY <3>1 DEF Drained
    <3>3. MidEnd(MidName(c)) = mids[MidName(c)]
      BY <3>2 DEF MidEnd
    <3> QED
      BY <2>1, <3>3 DEF Tmids, NoTmid
  <2>3. TmidEnd(mids[MidName(c)])
    BY <2>1 DEF Drained, TmidEnd
  <2> QED
    BY <2>1, <2>2, <2>3 DEF WillOpen, Valid
<1> QED
  BY <1>1, <1>2

(* What the steps of a call make of the valid credentials.                 *)
LEMMA PutMidValid ==
  ASSUME IInv, Survives, PutMid, call.cred \in Cred
  PROVE  Valid' = {c \in Valid : MidName(c) # MidName(call.cred)} \cup {call.cred}
<1>1. PICK c \in Cred : call.cred = c
  OBVIOUS
<1>2. \A d \in Cred : WillOpen(d)' <=> IF MidName(d) = MidName(c) THEN d = c ELSE WillOpen(d)
  BY <1>1, PutMidEnds DEF PutMid, Survives
<1> QED
  BY <1>1, <1>2 DEF Valid

(* Deleting makes no credential valid; at the end of a rename those under   *)
(* the old name are not.                                                   *)
LEMMA DeleteValid ==
  ASSUME IInv
  PROVE  /\ DeleteTmid => Valid' \subseteq Valid
         /\ DeleteMid /\ session \in Cred => Valid' = {c \in Valid : MidName(c) # MidName(session)}
<1>1. ASSUME DeleteTmid PROVE Valid' \subseteq Valid
  BY <1>1, DeleteTmidEnds DEF Valid
<1>2. ASSUME DeleteMid, session \in Cred
      PROVE  Valid' = {c \in Valid : MidName(c) # MidName(session)}
  <2>1. PICK c \in Cred : session = c
    BY <1>2
  <2>2. \A d \in Cred : WillOpen(d)' <=> WillOpen(d) /\ MidName(d) # MidName(c)
    BY <1>2, <2>1, DeleteMidEnds
  <2> QED
    BY <2>1, <2>2 DEF Valid
<1> QED
  BY <1>1, <1>2

(* All other steps leave them as they are.                                 *)
LEMMA SameValid ==
  ASSUME IInv, WellBehaved
  PROVE  /\ UNCHANGED <<packets, sealed>> => Valid' = Valid
         /\ PutTmid => Valid' = Valid
         /\ NetworkStep => Valid' = Valid
BY SamePackets, PutTmidEnds, NothingRefused, NetworkKeepsEnds DEF Valid

-----------------------------------------------------------------------------
(* The calls of the user start from a client that is idle.                 *)
LEMMA UserCallSettles ==
  ASSUME SInv, Settled, UserCall
  PROVE  (Trusts /\ ReadsSettled /\ NotYet /\ OneValid)'
<1> USE DEF SInv
<1>t. session \in Cred \cup {NoCred}
  BY DEF IInv, TypeOK
<1>1. call = Idle /\ UNCHANGED <<packets, account, history>>
  BY DEF UserCall, CreateUser, LogIn, ChangeKeyword, ChangePin, ChangePassword, Change,
     ChangeWithoutNfs, Start
<1>2. Valid' = Valid /\ ~ StopsRename /\ enrolled' = enrolled /\ cut' = cut
  BY <1>1, SameValid DEF Settled, StopsRename, Idle, Renames, account, history
<1>3. OneValid'
  BY <1>2 DEF OneValid
<1>4. ASSUME NEW c \in Cred, CreateUser(c) PROVE (Trusts /\ ReadsSettled /\ NotYet)'
  <2>1. call' = [op |-> "CreateUser", step |-> "PutTmid", cred |-> c, tmid |-> NoTmid]
        /\ session' = session /\ ~ enrolled
    BY <1>4 DEF CreateUser, Start
  <2> QED
    BY <1>2, <2>1 DEF Trusts, ReadsSettled, NotYet
<1>5. ASSUME NEW c \in Cred, LogIn(c) PROVE (Trusts /\ ReadsSettled /\ NotYet)'
  <2>1. call' = [op |-> "LogIn", step |-> "GetMid", cred |-> c, tmid |-> NoTmid]
        /\ session' = session /\ Drained
    BY <1>5 DEF LogIn, Start, Settled
  <2>2. Drained'
    BY <1>1, <2>1 DEF Drained, packets
  <2>3. session # NoCred => session \in Valid
    BY <1>1 DEF Trusts, Idle
  <2> QED
    BY <1>2, <2>1, <2>2, <2>3 DEF Trusts, ReadsSettled, NotYet
<1>6. ASSUME NEW op \in Changes, NEW c \in Cred, Change(op, c),
             op = "ChangePassword" => MidName(c) = MidName(session)
      PROVE  (Trusts /\ ReadsSettled /\ NotYet)'
  <2>1. call' = [op |-> op, step |-> "PutTmid", cred |-> c, tmid |-> NoTmid]
        /\ session' = session /\ session # NoCred
    BY <1>6 DEF Change, Start
  <2>2. session \in Valid /\ enrolled
    BY <1>1, <2>1 DEF Trusts, Idle, NotYet
  <2> QED
    BY <1>2, <1>6, <2>1, <2>2 DEF Trusts, ReadsSettled, NotYet, Changes, MidName
<1>7. ASSUME NEW k \in Keywords, ChangeKeyword(k) PROVE (Trusts /\ ReadsSettled /\ NotYet)'
  <2>1. [session EXCEPT !.keyword = k] \in Cred
    BY <1>7, <1>t DEF ChangeKeyword, Cred
  <2> QED
    BY <1>6, <1>7, <2>1 DEF ChangeKeyword, Changes
<1>8. ASSUME NEW p \in Pins, ChangePin(p) PROVE (Trusts /\ ReadsSettled /\ NotYet)'
  <2>1. [session EXCEPT !.pin = p] \in Cred
    BY <1>8, <1>t DEF ChangePin, Cred
  <2> QED
    BY <1>6, <1>8, <2>1 DEF ChangePin, Changes
<1>9. ASSUME NEW w \in Passwords, ChangePassword(w) PROVE (Trusts /\ ReadsSettled /\ NotYet)'
  <2>1. [session EXCEPT !.password = w] \in Cred
        /\ MidName([session EXCEPT !.password = w]) = MidName(session)
    BY <1>9, <1>t DEF ChangePassword, Cred, MidName
  <2> QED
    BY <1>6, <1>9, <2>1 DEF ChangePassword, Changes
<1>10. ASSUME ChangeWithoutNfs PROVE (Trusts /\ ReadsSettled /\ NotYet)'
  <2>1. call' = Idle /\ session' = NoCred
    BY <1>1, <1>10 DEF ChangeWithoutNfs
  <2> QED
    BY <1>2, <2>1 DEF Trusts, ReadsSettled, NotYet, Idle
<1> QED
  BY <1>3, <1>4, <1>5, <1>7, <1>8, <1>9, <1>10 DEF UserCall

(* A call that stops short leaves the old credential valid: MidMissing and  *)
(* TmidUnreadable come before any delete, and a crash forgets session_.     *)
LEMMA StopSettles ==
  ASSUME SInv, Settled, MidMissing \/ TmidUnreadable \/ Crash
  PROVE  (Trusts /\ ReadsSettled /\ NotYet /\ OneValid)'
<1> USE DEF SInv
<1>1. call' = Idle /\ UNCHANGED <<packets, account>> /\ cut' = (cut \/ StopsRename)
  BY DEF MidMissing, TmidUnreadable, Crash, Throw
<1>2. Valid' = Valid /\ enrolled' = enrolled
  BY <1>1, SameValid DEF Settled, account
<1>3. OneValid'
  BY <1>1, <1>2 DEF OneValid
<1>4. session' = NoCred \/ (session' = session /\ (call.op = "LogIn" \/ call.step = "GetMid"))
  <2>1. CASE TmidUnreadable
    <3>1. call # Idle /\ call.step = "GetTmid"
      BY <2>1 DEF TmidUnreadable, At, Idle
    <3> QED
      BY <2>1, <3>1 DEF TmidUnreadable, Throw, IInv, CallOK
  <2>2. CASE MidMissing \/ Crash
    BY <2>2 DEF MidMissing, Crash, Throw, At
  <2> QED
    BY <2>1, <2>2
<1>5. Trusts' /\ ReadsSettled' /\ NotYet'
  BY <1>1, <1>2, <1>4 DEF Trusts, ReadsSettled, NotYet, Idle
<1> QED
  BY <1>3, <1>5

(* The network moves what was written to its end.                          *)
LEMMA NetworkSettles ==
  ASSUME SInv, Settled, NetworkStep
  PROVE  (Trusts /\ ReadsSettled /\ NotYet /\ OneValid)'
<1> USE DEF SInv
<1>1. UNCHANGED <<call, session, enrolled, cut>>
  BY DEF NetworkStep, ApplyMid, LandMid, RefuseMid, DropMid, ApplyTmid, LandTmid,
     RefuseTmid, DropTmid, client, account, history
<1>2. Valid' = Valid
  BY SameValid DEF Settled
<1>3. ~ Drained
  <2>1. ASSUME NEW m \in MidNames, ApplyMid(m) \/ RefuseMid(m) PROVE midWrites[m] # <<>>
    BY <2>1 DEF ApplyMid, LandMid, RefuseMid, DropMid
  <2>2. ASSUME NEW t \in Tmids, ApplyTmid(t) \/ RefuseTmid(t) PROVE tmidWrites[t] # <<>>
    BY <2>2 DEF ApplyTmid, LandTmid, RefuseTmid, DropTmid
  <2> QED
    BY <2>1, <2>2 DEF NetworkStep, Drained
<1> QED
  BY <1>1, <1>2, <1>3 DEF Trusts, ReadsSettled, NotYet, OneValid, StopsRename, MidName

-----------------------------------------------------------------------------
(* The steps of a call, one by one.  Each starts from a call under way.    *)
LEMMA PutTmidSettles ==
  ASSUME SInv, Settled, PutTmid
  PROVE  (Trusts /\ ReadsSettled /\ NotYet /\ OneValid)'
<1> USE DEF SInv
<1>1. call # Idle /\ call \in Calls /\ call.step = "PutTmid" /\ call.op # "LogIn"
  BY DEF PutTmid, At, Idle, IInv, TypeOK, CallOK
<1>2. /\ call'.op = call.op /\ call'.cred = call.cred /\ call'.step = "PutMid"
      /\ UNCHANGED <<session, enrolled, cut>>
  BY <1>1 DEF PutTmid, GoTo, Calls, history
<1>3. Valid' = Valid
  BY SameValid DEF Settled
<1>4. ~ StopsRename
  BY <1>1 DEF StopsRename
<1>5. Trusts' /\ ReadsSettled' /\ OneValid'
  BY <1>1, <1>2, <1>3, <1>4 DEF Trusts, ReadsSettled, OneValid
<1>6. NotYet'
  BY <1>1, <1>2, <1>3 DEF NotYet, MidName
<1> QED
  BY <1>5, <1>6

(* Putting the MID makes the new credential valid.                         *)
LEMMA PutMidSettles ==
  ASSUME SInv, Settled, PutMid
  PROVE  (Trusts /\ ReadsSettled /\ NotYet /\ OneValid)'
<1> USE DEF SInv
<1>1. call # Idle /\ call \in Calls /\ call.step = "PutMid" /\ call.op # "LogIn"
  BY DEF PutMid, At, Idle, IInv, TypeOK, CallOK
<1>2. PICK c \in Cred : c = call.cred
  BY <1>1 DEF Calls
<1>3. /\ call'.op = call.op /\ call'.cred = c
      /\ call'.step = (IF call.op \in Renames THEN "GetMid" ELSE "Return")
      /\ UNCHANGED <<session, cut>> /\ enrolled'
  BY <1>1, <1>2 DEF PutMid, GoTo, Calls, history
<1>4. Valid' = {d \in Valid : MidName(d) # MidName(c)} \cup {c}
  BY <1>2, PutMidValid
<1>5. ~ StopsRename /\ Valid \subseteq Cred
  BY <1>1 DEF StopsRename, Valid
<1>6. session # NoCred => session \in Valid
  BY <1>1 DEF Trusts
<1>7. CASE call.op \in Renames
  <2>1. session \in Valid /\ MidName(session) # MidName(c)
    BY <1>1, <1>2, <1>6, <1>7 DEF IInv, CallOK, Changes, Renames, Survives
  <2>2. Trusts' /\ ReadsSettled' /\ NotYet'
    BY <1>3, <1>4, <1>7, <2>1 DEF Trusts, ReadsSettled, NotYet, Renames
  <2>3. StopsRename'
    BY <1>3, <1>7 DEF StopsRename
  <2>4. ~ cut => \A d \in Valid : d = session
    BY <1>5, <2>1 DEF OneValid
  <2> QED
    BY <1>3, <1>4, <2>2, <2>3, <2>4 DEF OneValid
<1>8. CASE call.op \notin Renames
  <2>1. call.op \in {"CreateUser", "ChangePassword"}
    BY <1>1, <1>8 DEF Calls, Ops, Changes, Renames
  <2>2. CASE call.op = "CreateUser"
    <3>1. session = NoCred /\ Valid = {}
      BY <1>1, <2>2 DEF NotYet
    <3> QED
      BY <1>3, <1>4, <1>8, <2>2, <3>1 DEF Trusts, ReadsSettled, NotYet, OneValid
  <2>3. CASE call.op = "ChangePassword"
    <3>1. session \in Valid /\ MidName(session) = MidName(c)
      BY <1>1, <1>2, <1>6, <2>3 DEF IInv, CallOK, Changes, NotYet
    <3>2. ~ cut => \A d \in Valid : d = session
      BY <1>5, <3>1 DEF OneValid
    <3>3. OneValid'
      BY <1>3, <1>4, <3>1, <3>2 DEF OneValid
    <3>4. NotYet'
      BY <1>3, <2>3, <3>1 DEF NotYet, MidName
    <3>5. Trusts' /\ ReadsSettled'
      BY <1>3, <1>4, <1>8, <2>3 DEF Trusts, ReadsSettled
    <3> QED
      BY <3>3, <3>4, <3>5
  <2> QED
    BY <2>1, <2>2, <2>3
<1> QED
  BY <1>7, <1>8

(* A log in reads what a valid credential leads to.                        *)
LEMMA ReadSettles ==
  ASSUME SInv, Settled, GetMid \/ GetTmid
  PROVE  (Trusts /\ ReadsSettled /\ NotYet /\ OneValid)'
<1> USE DEF SInv
<1>1. call # Idle /\ call \in Calls /\ call.step \in {"GetMid", "GetTmid"}
  BY DEF GetMid, GetTmid, At, Idle, IInv, TypeOK
<1>2. PICK c \in Cred : c = call.cred
  BY <1>1 DEF Calls
<1>3. /\ call'.op = call.op /\ call'.cred = c
      /\ UNCHANGED <<session, enrolled, cut, packets, sealed>>
  BY <1>1, <1>2 DEF GetMid, GetTmid, GoTo, Calls, history, account
<1>4. Valid' = Valid
  BY <1>3, SameValid DEF Settled
<1>5. Drained' <=> Drained
  BY <1>3 DEF Drained, packets
<1>6. CASE GetMid
  <2>1. /\ call.step = "GetMid" /\ call.op \in Renames \cup {"LogIn"}
        /\ call'.step = (IF call.op = "LogIn" THEN "GetTmid" ELSE "DeleteTmid")
        /\ call.op = "LogIn" => call'.tmid = mids[MidName(c)]
    BY <1>1, <1>2, <1>6 DEF GetMid, At, GoTo, Calls, LookUpName, IInv, CallOK
  <2>2. StopsRename' <=> StopsRename
    BY <1>3, <2>1 DEF StopsRename, Renames
  <2>3. OneValid'
    BY <1>2, <1>3, <1>4, <2>2 DEF OneValid
  <2>4. ReadsSettled'
    BY <1>3, <1>5, <2>1 DEF ReadsSettled, packets, MidName
  <2>5. Trusts'
    BY <1>3, <1>4, <2>1 DEF Trusts
  <2>6. NotYet'
    BY <1>3, <1>4, <2>1 DEF NotYet, Renames
  <2> QED
    BY <2>3, <2>4, <2>5, <2>6
<1>7. CASE GetTmid
  <2>1. /\ call.step = "GetTmid" /\ call.op = "LogIn" /\ call'.step = "Return"
        /\ call.tmid \in tmids /\ sealed[call.tmid] = c
    BY <1>1, <1>2, <1>7 DEF GetTmid, At, GoTo, Calls, IInv, CallOK
  <2>2. Drained /\ call.tmid = mids[MidName(c)]
    BY <1>2, <2>1 DEF ReadsSettled
  <2>3. Opens(c)
    BY <2>1, <2>2 DEF Opens
  <2>4. c \in Valid
    BY <2>2, <2>3, DrainedOpens
  <2>5. ~ StopsRename /\ ~ StopsRename'
    BY <1>3, <2>1 DEF StopsRename, Renames
  <2>6. OneValid'
    BY <1>3, <1>4, <2>5 DEF OneValid
  <2>7. Trusts' /\ NotYet' /\ ReadsSettled'
    BY <1>3, <1>4, <1>5, <2>1, <2>2, <2>4 DEF Trusts, NotYet, ReadsSettled
  <2> QED
    BY <2>6, <2>7
<1> QED
  BY <1>6, <1>7

(* A rename deletes when the new credential is already valid.              *)
LEMMA DeleteSettles ==
  ASSUME SInv, Settled, DeleteTmid \/ DeleteMid
  PROVE  (Trusts /\ ReadsSettled /\ NotYet /\ OneValid)'
<1> USE DEF SInv
<1>1. call # Idle /\ call \in Calls /\ call.step \in {"DeleteTmid", "DeleteMid"}
  <2>1. At("DeleteTmid") \/ At("DeleteMid")
    BY DEF DeleteTmid, DeleteMid
  <2>2. call.op # "none" /\ call.step \in {"DeleteTmid", "DeleteMid"}
    BY <2>1 DEF At
  <2> QED
    BY <2>2 DEF Idle, IInv, TypeOK
<1>2. call.op \in Renames /\ session \in Cred
  BY <1>1 DEF IInv, CallOK, TypeOK, Changes, Renames
<1>3. PICK c \in Cred, old \in Cred : c = call.cred /\ old = session
  BY <1>1, <1>2 DEF Calls
<1>4. /\ call'.op = call.op /\ call'.cred = c /\ session' = old
      /\ UNCHANGED <<enrolled, cut>>
  BY <1>1, <1>3 DEF DeleteTmid, DeleteMid, GoTo, Calls, history, account
<1>5. StopsRename
  BY <1>1, <1>2 DEF StopsRename
<1>6. c \in Valid /\ MidName(old) # MidName(c)
  BY <1>2, <1>3, <1>5 DEF Survives, Valid
<1>7. enrolled
  BY <1>6 DEF NotYet
<1>8. CASE DeleteTmid
  <2>1. Valid' \subseteq Valid /\ call'.step = "DeleteMid"
    BY <1>1, <1>8, DeleteValid DEF DeleteTmid, GoTo, Calls
  <2>2. StopsRename'
    BY <1>2, <1>4, <2>1 DEF StopsRename
  <2>3. OneValid'
    BY <1>3, <1>4, <1>5, <2>1, <2>2 DEF OneValid
  <2> QED
    BY <1>2, <1>4, <1>7, <2>1, <2>3 DEF Trusts, ReadsSettled, NotYet, Renames
<1>9. CASE DeleteMid
  <2>1. /\ Valid' = {d \in Valid : MidName(d) # MidName(old)}
        /\ call'.step = "Return"
    BY <1>1, <1>2, <1>3, <1>9, DeleteValid DEF DeleteMid, GoTo, Calls
  <2>2. ~ cut => \A d \in Valid' : d = c
    BY <1>3, <1>6, <2>1 DEF OneValid
  <2>3. OneValid'
    BY <1>4, <2>2 DEF OneValid
  <2> QED
    BY <1>2, <1>4, <1>6, <1>7, <2>1, <2>3 DEF Trusts, ReadsSettled, NotYet, Renames
<1> QED
  BY <1>8, <1>9

(* A call returns with a credential that is valid.                         *)
LEMMA ReturnSettles ==
  ASSUME SInv, Settled, Return
  PROVE  (Trusts /\ ReadsSettled /\ NotYet /\ OneValid)'
<1> USE DEF SInv
<1>1. call.step = "Return" /\ call.cred \in Valid
  BY DEF Return, At, Trusts
<1>2. call' = Idle /\ session' = call.cred /\ UNCHANGED <<packets, sealed, enrolled, cut>>
  BY DEF Return, account, history
<1>3. Valid' = Valid /\ enrolled
  BY <1>1, <1>2, SameValid DEF Settled, NotYet
<1>4. ~ StopsRename
  BY <1>1 DEF StopsRename
<1> QED
  BY <1>1, <1>2, <1>3, <1>4 DEF Trusts, ReadsSettled, NotYet, OneValid, Idle

(* All steps together.                                                     *)
LEMMA StepSettles ==
  ASSUME SInv, Settled, [Next]_vars
  PROVE  SInv'
<1>1. IInv' /\ Survives'
  BY StepIInv, StepSurvives DEF SInv, Settled
<1>2. CASE UNCHANGED vars
  <2>1. Valid' = Valid
    BY <1>2, SameValid DEF vars, account, SInv, Settled
  <2>2. Drained' <=> Drained
    BY <1>2 DEF vars, packets, Drained
  <2>3. /\ UNCHANGED <<call, session, enrolled, cut, mids>>
        /\ StopsRename' <=> StopsRename
    BY <1>2 DEF vars, client, account, history, packets, StopsRename
  <2>4. Trusts' /\ ReadsSettled' /\ NotYet' /\ OneValid'
    BY <2>1, <2>2, <2>3 DEF SInv, Trusts, ReadsSettled, NotYet, OneValid, MidName
  <2> QED
    BY <1>1, <2>4 DEF SInv
<1>3. CASE Next
  <2>1. ~ CallThrows
    BY DEF CallThrows, Settled
  <2>2. (Trusts /\ ReadsSettled /\ NotYet /\ OneValid)'
    BY <1>3, <2>1, UserCallSettles, StopSettles, NetworkSettles, PutTmidSettles,
       PutMidSettles, ReadSettles, DeleteSettles, ReturnSettles DEF Next, ClientStep
  <2> QED
    BY <1>1, <2>2 DEF SInv
<1> QED
  BY <1>2, <1>3

(* Nobody has an account at first.                                         *)
LEMMA InitSettles == Init => SInv
<1>1. Init => IInv /\ Survives
  BY InitIInv, InitSurvives
<1>2. ASSUME Init, NEW c \in Cred PROVE ~ WillOpen(c)
  BY <1>2, CredFacts DEF Init, WillOpen, MidEnd
<1>3. Init => Valid = {}
  BY <1>2 DEF Valid
<1> QED
  BY <1>1, <1>3 DEF Init, SInv, Trusts, ReadsSettled, NotYet, OneValid, Idle

-----------------------------------------------------------------------------
(* The credential that session_ holds after any sequence of log ins,       *)
(* changes, failed changes and crashes is one that opens the account, as    *)
(* soon as the writes have taken effect.                                   *)
THEOREM CredentialTrusted == Settled => (Spec => []SessionOpens)
<1> SUFFICES ASSUME Settled PROVE Spec => []SessionOpens
  OBVIOUS
<1>1. SInv => SessionOpens
  <2> SUFFICES ASSUME SInv, call = Idle, session # NoCred, Drained PROVE Opens(session)
    BY DEF SessionOpens
  <2>1. session \in Valid
    BY DEF SInv, Trusts, Idle
  <2>2. PICK c \in Cred : c = session
    BY <2>1 DEF Valid
  <2> QED
    BY <2>1, <2>2, DrainedOpens DEF SInv
<1>2. SInv /\ [Next]_vars => SInv'
  BY StepSettles
<1> QED
  BY <1>1, <1>2, InitSettles, PTL DEF Spec

(* And it is the only one, unless a rename was cut short: a change of any   *)
(* field revokes what it replaces.                                         *)
THEOREM ReplacedRevoked == Settled => (Spec => []OldCredentialsRevoked)
<1> SUFFICES ASSUME Settled PROVE Spec => []OldCredentialsRevoked
  OBVIOUS
<1>1. SInv => OldCredentialsRevoked
  <2> SUFFICES ASSUME SInv, call = Idle, session # NoCred, Drained, ~ cut
               PROVE  {c \in Cred : Opens(c)} = {session}
    BY DEF OldCredentialsRevoked
  <2>1. session \in Valid
    BY DEF SInv, Trusts, Idle
  <2>2. ~ StopsRename
    BY DEF StopsRename, Idle, Renames
  <2>3. \A c \in Valid : c = session
    BY <2>1, <2>2 DEF SInv, OneValid
  <2>4. \A c \in Cred : Opens(c) <=> c \in Valid
    BY DrainedOpens DEF SInv
  <2> QED
    BY <2>1, <2>3, <2>4 DEF Valid
<1>2. SInv /\ [Next]_vars => SInv'
  BY StepSettles
<1> QED
  BY <1>1, <1>2, InitSettles, PTL DEF Spec
-----------------------------------------------------------------------------
(***************************************************************************)
(* Company: one client among others, who share its packets and its account. *)
(* The lemmas are about a step of this client; what they know of another   *)
(* client, which its step leaves alone, is a parameter: c, the call of the *)
(* other, or D, the names the other has set out to delete.                 *)
(***************************************************************************)

(* A client comes to PutMid with a TMID it has just made, or was there, ... *)
LEMMA ArrivesAtPutMid ==
  ASSUME IInv, [Move]_vars, call'.step = "PutMid"
  PROVE  \/ call' = call
         \/ PutTmid /\ call'.tmid = made + 1 /\ call'.cred = call.cred /\ call.cred \in Cred
<1>t. call \in Calls \cup {Idle}
  BY DEF IInv, TypeOK
<1>1. CASE PutTmid
  <2>1. call \in Calls
    BY <1>1, <1>t DEF PutTmid, At, Idle
  <2> QED
    BY <1>1, <2>1 DEF PutTmid, GoTo, Calls
<1>2. CASE PutMid \/ GetMid \/ DeleteTmid \/ DeleteMid \/ GetTmid
  <2>1. call.op # "none"
    BY <1>2 DEF PutMid, GetMid, DeleteTmid, DeleteMid, GetTmid, At
  <2>2. call \in Calls
    BY <1>t, <2>1 DEF Idle
  <2> QED
    BY <1>2, <2>2 DEF PutMid, GetMid, DeleteTmid, DeleteMid, GetTmid, GoTo, Calls
<1>3. CASE Return \/ MidMissing \/ TmidUnreadable \/ CallThrows \/ Crash
  BY <1>3 DEF Return, MidMissing, TmidUnreadable, CallThrows, Throw, Crash, Idle
<1>4. CASE UserCall
  BY <1>4 DEF UserCall, CreateUser, LogIn, ChangeKeyword, ChangePin, ChangePassword, Change,
     ChangeWithoutNfs, Start
<1>5. CASE Arrival \/ UNCHANGED vars
  BY <1>5 DEF Arrival, LandMid, DropMid, LandTmid, DropTmid, client, vars
<1> QED
  BY <1>1, <1>2, <1>3, <1>4, <1>5 DEF Move, ClientStep

(* ... and to DeleteTmid with one that a stored MID leads to.              *)
LEMMA ArrivesAtDeleteTmid ==
  ASSUME IInv, [Move]_vars, call'.step = "DeleteTmid"
  PROVE  \/ call' = call
         \/ \E m \in MidNames : call'.tmid = mids[m]
<1>t. call \in Calls \cup {Idle} /\ session \in Cred \cup {NoCred}
  BY DEF IInv, TypeOK
<1>1. CASE GetMid
  <2>1. call \in Calls /\ call # Idle /\ call.step = "GetMid"
    BY <1>1, <1>t DEF GetMid, At, Idle
  <2>2. call'.tmid = mids[LookUpName] /\ call.op # "LogIn"
    BY <1>1, <2>1 DEF GetMid, GoTo, Calls
  <2>3. LookUpName \in MidNames
    BY <1>t, <2>1, <2>2, CredFacts DEF LookUpName, IInv, CallOK, Renames, Changes
  <2> QED
    BY <2>2, <2>3
<1>2. CASE PutTmid \/ PutMid \/ DeleteTmid \/ DeleteMid \/ GetTmid
  <2>1. call.op # "none"
    BY <1>2 DEF PutTmid, PutMid, DeleteTmid, DeleteMid, GetTmid, At
  <2>2. call \in Calls
    BY <1>t, <2>1 DEF Idle
  <2> QED
    BY <1>2, <2>2 DEF PutTmid, PutMid, DeleteTmid, DeleteMid, GetTmid, GoTo, Calls
<1>3. CASE Return \/ MidMissing \/ TmidUnreadable \/ CallThrows \/ Crash
  BY <1>3 DEF Return, MidMissing, TmidUnreadable, CallThrows, Throw, Crash, Idle
<1>4. CASE UserCall
  BY <1>4 DEF UserCall, CreateUser, LogIn, ChangeKeyword, ChangePin, ChangePassword, Change,
     ChangeWithoutNfs, Start
<1>5. CASE Arrival \/ UNCHANGED vars
  BY <1>5 DEF Arrival, LandMid, DropMid, LandTmid, DropTmid, client, vars
<1> QED
  BY <1>1, <1>2, <1>3, <1>4, <1>5 DEF Move, ClientStep

(* TMIDs are numbered on and never sealed again.                           *)
LEMMA SealsKept ==
  ASSUME IInv, [Move]_vars
  PROVE  made <= made' /\ \A t \in 1 .. made : sealed'[t] = sealed[t]
<1>t. made \in 0 .. MaxTmids /\ sealed \in [Tmids -> Cred \cup {NoCred}] /\ MaxTmids \in Nat
  BY StoreAssumption DEF IInv, TypeOK, StoreAssumption
<1>1. CASE PutTmid
  <2>1. made' = made + 1 /\ sealed' = [sealed EXCEPT ![made + 1] = call.cred]
    BY <1>1 DEF PutTmid
  <2> QED
    BY <1>t, <2>1 DEF Tmids
<1>2. CASE ~ PutTmid
  <2>1. UNCHANGED <<made, sealed>>
    BY <1>2 DEF Move, UserCall, ClientStep, Arrival, CreateUser, LogIn, ChangeKeyword,
       ChangePin, ChangePassword, Change, ChangeWithoutNfs, PutMid, GetMid, DeleteTmid,
       DeleteMid, GetTmid, Return, MidMissing, TmidUnreadable, CallThrows, Throw, Crash,
       LandMid, DropMid, LandTmid, DropTmid, account, vars
  <2> QED
    BY <1>t, <2>1
<1> QED
  BY <1>1, <1>2

(* Refusals are counted, so none has happened if none will have.           *)
LEMMA RefusalsCounted ==
  ASSUME IInv, [Move]_vars, refusals' = 0
  PROVE  refusals = 0
<1>t. refusals \in Nat
  BY StoreAssumption DEF IInv, TypeOK, StoreAssumption
<1>1. refusals' = refusals \/ refusals' = refusals + 1
  BY DEF Move, UserCall, ClientStep, Arrival, CreateUser, LogIn, ChangeKeyword, ChangePin,
     ChangePassword, Change, ChangeWithoutNfs, PutTmid, PutMid, GetMid, DeleteTmid, DeleteMid,
     GetTmid, Return, MidMissing, TmidUnreadable, CallThrows, Throw, Crash, LandMid,
     DropMid, LandTmid, DropTmid, history, vars
<1> QED
  BY <1>t, <1>1

(* A client relies on no more than this of what the others do.             *)
LEMMA OthersWrite ==
  ASSUME IInv, UNCHANGED client, TypeOK', SealedOK', MidsLeadHome',
         made <= made', \A t \in 1 .. made : sealed'[t] = sealed[t],
         call.step = "PutTmid" => made' < MaxTmids
  PROVE  IInv'
<1>1. made \in Nat /\ made' \in Nat
  BY StoreAssumption DEF IInv, TypeOK, StoreAssumption
<1>2. CallOK'
  BY <1>1 DEF IInv, CallOK, client
<1> QED
  BY <1>2 DEF IInv

-----------------------------------------------------------------------------
(* Which TMIDs the names may lead to.  A step adds an entry to a name only  *)
(* by PutMid.                                                              *)
LEMMA EntriesKept ==
  ASSUME IInv, [Move]_vars
  PROVE  \A m \in MidNames : \A i \in 0 .. Len(midWrites'[m]) :
           \/ \E j \in 0 .. Len(midWrites[m]) : Entry(m, i)' = Entry(m, j)
           \/ Entry(m, i)' = NoTmid
           \/ PutMid /\ m = MidName(call.cred) /\ Entry(m, i)' = call.tmid
<1>t. /\ call \in Calls \cup {Idle} /\ session \in Cred \cup {NoCred}
      /\ midWrites \in [MidNames -> Seq(0 .. MaxTmids)] /\ mids \in [MidNames -> 0 .. MaxTmids]
      /\ made \in 0 .. MaxTmids /\ MaxTmids \in Nat
  BY StoreAssumption DEF IInv, TypeOK, StoreAssumption
<1>1. CASE PutMid
  <2>1. call # Idle /\ call.step = "PutMid" /\ call \in Calls
    BY <1>1, <1>t DEF PutMid, At, Idle
  <2>2. PICK p \in MidNames, t \in 0 .. MaxTmids : p = MidName(call.cred) /\ t = call.tmid
    BY <1>t, <2>1, CredFacts DEF Calls
  <2>3. midWrites' = [midWrites EXCEPT ![p] = Append(@, t)] /\ UNCHANGED mids
    BY <1>1, <2>2 DEF PutMid
  <2>4. \A m \in MidNames : \A i \in 0 .. Len(midWrites'[m]) :
          \/ \E j \in 0 .. Len(midWrites[m]) : Entry(m, i)' = Entry(m, j)
          \/ m = p /\ Entry(m, i)' = t
    BY <1>t, <2>3, AppendEntries
  <2> QED
    BY <1>1, <2>2, <2>4
<1>2. CASE DeleteMid
  <2>1. call # Idle /\ call.step = "DeleteMid"
    BY <1>2, <1>t DEF DeleteMid, At, Idle
  <2>2. PICK p \in MidNames, t \in 0 .. MaxTmids : p = MidName(session) /\ t = NoTmid
    BY <1>t, <2>1, CredFacts DEF IInv, CallOK, Renames, Changes, NoTmid
  <2>3. midWrites' = [midWrites EXCEPT ![p] = Append(@, t)] /\ UNCHANGED mids
    BY <1>2, <2>2 DEF DeleteMid
  <2>4. \A m \in MidNames : \A i \in 0 .. Len(midWrites'[m]) :
          \/ \E j \in 0 .. Len(midWrites[m]) : Entry(m, i)' = Entry(m, j)
          \/ m = p /\ Entry(m, i)' = t
    BY <1>t, <2>3, AppendEntries
  <2> QED
    BY <2>2, <2>4
<1>3. CASE \E n \in MidNames : \E i \in 1 .. Len(midWrites[n]) : LandMid(n, i) \/ DropMid(n, i)
  <2>1. PICK n \in MidNames : \E i \in 1 .. Len(midWrites[n]) : LandMid(n, i) \/ DropMid(n, i)
    BY <1>3
  <2>0. PICK k \in 1 .. Len(midWrites[n]) : LandMid(n, k) \/ DropMid(n, k)
    BY <2>1
  <2>2. /\ midWrites' = [midWrites EXCEPT ![n] = RemoveAt(@, k)]
        /\ mids' = mids \/ mids' = [mids EXCEPT ![n] = midWrites[n][k]]
    BY <2>0 DEF LandMid, DropMid
  <2>3. \A m \in MidNames : \A i \in 0 .. Len(midWrites'[m]) :
          \E j \in 0 .. Len(midWrites[m]) : Entry(m, i)' = Entry(m, j)
    BY <1>t, <2>2, RemoveEntries
  <2> QED
    BY <2>3
<1>4. CASE UNCHANGED <<mids, midWrites>>
  BY <1>4 DEF Entry
<1> QED
  BY <1>1, <1>2, <1>3, <1>4, MidsSame DEF Move, ClientStep, Arrival, LandTmid, DropTmid

(* No name leads to a TMID that has not been made.                         *)
LEMMA UnmadeIsFresh ==
  ASSUME IInv
  PROVE  Fresh(made + 1) /\ \A m \in MidNames : Newest(m, made + 1)
<1>1. made \in Nat
  BY StoreAssumption DEF IInv, TypeOK, StoreAssumption
<1>2. ASSUME NEW m \in MidNames, NEW i \in 0 .. Len(midWrites[m])
      PROVE  Entry(m, i) # made + 1 /\ Entry(m, i) <= made + 1
  <2>1. Entry(m, i) \in 0 .. MaxTmids
    <3>1. /\ mids \in [MidNames -> 0 .. MaxTmids]
          /\ midWrites \in [MidNames -> Seq(0 .. MaxTmids)]
      BY DEF IInv, TypeOK
    <3>2. i # 0 => i \in 1 .. Len(midWrites[m])
      BY <3>1
    <3> QED
      BY <3>1, <3>2, StoreAssumption DEF Entry, StoreAssumption
  <2>2. Entry(m, i) = NoTmid \/ Entry(m, i) <= made
    BY DEF IInv, MidsLeadHome, Entry
  <2> QED
    BY <1>1, <2>1, <2>2, StoreAssumption DEF NoTmid, StoreAssumption
<1> QED
  BY <1>2 DEF Fresh, Newest

LEMMA StepKeepsFresh ==
  ASSUME IInv, [Move]_vars, NEW t, t # NoTmid, Fresh(t), PutMid => call.tmid # t
  PROVE  Fresh(t)'
BY EntriesKept DEF Fresh

LEMMA StepKeepsNewest ==
  ASSUME IInv, [Move]_vars, NEW m \in MidNames, NEW t \in Nat, Newest(m, t),
         PutMid /\ MidName(call.cred) = m => call.tmid <= t
  PROVE  Newest(m, t)'
BY EntriesKept DEF Newest, NoTmid

-----------------------------------------------------------------------------
(* What a call at PutMid or DeleteTmid carries.                            *)
Carries(c) ==
  /\ c.step \in {"PutMid", "DeleteTmid"} => c.tmid \in 1 .. made
  /\ c.step = "PutMid" => c.cred \in Cred

LEMMA CallCarries ==
  ASSUME IInv
  PROVE  Carries(call)
BY DEF IInv, TypeOK, CallOK, Carries, Idle, Calls

(* The steps that put and delete are at the place their name says.         *)
LEMMA AtWrites ==
  ASSUME IInv
  PROVE  /\ PutTmid => call.step = "PutTmid"
         /\ PutMid => call.step = "PutMid" /\ call'.step # "PutMid"
         /\ DeleteTmid => call.step = "DeleteTmid" /\ call'.step # "PutMid"
<1>t. call \in Calls \cup {Idle}
  BY DEF IInv, TypeOK
<1>1. PutTmid => call.step = "PutTmid"
  BY DEF PutTmid, At
<1>2. ASSUME PutMid PROVE call.step = "PutMid" /\ call'.step # "PutMid"
  <2>1. call.op # "none" /\ call.step = "PutMid"
    BY <1>2 DEF PutMid, At
  <2>2. call \in Calls
    BY <1>t, <2>1 DEF Idle
  <2> QED
    BY <1>2, <2>1, <2>2 DEF PutMid, GoTo, Calls
<1>3. ASSUME DeleteTmid PROVE call.step = "DeleteTmid" /\ call'.step # "PutMid"
  <2>1. call.op # "none" /\ call.step = "DeleteTmid"
    BY <1>3 DEF DeleteTmid, At
  <2>2. call \in Calls
    BY <1>t, <2>1 DEF Idle
  <2> QED
    BY <1>3, <2>1, <2>2 DEF DeleteTmid, GoTo, Calls
<1> QED
  BY <1>1, <1>2, <1>3

(* Two clients that are about to put a MID carry TMIDs of their own, which  *)
(* no name leads to yet and the other is not about to delete.              *)
Apart(c) ==
  /\ call.step = "PutMid" => Fresh(call.tmid)
  /\ c.step = "PutMid" => Fresh(c.tmid)
  /\ call.step = "PutMid" /\ c.step \in {"PutMid", "DeleteTmid"} => call.tmid # c.tmid
  /\ c.step = "PutMid" /\ call.step = "DeleteTmid" => call.tmid # c.tmid

LEMMA StepApart ==
  ASSUME IInv, [Move]_vars, NEW c, Carries(c), Apart(c)
  PROVE  Apart(c)'
<1>t. made \in Nat /\ NoTmid = 0 /\ Carries(call)
  BY CallCarries, StoreAssumption DEF IInv, TypeOK, StoreAssumption, NoTmid
<1>1. ASSUME call'.step = "PutMid"
      PROVE  /\ Fresh(call.tmid)'
             /\ c.step \in {"PutMid", "DeleteTmid"} => call'.tmid # c.tmid
  <2>1. CASE call' = call
    <3>1. PICK t : t = call.tmid
      OBVIOUS
    <3>2. t # NoTmid /\ Fresh(t) /\ ~ PutMid
      BY <1>1, <1>t, <2>1, <3>1, AtWrites DEF Apart, Carries
    <3>3. Fresh(t)'
      BY <3>2, StepKeepsFresh
    <3> QED
      BY <1>1, <2>1, <3>1, <3>3 DEF Apart, Fresh
  <2>2. CASE PutTmid /\ call'.tmid = made + 1
    <3>1. PICK t : t = made + 1
      OBVIOUS
    <3>2. t # NoTmid /\ Fresh(t) /\ ~ PutMid
      BY <1>t, <2>2, <3>1, UnmadeIsFresh, AtWrites
    <3>3. Fresh(t)'
      BY <3>2, StepKeepsFresh
    <3> QED
      BY <1>t, <2>2, <3>1, <3>3 DEF Fresh, Carries
  <2> QED
    BY <1>1, <2>1, <2>2, ArrivesAtPutMid
<1>2. ASSUME c.step = "PutMid" PROVE Fresh(c.tmid)'
  <2>1. PICK t : t = c.tmid
    OBVIOUS
  <2>2. t # NoTmid /\ Fresh(t) /\ (PutMid => call.tmid # t)
    BY <1>2, <1>t, <2>1, AtWrites DEF Apart, Carries
  <2> QED
    BY <2>1, <2>2, StepKeepsFresh
<1>3. ASSUME c.step = "PutMid", call'.step = "DeleteTmid" PROVE call'.tmid # c.tmid
  <2>1. CASE \E m \in MidNames : call'.tmid = mids[m]
    <3>1. PICK m \in MidNames : call'.tmid = Entry(m, 0)
      BY <2>1 DEF Entry
    <3>2. 0 \in 0 .. Len(midWrites[m])
      BY DEF IInv, TypeOK
    <3> QED
      BY <1>3, <3>1, <3>2 DEF Apart, Fresh
  <2> QED
    BY <1>3, <2>1, ArrivesAtDeleteTmid DEF Apart
<1> QED
  BY <1>1, <1>2, <1>3 DEF Apart

(* The sessions about to be put are the newest of their names, unless both *)
(* clients are putting under one name.                                     *)
Orderly(c) ==
  /\ InOrder
  /\ call.step = "PutMid" => Newest(MidName(call.cred), call.tmid)
  /\ c.step = "PutMid" => Newest(MidName(c.cred), c.tmid)

Meets(c) ==
  /\ call.step = "PutMid" /\ c.step = "PutMid"
  /\ MidName(call.cred) = MidName(c.cred)

LEMMA StepOrderly ==
  ASSUME IInv, Ordered, [Next]_vars, NEW c, Carries(c), Orderly(c), ~ Meets(c)
  PROVE  Orderly(c)'
<1>t. made \in Nat /\ Carries(call)
  BY CallCarries, StoreAssumption DEF IInv, TypeOK, StoreAssumption
<1>1. InOrder'
  BY StepOrder, AtWrites DEF Orderly
<1>2. ASSUME call'.step = "PutMid" PROVE Newest(MidName(call.cred), call.tmid)'
  <2>1. CASE call' = call
    <3>1. PICK m \in MidNames, t \in Nat : m = MidName(call.cred) /\ t = call.tmid
      BY <1>2, <1>t, <2>1, CredFacts DEF Carries
    <3>2. Newest(m, t) /\ ~ PutMid
      BY <1>2, <2>1, <3>1, AtWrites DEF Orderly
    <3>3. Newest(m, t)'
      BY <3>2, StepKeepsNewest, NextMoves
    <3> QED
      BY <2>1, <3>1, <3>3 DEF Newest, MidName
  <2>2. CASE PutTmid /\ call'.tmid = made + 1 /\ call'.cred = call.cred /\ call.cred \in Cred
    <3>1. PICK m \in MidNames, t \in Nat : m = MidName(call.cred) /\ t = made + 1
      BY <1>t, <2>2, CredFacts
    <3>2. Newest(m, t) /\ ~ PutMid
      BY <2>2, <3>1, AtWrites, UnmadeIsFresh
    <3>3. Newest(m, t)'
      BY <3>2, StepKeepsNewest, NextMoves
    <3> QED
      BY <2>2, <3>1, <3>3 DEF Newest, MidName
  <2> QED
    BY <1>2, <2>1, <2>2, ArrivesAtPutMid, NextMoves
<1>3. ASSUME c.step = "PutMid" PROVE Newest(MidName(c.cred), c.tmid)'
  <2>1. PICK m \in MidNames, t \in Nat : m = MidName(c.cred) /\ t = c.tmid
    BY <1>3, <1>t, CredFacts DEF Carries
  <2>2. Newest(m, t) /\ (PutMid => MidName(call.cred) # m)
    BY <1>3, <2>1, AtWrites DEF Orderly, Meets
  <2>3. Newest(m, t)'
    BY <2>2, StepKeepsNewest, NextMoves
  <2> QED
    BY <2>1, <2>3 DEF Newest, MidName
<1> QED
  BY <1>1, <1>2, <1>3 DEF Orderly

-----------------------------------------------------------------------------
(* What will be stored, on a network that refuses nothing.  A TMID stays    *)
(* until a client deletes it.                                              *)
LEMMA StepKeepsTmid ==
  ASSUME IInv, Ordered, [Next]_vars, refusals' = refusals,
         NEW t \in 1 .. made, TmidEnd(t), DeleteTmid => call.tmid # t
  PROVE  TmidEnd(t)'
<1>t. t \in Tmids
  BY StoreAssumption DEF IInv, TypeOK, StoreAssumption, Tmids
<1>1. CASE NetworkStep
  BY <1>1, <1>t, NetworkKeepsEnds
<1>2. CASE PutTmid
  BY <1>2, PutTmidEnds
<1>3. CASE DeleteTmid
  BY <1>3, <1>t, DeleteTmidEnds
<1>4. CASE UNCHANGED <<tmids, tmidWrites>>
  BY <1>4 DEF TmidEnd
<1>5. CASE \/ UserCall \/ PutMid \/ GetMid \/ DeleteMid \/ GetTmid \/ Return \/ MidMissing
           \/ TmidUnreadable \/ CallThrows \/ Crash \/ UNCHANGED vars
  BY <1>4, <1>5 DEF UserCall, CreateUser, LogIn, ChangeKeyword, ChangePin, ChangePassword,
     Change, ChangeWithoutNfs, PutMid, GetMid, DeleteMid, GetTmid, Return, MidMissing,
     TmidUnreadable, CallThrows, Throw, Crash, packets, vars
<1> QED
  BY <1>1, <1>2, <1>3, <1>5 DEF Next, ClientStep

(* The TMIDs that clients at PutMid have put will be stored.               *)
Ready(c) ==
  /\ call.step = "PutMid" => TmidEnd(call.tmid)
  /\ c.step = "PutMid" => TmidEnd(c.tmid)

LEMMA StepReady ==
  ASSUME IInv, Ordered, [Next]_vars, refusals' = refusals,
         NEW c, Carries(c), Apart(c), Ready(c)
  PROVE  Ready(c)'
<1>t. Carries(call)
  BY CallCarries
<1>1. ASSUME call'.step = "PutMid" PROVE TmidEnd(call.tmid)'
  <2>1. CASE call' = call
    <3>1. PICK t \in 1 .. made : t = call.tmid
      BY <1>1, <1>t, <2>1 DEF Carries
    <3>2. TmidEnd(t) /\ ~ DeleteTmid
      BY <1>1, <2>1, <3>1, AtWrites DEF Ready
    <3>3. TmidEnd(t)'
      BY <3>2, StepKeepsTmid
    <3> QED
      BY <2>1, <3>1, <3>3, NextValues
  <2>2. CASE PutTmid
    BY <2>2, PutTmidEnds, NextValues
  <2> QED
    BY <1>1, <2>1, <2>2, ArrivesAtPutMid, NextMoves
<1>2. ASSUME c.step = "PutMid" PROVE TmidEnd(c.tmid)'
  <2>1. PICK t \in 1 .. made : t = c.tmid
    BY <1>2 DEF Carries
  <2>2. TmidEnd(t) /\ (DeleteTmid => call.tmid # t)
    BY <1>2, <2>1, AtWrites DEF Ready, Apart
  <2> QED
    BY <2>1, <2>2, StepKeepsTmid
<1> QED
  BY <1>1, <1>2 DEF Ready

(* The name this client has set out to delete, and a credential that will   *)
(* open the account and whose name is not in D.                            *)
OwnDoomed == IF StopsRename THEN {MidName(session)} ELSE {}

Spared(D) == \E c \in Cred : WillOpen(c) /\ MidName(c) \notin D

(* As long as no rename puts under a doomed name, what is spared stays so:  *)
(* a rename spares its new credential before its old name is doomed, and   *)
(* deletes only what leads nowhere but to the doomed name.                 *)
LEMMA StepSpares ==
  ASSUME IInv, Ordered, [Next]_vars, refusals' = refusals, NEW D,
         call.step = "PutMid" => TmidEnd(call.tmid),
         enrolled => Spared(D \cup OwnDoomed),
         enrolled \/ D \cup OwnDoomed = {},
         PutMid /\ StopsRename' => MidName(call.cred) \notin D \cup OwnDoomed'
  PROVE  /\ enrolled' => Spared(D \cup OwnDoomed)'
         /\ enrolled' \/ D \cup OwnDoomed' = {}
<1>t. /\ call \in Calls \cup {Idle} /\ session \in Cred \cup {NoCred} /\ made \in 0 .. MaxTmids
      /\ enrolled \in BOOLEAN
  BY DEF IInv, TypeOK
<1>1. CASE UNCHANGED vars
  <2>1. UNCHANGED <<packets, sealed, enrolled, OwnDoomed>>
    BY <1>1 DEF vars, account, client, OwnDoomed, StopsRename, MidName
  <2> QED
    BY <2>1, SamePackets DEF Spared, MidName
<1>2. CASE NetworkStep
  <2>1. UNCHANGED <<enrolled, call, session>>
    BY <1>2 DEF NetworkStep, ApplyMid, LandMid, RefuseMid, DropMid, ApplyTmid, LandTmid,
       RefuseTmid, DropTmid, account, client
  <2>2. OwnDoomed' = OwnDoomed
    BY <2>1 DEF OwnDoomed, StopsRename, MidName
  <2>3. \A c \in Cred : WillOpen(c)' <=> WillOpen(c)
    BY <1>2, NetworkKeepsEnds
  <2> QED
    BY <2>1, <2>2, <2>3 DEF Spared
<1>3. CASE PutTmid
  <2>1. call.op # "none" /\ call.step = "PutTmid" /\ enrolled' = enrolled
    BY <1>3 DEF PutTmid, At
  <2>2. call \in Calls
    BY <1>t, <2>1 DEF Idle
  <2>3. call'.step = "PutMid"
    BY <1>3, <2>2 DEF PutTmid, GoTo, Calls
  <2>4. OwnDoomed = {} /\ OwnDoomed' = {}
    BY <2>1, <2>3 DEF OwnDoomed, StopsRename
  <2>5. \A c \in Cred : WillOpen(c)' <=> WillOpen(c)
    BY <1>3, PutTmidEnds
  <2> QED
    BY <2>1, <2>4, <2>5 DEF Spared
<1>4. CASE PutMid
  <2>1. call.op # "none" /\ call.step = "PutMid" /\ enrolled' = TRUE
    BY <1>4 DEF PutMid, At
  <2>2. call \in Calls
    BY <1>t, <2>1 DEF Idle
  <2>3. PICK c \in Cred : c = call.cred
    BY <2>2 DEF Calls
  <2>4. \A d \in Cred : WillOpen(d)' <=> IF MidName(d) = MidName(c) THEN d = c ELSE WillOpen(d)
    BY <1>4, <2>1, <2>3, PutMidEnds
  <2>5. OwnDoomed = {}
    BY <2>1 DEF OwnDoomed, StopsRename
  <2>6. CASE StopsRename'
    BY <1>4, <2>1, <2>3, <2>4, <2>6 DEF Spared, MidName
  <2>7. CASE ~ StopsRename'
    <3>1. OwnDoomed' = {}
      BY <2>7 DEF OwnDoomed
    <3>2. CASE enrolled
      <4>1. PICK d \in Cred : WillOpen(d) /\ MidName(d) \notin D
        BY <2>5, <3>2 DEF Spared
      <4>2. CASE MidName(d) = MidName(c)
        BY <2>1, <2>4, <3>1, <4>1, <4>2 DEF Spared
      <4>3. CASE MidName(d) # MidName(c)
        BY <2>1, <2>4, <3>1, <4>1, <4>3 DEF Spared
      <4> QED
        BY <4>2, <4>3
    <3>3. CASE ~ enrolled
      BY <2>1, <2>4, <3>1, <3>3 DEF Spared
    <3> QED
      BY <3>2, <3>3
  <2> QED
    BY <2>6, <2>7
<1>5. CASE DeleteTmid
  <2>1. call.op # "none" /\ call.step = "DeleteTmid" /\ UNCHANGED <<enrolled, session>>
    BY <1>5 DEF DeleteTmid, At, account
  <2>2. call \in Calls /\ call # Idle
    BY <1>t, <2>1 DEF Idle
  <2>3. /\ call.op \in Renames /\ call.tmid \in 1 .. made
        /\ MidName(sealed[call.tmid]) = MidName(session)
    BY <2>1, <2>2 DEF IInv, CallOK
  <2>4. call'.op = call.op /\ call'.step = "DeleteMid"
    BY <1>5, <2>2 DEF DeleteTmid, GoTo, Calls
  <2>5. OwnDoomed = {MidName(session)} /\ OwnDoomed' = OwnDoomed
    BY <2>1, <2>3, <2>4 DEF OwnDoomed, StopsRename, MidName
  <2>6. PICK d \in Cred : WillOpen(d) /\ MidName(d) \notin D \cup OwnDoomed
    BY <2>5 DEF Spared
  <2>7. MidEnd(MidName(d)) # call.tmid
    BY <1>t, <2>3, <2>5, <2>6, CredFacts, EndsLeadHome, StoreAssumption DEF
       StoreAssumption, NoTmid
  <2>8. WillOpen(d)'
    BY <1>5, <2>6, <2>7, DeleteTmidEnds
  <2> QED
    BY <2>1, <2>5, <2>6, <2>8 DEF Spared
<1>6. CASE DeleteMid
  <2>1. call.op # "none" /\ call.step = "DeleteMid" /\ UNCHANGED <<enrolled, session>>
    BY <1>6 DEF DeleteMid, At, account
  <2>2. call \in Calls /\ call # Idle
    BY <1>t, <2>1 DEF Idle
  <2>3. call.op \in Renames /\ session \in Cred
    BY <1>t, <2>1, <2>2 DEF IInv, CallOK, Renames, Changes
  <2>4. call'.step = "Return"
    BY <1>6, <2>2 DEF DeleteMid, GoTo, Calls
  <2>5. OwnDoomed = {MidName(session)} /\ OwnDoomed' = {}
    BY <2>1, <2>3, <2>4 DEF OwnDoomed, StopsRename
  <2>6. PICK d \in Cred : WillOpen(d) /\ MidName(d) \notin D \cup {MidName(session)}
    BY <2>5 DEF Spared
  <2>7. WillOpen(d)'
    BY <1>6, <2>3, <2>6, DeleteMidEnds
  <2> QED
    BY <2>1, <2>5, <2>6, <2>7 DEF Spared
<1>7. CASE GetMid
  <2>1. call.op # "none" /\ call.step = "GetMid" /\ UNCHANGED <<packets, sealed, enrolled, session>>
    BY <1>7 DEF GetMid, At, account
  <2>2. call \in Calls
    BY <1>t, <2>1 DEF Idle
  <2>3. call'.op = call.op /\ call'.step = IF call.op = "LogIn" THEN "GetTmid" ELSE "DeleteTmid"
    BY <1>7, <2>2 DEF GetMid, GoTo, Calls
  <2>4. OwnDoomed' = OwnDoomed
    BY <2>1, <2>3 DEF OwnDoomed, StopsRename, MidName, Renames
  <2> QED
    BY <2>1, <2>4, SamePackets DEF Spared, MidName
<1>8. CASE UserCall \/ GetTmid \/ Return \/ MidMissing \/ TmidUnreadable \/ CallThrows \/ Crash
  <2>1. UNCHANGED <<packets, sealed, enrolled>>
    BY <1>8 DEF UserCall, CreateUser, LogIn, ChangeKeyword, ChangePin, ChangePassword,
       Change, ChangeWithoutNfs, GetTmid, Return, MidMissing, TmidUnreadable, CallThrows,
       Throw, Crash, account
  <2>2. ~ StopsRename'
    <3>1. CASE UserCall
      BY <3>1 DEF UserCall, CreateUser, LogIn, ChangeKeyword, ChangePin, ChangePassword,
         Change, ChangeWithoutNfs, Start, StopsRename, Renames, Idle
    <3>2. CASE GetTmid
      <4>1. call.op # "none"
        BY <3>2 DEF GetTmid, At
      <4>2. call \in Calls
        BY <1>t, <4>1 DEF Idle
      <4> QED
        BY <3>2, <4>2 DEF GetTmid, GoTo, Calls, StopsRename
    <3>3. CASE Return \/ MidMissing \/ TmidUnreadable \/ CallThrows \/ Crash
      BY <3>3 DEF Return, MidMissing, TmidUnreadable, CallThrows, Throw, Crash, StopsRename,
         Renames, Idle
    <3> QED
      BY <1>8, <3>1, <3>2, <3>3
  <2>3. OwnDoomed' = {}
    BY <2>2 DEF OwnDoomed
  <2> QED
    BY <2>1, <2>3, SamePackets DEF Spared, MidName
<1> QED
  BY <1>1, <1>2, <1>3, <1>4, <1>5, <1>6, <1>7, <1>8 DEF Next, ClientStep

(* What is spared opens the account once the writes have taken effect.     *)
LEMMA SparedIsReachable ==
  ASSUME IInv, NEW D, enrolled => Spared(D)
  PROVE  Reachable
BY SettledOpens DEF Spared, Reachable
=============================================================================
