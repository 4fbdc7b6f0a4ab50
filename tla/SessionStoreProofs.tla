------------------------- MODULE SessionStoreProofs -------------------------
(***************************************************************************)
(* What SessionStore guarantees for every value of its constants.          *)
(*                                                                         *)
(* IInv, an inductive invariant that needs no assumption about the network *)
(* or the user, gives TypeOK and MidsLeadHome.  Under WellBehaved, IInv    *)
(* together with Survives is inductive and gives Reachable and the         *)
(* refinement of AccountBook.                                              *)
(***************************************************************************)
EXTENDS SessionStore, SequenceTheorems, TLAPS

(* A call is at a step its code contains, with the data that step uses.    *)
CallOK ==
  call # Idle =>
    /\ call.op \in Changes => session # NoCred
    /\ call.step = "PutTmid" => call.op # "LogIn" /\ made < MaxTmids
    /\ call.step = "PutMid" =>
         /\ call.op # "LogIn"
         /\ call.tmid \in 1 .. made
         /\ sealed[call.tmid] = call.cred
    /\ call.step = "GetMid" => call.op \in Renames \cup {"LogIn"}
    /\ call.step = "DeleteTmid" =>
         /\ call.op \in Renames
         /\ call.tmid \in 1 .. made
         /\ MidName(sealed[call.tmid]) = MidName(session)
    /\ call.step = "DeleteMid" => call.op \in Renames
    /\ call.step = "GetTmid" => call.op = "LogIn"

(* Exactly the TMIDs made so far are sealed with a credential.             *)
SealedOK == \A t \in Tmids : IF t <= made THEN sealed[t] \in Cred
                                         ELSE sealed[t] = NoCred

IInv == TypeOK /\ SealedOK /\ CallOK /\ MidsLeadHome

-----------------------------------------------------------------------------
(* Taking one element out of a sequence keeps the others in order.         *)
LEMMA RemoveAtFacts ==
  ASSUME NEW S, NEW s \in Seq(S), NEW i \in 1 .. Len(s)
  PROVE  /\ RemoveAt(s, i) \in Seq(S)
         /\ Len(RemoveAt(s, i)) = Len(s) - 1
         /\ \A j \in 1 .. Len(s) - 1 :
              RemoveAt(s, i)[j] = IF j < i THEN s[j] ELSE s[j + 1]
<1> DEFINE a == SubSeq(s, 1, i - 1)
           b == SubSeq(s, i + 1, Len(s))
           r == RemoveAt(s, i)
<1>1. a \in Seq(S) /\ Len(a) = i - 1 /\ \A j \in 1 .. i - 1 : a[j] = s[j]
  OBVIOUS
<1>2. b \in Seq(S) /\ Len(b) = Len(s) - i /\ \A j \in 1 .. Len(s) - i : b[j] = s[i + j]
  OBVIOUS
<1>3. r = a \o b
  BY DEF RemoveAt
<1> HIDE DEF a, b, r
<1>4. r \in Seq(S) /\ Len(r) = Len(s) - 1
  BY <1>1, <1>2, <1>3
<1>5. ASSUME NEW j \in 1 .. Len(s) - 1
      PROVE  r[j] = IF j < i THEN s[j] ELSE s[j + 1]
  <2>1. CASE j < i
    BY <1>1, <1>2, <1>3, <2>1
  <2>2. CASE j >= i
    <3>1. r[j] = b[j - Len(a)]
      <4>1. j \in Len(a) + 1 .. Len(a) + Len(b)
        BY <1>1, <1>2, <2>2
      <4> QED
        BY <1>1, <1>2, <1>3, <4>1
    <3>2. b[j - (i - 1)] = s[i + (j - (i - 1))]
      BY <1>2, <2>2
    <3> QED
      BY <1>1, <2>2, <3>1, <3>2
  <2> QED
    BY <2>1, <2>2
<1> QED
  BY <1>4, <1>5 DEF r

USE StoreAssumption DEF StoreAssumption, NoTmid, Tmids

(* A credential and its MID name.                                          *)
LEMMA CredFacts ==
  ASSUME NEW c \in Cred
  PROVE  MidName(c) \in MidNames /\ c # NoCred
BY DEF Cred, MidName, MidNames

(* Nothing is stored at first.                                            *)
LEMMA InitIInv == Init => IInv
<1> SUFFICES ASSUME Init PROVE IInv
  OBVIOUS
<1>1. TypeOK
  <2>1. /\ mids \in [MidNames -> 0 .. MaxTmids]
        /\ midWrites \in [MidNames -> Seq(0 .. MaxTmids)]
        /\ tmidWrites \in [Tmids -> Seq(BOOLEAN)]
        /\ sealed \in [Tmids -> Cred \cup {NoCred}]
    BY DEF Init
  <2>2. call \in Calls \cup {Idle} /\ session \in Cred \cup {NoCred} /\ tmids \subseteq Tmids
    BY DEF Init
  <2>3. /\ made \in 0 .. MaxTmids
        /\ crashes \in 0 .. MaxCrashes /\ refusals \in 0 .. MaxRefusals
    BY DEF Init
  <2>4. nfs \in BOOLEAN /\ enrolled \in BOOLEAN /\ cut \in BOOLEAN
    BY DEF Init
  <2> QED
    BY <2>1, <2>2, <2>3, <2>4 DEF TypeOK
<1>2. SealedOK
  BY DEF Init, SealedOK
<1>3. CallOK
  BY DEF Init, CallOK
<1>4. MidsLeadHome
  BY DEF Init, MidsLeadHome
<1> QED
  BY <1>1, <1>2, <1>3, <1>4 DEF IInv

-----------------------------------------------------------------------------
(* The step.  A call moves on without touching the packets.                *)
LEMMA ClientMoves ==
  ASSUME IInv, UNCHANGED <<packets, account>>,
         session' \in Cred \cup {NoCred}, nfs' \in BOOLEAN,
         call' \in Calls \cup {Idle}, CallOK',
         cut' \in BOOLEAN, crashes' \in 0 .. MaxCrashes, refusals' = refusals
  PROVE  IInv'
<1>1. TypeOK'
  BY DEF IInv, TypeOK, packets, account
<1>2. SealedOK'
  BY DEF IInv, SealedOK, account
<1>3. MidsLeadHome'
  BY DEF IInv, MidsLeadHome, packets, account
<1> QED
  BY <1>1, <1>2, <1>3 DEF IInv

(* The packets and the writes in flight change, the client does not.       *)
LEMMA NetworkMoves ==
  ASSUME IInv, UNCHANGED <<account, client>>,
         mids' \in [MidNames -> 0 .. MaxTmids],
         midWrites' \in [MidNames -> Seq(0 .. MaxTmids)],
         tmids' \subseteq Tmids,
         tmidWrites' \in [Tmids -> Seq(BOOLEAN)],
         refusals' \in 0 .. MaxRefusals, UNCHANGED <<cut, crashes>>,
         MidsLeadHome'
  PROVE  IInv'
<1>1. TypeOK'
  BY DEF IInv, TypeOK, account, client
<1>2. SealedOK'
  BY DEF IInv, SealedOK, account
<1>3. CallOK'
  BY DEF IInv, CallOK, account, client
<1> QED
  BY <1>1, <1>2, <1>3 DEF IInv

(* The user calls a function of the library. *)
LEMMA UserCallIInv == IInv /\ UserCall => IInv'
<1> SUFFICES ASSUME IInv, UserCall PROVE IInv'
  OBVIOUS
<1> USE DEF IInv
<1>t. /\ session \in Cred \cup {NoCred} /\ call \in Calls \cup {Idle}
      /\ nfs \in BOOLEAN /\ cut \in BOOLEAN /\ crashes \in 0 .. MaxCrashes
  BY DEF TypeOK
<1>1. ASSUME NEW c \in Cred, CreateUser(c) PROVE IInv'
  <2>1. call' \in Calls
    BY <1>1 DEF CreateUser, Start, Calls, Ops, Steps
  <2>2. CallOK'
    BY <1>1 DEF CreateUser, Start, CallOK, account, Changes
  <2> QED
    BY <1>1, <1>t, <2>1, <2>2, ClientMoves DEF CreateUser, history
<1>2. ASSUME NEW c \in Cred, LogIn(c) PROVE IInv'
  <2>1. call' \in Calls
    BY <1>2 DEF LogIn, Start, Calls, Ops, Steps
  <2>2. CallOK'
    BY <1>2 DEF LogIn, Start, CallOK, account, Changes
  <2> QED
    BY <1>2, <1>t, <2>1, <2>2, ClientMoves DEF LogIn, history
<1>3. ASSUME NEW op \in Changes, NEW c \in Cred, Change(op, c) PROVE IInv'
  <2>1. call' \in Calls
    BY <1>3 DEF Change, Start, Calls, Ops, Steps
  <2>2. CallOK'
    BY <1>3 DEF Change, Start, CallOK, account, Changes
  <2> QED
    BY <1>3, <1>t, <2>1, <2>2, ClientMoves DEF Change, history
<1>4. ASSUME NEW k \in Keywords, ChangeKeyword(k) PROVE IInv'
  <2>1. [session EXCEPT !.keyword = k] \in Cred
    BY <1>4, <1>t DEF ChangeKeyword, Cred
  <2> QED
    BY <1>3, <1>4, <2>1 DEF ChangeKeyword, Changes
<1>5. ASSUME NEW p \in Pins, ChangePin(p) PROVE IInv'
  <2>1. [session EXCEPT !.pin = p] \in Cred
    BY <1>5, <1>t DEF ChangePin, Cred
  <2> QED
    BY <1>3, <1>5, <2>1 DEF ChangePin, Changes
<1>6. ASSUME NEW w \in Passwords, ChangePassword(w) PROVE IInv'
  <2>1. [session EXCEPT !.password = w] \in Cred
    BY <1>6, <1>t DEF ChangePassword, Cred
  <2> QED
    BY <1>3, <1>6, <2>1 DEF ChangePassword, Changes
<1>7. CASE ChangeWithoutNfs
  <2>1. CallOK'
    BY <1>7 DEF ChangeWithoutNfs, CallOK
  <2> QED
    BY <1>7, <1>t, <2>1, ClientMoves DEF ChangeWithoutNfs, history
<1> QED
  BY <1>1, <1>2, <1>4, <1>5, <1>6, <1>7 DEF UserCall

(* A call throws, or the process dies. *)
LEMMA StopIInv ==
  ASSUME IInv, Throw \/ Crash
  PROVE  IInv'
<1> USE DEF IInv
<1>t. /\ session \in Cred \cup {NoCred} /\ nfs \in BOOLEAN
      /\ cut \in BOOLEAN /\ crashes \in 0 .. MaxCrashes
  BY DEF TypeOK
<1>0. StopsRename \in BOOLEAN /\ (call.op \in Changes) \in BOOLEAN
  BY DEF StopsRename
<1>1. CASE Throw
  <2>1. CallOK' /\ call' \in Calls \cup {Idle}
    BY <1>1 DEF Throw, CallOK
  <2>2. nfs' \in BOOLEAN /\ cut' \in BOOLEAN
    BY <1>1, <1>t, <1>0 DEF Throw
  <2> QED
    BY <1>1, <1>t, <2>1, <2>2, ClientMoves DEF Throw
<1>2. CASE Crash
  <2>1. CallOK' /\ call' \in Calls \cup {Idle}
    BY <1>2 DEF Crash, CallOK
  <2>2. nfs' \in BOOLEAN /\ cut' \in BOOLEAN
    BY <1>2, <1>t, <1>0 DEF Crash
  <2>3. crashes' \in 0 .. MaxCrashes /\ session' \in Cred \cup {NoCred}
    BY <1>2, <1>t DEF Crash
  <2> QED
    BY <1>2, <2>1, <2>2, <2>3, ClientMoves DEF Crash
<1> QED
  BY <1>1, <1>2

(* What name m leads to after i of the writes to it have been applied.     *)
Entry(m, i) == IF i = 0 THEN mids[m] ELSE midWrites[m][i]

LeadsHome(m, t) == t # NoTmid => t <= made /\ MidName(sealed[t]) = m

(* Putting or deleting a MID adds an entry to its name, and no other.      *)
LEMMA AppendEntries ==
  ASSUME midWrites \in [MidNames -> Seq(0 .. MaxTmids)],
         NEW m \in MidNames, NEW t \in 0 .. MaxTmids,
         midWrites' = [midWrites EXCEPT ![m] = Append(@, t)], UNCHANGED mids
  PROVE  /\ midWrites' \in [MidNames -> Seq(0 .. MaxTmids)]
         /\ \A n \in MidNames : \A i \in 0 .. Len(midWrites'[n]) :
              \/ \E j \in 0 .. Len(midWrites[n]) : Entry(n, i)' = Entry(n, j)
              \/ n = m /\ Entry(n, i)' = t
<1>1. midWrites' \in [MidNames -> Seq(0 .. MaxTmids)]
  OBVIOUS
<1>2. ASSUME NEW n \in MidNames, NEW i \in 0 .. Len(midWrites'[n])
      PROVE  \/ \E j \in 0 .. Len(midWrites[n]) : Entry(n, i)' = Entry(n, j)
             \/ n = m /\ Entry(n, i)' = t
  <2>1. CASE n # m \/ i <= Len(midWrites[m])
    <3>1. i \in 0 .. Len(midWrites[n])
      BY <1>2, <2>1
    <3>2. i = 0 \/ midWrites'[n][i] = midWrites[n][i]
      BY <1>2, <2>1, <3>1
    <3> QED
      BY <3>1, <3>2 DEF Entry
  <2>2. CASE n = m /\ i > Len(midWrites[m])
    <3>1. i = Len(midWrites[m]) + 1 /\ midWrites'[n][i] = t
      BY <1>2, <2>2
    <3> QED
      BY <2>2, <3>1 DEF Entry
  <2> QED
    BY <1>2, <2>1, <2>2
<1> QED
  BY <1>1, <1>2

(* So the entries lead home, if the one that is new does.                  *)
LEMMA AppendLeadsHome ==
  ASSUME IInv, NEW m \in MidNames, NEW t \in 0 .. MaxTmids, LeadsHome(m, t),
         midWrites' = [midWrites EXCEPT ![m] = Append(@, t)],
         UNCHANGED <<mids, made, sealed>>
  PROVE  MidsLeadHome' /\ midWrites' \in [MidNames -> Seq(0 .. MaxTmids)]
<1>1. midWrites \in [MidNames -> Seq(0 .. MaxTmids)] /\ UNCHANGED mids
  BY DEF IInv, TypeOK
<1>2. /\ midWrites' \in [MidNames -> Seq(0 .. MaxTmids)]
      /\ \A n \in MidNames : \A i \in 0 .. Len(midWrites'[n]) :
           \/ \E j \in 0 .. Len(midWrites[n]) : Entry(n, i)' = Entry(n, j)
           \/ n = m /\ Entry(n, i)' = t
  BY <1>1, AppendEntries
<1>3. ASSUME NEW n \in MidNames, NEW i \in 0 .. Len(midWrites'[n])
      PROVE  LeadsHome(n, Entry(n, i)')
  <2>1. CASE \E j \in 0 .. Len(midWrites[n]) : Entry(n, i)' = Entry(n, j)
    BY <2>1 DEF IInv, MidsLeadHome, LeadsHome, Entry
  <2>2. CASE n = m /\ Entry(n, i)' = t
    BY <2>2
  <2> QED
    BY <1>2, <2>1, <2>2
<1>4. MidsLeadHome'
  BY <1>3 DEF MidsLeadHome, LeadsHome, Entry
<1> QED
  BY <1>2, <1>4

(* A call runs on.                                                         *)
LEMMA ClientStepIInv == IInv /\ ClientStep => IInv'
<1> SUFFICES ASSUME IInv, ClientStep PROVE IInv'
  OBVIOUS
<1> USE DEF IInv
<1>t. /\ session \in Cred \cup {NoCred} /\ call \in Calls \cup {Idle}
      /\ nfs \in BOOLEAN /\ cut \in BOOLEAN /\ crashes \in 0 .. MaxCrashes
      /\ mids \in [MidNames -> 0 .. MaxTmids] /\ made \in 0 .. MaxTmids
      /\ sealed \in [Tmids -> Cred \cup {NoCred}]
      /\ tmidWrites \in [Tmids -> Seq(BOOLEAN)]
  BY DEF TypeOK
<1>g. ASSUME NEW step \in Steps, NEW t \in 0 .. MaxTmids, call # Idle, GoTo(step, t)
      PROVE  /\ call' \in Calls /\ call' # Idle
             /\ call'.op = call.op /\ call'.step = step
             /\ call'.cred = call.cred /\ call'.tmid = t
  BY <1>t, <1>g DEF GoTo, Calls, Idle, Ops, Changes
<1>i. ASSUME NEW step \in Steps, At(step) PROVE call # Idle /\ call \in Calls /\ call.step = step
  BY <1>t, <1>i DEF At, Idle
<1>1. CASE PutTmid
  <2>1. At("PutTmid") /\ made' = made + 1 /\ GoTo("PutMid", made + 1)
    BY <1>1 DEF PutTmid
  <2>2. call # Idle /\ call.step = "PutTmid" /\ call \in Calls
    BY <1>i, <2>1 DEF Steps
  <2>3. call.op # "LogIn" /\ made < MaxTmids
    BY <2>2 DEF CallOK
  <2>4. /\ call' \in Calls /\ call' # Idle
        /\ call'.op = call.op /\ call'.step = "PutMid"
        /\ call'.cred = call.cred /\ call'.tmid = made + 1
    BY <1>g, <1>t, <2>1, <2>2, <2>3 DEF Steps
  <2>5. /\ call.cred \in Cred
        /\ sealed' = [sealed EXCEPT ![made + 1] = call.cred]
        /\ made + 1 \in Tmids
        /\ sealed'[made + 1] = call.cred
    BY <1>1, <1>t, <2>2, <2>3 DEF PutTmid, Calls
  <2>6. TypeOK'
    <3>1. /\ sealed' \in [Tmids -> Cred \cup {NoCred}] /\ made' \in 0 .. MaxTmids
      BY <1>t, <2>1, <2>3, <2>5
    <3>2. tmidWrites' \in [Tmids -> Seq(BOOLEAN)]
      BY <1>1, <1>t, <2>5 DEF PutTmid
    <3> QED
      BY <1>1, <2>4, <3>1, <3>2 DEF TypeOK, PutTmid, history
  <2>7. SealedOK'
    BY <1>t, <2>1, <2>3, <2>5, CredFacts DEF SealedOK
  <2>8. CallOK'
    BY <1>1, <1>t, <2>1, <2>2, <2>3, <2>4, <2>5 DEF CallOK, PutTmid
  <2>9. MidsLeadHome'
    <3>1. UNCHANGED <<mids, midWrites>>
      BY <1>1 DEF PutTmid
    <3>2. ASSUME NEW m \in MidNames, NEW i \in 0 .. Len(midWrites[m])
          PROVE  (IF i = 0 THEN mids[m] ELSE midWrites[m][i]) \in 0 .. MaxTmids
      BY <1>t, <3>2 DEF TypeOK
    <3>3. ASSUME NEW m \in MidNames, NEW i \in 0 .. Len(midWrites[m]),
                 NEW t, t = (IF i = 0 THEN mids[m] ELSE midWrites[m][i]), t # NoTmid
          PROVE  t <= made' /\ MidName(sealed'[t]) = m
      <4>1. t \in 1 .. MaxTmids
        BY <3>2, <3>3
      <4>2. t <= made /\ MidName(sealed[t]) = m
        BY <3>3 DEF MidsLeadHome
      <4> QED
        BY <1>t, <2>1, <2>5, <4>1, <4>2
    <3> QED
      BY <3>1, <3>3 DEF MidsLeadHome
  <2> QED
    BY <2>6, <2>7, <2>8, <2>9
<1>2. CASE PutMid
  <2>1. call # Idle /\ call.step = "PutMid" /\ call \in Calls
    BY <1>2, <1>i DEF PutMid, Steps
  <2>2. call.tmid \in 1 .. made /\ sealed[call.tmid] = call.cred /\ call.op # "LogIn"
    BY <2>1 DEF CallOK
  <2>3. MidName(call.cred) \in MidNames /\ LeadsHome(MidName(call.cred), call.tmid)
    BY <1>t, <2>1, <2>2, CredFacts DEF LeadsHome, Calls
  <2>4. MidsLeadHome' /\ midWrites' \in [MidNames -> Seq(0 .. MaxTmids)]
    <3>1. midWrites' = [midWrites EXCEPT ![MidName(call.cred)] = Append(@, call.tmid)]
      BY <1>2 DEF PutMid
    <3>2. call.tmid \in 0 .. MaxTmids /\ UNCHANGED <<mids, made, sealed>>
      BY <1>2, <1>t, <2>2 DEF PutMid
    <3> QED
      BY <2>3, <3>1, <3>2, AppendLeadsHome
  <2>5. /\ call' \in Calls /\ call'.op = call.op
        /\ call'.step = IF call.op \in Renames THEN "GetMid" ELSE "Return"
    BY <1>2, <1>g, <2>1 DEF PutMid, Steps
  <2>6. CallOK'
    BY <1>2, <2>1, <2>2, <2>5 DEF PutMid, CallOK
  <2>7. TypeOK'
    BY <1>2, <2>4, <2>5 DEF TypeOK, PutMid, history
  <2>8. SealedOK'
    BY <1>2 DEF SealedOK, PutMid
  <2> QED
    BY <2>4, <2>6, <2>7, <2>8
<1>3. CASE GetMid
  <2>1. call # Idle /\ call.step = "GetMid" /\ call \in Calls /\ UNCHANGED <<packets, account>>
    BY <1>3, <1>i DEF GetMid, Steps
  <2>2. call.op \in Renames \cup {"LogIn"} /\ call.cred \in Cred
    BY <2>1 DEF CallOK, Calls
  <2>3. call.op \in Renames => session \in Cred
    BY <1>t, <2>1 DEF CallOK, Renames, Changes
  <2>4. LookUpName \in MidNames /\ mids[LookUpName] \in 1 .. MaxTmids
    BY <1>3, <1>t, <2>2, <2>3, CredFacts DEF LookUpName, GetMid
  <2>5. mids[LookUpName] <= made /\ MidName(sealed[mids[LookUpName]]) = LookUpName
    <3>1. 0 \in 0 .. Len(midWrites[LookUpName])
      BY <2>4 DEF TypeOK
    <3> QED
      BY <2>4, <3>1 DEF MidsLeadHome
  <2>6. /\ call' \in Calls /\ call'.op = call.op /\ call'.tmid = mids[LookUpName]
        /\ call'.step = IF call.op = "LogIn" THEN "GetTmid" ELSE "DeleteTmid"
    BY <1>3, <1>g, <2>1, <2>4 DEF GetMid, Steps
  <2>7. CallOK'
    BY <1>3, <1>t, <2>1, <2>2, <2>4, <2>5, <2>6 DEF GetMid, CallOK, LookUpName, account
  <2> QED
    BY <1>3, <1>t, <2>1, <2>6, <2>7, ClientMoves DEF GetMid, history
<1>4. CASE DeleteTmid
  <2>1. call # Idle /\ call.step = "DeleteTmid" /\ call \in Calls
    BY <1>4, <1>i DEF DeleteTmid, Steps
  <2>2. call.tmid \in Tmids /\ call.op \in Renames
    BY <1>t, <2>1 DEF CallOK
  <2>3. call' \in Calls /\ call'.op = call.op /\ call'.step = "DeleteMid"
    BY <1>4, <1>g, <2>1 DEF DeleteTmid, Steps
  <2>4. tmidWrites' \in [Tmids -> Seq(BOOLEAN)]
    BY <1>4, <1>t, <2>2 DEF DeleteTmid
  <2>5. TypeOK'
    BY <1>4, <2>3, <2>4 DEF TypeOK, DeleteTmid, account, history
  <2>6. SealedOK' /\ MidsLeadHome'
    BY <1>4 DEF SealedOK, MidsLeadHome, DeleteTmid, account
  <2>7. CallOK'
    BY <1>4, <2>1, <2>2, <2>3 DEF CallOK, DeleteTmid
  <2> QED
    BY <2>5, <2>6, <2>7
<1>5. CASE DeleteMid
  <2>1. call # Idle /\ call.step = "DeleteMid" /\ call \in Calls
    BY <1>5, <1>i DEF DeleteMid, Steps
  <2>2. call.op \in Renames /\ session \in Cred
    BY <1>t, <2>1 DEF CallOK, Renames, Changes
  <2>3. MidsLeadHome' /\ midWrites' \in [MidNames -> Seq(0 .. MaxTmids)]
    <3>1. midWrites' = [midWrites EXCEPT ![MidName(session)] = Append(@, NoTmid)]
      BY <1>5 DEF DeleteMid
    <3>2. MidName(session) \in MidNames /\ LeadsHome(MidName(session), NoTmid)
      BY <2>2, CredFacts DEF LeadsHome
    <3>3. UNCHANGED <<mids, made, sealed>> /\ NoTmid \in 0 .. MaxTmids
      BY <1>5 DEF DeleteMid, account
    <3> QED
      BY <3>1, <3>2, <3>3, AppendLeadsHome
  <2>4. call' \in Calls /\ call'.op = call.op /\ call'.step = "Return"
    BY <1>5, <1>g, <2>1 DEF DeleteMid, Steps
  <2>5. TypeOK'
    BY <1>5, <2>3, <2>4 DEF TypeOK, DeleteMid, account, history
  <2>6. SealedOK'
    BY <1>5 DEF SealedOK, DeleteMid, account
  <2>7. CallOK'
    BY <1>5, <2>1, <2>4 DEF CallOK, DeleteMid
  <2> QED
    BY <2>3, <2>5, <2>6, <2>7
<1>6. CASE GetTmid
  <2>1. call # Idle /\ call.step = "GetTmid" /\ call \in Calls
    BY <1>6, <1>i DEF GetTmid, Steps
  <2>2. call' \in Calls /\ call'.op = call.op /\ call'.step = "Return"
    BY <1>6, <1>g, <2>1 DEF GetTmid, Steps
  <2>3. CallOK'
    BY <1>6, <2>1, <2>2 DEF CallOK, GetTmid
  <2> QED
    BY <1>6, <1>t, <2>2, <2>3, ClientMoves DEF GetTmid, history
<1>7. CASE Return
  <2>1. call \in Calls
    BY <1>7, <1>i DEF Return, Steps
  <2>2. session' \in Cred /\ CallOK' /\ call' \in Calls \cup {Idle}
    BY <1>7, <2>1 DEF Return, CallOK, Calls
  <2> QED
    BY <1>7, <1>t, <2>2, ClientMoves DEF Return, history
<1>8. CASE MidMissing \/ TmidUnreadable
  BY <1>8, StopIInv DEF MidMissing, TmidUnreadable
<1> QED
  BY <1>1, <1>2, <1>3, <1>4, <1>5, <1>6, <1>7, <1>8 DEF ClientStep

(* The network applies or refuses a write: every entry left was one before. *)
LEMMA RemoveEntries ==
  ASSUME midWrites \in [MidNames -> Seq(0 .. MaxTmids)], mids \in [MidNames -> 0 .. MaxTmids],
         NEW m \in MidNames, NEW k \in 1 .. Len(midWrites[m]),
         midWrites' = [midWrites EXCEPT ![m] = RemoveAt(@, k)],
         mids' = mids \/ mids' = [mids EXCEPT ![m] = midWrites[m][k]]
  PROVE  /\ midWrites' \in [MidNames -> Seq(0 .. MaxTmids)]
         /\ mids' \in [MidNames -> 0 .. MaxTmids]
         /\ \A n \in MidNames : \A i \in 0 .. Len(midWrites'[n]) :
              \E j \in 0 .. Len(midWrites[n]) : Entry(n, i)' = Entry(n, j)
<1>1. midWrites \in [MidNames -> Seq(0 .. MaxTmids)] /\ mids \in [MidNames -> 0 .. MaxTmids]
  OBVIOUS
<1>2. midWrites[m] \in Seq(0 .. MaxTmids) /\ midWrites[m][k] \in 0 .. MaxTmids
  BY <1>1
<1>3. /\ RemoveAt(midWrites[m], k) \in Seq(0 .. MaxTmids)
      /\ Len(RemoveAt(midWrites[m], k)) = Len(midWrites[m]) - 1
      /\ \A j \in 1 .. Len(midWrites[m]) - 1 : RemoveAt(midWrites[m], k)[j] =
           IF j < k THEN midWrites[m][j] ELSE midWrites[m][j + 1]
  BY <1>2, RemoveAtFacts
<1>4. midWrites' \in [MidNames -> Seq(0 .. MaxTmids)] /\ mids' \in [MidNames -> 0 .. MaxTmids]
  BY <1>1, <1>2, <1>3
<1>5. ASSUME NEW n \in MidNames, NEW i \in 0 .. Len(midWrites'[n])
      PROVE  \E j \in 0 .. Len(midWrites[n]) : Entry(n, i)' = Entry(n, j)
  <2>1. CASE n # m
    <3>1. mids'[n] = mids[n] /\ midWrites'[n] = midWrites[n]
      BY <1>1, <2>1
    <3> QED
      BY <1>5, <3>1 DEF Entry
  <2>2. CASE n = m
    <3>1. midWrites'[m] = RemoveAt(midWrites[m], k)
      BY <1>1
    <3>2. CASE i = 0
      <4>1. mids'[m] = mids[m] \/ mids'[m] = midWrites[m][k]
        BY <1>1
      <4>2. 0 \in 0 .. Len(midWrites[m]) /\ k \in 0 .. Len(midWrites[m]) /\ k # 0
        BY <1>2
      <4> QED
        BY <2>2, <3>2, <4>1, <4>2 DEF Entry
    <3>3. CASE i # 0 /\ i < k
      <4>1. i \in 1 .. Len(midWrites[m]) - 1
        BY <1>2, <1>3, <1>5, <2>2, <3>1, <3>3
      <4>2. RemoveAt(midWrites[m], k)[i] = midWrites[m][i]
        BY <1>3, <3>3, <4>1
      <4>3. midWrites'[m][i] = midWrites[m][i] /\ i \in 0 .. Len(midWrites[m])
        BY <1>2, <3>1, <4>1, <4>2
      <4> QED
        BY <2>2, <3>3, <4>3 DEF Entry
    <3>4. CASE i # 0 /\ i >= k
      <4>1. i \in 1 .. Len(midWrites[m]) - 1
        BY <1>2, <1>3, <1>5, <2>2, <3>1, <3>4
      <4>2. midWrites'[m][i] = midWrites[m][i + 1] /\ i + 1 \in 0 .. Len(midWrites[m])
        BY <1>2, <1>3, <3>1, <3>4, <4>1
      <4> QED
        BY <2>2, <3>4, <4>1, <4>2 DEF Entry
    <3> QED
      BY <1>3, <1>5, <2>2, <3>1, <3>2, <3>3, <3>4
  <2> QED
    BY <2>1, <2>2
<1> QED
  BY <1>4, <1>5

(* What is left still leads home.                                          *)
LEMMA RemoveLeadsHome ==
  ASSUME IInv, NEW m \in MidNames, NEW k \in 1 .. Len(midWrites[m]),
         midWrites' = [midWrites EXCEPT ![m] = RemoveAt(@, k)],
         mids' = mids \/ mids' = [mids EXCEPT ![m] = midWrites[m][k]],
         UNCHANGED <<made, sealed>>
  PROVE  /\ MidsLeadHome'
         /\ midWrites' \in [MidNames -> Seq(0 .. MaxTmids)]
         /\ mids' \in [MidNames -> 0 .. MaxTmids]
<1>1. midWrites \in [MidNames -> Seq(0 .. MaxTmids)] /\ mids \in [MidNames -> 0 .. MaxTmids]
  BY DEF IInv, TypeOK
<1>2. ASSUME NEW n \in MidNames, NEW i \in 0 .. Len(midWrites'[n])
      PROVE  LeadsHome(n, Entry(n, i)')
  <2>1. PICK j \in 0 .. Len(midWrites[n]) : Entry(n, i)' = Entry(n, j)
    BY <1>1, RemoveEntries
  <2> QED
    BY <2>1 DEF IInv, MidsLeadHome, LeadsHome, Entry
<1>3. MidsLeadHome'
  BY <1>2 DEF MidsLeadHome, LeadsHome, Entry
<1> QED
  BY <1>1, <1>3, RemoveEntries

(* A write takes effect or is refused, whatever was issued before it.     *)
Arrival ==
  \/ \E m \in MidNames : \E i \in 1 .. Len(midWrites[m]) : LandMid(m, i) \/ DropMid(m, i)
  \/ \E t \in Tmids : \E i \in 1 .. Len(tmidWrites[t]) : LandTmid(t, i) \/ DropTmid(t, i)

(* A step of a client and its network, in order or not.                   *)
Move == UserCall \/ ClientStep \/ CallThrows \/ Crash \/ Arrival

LEMMA NextMoves == (NetworkStep => Arrival) /\ ([Next]_vars => [Move]_vars)
BY DEF Next, Move, NetworkStep, Arrival, ApplyMid, ApplyTmid, RefuseMid, RefuseTmid

(* What the network does to the packets.                                  *)
LEMMA ArrivalIInv == IInv /\ Arrival => IInv'
<1> SUFFICES ASSUME IInv, Arrival PROVE IInv'
  OBVIOUS
<1> USE DEF IInv
<1>t. /\ mids \in [MidNames -> 0 .. MaxTmids]
      /\ midWrites \in [MidNames -> Seq(0 .. MaxTmids)]
      /\ tmids \subseteq Tmids
      /\ tmidWrites \in [Tmids -> Seq(BOOLEAN)]
      /\ refusals \in 0 .. MaxRefusals
  BY DEF TypeOK
<1>1. ASSUME NEW m \in MidNames, NEW k \in 1 .. Len(midWrites[m]), LandMid(m, k) PROVE IInv'
  <2>1. /\ mids' = [mids EXCEPT ![m] = midWrites[m][k]]
        /\ midWrites' = [midWrites EXCEPT ![m] = RemoveAt(@, k)]
        /\ UNCHANGED <<tmids, tmidWrites, account, client, history>>
    BY <1>1 DEF LandMid
  <2>2. UNCHANGED <<made, sealed>>
    BY <2>1 DEF account
  <2>3. /\ MidsLeadHome'
        /\ midWrites' \in [MidNames -> Seq(0 .. MaxTmids)]
        /\ mids' \in [MidNames -> 0 .. MaxTmids]
    BY <2>1, <2>2, RemoveLeadsHome
  <2> QED
    BY <1>t, <2>1, <2>3, NetworkMoves DEF history
<1>2. ASSUME NEW m \in MidNames, NEW k \in 1 .. Len(midWrites[m]), DropMid(m, k) PROVE IInv'
  <2>1. /\ refusals < MaxRefusals /\ refusals' = refusals + 1
        /\ midWrites' = [midWrites EXCEPT ![m] = RemoveAt(@, k)]
        /\ UNCHANGED <<mids, tmids, tmidWrites, account, client, cut, crashes>>
    BY <1>2 DEF DropMid
  <2>2. UNCHANGED <<made, sealed>> /\ refusals' \in 0 .. MaxRefusals
    BY <1>t, <2>1 DEF account
  <2>3. /\ MidsLeadHome'
        /\ midWrites' \in [MidNames -> Seq(0 .. MaxTmids)]
        /\ mids' \in [MidNames -> 0 .. MaxTmids]
    BY <2>1, <2>2, RemoveLeadsHome
  <2> QED
    BY <1>t, <2>1, <2>2, <2>3, NetworkMoves
<1>3. ASSUME NEW t \in Tmids, NEW k \in 1 .. Len(tmidWrites[t]),
             tmidWrites' = [tmidWrites EXCEPT ![t] = RemoveAt(@, k)],
             tmids' \subseteq Tmids, refusals' \in 0 .. MaxRefusals,
             UNCHANGED <<mids, midWrites, account, client, cut, crashes>>
      PROVE  IInv'
  <2>1. tmidWrites' \in [Tmids -> Seq(BOOLEAN)]
    BY <1>t, <1>3, RemoveAtFacts
  <2>2. MidsLeadHome'
    BY <1>3 DEF MidsLeadHome, account
  <2> QED
    BY <1>t, <1>3, <2>1, <2>2, NetworkMoves
<1>4. ASSUME NEW t \in Tmids, NEW k \in 1 .. Len(tmidWrites[t]), LandTmid(t, k) PROVE IInv'
  <2>1. /\ tmids' = IF tmidWrites[t][k] THEN tmids \cup {t} ELSE tmids \ {t}
        /\ tmidWrites' = [tmidWrites EXCEPT ![t] = RemoveAt(@, k)]
        /\ UNCHANGED <<mids, midWrites, account, client, history>>
    BY <1>4 DEF LandTmid
  <2>2. tmids' \subseteq Tmids /\ UNCHANGED <<cut, crashes, refusals>>
    BY <1>t, <2>1 DEF history
  <2> QED
    BY <1>t, <1>3, <2>1, <2>2
<1>5. ASSUME NEW t \in Tmids, NEW k \in 1 .. Len(tmidWrites[t]), DropTmid(t, k) PROVE IInv'
  <2>1. /\ refusals < MaxRefusals /\ refusals' = refusals + 1
        /\ tmidWrites' = [tmidWrites EXCEPT ![t] = RemoveAt(@, k)]
        /\ UNCHANGED <<mids, midWrites, tmids, account, client, cut, crashes>>
    BY <1>5 DEF DropTmid
  <2>2. tmids' \subseteq Tmids /\ refusals' \in 0 .. MaxRefusals
    BY <1>t, <2>1
  <2> QED
    BY <1>3, <2>1, <2>2
<1> QED
  BY <1>1, <1>2, <1>4, <1>5 DEF Arrival

(* All steps together.                                                    *)
LEMMA MoveIInv == IInv /\ [Move]_vars => IInv'
<1> SUFFICES ASSUME IInv, [Move]_vars PROVE IInv'
  OBVIOUS
<1>1. CASE UNCHANGED vars
  BY <1>1 DEF vars, packets, account, client, history, IInv, TypeOK, SealedOK, CallOK, MidsLeadHome
<1>2. CASE CallThrows
  BY <1>2, StopIInv DEF CallThrows
<1> QED
  BY <1>1, <1>2, UserCallIInv, ClientStepIInv, StopIInv, ArrivalIInv DEF Move

LEMMA StepIInv == IInv /\ [Next]_vars => IInv'
BY MoveIInv, NextMoves

(* The variables stay within their types, however the network behaves.     *)
THEOREM TypeCorrect == Spec => []TypeOK
<1>1. IInv => TypeOK
  BY DEF IInv
<1> QED
  BY <1>1, InitIInv, StepIInv, PTL DEF Spec

(* Packets of one name never lead to a session of another, even when writes *)
(* are reordered, refused, interrupted by crashes, or rename to themselves.  *)
THEOREM NamesLeadHome == Spec => []MidsLeadHome
<1>1. IInv => MidsLeadHome
  BY DEF IInv
<1> QED
  BY <1>1, InitIInv, StepIInv, PTL DEF Spec

-----------------------------------------------------------------------------
(***************************************************************************)
(* Accounts survive, if the network applies the writes to each name in the *)
(* order of their issue and refuses none, and nobody renames to the name   *)
(* in use (each condition is necessary: store_refused and store_unchanged  *)
(* violate the last two).  The argument is about the packets there will be *)
(* once all writes have taken effect, which a network step cannot change.  *)
(***************************************************************************)
WellBehaved == Ordered /\ MaxRefusals = 0 /\ ~ Unchanged

Survives ==
  /\ enrolled => \E c \in Cred : WillOpen(c)
  /\ At("PutMid") => TmidEnd(call.tmid)
  /\ call.op \in Renames => MidName(session) # MidName(call.cred)
  /\ StopsRename => WillOpen(call.cred)

(* Where a name will lead once its writes have been applied.               *)
LEMMA EndsLeadHome ==
  ASSUME IInv, NEW m \in MidNames
  PROVE  /\ MidEnd(m) \in 0 .. made
         /\ MidEnd(m) # NoTmid => MidName(sealed[MidEnd(m)]) = m
<1>1. /\ mids \in [MidNames -> 0 .. MaxTmids] /\ made \in 0 .. MaxTmids
      /\ midWrites[m] \in Seq(0 .. MaxTmids)
  BY DEF IInv, TypeOK
<1>2. CASE midWrites[m] = <<>>
  <2>1. MidEnd(m) = mids[m] /\ 0 \in 0 .. Len(midWrites[m])
    BY <1>1, <1>2 DEF MidEnd
  <2> QED
    BY <1>1, <2>1 DEF IInv, MidsLeadHome
<1>3. CASE midWrites[m] # <<>>
  <2> DEFINE n == Len(midWrites[m])
  <2>1. n \in 1 .. n /\ MidEnd(m) = midWrites[m][n] /\ midWrites[m][n] \in 0 .. MaxTmids
    BY <1>1, <1>3 DEF MidEnd, Last
  <2>2. n \in 0 .. Len(midWrites[m]) /\ n # 0
    BY <2>1
  <2> QED
    BY <1>1, <2>1, <2>2 DEF IInv, MidsLeadHome
<1> QED
  BY <1>2, <1>3

(* Applying the first of the writes in flight does not change the last.    *)
LEMMA LastOfRest ==
  ASSUME NEW S, NEW s \in Seq(S), s # <<>>
  PROVE  IF Len(s) = 1 THEN RemoveAt(s, 1) = <<>> /\ Last(s) = s[1]
                       ELSE RemoveAt(s, 1) # <<>> /\ Last(RemoveAt(s, 1)) = Last(s)
<1>1. PICK n \in Nat : n = Len(s) /\ n >= 1
  OBVIOUS
<1> DEFINE r == RemoveAt(s, 1)
<1>2. /\ r \in Seq(S) /\ Len(r) = n - 1
      /\ \A j \in 1 .. n - 1 : r[j] = s[j + 1]
  <2>1. 1 \in 1 .. Len(s)
    BY <1>1
  <2> QED
    BY <1>1, <2>1, RemoveAtFacts
<1> HIDE DEF r
<1>3. CASE n = 1
  BY <1>1, <1>2, <1>3, EmptySeq DEF Last, r
<1>4. CASE n > 1
  <2>1. r # <<>>
    BY <1>2, <1>4, EmptySeq
  <2>2. r[n - 1] = s[n]
    <3>1. n - 1 \in 1 .. n - 1 /\ n - 1 + 1 = n
      BY <1>4
    <3> QED
      BY <1>2, <3>1
  <2> QED
    BY <1>1, <1>2, <1>4, <2>1, <2>2 DEF Last, r
<1> QED
  BY <1>1, <1>3, <1>4

(* What will open the account depends on where names and TMIDs will end.   *)
LEMMA SameEnds ==
  ASSUME IInv, \A m \in MidNames : MidEnd(m)' = MidEnd(m),
         \A t \in 1 .. made : (TmidEnd(t)' <=> TmidEnd(t)) /\ sealed'[t] = sealed[t]
  PROVE  \A c \in Cred : WillOpen(c)' <=> WillOpen(c)
<1> SUFFICES ASSUME NEW c \in Cred PROVE WillOpen(c)' <=> WillOpen(c)
  OBVIOUS
<1> DEFINE t == MidEnd(MidName(c))
<1>1. t \in 0 .. made /\ made \in Nat /\ t' = t
  BY CredFacts, EndsLeadHome DEF IInv, TypeOK, MidName
<1>2. WillOpen(c) <=> t # NoTmid /\ TmidEnd(t) /\ sealed[t] = c
  BY DEF WillOpen
<1>3. WillOpen(c)' <=> t # NoTmid /\ TmidEnd(t)' /\ sealed'[t] = c
  BY <1>1 DEF WillOpen
<1> QED
  BY <1>1, <1>2, <1>3

(* Applying a write that is next in order does not change where its name ends. *)
LEMMA NetworkKeepsEnds ==
  ASSUME IInv, Ordered, NetworkStep, refusals' = refusals
  PROVE  /\ \A c \in Cred : WillOpen(c)' <=> WillOpen(c)
         /\ \A t \in Tmids : TmidEnd(t)' <=> TmidEnd(t)
<1>t. /\ mids \in [MidNames -> 0 .. MaxTmids]
      /\ midWrites \in [MidNames -> Seq(0 .. MaxTmids)]
      /\ tmids \subseteq Tmids
      /\ tmidWrites \in [Tmids -> Seq(BOOLEAN)]
      /\ refusals \in 0 .. MaxRefusals /\ made \in 0 .. MaxTmids
  BY DEF IInv, TypeOK
<1>1. ASSUME NEW m \in MidNames, ApplyMid(m)
      PROVE  /\ \A c \in Cred : WillOpen(c)' <=> WillOpen(c)
             /\ \A u \in Tmids : TmidEnd(u)' <=> TmidEnd(u)
  <2>1. /\ mids' = [mids EXCEPT ![m] = midWrites[m][1]]
        /\ midWrites' = [midWrites EXCEPT ![m] = RemoveAt(@, 1)]
        /\ midWrites[m] # <<>>
        /\ UNCHANGED <<tmids, tmidWrites, sealed>>
    BY <1>1, <1>t DEF ApplyMid, LandMid, InTurn, account
  <2>2. ASSUME NEW n \in MidNames PROVE MidEnd(n)' = MidEnd(n)
    <3>1. CASE n # m
      BY <1>t, <2>1, <3>1 DEF MidEnd
    <3>2. CASE n = m
      <4>1. IF Len(midWrites[m]) = 1
            THEN RemoveAt(midWrites[m], 1) = <<>> /\ Last(midWrites[m]) = midWrites[m][1]
            ELSE /\ RemoveAt(midWrites[m], 1) # <<>>
                 /\ Last(RemoveAt(midWrites[m], 1)) = Last(midWrites[m])
        BY <1>t, <2>1, LastOfRest
      <4>2. midWrites'[m] = RemoveAt(midWrites[m], 1) /\ mids'[m] = midWrites[m][1]
        BY <1>t, <2>1
      <4> QED
        BY <2>1, <3>2, <4>1, <4>2 DEF MidEnd
    <3> QED
      BY <3>1, <3>2
  <2>3. \A t : TmidEnd(t)' <=> TmidEnd(t)
    BY <2>1 DEF TmidEnd
  <2> QED
    BY <2>1, <2>2, <2>3, SameEnds
<1>2. ASSUME NEW t \in Tmids, ApplyTmid(t)
      PROVE  /\ \A c \in Cred : WillOpen(c)' <=> WillOpen(c)
             /\ \A u \in Tmids : TmidEnd(u)' <=> TmidEnd(u)
  <2>1. /\ tmids' = IF tmidWrites[t][1] THEN tmids \cup {t} ELSE tmids \ {t}
        /\ tmidWrites' = [tmidWrites EXCEPT ![t] = RemoveAt(@, 1)]
        /\ tmidWrites[t] # <<>>
        /\ UNCHANGED <<mids, midWrites, sealed>>
    BY <1>2, <1>t DEF ApplyTmid, LandTmid, InTurn, account
  <2>2. ASSUME NEW u \in Tmids PROVE TmidEnd(u)' <=> TmidEnd(u)
    <3>1. CASE u # t
      <4>1. tmidWrites'[u] = tmidWrites[u] /\ (u \in tmids' <=> u \in tmids)
        BY <1>t, <2>1, <3>1
      <4> QED
        BY <4>1 DEF TmidEnd
    <3>2. CASE u = t
      <4>1. IF Len(tmidWrites[t]) = 1
            THEN RemoveAt(tmidWrites[t], 1) = <<>> /\ Last(tmidWrites[t]) = tmidWrites[t][1]
            ELSE /\ RemoveAt(tmidWrites[t], 1) # <<>>
                 /\ Last(RemoveAt(tmidWrites[t], 1)) = Last(tmidWrites[t])
        BY <1>t, <2>1, LastOfRest
      <4>2. tmidWrites'[t] = RemoveAt(tmidWrites[t], 1) /\ (t \in tmids' <=> tmidWrites[t][1])
        BY <1>t, <2>1
      <4> QED
        BY <2>1, <3>2, <4>1, <4>2 DEF TmidEnd
    <3> QED
      BY <3>1, <3>2
  <2>3. \A m \in MidNames : MidEnd(m)' = MidEnd(m)
    BY <2>1 DEF MidEnd
  <2> QED
    BY <1>t, <2>1, <2>2, <2>3, SameEnds
<1>3. ASSUME NEW m \in MidNames PROVE ~ RefuseMid(m)
  BY <1>t DEF RefuseMid, DropMid
<1>4. ASSUME NEW t \in Tmids PROVE ~ RefuseTmid(t)
  BY <1>t DEF RefuseTmid, DropTmid
<1> QED
  BY <1>1, <1>2, <1>3, <1>4 DEF NetworkStep

(* A network that behaves refuses nothing.                                 *)
LEMMA NothingRefused ==
  ASSUME IInv, WellBehaved, NetworkStep
  PROVE  Ordered /\ refusals' = refusals
BY ArrivalIInv, NextMoves DEF IInv, TypeOK, WellBehaved

(* Where a name or a TMID ends when one more write is issued.              *)
LEMMA AppendEnds ==
  ASSUME NEW S, NEW s \in Seq(S), NEW x \in S
  PROVE  Append(s, x) # <<>> /\ Last(Append(s, x)) = x
BY DEF Last

(* The steps of a call that issue a write, seen from the end.              *)
LEMMA PutTmidEnds ==
  ASSUME IInv, PutTmid
  PROVE  /\ \A c \in Cred : WillOpen(c)' <=> WillOpen(c)
         /\ \E t \in Tmids : call'.tmid = t /\ TmidEnd(t)'
         /\ \A t \in 1 .. made : TmidEnd(t)' <=> TmidEnd(t)
<1>t. /\ tmidWrites \in [Tmids -> Seq(BOOLEAN)] /\ made \in 0 .. MaxTmids
      /\ call \in Calls \cup {Idle} /\ sealed \in [Tmids -> Cred \cup {NoCred}]
  BY DEF IInv, TypeOK
<1>1. call # Idle /\ call.step = "PutTmid" /\ call \in Calls
  BY <1>t DEF PutTmid, At, Idle
<1>2. made < MaxTmids
  BY <1>1 DEF IInv, CallOK
<1>3. PICK t \in Tmids : t = made + 1
  BY <1>t, <1>2
<1>4. /\ tmidWrites' = [tmidWrites EXCEPT ![t] = Append(@, TRUE)]
      /\ sealed' = [sealed EXCEPT ![t] = call.cred]
      /\ call'.tmid = t
      /\ UNCHANGED <<mids, midWrites, tmids>>
  BY <1>1, <1>3 DEF PutTmid, GoTo, Calls
<1>5. \A m \in MidNames : MidEnd(m)' = MidEnd(m)
  BY <1>4 DEF MidEnd
<1>6. ASSUME NEW u \in 1 .. made
      PROVE  (TmidEnd(u)' <=> TmidEnd(u)) /\ sealed'[u] = sealed[u]
  <2>1. tmidWrites'[u] = tmidWrites[u] /\ sealed'[u] = sealed[u]
    <3>1. u # t /\ u \in Tmids
      BY <1>t, <1>3
    <3> QED
      BY <1>t, <1>4, <3>1
  <2> QED
    BY <1>4, <2>1 DEF TmidEnd
<1>7. TmidEnd(t)'
  <2>1. tmidWrites'[t] = Append(tmidWrites[t], TRUE)
    BY <1>t, <1>4
  <2>2. tmidWrites'[t] # <<>> /\ Last(tmidWrites'[t]) = TRUE
    BY <1>t, <2>1, AppendEnds
  <2> QED
    BY <2>2 DEF TmidEnd
<1> QED
  BY <1>4, <1>5, <1>6, <1>7, SameEnds

(* Its name will lead to the credential just sealed.                      *)
LEMMA PutMidEnds ==
  ASSUME IInv, PutMid, TmidEnd(call.tmid), NEW c \in Cred, call.cred = c
  PROVE  \A d \in Cred : WillOpen(d)' <=>
           IF MidName(d) = MidName(c) THEN d = c ELSE WillOpen(d)
<1> DEFINE m == MidName(c)
<1>t. /\ midWrites \in [MidNames -> Seq(0 .. MaxTmids)] /\ made \in 0 .. MaxTmids
      /\ call \in Calls \cup {Idle} /\ sealed \in [Tmids -> Cred \cup {NoCred}]
  BY DEF IInv, TypeOK
<1>1. call # Idle /\ call.step = "PutMid" /\ At("PutMid")
  BY <1>t DEF PutMid, At, Idle
<1>2. PICK t \in 1 .. made : t = call.tmid /\ sealed[t] = c /\ TmidEnd(t)
  BY <1>1 DEF IInv, CallOK
<1>3. /\ midWrites' = [midWrites EXCEPT ![m] = Append(@, t)]
      /\ UNCHANGED <<mids, tmids, tmidWrites, sealed>>
  BY <1>2 DEF PutMid
<1>4. m \in MidNames /\ \A d \in Cred : MidName(d) \in MidNames
  BY CredFacts
<1>5. MidEnd(m)' = t
  <2>1. midWrites'[m] = Append(midWrites[m], t)
    BY <1>t, <1>3, <1>4
  <2>2. midWrites'[m] # <<>> /\ Last(midWrites'[m]) = t
    BY <1>t, <1>4, <2>1, AppendEnds
  <2> QED
    BY <2>2 DEF MidEnd
<1>6. \A n \in MidNames : n # m => MidEnd(n)' = MidEnd(n)
  BY <1>t, <1>3 DEF MidEnd
<1>7. \A u : TmidEnd(u)' <=> TmidEnd(u)
  BY <1>3 DEF TmidEnd
<1>8. ASSUME NEW d \in Cred
      PROVE  WillOpen(d)' <=> IF MidName(d) = m THEN d = c ELSE WillOpen(d)
  <2>1. CASE MidName(d) = m
    <3>1. WillOpen(d)' <=> t # NoTmid /\ TmidEnd(t)' /\ sealed'[t] = d
      BY <1>5, <2>1 DEF WillOpen
    <3>2. TmidEnd(t)' /\ t # NoTmid /\ sealed'[t] = c
      BY <1>2, <1>3, <1>7, <1>t
    <3> QED
      BY <2>1, <3>1, <3>2
  <2>2. CASE MidName(d) # m
    <3>1. MidEnd(MidName(d))' = MidEnd(MidName(d))
      BY <1>4, <1>6, <2>2
    <3> QED
      BY <1>3, <1>7, <2>2, <3>1 DEF WillOpen
  <2> QED
    BY <2>1, <2>2
<1> QED
  BY <1>8

(* Deleting a TMID withdraws whoever's name leads to it ... *)
LEMMA DeleteTmidEnds ==
  ASSUME IInv, DeleteTmid
  PROVE  /\ \A d \in Cred : WillOpen(d)' <=> WillOpen(d) /\ MidEnd(MidName(d)) # call.tmid
         /\ \A t \in Tmids : t # call.tmid => (TmidEnd(t)' <=> TmidEnd(t))
<1>t. /\ tmidWrites \in [Tmids -> Seq(BOOLEAN)] /\ made \in 0 .. MaxTmids
      /\ call \in Calls \cup {Idle}
  BY DEF IInv, TypeOK
<1>1. call # Idle /\ call.step = "DeleteTmid"
  BY <1>t DEF DeleteTmid, At, Idle
<1>2. PICK t \in Tmids : t = call.tmid
  BY <1>t, <1>1 DEF IInv, CallOK
<1>3. /\ tmidWrites' = [tmidWrites EXCEPT ![t] = Append(@, FALSE)]
      /\ UNCHANGED <<mids, midWrites, tmids, sealed>>
  BY <1>2 DEF DeleteTmid, account
<1>4. ~ TmidEnd(t)'
  <2>1. tmidWrites'[t] = Append(tmidWrites[t], FALSE)
    BY <1>t, <1>3
  <2>2. tmidWrites[t] \in Seq(BOOLEAN) /\ FALSE \in BOOLEAN
    BY <1>t
  <2>3. Append(tmidWrites[t], FALSE) # <<>> /\ Last(Append(tmidWrites[t], FALSE)) = FALSE
    BY <2>2, AppendEnds
  <2> QED
    BY <2>1, <2>3 DEF TmidEnd
<1>5. ASSUME NEW u \in Tmids, u # t PROVE TmidEnd(u)' <=> TmidEnd(u)
  <2>1. tmidWrites'[u] = tmidWrites[u]
    BY <1>t, <1>3, <1>5
  <2> QED
    BY <1>3, <2>1 DEF TmidEnd
<1>6. \A n : MidEnd(n)' = MidEnd(n)
  BY <1>3 DEF MidEnd
<1>7. ASSUME NEW d \in Cred
      PROVE  WillOpen(d)' <=> WillOpen(d) /\ MidEnd(MidName(d)) # t
  <2>1. PICK e \in 0 .. MaxTmids : e = MidEnd(MidName(d))
    BY <1>t, CredFacts, EndsLeadHome
  <2>2. MidEnd(MidName(d))' = e
    BY <1>6, <2>1
  <2>3. WillOpen(d)' <=> e # NoTmid /\ TmidEnd(e)' /\ sealed[e] = d
    BY <1>3, <2>2 DEF WillOpen
  <2>4. WillOpen(d) <=> e # NoTmid /\ TmidEnd(e) /\ sealed[e] = d
    BY <2>1 DEF WillOpen
  <2>5. e # NoTmid /\ e # t => (TmidEnd(e)' <=> TmidEnd(e))
    BY <1>5
  <2> QED
    BY <1>4, <2>1, <2>3, <2>4, <2>5
<1> QED
  BY <1>2, <1>5, <1>7

(* ... and deleting a MID withdraws whoever is stored under its name.      *)
LEMMA DeleteMidEnds ==
  ASSUME IInv, DeleteMid, NEW c \in Cred, session = c
  PROVE  \A d \in Cred : WillOpen(d)' <=> WillOpen(d) /\ MidName(d) # MidName(c)
<1> DEFINE m == MidName(c)
<1>t. midWrites \in [MidNames -> Seq(0 .. MaxTmids)]
  BY DEF IInv, TypeOK
<1>1. /\ midWrites' = [midWrites EXCEPT ![m] = Append(@, NoTmid)]
      /\ UNCHANGED <<mids, tmids, tmidWrites, sealed>>
  BY DEF DeleteMid, account
<1>2. m \in MidNames /\ \A d \in Cred : MidName(d) \in MidNames
  BY CredFacts
<1>3. MidEnd(m)' = NoTmid
  <2>1. midWrites'[m] = Append(midWrites[m], NoTmid)
    BY <1>t, <1>1, <1>2
  <2>2. midWrites'[m] # <<>> /\ Last(midWrites'[m]) = NoTmid
    BY <1>t, <1>2, <2>1, AppendEnds
  <2> QED
    BY <2>2 DEF MidEnd
<1>4. \A n \in MidNames : n # m => MidEnd(n)' = MidEnd(n)
  BY <1>t, <1>1 DEF MidEnd
<1>5. \A u : TmidEnd(u)' <=> TmidEnd(u)
  BY <1>1 DEF TmidEnd
<1>6. ASSUME NEW d \in Cred PROVE WillOpen(d)' <=> WillOpen(d) /\ MidName(d) # m
  <2>1. CASE MidName(d) = m
    BY <1>3, <2>1 DEF WillOpen
  <2>2. CASE MidName(d) # m
    <3>1. MidEnd(MidName(d))' = MidEnd(MidName(d))
      BY <1>2, <1>4, <2>2
    <3> QED
      BY <1>1, <1>5, <2>2, <3>1 DEF WillOpen
  <2> QED
    BY <2>1, <2>2
<1> QED
  BY <1>6

(* While the packets stay, so does what they will open.                    *)
LEMMA SamePackets ==
  ASSUME UNCHANGED <<packets, sealed>>
  PROVE  /\ \A c : WillOpen(c)' <=> WillOpen(c)
         /\ \A t : TmidEnd(t)' <=> TmidEnd(t)
BY DEF packets, WillOpen, MidEnd, TmidEnd

(* A parameter of the call may be replaced by its value in the next state. *)
LEMMA NextValues ==
  /\ \A c : c = call'.cred /\ WillOpen(c)' => WillOpen(call.cred)'
  /\ \A t : t = call'.tmid /\ TmidEnd(t)' => TmidEnd(call.tmid)'
BY DEF WillOpen, MidEnd, TmidEnd, MidName

(* The steps of a call that neither write nor follow a write of their own. *)
LEMMA QuietSurvives ==
  ASSUME Survives, UNCHANGED <<packets, sealed, enrolled>>,
         ~ At("PutMid")', ~ StopsRename',
         (call.op \in Renames => MidName(session) # MidName(call.cred))'
  PROVE  Survives'
BY SamePackets DEF Survives

(* No step takes away the credential that is safe.                        *)
LEMMA StepSurvives ==
  ASSUME IInv, Survives, WellBehaved, [Next]_vars
  PROVE  Survives'
<1>t. /\ session \in Cred \cup {NoCred} /\ call \in Calls \cup {Idle}
      /\ made \in 0 .. MaxTmids
  BY DEF IInv, TypeOK
<1>1. CASE UNCHANGED vars
  BY <1>1 DEF vars, packets, account, client, history, Survives, At, StopsRename,
     WillOpen, MidEnd, TmidEnd
<1>2. ASSUME NEW c \in Cred, CreateUser(c) \/ LogIn(c) PROVE Survives'
  <2>1. call'.op \notin Renames /\ call'.step # "PutMid"
    BY <1>2 DEF CreateUser, LogIn, Start, Renames
  <2> QED
    BY <1>2, <2>1, QuietSurvives DEF CreateUser, LogIn, At, StopsRename, account
<1>3. ASSUME NEW op \in Changes, NEW c \in Cred, Change(op, c),
             op \in Renames => MidName(c) # MidName(session)
      PROVE  Survives'
  <2>1. call'.op = op /\ call'.step = "PutTmid" /\ call'.cred = c
    BY <1>3 DEF Change, Start
  <2>2. ~ At("PutMid")' /\ ~ StopsRename'
    BY <2>1 DEF At, StopsRename
  <2>3. (call.op \in Renames => MidName(session) # MidName(call.cred))'
    BY <1>3, <2>1 DEF Change, MidName
  <2> QED
    BY <1>3, <2>2, <2>3, QuietSurvives DEF Change, account
<1>4. ASSUME NEW k \in Keywords, ChangeKeyword(k) PROVE Survives'
  <2>1. /\ session \in Cred /\ k # session.keyword
        /\ Change("ChangeKeyword", [session EXCEPT !.keyword = k])
    BY <1>t, <1>4 DEF ChangeKeyword, WellBehaved
  <2>2. /\ [session EXCEPT !.keyword = k] \in Cred
        /\ MidName([session EXCEPT !.keyword = k]) # MidName(session)
    BY <2>1 DEF Cred, MidName
  <2> QED
    BY <1>3, <2>1, <2>2 DEF Changes
<1>5. ASSUME NEW p \in Pins, ChangePin(p) PROVE Survives'
  <2>1. /\ session \in Cred /\ p # session.pin
        /\ Change("ChangePin", [session EXCEPT !.pin = p])
    BY <1>t, <1>5 DEF ChangePin, WellBehaved
  <2>2. /\ [session EXCEPT !.pin = p] \in Cred
        /\ MidName([session EXCEPT !.pin = p]) # MidName(session)
    BY <2>1 DEF Cred, MidName
  <2> QED
    BY <1>3, <2>1, <2>2 DEF Changes
<1>6. ASSUME NEW w \in Passwords, ChangePassword(w) PROVE Survives'
  <2>1. session \in Cred /\ Change("ChangePassword", [session EXCEPT !.password = w])
    BY <1>t, <1>6 DEF ChangePassword
  <2>2. [session EXCEPT !.password = w] \in Cred /\ "ChangePassword" \notin Renames
    BY <2>1 DEF Cred, Renames
  <2> QED
    BY <1>3, <2>1, <2>2 DEF Changes
<1>7. CASE ChangeWithoutNfs
  <2>1. call' = Idle
    BY <1>7 DEF ChangeWithoutNfs
  <2> QED
    BY <1>7, <2>1, QuietSurvives DEF ChangeWithoutNfs, account, At, StopsRename, Idle, Renames
<1>8. CASE PutTmid
  <2>1. call # Idle /\ call \in Calls /\ call.step = "PutTmid"
    BY <1>8, <1>t DEF PutTmid, At, Idle
  <2>2. /\ call'.op = call.op /\ call'.cred = call.cred /\ call'.step = "PutMid"
        /\ UNCHANGED <<enrolled, session>>
    BY <1>8, <2>1 DEF PutTmid, GoTo, Calls
  <2>3. PICK t \in Tmids : call'.tmid = t /\ TmidEnd(t)'
    BY <1>8, PutTmidEnds
  <2>4. TmidEnd(call.tmid)'
    BY <2>3, NextValues
  <2>5. (enrolled => \E c \in Cred : WillOpen(c))'
    BY <1>8, <2>2, PutTmidEnds DEF Survives
  <2>6. (call.op \in Renames => MidName(session) # MidName(call.cred))'
    BY <2>2 DEF Survives, MidName
  <2>7. ~ StopsRename'
    BY <2>2 DEF StopsRename
  <2> QED
    BY <2>4, <2>5, <2>6, <2>7 DEF Survives
<1>9. CASE PutMid
  <2>1. call # Idle /\ call \in Calls /\ call.step = "PutMid"
    BY <1>9, <1>t DEF PutMid, At, Idle
  <2>2. /\ call'.op = call.op /\ call'.cred = call.cred /\ call'.step # "PutMid"
        /\ UNCHANGED session
    BY <1>9, <2>1 DEF PutMid, GoTo, Calls
  <2>3. PICK c \in Cred : call.cred = c
    BY <2>1 DEF Calls
  <2>4. WillOpen(c)'
    BY <1>9, <2>3, PutMidEnds DEF PutMid, Survives
  <2>5. WillOpen(call.cred)'
    BY <2>2, <2>3, <2>4, NextValues
  <2>6. (call.op \in Renames => MidName(session) # MidName(call.cred))'
    BY <2>2 DEF Survives, MidName
  <2>7. ~ At("PutMid")'
    BY <2>2 DEF At
  <2> QED
    BY <2>4, <2>5, <2>6, <2>7 DEF Survives
<1>10. CASE GetMid
  <2>1. call # Idle /\ call \in Calls /\ call.step = "GetMid"
    BY <1>10, <1>t DEF GetMid, At, Idle
  <2>2. /\ call'.op = call.op /\ call'.cred = call.cred /\ call'.step # "PutMid"
        /\ UNCHANGED <<packets, sealed, enrolled, session>>
    BY <1>10, <2>1 DEF GetMid, GoTo, Calls, account
  <2>3. PICK c \in Cred : call.cred = c
    BY <2>1 DEF Calls
  <2>4. StopsRename' => WillOpen(c)
    BY <2>1, <2>2, <2>3 DEF Survives, StopsRename
  <2>5. StopsRename' => WillOpen(call.cred)'
    BY <2>2, <2>3, <2>4, SamePackets, NextValues
  <2>6. (call.op \in Renames => MidName(session) # MidName(call.cred))'
    BY <2>2 DEF Survives, MidName
  <2>7. ~ At("PutMid")' /\ (enrolled => \E d \in Cred : WillOpen(d))'
    BY <2>2, SamePackets DEF At, Survives
  <2> QED
    BY <2>5, <2>6, <2>7 DEF Survives
<1>11. CASE DeleteTmid
  <2>1. call # Idle /\ call \in Calls /\ call.step = "DeleteTmid"
    BY <1>11, <1>t DEF DeleteTmid, At, Idle
  <2>2. /\ call'.op = call.op /\ call'.cred = call.cred /\ call'.step = "DeleteMid"
        /\ UNCHANGED <<enrolled, session>>
    BY <1>11, <2>1 DEF DeleteTmid, GoTo, Calls, account
  <2>3. PICK c \in Cred : call.cred = c
    BY <2>1 DEF Calls
  <2>4. /\ call.op \in Renames /\ MidName(sealed[call.tmid]) = MidName(session)
        /\ call.tmid \in 1 .. made
    BY <2>1 DEF IInv, CallOK
  <2>5. WillOpen(c) /\ MidName(session) # MidName(c)
    BY <2>1, <2>3, <2>4 DEF Survives, StopsRename
  <2>6. MidEnd(MidName(c)) # call.tmid
    BY <1>t, <2>4, <2>5, CredFacts, EndsLeadHome
  <2>7. WillOpen(c)'
    BY <1>11, <2>5, <2>6, DeleteTmidEnds
  <2>8. WillOpen(call.cred)'
    BY <2>2, <2>3, <2>7, NextValues
  <2>9. (call.op \in Renames => MidName(session) # MidName(call.cred))' /\ ~ At("PutMid")'
    BY <2>2 DEF Survives, MidName, At
  <2> QED
    BY <2>7, <2>8, <2>9 DEF Survives
<1>12. CASE DeleteMid
  <2>1. call # Idle /\ call \in Calls /\ call.step = "DeleteMid"
    BY <1>12, <1>t DEF DeleteMid, At, Idle
  <2>2. /\ call'.op = call.op /\ call'.cred = call.cred /\ call'.step = "Return"
        /\ UNCHANGED <<enrolled, session>>
    BY <1>12, <2>1 DEF DeleteMid, GoTo, Calls, account
  <2>3. PICK c \in Cred : call.cred = c
    BY <2>1 DEF Calls
  <2>4. call.op \in Renames /\ session \in Cred
    BY <1>t, <2>1 DEF IInv, CallOK, Renames, Changes
  <2>5. WillOpen(c) /\ MidName(session) # MidName(c)
    BY <2>1, <2>3, <2>4 DEF Survives, StopsRename
  <2>6. WillOpen(c)'
    BY <1>12, <2>4, <2>5, DeleteMidEnds
  <2>7. (call.op \in Renames => MidName(session) # MidName(call.cred))'
        /\ ~ At("PutMid")' /\ ~ StopsRename'
    BY <2>2 DEF Survives, MidName, At, StopsRename
  <2> QED
    BY <2>6, <2>7 DEF Survives
<1>13. CASE GetTmid
  <2>1. call # Idle /\ call \in Calls /\ call.step = "GetTmid"
    BY <1>13, <1>t DEF GetTmid, At, Idle
  <2>2. /\ call'.op = call.op /\ call'.cred = call.cred /\ call'.step = "Return"
        /\ UNCHANGED <<packets, sealed, enrolled, session>>
    BY <1>13, <2>1 DEF GetTmid, GoTo, Calls, account
  <2>3. (call.op \in Renames => MidName(session) # MidName(call.cred))'
    BY <2>2 DEF Survives, MidName
  <2>4. ~ At("PutMid")' /\ ~ StopsRename'
    BY <2>2 DEF At, StopsRename
  <2> QED
    BY <2>2, <2>3, <2>4, QuietSurvives
<1>14. CASE Return \/ MidMissing \/ TmidUnreadable \/ CallThrows \/ Crash
  <2>1. call' = Idle /\ UNCHANGED <<packets, sealed, enrolled>>
    BY <1>14 DEF Return, MidMissing, TmidUnreadable, CallThrows, Crash, Throw, account
  <2> QED
    BY <2>1, QuietSurvives DEF At, StopsRename, Idle, Renames
<1>15. CASE NetworkStep
  <2>1. UNCHANGED <<enrolled, call, session>>
    BY <1>15 DEF NetworkStep, ApplyMid, LandMid, RefuseMid, DropMid, ApplyTmid, LandTmid, RefuseTmid,
       DropTmid, account, client
  <2>2. /\ \A c \in Cred : WillOpen(c)' <=> WillOpen(c)
        /\ \A t \in Tmids : TmidEnd(t)' <=> TmidEnd(t)
    BY <1>15, NothingRefused, NetworkKeepsEnds
  <2>3. At("PutMid")' => TmidEnd(call.tmid)'
    <3>1. At("PutMid")' => At("PutMid") /\ call # Idle /\ call.step = "PutMid"
      BY <2>1 DEF At, Idle
    <3>2. At("PutMid") => call.tmid \in Tmids
      BY <1>t DEF IInv, CallOK, At, Idle
    <3> QED
      BY <2>1, <2>2, <3>1, <3>2, NextValues DEF Survives
  <2>4. StopsRename' => WillOpen(call.cred)'
    <3>1. StopsRename' => StopsRename /\ call.cred \in Cred
      BY <1>t, <2>1 DEF StopsRename, Calls, Idle, Renames
    <3> QED
      BY <2>1, <2>2, <3>1, NextValues DEF Survives
  <2>5. (call.op \in Renames => MidName(session) # MidName(call.cred))'
    BY <2>1 DEF Survives, MidName
  <2> QED
    BY <2>1, <2>2, <2>3, <2>4, <2>5 DEF Survives
<1> QED
  BY <1>1, <1>2, <1>4, <1>5, <1>6, <1>7, <1>8, <1>9, <1>10, <1>11, <1>12, <1>13,
     <1>14, <1>15 DEF Next, UserCall, ClientStep

(* Nobody has an account at first.                                        *)
LEMMA InitSurvives == Init => Survives
BY DEF Init, Survives, At, StopsRename, Idle, Renames

(* What has taken effect is what was going to.                             *)
LEMMA SettledOpens ==
  ASSUME Drained, NEW c \in Cred, WillOpen(c)
  PROVE  IInv => Opens(c)
<1> SUFFICES ASSUME IInv PROVE Opens(c)
  OBVIOUS
<1> DEFINE t == MidEnd(MidName(c))
<1>1. t = mids[MidName(c)] /\ t \in 0 .. made /\ made \in 0 .. MaxTmids
  BY CredFacts, EndsLeadHome DEF Drained, MidEnd, IInv, TypeOK
<1>2. t # NoTmid /\ TmidEnd(t) /\ sealed[t] = c
  BY DEF WillOpen
<1>3. t \in Tmids
  BY <1>1, <1>2
<1>4. t \in tmids
  BY <1>2, <1>3 DEF Drained, TmidEnd
<1> QED
  BY <1>1, <1>2, <1>4 DEF Opens

(* Nobody is locked out: once the account exists and the writes have taken *)
(* effect, some credential opens it, wherever calls threw or clients died. *)
THEOREM NobodyLockedOut == WellBehaved => (Spec => []Reachable)
<1> SUFFICES ASSUME WellBehaved PROVE Spec => []Reachable
  OBVIOUS
<1>1. Init => IInv /\ Survives
  BY InitIInv, InitSurvives
<1>2. IInv /\ Survives /\ [Next]_vars => (IInv /\ Survives)'
  BY StepIInv, StepSurvives
<1>3. IInv /\ Survives => Reachable
  BY SettledOpens DEF Survives, Reachable
<1> QED
  BY <1>1, <1>2, <1>3, PTL DEF Spec

-----------------------------------------------------------------------------
(* The refinement: in terms of the credentials that will open the account, *)
(* each step stores one, withdraws one that is not the last, or stutters.  *)
Valid == {c \in Cred : WillOpen(c)}

(* Nothing the account book is about has changed. *)
LEMMA Stutters ==
  ASSUME \A c \in Cred : WillOpen(c)' <=> WillOpen(c)
  PROVE  Valid' = Valid
BY DEF Valid

(* One name leads to one credential at most. *)
LEMMA OneAtName ==
  ASSUME NEW c \in Cred, NEW d \in Cred, WillOpen(c), WillOpen(d), MidName(c) = MidName(d)
  PROVE  c = d
BY DEF WillOpen

(* A rename withdraws the credential it leaves, and keeps the new one.     *)
LEMMA WithdrawStep ==
  ASSUME IInv, Survives, DeleteTmid \/ DeleteMid
  PROVE  Book!Next \/ Valid' = Valid
<1>t. call \in Calls \cup {Idle} /\ session \in Cred \cup {NoCred} /\ made \in 0 .. MaxTmids
  BY DEF IInv, TypeOK
<1>1. call # Idle /\ call.step \in {"DeleteTmid", "DeleteMid"} /\ call \in Calls
  <2>1. At("DeleteTmid") \/ At("DeleteMid")
    BY DEF DeleteTmid, DeleteMid
  <2>2. call.op # "none" /\ call.step \in {"DeleteTmid", "DeleteMid"}
    BY <2>1 DEF At
  <2> QED
    BY <1>t, <2>2 DEF Idle
<1>2. call.op \in Renames /\ session \in Cred
  BY <1>1, <1>t DEF IInv, CallOK, Renames, Changes
<1>3. PICK c \in Cred, old \in Cred : c = call.cred /\ old = session
  BY <1>1, <1>2 DEF Calls
<1>4. WillOpen(c) /\ MidName(c) # MidName(old)
  BY <1>1, <1>2, <1>3 DEF Survives, StopsRename
<1>5. PICK S : S = {d \in Cred : WillOpen(d) /\ ~ WillOpen(d)'}
  OBVIOUS
<1>6. /\ \A d \in Cred : WillOpen(d)' => WillOpen(d)
      /\ \A d \in S : MidName(d) = MidName(old)
  <2>1. CASE DeleteTmid
    <3>1. MidName(sealed[call.tmid]) = MidName(old) /\ call.tmid \in 1 .. made
      BY <1>1, <1>3, <2>1 DEF IInv, CallOK, DeleteTmid, At
    <3>2. \A d \in Cred : WillOpen(d)' <=> WillOpen(d) /\ MidEnd(MidName(d)) # call.tmid
      BY <2>1, DeleteTmidEnds
    <3>3. \A d \in Cred : MidEnd(MidName(d)) = call.tmid => MidName(d) = MidName(old)
      BY <1>t, <3>1, CredFacts, EndsLeadHome
    <3> QED
      BY <1>5, <3>2, <3>3
  <2>2. CASE DeleteMid
    <3>1. \A d \in Cred : WillOpen(d)' <=> WillOpen(d) /\ MidName(d) # MidName(old)
      BY <1>3, <2>2, DeleteMidEnds
    <3> QED
      BY <1>5, <3>1
  <2> QED
    BY <2>1, <2>2
<1>7. CASE S = {}
  <2>1. \A d \in Cred : WillOpen(d)' <=> WillOpen(d)
    BY <1>5, <1>6, <1>7
  <2> QED
    BY <2>1, Stutters
<1>8. CASE S # {}
  <2>1. PICK d \in S : TRUE
    BY <1>8
  <2>2. d \in Cred /\ WillOpen(d) /\ MidName(d) = MidName(old)
    BY <1>5, <1>6, <2>1
  <2>3. \A e \in Cred : WillOpen(e)' <=> WillOpen(e) /\ e # d
    BY <1>5, <1>6, <2>1, <2>2, OneAtName
  <2>4. Valid' = Valid \ {d} /\ d \in Valid /\ c \in Valid /\ c # d
    BY <1>4, <2>2, <2>3 DEF Valid
  <2>5. Book!Withdraw(d)
    BY <2>4 DEF Book!Withdraw, Valid
  <2> QED
    BY <2>2, <2>5 DEF Book!Next, Book!Cred, Cred
<1> QED
  BY <1>7, <1>8

(* Putting the MID is the Store of the account book.                      *)
LEMMA StoreStep ==
  ASSUME IInv, Survives, PutMid
  PROVE  Book!Next
<1>t. call \in Calls \cup {Idle}
  BY DEF IInv, TypeOK
<1>1. PICK c \in Cred : call.cred = c
  BY <1>t DEF PutMid, At, Idle, Calls
<1>2. \A d \in Cred : WillOpen(d)' <=>
        IF MidName(d) = MidName(c) THEN d = c ELSE WillOpen(d)
  BY <1>1, PutMidEnds DEF PutMid, Survives
<1>3. \A d \in Cred : Book!SameMid(c, d) <=> MidName(d) = MidName(c)
  BY DEF Book!SameMid, MidName
<1>4. Valid' = {d \in Valid : ~ Book!SameMid(c, d)} \cup {c}
  BY <1>2, <1>3 DEF Valid
<1>5. Book!Store(c)
  BY <1>4 DEF Book!Store, Valid
<1> QED
  BY <1>5 DEF Book!Next, Book!Cred, Cred

(* Every step is one of the account book, or none.                        *)
LEMMA BookStep ==
  ASSUME IInv, Survives, WellBehaved, [Next]_vars
  PROVE  [Book!Next]_Valid
<1>1. CASE PutMid
  BY <1>1, StoreStep
<1>2. CASE DeleteTmid \/ DeleteMid
  BY <1>2, WithdrawStep
<1>3. CASE PutTmid
  BY <1>3, PutTmidEnds, Stutters
<1>4. CASE NetworkStep
  BY <1>4, NothingRefused, NetworkKeepsEnds, Stutters
<1>5. CASE \/ UserCall \/ GetMid \/ GetTmid \/ Return \/ MidMissing \/ TmidUnreadable
           \/ CallThrows \/ Crash \/ UNCHANGED vars
  <2>1. UNCHANGED <<packets, sealed>>
    BY <1>5 DEF UserCall, CreateUser, LogIn, ChangeKeyword, ChangePin, ChangePassword,
       Change, ChangeWithoutNfs, GetMid, GetTmid, Return, MidMissing, TmidUnreadable,
       CallThrows, Crash, Throw, account, vars
  <2> QED
    BY <2>1, SamePackets, Stutters
<1> QED
  BY <1>1, <1>2, <1>3, <1>4, <1>5 DEF Next, ClientStep

(* Two packets, asynchronous writes, exceptions and crashes implement the  *)
(* account book: every credential change is one Store, every DeleteSession *)
(* at most one Withdraw, and nothing else changes who can log in.          *)
THEOREM StoreImplementsBook == WellBehaved => (Spec => BookSpec)
<1> SUFFICES ASSUME WellBehaved PROVE Spec => BookSpec
  OBVIOUS
<1>1. Init => IInv /\ Survives
  BY InitIInv, InitSurvives
<1>2. IInv /\ Survives /\ [Next]_vars => (IInv /\ Survives)'
  BY StepIInv, StepSurvives
<1>3. Init => Book!Init
  <2>1. ASSUME Init, NEW c \in Cred PROVE ~ WillOpen(c)
    BY <2>1, CredFacts DEF Init, WillOpen, MidEnd
  <2> QED
    BY <2>1 DEF Book!Init
<1>4. IInv /\ Survives /\ [Next]_vars => [Book!Next]_Valid
  BY BookStep
<1> QED
  BY <1>1, <1>2, <1>3, <1>4, PTL DEF Spec, BookSpec, Book!Spec, Valid

-----------------------------------------------------------------------------
(* The promises of the account book, as AccountBookProofs has them.        *)
Promised == INSTANCE AccountBookProofs WITH valid <- Valid

LEMMA SameBook == BookSpec => Promised!Spec
<1>1. Book!Init => Promised!Init
  BY DEF Book!Init, Promised!Init, Valid
<1>2. [Book!Next]_Valid => [Promised!Next]_Valid
  BY DEF Book!Next, Book!Store, Book!Withdraw, Book!SameMid, Book!Cred, Promised!Next,
     Promised!Store, Promised!Withdraw, Promised!SameMid, Promised!Cred, Valid
<1> QED
  BY <1>1, <1>2, PTL DEF BookSpec, Book!Spec, Promised!Spec, Valid

(* In no step, be it of a call, a crash or the network, does an account that *)
(* some credential would open become one that none would; and no keyword and *)
(* pin are ever opened by two passwords, so that to store a new one revokes  *)
(* the old.                                                                 *)
THEOREM PromisesKept ==
  WellBehaved => (Spec => Promised!NeverLockedOut /\ []Promised!OnePassword)
<1> SUFFICES ASSUME WellBehaved PROVE Spec => Promised!NeverLockedOut /\ []Promised!OnePassword
  OBVIOUS
<1>1. Promised!Spec => []Promised!OnePassword
  BY Promised!BookOnePassword, PTL
<1> QED
  BY <1>1, StoreImplementsBook, SameBook, Promised!BookNeverLocks, PTL
=============================================================================
