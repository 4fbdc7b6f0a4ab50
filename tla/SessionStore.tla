---------------------------- MODULE SessionStore ----------------------------
(***************************************************************************)
(* How ClientMaid keeps a user's session on the network                    *)
(* (src/src/maidsafe/lifestuff/detail/client_maid.cc), driven by the calls *)
(* of LifeStuffImpl (src/src/maidsafe/lifestuff/lifestuff_impl.cc).        *)
(*                                                                         *)
(* A session is stored as two packets.  The TMID holds the serialised      *)
(* session, encrypted with keyword, pin and password, under a name that is *)
(* new each time.  The MID is stored under a name computed from keyword    *)
(* and pin and holds the name of the TMID.  To log in is to read the MID,  *)
(* then the TMID, then to decrypt.  To change the keyword or the pin is to *)
(* put both packets under the new name, then to read the old MID and to    *)
(* delete the packets it leads to.                                         *)
(*                                                                         *)
(* Puts and deletes are asynchronous: PutFob and DeleteFob return at once  *)
(* and the reply, which nobody waits for, throws in a callback thread.     *)
(* Gets wait for their answer and may throw in the caller.                 *)
(***************************************************************************)
EXTENDS Integers, SequencesExt

CONSTANTS
  Keywords, Pins, Passwords,  \* what a user may type
  NoCred,                     \* no credential: not in Cred
  MaxTmids,                   \* bound: sessions that are ever serialised
  MaxCrashes,                 \* bound: times the client process dies
  MaxRefusals,                \* bound: writes the network refuses or loses
  Ordered,                    \* writes to one name take effect in issue order
  Unchanged,                  \* the user may "change" a field to its old value
  Patient,                    \* calls the user makes only when no write is in flight
  Trouble                     \* any network call may throw in the caller

Cred == [keyword : Keywords, pin : Pins, password : Passwords]

ASSUME StoreAssumption ==
  /\ MaxTmids \in Nat /\ MaxCrashes \in Nat /\ MaxRefusals \in Nat
  /\ Ordered \in BOOLEAN /\ Unchanged \in BOOLEAN /\ Trouble \in BOOLEAN
  /\ NoCred \notin Cred

MidName(c) == <<c.keyword, c.pin>>
MidNames   == Keywords \X Pins

Tmids  == 1 .. MaxTmids
NoTmid == 0              \* as the value of a MID: the MID is not stored

Changes == {"ChangeKeyword", "ChangePin", "ChangePassword"}
Renames == {"ChangeKeyword", "ChangePin"}
Ops     == {"CreateUser", "LogIn"} \cup Changes
Steps   == {"PutTmid", "PutMid", "GetMid", "DeleteTmid", "DeleteMid",
            "GetTmid", "Return"}

VARIABLES
  mids,        \* MID name -> the TMID its stored MID points to, or NoTmid
  midWrites,   \* MID name -> writes in flight: a TMID to point to, NoTmid to delete
  tmids,       \* the TMIDs that are stored
  tmidWrites,  \* TMID -> writes in flight: TRUE to store it, FALSE to delete it
  sealed,      \* TMID -> the credential its session is encrypted with
  made,        \* TMIDs 1 .. made have been created
  session,     \* session_: the credential of the running client, or NoCred
  nfs,         \* whether client_nfs_ is set
  call,        \* the call the client is executing, and the step it is at
  enrolled,    \* history: some MID has been written, so the account exists
  cut,         \* history: some change of credentials was cut short
  crashes, refusals

packets == <<mids, midWrites, tmids, tmidWrites>>
account == <<sealed, made, enrolled>>
client  == <<session, nfs, call>>
history == <<cut, crashes, refusals>>
vars    == <<packets, account, client, history>>

Idle == [op |-> "none", step |-> "idle", cred |-> NoCred, tmid |-> NoTmid]

Calls == [op : Ops, step : Steps, cred : Cred, tmid : 0 .. MaxTmids]

TypeOK ==
  /\ mids \in [MidNames -> 0 .. MaxTmids]
  /\ midWrites \in [MidNames -> Seq(0 .. MaxTmids)]
  /\ tmids \subseteq Tmids
  /\ tmidWrites \in [Tmids -> Seq(BOOLEAN)]
  /\ sealed \in [Tmids -> Cred \cup {NoCred}]
  /\ made \in 0 .. MaxTmids
  /\ session \in Cred \cup {NoCred}
  /\ call \in Calls \cup {Idle}
  /\ nfs \in BOOLEAN /\ enrolled \in BOOLEAN /\ cut \in BOOLEAN
  /\ crashes \in 0 .. MaxCrashes /\ refusals \in 0 .. MaxRefusals

Init ==
  /\ mids = [m \in MidNames |-> NoTmid]
  /\ midWrites = [m \in MidNames |-> <<>>]
  /\ tmids = {}
  /\ tmidWrites = [t \in Tmids |-> <<>>]
  /\ sealed = [t \in Tmids |-> NoCred]
  /\ made = 0
  /\ session = NoCred
  /\ nfs = FALSE
  /\ call = Idle
  /\ enrolled = FALSE /\ cut = FALSE
  /\ crashes = 0 /\ refusals = 0

(* No write is in flight: the network has settled. *)
Drained ==
  /\ \A m \in MidNames : midWrites[m] = <<>>
  /\ \A t \in Tmids : tmidWrites[t] = <<>>

(* A log in with credential c, made now, would decrypt a session. *)
Opens(c) ==
  LET t == mids[MidName(c)]
  IN  t \in tmids /\ sealed[t] = c

-----------------------------------------------------------------------------
(* Calls of the user.  LifeStuffImpl runs them one at a time.              *)

Start(op, step, c) ==
  /\ call = Idle
  /\ op \in Patient => Drained
  /\ call' = [op |-> op, step |-> step, cred |-> c, tmid |-> NoTmid]

(* Everything CreateUser does before PutSession (joining, the vault, the   *)
(* drive) is summarised by client_nfs_ being set.                          *)
CreateUser(c) ==
  /\ Start("CreateUser", "PutTmid", c)
  /\ ~ enrolled /\ made < MaxTmids
  /\ nfs' = TRUE
  /\ UNCHANGED <<packets, account, session, history>>

LogIn(c) ==
  /\ Start("LogIn", "GetMid", c)
  /\ nfs' = TRUE
  /\ UNCHANGED <<packets, account, session, history>>

Change(op, c) ==
  /\ session # NoCred /\ nfs
  /\ made < MaxTmids
  /\ Start(op, "PutTmid", c)
  /\ UNCHANGED <<packets, account, session, nfs, history>>

ChangeKeyword(k) ==
  /\ session # NoCred
  /\ Unchanged \/ k # session.keyword
  /\ Change("ChangeKeyword", [session EXCEPT !.keyword = k])

ChangePin(p) ==
  /\ session # NoCred
  /\ Unchanged \/ p # session.pin
  /\ Change("ChangePin", [session EXCEPT !.pin = p])

ChangePassword(w) ==
  /\ session # NoCred
  /\ Change("ChangePassword", [session EXCEPT !.password = w])

(* client_nfs_ is dereferenced without a test.  After a log in that failed *)
(* it is null while session_ still has a credential: the process dies.     *)
ChangeWithoutNfs ==
  /\ call = Idle /\ session # NoCred /\ ~ nfs
  /\ session' = NoCred
  /\ UNCHANGED <<packets, account, nfs, call, history>>

-----------------------------------------------------------------------------
(* The steps of a call.                                                    *)

At(step) == call.op # "none" /\ call.step = step
GoTo(step, t) == call' = [call EXCEPT !.step = step, !.tmid = t]

(* PutSession: a TMID that nobody has used, sealed with the new credential. *)
PutTmid ==
  LET t == made + 1 IN
  /\ At("PutTmid")
  /\ made' = t
  /\ sealed' = [sealed EXCEPT ![t] = call.cred]
  /\ tmidWrites' = [tmidWrites EXCEPT ![t] = Append(@, TRUE)]
  /\ GoTo("PutMid", t)
  /\ UNCHANGED <<mids, midWrites, tmids, enrolled, session, nfs, history>>

(* MUTANT: the MID is put under the name of the credential being left.     *)
PutMid_OldName ==
  LET m == MidName(IF session = NoCred THEN call.cred ELSE session) IN
  /\ At("PutMid")
  /\ midWrites' = [midWrites EXCEPT ![m] = Append(@, call.tmid)]
  /\ enrolled' = TRUE
  /\ GoTo(IF call.op \in Renames THEN "GetMid" ELSE "Return", NoTmid)
  /\ UNCHANGED <<mids, tmids, tmidWrites, sealed, made, session, nfs, history>>

(* MUTANT: ChangeKeyword and ChangePin leave out DeleteSession.            *)
PutMid_NoDelete ==
  LET m == MidName(call.cred) IN
  /\ At("PutMid")
  /\ midWrites' = [midWrites EXCEPT ![m] = Append(@, call.tmid)]
  /\ enrolled' = TRUE
  /\ GoTo("Return", NoTmid)
  /\ UNCHANGED <<mids, tmids, tmidWrites, sealed, made, session, nfs, history>>

PutMid ==
  LET m == MidName(call.cred) IN
  /\ At("PutMid")
  /\ midWrites' = [midWrites EXCEPT ![m] = Append(@, call.tmid)]
  /\ enrolled' = TRUE
  /\ GoTo(IF call.op \in Renames THEN "GetMid" ELSE "Return", NoTmid)
  /\ UNCHANGED <<mids, tmids, tmidWrites, sealed, made, session, nfs, history>>

(* The name looked up: what the user typed in GetSession, the credential   *)
(* being left in DeleteSession.                                            *)
LookUpName == MidName(IF call.op = "LogIn" THEN call.cred ELSE session)

GetMid ==
  /\ At("GetMid")
  /\ mids[LookUpName] # NoTmid
  /\ GoTo(IF call.op = "LogIn" THEN "GetTmid" ELSE "DeleteTmid", mids[LookUpName])
  /\ UNCHANGED <<packets, account, session, nfs, history>>

(* MUTANT: the TMID just put is deleted, not the one the old MID names.    *)
DeleteTmid_New ==
  /\ At("DeleteTmid")
  /\ tmidWrites' = [tmidWrites EXCEPT ![made] = Append(@, FALSE)]
  /\ GoTo("DeleteMid", NoTmid)
  /\ UNCHANGED <<mids, midWrites, tmids, account, session, nfs, history>>

DeleteTmid ==
  /\ At("DeleteTmid")
  /\ tmidWrites' = [tmidWrites EXCEPT ![call.tmid] = Append(@, FALSE)]
  /\ GoTo("DeleteMid", NoTmid)
  /\ UNCHANGED <<mids, midWrites, tmids, account, session, nfs, history>>

(* MUTANT: old and new keyword swapped in the call of DeleteSession.       *)
DeleteMid_New ==
  LET m == MidName(call.cred) IN
  /\ At("DeleteMid")
  /\ midWrites' = [midWrites EXCEPT ![m] = Append(@, NoTmid)]
  /\ GoTo("Return", NoTmid)
  /\ UNCHANGED <<mids, tmids, tmidWrites, account, session, nfs, history>>

DeleteMid ==
  LET m == MidName(session) IN
  /\ At("DeleteMid")
  /\ midWrites' = [midWrites EXCEPT ![m] = Append(@, NoTmid)]
  /\ GoTo("Return", NoTmid)
  /\ UNCHANGED <<mids, tmids, tmidWrites, account, session, nfs, history>>

(* MUTANT: LogIn puts the MID it has read once more, to keep it alive.     *)
GetTmid_Refreshes ==
  LET m == MidName(call.cred) IN
  /\ At("GetTmid")
  /\ call.tmid \in tmids /\ sealed[call.tmid] = call.cred
  /\ midWrites' = [midWrites EXCEPT ![m] = Append(@, call.tmid)]
  /\ GoTo("Return", NoTmid)
  /\ UNCHANGED <<mids, tmids, tmidWrites, account, session, nfs, history>>

(* GetSession reads the TMID and decrypts it with what the user typed.     *)
GetTmid ==
  /\ At("GetTmid")
  /\ call.tmid \in tmids /\ sealed[call.tmid] = call.cred
  /\ GoTo("Return", NoTmid)
  /\ UNCHANGED <<packets, account, session, nfs, history>>

(* MUTANT: set_keyword_pin_password is called with keyword and pin swapped. *)
Return_Swapped ==
  /\ At("Return")
  /\ session' = [keyword |-> call.cred.pin, pin |-> call.cred.keyword,
                 password |-> call.cred.password]
  /\ call' = Idle
  /\ UNCHANGED <<packets, account, nfs, history>>

(* MUTANT: ChangePassword does not record the new password in session_.    *)
Return_ForgetsPassword ==
  /\ At("Return")
  /\ session' = IF call.op = "ChangePassword" THEN session ELSE call.cred
  /\ call' = Idle
  /\ UNCHANGED <<packets, account, nfs, history>>

(* Only now does LifeStuffImpl record the credential in session_.          *)
Return ==
  /\ At("Return")
  /\ session' = call.cred
  /\ call' = Idle
  /\ UNCHANGED <<packets, account, nfs, history>>

(* The old credential may still work when a rename stops after its puts.   *)
StopsRename ==
  call.op \in Renames /\ call.step \in {"GetMid", "DeleteTmid", "DeleteMid"}

(* An exception leaves the call.  CreateUser and LogIn catch it, reset     *)
(* client_nfs_ and rethrow; the changes of credentials clean up nothing.   *)
Throw ==
  /\ call' = Idle
  /\ nfs' = (nfs /\ call.op \in Changes)
  /\ cut' = (cut \/ StopsRename)
  /\ UNCHANGED <<packets, account, session, crashes, refusals>>

MidMissing == At("GetMid") /\ mids[LookUpName] = NoTmid /\ Throw

TmidUnreadable ==
  /\ At("GetTmid")
  /\ ~ (call.tmid \in tmids /\ sealed[call.tmid] = call.cred)
  /\ Throw

(* After its packets are put, only LogIn has more network calls to make.   *)
CallThrows ==
  /\ Trouble /\ call # Idle
  /\ At("Return") => call.op = "LogIn"
  /\ Throw

(* The process dies.  The writes it has issued are already with the network. *)
Crash ==
  /\ crashes < MaxCrashes
  /\ session # NoCred \/ call # Idle
  /\ session' = NoCred /\ nfs' = FALSE /\ call' = Idle
  /\ crashes' = crashes + 1
  /\ cut' = (cut \/ StopsRename)
  /\ UNCHANGED <<packets, account, refusals>>

-----------------------------------------------------------------------------
(* The network (the NFS client and the vaults, outside this repository).   *)

InTurn(i) == Ordered => i = 1

(* The i-th write in flight to a name takes effect.                         *)
LandMid(m, i) ==
  /\ mids' = [mids EXCEPT ![m] = midWrites[m][i]]
  /\ midWrites' = [midWrites EXCEPT ![m] = RemoveAt(@, i)]
  /\ UNCHANGED <<tmids, tmidWrites, account, client, history>>

LandTmid(t, i) ==
  /\ tmids' = IF tmidWrites[t][i] THEN tmids \cup {t} ELSE tmids \ {t}
  /\ tmidWrites' = [tmidWrites EXCEPT ![t] = RemoveAt(@, i)]
  /\ UNCHANGED <<mids, midWrites, account, client, history>>

(* The reply says failure: ThrowError in the callback, which the call that *)
(* issued the write never learns of.                                       *)
DropMid(m, i) ==
  /\ refusals < MaxRefusals
  /\ refusals' = refusals + 1
  /\ midWrites' = [midWrites EXCEPT ![m] = RemoveAt(@, i)]
  /\ UNCHANGED <<mids, tmids, tmidWrites, account, client, cut, crashes>>

DropTmid(t, i) ==
  /\ refusals < MaxRefusals
  /\ refusals' = refusals + 1
  /\ tmidWrites' = [tmidWrites EXCEPT ![t] = RemoveAt(@, i)]
  /\ UNCHANGED <<mids, midWrites, tmids, account, client, cut, crashes>>

ApplyMid(m)   == \E i \in 1 .. Len(midWrites[m]) : InTurn(i) /\ LandMid(m, i)
ApplyTmid(t)  == \E i \in 1 .. Len(tmidWrites[t]) : InTurn(i) /\ LandTmid(t, i)
RefuseMid(m)  == \E i \in 1 .. Len(midWrites[m]) : DropMid(m, i)
RefuseTmid(t) == \E i \in 1 .. Len(tmidWrites[t]) : DropTmid(t, i)

-----------------------------------------------------------------------------
ClientStep ==
  \/ PutTmid \/ PutMid \/ GetMid \/ DeleteTmid \/ DeleteMid \/ GetTmid
  \/ Return \/ MidMissing \/ TmidUnreadable

UserCall ==
  \/ \E c \in Cred : CreateUser(c) \/ LogIn(c)
  \/ \E k \in Keywords : ChangeKeyword(k)
  \/ \E p \in Pins : ChangePin(p)
  \/ \E w \in Passwords : ChangePassword(w)
  \/ ChangeWithoutNfs

NetworkStep ==
  \/ \E m \in MidNames : ApplyMid(m) \/ RefuseMid(m)
  \/ \E t \in Tmids : ApplyTmid(t) \/ RefuseTmid(t)

Next == UserCall \/ ClientStep \/ CallThrows \/ Crash \/ NetworkStep

Spec == Init /\ [][Next]_vars

(* A call runs on by itself, and the network answers: it applies what it   *)
(* has been asked for one name, whatever happens to the other names.       *)
Fairness ==
  /\ WF_vars(ClientStep)
  /\ \A m \in MidNames : WF_vars(ApplyMid(m))
  /\ \A t \in Tmids : WF_vars(ApplyTmid(t))

FairSpec == Spec /\ Fairness

-----------------------------------------------------------------------------
(* Properties.                                                             *)

(* Every MID, stored or on its way, leads to a TMID sealed with the keyword *)
(* and pin that name the MID: DecryptTmidName and DecryptSession are never  *)
(* given the wrong packet, and a DeleteSession deletes no other account     *)
(* name's TMID.                                                             *)
MidsLeadHome ==
  \A m \in MidNames : \A i \in 0 .. Len(midWrites[m]) :
    LET t == IF i = 0 THEN mids[m] ELSE midWrites[m][i]
    IN  t # NoTmid => t <= made /\ MidName(sealed[t]) = m

(* Once the account exists and the writes have taken effect, some credential *)
(* opens it: neither crashes nor exceptions between the puts and deletes of  *)
(* ChangeKeyword and ChangePin lock the user out.                            *)
Reachable == enrolled /\ Drained => \E c \in Cred : Opens(c)

(* When the writes have taken effect, the credential the running client    *)
(* believes in opens the account.                                          *)
SessionOpens == call = Idle /\ session # NoCred /\ Drained => Opens(session)

(* ... and it is the only one, unless a rename was cut short: ChangeKeyword, *)
(* ChangePin and ChangePassword revoke what they replace.                    *)
OldCredentialsRevoked ==
  call = Idle /\ session # NoCred /\ Drained /\ ~ cut
    => {c \in Cred : Opens(c)} = {session}

(* A name never leads back to an older session than it led to before: a     *)
(* write that is late, lost or refused cannot restore replaced credentials. *)
NoRollback ==
  [][\A m \in MidNames : mids[m] # NoTmid /\ mids'[m] # NoTmid
       => mids[m] <= mids'[m]]_mids

(* A client that stays idle is eventually right about its credential.      *)
SessionSettles ==
  \A c \in Cred :
    (call = Idle /\ session = c) ~> (Opens(c) \/ call # Idle \/ session # c)

(* The credentials that will open the account once the writes in flight    *)
(* have taken effect.                                                      *)
MidEnd(m) ==
  IF midWrites[m] = <<>> THEN mids[m] ELSE Last(midWrites[m])

TmidEnd(t) ==
  IF tmidWrites[t] = <<>> THEN t \in tmids ELSE Last(tmidWrites[t])

WillOpen(c) ==
  LET t == MidEnd(MidName(c))
  IN  t # NoTmid /\ TmidEnd(t) /\ sealed[t] = c

(* With writes to one name in order, no refusals and no change to the same  *)
(* name, packets and messages implement the account book: in particular the *)
(* calls never withdraw the last credential.                                *)
Book == INSTANCE AccountBook WITH valid <- {c \in Cred : WillOpen(c)}
BookSpec == Book!Spec
=============================================================================
