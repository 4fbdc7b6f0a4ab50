----------------------- MODULE ClientLifecycleProofs -----------------------
(***************************************************************************)
(* What ClientLifecycle guarantees for any number of accounts, crashes and *)
(* failing steps.                                                          *)
(***************************************************************************)
EXTENDS ClientLifecycle, TLAPS

USE LifecycleAssumption

-----------------------------------------------------------------------------
(* The inductive invariant, in parts that name what each step relies on.    *)

Creating == call.op = "CreateUser"
Keyed    == call.step \in {"Mount", "UnMount", "PutSession", "Return", "Unregister"}
            \/ (call.op = "LogIn" /\ call.step \in {"Join", "NewNfs", "StartVault"})
Bound    == call.step \in {"StartVault", "RegisterPmid", "ConfirmFobs", "Mount",
                           "UnMount", "PutSession", "Return", "Unregister"}
Rooted   == call.step \in {"UnMount", "PutSession", "Return"}
            \/ (call.op = "LogIn" /\ call.step \in {"Join", "NewNfs", "StartVault"})

(* The account under creation is new until its session is stored.           *)
NewAccount ==
  /\ \A a \in Accounts : stored[a] # Absent => a \in pmids
  /\ pmids \subseteq made
  /\ cred # None => keys # None /\ stored[cred] # Absent
  /\ Keyed => keys # None
  /\ Creating /\ call.step # "Return" => stored[call.acct] = Absent
  /\ call.step = "Return" => stored[call.acct] # Absent
  /\ call.op = "LogIn" /\ Keyed => stored[call.acct] # Absent
  /\ Creating /\ call.step \in {"ConfirmFobs", "Mount", "UnMount", "PutSession", "Unregister"}
       => call.acct \in pmids

(* No PMID is left to be registered but by the call that is in progress.    *)
Registrations ==
  /\ \A a \in pmids \ strays : stored[a] = Absent => Creating /\ a = call.acct
  /\ Creating /\ call.step \in {"CreateFobs", "Join", "NewNfs", "StartVault",
                                "RegisterPmid", "CleanUp"}
       => call.acct \notin pmids \ strays
  /\ Creating /\ call.step = "CreateFobs" => call.acct \notin made
  /\ Creating /\ call.step \in {"Join", "NewNfs", "StartVault", "RegisterPmid"}
       => call.acct \in made \ pmids

(* A call that was not begun over a mounted drive has one only from its own *)
(* mount to its own unmount.                                                *)
OwnDrive ==
  /\ call.mounted => call.step \in {"Unregister", "CleanUp"}
  /\ call # Idle /\ ~ call.over /\ drive # "none"
       => call.step = "UnMount" \/ call.mounted

(* Whose keys and whose connection there are, call by call.                 *)
Steady == cred # None /\ nfs # None
            => keys = cred /\ nfs = [who |-> cred, live |-> TRUE]

Identity ==
  "torn" \notin mishaps =>
    /\ \A a \in Accounts : stored[a].keys \in {a, None}
    /\ call = Idle \/ Untouched => Steady
    /\ Keyed => keys = call.acct
    /\ Bound => nfs = [who |-> call.acct, live |-> TRUE]

(* Whose root directory session_ holds.                                     *)
RootOf(a) == root \in {a, None}

OwnRoot ==
  mishaps = {} =>
    /\ \A a \in Accounts : stored[a].root \in {a, None}
    /\ (call = Idle \/ Untouched) /\ cred # None /\ nfs # None => RootOf(cred)
    /\ Rooted => RootOf(call.acct)

IInv == TypeOK /\ NewAccount /\ Registrations /\ OwnDrive /\ Identity /\ OwnRoot


(* The fields of a call, by what it is a call of.                           *)
LEMMA CallKinds ==
  ASSUME TypeOK
  PROVE  /\ call.op = "CreateUser" => call \in CreateCalls
         /\ call.op = "LogIn" => call \in LogInCalls
         /\ call = Idle <=> call.op = "none"
         /\ call = Idle => call.step = "idle" /\ ~ call.mounted
         /\ call # Idle => /\ call.step \in CreateSteps \cup UndoSteps \cup LogInSteps \cup {"Return"}
                           /\ call.acct \in Accounts
                           /\ call.mounted \in BOOLEAN /\ call.over \in BOOLEAN
PROOF
<1> USE DEF Idle
<1>1. CASE call \in CreateCalls
  BY <1>1 DEF CreateCalls
<1>2. CASE call \in LogInCalls
  BY <1>2 DEF LogInCalls
<1>3. CASE call = Idle
  BY <1>3
<1> QED
  BY <1>1, <1>2, <1>3 DEF TypeOK

(* Between calls. *)
LEMMA IdleFields == Idle.op = "none" /\ Idle.step = "idle" /\ Idle.mounted = FALSE
PROOF
  BY DEF Idle

(* What is stored is a session, if there are keys.                          *)
LEMMA SerialiseFacts ==
  /\ Serialise.keys = keys /\ Serialise.root = root
  /\ keys # None => Serialise # Absent
PROOF
  BY DEF Serialise, Absent

(* A call that goes on keeps everything but its step.                       *)
LEMMA GoToFacts ==
  ASSUME TypeOK, call # Idle, NEW s, GoTo(s)
  PROVE  /\ call'.op = call.op /\ call'.step = s /\ call'.acct = call.acct
         /\ call'.mounted = call.mounted /\ call'.over = call.over
         /\ call' # Idle
         /\ call.op = "CreateUser" /\ s \in CreateSteps \cup UndoSteps \cup {"Return"}
              => call' \in CreateCalls
         /\ call.op = "LogIn" /\ s \in LogInSteps \cup {"Return"} => call' \in LogInCalls
PROOF
<1>1. CASE call \in CreateCalls
  BY <1>1 DEF GoTo, CreateCalls, Idle
<1>2. CASE call \in LogInCalls
  BY <1>2 DEF GoTo, LogInCalls, Idle
<1> QED
  BY <1>1, <1>2 DEF TypeOK

(* So does a CreateUser that throws, but for drive_mounted.                 *)
LEMMA ThrowFacts ==
  ASSUME TypeOK, CreateThrows
  PROVE  /\ call # Idle /\ call' # Idle /\ call' \in CreateCalls
         /\ call'.op = "CreateUser" /\ call'.acct = call.acct /\ call'.over = call.over
         /\ call'.mounted <=> call.step = "UnMount"
         /\ call'.step = IF call.step \in {"Mount", "UnMount", "PutSession"}
                         THEN "Unregister" ELSE "CleanUp"
PROOF
<1>1. call \in CreateCalls
  BY CallKinds DEF CreateThrows
<1>2. PICK s \in UndoSteps, m \in BOOLEAN :
        /\ call' = [call EXCEPT !.step = s, !.mounted = m]
        /\ s = IF call.step \in {"Mount", "UnMount", "PutSession"}
               THEN "Unregister" ELSE "CleanUp"
        /\ m <=> call.step = "UnMount"
  BY Zenon DEF CreateThrows, UndoSteps
<1>3. call' \in CreateCalls /\ call'.op = "CreateUser"
  BY <1>1, <1>2 DEF CreateCalls
<1>4. call'.step = s /\ call'.acct = call.acct /\ call'.mounted = m /\ call'.over = call.over
  BY <1>1, <1>2 DEF CreateCalls
<1>5. call # Idle /\ call' # Idle
  BY <1>1, <1>3 DEF CreateCalls, Idle
<1> QED
  BY <1>2, <1>3, <1>4, <1>5

(* Every step is type correct. *)
LEMMA TypeKept ==
  ASSUME TypeOK, NewAccount, [Next]_vars
  PROVE  TypeOK'
PROOF
<1> USE CallKinds, GoToFacts, ThrowFacts, IdleFields DEF session, process, world, history, At, CreateSteps, UndoSteps, LogInSteps,
    TypeOK, NewAccount, Absent, Keyed
<1>1. ASSUME NEW a \in Accounts, CreateUser(a) PROVE TypeOK'
  BY <1>1 DEF CreateUser, Start, CreateCalls
<1>2. ASSUME NEW a \in Accounts, LogIn(a) PROVE TypeOK'
  BY <1>2 DEF LogIn, Start, LogInCalls
<1>3. CASE CreateFobs
  BY <1>3 DEF CreateFobs
<1>4. CASE JoinNetwork("CreateUser", "Join", "NewNfs")
  BY <1>4 DEF JoinNetwork, ReplaceRouting, Orphan
<1>5. CASE ConnectNfs("CreateUser", "NewNfs", call.acct, "StartVault")
  BY <1>5 DEF ConnectNfs, NewNfs, Orphan
<1>6. CASE StartVault("CreateUser", "RegisterPmid")
  BY <1>6 DEF StartVault
<1>7. CASE RegisterPmid
  BY <1>7 DEF RegisterPmid
<1>8. CASE ConfirmFobs
  BY <1>8 DEF ConfirmFobs
<1>9. CASE TryMount
  BY <1>9 DEF TryMount, Mount
<1>10. CASE TryUnMount
  BY <1>10 DEF TryUnMount, UnMount
<1>11. CASE PutSession
  BY <1>11 DEF PutSession, Serialise
<1>12. CASE CreateThrows
  BY <1>12 DEF CreateThrows, Stray, CreateCalls
<1>13. CASE Unregister
  BY <1>13 DEF Unregister
<1>14. CASE UnregisterThrows
  BY <1>14 DEF UnregisterThrows, Stray, Tear
<1>15. CASE CleanUp
  BY <1>15 DEF CleanUp, UnMount, Orphan
<1>16. CASE JoinNetwork("LogIn", "JoinAnon", "NewAnonNfs")
  BY <1>16 DEF JoinNetwork, ReplaceRouting, Orphan
<1>17. CASE ConnectNfs("LogIn", "NewAnonNfs", Anon, "GetSession")
  BY <1>17 DEF ConnectNfs, NewNfs, Orphan
<1>18. CASE GetSession
  BY <1>18 DEF GetSession
<1>19. CASE JoinNetwork("LogIn", "Join", "NewNfs")
  BY <1>19 DEF JoinNetwork, ReplaceRouting, Orphan
<1>20. CASE ConnectNfs("LogIn", "NewNfs", keys, "StartVault")
  BY <1>20 DEF ConnectNfs, NewNfs, Orphan
<1>21. CASE StartVault("LogIn", "Return")
  BY <1>21 DEF StartVault
<1>22. CASE LogInThrows
  BY <1>22 DEF LogInThrows, DropNfs, Orphan
<1>23. CASE Return
  BY <1>23 DEF Return
<1>24. CASE CallEscapes
  BY <1>24 DEF CallEscapes, Stray, Tear, Untouched
<1>25. CASE LogOut
  BY <1>25 DEF LogOut, UnMount
<1>26. CASE MountDrive
  BY <1>26 DEF MountDrive, Mount
<1>27. CASE ChangeCredentials
  BY <1>27 DEF ChangeCredentials, Serialise
<1>28. CASE Quit
  BY <1>28 DEF Quit, ProcessEnds
<1>29. CASE NullPointer
  BY <1>29 DEF NullPointer, ProcessEnds
<1>30. CASE Crash
  <2>1. crashes' \in 0 .. MaxCrashes
    BY <1>30 DEF Crash
  <2>2. strays' \subseteq Accounts
    BY <1>30 DEF Crash, Stray
  <2> QED
    BY <1>30, <2>1, <2>2 DEF Crash, ProcessEnds
<1>31. CASE UNCHANGED vars
  BY <1>31 DEF vars, process
<1> QED
  BY <1>1, <1>2, <1>3, <1>4, <1>5, <1>6, <1>7, <1>8, <1>9, <1>10, <1>11, <1>12, <1>13, <1>14, <1>15, <1>16, <1>17, <1>18, <1>19, <1>20, <1>21, <1>22, <1>23, <1>24, <1>25, <1>26, <1>27, <1>28, <1>29, <1>30, <1>31
  DEF Next, CreateStep, LogInStep

(* Until its session is stored, nothing knows of the account under creation. *)
LEMMA NewAccountKept ==
  ASSUME TypeOK, NewAccount, Registrations, TypeOK', [Next]_vars
  PROVE  NewAccount'
PROOF
<1> USE CallKinds, GoToFacts, ThrowFacts, IdleFields DEF session, process, world, history, At, CreateSteps, UndoSteps, LogInSteps,
    NewAccount, Registrations, Creating, Keyed, TypeOK
<1>1. ASSUME NEW a \in Accounts, CreateUser(a) PROVE NewAccount'
  BY <1>1 DEF CreateUser, Start, CreateCalls
<1>2. ASSUME NEW a \in Accounts, LogIn(a) PROVE NewAccount'
  BY <1>2 DEF LogIn, Start, LogInCalls
<1>3. CASE CreateFobs
  BY <1>3 DEF CreateFobs
<1>4. CASE JoinNetwork("CreateUser", "Join", "NewNfs")
  BY <1>4 DEF JoinNetwork, ReplaceRouting, Orphan
<1>5. CASE ConnectNfs("CreateUser", "NewNfs", call.acct, "StartVault")
  BY <1>5 DEF ConnectNfs, NewNfs, Orphan
<1>6. CASE StartVault("CreateUser", "RegisterPmid")
  BY <1>6 DEF StartVault
<1>7. CASE RegisterPmid
  BY <1>7 DEF RegisterPmid
<1>8. CASE ConfirmFobs
  BY <1>8 DEF ConfirmFobs
<1>9. CASE TryMount
  BY <1>9 DEF TryMount, Mount
<1>10. CASE TryUnMount
  BY <1>10 DEF TryUnMount, UnMount
<1>11. CASE PutSession
  BY <1>11, SerialiseFacts DEF PutSession
<1>12. CASE CreateThrows
  BY <1>12 DEF CreateThrows, Stray, CreateCalls
<1>13. CASE Unregister
  BY <1>13 DEF Unregister
<1>14. CASE UnregisterThrows
  BY <1>14 DEF UnregisterThrows, Stray, Tear
<1>15. CASE CleanUp
  BY <1>15 DEF CleanUp, UnMount, Orphan
<1>16. CASE JoinNetwork("LogIn", "JoinAnon", "NewAnonNfs")
  BY <1>16 DEF JoinNetwork, ReplaceRouting, Orphan
<1>17. CASE ConnectNfs("LogIn", "NewAnonNfs", Anon, "GetSession")
  BY <1>17 DEF ConnectNfs, NewNfs, Orphan
<1>18. CASE GetSession
  BY <1>18 DEF GetSession
<1>19. CASE JoinNetwork("LogIn", "Join", "NewNfs")
  BY <1>19 DEF JoinNetwork, ReplaceRouting, Orphan
<1>20. CASE ConnectNfs("LogIn", "NewNfs", keys, "StartVault")
  BY <1>20 DEF ConnectNfs, NewNfs, Orphan
<1>21. CASE StartVault("LogIn", "Return")
  BY <1>21 DEF StartVault
<1>22. CASE LogInThrows
  BY <1>22 DEF LogInThrows, DropNfs, Orphan
<1>23. CASE Return
  BY <1>23 DEF Return
<1>24. CASE CallEscapes
  BY <1>24 DEF CallEscapes, Stray, Tear, Untouched
<1>25. CASE LogOut
  BY <1>25 DEF LogOut, UnMount
<1>26. CASE MountDrive
  BY <1>26 DEF MountDrive, Mount
<1>27. CASE ChangeCredentials
  BY <1>27, SerialiseFacts DEF ChangeCredentials
<1>28. CASE Quit
  BY <1>28 DEF Quit, ProcessEnds
<1>29. CASE NullPointer
  BY <1>29 DEF NullPointer, ProcessEnds
<1>30. CASE Crash
  BY <1>30 DEF Crash, ProcessEnds, Stray
<1>31. CASE UNCHANGED vars
  BY <1>31 DEF vars, process
<1> QED
  BY <1>1, <1>2, <1>3, <1>4, <1>5, <1>6, <1>7, <1>8, <1>9, <1>10, <1>11, <1>12, <1>13, <1>14, <1>15, <1>16, <1>17, <1>18, <1>19, <1>20, <1>21, <1>22, <1>23, <1>24, <1>25, <1>26, <1>27, <1>28, <1>29, <1>30, <1>31
  DEF Next, CreateStep, LogInStep

(* Who leaves a PMID to be registered without a session is in strays.       *)
LEMMA RegistrationsKept ==
  ASSUME TypeOK, NewAccount, Registrations, NewAccount', [Next]_vars
  PROVE  Registrations'
PROOF
<1> USE CallKinds, GoToFacts, ThrowFacts, IdleFields DEF session, process, world, history, At, CreateSteps, UndoSteps, LogInSteps,
    NewAccount, Registrations, Creating, Keyed, TypeOK
<1>1. ASSUME NEW a \in Accounts, CreateUser(a) PROVE Registrations'
  BY <1>1 DEF CreateUser, Start, CreateCalls
<1>2. ASSUME NEW a \in Accounts, LogIn(a) PROVE Registrations'
  BY <1>2 DEF LogIn, Start, LogInCalls
<1>3. CASE CreateFobs
  BY <1>3 DEF CreateFobs
<1>4. CASE JoinNetwork("CreateUser", "Join", "NewNfs")
  BY <1>4 DEF JoinNetwork, ReplaceRouting, Orphan
<1>5. CASE ConnectNfs("CreateUser", "NewNfs", call.acct, "StartVault")
  BY <1>5 DEF ConnectNfs, NewNfs, Orphan
<1>6. CASE StartVault("CreateUser", "RegisterPmid")
  BY <1>6 DEF StartVault
<1>7. CASE RegisterPmid
  BY <1>7 DEF RegisterPmid
<1>8. CASE ConfirmFobs
  BY <1>8 DEF ConfirmFobs
<1>9. CASE TryMount
  BY <1>9 DEF TryMount, Mount
<1>10. CASE TryUnMount
  BY <1>10 DEF TryUnMount, UnMount
<1>11. CASE PutSession
  BY <1>11 DEF PutSession, Serialise
<1>12. CASE CreateThrows
  BY <1>12 DEF CreateThrows, Stray, CreateCalls
<1>13. CASE Unregister
  BY <1>13 DEF Unregister
<1>14. CASE UnregisterThrows
  BY <1>14 DEF UnregisterThrows, Stray, Tear
<1>15. CASE CleanUp
  BY <1>15 DEF CleanUp, UnMount, Orphan
<1>16. CASE JoinNetwork("LogIn", "JoinAnon", "NewAnonNfs")
  BY <1>16 DEF JoinNetwork, ReplaceRouting, Orphan
<1>17. CASE ConnectNfs("LogIn", "NewAnonNfs", Anon, "GetSession")
  BY <1>17 DEF ConnectNfs, NewNfs, Orphan
<1>18. CASE GetSession
  BY <1>18 DEF GetSession
<1>19. CASE JoinNetwork("LogIn", "Join", "NewNfs")
  BY <1>19 DEF JoinNetwork, ReplaceRouting, Orphan
<1>20. CASE ConnectNfs("LogIn", "NewNfs", keys, "StartVault")
  BY <1>20 DEF ConnectNfs, NewNfs, Orphan
<1>21. CASE StartVault("LogIn", "Return")
  BY <1>21 DEF StartVault
<1>22. CASE LogInThrows
  BY <1>22 DEF LogInThrows, DropNfs, Orphan
<1>23. CASE Return
  BY <1>23 DEF Return
<1>24. CASE CallEscapes
  BY <1>24 DEF CallEscapes, Stray, Tear, Untouched
<1>25. CASE LogOut
  BY <1>25 DEF LogOut, UnMount
<1>26. CASE MountDrive
  BY <1>26 DEF MountDrive, Mount
<1>27. CASE ChangeCredentials
  BY <1>27 DEF ChangeCredentials, Serialise
<1>28. CASE Quit
  BY <1>28 DEF Quit, ProcessEnds
<1>29. CASE NullPointer
  BY <1>29 DEF NullPointer, ProcessEnds
<1>30. CASE Crash
  BY <1>30 DEF Crash, ProcessEnds, Stray
<1>31. CASE UNCHANGED vars
  BY <1>31 DEF vars, process
<1> QED
  BY <1>1, <1>2, <1>3, <1>4, <1>5, <1>6, <1>7, <1>8, <1>9, <1>10, <1>11, <1>12, <1>13, <1>14, <1>15, <1>16, <1>17, <1>18, <1>19, <1>20, <1>21, <1>22, <1>23, <1>24, <1>25, <1>26, <1>27, <1>28, <1>29, <1>30, <1>31
  DEF Next, CreateStep, LogInStep

(* A call has a drive of its own only while it is verifying it.             *)
LEMMA OwnDriveKept ==
  ASSUME TypeOK, OwnDrive, [Next]_vars
  PROVE  OwnDrive'
PROOF
<1> USE CallKinds, GoToFacts, ThrowFacts, IdleFields DEF session, process, world, history, At, CreateSteps, UndoSteps, LogInSteps,
    OwnDrive, TypeOK
<1>1. ASSUME NEW a \in Accounts, CreateUser(a) PROVE OwnDrive'
  BY <1>1 DEF CreateUser, Start, CreateCalls
<1>2. ASSUME NEW a \in Accounts, LogIn(a) PROVE OwnDrive'
  BY <1>2 DEF LogIn, Start, LogInCalls
<1>3. CASE CreateFobs
  BY <1>3 DEF CreateFobs
<1>4. CASE JoinNetwork("CreateUser", "Join", "NewNfs")
  BY <1>4 DEF JoinNetwork, ReplaceRouting, Orphan
<1>5. CASE ConnectNfs("CreateUser", "NewNfs", call.acct, "StartVault")
  BY <1>5 DEF ConnectNfs, NewNfs, Orphan
<1>6. CASE StartVault("CreateUser", "RegisterPmid")
  BY <1>6 DEF StartVault
<1>7. CASE RegisterPmid
  BY <1>7 DEF RegisterPmid
<1>8. CASE ConfirmFobs
  BY <1>8 DEF ConfirmFobs
<1>9. CASE TryMount
  BY <1>9 DEF TryMount, Mount
<1>10. CASE TryUnMount
  BY <1>10 DEF TryUnMount, UnMount
<1>11. CASE PutSession
  BY <1>11 DEF PutSession, Serialise
<1>12. CASE CreateThrows
  BY <1>12 DEF CreateThrows, Stray, CreateCalls
<1>13. CASE Unregister
  BY <1>13 DEF Unregister
<1>14. CASE UnregisterThrows
  BY <1>14 DEF UnregisterThrows, Stray, Tear
<1>15. CASE CleanUp
  BY <1>15 DEF CleanUp, UnMount, Orphan
<1>16. CASE JoinNetwork("LogIn", "JoinAnon", "NewAnonNfs")
  BY <1>16 DEF JoinNetwork, ReplaceRouting, Orphan
<1>17. CASE ConnectNfs("LogIn", "NewAnonNfs", Anon, "GetSession")
  BY <1>17 DEF ConnectNfs, NewNfs, Orphan
<1>18. CASE GetSession
  BY <1>18 DEF GetSession
<1>19. CASE JoinNetwork("LogIn", "Join", "NewNfs")
  BY <1>19 DEF JoinNetwork, ReplaceRouting, Orphan
<1>20. CASE ConnectNfs("LogIn", "NewNfs", keys, "StartVault")
  BY <1>20 DEF ConnectNfs, NewNfs, Orphan
<1>21. CASE StartVault("LogIn", "Return")
  BY <1>21 DEF StartVault
<1>22. CASE LogInThrows
  BY <1>22 DEF LogInThrows, DropNfs, Orphan
<1>23. CASE Return
  BY <1>23 DEF Return
<1>24. CASE CallEscapes
  BY <1>24 DEF CallEscapes, Stray, Tear, Untouched
<1>25. CASE LogOut
  BY <1>25 DEF LogOut, UnMount
<1>26. CASE MountDrive
  BY <1>26 DEF MountDrive, Mount
<1>27. CASE ChangeCredentials
  BY <1>27 DEF ChangeCredentials, Serialise
<1>28. CASE Quit
  BY <1>28 DEF Quit, ProcessEnds
<1>29. CASE NullPointer
  BY <1>29 DEF NullPointer, ProcessEnds
<1>30. CASE Crash
  BY <1>30 DEF Crash, ProcessEnds, Stray
<1>31. CASE UNCHANGED vars
  BY <1>31 DEF vars, process
<1> QED
  BY <1>1, <1>2, <1>3, <1>4, <1>5, <1>6, <1>7, <1>8, <1>9, <1>10, <1>11, <1>12, <1>13, <1>14, <1>15, <1>16, <1>17, <1>18, <1>19, <1>20, <1>21, <1>22, <1>23, <1>24, <1>25, <1>26, <1>27, <1>28, <1>29, <1>30, <1>31
  DEF Next, CreateStep, LogInStep

(* Keys and connection follow the account that the call is about.           *)
LEMMA IdentityKept ==
  ASSUME TypeOK, TypeOK', NewAccount, Identity, [Next]_vars
  PROVE  Identity'
PROOF
<1> USE CallKinds, GoToFacts, ThrowFacts, IdleFields DEF session, process, world, history, At, CreateSteps, UndoSteps, LogInSteps,
    Identity, Steady, Keyed, Bound, Untouched, NewAccount, TypeOK, Absent
<1>1. ASSUME NEW a \in Accounts, CreateUser(a) PROVE Identity'
  BY <1>1 DEF CreateUser, Start, CreateCalls
<1>2. ASSUME NEW a \in Accounts, LogIn(a) PROVE Identity'
  BY <1>2 DEF LogIn, Start, LogInCalls
<1>3. CASE CreateFobs
  BY <1>3 DEF CreateFobs
<1>4. CASE JoinNetwork("CreateUser", "Join", "NewNfs")
  BY <1>4 DEF JoinNetwork, ReplaceRouting, Orphan
<1>5. CASE ConnectNfs("CreateUser", "NewNfs", call.acct, "StartVault")
  <2>1. call'.step = "StartVault" /\ call'.op = "CreateUser" /\ call'.acct = call.acct
        /\ call' # Idle /\ call.op = call'.op /\ call.step = "NewNfs"
    BY <1>5 DEF ConnectNfs
  <2>2. "torn" \notin mishaps => nfs' = [who |-> call.acct, live |-> TRUE]
    BY <1>5, Zenon DEF ConnectNfs, NewNfs, Identity, Keyed, At
  <2>3. UNCHANGED <<stored, mishaps, keys, cred>>
    BY <1>5 DEF ConnectNfs
  <2> QED
    BY <2>1, <2>2, <2>3 DEF Identity, Keyed, Bound, Untouched, At
<1>6. CASE StartVault("CreateUser", "RegisterPmid")
  BY <1>6 DEF StartVault
<1>7. CASE RegisterPmid
  BY <1>7 DEF RegisterPmid
<1>8. CASE ConfirmFobs
  BY <1>8 DEF ConfirmFobs
<1>9. CASE TryMount
  BY <1>9 DEF TryMount, Mount
<1>10. CASE TryUnMount
  BY <1>10 DEF TryUnMount, UnMount
<1>11. CASE PutSession
  BY <1>11 DEF PutSession, Serialise
<1>12. CASE CreateThrows
  BY <1>12 DEF CreateThrows, Stray, CreateCalls
<1>13. CASE Unregister
  BY <1>13 DEF Unregister
<1>14. CASE UnregisterThrows
  BY <1>14 DEF UnregisterThrows, Stray, Tear
<1>15. CASE CleanUp
  BY <1>15 DEF CleanUp, UnMount, Orphan
<1>16. CASE JoinNetwork("LogIn", "JoinAnon", "NewAnonNfs")
  BY <1>16 DEF JoinNetwork, ReplaceRouting, Orphan
<1>17. CASE ConnectNfs("LogIn", "NewAnonNfs", Anon, "GetSession")
  BY <1>17 DEF ConnectNfs, NewNfs, Orphan
<1>18. CASE GetSession
  BY <1>18 DEF GetSession
<1>19. CASE JoinNetwork("LogIn", "Join", "NewNfs")
  BY <1>19 DEF JoinNetwork, ReplaceRouting, Orphan
<1>20. CASE ConnectNfs("LogIn", "NewNfs", keys, "StartVault")
  <2>1. call'.step = "StartVault" /\ call'.op = "LogIn" /\ call'.acct = call.acct
        /\ call' # Idle /\ call.op = call'.op /\ call.step = "NewNfs"
    BY <1>20 DEF ConnectNfs
  <2>2. "torn" \notin mishaps => nfs' = [who |-> call.acct, live |-> TRUE]
    BY <1>20, Zenon DEF ConnectNfs, NewNfs, Identity, Keyed, At
  <2>3. UNCHANGED <<stored, mishaps, keys, cred>>
    BY <1>20 DEF ConnectNfs
  <2> QED
    BY <2>1, <2>2, <2>3 DEF Identity, Keyed, Bound, Untouched, At
<1>21. CASE StartVault("LogIn", "Return")
  BY <1>21 DEF StartVault
<1>22. CASE LogInThrows
  BY <1>22 DEF LogInThrows, DropNfs, Orphan
<1>23. CASE Return
  BY <1>23 DEF Return
<1>24. CASE CallEscapes
  BY <1>24 DEF CallEscapes, Stray, Tear, Untouched
<1>25. CASE LogOut
  BY <1>25 DEF LogOut, UnMount
<1>26. CASE MountDrive
  BY <1>26 DEF MountDrive, Mount
<1>27. CASE ChangeCredentials
  BY <1>27 DEF ChangeCredentials, Serialise
<1>28. CASE Quit
  BY <1>28 DEF Quit, ProcessEnds
<1>29. CASE NullPointer
  BY <1>29 DEF NullPointer, ProcessEnds
<1>30. CASE Crash
  BY <1>30 DEF Crash, ProcessEnds, Stray
<1>31. CASE UNCHANGED vars
  BY <1>31 DEF vars, process
<1> QED
  BY <1>1, <1>2, <1>3, <1>4, <1>5, <1>6, <1>7, <1>8, <1>9, <1>10, <1>11, <1>12, <1>13, <1>14, <1>15, <1>16, <1>17, <1>18, <1>19, <1>20, <1>21, <1>22, <1>23, <1>24, <1>25, <1>26, <1>27, <1>28, <1>29, <1>30, <1>31
  DEF Next, CreateStep, LogInStep

(* So does the root directory.                                              *)
LEMMA OwnRootKept ==
  ASSUME TypeOK, TypeOK', NewAccount, Identity, OwnRoot, [Next]_vars
  PROVE  OwnRoot'
PROOF
<1> USE CallKinds, GoToFacts, ThrowFacts, IdleFields DEF session, process, world, history, At, CreateSteps, UndoSteps, LogInSteps,
    OwnRoot, Identity, Steady, RootOf, Rooted, Keyed, Bound, Untouched, NewAccount, TypeOK, Absent
<1>1. ASSUME NEW a \in Accounts, CreateUser(a) PROVE OwnRoot'
  BY <1>1 DEF CreateUser, Start, CreateCalls
<1>2. ASSUME NEW a \in Accounts, LogIn(a) PROVE OwnRoot'
  BY <1>2 DEF LogIn, Start, LogInCalls
<1>3. CASE CreateFobs
  BY <1>3 DEF CreateFobs
<1>4. CASE JoinNetwork("CreateUser", "Join", "NewNfs")
  BY <1>4 DEF JoinNetwork, ReplaceRouting, Orphan
<1>5. CASE ConnectNfs("CreateUser", "NewNfs", call.acct, "StartVault")
  BY <1>5 DEF ConnectNfs, NewNfs, Orphan
<1>6. CASE StartVault("CreateUser", "RegisterPmid")
  BY <1>6 DEF StartVault
<1>7. CASE RegisterPmid
  BY <1>7 DEF RegisterPmid
<1>8. CASE ConfirmFobs
  BY <1>8 DEF ConfirmFobs
<1>9. CASE TryMount
  BY <1>9 DEF TryMount, Mount
<1>10. CASE TryUnMount
  BY <1>10 DEF TryUnMount, UnMount
<1>11. CASE PutSession
  BY <1>11 DEF PutSession, Serialise
<1>12. CASE CreateThrows
  BY <1>12 DEF CreateThrows, Stray, CreateCalls
<1>13. CASE Unregister
  BY <1>13 DEF Unregister
<1>14. CASE UnregisterThrows
  BY <1>14 DEF UnregisterThrows, Stray, Tear
<1>15. CASE CleanUp
  BY <1>15 DEF CleanUp, UnMount, Orphan
<1>16. CASE JoinNetwork("LogIn", "JoinAnon", "NewAnonNfs")
  BY <1>16 DEF JoinNetwork, ReplaceRouting, Orphan
<1>17. CASE ConnectNfs("LogIn", "NewAnonNfs", Anon, "GetSession")
  BY <1>17 DEF ConnectNfs, NewNfs, Orphan
<1>18. CASE GetSession
  BY <1>18 DEF GetSession
<1>19. CASE JoinNetwork("LogIn", "Join", "NewNfs")
  BY <1>19 DEF JoinNetwork, ReplaceRouting, Orphan
<1>20. CASE ConnectNfs("LogIn", "NewNfs", keys, "StartVault")
  BY <1>20 DEF ConnectNfs, NewNfs, Orphan
<1>21. CASE StartVault("LogIn", "Return")
  BY <1>21 DEF StartVault
<1>22. CASE LogInThrows
  BY <1>22 DEF LogInThrows, DropNfs, Orphan
<1>23. CASE Return
  BY <1>23 DEF Return
<1>24. CASE CallEscapes
  BY <1>24 DEF CallEscapes, Stray, Tear, Untouched
<1>25. CASE LogOut
  BY <1>25 DEF LogOut, UnMount
<1>26. CASE MountDrive
  BY <1>26 DEF MountDrive, Mount
<1>27. CASE ChangeCredentials
  BY <1>27 DEF ChangeCredentials, Serialise
<1>28. CASE Quit
  BY <1>28 DEF Quit, ProcessEnds
<1>29. CASE NullPointer
  BY <1>29 DEF NullPointer, ProcessEnds
<1>30. CASE Crash
  BY <1>30 DEF Crash, ProcessEnds, Stray
<1>31. CASE UNCHANGED vars
  BY <1>31 DEF vars, process
<1> QED
  BY <1>1, <1>2, <1>3, <1>4, <1>5, <1>6, <1>7, <1>8, <1>9, <1>10, <1>11, <1>12, <1>13, <1>14, <1>15, <1>16, <1>17, <1>18, <1>19, <1>20, <1>21, <1>22, <1>23, <1>24, <1>25, <1>26, <1>27, <1>28, <1>29, <1>30, <1>31
  DEF Next, CreateStep, LogInStep


-----------------------------------------------------------------------------
(* The initial state, every step, and what follows.                         *)

(* The invariant holds at first.                                          *)
LEMMA InitInv == Init => IInv
PROOF
<1>1. Init => TypeOK
  <2>1. 0 \in 0 .. MaxCrashes
    OBVIOUS
  <2> QED
    BY <2>1 DEF Init, TypeOK
<1> USE DEF Init, Idle
<1>2. Init => NewAccount /\ Registrations
  BY DEF NewAccount, Registrations, Creating, Keyed
<1>3. Init => OwnDrive
  BY DEF OwnDrive
<1>4. Init => Identity /\ OwnRoot
  BY DEF Identity, OwnRoot, Steady, Keyed, Bound, Rooted, Untouched, At, Absent
<1> QED
  BY <1>1, <1>2, <1>3, <1>4 DEF IInv

(* And every step keeps it.                                               *)
THEOREM Invariance == Spec => []IInv
PROOF
<1>1. IInv /\ [Next]_vars => IInv'
  <2> SUFFICES ASSUME IInv, [Next]_vars PROVE IInv'
    OBVIOUS
  <2>1. TypeOK'
    BY TypeKept DEF IInv
  <2>2. NewAccount'
    BY <2>1, NewAccountKept DEF IInv
  <2> QED
    BY <2>1, <2>2, RegistrationsKept, OwnDriveKept, IdentityKept, OwnRootKept DEF IInv
<1> QED
  BY <1>1, InitInv, PTL DEF Spec

(* Type correctness, for any set of accounts.                               *)
THEOREM TypeCorrect == Spec => []TypeOK
PROOF
<1>1. IInv => TypeOK
  BY DEF IInv
<1> QED
  BY <1>1, Invariance, PTL

(* Whatever fails, no account is overwritten with the keys of another: a    *)
(* credential and a connection are those of one account, unless a call was  *)
(* left without clean-up while somebody was logged in.                      *)
THEOREM NeverMixed == Spec => [](OwnKeysStored /\ OneIdentity)
PROOF
<1>1. IInv => OwnKeysStored /\ OneIdentity
  BY DEF IInv, Identity, OwnKeysStored, OneIdentity, Steady
<1> QED
  BY <1>1, Invariance, PTL

(* Nor does an account get the root directory of another, unless an account *)
(* was created in a process that had one already, or a call was left        *)
(* without clean-up while somebody was logged in.                           *)
THEOREM RootsKeptApart == Spec => []OwnRootStored
PROOF
<1>1. IInv => OwnRootStored
  BY DEF IInv, OwnRoot, OwnRootStored
<1> QED
  BY <1>1, Invariance, PTL

(* The network has last been asked to register the PMID of everyone who can *)
(* log in, and, between calls, of nobody else but those whose CreateUser    *)
(* could not ask to undo it.                                                *)
THEOREM PmidsAccounted == Spec => []PmidsAskedFor
PROOF
<1>1. IInv => PmidsAskedFor
  BY IdleFields DEF IInv, TypeOK, NewAccount, Registrations, Creating, PmidsAskedFor
<1> QED
  BY <1>1, Invariance, PTL

(* CreateUser and LogIn leave no drive over what they have destroyed, but   *)
(* one that was mounted before or that UnMountDrive failed to unmount.      *)
THEOREM DrivesUnmounted == Spec => DriveNotOrphaned
PROOF
<1> DEFINE Step == call # Idle /\ drive = "live" /\ drive' = "dead" => call.over \/ call.mounted
<1>1. IInv /\ [Next]_vars => [Step]_vars
  <2> SUFFICES ASSUME IInv, [Next]_vars, call # Idle, drive = "live", drive' = "dead",
                      ~ call.over, ~ call.mounted
               PROVE  FALSE
    BY CallKinds DEF IInv
  <2>1. call.step = "UnMount"
    BY DEF IInv, OwnDrive
  <2> USE <2>1, CallKinds
      DEF IInv, At, CreateSteps, LogInSteps, ReportSteps, session, process
  <2>a1. ASSUME NEW a \in Accounts, CreateUser(a) PROVE FALSE
    BY <2>a1 DEF CreateUser, Start, CreateCalls
  <2>a2. ASSUME NEW a \in Accounts, LogIn(a) PROVE FALSE
    BY <2>a2 DEF LogIn, Start, LogInCalls
  <2>a3. CASE CreateFobs
    BY <2>a3 DEF CreateFobs
  <2>a4. CASE JoinNetwork("CreateUser", "Join", "NewNfs")
    BY <2>a4 DEF JoinNetwork, ReplaceRouting, Orphan
  <2>a5. CASE ConnectNfs("CreateUser", "NewNfs", call.acct, "StartVault")
    BY <2>a5 DEF ConnectNfs, NewNfs, Orphan
  <2>a6. CASE StartVault("CreateUser", "RegisterPmid")
    BY <2>a6 DEF StartVault
  <2>a7. CASE RegisterPmid
    BY <2>a7 DEF RegisterPmid
  <2>a8. CASE ConfirmFobs
    BY <2>a8 DEF ConfirmFobs
  <2>a9. CASE TryMount
    BY <2>a9 DEF TryMount, Mount
  <2>a10. CASE TryUnMount
    BY <2>a10 DEF TryUnMount, UnMount
  <2>a11. CASE PutSession
    BY <2>a11 DEF PutSession, Serialise
  <2>a12. CASE CreateThrows
    BY <2>a12 DEF CreateThrows, Stray, CreateCalls
  <2>a13. CASE Unregister
    BY <2>a13 DEF Unregister
  <2>a14. CASE UnregisterThrows
    BY <2>a14 DEF UnregisterThrows, Stray, Tear
  <2>a15. CASE CleanUp
    BY <2>a15 DEF CleanUp, UnMount, Orphan
  <2>a16. CASE JoinNetwork("LogIn", "JoinAnon", "NewAnonNfs")
    BY <2>a16 DEF JoinNetwork, ReplaceRouting, Orphan
  <2>a17. CASE ConnectNfs("LogIn", "NewAnonNfs", Anon, "GetSession")
    BY <2>a17 DEF ConnectNfs, NewNfs, Orphan
  <2>a18. CASE GetSession
    BY <2>a18 DEF GetSession
  <2>a19. CASE JoinNetwork("LogIn", "Join", "NewNfs")
    BY <2>a19 DEF JoinNetwork, ReplaceRouting, Orphan
  <2>a20. CASE ConnectNfs("LogIn", "NewNfs", keys, "StartVault")
    BY <2>a20 DEF ConnectNfs, NewNfs, Orphan
  <2>a21. CASE StartVault("LogIn", "Return")
    BY <2>a21 DEF StartVault
  <2>a22. CASE LogInThrows
    BY <2>a22 DEF LogInThrows, DropNfs, Orphan
  <2>a23. CASE Return
    BY <2>a23 DEF Return
  <2>a24. CASE CallEscapes
    BY <2>a24 DEF CallEscapes, Stray, Tear, Untouched
  <2>a25. CASE LogOut
    BY <2>a25 DEF LogOut, UnMount
  <2>a26. CASE MountDrive
    BY <2>a26 DEF MountDrive, Mount
  <2>a27. CASE ChangeCredentials
    BY <2>a27 DEF ChangeCredentials, Serialise
  <2>a28. CASE Quit
    BY <2>a28 DEF Quit, ProcessEnds
  <2>a29. CASE NullPointer
    BY <2>a29 DEF NullPointer, ProcessEnds
  <2>a30. CASE Crash
    BY <2>a30 DEF Crash, ProcessEnds, Stray
  <2>a31. CASE UNCHANGED vars
    BY <2>a31 DEF vars, process
  <2> QED
    BY <2>a1, <2>a2, <2>a3, <2>a4, <2>a5, <2>a6, <2>a7, <2>a8, <2>a9, <2>a10, <2>a11, <2>a12, <2>a13, <2>a14, <2>a15, <2>a16, <2>a17, <2>a18, <2>a19, <2>a20, <2>a21, <2>a22, <2>a23, <2>a24, <2>a25, <2>a26, <2>a27, <2>a28, <2>a29, <2>a30, <2>a31
    DEF Next, CreateStep, LogInStep
<1> QED
  BY <1>1, Invariance, PTL DEF Spec, DriveNotOrphaned
=============================================================================
