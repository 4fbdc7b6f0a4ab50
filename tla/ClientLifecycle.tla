-------------------------- MODULE ClientLifecycle --------------------------
(***************************************************************************)
(* One client process from its first CreateUser or LogIn to its end:       *)
(* LifeStuffImpl (src/src/maidsafe/lifestuff/lifestuff_impl.cc) and the    *)
(* members that ClientMaid (src/src/maidsafe/lifestuff/detail/             *)
(* client_maid.cc) creates and replaces: routing_handler_, client_nfs_,    *)
(* the mounted drive, the vault.                                           *)
(*                                                                         *)
(* CreateUser and LogIn are sequences of steps, any of which may throw.    *)
(* What they have done by then is undone by their catch blocks, or not.    *)
(* Nothing stops the user from calling them while already logged in.       *)
(* SessionStore models what PutSession and GetSession do in detail; here   *)
(* an account has one credential and its stored session matters only for   *)
(* whose keys it holds.                                                    *)
(***************************************************************************)
EXTENDS Integers

CONSTANTS
  Accounts,      \* each attempt to create a user makes one
  None, Anon,    \* no account; the maid that LogIn invents to join the network
  MaxCrashes     \* bound: 0 or 1 deaths of the process from outside

CreateSteps == {"CreateFobs", "Join", "NewNfs", "StartVault", "RegisterPmid",
                "ConfirmFobs", "Mount", "UnMount", "PutSession"}
UndoSteps   == {"Unregister", "CleanUp"}
LogInSteps  == {"JoinAnon", "NewAnonNfs", "GetSession", "Join", "NewNfs", "StartVault"}

(* Each begins with report_progress, a callback of the application.        *)
ReportSteps == {"CreateFobs", "Join", "NewNfs", "StartVault", "ConfirmFobs",
                "PutSession", "JoinAnon", "NewAnonNfs", "GetSession"}

ASSUME LifecycleAssumption ==
  /\ None \notin Accounts /\ Anon \notin Accounts /\ Anon # None
  /\ MaxCrashes \in {0, 1}

VARIABLES
  loggedIn,    \* logged_in_
  cred,        \* the account whose keyword, pin and password session_ has
  keys,        \* the account whose confirmed keys and user id session_ has
  root,        \* the account for which session_.root_parent_id was made up
  nfs,         \* client_nfs_: whom it signs for, and whether its routing still exists
  drive,       \* "none", or mounted over a client_nfs_ that is "live" or "dead"
  vaults,      \* accounts whose vault the controller has started
  pmids,       \* accounts whose PMID the network has been asked to register, and
               \* not to unregister since: nobody waits for it to do either
  stored,      \* account -> whose keys and root the session stored for it holds
  made,        \* accounts that CreateFobs has made keys for
  call,        \* the call in progress
  mishaps,     \* history: "torn", a call was left without clean-up while another
               \* account was logged in; "reused", an account was created with the
               \* root that an earlier account had left in session_
  strays,      \* history: accounts whose CreateUser skipped UnregisterPmid
  crashes

session == <<loggedIn, cred, keys, root>>
process == <<session, nfs, drive>>
world   == <<vaults, pmids, stored, made>>
history == <<mishaps, strays, crashes>>
vars    == <<process, world, call, history>>

Idle   == [op |-> "none", step |-> "idle", acct |-> None,
           mounted |-> FALSE, over |-> FALSE]
Absent == [keys |-> None, root |-> None]

CreateCalls ==
  [op : {"CreateUser"}, step : CreateSteps \cup UndoSteps \cup {"Return"},
   acct : Accounts, mounted : BOOLEAN, over : BOOLEAN]
LogInCalls ==
  [op : {"LogIn"}, step : LogInSteps \cup {"Return"},
   acct : Accounts, mounted : BOOLEAN, over : BOOLEAN]

TypeOK ==
  /\ loggedIn \in BOOLEAN
  /\ cred \in Accounts \cup {None} /\ keys \in Accounts \cup {None}
  /\ root \in Accounts \cup {None}
  /\ nfs \in [who : Accounts \cup {Anon}, live : BOOLEAN] \cup {None}
  /\ drive \in {"none", "live", "dead"}
  /\ vaults \subseteq Accounts /\ pmids \subseteq Accounts /\ made \subseteq Accounts
  /\ stored \in [Accounts -> [keys : Accounts, root : Accounts \cup {None}] \cup {Absent}]
  /\ call \in CreateCalls \cup LogInCalls \cup {Idle}
  /\ mishaps \subseteq {"torn", "reused"} /\ strays \subseteq Accounts
  /\ crashes \in 0 .. MaxCrashes

Init ==
  /\ loggedIn = FALSE
  /\ cred = None /\ keys = None /\ root = None /\ nfs = None
  /\ drive = "none"
  /\ vaults = {} /\ pmids = {} /\ made = {}
  /\ stored = [a \in Accounts |-> Absent]
  /\ call = Idle
  /\ mishaps = {} /\ strays = {} /\ crashes = 0

-----------------------------------------------------------------------------
(* The members of ClientMaid, and who else refers to them.                 *)

Orphan(d) == IF d = "live" THEN "dead" ELSE d

(* routing_handler_.reset(...): client_nfs_ refers to the old routing.     *)
ReplaceRouting ==
  /\ nfs' = IF nfs = None THEN None ELSE [nfs EXCEPT !.live = FALSE]
  /\ drive' = Orphan(drive)

(* client_nfs_.reset(...): a mounted drive refers to the old client_nfs_.  *)
NewNfs(who) == nfs' = [who |-> who, live |-> TRUE] /\ drive' = Orphan(drive)
DropNfs     == nfs' = None /\ drive' = Orphan(drive)

UnMount == drive' = "none"

(* UserStorage::MountDrive for account a. It returns at once if a drive is *)
(* mounted; it may find no letter, or be the body for other systems than   *)
(* Windows, which does not record the root that the drive makes up.        *)
Mount(a, state) ==
  IF drive # "none" THEN UNCHANGED <<drive, root>>
  ELSE \/ drive' = state /\ root' = (IF root = None THEN a ELSE root)
       \/ drive' \in {state, "none"} /\ UNCHANGED root

At(op, step) == call.op = op /\ call.step = step
GoTo(step)   == call' = [call EXCEPT !.step = step]

(* Nothing keeps the user from calling while logged in or mounted.         *)
Start(op, step, a) ==
  /\ call = Idle
  /\ call' = [op |-> op, step |-> step, acct |-> a,
              mounted |-> FALSE, over |-> drive # "none"]

(* Session::Serialise. *)
Serialise == [keys |-> keys, root |-> root]

(* The call ends, or will end, without a request to unregister its PMID.    *)
Stray == strays' = strays \cup ({call.acct} \cap pmids)

(* It ends without clean-up: bad if session_ has somebody's credential.    *)
Tear == mishaps' = mishaps \cup IF cred = None THEN {} ELSE {"torn"}

(* Neither session_ nor a member of ClientMaid has been touched yet.       *)
Untouched == call.step \in {"CreateFobs", "JoinAnon"} \/ At("CreateUser", "Join")

-----------------------------------------------------------------------------
(* CreateUser. *)

CreateUser(a) ==
  /\ a \notin made
  /\ Start("CreateUser", "CreateFobs", a)
  /\ UNCHANGED <<process, world, history>>

CreateFobs ==
  /\ At("CreateUser", "CreateFobs")
  /\ made' = made \cup {call.acct}
  /\ GoTo("Join")
  /\ UNCHANGED <<process, vaults, pmids, stored, history>>

JoinNetwork(op, from, to) ==
  /\ At(op, from)
  /\ ReplaceRouting
  /\ GoTo(to)
  /\ UNCHANGED <<session, world, history>>

ConnectNfs(op, from, who, to) ==
  /\ At(op, from)
  /\ NewNfs(who)
  /\ GoTo(to)
  /\ UNCHANGED <<session, world, history>>

StartVault(op, to) ==
  /\ At(op, "StartVault")
  /\ vaults' = vaults \cup {call.acct}
  /\ GoTo(to)
  /\ UNCHANGED <<process, pmids, stored, made, history>>

(* The request is sent.  A refusal throws in the callback, which may run     *)
(* when CreateUser has long returned and changes nothing here.              *)
RegisterPmid ==
  /\ At("CreateUser", "RegisterPmid")
  /\ pmids' = pmids \cup {call.acct}
  /\ GoTo("ConfirmFobs")
  /\ UNCHANGED <<process, vaults, stored, made, history>>

(* From here on fobs_confirmed is true. *)
ConfirmFobs ==
  /\ At("CreateUser", "ConfirmFobs")
  /\ keys' = call.acct
  /\ GoTo("Mount")
  /\ UNCHANGED <<loggedIn, cred, root, nfs, drive, world, history>>

(* The account was to get a root directory of its own: MountDrive makes one *)
(* up when session_ has none, and otherwise reuses the one that is there.   *)
TryMount ==
  /\ At("CreateUser", "Mount")
  /\ Mount(call.acct, "live")
  /\ mishaps' = mishaps \cup IF root = None THEN {} ELSE {"reused"}
  /\ GoTo("UnMount")
  /\ UNCHANGED <<loggedIn, cred, keys, nfs, world, strays, crashes>>

TryUnMount ==
  /\ At("CreateUser", "UnMount")
  /\ UnMount
  /\ GoTo("PutSession")
  /\ UNCHANGED <<session, nfs, world, history>>

PutSession ==
  /\ At("CreateUser", "PutSession")
  /\ stored' = [stored EXCEPT ![call.acct] = Serialise]
  /\ GoTo("Return")
  /\ UNCHANGED <<process, vaults, pmids, made, history>>

(* LifeStuffImpl records the credential once ClientMaid has succeeded.     *)
Return ==
  /\ call.step = "Return"
  /\ cred' = call.acct /\ loggedIn' = TRUE
  /\ call' = Idle
  /\ UNCHANGED <<keys, root, nfs, drive, world, history>>

(* MUTANT: the catch block never unregisters.                              *)
CreateThrows_NoUnregister ==
  /\ call.op = "CreateUser" /\ call.step \in CreateSteps
  /\ call' = [call EXCEPT !.step = "CleanUp", !.mounted = (call.step = "UnMount")]
  /\ IF call.step = "ConfirmFobs" THEN Stray ELSE UNCHANGED strays
  /\ UNCHANGED <<process, world, mishaps, crashes>>

(* MUTANT: drive_mounted is set where the drive has been verified, not where *)
(* it has been mounted.                                                    *)
CreateThrows_Unmarked ==
  /\ call.op = "CreateUser" /\ call.step \in CreateSteps
  /\ call' = [call EXCEPT
       !.step = IF call.step \in {"Mount", "UnMount", "PutSession"}
                THEN "Unregister" ELSE "CleanUp",
       !.mounted = (call.step = "PutSession")]
  /\ IF call.step = "ConfirmFobs" THEN Stray ELSE UNCHANGED strays
  /\ UNCHANGED <<process, world, mishaps, crashes>>

(* The catch block calls UnCreateUser(fobs_confirmed, drive_mounted); only *)
(* a throw of UnMountDrive finds drive_mounted true, and one of            *)
(* ConfirmFobs finds RegisterPmid done and fobs_confirmed false.           *)
CreateThrows ==
  /\ call.op = "CreateUser" /\ call.step \in CreateSteps
  /\ call' = [call EXCEPT
       !.step = IF call.step \in {"Mount", "UnMount", "PutSession"}
                THEN "Unregister" ELSE "CleanUp",
       !.mounted = (call.step = "UnMount")]
  /\ IF call.step = "ConfirmFobs" THEN Stray ELSE UNCHANGED strays
  /\ UNCHANGED <<process, world, mishaps, crashes>>

(* The request is sent; its reply is ignored.                              *)
Unregister ==
  /\ At("CreateUser", "Unregister")
  /\ pmids' = pmids \ {call.acct}
  /\ GoTo("CleanUp")
  /\ UNCHANGED <<process, vaults, stored, made, history>>

(* UnregisterPmid throws: the rest of UnCreateUser is skipped.             *)
UnregisterThrows ==
  /\ At("CreateUser", "Unregister")
  /\ call' = Idle
  /\ Stray /\ Tear
  /\ UNCHANGED <<process, world, crashes>>

(* MUTANT: client_nfs_ is not reset.                                       *)
CleanUp_KeepsNfs ==
  /\ At("CreateUser", "CleanUp")
  /\ IF call.mounted THEN UnMount ELSE UNCHANGED drive
  /\ call' = Idle
  /\ UNCHANGED <<session, nfs, world, history>>

(* The drive first, if drive_mounted: when this second attempt to unmount   *)
(* throws as well, the exception is consumed and client_nfs_ reset under    *)
(* the drive. The vault that StartVault has started is left running.        *)
CleanUp ==
  /\ At("CreateUser", "CleanUp")
  /\ nfs' = None
  /\ (call.mounted /\ UnMount) \/ drive' = Orphan(drive)
  /\ call' = Idle
  /\ UNCHANGED <<session, world, history>>

-----------------------------------------------------------------------------
(* LogIn. *)

LogIn(a) ==
  /\ Start("LogIn", "JoinAnon", a)
  /\ UNCHANGED <<process, world, history>>

(* MUTANT: a session that is not there is parsed all the same.             *)
GetSession_Unchecked ==
  /\ At("LogIn", "GetSession")
  /\ keys' = stored[call.acct].keys /\ root' = stored[call.acct].root
  /\ GoTo("Join")
  /\ UNCHANGED <<loggedIn, cred, nfs, drive, world, history>>

(* MUTANT: a session without a root leaves the one there is in place.      *)
GetSession_KeepsRoot ==
  /\ At("LogIn", "GetSession")
  /\ stored[call.acct] # Absent
  /\ keys' = stored[call.acct].keys
  /\ root' = IF stored[call.acct].root = None THEN root ELSE stored[call.acct].root
  /\ GoTo("Join")
  /\ UNCHANGED <<loggedIn, cred, nfs, drive, world, history>>

(* Session::Parse replaces the user id, the root and the passport.         *)
GetSession ==
  /\ At("LogIn", "GetSession")
  /\ stored[call.acct] # Absent
  /\ keys' = stored[call.acct].keys /\ root' = stored[call.acct].root
  /\ GoTo("Join")
  /\ UNCHANGED <<loggedIn, cred, nfs, drive, world, history>>

(* MUTANT: the catch block rethrows without resetting client_nfs_.         *)
LogInThrows_KeepsNfs ==
  /\ call.op = "LogIn" /\ call.step \in LogInSteps
  /\ call' = Idle
  /\ UNCHANGED <<process, world, history>>

(* No such user or wrong password, or a step fails: catch, reset, rethrow. *)
LogInThrows ==
  /\ call.op = "LogIn" /\ call.step \in LogInSteps
  /\ DropNfs
  /\ call' = Idle
  /\ UNCHANGED <<session, world, history>>

-----------------------------------------------------------------------------
(* The other calls, and the end of the process.                            *)

(* What report_progress throws is the application's: an exception that is  *)
(* not a std::exception, as the one of a Python callback, passes both      *)
(* catch blocks and nothing is undone.                                     *)
CallEscapes ==
  /\ call # Idle /\ call.step \in ReportSteps
  /\ call' = Idle
  /\ IF call.op = "CreateUser" THEN Stray ELSE UNCHANGED strays
  /\ IF Untouched THEN UNCHANGED mishaps ELSE Tear
  /\ UNCHANGED <<process, world, crashes>>

(* LogOut only unmounts: StopVault is commented out and logged_in_ kept.   *)
LogOut ==
  /\ call = Idle
  /\ UnMount
  /\ UNCHANGED <<session, nfs, world, call, history>>

MountDrive ==
  /\ call = Idle
  /\ keys # None /\ nfs # None
  /\ Mount(keys, IF nfs.live THEN "live" ELSE "dead")
  /\ UNCHANGED <<loggedIn, cred, keys, nfs, world, call, history>>

(* ChangeKeyword, ChangePin, ChangePassword: the session is serialised     *)
(* with the keys there are and stored for the credential there is.         *)
ChangeCredentials ==
  /\ call = Idle
  /\ cred # None /\ nfs # None
  /\ stored' = [stored EXCEPT ![cred] = Serialise]
  /\ UNCHANGED <<process, vaults, pmids, made, call, history>>

ProcessEnds ==
  /\ loggedIn' = FALSE
  /\ cred' = None /\ keys' = None /\ root' = None /\ nfs' = None
  /\ drive' = "none"
  /\ call' = Idle
  /\ UNCHANGED <<world, mishaps>>

(* The application destroys its LifeStuff object.                          *)
Quit ==
  /\ call = Idle
  /\ ProcessEnds
  /\ UNCHANGED <<strays, crashes>>

(* A pointer that nobody tests is null: *client_nfs_ in MountDrive and in  *)
(* the changes of credentials, *password_ of session_ before any log in.   *)
NullPointer ==
  /\ call = Idle
  /\ cred = None \/ nfs = None
  /\ ProcessEnds
  /\ UNCHANGED <<strays, crashes>>

Crash ==
  /\ crashes < MaxCrashes
  /\ crashes' = crashes + 1
  /\ IF call.op = "CreateUser" THEN Stray ELSE UNCHANGED strays
  /\ ProcessEnds

CreateStep ==
  \/ CreateFobs
  \/ JoinNetwork("CreateUser", "Join", "NewNfs")
  \/ ConnectNfs("CreateUser", "NewNfs", call.acct, "StartVault")
  \/ StartVault("CreateUser", "RegisterPmid")
  \/ RegisterPmid \/ ConfirmFobs \/ TryMount \/ TryUnMount \/ PutSession
  \/ CreateThrows \/ Unregister \/ UnregisterThrows \/ CleanUp

LogInStep ==
  \/ JoinNetwork("LogIn", "JoinAnon", "NewAnonNfs")
  \/ ConnectNfs("LogIn", "NewAnonNfs", Anon, "GetSession")
  \/ GetSession
  \/ JoinNetwork("LogIn", "Join", "NewNfs")
  \/ ConnectNfs("LogIn", "NewNfs", keys, "StartVault")
  \/ StartVault("LogIn", "Return")
  \/ LogInThrows

Next ==
  \/ \E a \in Accounts : CreateUser(a) \/ LogIn(a)
  \/ CreateStep \/ LogInStep \/ Return \/ CallEscapes
  \/ LogOut \/ MountDrive \/ ChangeCredentials
  \/ Quit \/ NullPointer \/ Crash

Spec == Init /\ [][Next]_vars

-----------------------------------------------------------------------------
(* Properties. *)

(* The session stored for an account never holds the keys of another: no    *)
(* mixture of failed calls of CreateUser and LogIn with a change of         *)
(* credentials overwrites one account with the keys of another, unless a    *)
(* call was left without clean-up while somebody was logged in.             *)
OwnKeysStored ==
  "torn" \notin mishaps => \A a \in Accounts : stored[a].keys \in {a, None}

(* Nor the root directory of another, unless an account was created in a    *)
(* process that already had a root, which CreateUser does not forget, or a  *)
(* call was left without clean-up while somebody was logged in: a LogIn     *)
(* that report_progress leaves after GetSession has replaced the root.      *)
OwnRootStored ==
  mishaps = {} => \A a \in Accounts : stored[a].root \in {a, None}

(* Between calls, a client that has a credential and a connection has them  *)
(* for the same account, with that account's keys, over the routing that    *)
(* routing_handler_ now holds, unless a call was left without clean-up      *)
(* while somebody was logged in.  It may have a credential and no           *)
(* connection: a CreateUser or LogIn that fails drops the one there was.    *)
OneIdentity ==
  call = Idle /\ cred # None /\ nfs # None /\ "torn" \notin mishaps
    => keys = cred /\ nfs = [who |-> cred, live |-> TRUE]

(* CreateUser and LogIn leave a drive mounted over a client_nfs_ or a       *)
(* routing that they have destroyed only if it was mounted when they began, *)
(* or if UnMountDrive threw in CreateUser and may throw again in its        *)
(* UnCreateUser: whatever else fails once CreateUser has mounted its drive, *)
(* the drive is gone before client_nfs_ is.                                 *)
DriveNotOrphaned ==
  [][call # Idle /\ drive = "live" /\ drive' = "dead" => call.over \/ call.mounted]_vars

(* A CreateUser that failed has asked the network to undo the registration  *)
(* of its PMID, if it asked for it, unless it died, was escaped from or     *)
(* could not ask, or ConfirmFobs itself threw; and for whoever can log in   *)
(* the last request was to register.  What the network makes of requests    *)
(* that nobody waits for, and that may overtake each other, is another      *)
(* matter.                                                                  *)
PmidsAskedFor ==
  /\ call = Idle => \A a \in pmids \ strays : stored[a] # Absent
  /\ \A a \in Accounts : stored[a] # Absent => a \in pmids

(* What lifestuff_api.h says of LogOut and of logged_in: LogOut "Stops the  *)
(* vault associated with the session", and logged_in() "Returns whether     *)
(* user is logged in or not". The code does neither.                        *)
LogOutEndsSession ==
  [][LogOut /\ cred # None => ~ loggedIn' /\ cred \notin vaults']_vars
=============================================================================
