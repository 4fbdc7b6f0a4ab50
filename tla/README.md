# LifeStuff: a verification development

LifeStuff is the client library through which an application creates, opens and
uses an account on a peer-to-peer network.  A user has a keyword, a pin and a
password; from these the client derives the names and the encryption of the
packets that hold the *session* (keys, root directory, quota), logs in by
finding and decrypting them, and mounts the user's files as a virtual drive.

Paths below are relative to `src/src/maidsafe/lifestuff/` unless they start
with `src/`.

## 1. Inventory

| Component | Source | State it keeps | Operations | Talks to |
|---|---|---|---|---|
| Public API | `src/include/maidsafe/lifestuff/*.h`, `lifestuff_api.cc` | a pointer to `LifeStuffImpl` | forwards every call | `LifeStuffImpl` |
| User input and login state | `lifestuff_impl.cc`, `detail/utils.h` | seven input fields, `logged_in_`, `session_` | Insert/Remove/Clear/ConfirmUserInput, CreateUser, LogIn, LogOut, Change* | `ClientMaid` |
| Session | `detail/session.cc` | passport, user details, keyword/pin/password | setters, `Parse`, `Serialise` | everybody reads it |
| Client | `detail/client_maid.cc` | `routing_handler_`, `client_nfs_`, `user_storage_`, vault controller | CreateUser, LogIn, LogOut, Mount/UnMountDrive, Change*, Put/Get/DeleteSession, JoinNetwork, UnCreateUser, PublicKeyRequest | network (NFS client), vault controller, drive |
| User storage | `detail/user_storage.cc` | `mount_status_`, `mount_path_`, `drive_`, `mount_thread_` | MountDrive, UnMountDrive, mount_path | drive library, session |
| Routing handler | `detail/routing_handler.cc` | routing, an asio service with two threads, network health | Join, callbacks | `ClientMaid::PublicKeyRequest` |
| Key packets | `detail/utils.cc` | none | PutFobs | NFS client |
| Public identities, RCS helper, Python bindings | `detail/client_mpid.cc`, `rcs_helper.cc`, `python_bindings/` | none | empty, commented out, forwarding | |

What is hard about it:

* **Partial failure and crashes.**  A change of keyword or pin is two puts, a
  get and two deletes; a creation is ten steps.  Any of them may throw and the
  process may die between any two.
* **Asynchrony.**  Puts and deletes return at once; their failure throws in a
  callback thread and reaches no caller.  Writes to different names take effect
  in any order.
* **Threads.**  Key requests run on two asio threads that dereference
  `client_nfs_` while the caller's thread replaces it, without a lock.
* **Several devices.**  Nothing coordinates two clients of one account.
* **Legal calls in an unusual order.**  Nothing prevents CreateUser or LogIn
  while logged in, with a drive mounted, or with fields left by a failed call.
* **Two builds.**  Mounting is different code on Windows and elsewhere.

What makes each component correct: the user is never locked out and old
credentials stop working (session storage); identities are never mixed and
clean-ups clean up (client); what was written is found again (user storage);
destroyed objects are not used, and destruction ends (routing handler); the
session changes only for who types its password (user input).
`PROJECT.json` lists the hazards line by line.

## 2. Modules

| Module | Role |
|---|---|
| `AccountBook` | abstract: the set of credentials that open one account, `Store` and `Withdraw` |
| `SessionStore` | the packets, the network and the calls that store, find and delete a session; implements `AccountBook` |
| `TwoDevices` | composition: two instances of `SessionStore`'s client over the same packets |
| `ClientLifecycle` | CreateUser, LogIn, LogOut, their catch blocks, the objects they replace |
| `UserStorage` | the drive, the root directory and the used space |
| `KeyRequests` | routing handlers, their threads and `client_nfs_` |
| `UserInput` | the input fields and the calls that consume them |
| `MCSessionStore`, `MCTwoDevices`, `MCClientLifecycle` | the symmetry sets these are checked with |
| `AccountBookProofs`, `SessionStoreProofs`, `SessionTrustProofs`, `TwoDevicesProofs`, `ClientLifecycleProofs`, `UserStorageProofs`, `KeyRequestsProofs`, `UserInputProofs` | theorems, section 4 |

Definitions named `X_Something` after a comment `MUTANT` are deliberate
mistakes in `X`.  No specification uses them; `PROJECT.json` pairs each with a
property that finds it.

### SessionStore

`mids` and `tmids` are what the network stores, `midWrites` and `tmidWrites`
the writes in flight.  A TMID is a number, given in the order the sessions are
serialised; `sealed` is the credential it is encrypted with.  `call` is the
call being executed and its step: one action per network call of `PutSession`
(`PutTmid`, `PutMid`), `DeleteSession` (`GetMid`, `DeleteTmid`, `DeleteMid`)
and `GetSession` (`GetMid`, `GetTmid`), then `Return`, where `LifeStuffImpl`
records the credential in `session_`.  `MidMissing`, `TmidUnreadable` and
`CallThrows` are the ways to leave a call by exception, `Crash` the end of the
process.  `ApplyMid`, `ApplyTmid`, `RefuseMid` and `RefuseTmid` are the
network, which is outside this repository and modelled from how `nfs::Put`,
`Get` and `Delete` are used.  `enrolled` and `cut` are history.  Everything
CreateUser does before `PutSession` is summarised by `nfs` becoming true.

### TwoDevices

A user's two devices are two processes with a `session_`, a `client_nfs_` and a
call each; the packets, the sealing of TMIDs and the history belong to the
account.  The module instantiates `SessionStore` twice over the shared
variables and lets either device (`Device1`, `Device2`), or the network, take a
step.  Only the first device creates the account, so there is one account.
`midFrom` and `tmidFrom` hold, for each write in flight, the device that issued
it.  `PutFob` and `DeleteFob` return at once and nothing orders the writes of
two clients, so `Ordered` asks of the network only that it keep the order of one
device's own writes to a name (`OwnTurn`); the next write of either device may
take effect next (`ArriveMid`, `ArriveTmid`).  Two history variables record what
can go wrong between devices: `crossed`, a rename has put its packets under a
name that a rename in progress, having put its own elsewhere, is about to
delete; `raced`, both devices had made a session for the same name and neither
had put its MID.  Both are set, too, when writes of both devices to one name
have been in flight at once (`Mixing`): a delete of one device, long returned,
may then remove what the other has put, and an old put may undo a new one.

### ClientLifecycle

One account per attempt to create a user.  `call.step` is the next step of the
`try` block; every step of it may throw.  `CreateThrows` computes
`fobs_confirmed` and `drive_mounted` from the step; `Unregister`,
`UnregisterThrows` and `CleanUp` are `UnCreateUser`, which may fail to unmount
too and then resets `client_nfs_` under the drive (`drive` is `"dead"`, as for
every other drive over what has been destroyed).  `pmids` holds the PMIDs that
the network was last asked to register: `RegisterPmid` and `UnregisterPmid`
send a request and return, a refusal throws in a callback or is ignored, and
neither reaches `ClientMaid`; what the network makes of the requests is left
open.  `CallEscapes` is an exception that is not a
`std::exception`, which only the application's progress callback can throw (the
Python binding does) and which neither catch block takes.  `nfs` says whom
`client_nfs_` signs for and whether the routing it refers to exists, `drive`
whether a drive is mounted and whether what it refers to exists.  `root` is the
root directory in `session_`, which CreateUser does not reset: a second
CreateUser in one process mounts and stores the root of the first.  `Quit` ends
the program in good order, `NullPointer` and `Crash` do not.  The user may call
anything at any time, logged in or not, with a drive mounted or not.

Some of that goes wrong, so history records how: `mishaps` has `"torn"` once a
call ended without clean-up while somebody was logged in and `"reused"` once an
account was created with an earlier account's root; `strays` are the
accounts whose creation skipped `UnregisterPmid`.  Each property names the mishaps
it does not cover, and so states exactly where the code stands.

### UserStorage

The build is a variable that never changes, so one run covers both.  The body
for Windows reads which letters are in use and sets `mount_path_`
(`FindLetter`; `FreeLetter` is the letter at which its loop stops), and later
makes the drive and records its root (`MountWindows`), or its constructor throws
(`MountThrows`); other drives come and go in between as at any time.  The other
body starts a thread that may fail to mount.  `files` is what the network keeps
under each root.  `rooted`, `stale` and `failed` are history: whether CreateUser
did mount, whether the last log in read an outdated `used_space`, and whether a
mount has failed in this process.  `Terminates` is the assignment over a
joinable `mount_thread_`; `ProcessEnds` may happen at any time and stands for
crashes and for the null `data_store_` of the non-Windows body.

### KeyRequests

`step` is the caller's thread, split where another thread can see the
difference: constructing a handler, storing the pointer, `asio_service_.Stop()`
waiting for the threads, the destruction of routing, joining, replacing
`client_nfs_`.  `Quit` is `~ClientMaid`, which destroys its members in reverse
order: `client_nfs_` goes first and is `Dangling` while the handler's threads
still run.  A request is `tested`, then reads the pointer (`using`), then
calls `Get` and waits.  `Throws` is an exception that the catch blocks take,
`CleanUp` what they do; `Escapes` is one of the application's `report_progress`
that they do not, which leaves everything as it is and the caller idle.  Between
JoinNetwork and the new `client_nfs_` it leaves the old one over routing that
has been destroyed: `escaped` remembers that until `client_nfs_` is set or
reset.  Using an object that is gone is undefined behaviour; the
model records it in `faults`, with the place where the caller was, and goes on.

### UserInput

A field is absent or has a text and is finalised or not.  `Edited` stands for
insert, remove and clear; the secure string class is outside this repository
and modelled from its use.  `Fail` is a CreateUser or LogIn that throws: its
fields stay, finalised, and `client_nfs_` is reset or, after a clean-up that was
cut short or skipped, is not.  `NullPointer` is every place where an absent field,
a null `client_nfs_` or the password of an empty session is dereferenced.

## 3. Runs

`tlc -config <run>.cfg <module>`; all runs with deadlock checking off, because
bounds are reached and because a user may simply stop.

| Run | Module | Shows | Bounds |
|---|---|---|---|
| `store_changes` | MCSessionStore | `TypeOK`, `MidsLeadHome`, `Reachable`, `BookSpec` | 2 keywords, 2 pins, 1 password, 3 sessions, 1 crash, exceptions anywhere |
| `store_settled` | MCSessionStore | `SessionOpens`, `OldCredentialsRevoked`, `SessionSettles` | 2 keywords, 1 pin, 2 passwords, 3 sessions, 1 crash, fairness |
| `store_lossy` | MCSessionStore | `MidsLeadHome`, `NoRollback` | 2 keywords, 1 pin, 1 password, 3 sessions, 1 crash, 1 refusal, exceptions, changes to the same value |
| `store_unchanged` | MCSessionStore | **violates** `Reachable` | changes to the same value, nothing else goes wrong |
| `store_refused` | MCSessionStore | **violates** `SessionOpens` | 1 refusal, nothing else goes wrong |
| `two_devices` | MCTwoDevices | `TypeOK`, `MidsLeadHome`, `LostOnlyByCrossing`, `NoRollback` | 2 devices, 2 keywords, 1 pin, 1 password, 3 sessions between them; up to where they have both `crossed` and `raced` |
| `lifecycle` | MCClientLifecycle | `TypeOK`, `OwnKeysStored`, `OwnRootStored`, `OneIdentity`, `DriveNotOrphaned`, `PmidsAskedFor` | 3 accounts, 1 crash, every step may throw |
| `lifecycle_logout` | MCClientLifecycle | **violates** `LogOutEndsSession` | 2 accounts, 1 crash |
| `storage` | UserStorage | `TypeOK`, `FilesFound`, `UsedSpaceCounted`, `DiesAfterFailureOnly` | 3 letters, 3 roots, 3 files per root, any number of crashes |
| `storage_path` | UserStorage | **violates** `PathEmptyOnceUnmounted` | 2 letters, 2 roots, 2 files |
| `keys` | KeyRequests | `TypeOK`, `StoppedWhenDestroyed`, `DeadRoutingWindow`, `StaleNfsWindow`, `LostAnswersBlamed`, `IdleNfsLive`, `StopEnds` | 2 threads, 3 handlers, 2 queued requests each, fairness |
| `input` | UserInput | `TypeOK`, `CurrentPasswordAsked`, `PasswordTypedTwice` | keyword and password, 2 texts |

Why the bounds are enough.  Three sessions are a creation and two changes, so a
change can meet the writes of the one before it, or of the other device, and a
user can go from one name to another and back, which is where stale reads and
late deletes do harm.
Two values per field distinguish the old from the new; a third adds nothing a
call can compare.  Three accounts are one in use, one whose creation fails and
one to log in to.  Three handlers are the two of a log in and the one of the
next call, which has to wait for requests of the log in.  Three letters let the
search skip some and run out; three roots are the account's own, one made up by
a process that crashed before it was stored and one after.  The pin in
`UserInput` behaves as the keyword.  `two_devices` does not
follow the devices beyond the point where `crossed` and `raced` are both true
(`Undisturbed`): two of its properties say nothing of what comes after, and
`MidsLeadHome` is a theorem.  Where there is a theorem (section 4) the bounds do
not matter.

`Patient = {"LogIn"}` in `store_settled` and `store_refused`: the user logs in
only once the writes of earlier calls have settled.  A log in that overtakes
them can take an older credential into the session and be right for a moment;
`SessionOpens` is about what remains.  Symmetry (permutations of keywords, pins,
passwords, accounts) is used in `store_changes`, `store_lossy`, `two_devices`
and `lifecycle`, which check no liveness.

What the runs say about the code:

* Crashes and exceptions between the puts and the deletes never lock the user
  out, because the new pair is put before the old pair is looked up (the order
  matters: the mutant `DeleteMid_New` breaks it).  This needs writes to one
  name to take effect in the order they were issued, none refused, and a new
  value different from the old (`WellBehaved` in the proofs).
* Without the last condition the account is lost (`store_unchanged`); without
  the second, the session can hold a credential that opens nothing
  (`store_refused`).  What survives refusals is that packets never lead to a
  foreign or an older session (`store_lossy`).
* When `DeleteFob` throws between the two deletes, the client keeps the old
  credential and only the new one works, so `store_settled` excludes
  exceptions; `store_changes` shows that one credential still works.
* Two devices that change the credentials at the same time can lose the account:
  one renames from a to b while the other, which still believes in b, has put
  its packets under another name and is about to delete b.  They can also lose
  it when neither call is running any more: the delete of one and the put of the
  other are in flight to one name, and nothing orders them.  `LostOnlyByCrossing`
  shows that there is no third way, however stale what a device believes, and
  `NoRollback` that a device sets the account back only if both were storing a
  session under one name, or had writes to it in flight, at once.
* Keys and credentials of accounts are never mixed, unless a call was left
  without clean-up while somebody was logged in.  Roots are mixed by a second
  CreateUser in one process, which stores the first account's root for the
  second account, and by a call left without clean-up: a LogIn that
  `report_progress` leaves after GetSession, while somebody is logged in, has
  replaced the root that the next change of credentials stores.
  `OwnRootStored` says that there is no third way.
* CreateUser and LogIn do not unmount a drive that was mounted before them: it
  goes on using a `client_nfs_` that they destroy.  `DriveNotOrphaned` shows that
  a drive they mount themselves meets this only when `UnMountDrive` throws in
  CreateUser and again in `UnCreateUser`.
* `PmidsAskedFor` is about what is asked, in which order, and not about what the
  network does: whether a PMID is registered no caller can know.
* `FilesFound` and `UsedSpaceCounted` hold on Windows for an account whose
  creation found a letter; the body for other systems records no root at all.
  After a mount that failed there, which no caller is told of, the next one ends
  the process; `DiesAfterFailureOnly` says that no other sequence of mounts and
  unmounts does.
* `DeadRoutingWindow` says where the missing lock bites: every log in, between
  the destruction of the first handler and the second `client_nfs_`.  A request
  caught there may wait for ever, and the next JoinNetwork with it, which is the
  exception in `StopEnds`.  A call that `report_progress` leaves in that window
  leaves it open while the caller is idle, until `client_nfs_` is next set or
  reset (`DeadRoutingWindow` and `IdleNfsLive` name this case and no other).
  `StaleNfsWindow` says the same of a `client_nfs_`
  that is reset or replaced under a request: it is used only until the next
  JoinNetwork, or `~ClientMaid`, has waited for the handler's threads, and at
  every step up to then.  `LostAnswersBlamed` adds that nothing else makes a
  request wait in vain, so the exception in `StopEnds` is one of these two
  windows and no other.  `dead service` faults are recorded as well and occur.

**Fairness.**  `SessionStore`: weak fairness of the client's own steps (a call
runs on, every get returns or throws) and, per name, of the network applying
what it was asked; no fairness of user calls, crashes or refusals.
`KeyRequests`: weak fairness of the caller's thread and of each asio thread,
that is, of the operating system's scheduler, and of answers over routing that
exists, where NFS has time-outs.  Nothing else is assumed fair.

**Findings** (with the lines they contradict, in `PROJECT.json`): a change to the
same value loses the account; a creation may succeed without being stored;
LogOut neither stops the vault nor logs out; `mount_path()` outlives the mount.

## 4. Proofs

`tlapm <module>.tla`.  Each theorem holds for every value of the constants that
the module's ASSUME admits; there is no other assumption than those named here.

**`SessionStoreProofs`.**

* `TypeCorrect`, `NamesLeadHome`: `Spec => []TypeOK`, `Spec => []MidsLeadHome`,
  with no assumption on the order of writes, on refusals or on the user.
  `MidsLeadHome` is not inductive: `PutMid` needs to know what the TMID it
  carries is sealed with, and `GetMid` what `DeleteTmid` will delete.  `IInv`
  adds `CallOK` (what each step of a call relies on) and `SealedOK` (exactly the
  TMIDs made so far are sealed), and is inductive.
* `NobodyLockedOut`: `WellBehaved => (Spec => []Reachable)`, where
  `WellBehaved` is ordered writes, no refusals, no change to the same value.
  `Reachable` speaks of drained queues only; `Survives` speaks of the values the
  queues will end in (`WillOpen`) and says which credential is safe at each step
  of a rename.  Applying a write leaves the ends of the queues as they are
  (`NetworkKeepsEnds`), so only the client's steps can disturb it.
* `StoreImplementsBook`: `WellBehaved => (Spec => BookSpec)`.  `PutMid` is
  `Store`, `DeleteTmid` of a rename is `Withdraw`, and every other step leaves
  the set of credentials that will open alone.

**`AccountBookProofs`** has lemmas only: what the abstract account book promises
by its definition (`BookNeverLocks`, `BookOnePassword`).  `PromisesKept` of
`SessionStoreProofs` carries them over to the code's model by the refinement: no
step of a call, no crash and no write taking effect turns an account that some
credential will open into one that none will, and at no time will two passwords
open it under one keyword and pin.

**`SessionTrustProofs`** has three parts.

* *Order.*  `NeverRolledBack`: `Ordered => (Spec => NoRollback)`, whatever is
  refused, repeated or cut short.  The invariant `OInv` adds to `IInv` that what
  a name leads to and the writes queued for it are in ascending order
  (`InOrder`) and that a session that has been made and not yet put is later
  than all of them (`Latest`).
* *Credential.*  `CredentialTrusted`, `ReplacedRevoked`:
  `Settled => (Spec => []SessionOpens)` and `[]OldCredentialsRevoked`, where
  `Settled` is `WellBehaved`, no exceptions of the network and log ins only on
  drained queues.  `SInv` adds to `IInv` and `Survives`: the session will open
  the account whenever no call is running, and which of the old and the new will
  at each step of a change (`Trusts`); a log in has read the stored packets
  (`ReadsSettled`); what has not been made or enrolled opens nothing (`NotYet`);
  and unless a rename was cut, one credential will open the account, or two
  while a rename has put and not yet deleted (`OneValid`).
* *Company.*  Lemmas about a client that shares its packets with others: what a
  step of it leaves to another client, of which the lemma knows only its call
  `c`, or the names `D` that it has set out to delete.  Two clients that are
  about to put carry sessions that no name leads to yet and that the other is
  not deleting (`Apart`); those sessions will be stored (`Ready`) and are the
  newest of their names (`Orderly`) unless both put under one name (`Meets`);
  and some credential will open the account under a name that nobody is
  deleting (`Spared`).

**`TwoDevicesProofs`** puts these lemmas together for the two instances `P1` and
`P2` of `SessionTrustProofs`, one per device: every step of `TwoDevices` is a
step of one client that leaves the other alone (`OneSteps`).

* `TypesKept`, `NamesLeadHome`: `Spec => []TypeOK`, `[]MidsLeadHome`, with no
  assumption at all.  `Clients` says that each device is a sound client
  (`IInv`), and apart from the other: without `Apart`, one device could be
  deleting what the other is about to name.
* `OnlyCrossingLoses`: `Ordered => (Spec => []LostOnlyByCrossing)`, for any
  number of names, sessions, crashes, refusals and exceptions.  `Ordered` here is
  the order of each device's own writes to a name: while all the writes in
  flight to a name are of one device it is the order of the name, and once they
  are not the property is silent (`Mixing`).  The invariant is `Clients /\ Kept`.  The property is far from inductive: that some credential
  opens the account does not survive the other device's next delete.  `Kept`
  says that, until a write is refused or renames cross, one is beyond the
  reach of both: its name is not in `Doomed`, the names that the renames in
  progress have set out to delete.  A rename adds its old name to `Doomed` by
  the same step that puts the new one, which is what makes it inductive.
* `OnlyRacingRollsBack`: `Ordered => (Spec => NoRollback)`.  The invariant is
  `Clients /\ Ordering`: until the devices race or their writes to a name mix,
  the writes to each name are in order and each session about to be put is the
  newest of its name.

**`ClientLifecycleProofs`.**  `TypeCorrect`, `NeverMixed` (`OwnKeysStored` and
`OneIdentity`), `RootsKeptApart`, `PmidsAccounted`, `DrivesUnmounted`, for any
set of accounts.  `IInv` is `TypeOK` with five parts: the account being created
is stored nowhere before `PutSession` (`NewAccount`), whose PMID has been asked for
(`Registrations`), whose the drive is that a call mounts (`OwnDrive`), whose
keys and connection each step works with (`Identity`), whose root (`OwnRoot`).

**`UserStorageProofs`.**  `TypeCorrect`, `NothingLost` (`FilesFound`),
`SpaceAccounted`, `DiesAfterFailure` (`DiesAfterFailureOnly`), for any number of
letters, roots and files.  `IInv` adds that nothing is stored or written while
CreateUser runs (`Creating`), that session, drive and stored session have one
root (`OneRoot`), and that a thread nobody will join is one whose mount has
failed (`MountOwned`).  That the search ends rests on `Least`: a set of naturals
with a member has a least one.

**`KeyRequestsProofs`.**  `TypeCorrect`, `NoneOutlivesItsHandler`, `OneWindow`,
`StaleUntilJoin`, `LostAfterFaultOnly`, `LiveBetweenCalls`, for any number of
threads, handlers and requests.  `IInv` adds which handlers exist and are joined
at each step of the caller (`HandlersExist`, `JoinedFirst`), what `client_nfs_`
is over (`NfsPlace`), that a request in use has a `client_nfs_`
(`UsesSomething`), during a join the one there still is (`ReadsLatest`, because
the destructor of the old handler left none that met an earlier one), and that
it is over its own handler's routing or over none (`OwnRouting`).  `NfsPlace` lets
`client_nfs_` be over routing that is gone only in the window or after an escape
from it (`LeftOver`).  `OneWindow`
and `StaleUntilJoin` together say when the missing lock matters,
`LostAfterFaultOnly` that nothing else makes a destructor wait in vain.

**`UserInputProofs`.**  `TypeCorrect`, `NoChangeUnasked`, `NoPasswordMistyped`.
The two action properties follow from `TypeOK` step by step: a step that alters
the session and is not a CreateUser or LogIn taking all fields (`TakesAll`) can
only be `Change`, whose checks have read the current password.

Only model-checked: the liveness properties (`SessionSettles`, `StopEnds`),
whose fairness the prover cannot reason about, and the violations.

## 5. Not modelled, and why

* The forwarding of the public API and of the Python bindings; what they add,
  the choice of the input field and exceptions that are no `std::exception`, is
  in `UserInput` and `ClientLifecycle`.
* The empty `ClientMpid` and the commented-out `rcs_helper`.
* `PutFobs` in `detail/utils.cc`: the header does not declare the
  specialisations, so `ClientMaid` uses the empty primary template.
* Network health, which is only logged and passed on (that two threads write it
  without a lock is listed as a hazard), progress texts, `max_space` and the
  handlers of messages and bootstrap endpoints.
* What the network makes of the requests to register and unregister a PMID, and
  what the callback of `RegisterPmid` does with a refusal: it throws in a thread
  of the network library, as the puts do.  `ClientLifecycle` has the requests.
* What is encrypted and how: a TMID is sealed with a credential and opens with
  it alone.

## 6. Possible extensions

* A composition of `UserInput` with `SessionStore`: that what the user typed is
  what opens the account, with the leftovers of failed calls.
* More than two devices: the lemmas of *Company* do not count them.
* Puts that fail in the middle of `UserStorage`'s log ins and mounts.
