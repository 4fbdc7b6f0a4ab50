---------------------------- MODULE UserStorage ----------------------------
(***************************************************************************)
(* The virtual drive: UserStorage                                          *)
(* (src/src/maidsafe/lifestuff/detail/user_storage.cc), the part of the    *)
(* session it reads and writes (root_parent_id, used_space), and the calls *)
(* that bring the two together: CreateUser, which mounts and unmounts once *)
(* before it stores the session, LogIn, the mounts of the user, and the    *)
(* changes of credentials, which store the session as it is.               *)
(*                                                                         *)
(* MountDrive has two bodies, one per build.  The Windows one looks for a  *)
(* free drive letter, then makes the drive, and records the root directory *)
(* in the session; the other one starts a thread that serves the file      *)
(* system.                                                                 *)
(*                                                                         *)
(* Outside this repository: MaidDrive makes up a root directory when it is *)
(* given none, counts the space used from where it is told to start, and   *)
(* the network keeps what is written under a root for ever.                *)
(***************************************************************************)
EXTENDS Integers, Sequences

CONSTANTS
  Builds,      \* a subset of {"windows", "unix"}
  LastLetter,  \* the last drive letter; 25 for Z in the code
  MaxRoots,    \* bound: root directories that are ever made up
  MaxFiles     \* bound: files under one root

FirstLetter == 2                         \* mask 0x4: C
Letters     == FirstLetter .. LastLetter
NoPath      == 0
Roots       == 1 .. MaxRoots
NoRoot      == 0

ASSUME StorageAssumption ==
  /\ Builds \subseteq {"windows", "unix"}
  /\ LastLetter \in Nat /\ LastLetter >= FirstLetter
  /\ MaxRoots \in Nat /\ MaxFiles \in Nat

VARIABLES
  build,
  mountStatus,  \* mount_status_
  mountPath,    \* mount_path_: a letter, or empty
  drive,        \* drive_: its root, and the space it believes is used
  thread,       \* mount_thread_ is joinable
  mounting,     \* MountDrive has found a letter, and has not made the drive
  session,      \* session_: root_parent_id and used_space
  stored,       \* the session last stored, or NoSession
  phase,        \* how far CreateUser is, or "in" or "out"
  taken,        \* letters of drives that are not ours
  files,        \* root -> how much is stored under it
  made,         \* roots 1 .. made have been made up
  rooted,       \* history: the account was created with a root
  stale,        \* history: the session was read with an outdated used_space
  failed        \* history: a mount has failed in this process

storage == <<mountStatus, mountPath, drive, thread, mounting>>
history == <<rooted, stale, failed>>
vars    == <<build, storage, session, stored, phase, taken, files, made, history>>

Fresh     == [root |-> NoRoot, used |-> 0]   \* Session() : user_details_()
NoSession == [root |-> NoRoot, used |-> -1]
Phases    == {"create", "verify", "store", "in", "out"}

TypeOK ==
  /\ build \in {"windows", "unix"}
  /\ mountStatus \in BOOLEAN
  /\ mountPath \in Letters \cup {NoPath}
  /\ drive \in [root : 0 .. MaxRoots, used : 0 .. MaxFiles]
  /\ thread \in BOOLEAN /\ mounting \in BOOLEAN
  /\ session \in [root : 0 .. MaxRoots, used : 0 .. MaxFiles]
  /\ stored \in [root : 0 .. MaxRoots, used : 0 .. MaxFiles] \cup {NoSession}
  /\ phase \in Phases
  /\ taken \subseteq Letters
  /\ files \in [Roots -> 0 .. MaxFiles]
  /\ made \in 0 .. MaxRoots
  /\ rooted \in BOOLEAN /\ stale \in BOOLEAN /\ failed \in BOOLEAN

Init ==
  /\ build \in Builds
  /\ mountStatus = FALSE /\ mountPath = NoPath
  /\ drive = Fresh /\ thread = FALSE /\ mounting = FALSE
  /\ session = Fresh /\ stored = NoSession
  /\ phase = "create"
  /\ taken = {}
  /\ files = [r \in Roots |-> 0]
  /\ made = 0
  /\ rooted = FALSE /\ stale = FALSE /\ failed = FALSE

-----------------------------------------------------------------------------
(* The search tries letters in turn, as GetLogicalDrives gave them: it      *)
(* stops at the first free one, or one past the last.                      *)
FreeLetter ==
  CHOOSE n \in FirstLetter .. LastLetter + 1 :
    n \notin taken /\ \A m \in FirstLetter .. n - 1 : m \in taken

(* MUTANT: the bound that tells that no letter is left is one too high.    *)
LetterFound_OneMore(letter) == ~ (letter > LastLetter + 1)

LetterFound(letter) == ~ (letter > LastLetter)

(* The drive is given the session's root, or makes one up.                 *)
DriveRoot == IF session.root = NoRoot THEN made + 1 ELSE session.root

NewDrive ==
  /\ DriveRoot \in Roots
  /\ drive' = [root |-> DriveRoot, used |-> session.used]
  /\ made' = IF session.root = NoRoot THEN made + 1 ELSE made

(* The caller's thread is in none of these calls.                          *)
Free == ~ mounting

(* Who calls MountDrive: CreateUser, and the user once there is an account. *)
Mounts ==
  /\ phase \in {"in", "create"}
  /\ phase' = IF phase = "create" THEN "verify" ELSE phase
  /\ UNCHANGED <<build, stored, taken, files, rooted, stale>>

AlreadyMounted ==
  /\ Free /\ mountStatus /\ Mounts
  /\ UNCHANGED <<storage, session, made, failed>>

(* No letter left: logged, and the caller is told nothing.                 *)
NoLetter ==
  /\ build = "windows" /\ Free /\ ~ mountStatus /\ ~ LetterFound(FreeLetter)
  /\ Mounts
  /\ UNCHANGED <<storage, session, made, failed>>

(* mount_path_ is set; the drive is made later, when the letter may be      *)
(* another drive's.                                                        *)
FindLetter ==
  /\ build = "windows" /\ Free /\ ~ mountStatus /\ LetterFound(FreeLetter)
  /\ phase \in {"in", "create"}
  /\ mountPath' = FreeLetter /\ mounting' = TRUE
  /\ UNCHANGED <<build, mountStatus, drive, thread, session, stored, phase,
                 taken, files, made, history>>

(* MUTANT: the root directory is not recorded in the session.              *)
MountWindows_ForgetsRoot ==
  /\ mounting /\ Mounts
  /\ NewDrive
  /\ mountStatus' = TRUE /\ mounting' = FALSE
  /\ UNCHANGED <<mountPath, thread, session, failed>>

MountWindows ==
  /\ mounting /\ Mounts
  /\ NewDrive
  /\ mountStatus' = TRUE /\ mounting' = FALSE
  /\ session' = [session EXCEPT !.root = DriveRoot]
  /\ UNCHANGED <<mountPath, thread, failed>>

(* The constructor of the drive throws; mount_path_ is set by then.        *)
MountThrows ==
  /\ mounting
  /\ mounting' = FALSE
  /\ UNCHANGED <<build, mountStatus, mountPath, drive, thread, session, stored,
                 phase, taken, files, made, history>>

(* The mount path is empty, which is logged; WaitUntilMounted tells whether *)
(* the thread got the file system mounted, and nobody joins one that did    *)
(* not: UnMountDrive returns early.                                        *)
MountUnix ==
  /\ build = "unix" /\ ~ mountStatus /\ ~ thread /\ Mounts
  /\ NewDrive
  /\ thread' = TRUE
  /\ \E mounted \in BOOLEAN :
       /\ mountStatus' = mounted
       /\ failed' = (failed \/ ~ mounted)
  /\ UNCHANGED <<mountPath, mounting, session>>

MountDrive ==
  AlreadyMounted \/ NoLetter \/ FindLetter \/ MountWindows \/ MountUnix

(* MUTANT: the thread is not joined.                                       *)
Unmounted_NotJoined ==
  /\ mountStatus' = FALSE
  /\ session' = [session EXCEPT !.used = drive.used]
  /\ UNCHANGED <<mountPath, drive, thread, mounting>>

(* MUTANT: the space used is not recorded in the session.                  *)
Unmounted_ForgetsSpace ==
  /\ mountStatus' = FALSE
  /\ thread' = FALSE
  /\ UNCHANGED <<mountPath, drive, mounting, session>>

(* The drive is unmounted and its thread joined, then the session updated. *)
Unmounted ==
  /\ mountStatus' = FALSE
  /\ thread' = FALSE
  /\ session' = [session EXCEPT !.used = drive.used]
  /\ UNCHANGED <<mountPath, drive, mounting>>

UnMountDrive ==
  /\ Free
  /\ \/ phase = "in" /\ UNCHANGED phase
     \/ phase = "verify" /\ phase' = "store"
  /\ IF mountStatus THEN Unmounted ELSE UNCHANGED <<storage, session>>
  /\ UNCHANGED <<build, stored, taken, files, made, history>>

-----------------------------------------------------------------------------
(* The calls around it.                                                    *)

(* The end of CreateUser, and every later change of credentials.           *)
PutSession ==
  /\ Free /\ phase \in {"store", "in"}
  /\ stored' = session
  /\ phase' = "in"
  /\ rooted' = IF phase = "store" THEN drive.root # NoRoot ELSE rooted
  /\ UNCHANGED <<build, storage, session, taken, files, made, stale, failed>>

(* Parse overwrites what the session knew; the drive, if mounted, stays.   *)
LogIn ==
  /\ Free /\ phase \in {"in", "out"}
  /\ session' = stored
  /\ phase' = "in"
  /\ stale' = IF mountStatus \/ stored.root = NoRoot THEN stale
              ELSE stored.used # files[stored.root]
  /\ UNCHANGED <<build, storage, stored, taken, files, made, rooted, failed>>

(* The user writes to the drive or deletes from it.                        *)
Write ==
  /\ mountStatus /\ phase = "in"
  /\ files[drive.root] < MaxFiles /\ drive.used < MaxFiles
  /\ files' = [files EXCEPT ![drive.root] = @ + 1]
  /\ drive' = [drive EXCEPT !.used = @ + 1]
  /\ UNCHANGED <<build, mountStatus, mountPath, thread, mounting, session, stored,
                 phase, taken, made, history>>

Delete ==
  /\ mountStatus /\ phase = "in"
  /\ files[drive.root] > 0 /\ drive.used > 0
  /\ files' = [files EXCEPT ![drive.root] = @ - 1]
  /\ drive' = [drive EXCEPT !.used = @ - 1]
  /\ UNCHANGED <<build, mountStatus, mountPath, thread, mounting, session, stored,
                 phase, taken, made, history>>

(* Other drives come and go, at any time; none is given the letter of ours *)
(* while it is mounted.                                                    *)
OtherDrives(letters) ==
  /\ mountStatus /\ mountPath \in letters => mountPath \in taken
  /\ taken' = letters
  /\ UNCHANGED <<build, storage, session, stored, phase, files, made, history>>

(* The process ends, from outside or by a use of *data_store_, which the    *)
(* Unix body of MountDrive never sets; the next one starts afresh.         *)
ProcessEnds ==
  /\ mountStatus' = FALSE /\ mountPath' = NoPath
  /\ drive' = Fresh /\ thread' = FALSE /\ mounting' = FALSE
  /\ session' = Fresh
  /\ phase' = IF stored = NoSession THEN "create" ELSE "out"
  /\ failed' = FALSE
  /\ UNCHANGED <<build, stored, taken, files, made, rooted, stale>>

(* MountDrive assigns to a mount_thread_ that is joinable: std::terminate.  *)
Terminates ==
  /\ build = "unix" /\ ~ mountStatus /\ thread /\ phase \in {"in", "create"}
  /\ ProcessEnds

Next ==
  \/ MountDrive \/ MountThrows \/ UnMountDrive
  \/ PutSession \/ LogIn
  \/ Write \/ Delete
  \/ \E letters \in SUBSET Letters : OtherDrives(letters)
  \/ ProcessEnds \/ Terminates

Spec == Init /\ [][Next]_vars

-----------------------------------------------------------------------------
(* Properties. *)

(* On Windows, an account created while a drive letter was free has one    *)
(* root directory for ever: whatever crashes, log ins and stores of the    *)
(* session follow, everything the user has written is under the root that  *)
(* the next log in will mount.                                             *)
FilesFound ==
  build = "windows" /\ rooted
    => \A r \in Roots : files[r] > 0 => stored.root = r

(* The space the session or the mounted drive says is used is what is      *)
(* used, unless a log in has read an outdated session.                     *)
UsedSpaceCounted ==
  build = "windows" /\ rooted /\ phase = "in" /\ ~ stale
    => IF mountStatus THEN drive.used = files[drive.root]
                      ELSE session.used = files[session.root]

(* A process that mounts and unmounts any number of times, verifying in     *)
(* CreateUser and for its user, dies in MountDrive by std::terminate only   *)
(* if an earlier mount has failed in it, which no caller is told of: every  *)
(* mount that worked has its thread joined before the next.                *)
DiesAfterFailureOnly == [][Terminates => failed]_vars

(* mount_path() of UserStorage.                                            *)
mount_path ==
  IF build = "windows"
  THEN (IF mountPath = NoPath THEN <<>> ELSE <<mountPath>>) \o <<"/">>
  ELSE <<>>

(* lifestuff_api.h says of mount_path(): "Root path of mounted virtual     *)
(* drive or empty if unmounted". After an unmount it still is the letter,   *)
(* which the next drive to be plugged in may take.                          *)
PathEmptyOnceUnmounted ==
  [][mountStatus /\ UnMountDrive => mount_path' = <<>>]_vars
=============================================================================
