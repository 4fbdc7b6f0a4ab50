------------------------- MODULE UserStorageProofs -------------------------
(***************************************************************************)
(* What UserStorage guarantees for any number of drive letters, root       *)
(* directories and files.                                                  *)
(***************************************************************************)
EXTENDS UserStorage, WellFoundedInduction, TLAPS

-----------------------------------------------------------------------------
(* The inductive invariant. *)

(* Until CreateUser has stored the session nothing is stored or written.    *)
Creating ==
  /\ phase \in {"create", "verify", "store"} <=> stored = NoSession
  /\ phase \in {"create", "verify", "store"} =>
       /\ \A r \in Roots : files[r] = 0
       /\ session.used = 0 /\ drive.used = 0
       /\ ~ rooted
  /\ phase = "create" => session = Fresh /\ drive = Fresh /\ ~ mountStatus
  /\ phase \in {"store", "out"} => ~ mountStatus

(* On Windows the session, once it has a root, the drive, while it is       *)
(* mounted, and what is stored agree on that root.                          *)
OneRoot ==
  build = "windows" =>
    /\ phase \in {"verify", "store"} => session.root = drive.root
    /\ rooted => stored.root \in Roots
    /\ rooted /\ phase = "in" =>
         session.root = stored.root /\ (mountStatus => drive.root = stored.root)

(* A letter has been found only for a drive that is not mounted yet, and a  *)
(* thread that serves no mounted drive is left of a failed mount.           *)
MountOwned ==
  /\ mounting => ~ mountStatus /\ build = "windows"
  /\ thread /\ ~ mountStatus => failed

IInv == /\ TypeOK /\ Creating /\ OneRoot
        /\ FilesFound /\ UsedSpaceCounted /\ MountOwned

-----------------------------------------------------------------------------
(* The search for a drive letter. *)

(* Every set of natural numbers that has a member has a least one.          *)
LEMMA Least ==
  ASSUME NEW S, S \subseteq Nat, S # {}
  PROVE  \E n \in S : \A m \in S : n <= m
PROOF
<1> DEFINE R == OpToRel(<, Nat)
<1>1. IsWellFoundedOn(R, Nat)
  BY NatLessThanWellFounded, Zenon
<1>2. \A x, y \in Nat : x < y => <<x, y>> \in R
  BY Zenon DEF OpToRel
<1> HIDE DEF R
<1>3. PICK x \in S : \A y \in S : ~ (<<y, x>> \in R)
  BY <1>1, WFMin
<1>4. ASSUME NEW m \in S PROVE x <= m
  <2>1. <<m, x>> \notin R
    BY <1>3
  <2>2. x \in Nat /\ m \in Nat
    OBVIOUS
  <2>3. ~ (m < x)
    BY <1>2, <2>1, <2>2
  <2> QED
    BY <2>2, <2>3
<1> QED
  BY <1>4

(* The search ends at a letter that is free, or past the last letter.       *)
LEMMA SearchEnds ==
  ASSUME taken \subseteq Letters
  PROVE  FreeLetter \in (FirstLetter .. LastLetter + 1) \ taken
PROOF
<1> DEFINE S == (FirstLetter .. LastLetter + 1) \ taken
<1>1. S \subseteq Nat /\ LastLetter + 1 \in S
  BY StorageAssumption DEF StorageAssumption, FirstLetter, Letters
<1>2. PICK n \in S : \A m \in S : n <= m
  BY <1>1, Least
<1>3. \A m \in FirstLetter .. n - 1 : m \in taken
  BY <1>2, StorageAssumption DEF StorageAssumption, FirstLetter
<1> QED
  BY <1>2, <1>3 DEF FreeLetter

(* ... so what it has found is a letter, free when it looked.               *)
LEMMA FoundIsFree ==
  ASSUME taken \subseteq Letters, LetterFound(FreeLetter)
  PROVE  FreeLetter \in Letters \ taken
PROOF
  BY SearchEnds, StorageAssumption DEF StorageAssumption, LetterFound, Letters, FirstLetter

-----------------------------------------------------------------------------
(* The parts, one by one. *)

(* A drive is given the root of the session, or a new one.                  *)
LEMMA DriveRootKnown ==
  ASSUME TypeOK, NewDrive
  PROVE  /\ drive' \in [root : 0 .. MaxRoots, used : 0 .. MaxFiles]
         /\ drive'.root = DriveRoot /\ drive'.used = session.used
         /\ DriveRoot \in Roots /\ made' \in 0 .. MaxRoots
         /\ session.root # NoRoot => DriveRoot = session.root
         /\ [session EXCEPT !.root = DriveRoot] \in [root : 0 .. MaxRoots, used : 0 .. MaxFiles]
         /\ [session EXCEPT !.root = DriveRoot].root = DriveRoot
         /\ [session EXCEPT !.root = DriveRoot].used = session.used
PROOF
  BY DEF TypeOK, NewDrive, DriveRoot, NoRoot, Roots

(* Once a letter is found the drive is made over that root, and the session *)
(* records it.                                                              *)
LEMMA MadeOver ==
  ASSUME TypeOK, MountWindows
  PROVE  /\ mounting /\ mountStatus' = TRUE
         /\ drive'.root = DriveRoot /\ drive'.used = session.used
         /\ session'.root = DriveRoot /\ session'.used = session.used
         /\ session.root # NoRoot => DriveRoot = session.root
         /\ DriveRoot \in Roots
         /\ build' = build /\ stored' = stored /\ files' = files
         /\ rooted' = rooted /\ stale' = stale
         /\ phase \in {"in", "create"}
         /\ phase' = IF phase = "create" THEN "verify" ELSE phase
PROOF
<1>1. NewDrive /\ Mounts /\ session' = [session EXCEPT !.root = DriveRoot]
  BY DEF MountWindows
<1>2. /\ drive'.root = DriveRoot /\ drive'.used = session.used
      /\ session'.root = DriveRoot /\ session'.used = session.used
      /\ session.root # NoRoot => DriveRoot = session.root
      /\ DriveRoot \in Roots
  BY <1>1, DriveRootKnown
<1> QED
  BY <1>1, <1>2 DEF MountWindows, Mounts

(* What a new session and a new drive hold.                                 *)
LEMMA FreshTypes ==
  Fresh \in [root : 0 .. MaxRoots, used : 0 .. MaxFiles]
PROOF
  BY StorageAssumption DEF StorageAssumption, Fresh, NoRoot

(* Writing stays within the bounds.                                         *)
LEMMA WriteTypes ==
  ASSUME TypeOK, Write
  PROVE  files' \in [Roots -> 0 .. MaxFiles] /\ drive' \in [root : 0 .. MaxRoots, used : 0 .. MaxFiles]
PROOF
<1>1. drive.used + 1 \in 0 .. MaxFiles /\ files[drive.root] < MaxFiles
  BY StorageAssumption DEF StorageAssumption, TypeOK, Write
<1>2. drive' \in [root : 0 .. MaxRoots, used : 0 .. MaxFiles]
  BY <1>1 DEF TypeOK, Write
<1>3. drive.root \in Roots => files[drive.root] + 1 \in 0 .. MaxFiles
  BY <1>1, StorageAssumption DEF StorageAssumption, TypeOK
<1>4. files' \in [Roots -> 0 .. MaxFiles]
  BY <1>3 DEF TypeOK, Write
<1> QED
  BY <1>2, <1>4

(* The same of deleting.                                                    *)
LEMMA DeleteTypes ==
  ASSUME TypeOK, Delete
  PROVE  files' \in [Roots -> 0 .. MaxFiles] /\ drive' \in [root : 0 .. MaxRoots, used : 0 .. MaxFiles]
PROOF
<1>1. drive.used - 1 \in 0 .. MaxFiles /\ files[drive.root] > 0
  BY StorageAssumption DEF StorageAssumption, TypeOK, Delete
<1>2. drive' \in [root : 0 .. MaxRoots, used : 0 .. MaxFiles]
  BY <1>1 DEF TypeOK, Delete
<1>3. drive.root \in Roots => files[drive.root] - 1 \in 0 .. MaxFiles
  BY <1>1, StorageAssumption DEF StorageAssumption, TypeOK
<1>4. files' \in [Roots -> 0 .. MaxFiles]
  BY <1>3 DEF TypeOK, Delete
<1> QED
  BY <1>2, <1>4

(* The letter is one the search found; what is counted stays in its bounds. *)
LEMMA TypeKept ==
  ASSUME TypeOK, Creating, [Next]_vars
  PROVE  TypeOK'
PROOF
<1> USE DEF storage, history, TypeOK, Fresh, NoSession, Phases, NoRoot, NoPath, Creating
<1>1. CASE MountDrive
  <2>1. CASE AlreadyMounted
    BY <2>1 DEF AlreadyMounted, Mounts
  <2>2. CASE NoLetter
    BY <2>2 DEF NoLetter, Mounts
  <2>3. CASE FindLetter
    BY <2>3, FoundIsFree DEF FindLetter
  <2>4. CASE MountWindows
    BY <2>4, DriveRootKnown DEF MountWindows, Mounts, NewDrive
  <2>5. CASE MountUnix
    BY <2>5, DriveRootKnown DEF MountUnix, Mounts, NewDrive
  <2> QED
    BY <1>1, <2>1, <2>2, <2>3, <2>4, <2>5 DEF MountDrive
<1>2. CASE MountThrows
  BY <1>2 DEF MountThrows
<1>3. CASE UnMountDrive
  BY <1>3 DEF UnMountDrive, Unmounted
<1>4. CASE PutSession
  BY <1>4 DEF PutSession
<1>5. CASE LogIn
  BY <1>5 DEF LogIn
<1>6. CASE Write
  BY <1>6, StorageAssumption, WriteTypes DEF Write
<1>7. CASE Delete
  BY <1>7, DeleteTypes DEF Delete
<1>8. ASSUME NEW letters \in SUBSET Letters, OtherDrives(letters) PROVE TypeOK'
  BY <1>8 DEF OtherDrives
<1>9. CASE ProcessEnds
  BY <1>9, FreshTypes DEF ProcessEnds
<1>10. CASE Terminates
  <2>1. ProcessEnds
    BY <1>10 DEF Terminates
  <2> QED
    BY <1>9, <2>1
<1>11. CASE UNCHANGED vars
  BY <1>11 DEF vars
<1> QED
  BY <1>1, <1>2, <1>3, <1>4, <1>5, <1>6, <1>7, <1>8, <1>9, <1>10, <1>11
     DEF Next

(* Files are written once the session is stored, never while it is created. *)
LEMMA CreatingKept ==
  ASSUME TypeOK, Creating, [Next]_vars
  PROVE  Creating'
PROOF
<1> USE DEF storage, history, TypeOK, Fresh, NoSession, Phases, NoRoot, NoPath, Creating
<1>1. CASE MountDrive
  <2>1. CASE AlreadyMounted
    BY <2>1 DEF AlreadyMounted, Mounts
  <2>2. CASE NoLetter
    BY <2>2 DEF NoLetter, Mounts
  <2>3. CASE FindLetter
    BY <2>3 DEF FindLetter
  <2>4. CASE MountWindows
    BY <2>4, DriveRootKnown DEF MountWindows, Mounts, NewDrive
  <2>5. CASE MountUnix
    BY <2>5, DriveRootKnown DEF MountUnix, Mounts, NewDrive
  <2> QED
    BY <1>1, <2>1, <2>2, <2>3, <2>4, <2>5 DEF MountDrive
<1>2. CASE MountThrows
  BY <1>2 DEF MountThrows
<1>3. CASE UnMountDrive
  BY <1>3 DEF UnMountDrive, Unmounted
<1>4. CASE PutSession
  BY <1>4 DEF PutSession
<1>5. CASE LogIn
  BY <1>5 DEF LogIn
<1>6. CASE Write
  BY <1>6 DEF Write
<1>7. CASE Delete
  BY <1>7 DEF Delete
<1>8. ASSUME NEW letters \in SUBSET Letters, OtherDrives(letters) PROVE Creating'
  BY <1>8 DEF OtherDrives
<1>9. CASE ProcessEnds
  BY <1>9 DEF ProcessEnds
<1>10. CASE Terminates
  <2>1. ProcessEnds
    BY <1>10 DEF Terminates
  <2> QED
    BY <1>9, <2>1
<1>11. CASE UNCHANGED vars
  BY <1>11 DEF vars
<1> QED
  BY <1>1, <1>2, <1>3, <1>4, <1>5, <1>6, <1>7, <1>8, <1>9, <1>10, <1>11
     DEF Next

(* The root that CreateUser records is the one every later mount is given.  *)
LEMMA OneRootKept ==
  ASSUME TypeOK, Creating, OneRoot, [Next]_vars
  PROVE  OneRoot'
PROOF
<1> USE DEF storage, history, TypeOK, Fresh, NoSession, Phases, NoRoot, NoPath, Creating, OneRoot
<1>1. CASE MountDrive
  <2>1. CASE AlreadyMounted
    BY <2>1 DEF AlreadyMounted, Mounts
  <2>2. CASE NoLetter
    BY <2>2 DEF NoLetter, Mounts
  <2>3. CASE FindLetter
    BY <2>3 DEF FindLetter
  <2>4. CASE MountWindows
    <3>1. build = "windows" /\ rooted => stored.root # NoRoot
      BY DEF OneRoot, Roots
    <3> QED
      BY <2>4, <3>1, MadeOver
  <2>5. CASE MountUnix
    BY <2>5, DriveRootKnown DEF MountUnix, Mounts, NewDrive
  <2> QED
    BY <1>1, <2>1, <2>2, <2>3, <2>4, <2>5 DEF MountDrive
<1>2. CASE MountThrows
  BY <1>2 DEF MountThrows
<1>3. CASE UnMountDrive
  BY <1>3 DEF UnMountDrive, Unmounted
<1>4. CASE PutSession
  <2>1. session.root \in Roots \/ session.root = NoRoot
    BY DEF Roots
  <2>2. CASE phase = "store"
    BY <1>4, <2>1, <2>2 DEF PutSession
  <2>3. CASE phase = "in"
    BY <1>4, <2>3 DEF PutSession
  <2> QED
    BY <1>4, <2>2, <2>3 DEF PutSession
<1>5. CASE LogIn
  BY <1>5 DEF LogIn
<1>6. CASE Write
  BY <1>6 DEF Write
<1>7. CASE Delete
  BY <1>7 DEF Delete
<1>8. ASSUME NEW letters \in SUBSET Letters, OtherDrives(letters) PROVE OneRoot'
  BY <1>8 DEF OtherDrives
<1>9. CASE ProcessEnds
  BY <1>9 DEF ProcessEnds
<1>10. CASE Terminates
  <2>1. ProcessEnds
    BY <1>10 DEF Terminates
  <2> QED
    BY <1>9, <2>1
<1>11. CASE UNCHANGED vars
  BY <1>11 DEF vars
<1> QED
  BY <1>1, <1>2, <1>3, <1>4, <1>5, <1>6, <1>7, <1>8, <1>9, <1>10, <1>11
     DEF Next

(* Files are written under the root of the mounted drive, which is stored.  *)
LEMMA FilesKept ==
  ASSUME TypeOK, Creating, OneRoot, FilesFound, [Next]_vars
  PROVE  FilesFound'
PROOF
<1> USE DEF storage, history, TypeOK, Fresh, NoSession, Phases, NoRoot, NoPath, Creating, OneRoot, FilesFound
<1>1. CASE MountDrive
  <2>1. CASE AlreadyMounted
    BY <2>1 DEF AlreadyMounted, Mounts
  <2>2. CASE NoLetter
    BY <2>2 DEF NoLetter, Mounts
  <2>3. CASE FindLetter
    BY <2>3 DEF FindLetter
  <2>4. CASE MountWindows
    BY <2>4 DEF MountWindows, Mounts
  <2>5. CASE MountUnix
    BY <2>5, DriveRootKnown DEF MountUnix, Mounts, NewDrive
  <2> QED
    BY <1>1, <2>1, <2>2, <2>3, <2>4, <2>5 DEF MountDrive
<1>2. CASE MountThrows
  BY <1>2 DEF MountThrows
<1>3. CASE UnMountDrive
  BY <1>3 DEF UnMountDrive, Unmounted
<1>4. CASE PutSession
  <2>1. session.root \in Roots \/ session.root = NoRoot
    BY DEF Roots
  <2>2. CASE phase = "store"
    BY <1>4, <2>1, <2>2 DEF PutSession
  <2>3. CASE phase = "in"
    BY <1>4, <2>3 DEF PutSession
  <2> QED
    BY <1>4, <2>2, <2>3 DEF PutSession
<1>5. CASE LogIn
  BY <1>5 DEF LogIn
<1>6. CASE Write
  BY <1>6 DEF Write
<1>7. CASE Delete
  BY <1>7 DEF Delete
<1>8. ASSUME NEW letters \in SUBSET Letters, OtherDrives(letters) PROVE FilesFound'
  BY <1>8 DEF OtherDrives
<1>9. CASE ProcessEnds
  BY <1>9 DEF ProcessEnds
<1>10. CASE Terminates
  <2>1. ProcessEnds
    BY <1>10 DEF Terminates
  <2> QED
    BY <1>9, <2>1
<1>11. CASE UNCHANGED vars
  BY <1>11 DEF vars
<1> QED
  BY <1>1, <1>2, <1>3, <1>4, <1>5, <1>6, <1>7, <1>8, <1>9, <1>10, <1>11
     DEF Next

(* Mounting and unmounting hand the count over; writing keeps it.           *)
LEMMA SpaceKept ==
  ASSUME TypeOK, Creating, OneRoot, UsedSpaceCounted, MountOwned, [Next]_vars
  PROVE  UsedSpaceCounted'
PROOF
<1> USE DEF storage, history, TypeOK, Fresh, NoSession, Phases, NoRoot, NoPath, Creating, OneRoot, UsedSpaceCounted
<1>1. CASE MountDrive
  <2>1. CASE AlreadyMounted
    BY <2>1 DEF AlreadyMounted, Mounts
  <2>2. CASE NoLetter
    BY <2>2 DEF NoLetter, Mounts
  <2>3. CASE FindLetter
    BY <2>3 DEF FindLetter
  <2>4. CASE MountWindows
    <3>1. build = "windows" /\ rooted => stored.root # NoRoot
      BY DEF OneRoot, Roots
    <3> QED
      BY <2>4, <3>1, MadeOver DEF MountOwned
  <2>5. CASE MountUnix
    BY <2>5, DriveRootKnown DEF MountUnix, Mounts, NewDrive
  <2> QED
    BY <1>1, <2>1, <2>2, <2>3, <2>4, <2>5 DEF MountDrive
<1>2. CASE MountThrows
  BY <1>2 DEF MountThrows
<1>3. CASE UnMountDrive
  BY <1>3 DEF UnMountDrive, Unmounted
<1>4. CASE PutSession
  <2>1. session.root \in Roots \/ session.root = NoRoot
    BY DEF Roots
  <2>2. CASE phase = "store"
    BY <1>4, <2>1, <2>2 DEF PutSession
  <2>3. CASE phase = "in"
    BY <1>4, <2>3 DEF PutSession
  <2> QED
    BY <1>4, <2>2, <2>3 DEF PutSession
<1>5. CASE LogIn
  <2>1. CASE mountStatus
    BY <1>5, <2>1 DEF LogIn
  <2>2. CASE ~ mountStatus
    <3> SUFFICES ASSUME build = "windows", rooted, ~ stale'
                 PROVE  session'.used = files[session'.root]
      BY <1>5, <2>2 DEF LogIn
    <3>1. stored.root \in Roots /\ stored.root # NoRoot
      BY DEF Roots
    <3> QED
      BY <1>5, <2>2, <3>1 DEF LogIn
  <2> QED
    BY <2>1, <2>2
<1>6. CASE Write
  BY <1>6 DEF Write
<1>7. CASE Delete
  BY <1>7 DEF Delete
<1>8. ASSUME NEW letters \in SUBSET Letters, OtherDrives(letters) PROVE UsedSpaceCounted'
  BY <1>8 DEF OtherDrives
<1>9. CASE ProcessEnds
  BY <1>9 DEF ProcessEnds
<1>10. CASE Terminates
  <2>1. ProcessEnds
    BY <1>10 DEF Terminates
  <2> QED
    BY <1>9, <2>1
<1>11. CASE UNCHANGED vars
  BY <1>11 DEF vars
<1> QED
  BY <1>1, <1>2, <1>3, <1>4, <1>5, <1>6, <1>7, <1>8, <1>9, <1>10, <1>11
     DEF Next

(* Unmounting joins the thread, and no other call runs inside MountDrive.   *)
LEMMA MountOwnedKept ==
  ASSUME TypeOK, MountOwned, [Next]_vars
  PROVE  MountOwned'
PROOF
<1> USE DEF storage, history, MountOwned
<1>1. CASE MountDrive
  <2>1. CASE AlreadyMounted
    BY <2>1 DEF AlreadyMounted, Mounts
  <2>2. CASE NoLetter
    BY <2>2 DEF NoLetter, Mounts
  <2>3. CASE FindLetter
    BY <2>3 DEF FindLetter
  <2>4. CASE MountWindows
    BY <2>4 DEF MountWindows, Mounts
  <2>5. CASE MountUnix
    <3>1. build = "unix" /\ build' = build /\ mounting' = mounting
      BY <2>5 DEF MountUnix, Mounts
    <3>2. "unix" # "windows"
      OBVIOUS
    <3>3. ~ mounting'
      BY <3>1, <3>2, Zenon
    <3>4. PICK mounted \in BOOLEAN : mountStatus' = mounted /\ failed' = (failed \/ ~ mounted)
      BY <2>5 DEF MountUnix
    <3>5. ~ mountStatus' => failed'
      BY <3>4, Zenon
    <3> QED
      BY <3>3, <3>5, Zenon
  <2> QED
    BY <1>1, <2>1, <2>2, <2>3, <2>4, <2>5 DEF MountDrive
<1>2. CASE MountThrows
  BY <1>2 DEF MountThrows
<1>3. CASE UnMountDrive
  BY <1>3 DEF Free, UnMountDrive, Unmounted
<1>4. CASE PutSession
  BY <1>4 DEF PutSession
<1>5. CASE LogIn
  BY <1>5 DEF LogIn
<1>6. CASE Write
  BY <1>6 DEF Write
<1>7. CASE Delete
  BY <1>7 DEF Delete
<1>8. ASSUME NEW letters \in SUBSET Letters, OtherDrives(letters) PROVE MountOwned'
  BY <1>8 DEF OtherDrives
<1>9. CASE ProcessEnds
  BY <1>9 DEF ProcessEnds
<1>10. CASE Terminates
  <2>1. ProcessEnds
    BY <1>10 DEF Terminates
  <2> QED
    BY <1>9, <2>1
<1>11. CASE UNCHANGED vars
  BY <1>11 DEF vars
<1> QED
  BY <1>1, <1>2, <1>3, <1>4, <1>5, <1>6, <1>7, <1>8, <1>9, <1>10, <1>11
     DEF Next

-----------------------------------------------------------------------------
(* The theorems. *)

(* The invariant holds at first.                                            *)
LEMMA InitInv == Init => IInv
PROOF
<1> SUFFICES ASSUME Init PROVE IInv
  OBVIOUS
<1>1. TypeOK
  <2>1. 0 \in 0 .. MaxRoots /\ 0 \in 0 .. MaxFiles /\ build \in {"windows", "unix"}
    BY StorageAssumption DEF StorageAssumption, Init
  <2> QED
    BY <2>1, FreshTypes DEF Init, TypeOK, Phases
<1>2. Creating
  BY DEF Init, Creating, Fresh
<1>3. OneRoot /\ FilesFound /\ UsedSpaceCounted /\ MountOwned
  BY DEF Init, OneRoot, FilesFound, UsedSpaceCounted, MountOwned
<1> QED
  BY <1>1, <1>2, <1>3 DEF IInv

(* And every step keeps it.                                                 *)
THEOREM Invariance == Spec => []IInv
PROOF
<1>1. IInv /\ [Next]_vars => IInv'
  BY TypeKept, CreatingKept, OneRootKept, FilesKept, SpaceKept, MountOwnedKept
     DEF IInv
<1> QED
  BY <1>1, InitInv, PTL DEF Spec

(* Type correctness, for any number of letters, roots and files.            *)
THEOREM TypeCorrect == Spec => []TypeOK
PROOF
<1>1. IInv => TypeOK
  BY DEF IInv
<1> QED
  BY <1>1, Invariance, PTL

(* What the user has written is under the root the next log in mounts.      *)
THEOREM NothingLost == Spec => []FilesFound
PROOF
<1>1. IInv => FilesFound
  BY DEF IInv
<1> QED
  BY <1>1, Invariance, PTL

(* The space counted is the space used, as long as no log in reads an       *)
(* outdated count.                                                          *)
THEOREM SpaceAccounted == Spec => []UsedSpaceCounted
PROOF
<1>1. IInv => UsedSpaceCounted
  BY DEF IInv
<1> QED
  BY <1>1, Invariance, PTL

(* MountDrive ends the process by std::terminate only after an earlier      *)
(* mount has failed in it.                                                  *)
THEOREM DiesAfterFailure == Spec => DiesAfterFailureOnly
PROOF
<1>1. IInv /\ [Next]_vars => [Terminates => failed]_vars
  BY DEF IInv, MountOwned, Terminates
<1> QED
  BY <1>1, Invariance, PTL DEF Spec, DiesAfterFailureOnly
=============================================================================
