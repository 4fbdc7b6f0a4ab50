----------------------------- MODULE UserInput -----------------------------
(***************************************************************************)
(* What the user types: the seven input fields of LifeStuffImpl            *)
(* (src/src/maidsafe/lifestuff/lifestuff_impl.cc), the helpers that edit   *)
(* and compare them (src/src/maidsafe/lifestuff/detail/utils.h), and the   *)
(* calls that hand them to ClientMaid and record the outcome in session_.  *)
(*                                                                         *)
(* Outside this repository: a field (a secure string of passport) is typed *)
(* into until Finalise, which throws on an empty field; only a finalised   *)
(* field has a string; to type into a finalised field is to start again.   *)
(***************************************************************************)
EXTENDS Integers

CONSTANTS
  Names,   \* a subset of {"keyword", "pin"}
  Texts,   \* what a field may hold
  Empty, None

ASSUME InputAssumption ==
  /\ Names \subseteq {"keyword", "pin"}
  /\ Empty \notin Texts /\ None \notin Texts

Kinds == Names \cup {"password"}

VARIABLES
  input,         \* kind -> keyword_, pin_, password_: a field, or None
  confirmation,  \* kind -> confirmation_keyword_, ...
  current,       \* current_password_
  session,       \* kind -> what session_ has, or None
  connected      \* client_nfs_ is set

fields == <<input, confirmation, current>>
vars   == <<fields, session, connected>>

Field   == [text : Texts \cup {Empty}, final : {FALSE}] \cup [text : Texts, final : {TRUE}]
Nothing == [k \in Kinds |-> None]

TypeOK ==
  /\ input \in [Kinds -> Field \cup {None}]
  /\ confirmation \in [Kinds -> Field \cup {None}]
  /\ current \in Field \cup {None}
  /\ session \in [Kinds -> Texts] \cup {Nothing}
  /\ connected \in BOOLEAN

Init ==
  /\ input = Nothing /\ confirmation = Nothing /\ current = None
  /\ session = Nothing
  /\ connected = FALSE

-----------------------------------------------------------------------------
(* Editing: InsertUserInput, RemoveUserInput and ClearUserInput.           *)

Edited(f) ==
  {[text |-> x, final |-> FALSE] : x \in IF f = None THEN Texts ELSE Texts \cup {Empty}}

Edit ==
  /\ \/ \E k \in Kinds : \E f \in Edited(input[k]) :
          input' = [input EXCEPT ![k] = f] /\ UNCHANGED <<confirmation, current>>
     \/ \E k \in Kinds : \E f \in Edited(confirmation[k]) :
          confirmation' = [confirmation EXCEPT ![k] = f] /\ UNCHANGED <<input, current>>
     \/ \E f \in Edited(current) : current' = f /\ UNCHANGED <<input, confirmation>>
  /\ UNCHANGED <<session, connected>>

(* Finalise succeeds on a usable field and throws on an empty one.         *)
Usable(f) == f # None /\ f.text # Empty
Final(f)  == [f EXCEPT !.final = TRUE]

(* ConfirmUserInput for a confirmation field: both fields are finalised,   *)
(* the input first; that they differ is for the caller to act on.          *)
Confirm(k) ==
  /\ Usable(input[k]) /\ confirmation[k] # None
  /\ input' = [input EXCEPT ![k] = Final(@)]
  /\ confirmation' = [confirmation EXCEPT ![k] = IF Usable(@) THEN Final(@) ELSE @]
  /\ UNCHANGED <<current, session, connected>>

-----------------------------------------------------------------------------
(* CreateUser and LogIn.                                                   *)

Rank == [keyword |-> 1, pin |-> 2, password |-> 3]

(* FinaliseUserInput gets as far as k when it finalises the fields before. *)
Reaches(k) == \A j \in Kinds : Rank[j] < Rank[k] => Usable(input[j])

FinalisedInput ==
  [k \in Kinds |-> IF Reaches(k) /\ Usable(input[k]) THEN Final(input[k]) ELSE input[k]]

Typed == [k \in Kinds |-> input[k].text]

(* A field that FinaliseUserInput reaches is empty: it throws.             *)
FinaliseThrows ==
  /\ \E k \in Kinds : Reaches(k) /\ input[k] # None /\ ~ Usable(input[k])
  /\ input' = FinalisedInput
  /\ UNCHANGED <<confirmation, current, session, connected>>

Succeed ==
  /\ session' = Typed
  /\ input' = Nothing
  /\ connected' = TRUE

(* ClientMaid throws: the fields stay, finalised.  client_nfs_ is reset, but *)
(* not when UnregisterPmid throws in the clean-up or the exception is not a *)
(* std::exception: then it stays as far as the call had got.                *)
Fail ==
  /\ input' = FinalisedInput
  /\ connected' \in BOOLEAN
  /\ UNCHANGED session

CreateUser ==
  /\ \A k \in Kinds : Usable(input[k])
  /\ confirmation' = Nothing
  /\ Succeed \/ Fail
  /\ UNCHANGED current

LogIn ==
  /\ \A k \in Kinds : Usable(input[k])
  /\ Succeed \/ Fail
  /\ UNCHANGED <<confirmation, current>>

-----------------------------------------------------------------------------
(* ChangeKeyword, ChangePin and ChangePassword.                            *)

(* ConfirmUserInput(kCurrentPassword) finalises current_password_, then,   *)
(* if password_ is there at all, password_ and confirmation_password_.     *)
CurrentFinal == IF Usable(current) THEN Final(current) ELSE current

(* MUTANT: fields are finalised without a look at what they hold.          *)
PasswordFinal_Unchecked(f) == IF f = None THEN f ELSE Final(f)

PasswordFinal(f) ==
  IF Usable(current) /\ Usable(input["password"]) /\ Usable(f) THEN Final(f) ELSE f

Finalised ==
  /\ current' = CurrentFinal
  /\ input' = [input EXCEPT !["password"] = PasswordFinal(@)]
  /\ confirmation' = [confirmation EXCEPT !["password"] = PasswordFinal(@)]

NewPasswordOk ==
  input["password"] = None
  \/ /\ Usable(input["password"]) /\ Usable(confirmation["password"])
     /\ input["password"].text = confirmation["password"].text

(* MUTANT: only the current password is compared.                          *)
CurrentPasswordOk_OnlyCurrent ==
  Usable(current) /\ current.text = session["password"]

(* MUTANT: the current password is compared only when no new one is typed.  *)
CurrentPasswordOk_OnlyNew ==
  /\ Usable(current)
  /\ IF input["password"] = None THEN current.text = session["password"]
     ELSE NewPasswordOk

CurrentPasswordOk ==
  /\ Usable(current) /\ current.text = session["password"]
  /\ NewPasswordOk

(* The password of session_ is read once the other checks have succeeded.  *)
ReadsSession == Usable(current) /\ NewPasswordOk

(* The check fails or throws, or ClientMaid throws: a name that has not    *)
(* been finalised has no string, and any of its network calls may fail.    *)
ChangeFails ==
  /\ session = Nothing => ~ ReadsSession
  /\ Finalised
  /\ UNCHANGED <<session, connected>>

(* ClientMaid returns for the session's credential with field k replaced.  *)
(* Neither the confirmation of a keyword nor that of a pin is looked at.   *)
Change(k) ==
  /\ session # Nothing /\ connected
  /\ CurrentPasswordOk
  /\ input[k] # None /\ (k = "password" \/ input[k].final)
  /\ session' = [session EXCEPT ![k] = input[k].text]
  /\ input' = IF k = "password" THEN [input EXCEPT ![k] = None]
              ELSE [input EXCEPT ![k] = None, !["password"] = PasswordFinal(@)]
  /\ confirmation' = IF k = "password" THEN [confirmation EXCEPT ![k] = None]
              ELSE [confirmation EXCEPT ![k] = None, !["password"] = PasswordFinal(@)]
  /\ current' = None
  /\ UNCHANGED connected

(* A null pointer is followed: a field that was never typed, client_nfs_,  *)
(* or the password of a session nobody has logged in to.                   *)
NullPointer ==
  /\ \/ \E k \in Kinds : Reaches(k) /\ input[k] = None
     \/ session = Nothing /\ ReadsSession
     \/ /\ session # Nothing /\ CurrentPasswordOk
        /\ \E k \in Kinds :
             \/ input[k] = None
             \/ ~ connected /\ (k = "password" \/ input[k].final)
  /\ input' = Nothing /\ confirmation' = Nothing /\ current' = None
  /\ session' = Nothing
  /\ connected' = FALSE

Next ==
  \/ Edit \/ \E k \in Kinds : Confirm(k)
  \/ FinaliseThrows \/ CreateUser \/ LogIn
  \/ ChangeFails \/ \E k \in Kinds : Change(k)
  \/ NullPointer

Spec == Init /\ [][Next]_vars

-----------------------------------------------------------------------------
(* Properties. *)

(* The step takes all three fields of a user who has typed them: it is      *)
(* CreateUser or LogIn that succeeds. A change takes one.                   *)
TakesAll == (\A k \in Kinds : Usable(input[k])) /\ input' = Nothing

(* Nothing but a log in or the creation of a user changes the session       *)
(* unless the password it had has been typed, whatever earlier calls, such  *)
(* as a CreateUser or LogIn that failed, have left in the fields, on which  *)
(* depends what ConfirmUserInput compares.                                  *)
CurrentPasswordAsked ==
  [][session # Nothing /\ session' \notin {session, Nothing} /\ ~ TakesAll
     => Usable(current) /\ current.text = session["password"]]_vars

(* ... and its password changes only to one typed twice alike: a password_  *)
(* that a failed call has left finalised is not taken unconfirmed.          *)
PasswordTypedTwice ==
  [][/\ session # Nothing /\ session'["password"] \notin {session["password"], None}
     /\ ~ TakesAll
     => /\ Usable(confirmation["password"])
        /\ session'["password"] = confirmation["password"].text]_vars
=============================================================================
