-------------------------- MODULE UserInputProofs --------------------------
(***************************************************************************)
(* What UserInput guarantees for any set of texts.                         *)
(***************************************************************************)
EXTENDS UserInput, TLAPS

USE DEF Kinds

-----------------------------------------------------------------------------
(* Fields. *)

(* Finalising a usable field keeps its text.                                *)
LEMMA FinalField ==
  ASSUME NEW f \in Field \cup {None}, Usable(f)
  PROVE  Final(f) \in Field /\ Final(f).text = f.text /\ f.text \in Texts
PROOF
  BY DEF Field, Usable, Final

(* What ConfirmUserInput makes of the fields of a change of password.       *)
LEMMA ChangedFields ==
  ASSUME TypeOK
  PROVE  /\ CurrentFinal \in Field \cup {None}
         /\ \A f \in Field \cup {None} : PasswordFinal(f) \in Field \cup {None}
         /\ FinalisedInput \in [Kinds -> Field \cup {None}]
PROOF
<1>1. CurrentFinal \in Field \cup {None}
  BY FinalField DEF CurrentFinal, TypeOK
<1>2. ASSUME NEW f \in Field \cup {None} PROVE PasswordFinal(f) \in Field \cup {None}
  BY <1>2, FinalField DEF PasswordFinal
<1>3. ASSUME NEW k \in Kinds
      PROVE  (IF Reaches(k) /\ Usable(input[k]) THEN Final(input[k]) ELSE input[k])
               \in Field \cup {None}
  BY <1>3, FinalField DEF TypeOK
<1>4. FinalisedInput \in [Kinds -> Field \cup {None}]
  BY <1>3 DEF FinalisedInput
<1> QED
  BY <1>1, <1>2, <1>4

(* Editing leaves a field that is not finalised.                            *)
LEMMA EditedField ==
  ASSUME NEW f, NEW e \in Edited(f)
  PROVE  e \in Field
PROOF
<1>1. PICK x \in (IF f = None THEN Texts ELSE Texts \cup {Empty}) : e = [text |-> x, final |-> FALSE]
  BY DEF Edited
<1>2. x \in Texts \cup {Empty}
  BY <1>1
<1> QED
  BY <1>1, <1>2 DEF Field

(* What CreateUser and LogIn are called with is text.                       *)
LEMMA TypedTexts ==
  ASSUME TypeOK, \A k \in Kinds : Usable(input[k])
  PROVE  Typed \in [Kinds -> Texts]
PROOF
<1>1. ASSUME NEW k \in Kinds PROVE input[k].text \in Texts
  BY <1>1, FinalField DEF TypeOK
<1> QED
  BY <1>1 DEF Typed

(* What a change replaces a credential by is text.                          *)
LEMMA ChangedTexts ==
  ASSUME TypeOK, NEW k \in Kinds, Change(k)
  PROVE  [session EXCEPT ![k] = input[k].text] \in [Kinds -> Texts]
PROOF
<1>1. session \in [Kinds -> Texts]
  BY DEF Change, TypeOK
<1>2. input[k].text \in Texts
  <2>1. input[k] \in Field
    BY DEF Change, TypeOK
  <2>2. CASE k = "password"
    BY <2>2, <2>1, FinalField DEF Change, CurrentPasswordOk, NewPasswordOk
  <2>3. CASE input[k].final
    BY <2>1, <2>3 DEF Field
  <2> QED
    BY <2>2, <2>3 DEF Change
<1> QED
  BY <1>1, <1>2

-----------------------------------------------------------------------------
(* The invariant. *)

(* At first nothing is typed and nobody is logged in.                       *)
LEMMA InitInv == Init => TypeOK
PROOF
  BY DEF Init, TypeOK, Nothing

(* Fields hold what can be typed, and finalised ones what can be used.      *)
LEMMA StepInv == TypeOK /\ [Next]_vars => TypeOK'
PROOF
<1> SUFFICES ASSUME TypeOK, [Next]_vars PROVE TypeOK'
  OBVIOUS
<1> USE DEF fields
<1> Nothing \in [Kinds -> Field \cup {None}]
  BY DEF Nothing
<1>1. CASE Edit
  <2>1. ASSUME NEW k \in Kinds, NEW f \in Edited(input[k]),
               input' = [input EXCEPT ![k] = f] /\ UNCHANGED <<confirmation, current>>
        PROVE  TypeOK'
    BY <1>1, <2>1, EditedField DEF Edit, TypeOK
  <2>2. ASSUME NEW k \in Kinds, NEW f \in Edited(confirmation[k]),
               confirmation' = [confirmation EXCEPT ![k] = f] /\ UNCHANGED <<input, current>>
        PROVE  TypeOK'
    BY <1>1, <2>2, EditedField DEF Edit, TypeOK
  <2>3. ASSUME NEW f \in Edited(current), current' = f /\ UNCHANGED <<input, confirmation>>
        PROVE  TypeOK'
    BY <1>1, <2>3, EditedField DEF Edit, TypeOK
  <2> QED
    BY <1>1, <2>1, <2>2, <2>3 DEF Edit
<1>2. ASSUME NEW k \in Kinds, Confirm(k) PROVE TypeOK'
  <2>1. Final(input[k]) \in Field
    BY <1>2, FinalField DEF Confirm, TypeOK
  <2>2. (IF Usable(confirmation[k]) THEN Final(confirmation[k]) ELSE confirmation[k])
          \in Field \cup {None}
    BY <1>2, FinalField DEF TypeOK
  <2> QED
    BY <1>2, <2>1, <2>2 DEF Confirm, TypeOK
<1>3. CASE FinaliseThrows
  BY <1>3, ChangedFields DEF FinaliseThrows, TypeOK
<1>4. CASE CreateUser
  BY <1>4, TypedTexts, ChangedFields DEF CreateUser, Succeed, Fail, TypeOK
<1>5. CASE LogIn
  BY <1>5, TypedTexts, ChangedFields DEF LogIn, Succeed, Fail, TypeOK
<1>6. CASE ChangeFails
  BY <1>6, ChangedFields DEF ChangeFails, Finalised, TypeOK
<1>7. ASSUME NEW k \in Kinds, Change(k) PROVE TypeOK'
  <2>1. session' \in [Kinds -> Texts]
    BY <1>7, ChangedTexts DEF Change
  <2>2. input' \in [Kinds -> Field \cup {None}] /\ confirmation' \in [Kinds -> Field \cup {None}]
    BY <1>7, ChangedFields DEF Change, TypeOK
  <2>3. current' = None /\ connected' = connected
    BY <1>7 DEF Change
  <2> QED
    BY <2>1, <2>2, <2>3 DEF TypeOK
<1>8. CASE NullPointer
  BY <1>8 DEF NullPointer, TypeOK
<1>9. CASE UNCHANGED vars
  BY <1>9 DEF vars, TypeOK
<1> QED
  BY <1>1, <1>2, <1>3, <1>4, <1>5, <1>6, <1>7, <1>8, <1>9 DEF Next

(* Type correctness, for any texts: a finalised field is never empty.       *)
THEOREM TypeCorrect == Spec => []TypeOK
PROOF
  BY InitInv, StepInv, PTL DEF Spec

-----------------------------------------------------------------------------
(* What changes a session. *)

(* Of all calls that do not take every field only a change does.            *)
LEMMA OnlyChange ==
  ASSUME [Next]_vars, session # Nothing, session' \notin {session, Nothing}, ~ TakesAll
  PROVE  \E k \in Kinds : Change(k)
PROOF
  BY DEF Next, Edit, Confirm, FinaliseThrows, CreateUser, LogIn, Succeed, Fail, TakesAll,
         ChangeFails, NullPointer, vars, fields

(* Whatever calls, failed or not, have gone before, a change succeeds only  *)
(* with the current password.                                               *)
THEOREM NoChangeUnasked == Spec => CurrentPasswordAsked
PROOF
<1> DEFINE A == session # Nothing /\ session' \notin {session, Nothing} /\ ~ TakesAll
                => Usable(current) /\ current.text = session["password"]
<1>1. [Next]_vars => [A]_vars
  BY OnlyChange DEF Change, CurrentPasswordOk
<1> QED
  BY <1>1, PTL DEF Spec, CurrentPasswordAsked

(* ... and sets a new password only if it was typed twice, and alike.       *)
THEOREM NoPasswordMistyped == Spec => PasswordTypedTwice
PROOF
<1> DEFINE A == /\ session # Nothing /\ session'["password"] \notin {session["password"], None}
                /\ ~ TakesAll
                => /\ Usable(confirmation["password"])
                   /\ session'["password"] = confirmation["password"].text
<1>1. ASSUME TypeOK, [Next]_vars PROVE [A]_vars
  <2> SUFFICES ASSUME session # Nothing, ~ TakesAll,
                      session'["password"] \notin {session["password"], None}
               PROVE  /\ Usable(confirmation["password"])
                      /\ session'["password"] = confirmation["password"].text
    OBVIOUS
  <2>1. session' \notin {session, Nothing}
    BY DEF Nothing
  <2>2. PICK k \in Kinds : Change(k)
    BY <1>1, <2>1, OnlyChange
  <2>3. session' = [session EXCEPT ![k] = input[k].text] /\ session \in [Kinds -> Texts]
    BY <1>1, <2>2 DEF Change, TypeOK
  <2>4. k = "password"
    BY <2>3
  <2> QED
    BY <2>2, <2>3, <2>4 DEF Change, CurrentPasswordOk, NewPasswordOk
<1> QED
  BY <1>1, TypeCorrect, PTL DEF Spec, PasswordTypedTwice
=============================================================================
