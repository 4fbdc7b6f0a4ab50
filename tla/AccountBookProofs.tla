------------------------- MODULE AccountBookProofs -------------------------
(* What the abstract account book promises, for all sets of credentials.  *)
EXTENDS AccountBook, TLAPS

(* An account that exists keeps a credential that opens it: a change of    *)
(* credentials may replace the last one but never withdraw it.             *)
LEMMA BookNeverLocks == Spec => NeverLockedOut
<1>1. ASSUME Next PROVE valid # {} => valid' # {}
  <2>1. ASSUME NEW c \in Cred, Store(c) PROVE valid' # {}
    BY <2>1 DEF Store
  <2>2. ASSUME NEW c \in Cred, Withdraw(c) PROVE valid' # {}
    BY <2>2 DEF Withdraw
  <2> QED
    BY <1>1, <2>1, <2>2 DEF Next
<1>2. [Next]_valid => [valid # {} => valid' # {}]_valid
  BY <1>1
<1> QED
  BY <1>2, PTL DEF Spec, NeverLockedOut

(* Two valid credentials differ in keyword or pin, so a change of password *)
(* revokes the old password.                                               *)
LEMMA BookOnePassword == Spec => [](TypeOK /\ OnePassword)
<1>1. Init => TypeOK /\ OnePassword
  BY DEF Init, TypeOK, OnePassword
<1>2. TypeOK /\ OnePassword /\ [Next]_valid => (TypeOK /\ OnePassword)'
  <2> SUFFICES ASSUME TypeOK, OnePassword, [Next]_valid
               PROVE  TypeOK' /\ OnePassword'
    OBVIOUS
  <2>1. ASSUME NEW c \in Cred, Store(c) PROVE TypeOK' /\ OnePassword'
    BY <2>1 DEF Store, TypeOK, OnePassword, SameMid
  <2>2. ASSUME NEW c \in Cred, Withdraw(c) PROVE TypeOK' /\ OnePassword'
    BY <2>2 DEF Withdraw, TypeOK, OnePassword
  <2>3. CASE UNCHANGED valid
    BY <2>3 DEF TypeOK, OnePassword
  <2> QED
    BY <2>1, <2>2, <2>3 DEF Next
<1> QED
  BY <1>1, <1>2, PTL DEF Spec
=============================================================================
