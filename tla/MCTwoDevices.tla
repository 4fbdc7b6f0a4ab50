---------------------------- MODULE MCTwoDevices ----------------------------
(* A small instance of TwoDevices for TLC, with the symmetry of SessionStore. *)
EXTENDS TwoDevices, TLC

Interchangeable ==
  Permutations(Keywords) \cup Permutations(Pins) \cup Permutations(Passwords)

(* Bound: what follows once the devices have both crossed and raced, of     *)
(* which LostOnlyByCrossing and NoRollback say nothing.                     *)
Undisturbed == ~ (crossed /\ raced)
=============================================================================
