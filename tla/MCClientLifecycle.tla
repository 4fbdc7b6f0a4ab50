------------------------- MODULE MCClientLifecycle -------------------------
(* ClientLifecycle for TLC. Nothing distinguishes one account from another. *)
EXTENDS ClientLifecycle, TLC

AccountSymmetry == Permutations(Accounts)
=============================================================================
