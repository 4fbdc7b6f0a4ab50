--------------------------- MODULE MCSessionStore ---------------------------
(* Small instances of SessionStore for TLC.  What a user types is compared *)
(* for equality only, so keywords, pins and passwords are interchangeable. *)
EXTENDS SessionStore, TLC

Interchangeable ==
  Permutations(Keywords) \cup Permutations(Pins) \cup Permutations(Passwords)
=============================================================================
