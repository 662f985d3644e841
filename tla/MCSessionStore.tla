--------------------------- MODULE MCSessionStore ---------------------------
(* Instances of SessionStore for TLC.                                      *)
EXTENDS SessionStore, TLC

Symmetry ==
  Permutations(LockIds) \cup Permutations(Tasks) \cup Permutations(Sessions)
=============================================================================
