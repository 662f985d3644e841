---------------------------- MODULE MCRunServer -----------------------------
(* Instances of RunServer for TLC.                                         *)
EXTENDS RunServer, TLC

Symmetry == Permutations(Runs)
=============================================================================
