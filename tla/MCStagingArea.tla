---------------------------- MODULE MCStagingArea ----------------------------
(* Instances of StagingArea for TLC: two targets with file names of their   *)
(* own.                                                                     *)
EXTENDS StagingArea

CONSTANTS p1, p2, n1, n2

TwoNames == (p1 :> n1) @@ (p2 :> n2)
==============================================================================
