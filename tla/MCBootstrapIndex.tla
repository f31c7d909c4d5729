--------------------------- MODULE MCBootstrapIndex ---------------------------
(* Constants for checking BootstrapIndex on small instances. *)
EXTENDS BootstrapIndex, TLC

CONSTANTS p1, v1, v2, v3

MCSymmetry == Permutations(Versions)
=============================================================================
