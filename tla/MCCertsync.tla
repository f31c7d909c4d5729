----------------------------- MODULE MCCertsync -----------------------------
(* Constants for checking Certsync on small instances. *)
EXTENDS Certsync

CONSTANT c1

MCOneCert == {c1}
=============================================================================
