--------------------------- MODULE MCMirrorPipeline ---------------------------
(* Constants for checking MirrorPipeline on small instances. *)
EXTENDS MirrorPipeline

CONSTANTS p1, p2

MCPorts == {p1, p2}

\* The runner is one of the platforms of Darwin 25, 26 (skipped) and 27.
MCNative == <<25, "arm">>
=============================================================================
