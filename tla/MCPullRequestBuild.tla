-------------------------- MODULE MCPullRequestBuild --------------------------
(* Constants for checking PullRequestBuild on small instances. *)
EXTENDS PullRequestBuild

CONSTANTS zlib, py, py1, py2

\* zlib is one port, py a directory with two.
MCSubportsOf == [d \in {zlib, py} |-> IF d = zlib THEN {zlib} ELSE {py1, py2}]
=============================================================================
