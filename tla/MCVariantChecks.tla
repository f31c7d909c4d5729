---------------------------- MODULE MCVariantChecks ----------------------------
(* Constants for checking VariantChecks on small instances. *)
EXTENDS VariantChecks, TLC

CONSTANTS p, q, c, d, x, y

MCRequirements ==
    << [port |-> p, required |-> {x}, forbidden |-> {}],
       [port |-> q, required |-> {}, forbidden |-> {x}],
       [port |-> p, required |-> {}, forbidden |-> {y}] >>
MCPorts == {p, q, c, d}
MCVariantsOf == (p :> {x, y}) @@ (q :> {x}) @@ (c :> {}) @@ (d :> {})
MCConflicts == << c, d >>
=============================================================================
