--------------------------- MODULE MCLegacysupport ---------------------------
(* Constants for checking Legacysupport on a system of 10.6: the default of *)
(* the newest version asks for support, a Portfile may exclude the system,  *)
(* or just include it.                                                      *)
EXTENDS Legacysupport

MCNewest == {9, 10, 18}
=============================================================================
