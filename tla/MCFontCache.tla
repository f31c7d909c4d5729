----------------------------- MODULE MCFontCache -----------------------------
(* Constants for checking FontCache on small instances. *)
EXTENDS FontCache, TLC

MCSymmetry == Permutations(Fonts)
=============================================================================
