----------------------------- MODULE MCScanout ------------------------------
(* Small instances of Scanout.                                             *)
EXTENDS Scanout, TLC

Symmetry == Permutations(Crtcs) \union Permutations(Bos)
=============================================================================
