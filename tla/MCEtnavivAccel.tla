--------------------------- MODULE MCEtnavivAccel ---------------------------
(***************************************************************************)
(* EtnavivAccel for TLC: pixmaps are interchangeable.                      *)
(***************************************************************************)
EXTENDS EtnavivAccel, TLC

PixmapSymmetry == Permutations(Pixmaps)
=============================================================================
