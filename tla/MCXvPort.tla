------------------------------ MODULE MCXvPort ------------------------------
(***************************************************************************)
(* XvPort for TLC: bos are interchangeable, and handles.  One image is     *)
(* planar, with planes that need no padding, and one is packed and larger  *)
(* than an import may be.  The stages that they need are of both buckets,  *)
(* or of none; the rest of the server has bos of the smaller one.          *)
(***************************************************************************)
EXTENDS XvPort, TLC

MCImages ==
  {[fourcc |-> "YV12", width |-> 16, height |-> 64],
   [fourcc |-> "XRGB8888", width |-> 64, height |-> 32]}

Symmetry == Permutations(Bos) \union Permutations(Handles)
=============================================================================
