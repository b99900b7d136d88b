------------------------------ MODULE MCDri2 --------------------------------
(***************************************************************************)
(* Dri2 for TLC: one client with one window, two waits and two buffers.    *)
(***************************************************************************)
EXTENDS Dri2
=============================================================================
