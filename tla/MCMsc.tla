------------------------------- MODULE MCMsc --------------------------------
(***************************************************************************)
(* Msc for TLC: a request for a frame that is to come or has passed, and   *)
(* two with a divisor.  The CRTCs are alike.                               *)
(***************************************************************************)
EXTENDS Msc, TLC

Request(t, d, m) == [target |-> t, divisor |-> d, remainder |-> m]
SmallRequests ==
  {Request(1, 0, 0), Request(0, 2, 1), Request(2, 3, 0)}
Symmetry == Permutations(Crtcs)
=============================================================================
