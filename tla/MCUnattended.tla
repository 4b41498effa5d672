----------------------------- MODULE MCUnattended ------------------------------
(***************************************************************************)
(* A small instance of Unattended: two markets, longs and a short left of  *)
(* sessions, fills of a check in twos.                                     *)
(***************************************************************************)
EXTENDS Unattended

MCLeftovers == {-1, 0, 2}

MCSamples ==
  [makers : {0, 2}, blind : 0..1, fee : {-1, 0, 3}, takers : 0..1, takerFee : 0..1,
   scored : {0, 2}, markout : {-2, 0, 2}, balance : 0..1]
=============================================================================
