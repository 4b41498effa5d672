--------------------------------- MODULE Price --------------------------------
(***************************************************************************)
(* The prices of market/price.py: a number of ticks up to ONE_DOLLAR.      *)
(***************************************************************************)
EXTENDS Integers

CONSTANT OneDollar

Prices  == 0..OneDollar
NoPrice == -1     \* Python's None
=============================================================================
