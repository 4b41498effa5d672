------------------------------ MODULE MCQuoting -------------------------------
(***************************************************************************)
(* Instances of Quoting for TLC.                                           *)
(***************************************************************************)
EXTENDS Quoting

Touch(bid, ask, bidSize, askSize) ==
  [bid |-> bid, ask |-> ask, bidSize |-> bidSize, askSize |-> askSize]

(* A tight book heavy on a side, a wide and a too wide one, and one side    *)
(* empty.                                                                  *)
MCTouches ==
  {Touch(5, 6, 4, 1), Touch(2, 6, 4, 4), Touch(1, 7, 2, 2), Touch(3, NoPrice, 4, 0)}

MCSessions ==
  {<<<<"dumb", "obigate">>, None>>, <<<<"dumb", "phased">>, 3>>,
   <<<<"adaptive", "plain">>, None>>, <<<<"horizon", "plain">>, None>>,
   <<<<"horizon", "plain">>, 3>>, <<<<"horizon", "defended">>, 3>>,
   <<<<"horizon", "symmetric">>, 3>>, <<<<"momo", "plain">>, None>>}

MCHoldings == {0, 2}
MCEstimates == {[move |-> 0, risk |-> 0], [move |-> 4, risk |-> 2]}
MCGrid == 1..7
=============================================================================
