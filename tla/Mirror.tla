-------------------------------- MODULE Mirror --------------------------------
(***************************************************************************)
(* What a feed promises: of some markets it shows a state the market had,  *)
(* later ones as time goes by and never an earlier one, until it shows the *)
(* market no more.  A state is the number of updates it has seen.          *)
(***************************************************************************)
EXTENDS Integers

CONSTANT Tickers

VARIABLES
  truth,  \* updates so far per ticker
  shown   \* ticker -> the updates shown, of those that are

Init == truth = [t \in Tickers |-> 0] /\ shown = [t \in {} |-> 0]

Move(t) == truth' = [truth EXCEPT ![t] = @ + 1] /\ UNCHANGED shown

Show(t, n) ==
  /\ n <= truth[t]
  /\ t \in DOMAIN shown => shown[t] <= n
  /\ shown' = [u \in DOMAIN shown \cup {t} |-> IF u = t THEN n ELSE shown[u]]
  /\ UNCHANGED truth

Hide(S) ==
  /\ shown' = [u \in DOMAIN shown \ S |-> shown[u]]
  /\ UNCHANGED truth

Next ==
  \/ \E t \in Tickers : Move(t) \/ \E n \in 0..truth[t] : Show(t, n)
  \/ \E S \in SUBSET Tickers : Hide(S)

Spec == Init /\ [][Next]_<<truth, shown>>
=============================================================================
