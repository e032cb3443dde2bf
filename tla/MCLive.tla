------------------------------- MODULE MCLive -------------------------------
(* One spread of two legs, the first of which may fill in part, and a      *)
(* package without legs that only brings greeks, for TLC.                  *)
EXTENDS LiveReconciliation, TLC

CONSTANTS p1, p2, l1, l2, c1, c2, A, B

MCLegSeq == p1 :> <<l1, l2>> @@ p2 :> << >>
MCClient == l1 :> c1 @@ l2 :> c2
MCSymbol == c1 :> A @@ c2 :> B
MCSide == c1 :> 1 @@ c2 :> -1
MCQuantity == c1 :> 2 @@ c2 :> 1

MCDims == {"delta", "vega"}
Greeks(delta, vega) == [delta |-> delta, vega |-> vega]
MCLimit == Greeks(3, 3)
MCNothingHeld == [p \in Packages |-> Greeks(0, 0)]
MCProposals == {Greeks(2, -1), Greeks(-1, 2)}
=============================================================================
