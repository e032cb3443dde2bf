---------------------------- MODULE MCLifecycle ----------------------------
(* Two packages, a spread of two legs and a single leg, for TLC.           *)
EXTENDS LifecycleEngine, TLC

CONSTANTS p1, p2, l1, l2, l3, c1, c2, c3, A, B

MCLegSeq == p1 :> <<l1, l2>> @@ p2 :> <<l3>>
MCClient == l1 :> c1 @@ l2 :> c2 @@ l3 :> c3

\* The legs of a symbol are all on one side.
MCSymbol == c1 :> A @@ c2 :> B @@ c3 :> A
MCSide == c1 :> 1 @@ c2 :> -1 @@ c3 :> 1
MCQuantity == c1 :> 2 @@ c2 :> 1 @@ c3 :> 1

MCDims == {"delta", "vega"}
Greeks(delta, vega) == [delta |-> delta, vega |-> vega]
MCLimit == Greeks(3, 3)
MCNothingHeld == [p \in Packages |-> Greeks(0, 0)]
\* p1 is registered with a holding of its own.
MCSomethingHeld == p1 :> Greeks(3, 0) @@ p2 :> Greeks(0, 0)
MCNoGreeks == {Greeks(0, 0)}
MCProposals == {Greeks(2, -1), Greeks(-1, 1)}
=============================================================================
