----------------------------- MODULE MCEventBus -----------------------------
(* Two publishers, one stream each or both on one stream, for TLC.         *)
EXTENDS EventBus, TLC

CONSTANTS p1, p2, s1, s2

MCOneOwnerEach == p1 :> {s1} @@ p2 :> {s2}
MCSharedStream == p1 :> {s1} @@ p2 :> {s1}
=============================================================================
