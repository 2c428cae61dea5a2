------------------------------- MODULE MCRelay -------------------------------
(* Model checking of Relay.                                                *)
EXTENDS Relay, TLC

CONSTANTS p1, p2, c1, s1, s2, k1, k2

TwoCanvases == s1 :> k1 @@ s2 :> k2
WatchFirst == c1 :> k1
Symmetry == Permutations(Producers)
=============================================================================
