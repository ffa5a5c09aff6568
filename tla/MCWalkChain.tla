---------------------------- MODULE MCWalkChain ----------------------------
EXTENDS RemmyWalk, TLC

CONSTANTS r, a, b, c, w1, w2

MCDir == {r, a, b, c}
MCParent == (r :> None) @@ (a :> r) @@ (b :> r) @@ (c :> a)
MCOperands == <<r>>
MCReal == [x \in Object |-> x]
MCFaults == Refusals
=============================================================================
