---------------------------- MODULE MCWalkRoots ----------------------------
EXTENDS RemmyWalk, TLC

CONSTANTS r, q, a, w1, w2

MCDir == {r, q, a}
MCParent == (r :> None) @@ (q :> None) @@ (a :> r)
MCOperands == <<r, q>>
MCReal == [x \in Object |-> x]
MCFaults == Refusals
=============================================================================
