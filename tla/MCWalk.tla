------------------------------- MODULE MCWalk -------------------------------
EXTENDS RemmyWalk, TLC

CONSTANTS r, a, b, c, f, w1, w2

MCDir == {r, a, b, c}
MCFile == {f}
MCParent == (r :> None) @@ (a :> r) @@ (b :> r) @@ (c :> a) @@ (f :> a)
MCOperands == <<r>>
MCReal == [x \in Object |-> x]
MCFaults == Refusals
=============================================================================
