--------------------------- MODULE MCWalkOverlap ---------------------------
EXTENDS RemmyWalk, TLC

CONSTANTS r, a, c, e, f, ra, rc, re, rf, w1, w2

\* "r" and "r/a": what the second one finds under its own names.
MCDir == {r, a, c, e, ra, rc, re}
MCFile == {f, rf}
MCParent ==
    (r :> None) @@ (ra :> r) @@ (rc :> ra) @@ (re :> rc) @@ (rf :> ra)
    @@ (a :> None) @@ (c :> a) @@ (e :> c) @@ (f :> a)
MCOperands == <<r, a>>
MCReal ==
    (r :> r) @@ (ra :> a) @@ (rc :> c) @@ (re :> e) @@ (rf :> f)
    @@ (a :> a) @@ (c :> c) @@ (e :> e) @@ (f :> f)
MCFaults == {<<"none", None>>, <<"open", c>>}
=============================================================================
