----------------------------- MODULE MCDirReader -----------------------------
EXTENDS DirReader, TLC

CONSTANTS a, b, c, d, e

MCListing == << <<a, b, c, d>>, <<e, a, b>>, <<>> >>
MCLength == (a :> 1) @@ (b :> 2) @@ (c :> 1) @@ (d :> 3) @@ (e :> 2) @@ (Junk :> 1)
=============================================================================
