------------------------------ MODULE MCOutput ------------------------------
EXTENDS OutputStack, TLC

CONSTANTS a, b, c, w1

MCWork == (w1 :> <<a, b>>) @@ (Main :> <<c>>)
MCEnds == (a :> <<1, 1, 2>>) @@ (b :> <<2>>) @@ (c :> <<1, 2, 3>>)
MCSetups ==
    [verbose : {TRUE}, shared : {0, 4}, handle : {0}, concat : BOOLEAN] \cup
    [verbose : {TRUE}, shared : {3}, handle : {2}, concat : BOOLEAN] \cup
    [verbose : {FALSE}, shared : {0}, handle : {0}, concat : {TRUE}]
=============================================================================
