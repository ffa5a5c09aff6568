------------------------------ MODULE MCFront ------------------------------
EXTENDS FrontEnd, TLC

MCKinds == ("a" :> "file") @@ ("b" :> "file") @@ ("c" :> "dir")
           @@ ("d" :> "dir") @@ ("e" :> "none") @@ ("-" :> "file")
           @@ ("-f" :> "file") @@ ("-r" :> "none") @@ ("--" :> "none")
MCLetters == ("-f" :> <<"f">>) @@ ("-r" :> <<"r">>) @@ ("-I" :> <<"I">>)
             @@ ("-fi" :> <<"f", "i">>) @@ ("-if" :> <<"i", "f">>)
             @@ ("-d" :> <<"d">>) @@ ("-rx" :> <<"r", "x">>)
             @@ ("-W" :> <<"W">>) @@ ("-z" :> <<"z">>)
MCArgs == {<<>>, <<"-f">>, <<"a">>, <<"-f", "a", "e">>, <<"-r", "d", "b">>,
           <<"-r", "-f", "d", "c">>, <<"-d", "c", "d">>, <<"-d", "-f", "c">>,
           <<"c", "a">>, <<"--", "-f">>, <<"-fi", "a">>, <<"-if", "a", "-r">>,
           <<"-rx", "d">>, <<"-W", "a">>, <<"-z", "a">>, <<"-f", "-", "a", "a">>,
           <<"-r", "-f", ".", "a">>, <<"-f", ".">>, <<"-W", ".">>,
           <<"-r", "d", "d">>, <<"-r", "-f", "c", "c">>}
MCAsk == {<<"-I", "a", "b", "-", "e">>, <<"-I", "-d", "a", "b", "-f", "c">>,
          <<"-I", "-r", "c">>, <<"-I", "-r", "a", "b">>}
MCUnlink == {<<>>, <<"a">>, <<"--">>, <<"--", "-f">>, <<"-f", "a">>, <<"d">>}
MCCommands ==
    [unlink : {FALSE}, args : MCArgs, root : BOOLEAN] \cup
    [unlink : {FALSE}, args : MCAsk, root : {FALSE}] \cup
    [unlink : {TRUE}, args : MCUnlink, root : {FALSE}]

MCNewline == "\n"
MCInputs == {<<>>, <<"y">>, <<"Y", "\n">>, <<"x", "y", "\n", "n", "\n">>,
             <<"\n", "\n", "y", "x", "\n">>, <<"x", "n", "y">>,
             <<"x", "\n", "N", "y", "\n", "y">>, <<"x", "y", "n", "\n", "y">>}
=============================================================================
