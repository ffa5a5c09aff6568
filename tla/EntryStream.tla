----------------------------- MODULE EntryStream -----------------------------
(***************************************************************************)
(* What a loop over DirEntries is promised: the entries of one directory,  *)
(* each once and in the kernel's order, but for those that were removed    *)
(* before they were reached; if the directory cannot be read to its end,   *)
(* one error in the place of the rest; then the end.                       *)
(***************************************************************************)
EXTENDS Sequences, SequencesExt

CONSTANTS Listing, Error, None

VARIABLES
    directory,   \* how many directories have been opened
    left,        \* what the loop is still to be given
    got,         \* what it has in hand: an entry, Error or None
    over         \* nothing will follow

vars == <<directory, left, got, over>>

Init == directory = 0 /\ left = <<>> /\ got = None /\ over = TRUE

\* The next directory, once nothing will follow of the last one.
Open ==
    /\ over /\ directory < Len(Listing)
    /\ directory' = directory + 1
    /\ left' = Listing[directory']
    /\ got' = None /\ over' = FALSE

Give ==
    /\ got = None /\ left # <<>>
    /\ got' = Head(left) /\ left' = Tail(left)
    /\ over' = (got' = Error)
    /\ UNCHANGED directory

Done ==
    /\ got # None /\ got' = None
    /\ over' \in {over, TRUE} /\ (over' => left = <<>>)
    /\ UNCHANGED <<directory, left>>

End == left = <<>> /\ over' = TRUE /\ UNCHANGED <<directory, left, got>>

Fail ==
    /\ ~over /\ got = None
    /\ left' = <<Error>>
    /\ UNCHANGED <<directory, got, over>>

Vanish ==
    /\ \E i \in DOMAIN left : left[i] # Error /\ left' = RemoveAt(left, i)
    /\ UNCHANGED <<directory, got, over>>

Next == Open \/ Give \/ Done \/ End \/ Fail \/ Vanish

Spec == Init /\ [][Next]_vars
=============================================================================
