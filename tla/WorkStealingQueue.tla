------------------------- MODULE WorkStealingQueue -------------------------
(***************************************************************************)
(* What a work-stealing queue promises its callers, as the concept         *)
(* IsWorkStealingQueue and the comments of chase_lev.hpp give it: one      *)
(* owner inserts and takes at one end, any number of thieves steal at the  *)
(* other, each operation taking effect at once.  The owner's Take is       *)
(* empty-handed only when the queue is empty; a Steal may fail because it  *)
(* lost a race.                                                            *)
(***************************************************************************)
EXTENDS Integers, Sequences

CONSTANTS Value, Owner, Thief, Empty

VARIABLES
    items,    \* the values in the queue, the oldest first
    result    \* what the last Take or Steal of each process returned

Init ==
    /\ items = <<>>
    /\ result = [p \in {Owner} \cup Thief |-> Empty]

Insert ==
    /\ \E v \in Value : items' = Append(items, v)
    /\ UNCHANGED result

Take ==
    \/ /\ items # <<>>
       /\ result' = [result EXCEPT ![Owner] = items[Len(items)]]
       /\ items' = SubSeq(items, 1, Len(items) - 1)
    \/ /\ items = <<>>
       /\ result' = [result EXCEPT ![Owner] = Empty]
       /\ UNCHANGED items

Steal(p) ==
    \/ /\ items # <<>>
       /\ result' = [result EXCEPT ![p] = Head(items)]
       /\ items' = Tail(items)
    \/ /\ result' = [result EXCEPT ![p] = Empty]
       /\ UNCHANGED items

Next == Insert \/ Take \/ \E p \in Thief : Steal(p)

Spec == Init /\ [][Next]_<<items, result>>
=============================================================================
