----------------------------- MODULE ArrayValues -----------------------------
(***************************************************************************)
(* HeapArray as its users see it: every array has a value of its own and   *)
(* an allocator.  A copy is equal and independent, a move takes the value  *)
(* and leaves nothing, and the allocator goes along when the allocator     *)
(* type says that it propagates.                                           *)
(***************************************************************************)
EXTENDS Integers, Sequences

CONSTANTS Array, Allocator, Value, MovedFrom, Absent

VARIABLES
    value,     \* per array: a sequence
    alloc,     \* per array: its allocator, Absent when there is no array
    traits     \* what propagates on copy, move and swap

vars == <<value, alloc, traits>>

Alive(x) == alloc[x] # Absent

Init ==
    /\ value = [x \in Array |-> <<>>]
    /\ alloc = [x \in Array |-> Absent]
    /\ traits \in [{"copy", "move", "swap"} -> BOOLEAN]

Set(x, v, a) ==
    /\ value' = [value EXCEPT ![x] = v]
    /\ alloc' = [alloc EXCEPT ![x] = a]
    /\ UNCHANGED traits

Transfer(x, o, left, a) ==
    /\ value' = [value EXCEPT ![x] = value[o], ![o] = left]
    /\ alloc' = [alloc EXCEPT ![x] = a]
    /\ UNCHANGED traits

\* Any list of values.
SetAny(x, a) ==
    /\ value'[x] \in Seq(Value)
    /\ Set(x, value'[x], a)

AllMoved(o) == [i \in 1 .. Len(value[o]) |-> MovedFrom]
Kept(trait, x, o) == IF traits[trait] THEN alloc[o] ELSE alloc[x]

Begin(x) ==
    /\ ~Alive(x)
    /\ \E a \in Allocator :
          \/ SetAny(x, a)
          \/ \E o \in Array : Alive(o) /\ Set(x, value[o], a)

\* Only this move may leave moved-from elements behind.
BeginFrom(x, o) ==
    /\ ~Alive(x) /\ Alive(o)
    /\ \/ Transfer(x, o, <<>>, alloc[o])
       \/ \E a \in Allocator :
             Transfer(x, o, IF a = alloc[o] THEN <<>> ELSE AllMoved(o), a)

Assign(x, o) ==
    /\ Alive(x) /\ Alive(o) /\ x # o
    /\ \/ Set(x, value[o], Kept("copy", x, o))
       \/ Transfer(x, o, <<>>, Kept("move", x, o))

AssignList(x) == Alive(x) /\ SetAny(x, alloc[x])

Write(x) ==
    /\ Alive(x)
    /\ \E i \in 1 .. Len(value[x]), v \in Value :
          Set(x, [value[x] EXCEPT ![i] = v], alloc[x])

Swap(x, o) ==
    /\ Alive(x) /\ Alive(o)
    /\ value' = [value EXCEPT ![x] = value[o], ![o] = value[x]]
    /\ alloc' = [alloc EXCEPT ![x] = Kept("swap", x, o), ![o] = Kept("swap", o, x)]
    /\ UNCHANGED traits

End(x) == Alive(x) /\ Set(x, <<>>, Absent)

Next ==
    \E x \in Array :
        \/ Begin(x) \/ AssignList(x) \/ Write(x) \/ End(x)
        \/ \E o \in Array : BeginFrom(x, o) \/ Assign(x, o) \/ Swap(x, o)

Spec == Init /\ [][Next]_vars
=============================================================================
