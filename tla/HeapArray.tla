------------------------------ MODULE HeapArray ------------------------------
(***************************************************************************)
(* cutils::HeapArray: arrays of a fixed size in a block of their own from  *)
(* an allocator, copied, moved, swapped and assigned with allocators that  *)
(* may differ and may or may not propagate.  An operation is one step (an  *)
(* array belongs to one thread); the build throws nothing, it aborts.      *)
(* A call that passes what the allocator did not give out frees nothing.   *)
(***************************************************************************)
EXTENDS Integers, Sequences

CONSTANTS
    Array,       \* objects of type HeapArray
    Allocator,   \* allocators, of one type, equal only to themselves
    Block,       \* addresses
    Value,       \* what elements hold
    MaxSize,     \* bound: how many elements an array has
    Null, MovedFrom, Absent

Elements == Value \cup {MovedFrom}
Lists == UNION {[1 .. n -> Value] : n \in 0 .. MaxSize}

ASSUME MaxSizeAssumption == MaxSize \in Nat
ASSUME NullAssumption == Null \notin Block /\ Absent \notin Allocator

VARIABLES
    mem,      \* data_, size_ and alloc_ of every array, and the heap
    traits    \* what propagates: on container copy, move, swap

vars == <<mem, traits>>

Free == [alloc |-> Absent, elems |-> <<>>]

----------------------------------------------------------------------------
(* Blocks                                                                  *)

Content(m, x) == IF m.size[x] = 0 THEN <<>> ELSE m.heap[m.data[x]].elems

\* BuildBlock: never a block of no elements.
Build(m, a, elems, b) ==
    IF elems = <<>> THEN m
    ELSE [m EXCEPT !.heap[b] = [alloc |-> a, elems |-> elems]]

Own(m, x, elems, b) ==
    [m EXCEPT !.data[x] = IF elems = <<>> THEN Null ELSE b,
              !.size[x] = Len(elems)]

SetAllocator(m, x, a) == [m EXCEPT !.alloc[x] = a]

DestroyAndDeallocate(m, x) ==
    IF /\ m.size[x] # 0
       /\ m.heap[m.data[x]].alloc = m.alloc[x]
       /\ Len(m.heap[m.data[x]].elems) = m.size[x]
    THEN [m EXCEPT !.heap[m.data[x]] = Free]
    ELSE m

MoveElements(m, o) ==
    IF m.size[o] = 0 THEN m
    ELSE [m EXCEPT !.heap[m.data[o]].elems = [i \in 1 .. Len(@) |-> MovedFrom]]

Steal(m, x, o) ==
    [m EXCEPT !.data[x] = m.data[o], !.size[x] = m.size[o],
              !.data[o] = Null, !.size[o] = 0]

Empty(m, x) ==
    [DestroyAndDeallocate(m, x) EXCEPT !.data[x] = Null, !.size[x] = 0]

----------------------------------------------------------------------------
(* The special member functions, as functions of memory                    *)

Construct(m, x, elems, a, b) ==
    Own(Build(SetAllocator(m, x, a), a, elems, b), x, elems, b)

MoveConstruct(m, x, o) == SetAllocator(Steal(m, x, o), x, m.alloc[o])

MoveConstructWith(m, x, o, a, b) ==
    IF a = m.alloc[o]
    THEN SetAllocator(Steal(m, x, o), x, a)
    ELSE MoveElements(Construct(m, x, Content(m, o), a, b), o)

\* Mutant: the allocator is replaced before the old block is released.
CopyAssignPropagateFirst(m, x, o, b) ==
    LET a == IF traits.copy THEN m.alloc[o] ELSE m.alloc[x]
    IN  IF x = o THEN m
        ELSE Own(DestroyAndDeallocate(
                     SetAllocator(Build(m, a, Content(m, o), b), x, a), x),
                 x, Content(m, o), b)

\* The new block is built before the old one is released.
CopyAssign(m, x, o, b) ==
    LET a == IF traits.copy THEN m.alloc[o] ELSE m.alloc[x]
        built == Build(m, a, Content(m, o), b)
    IN  IF x = o THEN m
        ELSE SetAllocator(Own(DestroyAndDeallocate(built, x), x, Content(m, o), b),
                          x, a)

\* Mutant: the elements go, the array they were in does not become empty.
MoveAssignHalf(m, x, o, b) ==
    LET released == DestroyAndDeallocate(m, x)
    IN  IF x = o THEN m
        ELSE IF traits.move THEN Steal(SetAllocator(released, x, m.alloc[o]), x, o)
        ELSE IF m.alloc[x] = m.alloc[o] THEN Steal(released, x, o)
        ELSE MoveElements(Own(DestroyAndDeallocate(
                                  Build(m, m.alloc[x], Content(m, o), b), x),
                              x, Content(m, o), b), o)

\* An allocator that neither propagates nor is equal: element by element.
MoveAssign(m, x, o, b) ==
    LET released == DestroyAndDeallocate(m, x)
        built == MoveElements(Build(m, m.alloc[x], Content(m, o), b), o)
    IN  IF x = o THEN m
        ELSE IF traits.move THEN Steal(SetAllocator(released, x, m.alloc[o]), x, o)
        ELSE IF m.alloc[x] = m.alloc[o] THEN Steal(released, x, o)
        ELSE Empty(Own(DestroyAndDeallocate(built, x), x, Content(m, o), b), o)

ListAssign(m, x, list, b) ==
    Own(DestroyAndDeallocate(Build(m, m.alloc[x], list, b), x), x, list, b)

Exchanged(f, x, o) == [f EXCEPT ![x] = f[o], ![o] = f[x]]

SwapArrays(m, x, o) ==
    [m EXCEPT !.data = Exchanged(@, x, o), !.size = Exchanged(@, x, o),
              !.alloc = IF traits.swap THEN Exchanged(@, x, o) ELSE @]

----------------------------------------------------------------------------
(* What a program may do                                                   *)

Alive(x) == mem.alloc[x] # Absent
Unused == {b \in Block : mem.heap[b] = Free}

Init ==
    /\ mem = [data |-> [x \in Array |-> Null], size |-> [x \in Array |-> 0],
              alloc |-> [x \in Array |-> Absent], heap |-> [b \in Block |-> Free]]
    /\ traits \in [{"copy", "move", "swap"} -> BOOLEAN]

\* A copy asks the allocator for its own, or is given one.
Begin(x) ==
    /\ ~Alive(x)
    /\ \E a \in Allocator, b \in Unused :
          \/ \E list \in Lists : mem' = Construct(mem, x, list, a, b)
          \/ \E o \in Array :
                Alive(o) /\ mem' \in {Construct(mem, x, Content(mem, o), a, b),
                                      MoveConstructWith(mem, x, o, a, b)}
    /\ UNCHANGED traits

BeginMoved(x) ==
    /\ ~Alive(x)
    /\ \E o \in Array : Alive(o) /\ mem' = MoveConstruct(mem, x, o)
    /\ UNCHANGED traits

Assign(x) ==
    /\ Alive(x)
    /\ \E b \in Unused :
          \/ \E list \in Lists : mem' = ListAssign(mem, x, list, b)
          \/ \E o \in Array :
                Alive(o) /\ mem' \in {CopyAssign(mem, x, o, b), MoveAssign(mem, x, o, b)}
    /\ UNCHANGED traits

Write(x) ==
    /\ Alive(x) /\ mem.size[x] # 0
    /\ \E i \in 1 .. mem.size[x], v \in Value :
          mem' = [mem EXCEPT !.heap[mem.data[x]].elems[i] = v]
    /\ UNCHANGED traits

\* Undefined, as for the standard's containers, when the allocators differ
\* and do not propagate.
Swap(x) ==
    /\ Alive(x)
    /\ \E o \in Array :
          /\ Alive(o) /\ (traits.swap \/ mem.alloc[x] = mem.alloc[o])
          /\ mem' = SwapArrays(mem, x, o)
    /\ UNCHANGED traits

\* The destructor; the object's memory is no array any more.
End(x) ==
    /\ Alive(x)
    /\ mem' = SetAllocator(Empty(mem, x), x, Absent)
    /\ UNCHANGED traits

Next ==
    \E x \in Array :
        Begin(x) \/ BeginMoved(x) \/ Assign(x) \/ Write(x) \/ Swap(x) \/ End(x)

Spec == Init /\ [][Next]_vars

----------------------------------------------------------------------------
(* Properties                                                              *)

\* Every block given out belongs to exactly one array, has that array's size
\* and came from that array's allocator, so it will be freed once and rightly;
\* an array without elements has no block (heap_array.hpp:651-690).
BlocksAreOwned ==
    /\ \A b \in Block :
          mem.heap[b] # Free => \E x \in Array : mem.size[x] # 0 /\ mem.data[x] = b
    /\ \A x \in Array :
          IF mem.size[x] = 0 THEN mem.data[x] = Null
          ELSE /\ mem.data[x] \in Block
               /\ mem.heap[mem.data[x]].alloc = mem.alloc[x] /\ Alive(x)
               /\ Len(mem.heap[mem.data[x]].elems) = mem.size[x]
    /\ \A x, o \in Array : mem.size[x] # 0 /\ mem.data[x] = mem.data[o] => x = o

\* Arrays behave as values of their own, whatever their allocators do: a copy
\* is deep, a move takes all and leaves an empty array ("matching every other
\* move path", heap_array.hpp:439) except where it was given an allocator.
Values == INSTANCE ArrayValues WITH
    value <- [x \in Array |-> Content(mem, x)], alloc <- mem.alloc

ImplementsValues == Values!Spec
=============================================================================
