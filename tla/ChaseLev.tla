------------------------------ MODULE ChaseLev ------------------------------
(***************************************************************************)
(* The Chase-Lev queue of workstealing_queue/chase_lev.hpp, one step per   *)
(* load that another thread can disturb and per compare-and-swap.          *)
(*                                                                         *)
(* The owner's stores wait in a store buffer and drain in any order the    *)
(* memory orders allow: stores to one location stay in order, a release    *)
(* store drains after every earlier one, a store behind a release fence    *)
(* and whatever follows it after every store before that fence, and a      *)
(* sequentially consistent fence waits for the buffer to be empty.  The    *)
(* owner sees its own stores at once, thieves what has drained.  Loads are *)
(* not reordered (the thieves' are acquire loads) and a compare-and-swap   *)
(* acts on memory.                                                         *)
(***************************************************************************)
EXTENDS Integers, FiniteSets, Sequences, SequencesExt

CONSTANTS
    Owner,      \* the thread that inserts and takes
    Thief,      \* the threads that steal
    Empty,      \* Result{}: no value
    Junk,       \* what an unwritten slot holds
    kInitCap,   \* the slots of the first buffer: 1024 in the code
    MaxInserts  \* bound: the owner inserts the values 1, 2, ... MaxInserts

Process == {Owner} \cup Thief
Value == 1 .. MaxInserts

ASSUME OwnerAssumption == Owner \notin Thief
ASSUME CapacityAssumption == kInitCap \in Nat /\ 0 < kInitCap
ASSUME ValueAssumption ==
    MaxInserts \in Nat /\ Empty \notin Value /\ Junk \notin Value

VARIABLES
    top,       \* top_: changed only by compare-and-swap
    mem,       \* bottom_, data_ and every buffer's slots, as drained
    own,       \* the same as the owner sees them
    buffer,    \* the owner's stores that have not drained
    pc,        \* where each process is in its operation
    local,     \* the local variables t, b, a and val of each process
    result,    \* what the last Take or Steal of each process returned
    inserted,  \* how many values the owner has inserted
    claims     \* history: how often each value has been returned

vars == <<top, mem, own, buffer, pc, local, result, inserted, claims>>

Goto(p, label) == pc' = [pc EXCEPT ![p] = label]

\* Slot indices wrap: buffer_[i % len].  Retired buffers are kept (buffers_),
\* so `slots` only grows and data_ is an index into it.
LengthOf(slots, a) == Cardinality(DOMAIN slots[a])
Read(slots, a, i) == slots[a][i % LengthOf(slots, a)]
NewBuffer(len) == [i \in 0 .. len - 1 |-> Junk]

NoLocal == [t |-> 0, b |-> 0, a |-> 1, val |-> Junk]

Init ==
    /\ top = 0
    /\ mem = [bottom |-> 0, data |-> 1, slots |-> <<NewBuffer(kInitCap)>>]
    /\ own = mem
    /\ buffer = <<>>
    /\ pc = [p \in Process |-> "idle"]
    /\ local = [p \in Process |-> NoLocal]
    /\ result = [p \in Process |-> Empty]
    /\ inserted = 0
    /\ claims = [v \in Value |-> 0]

----------------------------------------------------------------------------
(* The store buffer                                                        *)

BottomStore(b, order) == [loc |-> "bottom", val |-> b, order |-> order]
DataStore(a) == [loc |-> "data", val |-> a, order |-> "release"]
SlotStore(a, i, v) ==
    [loc |-> "slot", buf |-> a, at |-> i, val |-> v, order |-> "release"]

SameLocation(s, r) ==
    /\ s.loc = r.loc
    /\ s.loc = "slot" => s.buf = r.buf /\ s.at = r.at

Apply(m, s) ==
    CASE s.loc = "bottom" -> [m EXCEPT !.bottom = s.val]
      [] s.loc = "data"   -> [m EXCEPT !.data = s.val]
      [] s.loc = "slot"   -> [m EXCEPT !.slots[s.buf][s.at] = s.val]

MayDrain(i) ==
    /\ \A j \in 1 .. i - 1 : ~SameLocation(buffer[j], buffer[i])
    /\ buffer[i].order = "release" => i = 1
    /\ \A j \in 2 .. i : buffer[j].order # "fenced"

Drain ==
    /\ \E i \in DOMAIN buffer :
          /\ MayDrain(i)
          /\ mem' = Apply(mem, buffer[i])
          /\ buffer' = RemoveAt(buffer, i)
    /\ UNCHANGED <<top, own, pc, local, result, inserted, claims>>

Store(s) ==
    /\ own' = Apply(own, s)
    /\ buffer' = Append(buffer, s)

Return(p, r) ==
    /\ result' = [result EXCEPT ![p] = r]
    /\ claims' = IF r \in Value THEN [claims EXCEPT ![r] = @ + 1] ELSE claims
    /\ local' = [local EXCEPT ![p] = NoLocal]
    /\ Goto(p, "idle")

----------------------------------------------------------------------------
(* Take, by the owner                                                      *)

\* b = bottom_ - 1, stored before top_ is looked at.
TakeBottom ==
    /\ pc[Owner] = "idle"
    /\ LET b == own.bottom - 1
       IN  /\ Store(BottomStore(b, "relaxed"))
           /\ local' = [local EXCEPT ![Owner].b = b, ![Owner].a = own.data]
    /\ Goto(Owner, "take_fence")
    /\ UNCHANGED <<top, mem, result, inserted, claims>>

\* atomic_thread_fence(seq_cst).
TakeFence ==
    /\ pc[Owner] = "take_fence"
    /\ buffer = <<>>
    /\ Goto(Owner, "take_top")
    /\ UNCHANGED <<top, mem, own, buffer, local, result, inserted, claims>>

\* Mutant: the last element is taken without racing the thieves for it.
TakeTopUnraced ==
    /\ pc[Owner] = "take_top"
    /\ LET b == local[Owner].b
       IN  \/ /\ top <= b
              /\ Return(Owner, Read(own.slots, local[Owner].a, b))
              /\ UNCHANGED <<own, buffer>>
           \/ /\ top > b
              /\ Store(BottomStore(b + 1, "relaxed"))
              /\ Return(Owner, Empty)
    /\ UNCHANGED <<top, mem, inserted>>

\* Only the owner writes slots, so its read of one can be part of this step.
TakeTop ==
    /\ pc[Owner] = "take_top"
    /\ LET b == local[Owner].b
           val == Read(own.slots, local[Owner].a, b)
       IN  \/ /\ top < b
              /\ Return(Owner, val)
              /\ UNCHANGED <<own, buffer>>
           \/ /\ top = b
              /\ local' = [local EXCEPT ![Owner].t = top, ![Owner].val = val]
              /\ Goto(Owner, "take_cas")
              /\ UNCHANGED <<own, buffer, result, claims>>
           \/ /\ top > b
              /\ Store(BottomStore(b + 1, "relaxed"))
              /\ Return(Owner, Empty)
    /\ UNCHANGED <<top, mem, inserted>>

\* The last element: race the thieves for it.
TakeLast ==
    /\ pc[Owner] = "take_cas"
    /\ Store(BottomStore(local[Owner].b + 1, "relaxed"))
    /\ \/ /\ top = local[Owner].t
          /\ top' = top + 1
          /\ Return(Owner, local[Owner].val)
       \/ /\ top # local[Owner].t
          /\ Return(Owner, Empty)
          /\ UNCHANGED top
    /\ UNCHANGED <<mem, inserted>>

----------------------------------------------------------------------------
(* Insert and Resize, by the owner                                         *)

\* Mutant: the queue counts as full one element too late.
InsertTopLate ==
    /\ pc[Owner] = "idle" /\ inserted < MaxInserts
    /\ LET b == own.bottom
           full == b - top > LengthOf(own.slots, own.data)
       IN  /\ local' = [local EXCEPT ![Owner].b = b]
           /\ Goto(Owner, IF full THEN "resize" ELSE "insert_store")
    /\ UNCHANGED <<top, mem, own, buffer, result, inserted, claims>>

InsertTop ==
    /\ pc[Owner] = "idle" /\ inserted < MaxInserts
    /\ LET b == own.bottom
           full == b - top > LengthOf(own.slots, own.data) - 1
       IN  /\ local' = [local EXCEPT ![Owner].b = b]
           /\ Goto(Owner, IF full THEN "resize" ELSE "insert_store")
    /\ UNCHANGED <<top, mem, own, buffer, result, inserted, claims>>

\* Copy [top, bottom) into a buffer twice as long and publish it.  Slots and
\* the pointer are release stores; the retired buffer stays readable.
Resize ==
    /\ pc[Owner] = "resize"
    /\ LET old == own.data
           fresh == Len(own.slots) + 1
           len == 2 * LengthOf(own.slots, old)
           copied == top .. own.bottom - 1
           stores == [k \in 1 .. own.bottom - top |->
                         LET i == top + k - 1
                         IN  SlotStore(fresh, i % len, Read(own.slots, old, i))]
           filled == [j \in 0 .. len - 1 |->
                         IF \E i \in copied : i % len = j
                         THEN Read(own.slots, old,
                                   CHOOSE i \in copied : i % len = j)
                         ELSE Junk]
       IN  /\ mem' = [mem EXCEPT !.slots = Append(@, NewBuffer(len))]
           /\ own' = [own EXCEPT !.slots = Append(@, filled), !.data = fresh]
           /\ buffer' = (buffer \o stores) \o <<DataStore(fresh)>>
    /\ Goto(Owner, "insert_store")
    /\ UNCHANGED <<top, local, result, inserted, claims>>

\* Mutant: no release fence between the slot and bottom_.
InsertUnfenced ==
    /\ pc[Owner] = "insert_store"
    /\ LET b == local[Owner].b
           a == own.data
           slot == SlotStore(a, b % LengthOf(own.slots, a), inserted + 1)
           bottom == BottomStore(b + 1, "relaxed")
       IN  /\ own' = Apply(Apply(own, slot), bottom)
           /\ buffer' = buffer \o <<slot, bottom>>
    /\ inserted' = inserted + 1
    /\ local' = [local EXCEPT ![Owner] = NoLocal]
    /\ Goto(Owner, "idle")
    /\ UNCHANGED <<top, mem, result, claims>>

\* The slot, a release fence, bottom_ = b + 1.
InsertStores ==
    /\ pc[Owner] = "insert_store"
    /\ LET b == local[Owner].b
           a == own.data
           slot == SlotStore(a, b % LengthOf(own.slots, a), inserted + 1)
           bottom == BottomStore(b + 1, "fenced")
       IN  /\ own' = Apply(Apply(own, slot), bottom)
           /\ buffer' = buffer \o <<slot, bottom>>
    /\ inserted' = inserted + 1
    /\ local' = [local EXCEPT ![Owner] = NoLocal]
    /\ Goto(Owner, "idle")
    /\ UNCHANGED <<top, mem, result, claims>>

----------------------------------------------------------------------------
(* Steal, by a thief                                                       *)

StealTop(p) ==
    /\ pc[p] = "idle"
    /\ local' = [local EXCEPT ![p].t = top]
    /\ Goto(p, "steal_bottom")
    /\ UNCHANGED <<top, mem, own, buffer, result, inserted, claims>>

StealBottom(p) ==
    /\ pc[p] = "steal_bottom"
    /\ \/ /\ local[p].t < mem.bottom
          /\ Goto(p, "steal_data")
          /\ UNCHANGED <<local, result, claims>>
       \/ /\ local[p].t >= mem.bottom
          /\ Return(p, Empty)
    /\ UNCHANGED <<top, mem, own, buffer, inserted>>

StealData(p) ==
    /\ pc[p] = "steal_data"
    /\ local' = [local EXCEPT ![p].a = mem.data]
    /\ Goto(p, "steal_slot")
    /\ UNCHANGED <<top, mem, own, buffer, result, inserted, claims>>

StealSlot(p) ==
    /\ pc[p] = "steal_slot"
    /\ local' = [local EXCEPT ![p].val =
                    Read(mem.slots, local[p].a, local[p].t)]
    /\ Goto(p, "steal_cas")
    /\ UNCHANGED <<top, mem, own, buffer, result, inserted, claims>>

StealCas(p) ==
    /\ pc[p] = "steal_cas"
    /\ \/ /\ top = local[p].t
          /\ top' = top + 1
          /\ Return(p, local[p].val)
       \/ /\ top # local[p].t
          /\ Return(p, Empty)
          /\ UNCHANGED top
    /\ UNCHANGED <<mem, own, buffer, inserted>>

OwnerStep ==
    \/ TakeBottom \/ TakeFence \/ TakeTop \/ TakeLast
    \/ InsertTop  \/ Resize    \/ InsertStores

ThiefStep(p) ==
    \/ StealTop(p)  \/ StealBottom(p) \/ StealData(p)
    \/ StealSlot(p) \/ StealCas(p)

Next == Drain \/ OwnerStep \/ \E p \in Thief : ThiefStep(p)

Spec == Init /\ [][Next]_vars

----------------------------------------------------------------------------
(* Properties                                                              *)

\* While a Take is undecided bottom_ is one below the queue's end.
Undecided == pc[Owner] \in {"take_fence", "take_top", "take_cas"}
End == own.bottom + (IF Undecided THEN 1 ELSE 0)
Items == [k \in 1 .. End - top |-> Read(own.slots, own.data, top + k - 1)]

Word == Value \cup {Junk}
OwnerLabel == {"idle", "take_fence", "take_top", "take_cas", "resize", "insert_store"}
ThiefLabel == {"idle", "steal_bottom", "steal_data", "steal_slot", "steal_cas"}

\* Memory has the buffers that the owner sees.
MemoryOK(m) ==
    /\ DOMAIN m = {"bottom", "data", "slots"}
    /\ m.bottom \in -1 .. MaxInserts
    /\ m.data \in DOMAIN own.slots
    /\ DOMAIN m.slots = DOMAIN own.slots
    /\ \A a \in DOMAIN own.slots :
          m.slots[a] \in [0 .. LengthOf(own.slots, a) - 1 -> Word]

\* Values are stored, and into slots that there are.
PendingStore ==
    [loc : {"bottom"}, val : -1 .. MaxInserts, order : {"relaxed", "fenced"}]
    \cup [loc : {"data"}, val : DOMAIN own.slots, order : {"release"}]
    \cup UNION {{SlotStore(a, i, v) : i \in DOMAIN own.slots[a], v \in Value} :
                   a \in DOMAIN own.slots}

\* Every variable has its type (chase_lev.hpp:189-209): bottom_, data_ and the
\* slots of every buffer, as drained and as the owner sees them, the stores on
\* their way and the locals of each process.  In particular no index leaves the
\* queue, no copy into a new buffer takes a slot nobody wrote, and no process
\* returns one.
TypeOK ==
    /\ top \in 0 .. MaxInserts /\ top <= End
    /\ inserted \in 0 .. MaxInserts
    /\ MemoryOK(mem) /\ MemoryOK(own)
    /\ buffer \in Seq(PendingStore)
    /\ pc \in [Process -> OwnerLabel \cup ThiefLabel]
    /\ pc[Owner] \in OwnerLabel /\ \A p \in Thief : pc[p] \in ThiefLabel
    /\ local \in [Process -> [t : 0 .. MaxInserts, b : -1 .. MaxInserts,
                              a : DOMAIN own.slots, val : Word]]
    /\ result \in [Process -> Value \cup {Empty}]
    /\ claims \in [Value -> Nat]

\* A value inserted and not returned is still in the queue, so it can be: no
\* Resize, no lost race for the last element and no late store drops it.
NothingLost ==
    \A v \in 1 .. inserted : claims[v] = 0 => Contains(Items, v)

\* The queue implements the work-stealing queue its callers rely on.
Queue == INSTANCE WorkStealingQueue WITH items <- Items

ImplementsQueue == Queue!Spec
=============================================================================
