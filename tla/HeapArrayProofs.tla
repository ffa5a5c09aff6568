--------------------------- MODULE HeapArrayProofs ---------------------------
(***************************************************************************)
(* BlocksAreOwned, and that HeapArray implements ArrayValues, for any      *)
(* number of arrays, allocators and blocks.  Every special member function *)
(* does one of six things to memory: it gives an array a new block, lets   *)
(* it take another's, empties it, marks its elements moved from, swaps two *)
(* arrays, or writes an element.  Each of these keeps memory Sound, and    *)
(* says what it does to the contents, which is what the users see.         *)
(***************************************************************************)
EXTENDS HeapArray, SequenceTheorems, TLAPS

Allocated == [alloc : Allocator \cup {Absent}, elems : Seq(Elements)]

Memory ==
    [data : [Array -> Block \cup {Null}], size : [Array -> Nat],
     alloc : [Array -> Allocator \cup {Absent}], heap : [Block -> Allocated]]

\* Array x has block c.
Owns(m, x, c) == m.size[x] # 0 /\ m.data[x] = c

\* An array has a block of its size from its allocator, or none.
Fits(m, x) ==
    IF m.size[x] = 0 THEN m.data[x] = Null
    ELSE /\ m.data[x] \in Block
         /\ m.heap[m.data[x]].alloc = m.alloc[x] /\ m.alloc[x] # Absent
         /\ Len(m.heap[m.data[x]].elems) = m.size[x]

\* A block that is given out is some array's.
NoneLost(m) == \A c \in Block : m.heap[c] # Free => \E x \in Array : Owns(m, x, c)

\* No two arrays have the same block.
NoneShared(m) ==
    \A x, o \in Array : m.size[x] # 0 /\ m.data[x] = m.data[o] => x = o

Sound(m) ==
    /\ m \in Memory
    /\ NoneLost(m)
    /\ \A x \in Array : Fits(m, x)
    /\ NoneShared(m)

\* What the users see of memory.
View(m) == [x \in Array |-> Content(m, x)]

\* One of them gets another value.
With(f, x, value) == [f EXCEPT ![x] = value]

\* What a sequence is after its elements have moved.
AllMovedFrom(s) == [i \in 1 .. Len(s) |-> MovedFrom]

----------------------------------------------------------------------------
(* What the helpers do to the fields of memory                             *)

\* Free is a block like any other, and no allocator's.
LEMMA FreeIsAllocated ==
    /\ Free \in Allocated /\ Free.alloc = Absent
    /\ Free.elems = <<>> /\ Len(Free.elems) = 0
<1>1. <<>> \in Seq(Elements) /\ Len(<<>>) = 0
  BY EmptySeq
<1> QED
  BY <1>1 DEF Free, Allocated

\* A list of values is a sequence of elements.
LEMMA ListsAreSequences ==
    ASSUME NEW list \in Lists
    PROVE  list \in Seq(Value) /\ list \in Seq(Elements)
<1>1. PICK n \in 0 .. MaxSize : list \in [1 .. n -> Value]
  BY DEF Lists
<1>2. n \in Nat
  BY <1>1, MaxSizeAssumption
<1>3. list \in [1 .. n -> Elements]
  BY <1>1 DEF Elements
<1> QED
  BY <1>1, <1>2, <1>3, SeqDef

\* What an array holds is a sequence of elements.
LEMMA ContentIsASequence ==
    ASSUME NEW m \in Memory, NEW x \in Array, Fits(m, x)
    PROVE  /\ Content(m, x) \in Seq(Elements) /\ Len(Content(m, x)) = m.size[x]
           /\ Content(m, x) = <<>> <=> m.size[x] = 0
<1>1. CASE m.size[x] = 0
  BY <1>1, EmptySeq DEF Content
<1>2. CASE m.size[x] # 0
  <2>1. m.heap[m.data[x]] \in Allocated /\ Len(m.heap[m.data[x]].elems) = m.size[x]
    BY <1>2 DEF Fits, Memory
  <2>2. Content(m, x) = m.heap[m.data[x]].elems
    BY <1>2 DEF Content
  <2> QED
    BY <1>2, <2>1, <2>2, EmptySeq DEF Allocated
<1> QED
  BY <1>1, <1>2

\* Memory n is m with a block of elements written to b, if there are any.
Builds(m, n, a, elems, b) ==
    /\ n \in Memory
    /\ n.data = m.data /\ n.size = m.size /\ n.alloc = m.alloc
    /\ n.heap = [c \in Block |-> IF c = b /\ elems # <<>>
                                 THEN [alloc |-> a, elems |-> elems]
                                 ELSE m.heap[c]]

\* BuildBlock writes one block, or none.
LEMMA BuildFields ==
    ASSUME NEW m \in Memory, NEW a \in Allocator, NEW elems \in Seq(Elements),
           NEW b \in Block
    PROVE  Builds(m, Build(m, a, elems, b), a, elems, b)
<1>1. CASE elems = <<>>
  BY <1>1 DEF Build, Builds, Memory
<1>2. CASE elems # <<>>
  <2>1. [alloc |-> a, elems |-> elems] \in Allocated
    BY DEF Allocated
  <2> QED
    BY <1>2, <2>1 DEF Build, Builds, Memory
<1> QED
  BY <1>1, <1>2

\* DestroyAndDeallocate frees the block of an array that has one.
LEMMA DestroyFields ==
    ASSUME NEW m \in Memory, NEW x \in Array, Fits(m, x)
    PROVE  LET n == DestroyAndDeallocate(m, x) IN
           /\ n \in Memory
           /\ n.data = m.data /\ n.size = m.size /\ n.alloc = m.alloc
           /\ n.heap = [c \in Block |-> IF Owns(m, x, c) THEN Free ELSE m.heap[c]]
<1>1. CASE m.size[x] = 0
  BY <1>1 DEF DestroyAndDeallocate, Memory, Owns
<1>2. CASE m.size[x] # 0
  <2>1. /\ m.data[x] \in Block
        /\ DestroyAndDeallocate(m, x) = [m EXCEPT !.heap[m.data[x]] = Free]
    BY <1>2 DEF DestroyAndDeallocate, Fits
  <2> QED
    BY <1>2, <2>1, FreeIsAllocated DEF Memory, Owns
<1> QED
  BY <1>1, <1>2

\* Own writes the two fields of one array.
LEMMA OwnFields ==
    ASSUME NEW m \in Memory, NEW x \in Array, NEW elems \in Seq(Elements),
           NEW b \in Block
    PROVE  LET n == Own(m, x, elems, b) IN
           /\ n \in Memory
           /\ n.data = [m.data EXCEPT ![x] = IF elems = <<>> THEN Null ELSE b]
           /\ n.size = [m.size EXCEPT ![x] = Len(elems)]
           /\ n.alloc = m.alloc /\ n.heap = m.heap
<1>1. Len(elems) \in Nat
  BY LenProperties
<1> QED
  BY <1>1 DEF Own, Memory

\* Memory n is m but for one array's allocator.
Renames(m, n, x, a) ==
    /\ n \in Memory /\ n.data = m.data /\ n.size = m.size /\ n.heap = m.heap
    /\ n.alloc = [m.alloc EXCEPT ![x] = a]

\* SetAllocator writes that field only.
LEMMA AllocatorFields ==
    ASSUME NEW m \in Memory, NEW x \in Array, NEW a \in Allocator \cup {Absent}
    PROVE  Renames(m, SetAllocator(m, x, a), x, a)
BY DEF SetAllocator, Memory, Renames

\* Memory n is m but for the data and sizes of two arrays.
Steals(m, n, x, o) ==
    /\ n \in Memory /\ n.alloc = m.alloc /\ n.heap = m.heap
    /\ n.data = [m.data EXCEPT ![x] = m.data[o], ![o] = Null]
    /\ n.size = [m.size EXCEPT ![x] = m.size[o], ![o] = 0]

\* Steal writes those fields only.
LEMMA StealFields ==
    ASSUME NEW m \in Memory, NEW x \in Array, NEW o \in Array
    PROVE  Steals(m, Steal(m, x, o), x, o)
BY DEF Steal, Memory, Steals

----------------------------------------------------------------------------
(* What they make of memory, together                                      *)

\* Array x has a new block b for its new elements; its old one is free.
Renews(m, n, x, elems, a, b) ==
    /\ n \in Memory
    /\ n.data = [m.data EXCEPT ![x] = IF elems = <<>> THEN Null ELSE b]
    /\ n.size = [m.size EXCEPT ![x] = Len(elems)]
    /\ n.alloc = [m.alloc EXCEPT ![x] = a]
    /\ n.heap = [c \in Block |-> IF c = b /\ elems # <<>>
                                 THEN [alloc |-> a, elems |-> elems]
                                 ELSE IF Owns(m, x, c) THEN Free ELSE m.heap[c]]

\* Array x has the block that o had, and o has none.
Takes(m, n, x, o) ==
    /\ n \in Memory
    /\ n.data = [m.data EXCEPT ![x] = m.data[o], ![o] = Null]
    /\ n.size = [m.size EXCEPT ![x] = m.size[o], ![o] = 0]
    /\ n.alloc = [m.alloc EXCEPT ![x] = m.alloc[o]]
    /\ n.heap = [c \in Block |-> IF Owns(m, x, c) THEN Free ELSE m.heap[c]]

\* A block that is free is no array's, one that an array has is not free.
LEMMA OwnedIsNotFree ==
    ASSUME NEW m, Sound(m), NEW x \in Array, m.size[x] # 0
    PROVE  m.data[x] \in Block /\ m.heap[m.data[x]] # Free
BY FreeIsAllocated DEF Sound, Fits

\* Whatever leaves an array's fields and its block alone leaves it as it was.
LEMMA UntouchedFits ==
    ASSUME NEW m, NEW n, NEW y \in Array, Fits(m, y),
           n.data[y] = m.data[y], n.size[y] = m.size[y], n.alloc[y] = m.alloc[y],
           m.size[y] # 0 => n.heap[m.data[y]] = m.heap[m.data[y]]
    PROVE  Fits(n, y) /\ Content(n, y) = Content(m, y)
BY DEF Fits, Content

\* A new block keeps memory sound, and is all that the users see.
LEMMA RenewIsSound ==
    ASSUME NEW m, NEW n, Sound(m), NEW x \in Array, NEW elems \in Seq(Elements),
           NEW a \in Allocator, NEW b \in Block, m.heap[b] = Free,
           Renews(m, n, x, elems, a, b)
    PROVE  Sound(n) /\ View(n) = With(View(m), x, elems)
<1>1. /\ n.data[x] = (IF elems = <<>> THEN Null ELSE b) /\ n.size[x] = Len(elems)
      /\ n.alloc[x] = a /\ a # Absent
      /\ \A y \in Array \ {x} : /\ n.data[y] = m.data[y] /\ n.size[y] = m.size[y]
                                /\ n.alloc[y] = m.alloc[y]
  BY NullAssumption DEF Renews, Sound, Memory
<1>2. elems = <<>> <=> Len(elems) = 0
  BY EmptySeq
<1>3. \A y \in Array \ {x} : m.size[y] # 0 =>
          m.data[y] \in Block /\ m.data[y] # b /\ ~Owns(m, x, m.data[y])
  BY OwnedIsNotFree DEF Sound, NoneShared, Owns
<1>4. \A y \in Array \ {x} : m.size[y] # 0 => n.heap[m.data[y]] = m.heap[m.data[y]]
  BY <1>3 DEF Renews
<1>5. \A y \in Array \ {x} : Fits(n, y) /\ Content(n, y) = Content(m, y)
  <2> TAKE y \in Array \ {x}
  <2>1. /\ n.data[y] = m.data[y] /\ n.size[y] = m.size[y] /\ n.alloc[y] = m.alloc[y]
        /\ m.size[y] # 0 => n.heap[m.data[y]] = m.heap[m.data[y]]
    BY <1>1, <1>4
  <2>2. Fits(m, y)
    BY DEF Sound
  <2> QED
    BY <2>1, <2>2, UntouchedFits
<1>6. elems # <<>> => n.heap[b] = [alloc |-> a, elems |-> elems]
  BY DEF Renews
<1>7. Fits(n, x) /\ Content(n, x) = elems
  BY <1>1, <1>2, <1>6 DEF Fits, Content
<1>8. NoneLost(n)
  <2> SUFFICES ASSUME NEW c \in Block, n.heap[c] # Free
               PROVE  \E y \in Array : Owns(n, y, c)
    BY DEF NoneLost
  <2>1. CASE c = b /\ elems # <<>>
    BY <2>1, <1>1, <1>2 DEF Owns
  <2>2. CASE ~(c = b /\ elems # <<>>)
    <3>1. ~Owns(m, x, c) /\ m.heap[c] # Free
      BY <2>2 DEF Renews
    <3>2. PICK y \in Array : Owns(m, y, c)
      BY <3>1 DEF Sound, NoneLost
    <3> QED
      BY <3>1, <3>2, <1>1 DEF Owns
  <2> QED
    BY <2>1, <2>2
<1>9. NoneShared(n)
  BY <1>1, <1>2, <1>3, NullAssumption DEF Sound, NoneShared, Fits
<1>10. View(n) = With(View(m), x, elems)
  BY <1>5, <1>7 DEF View, With
<1> QED
  BY <1>5, <1>7, <1>8, <1>9, <1>10 DEF Sound, Renews

\* A move keeps memory sound, and leaves an empty array.
LEMMA TakeIsSound ==
    ASSUME NEW m, NEW n, Sound(m), NEW x \in Array, NEW o \in Array, x # o,
           Takes(m, n, x, o)
    PROVE  /\ Sound(n)
           /\ View(n) = [View(m) EXCEPT ![x] = View(m)[o], ![o] = <<>>]
           /\ n.alloc = [m.alloc EXCEPT ![x] = m.alloc[o]]
<1>1. /\ n.data[x] = m.data[o] /\ n.size[x] = m.size[o] /\ n.alloc[x] = m.alloc[o]
      /\ n.data[o] = Null /\ n.size[o] = 0
      /\ \A y \in Array \ {x, o} : /\ n.data[y] = m.data[y] /\ n.size[y] = m.size[y]
                                   /\ n.alloc[y] = m.alloc[y]
  BY DEF Takes, Sound, Memory
<1>2. \A y \in Array \ {x} : m.size[y] # 0 =>
          m.data[y] \in Block /\ ~Owns(m, x, m.data[y])
  BY OwnedIsNotFree DEF Sound, NoneShared, Owns
<1>3. \A y \in Array \ {x} : m.size[y] # 0 => n.heap[m.data[y]] = m.heap[m.data[y]]
  BY <1>2 DEF Takes
<1>4. \A y \in Array \ {x, o} : Fits(n, y) /\ Content(n, y) = Content(m, y)
  <2> TAKE y \in Array \ {x, o}
  <2>1. /\ n.data[y] = m.data[y] /\ n.size[y] = m.size[y] /\ n.alloc[y] = m.alloc[y]
        /\ m.size[y] # 0 => n.heap[m.data[y]] = m.heap[m.data[y]]
    BY <1>1, <1>3
  <2>2. Fits(m, y)
    BY DEF Sound
  <2> QED
    BY <2>1, <2>2, UntouchedFits
<1>5. Fits(n, x) /\ Content(n, x) = Content(m, o)
  BY <1>1, <1>3 DEF Sound, Fits, Content
<1>6. Fits(n, o) /\ Content(n, o) = <<>>
  BY <1>1 DEF Fits, Content
<1>7. NoneLost(n)
  <2> SUFFICES ASSUME NEW c \in Block, n.heap[c] # Free
               PROVE  \E y \in Array : Owns(n, y, c)
    BY DEF NoneLost
  <2>1. ~Owns(m, x, c) /\ m.heap[c] # Free
    BY DEF Takes
  <2>2. PICK y \in Array : Owns(m, y, c)
    BY <2>1 DEF Sound, NoneLost
  <2> QED
    BY <2>1, <2>2, <1>1 DEF Owns
<1>8. NoneShared(n)
  <2>1. \A y \in Array : m.size[y] # 0 => m.data[y] # Null
    BY OwnedIsNotFree, NullAssumption
  <2> QED
    BY <2>1, <1>1 DEF Sound, NoneShared
<1>9. View(n) = [View(m) EXCEPT ![x] = View(m)[o], ![o] = <<>>]
  BY <1>4, <1>5, <1>6 DEF View
<1> QED
  BY <1>4, <1>5, <1>6, <1>7, <1>8, <1>9 DEF Sound, Takes

\* An array that gives up its block is empty.
LEMMA EmptyIsSound ==
    ASSUME NEW m, Sound(m), NEW x \in Array
    PROVE  LET n == Empty(m, x) IN
           /\ Sound(n) /\ View(n) = With(View(m), x, <<>>)
           /\ n.alloc = m.alloc /\ n.size[x] = 0
<1> DEFINE r == DestroyAndDeallocate(m, x)
           n == Empty(m, x)
<1>1. /\ r \in Memory /\ r.data = m.data /\ r.size = m.size /\ r.alloc = m.alloc
      /\ r.heap = [c \in Block |-> IF Owns(m, x, c) THEN Free ELSE m.heap[c]]
  BY DestroyFields DEF Sound
<1> HIDE DEF r
<1>2. /\ n \in Memory /\ n.alloc = m.alloc /\ n.heap = r.heap
      /\ n.data = [m.data EXCEPT ![x] = Null] /\ n.size = [m.size EXCEPT ![x] = 0]
  BY <1>1 DEF Empty, r, Memory
<1> HIDE DEF n
<1>3. /\ n.data[x] = Null /\ n.size[x] = 0
      /\ \A y \in Array \ {x} : n.data[y] = m.data[y] /\ n.size[y] = m.size[y]
  BY <1>2 DEF Sound, Memory
<1>4. \A y \in Array \ {x} : m.size[y] # 0 =>
          m.data[y] \in Block /\ ~Owns(m, x, m.data[y])
  BY OwnedIsNotFree DEF Sound, NoneShared, Owns
<1>5. \A y \in Array \ {x} : m.size[y] # 0 => n.heap[m.data[y]] = m.heap[m.data[y]]
  BY <1>1, <1>2, <1>4
<1>6. \A y \in Array \ {x} : Fits(n, y) /\ Content(n, y) = Content(m, y)
  BY <1>2, <1>3, <1>5, UntouchedFits DEF Sound
<1>7. Fits(n, x) /\ Content(n, x) = <<>>
  BY <1>3 DEF Fits, Content
<1>8. NoneLost(n)
  <2> SUFFICES ASSUME NEW c \in Block, n.heap[c] # Free
               PROVE  \E y \in Array : Owns(n, y, c)
    BY DEF NoneLost
  <2>1. ~Owns(m, x, c) /\ m.heap[c] # Free
    BY <1>1, <1>2
  <2>2. PICK y \in Array : Owns(m, y, c)
    BY <2>1 DEF Sound, NoneLost
  <2> QED
    BY <2>1, <2>2, <1>3 DEF Owns
<1>9. NoneShared(n)
  <2>1. \A y \in Array : m.size[y] # 0 => m.data[y] # Null
    BY OwnedIsNotFree, NullAssumption
  <2> QED
    BY <2>1, <1>3 DEF Sound, NoneShared
<1>10. View(n) = With(View(m), x, <<>>)
  BY <1>6, <1>7 DEF View, With
<1> QED
  BY <1>2, <1>3, <1>6, <1>7, <1>8, <1>9, <1>10 DEF Sound, n

\* Elements that are written or moved from stay where they are: any number of
\* them in one array's block.
Rewrites(m, n, x, elems) ==
    /\ n \in Memory /\ n.data = m.data /\ n.size = m.size /\ n.alloc = m.alloc
    /\ n.heap = [c \in Block |->
                   IF Owns(m, x, c) THEN [alloc |-> m.heap[c].alloc, elems |-> elems]
                   ELSE m.heap[c]]

\* Such a write keeps memory sound.
LEMMA RewriteIsSound ==
    ASSUME NEW m, NEW n, Sound(m), NEW x \in Array, NEW elems \in Seq(Elements),
           Len(elems) = m.size[x], Rewrites(m, n, x, elems)
    PROVE  Sound(n) /\ View(n) = With(View(m), x, elems)
<1>1. \A y \in Array \ {x} : m.size[y] # 0 =>
          m.data[y] \in Block /\ ~Owns(m, x, m.data[y])
  BY OwnedIsNotFree DEF Sound, NoneShared, Owns
<1>2. \A y \in Array \ {x} : m.size[y] # 0 => n.heap[m.data[y]] = m.heap[m.data[y]]
  BY <1>1 DEF Rewrites
<1>3. \A y \in Array \ {x} : Fits(n, y) /\ Content(n, y) = Content(m, y)
  BY <1>2, UntouchedFits DEF Sound, Rewrites
<1>4. Fits(n, x) /\ Content(n, x) = elems
  <2>1. CASE m.size[x] = 0
    <3>1. elems = <<>>
      BY <2>1, EmptySeq
    <3> QED
      BY <2>1, <3>1 DEF Sound, Fits, Content, Rewrites
  <2>2. CASE m.size[x] # 0
    <3>1. /\ m.data[x] \in Block
          /\ n.heap[m.data[x]] = [alloc |-> m.heap[m.data[x]].alloc, elems |-> elems]
      BY <2>2, OwnedIsNotFree DEF Rewrites, Owns
    <3> QED
      BY <2>2, <3>1 DEF Sound, Fits, Content, Rewrites
  <2> QED
    BY <2>1, <2>2
<1>5. NoneLost(n)
  <2> SUFFICES ASSUME NEW c \in Block, n.heap[c] # Free
               PROVE  \E y \in Array : Owns(n, y, c)
    BY DEF NoneLost
  <2>1. Owns(m, x, c) \/ m.heap[c] # Free
    BY DEF Rewrites
  <2>2. \E y \in Array : Owns(m, y, c)
    BY <2>1 DEF Sound, NoneLost
  <2> QED
    BY <2>2 DEF Owns, Rewrites
<1>6. NoneShared(n)
  BY DEF Sound, NoneShared, Rewrites
<1>7. View(n) = With(View(m), x, elems)
  BY <1>3, <1>4 DEF View, With
<1> QED
  BY <1>3, <1>4, <1>5, <1>6, <1>7 DEF Sound, Rewrites

\* Two arrays that change places keep memory sound, unless their blocks come
\* from allocators that stay behind.
LEMMA SwapIsSound ==
    ASSUME NEW m, NEW n, Sound(m), NEW x \in Array, NEW o \in Array, n \in Memory,
           n.data = Exchanged(m.data, x, o), n.size = Exchanged(m.size, x, o),
           n.alloc = Exchanged(m.alloc, x, o), n.heap = m.heap
    PROVE  Sound(n) /\ View(n) = Exchanged(View(m), x, o)
<1> DEFINE other(y) == IF y = x THEN o ELSE IF y = o THEN x ELSE y
<1>1. \A y \in Array : other(y) \in Array /\ other(other(y)) = y
  OBVIOUS
<1>2. \A y \in Array : /\ n.data[y] = m.data[other(y)] /\ n.size[y] = m.size[other(y)]
                       /\ n.alloc[y] = m.alloc[other(y)]
  BY DEF Exchanged, Sound, Memory
<1>3. View(m) = [y \in Array |-> Content(m, y)]
  BY DEF View
<1>4. Exchanged(View(m), x, o) = [y \in Array |-> View(m)[other(y)]]
  BY <1>3 DEF Exchanged
<1> HIDE DEF other
<1>5. \A y \in Array : Fits(n, y) /\ Content(n, y) = View(m)[other(y)]
  <2> TAKE y \in Array
  <2> DEFINE p == other(y)
  <2>1. /\ p \in Array /\ n.data[y] = m.data[p] /\ n.size[y] = m.size[p]
        /\ n.alloc[y] = m.alloc[p]
    BY <1>1, <1>2
  <2> HIDE DEF p
  <2>2. Fits(m, p)
    BY <2>1 DEF Sound
  <2>3. Fits(n, y) /\ Content(n, y) = Content(m, p)
    BY <2>1, <2>2 DEF Fits, Content
  <2>4. Content(m, p) = View(m)[p]
    BY <2>1, <1>3
  <2> QED
    BY <2>3, <2>4 DEF p
<1>6. NoneLost(n)
  <2> SUFFICES ASSUME NEW c \in Block, n.heap[c] # Free
               PROVE  \E y \in Array : Owns(n, y, c)
    BY DEF NoneLost
  <2>1. PICK y \in Array : Owns(m, y, c)
    BY DEF Sound, NoneLost
  <2>2. other(y) \in Array /\ Owns(n, other(y), c)
    BY <2>1, <1>1, <1>2 DEF Owns
  <2> QED
    BY <2>2
<1>7. NoneShared(n)
  BY <1>1, <1>2 DEF Sound, NoneShared
<1> QED
  BY <1>4, <1>5, <1>6, <1>7 DEF Sound, View

\* An array without elements may have any allocator, or none.
LEMMA RenameIsSound ==
    ASSUME NEW m, Sound(m), NEW x \in Array, m.size[x] = 0,
           NEW a \in Allocator \cup {Absent}
    PROVE  LET n == SetAllocator(m, x, a) IN
           Sound(n) /\ View(n) = View(m) /\ n.alloc = [m.alloc EXCEPT ![x] = a]
<1> DEFINE n == SetAllocator(m, x, a)
<1>1. /\ n \in Memory /\ n.data = m.data /\ n.size = m.size /\ n.heap = m.heap
      /\ n.alloc = [m.alloc EXCEPT ![x] = a]
  BY AllocatorFields DEF Sound, Renames
<1> HIDE DEF n
<1>2. \A y \in Array \ {x} : n.alloc[y] = m.alloc[y]
  BY <1>1 DEF Sound, Memory
<1>3. \A y \in Array : Fits(n, y) /\ Content(n, y) = Content(m, y)
  BY <1>1, <1>2 DEF Sound, Fits, Content
<1>4. NoneLost(n) /\ NoneShared(n)
  BY <1>1 DEF Sound, NoneLost, NoneShared, Owns
<1> QED
  BY <1>1, <1>3, <1>4 DEF Sound, View, n

\* The loop of moves out of a block rewrites it.
LEMMA MoveElementsRewrites ==
    ASSUME NEW m \in Memory, NEW o \in Array, Fits(m, o)
    PROVE  /\ Rewrites(m, MoveElements(m, o), o, AllMovedFrom(Content(m, o)))
           /\ AllMovedFrom(Content(m, o)) \in Seq(Elements)
           /\ Len(AllMovedFrom(Content(m, o))) = m.size[o]
<1> DEFINE moved == AllMovedFrom(Content(m, o))
<1>1. Len(Content(m, o)) = m.size[o] /\ m.size[o] \in Nat
  BY ContentIsASequence DEF Memory
<1>2. moved = [i \in 1 .. m.size[o] |-> MovedFrom]
  BY <1>1 DEF AllMovedFrom
<1>3. moved \in [1 .. m.size[o] -> Elements]
  BY <1>2 DEF Elements
<1>4. moved \in Seq(Elements)
  BY <1>1, <1>3, SeqDef
<1>5. Len(moved) = m.size[o]
  BY <1>1, <1>3, <1>4, LenProperties
<1>6. CASE m.size[o] = 0
  <2>1. MoveElements(m, o) = m /\ \A c \in Block : ~Owns(m, o, c)
    BY <1>6 DEF MoveElements, Owns
  <2>2. m.heap = [c \in Block |-> m.heap[c]]
    BY DEF Memory
  <2> QED
    BY <1>4, <1>5, <2>1, <2>2 DEF Rewrites
<1>7. CASE m.size[o] # 0
  <2>1. /\ m.data[o] \in Block /\ m.heap[m.data[o]] \in Allocated
        /\ Content(m, o) = m.heap[m.data[o]].elems
    BY <1>7 DEF Fits, Memory, Content
  <2>2. MoveElements(m, o) = [m EXCEPT !.heap[m.data[o]].elems = moved]
    BY <1>7, <2>1 DEF MoveElements, AllMovedFrom
  <2> HIDE DEF moved
  <2>3. [m.heap[m.data[o]] EXCEPT !.elems = moved]
           = [alloc |-> m.heap[m.data[o]].alloc, elems |-> moved]
    BY <2>1 DEF Allocated
  <2>4. [alloc |-> m.heap[m.data[o]].alloc, elems |-> moved] \in Allocated
    BY <2>1, <1>4 DEF Allocated
  <2>5. /\ MoveElements(m, o) \in Memory
        /\ MoveElements(m, o).heap = [m.heap EXCEPT ![m.data[o]] =
                [alloc |-> m.heap[m.data[o]].alloc, elems |-> moved]]
        /\ MoveElements(m, o).data = m.data /\ MoveElements(m, o).size = m.size
        /\ MoveElements(m, o).alloc = m.alloc
    BY <2>1, <2>2, <2>3, <2>4 DEF Memory
  <2>6. MoveElements(m, o).heap =
           [c \in Block |->
              IF Owns(m, o, c) THEN [alloc |-> m.heap[c].alloc, elems |-> moved]
              ELSE m.heap[c]]
    BY <1>7, <2>1, <2>5 DEF Owns, Memory
  <2> QED
    BY <1>4, <1>5, <2>5, <2>6 DEF Rewrites, moved
<1> QED
  BY <1>6, <1>7

----------------------------------------------------------------------------
(* The special member functions                                            *)

\* Array x has its new block, and still its allocator.
Replaces(m, n, x, elems, a, b) ==
    /\ n \in Memory /\ n.alloc = m.alloc
    /\ n.data = [m.data EXCEPT ![x] = IF elems = <<>> THEN Null ELSE b]
    /\ n.size = [m.size EXCEPT ![x] = Len(elems)]
    /\ n.heap = [c \in Block |-> IF c = b /\ elems # <<>>
                                 THEN [alloc |-> a, elems |-> elems]
                                 ELSE IF Owns(m, x, c) THEN Free ELSE m.heap[c]]

\* Building the new block, releasing the old one and owning the new one, when
\* the block is written to memory as m is.
LEMMA ReplaceFields ==
    ASSUME NEW m, NEW built, Sound(m), NEW x \in Array,
           NEW elems \in Seq(Elements), NEW a \in Allocator, NEW b \in Block,
           m.heap[b] = Free, Builds(m, built, a, elems, b)
    PROVE  Replaces(m, Own(DestroyAndDeallocate(built, x), x, elems, b), x, elems, a, b)
<1> DEFINE r == DestroyAndDeallocate(built, x)
           n == Own(r, x, elems, b)
<1>1. ~Owns(m, x, b)
  BY OwnedIsNotFree DEF Owns
<1>2. built \in Memory /\ Fits(built, x)
  <2>1. m.size[x] # 0 => m.data[x] \in Block /\ m.data[x] # b
    BY OwnedIsNotFree
  <2>2. m.size[x] # 0 => built.heap[m.data[x]] = m.heap[m.data[x]]
    BY <2>1 DEF Builds
  <2>3. Fits(m, x)
    BY DEF Sound
  <2> QED
    BY <2>2, <2>3, UntouchedFits DEF Builds
<1>3. /\ r \in Memory /\ r.data = m.data /\ r.size = m.size /\ r.alloc = m.alloc
      /\ r.heap = [c \in Block |-> IF Owns(built, x, c) THEN Free ELSE built.heap[c]]
  BY <1>2, DestroyFields DEF Builds
<1>4. \A c \in Block : Owns(built, x, c) <=> Owns(m, x, c)
  BY DEF Owns, Builds
<1>5. r.heap = [c \in Block |-> IF c = b /\ elems # <<>>
                                THEN [alloc |-> a, elems |-> elems]
                                ELSE IF Owns(m, x, c) THEN Free ELSE m.heap[c]]
  BY <1>1, <1>3, <1>4 DEF Builds
<1> HIDE DEF r
<1>6. /\ n \in Memory /\ n.alloc = r.alloc /\ n.heap = r.heap
      /\ n.data = [r.data EXCEPT ![x] = IF elems = <<>> THEN Null ELSE b]
      /\ n.size = [r.size EXCEPT ![x] = Len(elems)]
  BY <1>3, OwnFields
<1>7. Replaces(m, n, x, elems, a, b)
  BY <1>3, <1>5, <1>6 DEF Replaces
<1> QED
  BY <1>7 DEF n, r

\* Writing the allocator completes it.
LEMMA ReplaceRenews ==
    ASSUME NEW m, NEW built, Sound(m), NEW x \in Array,
           NEW elems \in Seq(Elements), NEW a \in Allocator, NEW b \in Block,
           m.heap[b] = Free, Builds(m, built, a, elems, b)
    PROVE  LET n == Own(DestroyAndDeallocate(built, x), x, elems, b) IN
           /\ m.alloc[x] = a => Renews(m, n, x, elems, a, b)
           /\ Renews(m, SetAllocator(n, x, a), x, elems, a, b)
<1> DEFINE n == Own(DestroyAndDeallocate(built, x), x, elems, b)
<1>1. Replaces(m, n, x, elems, a, b)
  BY ReplaceFields
<1> HIDE DEF n
<1>2. m.alloc[x] = a => n.alloc = [m.alloc EXCEPT ![x] = a]
  BY <1>1 DEF Replaces, Sound, Memory
<1>3. Renames(n, SetAllocator(n, x, a), x, a)
  BY <1>1, AllocatorFields DEF Replaces
<1>4. m.alloc[x] = a => Renews(m, n, x, elems, a, b)
  BY <1>1, <1>2 DEF Renews, Replaces
<1>5. Renews(m, SetAllocator(n, x, a), x, elems, a, b)
  BY <1>1, <1>3 DEF Renews, Replaces, Renames
<1> QED
  BY <1>4, <1>5 DEF n

\* A constructor that is given elements: of a list, or another array's.
LEMMA ConstructRenews ==
    ASSUME NEW m, Sound(m), NEW x \in Array, m.size[x] = 0,
           NEW elems \in Seq(Elements), NEW a \in Allocator, NEW b \in Block,
           m.heap[b] = Free
    PROVE  Renews(m, Construct(m, x, elems, a, b), x, elems, a, b)
<1> DEFINE s == SetAllocator(m, x, a)
           built == Build(s, a, elems, b)
           n == Own(built, x, elems, b)
<1>1. /\ s \in Memory /\ s.data = m.data /\ s.size = m.size /\ s.heap = m.heap
      /\ s.alloc = [m.alloc EXCEPT ![x] = a]
  BY AllocatorFields DEF Sound, Renames
<1> HIDE DEF s
<1>2. Builds(s, built, a, elems, b)
  BY <1>1, BuildFields
<1> HIDE DEF built
<1>3. /\ n \in Memory
      /\ n.data = [built.data EXCEPT ![x] = IF elems = <<>> THEN Null ELSE b]
      /\ n.size = [built.size EXCEPT ![x] = Len(elems)]
      /\ n.alloc = built.alloc /\ n.heap = built.heap
  BY <1>2, OwnFields DEF Builds
<1>4. \A c \in Block : ~Owns(m, x, c)
  BY DEF Owns
<1>5. Renews(m, n, x, elems, a, b)
  BY <1>1, <1>2, <1>3, <1>4 DEF Renews, Builds
<1> QED
  BY <1>5 DEF Construct, n, built, s

\* The copy assignment, to another array.
LEMMA CopyAssignRenews ==
    ASSUME NEW m, Sound(m), NEW x \in Array, NEW o \in Array, x # o,
           m.alloc[x] # Absent, m.alloc[o] # Absent,
           NEW b \in Block, m.heap[b] = Free
    PROVE  LET a == IF traits.copy THEN m.alloc[o] ELSE m.alloc[x] IN
           a \in Allocator /\ Renews(m, CopyAssign(m, x, o, b), x, Content(m, o), a, b)
<1> DEFINE e == Content(m, o)
<1>1. PICK a \in Allocator : a = IF traits.copy THEN m.alloc[o] ELSE m.alloc[x]
  BY DEF Sound, Memory
<1>2. e \in Seq(Elements)
  BY ContentIsASequence DEF Sound
<1>3. CopyAssign(m, x, o, b) =
         SetAllocator(Own(DestroyAndDeallocate(Build(m, a, e, b), x), x, e, b), x, a)
  BY <1>1 DEF CopyAssign
<1> HIDE DEF e
<1>4. Builds(m, Build(m, a, e, b), a, e, b)
  BY <1>2, BuildFields DEF Sound
<1>5. Renews(m, CopyAssign(m, x, o, b), x, e, a, b)
  BY <1>2, <1>3, <1>4, ReplaceRenews
<1> QED
  BY <1>1, <1>5 DEF e

\* The assignment of a list.
LEMMA ListAssignRenews ==
    ASSUME NEW m, Sound(m), NEW x \in Array, m.alloc[x] # Absent,
           NEW list \in Seq(Elements), NEW b \in Block, m.heap[b] = Free
    PROVE  /\ m.alloc[x] \in Allocator
           /\ Renews(m, ListAssign(m, x, list, b), x, list, m.alloc[x], b)
<1>1. PICK a \in Allocator : a = m.alloc[x]
  BY DEF Sound, Memory
<1>2. Builds(m, Build(m, a, list, b), a, list, b)
  BY BuildFields DEF Sound
<1>3. Renews(m, ListAssign(m, x, list, b), x, list, a, b)
  BY <1>1, <1>2, ReplaceRenews DEF ListAssign
<1> QED
  BY <1>1, <1>3

\* The move constructor.
LEMMA MoveConstructTakes ==
    ASSUME NEW m, Sound(m), NEW x \in Array, NEW o \in Array, x # o, m.size[x] = 0
    PROVE  Takes(m, MoveConstruct(m, x, o), x, o)
<1> DEFINE s == Steal(m, x, o)
           n == SetAllocator(s, x, m.alloc[o])
<1>1. /\ s \in Memory
      /\ s.data = [m.data EXCEPT ![x] = m.data[o], ![o] = Null]
      /\ s.size = [m.size EXCEPT ![x] = m.size[o], ![o] = 0]
      /\ s.alloc = m.alloc /\ s.heap = m.heap
  BY StealFields DEF Sound, Steals
<1>2. m.alloc[o] \in Allocator \cup {Absent}
  BY DEF Sound, Memory
<1> HIDE DEF s
<1>3. /\ n \in Memory /\ n.data = s.data /\ n.size = s.size /\ n.heap = s.heap
      /\ n.alloc = [s.alloc EXCEPT ![x] = m.alloc[o]]
  BY <1>1, <1>2, AllocatorFields DEF Renames
<1>4. m.heap = [c \in Block |-> IF Owns(m, x, c) THEN Free ELSE m.heap[c]]
  BY DEF Owns, Sound, Memory
<1>5. Takes(m, n, x, o)
  BY <1>1, <1>3, <1>4 DEF Takes
<1> QED
  BY <1>5 DEF MoveConstruct, n, s

\* The move assignment, where the block may change hands.
LEMMA MoveAssignTakes ==
    ASSUME NEW m, Sound(m), NEW x \in Array, NEW o \in Array, x # o, NEW b \in Block,
           traits.move \/ m.alloc[x] = m.alloc[o]
    PROVE  Takes(m, MoveAssign(m, x, o, b), x, o)
<1> DEFINE r == DestroyAndDeallocate(m, x)
           s == SetAllocator(r, x, m.alloc[o])
<1>1. /\ r \in Memory /\ r.data = m.data /\ r.size = m.size /\ r.alloc = m.alloc
      /\ r.heap = [c \in Block |-> IF Owns(m, x, c) THEN Free ELSE m.heap[c]]
  BY DestroyFields DEF Sound
<1>2. m.alloc[o] \in Allocator \cup {Absent}
  BY DEF Sound, Memory
<1> HIDE DEF r
<1>3. CASE traits.move
  <2>1. Renames(r, s, x, m.alloc[o])
    BY <1>1, <1>2, AllocatorFields
  <2> HIDE DEF s
  <2>2. Steals(s, Steal(s, x, o), x, o)
    BY <2>1, StealFields DEF Renames
  <2>3. Takes(m, Steal(s, x, o), x, o)
    BY <1>1, <2>1, <2>2 DEF Takes, Renames, Steals
  <2> QED
    BY <1>3, <2>3 DEF MoveAssign, r, s
<1>4. CASE ~traits.move
  <2>1. Steals(r, Steal(r, x, o), x, o)
    BY <1>1, StealFields
  <2>2. m.alloc = [m.alloc EXCEPT ![x] = m.alloc[o]]
    BY <1>4 DEF Sound, Memory
  <2>3. Takes(m, Steal(r, x, o), x, o)
    BY <1>1, <2>1, <2>2 DEF Takes, Steals
  <2> QED
    BY <1>4, <2>3 DEF MoveAssign, r
<1> QED
  BY <1>3, <1>4

\* Where it may not: the elements move, and their old block is then released.
\* Moving out of o's block before or after b is written is the same.
LEMMA MoveByElements ==
    ASSUME NEW m, Sound(m), NEW x \in Array, NEW o \in Array, x # o,
           m.alloc[x] # Absent, NEW b \in Block, m.heap[b] = Free,
           ~traits.move, m.alloc[x] # m.alloc[o]
    PROVE  LET n == MoveAssign(m, x, o, b) IN
           /\ Sound(n) /\ n.alloc = m.alloc
           /\ View(n) = [View(m) EXCEPT ![x] = View(m)[o], ![o] = <<>>]
<1>1. PICK a \in Allocator : a = m.alloc[x]
  BY DEF Sound, Memory
<1> DEFINE e == Content(m, o)
           f == Build(m, a, e, b)
           built == MoveElements(f, o)
           k == MoveElements(m, o)
           n == Own(DestroyAndDeallocate(built, x), x, e, b)
<1>2. MoveAssign(m, x, o, b) = Empty(n, o) /\ m \in Memory /\ Fits(m, o)
  BY <1>1 DEF MoveAssign, Sound
<1>3. e \in Seq(Elements) /\ View(m)[o] = e
  BY <1>2, ContentIsASequence DEF View
<1>4. /\ Rewrites(m, k, o, AllMovedFrom(e))
      /\ AllMovedFrom(e) \in Seq(Elements) /\ Len(AllMovedFrom(e)) = m.size[o]
  BY <1>2, MoveElementsRewrites
<1> HIDE DEF k
<1>5. Sound(k) /\ View(k) = With(View(m), o, AllMovedFrom(e))
  BY <1>4, RewriteIsSound
<1>6. Builds(m, f, a, e, b)
  BY <1>2, <1>3, BuildFields
<1> HIDE DEF f
<1>7. \A c \in Block : Owns(m, o, c) => c # b /\ f.heap[c] = m.heap[c]
  BY <1>6, OwnedIsNotFree DEF Owns, Builds
<1>8. Fits(f, o) /\ Content(f, o) = e
  <2>1. m.size[o] # 0 => f.heap[m.data[o]] = m.heap[m.data[o]]
    BY <1>7, OwnedIsNotFree DEF Owns
  <2> QED
    BY <1>2, <1>6, <2>1, UntouchedFits DEF Builds
<1>9. Rewrites(f, built, o, AllMovedFrom(e))
  BY <1>6, <1>8, MoveElementsRewrites DEF Builds
<1> HIDE DEF built, e
<1>10. \A c \in Block : Owns(f, o, c) <=> Owns(m, o, c)
  BY <1>6 DEF Owns, Builds
<1>11. built.heap = [c \in Block |-> IF c = b /\ e # <<>>
                                     THEN [alloc |-> a, elems |-> e]
                                     ELSE k.heap[c]]
  BY <1>4, <1>6, <1>7, <1>9, <1>10 DEF Builds, Rewrites
<1>12. Builds(k, built, a, e, b)
  BY <1>4, <1>6, <1>9, <1>11 DEF Builds, Rewrites
<1>13. k.heap[b] = Free /\ k.alloc = m.alloc
  BY <1>4, <1>7 DEF Rewrites
<1>14. Renews(k, n, x, e, a, b)
  BY <1>1, <1>2, <1>3, <1>5, <1>12, <1>13, ReplaceRenews
<1> HIDE DEF n
<1>15. Sound(n) /\ View(n) = With(View(k), x, e)
  BY <1>3, <1>5, <1>13, <1>14, RenewIsSound
<1>16. /\ Sound(Empty(n, o)) /\ Empty(n, o).alloc = n.alloc
       /\ View(Empty(n, o)) = With(View(n), o, <<>>)
  BY <1>15, EmptyIsSound
<1>17. n.alloc = m.alloc
  BY <1>1, <1>2, <1>13, <1>14 DEF Memory, Renews
<1>18. View(Empty(n, o)) = [View(m) EXCEPT ![x] = View(m)[o], ![o] = <<>>]
  BY <1>3, <1>5, <1>15, <1>16 DEF With
<1> QED
  BY <1>2, <1>16, <1>17, <1>18

\* The move assignment: everything goes, and the old array is empty.
LEMMA MoveAssignIsSound ==
    ASSUME NEW m, Sound(m), NEW x \in Array, NEW o \in Array, x # o,
           m.alloc[x] # Absent, NEW b \in Block, m.heap[b] = Free
    PROVE  LET n == MoveAssign(m, x, o, b) IN
           /\ Sound(n)
           /\ View(n) = [View(m) EXCEPT ![x] = View(m)[o], ![o] = <<>>]
           /\ n.alloc = [m.alloc EXCEPT ![x] = IF traits.move THEN m.alloc[o]
                                               ELSE m.alloc[x]]
<1> DEFINE n == MoveAssign(m, x, o, b)
<1>1. CASE traits.move \/ m.alloc[x] = m.alloc[o]
  <2>1. Takes(m, n, x, o)
    BY <1>1, MoveAssignTakes
  <2> HIDE DEF n
  <2>2. /\ Sound(n)
        /\ View(n) = [View(m) EXCEPT ![x] = View(m)[o], ![o] = <<>>]
        /\ n.alloc = [m.alloc EXCEPT ![x] = m.alloc[o]]
    BY <2>1, TakeIsSound
  <2> QED
    BY <1>1, <2>2 DEF n
<1>2. CASE ~(traits.move \/ m.alloc[x] = m.alloc[o])
  <2>1. /\ Sound(n) /\ n.alloc = m.alloc
        /\ View(n) = [View(m) EXCEPT ![x] = View(m)[o], ![o] = <<>>]
    BY <1>2, MoveByElements
  <2>2. m.alloc = [m.alloc EXCEPT ![x] = m.alloc[x]]
    BY DEF Sound, Memory
  <2> QED
    BY <1>2, <2>1, <2>2
<1> QED
  BY <1>1, <1>2

\* The move constructor that is given an allocator: the elements of an array
\* whose allocator is another one stay where they are, moved from.
LEMMA MoveConstructWithIsSound ==
    ASSUME NEW m, Sound(m), NEW x \in Array, NEW o \in Array, x # o, m.size[x] = 0,
           NEW a \in Allocator, NEW b \in Block, m.heap[b] = Free
    PROVE  LET n == MoveConstructWith(m, x, o, a, b) IN
           /\ Sound(n) /\ n.alloc = [m.alloc EXCEPT ![x] = a]
           /\ View(n) =
                 [View(m) EXCEPT ![x] = View(m)[o],
                                     ![o] = IF a = m.alloc[o] THEN <<>>
                                            ELSE AllMovedFrom(View(m)[o])]
<1> DEFINE n == MoveConstructWith(m, x, o, a, b)
<1>1. CASE a = m.alloc[o]
  <2>1. n = MoveConstruct(m, x, o)
    BY <1>1 DEF MoveConstructWith, MoveConstruct
  <2>2. Takes(m, n, x, o)
    BY <2>1, MoveConstructTakes
  <2> HIDE DEF n
  <2>3. /\ Sound(n)
        /\ View(n) = [View(m) EXCEPT ![x] = View(m)[o], ![o] = <<>>]
        /\ n.alloc = [m.alloc EXCEPT ![x] = m.alloc[o]]
    BY <2>2, TakeIsSound
  <2> QED
    BY <1>1, <2>3 DEF n
<1>2. CASE a # m.alloc[o]
  <2> DEFINE e == Content(m, o)
             k == Construct(m, x, e, a, b)
  <2>1. n = MoveElements(k, o)
    BY <1>2 DEF MoveConstructWith
  <2>2. e \in Seq(Elements) /\ View(m)[o] = e
    BY ContentIsASequence DEF Sound, View
  <2>3. Renews(m, k, x, e, a, b)
    BY <2>2, ConstructRenews
  <2> HIDE DEF k, n, e
  <2>4. Sound(k) /\ View(k) = With(View(m), x, e)
    BY <2>2, <2>3, RenewIsSound
  <2>5. Content(k, o) = e
    BY <2>2, <2>4 DEF View, With
  <2>6. /\ Rewrites(k, n, o, AllMovedFrom(e))
        /\ AllMovedFrom(e) \in Seq(Elements) /\ Len(AllMovedFrom(e)) = k.size[o]
    BY <2>1, <2>4, <2>5, MoveElementsRewrites DEF Sound
  <2>7. Sound(n) /\ View(n) = With(View(k), o, AllMovedFrom(e))
    BY <2>4, <2>6, RewriteIsSound
  <2>8. n.alloc = [m.alloc EXCEPT ![x] = a]
    BY <2>3, <2>6 DEF Renews, Rewrites
  <2>9. View(n) = [View(m) EXCEPT ![x] = e, ![o] = AllMovedFrom(e)]
    BY <2>4, <2>7 DEF With
  <2> QED
    BY <1>2, <2>2, <2>7, <2>8, <2>9 DEF n
<1> QED
  BY <1>1, <1>2

----------------------------------------------------------------------------
(* The steps: what they keep, and what the users see                       *)

Inv == Sound(mem)

\* A step that gives one array a new value and an allocator.
LEMMA SetView ==
    ASSUME NEW x \in Array, NEW v, NEW a, View(mem)' = With(View(mem), x, v),
           mem.alloc' = [mem.alloc EXCEPT ![x] = a], UNCHANGED traits
    PROVE  Values!Set(x, v, a)
<1>1. View(mem)' = [View(mem) EXCEPT ![x] = v]
  BY DEF With
<1> QED
  BY <1>1 DEF Values!Set, View

\* A step that moves a value from one array to another.
LEMMA TransferView ==
    ASSUME NEW x \in Array, NEW o \in Array, NEW left, NEW a,
           View(mem)' = [View(mem) EXCEPT ![x] = View(mem)[o], ![o] = left],
           mem.alloc' = [mem.alloc EXCEPT ![x] = a], UNCHANGED traits
    PROVE  Values!Transfer(x, o, left, a)
BY DEF Values!Transfer, View

\* What the view has for one array.
LEMMA ContentView ==
    ASSUME NEW x \in Array
    PROVE  View(mem)[x] = Content(mem, x) /\ View(mem)'[x] = Content(mem, x)'
BY DEF View

\* An object that is no array has no elements.
LEMMA DeadIsEmpty ==
    ASSUME Inv, NEW x \in Array, ~Alive(x)
    PROVE  mem.size[x] = 0
BY DEF Inv, Sound, Fits, Alive

\* A constructor that is given a list.
LEMMA BeginWithList ==
    ASSUME Inv, NEW x \in Array, ~Alive(x), NEW a \in Allocator, NEW b \in Unused,
           NEW list \in Lists, mem' = Construct(mem, x, list, a, b), UNCHANGED traits
    PROVE  Inv' /\ Values!Begin(x)
<1>1. list \in Seq(Value) /\ list \in Seq(Elements)
  BY ListsAreSequences
<1>2. b \in Block /\ mem.heap[b] = Free /\ Sound(mem) /\ mem.size[x] = 0
  BY DeadIsEmpty DEF Unused, Inv
<1>3. Renews(mem, mem', x, list, a, b)
  BY <1>1, <1>2, ConstructRenews
<1>4. Sound(mem') /\ View(mem') = With(View(mem), x, list)
  BY <1>1, <1>2, <1>3, RenewIsSound
<1>5. mem.alloc' = [mem.alloc EXCEPT ![x] = a]
  BY <1>3 DEF Renews
<1>6. Values!Set(x, list, a)
  BY <1>4, <1>5, SetView
<1>7. Content(mem, x)' = list
  BY <1>4, ContentView DEF With, View
<1>8. Values!SetAny(x, a)
  BY <1>1, <1>6, <1>7 DEF Values!SetAny
<1> QED
  BY <1>4, <1>8 DEF Inv, Alive, Values!Begin, Values!Alive

\* A constructor that copies another array.
LEMMA BeginWithCopy ==
    ASSUME Inv, NEW x \in Array, ~Alive(x), NEW a \in Allocator, NEW b \in Unused,
           NEW o \in Array, Alive(o),
           mem' = Construct(mem, x, Content(mem, o), a, b), UNCHANGED traits
    PROVE  Inv' /\ Values!Begin(x)
<1>1. PICK e \in Seq(Elements) : e = Content(mem, o)
  BY ContentIsASequence DEF Inv, Sound
<1>2. b \in Block /\ mem.heap[b] = Free /\ Sound(mem) /\ mem.size[x] = 0
  BY DeadIsEmpty DEF Unused, Inv
<1>3. Renews(mem, mem', x, e, a, b)
  BY <1>1, <1>2, ConstructRenews
<1>4. Sound(mem') /\ View(mem') = With(View(mem), x, e)
  BY <1>2, <1>3, RenewIsSound
<1>5. mem.alloc' = [mem.alloc EXCEPT ![x] = a]
  BY <1>3 DEF Renews
<1>6. Values!Set(x, e, a)
  BY <1>4, <1>5, SetView
<1> QED
  BY <1>1, <1>4, <1>6 DEF Inv, Alive, Values!Begin, Values!Alive

\* A move constructor that is given an allocator.
LEMMA BeginWithMove ==
    ASSUME Inv, NEW x \in Array, ~Alive(x), NEW a \in Allocator, NEW b \in Unused,
           NEW o \in Array, Alive(o), mem' = MoveConstructWith(mem, x, o, a, b),
           UNCHANGED traits
    PROVE  Inv' /\ Values!BeginFrom(x, o)
<1>1. b \in Block /\ mem.heap[b] = Free /\ Sound(mem) /\ mem.size[x] = 0 /\ x # o
  BY DeadIsEmpty DEF Unused, Inv, Alive
<1>2. PICK left : left = IF a = mem.alloc[o] THEN <<>>
                         ELSE AllMovedFrom(View(mem)[o])
  OBVIOUS
<1>3. /\ Sound(mem') /\ mem'.alloc = [mem.alloc EXCEPT ![x] = a]
      /\ View(mem') = [View(mem) EXCEPT ![x] = View(mem)[o], ![o] = left]
  BY <1>1, <1>2, MoveConstructWithIsSound
<1>4. Values!Transfer(x, o, left, a)
  BY <1>3, TransferView
<1>5. AllMovedFrom(View(mem)[o]) = Values!AllMoved(o)
  BY ContentView DEF AllMovedFrom, Values!AllMoved
<1>6. Values!Transfer(x, o, IF a = mem.alloc[o] THEN <<>> ELSE Values!AllMoved(o), a)
  BY <1>2, <1>4, <1>5
<1> QED
  BY <1>3, <1>6 DEF Inv, Alive, Values!BeginFrom, Values!Alive

\* The first constructors.
LEMMA BeginStep ==
    ASSUME Inv, NEW x \in Array, Begin(x)
    PROVE  Inv' /\ (Values!Begin(x) \/ \E o \in Array : Values!BeginFrom(x, o))
<1>1. ~Alive(x) /\ UNCHANGED traits
  BY DEF Begin
<1>2. PICK a \in Allocator, b \in Unused :
         \/ \E list \in Lists : mem' = Construct(mem, x, list, a, b)
         \/ \E o \in Array :
               Alive(o) /\ mem' \in {Construct(mem, x, Content(mem, o), a, b),
                                     MoveConstructWith(mem, x, o, a, b)}
  BY DEF Begin
<1>3. CASE \E list \in Lists : mem' = Construct(mem, x, list, a, b)
  BY <1>1, <1>3, BeginWithList
<1>4. CASE \E o \in Array :
              Alive(o) /\ mem' \in {Construct(mem, x, Content(mem, o), a, b),
                                    MoveConstructWith(mem, x, o, a, b)}
  <2>1. PICK o \in Array : /\ Alive(o)
                           /\ \/ mem' = Construct(mem, x, Content(mem, o), a, b)
                              \/ mem' = MoveConstructWith(mem, x, o, a, b)
    BY <1>4
  <2>2. CASE mem' = Construct(mem, x, Content(mem, o), a, b)
    BY <1>1, <2>1, <2>2, BeginWithCopy
  <2>3. CASE mem' = MoveConstructWith(mem, x, o, a, b)
    BY <1>1, <2>1, <2>3, BeginWithMove
  <2> QED
    BY <2>1, <2>2, <2>3
<1> QED
  BY <1>2, <1>3, <1>4

\* The move constructor.
LEMMA BeginMovedStep ==
    ASSUME Inv, NEW x \in Array, BeginMoved(x)
    PROVE  Inv' /\ \E o \in Array : Values!BeginFrom(x, o)
<1>1. PICK o \in Array : Alive(o) /\ mem' = MoveConstruct(mem, x, o)
  BY DEF BeginMoved
<1>2. ~Alive(x) /\ mem.size[x] = 0 /\ x # o /\ Sound(mem) /\ UNCHANGED traits
  BY <1>1, DeadIsEmpty DEF BeginMoved, Inv, Alive
<1>3. Takes(mem, mem', x, o)
  BY <1>1, <1>2, MoveConstructTakes
<1>4. /\ Sound(mem') /\ mem'.alloc = [mem.alloc EXCEPT ![x] = mem.alloc[o]]
      /\ View(mem') = [View(mem) EXCEPT ![x] = View(mem)[o], ![o] = <<>>]
  BY <1>2, <1>3, TakeIsSound
<1>5. Values!Transfer(x, o, <<>>, mem.alloc[o])
  BY <1>2, <1>4, TransferView
<1>6. Values!BeginFrom(x, o)
  BY <1>1, <1>2, <1>5 DEF Alive, Values!BeginFrom, Values!Alive
<1> QED
  BY <1>4, <1>6 DEF Inv

\* The assignment of a list.
LEMMA AssignList ==
    ASSUME Inv, NEW x \in Array, Alive(x), NEW b \in Unused, NEW list \in Lists,
           mem' = ListAssign(mem, x, list, b), UNCHANGED traits
    PROVE  Inv' /\ Values!AssignList(x)
<1>1. list \in Seq(Value) /\ list \in Seq(Elements)
  BY ListsAreSequences
<1>2. b \in Block /\ mem.heap[b] = Free /\ Sound(mem) /\ mem.alloc[x] # Absent
  BY DEF Unused, Inv, Alive
<1>3. PICK a \in Allocator : a = mem.alloc[x]
  BY <1>1, <1>2, ListAssignRenews
<1>4. Renews(mem, mem', x, list, a, b)
  BY <1>1, <1>2, <1>3, ListAssignRenews
<1>5. Sound(mem') /\ View(mem') = With(View(mem), x, list)
  BY <1>1, <1>2, <1>4, RenewIsSound
<1>6. mem.alloc' = [mem.alloc EXCEPT ![x] = a]
  BY <1>4 DEF Renews
<1>7. Values!Set(x, list, a)
  BY <1>5, <1>6, SetView
<1>8. Content(mem, x)' = list
  BY <1>5, ContentView DEF With, View
<1>9. Values!SetAny(x, a)
  BY <1>1, <1>7, <1>8 DEF Values!SetAny
<1> QED
  BY <1>3, <1>5, <1>9 DEF Inv, Alive, Values!AssignList, Values!Alive

\* The copy assignment.
LEMMA AssignCopy ==
    ASSUME Inv, NEW x \in Array, Alive(x), NEW b \in Unused, NEW o \in Array, x # o,
           Alive(o), mem' = CopyAssign(mem, x, o, b), UNCHANGED traits
    PROVE  Inv' /\ Values!Assign(x, o)
<1>1. PICK e \in Seq(Elements) : e = Content(mem, o)
  BY ContentIsASequence DEF Inv, Sound
<1>2. b \in Block /\ mem.heap[b] = Free /\ Sound(mem)
  BY DEF Unused, Inv
<1>3. mem.alloc[x] # Absent /\ mem.alloc[o] # Absent
  BY DEF Alive
<1>4. PICK a \in Allocator : a = IF traits.copy THEN mem.alloc[o] ELSE mem.alloc[x]
  BY <1>2, <1>3, CopyAssignRenews
<1>5. Renews(mem, mem', x, e, a, b)
  BY <1>1, <1>2, <1>3, <1>4, CopyAssignRenews
<1>6. Sound(mem') /\ View(mem') = With(View(mem), x, e)
  BY <1>2, <1>5, RenewIsSound
<1>7. mem.alloc' = [mem.alloc EXCEPT ![x] = a]
  BY <1>5 DEF Renews
<1>8. Values!Set(x, e, a)
  BY <1>6, <1>7, SetView
<1>9. a = Values!Kept("copy", x, o)
  BY <1>4 DEF Values!Kept
<1> QED
  BY <1>1, <1>6, <1>8, <1>9 DEF Inv, Alive, Values!Assign, Values!Alive

\* The move assignment.
LEMMA AssignMove ==
    ASSUME Inv, NEW x \in Array, Alive(x), NEW b \in Unused, NEW o \in Array, x # o,
           Alive(o), mem' = MoveAssign(mem, x, o, b), UNCHANGED traits
    PROVE  Inv' /\ Values!Assign(x, o)
<1>1. b \in Block /\ mem.heap[b] = Free /\ Sound(mem) /\ mem.alloc[x] # Absent
  BY DEF Unused, Inv, Alive
<1>2. PICK a : a = IF traits.move THEN mem.alloc[o] ELSE mem.alloc[x]
  OBVIOUS
<1>3. /\ Sound(mem') /\ mem'.alloc = [mem.alloc EXCEPT ![x] = a]
      /\ View(mem') = [View(mem) EXCEPT ![x] = View(mem)[o], ![o] = <<>>]
  BY <1>1, <1>2, MoveAssignIsSound
<1>4. Values!Transfer(x, o, <<>>, a)
  BY <1>3, TransferView
<1>5. a = Values!Kept("move", x, o)
  BY <1>2 DEF Values!Kept
<1> QED
  BY <1>3, <1>4, <1>5 DEF Inv, Alive, Values!Assign, Values!Alive

\* The assignments; one to itself does nothing.
LEMMA AssignStep ==
    ASSUME Inv, NEW x \in Array, Assign(x)
    PROVE  /\ Inv'
           /\ \/ Values!AssignList(x)
              \/ \E o \in Array : Values!Assign(x, o)
              \/ UNCHANGED vars
<1>1. Alive(x) /\ UNCHANGED traits
  BY DEF Assign
<1>2. PICK b \in Unused :
         \/ \E list \in Lists : mem' = ListAssign(mem, x, list, b)
         \/ \E o \in Array :
               Alive(o) /\ mem' \in {CopyAssign(mem, x, o, b), MoveAssign(mem, x, o, b)}
  BY DEF Assign
<1>3. CASE \E list \in Lists : mem' = ListAssign(mem, x, list, b)
  BY <1>1, <1>3, AssignList
<1>4. CASE \E o \in Array :
              Alive(o) /\ mem' \in {CopyAssign(mem, x, o, b), MoveAssign(mem, x, o, b)}
  <2>1. PICK o \in Array : /\ Alive(o)
                           /\ \/ mem' = CopyAssign(mem, x, o, b)
                              \/ mem' = MoveAssign(mem, x, o, b)
    BY <1>4
  <2>2. CASE x = o
    <3>1. mem' = mem
      BY <2>1, <2>2 DEF CopyAssign, MoveAssign
    <3> QED
      BY <1>1, <3>1 DEF Inv, vars
  <2>3. CASE x # o /\ mem' = CopyAssign(mem, x, o, b)
    BY <1>1, <2>1, <2>3, AssignCopy
  <2>4. CASE x # o /\ mem' = MoveAssign(mem, x, o, b)
    BY <1>1, <2>1, <2>4, AssignMove
  <2> QED
    BY <2>1, <2>2, <2>3, <2>4
<1> QED
  BY <1>2, <1>3, <1>4

\* An element is written.
LEMMA WriteStep ==
    ASSUME Inv, NEW x \in Array, Write(x)
    PROVE  Inv' /\ Values!Write(x)
<1>1. PICK i \in 1 .. mem.size[x], v \in Value :
         mem' = [mem EXCEPT !.heap[mem.data[x]].elems[i] = v]
  BY DEF Write
<1>2. /\ mem \in Memory /\ mem.size[x] # 0 /\ Alive(x) /\ UNCHANGED traits
      /\ Sound(mem) /\ mem.data[x] \in Block /\ mem.heap[mem.data[x]] \in Allocated
      /\ Len(Content(mem, x)) = mem.size[x]
      /\ Content(mem, x) = mem.heap[mem.data[x]].elems
  BY OwnedIsNotFree, ContentIsASequence DEF Write, Inv, Sound, Memory, Content
<1>3. PICK s \in Seq(Elements) : s = Content(mem, x)
  BY ContentIsASequence DEF Inv, Sound
<1>4. PICK t : t = [s EXCEPT ![i] = v]
  OBVIOUS
<1>5. t \in Seq(Elements) /\ Len(t) = mem.size[x]
  BY <1>2, <1>3, <1>4, ExceptSeq DEF Elements
<1>6. PICK cell \in Allocated : cell = [alloc |-> mem.heap[mem.data[x]].alloc, elems |-> t]
  BY <1>2, <1>5 DEF Allocated
<1>7. [mem.heap[mem.data[x]] EXCEPT !.elems[i] = v] = cell
  <2>1. PICK old \in Allocated : old = mem.heap[mem.data[x]]
    BY <1>2
  <2>2. old = [alloc |-> old.alloc, elems |-> s]
    BY <1>2, <1>3, <2>1 DEF Allocated
  <2>3. [old EXCEPT !.elems[i] = v] = [alloc |-> old.alloc, elems |-> [s EXCEPT ![i] = v]]
    BY <2>2
  <2> QED
    BY <1>4, <1>6, <2>1, <2>3
<1>8. mem' = [mem EXCEPT !.heap[mem.data[x]] = cell]
  BY <1>1, <1>7
<1>9. /\ mem' \in Memory /\ mem'.data = mem.data /\ mem'.size = mem.size
      /\ mem'.alloc = mem.alloc
      /\ mem'.heap = [mem.heap EXCEPT ![mem.data[x]] = cell]
  BY <1>2, <1>8 DEF Memory
<1>10. mem'.heap = [c \in Block |->
                      IF Owns(mem, x, c) THEN [alloc |-> mem.heap[c].alloc, elems |-> t]
                      ELSE mem.heap[c]]
  BY <1>2, <1>6, <1>9 DEF Owns, Memory
<1>11. Rewrites(mem, mem', x, t)
  BY <1>9, <1>10 DEF Rewrites
<1>12. Sound(mem') /\ View(mem') = With(View(mem), x, t)
  BY <1>2, <1>5, <1>11, RewriteIsSound
<1>13. mem.alloc' = [mem.alloc EXCEPT ![x] = mem.alloc[x]]
  BY <1>9 DEF Memory
<1>14. Values!Set(x, t, mem.alloc[x])
  BY <1>2, <1>12, <1>13, SetView
<1>15. i \in 1 .. Len(Content(mem, x)) /\ t = [Content(mem, x) EXCEPT ![i] = v]
  BY <1>2, <1>3, <1>4
<1> QED
  BY <1>2, <1>12, <1>14, <1>15 DEF Inv, Alive, Values!Write, Values!Alive

\* Two arrays change places.
LEMMA SwapStep ==
    ASSUME Inv, NEW x \in Array, Swap(x)
    PROVE  Inv' /\ \E o \in Array : Values!Swap(x, o)
<1>1. PICK o \in Array :
         /\ Alive(o) /\ (traits.swap \/ mem.alloc[x] = mem.alloc[o])
         /\ mem' = SwapArrays(mem, x, o)
  BY DEF Swap
<1>2. mem \in Memory /\ Sound(mem) /\ Alive(x) /\ UNCHANGED traits
  BY DEF Swap, Inv, Sound
<1>3. /\ mem'.data = Exchanged(mem.data, x, o) /\ mem'.size = Exchanged(mem.size, x, o)
      /\ mem'.heap = mem.heap
      /\ mem'.alloc = IF traits.swap THEN Exchanged(mem.alloc, x, o) ELSE mem.alloc
  BY <1>1, <1>2 DEF SwapArrays, Memory
<1>4. ~traits.swap => mem.alloc = Exchanged(mem.alloc, x, o)
  BY <1>1, <1>2 DEF Exchanged, Memory
<1>5. mem'.alloc = Exchanged(mem.alloc, x, o)
  BY <1>3, <1>4
<1>6. mem' \in Memory
  BY <1>1, <1>2, <1>4 DEF SwapArrays, Memory, Exchanged
<1>7. Sound(mem') /\ View(mem') = Exchanged(View(mem), x, o)
  BY <1>2, <1>3, <1>5, <1>6, SwapIsSound
<1>8. mem'.alloc = [mem.alloc EXCEPT ![x] = Values!Kept("swap", x, o),
                                     ![o] = Values!Kept("swap", o, x)]
  BY <1>1, <1>2, <1>5 DEF Exchanged, Values!Kept, Memory
<1>9. View(mem)' = [View(mem) EXCEPT ![x] = View(mem)[o],
                                             ![o] = View(mem)[x]]
  BY <1>7 DEF Exchanged
<1>10. Values!Swap(x, o)
  BY <1>1, <1>2, <1>8, <1>9 DEF Values!Swap, Values!Alive, Alive, View
<1> QED
  BY <1>7, <1>10 DEF Inv

\* An array ends.
LEMMA EndStep ==
    ASSUME Inv, NEW x \in Array, End(x)
    PROVE  Inv' /\ Values!End(x)
<1>1. PICK n : n = Empty(mem, x)
  OBVIOUS
<1>2. mem' = SetAllocator(n, x, Absent) /\ Alive(x) /\ UNCHANGED traits /\ Sound(mem)
  BY <1>1 DEF End, Inv
<1>3. /\ Sound(n) /\ View(n) = With(View(mem), x, <<>>)
      /\ n.alloc = mem.alloc /\ n.size[x] = 0
  BY <1>1, <1>2, EmptyIsSound
<1>4. /\ Sound(mem') /\ View(mem') = View(n)
      /\ mem'.alloc = [n.alloc EXCEPT ![x] = Absent]
  BY <1>2, <1>3, RenameIsSound
<1>5. Values!Set(x, <<>>, Absent)
  BY <1>2, <1>3, <1>4, SetView
<1> QED
  BY <1>2, <1>4, <1>5 DEF Inv, Alive, Values!End, Values!Alive

----------------------------------------------------------------------------
(* The theorems                                                            *)

\* At the start there is no array and no block is given out.
LEMMA InitStep ==
    ASSUME Init
    PROVE  Inv /\ Values!Init
<1>1. mem = [data |-> [x \in Array |-> Null], size |-> [x \in Array |-> 0],
             alloc |-> [x \in Array |-> Absent], heap |-> [b \in Block |-> Free]]
  BY DEF Init
<1>2. mem \in Memory
  BY <1>1, FreeIsAllocated DEF Memory
<1>3. NoneLost(mem) /\ NoneShared(mem) /\ \A x \in Array : Fits(mem, x)
  BY <1>1 DEF NoneLost, NoneShared, Fits
<1>4. Values!Init
  BY <1>1 DEF Init, Values!Init, Content
<1> QED
  BY <1>2, <1>3, <1>4 DEF Inv, Sound

\* Every step keeps memory sound, and is a step of the values or none.
LEMMA EveryStep ==
    ASSUME Inv, [Next]_vars
    PROVE  Inv' /\ [Values!Next]_(Values!vars)
<1>1. CASE UNCHANGED vars
  BY <1>1 DEF vars, Inv, Values!vars
<1>2. ASSUME NEW x \in Array, Begin(x)
      PROVE  Inv' /\ Values!Next
  BY <1>2, BeginStep DEF Values!Next
<1>3. ASSUME NEW x \in Array, BeginMoved(x)
      PROVE  Inv' /\ Values!Next
  BY <1>3, BeginMovedStep DEF Values!Next
<1>4. ASSUME NEW x \in Array, Assign(x)
      PROVE  Inv' /\ (Values!Next \/ UNCHANGED vars)
  BY <1>4, AssignStep DEF Values!Next
<1>5. ASSUME NEW x \in Array, Write(x)
      PROVE  Inv' /\ Values!Next
  BY <1>5, WriteStep DEF Values!Next
<1>6. ASSUME NEW x \in Array, Swap(x)
      PROVE  Inv' /\ Values!Next
  BY <1>6, SwapStep DEF Values!Next
<1>7. ASSUME NEW x \in Array, End(x)
      PROVE  Inv' /\ Values!Next
  BY <1>7, EndStep DEF Values!Next
<1>8. Inv' /\ (Values!Next \/ UNCHANGED vars)
  BY <1>1, <1>2, <1>3, <1>4, <1>5, <1>6, <1>7 DEF Next
<1>9. UNCHANGED vars => UNCHANGED Values!vars
  BY DEF vars, Values!vars
<1> QED
  BY <1>8, <1>9

\* Memory stays sound, whatever a program does with its arrays.
THEOREM MemoryStaysSound == Spec => []Inv
<1>1. Init => Inv
  BY InitStep
<1>2. Inv /\ [Next]_vars => Inv'
  BY EveryStep
<1> QED
  BY <1>1, <1>2, PTL DEF Spec

\* Every block is one array's, of its size and from its allocator: none leaks,
\* none is freed twice, none is given back to the wrong allocator.
THEOREM BlocksHaveOwners == Spec => []BlocksAreOwned
<1>1. Inv => BlocksAreOwned
  BY DEF Inv, Sound, BlocksAreOwned, NoneLost, NoneShared, Owns, Fits, Alive
<1> QED
  BY <1>1, MemoryStaysSound, PTL

\* Arrays behave as values: the memory they share is never seen.
THEOREM ArraysAreValues == Spec => ImplementsValues
<1>1. Init => Inv /\ Values!Init
  BY InitStep
<1>2. Inv /\ [Next]_vars => Inv' /\ [Values!Next]_(Values!vars)
  BY EveryStep
<1> QED
  BY <1>1, <1>2, PTL DEF Spec, ImplementsValues, Values!Spec
=============================================================================
