---------------------------- MODULE FdOwnerProofs ----------------------------
(***************************************************************************)
(* LeasesAreOwned for any number of objects and descriptors.  Every        *)
(* operation is a chain of moves, closes and destructions; each of these   *)
(* keeps memory Sound, and says what it does to fd_, which is all the next *)
(* one needs: a new object may only be made where no descriptor is held.   *)
(***************************************************************************)
EXTENDS FdOwner, FiniteSetTheorems, TLAPS

Cell == Object \cup Temporary
Holding == Descriptor \cup {kInvalid, kReserved, Absent}

Sound(m, out) ==
    /\ m.fd \in [Cell -> Holding] /\ m.open \subseteq Descriptor /\ m.leases \in Int
    /\ out \subseteq Descriptor
    /\ OneOwner(m)
    /\ m.open = Held(m) \cup out
    /\ Held(m) \cap out = {}
    /\ m.leases = Cardinality(Held(m))

\* What a move does to fd_.
Moved(f, dst, src, left) == [f EXCEPT ![dst] = f[src], ![src] = left]

\* What std::swap does to it.
Exchanged(f, o, p) == [f EXCEPT ![o] = f[p], ![p] = f[o]]

\* What a program sees of memory: what each object holds.
View(m) == [o \in Object |-> m.fd[o]]

\* Between operations no temporary exists.
Resting(m) == \A t \in Temporary : m.fd[t] = Absent

Inv == Sound(mem, outside) /\ Resting(mem)

\* The sentinels are no descriptors.
LEMMA Sentinels ==
    kInvalid \notin Descriptor /\ kReserved \notin Descriptor /\ Absent \notin Descriptor
<1>1. kInvalid \in Int /\ kInvalid < 0
  BY DEF kInvalid
<1>2. kReserved \in Int /\ kReserved < 0
  BY SMT DEF kReserved
<1> QED
  BY <1>1, <1>2, DescriptorAssumption, AbsentAssumption

\* What is held is a finite set of descriptors.
LEMMA HeldIsFinite ==
    ASSUME NEW m, NEW out, Sound(m, out)
    PROVE  /\ IsFiniteSet(Held(m)) /\ Held(m) \subseteq Descriptor
           /\ DOMAIN m.fd = Cell
           /\ Held(m) = {d \in Descriptor : \E c \in Cell : m.fd[c] = d}
<1>1. Held(m) \subseteq Descriptor /\ DOMAIN m.fd = Cell
  BY DEF Sound, Held
<1>2. Held(m) = {d \in Descriptor : \E c \in Cell : m.fd[c] = d}
  BY <1>1 DEF Held
<1> QED
  BY <1>1, <1>2, DescriptorAssumption, FS_Subset

\* Fd::Close and what every assignment starts with.
LEMMA CloseIsSound ==
    ASSUME NEW m, NEW out, Sound(m, out), NEW o \in Cell
    PROVE  /\ Sound(Close(m, o), out)
           /\ Close(m, o).fd = [m.fd EXCEPT ![o] = kInvalid]
<1> DEFINE n == Close(m, o)
<1>1. n.fd = [m.fd EXCEPT ![o] = kInvalid]
  BY DEF Close, Hold, Memory, Sound
<1>2. n.fd \in [Cell -> Holding] /\ n.open \subseteq Descriptor /\ n.leases \in Int
  BY DEF Close, Hold, Memory, Sound, Holding
<1>3. DOMAIN n.fd = Cell
  BY <1>2
<1>4. Held(n) = {d \in Descriptor : \E c \in Cell : n.fd[c] = d}
  BY <1>3 DEF Held
<1>5. OneOwner(n)
  BY <1>1, <1>3, Sentinels DEF Sound, OneOwner
<1>6. Held(n) = Held(m) \ {m.fd[o]}
  BY <1>1, <1>4, Sentinels, HeldIsFinite DEF Sound, OneOwner, Holding
<1>7. CASE m.fd[o] \in Descriptor
  <2>1. m.fd[o] \in Held(m)
    BY <1>7, HeldIsFinite
  <2>2. n.open = m.open \ {m.fd[o]} /\ n.leases = m.leases - 1
    BY <1>7 DEF Close, Memory, Sound
  <2>3. Cardinality(Held(n)) = Cardinality(Held(m)) - 1
    BY <2>1, <1>6, HeldIsFinite, FS_RemoveElement
  <2> QED
    BY <1>1, <1>2, <1>5, <1>6, <2>1, <2>2, <2>3 DEF Sound
<1>8. CASE m.fd[o] \notin Descriptor
  <2>1. Held(n) = Held(m)
    BY <1>8, <1>6, HeldIsFinite
  <2>2. n.open = m.open /\ n.leases = m.leases
    BY <1>8 DEF Close, Hold, Memory, Sound
  <2> QED
    BY <1>1, <1>2, <1>5, <2>1, <2>2 DEF Sound
<1> QED
  BY <1>7, <1>8

\* A sentinel written where no descriptor is.
LEMMA HoldIsSound ==
    ASSUME NEW m, NEW out, Sound(m, out), NEW o \in Cell, m.fd[o] \notin Descriptor,
           NEW value \in {kInvalid, kReserved, Absent}
    PROVE  /\ Sound(Hold(m, o, value), out)
           /\ Hold(m, o, value).fd = [m.fd EXCEPT ![o] = value]
<1> DEFINE n == Hold(m, o, value)
<1>1. /\ n.fd = [m.fd EXCEPT ![o] = value]
      /\ n.open = m.open /\ n.leases = m.leases
      /\ n.fd \in [Cell -> Holding] /\ n.open \subseteq Descriptor /\ n.leases \in Int
  BY DEF Hold, Memory, Sound, Holding
<1>2. Held(n) = {d \in Descriptor : \E c \in Cell : n.fd[c] = d}
  BY <1>1 DEF Held
<1>3. value \notin Descriptor
  BY Sentinels
<1>4. Held(n) = Held(m)
  BY <1>1, <1>2, <1>3, HeldIsFinite DEF Sound
<1>5. OneOwner(n)
  BY <1>1, <1>3 DEF Sound, OneOwner
<1> QED
  BY <1>1, <1>4, <1>5 DEF Sound

\* The destructor.
LEMMA DestroyIsSound ==
    ASSUME NEW m, NEW out, Sound(m, out), NEW o \in Cell
    PROVE  /\ Sound(Destroy(m, o), out)
           /\ Destroy(m, o).fd = [m.fd EXCEPT ![o] = Absent]
<1> DEFINE n == Close(m, o)
<1>1. Sound(n, out) /\ n.fd = [m.fd EXCEPT ![o] = kInvalid]
  BY CloseIsSound
<1>2. n.fd[o] \notin Descriptor
  BY <1>1, Sentinels DEF Sound
<1> HIDE DEF n
<1>3. /\ Sound(Hold(n, o, Absent), out)
      /\ Hold(n, o, Absent).fd = [n.fd EXCEPT ![o] = Absent]
  BY <1>1, <1>2, HoldIsSound
<1> QED
  BY <1>1, <1>3 DEF Destroy, n, Sound

\* The move constructor.
LEMMA MoveConstructIsSound ==
    ASSUME NEW m, NEW out, Sound(m, out), NEW dst \in Cell, NEW src \in Cell,
           dst # src, m.fd[dst] \notin Descriptor
    PROVE  /\ Sound(MoveConstruct(m, dst, src), out)
           /\ MoveConstruct(m, dst, src).fd =
                 Moved(m.fd, dst, src, kInvalid)
<1> DEFINE n == MoveConstruct(m, dst, src)
<1>1. /\ n.fd = Moved(m.fd, dst, src, kInvalid)
      /\ n.open = m.open /\ n.leases = m.leases
      /\ n.fd \in [Cell -> Holding] /\ n.open \subseteq Descriptor /\ n.leases \in Int
  BY DEF MoveConstruct, Hold, Memory, Sound, Holding, Moved
<1>2. Held(n) = {d \in Descriptor : \E c \in Cell : n.fd[c] = d}
  BY <1>1 DEF Held
<1>3. Held(n) = Held(m)
  <2>1. ASSUME NEW d \in Descriptor, NEW c \in Cell, m.fd[c] = d
        PROVE  \E b \in Cell : n.fd[b] = d
    BY <2>1, <1>1 DEF Sound, Moved
  <2>2. ASSUME NEW d \in Descriptor, NEW c \in Cell, n.fd[c] = d
        PROVE  \E b \in Cell : m.fd[b] = d
    BY <2>2, <1>1, Sentinels DEF Sound, Moved
  <2> QED
    BY <1>2, <2>1, <2>2, HeldIsFinite
<1>4. OneOwner(n)
  BY <1>1, Sentinels DEF Sound, OneOwner, Moved
<1> QED
  BY <1>1, <1>3, <1>4 DEF Sound

\* Move assignment closes what the target holds, and is harmless to itself.
LEMMA MoveAssignIsSound ==
    ASSUME NEW m, NEW out, Sound(m, out), NEW dst \in Cell, NEW src \in Cell
    PROVE  /\ Sound(MoveAssign(m, dst, src), out)
           /\ MoveAssign(m, dst, src).fd =
                 IF dst = src THEN m.fd
                 ELSE Moved(m.fd, dst, src, kInvalid)
<1>1. CASE dst = src
  BY <1>1 DEF MoveAssign
<1>2. CASE dst # src
  <2> DEFINE n == Close(m, dst)
  <2>1. Sound(n, out) /\ n.fd = [m.fd EXCEPT ![dst] = kInvalid]
    BY CloseIsSound
  <2> HIDE DEF n
  <2>2. n.fd[dst] \notin Descriptor /\ n.fd[src] = m.fd[src]
    BY <1>2, <2>1, Sentinels DEF Sound
  <2>4. Sound(MoveConstruct(n, dst, src), out)
    BY <1>2, <2>1, <2>2, MoveConstructIsSound
  <2>5. MoveConstruct(n, dst, src).fd = Moved(n.fd, dst, src, kInvalid)
    BY DEF MoveConstruct, Hold, Memory, Moved
  <2> QED
    BY <1>2, <2>1, <2>2, <2>4, <2>5 DEF MoveAssign, n, Sound, Moved
<1> QED
  BY <1>1, <1>2

\* "storage_ = T(...)": the temporary is gone afterwards.
LEMMA AssignFromIsSound ==
    ASSUME NEW m, NEW out, Sound(m, out), NEW dst \in Cell, NEW t \in Cell, dst # t
    PROVE  /\ Sound(AssignFrom(m, dst, t), out)
           /\ AssignFrom(m, dst, t).fd =
                 Moved(m.fd, dst, t, Absent)
<1> DEFINE n == MoveAssign(m, dst, t)
<1>1. Sound(n, out) /\ n.fd = Moved(m.fd, dst, t, kInvalid)
  BY MoveAssignIsSound
<1> HIDE DEF n
<1>2. Sound(Destroy(n, t), out) /\ Destroy(n, t).fd = [n.fd EXCEPT ![t] = Absent]
  BY <1>1, DestroyIsSound
<1> QED
  BY <1>1, <1>2 DEF AssignFrom, n, Sound, Moved

----------------------------------------------------------------------------

\* Objects and the two temporaries are different cells.
LEMMA Cells ==
    /\ Fresh \in Cell /\ Old \in Cell /\ Fresh # Old
    /\ \A o \in Object : o \in Cell /\ o # Fresh /\ o # Old
    /\ Plain \subseteq Object /\ Optional \subseteq Object
    /\ \A m : Resting(m) <=> m.fd[Fresh] = Absent /\ m.fd[Old] = Absent
BY ObjectAssumption DEF Cell, Object, Temporary, Fresh, Old, Resting

\* std::exchange of an optional's storage, into a new cell.
LEMMA ExchangeIsSound ==
    ASSUME NEW m, NEW out, Sound(m, out), NEW new \in Cell, NEW src \in Object,
           new # src, new # Fresh, m.fd[new] \notin Descriptor, m.fd[Fresh] = Absent
    PROVE  /\ Sound(ExchangeReserved(m, new, src), out)
           /\ ExchangeReserved(m, new, src).fd =
                 [Moved(m.fd, new, src, kReserved) EXCEPT ![Fresh] = Absent]
<1> DEFINE n == MoveConstruct(m, new, src)
           h == Hold(n, Fresh, kReserved)
<1>1. Sound(n, out) /\ n.fd = Moved(m.fd, new, src, kInvalid)
  BY Cells, MoveConstructIsSound
<1> HIDE DEF n
<1>2. n.fd[Fresh] \notin Descriptor
  BY <1>1, Cells, Sentinels DEF Sound, Moved
<1>3. Sound(h, out) /\ h.fd = [n.fd EXCEPT ![Fresh] = kReserved]
  BY <1>1, <1>2, Cells, HoldIsSound
<1> HIDE DEF h
<1>4. /\ Sound(AssignFrom(h, src, Fresh), out)
      /\ AssignFrom(h, src, Fresh).fd = Moved(h.fd, src, Fresh, Absent)
  BY <1>3, Cells, AssignFromIsSound
<1> QED
  BY <1>1, <1>3, <1>4, Cells DEF ExchangeReserved, n, h, Sound, Moved

\* Moving an optional leaves the source without a value.
LEMMA MoveOptionalIsSound ==
    ASSUME NEW m, NEW out, Sound(m, out), Resting(m), NEW dst \in Object, NEW src \in Object,
           dst # src, m.fd[dst] = Absent
    PROVE  /\ Sound(MoveOptional(m, dst, src), out) /\ Resting(MoveOptional(m, dst, src))
           /\ View(MoveOptional(m, dst, src)) = Moved(View(m), dst, src, kReserved)
<1>1. m.fd[dst] \notin Descriptor /\ m.fd[Fresh] = Absent /\ m.fd[Old] = Absent
  BY Cells, Sentinels
<1>2. /\ Sound(ExchangeReserved(m, dst, src), out)
      /\ ExchangeReserved(m, dst, src).fd =
            [m.fd EXCEPT ![dst] = m.fd[src], ![src] = kReserved, ![Fresh] = Absent]
  BY <1>1, Cells, ExchangeIsSound DEF Moved
<1> DEFINE n == ExchangeReserved(m, dst, src)
<1> HIDE DEF n
<1>3. View(n) = Moved(View(m), dst, src, kReserved)
  BY <1>2, Cells DEF n, View, Moved, Sound
<1>4. Resting(n)
  BY <1>1, <1>2, Cells DEF n, Sound
<1> QED
  BY <1>2, <1>3, <1>4 DEF MoveOptional, n

\* So does assigning one, and the target's descriptor is closed.
LEMMA AssignOptionalIsSound ==
    ASSUME NEW m, NEW out, Sound(m, out), Resting(m), NEW dst \in Object, NEW src \in Object
    PROVE  /\ Sound(AssignOptional(m, dst, src), out) /\ Resting(AssignOptional(m, dst, src))
           /\ View(AssignOptional(m, dst, src)) =
                 IF dst = src THEN View(m) ELSE Moved(View(m), dst, src, kReserved)
<1>1. CASE dst = src
  BY <1>1 DEF AssignOptional
<1>2. CASE dst # src
  <2> DEFINE n == ExchangeReserved(m, Old, src)
  <2>1. m.fd[Old] \notin Descriptor /\ m.fd[Fresh] = Absent /\ m.fd[Old] = Absent
    BY Cells, Sentinels
  <2>2. /\ Sound(n, out)
        /\ n.fd = [Moved(m.fd, Old, src, kReserved) EXCEPT ![Fresh] = Absent]
    BY <2>1, Cells, ExchangeIsSound
  <2> HIDE DEF n
  <2>3. /\ Sound(AssignFrom(n, dst, Old), out)
        /\ AssignFrom(n, dst, Old).fd = Moved(n.fd, dst, Old, Absent)
    BY <2>2, Cells, AssignFromIsSound
  <2> DEFINE k == AssignFrom(n, dst, Old)
  <2> HIDE DEF k
  <2>4. /\ n.fd[Old] = m.fd[src] /\ n.fd[src] = kReserved /\ n.fd[Fresh] = Absent
        /\ \A c \in Object : c # src => n.fd[c] = m.fd[c]
    BY <2>2, Cells DEF Sound, Moved
  <2>5. /\ k.fd[dst] = m.fd[src] /\ k.fd[src] = kReserved
        /\ k.fd[Fresh] = Absent /\ k.fd[Old] = Absent
        /\ \A c \in Object : c # src /\ c # dst => k.fd[c] = m.fd[c]
    BY <1>2, <2>2, <2>3, <2>4, Cells DEF k, Sound, Moved
  <2>7. Resting(k)
    BY <2>5, Cells
  <2>8. View(k) = Moved(View(m), dst, src, kReserved)
    BY <1>2, <2>5 DEF Moved, View
  <2>6. AssignOptional(m, dst, src) = k
    BY <1>2 DEF AssignOptional, n, k
  <2> QED
    BY <1>2, <2>3, <2>6, <2>7, <2>8 DEF k
<1> QED
  BY <1>1, <1>2

\* reset and emplace.
LEMMA AssignSentinelIsSound ==
    ASSUME NEW m, NEW out, Sound(m, out), Resting(m), NEW o \in Object,
           NEW value \in {kInvalid, kReserved}
    PROVE  LET n == AssignFrom(Hold(m, Fresh, value), o, Fresh)
           IN  Sound(n, out) /\ Resting(n) /\ View(n) = [View(m) EXCEPT ![o] = value]
<1> DEFINE h == Hold(m, Fresh, value)
<1>1. m.fd[Fresh] \notin Descriptor /\ m.fd[Old] = Absent
  BY Cells, Sentinels
<1>2. Sound(h, out) /\ h.fd = [m.fd EXCEPT ![Fresh] = value]
  <2>1. CASE value = kInvalid
    BY <1>1, <2>1, Cells, HoldIsSound
  <2>2. CASE value = kReserved
    BY <1>1, <2>2, Cells, HoldIsSound
  <2> QED
    BY <2>1, <2>2
<1> HIDE DEF h
<1>3. /\ Sound(AssignFrom(h, o, Fresh), out)
      /\ AssignFrom(h, o, Fresh).fd = Moved(h.fd, o, Fresh, Absent)
  BY <1>2, Cells, AssignFromIsSound
<1> DEFINE n == AssignFrom(h, o, Fresh)
<1> HIDE DEF n
<1>4. /\ h.fd[Fresh] = value /\ h.fd[Old] = Absent
      /\ \A c \in Object : h.fd[c] = m.fd[c]
  BY <1>1, <1>2, Cells DEF Sound
<1>5. /\ n.fd[o] = value /\ n.fd[Fresh] = Absent /\ n.fd[Old] = Absent
      /\ \A c \in Object : c # o => n.fd[c] = m.fd[c]
  <2>1. DOMAIN h.fd = Cell /\ n.fd = Moved(h.fd, o, Fresh, Absent)
    BY <1>2, <1>3 DEF n, Sound
  <2>2. n.fd[o] = h.fd[Fresh] /\ n.fd[Fresh] = Absent
        /\ \A c \in Cell : c # o /\ c # Fresh => n.fd[c] = h.fd[c]
    BY <2>1, Cells DEF Moved
  <2> QED
    BY <1>4, <2>2, Cells
<1>6. Resting(n)
  BY <1>5, Cells
<1>7. View(n) = [View(m) EXCEPT ![o] = value]
  BY <1>5 DEF View
<1> QED
  BY <1>3, <1>6, <1>7 DEF h, n

\* An optional given a value, its own included.
LEMMA AssignValueIsSound ==
    ASSUME NEW m, NEW out, Sound(m, out), Resting(m), NEW o \in Object, NEW src \in Object
    PROVE  /\ Sound(AssignValue(m, o, src), out) /\ Resting(AssignValue(m, o, src))
           /\ View(AssignValue(m, o, src)) =
                 IF o = src THEN View(m) ELSE Moved(View(m), o, src, kInvalid)
<1> DEFINE n == MoveConstruct(m, Fresh, src)
<1>1. m.fd[Fresh] \notin Descriptor /\ m.fd[Old] = Absent
  BY Cells, Sentinels
<1>2. Sound(n, out) /\ n.fd = Moved(m.fd, Fresh, src, kInvalid)
  BY <1>1, Cells, MoveConstructIsSound
<1> HIDE DEF n
<1>3. /\ Sound(AssignFrom(n, o, Fresh), out)
      /\ AssignFrom(n, o, Fresh).fd = Moved(n.fd, o, Fresh, Absent)
  BY <1>2, Cells, AssignFromIsSound
<1> DEFINE k == AssignFrom(n, o, Fresh)
<1> HIDE DEF k
<1>4. Resting(k)
  BY <1>1, <1>2, <1>3, Cells DEF k, Sound, Moved
<1>5. View(k) = IF o = src THEN View(m) ELSE Moved(View(m), o, src, kInvalid)
  BY <1>1, <1>2, <1>3, Cells DEF k, Sound, Moved, View
<1> QED
  BY <1>3, <1>4, <1>5 DEF AssignValue, n, k

\* std::swap, of an object with itself included.
LEMMA SwapIsSound ==
    ASSUME NEW m, NEW out, Sound(m, out), Resting(m), NEW o \in Object, NEW p \in Object
    PROVE  /\ Sound(SwapFds(m, o, p), out) /\ Resting(SwapFds(m, o, p))
           /\ View(SwapFds(m, o, p)) = Exchanged(View(m), o, p)
<1> DEFINE n == MoveConstruct(m, Old, o)
           k == MoveAssign(n, o, p)
<1>1. m.fd[Old] \notin Descriptor /\ m.fd[Fresh] = Absent
  BY Cells, Sentinels
<1>2. Sound(n, out) /\ n.fd = Moved(m.fd, Old, o, kInvalid)
  BY <1>1, Cells, MoveConstructIsSound
<1> HIDE DEF n
<1>3. /\ Sound(k, out)
      /\ k.fd = IF o = p THEN n.fd ELSE Moved(n.fd, o, p, kInvalid)
  BY <1>2, Cells, MoveAssignIsSound
<1> HIDE DEF k
<1>4. /\ Sound(AssignFrom(k, p, Old), out)
      /\ AssignFrom(k, p, Old).fd = Moved(k.fd, p, Old, Absent)
  BY <1>3, Cells, AssignFromIsSound
<1>5. k.fd[Fresh] = Absent
  BY <1>1, <1>2, <1>3, Cells DEF Sound, Moved
<1> DEFINE q == AssignFrom(k, p, Old)
<1> HIDE DEF q
<1>6. Resting(q)
  BY <1>3, <1>4, <1>5, Cells DEF q, Sound, Moved
<1>7. View(q) = Exchanged(View(m), o, p)
  <2>1. DOMAIN m.fd = Cell /\ DOMAIN n.fd = Cell /\ DOMAIN k.fd = Cell
    BY <1>2, <1>3 DEF Sound
  <2>2. CASE o = p
    BY <1>2, <1>3, <1>4, <2>1, <2>2, Cells DEF q, Moved, Exchanged, View
  <2>3. CASE o # p
    <3>1. k.fd[Old] = m.fd[o] /\ k.fd[o] = m.fd[p]
          /\ \A c \in Object : c # o /\ c # p => k.fd[c] = m.fd[c]
      BY <1>2, <1>3, <2>1, <2>3, Cells DEF Moved
    <3>2. q.fd[p] = m.fd[o] /\ q.fd[o] = m.fd[p]
          /\ \A c \in Object : c # o /\ c # p => q.fd[c] = m.fd[c]
      BY <1>4, <2>1, <2>3, <3>1, Cells DEF q, Moved
    <3> QED
      BY <3>2 DEF Exchanged, View
  <2> QED
    BY <2>2, <2>3
<1> QED
  BY <1>4, <1>6, <1>7 DEF SwapFds, n, k, q

\* A new Fd from another object's.
LEMMA NewFdIsSound ==
    ASSUME NEW m, NEW out, Sound(m, out), Resting(m), NEW dst \in Object, NEW src \in Object,
           dst # src, m.fd[dst] = Absent
    PROVE  /\ Sound(MoveConstruct(m, dst, src), out) /\ Resting(MoveConstruct(m, dst, src))
           /\ View(MoveConstruct(m, dst, src)) = Moved(View(m), dst, src, kInvalid)
<1>1. m.fd[dst] \notin Descriptor /\ m.fd[Fresh] = Absent /\ m.fd[Old] = Absent
  BY Cells, Sentinels
<1>2. /\ Sound(MoveConstruct(m, dst, src), out)
      /\ MoveConstruct(m, dst, src).fd = Moved(m.fd, dst, src, kInvalid)
  BY <1>1, Cells, MoveConstructIsSound
<1> DEFINE n == MoveConstruct(m, dst, src)
<1> HIDE DEF n
<1>3. Resting(n)
  BY <1>1, <1>2, Cells DEF n, Sound, Moved
<1>4. View(n) = Moved(View(m), dst, src, kInvalid)
  BY <1>2, Cells DEF n, Sound, Moved, View
<1> QED
  BY <1>2, <1>3, <1>4 DEF n

----------------------------------------------------------------------------

\* A descriptor the kernel has just given out is in one temporary.
LEMMA OpenStep ==
    ASSUME Inv, NEW o \in Object, Open(o)
    PROVE  Inv'
<1>1. PICK d \in Descriptor \ mem.open :
         mem' = LET opened == Memory([mem.fd EXCEPT ![Fresh] = d],
                                     mem.open \cup {d}, mem.leases + 1)
                IN  Destroy(MoveConstruct(opened, o, Fresh), Fresh)
  BY DEF Open
<1> DEFINE m == Memory([mem.fd EXCEPT ![Fresh] = d], mem.open \cup {d}, mem.leases + 1)
           n == MoveConstruct(m, o, Fresh)
<1>2. Sound(mem, outside) /\ mem.fd[Fresh] = Absent /\ mem.fd[Old] = Absent
      /\ mem.fd[o] = Absent /\ outside' = outside
  BY Cells DEF Inv, Open, Alive
<1>3. m.fd = [mem.fd EXCEPT ![Fresh] = d] /\ m.open = mem.open \cup {d}
      /\ m.leases = mem.leases + 1
  BY DEF Memory
<1>4. Sound(m, outside)
  <2> HIDE DEF m
  <2>1. m.fd \in [Cell -> Holding] /\ m.open \subseteq Descriptor /\ m.leases \in Int
    BY <1>2, <1>3, Cells DEF Sound, Holding
  <2>2. d \notin Held(mem) /\ d \notin outside
    BY <1>2 DEF Sound
  <2>3. Held(m) = {e \in Descriptor : \E c \in Cell : m.fd[c] = e}
    BY <2>1 DEF Held
  <2>4. Held(mem) = {e \in Descriptor : \E c \in Cell : mem.fd[c] = e}
        /\ IsFiniteSet(Held(mem))
    BY <1>2, HeldIsFinite
  <2>5. Held(m) = Held(mem) \cup {d}
    BY <1>2, <1>3, <2>3, <2>4, Cells, Sentinels DEF Sound
  <2>6. Cardinality(Held(m)) = Cardinality(Held(mem)) + 1
    BY <2>2, <2>4, <2>5, FS_AddElement
  <2>7. OneOwner(m)
    BY <1>2, <1>3, <2>1, <2>2, <2>4 DEF Sound, OneOwner
  <2> QED
    BY <1>2, <1>3, <2>1, <2>2, <2>5, <2>6, <2>7 DEF Sound
<1>5. m.fd[o] \notin Descriptor
  BY <1>2, <1>3, Cells, Sentinels DEF Sound
<1>6. m.fd[Old] = Absent
  BY <1>2, <1>3, Cells DEF Sound
<1> HIDE DEF m
<1>7. Sound(n, outside) /\ n.fd = Moved(m.fd, o, Fresh, kInvalid)
  BY <1>4, <1>5, Cells, MoveConstructIsSound
<1>8. n.fd[Old] = Absent
  BY <1>4, <1>6, <1>7, Cells DEF Moved, Sound
<1> HIDE DEF n
<1>9. Sound(Destroy(n, Fresh), outside) /\ Destroy(n, Fresh).fd = [n.fd EXCEPT ![Fresh] = Absent]
  BY <1>7, Cells, DestroyIsSound
<1>10. Resting(Destroy(n, Fresh))
  BY <1>7, <1>8, <1>9, Cells DEF Sound
<1>11. mem' = Destroy(n, Fresh)
  BY <1>1 DEF n, m
<1> QED
  BY <1>2, <1>9, <1>10, <1>11, Cells DEF Inv

\* Release hands the descriptor over: it is no longer held and still open.
LEMMA ReleaseStep ==
    ASSUME Inv, NEW o \in Object, Release(o)
    PROVE  Inv'
<1> DEFINE d == mem.fd[o]
           n == Memory([mem.fd EXCEPT ![o] = kInvalid], mem.open, mem.leases - 1)
<1>1. Sound(mem, outside) /\ mem.fd[Fresh] = Absent /\ mem.fd[Old] = Absent
      /\ d \in Descriptor /\ d = mem.fd[o] /\ outside' = outside \cup {d} /\ mem' = n
  BY Cells DEF Inv, Release
<1>2. n.fd = [mem.fd EXCEPT ![o] = kInvalid] /\ n.open = mem.open
      /\ n.leases = mem.leases - 1
  BY DEF Memory
<1> HIDE DEF n, d
<1>3. n.fd \in [Cell -> Holding] /\ n.open \subseteq Descriptor /\ n.leases \in Int
  BY <1>1, <1>2, Cells DEF Sound, Holding
<1>4. Held(n) = {e \in Descriptor : \E c \in Cell : n.fd[c] = e}
  BY <1>3 DEF Held
<1>5. Held(mem) = {e \in Descriptor : \E c \in Cell : mem.fd[c] = e}
      /\ IsFiniteSet(Held(mem)) /\ d \in Held(mem) /\ DOMAIN mem.fd = Cell
  BY <1>1, Cells, HeldIsFinite
<1>6. Held(n) = Held(mem) \ {d}
  BY <1>1, <1>2, <1>4, <1>5, Cells, Sentinels DEF Sound, OneOwner
<1>7. Cardinality(Held(n)) = Cardinality(Held(mem)) - 1
  BY <1>5, <1>6, FS_RemoveElement
<1>8. OneOwner(n)
  BY <1>1, <1>2, <1>3, Sentinels DEF Sound, OneOwner
<1>9. Sound(n, outside \cup {d})
  BY <1>1, <1>2, <1>3, <1>5, <1>6, <1>7, <1>8 DEF Sound
<1>10. Resting(n)
  BY <1>1, <1>2, Cells DEF Sound
<1> QED
  BY <1>1, <1>9, <1>10 DEF Inv

\* Whoever took one over closes it.
LEMMA ForeignCloseStep ==
    ASSUME Inv, ForeignClose
    PROVE  Inv'
<1>1. PICK d \in outside : /\ outside' = outside \ {d}
                           /\ mem' = Memory(mem.fd, mem.open \ {d}, mem.leases)
  BY DEF ForeignClose
<1>2. mem'.fd = mem.fd /\ mem'.open = mem.open \ {d} /\ mem'.leases = mem.leases
  BY <1>1 DEF Memory
<1>3. Held(mem') = Held(mem) /\ (OneOwner(mem') <=> OneOwner(mem))
      /\ (Resting(mem') <=> Resting(mem))
  BY <1>2 DEF Held, OneOwner, Resting
<1> QED
  BY <1>1, <1>2, <1>3 DEF Inv, Sound

\* What is done to an Fd, or to the Fd in an optional.
LEMMA OnFdStep ==
    ASSUME Inv, NEW o \in Object, OnFd(o)
    PROVE  Inv'
<1>1. Sound(mem, outside) /\ Resting(mem) /\ mem.fd[o] # Absent /\ outside' = outside
      /\ mem.fd[Fresh] = Absent /\ mem.fd[Old] = Absent
  BY Cells DEF Inv, OnFd, HasFd, Alive
<1> SUFFICES Sound(mem', outside) /\ Resting(mem')
  BY <1>1 DEF Inv
<1>2. CASE mem' = Close(mem, o)
  <2>1. Sound(mem', outside) /\ mem'.fd = [mem.fd EXCEPT ![o] = kInvalid]
    BY <1>1, <1>2, Cells, CloseIsSound
  <2> QED
    BY <1>1, <2>1, Cells DEF Sound
<1>3. ASSUME NEW p \in Object, ~Alive(p), mem' = MoveConstruct(mem, p, o)
      PROVE  Sound(mem', outside) /\ Resting(mem')
  BY <1>1, <1>3, NewFdIsSound DEF Alive
<1>4. ASSUME NEW p \in Object, mem' = MoveAssign(mem, p, o)
      PROVE  Sound(mem', outside) /\ Resting(mem')
  <2>1. /\ Sound(mem', outside)
        /\ mem'.fd = IF p = o THEN mem.fd ELSE Moved(mem.fd, p, o, kInvalid)
    BY <1>1, <1>4, Cells, MoveAssignIsSound
  <2> QED
    BY <1>1, <2>1, Cells DEF Moved, Sound
<1>5. ASSUME NEW p \in Object, mem' = SwapFds(mem, p, o)
      PROVE  Sound(mem', outside) /\ Resting(mem')
  BY <1>1, <1>5, SwapIsSound
<1>6. ASSUME NEW p \in Object, mem' = AssignValue(mem, p, o)
      PROVE  Sound(mem', outside) /\ Resting(mem')
  BY <1>1, <1>6, AssignValueIsSound
<1> QED
  BY <1>2, <1>3, <1>4, <1>5, <1>6 DEF OnFd

\* What is done to an optional.
LEMMA OnOptionalStep ==
    ASSUME Inv, NEW o \in Object, OnOptional(o)
    PROVE  Inv'
<1>1. Sound(mem, outside) /\ Resting(mem) /\ mem.fd[o] # Absent /\ outside' = outside
  BY DEF Inv, OnOptional, IsOptional, Alive
<1> SUFFICES Sound(mem', outside) /\ Resting(mem')
  BY <1>1 DEF Inv
<1>2. CASE mem' = Reset(mem, o)
  BY <1>1, <1>2, AssignSentinelIsSound DEF Reset
<1>3. CASE mem' = EmplaceClosed(mem, o)
  BY <1>1, <1>3, AssignSentinelIsSound DEF EmplaceClosed
<1>4. ASSUME NEW p \in Optional, ~Alive(p), mem' = MoveOptional(mem, p, o)
      PROVE  Sound(mem', outside) /\ Resting(mem')
  BY <1>1, <1>4, Cells, MoveOptionalIsSound DEF Alive
<1>5. ASSUME NEW p \in Optional, mem' = AssignOptional(mem, p, o)
      PROVE  Sound(mem', outside) /\ Resting(mem')
  BY <1>1, <1>5, Cells, AssignOptionalIsSound
<1>6. ASSUME NEW p \in Optional, mem' = SwapFds(mem, p, o)
      PROVE  Sound(mem', outside) /\ Resting(mem')
  BY <1>1, <1>6, Cells, SwapIsSound
<1>7. ASSUME NEW p \in Plain, NEW fallback \in Object, ~Alive(p), HasFd(fallback),
             mem' = ValueOr(mem, p, o, fallback)
      PROVE  Sound(mem', outside) /\ Resting(mem')
  <2> DEFINE src == IF HasValue(mem, o) THEN o ELSE fallback
  <2>1. src \in Object /\ p \in Object /\ p # src /\ mem.fd[p] = Absent
    BY <1>1, <1>7, Cells DEF Alive, HasFd
  <2>2. mem' = MoveConstruct(mem, p, src)
    BY <1>7 DEF ValueOr
  <2> HIDE DEF src
  <2> QED
    BY <1>1, <2>1, <2>2, NewFdIsSound
<1> QED
  BY <1>2, <1>3, <1>4, <1>5, <1>6, <1>7 DEF OnOptional

LEMMA InvStep == Inv /\ [Next]_vars => Inv'
<1> SUFFICES ASSUME Inv, [Next]_vars PROVE Inv'
  OBVIOUS
<1>1. Sound(mem, outside) /\ Resting(mem) /\ mem.fd[Fresh] = Absent /\ mem.fd[Old] = Absent
  BY Cells DEF Inv
<1>2. ASSUME NEW o \in Object, Begin(o) PROVE Inv'
  <2> DEFINE value == IF o \in Optional THEN kReserved ELSE kInvalid
  <2>1. mem.fd[o] \notin Descriptor /\ mem' = Hold(mem, o, value) /\ outside' = outside
    BY <1>2, Sentinels DEF Begin, Alive
  <2>2. value \in {kInvalid, kReserved, Absent}
    OBVIOUS
  <2> HIDE DEF value
  <2>3. Sound(mem', outside) /\ mem'.fd = [mem.fd EXCEPT ![o] = value]
    BY <1>1, <2>1, <2>2, Cells, HoldIsSound
  <2> QED
    BY <1>1, <2>1, <2>3, Cells DEF Inv, Sound
<1>3. ASSUME NEW o \in Object, End(o) PROVE Inv'
  <2>1. mem' = Destroy(mem, o) /\ outside' = outside
    BY <1>3 DEF End
  <2>2. Sound(mem', outside) /\ mem'.fd = [mem.fd EXCEPT ![o] = Absent]
    BY <1>1, <2>1, Cells, DestroyIsSound
  <2> QED
    BY <1>1, <2>1, <2>2, Cells DEF Inv, Sound
<1>4. CASE UNCHANGED vars
  BY <1>4 DEF vars, Inv
<1> QED
  BY <1>2, <1>3, <1>4, OpenStep, OnFdStep, OnOptionalStep, ReleaseStep, ForeignCloseStep
     DEF Next

\* At the start nothing exists and nothing is open.
LEMMA InvInit == Init => Inv
<1> SUFFICES ASSUME Init PROVE Inv
  OBVIOUS
<1>1. /\ mem.fd = [o \in Cell |-> Absent] /\ mem.open = {} /\ mem.leases = 0
      /\ outside = {}
  BY DEF Init, Memory, Cell
<1>2. mem.fd \in [Cell -> Holding] /\ Held(mem) = {} /\ OneOwner(mem)
  BY <1>1, Sentinels DEF Holding, Held, OneOwner
<1>3. Resting(mem)
  BY <1>1, Cells
<1> QED
  BY <1>1, <1>2, <1>3, FS_EmptySet DEF Inv, Sound

\* Every open descriptor has exactly one owner, and the pool counts those held.
THEOREM OwnersCorrect == Spec => []LeasesAreOwned
<1>1. Inv => LeasesAreOwned
  BY DEF Inv, Sound, LeasesAreOwned
<1> QED
  BY <1>1, InvInit, InvStep, PTL DEF Spec

----------------------------------------------------------------------------
(* Fd and std::optional<Fd> implement DescriptorOwners.  The lemmas above   *)
(* say what each operation does to the View of memory; Sound says what is   *)
(* open once it is done, which is the second half of every abstract step.   *)

\* What a step of the abstract specification does, in this one's terms.
Becomes(h, out) == View(mem') = h /\ outside' = out

\* With no temporary about, the open descriptors are those the objects hold
\* and those handed over.
LEMMA OpenIsSeen ==
    ASSUME NEW m, NEW out, Sound(m, out), Resting(m)
    PROVE  m.open = ({View(m)[o] : o \in Object} \cap Descriptor) \cup out
<1>1. m.fd[Fresh] = Absent /\ m.fd[Old] = Absent
  BY Cells
<1>2. Held(m) = {d \in Descriptor : \E c \in Cell : m.fd[c] = d}
  BY HeldIsFinite
<1>3. Held(m) = {View(m)[o] : o \in Object} \cap Descriptor
  BY <1>1, <1>2, Sentinels DEF View, Cell, Temporary
<1> QED
  BY <1>3 DEF Sound

\* So a step that keeps the invariant and gives the objects what the abstract
\* one gives them is that abstract step.
LEMMA StepIsSeen ==
    ASSUME Inv', NEW h, NEW out, Becomes(h, out)
    PROVE  Owners!Become(h, out)
<1>1. mem'.open = ({View(mem')[o] : o \in Object} \cap Descriptor) \cup outside'
  BY OpenIsSeen DEF Inv
<1>2. Owners!Object = Object
  BY DEF Owners!Object, Object
<1>3. [o \in Object |-> mem.fd[o]]' = View(mem')
  BY DEF View
<1> QED
  BY <1>1, <1>2, <1>3 DEF Becomes, Owners!Become

\* A step that changes nothing an object holds is no step at all.
LEMMA StutterIsSeen ==
    ASSUME Inv, Inv', Becomes(View(mem), outside)
    PROVE  UNCHANGED Owners!vars
<1>1. mem.open = ({View(mem)[o] : o \in Object} \cap Descriptor) \cup outside
  BY OpenIsSeen DEF Inv
<1>2. mem'.open = ({View(mem')[o] : o \in Object} \cap Descriptor) \cup outside'
  BY OpenIsSeen DEF Inv
<1>3. View(mem') = View(mem) /\ outside' = outside
  BY DEF Becomes
<1>4. mem'.open = mem.open
  BY <1>1, <1>2, <1>3
<1> QED
  BY <1>3, <1>4 DEF Owners!vars, View

----------------------------------------------------------------------------

\* The abstract guards, in this specification's terms.
LEMMA Seen ==
    /\ \A o \in Object : /\ View(mem)[o] = mem.fd[o]
                         /\ Owners!Alive(o) <=> Alive(o)
                         /\ Owners!HasFd(o) <=> HasFd(o)
    /\ Owners!Object = Object
    /\ Plain \subseteq Object /\ Optional \subseteq Object
    /\ kReserved # Absent
BY AbsentAssumption
   DEF View, Owners!Alive, Owners!HasFd, Owners!Object, Alive, HasFd, HasValue, Object

\* The abstract moves.
LEMMA MoveIsSeen ==
    ASSUME Inv', NEW dst \in Object, NEW src \in Object, dst # src, NEW left,
           Becomes(Moved(View(mem), dst, src, left), outside)
    PROVE  Owners!Move(dst, src, left)
<1>1. Owners!Become(Moved(View(mem), dst, src, left), outside)
  BY StepIsSeen DEF Becomes, Owners!Become
<1> QED
  BY <1>1 DEF Owners!Move, Moved, View

LEMMA ExchangeIsSeen ==
    ASSUME Inv', NEW o \in Object, NEW p \in Object,
           Becomes(Exchanged(View(mem), o, p), outside)
    PROVE  Owners!Exchange(o, p)
<1>1. Owners!Become(Exchanged(View(mem), o, p), outside)
  BY StepIsSeen DEF Becomes, Owners!Become
<1> QED
  BY <1>1 DEF Owners!Exchange, Exchanged, View

LEMMA LossIsSeen ==
    ASSUME Inv', NEW o \in Object, NEW left,
           Becomes([View(mem) EXCEPT ![o] = left], outside)
    PROVE  Owners!Lose(o, left)
<1>1. Owners!Become([View(mem) EXCEPT ![o] = left], outside)
  BY StepIsSeen DEF Becomes, Owners!Become
<1> QED
  BY <1>1 DEF Owners!Lose, View

----------------------------------------------------------------------------

\* Fd(): nothing is held.  std::optional<Fd>(): no value.
LEMMA BeginRefines ==
    ASSUME Inv, Inv', NEW o \in Object, Begin(o)
    PROVE  Owners!Next
<1> DEFINE value == IF o \in Optional THEN kReserved ELSE kInvalid
<1>1. ~Alive(o) /\ mem' = Hold(mem, o, value) /\ outside' = outside
  BY DEF Begin
<1>2. mem'.fd = [mem.fd EXCEPT ![o] = value]
  BY <1>1 DEF Hold, Memory
<1>3. DOMAIN mem.fd = Cell /\ o \in Cell
  BY Cells DEF Inv, Sound
<1>4. View(mem') = [View(mem) EXCEPT ![o] = value]
  BY <1>2, <1>3, Cells DEF View
<1>5. Owners!Lose(o, value)
  BY <1>1, <1>4, LossIsSeen DEF Becomes
<1> QED
  BY <1>1, <1>5, Seen DEF Owners!Next

\* Fd::Open
LEMMA OpenRefines ==
    ASSUME Inv, Inv', NEW o \in Object, Open(o)
    PROVE  Owners!Next
<1>1. PICK d \in Descriptor \ mem.open :
         mem' = LET opened == Memory([mem.fd EXCEPT ![Fresh] = d],
                                     mem.open \cup {d}, mem.leases + 1)
                IN  Destroy(MoveConstruct(opened, o, Fresh), Fresh)
  BY DEF Open
<1>2. ~Alive(o) /\ outside' = outside /\ DOMAIN mem.fd = Cell
  BY DEF Open, Inv, Sound
<1> DEFINE m == Memory([mem.fd EXCEPT ![Fresh] = d], mem.open \cup {d}, mem.leases + 1)
           n == MoveConstruct(m, o, Fresh)
<1>3. m.fd = [mem.fd EXCEPT ![Fresh] = d]
  BY DEF Memory
<1> HIDE DEF m
<1>4. n.fd = Moved(m.fd, o, Fresh, kInvalid)
  BY DEF MoveConstruct, Hold, Memory, Moved
<1> HIDE DEF n
<1>5. n.fd[Fresh] = kInvalid /\ n.fd[o] = d /\ DOMAIN n.fd = Cell
      /\ \A c \in Object : c # o => n.fd[c] = mem.fd[c]
  BY <1>2, <1>3, <1>4, Cells DEF Moved
<1>6. Destroy(n, Fresh).fd = [n.fd EXCEPT ![Fresh] = Absent]
  BY <1>5, Sentinels DEF Destroy, Close, Hold, Memory
<1>7. mem' = Destroy(n, Fresh)
  BY <1>1 DEF n, m
<1>8. Becomes([View(mem) EXCEPT ![o] = d], outside)
  <2>1. mem'.fd[o] = d /\ \A c \in Object : c # o => mem'.fd[c] = mem.fd[c]
    BY <1>5, <1>6, <1>7, Cells
  <2> QED
    BY <1>2, <2>1 DEF Becomes, View
<1>9. Owners!Become([View(mem) EXCEPT ![o] = d], outside)
  <2> DEFINE h == [View(mem) EXCEPT ![o] = d]
  <2>1. Becomes(h, outside)
    BY <1>8
  <2> HIDE DEF h
  <2>2. Owners!Become(h, outside)
    BY <2>1, StepIsSeen DEF Becomes, Owners!Become
  <2> QED
    BY <2>2 DEF h
<1>10. Owners!Acquire(o)
  BY <1>9 DEF Owners!Acquire, View
<1> QED
  BY <1>2, <1>10, Seen DEF Owners!Next

\* Release
LEMMA ReleaseRefines ==
    ASSUME Inv, Inv', NEW o \in Object, Release(o)
    PROVE  Owners!Next
<1>1. HasFd(o) /\ mem.fd[o] \in Descriptor /\ outside' = outside \cup {mem.fd[o]}
  BY DEF Release
<1>2. mem'.fd = [mem.fd EXCEPT ![o] = kInvalid] /\ DOMAIN mem.fd = Cell
  BY DEF Release, Memory, Inv, Sound
<1>3. View(mem') = [View(mem) EXCEPT ![o] = kInvalid]
  BY <1>2, Cells DEF View
<1>4. Owners!Become([View(mem) EXCEPT ![o] = kInvalid], outside \cup {mem.fd[o]})
  BY <1>1, <1>3, StepIsSeen DEF Becomes, Owners!Become
<1>5. Owners!HandOver(o)
  BY <1>1, <1>4 DEF Owners!HandOver, Owners!Become, View
<1> QED
  BY <1>1, <1>5, Seen DEF Owners!Next

\* The destructor.
LEMMA EndRefines ==
    ASSUME Inv, Inv', NEW o \in Object, End(o)
    PROVE  Owners!Next
<1>1. Alive(o) /\ mem' = Destroy(mem, o) /\ outside' = outside
  BY DEF End
<1>2. mem'.fd = [mem.fd EXCEPT ![o] = Absent] /\ DOMAIN mem.fd = Cell
  BY <1>1, Cells, DestroyIsSound DEF Inv, Sound
<1>3. View(mem') = [View(mem) EXCEPT ![o] = Absent]
  BY <1>2, Cells DEF View
<1>4. Owners!Lose(o, Absent)
  BY <1>1, <1>3, LossIsSeen DEF Becomes
<1> QED
  BY <1>1, <1>4, Seen DEF Owners!Next

\* Whoever a descriptor was handed over to closes it.
LEMMA ForeignCloseRefines ==
    ASSUME Inv, Inv', ForeignClose
    PROVE  Owners!Next
<1>1. PICK d \in outside : /\ outside' = outside \ {d}
                           /\ mem' = Memory(mem.fd, mem.open \ {d}, mem.leases)
  BY DEF ForeignClose
<1>2. View(mem') = View(mem)
  BY <1>1 DEF View, Memory
<1>3. Becomes(View(mem), outside \ {d})
  BY <1>1, <1>2 DEF Becomes
<1>4. Owners!Become(View(mem), outside \ {d})
  BY <1>3, StepIsSeen DEF Becomes, Owners!Become
<1> QED
  BY <1>4 DEF Owners!Next, Owners!OthersClose, View

----------------------------------------------------------------------------

\* A move that leaves an Fd behind, or an assignment of an object to itself.
LEMMA MoveRefines ==
    ASSUME Inv, Inv', NEW p \in Object, NEW o \in Object, HasFd(o),
           p \in Optional \/ mem.fd[p] # kReserved,
           outside' = outside,
           View(mem') = IF p = o THEN View(mem) ELSE Moved(View(mem), p, o, kInvalid)
    PROVE  Owners!Next \/ UNCHANGED Owners!vars
<1>1. CASE p = o
  BY <1>1, StutterIsSeen DEF Becomes
<1>2. CASE p # o
  <2>1. Owners!Move(p, o, kInvalid)
    BY <1>2, MoveIsSeen DEF Becomes
  <2>2. [q \in Object |-> mem.fd[q]][p] = mem.fd[p]
    OBVIOUS
  <2> QED
    BY <2>1, <2>2, Seen DEF Owners!Next
<1> QED
  BY <1>1, <1>2

\* What is done to an Fd, or to the Fd in an optional.
LEMMA OnFdRefines ==
    ASSUME Inv, Inv', NEW o \in Object, OnFd(o)
    PROVE  Owners!Next \/ UNCHANGED Owners!vars
<1>1. HasFd(o) /\ outside' = outside /\ Sound(mem, outside) /\ Resting(mem)
      /\ DOMAIN mem.fd = Cell
  BY DEF OnFd, Inv, Sound
<1>2. CASE mem' = Close(mem, o)
  <2>1. mem'.fd = [mem.fd EXCEPT ![o] = kInvalid]
    BY <1>1, <1>2, Cells, CloseIsSound
  <2>2. View(mem') = [View(mem) EXCEPT ![o] = kInvalid]
    BY <1>1, <2>1, Cells DEF View
  <2>3. Owners!Lose(o, kInvalid)
    BY <1>1, <2>2, LossIsSeen DEF Becomes
  <2> QED
    BY <1>1, <2>3, Seen DEF Owners!Next
<1>3. ASSUME NEW p \in Object, ~Alive(p), mem' = MoveConstruct(mem, p, o)
      PROVE  Owners!Next \/ UNCHANGED Owners!vars
  <2>1. p # o /\ mem.fd[p] = Absent
    BY <1>1, <1>3 DEF HasFd, Alive
  <2>2. View(mem') = Moved(View(mem), p, o, kInvalid)
    BY <1>1, <1>3, <2>1, NewFdIsSound
  <2> QED
    BY <1>1, <2>1, <2>2, Seen, MoveRefines
<1>4. ASSUME NEW p \in Object, HasFd(p), mem' = MoveAssign(mem, p, o)
      PROVE  Owners!Next \/ UNCHANGED Owners!vars
  <2>1. mem'.fd = IF p = o THEN mem.fd ELSE Moved(mem.fd, p, o, kInvalid)
    BY <1>1, <1>4, Cells, MoveAssignIsSound
  <2>2. View(mem') = IF p = o THEN View(mem) ELSE Moved(View(mem), p, o, kInvalid)
    BY <1>1, <2>1, Cells DEF View, Moved
  <2> QED
    BY <1>1, <1>4, <2>2, MoveRefines DEF HasFd, HasValue
<1>5. ASSUME NEW p \in Object, HasFd(p), mem' = SwapFds(mem, p, o)
      PROVE  Owners!Next \/ UNCHANGED Owners!vars
  <2>1. View(mem') = Exchanged(View(mem), p, o)
    BY <1>1, <1>5, SwapIsSound
  <2>2. Owners!Exchange(p, o)
    BY <1>1, <2>1, ExchangeIsSeen DEF Becomes
  <2> QED
    BY <1>1, <1>5, <2>2, Seen DEF Owners!Next
<1>6. ASSUME NEW p \in Object, IsOptional(p), mem' = AssignValue(mem, p, o)
      PROVE  Owners!Next \/ UNCHANGED Owners!vars
  <2>1. View(mem') = IF p = o THEN View(mem) ELSE Moved(View(mem), p, o, kInvalid)
    BY <1>1, <1>6, AssignValueIsSound
  <2> QED
    BY <1>1, <1>6, <2>1, MoveRefines DEF IsOptional
<1> QED
  BY <1>2, <1>3, <1>4, <1>5, <1>6 DEF OnFd

\* What is done to an optional: as a whole it leaves no value behind.
LEMMA OnOptionalRefines ==
    ASSUME Inv, Inv', NEW o \in Object, OnOptional(o)
    PROVE  Owners!Next \/ UNCHANGED Owners!vars
<1>1. o \in Optional /\ Alive(o) /\ outside' = outside
      /\ Sound(mem, outside) /\ Resting(mem) /\ DOMAIN mem.fd = Cell
  BY DEF OnOptional, IsOptional, Inv, Sound
<1>2. ASSUME NEW left \in {kInvalid, kReserved},
             View(mem') = [View(mem) EXCEPT ![o] = left]
      PROVE  Owners!Next
  <2>1. Owners!Lose(o, left)
    BY <1>1, <1>2, LossIsSeen DEF Becomes
  <2> QED
    BY <1>1, <2>1, Seen DEF Owners!Next
<1>3. CASE mem' = Reset(mem, o)
  BY <1>1, <1>2, <1>3, AssignSentinelIsSound DEF Reset
<1>4. CASE mem' = EmplaceClosed(mem, o)
  BY <1>1, <1>2, <1>4, AssignSentinelIsSound DEF EmplaceClosed
<1>5. ASSUME NEW p \in Optional, p # o,
             View(mem') = Moved(View(mem), p, o, kReserved)
      PROVE  Owners!Next
  <2>1. Owners!Move(p, o, kReserved)
    BY <1>1, <1>5, Seen, MoveIsSeen DEF Becomes
  <2> QED
    BY <1>1, <2>1, Seen DEF Owners!Next
<1>6. ASSUME NEW p \in Optional, ~Alive(p), mem' = MoveOptional(mem, p, o)
      PROVE  Owners!Next
  <2>1. p # o /\ mem.fd[p] = Absent /\ p \in Object
    BY <1>1, <1>6, Seen DEF Alive
  <2>2. View(mem') = Moved(View(mem), p, o, kReserved)
    BY <1>1, <1>6, <2>1, MoveOptionalIsSound
  <2> QED
    BY <1>5, <2>1, <2>2
<1>7. ASSUME NEW p \in Optional, mem' = AssignOptional(mem, p, o)
      PROVE  Owners!Next \/ UNCHANGED Owners!vars
  <2>1. View(mem') = IF p = o THEN View(mem) ELSE Moved(View(mem), p, o, kReserved)
    BY <1>1, <1>7, Seen, AssignOptionalIsSound
  <2>2. CASE p = o
    BY <1>1, <2>1, <2>2, StutterIsSeen DEF Becomes
  <2>3. CASE p # o
    BY <1>5, <2>1, <2>3
  <2> QED
    BY <2>2, <2>3
<1>8. ASSUME NEW p \in Optional, Alive(p), mem' = SwapFds(mem, p, o)
      PROVE  Owners!Next
  <2>1. View(mem') = Exchanged(View(mem), p, o)
    BY <1>1, <1>8, Seen, SwapIsSound
  <2>2. Owners!Exchange(p, o)
    BY <1>1, <2>1, Seen, ExchangeIsSeen DEF Becomes
  <2> QED
    BY <1>1, <1>8, <2>2, Seen DEF Owners!Next
<1>9. ASSUME NEW p \in Plain, NEW fallback \in Object, ~Alive(p), HasFd(fallback),
             mem' = ValueOr(mem, p, o, fallback)
      PROVE  Owners!Next \/ UNCHANGED Owners!vars
  <2> DEFINE src == IF HasValue(mem, o) THEN o ELSE fallback
  <2>1. src \in Object /\ HasFd(src) /\ p \in Object /\ mem.fd[p] = Absent /\ p # src
    BY <1>1, <1>9, Seen DEF Alive, HasFd
  <2>2. mem' = MoveConstruct(mem, p, src)
    BY <1>9 DEF ValueOr
  <2> HIDE DEF src
  <2>3. View(mem') = Moved(View(mem), p, src, kInvalid)
    BY <1>1, <2>1, <2>2, NewFdIsSound
  <2> QED
    BY <1>1, <2>1, <2>3, Seen, MoveRefines
<1> QED
  BY <1>3, <1>4, <1>6, <1>7, <1>8, <1>9 DEF OnOptional

----------------------------------------------------------------------------

LEMMA RefinesInit == Init => Owners!Init
<1> SUFFICES ASSUME Init PROVE Owners!Init
  OBVIOUS
<1>1. mem.fd = [o \in Object \cup Temporary |-> Absent] /\ mem.open = {} /\ outside = {}
  BY DEF Init, Memory
<1> QED
  BY <1>1, Seen DEF Owners!Init

LEMMA RefinesStep ==
    Inv /\ Inv' /\ [Next]_vars => [Owners!Next]_(Owners!vars)
<1> SUFFICES ASSUME Inv, Inv', [Next]_vars
             PROVE  Owners!Next \/ UNCHANGED Owners!vars
  OBVIOUS
<1>1. CASE UNCHANGED vars
  BY <1>1 DEF vars, Owners!vars
<1>2. ASSUME NEW o \in Object, Begin(o) \/ Open(o) \/ Release(o) \/ End(o)
      PROVE  Owners!Next
  BY <1>2, BeginRefines, OpenRefines, ReleaseRefines, EndRefines
<1> QED
  BY <1>1, <1>2, OnFdRefines, OnOptionalRefines, ForeignCloseRefines DEF Next

\* Whatever a program does with Fds and optionals of them, its objects behave as
\* owners of descriptors: moving hands a descriptor over and leaves the source
\* as the standard says, and it is closed when its owner goes, is closed or is
\* given another value, at no other time.
THEOREM FdsAreOwners == Spec => ImplementsOwners
<1>1. Spec => []Inv
  BY InvInit, InvStep, PTL DEF Spec
<1> QED
  BY <1>1, RefinesInit, RefinesStep, PTL DEF Spec, ImplementsOwners, Owners!Spec
===============================================================================
