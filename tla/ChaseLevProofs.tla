--------------------------- MODULE ChaseLevProofs ---------------------------
(***************************************************************************)
(* The queue of chase_lev.hpp is a work-stealing queue, whatever its first *)
(* capacity, however many thieves there are and however long stores wait   *)
(* in the owner's buffer.                                                  *)
(*                                                                         *)
(* What is in the buffer is seen as the stages memory will go through as   *)
(* it drains: the first is memory as the thieves see it, the last as the   *)
(* owner does.  FifoInv says that it drains in order.  Sound says that     *)
(* what lies below bottom_ in one stage is readable in all later ones.     *)
(***************************************************************************)
EXTENDS ChaseLev, FiniteSetTheorems, TLAPS

Buffers == UNION {[0 .. n - 1 -> Word] : n \in Nat \ {0}}
Memory == [bottom : Int, data : Nat, slots : Seq(Buffers)]

\* What waits in the owner's buffer.
Stores ==
    [loc : {"bottom"}, val : Int, order : {"relaxed", "fenced"}]
    \cup [loc : {"data"}, val : Nat, order : {"release"}]
    \cup [loc : {"slot"}, buf : Nat, at : Nat, val : Word, order : {"release"}]

Cap(o, a) == LengthOf(o.slots, a)
Item(o, i) == Read(o.slots, o.data, i)

\* A stage has the buffers that the owner sees, with other contents.
Alike(m, o) ==
    /\ m \in Memory
    /\ m.data \in DOMAIN o.slots
    /\ DOMAIN m.slots = DOMAIN o.slots
    /\ \A a \in DOMAIN o.slots : DOMAIN m.slots[a] = DOMAIN o.slots[a]

\* The stages from m to o that the stores in buf make memory go through.
Replays(st, m, o, buf) ==
    /\ st \in Seq(Memory) /\ buf \in Seq(Stores)
    /\ Len(st) = Len(buf) + 1
    /\ st[1] = m /\ st[Len(st)] = o
    /\ \A k \in DOMAIN buf :
          /\ st[k + 1] = Apply(st[k], buf[k])
          /\ buf[k].loc = "slot" => buf[k].buf \in DOMAIN o.slots

\* What can be stolen in one stage is there in it and in all later ones,
\* whichever of the buffers published till then it is read from.
Readable(st, o, t) ==
    \A k, l, m \in DOMAIN st : k <= l /\ l <= m =>
        \A i \in t .. st[k].bottom - 1 : Read(st[m].slots, st[l].data, i) = Item(o, i)

Sound(st, o, t, e) ==
    /\ \A k \in DOMAIN st : Alike(st[k], o) /\ st[k].bottom \in -1 .. e
    /\ Readable(st, o, t)

\* What a thief knows whose compare-and-swap can still succeed.
Stealing(label) == label \in {"steal_data", "steal_slot", "steal_cas"}
Thieving(st, o, t, e, label, l) ==
    /\ l.a \in DOMAIN o.slots
    /\ l.t \in 0 .. t
    /\ Stealing(label) /\ l.t = t =>
        /\ t < e
        /\ label = "steal_data" =>
               \A k, m \in DOMAIN st : k <= m => Read(st[m].slots, st[k].data, t) = Item(o, t)
        /\ label = "steal_slot" =>
               \A m \in DOMAIN st : Read(st[m].slots, l.a, t) = Item(o, t)
        /\ label = "steal_cas" => l.val = Item(o, t)

----------------------------------------------------------------------------
(* Buffers and their slots                                                 *)

\* Indices less than a buffer's length apart have different slots.
LEMMA ModDistinct ==
    ASSUME NEW i \in Int, NEW j \in Int, NEW n \in Nat \ {0}, i < j, j - i < n
    PROVE  i % n # j % n
<1> SUFFICES ASSUME i % n = j % n PROVE FALSE
  OBVIOUS
<1> DEFINE q == i \div n
           r == j \div n
           x == i % n
<1>1. i = n * (i \div n) + (i % n) /\ i \div n \in Int
  BY SMT
<1>2. j = n * (j \div n) + (j % n) /\ j \div n \in Int
  BY SMT
<1>3. q \in Int /\ r \in Int /\ x \in Int
  BY <1>1, <1>2, SMT
<1>4. i = n * q + x /\ j = n * r + x
  BY <1>1, <1>2
<1> HIDE DEF q, r, x
<1>5. j - i = n * (r - q)
  BY <1>3, <1>4, SMT
<1>6. CASE r - q >= 1
  <2>1. n * (r - q) >= n
    BY <1>6, <1>3, SMT
  <2> QED
    BY <2>1, <1>5
<1>7. CASE r - q <= 0
  <2>1. n * (r - q) <= 0
    BY <1>7, <1>3, SMT
  <2> QED
    BY <2>1, <1>5
<1> QED
  BY <1>3, <1>6, <1>7

\* A remainder is a slot index.
LEMMA ModRange ==
    ASSUME NEW i \in Int, NEW n \in Nat \ {0}
    PROVE  i % n \in 0 .. n - 1
BY SMT

\* The slots of a buffer are numbered from 0 to below its length.
LEMMA BufferShape ==
    ASSUME NEW s \in Seq(Buffers), NEW a \in DOMAIN s
    PROVE  /\ LengthOf(s, a) \in Nat \ {0}
           /\ s[a] \in [0 .. LengthOf(s, a) - 1 -> Word]
<1>1. PICK n \in Nat \ {0} : s[a] \in [0 .. n - 1 -> Word]
  BY DEF Buffers
<1>2. Cardinality(0 .. n - 1) = n
  BY FS_Interval
<1> QED
  BY <1>1, <1>2 DEF LengthOf

\* An index is read from a slot there is.
LEMMA ReadType ==
    ASSUME NEW s \in Seq(Buffers), NEW a \in DOMAIN s, NEW i \in Int
    PROVE  /\ i % LengthOf(s, a) \in 0 .. LengthOf(s, a) - 1
           /\ Read(s, a, i) \in Word
<1>1. LengthOf(s, a) \in Nat \ {0} /\ s[a] \in [0 .. LengthOf(s, a) - 1 -> Word]
  BY BufferShape
<1> DEFINE n == LengthOf(s, a)
<1>2. i % n \in 0 .. n - 1
  <2>1. n \in Nat \ {0}
    BY <1>1
  <2> HIDE DEF n
  <2> QED
    BY <2>1, SMT
<1> QED
  BY <1>1, <1>2 DEF Read

\* A store to a slot changes what is read there and nothing else.
LEMMA SlotWritten ==
    ASSUME NEW s \in Seq(Buffers), NEW a \in DOMAIN s,
           NEW j \in 0 .. LengthOf(s, a) - 1, NEW v \in Word,
           NEW z, z = [s EXCEPT ![a][j] = v]
    PROVE  /\ z \in Seq(Buffers) /\ DOMAIN z = DOMAIN s /\ Len(z) = Len(s)
           /\ \A c \in DOMAIN s : DOMAIN z[c] = DOMAIN s[c] /\ LengthOf(z, c) = LengthOf(s, c)
           /\ \A i \in Int : Read(z, a, i) = IF i % LengthOf(s, a) = j THEN v ELSE Read(s, a, i)
           /\ \A c \in DOMAIN s \ {a} : \A i \in Int : Read(z, c, i) = Read(s, c, i)
<1>1. LengthOf(s, a) \in Nat \ {0} /\ s[a] \in [0 .. LengthOf(s, a) - 1 -> Word]
  BY BufferShape
<1>2. z[a] = [s[a] EXCEPT ![j] = v] /\ \A c \in DOMAIN s \ {a} : z[c] = s[c]
  OBVIOUS
<1>3. z[a] \in [0 .. LengthOf(s, a) - 1 -> Word]
  BY <1>1, <1>2
<1>4. z[a] \in Buffers
  BY <1>1, <1>3 DEF Buffers
<1>5. z \in Seq(Buffers) /\ DOMAIN z = DOMAIN s /\ Len(z) = Len(s)
  BY <1>4
<1>6. \A c \in DOMAIN s : DOMAIN z[c] = DOMAIN s[c]
  BY <1>1, <1>2
<1>7. \A c \in DOMAIN s : LengthOf(z, c) = LengthOf(s, c)
  BY <1>6 DEF LengthOf
<1>8. ASSUME NEW i \in Int
      PROVE  Read(z, a, i) = IF i % LengthOf(s, a) = j THEN v ELSE Read(s, a, i)
  <2>1. i % LengthOf(s, a) \in 0 .. LengthOf(s, a) - 1
    BY ReadType
  <2> QED
    BY <1>1, <1>2, <1>7, <2>1 DEF Read
<1>9. \A c \in DOMAIN s \ {a} : \A i \in Int : Read(z, c, i) = Read(s, c, i)
  BY <1>2, <1>7 DEF Read
<1> QED
  BY <1>5, <1>6, <1>7, <1>8, <1>9

\* A new buffer leaves the others as they are.
LEMMA BufferAdded ==
    ASSUME NEW s \in Seq(Buffers), NEW f \in Buffers
    PROVE  /\ Append(s, f) \in Seq(Buffers)
           /\ DOMAIN Append(s, f) = DOMAIN s \cup {Len(s) + 1}
           /\ Append(s, f)[Len(s) + 1] = f
           /\ \A c \in DOMAIN s :
                  /\ Append(s, f)[c] = s[c]
                  /\ LengthOf(Append(s, f), c) = LengthOf(s, c)
                  /\ \A i \in Int : Read(Append(s, f), c, i) = Read(s, c, i)
<1> DEFINE z == Append(s, f)
<1>1. z \in Seq(Buffers) /\ DOMAIN z = DOMAIN s \cup {Len(s) + 1} /\ z[Len(s) + 1] = f
  OBVIOUS
<1>2. \A c \in DOMAIN s : z[c] = s[c]
  OBVIOUS
<1> HIDE DEF z
<1>3. \A c \in DOMAIN s : /\ z[c] = s[c] /\ LengthOf(z, c) = LengthOf(s, c)
                         /\ \A i \in Int : Read(z, c, i) = Read(s, c, i)
  BY <1>1, <1>2 DEF LengthOf, Read
<1> QED
  BY <1>1, <1>3 DEF z

----------------------------------------------------------------------------
(* What the owner's stores, and their draining, do to the stages           *)

\* The oldest store drains: the first stage is over.
LEMMA Drained ==
    ASSUME NEW st, NEW m, NEW o, NEW buf, NEW t \in Nat, NEW e \in Int, buf # <<>>,
           Replays(st, m, o, buf), Sound(st, o, t, e)
    PROVE  /\ Replays(Tail(st), Apply(m, buf[1]), o, Tail(buf))
           /\ Sound(Tail(st), o, t, e)
           /\ \A label, l : Thieving(st, o, t, e, label, l) => Thieving(Tail(st), o, t, e, label, l)
<1> DEFINE z == Tail(st)
<1>1. /\ z \in Seq(Memory) /\ Len(z) = Len(st) - 1
      /\ \A k \in DOMAIN z : k + 1 \in DOMAIN st /\ z[k] = st[k + 1]
  BY DEF Replays
<1>2. Tail(buf) \in Seq(Stores) /\ Len(Tail(buf)) = Len(buf) - 1
      /\ \A k \in DOMAIN Tail(buf) : k + 1 \in DOMAIN buf /\ Tail(buf)[k] = buf[k + 1]
  BY DEF Replays
<1>3. st \in Seq(Memory) /\ buf \in Seq(Stores) /\ Len(st) = Len(buf) + 1 /\ Len(buf) > 0
  BY DEF Replays
<1> HIDE DEF z
<1>4. Replays(z, Apply(m, buf[1]), o, Tail(buf))
  <2>1. z[1] = Apply(m, buf[1])
    <3>1. 1 \in DOMAIN buf /\ 1 \in DOMAIN z
      BY <1>1, <1>3
    <3>2. st[1 + 1] = Apply(st[1], buf[1])
      BY <3>1 DEF Replays
    <3> QED
      BY <3>1, <3>2, <1>1 DEF Replays
  <2>2. z[Len(z)] = o
    BY <1>1, <1>3 DEF Replays
  <2>3. \A k \in DOMAIN Tail(buf) :
            /\ z[k + 1] = Apply(z[k], Tail(buf)[k])
            /\ Tail(buf)[k].loc = "slot" => Tail(buf)[k].buf \in DOMAIN o.slots
    BY <1>1, <1>2, <1>3 DEF Replays
  <2> QED
    BY <2>1, <2>2, <2>3, <1>1, <1>2, <1>3 DEF Replays
<1>5. Sound(z, o, t, e)
  <2>1. \A k \in DOMAIN z : Alike(z[k], o) /\ z[k].bottom \in -1 .. e
    BY <1>1 DEF Sound
  <2>2. Readable(z, o, t)
    <3> SUFFICES ASSUME NEW k \in DOMAIN z, NEW l \in DOMAIN z, NEW n \in DOMAIN z, k <= l, l <= n,
                        NEW i \in t .. z[k].bottom - 1
                 PROVE  Read(z[n].slots, z[l].data, i) = Item(o, i)
      BY DEF Readable
    <3>1. k + 1 <= l + 1 /\ l + 1 <= n + 1
      BY <1>1, <1>3
    <3> QED
      BY <3>1, <1>1 DEF Sound, Readable
  <2> QED
    BY <2>1, <2>2 DEF Sound
<1>6. ASSUME NEW label, NEW l, Thieving(st, o, t, e, label, l)
      PROVE  Thieving(z, o, t, e, label, l)
  <2>1. ASSUME label = "steal_data", l.t = t
        PROVE  \A k, n \in DOMAIN z : k <= n => Read(z[n].slots, z[k].data, t) = Item(o, t)
    <3> SUFFICES ASSUME NEW k \in DOMAIN z, NEW n \in DOMAIN z, k <= n
                 PROVE  Read(z[n].slots, z[k].data, t) = Item(o, t)
      OBVIOUS
    <3>1. k + 1 <= n + 1
      BY <1>1, <1>3
    <3> QED
      BY <3>1, <2>1, <1>1, <1>6 DEF Thieving, Stealing
  <2>2. ASSUME label = "steal_slot", l.t = t
        PROVE  \A n \in DOMAIN z : Read(z[n].slots, l.a, t) = Item(o, t)
    BY <2>2, <1>1, <1>6 DEF Thieving, Stealing
  <2> QED
    BY <2>1, <2>2, <1>6 DEF Thieving
<1> QED
  BY <1>4, <1>5, <1>6 DEF z

\* bottom_ is stored, at most at the end of the queue.
LEMMA BottomStored ==
    ASSUME NEW st, NEW m, NEW o, NEW buf, NEW t \in Nat, NEW e \in Int,
           Replays(st, m, o, buf), Sound(st, o, t, e),
           NEW b \in -1 .. e, NEW order \in {"relaxed", "fenced"},
           NEW z, z = Apply(o, BottomStore(b, order))
    PROVE  /\ z \in Memory /\ z.bottom = b /\ z.data = o.data /\ z.slots = o.slots
           /\ Replays(Append(st, z), m, z, Append(buf, BottomStore(b, order)))
           /\ Sound(Append(st, z), z, t, e)
           /\ \A label, l : Thieving(st, o, t, e, label, l)
                                => Thieving(Append(st, z), z, t, e, label, l)
<1> DEFINE n == Len(st)
           y == Append(st, z)
           s == BottomStore(b, order)
<1>1. /\ st \in Seq(Memory) /\ buf \in Seq(Stores) /\ n = Len(buf) + 1 /\ o = st[n]
      /\ n \in Nat /\ n \in DOMAIN st /\ DOMAIN st = 1 .. n
  BY DEF Replays
<1>2. z = [o EXCEPT !.bottom = b]
  BY DEF Apply, BottomStore
<1>3. z \in Memory /\ z.bottom = b /\ z.data = o.data /\ z.slots = o.slots
  <2>1. o \in Memory /\ b \in Int
    BY <1>1
  <2> QED
    BY <2>1, <1>2 DEF Memory
<1>4. s \in Stores
  BY DEF BottomStore, Stores
<1>5. /\ y \in Seq(Memory) /\ Len(y) = n + 1 /\ y[n + 1] = z
      /\ \A k \in DOMAIN st : y[k] = st[k]
  BY <1>1, <1>3
<1>6. Replays(y, m, z, Append(buf, s))
  <2>1. /\ Append(buf, s) \in Seq(Stores) /\ Len(Append(buf, s)) = n
        /\ Append(buf, s)[n] = s /\ \A k \in DOMAIN buf : Append(buf, s)[k] = buf[k]
    BY <1>1, <1>4
  <2>2. \A k \in DOMAIN buf :
            /\ y[k + 1] = Apply(y[k], buf[k])
            /\ buf[k].loc = "slot" => buf[k].buf \in DOMAIN z.slots
    BY <1>1, <1>3, <1>5 DEF Replays
  <2>3. y[n + 1] = Apply(y[n], s) /\ s.loc # "slot"
    BY <1>1, <1>5 DEF BottomStore
  <2>4. y[1] = m
    BY <1>1, <1>5 DEF Replays
  <2> QED
    BY <2>1, <2>2, <2>3, <2>4, <1>1, <1>5 DEF Replays
\* The last stage can be read as the one before.
<1>7. \A k \in DOMAIN y : \E x \in DOMAIN st :
          /\ y[k].slots = st[x].slots /\ y[k].data = st[x].data
          /\ (k \in DOMAIN st /\ x = k) \/ (k = n + 1 /\ x = n)
  BY <1>1, <1>3, <1>5
<1>8. \A i : Item(z, i) = Item(o, i)
  BY <1>3 DEF Item
<1> HIDE DEF y, s, n
<1>9. Sound(y, z, t, e)
  <2>1. \A k \in DOMAIN y : Alike(y[k], z) /\ y[k].bottom \in -1 .. e
    BY <1>1, <1>3, <1>5 DEF Sound, Alike, n
  <2>2. Readable(y, z, t)
    <3> SUFFICES ASSUME NEW k \in DOMAIN y, NEW l \in DOMAIN y, NEW x \in DOMAIN y, k <= l, l <= x,
                        NEW i \in t .. y[k].bottom - 1
                 PROVE  Read(y[x].slots, y[l].data, i) = Item(z, i)
      BY DEF Readable
    <3>1. CASE k = n + 1
      <4>1. l = n + 1 /\ x = n + 1
        BY <3>1, <1>1, <1>5
      <4> QED
        BY <4>1, <1>5 DEF Item
    <3>2. CASE k # n + 1
      <4>1. k \in DOMAIN st /\ y[k] = st[k]
        BY <3>2, <1>1, <1>5
      <4>2. PICK l0 \in DOMAIN st : y[l].data = st[l0].data /\ k <= l0 /\ (l0 = l \/ (l = n + 1 /\ l0 = n))
        BY <1>7, <4>1, <1>1
      <4>3. PICK x0 \in DOMAIN st : y[x].slots = st[x0].slots /\ (x0 = x \/ (x = n + 1 /\ x0 = n))
        BY <1>7
      <4>4. l0 <= x0
        BY <4>1, <4>2, <4>3, <1>1, <1>5
      <4> QED
        BY <4>1, <4>2, <4>3, <4>4, <1>8 DEF Sound, Readable
    <3> QED
      BY <3>1, <3>2
  <2> QED
    BY <2>1, <2>2 DEF Sound
<1>10. ASSUME NEW label, NEW l, Thieving(st, o, t, e, label, l)
       PROVE  Thieving(y, z, t, e, label, l)
  <2>1. ASSUME label = "steal_data", l.t = t, NEW k \in DOMAIN y, NEW x \in DOMAIN y, k <= x
        PROVE  Read(y[x].slots, y[k].data, t) = Item(z, t)
    <3>1. PICK k0 \in DOMAIN st : y[k].data = st[k0].data /\ (k0 = k \/ (k = n + 1 /\ k0 = n))
      BY <1>7
    <3>2. PICK x0 \in DOMAIN st : y[x].slots = st[x0].slots /\ (x0 = x \/ (x = n + 1 /\ x0 = n))
      BY <1>7
    <3>3. k0 <= x0
      BY <2>1, <3>1, <3>2, <1>1, <1>5
    <3> QED
      BY <3>1, <3>2, <3>3, <2>1, <1>8, <1>10 DEF Thieving, Stealing
  <2>2. ASSUME label = "steal_slot", l.t = t, NEW x \in DOMAIN y
        PROVE  Read(y[x].slots, l.a, t) = Item(z, t)
    <3>1. PICK x0 \in DOMAIN st : y[x].slots = st[x0].slots
      BY <1>7
    <3> QED
      BY <3>1, <2>2, <1>8, <1>10 DEF Thieving, Stealing
  <2> QED
    BY <2>1, <2>2, <1>3, <1>8, <1>10 DEF Thieving
<1> QED
  BY <1>3, <1>6, <1>9, <1>10 DEF y, s

\* What a store does, by the location it is to.
LEMMA Applied ==
    ASSUME NEW m, NEW s
    PROVE  /\ s.loc = "bottom" => Apply(m, s) = [m EXCEPT !.bottom = s.val]
           /\ s.loc = "data" => Apply(m, s) = [m EXCEPT !.data = s.val]
           /\ s.loc = "slot" => Apply(m, s) = [m EXCEPT !.slots[s.buf][s.at] = s.val]
BY DEF Apply

\* A value is stored where nothing can be stolen from.
LEMMA SlotStored ==
    ASSUME NEW st, NEW m, NEW o, NEW buf, NEW t \in Nat, NEW e \in Int,
           Replays(st, m, o, buf), Sound(st, o, t, e),
           NEW b \in Int, \A i \in t .. e - 1 : i % Cap(o, o.data) # b % Cap(o, o.data),
           NEW v \in Word, NEW s, s = SlotStore(o.data, b % Cap(o, o.data), v),
           NEW z, z = Apply(o, s)
    PROVE  /\ z \in Memory /\ z.bottom = o.bottom /\ z.data = o.data
           /\ DOMAIN z.slots = DOMAIN o.slots /\ Len(z.slots) = Len(o.slots)
           /\ \A a \in DOMAIN o.slots : Cap(z, a) = Cap(o, a)
           /\ Item(z, b) = v /\ \A i \in t .. e - 1 : Item(z, i) = Item(o, i)
           /\ Replays(Append(st, z), m, z, Append(buf, s))
           /\ Sound(Append(st, z), z, t, e)
           /\ \A label, l : Thieving(st, o, t, e, label, l)
                                => Thieving(Append(st, z), z, t, e, label, l)
<1> DEFINE n == Len(st)
           y == Append(st, z)
           d == o.data
           len == Cap(o, d)
           j == b % len
<1>1. /\ st \in Seq(Memory) /\ buf \in Seq(Stores) /\ n = Len(buf) + 1 /\ o = st[n]
      /\ n \in Nat /\ n \in DOMAIN st /\ DOMAIN st = 1 .. n
  BY DEF Replays
<1>2. o \in Memory /\ d \in DOMAIN o.slots /\ o.slots \in Seq(Buffers) /\ d \in Nat
  BY <1>1 DEF Sound, Alike, Memory
<1>3. j \in 0 .. len - 1 /\ len \in Nat
  BY <1>2, ReadType, BufferShape DEF Cap
<1>4. z = [o EXCEPT !.slots[d][j] = v]
  <2>1. s.loc = "slot" /\ s.buf = d /\ s.at = j /\ s.val = v
    BY DEF SlotStore
  <2>2. z = [o EXCEPT !.slots[s.buf][s.at] = s.val]
    BY <2>1, Applied
  <2> QED
    BY <2>1, <2>2
<1>5. z.slots = [o.slots EXCEPT ![d][j] = v] /\ z.bottom = o.bottom /\ z.data = d
  BY <1>2, <1>4 DEF Memory
<1>6. /\ z.slots \in Seq(Buffers) /\ DOMAIN z.slots = DOMAIN o.slots
      /\ Len(z.slots) = Len(o.slots)
      /\ \A c \in DOMAIN o.slots : /\ DOMAIN z.slots[c] = DOMAIN o.slots[c]
                                     /\ Cap(z, c) = Cap(o, c)
      /\ \A i \in Int : Read(z.slots, d, i) = IF i % len = j THEN v ELSE Read(o.slots, d, i)
      /\ \A c \in DOMAIN o.slots \ {d} : \A i \in Int : Read(z.slots, c, i) = Read(o.slots, c, i)
  <2> DEFINE a == o.slots
  <2>1. a \in Seq(Buffers) /\ d \in DOMAIN a /\ j \in 0 .. LengthOf(a, d) - 1 /\ len = LengthOf(a, d)
    BY <1>2, <1>3 DEF Cap
  <2>2. z.slots = [a EXCEPT ![d][j] = v]
    BY <1>5
  <2> HIDE DEF a, j, d, len
  <2>3. /\ z.slots \in Seq(Buffers) /\ DOMAIN z.slots = DOMAIN a /\ Len(z.slots) = Len(a)
        /\ \A c \in DOMAIN a : DOMAIN z.slots[c] = DOMAIN a[c] /\ LengthOf(z.slots, c) = LengthOf(a, c)
        /\ \A i \in Int : Read(z.slots, d, i) = IF i % LengthOf(a, d) = j THEN v ELSE Read(a, d, i)
        /\ \A c \in DOMAIN a \ {d} : \A i \in Int : Read(z.slots, c, i) = Read(a, c, i)
    BY <2>1, <2>2, SlotWritten
  <2> QED
    BY <2>1, <2>3 DEF Cap, a
<1>7. z \in Memory
  BY <1>2, <1>4, <1>5, <1>6 DEF Memory
<1>8. s \in Stores /\ s.loc = "slot" /\ s.buf = d
  BY <1>2, <1>3 DEF SlotStore, Stores
<1>9. /\ y \in Seq(Memory) /\ Len(y) = n + 1 /\ y[n + 1] = z
      /\ \A k \in DOMAIN st : y[k] = st[k]
  BY <1>1, <1>7
<1>10. Replays(y, m, z, Append(buf, s))
  <2> DEFINE q == Append(buf, s)
  <2>1. /\ q \in Seq(Stores) /\ Len(q) = n /\ DOMAIN q = 1 .. n /\ q[n] = s
        /\ \A k \in DOMAIN buf : q[k] = buf[k]
    BY <1>1, <1>8
  <2> HIDE DEF q
  <2>2. \A k \in 1 .. n : k = n \/ (k \in DOMAIN buf /\ k \in DOMAIN st /\ k + 1 \in DOMAIN st)
    BY <1>1
  <2>3. ASSUME NEW k \in 1 .. n
        PROVE  /\ y[k + 1] = Apply(y[k], q[k])
               /\ q[k].loc = "slot" => q[k].buf \in DOMAIN z.slots
    <3>1. CASE k = n
      <4>1. y[n + 1] = Apply(y[n], s) /\ s.buf \in DOMAIN z.slots
        BY <1>1, <1>2, <1>6, <1>8, <1>9
      <4> QED
        BY <3>1, <4>1, <2>1
    <3>2. CASE k # n
      <4>1. k \in DOMAIN buf /\ k \in DOMAIN st /\ k + 1 \in DOMAIN st
        BY <3>2, <2>2
      <4>2. /\ st[k + 1] = Apply(st[k], buf[k])
            /\ buf[k].loc = "slot" => buf[k].buf \in DOMAIN o.slots
        BY <4>1 DEF Replays
      <4>3. y[k] = st[k] /\ y[k + 1] = st[k + 1] /\ q[k] = buf[k]
        BY <4>1, <2>1, <1>9
      <4> QED
        BY <4>2, <4>3, <1>6
    <3> QED
      BY <3>1, <3>2
  <2>4. y[1] = m /\ y[Len(y)] = z
    <3>1. 1 \in DOMAIN st /\ st[1] = m
      BY <1>1 DEF Replays
    <3> QED
      BY <3>1, <1>9
  <2>5. Replays(y, m, z, q)
    BY <2>1, <2>3, <2>4, <1>9 DEF Replays
  <2> QED
    BY <2>5 DEF q
<1>11. Item(z, b) = v
  BY <1>5, <1>6 DEF Item
\* What can be stolen reads the same in the last stage as in the one before.
<1>12. \A c \in DOMAIN o.slots : \A i \in t .. e - 1 : Read(z.slots, c, i) = Read(o.slots, c, i)
  BY <1>6
<1>13. \A i \in t .. e - 1 : Item(z, i) = Item(o, i)
  BY <1>2, <1>5, <1>12 DEF Item
<1>14. \A k \in DOMAIN y : \E x \in DOMAIN st :
          /\ \A c \in DOMAIN o.slots : \A i \in t .. e - 1 :
                 Read(y[k].slots, c, i) = Read(st[x].slots, c, i)
          /\ y[k].data = st[x].data /\ y[k].bottom = st[x].bottom
          /\ (k \in DOMAIN st /\ x = k) \/ (k = n + 1 /\ x = n)
  <2> TAKE k \in DOMAIN y
  <2>1. k \in DOMAIN st \/ k = n + 1
    BY <1>1, <1>9
  <2>2. CASE k \in DOMAIN st
    <3>1. y[k] = st[k]
      BY <2>2, <1>9
    <3> WITNESS k \in DOMAIN st
    <3> QED
      BY <2>2, <3>1
  <2>3. CASE k = n + 1
    <3>1. y[k] = z /\ st[n] = o /\ n \in DOMAIN st
      BY <2>3, <1>1, <1>9
    <3> QED
      BY <2>3, <3>1, <1>5, <1>12
  <2> QED
    BY <2>1, <2>2, <2>3
<1> HIDE DEF y, n, d, len, j
<1>15. Sound(y, z, t, e)
  <2>1. \A k \in DOMAIN y : Alike(y[k], z) /\ y[k].bottom \in -1 .. e
    <3>1. Alike(z, z) /\ z.bottom \in -1 .. e
      BY <1>1, <1>2, <1>5, <1>6, <1>7 DEF Sound, Alike, d
    <3>2. \A k \in DOMAIN st : Alike(st[k], z) /\ st[k].bottom \in -1 .. e
      BY <1>6 DEF Sound, Alike
    <3>3. \A k \in DOMAIN y : k \in DOMAIN st \/ y[k] = z
      BY <1>1, <1>9
    <3> QED
      BY <3>1, <3>2, <3>3, <1>9
  <2>2. Readable(y, z, t)
    <3> SUFFICES ASSUME NEW k \in DOMAIN y, NEW l \in DOMAIN y, NEW x \in DOMAIN y, k <= l, l <= x,
                        NEW i \in t .. y[k].bottom - 1
                 PROVE  Read(y[x].slots, y[l].data, i) = Item(z, i)
      BY DEF Readable
    <3>1. PICK k0 \in DOMAIN st : y[k].bottom = st[k0].bottom /\ (k0 = k \/ (k = n + 1 /\ k0 = n))
      BY <1>14
    <3>2. PICK l0 \in DOMAIN st : y[l].data = st[l0].data /\ (l0 = l \/ (l = n + 1 /\ l0 = n))
      BY <1>14
    <3>3. PICK x0 \in DOMAIN st :
              /\ \A c \in DOMAIN o.slots : \A h \in t .. e - 1 :
                     Read(y[x].slots, c, h) = Read(st[x0].slots, c, h)
              /\ x0 = x \/ (x = n + 1 /\ x0 = n)
      BY <1>14
    <3>4. k0 <= l0 /\ l0 <= x0
      BY <3>1, <3>2, <3>3, <1>1, <1>9
    <3>5. i \in t .. st[k0].bottom - 1 /\ st[k0].bottom \in -1 .. e /\ i \in t .. e - 1
      BY <3>1 DEF Sound
    <3>6. st[l0].data \in DOMAIN o.slots
      BY DEF Sound, Alike
    <3>7. Read(st[x0].slots, st[l0].data, i) = Item(o, i)
      BY <3>4, <3>5 DEF Sound, Readable
    <3> QED
      BY <3>2, <3>3, <3>5, <3>6, <3>7, <1>13
  <2> QED
    BY <2>1, <2>2 DEF Sound
<1>16. ASSUME NEW label, NEW l, Thieving(st, o, t, e, label, l)
       PROVE  Thieving(y, z, t, e, label, l)
  <2>1. ASSUME Stealing(label), l.t = t
        PROVE  t < e /\ t \in t .. e - 1
    BY <2>1, <1>16 DEF Thieving
  <2>2. ASSUME label = "steal_data", l.t = t, NEW k \in DOMAIN y, NEW x \in DOMAIN y, k <= x
        PROVE  Read(y[x].slots, y[k].data, t) = Item(z, t)
    <3>1. PICK k0 \in DOMAIN st : y[k].data = st[k0].data /\ (k0 = k \/ (k = n + 1 /\ k0 = n))
      BY <1>14
    <3>2. PICK x0 \in DOMAIN st :
              /\ \A c \in DOMAIN o.slots : \A h \in t .. e - 1 :
                     Read(y[x].slots, c, h) = Read(st[x0].slots, c, h)
              /\ x0 = x \/ (x = n + 1 /\ x0 = n)
      BY <1>14
    <3>3. k0 <= x0
      BY <2>2, <3>1, <3>2, <1>1, <1>9
    <3>4. st[k0].data \in DOMAIN o.slots
      BY DEF Sound, Alike
    <3> QED
      BY <3>1, <3>2, <3>3, <3>4, <2>1, <2>2, <1>13, <1>16 DEF Thieving, Stealing
  <2>3. ASSUME label = "steal_slot", l.t = t, NEW x \in DOMAIN y
        PROVE  Read(y[x].slots, l.a, t) = Item(z, t)
    <3>1. PICK x0 \in DOMAIN st :
              \A c \in DOMAIN o.slots : \A h \in t .. e - 1 :
                     Read(y[x].slots, c, h) = Read(st[x0].slots, c, h)
      BY <1>14
    <3> QED
      BY <3>1, <2>1, <2>3, <1>13, <1>16 DEF Thieving, Stealing
  <2> QED
    BY <2>1, <2>2, <2>3, <1>6, <1>13, <1>16 DEF Thieving
<1> QED
  BY <1>5, <1>6, <1>7, <1>10, <1>11, <1>13, <1>15, <1>16 DEF y, d

\* Stores are added at the end of those that wait.
LEMMA Joined ==
    ASSUME NEW S, NEW a \in Seq(S), NEW b \in Seq(S), NEW w \in S, NEW q, q = (a \o b) \o <<w>>
    PROVE  /\ q \in Seq(S) /\ Len(q) = Len(a) + Len(b) + 1 /\ q[Len(q)] = w
           /\ \A k \in 1 .. Len(a) : q[k] = a[k]
           /\ \A k \in 1 .. Len(b) : q[Len(a) + k] = b[k]
<1> DEFINE v == a \o b
<1>1. /\ v \in Seq(S) /\ Len(v) = Len(a) + Len(b)
      /\ \A k \in 1 .. Len(a) : v[k] = a[k]
      /\ \A k \in 1 .. Len(b) : v[Len(a) + k] = b[k]
  OBVIOUS
<1> HIDE DEF v
<1>2. q = v \o <<w>> /\ <<w>> \in Seq(S) /\ Len(<<w>>) = 1 /\ <<w>>[1] = w
  BY DEF v
<1>3. q \in Seq(S) /\ Len(q) = Len(v) + 1 /\ q[Len(v) + 1] = w
      /\ \A k \in 1 .. Len(v) : q[k] = v[k]
  BY <1>1, <1>2
<1>4. Len(a) \in Nat /\ Len(b) \in Nat
  OBVIOUS
<1>5. \A k \in 1 .. Len(a) : k \in 1 .. Len(v)
  BY <1>1, <1>4
<1>6. \A k \in 1 .. Len(b) : Len(a) + k \in 1 .. Len(v)
  BY <1>1, <1>4
<1> QED
  BY <1>1, <1>3, <1>5, <1>6

\* The last of n + 1 indices, and those before it.
LEMMA LastIndex ==
    ASSUME NEW n \in Nat, NEW x \in 1 .. n + 1, n + 1 <= x
    PROVE  x = n + 1
OBVIOUS

\* What is not after an index before the last is before the last.
LEMMA EarlierIndex ==
    ASSUME NEW n \in Nat, NEW k \in 1 .. n + 1, NEW x \in 1 .. n + 1, k <= x, x # n + 1
    PROVE  k \in 1 .. n /\ x \in 1 .. n
OBVIOUS

\* The indices of a sequence.
LEMMA SeqDomain ==
    ASSUME NEW S, NEW s \in Seq(S)
    PROVE  DOMAIN s = 1 .. Len(s) /\ Len(s) \in Nat
OBVIOUS

\* Sequences with the same elements are the same.
LEMMA SameSeq ==
    ASSUME NEW S, NEW a \in Seq(S), NEW b \in Seq(S), Len(a) = Len(b),
           \A k \in 1 .. Len(a) : a[k] = b[k]
    PROVE  a = b
OBVIOUS

\* A function of 1 .. n is a sequence.
LEMMA FunctionIsSeq ==
    ASSUME NEW S, NEW n \in Nat, NEW f \in [1 .. n -> S]
    PROVE  f \in Seq(S) /\ Len(f) = n /\ DOMAIN f = 1 .. n
OBVIOUS

\* Memory with a buffer more.
Grown(m, f) == [m EXCEPT !.slots = Append(@, f)]

\* Its other buffers, bottom_ and data_ are as they were.
LEMMA GrownShape ==
    ASSUME NEW m, NEW o \in Memory, Alike(m, o), NEW f \in Buffers
    PROVE  /\ Grown(m, f) \in Memory
           /\ Grown(m, f).bottom = m.bottom /\ Grown(m, f).data = m.data
           /\ DOMAIN Grown(m, f).slots = DOMAIN o.slots \cup {Len(o.slots) + 1}
           /\ Grown(m, f).slots[Len(o.slots) + 1] = f
           /\ \A c \in DOMAIN o.slots :
                  /\ Grown(m, f).slots[c] = m.slots[c]
                  /\ \A i \in Int : Read(Grown(m, f).slots, c, i) = Read(m.slots, c, i)
<1>1. m \in Memory /\ m.slots \in Seq(Buffers) /\ o.slots \in Seq(Buffers)
      /\ DOMAIN m.slots = DOMAIN o.slots
  BY DEF Alike, Memory
<1>2. Len(m.slots) = Len(o.slots)
  BY <1>1
<1> DEFINE a == m.slots
           z == Append(a, f)
<1>3. /\ z \in Seq(Buffers) /\ DOMAIN z = DOMAIN m.slots \cup {Len(m.slots) + 1}
      /\ z[Len(m.slots) + 1] = f
      /\ \A c \in DOMAIN m.slots : /\ z[c] = m.slots[c]
                                   /\ \A i \in Int : Read(z, c, i) = Read(m.slots, c, i)
  BY <1>1, BufferAdded
<1> HIDE DEF z
<1>4. Grown(m, f) = [m EXCEPT !.slots = z]
  BY DEF Grown, z
<1>5. Grown(m, f) \in Memory /\ Grown(m, f).slots = z
      /\ Grown(m, f).bottom = m.bottom /\ Grown(m, f).data = m.data
  BY <1>1, <1>3, <1>4 DEF Memory
<1> QED
  BY <1>1, <1>2, <1>3, <1>5

\* A store to what was there before does the same to what has grown.
LEMMA GrownStore ==
    ASSUME NEW m \in Memory, NEW f \in Buffers, NEW s \in Stores,
           s.loc = "slot" => s.buf \in DOMAIN m.slots
    PROVE  Apply(Grown(m, f), s) = Grown(Apply(m, s), f)
<1>1. CASE s.loc = "bottom"
  <2>1. Apply(m, s) = [m EXCEPT !.bottom = s.val]
    BY <1>1, Applied
  <2>2. Apply(Grown(m, f), s) = [Grown(m, f) EXCEPT !.bottom = s.val]
    BY <1>1, Applied
  <2> QED
    BY <2>1, <2>2 DEF Memory, Grown
<1>2. CASE s.loc = "data"
  <2>1. Apply(m, s) = [m EXCEPT !.data = s.val]
    BY <1>2, Applied
  <2>2. Apply(Grown(m, f), s) = [Grown(m, f) EXCEPT !.data = s.val]
    BY <1>2, Applied
  <2> QED
    BY <2>1, <2>2 DEF Memory, Grown
<1>3. CASE s.loc = "slot"
  <2> DEFINE a == m.slots
             x == [a EXCEPT ![s.buf][s.at] = s.val]
             y == [Append(a, f) EXCEPT ![s.buf][s.at] = s.val]
  <2>1. Apply(m, s) = [m EXCEPT !.slots = x]
    BY <1>3, Applied DEF Memory
  <2>2. Apply(Grown(m, f), s) = [m EXCEPT !.slots = y]
    <3>1. Apply(Grown(m, f), s) = [Grown(m, f) EXCEPT !.slots[s.buf][s.at] = s.val]
      BY <1>3, Applied
    <3> QED
      BY <3>1 DEF Memory, Grown
  <2>3. y = Append(x, f)
    <3>1. a \in Seq(Buffers) /\ s.buf \in DOMAIN a /\ s.val \in Word
      BY <1>3 DEF Memory, Stores
    <3>2. PICK k \in Nat \ {0} : a[s.buf] \in [0 .. k - 1 -> Word]
      BY <3>1 DEF Buffers
    <3>3. x[s.buf] \in [0 .. k - 1 -> Word]
      BY <3>1, <3>2
    <3>4. x[s.buf] \in Buffers
      BY <3>3 DEF Buffers
    <3>5. x \in Seq(Buffers) /\ Len(x) = Len(a)
      BY <3>1, <3>4
    <3>6. y \in Seq(Buffers) /\ Len(y) = Len(a) + 1
      <4>1. y[s.buf] = x[s.buf]
        BY <3>1
      <4> QED
        BY <3>1, <3>4, <4>1
    <3>7. \A c \in 1 .. Len(a) + 1 : y[c] = Append(x, f)[c]
      <4>1. ASSUME NEW c \in 1 .. Len(a) PROVE y[c] = Append(x, f)[c]
        <5>1. Append(a, f)[c] = a[c] /\ Append(x, f)[c] = x[c]
          BY <3>1, <3>5
        <5>2. CASE c = s.buf
          BY <3>1, <5>1, <5>2
        <5>3. CASE c # s.buf
          <6>1. c \in DOMAIN a /\ c \in DOMAIN Append(a, f)
            BY <3>1
          <6>2. x[c] = a[c] /\ y[c] = Append(a, f)[c]
            BY <5>3, <6>1
          <6> QED
            BY <5>1, <6>2
        <5> QED
          BY <5>2, <5>3
      <4>2. y[Len(a) + 1] = Append(x, f)[Len(a) + 1]
        <5>1. Len(a) + 1 # s.buf /\ Len(a) + 1 \in DOMAIN Append(a, f)
          BY <3>1
        <5>2. y[Len(a) + 1] = Append(a, f)[Len(a) + 1]
          BY <5>1
        <5>3. Append(a, f)[Len(a) + 1] = f /\ Append(x, f)[Len(a) + 1] = f
          BY <3>1, <3>5
        <5> QED
          BY <5>2, <5>3
      <4> QED
        BY <4>1, <4>2, <3>1
    <3>8. Append(x, f) \in Seq(Buffers) /\ Len(Append(x, f)) = Len(a) + 1
      BY <3>5
    <3> HIDE DEF x, y
    <3> QED
      BY <3>6, <3>7, <3>8, SameSeq
  <2> HIDE DEF x, y
  <2> QED
    BY <2>1, <2>2, <2>3 DEF Memory, Grown
<1> QED
  BY <1>1, <1>2, <1>3 DEF Stores

\* The elements copied into a new buffer, and the stores that copy them.
Filled(o, t, e, len) ==
    [j \in 0 .. len - 1 |->
        IF \E i \in t .. e - 1 : i % len = j
        THEN Read(o.slots, o.data, CHOOSE i \in t .. e - 1 : i % len = j)
        ELSE Junk]
Copies(o, t, e, fresh, len) ==
    [k \in 1 .. e - t |->
        SlotStore(fresh, (t + k - 1) % len, Read(o.slots, o.data, t + k - 1))]
Published(m, a) == [m EXCEPT !.data = a]

\* What Resize makes of the owner's view, of memory and of the buffer.
Fresh(o) == Len(o.slots) + 1
Doubled(o) == 2 * Cap(o, o.data)
Regrown(o, t, e) == Published(Grown(o, Filled(o, t, e, Doubled(o))), Fresh(o))
Remade(m, o) == Grown(m, NewBuffer(Doubled(o)))
Requeued(buf, o, t, e) ==
    (buf \o Copies(o, t, e, Fresh(o), Doubled(o))) \o <<DataStore(Fresh(o))>>

\* The copies are made in a buffer nobody reads till it is published.
LEMMA Resized ==
    ASSUME NEW st, NEW m, NEW o, NEW buf, NEW t \in Nat, NEW e \in Int, t <= e, o.bottom = e,
           e - t <= Cap(o, o.data),
           Replays(st, m, o, buf), Sound(st, o, t, e),
           NEW z, z = Regrown(o, t, e), NEW m2, m2 = Remade(m, o),
           NEW buf2, buf2 = Requeued(buf, o, t, e)
    PROVE  /\ z \in Memory /\ z.bottom = e /\ z.data = Fresh(o) /\ Len(z.slots) = Fresh(o)
           /\ DOMAIN z.slots = DOMAIN o.slots \cup {Fresh(o)}
           /\ Cap(z, Fresh(o)) = Doubled(o)
           /\ \A i \in t .. e - 1 : Item(z, i) = Item(o, i)
           /\ buf2 \in Seq(Stores) /\ Len(buf) <= Len(buf2)
           /\ \A k \in 1 .. Len(buf) : buf2[k] = buf[k]
           /\ \A k \in Len(buf) + 1 .. Len(buf2) : buf2[k].order = "release"
           /\ \E y : /\ Replays(y, m2, z, buf2)
                     /\ Sound(y, z, t, e)
                     /\ \A label, l : Thieving(st, o, t, e, label, l)
                                         => Thieving(y, z, t, e, label, l)
<1> SUFFICES
        ASSUME NEW fresh, fresh = Len(o.slots) + 1,
               NEW len, len = 2 * Cap(o, o.data),
               NEW filled, filled = Filled(o, t, e, len),
               NEW copies, copies = Copies(o, t, e, fresh, len),
               z = Published(Grown(o, filled), fresh),
               m2 = Grown(m, NewBuffer(len)),
               buf2 = (buf \o copies) \o <<DataStore(fresh)>>
        PROVE  /\ z \in Memory /\ z.bottom = e /\ z.data = fresh /\ Len(z.slots) = fresh
               /\ DOMAIN z.slots = DOMAIN o.slots \cup {fresh}
               /\ Cap(z, fresh) = len
               /\ \A i \in t .. e - 1 : Item(z, i) = Item(o, i)
               /\ buf2 \in Seq(Stores) /\ Len(buf) <= Len(buf2)
               /\ \A k \in 1 .. Len(buf) : buf2[k] = buf[k]
               /\ \A k \in Len(buf) + 1 .. Len(buf2) : buf2[k].order = "release"
               /\ \E y : /\ Replays(y, m2, z, buf2)
                         /\ Sound(y, z, t, e)
                         /\ \A label, l : Thieving(st, o, t, e, label, l)
                                             => Thieving(y, z, t, e, label, l)
  BY Zenon DEF Fresh, Doubled, Regrown, Remade, Requeued
<1> DEFINE n == Len(st)
           c == e - t
           d == o.data
           old(i) == Read(o.slots, d, i)
           Partial(x) == [j \in 0 .. len - 1 |->
                             IF \E i \in t .. t + x - 1 : i % len = j THEN filled[j] ELSE Junk]
           from(k) == IF k <= n THEN k ELSE n
           Stage(k) == Grown(st[from(k)], Partial(IF k <= n THEN 0 ELSE k - n))
           y == [k \in 1 .. n + c + 1 |-> IF k = n + c + 1 THEN z ELSE Stage(k)]
<1>1. /\ st \in Seq(Memory) /\ buf \in Seq(Stores) /\ n = Len(buf) + 1 /\ o = st[n] /\ m = st[1]
      /\ n \in Nat /\ n \in DOMAIN st /\ DOMAIN st = 1 .. n /\ 1 \in DOMAIN st
  BY DEF Replays
<1>2. /\ o \in Memory /\ d \in DOMAIN o.slots /\ o.slots \in Seq(Buffers) /\ fresh \in Nat
      /\ fresh \notin DOMAIN o.slots /\ Alike(o, o)
  <2>1. Alike(st[n], o)
    BY <1>1 DEF Sound
  <2>4. o \in Memory /\ Alike(o, o)
    BY <2>1, <1>1 DEF Alike
  <2>2. o.slots \in Seq(Buffers)
    BY <2>4 DEF Memory
  <2>3. fresh \in Nat /\ fresh \notin DOMAIN o.slots
    BY <2>2
  <2> QED
    BY <2>4, <2>2, <2>3 DEF Alike
<1>3. c \in Nat /\ Cap(o, d) \in Nat \ {0} /\ len \in Nat \ {0} /\ c < len
  <2>1. Cap(o, d) \in Nat \ {0}
    BY <1>2, BufferShape DEF Cap
  <2> DEFINE p == Cap(o, d)
  <2>2. p \in Nat \ {0} /\ e - t <= p /\ len = 2 * p
    BY <2>1
  <2> HIDE DEF p
  <2>3. e - t \in Nat /\ len \in Nat \ {0} /\ e - t < len
    BY <2>2
  <2> QED
    BY <2>1, <2>3
<1>4. \A i \in Int : i % len \in 0 .. len - 1 /\ old(i) \in Word
  <2>1. \A i \in Int : i % len \in 0 .. len - 1
    BY <1>3, ModRange
  <2>2. \A i \in Int : old(i) \in Word
    BY <1>2, ReadType
  <2> QED
    BY <2>1, <2>2
\* No two of the copied values have one slot.
<1>5. \A i, j \in t .. e - 1 : i % len = j % len => i = j
  <2> SUFFICES ASSUME NEW i \in t .. e - 1, NEW j \in t .. e - 1, i < j
               PROVE  i % len # j % len
    BY <1>3
  <2>1. i \in Int /\ j \in Int /\ j - i < len
    BY <1>3
  <2> QED
    BY <2>1, <1>3, ModDistinct
<1>6. \A i \in t .. e - 1 : filled[i % len] = old(i)
  <2> TAKE i \in t .. e - 1
  <2>0. i \in Int
    OBVIOUS
  <2>1. i % len \in 0 .. len - 1
    BY <2>0, <1>4
  <2>2. (CHOOSE h \in t .. e - 1 : h % len = i % len) = i
    BY <1>5
  <2> QED
    BY <2>1, <2>2 DEF Filled
<1> HIDE DEF old
<1>7. filled \in [0 .. len - 1 -> Word]
  <2> SUFFICES ASSUME NEW j \in 0 .. len - 1 PROVE filled[j] \in Word
    BY DEF Filled
  <2>1. CASE \E i \in t .. e - 1 : i % len = j
    <3>1. PICK i \in t .. e - 1 : i % len = j
      BY <2>1
    <3>2. i \in Int
      OBVIOUS
    <3>3. filled[j] = old(i) /\ old(i) \in Word
      BY <3>1, <3>2, <1>4, <1>6
    <3> QED
      BY <3>3
  <2>2. CASE ~ \E i \in t .. e - 1 : i % len = j
    BY <2>2 DEF Word, Filled
  <2> QED
    BY <2>1, <2>2
<1>8. filled \in Buffers /\ \A x \in 0 .. c : Partial(x) \in [0 .. len - 1 -> Word] /\ Partial(x) \in Buffers
  BY <1>3, <1>7 DEF Buffers, Word
<1>9. Partial(0) = NewBuffer(len)
  BY <1>3 DEF NewBuffer
<1>10. Partial(c) = filled
  <2> SUFFICES ASSUME NEW j \in 0 .. len - 1 PROVE Partial(c)[j] = filled[j]
    BY <1>3, <1>7, <1>8
  <2> QED
    BY <1>3 DEF Filled
<1>11. \A x \in 1 .. c : Partial(x) = [Partial(x - 1) EXCEPT ![(t + x - 1) % len] = old(t + x - 1)]
  <2> TAKE x \in 1 .. c
  <2>1. /\ t + x - 1 \in t .. e - 1 /\ (t + x - 1) % len \in 0 .. len - 1
        /\ filled[(t + x - 1) % len] = old(t + x - 1)
    <3>1. t + x - 1 \in Int /\ t + x - 1 \in t .. e - 1
      BY <1>3
    <3> QED
      BY <3>1, <1>4, <1>6
  <2> DEFINE a == (t + x - 1) % len
  <2> HIDE DEF a
  <2>2. ASSUME NEW j \in 0 .. len - 1
        PROVE  (\E i \in t .. t + x - 1 : i % len = j)
                   <=> j = a \/ \E i \in t .. t + (x - 1) - 1 : i % len = j
    <3>1. \A i : i \in t .. t + x - 1 <=> i = t + x - 1 \/ i \in t .. t + (x - 1) - 1
      <4>1. x \in Int
        BY <1>3
      <4> QED
        BY <4>1
    <3> QED
      BY <3>1 DEF a
  <2>3. x \in Nat /\ x - 1 \in 0 .. c /\ x \in 0 .. c
    BY <1>3
  <2>4. Partial(x - 1) \in [0 .. len - 1 -> Word] /\ Partial(x) \in [0 .. len - 1 -> Word]
    BY <2>3, <1>8
  <2>5. ASSUME NEW j \in 0 .. len - 1
        PROVE  Partial(x)[j] = IF j = a THEN old(t + x - 1) ELSE Partial(x - 1)[j]
    BY <2>1, <2>2 DEF a
  <2> HIDE DEF Partial
  <2> QED
    BY <2>1, <2>4, <2>5 DEF a
<1> HIDE DEF Partial
\* The new buffer's slots once the x-th copy has drained.
<1>12. \A k \in 1 .. n + c :
          /\ from(k) \in DOMAIN st /\ Alike(st[from(k)], o)
          /\ (IF k <= n THEN 0 ELSE k - n) \in 0 .. c
  <2> TAKE k \in 1 .. n + c
  <2>1. from(k) \in DOMAIN st /\ (IF k <= n THEN 0 ELSE k - n) \in 0 .. c
    BY <1>1, <1>3
  <2> QED
    BY <2>1 DEF Sound
<1>13. \A k \in 1 .. n + c :
          /\ Stage(k) \in Memory
          /\ Stage(k).bottom = st[from(k)].bottom /\ Stage(k).data = st[from(k)].data
          /\ DOMAIN Stage(k).slots = DOMAIN o.slots \cup {fresh}
          /\ Stage(k).slots[fresh] \in [0 .. len - 1 -> Word]
          /\ \A b \in DOMAIN o.slots :
                 /\ DOMAIN Stage(k).slots[b] = DOMAIN o.slots[b]
                 /\ \A i \in Int : Read(Stage(k).slots, b, i) = Read(st[from(k)].slots, b, i)
  <2> TAKE k \in 1 .. n + c
  <2> DEFINE x == st[from(k)]
             f == Partial(IF k <= n THEN 0 ELSE k - n)
  <2>1. Alike(x, o) /\ f \in Buffers /\ f \in [0 .. len - 1 -> Word]
    BY <1>8, <1>12
  <2> HIDE DEF x, f, from
  <2>2. /\ Grown(x, f) \in Memory
        /\ Grown(x, f).bottom = x.bottom /\ Grown(x, f).data = x.data
        /\ DOMAIN Grown(x, f).slots = DOMAIN o.slots \cup {fresh}
        /\ Grown(x, f).slots[fresh] = f
        /\ \A b \in DOMAIN o.slots :
               /\ Grown(x, f).slots[b] = x.slots[b]
               /\ \A i \in Int : Read(Grown(x, f).slots, b, i) = Read(x.slots, b, i)
    BY <2>1, <1>2, GrownShape
  <2>3. Stage(k) = Grown(x, f)
    BY DEF x, f
  <2> QED
    BY <2>1, <2>2, <2>3 DEF x, Alike
<1> HIDE DEF n, c
\* The last stage is the owner's view: all is copied, and published.
<1>14. /\ z \in Memory /\ z.bottom = e /\ z.data = fresh
       /\ z.slots = Grown(o, filled).slots
       /\ Len(z.slots) = fresh /\ DOMAIN z.slots = DOMAIN o.slots \cup {fresh}
       /\ z.slots[fresh] = filled
       /\ \A b \in DOMAIN o.slots :
              /\ z.slots[b] = o.slots[b]
              /\ \A i \in Int : Read(z.slots, b, i) = Read(o.slots, b, i)
  <2>1. /\ Grown(o, filled) \in Memory /\ Grown(o, filled).bottom = e
        /\ DOMAIN Grown(o, filled).slots = DOMAIN o.slots \cup {fresh}
        /\ Grown(o, filled).slots[fresh] = filled
        /\ \A b \in DOMAIN o.slots :
               /\ Grown(o, filled).slots[b] = o.slots[b]
               /\ \A i \in Int : Read(Grown(o, filled).slots, b, i) = Read(o.slots, b, i)
    BY <1>2, <1>8, GrownShape
  <2> DEFINE x == Grown(o, filled)
  <2> HIDE DEF x
  <2>2. z = [x EXCEPT !.data = fresh]
    BY DEF Published, x
  <2>3. x \in Memory /\ x.slots \in Seq(Buffers) /\ DOMAIN x.slots = DOMAIN o.slots \cup {fresh}
    BY <2>1 DEF x, Memory
  <2>4. z \in Memory /\ z.bottom = x.bottom /\ z.data = fresh /\ z.slots = x.slots
    BY <2>2, <2>3, <1>2 DEF Memory
  <2>5. Len(x.slots) = fresh
    <3>1. DOMAIN x.slots = 1 .. Len(x.slots) /\ DOMAIN o.slots = 1 .. Len(o.slots)
          /\ Len(x.slots) \in Nat /\ Len(o.slots) \in Nat
      BY <2>3, <1>2, SeqDomain
    <3> DEFINE p == Len(o.slots)
               q == Len(x.slots)
    <3>2. p \in Nat /\ q \in Nat /\ 1 .. q = (1 .. p) \cup {p + 1}
      BY <3>1, <2>3
    <3> HIDE DEF p, q
    <3>3. p + 1 \in 1 .. q /\ ~(p + 2 \in 1 .. q)
      <4>1. p + 2 \notin 1 .. p /\ p + 2 # p + 1
        BY <3>2
      <4> QED
        BY <4>1, <3>2
    <3>4. q = p + 1
      BY <3>2, <3>3
    <3> QED
      BY <3>4 DEF p, q
  <2> QED
    BY <2>1, <2>4, <2>5 DEF x
<1>15. Cap(z, fresh) = len
  <2>1. DOMAIN z.slots[fresh] = 0 .. len - 1
    BY <1>7, <1>14
  <2>2. Cardinality(0 .. len - 1) = len
    BY <1>3, FS_Interval
  <2> QED
    BY <2>1, <2>2 DEF Cap, LengthOf
<1>16. \A i \in t .. e - 1 : Item(z, i) = Item(o, i)
  <2> TAKE i \in t .. e - 1
  <2>1. Item(z, i) = filled[i % len]
    BY <1>14, <1>15 DEF Item, Read, Cap
  <2> QED
    BY <2>1, <1>6 DEF Item, old
<1> HIDE DEF from, Stage, y
<1>17. n \in Nat /\ c \in Nat /\ n > 0 /\ n + c \in Nat /\ n - 1 \in Nat
  <2>1. n \in Nat /\ c \in Nat /\ n > 0
    BY <1>1, <1>3
  <2> QED
    BY <2>1
<1>18. /\ y \in Seq(Memory) /\ Len(y) = n + c + 1 /\ y[n + c + 1] = z
       /\ DOMAIN y = 1 .. n + c + 1
       /\ \A k \in 1 .. n + c : y[k] = Stage(k)
  <2>1. \A k \in 1 .. n + c + 1 : k = n + c + 1 \/ k \in 1 .. n + c
    BY <1>17
  <2>2. \A k \in 1 .. n + c : k \in 1 .. n + c + 1 /\ k # n + c + 1
    BY <1>17
  <2>3. n + c + 1 \in 1 .. n + c + 1 /\ n + c + 1 \in Nat
    BY <1>17
  <2>4. \A k \in 1 .. n + c : y[k] = Stage(k)
    BY <2>2 DEF y
  <2>5. y[n + c + 1] = z
    BY <2>3 DEF y
  <2>6. \A k \in 1 .. n + c + 1 : y[k] \in Memory
    BY <2>1, <2>4, <2>5, <1>13, <1>14
  <2>7. y = [k \in 1 .. n + c + 1 |-> y[k]]
    BY DEF y
  <2>8. y \in [1 .. n + c + 1 -> Memory]
    BY <2>6, <2>7
  <2>9. y \in Seq(Memory) /\ Len(y) = n + c + 1 /\ DOMAIN y = 1 .. n + c + 1
    BY <2>3, <2>8, FunctionIsSeq
  <2> QED
    BY <2>4, <2>5, <2>9
<1>19. copies \in Seq(Stores) /\ Len(copies) = c
       /\ \A x \in 1 .. c : copies[x] = SlotStore(fresh, (t + x - 1) % len, old(t + x - 1))
  <2>1. \A x \in 1 .. c : copies[x] = SlotStore(fresh, (t + x - 1) % len, old(t + x - 1))
    BY DEF Copies, old, c
  <2>2. ASSUME NEW x \in 1 .. c PROVE SlotStore(fresh, (t + x - 1) % len, old(t + x - 1)) \in Stores
    <3>1. t + x - 1 \in Int
      BY <1>3
    <3> QED
      BY <3>1, <1>2, <1>4 DEF SlotStore, Stores
  <2>3. copies = [x \in 1 .. c |-> copies[x]]
    BY DEF Copies, c
  <2>4. copies \in [1 .. c -> Stores]
    BY <2>1, <2>2, <2>3
  <2>5. copies \in Seq(Stores) /\ Len(copies) = c
    BY <2>4, <1>17, FunctionIsSeq
  <2> QED
    BY <2>1, <2>5
<1>20. /\ buf2 \in Seq(Stores) /\ Len(buf2) = n + c
       /\ \A k \in 1 .. n - 1 : buf2[k] = buf[k]
       /\ \A x \in 1 .. c : buf2[n + x - 1] = copies[x]
       /\ buf2[n + c] = DataStore(fresh)
  <2>1. DataStore(fresh) \in Stores
    BY <1>2 DEF DataStore, Stores
  <2> DEFINE w == DataStore(fresh)
  <2>2. buf2 = (buf \o copies) \o <<w>>
    OBVIOUS
  <2> HIDE DEF w
  <2>3. /\ buf2 \in Seq(Stores) /\ Len(buf2) = Len(buf) + Len(copies) + 1 /\ buf2[Len(buf2)] = w
        /\ \A k \in 1 .. Len(buf) : buf2[k] = buf[k]
        /\ \A k \in 1 .. Len(copies) : buf2[Len(buf) + k] = copies[k]
    <3>1. buf \in Seq(Stores) /\ copies \in Seq(Stores) /\ w \in Stores
      BY <2>1, <1>1, <1>19 DEF w
    <3> QED
      BY <3>1, <2>2, Joined
  <2>4. Len(buf) = n - 1 /\ Len(copies) = c
    <3>1. Len(buf) \in Nat /\ n = Len(buf) + 1
      BY <1>1, SeqDomain
    <3>2. Len(buf) = n - 1
      BY <3>1
    <3> QED
      BY <3>2, <1>19
  <2>5. \A x \in 1 .. c : n + x - 1 = (n - 1) + x
    BY <1>17
  <2>6. (n - 1) + c + 1 = n + c
    BY <1>17
  <2>7. Len(buf2) = n + c
    BY <2>3, <2>4, <2>6
  <2>8. \A k \in 1 .. n - 1 : buf2[k] = buf[k]
    BY <2>3, <2>4
  <2>9. \A x \in 1 .. c : buf2[(n - 1) + x] = copies[x]
    BY <2>3, <2>4
  <2> HIDE DEF w
  <2>10. \A x \in 1 .. c : buf2[n + x - 1] = copies[x]
    BY <2>5, <2>9
  <2>11. buf2[n + c] = w
    BY <2>3, <2>7
  <2> QED
    BY <2>3, <2>7, <2>8, <2>10, <2>11 DEF w
\* The x-th copy writes the new buffer's next element.
<1>21. ASSUME NEW x \in 1 .. c, NEW q \in Memory, Alike(q, o)
       PROVE  Grown(q, Partial(x)) = Apply(Grown(q, Partial(x - 1)), copies[x])
  <2> DEFINE f == Partial(x - 1)
             g == Partial(x)
             a == (t + x - 1) % len
             v == old(t + x - 1)
             r == Append(q.slots, f)
  <2>1. g = [f EXCEPT ![a] = v]
    BY <1>11
  <2>2. copies[x] = SlotStore(fresh, a, v)
    BY <1>19
  <2>3. /\ copies[x].loc = "slot" /\ copies[x].buf = fresh
        /\ copies[x].at = a /\ copies[x].val = v
    BY <2>2 DEF SlotStore
  <2>4. q.slots \in Seq(Buffers) /\ Len(q.slots) + 1 = fresh
    <3>1. q.slots \in Seq(Buffers) /\ DOMAIN q.slots = DOMAIN o.slots
      BY <1>21 DEF Alike, Memory
    <3>2. Len(q.slots) = Len(o.slots)
      BY <3>1, <1>2
    <3> QED
      BY <3>1, <3>2
  <2> HIDE DEF f, g, a, v
  <2>5. f \in Buffers /\ g \in Buffers
    <3>1. x - 1 \in 0 .. c /\ x \in 0 .. c
      BY <1>17
    <3> QED
      BY <3>1, <1>8 DEF f, g
  <2>6. Apply(Grown(q, f), copies[x]) = [Grown(q, f) EXCEPT !.slots[fresh][a] = v]
    <3> DEFINE p == Grown(q, f)
               w == copies[x]
    <3>1. w.loc = "slot" => Apply(p, w) = [p EXCEPT !.slots[w.buf][w.at] = w.val]
      <4> HIDE DEF p, w
      <4> QED
        BY Applied
    <3> HIDE DEF p
    <3>2. Apply(p, w) = [p EXCEPT !.slots[fresh][a] = v]
      BY <2>3, <3>1
    <3> QED
      BY <3>2 DEF p
  <2>7. [r EXCEPT ![fresh][a] = v] = Append(q.slots, g)
    <3>1. r \in Seq(Buffers) /\ Len(r) = fresh /\ r[fresh] = f /\ fresh \in DOMAIN r
          /\ \A k \in 1 .. Len(q.slots) : r[k] = q.slots[k]
      BY <2>4, <2>5
    <3>2. [r EXCEPT ![fresh][a] = v] = [r EXCEPT ![fresh] = g]
      BY <3>1, <2>1
    <3> DEFINE h == Append(q.slots, g)
    <3>3. h \in Seq(Buffers) /\ Len(h) = fresh /\ h[fresh] = g
          /\ \A k \in 1 .. Len(q.slots) : h[k] = q.slots[k]
      BY <2>4, <2>5
    <3>4. \A k \in 1 .. fresh : k = fresh \/ k \in 1 .. Len(q.slots)
      BY <2>4
    <3> DEFINE d2 == [r EXCEPT ![fresh] = g]
    <3> HIDE DEF r, h
    <3>5. d2 \in Seq(Buffers) /\ Len(d2) = fresh /\ d2[fresh] = g
          /\ \A k \in 1 .. fresh : k # fresh => d2[k] = r[k]
      <4>1. DOMAIN r = 1 .. fresh
        BY <3>1
      <4>2. d2[fresh] = g /\ \A k \in 1 .. fresh : k # fresh => d2[k] = r[k]
        BY <4>1, <3>1
      <4>3. d2 \in Seq(Buffers) /\ Len(d2) = fresh
        BY <3>1, <2>5
      <4> QED
        BY <4>2, <4>3
    <3> HIDE DEF d2
    <3>6. \A k \in 1 .. fresh : d2[k] = h[k]
      <4>1. \A k \in 1 .. Len(q.slots) : k # fresh
        BY <2>4
      <4> QED
        BY <4>1, <3>1, <3>3, <3>4, <3>5
    <3>7. d2 = h
      <4>1. Len(d2) = Len(h) /\ \A k \in 1 .. Len(d2) : d2[k] = h[k]
        BY <3>3, <3>5, <3>6
      <4> QED
        BY <4>1, <3>3, <3>5, SameSeq
    <3> QED
      BY <3>2, <3>7 DEF d2, h, r
  <2>8. Apply(Grown(q, f), copies[x]) = [q EXCEPT !.slots = [r EXCEPT ![fresh][a] = v]]
    BY <2>6 DEF Grown, Memory
  <2>9. Apply(Grown(q, f), copies[x]) = Grown(q, g)
    BY <2>7, <2>8 DEF Grown
  <2> QED
    BY <2>9 DEF f, g
<1>22. Replays(y, m2, z, buf2)
  <2>1. y[1] = m2
    <3>1. 1 \in 1 .. n + c /\ from(1) = 1 /\ (IF 1 <= n THEN 0 ELSE 1 - n) = 0
      BY <1>17 DEF from
    <3>2. Stage(1) = Grown(st[1], Partial(0))
      BY <3>1 DEF Stage
    <3> QED
      BY <3>1, <3>2, <1>1, <1>9, <1>18
  <2>0. ASSUME NEW k \in 1 .. n + c, n <= k PROVE Stage(k) = Grown(o, Partial(k - n))
    <3>1. st[from(k)] = o
      BY <2>0, <1>1, <1>17 DEF from
    <3>2. (IF k <= n THEN 0 ELSE k - n) = k - n
      BY <2>0, <1>17
    <3> QED
      BY <3>1, <3>2 DEF Stage
  <2>2. ASSUME NEW k \in 1 .. n + c
        PROVE  /\ y[k + 1] = Apply(y[k], buf2[k])
               /\ buf2[k].loc = "slot" => buf2[k].buf \in DOMAIN z.slots
    \* A store from before is to what was there before.
    <3>1. CASE k < n
      <4>1. /\ k \in 1 .. n - 1 /\ k + 1 \in 1 .. n + c /\ k + 1 <= n /\ k <= n
            /\ k \in DOMAIN buf
        BY <3>1, <1>1, <1>17
      <4>2. Stage(k) = Grown(st[k], Partial(0)) /\ Stage(k + 1) = Grown(st[k + 1], Partial(0))
        BY <4>1 DEF Stage, from
      <4>3. buf2[k] = buf[k] /\ buf[k] \in Stores
        <5>1. buf2[k] = buf[k]
          BY <4>1, <1>20
        <5>2. buf[k] \in Stores
          BY <4>1, <1>1
        <5> QED
          BY <5>1, <5>2
      <4>4. /\ st[k + 1] = Apply(st[k], buf[k])
            /\ buf[k].loc = "slot" => buf[k].buf \in DOMAIN o.slots
        BY <4>1 DEF Replays
      <4>5. st[k] \in Memory /\ DOMAIN st[k].slots = DOMAIN o.slots
        BY <4>1, <1>1 DEF Sound, Alike
      <4>6. Partial(0) \in Buffers
        BY <1>8, <1>17
      <4>7. Apply(Grown(st[k], Partial(0)), buf[k]) = Grown(Apply(st[k], buf[k]), Partial(0))
        BY <4>3, <4>4, <4>5, <4>6, GrownStore
      <4> QED
        BY <4>1, <4>2, <4>3, <4>4, <4>7, <1>14, <1>18
    <3>2. CASE n <= k /\ k < n + c
      <4> DEFINE x == k - n + 1
      <4>1. /\ x \in 1 .. c /\ k = n + x - 1 /\ k + 1 \in 1 .. n + c /\ ~(k + 1 <= n)
            /\ (k + 1) - n = x /\ (k <= n => k - n = 0) /\ k - n = x - 1
            /\ (k <= n => k = n)
        BY <3>2, <1>17
      <4> HIDE DEF x
      <4>2. Stage(k) = Grown(o, Partial(x - 1))
        BY <3>2, <4>1, <2>0
      <4>3. Stage(k + 1) = Grown(o, Partial(x))
        <5>1. n <= k + 1
          BY <3>2, <1>17
        <5>2. Stage(k + 1) = Grown(o, Partial((k + 1) - n))
          BY <4>1, <5>1, <2>0
        <5> QED
          BY <4>1, <5>2
      <4>4. buf2[k] = copies[x]
        BY <4>1, <1>20
      <4>5. Grown(o, Partial(x)) = Apply(Grown(o, Partial(x - 1)), copies[x])
        BY <4>1, <1>2, <1>21
      <4>6. copies[x].buf = fresh
        <5>1. \A a, v : SlotStore(fresh, a, v).buf = fresh
          BY DEF SlotStore
        <5> QED
          BY <4>1, <5>1, <1>19
      <4> QED
        BY <4>1, <4>2, <4>3, <4>4, <4>5, <4>6, <1>14, <1>18
    <3>3. CASE k = n + c
      <4>1. Stage(k) = Grown(o, filled)
        <5>1. n <= k /\ k - n = c
          BY <3>3, <1>17
        <5> QED
          BY <5>1, <1>10, <2>0
      <4>2. buf2[k] = DataStore(fresh) /\ DataStore(fresh).loc = "data" /\ DataStore(fresh).val = fresh
        BY <3>3, <1>20 DEF DataStore
      <4> DEFINE p == Grown(o, filled)
                 w == DataStore(fresh)
      <4> HIDE DEF p, w
      <4>3. Apply(p, w) = [p EXCEPT !.data = fresh]
        <5>1. w.loc = "data" /\ w.val = fresh
          BY <4>2 DEF w
        <5>2. w.loc = "data" => Apply(p, w) = [p EXCEPT !.data = w.val]
          BY Applied
        <5> QED
          BY <5>1, <5>2
      <4>4. z = Apply(Stage(k), buf2[k])
        BY <4>1, <4>2, <4>3 DEF p, w, Published
      <4> QED
        BY <3>3, <4>2, <4>4, <1>18
    <3>4. k < n \/ (n <= k /\ k < n + c) \/ k = n + c
      BY <1>17
    <3> QED
      BY <3>1, <3>2, <3>3, <3>4
  <2>3. y[Len(y)] = z /\ Len(y) = Len(buf2) + 1 /\ DOMAIN buf2 = 1 .. n + c
    BY <1>18, <1>20
  <2>4. \A k \in DOMAIN buf2 :
            /\ y[k + 1] = Apply(y[k], buf2[k])
            /\ buf2[k].loc = "slot" => buf2[k].buf \in DOMAIN z.slots
    BY <2>2, <2>3
  <2> QED
    BY <2>1, <2>3, <2>4, <1>18, <1>20 DEF Replays
\* Which stage of before a stage reads as.
<1>23. ASSUME NEW k \in DOMAIN y, NEW l \in DOMAIN y, k <= l, l # n + c + 1
       PROVE  /\ k \in 1 .. n + c /\ l \in 1 .. n + c
              /\ from(k) \in DOMAIN st /\ from(l) \in DOMAIN st /\ from(k) <= from(l)
  <2>0. k \in 1 .. n + c + 1 /\ l \in 1 .. n + c + 1
    BY <1>18
  <2>1. k \in 1 .. n + c /\ l \in 1 .. n + c
    BY <2>0, <1>17, <1>23, EarlierIndex
  <2>2. from(k) <= from(l)
    BY <2>1, <1>17, <1>23 DEF from
  <2> QED
    BY <2>1, <2>2, <1>12
\* Where a buffer of before reads right in every stage of before, it still does.
<1>24. ASSUME NEW a \in DOMAIN o.slots, NEW i \in t .. e - 1, NEW k \in DOMAIN y,
              \A x \in DOMAIN st : (k = n + c + 1 \/ from(k) <= x) => Read(st[x].slots, a, i) = Item(o, i),
              NEW x \in DOMAIN y, k <= x
       PROVE  Read(y[x].slots, a, i) = Item(z, i)
  <2>0. i \in Int /\ Item(z, i) = Item(o, i)
    BY <1>16
  <2>1. CASE x = n + c + 1
    <3>1. Read(y[x].slots, a, i) = Read(st[n].slots, a, i)
      <4>1. y[x] = z /\ st[n] = o
        BY <2>1, <1>1, <1>18
      <4>2. Read(z.slots, a, i) = Read(o.slots, a, i)
        BY <2>0, <1>14
      <4> QED
        BY <4>1, <4>2
    <3>2. k = n + c + 1 \/ from(k) <= n
      BY <1>17, <1>18 DEF from
    <3> QED
      BY <2>0, <3>1, <3>2, <1>1, <1>24
  <2>2. CASE x # n + c + 1
    <3>1. x \in 1 .. n + c /\ from(x) \in DOMAIN st /\ from(k) <= from(x)
      BY <2>2, <1>23, <1>24
    <3>2. Read(y[x].slots, a, i) = Read(st[from(x)].slots, a, i)
      BY <2>0, <3>1, <1>13, <1>18
    <3> QED
      BY <2>0, <3>1, <3>2, <1>24
  <2> QED
    BY <2>1, <2>2
<1>25. Sound(y, z, t, e)
  <2>1. ASSUME NEW k \in DOMAIN y PROVE Alike(y[k], z) /\ y[k].bottom \in -1 .. e
    <3>1. CASE k = n + c + 1
      <4>1. y[k] = z
        BY <3>1, <1>18
      <4> QED
        BY <4>1, <1>14 DEF Alike
    <3>2. CASE k # n + c + 1
      <4>1. k \in 1 .. n + c /\ from(k) \in DOMAIN st
        BY <3>2, <1>23, <1>18
      <4>2. y[k] = Stage(k)
        BY <4>1, <1>18
      <4>3. Alike(st[from(k)], o) /\ st[from(k)].bottom \in -1 .. e
        BY <4>1 DEF Sound
      <4>4. /\ y[k] \in Memory /\ y[k].bottom = st[from(k)].bottom /\ y[k].data = st[from(k)].data
            /\ DOMAIN y[k].slots = DOMAIN o.slots \cup {fresh}
            /\ y[k].slots[fresh] \in [0 .. len - 1 -> Word]
            /\ \A b \in DOMAIN o.slots : DOMAIN y[k].slots[b] = DOMAIN o.slots[b]
        BY <4>1, <4>2, <1>13
      <4>5. ASSUME NEW b \in DOMAIN z.slots PROVE DOMAIN y[k].slots[b] = DOMAIN z.slots[b]
        <5>1. CASE b = fresh
          BY <5>1, <4>4, <1>7, <1>14
        <5>2. CASE b \in DOMAIN o.slots
          BY <5>2, <4>4, <1>14
        <5> QED
          BY <5>1, <5>2, <1>14
      <4>6. y[k].data \in DOMAIN z.slots /\ DOMAIN y[k].slots = DOMAIN z.slots
        BY <4>3, <4>4, <1>14 DEF Alike
      <4> QED
        BY <4>3, <4>4, <4>5, <4>6 DEF Alike
    <3> QED
      BY <3>1, <3>2
  <2>2. Readable(y, z, t)
    <3> SUFFICES ASSUME NEW k \in DOMAIN y, NEW l \in DOMAIN y, NEW x \in DOMAIN y, k <= l, l <= x,
                        NEW i \in t .. y[k].bottom - 1
                 PROVE  Read(y[x].slots, y[l].data, i) = Item(z, i)
      BY DEF Readable
    <3>1. i \in t .. e - 1
      BY <2>1
    <3>2. CASE l = n + c + 1
      <4>1. x = n + c + 1
        BY <3>2, <1>17, <1>18, LastIndex
      <4> QED
        BY <3>2, <4>1, <1>18 DEF Item
    <3>3. CASE l # n + c + 1
      <4>1. /\ k \in 1 .. n + c /\ l \in 1 .. n + c
            /\ from(k) \in DOMAIN st /\ from(l) \in DOMAIN st /\ from(k) <= from(l)
        BY <3>3, <1>23
      <4>2. y[k].bottom = st[from(k)].bottom /\ y[l].data = st[from(l)].data
        BY <4>1, <1>13, <1>18
      <4>3. y[l].data \in DOMAIN o.slots
        BY <4>1, <4>2 DEF Sound, Alike
      <4>4. \A h \in DOMAIN st : from(l) <= h => Read(st[h].slots, y[l].data, i) = Item(o, i)
        BY <4>1, <4>2 DEF Sound, Readable
      <4> QED
        BY <3>1, <3>3, <4>3, <4>4, <1>24
    <3> QED
      BY <3>2, <3>3
  <2> QED
    BY <2>1, <2>2 DEF Sound
<1>26. ASSUME NEW label, NEW l, Thieving(st, o, t, e, label, l)
       PROVE  Thieving(y, z, t, e, label, l)
  <2>1. ASSUME Stealing(label), l.t = t
        PROVE  t < e /\ t \in t .. e - 1
    BY <2>1, <1>26 DEF Thieving
  <2>2. ASSUME label = "steal_data", l.t = t, NEW k \in DOMAIN y, NEW x \in DOMAIN y, k <= x
        PROVE  Read(y[x].slots, y[k].data, t) = Item(z, t)
    <3>1. CASE k = n + c + 1
      <4>0. x \in 1 .. n + c + 1
        BY <1>18
      <4>1. n + c + 1 <= x
        BY <2>2, <3>1
      <4>2. x = n + c + 1
        BY <4>0, <4>1, <1>17, LastIndex
      <4> QED
        BY <3>1, <4>2, <1>18 DEF Item
    <3>2. CASE k # n + c + 1
      <4>1. k \in 1 .. n + c /\ from(k) \in DOMAIN st
        BY <3>2, <1>23, <1>18
      <4>2. y[k].data = st[from(k)].data
        BY <4>1, <1>13, <1>18
      <4>3. y[k].data \in DOMAIN o.slots
        BY <4>1, <4>2 DEF Sound, Alike
      <4>4. \A h \in DOMAIN st : from(k) <= h => Read(st[h].slots, y[k].data, t) = Item(o, t)
        BY <4>1, <4>2, <2>2, <1>26 DEF Thieving, Stealing
      <4>5. t \in t .. e - 1
        BY <2>1, <2>2 DEF Stealing
      <4> QED
        BY <2>2, <3>2, <4>3, <4>4, <4>5, <1>24
    <3> QED
      BY <3>1, <3>2
  <2>3. ASSUME label = "steal_slot", l.t = t, NEW x \in DOMAIN y
        PROVE  Read(y[x].slots, l.a, t) = Item(z, t)
    <3>1. t \in t .. e - 1 /\ l.a \in DOMAIN o.slots
      BY <2>1, <2>3, <1>26 DEF Stealing, Thieving
    <3>2. \A h \in DOMAIN st : Read(st[h].slots, l.a, t) = Item(o, t)
      BY <2>3, <1>26 DEF Thieving, Stealing
    <3>3. 1 \in DOMAIN y /\ 1 <= x
      BY <1>17, <1>18
    <3> QED
      BY <3>1, <3>2, <3>3, <1>24
  <2> QED
    BY <2>1, <2>2, <2>3, <1>14, <1>16, <1>26 DEF Thieving
<1>27. /\ Len(buf) <= Len(buf2)
       /\ \A k \in 1 .. Len(buf) : buf2[k] = buf[k]
       /\ \A k \in Len(buf) + 1 .. Len(buf2) : buf2[k].order = "release"
  <2>1. Len(buf) = n - 1
    BY <1>1, <1>17
  <2>2. n - 1 <= n + c /\ (n - 1) + 1 = n
    BY <1>17
  <2>3. ASSUME NEW k \in n .. n + c PROVE buf2[k].order = "release"
    <3>1. CASE k = n + c
      BY <3>1, <1>20 DEF DataStore
    <3>2. CASE k # n + c
      <4> DEFINE x == (k - n) + 1
      <4>1. x \in 1 .. c /\ n + x - 1 = k
        BY <3>2, <1>17
      <4> HIDE DEF x
      <4>2. buf2[k] = copies[x]
        BY <4>1, <1>20
      <4>3. \A a, v : SlotStore(fresh, a, v).order = "release"
        BY DEF SlotStore
      <4>4. copies[x].order = "release"
        <5>1. copies[x] = SlotStore(fresh, (t + x - 1) % len, old(t + x - 1))
          BY <4>1, <1>19
        <5> QED
          BY <4>3, <5>1, Zenon
      <4> QED
        BY <4>2, <4>4
    <3> QED
      BY <3>1, <3>2
  <2> QED
    BY <2>1, <2>2, <2>3, <1>20
<1> QED
  BY <1>14, <1>15, <1>16, <1>20, <1>22, <1>25, <1>26, <1>27

----------------------------------------------------------------------------
(* The inductive invariant                                                 *)

Locals == [t : Nat, b : Int, a : Nat, val : Word]

TypeInv ==
    /\ pc \in [Process -> OwnerLabel \cup ThiefLabel]
    /\ pc[Owner] \in OwnerLabel
    /\ \A p \in Thief : pc[p] \in ThiefLabel
    /\ local \in [Process -> Locals]
    /\ result \in [Process -> Value \cup {Empty}]
    /\ top \in Nat /\ inserted \in Nat
    /\ claims \in [Value -> Nat]

\* The buffer drains in order: a relaxed store only follows one to bottom_.
Fifo(buf, label) ==
    /\ \A i \in 2 .. Len(buf) :
          \/ buf[i].order \in {"release", "fenced"}
          \/ buf[i].loc = "bottom" /\ buf[i - 1].loc = "bottom"
    /\ label \in {"idle", "resize"} => buf = <<>> \/ buf[Len(buf)].loc = "bottom"
    /\ label \in {"take_top", "take_cas"} => buf = <<>>

\* What the owner knows of its own queue in the middle of an operation.
OwnInv ==
    /\ top <= End /\ End <= inserted /\ inserted <= MaxInserts
    /\ End - top <= Cap(own, own.data)
    /\ own.data = Len(own.slots)
    /\ \A i \in top .. End - 1 : Item(own, i) \in Value
    /\ pc[Owner] \in {"resize", "insert_store"} =>
          inserted < MaxInserts /\ local[Owner].b = own.bottom
    /\ pc[Owner] = "insert_store" => End - top < Cap(own, own.data)
    /\ Undecided => local[Owner].b = own.bottom /\ local[Owner].a = own.data
    /\ pc[Owner] = "take_cas" =>
          /\ local[Owner].t = own.bottom /\ local[Owner].t <= top
          /\ local[Owner].val = Item(own, own.bottom)

Staged(st, m, o, buf, t, e, q, l) ==
    /\ Replays(st, m, o, buf)
    /\ Sound(st, o, t, e)
    /\ \A p \in Thief : Thieving(st, o, t, e, q[p], l[p])

IInv ==
    /\ TypeInv
    /\ Fifo(buffer, pc[Owner])
    /\ OwnInv
    /\ \E st : Staged(st, mem, own, buffer, top, End, pc, local)

\* What memory and the owner's view of it are like in every reachable state.
LEMMA Staging ==
    ASSUME NEW st, NEW m, NEW o, NEW buf, NEW t, NEW e, Replays(st, m, o, buf), Sound(st, o, t, e)
    PROVE  /\ Alike(m, o) /\ Alike(o, o) /\ m.bottom \in -1 .. e /\ o.bottom \in -1 .. e
           /\ o.slots \in Seq(Buffers) /\ m.slots \in Seq(Buffers) /\ Cap(o, o.data) \in Nat \ {0}
           /\ buf \in Seq(Stores) /\ o \in Memory /\ m \in Memory
           /\ 1 \in DOMAIN st /\ st[1] = m
<1>1. st \in Seq(Memory) /\ buf \in Seq(Stores) /\ Len(st) = Len(buf) + 1
  BY DEF Replays
<1>2. 1 \in DOMAIN st /\ Len(st) \in DOMAIN st
  BY <1>1
<1>3. Alike(m, o) /\ Alike(o, o) /\ m.bottom \in -1 .. e /\ o.bottom \in -1 .. e
  BY <1>2 DEF Replays, Sound
<1>4. o \in Memory /\ m \in Memory /\ o.data \in DOMAIN o.slots
  BY <1>3 DEF Alike
<1>5. o.slots \in Seq(Buffers) /\ m.slots \in Seq(Buffers)
  BY <1>4 DEF Memory
<1>6. Cap(o, o.data) \in Nat \ {0}
  BY <1>4, <1>5, BufferShape DEF Cap
<1> QED
  BY <1>1, <1>2, <1>3, <1>4, <1>5, <1>6 DEF Replays

\* The same for the variables.
LEMMA Settled ==
    ASSUME IInv
    PROVE  /\ own \in Memory /\ mem \in Memory
           /\ own.data \in DOMAIN own.slots /\ mem.data \in DOMAIN own.slots
           /\ DOMAIN mem.slots = DOMAIN own.slots
           /\ mem.bottom \in -1 .. End /\ own.bottom \in -1 .. End
           /\ own.slots \in Seq(Buffers) /\ mem.slots \in Seq(Buffers)
           /\ own.bottom \in Int /\ End \in Nat /\ top \in Nat /\ inserted \in Nat
           /\ Cap(own, own.data) \in Nat \ {0}
           /\ buffer \in Seq(Stores) /\ own.data \in Nat
<1>1. PICK st : Replays(st, mem, own, buffer) /\ Sound(st, own, top, End)
  BY DEF IInv, Staged
<1>2. /\ Alike(mem, own) /\ Alike(own, own) /\ mem.bottom \in -1 .. End /\ own.bottom \in -1 .. End
      /\ own.slots \in Seq(Buffers) /\ mem.slots \in Seq(Buffers) /\ Cap(own, own.data) \in Nat \ {0}
      /\ buffer \in Seq(Stores) /\ own \in Memory /\ mem \in Memory
  BY <1>1, Staging
<1>3. /\ own.data \in DOMAIN own.slots /\ mem.data \in DOMAIN own.slots
      /\ DOMAIN mem.slots = DOMAIN own.slots /\ own.data \in Nat
  BY <1>2 DEF Alike, Memory
<1>4. own.bottom \in Int
  BY <1>2 DEF Memory
<1>5. End \in Int
  BY <1>4 DEF End
<1>6. top \in Nat /\ inserted \in Nat /\ top <= End
  BY DEF IInv, TypeInv, OwnInv
<1>7. End \in Nat
  BY <1>5, <1>6
<1> QED
  BY <1>2, <1>3, <1>4, <1>6, <1>7

\* Only the owner moves.
LEMMA SameThieves ==
    ASSUME NEW st, NEW m, NEW o, NEW buf, NEW t, NEW e, NEW q, NEW l, NEW q2, NEW l2,
           Staged(st, m, o, buf, t, e, q, l),
           \A p \in Thief : q2[p] = q[p] /\ l2[p] = l[p]
    PROVE  Staged(st, m, o, buf, t, e, q2, l2)
BY DEF Staged

\* The oldest element goes: whoever was after it has lost it.
LEMMA TopMoved ==
    ASSUME NEW st, NEW o, NEW t \in Nat, NEW e \in Int, Sound(st, o, t, e)
    PROVE  /\ Sound(st, o, t + 1, e)
           /\ \A label, l : Thieving(st, o, t, e, label, l) => Thieving(st, o, t + 1, e, label, l)
<1>1. Sound(st, o, t + 1, e)
  <2>1. Readable(st, o, t + 1)
    <3> SUFFICES ASSUME NEW k \in DOMAIN st, NEW l \in DOMAIN st, NEW x \in DOMAIN st, k <= l, l <= x,
                        NEW i \in t + 1 .. st[k].bottom - 1
                 PROVE  Read(st[x].slots, st[l].data, i) = Item(o, i)
      BY DEF Readable
    <3>1. st[k].bottom \in Int
      BY DEF Sound
    <3>2. i \in t .. st[k].bottom - 1
      BY <3>1
    <3> QED
      BY <3>2 DEF Sound, Readable
  <2> QED
    BY <2>1 DEF Sound
<1>2. ASSUME NEW label, NEW l, Thieving(st, o, t, e, label, l)
      PROVE  Thieving(st, o, t + 1, e, label, l)
  <2>1. l.a \in DOMAIN o.slots /\ l.t \in 0 .. t
    BY <1>2 DEF Thieving
  <2>2. l.t \in 0 .. t + 1 /\ l.t # t + 1
    BY <2>1
  <2> QED
    BY <2>1, <2>2 DEF Thieving
<1> QED
  BY <1>1, <1>2

\* The queue's end moves on before bottom_ does.
LEMMA EndMoved ==
    ASSUME NEW st, NEW o, NEW t \in Nat, NEW e \in Int, Sound(st, o, t, e)
    PROVE  /\ Sound(st, o, t, e + 1)
           /\ \A label, l : Thieving(st, o, t, e, label, l) => Thieving(st, o, t, e + 1, label, l)
<1>1. Sound(st, o, t, e + 1)
  <2>1. \A k \in DOMAIN st : st[k].bottom \in -1 .. e + 1
    <3> TAKE k \in DOMAIN st
    <3>1. st[k].bottom \in -1 .. e
      BY DEF Sound
    <3> QED
      BY <3>1
  <2> QED
    BY <2>1 DEF Sound
<1>2. ASSUME NEW label, NEW l, Thieving(st, o, t, e, label, l)
      PROVE  Thieving(st, o, t, e + 1, label, l)
  <2>1. t < e => t < e + 1
    OBVIOUS
  <2> QED
    BY <1>2, <2>1 DEF Thieving
<1> QED
  BY <1>1, <1>2

\* The owner has the last of at least two elements: bottom_ says so.
LEMMA EndTaken ==
    ASSUME NEW st, NEW m, NEW o, NEW t \in Nat, NEW e \in Int,
           Replays(st, m, o, <<>>), Sound(st, o, t, e), o.bottom = e - 1, t < e - 1
    PROVE  /\ Sound(st, o, t, e - 1)
           /\ \A label, l : Thieving(st, o, t, e, label, l) => Thieving(st, o, t, e - 1, label, l)
<1>1. st \in Seq(Memory) /\ Len(st) = 1 /\ st[1] = o
  BY DEF Replays
<1>2. \A k \in DOMAIN st : st[k] = o
  BY <1>1
<1>3. o.bottom \in -1 .. e - 1
  <2>1. e - 1 \in -1 .. e - 1
    OBVIOUS
  <2> QED
    BY <2>1
<1>4. Sound(st, o, t, e - 1)
  BY <1>2, <1>3 DEF Sound
<1> QED
  BY <1>4 DEF Thieving

----------------------------------------------------------------------------
(* How the buffer stays in order                                           *)

\* A store to bottom_ may follow where the last was one too, or a fence.
LEMMA FifoAppend ==
    ASSUME NEW buf \in Seq(Stores), NEW old, NEW label, Fifo(buf, old), NEW b \in Int, NEW order,
           \/ order = "relaxed" /\ (old = "idle" \/ buf = <<>>)
           \/ order = "fenced",
           label \notin {"take_top", "take_cas"}
    PROVE  Fifo(Append(buf, BottomStore(b, order)), label)
<1> DEFINE s == BottomStore(b, order)
           z == Append(buf, s)
           n == Len(buf)
<1>1. s.loc = "bottom" /\ s.order = order
  BY DEF BottomStore
<1> HIDE DEF s
<1>2. Len(z) = n + 1 /\ n \in Nat /\ z[n + 1] = s /\ (\A i \in 1 .. n : z[i] = buf[i]) /\ z # <<>>
  OBVIOUS
<1> HIDE DEF z, n
<1>3. ASSUME NEW i \in 2 .. n + 1
      PROVE  \/ z[i].order \in {"release", "fenced"}
             \/ z[i].loc = "bottom" /\ z[i - 1].loc = "bottom"
  <2>1. CASE i = n + 1
    <3>1. CASE order = "fenced"
      BY <2>1, <3>1, <1>1, <1>2
    <3>2. CASE order = "relaxed"
      <4>1. n \in 1 .. n /\ i - 1 = n /\ n # 0
        BY <2>1, <1>2
      <4>2. buf # <<>>
        BY <4>1 DEF n
      <4>3. buf[n].loc = "bottom"
        BY <3>2, <4>2 DEF Fifo, n
      <4> QED
        BY <2>1, <4>1, <4>3, <1>1, <1>2
    <3> QED
      BY <3>1, <3>2
  <2>2. CASE i # n + 1
    <3>1. i \in 2 .. n /\ i \in 1 .. n /\ i - 1 \in 1 .. n
      BY <2>2, <1>2
    <3> QED
      BY <3>1, <1>2 DEF Fifo, n
  <2> QED
    BY <2>1, <2>2
<1> QED
  BY <1>1, <1>2, <1>3 DEF Fifo, z, s

\* Stores in order of release may follow anything.
LEMMA FifoRelease ==
    ASSUME NEW a \in Seq(Stores), NEW old, Fifo(a, old), NEW z \in Seq(Stores), Len(a) <= Len(z),
           \A k \in 1 .. Len(a) : z[k] = a[k],
           \A k \in Len(a) + 1 .. Len(z) : z[k].order \in {"release", "fenced"},
           NEW label, label \notin {"take_top", "take_cas"},
           label \in {"idle", "resize"} => z[Len(z)].loc = "bottom"
    PROVE  Fifo(z, label)
<1>1. Len(a) \in Nat /\ Len(z) \in Nat
  OBVIOUS
<1>2. ASSUME NEW i \in 2 .. Len(z)
      PROVE  \/ z[i].order \in {"release", "fenced"}
             \/ z[i].loc = "bottom" /\ z[i - 1].loc = "bottom"
  <2>1. CASE i <= Len(a)
    <3>1. i \in 2 .. Len(a) /\ i \in 1 .. Len(a) /\ i - 1 \in 1 .. Len(a)
      BY <1>1, <2>1
    <3> QED
      BY <3>1 DEF Fifo
  <2>2. CASE ~(i <= Len(a))
    <3>1. i \in Len(a) + 1 .. Len(z)
      BY <1>1, <2>2
    <3> QED
      BY <3>1
  <2> QED
    BY <2>1, <2>2
<1> QED
  BY <1>2 DEF Fifo

\* The oldest store is the one that drains.
LEMMA OldestDrains ==
    ASSUME buffer \in Seq(Stores), NEW label, Fifo(buffer, label), NEW i \in DOMAIN buffer, MayDrain(i)
    PROVE  /\ i = 1 /\ RemoveAt(buffer, i) = Tail(buffer)
           /\ Fifo(Tail(buffer), label)
<1>1. i \in 1 .. Len(buffer) /\ Len(buffer) \in Nat
  OBVIOUS
<1>2. i = 1
  <2> SUFFICES ASSUME i # 1 PROVE FALSE
    OBVIOUS
  <2>1. i \in 2 .. Len(buffer) /\ i \in 2 .. i /\ i - 1 \in 1 .. i - 1
    BY <1>1
  <2>2. buffer[i].order # "release" /\ buffer[i].order # "fenced"
    BY <2>1 DEF MayDrain
  <2>3. buffer[i].loc = "bottom" /\ buffer[i - 1].loc = "bottom"
    BY <2>1, <2>2 DEF Fifo
  <2>4. ~SameLocation(buffer[i - 1], buffer[i])
    BY <2>1 DEF MayDrain
  <2> QED
    BY <2>3, <2>4 DEF SameLocation
<1>3. /\ Tail(buffer) \in Seq(Stores) /\ Len(Tail(buffer)) = Len(buffer) - 1
      /\ \A k \in 1 .. Len(buffer) - 1 : Tail(buffer)[k] = buffer[k + 1]
  BY <1>1
<1>4. RemoveAt(buffer, 1) = Tail(buffer)
  BY <1>1 DEF RemoveAt
<1> DEFINE z == Tail(buffer)
           n == Len(buffer) - 1
<1> HIDE DEF z
<1>5. Fifo(z, label)
  <2>1. n \in Nat /\ Len(buffer) = n + 1 /\ Len(z) = n /\ z \in Seq(Stores) /\ \A k \in 1 .. n : z[k] = buffer[k + 1]
    BY <1>1, <1>3 DEF z
  <2> HIDE DEF n
  <2>2. ASSUME NEW k \in 2 .. n
        PROVE  \/ z[k].order \in {"release", "fenced"}
               \/ z[k].loc = "bottom" /\ z[k - 1].loc = "bottom"
    <3>1. /\ k + 1 \in 2 .. n + 1 /\ k \in 1 .. n /\ k - 1 \in 1 .. n
          /\ (k + 1) - 1 = k /\ (k - 1) + 1 = k
      BY <2>1
    <3>2. \/ buffer[k + 1].order \in {"release", "fenced"}
          \/ buffer[k + 1].loc = "bottom" /\ buffer[(k + 1) - 1].loc = "bottom"
      BY <2>1, <3>1 DEF Fifo
    <3>3. z[k] = buffer[k + 1] /\ z[k - 1] = buffer[k]
      BY <2>1, <3>1
    <3> QED
      BY <3>1, <3>2, <3>3
  <2>3. label \in {"idle", "resize"} => z = <<>> \/ z[Len(z)].loc = "bottom"
    <3>1. CASE n = 0
      BY <3>1, <2>1
    <3>2. CASE n # 0
      <4>1. n \in 1 .. n
        BY <3>2, <2>1
      <4>2. buffer # <<>>
        BY <2>1, <3>2
      <4> QED
        BY <2>1, <4>1, <4>2 DEF Fifo
    <3> QED
      BY <3>1, <3>2
  <2>4. label \notin {"take_top", "take_cas"}
    BY <1>1 DEF Fifo
  <2> QED
    BY <2>1, <2>2, <2>3, <2>4 DEF Fifo
<1> QED
  BY <1>2, <1>4, <1>5 DEF z

----------------------------------------------------------------------------
(* What a step does to the queue                                           *)

Kept ==
    /\ top' = top /\ End' = End
    /\ \A i \in top .. End - 1 : Item(own', i) = Item(own, i)
Quiet == Kept /\ UNCHANGED <<result, claims, inserted>>
Missed(p) ==
    /\ Kept /\ UNCHANGED <<claims, inserted>>
    /\ result' = [result EXCEPT ![p] = Empty]
Got(p, v) ==
    /\ v \in Value /\ UNCHANGED inserted
    /\ result' = [result EXCEPT ![p] = v]
    /\ claims' = [claims EXCEPT ![v] = @ + 1]
FirstTaken(p) ==
    /\ top < End /\ top' = top + 1 /\ End' = End
    /\ \A i \in top .. End - 1 : Item(own', i) = Item(own, i)
    /\ Got(p, Item(own, top))
LastTaken ==
    /\ top < End /\ top' = top /\ End' = End - 1
    /\ \A i \in top .. End - 1 : Item(own', i) = Item(own, i)
    /\ Got(Owner, Item(own, End - 1))
Extended ==
    /\ top' = top /\ End' = End + 1
    /\ \A i \in top .. End - 1 : Item(own', i) = Item(own, i)
    /\ inserted' = inserted + 1 /\ Item(own', End) = inserted'
    /\ inserted' \in Value /\ UNCHANGED <<result, claims>>

\* The owner changes its own place and its own locals.
LEMMA OwnerMoves ==
    ASSUME TypeInv, NEW label \in OwnerLabel, NEW l \in Locals
    PROVE  /\ [pc EXCEPT ![Owner] = label] \in [Process -> OwnerLabel \cup ThiefLabel]
           /\ [pc EXCEPT ![Owner] = label][Owner] = label
           /\ [local EXCEPT ![Owner] = l] \in [Process -> Locals]
           /\ [local EXCEPT ![Owner] = l][Owner] = l
           /\ \A p \in Thief : /\ [pc EXCEPT ![Owner] = label][p] = pc[p]
                               /\ [pc EXCEPT ![Owner] = label][p] \in ThiefLabel
                               /\ [local EXCEPT ![Owner] = l][p] = local[p]
<1>1. Owner \in Process /\ \A p \in Thief : p \in Process /\ p # Owner
  BY OwnerAssumption DEF Process
<1> QED
  BY <1>1 DEF TypeInv

\* So does a thief.
LEMMA ThiefMoves ==
    ASSUME TypeInv, NEW p \in Thief, NEW label \in ThiefLabel, NEW l \in Locals
    PROVE  /\ [pc EXCEPT ![p] = label] \in [Process -> OwnerLabel \cup ThiefLabel]
           /\ [pc EXCEPT ![p] = label][Owner] = pc[Owner]
           /\ [local EXCEPT ![p] = l] \in [Process -> Locals]
           /\ [local EXCEPT ![p] = l][Owner] = local[Owner]
           /\ [pc EXCEPT ![p] = label][p] = label /\ [local EXCEPT ![p] = l][p] = l
           /\ \A r \in Thief : [pc EXCEPT ![p] = label][r] \in ThiefLabel
           /\ \A r \in Thief \ {p} : /\ [pc EXCEPT ![p] = label][r] = pc[r]
                                     /\ [local EXCEPT ![p] = l][r] = local[r]
<1>1. p \in Process /\ Owner \in Process /\ p # Owner /\ \A r \in Thief : r \in Process
  BY OwnerAssumption DEF Process
<1> QED
  BY <1>1 DEF TypeInv

\* What Return does, by what it returns.
LEMMA Returned ==
    ASSUME TypeInv, NEW p \in Process, NEW r \in Value \cup {Empty}, Return(p, r)
    PROVE  /\ pc' = [pc EXCEPT ![p] = "idle"] /\ local' = [local EXCEPT ![p] = NoLocal]
           /\ NoLocal \in Locals
           /\ result' = [result EXCEPT ![p] = r] /\ result' \in [Process -> Value \cup {Empty}]
           /\ r = Empty => claims' = claims
           /\ r \in Value => claims' = [claims EXCEPT ![r] = @ + 1]
           /\ claims' \in [Value -> Nat]
<1>1. NoLocal \in Locals
  BY DEF NoLocal, Locals, Word
<1>2. r = Empty => r \notin Value
  BY ValueAssumption
<1>3. claims' \in [Value -> Nat]
  BY DEF Return, TypeInv
<1> QED
  BY <1>1, <1>2, <1>3 DEF Return, Goto, TypeInv

\* An oldest store drains.
LEMMA DrainStep ==
    ASSUME IInv, Drain
    PROVE  IInv' /\ Quiet
<1>1. PICK i \in DOMAIN buffer : MayDrain(i) /\ mem' = Apply(mem, buffer[i]) /\ buffer' = RemoveAt(buffer, i)
  BY DEF Drain
<1>2. UNCHANGED <<top, own, pc, local, result, inserted, claims>>
  BY DEF Drain
<1>3. buffer \in Seq(Stores) /\ Fifo(buffer, pc[Owner]) /\ top \in Nat /\ End \in Int
  BY Settled DEF IInv
<1>4. i = 1 /\ buffer' = Tail(buffer) /\ Fifo(Tail(buffer), pc[Owner]) /\ mem' = Apply(mem, buffer[1])
  BY <1>1, <1>3, OldestDrains
<1>5. buffer # <<>>
  BY <1>1
<1>6. PICK st : Staged(st, mem, own, buffer, top, End, pc, local)
  BY DEF IInv
<1>7. Staged(Tail(st), Apply(mem, buffer[1]), own, Tail(buffer), top, End, pc, local)
  <2>1. /\ Replays(Tail(st), Apply(mem, buffer[1]), own, Tail(buffer))
        /\ Sound(Tail(st), own, top, End)
        /\ \A label, l : Thieving(st, own, top, End, label, l) => Thieving(Tail(st), own, top, End, label, l)
    BY <1>3, <1>5, <1>6, Drained DEF Staged
  <2> QED
    BY <2>1, <1>6 DEF Staged
<1>8. End' = End /\ OwnInv' /\ TypeInv'
  BY <1>2 DEF IInv, OwnInv, TypeInv, End, Undecided, Item, Cap
<1>9. Staged(Tail(st), mem', own', buffer', top', End', pc', local')
  BY <1>2, <1>4, <1>7, <1>8
<1> QED
  BY <1>2, <1>4, <1>8, <1>9 DEF IInv, Quiet, Kept

----------------------------------------------------------------------------
(* Take                                                                    *)

\* bottom_ goes down before top_ is looked at: the queue keeps its end.
LEMMA TakeBottomStep ==
    ASSUME IInv, TakeBottom
    PROVE  IInv' /\ Quiet
<1> DEFINE b == own.bottom - 1
           s == BottomStore(b, "relaxed")
           l == [local[Owner] EXCEPT !.b = b, !.a = own.data]
<1>1. /\ pc[Owner] = "idle" /\ own' = Apply(own, s) /\ buffer' = Append(buffer, s)
      /\ pc' = [pc EXCEPT ![Owner] = "take_fence"]
      /\ UNCHANGED <<top, mem, result, inserted, claims>>
  BY DEF TakeBottom, Store, Goto
<1>2. local' = [local EXCEPT ![Owner] = l]
  <2>1. Owner \in Process /\ local \in [Process -> Locals]
    BY DEF IInv, TypeInv, Process
  <2>2. local' = [local EXCEPT ![Owner].b = b, ![Owner].a = own.data]
    BY DEF TakeBottom
  <2> QED
    BY <2>1, <2>2
<1>3. /\ own.bottom \in Int /\ own.data \in Nat /\ End = own.bottom /\ top \in Nat /\ End \in Nat
      /\ buffer \in Seq(Stores) /\ Fifo(buffer, "idle") /\ TypeInv /\ OwnInv /\ top <= End
  BY <1>1, Settled DEF IInv, End, Undecided, OwnInv
<1>4. b \in -1 .. End /\ b \in Int /\ b + 1 = End
  BY <1>3
<1>5. l \in Locals /\ l.b = b /\ l.a = own.data
  <2>1. local[Owner] \in Locals
    BY <1>3 DEF TypeInv, Process
  <2> HIDE DEF b
  <2> QED
    BY <2>1, <1>3, <1>4 DEF Locals
<1> HIDE DEF b, l
<1>6. /\ pc'[Owner] = "take_fence" /\ local'[Owner].b = b /\ local'[Owner].a = own.data
      /\ \A p \in Thief : pc'[p] = pc[p] /\ local'[p] = local[p]
      /\ TypeInv'
  <2>1. "take_fence" \in OwnerLabel
    BY DEF OwnerLabel
  <2>2. /\ pc' \in [Process -> OwnerLabel \cup ThiefLabel] /\ pc'[Owner] = "take_fence"
        /\ local' \in [Process -> Locals] /\ local'[Owner] = l
        /\ \A p \in Thief : pc'[p] = pc[p] /\ local'[p] = local[p] /\ pc'[p] \in ThiefLabel
    BY <2>1, <1>1, <1>2, <1>3, <1>5, OwnerMoves
  <2> QED
    BY <2>1, <2>2, <1>1, <1>3, <1>5 DEF TypeInv
<1>7. PICK st : Staged(st, mem, own, buffer, top, End, pc, local)
  BY DEF IInv
<1>8. /\ own' \in Memory /\ own'.bottom = b /\ own'.data = own.data /\ own'.slots = own.slots
      /\ Replays(Append(st, own'), mem, own', buffer')
      /\ Sound(Append(st, own'), own', top, End)
      /\ \A label, x : Thieving(st, own, top, End, label, x) => Thieving(Append(st, own'), own', top, End, label, x)
  <2>1. Replays(st, mem, own, buffer) /\ Sound(st, own, top, End) /\ End \in Int
    BY <1>3, <1>7 DEF Staged
  <2> DEFINE z == Apply(own, s)
  <2>2. /\ z \in Memory /\ z.bottom = b /\ z.data = own.data /\ z.slots = own.slots
        /\ Replays(Append(st, z), mem, z, Append(buffer, s))
        /\ Sound(Append(st, z), z, top, End)
        /\ \A label, x : Thieving(st, own, top, End, label, x) => Thieving(Append(st, z), z, top, End, label, x)
    BY <2>1, <1>3, <1>4, BottomStored
  <2> HIDE DEF z, s
  <2>3. own' = z /\ buffer' = Append(buffer, s) /\ mem' = mem
    BY <1>1 DEF z
  <2> QED
    BY <2>2, <2>3
<1>9. End' = End /\ Undecided'
  BY <1>4, <1>6, <1>8 DEF End, Undecided
<1>10. Staged(Append(st, own'), mem', own', buffer', top', End', pc', local')
  BY <1>1, <1>6, <1>7, <1>8, <1>9 DEF Staged
<1>11. Fifo(buffer', pc'[Owner])
  BY <1>1, <1>3, <1>4, <1>6, FifoAppend
<1>12. Kept
  BY <1>1, <1>8, <1>9 DEF Kept, Item
<1>13. OwnInv'
  BY <1>1, <1>3, <1>6, <1>8, <1>9 DEF OwnInv, Item, Cap
<1> QED
  BY <1>1, <1>6, <1>10, <1>11, <1>12, <1>13 DEF IInv, Quiet

\* The fence waits for the buffer to be empty.
LEMMA TakeFenceStep ==
    ASSUME IInv, TakeFence
    PROVE  IInv' /\ Quiet
<1>1. /\ pc[Owner] = "take_fence" /\ buffer = <<>>
      /\ pc' = [pc EXCEPT ![Owner] = "take_top"]
      /\ UNCHANGED <<top, mem, own, buffer, local, result, inserted, claims>>
  BY DEF TakeFence, Goto
<1>2. TypeInv /\ OwnInv /\ Fifo(buffer, "take_fence")
  BY <1>1 DEF IInv
<1>3. local' = [local EXCEPT ![Owner] = local[Owner]] /\ local[Owner] \in Locals
  BY <1>1, <1>2 DEF TypeInv, Process
<1>4. /\ pc'[Owner] = "take_top" /\ \A p \in Thief : pc'[p] = pc[p]
      /\ TypeInv'
  <2>1. "take_top" \in OwnerLabel
    BY DEF OwnerLabel
  <2>2. /\ pc' \in [Process -> OwnerLabel \cup ThiefLabel] /\ pc'[Owner] = "take_top"
        /\ \A p \in Thief : pc'[p] = pc[p] /\ pc'[p] \in ThiefLabel
    <3> DEFINE x == local[Owner]
    <3>1. x \in Locals
      BY <1>3
    <3> QED
      BY <2>1, <3>1, <1>1, <1>2, OwnerMoves
  <2> QED
    BY <2>1, <2>2, <1>1, <1>2 DEF TypeInv
<1>5. End' = End /\ Undecided /\ Undecided'
  BY <1>1, <1>4 DEF End, Undecided
<1>6. PICK st : Staged(st, mem, own, buffer, top, End, pc, local)
  BY DEF IInv
<1>7. Staged(st, mem', own', buffer', top', End', pc', local')
  BY <1>1, <1>4, <1>5, <1>6, SameThieves
<1>8. Fifo(buffer', pc'[Owner])
  BY <1>1, <1>2, <1>4 DEF Fifo
<1>9. OwnInv'
  BY <1>1, <1>2, <1>4, <1>5 DEF OwnInv, Item, Cap
<1> QED
  BY <1>1, <1>4, <1>5, <1>7, <1>8, <1>9 DEF IInv, Quiet, Kept

\* What the owner returning leaves of the types.
LEMMA OwnerReturns ==
    ASSUME TypeInv, NEW r \in Value \cup {Empty}, Return(Owner, r), top' \in Nat, inserted' = inserted
    PROVE  /\ TypeInv' /\ pc'[Owner] = "idle"
           /\ \A p \in Thief : pc'[p] = pc[p] /\ local'[p] = local[p]
           /\ result' = [result EXCEPT ![Owner] = r]
           /\ r = Empty => claims' = claims
           /\ r \in Value => claims' = [claims EXCEPT ![r] = @ + 1]
<1>1. /\ pc' = [pc EXCEPT ![Owner] = "idle"] /\ local' = [local EXCEPT ![Owner] = NoLocal]
      /\ NoLocal \in Locals
      /\ result' = [result EXCEPT ![Owner] = r] /\ result' \in [Process -> Value \cup {Empty}]
      /\ r = Empty => claims' = claims
      /\ r \in Value => claims' = [claims EXCEPT ![r] = @ + 1]
      /\ claims' \in [Value -> Nat]
  <2>1. Owner \in Process
    BY DEF Process
  <2> QED
    BY <2>1, Returned
<1>2. "idle" \in OwnerLabel
  BY DEF OwnerLabel
<1>3. /\ pc' \in [Process -> OwnerLabel \cup ThiefLabel] /\ pc'[Owner] = "idle"
      /\ local' \in [Process -> Locals]
      /\ \A p \in Thief : pc'[p] = pc[p] /\ local'[p] = local[p] /\ pc'[p] \in ThiefLabel
  BY <1>1, <1>2, OwnerMoves
<1> QED
  BY <1>1, <1>2, <1>3 DEF TypeInv

\* The queue seen as empty: bottom_ goes back, and the buffer was empty.
LEMMA TakenNothing ==
    ASSUME IInv, Undecided, top' = top, inserted' = inserted, mem' = mem,
           pc[Owner] \in {"take_top", "take_cas"},
           Store(BottomStore(own.bottom + 1, "relaxed")), Return(Owner, Empty)
    PROVE  IInv' /\ Missed(Owner)
<1> DEFINE b == own.bottom + 1
           s == BottomStore(b, "relaxed")
<1>1. own' = Apply(own, s) /\ buffer' = Append(buffer, s)
  BY DEF Store
<1>2. /\ own.bottom \in Int /\ own.data \in Nat /\ End = own.bottom + 1 /\ top \in Nat /\ End \in Nat
      /\ buffer \in Seq(Stores) /\ Fifo(buffer, pc[Owner]) /\ buffer = <<>> /\ TypeInv /\ OwnInv
  BY Settled DEF IInv, End, Fifo
<1>3. b \in -1 .. End /\ b \in Int /\ b = End
  BY <1>2
<1>4. /\ TypeInv' /\ pc'[Owner] = "idle"
      /\ \A p \in Thief : pc'[p] = pc[p] /\ local'[p] = local[p]
      /\ result' = [result EXCEPT ![Owner] = Empty] /\ claims' = claims
  BY <1>2, OwnerReturns
<1>5. PICK st : Staged(st, mem, own, buffer, top, End, pc, local)
  BY DEF IInv
<1> HIDE DEF b
<1>6. /\ own' \in Memory /\ own'.bottom = b /\ own'.data = own.data /\ own'.slots = own.slots
      /\ Replays(Append(st, own'), mem, own', buffer')
      /\ Sound(Append(st, own'), own', top, End)
      /\ \A label, x : Thieving(st, own, top, End, label, x) => Thieving(Append(st, own'), own', top, End, label, x)
  <2>1. Replays(st, mem, own, buffer) /\ Sound(st, own, top, End) /\ End \in Int
    BY <1>2, <1>5 DEF Staged
  <2> DEFINE z == Apply(own, s)
  <2>2. /\ z \in Memory /\ z.bottom = b /\ z.data = own.data /\ z.slots = own.slots
        /\ Replays(Append(st, z), mem, z, Append(buffer, s))
        /\ Sound(Append(st, z), z, top, End)
        /\ \A label, x : Thieving(st, own, top, End, label, x) => Thieving(Append(st, z), z, top, End, label, x)
    <3>1. top \in Nat
      BY <1>2
    <3> QED
      BY <2>1, <3>1, <1>3, BottomStored
  <2> HIDE DEF z, s
  <2>3. own' = z /\ buffer' = Append(buffer, s) /\ mem' = mem
    BY <1>1 DEF z
  <2> QED
    BY <2>2, <2>3
<1>7. End' = End /\ ~Undecided'
  BY <1>3, <1>4, <1>6 DEF End, Undecided
<1>8. Staged(Append(st, own'), mem', own', buffer', top', End', pc', local')
  BY <1>4, <1>5, <1>6, <1>7 DEF Staged
<1>9. Fifo(buffer', pc'[Owner])
  BY <1>1, <1>2, <1>3, <1>4, FifoAppend
<1>10. Kept
  BY <1>6, <1>7 DEF Kept, Item
<1>11. OwnInv'
  BY <1>2, <1>4, <1>6, <1>7 DEF OwnInv, Item, Cap
<1> QED
  BY <1>4, <1>8, <1>9, <1>10, <1>11 DEF IInv, Missed

\* The owner has looked at top_.
LEMMA TakeTopStep ==
    ASSUME IInv, TakeTop
    PROVE  IInv' /\ (LastTaken \/ Quiet \/ (top = End /\ Missed(Owner)))
<1> DEFINE b == own.bottom
<1>1. /\ pc[Owner] = "take_top" /\ UNCHANGED <<top, mem, inserted>>
      /\ Undecided /\ TypeInv /\ OwnInv
  BY DEF TakeTop, Undecided, IInv
<1>2. /\ own.bottom \in Int /\ End = own.bottom + 1 /\ top \in Nat /\ End \in Nat /\ top <= End
      /\ buffer \in Seq(Stores) /\ Fifo(buffer, "take_top") /\ buffer = <<>>
      /\ local[Owner].b = own.bottom /\ local[Owner].a = own.data
      /\ inserted \in Nat /\ own.data \in DOMAIN own.slots /\ own.slots \in Seq(Buffers)
      /\ Cap(own, own.data) \in Nat
  BY <1>1, Settled DEF IInv, End, Fifo, OwnInv
<1>3. Read(own.slots, local[Owner].a, local[Owner].b) = Item(own, b)
  BY <1>2 DEF Item
<1>4. PICK st : Staged(st, mem, own, buffer, top, End, pc, local)
  BY DEF IInv
<1>5. ASSUME top < b, Return(Owner, Item(own, b)), UNCHANGED <<own, buffer>>
      PROVE  IInv' /\ LastTaken
  <2>1. top < End /\ b = End - 1 /\ b \in top .. End - 1 /\ top < End - 1 /\ End - 1 \in Int
    BY <1>2, <1>5
  <2>2. Item(own, b) \in Value
    BY <2>1, <1>1 DEF OwnInv
  <2>3. /\ TypeInv' /\ pc'[Owner] = "idle"
        /\ \A p \in Thief : pc'[p] = pc[p] /\ local'[p] = local[p]
        /\ result' = [result EXCEPT ![Owner] = Item(own, b)]
        /\ claims' = [claims EXCEPT ![Item(own, b)] = @ + 1]
    BY <2>2, <1>1, <1>2, <1>5, OwnerReturns
  <2>4. End' = End - 1 /\ ~Undecided'
    BY <2>1, <2>3, <1>5 DEF End, Undecided
  <2>5. Staged(st, mem', own', buffer', top', End', pc', local')
    <3>1. Replays(st, mem, own, <<>>) /\ Sound(st, own, top, End)
      BY <1>2, <1>4 DEF Staged
    <3>2. /\ Sound(st, own, top, End - 1)
          /\ \A label, l : Thieving(st, own, top, End, label, l) => Thieving(st, own, top, End - 1, label, l)
      BY <3>1, <2>1, <1>2, EndTaken
    <3> DEFINE e == End - 1
    <3>3. Sound(st, own, top, e) /\ \A p \in Thief : Thieving(st, own, top, e, pc[p], local[p])
      BY <3>2, <1>4 DEF Staged
    <3> HIDE DEF e
    <3>4. \A p \in Thief : Thieving(st, own, top, e, pc'[p], local'[p])
      BY <3>3, <2>3
    <3>5. Staged(st, mem, own, buffer, top, e, pc', local')
      BY <3>1, <3>3, <3>4, <1>2 DEF Staged
    <3>6. End' = e
      BY <2>4 DEF e
    <3> QED
      BY <3>5, <3>6, <1>1, <1>5
  <2>6. Fifo(buffer', pc'[Owner])
    BY <2>3, <1>2, <1>5 DEF Fifo
  <2>7. \A i \in top .. End - 1 : Item(own', i) = Item(own, i)
    BY <1>5
  <2>8. LastTaken
    BY <2>1, <2>2, <2>3, <2>4, <2>7, <1>1 DEF LastTaken, Got
  <2>9. OwnInv'
    <3>1. \A i \in top .. (End - 1) - 1 : Item(own, i) \in Value
      BY <1>1, <1>2 DEF OwnInv
    <3>2. End - 1 <= inserted /\ (End - 1) - top <= Cap(own, own.data) /\ top <= End - 1
      BY <2>1, <1>1, <1>2 DEF OwnInv
    <3> QED
      BY <3>1, <3>2, <2>3, <2>4, <1>1, <1>5 DEF OwnInv, Item, Cap
  <2> QED
    BY <2>3, <2>5, <2>6, <2>8, <2>9 DEF IInv
<1>6. ASSUME top = b, local' = [local EXCEPT ![Owner].t = top, ![Owner].val = Item(own, b)],
             Goto(Owner, "take_cas"), UNCHANGED <<own, buffer, result, claims>>
      PROVE  IInv' /\ Quiet
  <2> DEFINE l == [local[Owner] EXCEPT !.t = top, !.val = Item(own, b)]
  <2>1. local[Owner] \in Locals /\ Owner \in Process /\ local \in [Process -> Locals]
    BY <1>1 DEF TypeInv, Process
  <2>2. Item(own, b) \in Word
    BY <1>2, ReadType DEF Item
  <2>3. l \in Locals /\ l.t = top /\ l.val = Item(own, b) /\ l.b = own.bottom /\ l.a = own.data
    BY <2>1, <2>2, <1>2 DEF Locals
  <2>4. local' = [local EXCEPT ![Owner] = l]
    BY <2>1, <1>6
  <2> HIDE DEF l
  <2>5. /\ pc'[Owner] = "take_cas" /\ local'[Owner] = l
        /\ \A p \in Thief : pc'[p] = pc[p] /\ local'[p] = local[p]
        /\ TypeInv'
    <3>1. "take_cas" \in OwnerLabel /\ pc' = [pc EXCEPT ![Owner] = "take_cas"]
      BY <1>6 DEF OwnerLabel, Goto
    <3>2. /\ pc' \in [Process -> OwnerLabel \cup ThiefLabel] /\ pc'[Owner] = "take_cas"
          /\ local' \in [Process -> Locals] /\ local'[Owner] = l
          /\ \A p \in Thief : pc'[p] = pc[p] /\ local'[p] = local[p] /\ pc'[p] \in ThiefLabel
      BY <3>1, <2>3, <2>4, <1>1, OwnerMoves
    <3> QED
      BY <3>1, <3>2, <1>1, <1>6 DEF TypeInv
  <2>6. End' = End /\ Undecided'
    BY <2>5, <1>1, <1>6 DEF End, Undecided
  <2>7. Staged(st, mem', own', buffer', top', End', pc', local')
    <3>1. \A p \in Thief : pc'[p] = pc[p] /\ local'[p] = local[p]
      BY <2>5
    <3>2. Staged(st, mem, own, buffer, top, End, pc', local')
      BY <3>1, <1>4, SameThieves
    <3> QED
      BY <3>2, <2>6, <1>1, <1>6
  <2>8. Fifo(buffer', pc'[Owner])
    BY <2>5, <1>2, <1>6 DEF Fifo
  <2>9. OwnInv'
    BY <2>3, <2>5, <2>6, <1>1, <1>2, <1>6 DEF OwnInv, Item, Cap
  <2> QED
    BY <2>5, <2>6, <2>7, <2>8, <2>9, <1>1, <1>6 DEF IInv, Quiet, Kept
<1>7. ASSUME top > b, Store(BottomStore(b + 1, "relaxed")), Return(Owner, Empty)
      PROVE  IInv' /\ top = End /\ Missed(Owner)
  <2>1. top = End
    BY <1>2, <1>7
  <2> QED
    BY <2>1, <1>1, <1>7, TakenNothing
<1> HIDE DEF b
<1>8. \/ top < b /\ Return(Owner, Item(own, b)) /\ UNCHANGED <<own, buffer>>
      \/ top = b /\ local' = [local EXCEPT ![Owner].t = top, ![Owner].val = Item(own, b)]
         /\ Goto(Owner, "take_cas") /\ UNCHANGED <<own, buffer, result, claims>>
      \/ top > b /\ Store(BottomStore(b + 1, "relaxed")) /\ Return(Owner, Empty)
  BY <1>2, <1>3 DEF TakeTop, b
<1> QED
  BY <1>5, <1>6, <1>7, <1>8

\* The last element: one of the two compare-and-swaps succeeds.
LEMMA TakeLastStep ==
    ASSUME IInv, TakeLast
    PROVE  IInv' /\ ((top = End - 1 /\ FirstTaken(Owner)) \/ (top = End /\ Missed(Owner)))
<1>1. /\ pc[Owner] = "take_cas" /\ UNCHANGED <<mem, inserted>> /\ Undecided /\ TypeInv /\ OwnInv
      /\ Store(BottomStore(local[Owner].b + 1, "relaxed"))
  BY DEF TakeLast, Undecided, IInv
<1>2. /\ own.bottom \in Int /\ End = own.bottom + 1 /\ top \in Nat /\ End \in Nat /\ top <= End
      /\ buffer \in Seq(Stores) /\ Fifo(buffer, "take_cas") /\ buffer = <<>>
      /\ local[Owner].b = own.bottom /\ local[Owner].t = own.bottom /\ own.bottom <= top
      /\ local[Owner].val = Item(own, own.bottom)
      /\ inserted \in Nat /\ Cap(own, own.data) \in Nat
  BY <1>1, Settled DEF IInv, End, Fifo, OwnInv
<1>3. ASSUME top # local[Owner].t, Return(Owner, Empty), top' = top
      PROVE  IInv' /\ top = End /\ Missed(Owner)
  <2>1. top = End
    BY <1>2, <1>3
  <2> QED
    BY <2>1, <1>1, <1>2, <1>3, TakenNothing
<1>4. ASSUME top = local[Owner].t, Return(Owner, local[Owner].val), top' = top + 1
      PROVE  IInv' /\ top = End - 1 /\ FirstTaken(Owner)
  <2> DEFINE b == own.bottom + 1
             s == BottomStore(b, "relaxed")
  <2>1. /\ b = End /\ top = End - 1 /\ top < End /\ b \in -1 .. End /\ b \in Int
        /\ top \in top .. End - 1 /\ top' = End /\ top' \in Nat
    BY <1>2, <1>4
  <2>2. Item(own, top) \in Value /\ local[Owner].val = Item(own, top)
    BY <2>1, <1>1, <1>2, <1>4 DEF OwnInv
  <2>3. own' = Apply(own, s) /\ buffer' = Append(buffer, s)
    BY <1>1, <1>2 DEF Store
  <2>4. /\ TypeInv' /\ pc'[Owner] = "idle"
        /\ \A p \in Thief : pc'[p] = pc[p] /\ local'[p] = local[p]
        /\ result' = [result EXCEPT ![Owner] = Item(own, top)]
        /\ claims' = [claims EXCEPT ![Item(own, top)] = @ + 1]
    BY <2>1, <2>2, <1>1, <1>4, OwnerReturns
  <2>5. PICK st : Staged(st, mem, own, buffer, top, End, pc, local)
    BY DEF IInv
  <2> HIDE DEF b
  <2>6. /\ Replays(st, mem, own, buffer) /\ Sound(st, own, top + 1, End)
        /\ \A p \in Thief : Thieving(st, own, top + 1, End, pc[p], local[p])
    <3>1. Replays(st, mem, own, buffer) /\ Sound(st, own, top, End) /\ End \in Int
      BY <2>5, <1>2 DEF Staged
    <3>2. /\ Sound(st, own, top + 1, End)
          /\ \A label, l : Thieving(st, own, top, End, label, l) => Thieving(st, own, top + 1, End, label, l)
      BY <3>1, <1>2, TopMoved
    <3> QED
      BY <3>1, <3>2, <2>5 DEF Staged
  <2>7. /\ own' \in Memory /\ own'.bottom = b /\ own'.data = own.data /\ own'.slots = own.slots
        /\ Replays(Append(st, own'), mem, own', buffer')
        /\ Sound(Append(st, own'), own', top', End)
        /\ \A label, x : Thieving(st, own, top', End, label, x) => Thieving(Append(st, own'), own', top', End, label, x)
    <3> DEFINE z == Apply(own, s)
               t == top + 1
    <3>1. t \in Nat /\ End \in Int /\ Sound(st, own, t, End)
      BY <2>6, <1>2
    <3>0. b \in -1 .. End /\ Replays(st, mem, own, buffer)
      BY <2>1, <2>6
    <3> HIDE DEF t
    <3>2. /\ z \in Memory /\ z.bottom = b /\ z.data = own.data /\ z.slots = own.slots
          /\ Replays(Append(st, z), mem, z, Append(buffer, s))
          /\ Sound(Append(st, z), z, t, End)
          /\ \A label, x : Thieving(st, own, t, End, label, x) => Thieving(Append(st, z), z, t, End, label, x)
      BY <3>0, <3>1, BottomStored
    <3> HIDE DEF z, s
    <3>3. own' = z /\ buffer' = Append(buffer, s) /\ top' = t
      BY <2>3, <1>4 DEF z, t
    <3> QED
      BY <3>2, <3>3
  <2>8. End' = End /\ ~Undecided'
    BY <2>1, <2>4, <2>7 DEF End, Undecided
  <2>9. Staged(Append(st, own'), mem', own', buffer', top', End', pc', local')
    <3>1. \A p \in Thief : Thieving(Append(st, own'), own', top', End, pc'[p], local'[p])
      BY <2>4, <2>6, <2>7, <1>4
    <3> QED
      BY <3>1, <2>7, <2>8, <1>1 DEF Staged
  <2>10. Fifo(buffer', pc'[Owner])
    BY <2>1, <2>3, <2>4, <1>2, FifoAppend
  <2>11. \A i \in Int : Item(own', i) = Item(own, i)
    BY <2>7 DEF Item
  <2>12. FirstTaken(Owner)
    <3>1. \A i \in top .. End - 1 : i \in Int
      BY <1>2
    <3> QED
      BY <3>1, <2>1, <2>2, <2>4, <2>8, <2>11, <1>1, <1>4 DEF FirstTaken, Got
  <2>13. OwnInv'
    <3>1. \A i \in End .. End - 1 : FALSE
      BY <1>2
    <3>2. End <= inserted /\ inserted <= MaxInserts /\ End - End <= Cap(own, own.data) /\ End <= End
      BY <1>1, <1>2 DEF OwnInv
    <3>3. Cap(own', own'.data) = Cap(own, own.data) /\ own'.data = Len(own'.slots)
      BY <2>7, <1>1 DEF Cap, OwnInv
    <3> QED
      BY <3>1, <3>2, <3>3, <2>1, <2>4, <2>8, <1>1 DEF OwnInv
  <2> QED
    BY <2>1, <2>4, <2>9, <2>10, <2>12, <2>13 DEF IInv
<1> QED
  BY <1>3, <1>4 DEF TakeLast

----------------------------------------------------------------------------
(* Insert                                                                  *)

\* The owner has seen whether there is room.
LEMMA InsertTopStep ==
    ASSUME IInv, InsertTop
    PROVE  IInv' /\ Quiet
<1> DEFINE full == own.bottom - top > LengthOf(own.slots, own.data) - 1
           label == IF full THEN "resize" ELSE "insert_store"
           l == [local[Owner] EXCEPT !.b = own.bottom]
<1>1. /\ pc[Owner] = "idle" /\ inserted < MaxInserts
      /\ pc' = [pc EXCEPT ![Owner] = label]
      /\ UNCHANGED <<top, mem, own, buffer, result, inserted, claims>>
  BY DEF InsertTop, Goto
<1>2. /\ own.bottom \in Int /\ End = own.bottom /\ top \in Nat /\ Cap(own, own.data) \in Nat
      /\ Fifo(buffer, "idle") /\ TypeInv /\ OwnInv
  BY <1>1, Settled DEF IInv, End, Undecided
<1>3. local[Owner] \in Locals /\ Owner \in Process /\ local \in [Process -> Locals]
  BY <1>2 DEF TypeInv, Process
<1>4. local' = [local EXCEPT ![Owner] = l]
  BY <1>3 DEF InsertTop
<1>5. l \in Locals /\ l.b = own.bottom
  BY <1>2, <1>3 DEF Locals
<1>6. /\ label \in {"resize", "insert_store"} /\ label \in OwnerLabel
      /\ label = "insert_store" => End - top < Cap(own, own.data)
  BY <1>2 DEF OwnerLabel, Cap
<1> HIDE DEF l, label
<1>7. /\ pc'[Owner] = label /\ local'[Owner].b = own.bottom
      /\ \A p \in Thief : pc'[p] = pc[p] /\ local'[p] = local[p]
      /\ TypeInv'
  <2>1. /\ pc' \in [Process -> OwnerLabel \cup ThiefLabel] /\ pc'[Owner] = label
        /\ local' \in [Process -> Locals] /\ local'[Owner] = l
        /\ \A p \in Thief : pc'[p] = pc[p] /\ local'[p] = local[p] /\ pc'[p] \in ThiefLabel
    BY <1>1, <1>2, <1>4, <1>5, <1>6, OwnerMoves
  <2> QED
    BY <2>1, <1>1, <1>2, <1>5, <1>6 DEF TypeInv
<1>8. End' = End /\ ~Undecided' /\ pc'[Owner] # "take_cas"
  BY <1>1, <1>2, <1>6, <1>7 DEF End, Undecided
<1>9. PICK st : Staged(st, mem, own, buffer, top, End, pc, local)
  BY DEF IInv
<1>10. Staged(st, mem', own', buffer', top', End', pc', local')
  <2>1. Staged(st, mem, own, buffer, top, End, pc', local')
    BY <1>7, <1>9, SameThieves
  <2> QED
    BY <2>1, <1>1, <1>8
<1>11. Fifo(buffer', pc'[Owner])
  BY <1>1, <1>2, <1>6, <1>7 DEF Fifo
<1>12. OwnInv'
  BY <1>1, <1>2, <1>6, <1>7, <1>8 DEF OwnInv, Item, Cap
<1> QED
  BY <1>1, <1>7, <1>8, <1>10, <1>11, <1>12 DEF IInv, Quiet, Kept

\* Resize keeps every element, for the owner and for the thieves.
LEMMA ResizeStep ==
    ASSUME IInv, Resize
    PROVE  IInv' /\ Quiet
<1> DEFINE fresh == Fresh(own)
           len == Doubled(own)
           z == Regrown(own, top, End)
           m2 == Remade(mem, own)
           buf2 == Requeued(buffer, own, top, End)
<1>1. /\ pc[Owner] = "resize" /\ pc' = [pc EXCEPT ![Owner] = "insert_store"]
      /\ UNCHANGED <<top, local, result, inserted, claims>>
  BY DEF Resize, Goto
<1>2. /\ own.bottom \in Int /\ End = own.bottom /\ top \in Nat /\ top <= End /\ End \in Int
      /\ Cap(own, own.data) \in Nat \ {0} /\ own \in Memory /\ own.slots \in Seq(Buffers)
      /\ End - top <= Cap(own, own.data)
      /\ Fifo(buffer, "resize") /\ buffer \in Seq(Stores) /\ TypeInv /\ OwnInv
  BY <1>1, Settled DEF IInv, End, Undecided, OwnInv
<1>3. own' = z /\ mem' = m2 /\ buffer' = buf2
  <2> DEFINE filled == Filled(own, top, End, len)
  <2>1. mem' = m2
    BY DEF Resize, Remade, Doubled, Grown, Cap
  <2>2. own' = [own EXCEPT !.slots = Append(@, filled), !.data = fresh]
    BY <1>2 DEF Resize, Filled, Cap, Fresh, Doubled
  <2>3. own' = z
    BY <2>2, <1>2 DEF Published, Grown, Memory, Regrown
  <2>4. buffer' = buf2
    BY <1>2 DEF Resize, Copies, Cap, Requeued, Fresh, Doubled
  <2> QED
    BY <2>1, <2>3, <2>4
<1>4. PICK st : Staged(st, mem, own, buffer, top, End, pc, local)
  BY DEF IInv
<1>5. Replays(st, mem, own, buffer) /\ Sound(st, own, top, End)
      /\ \A p \in Thief : Thieving(st, own, top, End, pc[p], local[p])
  BY <1>4 DEF Staged
<1>6. /\ z \in Memory /\ z.bottom = End /\ z.data = fresh /\ Len(z.slots) = fresh
      /\ DOMAIN z.slots = DOMAIN own.slots \cup {fresh}
      /\ Cap(z, fresh) = len
      /\ \A i \in top .. End - 1 : Item(z, i) = Item(own, i)
      /\ buf2 \in Seq(Stores) /\ Len(buffer) <= Len(buf2)
      /\ \A k \in 1 .. Len(buffer) : buf2[k] = buffer[k]
      /\ \A k \in Len(buffer) + 1 .. Len(buf2) : buf2[k].order = "release"
      /\ \E y : /\ Replays(y, m2, z, buf2)
                /\ Sound(y, z, top, End)
                /\ \A label, l : Thieving(st, own, top, End, label, l) => Thieving(y, z, top, End, label, l)
  <2>1. z = Regrown(own, top, End) /\ m2 = Remade(mem, own) /\ buf2 = Requeued(buffer, own, top, End)
    OBVIOUS
  <2> HIDE DEF z, m2, buf2
  <2>2. top \in Nat /\ End \in Int /\ top <= End /\ own.bottom = End /\ End - top <= Cap(own, own.data)
    BY <1>2
  <2>3. Replays(st, mem, own, buffer) /\ Sound(st, own, top, End)
    BY <1>5
  <2> QED
    BY <2>1, <2>2, <2>3, Resized
<1> HIDE DEF fresh, len, z, m2, buf2
<1>7. /\ pc'[Owner] = "insert_store" /\ \A p \in Thief : pc'[p] = pc[p] /\ local'[p] = local[p]
      /\ TypeInv'
  <2>1. "insert_store" \in OwnerLabel /\ local[Owner] \in Locals
    BY <1>2 DEF OwnerLabel, TypeInv, Process
  <2>2. /\ pc' \in [Process -> OwnerLabel \cup ThiefLabel] /\ pc'[Owner] = "insert_store"
        /\ \A p \in Thief : pc'[p] = pc[p] /\ pc'[p] \in ThiefLabel
    BY <2>1, <1>1, <1>2, OwnerMoves
  <2> QED
    BY <2>1, <2>2, <1>1, <1>2 DEF TypeInv
<1>8. End' = End /\ ~Undecided'
  BY <1>2, <1>3, <1>6, <1>7 DEF End, Undecided
<1>9. PICK y : /\ Replays(y, m2, z, buf2)
               /\ Sound(y, z, top, End)
               /\ \A label, l : Thieving(st, own, top, End, label, l) => Thieving(y, z, top, End, label, l)
  BY <1>6
<1>10. Staged(y, mem', own', buffer', top', End', pc', local')
  <2>1. \A p \in Thief : Thieving(y, z, top, End, pc'[p], local'[p])
    BY <1>5, <1>7, <1>9
  <2> QED
    BY <2>1, <1>1, <1>3, <1>8, <1>9 DEF Staged
<1>11. Fifo(buffer', pc'[Owner])
  <2>1. \A k \in Len(buffer) + 1 .. Len(buf2) : buf2[k].order \in {"release", "fenced"}
    BY <1>6
  <2>2. Fifo(buf2, "insert_store")
    <3>1. /\ buffer \in Seq(Stores) /\ Fifo(buffer, "resize") /\ buf2 \in Seq(Stores)
          /\ Len(buffer) <= Len(buf2) /\ \A k \in 1 .. Len(buffer) : buf2[k] = buffer[k]
      BY <1>2, <1>6
    <3>2. "insert_store" \notin {"take_top", "take_cas"} /\ "insert_store" \notin {"idle", "resize"}
      OBVIOUS
    <3> QED
      BY <2>1, <3>1, <3>2, FifoRelease
  <2> QED
    BY <2>2, <1>3, <1>7
<1>12. OwnInv'
  <2>1. Cap(own', own'.data) = len /\ own'.data = Len(own'.slots) /\ own'.bottom = End
    BY <1>3, <1>6
  <2>2. End - top <= len /\ End - top < len
    <3> DEFINE c == Cap(own, own.data)
    <3>1. c \in Nat \ {0} /\ End - top <= c /\ End - top \in Int /\ len = 2 * c
      BY <1>2 DEF len, Doubled
    <3> HIDE DEF c
    <3> DEFINE x == End - top
    <3> HIDE DEF x
    <3>2. x <= len /\ x < len
      BY <3>1 DEF x
    <3> QED
      BY <3>2 DEF x
  <2>3. inserted < MaxInserts /\ local[Owner].b = own.bottom
    BY <1>1, <1>2 DEF OwnInv
  <2>4. \A i \in top .. End - 1 : Item(own', i) \in Value
    BY <1>2, <1>3, <1>6 DEF OwnInv
  <2>5. top <= End /\ End <= inserted /\ inserted <= MaxInserts
    BY <1>2 DEF OwnInv
  <2> QED
    BY <2>1, <2>2, <2>3, <2>4, <2>5, <1>1, <1>2, <1>7, <1>8 DEF OwnInv
<1> QED
  BY <1>1, <1>3, <1>6, <1>7, <1>8, <1>10, <1>11, <1>12 DEF IInv, Quiet, Kept

\* Insert adds its value at the end, in a slot nobody may read.
LEMMA InsertStoresStep ==
    ASSUME IInv, InsertStores
    PROVE  IInv' /\ Extended
<1> DEFINE b == own.bottom
           j == b % Cap(own, own.data)
           v == inserted + 1
           slot == SlotStore(own.data, j, v)
           o1 == Apply(own, slot)
           bottom == BottomStore(b + 1, "fenced")
           o2 == Apply(o1, bottom)
<1>1. /\ pc[Owner] = "insert_store" /\ pc' = [pc EXCEPT ![Owner] = "idle"]
      /\ local' = [local EXCEPT ![Owner] = NoLocal] /\ inserted' = v
      /\ UNCHANGED <<top, mem, result, claims>>
  BY DEF InsertStores, Goto
<1>2. /\ b \in Int /\ End = b /\ top \in Nat /\ top <= End /\ End \in Nat
      /\ Cap(own, own.data) \in Nat \ {0} /\ own \in Memory /\ own.slots \in Seq(Buffers)
      /\ End - top < Cap(own, own.data) /\ local[Owner].b = own.bottom
      /\ inserted \in Nat /\ inserted < MaxInserts /\ End <= inserted
      /\ Fifo(buffer, "insert_store") /\ buffer \in Seq(Stores) /\ TypeInv /\ OwnInv
  BY <1>1, Settled DEF IInv, End, Undecided, OwnInv
<1>3. own' = o2 /\ buffer' = buffer \o <<slot, bottom>>
  BY <1>2 DEF InsertStores, Cap
<1>4. v \in Value /\ v \in Word
  BY <1>2, ValueAssumption DEF Value, Word
<1>5. PICK st : Staged(st, mem, own, buffer, top, End, pc, local)
  BY DEF IInv
<1>6. Replays(st, mem, own, buffer) /\ Sound(st, own, top, End)
      /\ \A p \in Thief : Thieving(st, own, top, End, pc[p], local[p])
  BY <1>5 DEF Staged
<1>7. \A i \in top .. End - 1 : i % Cap(own, own.data) # b % Cap(own, own.data)
  <2> DEFINE c == Cap(own, own.data)
  <2>1. c \in Nat \ {0} /\ End - top < c
    BY <1>2
  <2> HIDE DEF c
  <2>2. ASSUME NEW i \in top .. End - 1 PROVE i % c # b % c
    <3>1. i \in Int /\ i < b /\ b - i < c
      BY <2>1, <1>2
    <3> QED
      BY <2>1, <3>1, <1>2, ModDistinct
  <2> QED
    BY <2>2 DEF c
\* The slot.
<1>8. /\ o1 \in Memory /\ o1.bottom = own.bottom /\ o1.data = own.data
      /\ DOMAIN o1.slots = DOMAIN own.slots /\ Len(o1.slots) = Len(own.slots)
      /\ \A a \in DOMAIN own.slots : Cap(o1, a) = Cap(own, a)
      /\ Item(o1, b) = v /\ \A i \in top .. End - 1 : Item(o1, i) = Item(own, i)
      /\ Replays(Append(st, o1), mem, o1, Append(buffer, slot))
      /\ Sound(Append(st, o1), o1, top, End)
      /\ \A label, l : Thieving(st, own, top, End, label, l)
                           => Thieving(Append(st, o1), o1, top, End, label, l)
  <2> DEFINE k == b % Cap(own, own.data)
  <2>1. slot = SlotStore(own.data, k, v) /\ o1 = Apply(own, slot) /\ b \in Int /\ v \in Word
        /\ \A i \in top .. End - 1 : i % Cap(own, own.data) # k
    BY <1>2, <1>4, <1>7
  <2>2. Replays(st, mem, own, buffer) /\ Sound(st, own, top, End) /\ top \in Nat /\ End \in Int
    BY <1>2, <1>6
  <2> HIDE DEF slot, o1, v, j, b
  <2>3. /\ o1 \in Memory /\ o1.bottom = own.bottom /\ o1.data = own.data
        /\ DOMAIN o1.slots = DOMAIN own.slots /\ Len(o1.slots) = Len(own.slots)
        /\ \A a \in DOMAIN own.slots : Cap(o1, a) = Cap(own, a)
        /\ Item(o1, b) = v /\ \A i \in top .. End - 1 : Item(o1, i) = Item(own, i)
        /\ Replays(Append(st, o1), mem, o1, Append(buffer, slot))
        /\ Sound(Append(st, o1), o1, top, End)
        /\ \A label, l : Thieving(st, own, top, End, label, l)
                             => Thieving(Append(st, o1), o1, top, End, label, l)
    BY <2>1, <2>2, SlotStored
  <2> QED
    BY <2>3
<1> HIDE DEF v, slot, o1, j
\* The end of the queue, then bottom_.
<1> DEFINE s1 == Append(st, o1)
           e == End + 1
           b1 == Append(buffer, slot)
<1>9. /\ Sound(s1, o1, top, e)
      /\ \A label, l : Thieving(s1, o1, top, End, label, l) => Thieving(s1, o1, top, e, label, l)
  <2>1. Sound(s1, o1, top, End)
    BY <1>8
  <2> HIDE DEF s1
  <2> QED
    BY <2>1, <1>2, EndMoved
<1>10. /\ Replays(s1, mem, o1, b1) /\ e \in Nat /\ b + 1 \in -1 .. e /\ b + 1 = e
  BY <1>2, <1>8
<1> HIDE DEF s1, e, b1
<1>11. /\ o2.bottom = b + 1 /\ o2.data = o1.data /\ o2.slots = o1.slots
       /\ Replays(Append(s1, o2), mem, o2, Append(b1, bottom))
       /\ Sound(Append(s1, o2), o2, top, e)
       /\ \A label, l : Thieving(s1, o1, top, e, label, l) => Thieving(Append(s1, o2), o2, top, e, label, l)
  <2>1. top \in Nat /\ e \in Int
    BY <1>2, <1>10
  <2> QED
    BY <2>1, <1>9, <1>10, BottomStored
<1> HIDE DEF o2, bottom
<1>12. slot \in Stores /\ bottom \in Stores /\ slot.order = "release" /\ bottom.order = "fenced" /\ bottom.loc = "bottom"
  <2>1. j \in Nat /\ own.data \in Nat
    <3> DEFINE c == Cap(own, own.data)
    <3>1. c \in Nat \ {0} /\ b \in Int /\ own.data \in Nat
      BY <1>2 DEF Memory
    <3> HIDE DEF c, b
    <3>2. b % c \in 0 .. c - 1
      BY <3>1, ModRange
    <3>3. b % c \in Nat
      BY <3>1, <3>2
    <3> QED
      BY <3>1, <3>3 DEF j, c
  <2> QED
    BY <2>1, <1>2, <1>4 DEF SlotStore, BottomStore, Stores, slot, bottom
<1>13. /\ buffer' = Append(b1, bottom) /\ buffer' \in Seq(Stores) /\ Len(buffer') = Len(buffer) + 2
       /\ \A k \in 1 .. Len(buffer) : buffer'[k] = buffer[k]
       /\ buffer'[Len(buffer) + 1] = slot /\ buffer'[Len(buffer) + 2] = bottom
  BY <1>2, <1>3, <1>12 DEF b1
<1>14. /\ pc'[Owner] = "idle" /\ \A p \in Thief : pc'[p] = pc[p] /\ local'[p] = local[p]
       /\ TypeInv'
  <2>1. "idle" \in OwnerLabel /\ NoLocal \in Locals
    BY DEF OwnerLabel, NoLocal, Locals, Word
  <2>2. /\ pc' \in [Process -> OwnerLabel \cup ThiefLabel] /\ pc'[Owner] = "idle"
        /\ local' \in [Process -> Locals]
        /\ \A p \in Thief : pc'[p] = pc[p] /\ local'[p] = local[p] /\ pc'[p] \in ThiefLabel
    BY <2>1, <1>1, <1>2, OwnerMoves
  <2>3. v \in Nat
    BY <1>2 DEF v
  <2> QED
    BY <2>1, <2>2, <2>3, <1>1, <1>2 DEF TypeInv
<1>15. End' = e /\ e = End + 1 /\ ~Undecided' /\ pc'[Owner] # "take_cas"
  BY <1>3, <1>10, <1>11, <1>14 DEF End, Undecided, e
<1>16. Staged(Append(s1, o2), mem', own', buffer', top', End', pc', local')
  <2>1. \A p \in Thief : Thieving(Append(s1, o2), o2, top, e, pc'[p], local'[p])
    BY <1>6, <1>8, <1>9, <1>11, <1>14 DEF s1
  <2> QED
    BY <2>1, <1>1, <1>3, <1>11, <1>13, <1>15 DEF Staged
<1>17. Fifo(buffer', pc'[Owner])
  <2> DEFINE n == Len(buffer)
             z == buffer'
  <2>1. n \in Nat /\ Len(z) = n + 2
    BY <1>2, <1>13
  <2> HIDE DEF n
  <2>2. \A k \in n + 1 .. n + 2 : k = n + 1 \/ k = n + 2
    BY <2>1
  <2> HIDE DEF z
  <2>3. \A k \in n + 1 .. Len(z) : z[k].order \in {"release", "fenced"}
    BY <2>1, <2>2, <1>12, <1>13 DEF n, z
  <2>4. z[Len(z)].loc = "bottom" /\ n <= Len(z) /\ z \in Seq(Stores) /\ \A k \in 1 .. n : z[k] = buffer[k]
    BY <2>1, <1>12, <1>13 DEF n, z
  <2>5. Fifo(z, "idle")
    <3>1. buffer \in Seq(Stores) /\ Fifo(buffer, "insert_store")
      BY <1>2
    <3>2. "idle" \notin {"take_top", "take_cas"}
      OBVIOUS
    <3> QED
      BY <2>3, <2>4, <3>1, <3>2, FifoRelease DEF n
  <2> QED
    BY <2>5, <1>14 DEF z
<1>18. /\ \A i \in top .. End - 1 : Item(own', i) = Item(own, i)
       /\ Item(own', End) = v
  BY <1>2, <1>3, <1>8, <1>11 DEF Item
<1>19. Extended
  BY <1>1, <1>4, <1>15, <1>18 DEF Extended, v
<1>20. OwnInv'
  <2>1. Cap(own', own'.data) = Cap(own, own.data) /\ own'.data = Len(own'.slots)
    <3>1. own.data \in DOMAIN own.slots
      BY Settled
    <3> QED
      BY <3>1, <1>2, <1>3, <1>8, <1>11 DEF Cap, OwnInv
  <2>2. e - top <= Cap(own, own.data) /\ top <= e
    <3> DEFINE c == Cap(own, own.data)
    <3>1. c \in Nat /\ End - top < c
      BY <1>2
    <3> HIDE DEF c
    <3>2. e - top <= c /\ top <= e
      BY <3>1, <1>2 DEF e
    <3> QED
      BY <3>2 DEF c
  <2>3. e <= v /\ v <= MaxInserts
    BY <1>2, ValueAssumption DEF e, v
  <2>4. ASSUME NEW i \in top .. e - 1 PROVE Item(own', i) \in Value
    <3>1. i = End \/ i \in top .. End - 1
      BY <1>2 DEF e
    <3> QED
      BY <3>1, <1>2, <1>4, <1>18 DEF OwnInv
  <2> QED
    BY <2>1, <2>2, <2>3, <2>4, <1>1, <1>14, <1>15 DEF OwnInv
<1> QED
  BY <1>14, <1>16, <1>17, <1>19, <1>20 DEF IInv

----------------------------------------------------------------------------
(* Steal                                                                   *)

\* What a thief's step has to show, when only its own place changes.
LEMMA ThiefKeeps ==
    ASSUME IInv, NEW p \in Thief, NEW label \in ThiefLabel, NEW l \in Locals,
           pc' = [pc EXCEPT ![p] = label], local' = [local EXCEPT ![p] = l],
           UNCHANGED <<top, mem, own, buffer, inserted, claims>>,
           result' \in [Process -> Value \cup {Empty}],
           \A st : Staged(st, mem, own, buffer, top, End, pc, local)
                       => Thieving(st, own, top, End, label, l)
    PROVE  IInv' /\ Kept
<1>1. TypeInv /\ OwnInv /\ Fifo(buffer, pc[Owner])
  BY DEF IInv
<1>2. /\ pc' \in [Process -> OwnerLabel \cup ThiefLabel] /\ pc'[Owner] = pc[Owner]
      /\ local' \in [Process -> Locals] /\ local'[Owner] = local[Owner]
      /\ pc'[p] = label /\ local'[p] = l
      /\ \A r \in Thief : pc'[r] \in ThiefLabel
      /\ \A r \in Thief \ {p} : pc'[r] = pc[r] /\ local'[r] = local[r]
  BY <1>1, ThiefMoves
<1>3. TypeInv'
  BY <1>1, <1>2 DEF TypeInv
<1>4. End' = End /\ Undecided' = Undecided
  BY <1>2 DEF End, Undecided
<1>5. PICK st : Staged(st, mem, own, buffer, top, End, pc, local)
  BY DEF IInv
<1>6. \A r \in Thief : Thieving(st, own, top, End, pc'[r], local'[r])
  <2> TAKE r \in Thief
  <2>1. CASE r = p
    BY <2>1, <1>2, <1>5
  <2>2. CASE r # p
    BY <2>2, <1>2, <1>5 DEF Staged
  <2> QED
    BY <2>1, <2>2
<1>7. Staged(st, mem', own', buffer', top', End', pc', local')
  BY <1>4, <1>5, <1>6 DEF Staged
<1>8. OwnInv'
  BY <1>1, <1>2, <1>4 DEF OwnInv, Item, Cap
<1>9. Fifo(buffer', pc'[Owner])
  BY <1>1, <1>2
<1> QED
  BY <1>3, <1>4, <1>7, <1>8, <1>9 DEF IInv, Kept

\* A thief that gives up, or has not begun.
LEMMA Resting ==
    ASSUME IInv, NEW st, NEW label, ~Stealing(label)
    PROVE  Thieving(st, own, top, End, label, NoLocal) /\ NoLocal \in Locals
<1>1. own.data \in DOMAIN own.slots /\ own.slots \in Seq(Buffers) /\ top \in Nat
  BY Settled
<1>2. 1 \in DOMAIN own.slots /\ 0 \in 0 .. top
  BY <1>1
<1>3. NoLocal \in Locals
  BY DEF NoLocal, Locals, Word
<1> QED
  BY <1>2, <1>3 DEF Thieving, NoLocal

\* A thief returns with nothing.
LEMMA StealMisses ==
    ASSUME IInv, NEW p \in Thief, Return(p, Empty),
           UNCHANGED <<top, mem, own, buffer, inserted>>
    PROVE  IInv' /\ Missed(p)
<1>1. p \in Process /\ TypeInv /\ "idle" \in ThiefLabel /\ ~Stealing("idle")
  BY DEF Process, IInv, ThiefLabel, Stealing
<1>2. /\ pc' = [pc EXCEPT ![p] = "idle"] /\ local' = [local EXCEPT ![p] = NoLocal]
      /\ result' = [result EXCEPT ![p] = Empty] /\ result' \in [Process -> Value \cup {Empty}]
      /\ claims' = claims
  BY <1>1, Returned
<1>3. NoLocal \in Locals /\ \A st : Thieving(st, own, top, End, "idle", NoLocal)
  BY <1>1, Resting
<1>4. IInv' /\ Kept
  BY <1>1, <1>2, <1>3, ThiefKeeps
<1> QED
  BY <1>2, <1>4 DEF Missed

\* A thief begins.
LEMMA StealTopStep ==
    ASSUME IInv, NEW p \in Thief, StealTop(p)
    PROVE  IInv' /\ Quiet
<1> DEFINE l == [local[p] EXCEPT !.t = top]
<1>1. /\ pc' = [pc EXCEPT ![p] = "steal_bottom"]
      /\ UNCHANGED <<top, mem, own, buffer, result, inserted, claims>>
  BY DEF StealTop, Goto
<1>2. TypeInv /\ top \in Nat /\ local[p] \in Locals /\ p \in Process /\ local \in [Process -> Locals]
  BY DEF IInv, TypeInv, Process
<1>3. l \in Locals /\ l.t = top /\ l.a = local[p].a
  BY <1>2 DEF Locals
<1>4. local' = [local EXCEPT ![p] = l]
  BY <1>2 DEF StealTop
<1> HIDE DEF l
<1>5. ASSUME NEW st, Staged(st, mem, own, buffer, top, End, pc, local)
      PROVE  Thieving(st, own, top, End, "steal_bottom", l)
  <2>1. ~Stealing("steal_bottom") /\ l.t \in 0 .. top
    BY <1>2, <1>3 DEF Stealing
  <2>2. l.a \in DOMAIN own.slots
    BY <1>3, <1>5 DEF Staged, Thieving
  <2> QED
    BY <2>1, <2>2 DEF Thieving
<1>6. "steal_bottom" \in ThiefLabel /\ result' \in [Process -> Value \cup {Empty}]
  BY <1>1, <1>2 DEF ThiefLabel, TypeInv
<1>7. IInv' /\ Kept
  BY <1>1, <1>3, <1>4, <1>5, <1>6, ThiefKeeps
<1> QED
  BY <1>1, <1>7 DEF Quiet

\* What lies below the bottom_ a thief reads is readable from then on.
LEMMA StealBottomStep ==
    ASSUME IInv, NEW p \in Thief, StealBottom(p)
    PROVE  IInv' /\ (Quiet \/ Missed(p))
<1>1. UNCHANGED <<top, mem, own, buffer, inserted>> /\ TypeInv
  BY DEF StealBottom, IInv
<1>2. ASSUME local[p].t < mem.bottom, Goto(p, "steal_data"), UNCHANGED <<local, result, claims>>
      PROVE  IInv' /\ Quiet
  <2> DEFINE l == local[p]
  <2>1. l \in Locals /\ local' = [local EXCEPT ![p] = l]
    BY <1>1, <1>2 DEF TypeInv, Process
  <2>2. /\ "steal_data" \in ThiefLabel /\ pc' = [pc EXCEPT ![p] = "steal_data"]
        /\ result' \in [Process -> Value \cup {Empty}]
    BY <1>1, <1>2 DEF ThiefLabel, Goto, TypeInv
  <2>3. ASSUME NEW st, Staged(st, mem, own, buffer, top, End, pc, local)
        PROVE  Thieving(st, own, top, End, "steal_data", l)
    <3>1. l.a \in DOMAIN own.slots /\ l.t \in 0 .. top
      BY <2>3 DEF Staged, Thieving
    <3>2. ASSUME l.t = top
          PROVE  /\ top < End
                 /\ \A k, m \in DOMAIN st : k <= m => Read(st[m].slots, st[k].data, top) = Item(own, top)
      <4>1. /\ mem.bottom \in -1 .. End /\ End \in Nat /\ top \in Nat
            /\ 1 \in DOMAIN st /\ st[1] = mem /\ st \in Seq(Memory)
        <5>1. 1 \in DOMAIN st /\ st[1] = mem /\ st \in Seq(Memory)
          BY <2>3, Staging DEF Staged, Replays
        <5> QED
          BY <5>1, Settled
      <4>2. top < End /\ top \in top .. mem.bottom - 1
        BY <4>1, <3>2, <1>2
      <4>3. \A k \in DOMAIN st : 1 <= k
        BY <4>1
      <4>4. Readable(st, own, top)
        BY <2>3 DEF Staged, Sound
      <4>5. \A k, m \in DOMAIN st : k <= m => Read(st[m].slots, st[k].data, top) = Item(own, top)
        BY <4>1, <4>2, <4>3, <4>4 DEF Readable
      <4> QED
        BY <4>2, <4>5
    <3>3. "steal_data" # "steal_slot" /\ "steal_data" # "steal_cas"
      OBVIOUS
    <3> QED
      BY <3>1, <3>2, <3>3 DEF Thieving
  <2> HIDE DEF l
  <2>4. IInv' /\ Kept
    BY <2>1, <2>2, <2>3, <1>1, <1>2, ThiefKeeps
  <2> QED
    BY <2>4, <1>1, <1>2 DEF Quiet
<1>3. ASSUME Return(p, Empty)
      PROVE  IInv' /\ Missed(p)
  BY <1>1, <1>3, StealMisses
<1> QED
  BY <1>2, <1>3 DEF StealBottom

\* Whichever buffer the thief is shown, the oldest element is in it.
LEMMA StealDataStep ==
    ASSUME IInv, NEW p \in Thief, StealData(p)
    PROVE  IInv' /\ Quiet
<1> DEFINE l == [local[p] EXCEPT !.a = mem.data]
<1>1. /\ pc[p] = "steal_data" /\ pc' = [pc EXCEPT ![p] = "steal_slot"]
      /\ UNCHANGED <<top, mem, own, buffer, result, inserted, claims>>
  BY DEF StealData, Goto
<1>2. /\ TypeInv /\ local[p] \in Locals /\ p \in Process /\ local \in [Process -> Locals]
      /\ mem.data \in DOMAIN own.slots /\ mem.data \in Nat
  BY Settled DEF IInv, TypeInv, Process, Memory
<1>3. l \in Locals /\ l.t = local[p].t /\ l.a = mem.data
  BY <1>2 DEF Locals
<1>4. local' = [local EXCEPT ![p] = l]
  BY <1>2 DEF StealData
<1> HIDE DEF l
<1>5. ASSUME NEW st, Staged(st, mem, own, buffer, top, End, pc, local)
      PROVE  Thieving(st, own, top, End, "steal_slot", l)
  <2>1. Thieving(st, own, top, End, "steal_data", local[p])
    BY <1>1, <1>5 DEF Staged
  <2>2. 1 \in DOMAIN st /\ st[1] = mem /\ st \in Seq(Memory)
    BY <1>5, Staging DEF Staged, Replays
  <2>3. \A k \in DOMAIN st : 1 <= k
    BY <2>2
  <2>4. ASSUME l.t = top
        PROVE  top < End /\ \A m \in DOMAIN st : Read(st[m].slots, l.a, top) = Item(own, top)
    BY <2>1, <2>2, <2>3, <2>4, <1>3 DEF Thieving, Stealing
  <2>5. l.a \in DOMAIN own.slots /\ l.t \in 0 .. top
    BY <2>1, <1>2, <1>3 DEF Thieving
  <2>6. "steal_slot" # "steal_data" /\ "steal_slot" # "steal_cas"
    OBVIOUS
  <2> QED
    BY <2>4, <2>5, <2>6 DEF Thieving
<1>6. "steal_slot" \in ThiefLabel /\ result' \in [Process -> Value \cup {Empty}]
  BY <1>1, <1>2 DEF ThiefLabel, TypeInv
<1>7. IInv' /\ Kept
  BY <1>1, <1>3, <1>4, <1>5, <1>6, ThiefKeeps
<1> QED
  BY <1>1, <1>7 DEF Quiet

\* What it reads there is the oldest element if top_ has not moved.
LEMMA StealSlotStep ==
    ASSUME IInv, NEW p \in Thief, StealSlot(p)
    PROVE  IInv' /\ Quiet
<1> DEFINE v == Read(mem.slots, local[p].a, local[p].t)
           l == [local[p] EXCEPT !.val = v]
<1>1. /\ pc[p] = "steal_slot" /\ pc' = [pc EXCEPT ![p] = "steal_cas"]
      /\ UNCHANGED <<top, mem, own, buffer, result, inserted, claims>>
  BY DEF StealSlot, Goto
<1>2. /\ TypeInv /\ local[p] \in Locals /\ p \in Process /\ local \in [Process -> Locals]
      /\ DOMAIN mem.slots = DOMAIN own.slots /\ mem.slots \in Seq(Buffers)
  BY Settled DEF IInv, TypeInv, Process
<1>3. local[p].a \in DOMAIN mem.slots /\ local[p].t \in Int
  <2>1. local[p].a \in DOMAIN own.slots
    BY DEF IInv, Staged, Thieving
  <2>2. local[p].t \in Nat
    BY <1>2 DEF Locals
  <2> QED
    BY <2>1, <2>2, <1>2
<1>4. v \in Word
  BY <1>2, <1>3, ReadType
<1>5. local' = [local EXCEPT ![p] = l]
  BY <1>2 DEF StealSlot
<1> HIDE DEF v
<1>6. l \in Locals /\ l.t = local[p].t /\ l.a = local[p].a /\ l.val = v
  BY <1>2, <1>4 DEF Locals
<1> HIDE DEF l
<1>7. ASSUME NEW st, Staged(st, mem, own, buffer, top, End, pc, local)
      PROVE  Thieving(st, own, top, End, "steal_cas", l)
  <2>1. Thieving(st, own, top, End, "steal_slot", local[p])
    BY <1>1, <1>7 DEF Staged
  <2>2. 1 \in DOMAIN st /\ st[1] = mem
    BY <1>7, Staging DEF Staged, Replays
  <2>3. ASSUME l.t = top PROVE top < End /\ l.val = Item(own, top)
    BY <2>1, <2>2, <2>3, <1>6 DEF Thieving, Stealing, v
  <2>4. l.a \in DOMAIN own.slots /\ l.t \in 0 .. top
    BY <2>1, <1>6 DEF Thieving
  <2>5. "steal_cas" # "steal_data" /\ "steal_cas" # "steal_slot"
    OBVIOUS
  <2> QED
    BY <2>3, <2>4, <2>5 DEF Thieving
<1>8. "steal_cas" \in ThiefLabel /\ result' \in [Process -> Value \cup {Empty}]
  BY <1>1, <1>2 DEF ThiefLabel, TypeInv
<1>9. IInv' /\ Kept
  BY <1>1, <1>5, <1>6, <1>7, <1>8, ThiefKeeps
<1> QED
  BY <1>1, <1>9 DEF Quiet

\* Whose compare-and-swap succeeds has read the oldest element.
LEMMA StealCasStep ==
    ASSUME IInv, NEW p \in Thief, StealCas(p)
    PROVE  IInv' /\ (FirstTaken(p) \/ Missed(p))
<1>1. UNCHANGED <<mem, own, buffer, inserted>> /\ pc[p] = "steal_cas" /\ TypeInv /\ OwnInv
      /\ Fifo(buffer, pc[Owner])
  BY DEF StealCas, IInv
<1>2. ASSUME top' = top, Return(p, Empty)
      PROVE  IInv' /\ Missed(p)
  BY <1>1, <1>2, StealMisses
<1>3. ASSUME top = local[p].t, top' = top + 1, Return(p, local[p].val)
      PROVE  IInv' /\ FirstTaken(p)
  <2>1. PICK st : Staged(st, mem, own, buffer, top, End, pc, local)
    BY DEF IInv
  <2>2. top \in Nat /\ End \in Nat /\ Cap(own, own.data) \in Nat /\ own.bottom \in Int
    BY Settled
  <2>3. top < End /\ local[p].val = Item(own, top)
    <3>1. Thieving(st, own, top, End, "steal_cas", local[p])
      BY <2>1, <1>1 DEF Staged
    <3> QED
      BY <3>1, <1>3 DEF Thieving, Stealing
  <2>4. Item(own, top) \in Value
    BY <2>2, <2>3, <1>1 DEF OwnInv
  <2>5. /\ pc' = [pc EXCEPT ![p] = "idle"] /\ local' = [local EXCEPT ![p] = NoLocal]
        /\ NoLocal \in Locals
        /\ result' = [result EXCEPT ![p] = Item(own, top)]
        /\ result' \in [Process -> Value \cup {Empty}]
        /\ claims' = [claims EXCEPT ![Item(own, top)] = @ + 1]
        /\ claims' \in [Value -> Nat]
    <3>1. p \in Process
      BY DEF Process
    <3> QED
      BY <3>1, <2>3, <2>4, <1>1, <1>3, Returned
  <2>6. /\ pc' \in [Process -> OwnerLabel \cup ThiefLabel] /\ pc'[Owner] = pc[Owner]
        /\ local' \in [Process -> Locals] /\ local'[Owner] = local[Owner]
        /\ pc'[p] = "idle" /\ local'[p] = NoLocal
        /\ \A r \in Thief : pc'[r] \in ThiefLabel
        /\ \A r \in Thief \ {p} : pc'[r] = pc[r] /\ local'[r] = local[r]
    <3>1. "idle" \in ThiefLabel
      BY DEF ThiefLabel
    <3> QED
      BY <3>1, <2>5, <1>1, ThiefMoves
  <2>7. top' \in Nat
    BY <2>2, <1>3
  <2>8. TypeInv'
    BY <2>5, <2>6, <2>7, <1>1 DEF TypeInv
  <2>9. End' = End /\ Undecided' = Undecided
    BY <2>6, <1>1 DEF End, Undecided
  <2>10. /\ Replays(st, mem, own, buffer) /\ Sound(st, own, top + 1, End)
         /\ \A r \in Thief : Thieving(st, own, top + 1, End, pc[r], local[r])
    <3>1. Replays(st, mem, own, buffer) /\ Sound(st, own, top, End) /\ End \in Int
      BY <2>1, <2>2 DEF Staged
    <3>2. /\ Sound(st, own, top + 1, End)
          /\ \A label, l : Thieving(st, own, top, End, label, l) => Thieving(st, own, top + 1, End, label, l)
      BY <3>1, <2>2, TopMoved
    <3> QED
      BY <3>1, <3>2, <2>1 DEF Staged
  <2>11. \A r \in Thief : Thieving(st, own, top + 1, End, pc'[r], local'[r])
    <3> TAKE r \in Thief
    <3>1. CASE r = p
      <4>1. ~Stealing("idle")
        BY DEF Stealing
      <4>2. NoLocal.a \in DOMAIN own.slots
        BY <4>1, Resting DEF Thieving
      <4>3. NoLocal.t \in 0 .. top + 1
        BY <2>2 DEF NoLocal
      <4> QED
        BY <3>1, <4>1, <4>2, <4>3, <2>6 DEF Thieving
    <3>2. CASE r # p
      BY <3>2, <2>6, <2>10
    <3> QED
      BY <3>1, <3>2
  <2>12. Staged(st, mem', own', buffer', top', End', pc', local')
    BY <2>9, <2>10, <2>11, <1>1, <1>3 DEF Staged
  <2>13. OwnInv'
    <3>1. /\ top' <= End /\ End - top' <= Cap(own, own.data) /\ top <= top'
          /\ (\A i \in top' .. End - 1 : i \in top .. End - 1)
      <4> DEFINE c == Cap(own, own.data)
      <4>1. c \in Nat /\ End - top <= c
        BY <2>2, <1>1 DEF OwnInv
      <4> HIDE DEF c
      <4>2. top' <= End /\ End - top' <= c /\ top <= top' /\ (\A i \in top' .. End - 1 : i \in top .. End - 1)
        BY <4>1, <2>2, <2>3, <1>3
      <4> QED
        BY <4>2 DEF c
    <3>2. pc[Owner] = "insert_store" => End - top' < Cap(own, own.data)
      <4> SUFFICES ASSUME pc[Owner] = "insert_store" PROVE End - top' < Cap(own, own.data)
        OBVIOUS
      <4> DEFINE c == Cap(own, own.data)
      <4>1. c \in Nat /\ End - top < c
        BY <2>2, <1>1 DEF OwnInv
      <4> HIDE DEF c
      <4>2. End - top' < c
        BY <4>1, <2>2, <1>3
      <4> QED
        BY <4>2 DEF c
    <3>3. pc[Owner] = "take_cas" => local[Owner].t <= top'
      <4>1. pc[Owner] = "take_cas" => local[Owner].t = own.bottom /\ local[Owner].t <= top
        BY <1>1 DEF OwnInv
      <4> QED
        BY <4>1, <2>2, <1>3
    <3> QED
      BY <3>1, <3>2, <3>3, <2>6, <2>9, <1>1 DEF OwnInv, Item, Cap
  <2>14. FirstTaken(p)
    BY <2>3, <2>4, <2>5, <2>9, <1>1, <1>3 DEF FirstTaken, Got
  <2>15. Fifo(buffer', pc'[Owner])
    BY <2>6, <1>1
  <2> QED
    BY <2>8, <2>12, <2>13, <2>14, <2>15 DEF IInv
<1> QED
  BY <1>2, <1>3 DEF StealCas

----------------------------------------------------------------------------
(* The invariant holds, and what follows from it                           *)

\* The empty queue.
LEMMA InvInit == Init => IInv
<1> SUFFICES ASSUME Init PROVE IInv
  OBVIOUS
<1> DEFINE f == NewBuffer(kInitCap)
           s == <<f>>
           st == <<mem>>
<1>1. /\ top = 0 /\ mem = [bottom |-> 0, data |-> 1, slots |-> s] /\ own = mem
      /\ buffer = <<>> /\ pc = [p \in Process |-> "idle"] /\ local = [p \in Process |-> NoLocal]
      /\ result = [p \in Process |-> Empty] /\ inserted = 0 /\ claims = [v \in Value |-> 0]
  BY DEF Init
<1>2. f \in [0 .. kInitCap - 1 -> Word] /\ f \in Buffers
  <2>1. f \in [0 .. kInitCap - 1 -> Word]
    BY DEF NewBuffer, Word
  <2> QED
    BY <2>1, CapacityAssumption DEF Buffers
<1> HIDE DEF f
<1>3. s \in Seq(Buffers) /\ Len(s) = 1 /\ DOMAIN s = {1}
  BY <1>2
<1> HIDE DEF s
<1>4. mem \in Memory /\ mem.bottom = 0 /\ mem.data = 1 /\ mem.slots = s
  BY <1>1, <1>3 DEF Memory
<1>5. NoLocal \in Locals /\ NoLocal.a = 1 /\ NoLocal.t = 0
  BY DEF NoLocal, Locals, Word
<1>6. Owner \in Process /\ (\A p \in Thief : p \in Process) /\ pc[Owner] = "idle"
  BY <1>1 DEF Process
<1>7. TypeInv
  BY <1>1, <1>5, <1>6 DEF TypeInv, OwnerLabel, ThiefLabel
<1>8. Fifo(buffer, pc[Owner])
  BY <1>1, <1>6 DEF Fifo
<1>9. End = 0 /\ ~Undecided
  BY <1>1, <1>4, <1>6 DEF End, Undecided
<1>10. Cap(own, own.data) \in Nat \ {0}
  BY <1>1, <1>3, <1>4, BufferShape DEF Cap
<1>11. OwnInv
  <2>1. 0 - 0 <= Cap(own, own.data) /\ (\A i \in 0 .. 0 - 1 : FALSE)
    BY <1>10
  <2> QED
    BY <2>1, <1>1, <1>3, <1>4, <1>6, <1>9, ValueAssumption DEF OwnInv
<1>12. Alike(mem, own)
  BY <1>1, <1>3, <1>4 DEF Alike
<1>13. st \in Seq(Memory) /\ Len(st) = 1 /\ DOMAIN st = {1} /\ st[1] = mem
  BY <1>4
<1> HIDE DEF st
<1>14. Replays(st, mem, own, buffer)
  BY <1>1, <1>13 DEF Replays
<1>15. Sound(st, own, top, End)
  <2>1. Readable(st, own, top)
    BY <1>1, <1>4, <1>13 DEF Readable
  <2> QED
    BY <2>1, <1>4, <1>9, <1>12, <1>13 DEF Sound
<1>16. \A p \in Thief : Thieving(st, own, top, End, pc[p], local[p])
  BY <1>1, <1>3, <1>4, <1>5, <1>6 DEF Thieving, Stealing
<1> QED
  BY <1>7, <1>8, <1>11, <1>14, <1>15, <1>16 DEF IInv, Staged

\* Every step keeps the invariant and is one of the queue's.
LEMMA InvStep ==
    ASSUME IInv, [Next]_vars
    PROVE  /\ IInv'
           /\ \/ Quiet \/ LastTaken \/ Extended
              \/ \E p \in Process : FirstTaken(p) /\ (p = Owner => top = End - 1)
              \/ \E p \in Process : Missed(p) /\ (p = Owner => top = End)
<1>1. Owner \in Process /\ \A p \in Thief : p \in Process /\ p # Owner
  BY OwnerAssumption DEF Process
<1>2. CASE UNCHANGED vars
  <2>1. UNCHANGED <<top, mem, own, buffer, pc, local, result, inserted, claims>>
    BY <1>2 DEF vars
  <2>2. End' = End
    BY <2>1 DEF End, Undecided
  <2>3. Quiet
    BY <2>1, <2>2 DEF Quiet, Kept
  <2>4. TypeInv' /\ OwnInv' /\ Fifo(buffer', pc'[Owner])
    BY <2>1, <2>2 DEF IInv, TypeInv, OwnInv, Undecided, Item, Cap
  <2>5. \E st : Staged(st, mem', own', buffer', top', End', pc', local')
    BY <2>1, <2>2 DEF IInv
  <2> QED
    BY <2>3, <2>4, <2>5 DEF IInv
<1>3. CASE Drain
  BY <1>3, DrainStep
<1>4. CASE TakeBottom
  BY <1>4, TakeBottomStep
<1>5. CASE TakeFence
  BY <1>5, TakeFenceStep
<1>6. CASE TakeTop
  BY <1>1, <1>6, TakeTopStep
<1>7. CASE TakeLast
  BY <1>1, <1>7, TakeLastStep
<1>8. CASE InsertTop
  BY <1>8, InsertTopStep
<1>9. CASE Resize
  BY <1>9, ResizeStep
<1>10. CASE InsertStores
  BY <1>10, InsertStoresStep
<1>11. ASSUME NEW p \in Thief, ThiefStep(p)
       PROVE  IInv' /\ (Quiet \/ FirstTaken(p) \/ Missed(p))
  <2>1. CASE StealTop(p)
    BY <2>1, StealTopStep
  <2>2. CASE StealBottom(p)
    BY <2>2, StealBottomStep
  <2>3. CASE StealData(p)
    BY <2>3, StealDataStep
  <2>4. CASE StealSlot(p)
    BY <2>4, StealSlotStep
  <2>5. CASE StealCas(p)
    BY <2>5, StealCasStep
  <2> QED
    BY <1>11, <2>1, <2>2, <2>3, <2>4, <2>5 DEF ThiefStep
<1>12. CASE \E p \in Thief : ThiefStep(p)
  BY <1>1, <1>11, <1>12
<1> QED
  BY <1>2, <1>3, <1>4, <1>5, <1>6, <1>7, <1>8, <1>9, <1>10, <1>12 DEF Next, OwnerStep

\* The invariant holds in every reachable state.
LEMMA Invariance == Spec => []IInv
<1>1. IInv /\ [Next]_vars => IInv'
  BY InvStep
<1> QED
  BY <1>1, InvInit, PTL DEF Spec

----------------------------------------------------------------------------
(* Types                                                                   *)

\* A slot that is stored to exists, and is given a value.
Aimed(x, o) ==
    x.loc = "slot" => /\ x.buf \in DOMAIN o.slots
                      /\ x.at \in DOMAIN o.slots[x.buf]
                      /\ x.val \in Value

\* No index leaves the queue.
Bounded ==
    /\ \A k \in DOMAIN buffer : Aimed(buffer[k], own)
    /\ \A p \in Process : local[p].t \in 0 .. MaxInserts /\ local[p].b \in -1 .. MaxInserts
    /\ local[Owner].a \in DOMAIN own.slots

\* The owner's buffers stay, each with its length.
Shaped ==
    \A a \in DOMAIN own.slots :
        a \in DOMAIN own'.slots /\ DOMAIN own'.slots[a] = DOMAIN own.slots[a]

\* A store to bottom_ aims at no slot.
LEMMA BottomShaped ==
    ASSUME IInv, Bounded, NEW b, NEW order, Store(BottomStore(b, order))
    PROVE  Shaped /\ \A k \in DOMAIN buffer' : Aimed(buffer'[k], own')
<1> DEFINE s == BottomStore(b, order)
<1>1. own' = Apply(own, s) /\ buffer' = Append(buffer, s) /\ s.loc = "bottom" /\ s.val = b
  BY DEF Store, BottomStore
<1> HIDE DEF s
<1>2. own' = [own EXCEPT !.bottom = b] /\ own \in Memory /\ buffer \in Seq(Stores)
  BY <1>1, Applied, Settled
<1>3. own'.slots = own.slots
  BY <1>2 DEF Memory
<1>4. \A k \in DOMAIN buffer' : (k \in DOMAIN buffer /\ buffer'[k] = buffer[k]) \/ buffer'[k] = s
  BY <1>1, <1>2
<1>5. ASSUME NEW k \in DOMAIN buffer' PROVE Aimed(buffer'[k], own')
  BY <1>1, <1>3, <1>4 DEF Aimed, Bounded
<1> QED
  BY <1>3, <1>5 DEF Shaped

\* Resize copies what was inserted, into the buffer it adds.
LEMMA ResizeShaped ==
    ASSUME IInv, Bounded, Resize
    PROVE  Shaped /\ \A k \in DOMAIN buffer' : Aimed(buffer'[k], own')
<1> DEFINE old == own.data
           fresh == Len(own.slots) + 1
           len == 2 * LengthOf(own.slots, old)
           filled == Filled(own, top, own.bottom, len)
           copies == Copies(own, top, own.bottom, fresh, len)
<1>1. /\ own' = [own EXCEPT !.slots = Append(@, filled), !.data = fresh]
      /\ buffer' = (buffer \o copies) \o <<DataStore(fresh)>>
      /\ pc[Owner] = "resize"
  BY DEF Resize, Filled, Copies
<1>2. /\ own \in Memory /\ own.slots \in Seq(Buffers) /\ old \in DOMAIN own.slots
      /\ buffer \in Seq(Stores) /\ own.bottom \in Int /\ top \in Nat /\ End = own.bottom
      /\ top <= End /\ \A i \in top .. End - 1 : Item(own, i) \in Value
  BY <1>1, Settled DEF IInv, OwnInv, End, Undecided
<1>3. len \in Nat \ {0} /\ DOMAIN filled = 0 .. len - 1
  <2>1. LengthOf(own.slots, old) \in Nat \ {0}
    BY <1>2, BufferShape
  <2>2. DOMAIN filled = 0 .. len - 1
    BY DEF Filled
  <2> QED
    BY <2>1, <2>2
<1>4. own'.slots = Append(own.slots, filled)
  BY <1>1, <1>2 DEF Memory
<1>5. /\ \A a \in DOMAIN own.slots : a \in DOMAIN own'.slots /\ own'.slots[a] = own.slots[a]
      /\ fresh \in DOMAIN own'.slots /\ own'.slots[fresh] = filled
  <2> HIDE DEF filled
  <2> QED
    BY <1>2, <1>4
<1> HIDE DEF filled
<1>6. DOMAIN copies = 1 .. own.bottom - top /\ own.bottom - top \in Nat
  BY <1>2 DEF Copies
<1>7. ASSUME NEW k \in DOMAIN copies PROVE Aimed(copies[k], own')
  <2> DEFINE i == top + k - 1
  <2>1. i \in top .. End - 1 /\ i \in Int
    BY <1>2, <1>6
  <2>2. copies[k] = SlotStore(fresh, i % len, Item(own, i))
    BY <1>6 DEF Copies, Item
  <2>3. i % len \in 0 .. len - 1
    <3> HIDE DEF i, len
    <3> QED
      BY <2>1, <1>3, ModRange
  <2> HIDE DEF i, len, fresh, copies
  <2>4. copies[k].buf = fresh /\ copies[k].at = i % len /\ copies[k].val = Item(own, i)
    BY <2>2 DEF SlotStore
  <2>5. Item(own, i) \in Value
    BY <2>1, <1>2
  <2> QED
    BY <2>3, <2>4, <2>5, <1>3, <1>5 DEF Aimed
<1>8. copies \in Seq(Stores)
  <2> DEFINE n == own.bottom - top
  <2>1. copies = [k \in 1 .. n |-> copies[k]] /\ n \in Nat
    BY <1>6 DEF Copies
  <2>2. ASSUME NEW k \in 1 .. n PROVE copies[k] \in Stores
    <3> DEFINE i == top + k - 1
    <3>1. i \in top .. End - 1 /\ i \in Int
      BY <1>2, <1>6
    <3>2. copies[k] = SlotStore(fresh, i % len, Item(own, i))
      BY <1>6 DEF Copies, Item
    <3>3. i % len \in 0 .. len - 1
      <4> HIDE DEF i, len
      <4> QED
        BY <3>1, <1>3, ModRange
    <3>4. fresh \in Nat /\ i % len \in Nat /\ Item(own, i) \in Word
      <4>1. fresh \in Nat
        BY <1>2
      <4> HIDE DEF i, len, fresh
      <4>2. i % len \in Nat
        BY <3>3, <1>3
      <4>3. Item(own, i) \in Word
        BY <3>1, <1>2 DEF Word
      <4> QED
        BY <4>1, <4>2, <4>3
    <3> HIDE DEF i, len, fresh, copies
    <3> QED
      BY <3>2, <3>4 DEF SlotStore, Stores
  <2> HIDE DEF copies, n
  <2>3. copies \in [1 .. n -> Stores]
    BY <2>1, <2>2
  <2> QED
    BY <2>1, <2>3, FunctionIsSeq
<1> HIDE DEF copies
<1> DEFINE w == DataStore(fresh)
<1>9. w.loc = "data" /\ w \in Stores
  <2>1. fresh \in Nat
    BY <1>2
  <2> QED
    BY <2>1 DEF DataStore, Stores
<1> HIDE DEF w
<1>10. \A k \in DOMAIN buffer' :
           \/ k \in DOMAIN buffer /\ buffer'[k] = buffer[k]
           \/ \E j \in DOMAIN copies : buffer'[k] = copies[j]
           \/ buffer'[k] = w
  <2> DEFINE n == Len(buffer)
             c == Len(copies)
  <2>1. buffer' = (buffer \o copies) \o <<w>>
    BY <1>1 DEF w
  <2>2. /\ buffer' \in Seq(Stores) /\ Len(buffer') = n + c + 1 /\ buffer'[Len(buffer')] = w
        /\ \A k \in 1 .. n : buffer'[k] = buffer[k]
        /\ \A k \in 1 .. c : buffer'[n + k] = copies[k]
    BY <2>1, <1>2, <1>8, <1>9, Joined
  <2>3. n \in Nat /\ c \in Nat /\ DOMAIN buffer = 1 .. n /\ DOMAIN copies = 1 .. c
    BY <1>2, <1>8
  <2>4. DOMAIN buffer' = 1 .. n + c + 1
    BY <2>2
  <2> HIDE DEF n, c
  <2> TAKE k \in DOMAIN buffer'
  <2>5. CASE k <= n
    BY <2>2, <2>3, <2>4, <2>5
  <2>6. CASE n < k /\ k <= n + c
    <3>1. k - n \in 1 .. c /\ n + (k - n) = k
      BY <2>3, <2>4, <2>6
    <3>2. buffer'[n + (k - n)] = copies[k - n]
      BY <3>1, <2>2
    <3> QED
      BY <3>1, <3>2, <2>3
  <2>7. CASE n + c < k
    <3>1. k = n + c + 1
      BY <2>3, <2>4, <2>7
    <3> QED
      BY <3>1, <2>2
  <2> QED
    BY <2>3, <2>4, <2>5, <2>6, <2>7
<1>11. ASSUME NEW k \in DOMAIN buffer' PROVE Aimed(buffer'[k], own')
  <2>1. ASSUME k \in DOMAIN buffer, buffer'[k] = buffer[k]
        PROVE  Aimed(buffer'[k], own')
    BY <2>1, <1>5 DEF Aimed, Bounded
  <2> QED
    BY <2>1, <1>7, <1>9, <1>10 DEF Aimed
<1> QED
  BY <1>5, <1>11 DEF Shaped

\* Insert stores its value in a slot of the current buffer.
LEMMA InsertShaped ==
    ASSUME IInv, Bounded, InsertStores
    PROVE  Shaped /\ \A k \in DOMAIN buffer' : Aimed(buffer'[k], own')
<1> DEFINE b == local[Owner].b
           a == own.data
           j == b % LengthOf(own.slots, a)
           slot == SlotStore(a, j, inserted + 1)
           bottom == BottomStore(b + 1, "fenced")
<1>1. /\ own' = Apply(Apply(own, slot), bottom) /\ buffer' = buffer \o <<slot, bottom>>
      /\ pc[Owner] = "insert_store"
  BY DEF InsertStores
<1>2. /\ own \in Memory /\ own.slots \in Seq(Buffers) /\ a \in DOMAIN own.slots
      /\ buffer \in Seq(Stores) /\ b \in Int /\ inserted + 1 \in Value
  <2>1. /\ own \in Memory /\ own.slots \in Seq(Buffers) /\ a \in DOMAIN own.slots
        /\ buffer \in Seq(Stores) /\ own.bottom \in Int /\ inserted \in Nat
    BY Settled
  <2>2. b = own.bottom /\ inserted < MaxInserts
    BY <1>1 DEF IInv, OwnInv
  <2> QED
    BY <2>1, <2>2, ValueAssumption DEF Value
<1>3. j \in DOMAIN own.slots[a]
  BY <1>2, ReadType, BufferShape
<1>4. /\ slot.loc = "slot" /\ slot.buf = a /\ slot.at = j /\ slot.val = inserted + 1
      /\ bottom.loc = "bottom" /\ bottom.val = b + 1
  BY DEF SlotStore, BottomStore
<1> HIDE DEF slot, bottom, j
<1>5. own' = [[own EXCEPT !.slots[a][j] = inserted + 1] EXCEPT !.bottom = b + 1]
  <2>1. Apply(own, slot) = [own EXCEPT !.slots[slot.buf][slot.at] = slot.val]
    BY <1>4, Applied
  <2>2. Apply(Apply(own, slot), bottom) = [Apply(own, slot) EXCEPT !.bottom = bottom.val]
    BY <1>4, Applied
  <2> QED
    BY <2>1, <2>2, <1>1, <1>4
<1>6. own'.slots = [own.slots EXCEPT ![a][j] = inserted + 1]
  BY <1>2, <1>5 DEF Memory
<1>7. \A c \in DOMAIN own.slots : c \in DOMAIN own'.slots /\ DOMAIN own'.slots[c] = DOMAIN own.slots[c]
  BY <1>2, <1>6
<1>8. \A k \in DOMAIN buffer' :
          (k \in DOMAIN buffer /\ buffer'[k] = buffer[k]) \/ buffer'[k] \in {slot, bottom}
  BY <1>1, <1>2
<1>9. ASSUME NEW k \in DOMAIN buffer' PROVE Aimed(buffer'[k], own')
  BY <1>2, <1>3, <1>4, <1>7, <1>8 DEF Aimed, Bounded
<1> QED
  BY <1>7, <1>9 DEF Shaped

\* Every store that waits is aimed at a slot that there is.
LEMMA StoresStep ==
    ASSUME IInv, Bounded, [Next]_vars
    PROVE  Shaped /\ \A k \in DOMAIN buffer' : Aimed(buffer'[k], own')
<1>1. CASE UNCHANGED <<own, buffer>>
  BY <1>1 DEF Shaped, Bounded
<1>2. CASE Drain
  <2>1. PICK i \in DOMAIN buffer : MayDrain(i) /\ buffer' = RemoveAt(buffer, i)
    BY <1>2 DEF Drain
  <2>2. buffer \in Seq(Stores) /\ Fifo(buffer, pc[Owner])
    BY Settled DEF IInv
  <2>3. buffer' = Tail(buffer)
    BY <2>1, <2>2, OldestDrains
  <2>4. \A k \in DOMAIN buffer' : k + 1 \in DOMAIN buffer /\ buffer'[k] = buffer[k + 1]
    BY <2>1, <2>2, <2>3
  <2>5. own' = own
    BY <1>2 DEF Drain
  <2> QED
    BY <2>4, <2>5 DEF Shaped, Bounded
<1>3. CASE TakeBottom
  BY <1>3, BottomShaped DEF TakeBottom
<1>4. CASE TakeTop
  BY <1>1, <1>4, BottomShaped DEF TakeTop
<1>5. CASE TakeLast
  BY <1>5, BottomShaped DEF TakeLast
<1>6. CASE Resize
  BY <1>6, ResizeShaped
<1>7. CASE InsertStores
  BY <1>7, InsertShaped
<1>8. CASE TakeFence \/ InsertTop \/ (\E p \in Thief : ThiefStep(p)) \/ UNCHANGED vars
  BY <1>1, <1>8 DEF TakeFence, InsertTop, ThiefStep, StealTop, StealBottom, StealData,
                    StealSlot, StealCas, vars
<1> QED
  BY <1>2, <1>3, <1>4, <1>5, <1>6, <1>7, <1>8 DEF Next, OwnerStep

\* What the locals are set to lies in the queue.
LEMMA LocalsStep ==
    ASSUME IInv, Bounded, [Next]_vars, Shaped
    PROVE  /\ \A p \in Process : local'[p].t \in 0 .. MaxInserts /\ local'[p].b \in -1 .. MaxInserts
           /\ local'[Owner].a \in DOMAIN own'.slots
<1> DEFINE Fits(l) == l.t \in 0 .. MaxInserts /\ l.b \in -1 .. MaxInserts
<1>1. /\ Owner \in Process /\ \A p \in Thief : p \in Process /\ p # Owner
      /\ local \in [Process -> Locals]
  BY OwnerAssumption DEF Process, IInv, TypeInv
<1>2. /\ own.data \in DOMAIN own.slots /\ own.bottom \in Int /\ top \in Nat /\ top <= End
      /\ End <= MaxInserts /\ MaxInserts \in Nat /\ End \in Nat
      /\ own.slots \in Seq(Buffers)
      /\ pc[Owner] = "idle" => End = own.bottom
  BY Settled, ValueAssumption DEF IInv, OwnInv, End, Undecided
<1>3. Fits(NoLocal) /\ NoLocal.a \in DOMAIN own.slots
  BY <1>2 DEF NoLocal
<1>4. top \in 0 .. MaxInserts
  BY <1>2
<1>5. pc[Owner] = "idle" => own.bottom \in -1 .. MaxInserts /\ own.bottom - 1 \in -1 .. MaxInserts
  BY <1>2
\* The owner sets its locals.
<1>6. ASSUME NEW l, local' = [local EXCEPT ![Owner] = l], Fits(l), l.a \in DOMAIN own.slots
      PROVE  (\A p \in Process : Fits(local'[p])) /\ local'[Owner].a \in DOMAIN own'.slots
  BY <1>1, <1>6 DEF Bounded, Shaped
\* A thief sets its own.
<1>7. ASSUME NEW p \in Thief, NEW l, local' = [local EXCEPT ![p] = l], Fits(l)
      PROVE  (\A q \in Process : Fits(local'[q])) /\ local'[Owner].a \in DOMAIN own'.slots
  BY <1>1, <1>7 DEF Bounded, Shaped
<1>8. ASSUME local' = local
      PROVE  (\A p \in Process : Fits(local'[p])) /\ local'[Owner].a \in DOMAIN own'.slots
  BY <1>8 DEF Bounded, Shaped
<1>9. ASSUME NEW p \in Process, NEW r, Return(p, r) PROVE local' = [local EXCEPT ![p] = NoLocal]
  BY <1>9 DEF Return
<1>10. CASE TakeBottom
  <2> DEFINE l == [local[Owner] EXCEPT !.b = own.bottom - 1, !.a = own.data]
  <2>1. local' = [local EXCEPT ![Owner] = l] /\ pc[Owner] = "idle"
    BY <1>1, <1>10 DEF TakeBottom
  <2>2. Fits(l) /\ l.a \in DOMAIN own.slots
    BY <1>1, <1>2, <1>5, <2>1 DEF Locals, Bounded
  <2> HIDE DEF l
  <2> QED
    BY <2>1, <2>2, <1>6
<1>11. CASE TakeTop
  <2> DEFINE val == Read(own.slots, local[Owner].a, local[Owner].b)
             l == [local[Owner] EXCEPT !.t = top, !.val = val]
  <2>1. CASE local' = [local EXCEPT ![Owner].t = top, ![Owner].val = val]
    <3>1. local' = [local EXCEPT ![Owner] = l]
      BY <2>1, <1>1
    <3>2. Fits(l) /\ l.a \in DOMAIN own.slots
      BY <1>1, <1>4 DEF Locals, Bounded
    <3> HIDE DEF l
    <3> QED
      BY <3>1, <3>2, <1>6
  <2>2. CASE \E r : Return(Owner, r)
    BY <2>2, <1>1, <1>3, <1>6, <1>9
  <2> QED
    BY <1>11, <2>1, <2>2 DEF TakeTop
<1>12. CASE TakeLast
  BY <1>12, <1>1, <1>3, <1>6, <1>9 DEF TakeLast
<1>13. CASE InsertTop
  <2> DEFINE l == [local[Owner] EXCEPT !.b = own.bottom]
  <2>1. local' = [local EXCEPT ![Owner] = l] /\ pc[Owner] = "idle"
    BY <1>1, <1>13 DEF InsertTop
  <2>2. Fits(l) /\ l.a \in DOMAIN own.slots
    BY <1>1, <1>5, <2>1 DEF Locals, Bounded
  <2> HIDE DEF l
  <2> QED
    BY <2>1, <2>2, <1>6
<1>14. CASE InsertStores
  BY <1>14, <1>3, <1>6 DEF InsertStores
<1>15. ASSUME NEW p \in Thief, ThiefStep(p)
       PROVE  (\A q \in Process : Fits(local'[q])) /\ local'[Owner].a \in DOMAIN own'.slots
  <2>1. CASE StealTop(p)
    <3> DEFINE l == [local[p] EXCEPT !.t = top]
    <3>1. local' = [local EXCEPT ![p] = l]
      BY <1>1, <2>1 DEF StealTop
    <3>2. Fits(l)
      BY <1>1, <1>4 DEF Locals, Bounded
    <3> HIDE DEF l
    <3> QED
      BY <3>1, <3>2, <1>7
  <2>2. CASE StealBottom(p) \/ StealCas(p)
    BY <2>2, <1>1, <1>3, <1>7, <1>8, <1>9 DEF StealBottom, StealCas
  <2>3. CASE StealData(p)
    <3> DEFINE l == [local[p] EXCEPT !.a = mem.data]
    <3>1. local' = [local EXCEPT ![p] = l]
      BY <1>1, <2>3 DEF StealData
    <3>2. Fits(l)
      BY <1>1 DEF Locals, Bounded
    <3> HIDE DEF l
    <3> QED
      BY <3>1, <3>2, <1>7
  <2>4. CASE StealSlot(p)
    <3> DEFINE l == [local[p] EXCEPT !.val = Read(mem.slots, local[p].a, local[p].t)]
    <3>1. local' = [local EXCEPT ![p] = l]
      BY <1>1, <2>4 DEF StealSlot
    <3>2. Fits(l)
      BY <1>1 DEF Locals, Bounded
    <3> HIDE DEF l
    <3> QED
      BY <3>1, <3>2, <1>7
  <2> QED
    BY <1>15, <2>1, <2>2, <2>3, <2>4 DEF ThiefStep
<1>16. CASE Drain \/ TakeFence \/ Resize \/ UNCHANGED vars
  BY <1>8, <1>16 DEF Drain, TakeFence, Resize, vars
<1> QED
  BY <1>10, <1>11, <1>12, <1>13, <1>14, <1>15, <1>16 DEF Next, OwnerStep

\* The bounds hold in every reachable state.
LEMMA StaysBounded == Spec => []Bounded
<1>1. Init => Bounded
  <2> SUFFICES ASSUME Init PROVE Bounded
    OBVIOUS
  <2>1. buffer = <<>> /\ local = [p \in Process |-> NoLocal] /\ own.slots = <<NewBuffer(kInitCap)>>
    BY DEF Init
  <2> QED
    BY <2>1, ValueAssumption DEF Bounded, NoLocal, Process
<1>2. IInv /\ Bounded /\ [Next]_vars => Bounded'
  BY StoresStep, LocalsStep DEF Bounded
<1> QED
  BY <1>1, <1>2, Invariance, PTL DEF Spec

\* A store's value is what the stage it makes has.
LEMMA Storing ==
    ASSUME IInv, Bounded, NEW k \in DOMAIN buffer
    PROVE  buffer[k] \in PendingStore
<1> DEFINE s == buffer[k]
<1>1. PICK st : Replays(st, mem, own, buffer) /\ Sound(st, own, top, End)
  BY DEF IInv, Staged
<1>2. /\ k \in 1 .. Len(buffer) /\ Len(buffer) \in Nat /\ Len(st) = Len(buffer) + 1
      /\ st \in Seq(Memory) /\ s \in Stores
  BY <1>1 DEF Replays
<1>3. k \in DOMAIN st /\ k + 1 \in DOMAIN st /\ st[k] \in Memory /\ st[k + 1] \in Memory
  BY <1>2
<1>4. st[k + 1] = Apply(st[k], s) /\ st[k + 1].data \in DOMAIN own.slots /\ st[k + 1].bottom \in -1 .. End
  BY <1>1, <1>3 DEF Replays, Sound, Alike
<1>5. End <= MaxInserts /\ End \in Nat /\ MaxInserts \in Nat
  BY Settled, ValueAssumption DEF IInv, OwnInv
<1>6. Aimed(s, own)
  BY DEF Bounded
<1> HIDE DEF s
<1>7. CASE s.loc = "bottom"
  <2> DEFINE m == st[k]
  <2>0. Apply(m, s) = [m EXCEPT !.bottom = s.val]
    BY <1>7, Applied
  <2>1. st[k + 1].bottom = s.val
    BY <2>0, <1>3, <1>4 DEF Memory
  <2>2. s.val \in -1 .. MaxInserts
    BY <2>1, <1>4, <1>5
  <2> QED
    BY <2>2, <1>2, <1>7 DEF Stores, PendingStore, s
<1>8. CASE s.loc = "data"
  <2> DEFINE m == st[k]
  <2>0. Apply(m, s) = [m EXCEPT !.data = s.val]
    BY <1>8, Applied
  <2>1. st[k + 1].data = s.val
    BY <2>0, <1>3, <1>4 DEF Memory
  <2> QED
    BY <2>1, <1>2, <1>4, <1>8 DEF Stores, PendingStore, s
<1>9. CASE s.loc = "slot"
  <2>1. s = SlotStore(s.buf, s.at, s.val)
    BY <1>2, <1>9 DEF Stores, SlotStore
  <2>2. s.buf \in DOMAIN own.slots /\ s.at \in DOMAIN own.slots[s.buf] /\ s.val \in Value
    BY <1>6, <1>9 DEF Aimed
  <2> QED
    BY <2>1, <2>2 DEF PendingStore, s
<1> QED
  BY <1>2, <1>7, <1>8, <1>9 DEF Stores

\* Memory and the owner's view of it have buffers of the same lengths.
LEMMA MemoryTyped == IInv => MemoryOK(mem) /\ MemoryOK(own)
<1> SUFFICES ASSUME IInv, NEW m \in {mem, own} PROVE MemoryOK(m)
  OBVIOUS
<1>1. PICK st : Replays(st, mem, own, buffer) /\ Sound(st, own, top, End)
  BY DEF IInv, Staged
<1>2. /\ Alike(m, own) /\ m \in Memory /\ m.bottom \in -1 .. End
      /\ own.slots \in Seq(Buffers) /\ m.slots \in Seq(Buffers)
  BY <1>1, Staging
<1>3. End <= MaxInserts /\ End \in Nat /\ MaxInserts \in Nat
  BY Settled, ValueAssumption DEF IInv, OwnInv
<1>4. DOMAIN m = {"bottom", "data", "slots"} /\ m.bottom \in -1 .. MaxInserts
  BY <1>2, <1>3 DEF Memory
<1>5. ASSUME NEW a \in DOMAIN own.slots
      PROVE  m.slots[a] \in [0 .. LengthOf(own.slots, a) - 1 -> Word]
  <2>1. a \in DOMAIN m.slots /\ DOMAIN m.slots[a] = DOMAIN own.slots[a]
    BY <1>2 DEF Alike
  <2>2. LengthOf(m.slots, a) = LengthOf(own.slots, a)
    BY <2>1 DEF LengthOf
  <2> QED
    BY <2>1, <2>2, <1>2, BufferShape
<1> QED
  BY <1>2, <1>4, <1>5 DEF MemoryOK, Alike

\* Whatever waits in the buffer: no index leaves the queue, no store misses the
\* buffers or writes what nobody inserted, and no process is handed a slot nobody
\* wrote.
THEOREM QueueIsTyped == Spec => []TypeOK
<1>1. ASSUME IInv, Bounded PROVE TypeOK
  <2>1. /\ top \in Nat /\ top <= End /\ End <= inserted /\ inserted <= MaxInserts
        /\ inserted \in Nat /\ End \in Nat /\ MaxInserts \in Nat
    BY <1>1, Settled, ValueAssumption DEF IInv, OwnInv
  <2>2. top \in 0 .. MaxInserts /\ inserted \in 0 .. MaxInserts
    BY <2>1
  <2>3. buffer \in Seq(PendingStore)
    <3>1. buffer \in Seq(Stores)
      BY <1>1, Settled
    <3>2. \A k \in DOMAIN buffer : buffer[k] \in PendingStore
      BY <1>1, Storing
    <3> QED
      BY <3>1, <3>2
  <2>4. \A p \in Process : local[p].a \in DOMAIN own.slots
    <3>1. \A p \in Thief : local[p].a \in DOMAIN own.slots
      BY <1>1 DEF IInv, Staged, Thieving
    <3> QED
      BY <3>1, <1>1 DEF Bounded, Process
  <2>5. local \in [Process -> [t : 0 .. MaxInserts, b : -1 .. MaxInserts,
                               a : DOMAIN own.slots, val : Word]]
    <3>1. local \in [Process -> Locals]
      BY <1>1 DEF IInv, TypeInv
    <3> QED
      BY <3>1, <2>4, <1>1 DEF Bounded, Locals
  <2>6. /\ pc \in [Process -> OwnerLabel \cup ThiefLabel] /\ pc[Owner] \in OwnerLabel
        /\ \A p \in Thief : pc[p] \in ThiefLabel
        /\ result \in [Process -> Value \cup {Empty}] /\ claims \in [Value -> Nat]
    BY <1>1 DEF IInv, TypeInv
  <2> QED
    BY <2>1, <2>2, <2>3, <2>5, <2>6, <1>1, MemoryTyped DEF TypeOK
<1> QED
  BY <1>1, Invariance, StaysBounded, PTL

\* The queue's elements are those between top and its end.
Listing ==
    /\ Items \in Seq(Value) /\ Len(Items) = End - top /\ End - top \in Nat
    /\ \A k \in 1 .. End - top : Items[k] = Item(own, top + k - 1)
    /\ \A i \in top .. End - 1 : Item(own, i) \in Value
    /\ top \in Nat /\ End \in Nat

\* The invariant gives the queue as a sequence.
LEMMA Listed == IInv => Listing
<1> SUFFICES ASSUME IInv PROVE Listing
  OBVIOUS
<1> DEFINE z == [k \in 1 .. End - top |-> Item(own, top + k - 1)]
<1>1. Items = z
  BY DEF Items, Item
<1>2. top \in Nat /\ End \in Nat /\ top <= End /\ \A i \in top .. End - 1 : Item(own, i) \in Value
  BY Settled DEF IInv, OwnInv
<1>3. End - top \in Nat
  BY <1>2
<1>4. \A k \in 1 .. End - top : top + k - 1 \in top .. End - 1
  BY <1>2
<1>5. z \in [1 .. End - top -> Value]
  BY <1>2, <1>4
<1>6. Items \in Seq(Value) /\ Len(Items) = End - top
  BY <1>1, <1>3, <1>5, FunctionIsSeq
<1> QED
  BY <1>1, <1>2, <1>3, <1>6 DEF Listing

\* Each value inserted is in the queue or has been returned.
Present == \A v \in 1 .. inserted : claims[v] = 0 => \E i \in top .. End - 1 : Item(own, i) = v

\* No step drops a value.
LEMMA PresentStep ==
    ASSUME IInv, Present, [Next]_vars
    PROVE  Present'
<1>1. /\ top \in Nat /\ End \in Nat /\ top <= End /\ inserted \in Nat
      /\ inserted <= MaxInserts /\ MaxInserts \in Nat /\ claims \in [Value -> Nat]
  BY Settled, ValueAssumption DEF IInv, OwnInv, TypeInv
<1>2. CASE Kept /\ UNCHANGED <<claims, inserted>>
  BY <1>2 DEF Present, Kept
<1>3. CASE Extended
  <2>1. /\ top' = top /\ End' = End + 1 /\ inserted' = inserted + 1 /\ claims' = claims
        /\ Item(own', End) = inserted + 1
        /\ \A i \in top .. End - 1 : Item(own', i) = Item(own, i)
    BY <1>3 DEF Extended
  <2>2. ASSUME NEW v \in 1 .. inserted + 1, claims[v] = 0
        PROVE  \E i \in top .. (End + 1) - 1 : Item(own', i) = v
    <3>1. CASE v = inserted + 1
      <4>1. End \in top .. (End + 1) - 1
        BY <1>1
      <4> QED
        BY <3>1, <4>1, <2>1
    <3>2. CASE v # inserted + 1
      <4>1. v \in 1 .. inserted
        BY <3>2, <1>1
      <4>2. PICK i \in top .. End - 1 : Item(own, i) = v
        BY <4>1, <2>2 DEF Present
      <4>3. i \in top .. (End + 1) - 1
        BY <1>1
      <4> QED
        BY <4>2, <4>3, <2>1
    <3> QED
      BY <3>1, <3>2
  <2> QED
    BY <2>1, <2>2 DEF Present
\* What is gone was returned.
<1>4. ASSUME NEW x \in top .. End - 1, inserted' = inserted,
             Item(own, x) \in Value, claims' = [claims EXCEPT ![Item(own, x)] = @ + 1],
             \A i \in top .. End - 1 : Item(own', i) = Item(own, i),
             \A i \in top .. End - 1 : i # x => i \in top' .. End' - 1
      PROVE  Present'
  <2> SUFFICES ASSUME NEW v \in 1 .. inserted, claims'[v] = 0
               PROVE  \E i \in top' .. End' - 1 : Item(own', i) = v
    BY <1>4 DEF Present
  <2>1. v \in Value
    BY <1>1 DEF Value
  <2>2. v # Item(own, x)
    <3>1. claims[Item(own, x)] \in Nat
      BY <1>1, <1>4
    <3>2. claims'[Item(own, x)] = claims[Item(own, x)] + 1
      BY <1>1, <1>4
    <3> QED
      BY <3>1, <3>2
  <2>3. claims[v] = 0
    BY <2>1, <2>2, <1>1, <1>4
  <2>4. PICK i \in top .. End - 1 : Item(own, i) = v
    BY <2>3 DEF Present
  <2> QED
    BY <2>2, <2>4, <1>4
<1>5. CASE LastTaken
  <2>1. /\ End - 1 \in top .. End - 1
        /\ \A i \in top .. End - 1 : i # End - 1 => i \in top .. (End - 1) - 1
    BY <1>1, <1>5 DEF LastTaken
  <2> QED
    BY <2>1, <1>4, <1>5 DEF LastTaken, Got
<1>6. CASE \E p \in Process : FirstTaken(p)
  <2>1. PICK p \in Process : FirstTaken(p)
    BY <1>6
  <2>2. /\ top \in top .. End - 1
        /\ \A i \in top .. End - 1 : i # top => i \in top + 1 .. End - 1
    BY <1>1, <2>1 DEF FirstTaken
  <2> QED
    BY <2>1, <2>2, <1>4 DEF FirstTaken, Got
<1> QED
  BY <1>2, <1>3, <1>5, <1>6, InvStep DEF Quiet, Missed

\* No Resize, lost race or late store drops a value.
THEOREM QueueLosesNothing == Spec => []NothingLost
<1>1. Init => Present
  BY DEF Init, Present
<1>2. ASSUME IInv, Present PROVE NothingLost
  <2> SUFFICES ASSUME NEW v \in 1 .. inserted, claims[v] = 0 PROVE Contains(Items, v)
    BY DEF NothingLost
  <2>1. PICK i \in top .. End - 1 : Item(own, i) = v
    BY <1>2 DEF Present
  <2>2. top \in Nat /\ End \in Nat
    BY <1>2, Settled
  <2> DEFINE k == (i - top) + 1
  <2>3. k \in 1 .. End - top /\ top + k - 1 = i
    BY <2>2
  <2> HIDE DEF k
  <2>4. Items[k] = v /\ k \in 1 .. Len(Items)
    BY <2>1, <2>3, <1>2, Listed DEF Listing
  <2> QED
    BY <2>4 DEF Contains
<1>3. IInv /\ Present /\ [Next]_vars => Present'
  BY PresentStep
<1>4. IInv /\ Present => NothingLost
  BY <1>2
<1> QED
  BY <1>1, <1>3, <1>4, Invariance, PTL DEF Spec

----------------------------------------------------------------------------
(* The queue is the abstract one                                           *)

\* The queue as a sequence, before and after a step.
LEMMA ListedNext ==
    ASSUME IInv, [Next]_vars
    PROVE  Listing /\ Listing'
<1>1. Listing
  BY Listed
<1>2. IInv'
  BY InvStep
<1>3. (IInv => Listing)'
  BY Listed, PTL
<1> QED
  BY <1>1, <1>2, <1>3

\* The queue as a sequence, after each kind of step.
LEMMA ItemsKept ==
    ASSUME Listing, Listing', Kept
    PROVE  Items' = Items
<1>1. /\ Items \in Seq(Value) /\ Items' \in Seq(Value) /\ Len(Items') = Len(Items)
      /\ Len(Items) = End - top /\ top \in Nat /\ End \in Nat
  BY DEF Listing, Kept
<1>2. \A k \in 1 .. End - top : top + k - 1 \in top .. End - 1
  BY <1>1
<1>3. ASSUME NEW k \in 1 .. End - top PROVE Items'[k] = Items[k]
  <2>1. Items[k] = Item(own, top + k - 1)
    BY DEF Listing
  <2>2. Items'[k] = Item(own', top + k - 1)
    BY DEF Listing, Kept
  <2> QED
    BY <2>1, <2>2, <1>2 DEF Kept
<1> QED
  BY <1>1, <1>3, SameSeq

\* Insert appends.
LEMMA ItemsExtended ==
    ASSUME Listing, Listing', Extended
    PROVE  Items' = Append(Items, inserted') /\ inserted' \in Value
<1> DEFINE x == inserted'
           z == Append(Items, x)
           n == End - top
<1>1. /\ Items \in Seq(Value) /\ Items' \in Seq(Value) /\ n \in Nat /\ Len(Items) = n
      /\ x \in Value /\ top \in Nat /\ End \in Nat /\ top' = top /\ End' = End + 1
      /\ x = Item(own', End)
  BY DEF Listing, Extended
<1>2. End' - top' = n + 1 /\ top + (n + 1) - 1 = End
      /\ (\A k \in 1 .. n : k \in 1 .. n + 1 /\ top + k - 1 \in top .. End - 1)
      /\ n + 1 \in 1 .. n + 1 /\ (\A k \in 1 .. n + 1 : k = n + 1 \/ k \in 1 .. n)
  BY <1>1
<1> HIDE DEF x, n
<1>3. z \in Seq(Value) /\ Len(z) = n + 1 /\ z[n + 1] = x /\ \A k \in 1 .. n : z[k] = Items[k]
  BY <1>1
<1> HIDE DEF z
<1>4. Len(Items') = n + 1 /\ \A k \in 1 .. n + 1 : Items'[k] = Item(own', top + k - 1)
  BY <1>1, <1>2 DEF Listing
<1>5. ASSUME NEW k \in 1 .. n PROVE Items'[k] = z[k]
  <2>1. Items[k] = Item(own, top + k - 1)
    BY DEF Listing, n
  <2>2. Item(own', top + k - 1) = Item(own, top + k - 1)
    BY <1>2 DEF Extended
  <2> QED
    BY <2>1, <2>2, <1>2, <1>3, <1>4
<1>6. Items'[n + 1] = z[n + 1]
  <2>1. Items'[n + 1] = Item(own', top + (n + 1) - 1)
    BY <1>2, <1>4
  <2> QED
    BY <2>1, <1>1, <1>2, <1>3
<1>7. Items' = z
  <2>1. \A k \in 1 .. Len(Items') : Items'[k] = z[k]
    BY <1>2, <1>4, <1>5, <1>6
  <2> QED
    BY <2>1, <1>1, <1>3, <1>4, SameSeq
<1> QED
  BY <1>1, <1>7 DEF z, x

\* Take removes the last.
LEMMA ItemsLastTaken ==
    ASSUME Listing, Listing', LastTaken
    PROVE  /\ Items # <<>> /\ Items[Len(Items)] = Item(own, End - 1)
           /\ Items' = SubSeq(Items, 1, Len(Items) - 1)
<1> DEFINE n == End - top
           z == SubSeq(Items, 1, n - 1)
<1>1. /\ Items \in Seq(Value) /\ Items' \in Seq(Value) /\ n \in Nat /\ Len(Items) = n
      /\ top \in Nat /\ End \in Nat /\ top' = top /\ End' = End - 1 /\ top < End
  BY DEF Listing, LastTaken
<1>2. /\ End' - top' = n - 1 /\ top + n - 1 = End - 1 /\ n \in 1 .. n /\ n # 0 /\ n - 1 \in Nat
      /\ \A k \in 1 .. n - 1 : k \in 1 .. n /\ top + k - 1 \in top .. End - 1
  BY <1>1
<1>3. Items[n] = Item(own, End - 1)
  <2>1. Items[n] = Item(own, top + n - 1)
    BY <1>2 DEF Listing
  <2> QED
    BY <2>1, <1>2
<1>4. z \in Seq(Value) /\ Len(z) = n - 1 /\ \A k \in 1 .. n - 1 : z[k] = Items[k]
  <2> HIDE DEF n
  <2> QED
    BY <1>1, <1>2
<1> HIDE DEF z
<1>5. ASSUME NEW k \in 1 .. n - 1 PROVE Items'[k] = z[k]
  <2>1. Items[k] = Item(own, top + k - 1)
    BY <1>2 DEF Listing
  <2>2. Items'[k] = Item(own', top + k - 1)
    BY <1>1, <1>2 DEF Listing
  <2>3. Item(own', top + k - 1) = Item(own, top + k - 1)
    BY <1>2 DEF LastTaken
  <2> QED
    BY <2>1, <2>2, <2>3, <1>4
<1>6. Len(Items') = n - 1
  BY <1>2 DEF Listing
<1>7. Items' = z
  BY <1>1, <1>4, <1>5, <1>6, SameSeq
<1> QED
  BY <1>1, <1>2, <1>3, <1>7 DEF z

\* Steal removes the first.
LEMMA ItemsFirstTaken ==
    ASSUME Listing, Listing', NEW p, FirstTaken(p)
    PROVE  /\ Items # <<>> /\ Head(Items) = Item(own, top)
           /\ Items' = Tail(Items) /\ Len(Items) = End - top
<1> DEFINE n == End - top
           z == Tail(Items)
<1>1. /\ Items \in Seq(Value) /\ Items' \in Seq(Value) /\ n \in Nat /\ Len(Items) = n
      /\ top \in Nat /\ End \in Nat /\ top' = top + 1 /\ End' = End /\ top < End
  BY DEF Listing, FirstTaken
<1>2. /\ End' - top' = n - 1 /\ top + 1 - 1 = top /\ 1 \in 1 .. n /\ n # 0 /\ n - 1 \in Nat
      /\ \A k \in 1 .. n - 1 : /\ k + 1 \in 1 .. n /\ top + k \in top .. End - 1
                               /\ top + (k + 1) - 1 = top + k /\ (top + 1) + k - 1 = top + k
  BY <1>1
<1>3. Items[1] = Item(own, top)
  <2>1. Items[1] = Item(own, top + 1 - 1)
    BY <1>2 DEF Listing
  <2> QED
    BY <2>1, <1>2
<1>4. /\ z \in Seq(Value) /\ Len(z) = n - 1 /\ \A k \in 1 .. n - 1 : z[k] = Items[k + 1]
      /\ Head(Items) = Items[1] /\ Items # <<>>
  <2> HIDE DEF n
  <2> QED
    BY <1>1, <1>2
<1> HIDE DEF z
<1>5. ASSUME NEW k \in 1 .. n - 1 PROVE Items'[k] = z[k]
  <2>1. Items[k + 1] = Item(own, top + (k + 1) - 1)
    BY <1>2 DEF Listing
  <2>2. Items'[k] = Item(own', (top + 1) + k - 1)
    BY <1>1, <1>2 DEF Listing
  <2>3. Item(own', top + k) = Item(own, top + k)
    BY <1>2 DEF FirstTaken
  <2> QED
    BY <2>1, <2>2, <2>3, <1>2, <1>4
<1>6. Len(Items') = n - 1
  BY <1>2 DEF Listing
<1>7. Items' = z
  BY <1>1, <1>4, <1>5, <1>6, SameSeq
<1> QED
  BY <1>1, <1>3, <1>4, <1>7 DEF z

\* The abstract queue starts empty too.
LEMMA RefinesInit == Init => Queue!Init
<1> SUFFICES ASSUME Init PROVE Queue!Init
  OBVIOUS
<1>1. Listing
  BY InvInit, Listed
<1>2. End = 0 /\ top = 0
  BY OwnerAssumption DEF Init, End, Undecided, Process
<1>3. Items = <<>>
  BY <1>1, <1>2 DEF Listing
<1> QED
  BY <1>3 DEF Init, Queue!Init, Process

\* Each step is an Insert, a Take or a Steal of the abstract queue, or none.
LEMMA RefinesStep ==
    ASSUME IInv, [Next]_vars
    PROVE  Queue!Next \/ UNCHANGED <<Items, result>>
<1>1. Listing /\ Listing'
  BY ListedNext
<1>2. CASE Quiet
  BY <1>1, <1>2, ItemsKept DEF Quiet
<1>3. CASE Extended
  <2>1. Items' = Append(Items, inserted') /\ inserted' \in Value /\ result' = result
    BY <1>1, <1>3, ItemsExtended DEF Extended
  <2>2. Queue!Insert
    BY <2>1 DEF Queue!Insert
  <2> QED
    BY <2>2 DEF Queue!Next
<1>4. CASE LastTaken
  <2>1. /\ Items # <<>> /\ Items' = SubSeq(Items, 1, Len(Items) - 1)
        /\ result' = [result EXCEPT ![Owner] = Items[Len(Items)]]
    BY <1>1, <1>4, ItemsLastTaken DEF LastTaken, Got
  <2>2. Queue!Take
    BY <2>1 DEF Queue!Take
  <2> QED
    BY <2>2 DEF Queue!Next
<1>5. ASSUME NEW p \in Process, FirstTaken(p), p = Owner => top = End - 1
      PROVE  Queue!Next
  <2>1. /\ Items # <<>> /\ Items' = Tail(Items) /\ Len(Items) = End - top
        /\ result' = [result EXCEPT ![p] = Head(Items)]
    BY <1>1, <1>5, ItemsFirstTaken DEF FirstTaken, Got
  <2>2. CASE p \in Thief
    <3>1. Queue!Steal(p)
      BY <2>1 DEF Queue!Steal
    <3> QED
      BY <3>1, <2>2 DEF Queue!Next
  <2>3. CASE p = Owner
    <3>1. Len(Items) = 1 /\ Items \in Seq(Value)
      BY <2>1, <2>3, <1>1, <1>5 DEF Listing
    <3>2. Tail(Items) = SubSeq(Items, 1, Len(Items) - 1) /\ Head(Items) = Items[Len(Items)]
      <4> DEFINE x == Tail(Items)
                 y == SubSeq(Items, 1, 0)
      <4>1. x \in Seq(Value) /\ Len(x) = 0 /\ Head(Items) = Items[1]
        BY <3>1
      <4>2. y \in Seq(Value) /\ Len(y) = 0
        BY <3>1
      <4> HIDE DEF x, y
      <4>3. x = y
        BY <4>1, <4>2, SameSeq
      <4>4. Len(Items) - 1 = 0
        BY <3>1
      <4> QED
        BY <3>1, <4>1, <4>3, <4>4 DEF x, y
    <3>3. Queue!Take
      BY <2>1, <2>3, <3>2 DEF Queue!Take
    <3> QED
      BY <3>3 DEF Queue!Next
  <2> QED
    BY <2>2, <2>3 DEF Process
<1>6. ASSUME NEW p \in Process, Missed(p), p = Owner => top = End
      PROVE  Queue!Next
  <2>1. Items' = Items /\ result' = [result EXCEPT ![p] = Empty]
    BY <1>1, <1>6, ItemsKept DEF Missed
  <2>2. CASE p \in Thief
    <3>1. Queue!Steal(p)
      BY <2>1 DEF Queue!Steal
    <3> QED
      BY <3>1, <2>2 DEF Queue!Next
  <2>3. CASE p = Owner
    <3>1. Items = <<>>
      BY <2>3, <1>1, <1>6 DEF Listing
    <3>2. Queue!Take
      BY <2>1, <2>3, <3>1 DEF Queue!Take
    <3> QED
      BY <3>2 DEF Queue!Next
  <2> QED
    BY <2>2, <2>3 DEF Process
<1> QED
  BY <1>2, <1>3, <1>4, <1>5, <1>6, InvStep

\* Insert, Take and Steal take effect one at a time, as IsWorkStealingQueue's
\* callers rely on: the owner's Take only fails when the queue is empty.
THEOREM QueueIsStealable == Spec => ImplementsQueue
<1>1. IInv /\ [Next]_vars => [Queue!Next]_<<Items, result>>
  BY RefinesStep
<1> QED
  BY <1>1, RefinesInit, Invariance, PTL DEF Spec, ImplementsQueue, Queue!Spec
=============================================================================
