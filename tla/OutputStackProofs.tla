------------------------- MODULE OutputStackProofs -------------------------
(***************************************************************************)
(* The four invariants of OutputStack, for any threads, lines, pieces,     *)
(* capacities and failures.  What has gone into a stream is followed by    *)
(* what each thread has Pending for it.  Nearly every step only moves the  *)
(* border between the two, or between the parts of them; the others put a  *)
(* line at the end of what a thread has pending, or take out what an error *)
(* loses.  The mutex says who may move it (Control).                       *)
(***************************************************************************)
EXTENDS OutputStack, SequenceTheorems, WellFoundedInduction, TLAPS

Label == {"run", "handle", "lock", "write", "unlock", "done", "exited"}

Unit == Object \X (Nat \ {0})
Mark == Unit \cup {Cut}
Bytes == Seq(Unit)
Calls == Seq(Seq(Bytes))

Typed ==
    /\ setup \in Setups
    /\ todo \in [Thread -> Seq(Object)]
    /\ pc \in [Thread -> Label]
    /\ line \in [Thread -> Object \cup {None}]
    /\ stream \in [Thread -> Stream]
    /\ handle \in [Thread -> Bytes]
    /\ calls \in [Thread -> Calls]
    /\ owner \in [Stream -> Thread \cup {None}]
    /\ buf \in [Stream -> Bytes]
    /\ jobs \in [Thread -> Calls]
    /\ batch \in [Thread -> Bytes]
    /\ fd \in [Stream -> Seq(Mark)]
    /\ errors \in Nat /\ interrupts \in Nat
    /\ fate \in [Object -> Fate]
    /\ begun \in [Stream -> SUBSET Object]

----------------------------------------------------------------------------
(* Who is where                                                            *)

\* Main flushes what is left, without the lock.
Closing == pc[Main] = "write" /\ calls[Main] = <<>>

\* What a place says of the thread that is there.
Placed(t) ==
    /\ pc[t] \in {"run", "handle", "done", "exited"} => calls[t] = <<>>
    /\ pc[t] \in {"lock", "unlock"} => calls[t] # <<>>
    /\ pc[t] # "write" => batch[t] = <<>> /\ jobs[t] = <<>>
    /\ pc[t] = "write" /\ calls[t] = <<>> => t = Main
    /\ pc[t] = "done" => todo[t] = <<>> /\ handle[t] = <<>>
    /\ pc[t] = "handle" => stream[t] = "stdout" /\ line[t] \in Object
    /\ pc[t] = "exited" => t = Main

Inside(t) == pc[t] \in {"write", "unlock"} /\ calls[t] # <<>>

\* Whoever is in a writer, but for that flush, holds its mutex.
Locked ==
    \A s \in Stream, t \in Thread : owner[s] = t <=> Inside(t) /\ stream[t] = s

\* Main flushes last, and takes all there is.
MainLast ==
    Closing \/ Exited =>
        /\ todo[Main] = <<>> /\ handle[Main] = <<>>
        /\ \A t \in Thread \ {Main} : pc[t] = "done"
        /\ buf["stdout"] = <<>>

Sized ==
    /\ \A s \in Stream : Len(buf[s]) <= Capacity(s)
    /\ \A t \in Thread : Len(handle[t]) <= setup.handle

Control ==
    /\ \A t \in Thread : Placed(t)
    /\ Locked /\ MainLast /\ Sized

----------------------------------------------------------------------------
(* Where the lines are                                                     *)

\* What a sequence of WriteManys is about to write.
Content(c) == FlattenSeq(FlattenSeq(c))

\* What t, in the writer, has yet to write.
Flight(t) == batch[t] \o Content(jobs[t])

\* The calls that t has yet to make.
Coming(t) ==
    IF pc[t] = "lock" THEN calls[t] ELSE SubSeq(calls[t], 2, Len(calls[t]))

\* What t has for s and has not yet passed on.
Pending(s, t) ==
    (IF stream[t] = s THEN Content(Coming(t)) ELSE <<>>)
    \o (IF s = "stdout" THEN handle[t] ELSE <<>>)

Passed(s) == fd[s] \o InFlight(s)

\* Each unit stands between those next to it in its line, unless a write failed.
Whole(q) ==
    \A i \in DOMAIN q : q[i] # Cut =>
        /\ q[i][2] > 1 => i > 1 /\ q[i - 1] = <<q[i][1], q[i][2] - 1>>
        /\ q[i][2] < Size(q[i][1]) =>
              i < Len(q) /\ q[i + 1] \in {<<q[i][1], q[i][2] + 1>>, Cut}

WholeCalls(c) == \A i \in DOMAIN c : Whole(FlattenSeq(c[i]))

WholeInv ==
    /\ \A s \in Stream : Whole(Passed(s)) /\ Whole(buf[s])
    /\ \A t \in Thread : Whole(handle[t]) /\ WholeCalls(calls[t])

\* If a and b are t's, a comes before b in what it has to say.
Earlier(a, b, t) ==
    \A k, l \in DOMAIN Work[t] :
        a[1] = Work[t][k] /\ b[1] = Work[t][l] => k < l \/ (k = l /\ a[2] < b[2])
Before(p, q, t) == \A a \in ToSet(p), b \in ToSet(q) : Earlier(a, b, t)
Ordered(q, t) == \A i, j \in DOMAIN q : i < j => Earlier(q[i], q[j], t)

\* How many lines t has begun, the one it is about to write left out.
Said(t) == Len(Work[t]) - Len(todo[t]) - (IF pc[t] = "handle" THEN 1 ELSE 0)

\* What of q is t's are among its first n lines.
Begun(q, t, n) ==
    \A u \in ToSet(q) : \A k \in DOMAIN Work[t] : u[1] = Work[t][k] => k <= n
Mine(q, t) == \A u \in ToSet(q) : u[1] \in ToSet(Work[t])

\* A thread's work is done in order.
Program(t) ==
    /\ Len(todo[t]) <= Len(Work[t])
    /\ \A i \in DOMAIN todo[t] : todo[t][i] = Work[t][Len(Work[t]) - Len(todo[t]) + i]
    /\ pc[t] = "handle" => /\ Said(t) + 1 \in DOMAIN Work[t]
                           /\ line[t] = Work[t][Said(t) + 1]

\* What is passed on, buffered and pending follow each other in t's order.
Settled(p, b, q, t, n) ==
    /\ Ordered(p, t) /\ Ordered(b, t) /\ Ordered(q, t)
    /\ Before(p, b, t) /\ Before(p, q, t) /\ Before(b, q, t)
    /\ Begun(p, t, n) /\ Begun(b, t, n) /\ Begun(q, t, n)
    /\ Mine(q, t)

InOrder(s, t) == Settled(Passed(s), buf[s], Pending(s, t), t, Said(t))

OrderInv ==
    /\ \A t \in Thread : Program(t)
    /\ \A s \in Stream, t \in Thread : InOrder(s, t)

\* A line begun and not lost is somewhere.
Held(s, t) == ToSet(Passed(s)) \cup ToSet(buf[s]) \cup ToSet(Pending(s, t))
Kept(o, s, t) ==
    \/ Units(o) \subseteq Held(s, t)
    \/ pc[t] = "handle" /\ line[t] = o /\ s = "stdout"

KeptInv ==
    \A s \in Stream, t \in Thread : \A o \in begun[s] \cap ToSet(Work[t]) : Kept(o, s, t)

\* Without a buffer, whoever writes writes only what is its own.
OwnInv ==
    \A t \in Thread :
        pc[t] = "write" /\ Capacity(stream[t]) = 0 => Mine(Flight(t), t)

\* With no error so far the lines begun tell what was removed and what was not.
ToldInv ==
    /\ \A t \in Thread : \A o \in ToSet(todo[t]) : fate[o] = "none"
    /\ errors = 0 =>
          /\ begun["stdout"] = IF setup.verbose THEN Ended("removed") ELSE {}
          /\ begun["stderr"] = Ended("left")

IInv == Typed /\ Control /\ WholeInv /\ OrderInv /\ KeptInv /\ OwnInv /\ ToldInv

----------------------------------------------------------------------------
(* What FlattenSeq returns                                                 *)

\* Concatenation.
LEMMA Associative ==
    ASSUME NEW S, NEW x \in Seq(S), NEW y \in Seq(S), NEW z \in Seq(S)
    PROVE (x \o y) \o z = x \o (y \o z)
BY ConcatAssociative

\* Numbers, if there are any, have a least one.
LEMMA LeastExists ==
    ASSUME NEW S, S \subseteq Nat, S # {}
    PROVE \E x \in S : \A y \in S : x <= y
<1>1. PICK x \in S : \A y \in S : ~(<<y, x>> \in OpToRel(<, Nat))
  BY NatLessThanWellFounded, WFMin
<1>2. ASSUME NEW y \in S PROVE x <= y
  <2>1. x \in Nat /\ y \in Nat
    OBVIOUS
  <2>2. ~(y < x)
    BY <1>1, <2>1 DEF OpToRel
  <2> QED
    BY <2>1, <2>2
<1> QED
  BY <1>2

\* f is the function FlattenSeq defines, on the first n of the sequences ss.
Flattens(f, ss, n) ==
    f = [i \in 1 .. n |-> IF i = 1 THEN ss[i] ELSE f[i - 1] \o ss[i]]

\* There is such a function.
LEMMA FlattensExists ==
    ASSUME NEW ss, NEW n \in Nat
    PROVE \E f : Flattens(f, ss, n)
<1> DEFINE T == {m \in Nat : ~\E f : Flattens(f, ss, m)}
<1>1. SUFFICES ASSUME T # {} PROVE FALSE
  OBVIOUS
<1>2. PICK m \in T : \A y \in T : m <= y
  BY <1>1, LeastExists
<1>3. m # 0
  <2>1. Flattens([i \in 1 .. 0 |-> <<>>], ss, 0)
    BY DEF Flattens
  <2> QED
    BY <2>1
<1>4. m - 1 \in Nat /\ m - 1 \notin T
  BY <1>2, <1>3
<1>5. PICK g : Flattens(g, ss, m - 1)
  BY <1>4
<1> DEFINE h == [i \in 1 .. m |->
                    IF i # m THEN g[i]
                    ELSE IF i = 1 THEN ss[i] ELSE g[i - 1] \o ss[i]]
<1>6. ASSUME NEW i \in 1 .. m
      PROVE h[i] = IF i = 1 THEN ss[i] ELSE h[i - 1] \o ss[i]
  <2>1. i # 1 => i - 1 \in 1 .. m /\ i - 1 # m
    BY <1>4
  <2>2. i # 1 => h[i - 1] = g[i - 1]
    BY <2>1
  <2>3. CASE i = m
    BY <2>2, <2>3
  <2>4. CASE i # m
    <3>1. i \in 1 .. (m - 1)
      BY <2>4, <1>4
    <3>2. g[i] = IF i = 1 THEN ss[i] ELSE g[i - 1] \o ss[i]
      BY <3>1, <1>5 DEF Flattens
    <3> QED
      BY <2>2, <2>4, <3>2
  <2> QED
    BY <2>3, <2>4
<1>7. h = [i \in 1 .. m |-> IF i = 1 THEN ss[i] ELSE h[i - 1] \o ss[i]]
  BY <1>6
<1>8. Flattens(h, ss, m)
  BY <1>7 DEF Flattens
<1> QED
  BY <1>2, <1>8

\* It concatenates, and what it returns depends on the sequences up to there.
LEMMA FlattensAgree ==
    ASSUME NEW S, NEW ss \in Seq(Seq(S)), NEW tt \in Seq(Seq(S)),
           NEW n \in 1 .. Len(ss), n <= Len(tt),
           NEW f, Flattens(f, ss, Len(ss)), NEW g, Flattens(g, tt, Len(tt)),
           \A i \in 1 .. n : ss[i] = tt[i]
    PROVE f[n] \in Seq(S) /\ f[n] = g[n]
<1> DEFINE Agree(m) == f[m] \in Seq(S) /\ f[m] = g[m]
<1> DEFINE T == {m \in 1 .. n : ~Agree(m)}
<1>1. Len(ss) \in Nat /\ Len(tt) \in Nat /\ n \in Nat
  OBVIOUS
<1>2. SUFFICES ASSUME T # {} PROVE FALSE
  <2>1. n \in 1 .. n
    OBVIOUS
  <2> HIDE DEF Agree
  <2> QED
    BY <2>1 DEF Agree
<1>3. PICK m \in T : \A y \in T : m <= y
  <2>1. T \subseteq Nat
    OBVIOUS
  <2> QED
    BY <1>2, <2>1, LeastExists
<1>4. m \in 1 .. n /\ ~Agree(m) /\ m \in 1 .. Len(ss) /\ m \in 1 .. Len(tt)
  BY <1>1
<1>5. /\ f[m] = IF m = 1 THEN ss[m] ELSE f[m - 1] \o ss[m]
      /\ g[m] = IF m = 1 THEN tt[m] ELSE g[m - 1] \o tt[m]
  BY <1>4 DEF Flattens
<1>6. ss[m] = tt[m] /\ ss[m] \in Seq(S)
  <2>1. ss[m] \in Seq(S)
    BY <1>4, ElementOfSeq
  <2> QED
    BY <2>1, <1>4
<1>7. CASE m = 1
  BY <1>4, <1>5, <1>6, <1>7
<1>8. CASE m # 1
  <2>1. m - 1 \in 1 .. n /\ ~(m <= m - 1)
    BY <1>4, <1>8, <1>1
  <2>2. Agree(m - 1)
    BY <2>1, <1>3
  <2>3. f[m] = f[m - 1] \o ss[m] /\ g[m] = g[m - 1] \o tt[m]
    BY <1>5, <1>8
  <2>4. f[m - 1] \o ss[m] \in Seq(S)
    BY <2>2, <1>6, ConcatProperties
  <2> QED
    BY <1>4, <1>6, <2>2, <2>3, <2>4
<1> QED
  BY <1>7, <1>8

\* FlattenSeq returns its last value.
LEMMA FlattenIs ==
    ASSUME NEW S, NEW ss \in Seq(Seq(S)), ss # <<>>
    PROVE \E f : /\ Flattens(f, ss, Len(ss))
                 /\ FlattenSeq(ss) = f[Len(ss)]
                 /\ f[Len(ss)] \in Seq(S)
<1>1. Len(ss) \in Nat /\ Len(ss) # 0 /\ Len(ss) \in 1 .. Len(ss)
  BY EmptySeq
<1> DEFINE f == CHOOSE g : Flattens(g, ss, Len(ss))
<1>2. Flattens(f, ss, Len(ss))
  BY <1>1, FlattensExists
<1>3. FlattenSeq(ss) = f[Len(ss)]
  BY <1>1 DEF FlattenSeq, Flattens
<1> HIDE DEF f
<1>4. f[Len(ss)] \in Seq(S)
  BY <1>1, <1>2, FlattensAgree
<1> QED
  BY <1>2, <1>3, <1>4

LEMMA FlattenEmpty == FlattenSeq(<<>>) = <<>>
BY DEF FlattenSeq

LEMMA FlattenType ==
    ASSUME NEW S, NEW ss \in Seq(Seq(S))
    PROVE FlattenSeq(ss) \in Seq(S)
BY FlattenIs, FlattenEmpty, EmptySeq

\* The last sequence is what comes last.
LEMMA FlattenAppend ==
    ASSUME NEW S, NEW ss \in Seq(Seq(S)), NEW s \in Seq(S)
    PROVE FlattenSeq(Append(ss, s)) = FlattenSeq(ss) \o s
<1> DEFINE tt == Append(ss, s)
           n == Len(ss)
<1>1. /\ tt \in Seq(Seq(S)) /\ tt # <<>> /\ Len(tt) = n + 1
      /\ \A i \in 1 .. n : tt[i] = ss[i]
      /\ tt[n + 1] = s /\ n \in Nat
  BY AppendProperties
<1> HIDE DEF tt
<1>2. PICK g : Flattens(g, tt, Len(tt)) /\ FlattenSeq(tt) = g[Len(tt)]
  BY <1>1, FlattenIs
<1>3. n + 1 \in 1 .. Len(tt)
  BY <1>1
<1>4. g[n + 1] = IF n + 1 = 1 THEN tt[n + 1] ELSE g[n + 1 - 1] \o tt[n + 1]
  <2>1. g = [i \in 1 .. Len(tt) |-> IF i = 1 THEN tt[i] ELSE g[i - 1] \o tt[i]]
    BY <1>2 DEF Flattens
  <2>2. \A i \in 1 .. Len(tt) : g[i] = IF i = 1 THEN tt[i] ELSE g[i - 1] \o tt[i]
    BY <2>1, Zenon
  <2> QED
    BY <2>2, <1>3
<1>5. CASE ss = <<>>
  <2>1. n = 0
    BY <1>5
  <2>2. FlattenSeq(tt) = s
    BY <1>1, <1>2, <1>4, <2>1
  <2>3. FlattenSeq(ss) = <<>> /\ <<>> \o s = s
    BY <1>5, FlattenEmpty, ConcatEmptySeq
  <2> QED
    BY <2>2, <2>3 DEF tt
<1>6. CASE ss # <<>>
  <2>1. PICK f : Flattens(f, ss, n) /\ FlattenSeq(ss) = f[n]
    BY <1>6, FlattenIs
  <2>2. n # 0
    BY <1>6, EmptySeq
  <2>3. n \in 1 .. n /\ n <= Len(tt)
    BY <1>1, <2>2
  <2>4. f[n] = g[n]
    <3>1. \A i \in 1 .. n : ss[i] = tt[i]
      BY <1>1
    <3>2. Flattens(f, ss, Len(ss)) /\ Flattens(g, tt, Len(tt))
      BY <1>2, <2>1
    <3>3. n \in 1 .. Len(ss) /\ n <= Len(tt)
      BY <2>3
    <3> HIDE DEF n
    <3>4. ASSUME NEW k \in 1 .. Len(ss), k <= Len(tt), \A i \in 1 .. k : ss[i] = tt[i]
          PROVE f[k] = g[k]
      <4>1. ss \in Seq(Seq(S)) /\ tt \in Seq(Seq(S))
        BY <1>1
      <4> QED
        BY <3>4, <4>1, <3>2, FlattensAgree
    <3> QED
      BY <3>1, <3>3, <3>4
  <2>5. g[n + 1] = g[n] \o s
    <3>1. n + 1 # 1 /\ n + 1 - 1 = n
      BY <1>1, <2>2
    <3> QED
      BY <1>1, <1>4, <3>1
  <2>6. FlattenSeq(tt) = g[n + 1]
    BY <1>1, <1>2
  <2> QED
    BY <2>1, <2>4, <2>5, <2>6 DEF tt
<1> QED
  BY <1>5, <1>6

\* The concatenation of two sequences of sequences.
LEMMA FlattenConcat ==
    ASSUME NEW S, NEW ss \in Seq(Seq(S)), NEW tt \in Seq(Seq(S))
    PROVE FlattenSeq(ss \o tt) = FlattenSeq(ss) \o FlattenSeq(tt)
<1> DEFINE P(u) == FlattenSeq(ss \o u) = FlattenSeq(ss) \o FlattenSeq(u)
           T == {n \in Nat : \E u \in Seq(Seq(S)) : Len(u) = n /\ ~P(u)}
<1>1. SUFFICES ASSUME ~P(tt) PROVE FALSE
  OBVIOUS
<1>2. Len(tt) \in T
  BY <1>1
<1>3. PICK n \in T : \A y \in T : n <= y
  <2>1. T \subseteq Nat /\ T # {}
    BY <1>2
  <2> QED
    BY <2>1, LeastExists
<1>4. PICK u \in Seq(Seq(S)) : Len(u) = n /\ ~P(u)
  OBVIOUS
<1>5. FlattenSeq(ss) \in Seq(S)
  BY FlattenType
<1>6. u # <<>>
  <2>1. ss \o <<>> = ss
    BY ConcatEmptySeq
  <2>2. FlattenSeq(ss) \o <<>> = FlattenSeq(ss)
    BY <1>5, ConcatEmptySeq
  <2> QED
    BY <1>4, <2>1, <2>2, FlattenEmpty
<1>7. PICK v \in Seq(Seq(S)), e \in Seq(S) : u = Append(v, e)
  BY <1>6, SequenceEmptyOrAppend
<1>8. Len(v) \in Nat /\ n = Len(v) + 1
  BY <1>4, <1>7, AppendProperties
<1>9. P(v)
  <2>1. Len(v) \notin T
    <3>1. ~(n <= Len(v))
      BY <1>8
    <3> QED
      BY <1>3, <3>1
  <2> QED
    BY <2>1, <1>8
<1>10. ss \o u = Append(ss \o v, e)
  <2>1. ss \o v \in Seq(Seq(S)) /\ <<e>> \in Seq(Seq(S))
    BY ConcatProperties
  <2>2. u = v \o <<e>> /\ Append(ss \o v, e) = (ss \o v) \o <<e>>
    BY <1>7, <2>1, AppendIsConcat
  <2>3. ss \o (v \o <<e>>) = (ss \o v) \o <<e>>
    BY <2>1, ConcatAssociative
  <2> QED
    BY <2>2, <2>3
<1>11. FlattenSeq(v) \in Seq(S) /\ ss \o v \in Seq(Seq(S))
  BY FlattenType, ConcatProperties
<1>12. FlattenSeq(ss \o u) = (FlattenSeq(ss) \o FlattenSeq(v)) \o e
  BY <1>9, <1>10, <1>11, FlattenAppend
<1>13. FlattenSeq(u) = FlattenSeq(v) \o e
  BY <1>7, FlattenAppend
<1>14. FlattenSeq(ss \o u) = FlattenSeq(ss) \o FlattenSeq(u)
  <2>1. (FlattenSeq(ss) \o FlattenSeq(v)) \o e = FlattenSeq(ss) \o (FlattenSeq(v) \o e)
    <3> DEFINE x == FlattenSeq(ss)
               y == FlattenSeq(v)
    <3>1. x \in Seq(S) /\ y \in Seq(S) /\ e \in Seq(S)
      BY <1>5, <1>7, <1>11
    <3> HIDE DEF x, y, P, T
    <3>2. (x \o y) \o e = x \o (y \o e)
      BY <3>1, Associative
    <3> QED
      BY <3>2 DEF x, y
  <2> QED
    BY <1>12, <1>13, <2>1
<1> QED
  BY <1>4, <1>14

\* One sequence.
LEMMA FlattenOne ==
    ASSUME NEW S, NEW s \in Seq(S)
    PROVE FlattenSeq(<<s>>) = s
<1>1. <<>> \in Seq(Seq(S)) /\ Append(<<>>, s) = <<s>>
  OBVIOUS
<1>2. FlattenSeq(<<s>>) = FlattenSeq(<<>>) \o s
  BY <1>1, FlattenAppend
<1> QED
  BY <1>2, FlattenEmpty, ConcatEmptySeq

----------------------------------------------------------------------------
(* Sequences and what is in them                                           *)

\* What is in a concatenation.
LEMMA ToSetConcat ==
    ASSUME NEW S, NEW p \in Seq(S), NEW q \in Seq(S)
    PROVE ToSet(p \o q) = ToSet(p) \cup ToSet(q)
<1> DEFINE r == p \o q
<1>1. /\ r \in Seq(S) /\ Len(r) = Len(p) + Len(q)
      /\ \A i \in 1 .. Len(p) + Len(q) :
            r[i] = IF i <= Len(p) THEN p[i] ELSE q[i - Len(p)]
  BY ConcatProperties
<1>2. /\ Len(p) \in Nat /\ Len(q) \in Nat /\ DOMAIN p = 1 .. Len(p)
      /\ DOMAIN q = 1 .. Len(q)
  BY LenProperties
<1>3. DOMAIN r = 1 .. Len(p) + Len(q)
  BY <1>1, LenProperties
<1> HIDE DEF r
<1>4. ASSUME NEW i \in DOMAIN r PROVE r[i] \in ToSet(p) \cup ToSet(q)
  <2>1. CASE i <= Len(p)
    <3>1. i \in DOMAIN p /\ r[i] = p[i]
      BY <1>1, <1>2, <1>3, <2>1
    <3> QED
      BY <3>1 DEF ToSet
  <2>2. CASE ~(i <= Len(p))
    <3>1. i - Len(p) \in DOMAIN q /\ r[i] = q[i - Len(p)]
      BY <1>1, <1>2, <1>3, <2>2
    <3> QED
      BY <3>1 DEF ToSet
  <2> QED
    BY <2>1, <2>2
<1>5. ASSUME NEW i \in DOMAIN p PROVE p[i] \in ToSet(r)
  <2>1. i \in DOMAIN r /\ r[i] = p[i]
    BY <1>1, <1>2, <1>3
  <2> QED
    BY <2>1 DEF ToSet
<1>6. ASSUME NEW i \in DOMAIN q PROVE q[i] \in ToSet(r)
  <2>1. Len(p) + i \in DOMAIN r /\ ~(Len(p) + i <= Len(p)) /\ Len(p) + i - Len(p) = i
    BY <1>2, <1>3
  <2>2. r[Len(p) + i] = q[i]
    BY <1>1, <1>3, <2>1
  <2> QED
    BY <2>1, <2>2 DEF ToSet
<1>7. ToSet(r) = ToSet(p) \cup ToSet(q)
  BY <1>4, <1>5, <1>6 DEF ToSet
<1> QED
  BY <1>7 DEF r

LEMMA ToSetEmpty == ToSet(<<>>) = {}
BY DEF ToSet

\* A sequence is cut in two anywhere.
LEMMA CutInTwo ==
    ASSUME NEW S, NEW q \in Seq(S), NEW n \in 0 .. Len(q)
    PROVE /\ SubSeq(q, 1, n) \in Seq(S) /\ SubSeq(q, n + 1, Len(q)) \in Seq(S)
          /\ q = SubSeq(q, 1, n) \o SubSeq(q, n + 1, Len(q))
<1>1. Len(q) \in Nat /\ \A i \in 1 .. Len(q) : q[i] \in S
  BY LenProperties, ElementOfSeq
<1>2. n \in Int /\ Len(q) \in Int /\ n + 1 \in Int /\ 1 \in Int
  BY <1>1
<1>3. (\A i \in 1 .. n : q[i] \in S) /\ (\A i \in n + 1 .. Len(q) : q[i] \in S)
  BY <1>1
<1>4. SubSeq(q, 1, n) \in Seq(S) /\ SubSeq(q, n + 1, Len(q)) \in Seq(S)
  BY <1>2, <1>3, SubSeqProperties
<1>5. 1 \in 1 .. Len(q) + 1 /\ n \in 1 - 1 .. Len(q) /\ Len(q) \in n .. Len(q)
  BY <1>1
<1>6. SubSeq(q, 1, n) \o SubSeq(q, n + 1, Len(q)) = SubSeq(q, 1, Len(q))
  BY <1>5, ConcatAdjacentSubSeq
<1>7. SubSeq(q, 1, Len(q)) = q
  BY SubSeqFull
<1> QED
  BY <1>4, <1>6, <1>7

LEMMA FirstAndRest ==
    ASSUME NEW S, NEW q \in Seq(S), q # <<>>
    PROVE /\ Head(q) \in S /\ Tail(q) \in Seq(S)
          /\ q = <<Head(q)>> \o Tail(q)
          /\ SubSeq(q, 2, Len(q)) = Tail(q)
<1>1. Head(q) \in S /\ Tail(q) \in Seq(S) /\ SubSeq(q, 2, Len(q)) = Tail(q)
  BY HeadTailProperties, TailIsSubSeq
<1>2. Len(q) \in Nat \ {0} /\ SubSeq(q, 1, Len(q)) = q
  BY EmptySeq, SubSeqFull
<1>3. 1 \in 1 .. Len(q) /\ Len(q) \in 1 .. Len(q)
  BY <1>2
<1>4. SubSeq(q, 1, Len(q)) = <<q[1]>> \o SubSeq(q, 1 + 1, Len(q))
  BY <1>3, SubSeqRecursiveFirst
<1>5. Head(q) = q[1] /\ 1 + 1 = 2
  BY <1>2
<1> QED
  BY <1>1, <1>2, <1>4, <1>5

----------------------------------------------------------------------------
(* What WriteManys are about to write                                      *)

LEMMA ContentType ==
    ASSUME NEW c \in Calls
    PROVE Content(c) \in Bytes
BY FlattenType DEF Content, Calls, Bytes

LEMMA ContentConcat ==
    ASSUME NEW c \in Calls, NEW d \in Calls
    PROVE c \o d \in Calls /\ Content(c \o d) = Content(c) \o Content(d)
<1>1. c \o d \in Calls /\ FlattenSeq(c \o d) = FlattenSeq(c) \o FlattenSeq(d)
  BY FlattenConcat, ConcatProperties DEF Calls
<1> DEFINE x == FlattenSeq(c)
           y == FlattenSeq(d)
<1>2. x \in Seq(Bytes) /\ y \in Seq(Bytes)
  BY FlattenType DEF Calls
<1> HIDE DEF x, y
<1>3. FlattenSeq(x \o y) = FlattenSeq(x) \o FlattenSeq(y)
  BY <1>2, FlattenConcat DEF Bytes
<1> QED
  BY <1>1, <1>3 DEF Content, x, y

LEMMA ContentOne ==
    ASSUME NEW p \in Seq(Bytes)
    PROVE <<p>> \in Calls /\ Content(<<p>>) = FlattenSeq(p)
BY FlattenOne DEF Content, Calls

LEMMA ContentEmpty == <<>> \in Calls /\ Content(<<>>) = <<>>
BY FlattenEmpty DEF Content, Calls

\* What does not fit goes after what is buffered.
LEMMA PassOnContent ==
    ASSUME NEW b \in Bytes, NEW p \in Seq(Bytes)
    PROVE PassOn(b, p) \in Calls /\ Content(PassOn(b, p)) = b \o FlattenSeq(p)
<1>1. <<b>> \in Seq(Bytes) /\ FlattenSeq(<<b>>) = b
  BY FlattenOne DEF Bytes
<1>2. CASE setup.concat
  <2>1. <<b>> \o p \in Seq(Bytes) /\ FlattenSeq(<<b>> \o p) = b \o FlattenSeq(p)
    BY <1>1, ConcatProperties, FlattenConcat DEF Bytes
  <2>2. PassOn(b, p) = <<<<b>> \o p>>
    BY <1>2 DEF PassOn
  <2> QED
    BY <2>1, <2>2, ContentOne
<1>3. CASE ~setup.concat
  <2>1. <<p>> \in Calls /\ Content(<<p>>) = FlattenSeq(p) /\ FlattenSeq(p) \in Bytes
    BY ContentOne, FlattenType DEF Bytes
  <2>2. CASE b = <<>>
    <3>1. PassOn(b, p) = <<>> \o <<p>> /\ <<>> \o <<p>> = <<p>>
      BY <1>3, <2>2, <2>1, ConcatEmptySeq DEF PassOn, Calls
    <3>2. <<>> \o FlattenSeq(p) = FlattenSeq(p)
      BY <2>1, ConcatEmptySeq DEF Bytes
    <3> QED
      BY <2>1, <2>2, <3>1, <3>2
  <2>3. CASE b # <<>>
    <3>1. PassOn(b, p) = <<<<b>>>> \o <<p>>
      BY <1>3, <2>3 DEF PassOn
    <3>2. <<<<b>>>> \in Calls /\ Content(<<<<b>>>>) = b
      BY <1>1, ContentOne
    <3> QED
      BY <2>1, <3>1, <3>2, ContentConcat
  <2> QED
    BY <2>2, <2>3
<1> QED
  BY <1>2, <1>3

\* It is one or two calls.
LEMMA PassOnCalls ==
    ASSUME NEW b \in Bytes, NEW p \in Seq(Bytes)
    PROVE /\ PassOn(b, p) # <<>>
          /\ \A i \in DOMAIN PassOn(b, p) : PassOn(b, p)[i] \in {<<b>>, p, <<b>> \o p}
<1>1. CASE setup.concat
  BY <1>1 DEF PassOn
<1>2. CASE ~setup.concat /\ b = <<>>
  <2>1. <<>> \o <<p>> = <<p>>
    BY ConcatEmptySeq
  <2> QED
    BY <1>2, <2>1 DEF PassOn
<1>3. CASE ~setup.concat /\ b # <<>>
  <2>1. PassOn(b, p) = <<<<b>>>> \o <<p>>
    BY <1>3 DEF PassOn
  <2>2. ASSUME NEW x, NEW y, NEW i \in DOMAIN (<<x>> \o <<y>>)
        PROVE (<<x>> \o <<y>>)[i] \in {x, y}
    <3>1. <<x>> \in Seq({x, y}) /\ <<y>> \in Seq({x, y})
      OBVIOUS
    <3>2. <<x>> \o <<y>> \in Seq({x, y})
      BY <3>1, ConcatProperties
    <3> DEFINE c == <<x>> \o <<y>>
    <3> HIDE DEF c
    <3>3. i \in 1 .. Len(c) /\ c \in Seq({x, y})
      BY <3>2, LenProperties DEF c
    <3>4. c[i] \in {x, y}
      BY <3>3, ElementOfSeq
    <3> QED
      BY <3>4 DEF c
  <2>3. ASSUME NEW x, NEW y PROVE <<x>> \o <<y>> # <<>>
    <3>1. <<x>> \in Seq({x, y}) /\ <<y>> \in Seq({x, y}) /\ <<x>> # <<>>
      OBVIOUS
    <3> QED
      BY <3>1, ConcatEqualIffEmpty
  <2> QED
    BY <2>1, <2>2, <2>3
<1> QED
  BY <1>1, <1>2, <1>3

----------------------------------------------------------------------------
(* The text of a line                                                      *)

Text(o) == FlattenSeq(LinePieces(o))

\* A line's pieces, one after the other, are its units, one after the other.
LEMMA TextIs ==
    ASSUME NEW o \in Object
    PROVE /\ LinePieces(o) \in Seq(Bytes) /\ Text(o) \in Bytes
          /\ Size(o) \in Nat /\ DOMAIN Text(o) = 1 .. Size(o)
          /\ \A k \in 1 .. Size(o) : Text(o)[k] = <<o, k>>
<1> DEFINE n == Len(Ends[o])
           End(m) == IF m = 0 THEN 0 ELSE Ends[o][m]
           ss == LinePieces(o)
<1>1. /\ n \in Nat /\ DOMAIN Ends[o] = 1 .. n
      /\ \A i \in 1 .. n : Ends[o][i] \in Nat
      /\ \A i, j \in 1 .. n : i <= j => Ends[o][i] <= Ends[o][j]
  <2>1. Ends[o] \in Seq(Nat)
    BY PieceAssumption
  <2>2. \A i, j \in DOMAIN Ends[o] : i <= j => Ends[o][i] <= Ends[o][j]
    BY PieceAssumption
  <2> QED
    BY <2>1, <2>2, LenProperties, ElementOfSeq
<1>2. ASSUME NEW m \in 0 .. n PROVE End(m) \in Nat
  BY <1>1
<1>3. ASSUME NEW i \in 1 .. n
      PROVE /\ End(i - 1) \in Nat /\ End(i) - End(i - 1) \in Nat
            /\ ss[i] = [k \in 1 .. End(i) - End(i - 1) |-> <<o, End(i - 1) + k>>]
            /\ ss[i] \in Bytes
  <2>1. i - 1 \in 0 .. n /\ i \in Nat /\ i - 1 # 0 => i - 1 \in 1 .. n
    BY <1>1
  <2>2. End(i - 1) \in Nat /\ End(i) \in Nat /\ End(i - 1) <= End(i)
    BY <1>1, <2>1
  <2>3. ss[i] = [k \in 1 .. End(i) - End(i - 1) |-> <<o, End(i - 1) + k>>]
    <3> DEFINE b == IF i = 1 THEN 0 ELSE Ends[o][i - 1]
    <3>1. ss[i] = [k \in 1 .. Ends[o][i] - b |-> <<o, b + k>>]
      BY <1>1 DEF LinePieces
    <3>2. End(i - 1) = b /\ End(i) = Ends[o][i]
      BY <1>1
    <3> HIDE DEF b, End, ss
    <3> QED
      BY <3>1, <3>2
  <2> DEFINE e == End(i - 1)
             d == End(i) - End(i - 1)
  <2>4. e \in Nat /\ d \in Nat /\ ss[i] = [k \in 1 .. d |-> <<o, e + k>>]
    BY <2>2, <2>3
  <2> HIDE DEF e, d, End
  <2>5. \A k \in 1 .. d : <<o, e + k>> \in Unit
    BY <2>4 DEF Unit
  <2>6. [k \in 1 .. d |-> <<o, e + k>>] \in Seq(Unit)
    <3>1. [k \in 1 .. d |-> <<o, e + k>>] \in [1 .. d -> Unit]
      BY <2>5
    <3> QED
      BY <3>1, <2>4, SeqDef
  <2>7. ss[i] \in Bytes
    BY <2>4, <2>6 DEF Bytes
  <2> QED
    BY <2>4, <2>7 DEF e, d
<1>4. ss \in Seq(Bytes) /\ Len(ss) = n
  <2>1. DOMAIN ss = 1 .. n
    BY <1>1 DEF LinePieces
  <2>2. ss = [i \in 1 .. n |-> ss[i]]
    BY <1>1 DEF LinePieces
  <2> HIDE DEF ss, n
  <2>3. [i \in 1 .. n |-> ss[i]] \in Seq(Bytes)
    <3>1. [i \in 1 .. n |-> ss[i]] \in [1 .. n -> Bytes]
      BY <1>3
    <3> QED
      BY <3>1, <1>1, SeqDef
  <2> QED
    BY <1>1, <2>1, <2>2, <2>3, LenProperties
<1> HIDE DEF ss, n
<1> DEFINE upto(m) == FlattenSeq(SubSeq(ss, 1, m))
           Good(m) == /\ upto(m) \in Bytes /\ Len(upto(m)) = End(m)
                      /\ \A k \in 1 .. End(m) : upto(m)[k] = <<o, k>>
           T == {m \in 0 .. n : ~Good(m)}
<1>5. Good(n)
  <2>1. SUFFICES ASSUME T # {} PROVE FALSE
    <3>1. n \in 0 .. n
      BY <1>1
    <3> HIDE DEF Good
    <3> QED
      BY <3>1
  <2>2. PICK m \in T : \A y \in T : m <= y
    <3>1. T \subseteq Nat
      BY <1>1
    <3> HIDE DEF T
    <3> QED
      BY <2>1, <3>1, LeastExists
  <2>3. m \in 0 .. n /\ ~Good(m)
    OBVIOUS
  <2>4. m # 0
    <3>1. SubSeq(ss, 1, 0) = <<>>
      BY SubSeqEmpty
    <3>2. upto(0) = <<>> /\ End(0) = 0
      BY <3>1, FlattenEmpty
    <3>3. Good(0)
      <4>1. <<>> \in Bytes /\ Len(<<>>) = 0
        BY DEF Bytes
      <4>2. upto(0) \in Bytes /\ Len(upto(0)) = End(0)
        BY <3>2, <4>1
      <4>3. \A k \in 1 .. End(0) : upto(0)[k] = <<o, k>>
        <5>1. 1 .. End(0) = {}
          BY <3>2
        <5> QED
          BY <5>1
      <4> HIDE DEF upto, End
      <4> QED
        BY <4>2, <4>3
    <3> QED
      BY <2>3, <3>3
  <2>5. m \in 1 .. n /\ m - 1 \in 0 .. n /\ ~(m <= m - 1)
    BY <1>1, <2>3, <2>4
  <2>6. Good(m - 1)
    <3> HIDE DEF Good
    <3> QED
      BY <2>2, <2>5
  <2>7. SubSeq(ss, 1, m - 1) \in Seq(Bytes) /\ ss[m] \in Bytes
    BY <1>1, <1>3, <1>4, <2>5, CutInTwo
  <2>8. SubSeq(ss, 1, m) = Append(SubSeq(ss, 1, m - 1), ss[m])
    <3>1. 1 \in 1 .. Len(ss) /\ m \in 1 .. Len(ss)
      BY <1>1, <1>4, <2>5
    <3>2. SubSeq(ss, 1, m) = SubSeq(ss, 1, m - 1) \o <<ss[m]>>
      BY <1>4, <3>1, SubSeqRecursiveSecond
    <3> QED
      BY <2>7, <3>2, AppendIsConcat
  <2>9. upto(m) = upto(m - 1) \o ss[m]
    BY <2>7, <2>8, FlattenAppend DEF Bytes
  <2> DEFINE e == End(m - 1)
             d == End(m) - End(m - 1)
             q == upto(m - 1)
             p == ss[m]
  <2>10. /\ e \in Nat /\ d \in Nat /\ End(m) = e + d
         /\ p = [k \in 1 .. d |-> <<o, e + k>>]
    BY <1>2, <1>3, <2>5
  <2>11. /\ q \in Seq(Unit) /\ Len(q) = e
         /\ \A k \in 1 .. e : q[k] = <<o, k>>
    BY <2>6 DEF Bytes
  <2>12. p \in Seq(Unit)
    BY <2>7 DEF Bytes
  <2> HIDE DEF e, d, q, p, upto, End
  <2>13. Len(p) = d
    BY <2>10
  <2>14. /\ q \o p \in Seq(Unit) /\ Len(q \o p) = e + d
         /\ \A k \in 1 .. e + d :
               (q \o p)[k] = IF k <= e THEN q[k] ELSE p[k - e]
    BY <2>11, <2>12, <2>13, ConcatProperties
  <2>15. ASSUME NEW k \in 1 .. e + d PROVE (q \o p)[k] = <<o, k>>
    <3>1. CASE k <= e
      BY <2>10, <2>11, <2>14, <3>1
    <3>2. CASE ~(k <= e)
      <4>1. k - e \in 1 .. d /\ e + (k - e) = k
        BY <2>10, <3>2
      <4>2. p[k - e] = <<o, e + (k - e)>>
        BY <2>10, <4>1
      <4> QED
        BY <2>14, <3>2, <4>1, <4>2
    <3> QED
      BY <3>1, <3>2
  <2>16. upto(m) = q \o p
    BY <2>9 DEF q, p
  <2>17. Good(m)
    BY <2>10, <2>14, <2>15, <2>16 DEF Bytes
  <2> QED
    BY <2>3, <2>17
<1>6. upto(n) = Text(o)
  <2>1. SubSeq(ss, 1, n) = ss
    BY <1>4, SubSeqFull
  <2> QED
    BY <2>1 DEF Text, ss
<1>7. End(n) = Size(o)
  BY <1>5, <1>6 DEF Size, Text
<1>8. Text(o) \in Bytes /\ Size(o) \in Nat /\ Len(Text(o)) = Size(o)
  <2>1. End(n) \in Nat
    BY <1>1, <1>2
  <2> HIDE DEF End, upto
  <2> QED
    BY <1>5, <1>6, <1>7, <2>1
<1>9. \A k \in 1 .. Size(o) : Text(o)[k] = <<o, k>>
  <2> HIDE DEF End, upto
  <2> QED
    BY <1>5, <1>6, <1>7
<1>10. DOMAIN Text(o) = 1 .. Size(o)
  BY <1>8, LenProperties DEF Bytes
<1> QED
  BY <1>4, <1>8, <1>9, <1>10 DEF ss

\* Its units are what is in it.
LEMMA TextUnits ==
    ASSUME NEW o \in Object
    PROVE ToSet(Text(o)) = Units(o)
BY TextIs DEF ToSet, Units

----------------------------------------------------------------------------
(* Whole and ordered sequences                                             *)

LEMMA BytesAreMarks == \A q \in Bytes : q \in Seq(Mark)
BY SeqMonotonic DEF Bytes, Mark

LEMMA CutIsApart == Cut[1] = None /\ None \notin Object /\ None \notin Thread
BY NoneAssumption DEF Cut

\* What is whole stays so when what is whole follows.
LEMMA WholeConcat ==
    ASSUME NEW p \in Seq(Mark), NEW q \in Seq(Mark), Whole(p), Whole(q)
    PROVE Whole(p \o q)
<1> DEFINE r == p \o q
           m == Len(p)
           n == Len(q)
<1>1. /\ r \in Seq(Mark) /\ Len(r) = m + n
      /\ \A i \in 1 .. m + n : r[i] = IF i <= m THEN p[i] ELSE q[i - m]
  BY ConcatProperties
<1>2. m \in Nat /\ n \in Nat /\ DOMAIN p = 1 .. m /\ DOMAIN q = 1 .. n
  BY LenProperties
<1>3. DOMAIN r = 1 .. m + n
  BY <1>1, LenProperties
<1> HIDE DEF r
<1>4. \A i \in 1 .. m : i \in 1 .. m + n /\ r[i] = p[i]
  BY <1>1, <1>2
<1>5. \A i \in 1 .. n : m + i \in 1 .. m + n /\ r[m + i] = q[i]
  <2> TAKE i \in 1 .. n
  <2>1. m + i \in 1 .. m + n /\ ~(m + i <= m) /\ m + i - m = i
    BY <1>2
  <2> QED
    BY <1>1, <2>1
<1> SUFFICES ASSUME NEW i \in DOMAIN r, r[i] # Cut
             PROVE /\ r[i][2] > 1 => i > 1 /\ r[i - 1] = <<r[i][1], r[i][2] - 1>>
                   /\ r[i][2] < Size(r[i][1]) =>
                         i < Len(r) /\ r[i + 1] \in {<<r[i][1], r[i][2] + 1>>, Cut}
  BY DEF Whole, r
<1>6. CASE i <= m
  <2>1. i \in DOMAIN p /\ r[i] = p[i]
    BY <1>2, <1>3, <1>4, <1>6
  <2>2. /\ p[i][2] > 1 => i > 1 /\ p[i - 1] = <<p[i][1], p[i][2] - 1>>
        /\ p[i][2] < Size(p[i][1]) =>
              i < m /\ p[i + 1] \in {<<p[i][1], p[i][2] + 1>>, Cut}
    BY <2>1 DEF Whole
  <2>3. i > 1 => r[i - 1] = p[i - 1]
    <3>1. i > 1 => i - 1 \in 1 .. m
      BY <1>2, <2>1
    <3> QED
      BY <3>1, <1>4
  <2>4. i < m => r[i + 1] = p[i + 1] /\ i < Len(r)
    <3>1. i < m => i + 1 \in 1 .. m /\ i < m + n
      BY <1>2, <2>1
    <3> QED
      BY <3>1, <1>1, <1>4
  <2> QED
    BY <2>1, <2>2, <2>3, <2>4
<1>7. CASE ~(i <= m)
  <2> DEFINE j == i - m
  <2>1. j \in DOMAIN q /\ i = m + j /\ j \in Int
    BY <1>2, <1>3, <1>7
  <2> HIDE DEF j
  <2>2. r[i] = q[j]
    BY <1>2, <1>5, <2>1
  <2>3. /\ q[j][2] > 1 => j > 1 /\ q[j - 1] = <<q[j][1], q[j][2] - 1>>
        /\ q[j][2] < Size(q[j][1]) =>
              j < n /\ q[j + 1] \in {<<q[j][1], q[j][2] + 1>>, Cut}
    BY <2>1, <2>2 DEF Whole
  <2>4. j > 1 => i > 1 /\ r[i - 1] = q[j - 1]
    <3>1. j > 1 => j - 1 \in 1 .. n /\ i - 1 = m + (j - 1) /\ i > 1
      BY <1>2, <2>1
    <3> QED
      BY <3>1, <1>5
  <2>5. j < n => i < Len(r) /\ r[i + 1] = q[j + 1]
    <3>1. j < n => j + 1 \in 1 .. n /\ i + 1 = m + (j + 1) /\ i < m + n
      <4>1. m \in Nat /\ n \in Nat /\ j \in 1 .. n /\ i = m + j
        BY <1>2, <2>1
      <4> HIDE DEF m, n
      <4> QED
        BY <4>1
    <3> QED
      BY <3>1, <1>1, <1>5
  <2> QED
    BY <2>2, <2>3, <2>4, <2>5
<1> QED
  BY <1>6, <1>7

\* A line is whole.
LEMMA WholeText ==
    ASSUME NEW o \in Object
    PROVE Whole(Text(o))
<1> DEFINE q == Text(o)
<1>1. /\ q \in Bytes /\ Size(o) \in Nat /\ DOMAIN q = 1 .. Size(o)
      /\ \A k \in 1 .. Size(o) : q[k] = <<o, k>>
  BY TextIs
<1>2. Len(q) = Size(o)
  BY <1>1, LenProperties DEF Bytes
<1> HIDE DEF q
<1> SUFFICES ASSUME NEW i \in DOMAIN q
             PROVE /\ q[i][2] > 1 => i > 1 /\ q[i - 1] = <<q[i][1], q[i][2] - 1>>
                   /\ q[i][2] < Size(q[i][1]) =>
                         i < Len(q) /\ q[i + 1] \in {<<q[i][1], q[i][2] + 1>>, Cut}
  BY DEF Whole, q
<1>3. q[i] = <<o, i>> /\ i \in 1 .. Size(o)
  BY <1>1
<1>4. q[i][1] = o /\ q[i][2] = i
  BY <1>3
<1>5. i > 1 => q[i - 1] = <<o, i - 1>>
  BY <1>1, <1>3
<1>6. i < Size(o) => q[i + 1] = <<o, i + 1>>
  BY <1>1, <1>3
<1> QED
  BY <1>2, <1>4, <1>5, <1>6

LEMMA WholeEmpty == Whole(<<>>)
BY DEF Whole

\* Where a write fails the line stops.
LEMMA WholeCut ==
    ASSUME NEW p \in Seq(Mark), NEW x \in Seq(Mark), Whole(p \o x)
    PROVE Whole(Append(p, Cut))
<1> DEFINE r == p \o x
           a == Append(p, Cut)
           m == Len(p)
<1>1. /\ r \in Seq(Mark) /\ Len(r) = m + Len(x)
      /\ \A i \in 1 .. m + Len(x) : r[i] = IF i <= m THEN p[i] ELSE x[i - m]
  BY ConcatProperties
<1>2. m \in Nat /\ Len(x) \in Nat
  BY LenProperties
<1>3. /\ a \in Seq(Mark) /\ Len(a) = m + 1
      /\ \A i \in 1 .. m : a[i] = p[i]
      /\ a[m + 1] = Cut
  BY AppendProperties DEF Mark
<1>4. DOMAIN a = 1 .. m + 1 /\ DOMAIN r = 1 .. m + Len(x)
  BY <1>1, <1>3, LenProperties
<1> HIDE DEF a, r
<1>5. \A i \in 1 .. m : i \in DOMAIN r /\ a[i] = r[i]
  BY <1>1, <1>2, <1>3, <1>4
<1> SUFFICES ASSUME NEW i \in DOMAIN a, a[i] # Cut
             PROVE /\ a[i][2] > 1 => i > 1 /\ a[i - 1] = <<a[i][1], a[i][2] - 1>>
                   /\ a[i][2] < Size(a[i][1]) =>
                         i < Len(a) /\ a[i + 1] \in {<<a[i][1], a[i][2] + 1>>, Cut}
  BY DEF Whole, a
<1>6. i \in 1 .. m
  BY <1>2, <1>3, <1>4
<1>7. /\ r[i][2] > 1 => i > 1 /\ r[i - 1] = <<r[i][1], r[i][2] - 1>>
      /\ r[i][2] < Size(r[i][1]) =>
            i < Len(r) /\ r[i + 1] \in {<<r[i][1], r[i][2] + 1>>, Cut}
  BY <1>5, <1>6 DEF Whole, r
<1>8. i > 1 => a[i - 1] = r[i - 1]
  BY <1>2, <1>5, <1>6
<1>9. i < Len(a) /\ (a[i + 1] = r[i + 1] \/ a[i + 1] = Cut)
  <2>1. i < m + 1 /\ (i + 1 \in 1 .. m \/ i + 1 = m + 1)
    BY <1>2, <1>6
  <2> QED
    BY <2>1, <1>3, <1>5
<1> QED
  BY <1>5, <1>6, <1>7, <1>8, <1>9

\* A concatenation is ordered if its parts are, and in that order.
LEMMA OrderedConcat ==
    ASSUME NEW p \in Seq(Mark), NEW q \in Seq(Mark), NEW t
    PROVE Ordered(p \o q, t) <=> Ordered(p, t) /\ Ordered(q, t) /\ Before(p, q, t)
<1> DEFINE r == p \o q
           m == Len(p)
           n == Len(q)
<1>1. /\ r \in Seq(Mark) /\ Len(r) = m + n
      /\ \A i \in 1 .. m + n : r[i] = IF i <= m THEN p[i] ELSE q[i - m]
  BY ConcatProperties
<1>2. m \in Nat /\ n \in Nat /\ DOMAIN p = 1 .. m /\ DOMAIN q = 1 .. n
  BY LenProperties
<1>3. DOMAIN r = 1 .. m + n
  BY <1>1, LenProperties
<1> HIDE DEF r
<1>4. \A i \in 1 .. m : i \in 1 .. m + n /\ r[i] = p[i]
  BY <1>1, <1>2
<1>5. \A i \in 1 .. n : m + i \in 1 .. m + n /\ r[m + i] = q[i]
  <2> TAKE i \in 1 .. n
  <2>1. m + i \in 1 .. m + n /\ ~(m + i <= m) /\ m + i - m = i
    BY <1>2
  <2> QED
    BY <1>1, <2>1
<1>6. ASSUME Ordered(r, t) PROVE Ordered(p, t) /\ Ordered(q, t) /\ Before(p, q, t)
  <2>1. ASSUME NEW i \in DOMAIN p, NEW j \in DOMAIN p, i < j
        PROVE Earlier(p[i], p[j], t)
    <3>1. i \in DOMAIN r /\ j \in DOMAIN r /\ r[i] = p[i] /\ r[j] = p[j]
      BY <1>2, <1>3, <1>4
    <3>2. Earlier(r[i], r[j], t)
      BY <1>6, <2>1, <3>1 DEF Ordered
    <3> QED
      BY <3>1, <3>2
  <2>2. ASSUME NEW i \in DOMAIN q, NEW j \in DOMAIN q, i < j
        PROVE Earlier(q[i], q[j], t)
    <3>1. /\ m + i \in DOMAIN r /\ m + j \in DOMAIN r /\ m + i < m + j
          /\ r[m + i] = q[i] /\ r[m + j] = q[j]
      BY <1>2, <1>3, <1>5, <2>2
    <3>2. Earlier(r[m + i], r[m + j], t)
      BY <1>6, <3>1 DEF Ordered
    <3> QED
      BY <3>1, <3>2
  <2>3. ASSUME NEW i \in DOMAIN p, NEW j \in DOMAIN q
        PROVE Earlier(p[i], q[j], t)
    <3>1. /\ i \in DOMAIN r /\ m + j \in DOMAIN r /\ i < m + j
          /\ r[i] = p[i] /\ r[m + j] = q[j]
      BY <1>2, <1>3, <1>4, <1>5
    <3>2. Earlier(r[i], r[m + j], t)
      BY <1>6, <3>1 DEF Ordered
    <3> QED
      BY <3>1, <3>2
  <2> QED
    BY <2>1, <2>2, <2>3 DEF Ordered, Before, ToSet
<1>7. ASSUME Ordered(p, t), Ordered(q, t), Before(p, q, t) PROVE Ordered(r, t)
  <2> SUFFICES ASSUME NEW i \in DOMAIN r, NEW j \in DOMAIN r, i < j
               PROVE Earlier(r[i], r[j], t)
    BY DEF Ordered
  <2>1. CASE j <= m
    <3>1. i \in DOMAIN p /\ j \in DOMAIN p /\ r[i] = p[i] /\ r[j] = p[j]
      BY <1>2, <1>3, <1>4, <2>1
    <3>2. Earlier(p[i], p[j], t)
      BY <1>7, <3>1 DEF Ordered
    <3> QED
      BY <3>1, <3>2
  <2>2. CASE ~(i <= m)
    <3> DEFINE k == i - m
               l == j - m
    <3>1. k \in DOMAIN q /\ l \in DOMAIN q /\ i = m + k /\ j = m + l /\ k < l
      BY <1>2, <1>3, <2>2
    <3> HIDE DEF k, l
    <3>2. r[i] = q[k] /\ r[j] = q[l]
      BY <1>2, <1>5, <3>1
    <3>3. Earlier(q[k], q[l], t)
      BY <1>7, <3>1 DEF Ordered
    <3> QED
      BY <3>2, <3>3
  <2>3. CASE i <= m /\ ~(j <= m)
    <3> DEFINE l == j - m
    <3>1. i \in DOMAIN p /\ l \in DOMAIN q /\ j = m + l
      BY <1>2, <1>3, <2>3
    <3> HIDE DEF l
    <3>2. r[i] = p[i] /\ r[j] = q[l]
      BY <1>2, <1>4, <1>5, <3>1
    <3>3. Earlier(p[i], q[l], t)
      BY <1>7, <3>1 DEF Before, ToSet
    <3> QED
      BY <3>2, <3>3
  <2>4. i \in Int /\ j \in Int /\ m \in Int
    BY <1>2, <1>3
  <2> QED
    BY <2>1, <2>2, <2>3, <2>4
<1> QED
  BY <1>6, <1>7 DEF r

\* A line is in order.
LEMMA OrderedText ==
    ASSUME NEW o \in Object, NEW t \in Thread
    PROVE Ordered(Text(o), t)
<1> DEFINE q == Text(o)
<1>1. /\ Size(o) \in Nat /\ DOMAIN q = 1 .. Size(o)
      /\ \A k \in 1 .. Size(o) : q[k] = <<o, k>>
  BY TextIs
<1> HIDE DEF q
<1> SUFFICES ASSUME NEW i \in DOMAIN q, NEW j \in DOMAIN q, i < j,
                    NEW k \in DOMAIN Work[t], NEW l \in DOMAIN Work[t],
                    q[i][1] = Work[t][k], q[j][1] = Work[t][l]
             PROVE k < l \/ (k = l /\ q[i][2] < q[j][2])
  BY DEF Ordered, Earlier, q
<1>2. q[i] = <<o, i>> /\ q[j] = <<o, j>>
  BY <1>1
<1>3. Work[t][k] = Work[t][l] /\ q[i][2] = i /\ q[j][2] = j
  BY <1>2
<1>4. k = l
  BY <1>3, WorkAssumption
<1> QED
  BY <1>3, <1>4

LEMMA OrderedEmpty ==
    ASSUME NEW t
    PROVE Ordered(<<>>, t)
BY DEF Ordered

----------------------------------------------------------------------------
(* Types and control                                                       *)

LEMMA Constants ==
    /\ Main \in Thread /\ None \notin Thread /\ None \notin Object
    /\ "stdout" \in Stream /\ "stderr" \in Stream
    /\ \A t \in Thread : Work[t] \in Seq(Object)
BY NoneAssumption, WorkAssumption DEF Thread, Stream

LEMMA SetupIs ==
    ASSUME Typed
    PROVE /\ setup.verbose \in BOOLEAN /\ setup.shared \in Nat /\ setup.handle \in Nat
          /\ setup.concat \in BOOLEAN
          /\ \A s \in Stream : Capacity(s) \in Nat
BY SetupAssumption DEF Typed, Capacity

\* A step leaves u alone.
Same(u) ==
    /\ todo'[u] = todo[u] /\ pc'[u] = pc[u] /\ line'[u] = line[u]
    /\ stream'[u] = stream[u] /\ handle'[u] = handle[u] /\ calls'[u] = calls[u]
    /\ jobs'[u] = jobs[u] /\ batch'[u] = batch[u]

\* A thread's step is in control if it keeps to its place and its lock.
LEMMA ControlStep ==
    ASSUME Control, NEW t \in Thread, \A u \in Thread \ {t} : Same(u),
           Placed(t)',
           \A s \in Stream :
               /\ owner'[s] = t <=> Inside(t)' /\ stream'[t] = s
               /\ \A u \in Thread \ {t} : owner'[s] = u <=> owner[s] = u,
           MainLast', Sized'
    PROVE Control'
<1>1. ASSUME NEW u \in Thread \ {t} PROVE Placed(u)'
  <2>1. Placed(u) /\ Same(u)
    BY DEF Control
  <2> QED
    BY <2>1 DEF Placed, Same
<1>2. ASSUME NEW u \in Thread \ {t}, NEW s \in Stream
      PROVE owner'[s] = u <=> Inside(u)' /\ stream'[u] = s
  <2>1. owner[s] = u <=> Inside(u) /\ stream[u] = s
    BY DEF Control, Locked
  <2>2. Same(u)
    OBVIOUS
  <2> QED
    BY <2>1, <2>2 DEF Inside, Same
<1>3. Locked'
  BY <1>2 DEF Locked
<1> QED
  BY <1>1, <1>3 DEF Control

\* While a thread other than Main is not done, Main has not begun to close.
LEMMA NotClosing ==
    ASSUME Control, NEW t \in Thread, pc[t] # "done", Closing \/ Exited
    PROVE t = Main
BY DEF Control, MainLast

\* Beginning a line.
LEMMA BeginTyped ==
    ASSUME Typed, NEW t \in Thread, todo[t] # <<>>, NEW s \in Stream, Begin(t, s)
    PROVE /\ stream' \in [Thread -> Stream]
          /\ line' \in [Thread -> Object \cup {None}] /\ line'[t] \in Object
          /\ begun' \in [Stream -> SUBSET Object]
<1>1. Head(todo[t]) \in Object
  BY HeadTailProperties DEF Typed
<1>2. stream' \in [Thread -> Stream]
  BY DEF Begin, Typed
<1>3. line' \in [Thread -> Object \cup {None}] /\ line'[t] \in Object
  BY <1>1 DEF Begin, Typed
<1>4. begun' \in [Stream -> SUBSET Object]
  BY <1>1 DEF Begin, Typed
<1> QED
  BY <1>2, <1>3, <1>4

LEMMA GotoTyped ==
    ASSUME Typed, NEW t \in Thread, NEW label \in Label, Goto(t, label)
    PROVE pc' \in [Thread -> Label]
BY DEF Goto, Typed

\* A step outside the writer of a thread that stays outside.
LEMMA OutsideControl ==
    ASSUME Control, NEW t \in Thread, \A u \in Thread \ {t} : Same(u), Placed(t)', Sized',
           owner' = owner, pc[t] \in {"run", "handle"},
           pc'[t] \in {"run", "handle", "lock", "done"}
    PROVE Control'
<1>1. ASSUME NEW s \in Stream
      PROVE /\ owner'[s] = t <=> Inside(t)' /\ stream'[t] = s
            /\ \A u \in Thread \ {t} : owner'[s] = u <=> owner[s] = u
  <2>1. owner[s] # t
    BY DEF Control, Locked, Inside
  <2>2. ~Inside(t)'
    BY DEF Inside
  <2> QED
    BY <2>1, <2>2
<1>2. MainLast'
  <2>1. CASE t = Main
    BY <2>1 DEF MainLast, Closing, Exited
  <2>2. CASE t # Main
    <3>1. Same(Main) /\ ~Closing /\ ~Exited
      BY <2>2, NotClosing, Constants
    <3> QED
      BY <3>1 DEF MainLast, Closing, Exited, Same
  <2> QED
    BY <2>1, <2>2
<1> QED
  BY <1>1, <1>2, ControlStep

LEMMA RemovedControl ==
    ASSUME Typed, Control, NEW t \in Thread, Removed(t) \/ FoundGone(t)
    PROVE Typed' /\ Control'
<1>1. /\ pc[t] = "run" /\ todo[t] # <<>>
      /\ Head(todo[t]) \in Object /\ Tail(todo[t]) \in Seq(Object)
  BY HeadTailProperties DEF Removed, FoundGone, Meets, locals, Typed
<1>2. /\ pc' \in [Thread -> Label] /\ stream' \in [Thread -> Stream]
      /\ line' \in [Thread -> Object \cup {None}] /\ begun' \in [Stream -> SUBSET Object]
  <2>1. CASE Begin(t, "stdout") /\ Goto(t, "handle")
    <3>2. "handle" \in Label
      BY DEF Label
    <3> QED
      BY <1>1, <2>1, <3>2, BeginTyped, GotoTyped, Constants
  <2>2. CASE UNCHANGED <<pc, stream, line, begun>>
    BY <2>2 DEF Typed
  <2> QED
    BY <2>1, <2>2 DEF Removed, FoundGone, Meets, locals, FoundGone, locals
<1>3. todo' \in [Thread -> Seq(Object)] /\ fate' \in [Object -> Fate]
  BY <1>1 DEF Fate, Removed, FoundGone, Meets, locals, Typed
<1>4. Typed'
  BY <1>2, <1>3 DEF Removed, FoundGone, Meets, locals, Typed, faults
<1>5. ASSUME NEW u \in Thread \ {t} PROVE Same(u)
  BY DEF Removed, FoundGone, Meets, locals, Begin, Goto, Typed, Same
<1>6. Placed(t)' /\ pc'[t] \in {"run", "handle"} /\ calls'[t] = <<>>
  <2>1. Placed(t)
    BY DEF Control
  <2>2. CASE Begin(t, "stdout") /\ Goto(t, "handle")
    <3>1. /\ pc'[t] = "handle" /\ stream'[t] = "stdout" /\ line'[t] \in Object
          /\ calls' = calls /\ batch' = batch /\ jobs' = jobs
      BY <1>1, <2>2 DEF Removed, FoundGone, Meets, locals, Begin, Goto, Typed
    <3> QED
      BY <1>1, <2>1, <3>1 DEF Placed
  <2>3. CASE pc' = pc
    <3>1. pc' = pc /\ calls' = calls /\ batch' = batch /\ jobs' = jobs
      BY <1>1, <2>3 DEF Removed, FoundGone, Meets
    <3> QED
      BY <1>1, <2>1, <3>1 DEF Placed
  <2> QED
    BY <2>2, <2>3 DEF Removed, FoundGone, Meets, locals
<1>7. owner' = owner
  BY DEF Removed, FoundGone, Meets
<1>8. Sized'
  BY DEF Removed, FoundGone, Meets, locals, Control, Sized, Capacity
<1> QED
  BY <1>1, <1>4, <1>5, <1>6, <1>7, <1>8, OutsideControl

LEMMA NotRemovedControl ==
    ASSUME Typed, Control, NEW t \in Thread, NotRemoved(t)
    PROVE Typed' /\ Control'
<1>1. /\ pc[t] = "run" /\ todo[t] # <<>> /\ Begin(t, "stderr") /\ Goto(t, "lock")
      /\ Head(todo[t]) \in Object /\ Tail(todo[t]) \in Seq(Object)
  BY HeadTailProperties DEF NotRemoved, Meets, Typed
<1>2. /\ pc' \in [Thread -> Label] /\ stream' \in [Thread -> Stream]
      /\ line' \in [Thread -> Object \cup {None}] /\ begun' \in [Stream -> SUBSET Object]
  <2>1. "lock" \in Label
    BY DEF Label
  <2> QED
    BY <1>1, <2>1, BeginTyped, GotoTyped, Constants
<1>3. todo' \in [Thread -> Seq(Object)]
  BY <1>1 DEF NotRemoved, Meets, Typed
<1>4. <<LinePieces(Head(todo[t]))>> \in Calls
  BY <1>1, TextIs DEF Calls
<1>5. calls' \in [Thread -> Calls]
  BY <1>4 DEF NotRemoved, Meets, Typed
<1>6. Typed'
  BY <1>1, <1>2, <1>3, <1>5 DEF NotRemoved, Meets, Typed, Fate, faults
<1>7. ASSUME NEW u \in Thread \ {t} PROVE Same(u)
  BY DEF NotRemoved, Meets, Begin, Goto, Typed, Same
<1>8. pc'[t] = "lock" /\ calls'[t] # <<>> /\ batch' = batch /\ jobs' = jobs
  BY <1>1 DEF NotRemoved, Meets, Goto, Typed
<1>9. Placed(t)'
  <2>1. Placed(t)
    BY DEF Control
  <2> QED
    BY <1>1, <1>8, <2>1 DEF Placed
<1>10. Sized' /\ owner' = owner
  BY DEF NotRemoved, Meets, Control, Sized, Capacity
<1> QED
  BY <1>1, <1>6, <1>7, <1>8, <1>9, <1>10, OutsideControl

LEMMA WriteHandleControl ==
    ASSUME Typed, Control, NEW t \in Thread, WriteHandle(t)
    PROVE Typed' /\ Control'
<1> DEFINE pieces == LinePieces(line[t])
<1>1. /\ pc[t] = "handle" /\ line[t] \in Object /\ calls[t] = <<>>
      /\ batch[t] = <<>> /\ jobs[t] = <<>> /\ Placed(t)
  BY DEF WriteHandle, Control, Placed
<1>2. pieces \in Seq(Bytes) /\ FlattenSeq(pieces) \in Bytes /\ handle[t] \in Bytes
  BY <1>1, TextIs DEF Typed, Text
<1>3. \/ /\ Fits(handle[t], pieces, setup.handle)
         /\ handle' = [handle EXCEPT ![t] = @ \o FlattenSeq(pieces)]
         /\ Goto(t, "run")
         /\ UNCHANGED calls
      \/ /\ handle' = [handle EXCEPT ![t] = <<>>]
         /\ calls' = [calls EXCEPT ![t] = PassOn(handle[t], pieces)]
         /\ Goto(t, "lock")
  BY DEF WriteHandle
<1>4. UNCHANGED <<setup, todo, line, stream, owner, buf, jobs, batch, fd, errors,
                  interrupts, fate, begun>>
  BY DEF WriteHandle, locals, faults
<1>5. PassOn(handle[t], pieces) \in Calls /\ PassOn(handle[t], pieces) # <<>>
  BY <1>2, PassOnContent, PassOnCalls
<1>6. /\ handle[t] \o FlattenSeq(pieces) \in Bytes /\ <<>> \in Bytes
      /\ Len(handle[t] \o FlattenSeq(pieces)) = Len(handle[t]) + Len(FlattenSeq(pieces))
      /\ Len(handle[t]) \in Nat /\ Len(FlattenSeq(pieces)) \in Nat
  BY <1>2, ConcatProperties DEF Bytes
<1> HIDE DEF pieces
<1>7. \A u \in Thread \ {t} : Same(u)
  BY <1>3, <1>4 DEF Goto, Typed, Same
<1>8. CASE /\ Fits(handle[t], pieces, setup.handle)
           /\ handle' = [handle EXCEPT ![t] = @ \o FlattenSeq(pieces)]
           /\ Goto(t, "run")
           /\ UNCHANGED calls
  <2>1. handle' \in [Thread -> Bytes] /\ pc' \in [Thread -> Label] /\ pc'[t] = "run"
    BY <1>6, <1>8 DEF Typed, Goto, Label
  <2>2. Typed'
    BY <1>4, <1>8, <2>1 DEF Typed
  <2>3. Placed(t)'
    BY <1>1, <1>4, <1>8, <2>1 DEF Placed
  <2>4. ASSUME NEW u \in Thread PROVE Len(handle'[u]) <= setup.handle
    <3>1. Len(handle[u]) <= setup.handle
      BY DEF Control, Sized
    <3>2. u = t => handle'[u] = handle[t] \o FlattenSeq(pieces)
      BY <1>8 DEF Typed
    <3>3. u # t => handle'[u] = handle[u]
      BY <1>8 DEF Typed
    <3>4. Len(handle[t]) + Len(FlattenSeq(pieces)) <= setup.handle
      <4>1. Len(FlattenSeq(pieces)) <= setup.handle - Len(handle[t])
        BY <1>8 DEF Fits
      <4>2. setup.handle \in Nat
        BY SetupIs
      <4> QED
        BY <4>1, <4>2, <1>6
    <3> QED
      BY <1>6, <3>1, <3>2, <3>3, <3>4
  <2>5. Sized'
    BY <1>4, <2>4 DEF Control, Sized, Capacity
  <2> QED
    BY <1>1, <1>4, <1>7, <2>1, <2>2, <2>3, <2>5, OutsideControl
<1>9. CASE /\ handle' = [handle EXCEPT ![t] = <<>>]
           /\ calls' = [calls EXCEPT ![t] = PassOn(handle[t], pieces)]
           /\ Goto(t, "lock")
  <2>1. /\ handle' \in [Thread -> Bytes] /\ calls' \in [Thread -> Calls]
        /\ pc' \in [Thread -> Label] /\ pc'[t] = "lock" /\ calls'[t] # <<>>
    BY <1>5, <1>6, <1>9 DEF Typed, Goto, Label
  <2>2. Typed'
    BY <1>4, <2>1 DEF Typed
  <2>3. Placed(t)'
    BY <1>1, <1>4, <2>1 DEF Placed
  <2>4. ASSUME NEW u \in Thread PROVE Len(handle'[u]) <= setup.handle
    <3>1. Len(handle[u]) <= setup.handle /\ setup.handle \in Nat
      BY SetupIs DEF Control, Sized
    <3>2. Len(<<>>) = 0
      OBVIOUS
    <3> QED
      BY <1>9, <3>1, <3>2 DEF Typed
  <2>5. Sized'
    BY <1>4, <2>4 DEF Control, Sized, Capacity
  <2> QED
    BY <1>1, <1>4, <1>7, <2>1, <2>2, <2>3, <2>5, OutsideControl
<1> QED
  BY <1>3, <1>8, <1>9

LEMMA DropHandleControl ==
    ASSUME Typed, Control, NEW t \in Thread, DropHandle(t)
    PROVE Typed' /\ Control'
<1>1. /\ pc[t] = "run" /\ todo[t] = <<>> /\ calls[t] = <<>> /\ handle[t] \in Bytes
      /\ batch[t] = <<>> /\ jobs[t] = <<>> /\ Placed(t)
  BY DEF DropHandle, Control, Placed, Typed
<1>2. UNCHANGED <<setup, todo, line, owner, buf, jobs, batch, fd, errors,
                  interrupts, fate, begun>>
  BY DEF DropHandle, faults
<1>3. \A u \in Thread \ {t} : Same(u)
  BY <1>2 DEF DropHandle, Goto, Typed, Same
<1>4. CASE handle[t] = <<>>
  <2>1. UNCHANGED <<handle, calls, stream>> /\ Goto(t, "done")
    BY <1>4 DEF DropHandle
  <2>2. pc' \in [Thread -> Label] /\ pc'[t] = "done"
    BY <2>1 DEF Goto, Typed, Label
  <2>3. Typed'
    BY <1>2, <2>1, <2>2 DEF Typed
  <2>4. Placed(t)'
    BY <1>1, <1>2, <1>4, <2>1, <2>2 DEF Placed
  <2>5. Sized'
    BY <1>2, <2>1 DEF Control, Sized, Capacity
  <2> QED
    BY <1>1, <1>2, <1>3, <2>2, <2>3, <2>4, <2>5, OutsideControl
<1>5. CASE handle[t] # <<>>
  <2>1. /\ handle' = [handle EXCEPT ![t] = <<>>]
        /\ calls' = [calls EXCEPT ![t] = <<<<handle[t]>>>>]
        /\ stream' = [stream EXCEPT ![t] = "stdout"]
        /\ Goto(t, "lock")
    BY <1>5 DEF DropHandle
  <2>2. <<<<handle[t]>>>> \in Calls /\ <<<<handle[t]>>>> # <<>> /\ <<>> \in Bytes
    BY <1>1 DEF Calls, Bytes
  <2>3. /\ handle' \in [Thread -> Bytes] /\ calls' \in [Thread -> Calls]
        /\ stream' \in [Thread -> Stream]
        /\ pc' \in [Thread -> Label] /\ pc'[t] = "lock" /\ calls'[t] # <<>>
    BY <2>1, <2>2, Constants DEF Goto, Typed, Label
  <2>4. Typed'
    BY <1>2, <2>3 DEF Typed
  <2>5. Placed(t)'
    BY <1>1, <1>2, <2>3 DEF Placed
  <2>6. ASSUME NEW u \in Thread PROVE Len(handle'[u]) <= setup.handle
    <3>1. Len(handle[u]) <= setup.handle /\ setup.handle \in Nat
      BY SetupIs DEF Control, Sized
    <3>2. Len(<<>>) = 0
      OBVIOUS
    <3> QED
      BY <2>1, <3>1, <3>2 DEF Typed
  <2>7. Sized'
    BY <1>2, <2>6 DEF Control, Sized, Capacity
  <2> QED
    BY <1>1, <1>2, <1>3, <2>3, <2>4, <2>5, <2>7, OutsideControl
<1> QED
  BY <1>4, <1>5

LEMMA DepositTyped ==
    ASSUME Typed, Control, NEW t \in Thread, Lock(t)
    PROVE /\ pc[t] = "lock" /\ calls[t] # <<>> /\ owner[stream[t]] = None
          /\ Head(calls[t]) \in Seq(Bytes) /\ FlattenSeq(Head(calls[t])) \in Bytes
          /\ buf' \in [Stream -> Bytes] /\ jobs' \in [Thread -> Calls]
          /\ pc' \in [Thread -> Label] /\ pc'[t] \in {"unlock", "write"}
          /\ pc'[t] = "unlock" => jobs' = jobs
          /\ owner' = [owner EXCEPT ![stream[t]] = t]
          /\ \A s \in Stream : Len(buf'[s]) <= Capacity(s)
          /\ \A u \in Thread \ {t} : Same(u)
          /\ UNCHANGED <<setup, todo, line, stream, handle, calls, batch, fd, errors,
                         interrupts, fate, begun>>
<1> DEFINE s == stream[t]
           pieces == Head(calls[t])
<1>1. pc[t] = "lock" /\ owner[s] = None /\ calls[t] # <<>> /\ s \in Stream
  BY DEF Lock, Control, Placed, Typed
<1>2. calls[t] \in Seq(Seq(Bytes))
  BY DEF Typed, Calls
<1>3. pieces \in Seq(Bytes)
  BY <1>1, <1>2, HeadTailProperties
<1>4. FlattenSeq(pieces) \in Bytes /\ buf[s] \in Bytes
  BY <1>1, <1>3, FlattenType DEF Bytes, Typed
<1>5. PassOn(buf[s], pieces) \in Calls /\ <<>> \in Bytes /\ Len(<<>>) = 0
  BY <1>3, <1>4, PassOnContent DEF Bytes
<1>6. /\ buf[s] \o FlattenSeq(pieces) \in Bytes
      /\ Len(buf[s] \o FlattenSeq(pieces)) = Len(buf[s]) + Len(FlattenSeq(pieces))
      /\ Len(buf[s]) \in Nat /\ Len(FlattenSeq(pieces)) \in Nat
  BY <1>4, ConcatProperties DEF Bytes
<1>7. \/ /\ Fits(buf[s], pieces, Capacity(s))
         /\ buf' = [buf EXCEPT ![s] = @ \o FlattenSeq(pieces)]
         /\ Goto(t, "unlock")
         /\ UNCHANGED jobs
      \/ /\ buf' = [buf EXCEPT ![s] = <<>>]
         /\ jobs' = [jobs EXCEPT ![t] = PassOn(buf[s], pieces)]
         /\ Goto(t, "write")
  BY DEF Lock, Deposit
<1>8. /\ owner' = [owner EXCEPT ![s] = t]
      /\ UNCHANGED <<setup, todo, line, stream, handle, calls, batch, fd, errors,
                     interrupts, fate, begun>>
  BY DEF Lock, locals, faults
<1>9. Capacity(s) \in Nat /\ \A r \in Stream : Len(buf[r]) <= Capacity(r)
  BY <1>1, SetupIs DEF Control, Sized
<1> HIDE DEF pieces, s
<1>10. CASE /\ Fits(buf[s], pieces, Capacity(s))
            /\ buf' = [buf EXCEPT ![s] = @ \o FlattenSeq(pieces)]
            /\ Goto(t, "unlock")
            /\ UNCHANGED jobs
  <2>1. /\ buf' \in [Stream -> Bytes] /\ jobs' \in [Thread -> Calls]
        /\ pc' \in [Thread -> Label] /\ pc'[t] = "unlock"
    BY <1>6, <1>10 DEF Typed, Goto, Label
  <2>2. Len(buf[s]) + Len(FlattenSeq(pieces)) <= Capacity(s)
    <3>1. Len(FlattenSeq(pieces)) <= Capacity(s) - Len(buf[s])
      BY <1>10 DEF Fits
    <3> QED
      BY <3>1, <1>6, <1>9
  <2>3. ASSUME NEW r \in Stream PROVE Len(buf'[r]) <= Capacity(r)
    <3>1. r = s => buf'[r] = buf[s] \o FlattenSeq(pieces)
      BY <1>10 DEF Typed
    <3>2. r # s => buf'[r] = buf[r]
      BY <1>10 DEF Typed
    <3> QED
      BY <3>1, <3>2, <2>2, <1>6, <1>9
  <2>4. \A u \in Thread \ {t} : Same(u)
    BY <1>8, <1>10 DEF Goto, Typed, Same
  <2> QED
    BY <1>1, <1>3, <1>4, <1>8, <1>10, <2>1, <2>3, <2>4 DEF s, pieces
<1>11. CASE /\ buf' = [buf EXCEPT ![s] = <<>>]
            /\ jobs' = [jobs EXCEPT ![t] = PassOn(buf[s], pieces)]
            /\ Goto(t, "write")
  <2>1. /\ buf' \in [Stream -> Bytes] /\ jobs' \in [Thread -> Calls]
        /\ pc' \in [Thread -> Label] /\ pc'[t] = "write"
    BY <1>5, <1>11 DEF Typed, Goto, Label
  <2>2. ASSUME NEW r \in Stream PROVE Len(buf'[r]) <= Capacity(r)
    <3>1. r = s => buf'[r] = <<>>
      BY <1>11 DEF Typed
    <3>2. r # s => buf'[r] = buf[r]
      BY <1>11 DEF Typed
    <3> QED
      BY <3>1, <3>2, <1>5, <1>9
  <2>3. \A u \in Thread \ {t} : Same(u)
    BY <1>8, <1>11 DEF Goto, Typed, Same
  <2> QED
    BY <1>1, <1>3, <1>4, <1>8, <1>11, <2>1, <2>2, <2>3 DEF s, pieces
<1> QED
  BY <1>7, <1>10, <1>11

LEMMA LockControl ==
    ASSUME Typed, Control, NEW t \in Thread, Lock(t)
    PROVE Typed' /\ Control'
<1>1. /\ pc[t] = "lock" /\ calls[t] # <<>> /\ owner[stream[t]] = None
      /\ buf' \in [Stream -> Bytes] /\ jobs' \in [Thread -> Calls]
      /\ pc' \in [Thread -> Label] /\ pc'[t] \in {"unlock", "write"}
      /\ pc'[t] = "unlock" => jobs' = jobs
      /\ owner' = [owner EXCEPT ![stream[t]] = t]
      /\ \A s \in Stream : Len(buf'[s]) <= Capacity(s)
      /\ UNCHANGED <<setup, todo, line, stream, handle, calls, batch, fd, errors,
                     interrupts, fate, begun>>
  BY DepositTyped
<1>2. \A u \in Thread \ {t} : Same(u)
  BY DepositTyped
<1>3. owner' \in [Stream -> Thread \cup {None}] /\ stream[t] \in Stream
  BY <1>1 DEF Typed
<1>4. Typed'
  BY <1>1, <1>3 DEF Typed
<1>5. Placed(t) /\ batch[t] = <<>> /\ jobs[t] = <<>>
  BY <1>1 DEF Control, Placed
<1>6. Placed(t)'
  BY <1>1, <1>5 DEF Placed
<1>7. ASSUME NEW s \in Stream
      PROVE /\ owner'[s] = t <=> Inside(t)' /\ stream'[t] = s
            /\ \A u \in Thread \ {t} : owner'[s] = u <=> owner[s] = u
  <2>1. Inside(t)' /\ stream'[t] = stream[t]
    BY <1>1 DEF Inside
  <2>2. owner[s] # t
    BY <1>1 DEF Control, Locked, Inside
  <2>3. owner'[s] = IF s = stream[t] THEN t ELSE owner[s]
    BY <1>1, <1>3 DEF Typed
  <2> QED
    BY <2>1, <2>2, <2>3, <1>1, Constants
<1>8. MainLast'
  <2>1. CASE t = Main
    BY <1>1, <2>1 DEF MainLast, Closing, Exited
  <2>2. CASE t # Main
    <3>1. Same(Main) /\ ~Closing /\ ~Exited
      BY <1>1, <1>2, <2>2, NotClosing, Constants
    <3> QED
      BY <3>1 DEF MainLast, Closing, Exited, Same
  <2> QED
    BY <2>1, <2>2
<1>9. Sized'
  BY <1>1 DEF Control, Sized, Capacity
<1> QED
  BY <1>2, <1>4, <1>6, <1>7, <1>8, <1>9, ControlStep

LEMMA UnlockControl ==
    ASSUME Typed, Control, NEW t \in Thread, Unlock(t)
    PROVE Typed' /\ Control'
<1>1. /\ pc[t] = "unlock" /\ calls[t] # <<>> /\ stream[t] \in Stream
      /\ batch[t] = <<>> /\ jobs[t] = <<>> /\ Placed(t)
  BY DEF Unlock, Control, Placed, Typed
<1>2. /\ Tail(calls[t]) \in Calls /\ Len(Tail(calls[t])) = Len(calls[t]) - 1
      /\ Len(calls[t]) \in Nat
  BY <1>1, HeadTailProperties, LenProperties DEF Typed, Calls
<1>3. /\ owner' = [owner EXCEPT ![stream[t]] = None]
      /\ calls' = [calls EXCEPT ![t] = Tail(@)]
      /\ Goto(t, IF Len(calls[t]) > 1 THEN "lock" ELSE "run")
      /\ UNCHANGED <<setup, todo, line, stream, handle, buf, jobs, batch, fd, errors,
                     interrupts, fate, begun>>
  BY DEF Unlock, locals, faults
<1>4. /\ calls' \in [Thread -> Calls] /\ calls'[t] = Tail(calls[t])
      /\ owner' \in [Stream -> Thread \cup {None}] /\ pc' \in [Thread -> Label]
      /\ pc'[t] = IF Len(calls[t]) > 1 THEN "lock" ELSE "run"
  BY <1>2, <1>3 DEF Typed, Goto, Label
<1>5. Typed'
  BY <1>3, <1>4 DEF Typed
<1>6. \A u \in Thread \ {t} : Same(u)
  BY <1>3 DEF Goto, Typed, Same
<1>7. IF pc'[t] = "lock" THEN calls'[t] # <<>> ELSE pc'[t] = "run" /\ calls'[t] = <<>>
  <2> DEFINE c == calls[t]
             q == Tail(calls[t])
  <2>3. q \in Calls /\ Len(q) = Len(c) - 1 /\ Len(c) \in Nat
    BY <1>2
  <2>4. calls'[t] = q /\ pc'[t] = IF Len(c) > 1 THEN "lock" ELSE "run"
    BY <1>4
  <2>5. c # <<>> /\ c \in Calls
    BY <1>1 DEF Typed
  <2> HIDE DEF c, q
  <2>1. CASE Len(c) > 1
    <3>1. Len(q) # 0
      BY <2>1, <2>3
    <3>2. Len(<<>>) = 0
      OBVIOUS
    <3> QED
      BY <2>1, <2>4, <3>1, <3>2
  <2>2. CASE ~(Len(c) > 1)
    <3>1. Len(c) # 0
      BY <2>5, EmptySeq DEF Calls
    <3>2. Len(q) = 0
      BY <2>2, <2>3, <3>1
    <3>3. q = <<>>
      BY <2>3, <3>2, EmptySeq DEF Calls
    <3> QED
      BY <2>2, <2>4, <3>3
  <2> QED
    BY <2>1, <2>2
<1>8. Placed(t)'
  BY <1>1, <1>3, <1>7 DEF Placed
<1>9. ASSUME NEW s \in Stream
      PROVE /\ owner'[s] = t <=> Inside(t)' /\ stream'[t] = s
            /\ \A u \in Thread \ {t} : owner'[s] = u <=> owner[s] = u
  <2>1. Inside(t) /\ ~Inside(t)'
    BY <1>1, <1>7 DEF Inside
  <2>2. owner[stream[t]] = t /\ (s # stream[t] => owner[s] # t)
    BY <2>1, <1>1 DEF Control, Locked
  <2>3. owner'[s] = IF s = stream[t] THEN None ELSE owner[s]
    BY <1>1, <1>3 DEF Typed
  <2> QED
    BY <2>1, <2>2, <2>3, Constants
<1>10. MainLast'
  <2>1. CASE t = Main
    BY <1>7, <2>1 DEF MainLast, Closing, Exited
  <2>2. CASE t # Main
    <3>1. Same(Main) /\ ~Closing /\ ~Exited
      BY <1>1, <1>6, <2>2, NotClosing, Constants
    <3> QED
      BY <3>1 DEF MainLast, Closing, Exited, Same
  <2> QED
    BY <2>1, <2>2
<1>11. Sized'
  BY <1>3 DEF Control, Sized, Capacity
<1> QED
  BY <1>5, <1>6, <1>8, <1>9, <1>10, <1>11, ControlStep

\* A step in the writer that stays there.
LEMMA WritingControl ==
    ASSUME Typed, Control, NEW t \in Thread, pc[t] = "write",
           \A u \in Thread \ {t} : Same(u),
           UNCHANGED <<setup, todo, pc, line, stream, handle, calls, owner, buf>>
    PROVE Control'
<1>1. Placed(t)'
  <2>1. Placed(t)
    BY DEF Control
  <2> QED
    BY <2>1 DEF Placed
<1>2. ASSUME NEW s \in Stream
      PROVE /\ owner'[s] = t <=> Inside(t)' /\ stream'[t] = s
            /\ \A u \in Thread \ {t} : owner'[s] = u <=> owner[s] = u
  BY DEF Control, Locked, Inside
<1>3. MainLast'
  BY DEF Control, MainLast, Closing, Exited
<1>4. Sized'
  BY DEF Control, Sized, Capacity
<1> QED
  BY <1>1, <1>2, <1>3, <1>4, ControlStep

\* A writer that returns.
LEMMA BackControl ==
    ASSUME Typed, Control, NEW t \in Thread, pc[t] = "write", Back(t),
           \A u \in Thread \ {t} : Same(u),
           UNCHANGED <<setup, todo, stream, handle, owner, buf>>,
           batch'[t] = <<>>, jobs'[t] = <<>>, calls'[t] = <<>> <=> calls[t] = <<>>
    PROVE pc' \in [Thread -> Label] /\ Control'
<1>1. Placed(t) /\ (calls[t] = <<>> => t = Main /\ todo[t] = <<>>)
  BY DEF Control, Placed, MainLast, Closing
<1>2. pc' \in [Thread -> Label]
  BY DEF Back, Goto, Typed, Label
<1>3. pc'[t] = IF calls[t] = <<>> THEN "exited" ELSE "unlock"
  BY <1>1 DEF Back, Goto, Typed
<1>4. Placed(t)'
  BY <1>1, <1>3 DEF Placed
<1>5. ASSUME NEW s \in Stream
      PROVE /\ owner'[s] = t <=> Inside(t)' /\ stream'[t] = s
            /\ \A u \in Thread \ {t} : owner'[s] = u <=> owner[s] = u
  <2>1. Inside(t)' <=> Inside(t)
    BY <1>3 DEF Inside
  <2> QED
    BY <2>1 DEF Control, Locked
<1>6. MainLast'
  <2>1. CASE t = Main /\ calls[t] = <<>>
    <3>1. Closing
      BY <2>1 DEF Closing
    <3>2. /\ todo[Main] = <<>> /\ handle[Main] = <<>> /\ buf["stdout"] = <<>>
          /\ \A u \in Thread \ {Main} : pc[u] = "done"
      BY <3>1 DEF Control, MainLast
    <3>3. \A u \in Thread \ {Main} : pc'[u] = "done"
      BY <2>1, <3>2 DEF Same
    <3> QED
      BY <3>2, <3>3 DEF MainLast
  <2>2. CASE t = Main /\ calls[t] # <<>>
    BY <1>3, <2>2 DEF MainLast, Closing, Exited
  <2>3. CASE t # Main
    <3>1. Same(Main) /\ ~Closing /\ ~Exited
      BY <2>3, NotClosing, Constants
    <3> QED
      BY <3>1 DEF MainLast, Closing, Exited, Same
  <2> QED
    BY <2>1, <2>2, <2>3
<1>7. Sized'
  BY DEF Control, Sized, Capacity
<1> QED
  BY <1>2, <1>4, <1>5, <1>6, <1>7, ControlStep

LEMMA FlightType ==
    ASSUME Typed, NEW t \in Thread
    PROVE /\ batch[t] \in Bytes /\ jobs[t] \in Calls /\ Content(jobs[t]) \in Bytes
          /\ Flight(t) \in Bytes
<1>1. batch[t] \in Bytes /\ jobs[t] \in Calls
  BY DEF Typed
<1>2. Content(jobs[t]) \in Bytes
  BY <1>1, ContentType
<1> QED
  BY <1>1, <1>2, ConcatProperties DEF Flight, Bytes

\* A batch and the pieces after it are what was to be written.
LEMMA GatherControl ==
    ASSUME Typed, Control, NEW t \in Thread, Gather(t)
    PROVE /\ Typed' /\ Control'
          /\ pc[t] = "write" /\ Flight(t)' = Flight(t)
          /\ \A u \in Thread \ {t} : Same(u)
          /\ UNCHANGED <<setup, todo, pc, line, stream, handle, calls, owner, buf, fd,
                         errors, interrupts, fate, begun>>
<1> DEFINE pieces == Head(jobs[t])
           rest == Tail(jobs[t])
<1>1. pc[t] = "write" /\ batch[t] = <<>> /\ jobs[t] # <<>> /\ jobs[t] \in Calls
  BY DEF Gather, Typed
<1>2. /\ pieces \in Seq(Bytes) /\ rest \in Calls
      /\ jobs[t] = <<pieces>> \o rest
  BY <1>1, FirstAndRest DEF Calls
<1>3. PICK n \in 0 .. Len(pieces) :
        /\ batch' = [batch EXCEPT ![t] = FlattenSeq(SubSeq(pieces, 1, n))]
        /\ jobs' = [jobs EXCEPT ![t] =
                       IF n = Len(pieces) THEN rest
                       ELSE <<SubSeq(pieces, n + 1, Len(pieces))>> \o rest]
  BY DEF Gather
<1>4. UNCHANGED <<setup, todo, pc, line, stream, handle, calls, owner, buf, fd,
                  errors, interrupts, fate, begun>>
  BY DEF Gather, locals, faults
<1> DEFINE a == SubSeq(pieces, 1, n)
           b == SubSeq(pieces, n + 1, Len(pieces))
<1>5. a \in Seq(Bytes) /\ b \in Seq(Bytes) /\ pieces = a \o b
  BY <1>2, CutInTwo
<1>6. n = Len(pieces) => b = <<>>
  BY <1>2, SubSeqEmpty
<1> DEFINE next == IF n = Len(pieces) THEN rest ELSE <<b>> \o rest
<1>7. next \in Calls /\ Content(next) = FlattenSeq(b) \o Content(rest)
  <2>1. Content(rest) \in Bytes
    BY <1>2, ContentType
  <2>2. CASE n = Len(pieces)
    <3>1. FlattenSeq(b) = <<>>
      BY <1>6, <2>2, FlattenEmpty
    <3>2. <<>> \o Content(rest) = Content(rest)
      BY <2>1, ConcatEmptySeq DEF Bytes
    <3> QED
      BY <1>2, <2>2, <3>1, <3>2
  <2>3. CASE n # Len(pieces)
    <3>1. <<b>> \in Calls /\ Content(<<b>>) = FlattenSeq(b)
      BY <1>5, ContentOne
    <3>2. next = <<b>> \o rest
      BY <2>3
    <3> HIDE DEF next, b, rest
    <3> QED
      BY <1>2, <3>1, <3>2, ContentConcat
  <2> QED
    BY <2>2, <2>3
<1>8. batch' = [batch EXCEPT ![t] = FlattenSeq(a)] /\ jobs' = [jobs EXCEPT ![t] = next]
  BY <1>3
<1>9. Content(jobs[t]) = FlattenSeq(pieces) \o Content(rest)
  <2>1. <<pieces>> \in Calls /\ Content(<<pieces>>) = FlattenSeq(pieces)
    BY <1>2, ContentOne
  <2> HIDE DEF pieces, rest
  <2> QED
    BY <1>2, <2>1, ContentConcat
<1> HIDE DEF pieces, rest, a, b, next
<1>10. FlattenSeq(pieces) = FlattenSeq(a) \o FlattenSeq(b)
  BY <1>5, FlattenConcat DEF Bytes
<1> DEFINE x == FlattenSeq(a)
           y == FlattenSeq(b)
           z == Content(rest)
<1>11. x \in Seq(Unit) /\ y \in Seq(Unit) /\ z \in Seq(Unit)
  BY <1>2, <1>5, FlattenType, ContentType DEF Bytes
<1>12. Content(jobs[t]) = (x \o y) \o z /\ Content(next) = y \o z
  BY <1>7, <1>9, <1>10
<1>13. batch'[t] = x /\ jobs'[t] = next
  BY <1>8 DEF Typed
<1>14. Typed'
  <2>1. batch' \in [Thread -> Bytes]
    BY <1>8, <1>11 DEF Typed, Bytes
  <2>2. jobs' \in [Thread -> Calls]
    BY <1>7, <1>8 DEF Typed
  <2> QED
    BY <1>4, <2>1, <2>2 DEF Typed
<1> HIDE DEF x, y, z
<1>15. Flight(t)' = Flight(t)
  <2>1. (x \o y) \o z = x \o (y \o z)
    BY <1>11, Associative
  <2>2. x \o y \in Seq(Unit)
    BY <1>11, ConcatProperties
  <2>3. (x \o y) \o z \in Seq(Unit)
    BY <2>2, <1>11, ConcatProperties
  <2>4. <<>> \o ((x \o y) \o z) = (x \o y) \o z
    BY <2>3, ConcatEmptySeq
  <2>5. Flight(t) = <<>> \o ((x \o y) \o z)
    BY <1>1, <1>12 DEF Flight
  <2>6. Flight(t)' = x \o Content(next)
    BY <1>13 DEF Flight
  <2> QED
    BY <2>1, <2>4, <2>5, <2>6, <1>12
<1>16. \A u \in Thread \ {t} : Same(u)
  BY <1>4, <1>8 DEF Same, Typed
<1>17. Control'
  BY <1>1, <1>4, <1>16, WritingControl
<1> QED
  BY <1>1, <1>4, <1>14, <1>15, <1>16, <1>17

\* What writev takes has been written.
LEMMA WritevControl ==
    ASSUME Typed, Control, NEW t \in Thread, Writev(t)
    PROVE /\ Typed' /\ Control'
          /\ pc[t] = "write"
          /\ fd'[stream[t]] \o Flight(t)' = fd[stream[t]] \o Flight(t)
          /\ \A s \in Stream \ {stream[t]} : fd'[s] = fd[s]
          /\ ToSet(fd[stream[t]]) \subseteq ToSet(fd'[stream[t]])
          /\ ToSet(Flight(t)') \subseteq ToSet(Flight(t))
          /\ \A u \in Thread \ {t} : Same(u)
          /\ UNCHANGED <<setup, todo, pc, line, stream, handle, calls, owner, buf, jobs,
                         errors, interrupts, fate, begun>>
<1> DEFINE s == stream[t]
           q == batch[t]
           z == Content(jobs[t])
<1>1. pc[t] = "write" /\ s \in Stream /\ q \in Bytes /\ fd[s] \in Seq(Mark) /\ z \in Bytes
  BY FlightType DEF Writev, Typed
<1>2. PICK n \in 1 .. Len(q) : /\ Transfer(t, n)
                               /\ batch' = [batch EXCEPT ![t] = SubSeq(@, n + 1, Len(@))]
  BY DEF Writev
<1>3. UNCHANGED <<setup, todo, pc, line, stream, handle, calls, owner, buf, jobs,
                  errors, interrupts, fate, begun>>
  BY DEF Writev, locals, faults
<1> DEFINE a == SubSeq(q, 1, n)
           b == SubSeq(q, n + 1, Len(q))
<1>4. a \in Bytes /\ b \in Bytes /\ q = a \o b
  <2>1. n \in 0 .. Len(q)
    OBVIOUS
  <2> QED
    BY <1>1, <2>1, CutInTwo DEF Bytes
<1>5. fd' = [fd EXCEPT ![s] = @ \o a] /\ batch' = [batch EXCEPT ![t] = b]
  BY <1>2 DEF Transfer
<1> HIDE DEF a, b
<1>6. a \in Seq(Mark) /\ b \in Seq(Mark) /\ z \in Seq(Mark)
  BY <1>1, <1>4, BytesAreMarks
<1>7. fd[s] \o a \in Seq(Mark)
  BY <1>1, <1>6, ConcatProperties
<1>8. /\ fd'[s] = fd[s] \o a /\ (\A r \in Stream \ {s} : fd'[r] = fd[r])
      /\ batch'[t] = b
  BY <1>1, <1>5 DEF Typed
<1>9. Typed'
  <2>1. batch' \in [Thread -> Bytes]
    BY <1>4, <1>5 DEF Typed
  <2>2. fd' \in [Stream -> Seq(Mark)]
    BY <1>5, <1>7 DEF Typed
  <2> QED
    BY <1>3, <2>1, <2>2 DEF Typed
<1>10. Flight(t) = (a \o b) \o z /\ Flight(t)' = b \o z
  BY <1>3, <1>4, <1>8 DEF Flight
<1> DEFINE f == fd[s]
<1>11. f \in Seq(Mark) /\ fd'[s] = f \o a
  BY <1>1, <1>8
<1> HIDE DEF s, q, z, f
<1>12. (f \o a) \o (b \o z) = f \o ((a \o b) \o z)
  <2>1. b \o z \in Seq(Mark)
    BY <1>6, ConcatProperties
  <2>2. (f \o a) \o (b \o z) = f \o (a \o (b \o z))
    BY <1>6, <1>11, <2>1, Associative
  <2>3. a \o (b \o z) = (a \o b) \o z
    BY <1>6, Associative
  <2> QED
    BY <2>2, <2>3
<1>13. fd'[s] \o Flight(t)' = f \o Flight(t)
  BY <1>10, <1>11, <1>12
<1>14. ToSet(f) \subseteq ToSet(f \o a)
  BY <1>6, <1>11, ToSetConcat
<1>15. ToSet(b \o z) \subseteq ToSet((a \o b) \o z)
  <2>1. (a \o b) \o z = a \o (b \o z)
    BY <1>6, Associative
  <2> DEFINE y == b \o z
  <2>2. y \in Seq(Mark)
    BY <1>6, ConcatProperties
  <2>3. (a \o b) \o z = a \o y
    BY <2>1
  <2> HIDE DEF y
  <2>4. ToSet(a \o y) = ToSet(a) \cup ToSet(y)
    BY <1>6, <2>2, ToSetConcat
  <2>5. ToSet(y) \subseteq ToSet((a \o b) \o z)
    BY <2>3, <2>4
  <2> QED
    BY <2>5 DEF y
<1>16. \A u \in Thread \ {t} : Same(u)
  BY <1>3, <1>5 DEF Same, Typed
<1>17. Control'
  BY <1>1, <1>3, <1>16, WritingControl
<1> QED
  BY <1>1, <1>3, <1>8, <1>9, <1>10, <1>11, <1>13, <1>14, <1>15, <1>16, <1>17 DEF s, f

LEMMA InterruptedControl ==
    ASSUME Typed, Control, NEW t \in Thread, WritevInterrupted(t)
    PROVE Typed' /\ Control'
<1>1. interrupts' \in Nat /\ pc[t] = "write"
  BY DEF WritevInterrupted, Typed
<1>2. UNCHANGED <<setup, todo, pc, line, stream, handle, calls, owner, buf, jobs,
                  batch, fd, errors, fate, begun>>
  BY DEF WritevInterrupted, locals
<1>3. Typed'
  BY <1>1, <1>2 DEF Typed
<1>4. \A u \in Thread \ {t} : Same(u)
  BY <1>2 DEF Same
<1>5. Control'
  BY <1>1, <1>2, <1>4, WritingControl
<1> QED
  BY <1>3, <1>5

LEMMA FailsControl ==
    ASSUME Typed, Control, NEW t \in Thread, WritevFails(t)
    PROVE /\ Typed' /\ Control'
          /\ pc[t] = "write" /\ pc'[t] # "write" /\ pc'[t] # "handle" /\ pc'[t] # "lock"
          /\ fd'[stream[t]] = Append(fd[stream[t]], Cut)
          /\ \A s \in Stream \ {stream[t]} : fd'[s] = fd[s]
          /\ calls'[t] = IF calls[t] = <<>> THEN <<>> ELSE <<Head(calls[t])>>
          /\ begun'[stream[t]] = {}
          /\ \A s \in Stream \ {stream[t]} : begun'[s] = begun[s]
          /\ errors' # 0
          /\ \A u \in Thread \ {t} : Same(u)
          /\ UNCHANGED <<setup, todo, line, stream, handle, owner, buf, interrupts, fate>>
<1> DEFINE s == stream[t]
<1>1. /\ pc[t] = "write" /\ s \in Stream /\ errors' = errors + 1 /\ errors \in Nat
      /\ fd' = [fd EXCEPT ![s] = Append(@, Cut)]
      /\ batch' = [batch EXCEPT ![t] = <<>>]
      /\ jobs' = [jobs EXCEPT ![t] = <<>>]
      /\ calls' = [calls EXCEPT ![t] = IF @ = <<>> THEN @ ELSE <<Head(@)>>]
      /\ begun' = [begun EXCEPT ![s] = {}]
      /\ Back(t)
  BY DEF WritevFails, Typed
<1>2. UNCHANGED <<setup, todo, line, stream, handle, owner, buf, interrupts, fate>>
  BY DEF WritevFails, locals
<1>3. Append(fd[s], Cut) \in Seq(Mark)
  BY <1>1, AppendProperties DEF Typed, Mark
<1>4. (IF calls[t] = <<>> THEN <<>> ELSE <<Head(calls[t])>>) \in Calls
  <2>1. calls[t] # <<>> => Head(calls[t]) \in Seq(Bytes)
    BY HeadTailProperties DEF Typed, Calls
  <2> QED
    BY <2>1, ContentEmpty, ContentOne
<1>5. /\ fd' \in [Stream -> Seq(Mark)] /\ calls' \in [Thread -> Calls]
      /\ batch' \in [Thread -> Bytes] /\ jobs' \in [Thread -> Calls]
      /\ begun' \in [Stream -> SUBSET Object]
  <2>1. <<>> \in Bytes /\ <<>> \in Calls
    BY DEF Bytes, Calls
  <2>2. fd' \in [Stream -> Seq(Mark)]
    BY <1>1, <1>3 DEF Typed
  <2>3. calls' \in [Thread -> Calls]
    BY <1>1, <1>4 DEF Typed
  <2> QED
    BY <1>1, <2>1, <2>2, <2>3 DEF Typed
<1>6. /\ fd'[s] = Append(fd[s], Cut) /\ batch'[t] = <<>> /\ jobs'[t] = <<>>
      /\ calls'[t] = IF calls[t] = <<>> THEN <<>> ELSE <<Head(calls[t])>>
      /\ begun'[s] = {} /\ errors' \in Nat /\ errors' # 0
      /\ \A r \in Stream \ {s} : fd'[r] = fd[r] /\ begun'[r] = begun[r]
  BY <1>1 DEF Typed
<1>7. \A u \in Thread \ {t} : Same(u)
  BY <1>1, <1>2 DEF Same, Typed, Back, Goto
<1>8. calls'[t] = <<>> <=> calls[t] = <<>>
  BY <1>6
<1>9. pc' \in [Thread -> Label] /\ Control'
  BY <1>1, <1>2, <1>6, <1>7, <1>8, BackControl
<1>10. Typed'
  BY <1>2, <1>5, <1>6, <1>9 DEF Typed
<1>11. pc'[t] \in {"exited", "unlock"}
  BY <1>1 DEF Back, Goto, Typed
<1> QED
  BY <1>1, <1>2, <1>6, <1>7, <1>9, <1>10, <1>11

LEMMA WrittenControl ==
    ASSUME Typed, Control, NEW t \in Thread, Written(t)
    PROVE /\ Typed' /\ Control'
          /\ pc[t] = "write" /\ pc'[t] # "write" /\ pc'[t] # "handle" /\ pc'[t] # "lock"
          /\ batch[t] = <<>> /\ jobs[t] = <<>>
          /\ \A u \in Thread \ {t} : Same(u)
          /\ UNCHANGED <<setup, todo, line, stream, handle, calls, owner, buf, jobs, batch,
                         fd, errors, interrupts, fate, begun>>
<1>1. pc[t] = "write" /\ batch[t] = <<>> /\ jobs[t] = <<>> /\ Back(t)
  BY DEF Written
<1>2. UNCHANGED <<setup, todo, line, stream, handle, calls, owner, buf, jobs, batch, fd,
                  errors, interrupts, fate, begun>>
  BY DEF Written, locals, faults
<1>3. \A u \in Thread \ {t} : Same(u)
  BY <1>1, <1>2 DEF Same, Typed, Back, Goto
<1>4. pc' \in [Thread -> Label] /\ Control'
  BY <1>1, <1>2, <1>3, BackControl
<1>5. Typed'
  BY <1>2, <1>4 DEF Typed
<1>6. pc'[t] \in {"exited", "unlock"}
  BY <1>1 DEF Back, Goto, Typed
<1> QED
  BY <1>1, <1>2, <1>3, <1>4, <1>5, <1>6

LEMMA CloseControl ==
    ASSUME Typed, Control, Close
    PROVE /\ Typed' /\ Control'
          /\ pc[Main] = "done" /\ pc'[Main] = "write" /\ stream'[Main] = "stdout"
          /\ \A t \in Thread : pc[t] = "done" /\ calls[t] = <<>> /\ handle[t] = <<>>
          /\ batch[Main] = <<>>
          /\ jobs'[Main] = IF buf["stdout"] = <<>> THEN <<>> ELSE <<<<buf["stdout"]>>>>
          /\ buf'["stdout"] = <<>> /\ buf'["stderr"] = buf["stderr"]
          /\ \A u \in Thread \ {Main} : Same(u)
          /\ UNCHANGED <<setup, todo, line, handle, calls, owner, batch, fd, errors,
                         interrupts, fate, begun>>
<1>1. /\ \A t \in Thread : pc[t] = "done"
      /\ stream' = [stream EXCEPT ![Main] = "stdout"]
      /\ buf' = [buf EXCEPT !["stdout"] = <<>>]
      /\ jobs' = [jobs EXCEPT ![Main] =
                     IF buf["stdout"] = <<>> THEN <<>> ELSE <<<<buf["stdout"]>>>>]
      /\ Goto(Main, "write")
      /\ UNCHANGED <<setup, todo, line, handle, calls, owner, batch, fd, errors,
                     interrupts, fate, begun>>
  BY DEF Close, faults
<1>2. \A t \in Thread : /\ calls[t] = <<>> /\ handle[t] = <<>> /\ todo[t] = <<>>
                        /\ batch[t] = <<>> /\ Placed(t)
  BY <1>1 DEF Control, Placed
<1>3. /\ Main \in Thread /\ "stdout" \in Stream /\ "stderr" \in Stream
      /\ buf["stdout"] \in Bytes
  BY Constants DEF Typed
<1>4. <<>> \in Calls /\ <<<<buf["stdout"]>>>> \in Calls /\ <<>> \in Bytes
  BY <1>3 DEF Calls, Bytes
<1>5. /\ pc' \in [Thread -> Label] /\ stream' \in [Thread -> Stream]
      /\ buf' \in [Stream -> Bytes] /\ jobs' \in [Thread -> Calls]
  BY <1>1, <1>3, <1>4 DEF Typed, Goto, Label
<1>6. Typed'
  BY <1>1, <1>5 DEF Typed
<1>7. /\ pc'[Main] = "write" /\ stream'[Main] = "stdout"
      /\ jobs'[Main] = IF buf["stdout"] = <<>> THEN <<>> ELSE <<<<buf["stdout"]>>>>
      /\ buf'["stdout"] = <<>> /\ buf'["stderr"] = buf["stderr"]
  BY <1>1, <1>3 DEF Typed, Goto
<1>8. \A u \in Thread \ {Main} : Same(u)
  BY <1>1 DEF Same, Typed, Goto
<1>9. Placed(Main)'
  BY <1>1, <1>2, <1>3, <1>7 DEF Placed
<1>10. ASSUME NEW s \in Stream
       PROVE /\ owner'[s] = Main <=> Inside(Main)' /\ stream'[Main] = s
             /\ \A u \in Thread \ {Main} : owner'[s] = u <=> owner[s] = u
  BY <1>1, <1>2, <1>3 DEF Inside, Control, Locked
<1>11. MainLast'
  <2>1. \A u \in Thread \ {Main} : pc'[u] = "done"
    BY <1>1, <1>8 DEF Same
  <2> QED
    BY <2>1, <1>1, <1>2, <1>3, <1>7 DEF MainLast
<1>12. Sized'
  <2>1. ASSUME NEW s \in Stream PROVE Len(buf'[s]) <= Capacity(s)
    <3>1. Len(buf[s]) <= Capacity(s) /\ Capacity(s) \in Nat /\ Len(<<>>) = 0
      BY SetupIs DEF Control, Sized
    <3>2. buf'[s] = buf[s] \/ buf'[s] = <<>>
      BY <1>1 DEF Typed
    <3> QED
      BY <3>1, <3>2
  <2> QED
    BY <2>1, <1>1 DEF Control, Sized, Capacity
<1>13. Control'
  BY <1>3, <1>8, <1>9, <1>10, <1>11, <1>12, ControlStep
<1> QED
  BY <1>1, <1>2, <1>3, <1>6, <1>7, <1>8, <1>13

----------------------------------------------------------------------------
(* What a step does to what is passed on and what is pending               *)

\* Only one thread at a time is in the writer of a stream.
LEMMA WriterAlone ==
    Control =>
        \A s \in Stream, t, u \in Thread :
            pc[t] = "write" /\ stream[t] = s /\ pc[u] = "write" /\ stream[u] = s => t = u
<1> SUFFICES ASSUME Control, NEW s \in Stream, NEW t \in Thread, NEW u \in Thread,
                    pc[t] = "write", stream[t] = s, pc[u] = "write", stream[u] = s
             PROVE t = u
  OBVIOUS
<1>1. Placed(u) /\ Placed(t)
  BY DEF Control
<1>2. CASE calls[t] = <<>> \/ calls[u] = <<>>
  <2>1. Closing
    BY <1>1, <1>2 DEF Closing, Placed
  <2>2. \A v \in Thread \ {Main} : pc[v] = "done"
    BY <2>1 DEF Control, MainLast
  <2> QED
    BY <2>2
<1>3. CASE calls[t] # <<>> /\ calls[u] # <<>>
  <2>1. Inside(t) /\ Inside(u)
    BY <1>3 DEF Inside
  <2>2. owner[s] = t /\ owner[s] = u
    BY <2>1 DEF Control, Locked
  <2> QED
    BY <2>2
<1> QED
  BY <1>2, <1>3

LEMMA WriterAloneNext ==
    Control' =>
        \A s \in Stream, t, u \in Thread :
            pc'[t] = "write" /\ stream'[t] = s /\ pc'[u] = "write" /\ stream'[u] = s => t = u
<1>1. (Control =>
        \A s \in Stream, t, u \in Thread :
            pc[t] = "write" /\ stream[t] = s /\ pc[u] = "write" /\ stream[u] = s => t = u)'
  BY WriterAlone, PTL
<1> QED
  BY <1>1

LEMMA OneWriter ==
    Control =>
        \A s \in Stream, t \in Thread :
            pc[t] = "write" /\ stream[t] = s => InFlight(s) = Flight(t)
<1> SUFFICES ASSUME Control, NEW s \in Stream, NEW t \in Thread,
                    pc[t] = "write", stream[t] = s
             PROVE InFlight(s) = Flight(t)
  OBVIOUS
<1> DEFINE writers == {u \in Thread : pc[u] = "write" /\ stream[u] = s}
<1>1. writers = {t}
  BY WriterAlone
<1> HIDE DEF writers
<1>2. (CHOOSE u \in writers : TRUE) = t /\ writers # {}
  BY <1>1
<1>3. InFlight(s) = LET v == CHOOSE u \in writers : TRUE
                    IN batch[v] \o FlattenSeq(FlattenSeq(jobs[v]))
  BY <1>2 DEF InFlight, writers
<1> QED
  BY <1>2, <1>3 DEF Flight, Content

LEMMA OneWriterNext ==
    Control' =>
        \A s \in Stream, t \in Thread :
            pc'[t] = "write" /\ stream'[t] = s => InFlight(s)' = Flight(t)'
<1>1. (Control =>
        \A s \in Stream, t \in Thread :
            pc[t] = "write" /\ stream[t] = s => InFlight(s) = Flight(t))'
  BY OneWriter, PTL
<1> QED
  BY <1>1

\* What others are writing stays as it is.
LEMMA OthersWrite ==
    ASSUME NEW s \in Stream, NEW t \in Thread, \A u \in Thread \ {t} : Same(u),
           ~(pc[t] = "write" /\ stream[t] = s), ~(pc'[t] = "write" /\ stream'[t] = s)
    PROVE InFlight(s)' = InFlight(s)
<1> DEFINE writers == {u \in Thread : pc[u] = "write" /\ stream[u] = s}
           after == {u \in Thread : pc'[u] = "write" /\ stream'[u] = s}
<1>1. after = writers
  BY DEF Same
<1>2. CASE writers = {}
  BY <1>1, <1>2 DEF InFlight
<1>3. CASE writers # {}
  <2> DEFINE v == CHOOSE u \in writers : TRUE
  <2>1. v \in writers
    BY <1>3
  <2>2. v \in Thread \ {t}
    BY <2>1
  <2>3. batch'[v] = batch[v] /\ jobs'[v] = jobs[v]
    BY <2>2 DEF Same
  <2>4. InFlight(s) = batch[v] \o FlattenSeq(FlattenSeq(jobs[v]))
    BY <1>3 DEF InFlight
  <2>5. InFlight(s)' = batch'[v] \o FlattenSeq(FlattenSeq(jobs'[v]))
    BY <1>1, <1>3 DEF InFlight
  <2> QED
    BY <2>3, <2>4, <2>5
<1> QED
  BY <1>2, <1>3

\* Who goes out of a writer leaves nobody there, and who goes in finds nobody.
LEMMA WriterGone ==
    ASSUME Control, NEW t \in Thread, \A u \in Thread \ {t} : Same(u),
           NEW s \in Stream, pc[t] = "write", stream[t] = s, pc'[t] # "write"
    PROVE InFlight(s)' = <<>>
<1>1. {u \in Thread : pc'[u] = "write" /\ stream'[u] = s} = {}
  <2>1. ASSUME NEW u \in Thread, pc'[u] = "write", stream'[u] = s PROVE FALSE
    <3>1. u # t
      BY <2>1
    <3>2. pc[u] = "write" /\ stream[u] = s
      BY <2>1, <3>1 DEF Same
    <3> QED
      BY <3>1, <3>2, WriterAlone
  <2> QED
    BY <2>1
<1> QED
  BY <1>1 DEF InFlight

LEMMA WriterCame ==
    ASSUME Control', NEW t \in Thread, \A u \in Thread \ {t} : Same(u),
           NEW s \in Stream, pc[t] # "write", pc'[t] = "write", stream'[t] = s
    PROVE InFlight(s) = <<>> /\ InFlight(s)' = Flight(t)'
<1>1. {u \in Thread : pc[u] = "write" /\ stream[u] = s} = {}
  <2>1. ASSUME NEW u \in Thread, pc[u] = "write", stream[u] = s PROVE FALSE
    <3>1. u # t
      BY <2>1
    <3>2. pc'[u] = "write" /\ stream'[u] = s
      BY <2>1, <3>1 DEF Same
    <3> QED
      BY <3>1, <3>2, WriterAloneNext
  <2> QED
    BY <2>1
<1> QED
  BY <1>1, OneWriterNext DEF InFlight

\* What is passed on are units and cuts.
LEMMA PassedType ==
    Typed => \A s \in Stream : InFlight(s) \in Seq(Mark) /\ Passed(s) \in Seq(Mark)
<1> SUFFICES ASSUME Typed, NEW s \in Stream
             PROVE InFlight(s) \in Seq(Mark) /\ Passed(s) \in Seq(Mark)
  OBVIOUS
<1> DEFINE writers == {u \in Thread : pc[u] = "write" /\ stream[u] = s}
           v == CHOOSE u \in writers : TRUE
<1>1. InFlight(s) = IF writers = {} THEN <<>>
                    ELSE batch[v] \o FlattenSeq(FlattenSeq(jobs[v]))
  BY DEF InFlight
<1>2. CASE writers = {}
  BY <1>1, <1>2, ConcatProperties DEF Passed, Typed
<1>3. CASE writers # {}
  <2>1. v \in Thread
    BY <1>3
  <2>2. InFlight(s) = Flight(v)
    BY <1>1, <1>3 DEF Flight, Content
  <2>3. Flight(v) \in Seq(Mark)
    BY <2>1, FlightType, BytesAreMarks
  <2>4. fd[s] \in Seq(Mark)
    BY DEF Typed
  <2> QED
    BY <2>2, <2>3, <2>4, ConcatProperties DEF Passed
<1> QED
  BY <1>2, <1>3

\* What a thread has pending: the calls it is yet to make, and what it buffers.
LEMMA PendingIs ==
    Typed =>
        \A t \in Thread :
            /\ Coming(t) \in Calls /\ Content(Coming(t)) \in Bytes
            /\ \A s \in Stream : Pending(s, t) \in Bytes
            /\ calls[t] = <<>> => Coming(t) = <<>>
            /\ calls[t] = <<>> =>
                  \A s \in Stream : Pending(s, t) = IF s = "stdout" THEN handle[t] ELSE <<>>
            /\ pc[t] # "lock" /\ calls[t] # <<>> => Coming(t) = Tail(calls[t])
            /\ calls[t] # <<>> =>
                  /\ Head(calls[t]) \in Seq(Bytes) /\ Tail(calls[t]) \in Calls
                  /\ Content(calls[t]) = FlattenSeq(Head(calls[t])) \o Content(Tail(calls[t]))
<1> SUFFICES ASSUME Typed, NEW t \in Thread
             PROVE  /\ Coming(t) \in Calls /\ Content(Coming(t)) \in Bytes
                    /\ \A s \in Stream : Pending(s, t) \in Bytes
                    /\ calls[t] = <<>> => Coming(t) = <<>>
                    /\ calls[t] = <<>> =>
                          \A s \in Stream :
                              Pending(s, t) = IF s = "stdout" THEN handle[t] ELSE <<>>
                    /\ pc[t] # "lock" /\ calls[t] # <<>> => Coming(t) = Tail(calls[t])
                    /\ calls[t] # <<>> =>
                          /\ Head(calls[t]) \in Seq(Bytes) /\ Tail(calls[t]) \in Calls
                          /\ Content(calls[t])
                                = FlattenSeq(Head(calls[t])) \o Content(Tail(calls[t]))
  OBVIOUS
<1>1. calls[t] \in Calls /\ handle[t] \in Bytes
  BY DEF Typed
<1>2. calls[t] = <<>> => Coming(t) = <<>>
  <2>1. SubSeq(<<>>, 2, Len(<<>>)) = <<>>
    BY SubSeqEmpty
  <2> QED
    BY <2>1 DEF Coming
<1>3. ASSUME calls[t] # <<>>
      PROVE /\ Head(calls[t]) \in Seq(Bytes) /\ Tail(calls[t]) \in Calls
            /\ calls[t] = <<Head(calls[t])>> \o Tail(calls[t])
            /\ SubSeq(calls[t], 2, Len(calls[t])) = Tail(calls[t])
  BY <1>1, <1>3, FirstAndRest DEF Calls
<1>4. pc[t] # "lock" /\ calls[t] # <<>> => Coming(t) = Tail(calls[t])
  BY <1>3 DEF Coming
<1>5. ASSUME calls[t] # <<>>
      PROVE Content(calls[t]) = FlattenSeq(Head(calls[t])) \o Content(Tail(calls[t]))
  <2> DEFINE p == Head(calls[t])
             q == Tail(calls[t])
  <2>1. p \in Seq(Bytes) /\ q \in Calls /\ calls[t] = <<p>> \o q
    BY <1>3, <1>5
  <2> HIDE DEF p, q
  <2>2. <<p>> \in Calls /\ Content(<<p>>) = FlattenSeq(p)
    BY <2>1, ContentOne
  <2>3. Content(calls[t]) = FlattenSeq(p) \o Content(q)
    BY <2>1, <2>2, ContentConcat
  <2> QED
    BY <2>3 DEF p, q
<1>6. Coming(t) \in Calls
  <2>1. CASE calls[t] = <<>>
    BY <1>2, <2>1, ContentEmpty
  <2>2. CASE calls[t] # <<>>
    BY <1>1, <1>3, <2>2 DEF Coming
  <2> QED
    BY <2>1, <2>2
<1>7. Content(Coming(t)) \in Bytes
  BY <1>6, ContentType
<1>8. ASSUME NEW s \in Stream
      PROVE /\ Pending(s, t) \in Bytes
            /\ calls[t] = <<>> => Pending(s, t) = IF s = "stdout" THEN handle[t] ELSE <<>>
  <2> DEFINE a == IF stream[t] = s THEN Content(Coming(t)) ELSE <<>>
             b == IF s = "stdout" THEN handle[t] ELSE <<>>
  <2>1. a \in Seq(Unit) /\ b \in Seq(Unit)
    BY <1>1, <1>7 DEF Bytes
  <2>2. calls[t] = <<>> => a = <<>>
    BY <1>2, ContentEmpty
  <2>3. Pending(s, t) = a \o b
    BY DEF Pending
  <2> HIDE DEF a, b
  <2>4. a \o b \in Seq(Unit) /\ (a = <<>> => a \o b = b)
    BY <2>1, ConcatProperties, ConcatEmptySeq
  <2> QED
    BY <2>2, <2>3, <2>4 DEF Bytes, b
<1> QED
  BY <1>2, <1>3, <1>4, <1>5, <1>6, <1>7, <1>8

LEMMA PendingIsNext ==
    Typed' =>
        \A t \in Thread :
            /\ Coming(t)' \in Calls /\ Content(Coming(t)') \in Bytes
            /\ \A s \in Stream : Pending(s, t)' \in Bytes
            /\ calls'[t] = <<>> => Coming(t)' = <<>>
            /\ calls'[t] = <<>> =>
                  \A s \in Stream : Pending(s, t)' = IF s = "stdout" THEN handle'[t] ELSE <<>>
            /\ pc'[t] # "lock" /\ calls'[t] # <<>> => Coming(t)' = Tail(calls'[t])
<1>1. (Typed =>
        \A t \in Thread :
            /\ Coming(t) \in Calls /\ Content(Coming(t)) \in Bytes
            /\ \A s \in Stream : Pending(s, t) \in Bytes
            /\ calls[t] = <<>> => Coming(t) = <<>>
            /\ calls[t] = <<>> =>
                  \A s \in Stream : Pending(s, t) = IF s = "stdout" THEN handle[t] ELSE <<>>
            /\ pc[t] # "lock" /\ calls[t] # <<>> => Coming(t) = Tail(calls[t]))'
  <2>1. Typed =>
        \A t \in Thread :
            /\ Coming(t) \in Calls /\ Content(Coming(t)) \in Bytes
            /\ \A s \in Stream : Pending(s, t) \in Bytes
            /\ calls[t] = <<>> => Coming(t) = <<>>
            /\ calls[t] = <<>> =>
                  \A s \in Stream : Pending(s, t) = IF s = "stdout" THEN handle[t] ELSE <<>>
            /\ pc[t] # "lock" /\ calls[t] # <<>> => Coming(t) = Tail(calls[t])
    BY PendingIs
  <2> QED
    BY <2>1, PTL
<1> QED
  BY <1>1

LEMMA SamePending ==
    ASSUME NEW u, Same(u), NEW s
    PROVE Pending(s, u)' = Pending(s, u)
BY DEF Same, Pending, Coming

\* A step that moves nothing between what is passed on, buffered and pending.
Quiet(s) ==
    /\ Passed(s)' = Passed(s) /\ buf'[s] = buf[s]
    /\ \A u \in Thread : Pending(s, u)' = Pending(s, u)

\* What goes on in the writer leaves what has gone there as it is.
LEMMA WritingQuiet ==
    ASSUME Control, Control', NEW t \in Thread, \A u \in Thread \ {t} : Same(u),
           pc[t] = "write", stream[t] \in Stream,
           UNCHANGED <<pc, stream, handle, calls, buf>>,
           fd'[stream[t]] \o Flight(t)' = fd[stream[t]] \o Flight(t),
           \A s \in Stream \ {stream[t]} : fd'[s] = fd[s]
    PROVE \A s \in Stream : Quiet(s)
<1> SUFFICES ASSUME NEW s \in Stream PROVE Quiet(s)
  OBVIOUS
<1>1. \A u \in Thread : Pending(s, u)' = Pending(s, u)
  BY DEF Pending, Coming
<1>2. CASE s = stream[t]
  <2>1. InFlight(s) = Flight(t) /\ InFlight(s)' = Flight(t)'
    BY <1>2, OneWriter, OneWriterNext
  <2>2. Passed(s)' = Passed(s)
    BY <1>2, <2>1 DEF Passed
  <2> QED
    BY <1>1, <2>2 DEF Quiet
<1>3. CASE s # stream[t]
  <2>1. InFlight(s)' = InFlight(s) /\ fd'[s] = fd[s]
    BY <1>3, OthersWrite
  <2>2. Passed(s)' = Passed(s)
    BY <2>1 DEF Passed
  <2> QED
    BY <1>1, <2>2 DEF Quiet
<1> QED
  BY <1>2, <1>3

\* A step outside the writer leaves what has gone there as it is.
LEMMA OutsidePassed ==
    ASSUME NEW t \in Thread, \A u \in Thread \ {t} : Same(u),
           pc[t] # "write", pc'[t] # "write", fd' = fd, NEW s \in Stream
    PROVE Passed(s)' = Passed(s)
<1>1. InFlight(s)' = InFlight(s)
  BY OthersWrite
<1> QED
  BY <1>1 DEF Passed

LEMMA FdQuiet ==
    ASSUME Typed, Control, NEW t \in Thread,
           Gather(t) \/ Writev(t) \/ WritevInterrupted(t) \/ Written(t)
    PROVE \A s \in Stream : Quiet(s)
<1>0. stream[t] \in Stream
  BY DEF Typed
<1>1. CASE Gather(t)
  <2>1. /\ Control' /\ pc[t] = "write" /\ Flight(t)' = Flight(t)
        /\ UNCHANGED <<pc, stream, handle, calls, buf, fd>>
    BY <1>1, GatherControl
  <2>2. \A u \in Thread \ {t} : Same(u)
    BY <1>1, GatherControl
  <2> QED
    BY <1>0, <2>1, <2>2, WritingQuiet
<1>2. CASE Writev(t)
  <2>1. /\ Control' /\ pc[t] = "write"
        /\ fd'[stream[t]] \o Flight(t)' = fd[stream[t]] \o Flight(t)
        /\ \A s \in Stream \ {stream[t]} : fd'[s] = fd[s]
        /\ UNCHANGED <<pc, stream, handle, calls, buf>>
    BY <1>2, WritevControl
  <2>2. \A u \in Thread \ {t} : Same(u)
    BY <1>2, WritevControl
  <2> QED
    BY <1>0, <2>1, <2>2, WritingQuiet
<1>3. CASE WritevInterrupted(t)
  <2>1. Control' /\ pc[t] = "write"
    BY <1>3, InterruptedControl DEF WritevInterrupted
  <2>2. UNCHANGED <<todo, pc, line, stream, handle, calls, buf, jobs, batch, fd>>
    BY <1>3 DEF WritevInterrupted, locals
  <2>3. Flight(t)' = Flight(t) /\ \A u \in Thread \ {t} : Same(u)
    BY <2>2 DEF Flight, Same
  <2> QED
    BY <1>0, <2>1, <2>2, <2>3, WritingQuiet
<1>4. CASE Written(t)
  <2>1. /\ pc[t] = "write" /\ pc'[t] # "write" /\ pc'[t] # "lock"
        /\ batch[t] = <<>> /\ jobs[t] = <<>>
        /\ UNCHANGED <<stream, handle, calls, buf, fd>>
    BY <1>4, WrittenControl
  <2>2. \A u \in Thread \ {t} : Same(u)
    BY <1>4, WrittenControl
  <2>3. Flight(t) = <<>>
    <3>1. <<>> \in Bytes /\ Content(<<>>) = <<>>
      BY ContentEmpty DEF Bytes
    <3>2. <<>> \o <<>> = <<>>
      OBVIOUS
    <3> QED
      BY <2>1, <3>1, <3>2 DEF Flight
  <2>4. ASSUME NEW s \in Stream PROVE Quiet(s)
    <3>1. InFlight(s)' = InFlight(s)
      <4>1. CASE s = stream[t]
        <5>1. InFlight(s)' = <<>>
          BY <2>1, <2>2, <4>1, WriterGone
        <5>2. InFlight(s) = <<>>
          BY <2>1, <2>3, <4>1, OneWriter
        <5> QED
          BY <5>1, <5>2
      <4>2. CASE s # stream[t]
        BY <2>1, <2>2, <4>2, OthersWrite
      <4> QED
        BY <4>1, <4>2
    <3>2. Passed(s)' = Passed(s)
      BY <2>1, <3>1 DEF Passed
    <3>3. ASSUME NEW u \in Thread PROVE Pending(s, u)' = Pending(s, u)
      <4>1. CASE u = t
        BY <2>1, <4>1 DEF Pending, Coming
      <4>2. CASE u # t
        BY <2>2, <4>2, SamePending
      <4> QED
        BY <4>1, <4>2
    <3> QED
      BY <2>1, <3>2, <3>3 DEF Quiet
  <2> QED
    BY <2>4
<1> QED
  BY <1>1, <1>2, <1>3, <1>4

LEMMA UnlockQuiet ==
    ASSUME Typed, Control, NEW t \in Thread, Unlock(t)
    PROVE \A s \in Stream : Quiet(s)
<1>1. /\ pc[t] = "unlock" /\ calls[t] # <<>>
      /\ calls' = [calls EXCEPT ![t] = Tail(@)]
      /\ Goto(t, IF Len(calls[t]) > 1 THEN "lock" ELSE "run")
      /\ UNCHANGED <<setup, todo, line, stream, handle, buf, jobs, batch, fd>>
  BY DEF Unlock, locals, faults, Control, Placed
<1>2. \A u \in Thread \ {t} : Same(u)
  BY <1>1 DEF Goto, Typed, Same
<1>3. Typed' /\ Control'
  BY UnlockControl
<1>4. calls'[t] = Tail(calls[t]) /\ pc'[t] \in {"lock", "run"}
  BY <1>1 DEF Typed, Goto
<1>5. Coming(t) = Tail(calls[t])
  BY <1>1, PendingIs
<1>6. Coming(t)' = Tail(calls[t])
  <2>1. CASE pc'[t] = "lock"
    BY <1>4, <2>1 DEF Coming
  <2>2. CASE pc'[t] = "run"
    <3>1. calls'[t] = <<>>
      BY <1>3, <2>2 DEF Control, Placed
    <3>2. Coming(t)' = <<>>
      BY <1>3, <3>1, PendingIsNext
    <3> QED
      BY <1>4, <3>1, <3>2
  <2> QED
    BY <1>4, <2>1, <2>2
<1>7. Coming(t)' = Coming(t) /\ stream'[t] = stream[t] /\ handle'[t] = handle[t]
  BY <1>1, <1>5, <1>6
<1> SUFFICES ASSUME NEW s \in Stream PROVE Quiet(s)
  OBVIOUS
<1>8. Passed(s)' = Passed(s)
  BY <1>1, <1>2, <1>4, OutsidePassed
<1>9. Pending(s, t)' = Pending(s, t)
  BY <1>7 DEF Pending
<1> QED
  BY <1>1, <1>2, <1>8, <1>9, SamePending DEF Quiet

LEMMA RemovedQuiet ==
    ASSUME Typed, Control, NEW t \in Thread, Removed(t) \/ FoundGone(t)
    PROVE \A s \in Stream : Quiet(s)
<1>1. /\ pc[t] = "run" /\ calls[t] = <<>>
      /\ UNCHANGED <<setup, handle, calls, buf, jobs, batch, fd>>
  BY DEF Removed, FoundGone, Meets, locals, Control, Placed
<1>2. /\ \A u \in Thread \ {t} : Same(u)
      /\ pc'[t] \in {"run", "handle"}
  BY DEF Removed, FoundGone, Meets, locals, Begin, Goto, Typed, Same
<1>3. Typed'
  BY RemovedControl
<1> SUFFICES ASSUME NEW s \in Stream PROVE Quiet(s)
  OBVIOUS
<1>4. Passed(s)' = Passed(s)
  BY <1>1, <1>2, OutsidePassed
<1>5. Pending(s, t)' = Pending(s, t)
  BY <1>1, <1>3, PendingIs, PendingIsNext
<1> QED
  BY <1>1, <1>2, <1>4, <1>5, SamePending DEF Quiet

LEMMA DropHandleQuiet ==
    ASSUME Typed, Control, NEW t \in Thread, DropHandle(t)
    PROVE \A s \in Stream : Quiet(s)
<1>1. /\ pc[t] = "run" /\ calls[t] = <<>> /\ handle[t] \in Bytes
      /\ UNCHANGED <<buf, jobs, batch, fd>>
  BY DEF DropHandle, Control, Placed, faults, Typed
<1>2. /\ \A u \in Thread \ {t} : Same(u)
      /\ pc'[t] \in {"done", "lock"}
  BY DEF DropHandle, Goto, Typed, Same
<1>3. Typed'
  BY DropHandleControl
<1> SUFFICES ASSUME NEW s \in Stream PROVE Quiet(s)
  OBVIOUS
<1>4. Passed(s)' = Passed(s)
  BY <1>1, <1>2, OutsidePassed
<1>5. Pending(s, t) = IF s = "stdout" THEN handle[t] ELSE <<>>
  BY <1>1, PendingIs
<1>6. Pending(s, t)' = Pending(s, t)
  <2>1. CASE handle[t] = <<>>
    <3>1. UNCHANGED <<handle, calls>>
      BY <2>1 DEF DropHandle
    <3> QED
      BY <1>1, <1>3, <1>5, <3>1, PendingIsNext
  <2>2. CASE handle[t] # <<>>
    <3> DEFINE h == handle[t]
               c == <<<<h>>>>
    <3>1. handle'[t] = <<>> /\ calls'[t] = c /\ stream'[t] = "stdout" /\ pc'[t] = "lock"
      BY <2>2 DEF DropHandle, Goto, Typed
    <3>2. Content(c) = h
      <4>1. <<h>> \in Seq(Bytes)
        BY <1>1
      <4>2. Content(c) = FlattenSeq(<<h>>)
        BY <4>1, ContentOne
      <4>3. FlattenSeq(<<h>>) = h
        BY <1>1, FlattenOne DEF Bytes
      <4> QED
        BY <4>2, <4>3
    <3>3. Coming(t)' = c
      BY <3>1 DEF Coming
    <3> HIDE DEF h, c
    <3>4. /\ Pending(s, t)' = (IF s = "stdout" THEN h ELSE <<>>) \o <<>>
      BY <3>1, <3>2, <3>3 DEF Pending
    <3>5. h \o <<>> = h /\ <<>> \o <<>> = <<>>
      BY <1>1, ConcatEmptySeq DEF Bytes, h
    <3> QED
      BY <1>5, <3>4, <3>5 DEF h
  <2> QED
    BY <2>1, <2>2
<1> QED
  BY <1>1, <1>2, <1>4, <1>6, SamePending DEF Quiet

\* A thread says the line of o on s.
Says(s, t, o) ==
    /\ \A r \in Stream : Passed(r)' = Passed(r)
    /\ buf' = buf
    /\ Pending(s, t)' = Pending(s, t) \o Text(o)
    /\ \A r \in Stream, u \in Thread :
          r # s \/ u # t => Pending(r, u)' = Pending(r, u)

LEMMA WriteHandleSays ==
    ASSUME Typed, Control, NEW t \in Thread, WriteHandle(t)
    PROVE /\ line[t] \in Object /\ Says("stdout", t, line[t])
          /\ pc[t] = "handle" /\ pc'[t] \in {"run", "lock"}
          /\ pc'[t] = "run" => Len(handle[t] \o Text(line[t])) <= setup.handle
          /\ \A u \in Thread \ {t} : Same(u)
          /\ UNCHANGED <<setup, todo, line, stream, buf, jobs, batch, fd, errors, fate,
                         begun>>
<1> DEFINE o == line[t]
           pieces == LinePieces(o)
           h == handle[t]
<1>1. /\ pc[t] = "handle" /\ calls[t] = <<>> /\ stream[t] = "stdout" /\ o \in Object
      /\ h \in Bytes
  BY DEF WriteHandle, Control, Placed, Typed
<1>2. pieces \in Seq(Bytes) /\ FlattenSeq(pieces) = Text(o) /\ Text(o) \in Bytes
  BY <1>1, TextIs DEF Text
<1>3. UNCHANGED <<setup, todo, line, stream, owner, buf, jobs, batch, fd, errors,
                  interrupts, fate, begun>>
  BY DEF WriteHandle, locals, faults
<1>4. /\ \A u \in Thread \ {t} : Same(u)
      /\ pc'[t] \in {"run", "lock"}
  BY <1>3 DEF WriteHandle, Goto, Typed, Same
<1>5. Typed'
  BY WriteHandleControl
<1>6. ASSUME NEW r \in Stream PROVE Passed(r)' = Passed(r)
  BY <1>1, <1>3, <1>4, OutsidePassed
<1>7. \A r \in Stream : Pending(r, t) = IF r = "stdout" THEN h ELSE <<>>
  BY <1>1, PendingIs
<1>8. \/ /\ Fits(h, pieces, setup.handle)
         /\ handle'[t] = h \o FlattenSeq(pieces) /\ calls'[t] = <<>> /\ pc'[t] = "run"
      \/ /\ handle'[t] = <<>> /\ calls'[t] = PassOn(h, pieces) /\ pc'[t] = "lock"
  BY <1>1 DEF WriteHandle, Typed, Goto
<1> HIDE DEF o, pieces, h
<1>9. CASE /\ Fits(h, pieces, setup.handle)
           /\ handle'[t] = h \o FlattenSeq(pieces) /\ calls'[t] = <<>> /\ pc'[t] = "run"
  <2>1. \A r \in Stream : Pending(r, t)' = IF r = "stdout" THEN h \o Text(o) ELSE <<>>
    BY <1>2, <1>5, <1>9, PendingIsNext
  <2>2. Len(h \o Text(o)) = Len(h) + Len(Text(o)) /\ Len(h) \in Nat /\ Len(Text(o)) \in Nat
    BY <1>1, <1>2, ConcatProperties DEF Bytes
  <2>3. Len(Text(o)) <= setup.handle - Len(h) /\ setup.handle \in Nat
    BY <1>2, <1>9, SetupIs DEF Fits
  <2>4. Len(h \o Text(o)) <= setup.handle
    BY <2>2, <2>3
  <2> QED
    BY <1>1, <1>3, <1>4, <1>6, <1>7, <1>9, <2>1, <2>4, SamePending, Constants
       DEF Says, o, h
<1>10. CASE handle'[t] = <<>> /\ calls'[t] = PassOn(h, pieces) /\ pc'[t] = "lock"
  <2>1. Coming(t)' = PassOn(h, pieces)
    BY <1>10 DEF Coming
  <2>2. Content(Coming(t))' = h \o Text(o)
    BY <1>1, <1>2, <2>1, PassOnContent
  <2>3. h \o Text(o) \in Seq(Unit)
    BY <1>1, <1>2, ConcatProperties DEF Bytes
  <2> DEFINE x == h \o Text(o)
  <2>4. x \in Seq(Unit) /\ Content(Coming(t))' = x
    BY <2>2, <2>3
  <2> HIDE DEF x
  <2>5. stream'[t] = "stdout" /\ handle'[t] = <<>>
    BY <1>1, <1>3, <1>10
  <2>6. ASSUME NEW r \in Stream PROVE Pending(r, t)' = IF r = "stdout" THEN x ELSE <<>>
    <3>1. Pending(r, t)' = (IF r = "stdout" THEN x ELSE <<>>) \o <<>>
      BY <2>4, <2>5 DEF Pending
    <3>2. x \o <<>> = x /\ <<>> \o <<>> = <<>>
      BY <2>4, ConcatEmptySeq
    <3> QED
      BY <3>1, <3>2
  <2> QED
    BY <1>1, <1>3, <1>4, <1>6, <1>7, <1>10, <2>6, SamePending, Constants
       DEF Says, o, h, x
<1> QED
  BY <1>8, <1>9, <1>10

LEMMA NotRemovedSays ==
    ASSUME Typed, Control, NEW t \in Thread, NotRemoved(t)
    PROVE /\ Head(todo[t]) \in Object /\ Says("stderr", t, Head(todo[t]))
          /\ pc[t] = "run" /\ pc'[t] = "lock" /\ Begin(t, "stderr")
          /\ todo[t] # <<>> /\ todo' = [todo EXCEPT ![t] = Tail(@)]
          /\ \A u \in Thread \ {t} : Same(u)
          /\ UNCHANGED <<setup, handle, buf, jobs, batch, fd, errors>>
<1> DEFINE o == Head(todo[t])
<1>1. /\ pc[t] = "run" /\ calls[t] = <<>> /\ o \in Object
      /\ todo[t] # <<>>
  <2>1. todo[t] \in Seq(Object) /\ todo[t] # <<>>
    BY DEF NotRemoved, Meets, Typed
  <2>2. o \in Object
    BY <2>1, HeadTailProperties
  <2> QED
    BY <2>1, <2>2 DEF NotRemoved, Meets, Control, Placed
<1>2. LinePieces(o) \in Seq(Bytes) /\ FlattenSeq(LinePieces(o)) = Text(o) /\ Text(o) \in Bytes
  BY <1>1, TextIs DEF Text
<1>3. /\ Begin(t, "stderr") /\ todo' = [todo EXCEPT ![t] = Tail(@)]
      /\ UNCHANGED <<setup, handle, owner, buf, jobs, batch, fd, errors, interrupts>>
  BY DEF NotRemoved, Meets, faults
<1>4. /\ \A u \in Thread \ {t} : Same(u)
      /\ pc'[t] = "lock" /\ calls'[t] = <<LinePieces(o)>> /\ stream'[t] = "stderr"
      /\ handle'[t] = handle[t] /\ buf' = buf
  BY DEF NotRemoved, Meets, Begin, Goto, Typed, Same
<1> DEFINE c == <<LinePieces(o)>>
<1>5. Content(c) = Text(o)
  BY <1>2, ContentOne
<1>6. Coming(t)' = c
  BY <1>4 DEF Coming
<1> HIDE DEF c, o
<1>7. ASSUME NEW r \in Stream PROVE Passed(r)' = Passed(r)
  BY <1>1, <1>3, <1>4, OutsidePassed
<1>8. ASSUME NEW r \in Stream
      PROVE Pending(r, t)' = IF r = "stderr" THEN Pending(r, t) \o Text(o) ELSE Pending(r, t)
  <2>1. Pending(r, t) = IF r = "stdout" THEN handle[t] ELSE <<>>
    BY <1>1, PendingIs
  <2>2. Pending(r, t)' = (IF r = "stderr" THEN Text(o) ELSE <<>>)
                         \o (IF r = "stdout" THEN handle[t] ELSE <<>>)
    BY <1>4, <1>5, <1>6 DEF Pending
  <2> DEFINE x == Text(o)
             h == handle[t]
  <2>3. x \in Seq(Unit) /\ h \in Seq(Unit)
    BY <1>2 DEF Typed, Bytes
  <2>4. /\ Pending(r, t) = IF r = "stdout" THEN h ELSE <<>>
        /\ Pending(r, t)' = (IF r = "stderr" THEN x ELSE <<>>)
                            \o (IF r = "stdout" THEN h ELSE <<>>)
    BY <2>1, <2>2
  <2> HIDE DEF x, h
  <2>5. x \o <<>> = x /\ <<>> \o x = x /\ <<>> \o h = h /\ <<>> \o <<>> = <<>>
    BY <2>3, ConcatEmptySeq
  <2>6. CASE r = "stdout"
    BY <2>4, <2>5, <2>6
  <2>7. CASE r = "stderr"
    BY <2>4, <2>5, <2>7 DEF x
  <2> QED
    BY <2>6, <2>7 DEF Stream
<1> QED
  BY <1>1, <1>3, <1>4, <1>7, <1>8, SamePending, Constants DEF Says, o

\* A WriteMany of the content c goes from what is pending to what is buffered,
\* or to what is passed on, after what was buffered.
Moves(s, t, c) ==
    /\ Pending(s, t) = c \o Pending(s, t)'
    /\ \/ Passed(s)' = Passed(s) /\ buf'[s] = buf[s] \o c
       \/ Passed(s)' = Passed(s) \o (buf[s] \o c) /\ buf'[s] = <<>>
    /\ \A u \in Thread \ {t} : Pending(s, u)' = Pending(s, u)

LEMMA LockMoves ==
    ASSUME Typed, Control, NEW t \in Thread, Lock(t), NEW s \in Stream, s = stream[t]
    PROVE LET c == FlattenSeq(Head(calls[t]))
          IN /\ c \in Bytes /\ Moves(s, t, c)
             /\ \A r \in Stream \ {s} : Quiet(r)
             /\ pc[t] = "lock" /\ pc'[t] \in {"unlock", "write"}
             /\ pc'[t] = "write" =>
                   (buf[s] \o c \in Bytes /\ Flight(t)' = buf[s] \o c)
<1> DEFINE pieces == Head(calls[t])
           c == FlattenSeq(pieces)
<1>1. /\ pc[t] = "lock" /\ calls[t] # <<>> /\ s \in Stream
      /\ pieces \in Seq(Bytes) /\ c \in Bytes /\ buf[s] \in Bytes
      /\ pc'[t] \in {"unlock", "write"}
      /\ UNCHANGED <<setup, todo, line, stream, handle, calls, batch, fd>>
  BY DepositTyped DEF Typed
<1>2. \A u \in Thread \ {t} : Same(u)
  BY DepositTyped
<1>3. Typed' /\ Control'
  BY LockControl
<1>4. batch[t] = <<>> /\ jobs[t] = <<>>
  BY <1>1 DEF Control, Placed
<1>5. \/ /\ buf' = [buf EXCEPT ![s] = @ \o c]
         /\ Goto(t, "unlock")
      \/ /\ buf' = [buf EXCEPT ![s] = <<>>]
         /\ jobs' = [jobs EXCEPT ![t] = PassOn(buf[s], pieces)]
         /\ Goto(t, "write")
  BY DEF Lock, Deposit
<1>6. Pending(s, t) = c \o Pending(s, t)'
  <2> DEFINE y == Content(Tail(calls[t]))
             h == IF s = "stdout" THEN handle[t] ELSE <<>>
  <2>1. Coming(t) = calls[t] /\ Content(calls[t]) = c \o y
    BY <1>1, PendingIs DEF Coming
  <2>2. Coming(t)' = Tail(calls[t])
    BY <1>1, <1>3, PendingIsNext
  <2>3. y \in Bytes /\ h \in Bytes
    <3>1. Content(Coming(t)') \in Bytes
      BY <1>3, PendingIsNext
    <3>2. y \in Bytes
      BY <2>2, <3>1
    <3> QED
      BY <3>2 DEF Bytes, Typed
  <2>4. Pending(s, t) = (c \o y) \o h
    BY <2>1 DEF Pending
  <2>5. Pending(s, t)' = y \o h
    BY <2>2, <1>1 DEF Pending
  <2> HIDE DEF y, h, c
  <2>6. (c \o y) \o h = c \o (y \o h)
    BY <1>1, <2>3, Associative DEF Bytes
  <2> QED
    BY <2>4, <2>5, <2>6
<1>7. \A u \in Thread \ {t} : \A r \in Stream : Pending(r, u)' = Pending(r, u)
  BY <1>2, SamePending
<1>8. ASSUME NEW r \in Stream \ {s} PROVE Quiet(r)
  <2>1. InFlight(r)' = InFlight(r)
    BY <1>1, <1>2, OthersWrite
  <2>2. Passed(r)' = Passed(r) /\ buf'[r] = buf[r]
    BY <1>1, <1>5, <2>1 DEF Passed, Typed
  <2>3. Pending(r, t)' = Pending(r, t)
    BY <1>1 DEF Pending
  <2> QED
    BY <1>7, <2>2, <2>3 DEF Quiet
<1> HIDE DEF pieces
<1>9. CASE /\ buf' = [buf EXCEPT ![s] = @ \o c]
           /\ Goto(t, "unlock")
  <2>1. buf'[s] = buf[s] \o c /\ pc'[t] = "unlock"
    BY <1>1, <1>9 DEF Goto, Typed
  <2>2. Passed(s)' = Passed(s)
    BY <1>1, <1>2, <2>1, OutsidePassed
  <2> QED
    BY <1>1, <1>6, <1>7, <1>8, <2>1, <2>2 DEF Moves, pieces
<1>10. CASE /\ buf' = [buf EXCEPT ![s] = <<>>]
            /\ jobs' = [jobs EXCEPT ![t] = PassOn(buf[s], pieces)]
            /\ Goto(t, "write")
  <2>1. /\ buf'[s] = <<>> /\ jobs'[t] = PassOn(buf[s], pieces) /\ pc'[t] = "write"
        /\ batch'[t] = <<>> /\ stream'[t] = s
    BY <1>1, <1>4, <1>10 DEF Goto, Typed
  <2> DEFINE d == buf[s] \o c
  <2>2. d \in Bytes
    BY <1>1, ConcatProperties DEF Bytes
  <2>3. Content(PassOn(buf[s], pieces)) = d
    BY <1>1, PassOnContent
  <2> HIDE DEF d
  <2>4. Flight(t)' = d
    <3>1. <<>> \o d = d
      BY <2>2, ConcatEmptySeq DEF Bytes
    <3> QED
      BY <2>1, <2>3, <3>1 DEF Flight
  <2>5. InFlight(s) = <<>> /\ InFlight(s)' = d
    BY <1>1, <1>2, <1>3, <2>1, <2>4, WriterCame
  <2>6. fd[s] \in Seq(Mark) /\ fd[s] \o <<>> = fd[s]
    BY <1>1, ConcatEmptySeq DEF Typed
  <2>7. Passed(s) = fd[s] /\ Passed(s)' = fd[s] \o d
    BY <1>1, <2>5, <2>6 DEF Passed
  <2> QED
    BY <1>1, <1>6, <1>7, <1>8, <2>1, <2>2, <2>4, <2>7 DEF Moves, pieces, d
<1> QED
  BY <1>5, <1>9, <1>10

\* A write that fails cuts what is passed on, and takes the calls to come.
Loses(s, t) ==
    /\ \E x, y \in Seq(Mark) :
          /\ Passed(s) = fd[s] \o x /\ Passed(s)' = Append(fd[s], Cut)
          /\ Pending(s, t) = y \o Pending(s, t)'
    /\ fd[s] \in Seq(Mark) /\ buf'[s] = buf[s]
    /\ \A u \in Thread \ {t} : Pending(s, u)' = Pending(s, u)

LEMMA FailsLoses ==
    ASSUME Typed, Control, NEW t \in Thread, WritevFails(t),
           NEW s \in Stream, s = stream[t]
    PROVE Loses(s, t) /\ \A r \in Stream \ {s} : Quiet(r)
<1>1. /\ Typed' /\ Control'
      /\ pc[t] = "write" /\ pc'[t] # "write" /\ pc'[t] # "lock" /\ s \in Stream
      /\ fd'[s] = Append(fd[s], Cut)
      /\ calls'[t] = IF calls[t] = <<>> THEN <<>> ELSE <<Head(calls[t])>>
      /\ UNCHANGED <<stream, handle, buf>>
  BY FailsControl DEF Typed
<1>2. \A u \in Thread \ {t} : Same(u)
  BY FailsControl
<1>3. \A r \in Stream \ {s} : fd'[r] = fd[r]
  BY FailsControl
<1>4. Coming(t)' = <<>>
  <2>1. CASE calls[t] = <<>>
    BY <1>1, <2>1, PendingIsNext
  <2>2. CASE calls[t] # <<>>
    <3> DEFINE p == Head(calls[t])
    <3>1. p \in Seq(Bytes)
      BY <2>2, PendingIs
    <3>2. calls'[t] = <<p>>
      BY <1>1, <2>2
    <3> HIDE DEF p
    <3>3. calls'[t] # <<>> /\ Tail(<<p>>) = <<>>
      BY <3>2
    <3> QED
      BY <1>1, <3>2, <3>3, PendingIsNext
  <2> QED
    BY <2>1, <2>2
<1> DEFINE y == Content(Coming(t))
           h == IF s = "stdout" THEN handle[t] ELSE <<>>
<1>5. y \in Bytes /\ h \in Bytes
  BY PendingIs DEF Typed, Bytes
<1>6. Pending(s, t) = y \o h
  BY DEF Pending
<1>7. Pending(s, t)' = <<>> \o h
  BY <1>1, <1>4, ContentEmpty DEF Pending
<1> HIDE DEF y, h
<1>8. Pending(s, t) = y \o Pending(s, t)' /\ y \in Seq(Mark)
  <2>1. <<>> \o h = h
    BY <1>5, ConcatEmptySeq DEF Bytes
  <2> QED
    BY <1>5, <1>6, <1>7, <2>1, BytesAreMarks
<1>9. Passed(s) = fd[s] \o InFlight(s) /\ InFlight(s) \in Seq(Mark)
  BY <1>1, PassedType DEF Passed
<1>10. Passed(s)' = Append(fd[s], Cut)
  <2>1. InFlight(s)' = <<>>
    BY <1>1, <1>2, WriterGone
  <2>2. fd'[s] \in Seq(Mark)
    BY <1>1 DEF Typed
  <2>3. fd'[s] \o <<>> = fd'[s]
    BY <2>2, ConcatEmptySeq
  <2> QED
    BY <1>1, <2>1, <2>3 DEF Passed
<1>11. ASSUME NEW r \in Stream \ {s} PROVE Quiet(r)
  <2>1. InFlight(r)' = InFlight(r)
    BY <1>1, <1>2, OthersWrite
  <2>2. Passed(r)' = Passed(r)
    BY <1>3, <2>1 DEF Passed
  <2>3. Pending(r, t)' = Pending(r, t)
    BY <1>1 DEF Pending
  <2> QED
    BY <1>1, <1>2, <2>2, <2>3, SamePending DEF Quiet
<1>12. ASSUME NEW u \in Thread \ {t} PROVE Pending(s, u)' = Pending(s, u)
  <2>1. Same(u)
    BY <1>2
  <2> QED
    BY <2>1, SamePending
<1>13. fd[s] \in Seq(Mark) /\ buf'[s] = buf[s]
  BY <1>1 DEF Typed
<1> QED
  BY <1>8, <1>9, <1>10, <1>11, <1>12, <1>13 DEF Loses

\* At the end what is buffered is passed on.
LEMMA CloseMoves ==
    ASSUME Typed, Control, Close
    PROVE /\ Passed("stdout")' = Passed("stdout") \o buf["stdout"]
          /\ buf'["stdout"] = <<>> /\ buf["stdout"] \in Bytes
          /\ Flight(Main)' = buf["stdout"]
          /\ Quiet("stderr")
          /\ \A s \in Stream, t \in Thread : Pending(s, t)' = Pending(s, t)
<1> DEFINE b == buf["stdout"]
<1>1. /\ Typed' /\ Control'
      /\ pc[Main] = "done" /\ pc'[Main] = "write" /\ stream'[Main] = "stdout"
      /\ calls[Main] = <<>> /\ handle[Main] = <<>> /\ batch[Main] = <<>>
      /\ jobs'[Main] = IF b = <<>> THEN <<>> ELSE <<<<b>>>>
      /\ buf'["stdout"] = <<>> /\ buf'["stderr"] = buf["stderr"]
      /\ UNCHANGED <<handle, calls, batch, fd>>
      /\ Main \in Thread /\ "stdout" \in Stream /\ "stderr" \in Stream
      /\ b \in Bytes
  BY CloseControl, Constants DEF Typed
<1>2. \A u \in Thread \ {Main} : Same(u)
  BY CloseControl
<1> HIDE DEF b
<1>3. Content(jobs'[Main]) = b
  <2>1. CASE b = <<>>
    BY <1>1, <2>1, ContentEmpty
  <2>2. CASE b # <<>>
    <3>1. <<b>> \in Seq(Bytes) /\ FlattenSeq(<<b>>) = b
      BY <1>1, FlattenOne DEF Bytes
    <3>2. Content(<<<<b>>>>) = FlattenSeq(<<b>>)
      BY <3>1, ContentOne
    <3> QED
      BY <1>1, <2>2, <3>1, <3>2
  <2> QED
    BY <2>1, <2>2
<1>4. Flight(Main)' = b
  <2>1. <<>> \o b = b
    BY <1>1, ConcatEmptySeq DEF Bytes
  <2> QED
    BY <1>1, <1>3, <2>1 DEF Flight
<1>5. InFlight("stdout") = <<>> /\ InFlight("stdout")' = b
  BY <1>1, <1>2, <1>4, WriterCame
<1>6. Passed("stdout")' = Passed("stdout") \o b
  <2>1. fd["stdout"] \in Seq(Mark)
    BY <1>1 DEF Typed
  <2>2. fd["stdout"] \o <<>> = fd["stdout"]
    BY <2>1, ConcatEmptySeq
  <2> QED
    BY <1>1, <1>5, <2>2 DEF Passed
<1>7. ASSUME NEW s \in Stream, NEW t \in Thread PROVE Pending(s, t)' = Pending(s, t)
  <2>1. CASE t = Main
    BY <1>1, <2>1, PendingIs, PendingIsNext
  <2>2. CASE t # Main
    BY <1>2, <2>2, SamePending
  <2> QED
    BY <2>1, <2>2
<1>8. Quiet("stderr")
  <2>1. InFlight("stderr")' = InFlight("stderr")
    BY <1>1, <1>2, OthersWrite
  <2> QED
    BY <1>1, <1>7, <2>1 DEF Quiet, Passed
<1> QED
  BY <1>1, <1>4, <1>6, <1>7, <1>8 DEF b

----------------------------------------------------------------------------
(* Lines stay whole                                                        *)

LEMMA WholeCallsOne ==
    ASSUME NEW p, Whole(FlattenSeq(p))
    PROVE WholeCalls(<<p>>)
BY DEF WholeCalls

LEMMA WholeCallsHead ==
    ASSUME NEW c \in Calls, c # <<>>, WholeCalls(c)
    PROVE Whole(FlattenSeq(Head(c))) /\ WholeCalls(Tail(c)) /\ WholeCalls(<<Head(c)>>)
<1>1. Head(c) = c[1] /\ 1 \in DOMAIN c
  BY DEF Calls
<1>2. Whole(FlattenSeq(Head(c)))
  BY <1>1 DEF WholeCalls
<1>3. ASSUME NEW i \in DOMAIN Tail(c) PROVE Whole(FlattenSeq(Tail(c)[i]))
  <2>1. i + 1 \in DOMAIN c /\ Tail(c)[i] = c[i + 1]
    BY DEF Calls
  <2> QED
    BY <2>1 DEF WholeCalls
<1> QED
  BY <1>2, <1>3, WholeCallsOne DEF WholeCalls

LEMMA WholeBytes ==
    ASSUME NEW p \in Bytes, NEW q \in Bytes, Whole(p), Whole(q)
    PROVE Whole(p \o q)
BY WholeConcat, BytesAreMarks

LEMMA WholePassOn ==
    ASSUME NEW b \in Bytes, NEW p \in Seq(Bytes), Whole(b), Whole(FlattenSeq(p))
    PROVE WholeCalls(PassOn(b, p))
<1>1. FlattenSeq(<<b>>) = b
  BY FlattenOne DEF Bytes
<1>2. FlattenSeq(<<b>> \o p) = b \o FlattenSeq(p)
  <2>1. <<b>> \in Seq(Seq(Unit)) /\ p \in Seq(Seq(Unit))
    BY DEF Bytes
  <2> QED
    BY <2>1, <1>1, FlattenConcat
<1>3. Whole(b \o FlattenSeq(p))
  <2>1. FlattenSeq(p) \in Bytes
    BY FlattenType DEF Bytes
  <2> QED
    BY <2>1, WholeBytes
<1>4. ASSUME NEW i \in DOMAIN PassOn(b, p) PROVE Whole(FlattenSeq(PassOn(b, p)[i]))
  <2>1. PassOn(b, p)[i] \in {<<b>>, p, <<b>> \o p}
    BY PassOnCalls
  <2> QED
    BY <2>1, <1>1, <1>2, <1>3
<1> QED
  BY <1>4 DEF WholeCalls

LEMMA WholeStep ==
    ASSUME WholeInv, NEW t \in Thread, \A u \in Thread \ {t} : Same(u),
           \A s \in Stream : Whole(Passed(s)') /\ Whole(buf'[s]),
           Whole(handle'[t]), WholeCalls(calls'[t])
    PROVE WholeInv'
<1>1. ASSUME NEW u \in Thread PROVE Whole(handle'[u]) /\ WholeCalls(calls'[u])
  <2>1. u # t => Same(u)
    OBVIOUS
  <2>2. Whole(handle[u]) /\ WholeCalls(calls[u])
    BY DEF WholeInv
  <2>3. u # t => handle'[u] = handle[u] /\ calls'[u] = calls[u]
    BY <2>1 DEF Same
  <2> QED
    BY <2>2, <2>3
<1> QED
  BY <1>1 DEF WholeInv

LEMMA QuietWhole ==
    ASSUME WholeInv, \A s \in Stream : Quiet(s)
    PROVE \A s \in Stream : Whole(Passed(s)') /\ Whole(buf'[s])
BY DEF WholeInv, Quiet

LEMMA FdWhole ==
    ASSUME Typed, Control, WholeInv, NEW t \in Thread,
           Gather(t) \/ Writev(t) \/ WritevInterrupted(t) \/ Written(t)
    PROVE WholeInv'
<1>1. UNCHANGED <<handle, calls>>
  BY DEF Gather, Writev, WritevInterrupted, Written
<1>2. \A s \in Stream : Whole(Passed(s)') /\ Whole(buf'[s])
  BY FdQuiet, QuietWhole
<1> QED
  BY <1>1, <1>2 DEF WholeInv

LEMMA RemovedWhole ==
    ASSUME Typed, Control, WholeInv, NEW t \in Thread, Removed(t) \/ FoundGone(t)
    PROVE WholeInv'
<1>1. UNCHANGED <<handle, calls>>
  BY DEF Removed, FoundGone
<1>2. \A s \in Stream : Whole(Passed(s)') /\ Whole(buf'[s])
  BY RemovedQuiet, QuietWhole
<1> QED
  BY <1>1, <1>2 DEF WholeInv

LEMMA UnlockWhole ==
    ASSUME Typed, Control, WholeInv, NEW t \in Thread, Unlock(t)
    PROVE WholeInv'
<1>1. /\ calls[t] # <<>> /\ calls[t] \in Calls /\ handle' = handle
      /\ calls'[t] = Tail(calls[t])
  BY DEF Unlock, Control, Placed, Typed
<1>2. \A u \in Thread \ {t} : Same(u)
  BY DEF Unlock, Goto, Typed, Same, locals
<1>3. \A s \in Stream : Whole(Passed(s)') /\ Whole(buf'[s])
  BY UnlockQuiet, QuietWhole
<1>4. Whole(handle'[t]) /\ WholeCalls(calls[t])
  BY <1>1 DEF WholeInv
<1>5. WholeCalls(calls'[t])
  BY <1>1, <1>4, WholeCallsHead
<1> QED
  BY <1>2, <1>3, <1>4, <1>5, WholeStep

LEMMA DropHandleWhole ==
    ASSUME Typed, Control, WholeInv, NEW t \in Thread, DropHandle(t)
    PROVE WholeInv'
<1>1. \A u \in Thread \ {t} : Same(u)
  BY DEF DropHandle, Goto, Typed, Same
<1>2. \A s \in Stream : Whole(Passed(s)') /\ Whole(buf'[s])
  BY DropHandleQuiet, QuietWhole
<1> DEFINE h == handle[t]
<1>3. Whole(h) /\ WholeCalls(calls[t]) /\ h \in Bytes
  BY DEF WholeInv, Typed
<1>4. \/ handle'[t] = h /\ calls'[t] = calls[t]
      \/ handle'[t] = <<>> /\ calls'[t] = <<<<h>>>>
  BY DEF DropHandle, Typed
<1> HIDE DEF h
<1>5. Whole(handle'[t]) /\ WholeCalls(calls'[t])
  <2>1. FlattenSeq(<<h>>) = h
    BY <1>3, FlattenOne DEF Bytes
  <2>2. WholeCalls(<<<<h>>>>)
    BY <1>3, <2>1, WholeCallsOne
  <2> QED
    BY <1>3, <1>4, <2>2, WholeEmpty
<1> QED
  BY <1>1, <1>2, <1>5, WholeStep

LEMMA WriteHandleWhole ==
    ASSUME Typed, Control, WholeInv, NEW t \in Thread, WriteHandle(t)
    PROVE WholeInv'
<1> DEFINE o == line[t]
           p == LinePieces(o)
           h == handle[t]
<1>1. o \in Object /\ Says("stdout", t, o)
  BY WriteHandleSays
<1>2. \A u \in Thread \ {t} : Same(u)
  BY WriteHandleSays
<1>3. \A s \in Stream : Whole(Passed(s)') /\ Whole(buf'[s])
  BY <1>1 DEF Says, WholeInv
<1>4. p \in Seq(Bytes) /\ FlattenSeq(p) \in Bytes /\ Whole(FlattenSeq(p))
  BY <1>1, TextIs, WholeText DEF Text
<1>5. h \in Bytes /\ Whole(h) /\ WholeCalls(calls[t])
  BY DEF WholeInv, Typed
<1>6. \/ handle'[t] = h \o FlattenSeq(p) /\ calls'[t] = calls[t]
      \/ handle'[t] = <<>> /\ calls'[t] = PassOn(h, p)
  BY DEF WriteHandle, Typed
<1> HIDE DEF o, p, h
<1>7. Whole(h \o FlattenSeq(p)) /\ WholeCalls(PassOn(h, p))
  BY <1>4, <1>5, WholeBytes, WholePassOn
<1>8. Whole(handle'[t]) /\ WholeCalls(calls'[t])
  BY <1>5, <1>6, <1>7, WholeEmpty
<1> QED
  BY <1>2, <1>3, <1>8, WholeStep

LEMMA NotRemovedWhole ==
    ASSUME Typed, Control, WholeInv, NEW t \in Thread, NotRemoved(t)
    PROVE WholeInv'
<1> DEFINE o == Head(todo[t])
           p == LinePieces(o)
<1>1. o \in Object /\ Says("stderr", t, o) /\ handle' = handle
  BY NotRemovedSays
<1>2. \A u \in Thread \ {t} : Same(u)
  BY NotRemovedSays
<1>3. \A s \in Stream : Whole(Passed(s)') /\ Whole(buf'[s])
  BY <1>1 DEF Says, WholeInv
<1>4. calls'[t] = <<p>>
  BY DEF NotRemoved, Meets, Typed
<1>5. Whole(FlattenSeq(p)) /\ Whole(handle'[t])
  BY <1>1, WholeText DEF Text, WholeInv
<1> HIDE DEF o, p
<1>6. WholeCalls(calls'[t])
  BY <1>4, <1>5, WholeCallsOne
<1> QED
  BY <1>2, <1>3, <1>5, <1>6, WholeStep

LEMMA LockWhole ==
    ASSUME Typed, Control, WholeInv, NEW t \in Thread, Lock(t)
    PROVE WholeInv'
<1>0. PICK s \in Stream : s = stream[t]
  BY DEF Typed
<1> DEFINE c == FlattenSeq(Head(calls[t]))
           b == buf[s]
           p == Passed(s)
<1>1. /\ calls[t] # <<>> /\ UNCHANGED <<handle, calls>>
      /\ calls[t] \in Calls /\ b \in Bytes
  BY DepositTyped DEF Typed
<1>2. \A u \in Thread \ {t} : Same(u)
  BY DepositTyped
<1>3. c \in Bytes /\ Moves(s, t, c)
  BY <1>0, LockMoves
<1>4. Whole(c)
  BY <1>1, WholeCallsHead DEF WholeInv
<1>5. Whole(b) /\ Whole(p)
  BY <1>1 DEF WholeInv
<1>6. b \o c \in Bytes /\ p \in Seq(Mark)
  BY <1>1, <1>3, ConcatProperties, PassedType DEF Bytes
<1>7. \A r \in Stream \ {s} : Quiet(r)
  BY <1>0, LockMoves
<1>8. \/ Passed(s)' = p /\ buf'[s] = b \o c
      \/ Passed(s)' = p \o (b \o c) /\ buf'[s] = <<>>
  BY <1>3 DEF Moves
<1> HIDE DEF c, b, p
<1>9. Whole(b \o c)
  BY <1>1, <1>3, <1>4, <1>5, WholeBytes
<1>10. Whole(p \o (b \o c))
  <2> DEFINE d == b \o c
  <2>1. d \in Seq(Mark) /\ Whole(d)
    BY <1>6, <1>9, BytesAreMarks
  <2> HIDE DEF d
  <2>2. Whole(p \o d)
    BY <1>5, <1>6, <2>1, WholeConcat
  <2> QED
    BY <2>2 DEF d
<1>11. ASSUME NEW r \in Stream PROVE Whole(Passed(r)') /\ Whole(buf'[r])
  <2>1. CASE r = s
    BY <1>5, <1>8, <1>9, <1>10, <2>1, WholeEmpty
  <2>2. CASE r # s
    BY <1>7, <2>2 DEF Quiet, WholeInv
  <2> QED
    BY <2>1, <2>2
<1> QED
  BY <1>1, <1>11 DEF WholeInv

LEMMA FailsWhole ==
    ASSUME Typed, Control, WholeInv, NEW t \in Thread, WritevFails(t)
    PROVE WholeInv'
<1>0. PICK s \in Stream : s = stream[t]
  BY DEF Typed
<1>1. Loses(s, t)
  BY <1>0, FailsLoses
<1>2. \A r \in Stream \ {s} : Quiet(r)
  BY <1>0, FailsLoses
<1>3. \A u \in Thread \ {t} : Same(u)
  BY FailsControl
<1>4. /\ calls'[t] = IF calls[t] = <<>> THEN <<>> ELSE <<Head(calls[t])>>
      /\ handle' = handle
  BY FailsControl
<1>5. PICK x \in Seq(Mark) :
        Passed(s) = fd[s] \o x /\ Passed(s)' = Append(fd[s], Cut) /\ fd[s] \in Seq(Mark)
  BY <1>1 DEF Loses
<1>6. Whole(Passed(s)) /\ Whole(buf[s])
  BY <1>1 DEF WholeInv
<1>7. Whole(Passed(s)')
  <2> DEFINE f == fd[s]
  <2>1. f \in Seq(Mark) /\ Whole(f \o x) /\ Passed(s)' = Append(f, Cut)
    BY <1>5, <1>6
  <2> HIDE DEF f
  <2>2. Whole(Append(f, Cut))
    BY <2>1, WholeCut
  <2> QED
    BY <2>1, <2>2
<1>8. buf'[s] = buf[s]
  BY <1>1 DEF Loses
<1>9. ASSUME NEW r \in Stream PROVE Whole(Passed(r)') /\ Whole(buf'[r])
  <2>1. CASE r = s
    BY <1>6, <1>7, <1>8, <2>1
  <2>2. CASE r # s
    BY <1>2, <2>2 DEF Quiet, WholeInv
  <2> QED
    BY <2>1, <2>2
<1>10. WholeCalls(calls'[t])
  <2>1. calls[t] \in Calls /\ WholeCalls(calls[t])
    BY DEF Typed, WholeInv
  <2>2. WholeCalls(<<>>)
    BY DEF WholeCalls
  <2> QED
    BY <1>4, <2>1, <2>2, WholeCallsHead
<1>11. Whole(handle'[t])
  BY <1>4 DEF WholeInv
<1> QED
  BY <1>3, <1>9, <1>10, <1>11, WholeStep

LEMMA CloseWhole ==
    ASSUME Typed, Control, WholeInv, Close
    PROVE WholeInv'
<1> DEFINE b == buf["stdout"]
           p == Passed("stdout")
<1>1. /\ Passed("stdout")' = p \o b /\ buf'["stdout"] = <<>> /\ b \in Bytes
      /\ Quiet("stderr")
  BY CloseMoves
<1>2. UNCHANGED <<handle, calls>>
  BY DEF Close
<1>3. Whole(p) /\ Whole(b) /\ p \in Seq(Mark) /\ b \in Seq(Mark)
  BY <1>1, Constants, PassedType, BytesAreMarks DEF WholeInv
<1> HIDE DEF b, p
<1>4. Whole(p \o b)
  BY <1>3, WholeConcat
<1>5. Whole(Passed("stderr")') /\ Whole(buf'["stderr"])
  BY <1>1, Constants DEF Quiet, WholeInv
<1> QED
  BY <1>1, <1>2, <1>4, <1>5, WholeEmpty DEF WholeInv, Stream

----------------------------------------------------------------------------
(* A thread's lines stay in order                                          *)

LEMMA MarkSets ==
    ASSUME NEW p \in Seq(Mark), NEW q \in Seq(Mark)
    PROVE p \o q \in Seq(Mark) /\ ToSet(p \o q) = ToSet(p) \cup ToSet(q)
BY ConcatProperties, ToSetConcat

LEMMA SettledPut ==
    ASSUME NEW p \in Seq(Mark), NEW b \in Seq(Mark), NEW q \in Seq(Mark),
           NEW c \in Seq(Mark), NEW t, NEW n, Settled(p, b, q, t, n),
           Ordered(c, t), Before(p, c, t), Before(b, c, t), Before(c, q, t), Begun(c, t, n)
    PROVE Settled(p, b \o c, q, t, n)
<1>1. ToSet(b \o c) = ToSet(b) \cup ToSet(c)
  BY MarkSets
<1>2. Ordered(b \o c, t)
  BY OrderedConcat DEF Settled
<1> DEFINE d == b \o c
<1>3. ToSet(d) = ToSet(b) \cup ToSet(c) /\ Ordered(d, t)
  BY <1>1, <1>2
<1> HIDE DEF d
<1>4. Before(p, d, t) /\ Before(d, q, t) /\ Begun(d, t, n)
  BY <1>3 DEF Settled, Before, Begun
<1>5. Settled(p, d, q, t, n)
  BY <1>3, <1>4 DEF Settled
<1> QED
  BY <1>5 DEF d

\* The buffer is passed on.
LEMMA SettledFlush ==
    ASSUME NEW p \in Seq(Mark), NEW b \in Seq(Mark), NEW q,
           NEW t, NEW n, Settled(p, b, q, t, n)
    PROVE Settled(p \o b, <<>>, q, t, n)
<1> DEFINE d == p \o b
<1>1. ToSet(d) = ToSet(p) \cup ToSet(b)
  BY MarkSets
<1>2. Ordered(d, t)
  BY OrderedConcat DEF Settled
<1>3. Ordered(<<>>, t) /\ ToSet(<<>>) = {}
  BY OrderedEmpty, ToSetEmpty
<1> HIDE DEF d
<1>4. Before(d, q, t) /\ Begun(d, t, n)
  BY <1>1 DEF Settled, Before, Begun
<1>5. Before(d, <<>>, t) /\ Before(<<>>, q, t) /\ Begun(<<>>, t, n)
  BY <1>3 DEF Before, Begun
<1>6. Settled(d, <<>>, q, t, n)
  BY <1>2, <1>3, <1>4, <1>5 DEF Settled
<1> QED
  BY <1>6 DEF d

\* What was pending first goes behind what is buffered, and on.
LEMMA SettledMoves ==
    ASSUME NEW p \in Seq(Mark), NEW b \in Seq(Mark), NEW q \in Seq(Mark),
           NEW c \in Seq(Mark), NEW t, NEW n, Settled(p, b, c \o q, t, n)
    PROVE Settled(p, b \o c, q, t, n) /\ Settled(p \o (b \o c), <<>>, q, t, n) /\ Mine(c, t)
<1>1. /\ Ordered(c, t) /\ Ordered(q, t) /\ Before(c, q, t)
  BY OrderedConcat DEF Settled
<1> DEFINE d == c \o q
<1>2. ToSet(d) = ToSet(c) \cup ToSet(q) /\ Settled(p, b, d, t, n)
  BY MarkSets
<1> HIDE DEF d
<1>3. /\ Before(p, c, t) /\ Before(b, c, t) /\ Begun(c, t, n) /\ Mine(c, t)
      /\ Before(p, q, t) /\ Before(b, q, t) /\ Begun(q, t, n) /\ Mine(q, t)
  BY <1>2 DEF Settled, Before, Begun, Mine
<1>4. Settled(p, b, q, t, n)
  BY <1>1, <1>2, <1>3 DEF Settled
<1>5. Settled(p, b \o c, q, t, n)
  BY <1>1, <1>3, <1>4, SettledPut
<1>6. b \o c \in Seq(Mark)
  BY MarkSets
<1> DEFINE e == b \o c
<1>7. Settled(p, e, q, t, n) /\ e \in Seq(Mark)
  BY <1>5, <1>6
<1> HIDE DEF e
<1>8. Settled(p \o e, <<>>, q, t, n)
  BY <1>7, SettledFlush
<1> QED
  BY <1>3, <1>7, <1>8 DEF e

\* Nothing in c is a line of u's.
Foreign(c, u) == \A a \in ToSet(c) : \A k \in DOMAIN Work[u] : a[1] # Work[u][k]

LEMMA ForeignIs ==
    ASSUME NEW c, NEW u, Foreign(c, u)
    PROVE /\ Ordered(c, u) /\ (\A n : Begun(c, u, n))
          /\ \A x : Before(c, x, u) /\ Before(x, c, u)
<1>1. Ordered(c, u)
  BY DEF Ordered, Earlier, Foreign, ToSet
<1>2. \A n : Begun(c, u, n)
  BY DEF Begun, Foreign
<1>3. \A x : Before(c, x, u) /\ Before(x, c, u)
  BY DEF Before, Earlier, Foreign
<1> QED
  BY <1>1, <1>2, <1>3

LEMMA MineIsForeign ==
    ASSUME NEW c, NEW t \in Thread, Mine(c, t), NEW u \in Thread \ {t}
    PROVE Foreign(c, u)
<1> SUFFICES ASSUME NEW a \in ToSet(c), NEW k \in DOMAIN Work[u], a[1] = Work[u][k]
             PROVE FALSE
  BY DEF Foreign
<1>1. a[1] \in ToSet(Work[t])
  BY DEF Mine
<1>2. PICK l \in DOMAIN Work[t] : a[1] = Work[t][l]
  BY <1>1 DEF ToSet
<1> QED
  BY <1>2, WorkAssumption

LEMMA SettledForeign ==
    ASSUME NEW p \in Seq(Mark), NEW b \in Seq(Mark), NEW q \in Seq(Mark),
           NEW c \in Seq(Mark), NEW u, NEW n, Settled(p, b, q, u, n), Foreign(c, u)
    PROVE Settled(p, b \o c, q, u, n) /\ Settled(p \o (b \o c), <<>>, q, u, n)
<1>1. Settled(p, b \o c, q, u, n)
  BY ForeignIs, SettledPut
<1>2. b \o c \in Seq(Mark)
  BY MarkSets
<1> DEFINE e == b \o c
<1>3. Settled(p, e, q, u, n) /\ e \in Seq(Mark)
  BY <1>1, <1>2
<1> HIDE DEF e
<1>4. Settled(p \o e, <<>>, q, u, n)
  BY <1>3, SettledFlush
<1> QED
  BY <1>3, <1>4 DEF e

\* A write that fails takes out what it takes, and leaves a mark of nobody's.
LEMMA SettledCut ==
    ASSUME NEW p \in Seq(Mark), NEW x \in Seq(Mark), NEW b \in Seq(Mark),
           NEW y \in Seq(Mark), NEW q \in Seq(Mark), NEW t \in Thread, NEW n,
           Settled(p \o x, b, y \o q, t, n)
    PROVE Settled(Append(p, Cut), b, q, t, n)
<1> DEFINE d == p \o x
           e == y \o q
           c == <<Cut>>
           r == p \o c
<1>1. ToSet(d) = ToSet(p) \cup ToSet(x) /\ ToSet(e) = ToSet(y) \cup ToSet(q)
  BY MarkSets
<1>2. Settled(d, b, e, t, n)
  OBVIOUS
<1>3. c \in Seq(Mark) /\ ToSet(c) = {Cut}
  BY DEF Mark, ToSet
<1>4. Ordered(p, t) /\ Ordered(q, t)
  BY OrderedConcat DEF Settled
<1>5. Foreign(c, t)
  <2>1. \A k \in DOMAIN Work[t] : Work[t][k] \in Object
    BY Constants
  <2> QED
    BY <1>3, <2>1, CutIsApart DEF Foreign
<1>6. Append(p, Cut) = r
  BY AppendIsConcat DEF Mark
<1>7. ToSet(r) = ToSet(p) \cup ToSet(c)
  BY <1>3, MarkSets
<1>8. Before(p, c, t) /\ Ordered(c, t) /\ Before(c, b, t) /\ Before(c, q, t) /\ Begun(c, t, n)
  BY <1>5, ForeignIs
<1>9. Ordered(r, t)
  BY <1>3, <1>4, <1>8, OrderedConcat
<1> HIDE DEF d, e, c, r
<1>10. Before(r, b, t) /\ Before(r, q, t) /\ Before(b, q, t)
  BY <1>1, <1>2, <1>7, <1>8 DEF Settled, Before
<1>11. Begun(r, t, n) /\ Begun(q, t, n) /\ Mine(q, t) /\ Ordered(b, t) /\ Begun(b, t, n)
  BY <1>1, <1>2, <1>7, <1>8 DEF Settled, Begun, Mine
<1>12. Settled(r, b, q, t, n)
  BY <1>4, <1>9, <1>10, <1>11 DEF Settled
<1> QED
  BY <1>6, <1>12

\* The next line goes last.
LEMMA SettledSays ==
    ASSUME NEW p \in Seq(Mark), NEW b \in Seq(Mark), NEW q \in Seq(Mark), NEW t \in Thread,
           NEW n \in Int, n + 1 \in DOMAIN Work[t], NEW o, o = Work[t][n + 1],
           Settled(p, b, q, t, n)
    PROVE Settled(p, b, q \o Text(o), t, n + 1)
<1>1. o \in Object /\ o \in ToSet(Work[t])
  BY Constants DEF ToSet
<1> DEFINE x == Text(o)
           d == q \o x
<1>2. x \in Seq(Mark) /\ ToSet(x) = Units(o) /\ Ordered(x, t)
  BY <1>1, TextIs, BytesAreMarks, TextUnits, OrderedText
<1>3. \A a \in ToSet(x) : a[1] = o
  BY <1>2 DEF Units
<1>4. \A l \in DOMAIN Work[t] : Work[t][l] = o => l = n + 1
  BY WorkAssumption
<1>5. ASSUME NEW r, Begun(r, t, n) PROVE Before(r, x, t)
  <2> SUFFICES ASSUME NEW a \in ToSet(r), NEW c \in ToSet(x),
                      NEW k \in DOMAIN Work[t], NEW l \in DOMAIN Work[t],
                      a[1] = Work[t][k], c[1] = Work[t][l]
               PROVE k < l
    BY DEF Before, Earlier
  <2>1. l = n + 1
    BY <1>3, <1>4
  <2>2. k <= n
    BY <1>5 DEF Begun
  <2>3. k \in Int
    BY Constants
  <2> QED
    BY <2>1, <2>2, <2>3
<1>6. Before(p, x, t) /\ Before(b, x, t) /\ Before(q, x, t)
  BY <1>5 DEF Settled
<1>7. ASSUME NEW r, Begun(r, t, n) PROVE Begun(r, t, n + 1)
  <2> SUFFICES ASSUME NEW a \in ToSet(r), NEW k \in DOMAIN Work[t], a[1] = Work[t][k]
               PROVE k <= n + 1
    BY DEF Begun
  <2>1. k <= n /\ k \in Int
    BY <1>7, Constants DEF Begun
  <2> QED
    BY <2>1
<1>8. Begun(p, t, n + 1) /\ Begun(b, t, n + 1) /\ Begun(q, t, n + 1)
  BY <1>7 DEF Settled
<1>9. Begun(x, t, n + 1) /\ Mine(x, t)
  BY <1>1, <1>3, <1>4 DEF Begun, Mine
<1>10. ToSet(d) = ToSet(q) \cup ToSet(x)
  BY <1>2, MarkSets
<1>11. Ordered(d, t)
  BY <1>2, <1>6, OrderedConcat DEF Settled
<1> HIDE DEF x, d
<1>12. Before(p, d, t) /\ Before(b, d, t)
  BY <1>6, <1>10 DEF Settled, Before
<1>13. Begun(d, t, n + 1) /\ Mine(d, t)
  BY <1>8, <1>9, <1>10 DEF Settled, Begun, Mine
<1>14. Settled(p, b, d, t, n + 1)
  BY <1>8, <1>11, <1>12, <1>13 DEF Settled
<1> QED
  BY <1>14 DEF d, x

LEMMA SettledMore ==
    ASSUME NEW p, NEW b, NEW q, NEW t \in Thread, NEW n \in Int, NEW m \in Int, n <= m,
           Settled(p, b, q, t, n)
    PROVE Settled(p, b, q, t, m)
<1>1. ASSUME NEW r, Begun(r, t, n) PROVE Begun(r, t, m)
  <2> SUFFICES ASSUME NEW a \in ToSet(r), NEW k \in DOMAIN Work[t], a[1] = Work[t][k]
               PROVE k <= m
    BY DEF Begun
  <2>1. k <= n /\ k \in Int
    BY <1>1, Constants DEF Begun
  <2> QED
    BY <2>1
<1> QED
  BY <1>1 DEF Settled

\* Taking the next object to remove.
LEMMA TakesNext ==
    ASSUME Typed, NEW t \in Thread, Program(t), pc[t] = "run",
           todo[t] # <<>>, todo'[t] = Tail(todo[t])
    PROVE /\ Said(t) \in Int /\ Said(t) + 1 \in DOMAIN Work[t]
          /\ Head(todo[t]) = Work[t][Said(t) + 1]
          /\ Said(t)' = IF pc'[t] = "handle" THEN Said(t) ELSE Said(t) + 1
          /\ (pc'[t] = "handle" => line'[t] = Head(todo[t])) => Program(t)'
<1> DEFINE n == Len(Work[t])
           q == todo[t]
           m == Len(q)
<1>1. /\ q \in Seq(Object) /\ q # <<>> /\ n \in Nat
      /\ m <= n /\ \A i \in 1 .. m : q[i] = Work[t][n - m + i]
      /\ DOMAIN Work[t] = 1 .. n
  BY Constants DEF Typed, Program
<1>2. /\ m \in Nat \ {0} /\ Head(q) = q[1] /\ Len(Tail(q)) = m - 1
      /\ \A i \in 1 .. m - 1 : Tail(q)[i] = q[i + 1]
  BY <1>1
<1>3. Said(t) = n - m
  BY DEF Said
<1>4. Said(t)' = IF pc'[t] = "handle" THEN n - (m - 1) - 1 ELSE n - (m - 1) - 0
  BY <1>2 DEF Said
<1>5. /\ todo'[t] = Tail(q) /\ DOMAIN Tail(q) = 1 .. Len(Tail(q)) /\ Head(q) = Head(todo[t])
      /\ Len(Work[t]) = n
  BY <1>1, <1>2
<1> HIDE DEF n, m, q
<1>6. q[1] = Work[t][n - m + 1]
  BY <1>1, <1>2
<1>7. n - (m - 1) - 1 = n - m /\ n - (m - 1) - 0 = n - m + 1 /\ n - m + 1 \in 1 .. n
  BY <1>1, <1>2
<1>8. /\ Said(t) \in Int /\ Said(t) + 1 \in DOMAIN Work[t]
      /\ Head(q) = Work[t][Said(t) + 1]
      /\ Said(t)' = IF pc'[t] = "handle" THEN Said(t) ELSE Said(t) + 1
  BY <1>1, <1>2, <1>3, <1>4, <1>6, <1>7
<1>9. ASSUME pc'[t] = "handle" => line'[t] = Head(q)
      PROVE Program(t)'
  <2>1. DOMAIN todo'[t] = 1 .. m - 1 /\ Len(todo'[t]) = m - 1
    BY <1>2, <1>5
  <2>2. ASSUME NEW i \in 1 .. m - 1 PROVE todo'[t][i] = Work[t][n - (m - 1) + i]
    <3>0. i + 1 \in 1 .. m
      BY <1>2
    <3>1. todo'[t][i] = q[i + 1] /\ i + 1 \in 1 .. m
      <4>1. Tail(q)[i] = q[i + 1]
        BY <1>2
      <4> QED
        BY <1>5, <3>0, <4>1
    <3>2. q[i + 1] = Work[t][n - m + (i + 1)]
      BY <1>1, <3>1
    <3>3. n - m + (i + 1) = n - (m - 1) + i
      BY <1>1, <1>2
    <3> QED
      BY <3>1, <3>2, <3>3
  <2>3. pc'[t] = "handle" => /\ Said(t)' + 1 \in DOMAIN Work[t]
                             /\ line'[t] = Work[t][Said(t)' + 1]
    BY <1>8, <1>9
  <2>4. m - 1 <= n
    BY <1>1, <1>2
  <2> QED
    BY <1>5, <2>1, <2>2, <2>3, <2>4 DEF Program
<1> QED
  BY <1>5, <1>8, <1>9

LEMMA SaidType ==
    ASSUME Typed, NEW t \in Thread
    PROVE Said(t) \in Int
BY Constants DEF Typed, Said

\* Other threads' programs, and one that takes nothing.
LEMMA ProgramSame ==
    ASSUME NEW u, Program(u), todo'[u] = todo[u], pc'[u] # "handle" \/ line'[u] = line[u],
           pc'[u] = "handle" <=> pc[u] = "handle"
    PROVE Program(u)' /\ Said(u)' = Said(u)
<1>1. Said(u)' = Said(u)
  BY DEF Said
<1> QED
  BY <1>1 DEF Program

LEMMA OthersProgram ==
    ASSUME OrderInv, NEW t, \A u \in Thread \ {t} : Same(u), NEW u \in Thread \ {t}
    PROVE Program(u)' /\ Said(u)' = Said(u)
<1>1. Same(u) /\ Program(u)
  BY DEF OrderInv
<1> QED
  BY <1>1, ProgramSame DEF Same

LEMMA QuietOrder ==
    ASSUME Typed, Typed', OrderInv, NEW t \in Thread, \A u \in Thread \ {t} : Same(u),
           \A s \in Stream : Quiet(s), Program(t)', Said(t) <= Said(t)'
    PROVE OrderInv'
<1>1. ASSUME NEW u \in Thread
      PROVE Program(u)' /\ Said(u) \in Int /\ Said(u)' \in Int /\ Said(u) <= Said(u)'
  <2>1. Said(u) \in Int
    BY SaidType
  <2>2. Said(u)' \in Int
    BY Constants DEF Typed, Said
  <2>3. CASE u = t
    BY <2>1, <2>2, <2>3
  <2>4. CASE u # t
    <3>1. Program(u)' /\ Said(u)' = Said(u)
      BY <2>4, OthersProgram
    <3> QED
      BY <2>1, <3>1
  <2> QED
    BY <2>3, <2>4
<1>2. ASSUME NEW s \in Stream, NEW u \in Thread PROVE InOrder(s, u)'
  <2>1. Settled(Passed(s), buf[s], Pending(s, u), u, Said(u))
    BY DEF OrderInv, InOrder
  <2>2. Settled(Passed(s), buf[s], Pending(s, u), u, Said(u)')
    BY <1>1, <2>1, SettledMore
  <2>3. /\ Passed(s)' = Passed(s) /\ buf'[s] = buf[s]
        /\ Pending(s, u)' = Pending(s, u)
    BY DEF Quiet
  <2> QED
    BY <2>2, <2>3 DEF InOrder
<1> QED
  BY <1>1, <1>2 DEF OrderInv

LEMMA RemovedOrder ==
    ASSUME Typed, Control, OrderInv, NEW t \in Thread, Removed(t) \/ FoundGone(t)
    PROVE OrderInv'
<1>1. /\ pc[t] = "run" /\ todo[t] # <<>> /\ todo'[t] = Tail(todo[t])
      /\ pc'[t] = "handle" => line'[t] = Head(todo[t])
  BY DEF Removed, FoundGone, Meets, locals, Begin, Goto, Typed
<1>2. Program(t)
  BY DEF OrderInv
<1>3. \A u \in Thread \ {t} : Same(u)
  BY DEF Removed, FoundGone, Meets, locals, Begin, Goto, Typed, Same
<1>4. Typed'
  BY RemovedControl
<1>5. \A s \in Stream : Quiet(s)
  BY RemovedQuiet
<1>6. Program(t)' /\ Said(t) <= Said(t)'
  BY <1>1, <1>2, TakesNext
<1> QED
  BY <1>3, <1>4, <1>5, <1>6, QuietOrder

\* A step that moves nothing and takes nothing.
LEMMA IdleOrder ==
    ASSUME Typed, Typed', OrderInv, NEW t \in Thread, \A u \in Thread \ {t} : Same(u),
           \A s \in Stream : Quiet(s), todo' = todo, pc[t] # "handle", pc'[t] # "handle"
    PROVE OrderInv'
<1>1. Program(t)' /\ Said(t)' = Said(t)
  BY ProgramSame DEF OrderInv
<1> QED
  BY <1>1, SaidType, QuietOrder

LEMMA DropHandleOrder ==
    ASSUME Typed, Control, OrderInv, NEW t \in Thread, DropHandle(t)
    PROVE OrderInv'
<1>1. Typed' /\ \A s \in Stream : Quiet(s)
  BY DropHandleControl, DropHandleQuiet
<1>2. /\ \A u \in Thread \ {t} : Same(u)
      /\ todo' = todo /\ pc[t] # "handle" /\ pc'[t] # "handle"
  BY DEF DropHandle, Goto, Typed, Same
<1> QED
  BY <1>1, <1>2, IdleOrder

LEMMA UnlockOrder ==
    ASSUME Typed, Control, OrderInv, NEW t \in Thread, Unlock(t)
    PROVE OrderInv'
<1>1. Typed' /\ \A s \in Stream : Quiet(s)
  BY UnlockControl, UnlockQuiet
<1>2. /\ \A u \in Thread \ {t} : Same(u)
      /\ todo' = todo /\ pc[t] # "handle" /\ pc'[t] # "handle"
  BY DEF Unlock, Goto, Typed, Same, locals
<1> QED
  BY <1>1, <1>2, IdleOrder

LEMMA FdSame ==
    ASSUME Typed, Control, NEW t \in Thread,
           Gather(t) \/ Writev(t) \/ WritevInterrupted(t) \/ Written(t)
    PROVE /\ Typed' /\ Control' /\ pc[t] = "write" /\ pc'[t] # "handle"
          /\ UNCHANGED <<setup, todo, errors, fate, begun>>
          /\ \A u \in Thread \ {t} : Same(u)
<1>1. CASE Gather(t)
  <2>1. \A u \in Thread \ {t} : Same(u)
    BY <1>1, GatherControl
  <2> QED
    BY <1>1, <2>1, GatherControl
<1>2. CASE Writev(t)
  <2>1. \A u \in Thread \ {t} : Same(u)
    BY <1>2, WritevControl
  <2> QED
    BY <1>2, <2>1, WritevControl
<1>3. CASE WritevInterrupted(t)
  <2>1. /\ pc[t] = "write"
        /\ UNCHANGED <<setup, todo, pc, line, stream, handle, calls, jobs, batch, errors,
                       fate, begun>>
    BY <1>3 DEF WritevInterrupted, locals
  <2>2. \A u \in Thread \ {t} : Same(u)
    BY <2>1 DEF Same
  <2> QED
    BY <1>3, <2>1, <2>2, InterruptedControl
<1>4. CASE Written(t)
  <2>1. \A u \in Thread \ {t} : Same(u)
    BY <1>4, WrittenControl
  <2> QED
    BY <1>4, <2>1, WrittenControl
<1> QED
  BY <1>1, <1>2, <1>3, <1>4

LEMMA FdOrder ==
    ASSUME Typed, Control, OrderInv, NEW t \in Thread,
           Gather(t) \/ Writev(t) \/ WritevInterrupted(t) \/ Written(t)
    PROVE OrderInv'
<1>1. \A s \in Stream : Quiet(s)
  BY FdQuiet
<1>2. Typed' /\ todo' = todo /\ pc[t] # "handle" /\ pc'[t] # "handle"
  BY FdSame
<1>3. \A u \in Thread \ {t} : Same(u)
  BY FdSame
<1> QED
  BY <1>1, <1>2, <1>3, IdleOrder

\* A thread that says its next line.
LEMMA SaysOrder ==
    ASSUME Typed, OrderInv, NEW t \in Thread, \A u \in Thread \ {t} : Same(u),
           NEW s \in Stream, NEW o, Says(s, t, o),
           Said(t) + 1 \in DOMAIN Work[t], o = Work[t][Said(t) + 1],
           Program(t)', Said(t)' = Said(t) + 1
    PROVE OrderInv'
<1>1. Said(t) \in Int
  BY SaidType
<1>2. ASSUME NEW r \in Stream, NEW u \in Thread PROVE InOrder(r, u)'
  <2>1. Settled(Passed(r), buf[r], Pending(r, u), u, Said(u))
    BY DEF OrderInv, InOrder
  <2>2. /\ Passed(r) \in Seq(Mark) /\ buf[r] \in Seq(Mark)
        /\ Pending(r, u) \in Seq(Mark)
    BY PassedType, PendingIs, BytesAreMarks DEF Typed
  <2>3. Passed(r)' = Passed(r) /\ buf'[r] = buf[r]
    BY DEF Says
  <2>4. CASE u = t
    <3>1. CASE r = s
      <4>1. Pending(r, u)' = Pending(r, u) \o Text(o)
        BY <2>4, <3>1 DEF Says
      <4>2. Settled(Passed(r), buf[r], Pending(r, u) \o Text(o), u, Said(u) + 1)
        BY <2>1, <2>2, <2>4, <1>1, SettledSays
      <4> QED
        BY <2>3, <2>4, <4>1, <4>2 DEF InOrder
    <3>2. CASE r # s
      <4>1. Pending(r, u)' = Pending(r, u)
        BY <3>2 DEF Says
      <4>2. Said(t)' \in Int /\ Said(t) <= Said(t)'
        BY <1>1
      <4>3. Settled(Passed(r), buf[r], Pending(r, u), u, Said(u)')
        BY <2>1, <2>4, <1>1, <4>2, SettledMore
      <4> QED
        BY <2>3, <4>1, <4>3 DEF InOrder
    <3> QED
      BY <3>1, <3>2
  <2>5. CASE u # t
    <3>1. Pending(r, u)' = Pending(r, u)
      BY <2>5 DEF Says
    <3>2. Said(u)' = Said(u)
      BY <2>5, OthersProgram
    <3> QED
      BY <2>1, <2>3, <3>1, <3>2 DEF InOrder
  <2> QED
    BY <2>4, <2>5
<1>3. \A u \in Thread : Program(u)'
  BY OthersProgram
<1> QED
  BY <1>2, <1>3 DEF OrderInv

LEMMA WriteHandleOrder ==
    ASSUME Typed, Control, OrderInv, NEW t \in Thread, WriteHandle(t)
    PROVE OrderInv'
<1>1. /\ Says("stdout", t, line[t]) /\ pc[t] = "handle" /\ pc'[t] # "handle"
      /\ todo' = todo
  BY WriteHandleSays
<1>2. \A u \in Thread \ {t} : Same(u)
  BY WriteHandleSays
<1>3. /\ Program(t) /\ Said(t) \in Int
      /\ Said(t) + 1 \in DOMAIN Work[t] /\ line[t] = Work[t][Said(t) + 1]
  BY <1>1, SaidType DEF OrderInv, Program
<1>4. Said(t)' = Said(t) + 1
  BY <1>1, Constants DEF Said, Typed
<1>5. Program(t)'
  BY <1>1, <1>3 DEF Program
<1> QED
  BY <1>1, <1>2, <1>3, <1>4, <1>5, Constants, SaysOrder

LEMMA NotRemovedOrder ==
    ASSUME Typed, Control, OrderInv, NEW t \in Thread, NotRemoved(t)
    PROVE OrderInv'
<1>1. /\ Says("stderr", t, Head(todo[t])) /\ pc[t] = "run" /\ pc'[t] = "lock"
      /\ todo[t] # <<>> /\ todo'[t] = Tail(todo[t])
  BY NotRemovedSays DEF Typed
<1>2. \A u \in Thread \ {t} : Same(u)
  BY NotRemovedSays
<1>3. Program(t)
  BY DEF OrderInv
<1>4. /\ Said(t) + 1 \in DOMAIN Work[t] /\ Head(todo[t]) = Work[t][Said(t) + 1]
      /\ Said(t)' = Said(t) + 1 /\ Program(t)'
  BY <1>1, <1>3, TakesNext
<1> QED
  BY <1>1, <1>2, <1>4, Constants, SaysOrder

\* A step that takes nothing leaves the programs as they are.
LEMMA ProgramsSame ==
    ASSUME OrderInv, NEW t \in Thread, \A u \in Thread \ {t} : Same(u),
           todo' = todo, pc[t] # "handle", pc'[t] # "handle"
    PROVE \A u \in Thread : Program(u)' /\ Said(u)' = Said(u)
<1>1. Program(t)' /\ Said(t)' = Said(t)
  BY ProgramSame DEF OrderInv
<1> QED
  BY <1>1, OthersProgram

LEMMA QuietInOrder ==
    ASSUME OrderInv, NEW s \in Stream, Quiet(s), NEW u \in Thread, Said(u)' = Said(u)
    PROVE InOrder(s, u)'
<1>1. Settled(Passed(s), buf[s], Pending(s, u), u, Said(u))
  BY DEF OrderInv, InOrder
<1> QED
  BY <1>1 DEF Quiet, InOrder

LEMMA LockOrder ==
    ASSUME Typed, Control, OrderInv, NEW t \in Thread, Lock(t)
    PROVE OrderInv'
<1>0. PICK s \in Stream : s = stream[t]
  BY DEF Typed
<1> DEFINE c == FlattenSeq(Head(calls[t]))
<1>1. \A u \in Thread \ {t} : Same(u)
  BY DepositTyped
<1>2. c \in Bytes /\ Moves(s, t, c) /\ pc[t] = "lock" /\ pc'[t] \in {"unlock", "write"}
  BY <1>0, LockMoves
<1>3. \A r \in Stream \ {s} : Quiet(r)
  BY <1>0, LockMoves
<1>4. todo' = todo
  BY DepositTyped
<1>5. \A u \in Thread : Program(u)' /\ Said(u)' = Said(u)
  BY <1>1, <1>2, <1>4, ProgramsSame
<1>6. Typed'
  BY LockControl
<1>7. c \in Seq(Mark)
  BY <1>2, BytesAreMarks
<1> DEFINE p == Passed(s)
           b == buf[s]
<1>8. p \in Seq(Mark) /\ b \in Seq(Mark)
  BY PassedType, BytesAreMarks DEF Typed
<1>9. \A u \in Thread : Pending(s, u) \in Seq(Mark) /\ Pending(s, u)' \in Seq(Mark)
  BY <1>6, PendingIs, PendingIsNext, BytesAreMarks
<1>10. /\ Pending(s, t) = c \o Pending(s, t)'
       /\ \/ Passed(s)' = p /\ buf'[s] = b \o c
          \/ Passed(s)' = p \o (b \o c) /\ buf'[s] = <<>>
       /\ \A u \in Thread \ {t} : Pending(s, u)' = Pending(s, u)
  BY <1>2 DEF Moves
<1>11. \A u \in Thread : Settled(p, b, Pending(s, u), u, Said(u))
  BY DEF OrderInv, InOrder
<1> HIDE DEF c, p, b
<1>12. /\ Settled(p, b \o c, Pending(s, t)', t, Said(t))
       /\ Settled(p \o (b \o c), <<>>, Pending(s, t)', t, Said(t))
       /\ Mine(c, t)
  <2> DEFINE q == Pending(s, t)'
             n == Said(t)
  <2>1. q \in Seq(Mark) /\ Settled(p, b, c \o q, t, n)
    BY <1>9, <1>10, <1>11
  <2> HIDE DEF q, n
  <2>2. Settled(p, b \o c, q, t, n) /\ Settled(p \o (b \o c), <<>>, q, t, n) /\ Mine(c, t)
    BY <1>7, <1>8, <2>1, SettledMoves
  <2> QED
    BY <2>2 DEF q, n
<1>13. ASSUME NEW u \in Thread \ {t}
       PROVE /\ Settled(p, b \o c, Pending(s, u), u, Said(u))
             /\ Settled(p \o (b \o c), <<>>, Pending(s, u), u, Said(u))
  <2>1. Foreign(c, u)
    BY <1>12, MineIsForeign
  <2> DEFINE q == Pending(s, u)
             n == Said(u)
  <2>2. q \in Seq(Mark) /\ Settled(p, b, q, u, n)
    BY <1>9, <1>11
  <2> HIDE DEF q, n
  <2>3. Settled(p, b \o c, q, u, n) /\ Settled(p \o (b \o c), <<>>, q, u, n)
    BY <1>7, <1>8, <2>1, <2>2, SettledForeign
  <2> QED
    BY <2>3 DEF q, n
<1>14. ASSUME NEW u \in Thread PROVE InOrder(s, u)'
  <2>1. /\ Settled(p, b \o c, Pending(s, u)', u, Said(u)')
        /\ Settled(p \o (b \o c), <<>>, Pending(s, u)', u, Said(u)')
    <3>1. CASE u = t
      BY <1>5, <1>12, <3>1
    <3>2. CASE u # t
      BY <1>5, <1>10, <1>13, <3>2
    <3> QED
      BY <3>1, <3>2
  <2> QED
    BY <2>1, <1>10 DEF InOrder
<1>15. ASSUME NEW r \in Stream, NEW u \in Thread PROVE InOrder(r, u)'
  <2>1. CASE r = s
    BY <1>14, <2>1
  <2>2. CASE r # s
    BY <1>3, <1>5, <2>2, QuietInOrder
  <2> QED
    BY <2>1, <2>2
<1> QED
  BY <1>5, <1>15 DEF OrderInv

LEMMA FailsOrder ==
    ASSUME Typed, Control, OrderInv, NEW t \in Thread, WritevFails(t)
    PROVE OrderInv'
<1>0. PICK s \in Stream : s = stream[t]
  BY DEF Typed
<1>1. \A u \in Thread \ {t} : Same(u)
  BY FailsControl
<1>2. Typed' /\ todo' = todo /\ pc[t] = "write" /\ pc'[t] # "handle"
  BY FailsControl
<1>3. \A u \in Thread : Program(u)' /\ Said(u)' = Said(u)
  BY <1>1, <1>2, ProgramsSame
<1>4. Loses(s, t)
  BY <1>0, FailsLoses
<1>5. \A r \in Stream \ {s} : Quiet(r)
  BY <1>0, FailsLoses
<1>6. PICK x \in Seq(Mark), y \in Seq(Mark) :
        /\ Passed(s) = fd[s] \o x /\ Passed(s)' = Append(fd[s], Cut)
        /\ Pending(s, t) = y \o Pending(s, t)'
  BY <1>4 DEF Loses
<1> DEFINE f == fd[s]
           b == buf[s]
<1>7. f \in Seq(Mark) /\ buf'[s] = b /\ b \in Seq(Mark)
  BY <1>4, BytesAreMarks DEF Loses, Typed
<1>8. ASSUME NEW u \in Thread PROVE InOrder(s, u)'
  <2> DEFINE q == Pending(s, u)'
             n == Said(u)
  <2>1. Settled(f \o x, b, Pending(s, u), u, n)
    BY <1>6 DEF OrderInv, InOrder
  <2>2. q \in Seq(Mark)
    BY <1>2, PendingIsNext, BytesAreMarks
  <2>3. \E z \in Seq(Mark) : Pending(s, u) = z \o q
    <3>1. CASE u = t
      BY <1>6, <3>1
    <3>2. CASE u # t
      <4>1. Pending(s, u) = q
        BY <1>4, <3>2 DEF Loses
      <4> HIDE DEF q
      <4>2. <<>> \in Seq(Mark) /\ <<>> \o q = q
        BY <2>2, ConcatEmptySeq
      <4> QED
        BY <4>1, <4>2
    <3> QED
      BY <3>1, <3>2
  <2>4. PICK z \in Seq(Mark) : Pending(s, u) = z \o q
    BY <2>3
  <2>5. Settled(f \o x, b, z \o q, u, n)
    BY <2>1, <2>4
  <2> HIDE DEF f, b, q, n
  <2>6. Settled(Append(f, Cut), b, q, u, n)
    BY <1>7, <2>2, <2>5, SettledCut
  <2> QED
    BY <1>3, <1>6, <1>7, <2>6 DEF InOrder, f, q, n
<1>9. ASSUME NEW r \in Stream, NEW u \in Thread PROVE InOrder(r, u)'
  <2>1. CASE r = s
    BY <1>8, <2>1
  <2>2. CASE r # s
    BY <1>3, <1>5, <2>2, QuietInOrder
  <2> QED
    BY <2>1, <2>2
<1> QED
  BY <1>3, <1>9 DEF OrderInv

LEMMA CloseOrder ==
    ASSUME Typed, Control, OrderInv, Close
    PROVE OrderInv'
<1>1. \A u \in Thread \ {Main} : Same(u)
  BY CloseControl
<1>2. todo' = todo /\ pc[Main] = "done" /\ pc'[Main] = "write" /\ Main \in Thread
  BY CloseControl, Constants
<1>3. \A u \in Thread : Program(u)' /\ Said(u)' = Said(u)
  BY <1>1, <1>2, ProgramsSame
<1> DEFINE b == buf["stdout"]
           p == Passed("stdout")
<1>4. /\ Passed("stdout")' = p \o b /\ buf'["stdout"] = <<>> /\ b \in Bytes
      /\ Quiet("stderr")
      /\ \A u \in Thread : Pending("stdout", u)' = Pending("stdout", u)
  BY CloseMoves, Constants
<1>5. p \in Seq(Mark) /\ b \in Seq(Mark)
  BY <1>4, PassedType, Constants, BytesAreMarks
<1>6. ASSUME NEW u \in Thread PROVE InOrder("stdout", u)'
  <2> DEFINE q == Pending("stdout", u)
             n == Said(u)
  <2>1. Settled(p, b, q, u, n)
    BY Constants DEF OrderInv, InOrder
  <2> HIDE DEF p, b, q, n
  <2>2. Settled(p \o b, <<>>, q, u, n)
    BY <1>5, <2>1, SettledFlush
  <2> QED
    BY <1>3, <1>4, <2>2 DEF InOrder, q, n
<1>7. ASSUME NEW u \in Thread PROVE InOrder("stderr", u)'
  BY <1>3, <1>4, Constants, QuietInOrder
<1> QED
  BY <1>3, <1>6, <1>7 DEF OrderInv, Stream

----------------------------------------------------------------------------
(* Lines begun are kept                                                    *)

\* An object is one thread's.
LEMMA OwnedOnce ==
    ASSUME NEW t \in Thread, NEW u \in Thread, NEW o,
           o \in ToSet(Work[t]), o \in ToSet(Work[u])
    PROVE t = u
<1>1. PICK i \in DOMAIN Work[t] : o = Work[t][i]
  BY DEF ToSet
<1>2. PICK j \in DOMAIN Work[u] : o = Work[u][j]
  BY DEF ToSet
<1> QED
  BY <1>1, <1>2, WorkAssumption

LEMMA KeptOn ==
    ASSUME NEW s, NEW u, NEW o, Kept(o, s, u), Held(s, u) \subseteq Held(s, u)',
           pc[u] = "handle" => pc'[u] = "handle" /\ line'[u] = line[u]
    PROVE Kept(o, s, u)'
BY DEF Kept

\* A step that begins no line keeps what it keeps in hand.
LEMMA KeptStep ==
    ASSUME KeptInv, NEW t \in Thread, \A u \in Thread \ {t} : Same(u), pc[t] # "handle",
           \A s \in Stream : begun'[s] \subseteq begun[s],
           \A s \in Stream, u \in Thread : begun'[s] # {} => Held(s, u) \subseteq Held(s, u)'
    PROVE KeptInv'
<1> SUFFICES ASSUME NEW s \in Stream, NEW u \in Thread,
                    NEW o \in begun'[s] \cap ToSet(Work[u])
             PROVE Kept(o, s, u)'
  BY DEF KeptInv
<1>1. Kept(o, s, u) /\ Held(s, u) \subseteq Held(s, u)'
  BY DEF KeptInv
<1>2. pc[u] = "handle" => pc'[u] = "handle" /\ line'[u] = line[u]
  BY DEF Same
<1> QED
  BY <1>1, <1>2, KeptOn

LEMMA QuietHeld ==
    ASSUME NEW s, Quiet(s), NEW u \in Thread
    PROVE Held(s, u)' = Held(s, u)
BY DEF Quiet, Held

LEMMA QuietKept ==
    ASSUME KeptInv, NEW t \in Thread, \A u \in Thread \ {t} : Same(u), pc[t] # "handle",
           \A s \in Stream : Quiet(s), begun' = begun
    PROVE KeptInv'
BY KeptStep, QuietHeld

LEMMA DropHandleKept ==
    ASSUME Typed, Control, KeptInv, NEW t \in Thread, DropHandle(t)
    PROVE KeptInv'
<1>1. \A s \in Stream : Quiet(s)
  BY DropHandleQuiet
<1>2. /\ \A u \in Thread \ {t} : Same(u)
      /\ begun' = begun /\ pc[t] # "handle"
  BY DEF DropHandle, Goto, Typed, Same
<1> QED
  BY <1>1, <1>2, QuietKept

LEMMA UnlockKept ==
    ASSUME Typed, Control, KeptInv, NEW t \in Thread, Unlock(t)
    PROVE KeptInv'
<1>1. \A s \in Stream : Quiet(s)
  BY UnlockQuiet
<1>2. /\ \A u \in Thread \ {t} : Same(u)
      /\ begun' = begun /\ pc[t] # "handle"
  BY DEF Unlock, Goto, Typed, Same, locals
<1> QED
  BY <1>1, <1>2, QuietKept

LEMMA FdKept ==
    ASSUME Typed, Control, KeptInv, NEW t \in Thread,
           Gather(t) \/ Writev(t) \/ WritevInterrupted(t) \/ Written(t)
    PROVE KeptInv'
<1>1. \A s \in Stream : Quiet(s)
  BY FdQuiet
<1>2. \A u \in Thread \ {t} : Same(u)
  BY FdSame
<1>3. begun' = begun /\ pc[t] # "handle"
  BY FdSame
<1> QED
  BY <1>1, <1>2, <1>3, QuietKept

LEMMA RemovedKept ==
    ASSUME Typed, Control, OrderInv, KeptInv, NEW t \in Thread, Removed(t) \/ FoundGone(t)
    PROVE KeptInv'
<1> DEFINE o == Head(todo[t])
<1>1. /\ pc[t] = "run" /\ todo[t] # <<>> /\ todo'[t] = Tail(todo[t])
      /\ \/ pc' = pc /\ line' = line /\ begun' = begun
         \/ /\ pc'[t] = "handle" /\ line'[t] = o
            /\ begun'["stdout"] = begun["stdout"] \cup {o}
            /\ begun'["stderr"] = begun["stderr"]
  BY Constants DEF Removed, FoundGone, Meets, locals, Begin, Goto, Typed
<1>2. \A u \in Thread \ {t} : Same(u)
  BY DEF Removed, FoundGone, Meets, locals, Begin, Goto, Typed, Same
<1>3. o \in ToSet(Work[t])
  <2>1. Program(t)
    BY DEF OrderInv
  <2>2. Said(t) + 1 \in DOMAIN Work[t] /\ o = Work[t][Said(t) + 1]
    BY <1>1, <2>1, TakesNext
  <2> QED
    BY <2>2 DEF ToSet
<1>4. \A s \in Stream : Quiet(s)
  BY RemovedQuiet
<1> HIDE DEF o
<1>5. SUFFICES ASSUME NEW s \in Stream, NEW u \in Thread,
                      NEW x \in begun'[s] \cap ToSet(Work[u])
               PROVE Kept(x, s, u)'
  BY DEF KeptInv
<1>6. CASE x \in begun[s]
  <2>1. Kept(x, s, u)
    BY <1>6 DEF KeptInv
  <2>2. Held(s, u)' = Held(s, u)
    BY <1>4, QuietHeld
  <2>3. pc[u] = "handle" => pc'[u] = "handle" /\ line'[u] = line[u]
    BY <1>1, <1>2 DEF Same
  <2> QED
    BY <2>1, <2>2, <2>3, KeptOn
<1>7. CASE x \notin begun[s]
  <2>1. s = "stdout" /\ x = o /\ pc'[t] = "handle" /\ line'[t] = o
    BY <1>1, <1>7 DEF Stream
  <2>2. u = t
    BY <1>3, <2>1, OwnedOnce
  <2> QED
    BY <2>1, <2>2 DEF Kept
<1> QED
  BY <1>6, <1>7

\* A line said is kept, and so is what was said before.
LEMMA SaysHeld ==
    ASSUME Typed, NEW s \in Stream, NEW t \in Thread, NEW o \in Object, Says(s, t, o)
    PROVE /\ \A r \in Stream, u \in Thread : Held(r, u) \subseteq Held(r, u)'
          /\ Units(o) \subseteq Held(s, t)'
<1>1. Pending(s, t) \in Seq(Mark) /\ Text(o) \in Seq(Mark)
  BY PendingIs, TextIs, BytesAreMarks
<1> DEFINE x == Text(o)
           q == Pending(s, t)
<1>2. x \in Seq(Mark) /\ q \in Seq(Mark) /\ ToSet(x) = Units(o) /\ Pending(s, t)' = q \o x
  BY <1>1, TextUnits DEF Says
<1> HIDE DEF x, q
<1>3. ToSet(Pending(s, t)') = ToSet(q) \cup Units(o)
  BY <1>2, MarkSets
<1>4. ASSUME NEW r \in Stream, NEW u \in Thread PROVE Held(r, u) \subseteq Held(r, u)'
  <2>1. Passed(r)' = Passed(r) /\ buf'[r] = buf[r]
    BY DEF Says
  <2>2. ToSet(Pending(r, u)) \subseteq ToSet(Pending(r, u)')
    <3>1. CASE r = s /\ u = t
      BY <1>3, <3>1 DEF q
    <3>2. CASE ~(r = s /\ u = t)
      BY <3>2 DEF Says
    <3> QED
      BY <3>1, <3>2
  <2> QED
    BY <2>1, <2>2 DEF Held
<1> QED
  BY <1>3, <1>4 DEF Held

LEMMA WriteHandleKept ==
    ASSUME Typed, Control, KeptInv, NEW t \in Thread, WriteHandle(t)
    PROVE KeptInv'
<1> DEFINE o == line[t]
<1>1. /\ o \in Object /\ pc[t] = "handle" /\ begun' = begun
      /\ \A r \in Stream, u \in Thread : Held(r, u) \subseteq Held(r, u)'
      /\ Units(o) \subseteq Held("stdout", t)'
  <2>1. PICK x \in Object : x = o
    BY WriteHandleSays
  <2>2. Says("stdout", t, x)
    BY <2>1, WriteHandleSays DEF Says
  <2>3. /\ \A r \in Stream, u \in Thread : Held(r, u) \subseteq Held(r, u)'
        /\ Units(x) \subseteq Held("stdout", t)'
    BY <2>2, SaysHeld, Constants
  <2> QED
    BY <2>1, <2>3, WriteHandleSays
<1>2. \A u \in Thread \ {t} : Same(u)
  BY WriteHandleSays
<1> HIDE DEF o
<1>3. SUFFICES ASSUME NEW s \in Stream, NEW u \in Thread,
                      NEW x \in begun'[s] \cap ToSet(Work[u])
               PROVE Kept(x, s, u)'
  BY DEF KeptInv
<1>4. Kept(x, s, u)
  BY <1>1 DEF KeptInv
<1>5. CASE u = t
  BY <1>1, <1>4, <1>5 DEF Kept, o
<1>6. CASE u # t
  <2>1. pc[u] = "handle" => pc'[u] = "handle" /\ line'[u] = line[u]
    BY <1>2, <1>6 DEF Same
  <2> QED
    BY <1>1, <1>4, <2>1, KeptOn
<1> QED
  BY <1>5, <1>6

LEMMA NotRemovedKept ==
    ASSUME Typed, Control, OrderInv, KeptInv, NEW t \in Thread, NotRemoved(t)
    PROVE KeptInv'
<1>1. PICK o \in Object : o = Head(todo[t])
  BY NotRemovedSays
<1>2. /\ \A r \in Stream, u \in Thread : Held(r, u) \subseteq Held(r, u)'
      /\ Units(o) \subseteq Held("stderr", t)'
  <2>1. Says("stderr", t, o)
    BY <1>1, NotRemovedSays DEF Says
  <2> QED
    BY <2>1, SaysHeld, Constants
<1>3. /\ pc[t] = "run" /\ todo[t] # <<>> /\ todo'[t] = Tail(todo[t])
      /\ begun'["stderr"] = begun["stderr"] \cup {o} /\ begun'["stdout"] = begun["stdout"]
  BY <1>1, NotRemovedSays, Constants DEF Begin, Typed
<1>4. \A u \in Thread \ {t} : Same(u)
  BY NotRemovedSays
<1>5. o \in ToSet(Work[t])
  <2>1. Program(t)
    BY DEF OrderInv
  <2>2. Said(t) + 1 \in DOMAIN Work[t] /\ o = Work[t][Said(t) + 1]
    BY <1>1, <1>3, <2>1, TakesNext
  <2> QED
    BY <2>2 DEF ToSet
<1>6. SUFFICES ASSUME NEW s \in Stream, NEW u \in Thread,
                      NEW x \in begun'[s] \cap ToSet(Work[u])
               PROVE Kept(x, s, u)'
  BY DEF KeptInv
<1>7. CASE x \in begun[s]
  <2>1. Kept(x, s, u)
    BY <1>7 DEF KeptInv
  <2>2. pc[u] = "handle" => pc'[u] = "handle" /\ line'[u] = line[u]
    BY <1>3, <1>4 DEF Same
  <2> QED
    BY <1>2, <2>1, <2>2, KeptOn
<1>8. CASE x \notin begun[s]
  <2>1. s = "stderr" /\ x = o
    BY <1>3, <1>8 DEF Stream
  <2>2. u = t
    BY <1>5, <2>1, OwnedOnce
  <2> QED
    BY <1>2, <2>1, <2>2 DEF Kept
<1> QED
  BY <1>7, <1>8

LEMMA LockKept ==
    ASSUME Typed, Control, KeptInv, NEW t \in Thread, Lock(t)
    PROVE KeptInv'
<1>0. PICK s \in Stream : s = stream[t]
  BY DEF Typed
<1> DEFINE c == FlattenSeq(Head(calls[t]))
           p == Passed(s)
           b == buf[s]
<1>1. \A u \in Thread \ {t} : Same(u)
  BY DepositTyped
<1>2. c \in Bytes /\ Moves(s, t, c) /\ pc[t] = "lock"
  BY <1>0, LockMoves
<1>3. \A r \in Stream \ {s} : Quiet(r)
  BY <1>0, LockMoves
<1>4. begun' = begun /\ Typed'
  BY DepositTyped, LockControl
<1>5. c \in Seq(Mark) /\ p \in Seq(Mark) /\ b \in Seq(Mark) /\ Pending(s, t)' \in Seq(Mark)
  <2>1. b \in Bytes /\ Pending(s, t)' \in Bytes
    BY <1>4, PendingIsNext DEF Typed
  <2> QED
    BY <1>2, <2>1, PassedType, BytesAreMarks
<1>6. /\ Pending(s, t) = c \o Pending(s, t)'
      /\ \/ Passed(s)' = p /\ buf'[s] = b \o c
         \/ Passed(s)' = p \o (b \o c) /\ buf'[s] = <<>>
      /\ \A u \in Thread \ {t} : Pending(s, u)' = Pending(s, u)
  BY <1>2 DEF Moves
<1> HIDE DEF c, p, b
<1>7. ToSet(Pending(s, t)) = ToSet(c) \cup ToSet(Pending(s, t)')
  <2> DEFINE q == Pending(s, t)'
  <2>1. q \in Seq(Mark) /\ Pending(s, t) = c \o q
    BY <1>5, <1>6
  <2> HIDE DEF q
  <2>2. ToSet(c \o q) = ToSet(c) \cup ToSet(q)
    BY <1>5, <2>1, MarkSets
  <2> QED
    BY <2>1, <2>2 DEF q
<1>8. ToSet(p \o (b \o c)) = ToSet(p) \cup ToSet(b \o c)
  <2> DEFINE d == b \o c
  <2>1. d \in Seq(Mark)
    BY <1>5, MarkSets
  <2> HIDE DEF d
  <2>2. ToSet(p \o d) = ToSet(p) \cup ToSet(d)
    BY <1>5, <2>1, MarkSets
  <2> QED
    BY <2>2 DEF d
<1>9. ToSet(b \o c) = ToSet(b) \cup ToSet(c)
  BY <1>5, MarkSets
<1>10. ToSet(Passed(s)') \cup ToSet(buf'[s]) = ToSet(p) \cup ToSet(b) \cup ToSet(c)
  BY <1>6, <1>8, <1>9, ToSetEmpty
<1>11. ASSUME NEW r \in Stream, NEW u \in Thread PROVE Held(r, u) \subseteq Held(r, u)'
  <2>1. CASE r # s
    BY <1>3, <2>1, QuietHeld
  <2>2. CASE r = s /\ u = t
    BY <1>7, <1>10, <2>2 DEF Held, p, b
  <2>3. CASE r = s /\ u # t
    BY <1>6, <1>10, <2>3 DEF Held, p, b
  <2> QED
    BY <2>1, <2>2, <2>3
<1> QED
  BY <1>1, <1>2, <1>4, <1>11, KeptStep

LEMMA FailsKept ==
    ASSUME Typed, Control, KeptInv, NEW t \in Thread, WritevFails(t)
    PROVE KeptInv'
<1>0. PICK s \in Stream : s = stream[t]
  BY DEF Typed
<1>1. \A u \in Thread \ {t} : Same(u)
  BY FailsControl
<1>2. pc[t] # "handle" /\ begun'[s] = {}
  BY <1>0, FailsControl
<1>3. \A r \in Stream \ {s} : begun'[r] = begun[r]
  BY <1>0, FailsControl
<1>4. \A r \in Stream \ {s} : Quiet(r)
  BY <1>0, FailsLoses
<1>5. ASSUME NEW r \in Stream, NEW u \in Thread, begun'[r] # {}
      PROVE Held(r, u) \subseteq Held(r, u)'
  BY <1>2, <1>4, <1>5, QuietHeld
<1>6. \A r \in Stream : begun'[r] \subseteq begun[r]
  BY <1>2, <1>3
<1> QED
  BY <1>1, <1>2, <1>5, <1>6, KeptStep

LEMMA CloseKept ==
    ASSUME Typed, Control, KeptInv, Close
    PROVE KeptInv'
<1> DEFINE b == buf["stdout"]
           p == Passed("stdout")
<1>1. \A u \in Thread \ {Main} : Same(u)
  BY CloseControl
<1>2. begun' = begun /\ pc[Main] # "handle" /\ Main \in Thread
  BY CloseControl, Constants
<1>3. /\ Passed("stdout")' = p \o b /\ buf'["stdout"] = <<>>
      /\ Quiet("stderr")
      /\ \A u \in Thread : Pending("stdout", u)' = Pending("stdout", u)
  BY CloseMoves, Constants
<1>4. p \in Seq(Mark) /\ b \in Seq(Mark)
  BY CloseMoves, PassedType, Constants, BytesAreMarks
<1> HIDE DEF b, p
<1>5. ToSet(p \o b) = ToSet(p) \cup ToSet(b)
  BY <1>4, MarkSets
<1>6. ASSUME NEW u \in Thread PROVE Held("stdout", u) \subseteq Held("stdout", u)'
  BY <1>3, <1>5 DEF Held, p, b
<1>7. \A u \in Thread : Held("stderr", u)' = Held("stderr", u)
  BY <1>3, QuietHeld
<1>8. \A s \in Stream, u \in Thread : Held(s, u) \subseteq Held(s, u)'
  BY <1>6, <1>7 DEF Stream
<1> QED
  BY <1>1, <1>2, <1>8, KeptStep

----------------------------------------------------------------------------
(* Without a buffer a thread writes what is its own                        *)

\* Those who do not begin to write, and do not write more.
LEMMA OwnStep ==
    ASSUME OwnInv, NEW t \in Thread, \A u \in Thread \ {t} : Same(u), setup' = setup,
           pc'[t] = "write" /\ Capacity(stream[t])' = 0 => Mine(Flight(t)', t)
    PROVE OwnInv'
<1> SUFFICES ASSUME NEW u \in Thread, pc'[u] = "write", Capacity(stream[u])' = 0
             PROVE Mine(Flight(u)', u)
  BY DEF OwnInv
<1>1. CASE u = t
  BY <1>1
<1>2. CASE u # t
  <2>1. /\ pc[u] = "write" /\ stream'[u] = stream[u]
        /\ Flight(u)' = Flight(u)
    BY <1>2 DEF Same, Flight
  <2>2. Capacity(stream[u]) = 0
    BY <2>1 DEF Capacity
  <2> QED
    BY <2>1, <2>2 DEF OwnInv
<1> QED
  BY <1>1, <1>2

\* A buffer of no room is empty.
LEMMA NoRoom ==
    ASSUME Typed, Control, NEW s \in Stream, Capacity(s) = 0
    PROVE buf[s] = <<>>
<1>1. buf[s] \in Seq(Unit) /\ Len(buf[s]) <= 0
  BY DEF Typed, Bytes, Control, Sized
<1> DEFINE b == buf[s]
<1>2. b \in Seq(Unit) /\ Len(b) <= 0
  BY <1>1
<1> HIDE DEF b
<1>3. b = <<>>
  BY <1>2
<1> QED
  BY <1>3 DEF b

LEMMA FdOwn ==
    ASSUME Typed, Control, OwnInv, NEW t \in Thread,
           Gather(t) \/ Writev(t) \/ WritevInterrupted(t) \/ Written(t)
    PROVE OwnInv'
<1>1. \A u \in Thread \ {t} : Same(u)
  BY FdSame
<1>2. setup' = setup /\ pc[t] = "write"
  BY FdSame
<1>3. stream' = stream /\ (pc'[t] = "write" => ToSet(Flight(t)') \subseteq ToSet(Flight(t)))
  <2>1. CASE Gather(t)
    BY <2>1, GatherControl
  <2>2. CASE Writev(t)
    BY <2>2, WritevControl
  <2>3. CASE WritevInterrupted(t)
    BY <2>3 DEF WritevInterrupted, locals, Flight
  <2>4. CASE Written(t)
    BY <2>4, WrittenControl
  <2> QED
    BY <2>1, <2>2, <2>3, <2>4
<1>4. ASSUME pc'[t] = "write", Capacity(stream[t])' = 0 PROVE Mine(Flight(t)', t)
  <2>1. Capacity(stream[t]) = 0
    BY <1>2, <1>3, <1>4 DEF Capacity
  <2>2. Mine(Flight(t), t)
    BY <1>2, <2>1 DEF OwnInv
  <2> QED
    BY <1>3, <1>4, <2>2 DEF Mine
<1> QED
  BY <1>1, <1>2, <1>4, OwnStep

LEMMA LockOwn ==
    ASSUME Typed, Control, OrderInv, OwnInv, NEW t \in Thread, Lock(t)
    PROVE OwnInv'
<1>0. PICK s \in Stream : s = stream[t]
  BY DEF Typed
<1> DEFINE c == FlattenSeq(Head(calls[t]))
<1>1. \A u \in Thread \ {t} : Same(u)
  BY DepositTyped
<1>2. setup' = setup /\ stream' = stream /\ Typed'
  BY DepositTyped, LockControl
<1>3. /\ c \in Bytes /\ Moves(s, t, c)
      /\ pc'[t] = "write" => Flight(t)' = buf[s] \o c
  BY <1>0, LockMoves
<1> HIDE DEF c
<1>4. Mine(c, t)
  <2> DEFINE q == Pending(s, t)'
  <2>1. q \in Seq(Mark) /\ c \in Seq(Mark)
    BY <1>2, <1>3, PendingIsNext, BytesAreMarks
  <2>2. Pending(s, t) = c \o q
    BY <1>3 DEF Moves
  <2>3. Mine(Pending(s, t), t)
    BY DEF OrderInv, InOrder, Settled
  <2> HIDE DEF q
  <2>4. ToSet(c \o q) = ToSet(c) \cup ToSet(q)
    BY <2>1, MarkSets
  <2> QED
    BY <2>2, <2>3, <2>4 DEF Mine
<1>5. ASSUME pc'[t] = "write", Capacity(stream[t])' = 0 PROVE Mine(Flight(t)', t)
  <2>1. Capacity(s) = 0
    BY <1>0, <1>2, <1>5 DEF Capacity
  <2>2. buf[s] = <<>>
    BY <2>1, NoRoom
  <2>3. <<>> \o c = c
    BY <1>3, ConcatEmptySeq DEF Bytes
  <2> QED
    BY <1>3, <1>4, <1>5, <2>2, <2>3
<1> QED
  BY <1>1, <1>2, <1>5, OwnStep

LEMMA CloseOwn ==
    ASSUME Typed, Control, OwnInv, Close
    PROVE OwnInv'
<1>1. \A u \in Thread \ {Main} : Same(u)
  BY CloseControl
<1>2. setup' = setup /\ stream'[Main] = "stdout" /\ Main \in Thread
  BY CloseControl, Constants
<1>3. Flight(Main)' = buf["stdout"]
  BY CloseMoves
<1>4. ASSUME Capacity(stream[Main])' = 0 PROVE Mine(Flight(Main)', Main)
  <2>1. Capacity("stdout") = 0
    BY <1>2, <1>4 DEF Capacity
  <2>2. buf["stdout"] = <<>>
    BY <2>1, NoRoom, Constants
  <2> QED
    BY <1>3, <2>2, ToSetEmpty DEF Mine
<1> QED
  BY <1>1, <1>2, <1>4, OwnStep

\* The other steps end outside the writer.
LEMMA OutsideOwn ==
    ASSUME Typed, Control, OwnInv, NEW t \in Thread,
           \/ Removed(t) \/ NotRemoved(t) \/ FoundGone(t)
           \/ WriteHandle(t) \/ DropHandle(t) \/ Unlock(t) \/ WritevFails(t)
    PROVE OwnInv'
<1>1. \A u \in Thread \ {t} : Same(u)
  <2>1. CASE Removed(t) \/ NotRemoved(t) \/ FoundGone(t)
    BY <2>1 DEF Removed, NotRemoved, FoundGone, Meets, locals, Begin, Goto, Typed, Same
  <2>2. CASE WriteHandle(t)
    BY <2>2, WriteHandleSays
  <2>3. CASE DropHandle(t) \/ Unlock(t)
    BY <2>3 DEF DropHandle, Unlock, Goto, Typed, Same, locals
  <2>4. CASE WritevFails(t)
    BY <2>4, FailsControl
  <2> QED
    BY <2>1, <2>2, <2>3, <2>4
<1>2. setup' = setup /\ pc'[t] # "write"
  <2>1. CASE Removed(t) \/ NotRemoved(t) \/ FoundGone(t)
    BY <2>1 DEF Removed, NotRemoved, FoundGone, Meets, locals, Goto, Typed
  <2>2. CASE WriteHandle(t)
    BY <2>2, WriteHandleSays
  <2>3. CASE DropHandle(t) \/ Unlock(t)
    BY <2>3 DEF DropHandle, Unlock, Goto, Typed
  <2>4. CASE WritevFails(t)
    BY <2>4, FailsControl
  <2> QED
    BY <2>1, <2>2, <2>3, <2>4
<1> QED
  BY <1>1, <1>2, OwnStep

----------------------------------------------------------------------------
(* The lines tell what was removed                                         *)

\* The next object is in no other place of the work to do.
LEMMA TakesOut ==
    ASSUME Typed, OrderInv, NEW t \in Thread, todo[t] # <<>>,
           todo' = [todo EXCEPT ![t] = Tail(@)], NEW o, o = Head(todo[t])
    PROVE /\ o \in ToSet(todo[t])
          /\ \A u \in Thread : o \notin ToSet(todo'[u])
          /\ \A u \in Thread : ToSet(todo'[u]) \subseteq ToSet(todo[u])
          /\ \A u \in Thread : \A x \in ToSet(todo[u]) : x # o => x \in ToSet(todo'[u])
<1> DEFINE q == todo[t]
<1>1. q \in Seq(Object) /\ q # <<>> /\ o = Head(q)
  BY DEF Typed
<1>2. todo'[t] = Tail(q) /\ \A u \in Thread \ {t} : todo'[u] = todo[u]
  BY DEF Typed
<1>3. ASSUME NEW u \in Thread, NEW i \in DOMAIN todo[u], todo[u][i] = o
      PROVE u = t /\ i = 1
  <2> DEFINE n == Len(Work[t])
             m == Len(q)
             k == Len(Work[u])
             l == Len(todo[u])
  <2>1. /\ Program(t) /\ Program(u) /\ todo[u] \in Seq(Object)
        /\ Work[t] \in Seq(Object) /\ Work[u] \in Seq(Object)
    BY Constants DEF Typed, OrderInv
  <2>2. /\ n \in Nat /\ m \in Nat /\ k \in Nat /\ l \in Nat
        /\ m # 0 /\ DOMAIN q = 1 .. m /\ i \in 1 .. l
        /\ DOMAIN Work[t] = 1 .. n /\ DOMAIN Work[u] = 1 .. k
    BY <1>1, <2>1
  <2>3. m <= n /\ l <= k
    BY <2>1 DEF Program
  <2>4. \A d \in DOMAIN q : q[d] = Work[t][n - m + d]
    BY <2>1 DEF Program
  <2>5. todo[u][i] = Work[u][k - l + i] /\ q[1] = o
    BY <1>1, <2>1 DEF Program
  <2>6. u = t => n = k /\ m = l
    OBVIOUS
  <2> HIDE DEF n, m, k, l, q
  <2> DEFINE x == n - m + 1
             y == k - l + i
  <2>7. 1 \in 1 .. m /\ x \in 1 .. n /\ y \in 1 .. k
    BY <2>2, <2>3
  <2>8. Work[t][x] = o /\ Work[u][y] = o
    BY <1>3, <2>2, <2>4, <2>5, <2>7
  <2> HIDE DEF x, y
  <2>9. t = u /\ x = y
    <3>1. x \in DOMAIN Work[t] /\ y \in DOMAIN Work[u] /\ Work[t][x] = Work[u][y]
      BY <2>2, <2>7, <2>8
    <3>2. \A v, w \in Thread : \A d \in DOMAIN Work[v], e \in DOMAIN Work[w] :
             Work[v][d] = Work[w][e] => v = w /\ d = e
      BY WorkAssumption
    <3> QED
      BY <3>1, <3>2, Zenon
  <2> QED
    BY <2>2, <2>6, <2>9 DEF x, y
<1> HIDE DEF q
<1>4. /\ Head(q) = q[1] /\ 1 \in DOMAIN q
      /\ \A i \in DOMAIN Tail(q) : i + 1 \in DOMAIN q /\ Tail(q)[i] = q[i + 1] /\ i + 1 # 1
      /\ \A i \in DOMAIN q \ {1} : i - 1 \in DOMAIN Tail(q) /\ q[i] = Tail(q)[i - 1]
  BY <1>1
<1>5. o \in ToSet(todo[t])
  BY <1>1, <1>4 DEF ToSet, q
<1>6. ASSUME NEW u \in Thread PROVE o \notin ToSet(todo'[u])
  <2>1. SUFFICES ASSUME NEW i \in DOMAIN todo'[u], todo'[u][i] = o PROVE FALSE
    BY DEF ToSet
  <2>2. CASE u = t
    <3>1. i + 1 \in DOMAIN q /\ q[i + 1] = o /\ i + 1 # 1
      BY <1>2, <1>4, <2>1, <2>2
    <3> QED
      BY <1>3, <3>1 DEF q
  <2>3. CASE u # t
    BY <1>2, <1>3, <2>1, <2>3
  <2> QED
    BY <2>2, <2>3
<1>7. ToSet(Tail(q)) \subseteq ToSet(q)
  BY <1>4 DEF ToSet
<1>8. ASSUME NEW x \in ToSet(q), x # o PROVE x \in ToSet(Tail(q))
  <2>1. PICK i \in DOMAIN q : x = q[i]
    BY DEF ToSet
  <2>2. i \in DOMAIN q \ {1}
    BY <1>1, <1>4, <1>8, <2>1
  <2> QED
    BY <1>4, <2>1, <2>2 DEF ToSet
<1> QED
  BY <1>2, <1>5, <1>6, <1>7, <1>8 DEF q

\* What is said of an object as its fate is settled.
LEMMA MeetsTold ==
    ASSUME Typed, OrderInv, ToldInv, NEW t \in Thread,
           NEW outcome \in {"removed", "left", "gone"}, Meets(t, outcome),
           UNCHANGED <<setup, errors>>,
           begun'["stdout"] = begun["stdout"] \cup
              (IF outcome = "removed" /\ setup.verbose THEN {Head(todo[t])} ELSE {}),
           begun'["stderr"] = begun["stderr"] \cup
              (IF outcome = "left" THEN {Head(todo[t])} ELSE {})
    PROVE ToldInv'
<1>1. PICK o : o = Head(todo[t])
  OBVIOUS
<1>2. /\ todo[t] # <<>> /\ todo' = [todo EXCEPT ![t] = Tail(@)]
      /\ fate' = [fate EXCEPT ![o] = outcome]
  BY <1>1 DEF Meets
<1>3. /\ o \in ToSet(todo[t])
      /\ \A u \in Thread : o \notin ToSet(todo'[u])
      /\ \A u \in Thread : ToSet(todo'[u]) \subseteq ToSet(todo[u])
  BY <1>1, <1>2, TakesOut
<1>4. fate[o] = "none" /\ o \in Object
  <2>1. o \in Object
    BY <1>1, <1>2, HeadTailProperties DEF Typed
  <2> QED
    BY <1>3, <2>1 DEF ToldInv
<1>5. ASSUME NEW u \in Thread, NEW x \in ToSet(todo'[u]) PROVE fate'[x] = "none"
  <2>1. x # o /\ fate[x] = "none"
    BY <1>3, <1>5 DEF ToldInv
  <2> QED
    BY <1>2, <2>1 DEF Typed
<1>6. /\ Ended("removed")' = Ended("removed") \cup (IF outcome = "removed" THEN {o} ELSE {})
      /\ Ended("left")' = Ended("left") \cup (IF outcome = "left" THEN {o} ELSE {})
  BY <1>2, <1>4 DEF Ended, Typed
<1>7. ASSUME errors' = 0
      PROVE /\ begun'["stdout"] = IF setup'.verbose THEN Ended("removed")' ELSE {}
            /\ begun'["stderr"] = Ended("left")'
  BY <1>1, <1>6, <1>7 DEF ToldInv
<1> QED
  BY <1>5, <1>7 DEF ToldInv

LEMMA RemovedTold ==
    ASSUME Typed, OrderInv, ToldInv, NEW t \in Thread, Removed(t) \/ FoundGone(t)
    PROVE ToldInv'
<1>1. CASE Removed(t)
  <2>1. Meets(t, "removed") /\ setup' = setup /\ errors' = errors
    BY <1>1 DEF Removed, faults
  <2>2. /\ begun'["stdout"] = begun["stdout"] \cup
              (IF setup.verbose THEN {Head(todo[t])} ELSE {})
        /\ begun'["stderr"] = begun["stderr"]
    BY <1>1, Constants DEF Removed, Begin, Typed
  <2> QED
    BY <2>1, <2>2, MeetsTold
<1>2. CASE FoundGone(t)
  BY <1>2, MeetsTold DEF FoundGone, faults
<1> QED
  BY <1>1, <1>2

LEMMA NotRemovedTold ==
    ASSUME Typed, Control, OrderInv, ToldInv, NEW t \in Thread, NotRemoved(t)
    PROVE ToldInv'
<1>1. Meets(t, "left") /\ setup' = setup /\ errors' = errors
  BY DEF NotRemoved, faults
<1>2. /\ begun'["stderr"] = begun["stderr"] \cup {Head(todo[t])}
      /\ begun'["stdout"] = begun["stdout"]
  BY Constants DEF NotRemoved, Begin, Typed
<1> QED
  BY <1>1, <1>2, MeetsTold

\* The steps that take no object.
LEMMA OtherTold ==
    ASSUME ToldInv, UNCHANGED <<setup, todo, fate>>,
           errors' = 0 => errors = 0 /\ begun' = begun
    PROVE ToldInv'
BY DEF ToldInv, Ended

----------------------------------------------------------------------------
(* The invariant                                                           *)

LEMMA InitIInv == Init => IInv
<1> SUFFICES ASSUME Init PROVE IInv
  OBVIOUS
<1>1. /\ <<>> \in Bytes /\ <<>> \in Calls /\ <<>> \in Seq(Mark)
      /\ Len(<<>>) = 0 /\ DOMAIN <<>> = {} /\ <<>> \o <<>> = <<>>
  BY DEF Bytes, Calls
<1>2. Typed
  BY <1>1, WorkAssumption, SetupAssumption, Constants DEF Init, Typed, Label, Fate, Stream
<1>3. Control
  <2>1. \A t \in Thread : Placed(t)
    BY DEF Init, Placed
  <2>2. Locked
    BY Constants DEF Init, Locked, Inside
  <2>3. MainLast
    BY Constants DEF Init, MainLast, Closing, Exited
  <2>4. Sized
    BY <1>1, <1>2, SetupIs DEF Init, Sized
  <2> QED
    BY <2>1, <2>2, <2>3, <2>4 DEF Control
<1>4. ASSUME NEW s \in Stream PROVE Passed(s) = <<>> /\ buf[s] = <<>>
  <2>1. InFlight(s) = <<>>
    BY DEF Init, InFlight
  <2> QED
    BY <2>1, <1>1 DEF Init, Passed
<1>5. ASSUME NEW s \in Stream, NEW t \in Thread PROVE Pending(s, t) = <<>>
  <2>1. calls[t] = <<>> /\ handle[t] = <<>>
    BY DEF Init
  <2> QED
    BY <1>2, <2>1, PendingIs
<1>6. WholeInv
  <2>1. \A t \in Thread : handle[t] = <<>> /\ calls[t] = <<>>
    BY DEF Init
  <2> QED
    BY <1>1, <1>4, <2>1, WholeEmpty DEF WholeInv, WholeCalls
<1>7. OrderInv
  <2>1. ASSUME NEW t \in Thread PROVE Program(t)
    <3> DEFINE n == Len(Work[t])
    <3>1. todo[t] = Work[t] /\ pc[t] = "run" /\ n \in Nat /\ DOMAIN Work[t] = 1 .. n
      BY Constants DEF Init
    <3>2. \A i \in 1 .. n : n - n + i = i
      BY <3>1
    <3>3. n <= n
      BY <3>1
    <3> QED
      BY <3>1, <3>2, <3>3 DEF Program
  <2>2. ASSUME NEW s \in Stream, NEW t \in Thread PROVE InOrder(s, t)
    <3>1. Settled(<<>>, <<>>, <<>>, t, Said(t))
      BY ToSetEmpty, OrderedEmpty DEF Settled, Before, Begun, Mine
    <3> QED
      BY <3>1, <1>4, <1>5 DEF InOrder
  <2> QED
    BY <2>1, <2>2 DEF OrderInv
<1>8. KeptInv /\ OwnInv
  BY DEF Init, KeptInv, OwnInv
<1>9. ToldInv
  <2>1. ASSUME NEW t \in Thread PROVE ToSet(todo[t]) \subseteq Object
    BY <1>2 DEF Typed, ToSet
  <2>2. /\ \A o \in Object : fate[o] = "none"
        /\ begun["stdout"] = {} /\ begun["stderr"] = {}
    BY Constants DEF Init
  <2>3. Ended("removed") = {} /\ Ended("left") = {}
    BY <2>2 DEF Ended
  <2> QED
    BY <2>1, <2>2, <2>3 DEF ToldInv
<1> QED
  BY <1>2, <1>3, <1>6, <1>7, <1>8, <1>9 DEF IInv

LEMMA StutterIInv == IInv /\ UNCHANGED vars => IInv'
<1> SUFFICES ASSUME IInv, UNCHANGED vars PROVE IInv'
  OBVIOUS
<1>1. UNCHANGED <<setup, todo, pc, line, stream, handle, calls, owner, buf, jobs, batch,
                  fd, errors, interrupts, fate, begun>>
  BY DEF vars
<1>2. Typed' /\ Control'
  <2>1. Typed'
    BY <1>1 DEF IInv, Typed
  <2>2. Control'
    BY <1>1 DEF IInv, Control, Placed, Locked, MainLast, Sized, Closing, Exited, Inside,
                Capacity
  <2> QED
    BY <2>1, <2>2
<1>3. \A s \in Stream : Passed(s)' = Passed(s)
  BY <1>1 DEF Passed, InFlight
<1>4. /\ \A s, t : Pending(s, t)' = Pending(s, t)
      /\ \A t : Said(t)' = Said(t)
  BY <1>1 DEF Pending, Coming, Said
<1>5. WholeInv'
  BY <1>1, <1>3 DEF IInv, WholeInv
<1>6. OrderInv'
  BY <1>1, <1>3, <1>4 DEF IInv, OrderInv, InOrder, Program
<1>7. KeptInv'
  BY <1>1, <1>3, <1>4 DEF IInv, KeptInv, Kept, Held
<1>8. OwnInv' /\ ToldInv'
  BY <1>1 DEF IInv, OwnInv, ToldInv, Ended, Flight, Capacity
<1> QED
  BY <1>2, <1>5, <1>6, <1>7, <1>8 DEF IInv

\* One step of each action.
LEMMA NextIInv == IInv /\ Next => IInv'
<1> SUFFICES ASSUME IInv, Next PROVE IInv'
  OBVIOUS
<1>0. Typed /\ Control /\ WholeInv /\ OrderInv /\ KeptInv /\ OwnInv /\ ToldInv
  BY DEF IInv
<1> SUFFICES Typed' /\ Control' /\ WholeInv' /\ OrderInv' /\ KeptInv' /\ OwnInv' /\ ToldInv'
  BY DEF IInv
<1>1. ASSUME NEW t \in Thread, Removed(t) \/ FoundGone(t)
      PROVE Typed' /\ Control' /\ WholeInv' /\ OrderInv' /\ KeptInv' /\ OwnInv' /\ ToldInv'
  BY <1>0, <1>1, RemovedControl, RemovedWhole, RemovedOrder, RemovedKept, OutsideOwn,
     RemovedTold
<1>2. ASSUME NEW t \in Thread, NotRemoved(t)
      PROVE Typed' /\ Control' /\ WholeInv' /\ OrderInv' /\ KeptInv' /\ OwnInv' /\ ToldInv'
  BY <1>0, <1>2, NotRemovedControl, NotRemovedWhole, NotRemovedOrder, NotRemovedKept,
     OutsideOwn, NotRemovedTold
<1>3. ASSUME NEW t \in Thread, WriteHandle(t)
      PROVE Typed' /\ Control' /\ WholeInv' /\ OrderInv' /\ KeptInv' /\ OwnInv' /\ ToldInv'
  <2>1. ToldInv'
    BY <1>0, <1>3, OtherTold, WriteHandleSays
  <2> QED
    BY <1>0, <1>3, <2>1, WriteHandleControl, WriteHandleWhole, WriteHandleOrder,
       WriteHandleKept, OutsideOwn
<1>4. ASSUME NEW t \in Thread, DropHandle(t)
      PROVE Typed' /\ Control' /\ WholeInv' /\ OrderInv' /\ KeptInv' /\ OwnInv' /\ ToldInv'
  <2>1. ToldInv'
    BY <1>0, <1>4, OtherTold DEF DropHandle, faults
  <2> QED
    BY <1>0, <1>4, <2>1, DropHandleControl, DropHandleWhole, DropHandleOrder,
       DropHandleKept, OutsideOwn
<1>5. ASSUME NEW t \in Thread, Lock(t)
      PROVE Typed' /\ Control' /\ WholeInv' /\ OrderInv' /\ KeptInv' /\ OwnInv' /\ ToldInv'
  <2>1. ToldInv'
    BY <1>0, <1>5, OtherTold DEF Lock, faults
  <2> QED
    BY <1>0, <1>5, <2>1, LockControl, LockWhole, LockOrder, LockKept, LockOwn
<1>6. ASSUME NEW t \in Thread, Unlock(t)
      PROVE Typed' /\ Control' /\ WholeInv' /\ OrderInv' /\ KeptInv' /\ OwnInv' /\ ToldInv'
  <2>1. ToldInv'
    BY <1>0, <1>6, OtherTold DEF Unlock, faults
  <2> QED
    BY <1>0, <1>6, <2>1, UnlockControl, UnlockWhole, UnlockOrder, UnlockKept, OutsideOwn
<1>7. ASSUME NEW t \in Thread,
             Gather(t) \/ Writev(t) \/ WritevInterrupted(t) \/ Written(t)
      PROVE Typed' /\ Control' /\ WholeInv' /\ OrderInv' /\ KeptInv' /\ OwnInv' /\ ToldInv'
  <2>1. Typed' /\ Control' /\ UNCHANGED <<setup, todo, errors, fate, begun>>
    BY <1>0, <1>7, FdSame
  <2>2. ToldInv'
    BY <1>0, <2>1, OtherTold
  <2> QED
    BY <1>0, <1>7, <2>1, <2>2, FdWhole, FdOrder, FdKept, FdOwn
<1>8. ASSUME NEW t \in Thread, WritevFails(t)
      PROVE Typed' /\ Control' /\ WholeInv' /\ OrderInv' /\ KeptInv' /\ OwnInv' /\ ToldInv'
  <2>1. Typed' /\ Control' /\ errors' # 0 /\ UNCHANGED <<setup, todo, fate>>
    BY <1>0, <1>8, FailsControl
  <2>2. ToldInv'
    BY <1>0, <2>1, OtherTold
  <2> QED
    BY <1>0, <1>8, <2>1, <2>2, FailsWhole, FailsOrder, FailsKept, OutsideOwn
<1>9. ASSUME Close
      PROVE Typed' /\ Control' /\ WholeInv' /\ OrderInv' /\ KeptInv' /\ OwnInv' /\ ToldInv'
  <2>1. Typed' /\ Control' /\ UNCHANGED <<setup, todo, errors, fate, begun>>
    BY <1>0, <1>9, CloseControl
  <2>2. ToldInv'
    BY <1>0, <2>1, OtherTold
  <2> QED
    BY <1>0, <1>9, <2>1, <2>2, CloseWhole, CloseOrder, CloseKept, CloseOwn
<1> QED
  BY <1>1, <1>2, <1>3, <1>4, <1>5, <1>6, <1>7, <1>8, <1>9 DEF Next, ThreadStep, FdStep

\* Every reachable state satisfies the inductive invariant.
THEOREM InvariantHolds == Spec => []IInv
<1>1. IInv /\ [Next]_vars => IInv'
  BY NextIInv, StutterIInv
<1> QED
  BY <1>1, InitIInv, PTL DEF Spec

----------------------------------------------------------------------------
(* What the invariant says of the lines                                    *)

LEMMA MarkIs ==
    ASSUME NEW a \in Mark, a # Cut
    PROVE a \in Unit /\ a = <<a[1], a[2]>> /\ a[1] \in Object /\ a[2] \in Nat \ {0}
BY DEF Mark, Unit

LEMMA SentIsWhole == IInv => LinesAreWhole
<1> SUFFICES ASSUME IInv, NEW s \in Stream, NEW i \in DOMAIN Sent(s), Sent(s)[i] # Cut
             PROVE LET q == Sent(s)
                       o == q[i][1]
                       k == q[i][2]
                   IN /\ k > 1 => i > 1 /\ q[i - 1] = <<o, k - 1>>
                      /\ k < Size(o) => i < Len(q) /\ q[i + 1] \in {<<o, k + 1>>, Cut}
                      /\ \A j \in 1 .. i - 1 : q[j] # q[i]
  BY DEF LinesAreWhole
<1> DEFINE p == Passed(s)
           b == buf[s]
           q == Sent(s)
<1>1. p \in Seq(Mark) /\ b \in Seq(Mark) /\ q = p \o b
  BY PassedType, BytesAreMarks DEF IInv, Typed, Sent, Passed
<1>2. Whole(p) /\ Whole(b)
  BY DEF IInv, WholeInv
<1>3. \A t \in Thread : Ordered(p, t) /\ Ordered(b, t) /\ Before(p, b, t)
  BY DEF IInv, OrderInv, InOrder, Settled
<1> HIDE DEF p, b
<1>4. Whole(q) /\ q \in Seq(Mark)
  BY <1>1, <1>2, WholeConcat, MarkSets
<1>5. \A t \in Thread : Ordered(q, t)
  BY <1>1, <1>3, OrderedConcat
<1>6. i \in DOMAIN q /\ q[i] # Cut
  OBVIOUS
<1> HIDE DEF q
<1>7. ASSUME NEW j \in 1 .. i - 1, q[j] = q[i] PROVE FALSE
  <2>1. j \in DOMAIN q /\ j < i
    BY <1>4, <1>6
  <2>2. q[i] \in Mark
    BY <1>4, <1>6
  <2>3. q[i][1] \in Object /\ q[i][2] \in Nat
    BY <1>6, <2>2, MarkIs
  <2>4. PICK t \in Thread : q[i][1] \in ToSet(Work[t])
    BY <2>3, WorkAssumption
  <2>5. PICK k \in DOMAIN Work[t] : q[i][1] = Work[t][k]
    BY <2>4 DEF ToSet
  <2>6. Earlier(q[i], q[i], t)
    BY <1>5, <1>6, <1>7, <2>1 DEF Ordered
  <2>7. k < k \/ q[i][2] < q[i][2]
    BY <2>5, <2>6 DEF Earlier
  <2>8. k \in Int
    BY Constants
  <2> QED
    BY <2>3, <2>7, <2>8
<1>8. /\ q[i][2] > 1 => i > 1 /\ q[i - 1] = <<q[i][1], q[i][2] - 1>>
      /\ q[i][2] < Size(q[i][1]) =>
            i < Len(q) /\ q[i + 1] \in {<<q[i][1], q[i][2] + 1>>, Cut}
  BY <1>4, <1>6 DEF Whole
<1> QED
  BY <1>7, <1>8 DEF q

LEMMA WrittenInOrder == IInv => InThreadOrder
<1> SUFFICES ASSUME IInv, NEW s \in Stream, NEW t \in Thread,
                    NEW i \in DOMAIN fd[s], NEW j \in DOMAIN fd[s],
                    NEW k \in DOMAIN Work[t], NEW l \in DOMAIN Work[t],
                    i < j, fd[s][i][1] = Work[t][k], fd[s][j][1] = Work[t][l]
             PROVE k <= l
  BY DEF InThreadOrder
<1> DEFINE f == fd[s]
           x == InFlight(s)
<1>1. f \in Seq(Mark) /\ x \in Seq(Mark)
  BY PassedType DEF IInv, Typed
<1>2. Ordered(f \o x, t)
  BY DEF IInv, OrderInv, InOrder, Settled, Passed
<1> HIDE DEF x
<1>3. Ordered(f, t)
  BY <1>1, <1>2, OrderedConcat
<1>4. Earlier(f[i], f[j], t)
  BY <1>3 DEF Ordered
<1>5. k < l \/ k = l
  BY <1>4 DEF Earlier
<1>6. k \in Int /\ l \in Int
  BY Constants
<1> QED
  BY <1>5, <1>6

\* What is neither being written nor buffered nor pending is written.
LEMMA WrittenOut ==
    ASSUME IInv, NEW s \in Stream, NEW t \in Thread, NEW o \in begun[s] \cap ToSet(Work[t]),
           pc[t] # "handle", buf[s] = <<>>, Pending(s, t) = <<>>,
           ToSet(InFlight(s)) \cap Units(o) = {}
    PROVE Units(o) \subseteq ToSet(fd[s])
<1>1. Kept(o, s, t)
  BY DEF IInv, KeptInv
<1>2. Units(o) \subseteq ToSet(Passed(s))
  BY <1>1, ToSetEmpty DEF Kept, Held
<1>3. fd[s] \in Seq(Mark) /\ InFlight(s) \in Seq(Mark)
  BY PassedType DEF IInv, Typed
<1>4. ToSet(Passed(s)) = ToSet(fd[s]) \cup ToSet(InFlight(s))
  <2> DEFINE f == fd[s]
             x == InFlight(s)
  <2> HIDE DEF f, x
  <2>1. f \in Seq(Mark) /\ x \in Seq(Mark)
    BY <1>3 DEF f, x
  <2>2. ToSet(f \o x) = ToSet(f) \cup ToSet(x)
    BY <2>1, MarkSets
  <2> QED
    BY <2>2 DEF Passed, f, x
<1> QED
  BY <1>2, <1>4

LEMMA AllIsOut == IInv => OnlyErrorsLose
<1> SUFFICES ASSUME IInv, Exited
             PROVE /\ \A s \in Stream : \A o \in begun[s] : Units(o) \subseteq ToSet(fd[s])
                   /\ errors = 0 => /\ begun["stderr"] = Ended("left")
                                    /\ setup.verbose => begun["stdout"] = Ended("removed")
  BY DEF OnlyErrorsLose
<1>1. /\ pc[Main] = "exited" /\ \A t \in Thread \ {Main} : pc[t] = "done"
      /\ todo[Main] = <<>> /\ handle[Main] = <<>> /\ buf["stdout"] = <<>>
  BY DEF IInv, Control, MainLast, Exited
<1>2. ASSUME NEW t \in Thread
      PROVE pc[t] \in {"done", "exited"} /\ calls[t] = <<>> /\ todo[t] = <<>>
            /\ handle[t] = <<>>
  <2>1. Placed(t)
    BY DEF IInv, Control
  <2>2. CASE t = Main
    BY <1>1, <2>1, <2>2 DEF Placed
  <2>3. CASE t # Main
    BY <1>1, <2>1, <2>3 DEF Placed
  <2> QED
    BY <2>2, <2>3
<1>3. buf["stderr"] = <<>>
  BY NoRoom, Constants DEF IInv, Capacity
<1>4. ASSUME NEW s \in Stream, NEW o \in begun[s] PROVE Units(o) \subseteq ToSet(fd[s])
  <2>1. PICK t \in Thread : o \in ToSet(Work[t])
    BY WorkAssumption DEF IInv, Typed
  <2>2. buf[s] = <<>>
    BY <1>1, <1>3 DEF Stream
  <2>3. Pending(s, t) = <<>>
    BY <1>2, PendingIs DEF IInv
  <2>4. {u \in Thread : pc[u] = "write" /\ stream[u] = s} = {}
    BY <1>2
  <2>5. InFlight(s) = <<>>
    BY <2>4 DEF InFlight
  <2>6. ToSet(InFlight(s)) \cap Units(o) = {}
    BY <2>5, ToSetEmpty
  <2>7. pc[t] # "handle"
    BY <1>2
  <2> QED
    BY <2>1, <2>2, <2>3, <2>6, <2>7, WrittenOut
<1>5. ASSUME errors = 0
      PROVE /\ begun["stderr"] = Ended("left")
            /\ setup.verbose => begun["stdout"] = Ended("removed")
  BY <1>5 DEF IInv, ToldInv
<1> QED
  BY <1>4, <1>5

LEMMA OutAtOnce == IInv => ShownAtOnce
<1> SUFFICES ASSUME IInv, NEW s \in Stream, Capacity(s) = 0,
                    s = "stdout" => setup.handle = 0,
                    NEW t \in Thread, pc[t] \in {"run", "done"},
                    NEW o \in begun[s] \cap ToSet(Work[t])
             PROVE Units(o) \subseteq ToSet(fd[s])
  BY DEF ShownAtOnce
<1>1. Typed /\ Control
  BY DEF IInv
<1>2. buf[s] = <<>>
  BY <1>1, NoRoom
<1>3. Pending(s, t) = <<>>
  <2>1. calls[t] = <<>>
    BY <1>1 DEF Control, Placed
  <2>2. Pending(s, t) = IF s = "stdout" THEN handle[t] ELSE <<>>
    BY <1>1, <2>1, PendingIs
  <2>3. ASSUME s = "stdout" PROVE handle[t] = <<>>
    <3> DEFINE h == handle[t]
    <3>1. h \in Seq(Unit) /\ Len(h) <= 0
      BY <1>1, <2>3 DEF Typed, Bytes, Control, Sized
    <3> HIDE DEF h
    <3>2. h = <<>>
      BY <3>1
    <3> QED
      BY <3>2 DEF h
  <2> QED
    BY <2>2, <2>3
<1>4. ToSet(InFlight(s)) \cap Units(o) = {}
  <2> DEFINE writers == {u \in Thread : pc[u] = "write" /\ stream[u] = s}
  <2>1. CASE writers = {}
    <3>1. InFlight(s) = <<>>
      BY <2>1 DEF InFlight
    <3> QED
      BY <3>1, ToSetEmpty
  <2>2. CASE writers # {}
    <3>1. PICK u \in writers : TRUE
      BY <2>2
    <3>2. u \in Thread /\ pc[u] = "write" /\ stream[u] = s /\ u # t
      BY <3>1
    <3>3. InFlight(s) = Flight(u)
      BY <1>1, <3>2, OneWriter
    <3>4. Mine(Flight(u), u)
      BY <3>2 DEF IInv, OwnInv
    <3>5. ASSUME NEW a \in ToSet(InFlight(s)) \cap Units(o) PROVE FALSE
      <4>1. a[1] \in ToSet(Work[u])
        BY <3>3, <3>4, <3>5 DEF Mine
      <4>2. a[1] = o
        BY <3>5 DEF Units
      <4> QED
        BY <3>2, <4>1, <4>2, OwnedOnce
    <3> QED
      BY <3>5
  <2> QED
    BY <2>1, <2>2
<1> QED
  BY <1>2, <1>3, <1>4, WrittenOut

\* Whatever is written by however many threads, in pieces or cut short, a line
\* is in its stream in one piece and once: the mutex is held over the whole of
\* it, and what a failed write leaves ends where the failure is marked.
THEOREM OutputIsWhole == Spec => []LinesAreWhole
BY InvariantHolds, SentIsWhole, PTL

\* Neither the thread's buffer nor the shared one lets a line overtake one that
\* the same thread wrote before it.
THEOREM OutputIsInOrder == Spec => []InThreadOrder
BY InvariantHolds, WrittenInOrder, PTL

\* At exit each line begun since the last error of its stream has been written
\* in full, whichever buffers it went through; with no error the lines name what
\* was removed and what stays, and nothing that was gone already.
THEOREM OutputIsComplete == Spec => []OnlyErrorsLose
BY InvariantHolds, AllIsOut, PTL

\* Where nothing is buffered, a line is out when the thread goes on.
THEOREM OutputIsShown == Spec => []ShownAtOnce
BY InvariantHolds, OutAtOnce, PTL
=============================================================================
