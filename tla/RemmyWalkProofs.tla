--------------------------- MODULE RemmyWalkProofs ---------------------------
(***************************************************************************)
(* NoUseAfterFree and RefcountIsExact for any tree and any number of       *)
(* workers.  The View of a state cuts what a worker does down to the phase *)
(* it is in and the node it works on.  All but thirteen of the actions     *)
(* leave the View as it is, or only know less of what is ahead; one lemma  *)
(* for each of the others says that the View stays Sound.                  *)
(*                                                                         *)
(* Then NothingLeaks.  Leases and pending tasks are counted by what they   *)
(* stand for: descriptors and reservations, queued tasks and busy workers. *)
(* Every open directory has somebody who will close it, every node a       *)
(* reference, and an idle worker has neither.  So nothing of it is left    *)
(* when nothing is pending.                                                *)
(*                                                                         *)
(* RemovedLast and ExitIsTruthful hold for any refusal.  Of all that still *)
(* exists, everything is answered for: it is in the hands of somebody who  *)
(* will come to it, or a failure that explains it has been reported.  When *)
(* remmy exits nothing is in hand.                                         *)
(*                                                                         *)
(* Then TypeOK, OnlyTheBlockedFails and OnlyLostRaces: every failure has a *)
(* cause.  A thread that is refused a descriptor beside an open one is     *)
(* given it later; and as long as that is the only want of descriptors,    *)
(* what fails is gone or lies around what the system refuses.              *)
(***************************************************************************)
EXTENDS RemmyWalk, SequenceTheorems, FiniteSetTheorems, TLAPS

----------------------------------------------------------------------------
(* The view, and what is true of it                                        *)

Phases == {"idle", "unopened", "scanning", "meeting", "publishing", "unref",
           "removing", "finish"}

View0 ==
    [node : [Dir -> {"none", "live", "deleted"}], remaining : [Dir -> Int],
     queued : SUBSET Dir, unseeded : SUBSET Dir, phase : [Slot -> Phases],
     cur : [Slot -> Dir \cup {None}], todo : [Slot -> SUBSET Object],
     entry : [Slot -> Object \cup {None}]]

\* A worker that has a node: it holds a reference, or has dropped the last one.
Works(m, s) == m.phase[s] \notin {"idle", "finish"}

\* Its reference is that of the scan.
Scans(m, s) == m.phase[s] \in {"unopened", "scanning", "meeting", "publishing"}

\* A child has been counted and is not yet queued.
Published(m, d) == \E s \in Slot : m.phase[s] = "publishing" /\ m.entry[s] = d

\* The reference of the scan is in nobody's hands.
Waits(m, d) == d \in m.queued \/ Published(m, d)

\* Nobody has opened d yet.
Fresh(m, d) ==
    Waits(m, d) \/ \E s \in Slot : m.phase[s] = "unopened" /\ m.cur[s] = d

Kids(m, d) == {c \in Dir : Parent[c] = d /\ m.node[c] = "live"}
Holders(m, d) == {s \in Slot : Works(m, s) /\ m.cur[s] = d}

Typed(m) ==
    /\ m \in View0
    /\ \A s \in Slot : Works(m, s) => m.cur[s] \in Dir
    /\ \A s \in Slot : m.phase[s] \in {"meeting", "publishing"} =>
          m.entry[s] \in Dir /\ Parent[m.entry[s]] = m.cur[s]
    /\ \A d \in m.unseeded : Parent[d] = None

\* A directory is queued, about to be, or scanned by one worker.
ScannedOnce(m) ==
    /\ \A s, t \in Slot : Scans(m, s) /\ Scans(m, t) /\ m.cur[s] = m.cur[t] => s = t
    /\ \A s \in Slot : Scans(m, s) => ~Waits(m, m.cur[s])
    /\ \A d \in m.queued : ~Published(m, d)

\* Whatever is referred to is allocated, and so is what an allocated node is in.
AllLive(m) ==
    /\ \A d \in Dir : Waits(m, d) => m.node[d] = "live"
    /\ \A s \in Slot : Works(m, s) => m.node[m.cur[s]] = "live"
    /\ \A d \in Dir : Parent[d] # None =>
          /\ m.node[d] = "live" => m.node[Parent[d]] = "live"
          /\ m.node[d] # "none" => m.node[Parent[d]] # "none"

\* What a scan has still to meet has no node yet.
AheadIsNew(m) ==
    \A s \in Slot :
        /\ ~(m.phase[s] \in {"scanning", "meeting", "publishing"}) => m.todo[s] = {}
        /\ \A e \in m.todo[s] \cap Dir : Parent[e] = m.cur[s] /\ m.node[e] = "none"
        /\ m.phase[s] = "meeting" =>
              m.node[m.entry[s]] = "none" /\ m.entry[s] \notin m.todo[s]

\* Nor has what is in a directory that nobody has opened; only its scan refers
\* to it.
FreshIsNew(m) ==
    \A d \in Dir : Fresh(m, d) =>
        m.remaining[d] = 1 /\ \A c \in Dir : Parent[c] = d => m.node[c] = "none"

\* Nor has an operand before it is seeded.
UnseededIsNew(m) == \A d \in m.unseeded : m.node[d] = "none"

\* Whoever removes a node is alone with it.
RemovedAlone(m) ==
    \A s \in Slot : m.phase[s] = "removing" =>
        /\ ~Waits(m, m.cur[s]) /\ Kids(m, m.cur[s]) = {}
        /\ Holders(m, m.cur[s]) = {s}

Removed(m, d) == \E s \in Slot : m.phase[s] = "removing" /\ m.cur[s] = d

Counted(m, d) ==
    m.remaining[d] = (IF Waits(m, d) THEN 1 ELSE 0)
                     + Cardinality(Holders(m, d)) + Cardinality(Kids(m, d))

\* The counter of a node is the number of its references, till the last goes.
Exact(m) ==
    \A d \in Dir : m.node[d] = "live" /\ ~Removed(m, d) => Counted(m, d)

Sound(m) ==
    /\ Typed(m) /\ ScannedOnce(m) /\ AllLive(m) /\ AheadIsNew(m)
    /\ FreshIsNew(m) /\ UnseededIsNew(m) /\ RemovedAlone(m) /\ Exact(m)

----------------------------------------------------------------------------
(* Facts about a sound view                                                *)

\* The references of a node are finitely many.
LEMMA ReferencesAreFinite ==
    ASSUME NEW m, NEW d
    PROVE  /\ IsFiniteSet(Holders(m, d)) /\ Cardinality(Holders(m, d)) \in Nat
           /\ IsFiniteSet(Kids(m, d)) /\ Cardinality(Kids(m, d)) \in Nat
<1>1. Holders(m, d) \in SUBSET Slot
  BY DEF Holders
<1>2. Kids(m, d) \in SUBSET Object
  BY DEF Kids, Object
<1> QED
  BY <1>1, <1>2, FS_Subset, FS_CardinalityType, TreeAssumption, ThreadAssumption

\* A node whose one reference a worker has is that worker's alone.
LEMMA LastReference ==
    ASSUME NEW m, Sound(m), NEW s \in Slot, Works(m, s), m.phase[s] # "removing",
           m.remaining[m.cur[s]] = 1
    PROVE  /\ ~Waits(m, m.cur[s]) /\ Kids(m, m.cur[s]) = {}
           /\ Holders(m, m.cur[s]) = {s}
<1>1. PICK d \in Dir : d = m.cur[s]
  BY DEF Sound, Typed
<1>2. s \in Holders(m, d)
  BY <1>1 DEF Holders
<1>3. ~Removed(m, d)
  BY <1>1, <1>2 DEF Removed, Sound, RemovedAlone
<1>4. Counted(m, d)
  BY <1>1, <1>3 DEF Sound, AllLive, Exact
<1>5. PICK h \in Nat : h = Cardinality(Holders(m, d))
  BY ReferencesAreFinite
<1>6. PICK k \in Nat : k = Cardinality(Kids(m, d))
  BY ReferencesAreFinite
<1>7. h # 0
  BY <1>2, <1>5, FS_EmptySet, ReferencesAreFinite
<1>8. 1 = (IF Waits(m, d) THEN 1 ELSE 0) + h + k
  BY <1>1, <1>4, <1>5, <1>6 DEF Counted
<1>9. h = 1 /\ k = 0 /\ ~Waits(m, d)
  BY <1>7, <1>8
<1>10. Holders(m, d) = {s}
  <2>1. PICK t : Holders(m, d) = {t}
    BY <1>5, <1>9, FS_Singleton, ReferencesAreFinite
  <2> QED
    BY <1>2, <2>1
<1>11. Kids(m, d) = {}
  BY <1>6, <1>9, FS_EmptySet, ReferencesAreFinite
<1> QED
  BY <1>1, <1>9, <1>10, <1>11

\* A counter is as exact as it was when no reference has come or gone.
LEMMA SameCount ==
    ASSUME NEW m, NEW n, NEW d, Holders(n, d) = Holders(m, d), Kids(n, d) = Kids(m, d),
           Waits(n, d) <=> Waits(m, d), n.remaining[d] = m.remaining[d], Counted(m, d)
    PROVE  Counted(n, d)
BY DEF Counted

----------------------------------------------------------------------------
(* What the actions do to the view                                         *)

\* Less may be ahead, an operand may have been passed over.
Quiet(m, n) ==
    /\ n \in View0
    /\ n.node = m.node /\ n.remaining = m.remaining /\ n.queued = m.queued
    /\ n.phase = m.phase /\ n.cur = m.cur /\ n.unseeded \subseteq m.unseeded
    /\ \A s \in Slot : n.todo[s] \subseteq m.todo[s]
    /\ \A s \in Slot : m.phase[s] \in {"meeting", "publishing"} =>
          n.entry[s] = m.entry[s]

\* Nothing that the counters are about changes.
LEMMA QuietIsSound ==
    ASSUME NEW m, NEW n, Sound(m), Quiet(m, n)
    PROVE  Sound(n)
<1>1. /\ \A s \in Slot : (Works(n, s) <=> Works(m, s)) /\ (Scans(n, s) <=> Scans(m, s))
      /\ \A d : /\ Published(n, d) <=> Published(m, d)
                /\ Waits(n, d) <=> Waits(m, d)
                /\ Fresh(n, d) <=> Fresh(m, d)
                /\ Holders(n, d) = Holders(m, d) /\ Kids(n, d) = Kids(m, d)
                /\ Removed(n, d) <=> Removed(m, d)
  BY DEF Quiet, Works, Scans, Published, Waits, Fresh, Holders, Kids, Removed
<1>2. Typed(n)
  BY <1>1 DEF Sound, Typed, Quiet
<1>3. ScannedOnce(n)
  BY <1>1 DEF Sound, ScannedOnce, Quiet
<1>4. AllLive(n)
  BY <1>1 DEF Sound, AllLive, Quiet
<1>5. AheadIsNew(n)
  BY DEF Sound, AheadIsNew, Quiet
<1>6. FreshIsNew(n) /\ UnseededIsNew(n)
  BY <1>1 DEF Sound, FreshIsNew, UnseededIsNew, Quiet
<1>7. RemovedAlone(n)
  BY <1>1 DEF Sound, RemovedAlone, Quiet
<1>8. Exact(n)
  <2> SUFFICES ASSUME NEW d \in Dir, n.node[d] = "live", ~Removed(n, d)
               PROVE  Counted(n, d)
    BY DEF Exact
  <2>1. m.node[d] = "live" /\ ~Removed(m, d) /\ n.remaining[d] = m.remaining[d]
    BY <1>1 DEF Quiet
  <2>2. Counted(m, d)
    BY <2>1 DEF Sound, Exact
  <2> QED
    BY <2>1, <2>2, <1>1, SameCount
<1> QED
  BY <1>2, <1>3, <1>4, <1>5, <1>6, <1>7, <1>8 DEF Sound

\* Worker s is in another phase of the scan of its directory.
Looking(m, n, s, phase) ==
    /\ n \in View0
    /\ n.node = m.node /\ n.remaining = m.remaining /\ n.queued = m.queued
    /\ n.phase = [m.phase EXCEPT ![s] = phase] /\ n.cur = m.cur
    /\ n.unseeded = m.unseeded
    /\ \A t \in Slot \ {s} : n.todo[t] = m.todo[t] /\ n.entry[t] = m.entry[t]

\* It opens its directory, meets a child, or leaves one alone.
Looks(m, n, s) ==
    \/ /\ m.phase[s] = "unopened" /\ Looking(m, n, s, "scanning")
       /\ n.todo[s] \subseteq Children(m.cur[s])
    \/ /\ m.phase[s] = "scanning" /\ Looking(m, n, s, "meeting")
       /\ n.entry[s] \in m.todo[s] \cap Dir
       /\ n.todo[s] = m.todo[s] \ {n.entry[s]}
    \/ /\ m.phase[s] = "meeting" /\ Looking(m, n, s, "scanning")
       /\ n.todo[s] = m.todo[s]

\* That changes no reference.
LEMMA LooksIsSound ==
    ASSUME NEW m, NEW n, Sound(m), NEW s \in Slot, Looks(m, n, s)
    PROVE  Sound(n)
<1>1. PICK phase \in {"scanning", "meeting"} : Looking(m, n, s, phase)
  BY DEF Looks
<1>2. /\ m.phase[s] \in {"unopened", "scanning", "meeting"} /\ n.phase[s] = phase
      /\ \A t \in Slot \ {s} : n.phase[t] = m.phase[t]
      /\ m.cur[s] \in Dir
  BY <1>1 DEF Looks, Looking, Sound, Typed, View0, Works
<1>3. /\ \A t \in Slot : (Works(n, t) <=> Works(m, t)) /\ (Scans(n, t) <=> Scans(m, t))
      /\ \A d : /\ Published(n, d) <=> Published(m, d)
                /\ Waits(n, d) <=> Waits(m, d)
                /\ Fresh(n, d) => Fresh(m, d)
                /\ Holders(n, d) = Holders(m, d) /\ Kids(n, d) = Kids(m, d)
                /\ Removed(n, d) <=> Removed(m, d)
  <2>1. \A t \in Slot : (Works(n, t) <=> Works(m, t)) /\ (Scans(n, t) <=> Scans(m, t))
    BY <1>2 DEF Works, Scans
  <2>2. \A d : Published(n, d) <=> Published(m, d)
    BY <1>1, <1>2 DEF Published, Looking
  <2>3. \A d : Waits(n, d) <=> Waits(m, d)
    BY <1>1, <2>2 DEF Waits, Looking
  <2>4. \A d : Fresh(n, d) => Fresh(m, d)
    BY <1>1, <1>2, <2>3 DEF Fresh, Looking
  <2>5. \A d : Holders(n, d) = Holders(m, d) /\ Kids(n, d) = Kids(m, d)
    BY <1>1, <2>1 DEF Holders, Kids, Looking
  <2>6. \A d : Removed(n, d) <=> Removed(m, d)
    BY <1>1, <1>2 DEF Removed, Looking
  <2> QED
    BY <2>1, <2>2, <2>3, <2>4, <2>5, <2>6
<1>4. /\ \A e \in n.todo[s] \cap Dir : Parent[e] = m.cur[s] /\ m.node[e] = "none"
      /\ phase = "meeting" =>
            /\ n.entry[s] \in Dir /\ Parent[n.entry[s]] = m.cur[s]
            /\ m.node[n.entry[s]] = "none" /\ n.entry[s] \notin n.todo[s]
  <2>1. CASE m.phase[s] = "unopened"
    <3>1. Fresh(m, m.cur[s])
      BY <2>1 DEF Fresh
    <3>2. \A c \in Dir : Parent[c] = m.cur[s] => m.node[c] = "none"
      BY <1>2, <3>1 DEF Sound, FreshIsNew
    <3>3. n.todo[s] \subseteq Children(m.cur[s]) /\ phase = "scanning"
      BY <1>2, <2>1 DEF Looks, Looking, Sound, Typed, View0
    <3> QED
      BY <3>2, <3>3 DEF Children
  <2>2. CASE m.phase[s] = "scanning"
    <3>1. n.entry[s] \in m.todo[s] \cap Dir /\ n.todo[s] = m.todo[s] \ {n.entry[s]}
      BY <2>2 DEF Looks
    <3> QED
      BY <3>1 DEF Sound, AheadIsNew
  <2>3. CASE m.phase[s] = "meeting"
    <3>1. n.todo[s] = m.todo[s] /\ phase = "scanning"
      BY <1>2, <2>3 DEF Looks, Looking, Sound, Typed, View0
    <3> QED
      BY <3>1 DEF Sound, AheadIsNew
  <2> QED
    BY <1>2, <2>1, <2>2, <2>3
<1>5. Typed(n)
  BY <1>1, <1>2, <1>3, <1>4 DEF Sound, Typed, Looking
<1>6. ScannedOnce(n)
  BY <1>1, <1>3 DEF Sound, ScannedOnce, Looking
<1>7. AllLive(n)
  BY <1>1, <1>3 DEF Sound, AllLive, Looking
<1>8. AheadIsNew(n)
  BY <1>1, <1>2, <1>4 DEF Sound, AheadIsNew, Looking
<1>9. FreshIsNew(n) /\ UnseededIsNew(n)
  BY <1>1, <1>3 DEF Sound, FreshIsNew, UnseededIsNew, Looking
<1>10. RemovedAlone(n)
  BY <1>1, <1>2, <1>3 DEF Sound, RemovedAlone, Looking
<1>11. Exact(n)
  <2> SUFFICES ASSUME NEW d \in Dir, n.node[d] = "live", ~Removed(n, d)
               PROVE  Counted(n, d)
    BY DEF Exact
  <2>1. m.node[d] = "live" /\ ~Removed(m, d) /\ n.remaining[d] = m.remaining[d]
    BY <1>1, <1>3 DEF Looking
  <2>2. Counted(m, d)
    BY <2>1 DEF Sound, Exact
  <2> QED
    BY <2>1, <2>2, <1>3, SameCount
<1> QED
  BY <1>5, <1>6, <1>7, <1>8, <1>9, <1>10, <1>11 DEF Sound

\* A worker takes a task from a queue.
Acquires(m, n, s, d) ==
    /\ n \in View0 /\ m.phase[s] = "idle" /\ d \in m.queued
    /\ n.node = m.node /\ n.remaining = m.remaining /\ n.unseeded = m.unseeded
    /\ n.entry = m.entry /\ n.queued = m.queued \ {d}
    /\ n.cur = [m.cur EXCEPT ![s] = d]
    /\ \A t \in Slot \ {s} : n.todo[t] = m.todo[t] /\ n.phase[t] = m.phase[t]
    /\ \/ n.phase[s] = "unopened" /\ n.todo[s] = m.todo[s]
       \/ n.phase[s] = "scanning" /\ n.todo[s] \subseteq Children(d)

\* The reference of the scan is its own now.
LEMMA AcquiresIsSound ==
    ASSUME NEW m, NEW n, Sound(m), NEW s \in Slot, NEW d \in Dir, Acquires(m, n, s, d)
    PROVE  Sound(n)
<1>1. /\ n.phase[s] \in {"unopened", "scanning"} /\ n.cur[s] = d /\ m.phase[s] = "idle"
      /\ \A t \in Slot \ {s} : n.phase[t] = m.phase[t] /\ n.cur[t] = m.cur[t]
  BY DEF Acquires, Sound, Typed, View0
<1>2. /\ \A t \in Slot \ {s} : Works(n, t) <=> Works(m, t)
      /\ \A t \in Slot \ {s} : Scans(n, t) <=> Scans(m, t)
      /\ Works(n, s) /\ ~Works(m, s) /\ Scans(n, s) /\ ~Scans(m, s)
  BY <1>1 DEF Works, Scans
<1>3. \A c : Published(n, c) <=> Published(m, c)
  BY <1>1 DEF Published, Acquires
<1>4. Waits(m, d) /\ Fresh(m, d) /\ ~Published(m, d)
  BY DEF Waits, Fresh, Acquires, Sound, ScannedOnce
<1>5. \A c : Waits(n, c) <=> Waits(m, c) /\ c # d
  BY <1>3, <1>4 DEF Waits, Acquires
<1>6. \A c : Fresh(n, c) => Fresh(m, c)
  BY <1>1, <1>4, <1>5 DEF Fresh
<1>7. /\ \A c : c # d => Holders(n, c) = Holders(m, c)
      /\ Holders(n, d) = Holders(m, d) \cup {s} /\ s \notin Holders(m, d)
  BY <1>1, <1>2 DEF Holders
<1>8. \A c : Kids(n, c) = Kids(m, c) /\ (Removed(n, c) <=> Removed(m, c))
  BY <1>1 DEF Kids, Removed, Acquires
<1>9. /\ m.node[d] = "live" /\ \A c \in Dir : Parent[c] = d => m.node[c] = "none"
      /\ \A t \in Slot : Scans(m, t) => m.cur[t] # d
      /\ \A t \in Slot : m.phase[t] = "removing" => m.cur[t] # d
  BY <1>4 DEF Sound, AllLive, FreshIsNew, ScannedOnce, RemovedAlone
<1>10. Typed(n)
  BY <1>1, <1>2 DEF Sound, Typed, Acquires
<1>11. ScannedOnce(n)
  <2>1. \A t, u \in Slot : Scans(n, t) /\ Scans(n, u) /\ n.cur[t] = n.cur[u] => t = u
    BY <1>1, <1>2, <1>9 DEF Sound, ScannedOnce
  <2>2. \A t \in Slot : Scans(n, t) => ~Waits(n, n.cur[t])
    BY <1>1, <1>2, <1>5 DEF Sound, ScannedOnce
  <2>3. \A c \in n.queued : ~Published(n, c)
    BY <1>3 DEF Sound, ScannedOnce, Acquires
  <2> QED
    BY <2>1, <2>2, <2>3 DEF ScannedOnce
<1>12. AllLive(n)
  BY <1>1, <1>2, <1>5, <1>9 DEF Sound, AllLive, Acquires
<1>13. AheadIsNew(n)
  BY <1>1, <1>9 DEF Sound, AheadIsNew, Acquires, Children
<1>14. FreshIsNew(n) /\ UnseededIsNew(n)
  BY <1>6 DEF Sound, FreshIsNew, UnseededIsNew, Acquires
<1>15. RemovedAlone(n)
  BY <1>1, <1>5, <1>7, <1>8, <1>9 DEF Sound, RemovedAlone
<1>16. Exact(n)
  <2> SUFFICES ASSUME NEW c \in Dir, n.node[c] = "live", ~Removed(n, c)
               PROVE  Counted(n, c)
    BY DEF Exact
  <2>1. Counted(m, c) /\ n.remaining[c] = m.remaining[c]
    BY <1>8 DEF Sound, Exact, Acquires
  <2>2. CASE c # d
    BY <2>1, <2>2, <1>5, <1>7, <1>8, SameCount
  <2>3. CASE c = d
    <3>1. Cardinality(Holders(n, d)) = Cardinality(Holders(m, d)) + 1
      BY <1>7, ReferencesAreFinite, FS_AddElement
    <3> QED
      BY <2>1, <2>3, <3>1, <1>4, <1>5, <1>8, ReferencesAreFinite DEF Counted
  <2> QED
    BY <2>2, <2>3
<1> QED
  BY <1>10, <1>11, <1>12, <1>13, <1>14, <1>15, <1>16 DEF Sound

\* A worker puts its task back, unopened.
Parks(m, n, s) ==
    /\ n \in View0 /\ m.phase[s] = "unopened"
    /\ n.node = m.node /\ n.remaining = m.remaining /\ n.unseeded = m.unseeded
    /\ n.entry = m.entry /\ n.todo = m.todo /\ n.cur = m.cur
    /\ n.queued = m.queued \cup {m.cur[s]}
    /\ n.phase = [m.phase EXCEPT ![s] = "finish"]

\* Then the reference of the scan is nobody's.
LEMMA ParksIsSound ==
    ASSUME NEW m, NEW n, Sound(m), NEW s \in Slot, Parks(m, n, s)
    PROVE  Sound(n)
<1>1. PICK d : d = m.cur[s]
  OBVIOUS
<1>2. /\ n.phase[s] = "finish" /\ m.phase[s] = "unopened" /\ n.cur = m.cur
      /\ \A t \in Slot \ {s} : n.phase[t] = m.phase[t]
  BY DEF Parks, Sound, Typed, View0
<1>3. /\ \A t \in Slot \ {s} : Works(n, t) <=> Works(m, t)
      /\ \A t \in Slot \ {s} : Scans(n, t) <=> Scans(m, t)
      /\ ~Works(n, s) /\ Works(m, s) /\ ~Scans(n, s) /\ Scans(m, s)
  BY <1>2 DEF Works, Scans
<1>4. \A c : Published(n, c) <=> Published(m, c)
  BY <1>2 DEF Published, Parks
<1>5. d \in Dir /\ Fresh(m, d) /\ ~Waits(m, d) /\ m.node[d] = "live"
  BY <1>1, <1>2, <1>3 DEF Fresh, Sound, Typed, ScannedOnce, AllLive
<1>6. \A c : Waits(n, c) <=> Waits(m, c) \/ c = d
  BY <1>1, <1>4 DEF Waits, Parks
<1>7. \A c : Fresh(n, c) => Fresh(m, c)
  BY <1>2, <1>5, <1>6 DEF Fresh
<1>8. /\ \A c : c # d => Holders(n, c) = Holders(m, c)
      /\ Holders(n, d) = Holders(m, d) \ {s} /\ s \in Holders(m, d)
  BY <1>1, <1>2, <1>3 DEF Holders
<1>9. \A c : Kids(n, c) = Kids(m, c) /\ (Removed(n, c) <=> Removed(m, c))
  BY <1>2 DEF Kids, Removed, Parks
<1>10. \A t \in Slot : m.phase[t] = "removing" => m.cur[t] # d
  BY <1>2, <1>8 DEF Sound, RemovedAlone
<1>11. Typed(n)
  BY <1>2, <1>3 DEF Sound, Typed, Parks
<1>12. ScannedOnce(n)
  <2>1. \A t, u \in Slot : Scans(n, t) /\ Scans(n, u) /\ n.cur[t] = n.cur[u] => t = u
    BY <1>2, <1>3 DEF Sound, ScannedOnce
  <2>2. \A t \in Slot : Scans(n, t) => ~Waits(n, n.cur[t])
    BY <1>1, <1>2, <1>3, <1>6 DEF Sound, ScannedOnce
  <2>3. \A c \in n.queued : ~Published(n, c)
    BY <1>1, <1>4, <1>5 DEF Sound, ScannedOnce, Parks, Waits
  <2> QED
    BY <2>1, <2>2, <2>3 DEF ScannedOnce
<1>13. AllLive(n)
  BY <1>2, <1>3, <1>5, <1>6 DEF Sound, AllLive, Parks
<1>14. AheadIsNew(n)
  BY <1>2 DEF Sound, AheadIsNew, Parks
<1>15. FreshIsNew(n) /\ UnseededIsNew(n)
  BY <1>7 DEF Sound, FreshIsNew, UnseededIsNew, Parks
<1>16. RemovedAlone(n)
  BY <1>2, <1>6, <1>8, <1>9, <1>10 DEF Sound, RemovedAlone
<1>17. Exact(n)
  <2> SUFFICES ASSUME NEW c \in Dir, n.node[c] = "live", ~Removed(n, c)
               PROVE  Counted(n, c)
    BY DEF Exact
  <2>1. Counted(m, c) /\ n.remaining[c] = m.remaining[c]
    BY <1>9 DEF Sound, Exact, Parks
  <2>2. CASE c # d
    BY <2>1, <2>2, <1>6, <1>8, <1>9, SameCount
  <2>3. CASE c = d
    <3>1. Cardinality(Holders(n, d)) = Cardinality(Holders(m, d)) - 1
      BY <1>8, ReferencesAreFinite, FS_RemoveElement
    <3> QED
      BY <2>1, <2>3, <3>1, <1>5, <1>6, <1>9, ReferencesAreFinite DEF Counted
  <2> QED
    BY <2>2, <2>3
<1> QED
  BY <1>11, <1>12, <1>13, <1>14, <1>15, <1>16, <1>17 DEF Sound

\* A worker is in another phase, with the same node.
Turns(m, n, s, phase) ==
    /\ n \in View0
    /\ n.node = m.node /\ n.queued = m.queued /\ n.unseeded = m.unseeded
    /\ n.cur = m.cur /\ n.todo = m.todo /\ n.entry = m.entry
    /\ n.phase = [m.phase EXCEPT ![s] = phase]

\* Its scan is over: the reference is to be dropped.
Closes(m, n, s) ==
    /\ m.phase[s] = "scanning" /\ m.todo[s] = {} /\ Turns(m, n, s, "unref")
    /\ n.remaining = m.remaining

\* It drops a reference that is not the last.
Drops(m, n, s) ==
    /\ m.phase[s] = "unref" /\ m.remaining[m.cur[s]] # 1 /\ Turns(m, n, s, "finish")
    /\ n.remaining = [m.remaining EXCEPT ![m.cur[s]] = @ - 1]

\* It drops the last, or removes what it could not open.
Claims(m, n, s) ==
    /\ \/ m.phase[s] = "unopened"
       \/ m.phase[s] = "unref" /\ m.remaining[m.cur[s]] = 1
    /\ Turns(m, n, s, "removing")
    /\ \A c \in Dir \ {m.cur[s]} : n.remaining[c] = m.remaining[c]

\* The reference stays, whatever it is for.
LEMMA ClosesIsSound ==
    ASSUME NEW m, NEW n, Sound(m), NEW s \in Slot, Closes(m, n, s)
    PROVE  Sound(n)
<1>1. /\ n.phase[s] = "unref" /\ m.phase[s] = "scanning" /\ n.cur = m.cur
      /\ \A t \in Slot \ {s} : n.phase[t] = m.phase[t]
  BY DEF Closes, Turns, Sound, Typed, View0
<1>2. /\ \A t \in Slot : Works(n, t) <=> Works(m, t)
      /\ \A t \in Slot : Scans(n, t) => Scans(m, t)
  BY <1>1 DEF Works, Scans
<1>3. \A c : /\ Published(n, c) <=> Published(m, c)
             /\ Waits(n, c) <=> Waits(m, c)
  BY <1>1 DEF Published, Waits, Closes, Turns
<1>4. \A c : /\ Fresh(n, c) => Fresh(m, c)
             /\ Holders(n, c) = Holders(m, c) /\ Kids(n, c) = Kids(m, c)
             /\ Removed(n, c) <=> Removed(m, c)
  BY <1>1, <1>2, <1>3 DEF Fresh, Holders, Kids, Removed, Closes, Turns
<1>5. Typed(n)
  BY <1>1, <1>2 DEF Sound, Typed, Closes, Turns
<1>6. ScannedOnce(n)
  BY <1>2, <1>3 DEF Sound, ScannedOnce, Closes, Turns
<1>7. AllLive(n)
  BY <1>2, <1>3 DEF Sound, AllLive, Closes, Turns
<1>8. AheadIsNew(n)
  BY <1>1 DEF Sound, AheadIsNew, Closes, Turns
<1>9. FreshIsNew(n) /\ UnseededIsNew(n)
  BY <1>4 DEF Sound, FreshIsNew, UnseededIsNew, Closes, Turns
<1>10. RemovedAlone(n)
  BY <1>1, <1>3, <1>4 DEF Sound, RemovedAlone
<1>11. Exact(n)
  <2> SUFFICES ASSUME NEW c \in Dir, n.node[c] = "live", ~Removed(n, c)
               PROVE  Counted(n, c)
    BY DEF Exact
  <2>1. Counted(m, c) /\ n.remaining[c] = m.remaining[c]
    BY <1>4 DEF Sound, Exact, Closes, Turns
  <2> QED
    BY <2>1, <1>3, <1>4, SameCount
<1> QED
  BY <1>5, <1>6, <1>7, <1>8, <1>9, <1>10, <1>11 DEF Sound

\* One reference less, and one holder.
LEMMA DropsIsSound ==
    ASSUME NEW m, NEW n, Sound(m), NEW s \in Slot, Drops(m, n, s)
    PROVE  Sound(n)
<1>1. PICK d : d = m.cur[s]
  OBVIOUS
<1>2. /\ n.phase[s] = "finish" /\ m.phase[s] = "unref" /\ n.cur = m.cur
      /\ \A t \in Slot \ {s} : n.phase[t] = m.phase[t]
  BY DEF Drops, Turns, Sound, Typed, View0
<1>3. /\ \A t \in Slot \ {s} : Works(n, t) <=> Works(m, t)
      /\ \A t \in Slot : Scans(n, t) <=> Scans(m, t)
      /\ ~Works(n, s) /\ Works(m, s)
  BY <1>2 DEF Works, Scans
<1>4. \A c : /\ Published(n, c) <=> Published(m, c)
             /\ Waits(n, c) <=> Waits(m, c)
  BY <1>2 DEF Published, Waits, Drops, Turns
<1>5. \A c : /\ Fresh(n, c) => Fresh(m, c)
             /\ Kids(n, c) = Kids(m, c)
             /\ Removed(n, c) <=> Removed(m, c)
  BY <1>2, <1>4 DEF Fresh, Kids, Removed, Drops, Turns
<1>6. /\ \A c : c # d => Holders(n, c) = Holders(m, c)
      /\ Holders(n, d) = Holders(m, d) \ {s} /\ s \in Holders(m, d)
  BY <1>1, <1>2, <1>3 DEF Holders
<1>7. /\ d \in Dir /\ n.remaining[d] = m.remaining[d] - 1 /\ m.remaining[d] \in Int
      /\ \A c \in Dir \ {d} : n.remaining[c] = m.remaining[c]
  BY <1>1, <1>3 DEF Sound, Typed, View0, Drops
<1>8. ~Fresh(m, d) /\ \A t \in Slot : m.phase[t] = "removing" => m.cur[t] # d
  BY <1>1, <1>2, <1>6, <1>7 DEF Sound, FreshIsNew, RemovedAlone, Drops
<1>9. Typed(n)
  BY <1>2, <1>3 DEF Sound, Typed, Drops, Turns
<1>10. ScannedOnce(n)
  BY <1>3, <1>4 DEF Sound, ScannedOnce, Drops, Turns
<1>11. AllLive(n)
  BY <1>2, <1>3, <1>4 DEF Sound, AllLive, Drops, Turns
<1>12. AheadIsNew(n)
  BY <1>2 DEF Sound, AheadIsNew, Drops, Turns
<1>13. FreshIsNew(n) /\ UnseededIsNew(n)
  BY <1>5, <1>7, <1>8 DEF Sound, FreshIsNew, UnseededIsNew, Drops, Turns
<1>14. RemovedAlone(n)
  BY <1>2, <1>4, <1>5, <1>6, <1>8 DEF Sound, RemovedAlone
<1>15. Exact(n)
  <2> SUFFICES ASSUME NEW c \in Dir, n.node[c] = "live", ~Removed(n, c)
               PROVE  Counted(n, c)
    BY DEF Exact
  <2>1. Counted(m, c)
    BY <1>5 DEF Sound, Exact, Drops, Turns
  <2>2. CASE c # d
    BY <2>1, <2>2, <1>4, <1>5, <1>6, <1>7, SameCount
  <2>3. CASE c = d
    <3>1. Cardinality(Holders(n, d)) = Cardinality(Holders(m, d)) - 1
      BY <1>6, ReferencesAreFinite, FS_RemoveElement
    <3> QED
      BY <2>1, <2>3, <3>1, <1>4, <1>5, <1>7, ReferencesAreFinite DEF Counted
  <2> QED
    BY <2>2, <2>3
<1> QED
  BY <1>9, <1>10, <1>11, <1>12, <1>13, <1>14, <1>15 DEF Sound

\* Whoever has the last reference is alone.
LEMMA ClaimsIsSound ==
    ASSUME NEW m, NEW n, Sound(m), NEW s \in Slot, Claims(m, n, s)
    PROVE  Sound(n)
<1>1. PICK d : d = m.cur[s]
  OBVIOUS
<1>2. /\ n.phase[s] = "removing" /\ m.phase[s] \in {"unopened", "unref"} /\ n.cur = m.cur
      /\ \A t \in Slot \ {s} : n.phase[t] = m.phase[t]
  BY DEF Claims, Turns, Sound, Typed, View0
<1>3. /\ \A t \in Slot : Works(n, t) <=> Works(m, t)
      /\ \A t \in Slot \ {s} : Scans(n, t) <=> Scans(m, t)
      /\ ~Scans(n, s) /\ Works(m, s)
  BY <1>2 DEF Works, Scans
<1>4. \A c : /\ Published(n, c) <=> Published(m, c)
             /\ Waits(n, c) <=> Waits(m, c)
  BY <1>2 DEF Published, Waits, Claims, Turns
<1>5. \A c : /\ Fresh(n, c) => Fresh(m, c)
             /\ Holders(n, c) = Holders(m, c) /\ Kids(n, c) = Kids(m, c)
  BY <1>2, <1>3, <1>4 DEF Fresh, Holders, Kids, Claims, Turns
<1>6. \A c : Removed(n, c) <=> Removed(m, c) \/ c = d
  BY <1>1, <1>2 DEF Removed
<1>7. d \in Dir
  BY <1>1, <1>3 DEF Sound, Typed
<1>8. m.remaining[d] = 1
  <2>1. CASE m.phase[s] = "unopened"
    BY <2>1, <1>1, <1>7 DEF Fresh, Sound, FreshIsNew
  <2>2. CASE m.phase[s] # "unopened"
    BY <2>2, <1>1 DEF Claims
  <2> QED
    BY <2>1, <2>2
<1>9. ~Waits(m, d) /\ Kids(m, d) = {} /\ Holders(m, d) = {s}
  BY <1>1, <1>2, <1>3, <1>8, LastReference
<1>10. ~Fresh(n, d)
  <2>1. \A t \in Slot : n.phase[t] = "unopened" => n.cur[t] # d
    BY <1>2, <1>9 DEF Holders, Works
  <2> QED
    BY <2>1, <1>4, <1>9 DEF Fresh
<1>11. Typed(n)
  BY <1>2, <1>3 DEF Sound, Typed, Claims, Turns
<1>12. ScannedOnce(n)
  <2>1. \A t, u \in Slot : Scans(n, t) /\ Scans(n, u) /\ n.cur[t] = n.cur[u] => t = u
    BY <1>2, <1>3 DEF Sound, ScannedOnce
  <2>2. \A t \in Slot : Scans(n, t) => ~Waits(n, n.cur[t])
    BY <1>2, <1>3, <1>4 DEF Sound, ScannedOnce
  <2>3. \A c \in n.queued : ~Published(n, c)
    BY <1>4 DEF Sound, ScannedOnce, Claims, Turns
  <2> QED
    BY <2>1, <2>2, <2>3 DEF ScannedOnce
<1>13. AllLive(n)
  BY <1>2, <1>3, <1>4 DEF Sound, AllLive, Claims, Turns
<1>14. AheadIsNew(n)
  BY <1>2 DEF Sound, AheadIsNew, Claims, Turns
<1>15. FreshIsNew(n) /\ UnseededIsNew(n)
  BY <1>1, <1>5, <1>10 DEF Sound, FreshIsNew, UnseededIsNew, Claims, Turns
<1>16. RemovedAlone(n)
  BY <1>1, <1>2, <1>4, <1>5, <1>9 DEF Sound, RemovedAlone
<1>17. Exact(n)
  <2> SUFFICES ASSUME NEW c \in Dir, n.node[c] = "live", ~Removed(n, c)
               PROVE  Counted(n, c)
    BY DEF Exact
  <2>1. Counted(m, c) /\ n.remaining[c] = m.remaining[c]
    BY <1>1, <1>6 DEF Sound, Exact, Claims, Turns
  <2> QED
    BY <2>1, <1>4, <1>5, SameCount
<1> QED
  BY <1>11, <1>12, <1>13, <1>14, <1>15, <1>16, <1>17 DEF Sound

\* A worker gives the child it has met a node, and counts it on the parent.
Counts(m, n, s, d, e) ==
    /\ n \in View0 /\ m.phase[s] = "meeting" /\ d = m.cur[s] /\ e = m.entry[s]
    /\ n.queued = m.queued /\ n.unseeded = m.unseeded
    /\ n.cur = m.cur /\ n.todo = m.todo /\ n.entry = m.entry
    /\ n.phase = [m.phase EXCEPT ![s] = "publishing"]
    /\ n.node = [m.node EXCEPT ![e] = "live"]
    /\ n.remaining = [m.remaining EXCEPT ![e] = 1, ![d] = @ + 1]

\* The child has the reference of its scan, the parent one kid more.
LEMMA CountsIsSound ==
    ASSUME NEW m, NEW n, Sound(m), NEW s \in Slot, NEW d, NEW e, Counts(m, n, s, d, e)
    PROVE  Sound(n)
<1>1. /\ n.phase[s] = "publishing" /\ m.phase[s] = "meeting" /\ n.cur = m.cur
      /\ n.entry = m.entry /\ \A t \in Slot \ {s} : n.phase[t] = m.phase[t]
  BY DEF Counts, Sound, Typed, View0
<1>2. \A t \in Slot : (Works(n, t) <=> Works(m, t)) /\ (Scans(n, t) <=> Scans(m, t))
  BY <1>1 DEF Works, Scans
<1>3. /\ d \in Dir /\ e \in Dir /\ Parent[e] = d /\ m.node[d] = "live"
      /\ m.node[e] = "none" /\ e \notin m.todo[s] /\ Works(m, s) /\ Scans(m, s)
  BY <1>1 DEF Sound, Typed, AllLive, AheadIsNew, Works, Scans, Counts
<1>4. d # e /\ d # None
  BY <1>3, TreeAssumption DEF Object
<1>5. /\ n.node[e] = "live" /\ \A c \in Dir \ {e} : n.node[c] = m.node[c]
      /\ n.remaining[e] = 1 /\ n.remaining[d] = m.remaining[d] + 1
      /\ \A c \in Dir \ {d, e} : n.remaining[c] = m.remaining[c]
  BY <1>3, <1>4 DEF Counts, Sound, Typed, View0
<1>6. ~Waits(m, e) /\ ~Published(m, e) /\ \A t \in Slot : Works(m, t) => m.cur[t] # e
  BY <1>3 DEF Sound, AllLive, Waits
<1>7. \A c : Published(n, c) <=> Published(m, c) \/ c = e
  BY <1>1 DEF Published, Counts
<1>8. \A c : Waits(n, c) <=> Waits(m, c) \/ c = e
  BY <1>7 DEF Waits, Counts
<1>9. /\ \A c : Fresh(n, c) <=> Fresh(m, c) \/ c = e
      /\ \A c : Removed(n, c) <=> Removed(m, c)
      /\ \A c : Holders(n, c) = Holders(m, c)
  BY <1>1, <1>2, <1>8 DEF Fresh, Removed, Holders
<1>10. \A c \in Dir : Parent[c] = e => m.node[c] = "none"
  BY <1>3, <1>4, TreeAssumption DEF Sound, AllLive, Object
<1>11. /\ Kids(m, e) = {} /\ Holders(m, e) = {} /\ Kids(n, d) = Kids(m, d) \cup {e}
       /\ e \notin Kids(m, d) /\ \A c : c # d => Kids(n, c) = Kids(m, c)
  <2>1. Kids(m, e) = {}
    BY <1>10 DEF Kids
  <2>2. Holders(m, e) = {}
    BY <1>6 DEF Holders
  <2>3. Kids(n, d) = Kids(m, d) \cup {e} /\ e \notin Kids(m, d)
    BY <1>3, <1>5 DEF Kids
  <2>4. \A c : c # d => Kids(n, c) = Kids(m, c)
    BY <1>3, <1>5 DEF Kids
  <2> QED
    BY <2>1, <2>2, <2>3, <2>4
<1>12. ~Fresh(m, d)
  BY <1>1, <1>3 DEF Fresh, Sound, ScannedOnce, Scans, Counts
<1>13. \A t \in Slot : m.phase[t] = "removing" => m.cur[t] \notin {d, e}
  <2>1. \A t \in Slot : m.phase[t] = "removing" => m.cur[t] # d
    BY <1>1, <1>3 DEF Sound, RemovedAlone, Holders, Counts
  <2>2. \A t \in Slot : m.phase[t] = "removing" => m.cur[t] # e
    BY <1>6 DEF Works
  <2> QED
    BY <2>1, <2>2
<1>14. \A t \in Slot \ {s} : Scans(m, t) => m.cur[t] # d
  BY <1>3 DEF Sound, ScannedOnce, Counts
<1>15. Typed(n)
  BY <1>1, <1>2, <1>3 DEF Sound, Typed, Counts
<1>16. ScannedOnce(n)
  <2>1. \A t, u \in Slot : Scans(n, t) /\ Scans(n, u) /\ n.cur[t] = n.cur[u] => t = u
    BY <1>1, <1>2 DEF Sound, ScannedOnce
  <2>2. \A t \in Slot : Scans(n, t) => ~Waits(n, n.cur[t])
    BY <1>1, <1>2, <1>6, <1>8 DEF Sound, ScannedOnce, Scans, Works
  <2>3. \A c \in n.queued : ~Published(n, c)
    BY <1>6, <1>7 DEF Sound, ScannedOnce, Counts, Waits
  <2> QED
    BY <2>1, <2>2, <2>3 DEF ScannedOnce
<1>17. AllLive(n)
  <2>1. \A c \in Dir : Waits(n, c) => n.node[c] = "live"
    BY <1>5, <1>8 DEF Sound, AllLive
  <2>2. \A t \in Slot : Works(n, t) => n.node[n.cur[t]] = "live"
    BY <1>1, <1>2, <1>5, <1>6 DEF Sound, AllLive, Typed
  <2>3. ASSUME NEW c \in Dir, Parent[c] # None
        PROVE  /\ n.node[c] = "live" => n.node[Parent[c]] = "live"
               /\ n.node[c] # "none" => n.node[Parent[c]] # "none"
    <3>1. Parent[c] \in Dir
      BY <2>3, ParentAssumption DEF Object
    <3>2. /\ m.node[c] = "live" => m.node[Parent[c]] = "live"
          /\ m.node[c] # "none" => m.node[Parent[c]] # "none"
      BY <2>3 DEF Sound, AllLive
    <3>3. CASE c = e
      BY <3>3, <1>3, <1>4, <1>5
    <3>4. CASE c # e
      BY <3>1, <3>2, <3>4, <1>3, <1>5
    <3> QED
      BY <3>3, <3>4
  <2> QED
    BY <2>1, <2>2, <2>3 DEF AllLive
<1>18. AheadIsNew(n)
  <2> SUFFICES ASSUME NEW t \in Slot
               PROVE  /\ ~(n.phase[t] \in {"scanning", "meeting", "publishing"}) =>
                            n.todo[t] = {}
                      /\ \A c \in n.todo[t] \cap Dir :
                            Parent[c] = n.cur[t] /\ n.node[c] = "none"
                      /\ n.phase[t] = "meeting" =>
                            n.node[n.entry[t]] = "none" /\ n.entry[t] \notin n.todo[t]
    BY DEF AheadIsNew
  <2>1. /\ ~(m.phase[t] \in {"scanning", "meeting", "publishing"}) => m.todo[t] = {}
        /\ \A c \in m.todo[t] \cap Dir : Parent[c] = m.cur[t] /\ m.node[c] = "none"
        /\ m.phase[t] = "meeting" =>
              m.node[m.entry[t]] = "none" /\ m.entry[t] \notin m.todo[t]
    BY DEF Sound, AheadIsNew
  <2>2. n.todo = m.todo
    BY DEF Counts
  <2>3. CASE t = s
    BY <2>1, <2>2, <2>3, <1>1, <1>3, <1>5
  <2>4. CASE t # s
    <3>1. m.todo[t] # {} => m.cur[t] # d
      BY <2>1, <2>4, <1>14 DEF Scans
    <3>2. e \notin m.todo[t]
      BY <2>1, <3>1, <1>3
    <3>3. m.phase[t] = "meeting" =>
             m.entry[t] \in Dir /\ Parent[m.entry[t]] = m.cur[t] /\ m.cur[t] # d
      BY <2>4, <1>14 DEF Sound, Typed, Scans
    <3>4. m.phase[t] = "meeting" => m.entry[t] \in Dir \ {e}
      BY <3>3, <1>3
    <3> QED
      BY <2>1, <2>2, <2>4, <3>2, <3>4, <1>1, <1>5
  <2> QED
    BY <2>3, <2>4
<1>19. FreshIsNew(n)
  <2> SUFFICES ASSUME NEW c \in Dir, Fresh(n, c)
               PROVE  /\ n.remaining[c] = 1
                      /\ \A x \in Dir : Parent[x] = c => n.node[x] = "none"
    BY DEF FreshIsNew
  <2>1. CASE c = e
    BY <2>1, <1>3, <1>4, <1>5, <1>10
  <2>2. CASE c # e
    <3>1. Fresh(m, c) /\ c # d
      BY <2>2, <1>9, <1>12
    <3> QED
      BY <2>2, <3>1, <1>3, <1>5 DEF Sound, FreshIsNew
  <2> QED
    BY <2>1, <2>2
<1>20. UnseededIsNew(n)
  BY <1>3, <1>4, <1>5 DEF Sound, UnseededIsNew, Typed, Counts, View0
<1>21. RemovedAlone(n)
  BY <1>1, <1>8, <1>9, <1>11, <1>13 DEF Sound, RemovedAlone
<1>22. Exact(n)
  <2> SUFFICES ASSUME NEW c \in Dir, n.node[c] = "live", ~Removed(n, c)
               PROVE  Counted(n, c)
    BY DEF Exact
  <2>1. c # e => Counted(m, c)
    BY <1>5, <1>9 DEF Sound, Exact
  <2>2. CASE c \notin {d, e}
    <3>1. /\ Holders(n, c) = Holders(m, c) /\ Kids(n, c) = Kids(m, c)
          /\ Waits(n, c) <=> Waits(m, c)
          /\ n.remaining[c] = m.remaining[c] /\ Counted(m, c)
      BY <2>1, <2>2, <1>5, <1>8, <1>9, <1>11
    <3> QED
      BY <3>1, SameCount
  <2>3. CASE c = d
    <3>1. Cardinality(Kids(n, d)) = Cardinality(Kids(m, d)) + 1
      BY <1>11, ReferencesAreFinite, FS_AddElement
    <3>2. Counted(m, d) /\ (Waits(n, d) <=> Waits(m, d)) /\ Holders(n, d) = Holders(m, d)
      BY <2>1, <2>3, <1>4, <1>8, <1>9
    <3> QED
      BY <2>3, <3>1, <3>2, <1>5, ReferencesAreFinite DEF Counted
  <2>4. CASE c = e
    <3>1. Waits(n, e) /\ Holders(n, e) = {} /\ Kids(n, e) = {} /\ n.remaining[e] = 1
      BY <1>4, <1>5, <1>8, <1>9, <1>11
    <3> QED
      BY <2>4, <3>1, FS_EmptySet DEF Counted
  <2> QED
    BY <2>2, <2>3, <2>4
<1> QED
  BY <1>15, <1>16, <1>17, <1>18, <1>19, <1>20, <1>21, <1>22 DEF Sound

\* A worker queues the child.
Publishes(m, n, s, e) ==
    /\ n \in View0 /\ m.phase[s] = "publishing" /\ e = m.entry[s]
    /\ n.node = m.node /\ n.remaining = m.remaining /\ n.unseeded = m.unseeded
    /\ n.cur = m.cur /\ n.todo = m.todo /\ n.queued = m.queued \cup {e}
    /\ n.phase = [m.phase EXCEPT ![s] = "scanning"]
    /\ \A t \in Slot \ {s} : n.entry[t] = m.entry[t]

\* The queue has the reference then.
LEMMA PublishesIsSound ==
    ASSUME NEW m, NEW n, Sound(m), NEW s \in Slot, NEW e, Publishes(m, n, s, e)
    PROVE  Sound(n)
<1>1. /\ n.phase[s] = "scanning" /\ m.phase[s] = "publishing" /\ n.cur = m.cur
      /\ \A t \in Slot \ {s} : n.phase[t] = m.phase[t] /\ n.entry[t] = m.entry[t]
  BY DEF Publishes, Sound, Typed, View0
<1>2. \A t \in Slot : (Works(n, t) <=> Works(m, t)) /\ (Scans(n, t) <=> Scans(m, t))
  BY <1>1 DEF Works, Scans
<1>3. Published(m, e) /\ \A t \in Slot \ {s} : m.phase[t] = "publishing" => m.entry[t] # e
  BY <1>1 DEF Published, Sound, Typed, ScannedOnce, Scans, Publishes
<1>4. \A c : Published(n, c) <=> Published(m, c) /\ c # e
  BY <1>1, <1>3 DEF Published, Publishes
<1>5. \A c : Waits(n, c) <=> Waits(m, c)
  BY <1>3, <1>4 DEF Waits, Publishes
<1>6. \A c : /\ Fresh(n, c) <=> Fresh(m, c)
             /\ Holders(n, c) = Holders(m, c) /\ Kids(n, c) = Kids(m, c)
             /\ Removed(n, c) <=> Removed(m, c)
  BY <1>1, <1>2, <1>5 DEF Fresh, Holders, Kids, Removed, Publishes
<1>7. Typed(n)
  BY <1>1, <1>2 DEF Sound, Typed, Publishes
<1>8. ScannedOnce(n)
  <2>1. \A t, u \in Slot : Scans(n, t) /\ Scans(n, u) /\ n.cur[t] = n.cur[u] => t = u
    BY <1>1, <1>2 DEF Sound, ScannedOnce
  <2>2. \A t \in Slot : Scans(n, t) => ~Waits(n, n.cur[t])
    BY <1>1, <1>2, <1>5 DEF Sound, ScannedOnce
  <2>3. \A c \in n.queued : ~Published(n, c)
    BY <1>4 DEF Sound, ScannedOnce, Publishes
  <2> QED
    BY <2>1, <2>2, <2>3 DEF ScannedOnce
<1>9. AllLive(n)
  BY <1>1, <1>2, <1>5 DEF Sound, AllLive, Publishes
<1>10. AheadIsNew(n)
  BY <1>1 DEF Sound, AheadIsNew, Publishes
<1>11. FreshIsNew(n) /\ UnseededIsNew(n)
  BY <1>6 DEF Sound, FreshIsNew, UnseededIsNew, Publishes
<1>12. RemovedAlone(n)
  BY <1>1, <1>5, <1>6 DEF Sound, RemovedAlone
<1>13. Exact(n)
  <2> SUFFICES ASSUME NEW c \in Dir, n.node[c] = "live", ~Removed(n, c)
               PROVE  Counted(n, c)
    BY DEF Exact
  <2>1. Counted(m, c) /\ n.remaining[c] = m.remaining[c]
    BY <1>6 DEF Sound, Exact, Publishes
  <2> QED
    BY <2>1, <1>5, <1>6, SameCount
<1> QED
  BY <1>7, <1>8, <1>9, <1>10, <1>11, <1>12, <1>13 DEF Sound

\* Whoever has removed a node deletes it, and goes on to drop the reference the
\* node was to its parent.
Deletes(m, n, s, d) ==
    /\ n \in View0 /\ m.phase[s] = "removing" /\ d = m.cur[s]
    /\ n.remaining = m.remaining /\ n.queued = m.queued /\ n.unseeded = m.unseeded
    /\ n.todo = m.todo /\ n.entry = m.entry
    /\ n.node = [m.node EXCEPT ![d] = "deleted"]
    /\ n.cur = [m.cur EXCEPT ![s] = Parent[d]]
    /\ n.phase = [m.phase EXCEPT ![s] = IF Parent[d] = None THEN "finish" ELSE "unref"]

\* The parent has one kid less and one holder more.
LEMMA DeletesIsSound ==
    ASSUME NEW m, NEW n, Sound(m), NEW s \in Slot, NEW d, Deletes(m, n, s, d)
    PROVE  Sound(n)
<1>1. /\ n.phase[s] = IF Parent[d] = None THEN "finish" ELSE "unref"
      /\ m.phase[s] = "removing" /\ m.cur[s] = d /\ n.cur[s] = Parent[d]
      /\ \A t \in Slot \ {s} : n.phase[t] = m.phase[t] /\ n.cur[t] = m.cur[t]
  BY DEF Deletes, Sound, Typed, View0
<1>2. /\ \A t \in Slot \ {s} : Works(n, t) <=> Works(m, t)
      /\ \A t \in Slot : Scans(n, t) <=> Scans(m, t)
      /\ Works(m, s) /\ ~Scans(n, s) /\ (Works(n, s) <=> Parent[d] # None)
  BY <1>1 DEF Works, Scans
<1>3. /\ d \in Dir /\ m.node[d] = "live" /\ ~Waits(m, d) /\ Kids(m, d) = {}
      /\ Holders(m, d) = {s}
  BY <1>1, <1>2 DEF Sound, Typed, AllLive, RemovedAlone
<1>4. Parent[d] \in Dir \cup {None} /\ Parent[d] # d
  BY <1>3, ParentAssumption DEF Kids, Object
<1>5. n.node[d] = "deleted" /\ \A c \in Dir \ {d} : n.node[c] = m.node[c]
  BY <1>3 DEF Deletes, Sound, Typed, View0
<1>6. \A c : Published(n, c) <=> Published(m, c)
  BY <1>1 DEF Published, Deletes
<1>7. \A c : Waits(n, c) <=> Waits(m, c)
  BY <1>6 DEF Waits, Deletes
<1>8. \A c : Fresh(n, c) <=> Fresh(m, c)
  BY <1>1, <1>7 DEF Fresh
<1>9. \A t \in Slot \ {s} : Works(m, t) => m.cur[t] # d
  BY <1>3 DEF Holders
<1>10. /\ \A c : c \notin {d, Parent[d]} => Holders(n, c) = Holders(m, c)
       /\ Parent[d] # None => Holders(n, Parent[d]) = Holders(m, Parent[d]) \cup {s}
       /\ s \notin Holders(m, Parent[d])
  BY <1>1, <1>2, <1>4 DEF Holders
<1>11. /\ \A c : c # Parent[d] => Kids(n, c) = Kids(m, c)
       /\ Kids(n, Parent[d]) = Kids(m, Parent[d]) \ {d} /\ d \in Kids(m, Parent[d])
  BY <1>3, <1>5 DEF Kids
<1>12. \A c : Removed(n, c) <=> Removed(m, c) /\ c # d
  BY <1>1, <1>4, <1>9 DEF Removed, Works
<1>13. \A t \in Slot \ {s} : m.phase[t] = "removing" => m.cur[t] \notin {d, Parent[d]}
  BY <1>9, <1>11 DEF Sound, RemovedAlone, Works
<1>14. \A c \in Dir : Parent[c] = d => m.node[c] # "live"
  BY <1>3 DEF Kids
<1>15. Typed(n)
  BY <1>1, <1>2, <1>4 DEF Sound, Typed, Deletes
<1>16. ScannedOnce(n)
  BY <1>1, <1>2, <1>6, <1>7 DEF Sound, ScannedOnce, Deletes
<1>17. AllLive(n)
  <2>1. \A c \in Dir : Waits(n, c) => n.node[c] = "live"
    BY <1>3, <1>5, <1>7 DEF Sound, AllLive
  <2>2. ASSUME NEW t \in Slot, Works(n, t) PROVE n.node[n.cur[t]] = "live"
    <3>1. CASE t = s
      BY <2>2, <3>1, <1>1, <1>2, <1>3, <1>4, <1>5 DEF Sound, AllLive
    <3>2. CASE t # s
      BY <2>2, <3>2, <1>1, <1>2, <1>5, <1>9 DEF Sound, AllLive, Typed
    <3> QED
      BY <3>1, <3>2
  <2>3. ASSUME NEW c \in Dir, Parent[c] # None
        PROVE  /\ n.node[c] = "live" => n.node[Parent[c]] = "live"
               /\ n.node[c] # "none" => n.node[Parent[c]] # "none"
    <3>1. Parent[c] \in Dir
      BY <2>3, ParentAssumption DEF Object
    <3>2. /\ m.node[c] = "live" => m.node[Parent[c]] = "live"
          /\ m.node[c] # "none" => m.node[Parent[c]] # "none"
      BY <2>3 DEF Sound, AllLive
    <3>3. CASE c = d
      BY <3>1, <3>2, <3>3, <1>3, <1>4, <1>5
    <3>4. CASE c # d
      BY <3>1, <3>2, <3>4, <1>5, <1>14
    <3> QED
      BY <3>3, <3>4
  <2> QED
    BY <2>1, <2>2, <2>3 DEF AllLive
<1>18. AheadIsNew(n)
  <2> SUFFICES ASSUME NEW t \in Slot
               PROVE  /\ ~(n.phase[t] \in {"scanning", "meeting", "publishing"}) =>
                            n.todo[t] = {}
                      /\ \A c \in n.todo[t] \cap Dir :
                            Parent[c] = n.cur[t] /\ n.node[c] = "none"
                      /\ n.phase[t] = "meeting" =>
                            n.node[n.entry[t]] = "none" /\ n.entry[t] \notin n.todo[t]
    BY DEF AheadIsNew
  <2>1. /\ ~(m.phase[t] \in {"scanning", "meeting", "publishing"}) => m.todo[t] = {}
        /\ \A c \in m.todo[t] \cap Dir : Parent[c] = m.cur[t] /\ m.node[c] = "none"
        /\ m.phase[t] = "meeting" =>
              m.node[m.entry[t]] = "none" /\ m.entry[t] \notin m.todo[t]
    BY DEF Sound, AheadIsNew
  <2>2. n.todo = m.todo /\ n.entry = m.entry
    BY DEF Deletes
  <2>3. CASE t = s
    BY <2>1, <2>2, <2>3, <1>1
  <2>4. CASE t # s
    <3>1. m.phase[t] = "meeting" => m.entry[t] \in Dir
      BY DEF Sound, Typed
    <3> QED
      BY <2>1, <2>2, <2>4, <3>1, <1>1, <1>3, <1>5
  <2> QED
    BY <2>3, <2>4
<1>19. FreshIsNew(n)
  <2> SUFFICES ASSUME NEW c \in Dir, Fresh(n, c)
               PROVE  /\ n.remaining[c] = 1
                      /\ \A x \in Dir : Parent[x] = c => n.node[x] = "none"
    BY DEF FreshIsNew
  <2>1. m.remaining[c] = 1 /\ \A x \in Dir : Parent[x] = c => m.node[x] = "none"
    BY <1>8 DEF Sound, FreshIsNew
  <2> QED
    BY <2>1, <1>3, <1>5 DEF Deletes
<1>20. UnseededIsNew(n)
  BY <1>3, <1>5 DEF Sound, UnseededIsNew, Typed, Deletes, View0
<1>21. RemovedAlone(n)
  <2> SUFFICES ASSUME NEW t \in Slot, n.phase[t] = "removing"
               PROVE  /\ ~Waits(n, n.cur[t]) /\ Kids(n, n.cur[t]) = {}
                      /\ Holders(n, n.cur[t]) = {t}
    BY DEF RemovedAlone
  <2>1. t # s /\ m.phase[t] = "removing" /\ n.cur[t] = m.cur[t]
    BY <1>1
  <2>2. m.cur[t] \notin {d, Parent[d]}
    BY <2>1, <1>13
  <2> QED
    BY <2>1, <2>2, <1>7, <1>10, <1>11 DEF Sound, RemovedAlone
<1>22. Exact(n)
  <2> SUFFICES ASSUME NEW c \in Dir, n.node[c] = "live", ~Removed(n, c)
               PROVE  Counted(n, c)
    BY DEF Exact
  <2>1. c # d /\ n.remaining[c] = m.remaining[c] /\ Counted(m, c)
    BY <1>5, <1>12 DEF Sound, Exact, Deletes
  <2>2. CASE c # Parent[d]
    <3>1. /\ Holders(n, c) = Holders(m, c) /\ Kids(n, c) = Kids(m, c)
          /\ Waits(n, c) <=> Waits(m, c)
      BY <2>1, <2>2, <1>7, <1>10, <1>11
    <3> QED
      BY <2>1, <3>1, SameCount
  <2>3. CASE c = Parent[d]
    <3>1. c # None
      BY TreeAssumption DEF Object
    <3>2. /\ Holders(n, c) = Holders(m, c) \cup {s} /\ s \notin Holders(m, c)
          /\ Kids(n, c) = Kids(m, c) \ {d} /\ d \in Kids(m, c)
          /\ Waits(n, c) <=> Waits(m, c)
      BY <2>3, <3>1, <1>7, <1>10, <1>11
    <3>3. Cardinality(Holders(n, c)) = Cardinality(Holders(m, c)) + 1
      BY <3>2, ReferencesAreFinite, FS_AddElement
    <3>4. Cardinality(Kids(n, c)) = Cardinality(Kids(m, c)) - 1
      BY <3>2, ReferencesAreFinite, FS_RemoveElement
    <3> QED
      BY <2>1, <3>2, <3>3, <3>4, ReferencesAreFinite DEF Counted
  <2> QED
    BY <2>2, <2>3
<1> QED
  BY <1>15, <1>16, <1>17, <1>18, <1>19, <1>20, <1>21, <1>22 DEF Sound

\* A worker is done with its task.
Finishes(m, n, s) ==
    /\ n \in View0 /\ m.phase[s] = "finish"
    /\ n.node = m.node /\ n.remaining = m.remaining /\ n.queued = m.queued
    /\ n.unseeded = m.unseeded /\ n.todo = m.todo /\ n.entry = m.entry
    /\ n.phase = [m.phase EXCEPT ![s] = "idle"]
    /\ \A t \in Slot \ {s} : n.cur[t] = m.cur[t]

\* It had no reference any more.
LEMMA FinishesIsSound ==
    ASSUME NEW m, NEW n, Sound(m), NEW s \in Slot, Finishes(m, n, s)
    PROVE  Sound(n)
<1>1. /\ n.phase[s] = "idle" /\ m.phase[s] = "finish"
      /\ \A t \in Slot \ {s} : n.phase[t] = m.phase[t] /\ n.cur[t] = m.cur[t]
  BY DEF Finishes, Sound, Typed, View0
<1>2. /\ \A t \in Slot : (Works(n, t) <=> Works(m, t)) /\ (Scans(n, t) <=> Scans(m, t))
      /\ ~Works(m, s) /\ ~Scans(m, s)
  BY <1>1 DEF Works, Scans
<1>3. \A c : /\ Published(n, c) <=> Published(m, c)
             /\ Waits(n, c) <=> Waits(m, c)
  BY <1>1 DEF Published, Waits, Finishes
<1>4. \A c : /\ Fresh(n, c) <=> Fresh(m, c)
             /\ Holders(n, c) = Holders(m, c) /\ Kids(n, c) = Kids(m, c)
             /\ Removed(n, c) <=> Removed(m, c)
  BY <1>1, <1>2, <1>3 DEF Fresh, Holders, Kids, Removed, Finishes
<1>5. Typed(n)
  BY <1>1, <1>2 DEF Sound, Typed, Finishes
<1>6. ScannedOnce(n)
  BY <1>1, <1>2, <1>3 DEF Sound, ScannedOnce, Finishes
<1>7. AllLive(n)
  BY <1>1, <1>2, <1>3 DEF Sound, AllLive, Finishes
<1>8. AheadIsNew(n)
  BY <1>1 DEF Sound, AheadIsNew, Finishes
<1>9. FreshIsNew(n) /\ UnseededIsNew(n)
  BY <1>4 DEF Sound, FreshIsNew, UnseededIsNew, Finishes
<1>10. RemovedAlone(n)
  BY <1>1, <1>3, <1>4 DEF Sound, RemovedAlone
<1>11. Exact(n)
  <2> SUFFICES ASSUME NEW c \in Dir, n.node[c] = "live", ~Removed(n, c)
               PROVE  Counted(n, c)
    BY DEF Exact
  <2>1. Counted(m, c) /\ n.remaining[c] = m.remaining[c]
    BY <1>4 DEF Sound, Exact, Finishes
  <2> QED
    BY <2>1, <1>3, <1>4, SameCount
<1> QED
  BY <1>5, <1>6, <1>7, <1>8, <1>9, <1>10, <1>11 DEF Sound

\* RunRm seeds an operand: it is allocated and queued.
Seeds(m, n, d) ==
    /\ n \in View0 /\ d \in m.unseeded
    /\ n.cur = m.cur /\ n.phase = m.phase /\ n.todo = m.todo /\ n.entry = m.entry
    /\ n.node = [m.node EXCEPT ![d] = "live"]
    /\ n.remaining = [m.remaining EXCEPT ![d] = 1]
    /\ n.queued = m.queued \cup {d} /\ n.unseeded = m.unseeded \ {d}

\* It has the reference of its scan.
LEMMA SeedsIsSound ==
    ASSUME NEW m, NEW n, Sound(m), NEW d, Seeds(m, n, d)
    PROVE  Sound(n)
<1>1. d \in Dir /\ Parent[d] = None /\ m.node[d] = "none"
  BY DEF Seeds, Sound, Typed, View0, UnseededIsNew
<1>2. /\ n.node[d] = "live" /\ \A c \in Dir \ {d} : n.node[c] = m.node[c]
      /\ n.remaining[d] = 1 /\ \A c \in Dir \ {d} : n.remaining[c] = m.remaining[c]
  BY <1>1 DEF Seeds, Sound, Typed, View0
<1>3. \A t \in Slot : (Works(n, t) <=> Works(m, t)) /\ (Scans(n, t) <=> Scans(m, t))
  BY DEF Works, Scans, Seeds
<1>4. ~Waits(m, d) /\ ~Published(m, d) /\ \A t \in Slot : Works(m, t) => m.cur[t] # d
  BY <1>1 DEF Sound, AllLive, Waits
<1>5. \A c : /\ Published(n, c) <=> Published(m, c)
             /\ Waits(n, c) <=> Waits(m, c) \/ c = d
  BY DEF Published, Waits, Seeds
<1>6. \A c : /\ Fresh(n, c) <=> Fresh(m, c) \/ c = d
             /\ Holders(n, c) = Holders(m, c) /\ (Removed(n, c) <=> Removed(m, c))
  BY <1>3, <1>5 DEF Fresh, Holders, Removed, Seeds
<1>7. d # None /\ \A c \in Dir : Parent[c] = d => m.node[c] = "none"
  BY <1>1, TreeAssumption DEF Sound, AllLive, Object
<1>8. \A c \in Dir : Kids(n, c) = Kids(m, c)
  <2>1. ASSUME NEW c \in Dir, NEW x \in Dir PROVE x \in Kids(n, c) <=> x \in Kids(m, c)
    <3>1. c # None
      BY TreeAssumption DEF Object
    <3> QED
      BY <3>1, <1>1, <1>2 DEF Kids
  <2>2. \A c : Kids(n, c) \subseteq Dir /\ Kids(m, c) \subseteq Dir
    BY DEF Kids
  <2> QED
    BY <2>1, <2>2
<1>9. Kids(m, d) = {} /\ Holders(m, d) = {}
  BY <1>4, <1>7 DEF Kids, Holders
<1>10. Typed(n)
  BY <1>3 DEF Sound, Typed, Seeds
<1>11. ScannedOnce(n)
  <2>1. \A t, u \in Slot : Scans(n, t) /\ Scans(n, u) /\ n.cur[t] = n.cur[u] => t = u
    BY <1>3 DEF Sound, ScannedOnce, Seeds
  <2>2. \A t \in Slot : Scans(n, t) => ~Waits(n, n.cur[t])
    BY <1>3, <1>4, <1>5 DEF Sound, ScannedOnce, Scans, Works, Seeds
  <2>3. \A c \in n.queued : ~Published(n, c)
    BY <1>4, <1>5 DEF Sound, ScannedOnce, Seeds
  <2> QED
    BY <2>1, <2>2, <2>3 DEF ScannedOnce
<1>12. AllLive(n)
  <2>1. \A c \in Dir : Waits(n, c) => n.node[c] = "live"
    BY <1>2, <1>5 DEF Sound, AllLive
  <2>2. \A t \in Slot : Works(n, t) => n.node[n.cur[t]] = "live"
    BY <1>2, <1>3, <1>4 DEF Sound, AllLive, Typed, Seeds
  <2>3. ASSUME NEW c \in Dir, Parent[c] # None
        PROVE  /\ n.node[c] = "live" => n.node[Parent[c]] = "live"
               /\ n.node[c] # "none" => n.node[Parent[c]] # "none"
    <3>1. Parent[c] \in Dir /\ c # d
      BY <2>3, <1>1, ParentAssumption DEF Object
    <3>2. /\ m.node[c] = "live" => m.node[Parent[c]] = "live"
          /\ m.node[c] # "none" => m.node[Parent[c]] # "none"
      BY <2>3 DEF Sound, AllLive
    <3> QED
      BY <3>1, <3>2, <1>1, <1>2
  <2> QED
    BY <2>1, <2>2, <2>3 DEF AllLive
<1>13. AheadIsNew(n)
  <2> SUFFICES ASSUME NEW t \in Slot
               PROVE  /\ ~(n.phase[t] \in {"scanning", "meeting", "publishing"}) =>
                            n.todo[t] = {}
                      /\ \A c \in n.todo[t] \cap Dir :
                            Parent[c] = n.cur[t] /\ n.node[c] = "none"
                      /\ n.phase[t] = "meeting" =>
                            n.node[n.entry[t]] = "none" /\ n.entry[t] \notin n.todo[t]
    BY DEF AheadIsNew
  <2>1. /\ ~(m.phase[t] \in {"scanning", "meeting", "publishing"}) => m.todo[t] = {}
        /\ \A c \in m.todo[t] \cap Dir : Parent[c] = m.cur[t] /\ m.node[c] = "none"
        /\ m.phase[t] = "meeting" =>
              m.node[m.entry[t]] = "none" /\ m.entry[t] \notin m.todo[t]
    BY DEF Sound, AheadIsNew
  <2>2. n.todo = m.todo /\ n.entry = m.entry /\ n.phase = m.phase /\ n.cur = m.cur
    BY DEF Seeds
  <2>3. m.phase[t] \in {"scanning", "meeting", "publishing"} => m.cur[t] \in Dir
    BY DEF Sound, Typed, Works
  <2>4. m.phase[t] = "meeting" =>
           m.entry[t] \in Dir /\ Parent[m.entry[t]] = m.cur[t] /\ m.cur[t] \in Dir
    BY <2>3 DEF Sound, Typed
  <2>5. d \notin m.todo[t] /\ (m.phase[t] = "meeting" => m.entry[t] # d)
    BY <2>1, <2>3, <2>4, <1>1, TreeAssumption DEF Object
  <2> QED
    BY <2>1, <2>2, <2>4, <2>5, <1>2
<1>14. FreshIsNew(n)
  <2> SUFFICES ASSUME NEW c \in Dir, Fresh(n, c)
               PROVE  /\ n.remaining[c] = 1
                      /\ \A x \in Dir : Parent[x] = c => n.node[x] = "none"
    BY DEF FreshIsNew
  <2>1. c # None
    BY TreeAssumption DEF Object
  <2>2. CASE c = d
    BY <2>1, <2>2, <1>1, <1>2, <1>7
  <2>3. CASE c # d
    BY <2>1, <2>3, <1>1, <1>2, <1>6 DEF Sound, FreshIsNew
  <2> QED
    BY <2>2, <2>3
<1>15. UnseededIsNew(n)
  BY <1>2 DEF Sound, UnseededIsNew, Typed, Seeds, View0
<1>16. RemovedAlone(n)
  <2> SUFFICES ASSUME NEW t \in Slot, n.phase[t] = "removing"
               PROVE  /\ ~Waits(n, n.cur[t]) /\ Kids(n, n.cur[t]) = {}
                      /\ Holders(n, n.cur[t]) = {t}
    BY DEF RemovedAlone
  <2>1. m.phase[t] = "removing" /\ n.cur[t] = m.cur[t] /\ Works(m, t)
    BY DEF Seeds, Works
  <2>2. m.cur[t] \in Dir /\ m.cur[t] # d
    BY <2>1, <1>4 DEF Sound, Typed
  <2> QED
    BY <2>1, <2>2, <1>5, <1>6, <1>8 DEF Sound, RemovedAlone
<1>17. Exact(n)
  <2> SUFFICES ASSUME NEW c \in Dir, n.node[c] = "live", ~Removed(n, c)
               PROVE  Counted(n, c)
    BY DEF Exact
  <2>1. CASE c # d
    <3>1. Counted(m, c) /\ n.remaining[c] = m.remaining[c]
      BY <2>1, <1>2, <1>6 DEF Sound, Exact
    <3>2. /\ Holders(n, c) = Holders(m, c) /\ Kids(n, c) = Kids(m, c)
          /\ Waits(n, c) <=> Waits(m, c)
      BY <2>1, <1>5, <1>6, <1>8
    <3> QED
      BY <3>1, <3>2, SameCount
  <2>2. CASE c = d
    <3>1. Waits(n, d) /\ Holders(n, d) = {} /\ Kids(n, d) = {} /\ n.remaining[d] = 1
      BY <1>1, <1>2, <1>5, <1>6, <1>8, <1>9
    <3> QED
      BY <2>2, <3>1, FS_EmptySet DEF Counted
  <2> QED
    BY <2>1, <2>2
<1> QED
  BY <1>10, <1>11, <1>12, <1>13, <1>14, <1>15, <1>16, <1>17 DEF Sound

----------------------------------------------------------------------------
(* The tasks in the queues                                                 *)

Queues == [Actor -> [{kRunnable, kAwaitingDescriptor} -> Seq(Dir)]]

At(q, o, p, i, d) ==
    /\ o \in Actor /\ p \in {kRunnable, kAwaitingDescriptor}
    /\ i \in 1 .. Len(q[o][p]) /\ q[o][p][i] = d

Tasks(q) == {d \in Dir : \E o, p, i : At(q, o, p, i, d)}

\* No task is queued twice.
Once(q) ==
    \A o1, p1, i1, o2, p2, i2, d :
        At(q, o1, p1, i1, d) /\ At(q, o2, p2, i2, d) => o1 = o2 /\ p1 = p2 /\ i1 = i2

\* The task at i of the queue is d, and r is the queue without it.
Taken(q, r, o, p, i, d) ==
    /\ r \in Queues /\ At(q, o, p, i, d)
    /\ \A x \in Actor, y \in {kRunnable, kAwaitingDescriptor} :
          <<x, y>> # <<o, p>> => r[x][y] = q[x][y]
    /\ \/ i = Len(q[o][p]) /\ r[o][p] = Front(q[o][p])
       \/ i = 1 /\ r[o][p] = Tail(q[o][p])

\* A task is added to a queue.
Added(q, r, o, p, d) ==
    /\ r \in Queues /\ o \in Actor /\ p \in {kRunnable, kAwaitingDescriptor}
    /\ \A x \in Actor, y \in {kRunnable, kAwaitingDescriptor} :
          <<x, y>> # <<o, p>> => r[x][y] = q[x][y]
    /\ r[o][p] = Append(q[o][p], d)

\* What Append does to the tasks.
LEMMA AddedOnce ==
    ASSUME NEW q \in Queues, NEW r, NEW o, NEW p, NEW d \in Dir, Added(q, r, o, p, d),
           Once(q), d \notin Tasks(q)
    PROVE  Once(r) /\ Tasks(r) = Tasks(q) \cup {d}
<1>1. PICK n \in Nat : n = Len(q[o][p])
  BY LenProperties DEF Added, Queues
<1>2. /\ Len(r[o][p]) = n + 1 /\ r[o][p][n + 1] = d
      /\ \A i \in 1 .. n : r[o][p][i] = q[o][p][i]
  BY <1>1, AppendProperties DEF Added, Queues
<1>3. \A x, y, i, c : At(r, x, y, i, c) <=>
          At(q, x, y, i, c) \/ (x = o /\ y = p /\ i = n + 1 /\ c = d)
  <2> SUFFICES ASSUME NEW x, NEW y, NEW i, NEW c
               PROVE  At(r, x, y, i, c) <=>
                         At(q, x, y, i, c) \/ (x = o /\ y = p /\ i = n + 1 /\ c = d)
    OBVIOUS
  <2>1. CASE ~(x = o /\ y = p)
    <3>1. x \in Actor /\ y \in {kRunnable, kAwaitingDescriptor} => r[x][y] = q[x][y]
      BY <2>1 DEF Added
    <3> QED
      BY <2>1, <3>1 DEF At
  <2>2. CASE x = o /\ y = p
    <3>1. At(r, x, y, i, c) <=> i \in 1 .. n + 1 /\ r[o][p][i] = c
      BY <2>2, <1>2 DEF At, Added
    <3>2. At(q, x, y, i, c) <=> i \in 1 .. n /\ q[o][p][i] = c
      BY <2>2, <1>1 DEF At, Added
    <3>3. i \in 1 .. n + 1 <=> i \in 1 .. n \/ i = n + 1
      OBVIOUS
    <3>4. n + 1 \notin 1 .. n
      OBVIOUS
    <3> QED
      BY <2>2, <3>1, <3>2, <3>3, <3>4, <1>2
  <2> QED
    BY <2>1, <2>2
<1>4. \A x, y, i : ~At(q, x, y, i, d)
  BY DEF Tasks
<1>5. Once(r)
  BY <1>3, <1>4 DEF Once
<1>6. Tasks(r) = Tasks(q) \cup {d}
  BY <1>3 DEF Tasks
<1> QED
  BY <1>5, <1>6

\* What Front and Tail do to them.
LEMMA TakenOnce ==
    ASSUME NEW q \in Queues, NEW r, NEW o, NEW p, NEW k, NEW d, Taken(q, r, o, p, k, d),
           Once(q)
    PROVE  Once(r) /\ Tasks(r) = Tasks(q) \ {d} /\ d \in Tasks(q)
<1>1. PICK n \in Nat : n = Len(q[o][p])
  BY LenProperties DEF Taken, At, Queues
<1>2. q[o][p] \in Seq(Dir) /\ k \in 1 .. n /\ q[o][p][k] = d
  BY <1>1 DEF Taken, At, Queues
<1>3. PICK g \in {0, 1} : \/ g = 0 /\ k = n /\ r[o][p] = Front(q[o][p])
                          \/ g = 1 /\ k = 1 /\ r[o][p] = Tail(q[o][p])
  BY <1>1 DEF Taken
<1>4. Len(r[o][p]) = n - 1 /\ \A i \in 1 .. n - 1 : r[o][p][i] = q[o][p][i + g]
  <2>1. CASE g = 0
    <3>1. r[o][p] = SubSeq(q[o][p], 1, n - 1)
      BY <2>1, <1>1, <1>3 DEF Front
    <3> QED
      BY <2>1, <3>1, <1>1, <1>2, <1>3, SubSeqProperties
  <2>2. CASE g = 1
    <3>1. r[o][p] = Tail(q[o][p]) /\ q[o][p] # <<>>
      BY <2>2, <1>1, <1>2, <1>3, EmptySeq
    <3> QED
      BY <2>2, <3>1, <1>1, <1>2, <1>3, HeadTailProperties
  <2> QED
    BY <2>1, <2>2
<1>5. \A x, y, i, c : At(r, x, y, i, c) =>
          At(q, x, y, IF x = o /\ y = p THEN i + g ELSE i, c) /\ (x = o /\ y = p => i + g # k)
  <2> SUFFICES ASSUME NEW x, NEW y, NEW i, NEW c, At(r, x, y, i, c)
               PROVE  /\ At(q, x, y, IF x = o /\ y = p THEN i + g ELSE i, c)
                      /\ (x = o /\ y = p => i + g # k)
    OBVIOUS
  <2>1. CASE <<x, y>> # <<o, p>>
    BY <2>1 DEF At, Taken
  <2>2. CASE x = o /\ y = p
    <3>1. i \in 1 .. n - 1 /\ q[o][p][i + g] = c
      BY <2>2, <1>4 DEF At
    <3>2. i + g \in 1 .. n /\ i + g # k
      BY <3>1, <1>2, <1>3
    <3> QED
      BY <2>2, <3>1, <3>2, <1>1 DEF At
  <2> QED
    BY <2>1, <2>2
<1>6. \A x, y, i, c : At(q, x, y, i, c) /\ ~(x = o /\ y = p /\ i = k) =>
          At(r, x, y, IF x = o /\ y = p THEN i - g ELSE i, c)
  <2> SUFFICES ASSUME NEW x, NEW y, NEW i, NEW c, At(q, x, y, i, c),
                      ~(x = o /\ y = p /\ i = k)
               PROVE  At(r, x, y, IF x = o /\ y = p THEN i - g ELSE i, c)
    OBVIOUS
  <2>1. CASE <<x, y>> # <<o, p>>
    BY <2>1 DEF At, Taken
  <2>2. CASE x = o /\ y = p
    <3>1. i \in 1 .. n /\ i # k /\ q[o][p][i] = c
      BY <2>2, <1>1 DEF At
    <3>2. i - g \in 1 .. n - 1 /\ (i - g) + g = i
      BY <3>1, <1>2, <1>3
    <3> QED
      BY <2>2, <3>1, <3>2, <1>4 DEF At
  <2> QED
    BY <2>1, <2>2
<1>7. At(q, o, p, k, d)
  BY DEF Taken
<1>8. Once(r)
  <2> SUFFICES ASSUME NEW o1, NEW p1, NEW i1, NEW o2, NEW p2, NEW i2, NEW c,
                      At(r, o1, p1, i1, c), At(r, o2, p2, i2, c)
               PROVE  o1 = o2 /\ p1 = p2 /\ i1 = i2
    BY DEF Once
  <2>1. /\ At(q, o1, p1, IF o1 = o /\ p1 = p THEN i1 + g ELSE i1, c)
        /\ At(q, o2, p2, IF o2 = o /\ p2 = p THEN i2 + g ELSE i2, c)
    BY <1>5
  <2>2. /\ o1 = o2 /\ p1 = p2
        /\ (IF o1 = o /\ p1 = p THEN i1 + g ELSE i1)
              = (IF o2 = o /\ p2 = p THEN i2 + g ELSE i2)
    BY <2>1 DEF Once
  <2>3. i1 \in Int /\ i2 \in Int
    BY DEF At
  <2> QED
    BY <2>2, <2>3
<1>9. \A x, y, i : ~At(r, x, y, i, d)
  <2> SUFFICES ASSUME NEW x, NEW y, NEW i, At(r, x, y, i, d)
               PROVE  FALSE
    OBVIOUS
  <2>1. /\ At(q, x, y, IF x = o /\ y = p THEN i + g ELSE i, d)
        /\ (x = o /\ y = p => i + g # k)
    BY <1>5
  <2> QED
    BY <2>1, <1>7 DEF Once
<1>10. \A c : c # d => ((\E x, y, i : At(r, x, y, i, c)) <=> (\E x, y, i : At(q, x, y, i, c)))
  <2> SUFFICES ASSUME NEW c, c # d
               PROVE  (\E x, y, i : At(r, x, y, i, c)) <=> (\E x, y, i : At(q, x, y, i, c))
    OBVIOUS
  <2>1. ASSUME NEW x, NEW y, NEW i, At(r, x, y, i, c)
        PROVE  \E u, v, j : At(q, u, v, j, c)
    BY <2>1, <1>5
  <2>2. ASSUME NEW x, NEW y, NEW i, At(q, x, y, i, c)
        PROVE  \E u, v, j : At(r, u, v, j, c)
    <3>1. ~(x = o /\ y = p /\ i = k)
      BY <2>2, <1>7 DEF At
    <3> QED
      BY <2>2, <3>1, <1>6
  <2> QED
    BY <2>1, <2>2
<1>11. d \in Dir
  BY <1>1, <1>2
<1>12. Tasks(r) = Tasks(q) \ {d} /\ d \in Tasks(q)
  BY <1>7, <1>9, <1>10, <1>11 DEF Tasks
<1> QED
  BY <1>8, <1>12

\* The tasks in the queues are what the model says is queued.
LEMMA TasksAreQueued ==
    /\ queues \in Queues => Queued = Tasks(queues)
    /\ queues' \in Queues => Queued' = Tasks(queues')
<1>1. ASSUME NEW q \in Queues
      PROVE  UNION {UNION {ToSet(q[o][p]) : p \in {0, 1}} : o \in Actor} = Tasks(q)
  <2>1. ASSUME NEW o \in Actor, NEW p \in {0, 1}, NEW d
        PROVE  d \in ToSet(q[o][p]) <=> \E i : At(q, o, p, i, d)
    <3>1. q[o][p] \in Seq(Dir) /\ p \in {kRunnable, kAwaitingDescriptor}
      BY DEF Queues, kRunnable, kAwaitingDescriptor
    <3>2. DOMAIN q[o][p] = 1 .. Len(q[o][p])
      BY <3>1, LenProperties
    <3>3. d \in ToSet(q[o][p]) <=> \E i \in 1 .. Len(q[o][p]) : q[o][p][i] = d
      BY <3>2 DEF ToSet
    <3> QED
      BY <3>1, <3>3 DEF At
  <2>2. ASSUME NEW o \in Actor, NEW p \in {0, 1}
        PROVE  ToSet(q[o][p]) \subseteq Dir
    BY ElementOfSeq DEF ToSet, Queues, kRunnable, kAwaitingDescriptor
  <2>3. ASSUME NEW d, d \in Tasks(q)
        PROVE  \E o \in Actor, p \in {0, 1} : d \in ToSet(q[o][p])
    <3>1. PICK o, p, i : At(q, o, p, i, d)
      BY <2>3 DEF Tasks
    <3>2. o \in Actor /\ p \in {0, 1}
      BY <3>1 DEF At, kRunnable, kAwaitingDescriptor
    <3> QED
      BY <2>1, <3>1, <3>2
  <2>4. ASSUME NEW o \in Actor, NEW p \in {0, 1}, NEW d \in ToSet(q[o][p])
        PROVE  d \in Tasks(q)
    BY <2>1, <2>2 DEF Tasks
  <2> QED
    BY <2>3, <2>4
<1>2. Queued = UNION {UNION {ToSet(queues[o][p]) : p \in {0, 1}} : o \in Actor}
  BY DEF Queued, QueuedIn
<1>3. Queued' = UNION {UNION {ToSet(queues'[o][p]) : p \in {0, 1}} : o \in Actor}
  BY DEF Queued, QueuedIn
<1> QED
  BY <1>1, <1>2, <1>3

----------------------------------------------------------------------------
(* The invariant                                                           *)

Opens == {"reserve", "call", "refused", "retry", "giveup", "gone"}

Types ==
    /\ node \in [Dir -> {"none", "live", "deleted"}]
    /\ remaining \in [Dir -> Int]
    /\ queues \in Queues
    /\ pc \in [Actor -> Opens \cup {"idle", "scan", "close", "count", "publish", "unref",
                                    "rmdir", "delete", "finish", "next", "seed", "exited"}]
    /\ goal \in [Actor -> {"none", "root", "task", "child", "remove"}]
    /\ cur \in [Actor -> Dir \cup {None}]
    /\ todo \in [Slot -> SUBSET Object]
    /\ entry \in [Slot -> Object \cup {None}]
    /\ operand \in Nat \ {0}

\* What a worker opens for where it is.
WorkerShape(s) ==
    /\ pc[s] \notin {"next", "seed", "exited"}
    /\ goal[s] \in {"none", "task", "child", "remove"}
    /\ pc[s] # "idle" => goal[s] # "none"
    /\ pc[s] \in {"scan", "close"} => goal[s] = "task"
    /\ pc[s] \in {"count", "publish"} => goal[s] = "child"
    /\ pc[s] = "rmdir" => goal[s] = "remove"
    /\ pc[s] \in {"unref", "delete", "finish"} => goal[s] \in {"task", "remove"}
    /\ pc[s] = "close" => todo[s] = {}

\* RunRm opens operands and nothing else.
MainShape ==
    /\ pc[Main] \in Opens \cup {"next", "seed", "exited"}
    /\ pc[Main] \notin {"next", "exited"} =>
          /\ goal[Main] = "root" /\ operand <= Len(Operands)
          /\ cur[Main] = Operands[operand]

Phase(s) ==
    IF pc[s] \in {"idle", "finish", "unref"} THEN pc[s]
    ELSE IF goal[s] = "remove" \/ pc[s] \in {"rmdir", "delete"} THEN "removing"
    ELSE IF pc[s] = "publish" THEN "publishing"
    ELSE IF goal[s] = "child" THEN "meeting"
    ELSE IF pc[s] \in Opens THEN "unopened" ELSE "scanning"

Unseeded == {Operands[i] : i \in operand .. Len(Operands)}

View ==
    [node |-> node, remaining |-> remaining, queued |-> Tasks(queues),
     unseeded |-> Unseeded, phase |-> [s \in Slot |-> Phase(s)],
     cur |-> [s \in Slot |-> cur[s]], todo |-> todo, entry |-> entry]

\* The inductive invariant.
IInv ==
    /\ Types /\ (\A s \in Slot : WorkerShape(s)) /\ MainShape
    /\ Once(queues) /\ Sound(View)

\* Where a worker is depends on its own variables.
LEMMA SlotsAreActors ==
    Main \in Actor /\ \A s \in Slot : s \in Actor /\ s # Main
BY ThreadAssumption DEF Actor

\* Only worker s has moved.
Only(s) ==
    /\ \A a \in Actor \ {s} : pc'[a] = pc[a] /\ goal'[a] = goal[a] /\ cur'[a] = cur[a]
    /\ \A t \in Slot \ {s} : todo'[t] = todo[t] /\ entry'[t] = entry[t]
    /\ operand' = operand

\* What the others are at stays.
LEMMA OthersStay ==
    ASSUME IInv, NEW s \in Slot, Only(s), WorkerShape(s)'
    PROVE  /\ \A t \in Slot : WorkerShape(t)'
           /\ MainShape' /\ Unseeded' = Unseeded
           /\ \A t \in Slot \ {s} : Phase(t)' = Phase(t)
<1>1. \A t \in Slot \ {s} : WorkerShape(t)'
  BY SlotsAreActors DEF IInv, Only, WorkerShape
<1>2. MainShape'
  BY SlotsAreActors DEF IInv, Only, MainShape
<1>3. Unseeded' = Unseeded
  BY DEF Unseeded, Only
<1>4. \A t \in Slot \ {s} : Phase(t)' = Phase(t)
  BY SlotsAreActors DEF Only, Phase
<1> QED
  BY <1>1, <1>2, <1>3, <1>4

\* The view is what it is meant to be.
LEMMA ViewTyped ==
    /\ Types /\ (\A s \in Slot : WorkerShape(s)) => View \in View0
    /\ Types' /\ (\A s \in Slot : WorkerShape(s)') => View' \in View0
<1>1. Types => Unseeded \in SUBSET Dir
  BY TreeAssumption DEF Types, Unseeded
<1>2. Types' => Unseeded' \in SUBSET Dir
  BY TreeAssumption DEF Types, Unseeded
<1>3. \A s \in Slot : Types /\ WorkerShape(s) => Phase(s) \in Phases
  BY SlotsAreActors DEF Types, Phase, Phases, Opens
<1>4. \A s \in Slot : Types' /\ WorkerShape(s)' => Phase(s)' \in Phases
  BY SlotsAreActors DEF Types, Phase, Phases, Opens
<1>5. \A q : Tasks(q) \in SUBSET Dir
  BY DEF Tasks
<1>6. Types => [s \in Slot |-> cur[s]] \in [Slot -> Dir \cup {None}]
  BY SlotsAreActors DEF Types
<1>7. Types' => [s \in Slot |-> cur'[s]] \in [Slot -> Dir \cup {None}]
  BY SlotsAreActors DEF Types
<1>8. Types /\ (\A s \in Slot : WorkerShape(s)) => View \in View0
  BY <1>1, <1>3, <1>5, <1>6 DEF Types, View, View0
<1>9. Types' /\ (\A s \in Slot : WorkerShape(s)') => View' \in View0
  BY <1>2, <1>4, <1>5, <1>7 DEF Types, View, View0
<1> QED
  BY <1>8, <1>9

\* The fields of the view, before a step and after it.
LEMMA Fields ==
    /\ View.node = node /\ View.remaining = remaining /\ View.queued = Tasks(queues)
    /\ View.unseeded = Unseeded /\ View.todo = todo /\ View.entry = entry
    /\ View.phase = [s \in Slot |-> Phase(s)] /\ View.cur = [s \in Slot |-> cur[s]]
BY DEF View

LEMMA NextFields ==
    /\ View'.node = node' /\ View'.remaining = remaining'
    /\ View'.queued = Tasks(queues') /\ View'.unseeded = Unseeded'
    /\ View'.todo = todo' /\ View'.entry = entry'
    /\ View'.phase = [s \in Slot |-> Phase(s)'] /\ View'.cur = [s \in Slot |-> cur'[s]]
BY DEF View

----------------------------------------------------------------------------
(* Steps that are quiet                                                    *)

\* A step of worker s that keeps its phase, its node and the references.
WorkerQuiet(s) ==
    /\ Types' /\ Only(s) /\ WorkerShape(s)'
    /\ UNCHANGED <<node, remaining, queues, entry>>
    /\ Phase(s)' = Phase(s) /\ cur'[s] = cur[s] /\ todo'[s] \subseteq todo[s]

LEMMA WorkerQuietIsSound ==
    ASSUME IInv, NEW s \in Slot, WorkerQuiet(s)
    PROVE  IInv'
<1>1. /\ \A t \in Slot : WorkerShape(t)' /\ Phase(t)' = Phase(t) /\ cur'[t] = cur[t]
      /\ MainShape' /\ Unseeded' = Unseeded
  BY OthersStay, SlotsAreActors DEF WorkerQuiet, Only
<1>2. View' \in View0
  BY <1>1, ViewTyped DEF WorkerQuiet
<1>3. \A t \in Slot : todo'[t] \subseteq todo[t]
  BY DEF WorkerQuiet, Only
<1>4. Quiet(View, View')
  BY <1>1, <1>2, <1>3, Fields, NextFields DEF WorkerQuiet, Quiet
<1>5. Sound(View')
  BY <1>4, QuietIsSound DEF IInv
<1> QED
  BY <1>1, <1>5 DEF IInv, WorkerQuiet

\* A step of RunRm that seeds nothing.
MainQuiet ==
    /\ Types' /\ MainShape' /\ operand' >= operand
    /\ \A s \in Slot : pc'[s] = pc[s] /\ goal'[s] = goal[s] /\ cur'[s] = cur[s]
    /\ UNCHANGED <<node, remaining, queues, todo, entry>>

LEMMA MainQuietIsSound ==
    ASSUME IInv, MainQuiet
    PROVE  IInv'
<1>1. \A t \in Slot : WorkerShape(t)' /\ Phase(t)' = Phase(t)
  BY DEF MainQuiet, IInv, WorkerShape, Phase
<1>2. View' \in View0
  BY <1>1, ViewTyped DEF MainQuiet
<1>3. Unseeded' \subseteq Unseeded
  <2>1. operand \in Nat /\ operand' \in Nat /\ operand' >= operand
    BY DEF MainQuiet, IInv, Types
  <2>2. Len(Operands) \in Nat
    BY TreeAssumption, LenProperties
  <2>3. operand' .. Len(Operands) \subseteq operand .. Len(Operands)
    BY <2>1, <2>2
  <2> QED
    BY <2>3 DEF Unseeded
<1>4. Quiet(View, View')
  BY <1>1, <1>2, <1>3, Fields, NextFields DEF MainQuiet, Quiet
<1>5. Sound(View')
  BY <1>4, QuietIsSound DEF IInv
<1> QED
  BY <1>1, <1>5 DEF IInv, MainQuiet

\* The world moves, no thread does.
LEMMA SystemStep ==
    ASSUME IInv, FillTable \/ ClearTable \/ OthersRemove
    PROVE  IInv'
<1>1. UNCHANGED <<node, remaining, queues, pc, goal, cur, todo, entry, operand>>
  BY DEF FillTable, ClearTable, OthersRemove, nodes, sched, scanning
<1>2. MainQuiet
  BY <1>1 DEF MainQuiet, IInv, Types, MainShape
<1> QED
  BY <1>2, MainQuietIsSound

\* The variables that the view and the shapes are about, but for pc.
Still == UNCHANGED <<node, remaining, queues, goal, cur, todo, entry, operand>>

\* What an open does short of success leaves a thread opening.
LEMMA StillOpening ==
    ASSUME NEW a \in Actor,
           \/ Reserve(a) \/ OpenPiece(a) \/ OpenFails(a) \/ OpenRefused(a) \/ Refused(a)
    PROVE  Still /\ pc[a] \in Opens /\ \E label \in Opens : Goto(a, label)
<1>1. CASE Reserve(a)
  BY <1>1 DEF Reserve, Still, Opens, nodes, sched, scanning
<1>2. CASE OpenPiece(a)
  BY <1>2 DEF OpenPiece, Still, Opens, nodes, sched, scanning
<1>3. CASE OpenFails(a)
  BY <1>3 DEF OpenFails, Still, Opens, nodes, sched, scanning
<1>4. CASE OpenRefused(a)
  BY <1>4 DEF OpenRefused, Still, Opens, nodes, sched, scanning
<1>5. CASE Refused(a)
  BY <1>5 DEF Refused, Still, Opens, nodes, sched, scanning
<1> QED
  BY <1>1, <1>2, <1>3, <1>4, <1>5

\* It is another step of the same phase.
LEMMA PhaseStep ==
    ASSUME IInv, NEW s \in Slot, NEW label, Goto(s, label), Still,
           \/ pc[s] \in Opens /\ label \in Opens
           \/ pc[s] = "scan" /\ label = "close" /\ todo[s] = {}
           \/ pc[s] \in Opens \cup {"count"} /\ label = "count" /\ goal[s] = "child"
           \/ pc[s] \in Opens /\ label = "rmdir" /\ goal[s] = "remove"
           \/ pc[s] \in Opens \cup {"rmdir"} /\ label = "delete" /\ goal[s] = "remove"
    PROVE  IInv'
<1>1. s \in Actor /\ s # Main
  BY SlotsAreActors
<1>2. pc'[s] = label /\ \A a \in Actor \ {s} : pc'[a] = pc[a]
  BY <1>1 DEF Goto, IInv, Types
<1>3. Types'
  BY DEF Still, Goto, IInv, Types, Opens
<1>4. Only(s)
  BY <1>2 DEF Only, Still
<1>5. WorkerShape(s)' /\ Phase(s)' = Phase(s)
  BY <1>1, <1>2 DEF IInv, WorkerShape, Phase, Still, Opens
<1>6. WorkerQuiet(s)
  BY <1>1, <1>3, <1>4, <1>5 DEF WorkerQuiet, Still
<1> QED
  BY <1>6, WorkerQuietIsSound

\* A step of a scan that only passes an entry.
LEMMA SkipStep ==
    ASSUME IInv, NEW s \in Slot, UnlinkFile(s) \/ SkipGone(s) \/ StatFails(s)
    PROVE  IInv'
<1>1. s \in Actor /\ s # Main
  BY SlotsAreActors
<1>2. /\ UNCHANGED <<node, remaining, queues, pc, goal, cur, entry, operand>>
      /\ \E e : todo' = [todo EXCEPT ![s] = @ \ {e}]
  <2>1. CASE UnlinkFile(s)
    BY <2>1 DEF UnlinkFile, Skip, nodes, sched
  <2>2. CASE SkipGone(s)
    BY <2>2 DEF SkipGone, Skip, nodes, sched
  <2>3. CASE StatFails(s)
    BY <2>3 DEF StatFails, Skip, nodes, sched
  <2> QED
    BY <2>1, <2>2, <2>3
<1>3. PICK e : todo' = [todo EXCEPT ![s] = @ \ {e}]
  BY <1>2
<1>4. /\ todo'[s] = todo[s] \ {e} /\ \A t \in Slot \ {s} : todo'[t] = todo[t]
      /\ todo' \in [Slot -> SUBSET Object]
  BY <1>3 DEF IInv, Types
<1>5. Types' /\ Only(s)
  BY <1>2, <1>4 DEF IInv, Types, Only
<1>6. WorkerShape(s)' /\ Phase(s)' = Phase(s)
  BY <1>1, <1>2, <1>4 DEF IInv, WorkerShape, Phase
<1>7. WorkerQuiet(s)
  BY <1>1, <1>2, <1>4, <1>5, <1>6 DEF WorkerQuiet
<1> QED
  BY <1>7, WorkerQuietIsSound

\* The end of a directory that could not be read to its end.
LEMMA ReadFailsStep ==
    ASSUME IInv, NEW s \in Slot, ReadFails(s)
    PROVE  IInv'
<1>1. s \in Actor /\ s # Main
  BY SlotsAreActors
<1>2. /\ UNCHANGED <<node, remaining, queues, goal, cur, entry, operand>>
      /\ pc[s] = "scan" /\ pc' = [pc EXCEPT ![s] = "close"]
      /\ todo' = [todo EXCEPT ![s] = {}]
  BY DEF ReadFails, Reading, Goto, nodes, sched
<1>3. /\ todo'[s] = {} /\ \A t \in Slot \ {s} : todo'[t] = todo[t]
      /\ todo' \in [Slot -> SUBSET Object]
      /\ pc'[s] = "close" /\ \A a \in Actor \ {s} : pc'[a] = pc[a]
  BY <1>1, <1>2 DEF IInv, Types
<1>4. Types' /\ Only(s)
  BY <1>2, <1>3 DEF IInv, Types, Only
<1>5. WorkerShape(s)' /\ Phase(s)' = Phase(s)
  BY <1>1, <1>2, <1>3 DEF IInv, WorkerShape, Phase, Opens
<1>6. WorkerQuiet(s)
  BY <1>1, <1>2, <1>3, <1>4, <1>5 DEF WorkerQuiet
<1> QED
  BY <1>6, WorkerQuietIsSound

\* Descriptors go, nothing else.
LEMMA UnwindStep ==
    ASSUME IInv, NEW a \in Actor, Unwind(a)
    PROVE  IInv'
<1>1. UNCHANGED <<node, remaining, queues, pc, goal, cur, todo, entry, operand>>
  BY DEF Unwind, nodes, sched, scanning
<1>2. MainQuiet
  BY <1>1 DEF MainQuiet, IInv, Types, MainShape
<1> QED
  BY <1>2, MainQuietIsSound

\* The removal of a directory, tried or not to be tried.
LEMMA RemoveEmptyStep ==
    ASSUME IInv, NEW s \in Slot, RemoveEmpty(s) \/ RemoveEmptyFails(s)
    PROVE  IInv'
<1>1. Still /\ Goto(s, "delete")
  BY DEF RemoveEmpty, RemoveEmptyFails, Still, nodes, sched, scanning
<1>2. pc[s] \in Opens \cup {"rmdir"} /\ goal[s] = "remove"
  BY DEF RemoveEmpty, RemoveEmptyFails, Hopeless, Opens, IInv, WorkerShape
<1> QED
  BY <1>1, <1>2, PhaseStep

\* RunRm passes over an operand, goes to the next, or returns.
LEMMA MainStepIsQuiet ==
    ASSUME IInv, OperandGone \/ NextOperand \/ RootRefused \/ Wait
    PROVE  IInv'
<1>1. Main \in Actor /\ \A s \in Slot : s \in Actor /\ s # Main
  BY SlotsAreActors
<1>2. UNCHANGED <<node, remaining, queues, todo, entry>>
  BY DEF OperandGone, NextOperand, RootRefused, Wait, nodes, sched, scanning
<1>3. operand \in Nat \ {0} /\ (operand' = operand \/ operand' = operand + 1)
  BY DEF OperandGone, NextOperand, RootRefused, Wait, Idle, IInv, Types
<1>4. CASE OperandGone
  <2>1. UNCHANGED <<pc, goal, cur>> /\ pc[Main] = "next"
    BY <1>4 DEF OperandGone
  <2>2. MainQuiet
    BY <2>1, <1>2, <1>3 DEF MainQuiet, IInv, Types, MainShape
  <2> QED
    BY <2>2, MainQuietIsSound
<1>5. CASE NextOperand
  <2>1. /\ pc' = [pc EXCEPT ![Main] = "reserve"] /\ goal' = [goal EXCEPT ![Main] = "root"]
        /\ cur' = [cur EXCEPT ![Main] = Operands[operand]]
        /\ operand' = operand /\ operand <= Len(Operands)
    BY <1>5 DEF NextOperand, Goto
  <2>2. Operands[operand] \in Dir
    BY <2>1, <1>3, TreeAssumption
  <2>3. Types' /\ MainShape'
    BY <1>1, <1>2, <2>1, <2>2 DEF IInv, Types, MainShape, Opens
  <2>4. MainQuiet
    BY <1>1, <1>2, <1>3, <2>1, <2>3 DEF MainQuiet, IInv, Types
  <2> QED
    BY <2>4, MainQuietIsSound
<1>6. CASE RootRefused
  <2>1. /\ pc' = [pc EXCEPT ![Main] = "next"] /\ goal' = [goal EXCEPT ![Main] = "none"]
        /\ cur' = [cur EXCEPT ![Main] = None]
    BY <1>6 DEF RootRefused, Idle, Goto
  <2>2. Types' /\ MainShape'
    BY <1>1, <1>2, <1>3, <2>1 DEF IInv, Types, MainShape
  <2>3. MainQuiet
    BY <1>1, <1>2, <1>3, <2>1, <2>2 DEF MainQuiet, IInv, Types
  <2> QED
    BY <2>3, MainQuietIsSound
<1>7. CASE Wait
  <2>1. pc' = [pc EXCEPT ![Main] = "exited"] /\ UNCHANGED <<goal, cur, operand>>
    BY <1>7 DEF Wait, Goto
  <2>2. Types' /\ MainShape'
    BY <1>1, <1>2, <2>1 DEF IInv, Types, MainShape
  <2>3. MainQuiet
    BY <1>1, <1>2, <1>3, <2>1, <2>2 DEF MainQuiet, IInv, Types
  <2> QED
    BY <2>3, MainQuietIsSound
<1> QED
  BY <1>4, <1>5, <1>6, <1>7

\* RunRm opens an operand.
LEMMA MainOpeningStep ==
    ASSUME IInv, Opening(Main)
    PROVE  IInv'
<1>1. Main \in Actor /\ \A s \in Slot : s \in Actor /\ s # Main
  BY SlotsAreActors
<1>2. CASE Unwind(Main)
  BY <1>1, <1>2, UnwindStep
<1>3. CASE OpenSucceeds(Main)
  <2>1. pc[Main] = "call" /\ goal[Main] = "root"
    BY <1>3 DEF OpenSucceeds, IInv, MainShape
  <2>2. Still /\ pc' = [pc EXCEPT ![Main] = "seed"]
    BY <1>3, <2>1 DEF OpenSucceeds, AfterOpen, Goto, Still, sched
  <2>3. Types' /\ MainShape'
    BY <1>1, <2>1, <2>2 DEF IInv, Types, MainShape, Still
  <2>4. MainQuiet
    BY <1>1, <2>2, <2>3 DEF MainQuiet, IInv, Types, Still
  <2> QED
    BY <2>4, MainQuietIsSound
<1>4. CASE ~Unwind(Main) /\ ~OpenSucceeds(Main)
  <2>1. Still /\ pc[Main] \in Opens /\ \E label \in Opens : Goto(Main, label)
    BY <1>1, <1>4, StillOpening DEF Opening, IInv
  <2>2. PICK label \in Opens : pc' = [pc EXCEPT ![Main] = label]
    BY <2>1 DEF Goto
  <2>3. Types' /\ MainShape'
    BY <1>1, <2>1, <2>2 DEF IInv, Types, MainShape, Still, Opens
  <2>4. MainQuiet
    BY <1>1, <2>1, <2>2, <2>3 DEF MainQuiet, IInv, Types, Still
  <2> QED
    BY <2>4, MainQuietIsSound
<1> QED
  BY <1>2, <1>3, <1>4

\* A worker opens its task, a child, or the parent of what it removes.
LEMMA WorkerOpensStep ==
    ASSUME IInv, NEW s \in Slot, Opening(s), ~(OpenSucceeds(s) /\ goal[s] = "task")
    PROVE  IInv'
<1>1. s \in Actor /\ s # Main
  BY SlotsAreActors
<1>2. CASE Unwind(s)
  BY <1>1, <1>2, UnwindStep
<1>3. CASE OpenSucceeds(s)
  <2>1. pc[s] = "call" /\ goal[s] \in {"child", "remove"}
    BY <1>1, <1>3 DEF OpenSucceeds, IInv, WorkerShape
  <2>2. Still /\ Goto(s, AfterOpen(s))
    BY <1>3, <2>1 DEF OpenSucceeds, Still, sched
  <2>3. AfterOpen(s) = IF goal[s] = "child" THEN "count" ELSE "rmdir"
    BY <2>1 DEF AfterOpen
  <2>4. pc[s] \in Opens
    BY <2>1 DEF Opens
  <2> QED
    BY <2>1, <2>2, <2>3, <2>4, PhaseStep
<1>4. CASE ~Unwind(s) /\ ~OpenSucceeds(s)
  <2>1. Still /\ pc[s] \in Opens /\ \E label \in Opens : Goto(s, label)
    BY <1>1, <1>4, StillOpening DEF Opening, IInv
  <2> QED
    BY <2>1, PhaseStep
<1> QED
  BY <1>2, <1>3, <1>4

----------------------------------------------------------------------------
(* Steps that the view tells apart                                         *)

\* What the view shows of a step of worker s.
Seen(m, n, s) ==
    /\ n \in View0 /\ n.unseeded = m.unseeded
    /\ m.phase[s] = Phase(s) /\ n.phase = [m.phase EXCEPT ![s] = Phase(s)']
    /\ m.cur[s] = cur[s] /\ n.cur = [m.cur EXCEPT ![s] = cur'[s]]
    /\ n.todo[s] = todo'[s] /\ m.todo[s] = todo[s]
    /\ n.entry[s] = entry'[s] /\ m.entry[s] = entry[s]
    /\ \A t \in Slot \ {s} :
          /\ n.phase[t] = m.phase[t] /\ n.cur[t] = m.cur[t]
          /\ n.todo[t] = m.todo[t] /\ n.entry[t] = m.entry[t]
    /\ m.node = node /\ n.node = node' /\ m.remaining = remaining
    /\ n.remaining = remaining' /\ m.queued = Tasks(queues) /\ n.queued = Tasks(queues')
    /\ cur' = cur => n.cur = m.cur
    /\ todo' = todo => n.todo = m.todo
    /\ entry' = entry => n.entry = m.entry

LEMMA WorkerSeen ==
    ASSUME IInv, NEW s \in Slot, Types', Only(s), WorkerShape(s)'
    PROVE  Seen(View, View', s)
<1>1. /\ \A t \in Slot : WorkerShape(t)' /\ MainShape' /\ Unseeded' = Unseeded
      /\ \A t \in Slot \ {s} : Phase(t)' = Phase(t) /\ cur'[t] = cur[t]
  BY OthersStay, SlotsAreActors DEF Only
<1>2. View' \in View0
  BY <1>1, ViewTyped
<1>3. View'.phase = [View.phase EXCEPT ![s] = Phase(s)']
  BY <1>1, Fields, NextFields
<1>4. View'.cur = [View.cur EXCEPT ![s] = cur'[s]]
  BY <1>1, Fields, NextFields
<1>5. View.phase[s] = Phase(s) /\ View.cur[s] = cur[s]
  BY Fields
<1>6. \A t \in Slot \ {s} : View'.phase[t] = View.phase[t] /\ View'.cur[t] = View.cur[t]
  BY <1>1, Fields, NextFields
<1>7. \A t \in Slot \ {s} : todo'[t] = todo[t] /\ entry'[t] = entry[t]
  BY DEF Only
<1>8. cur' = cur => View'.cur = View.cur
  BY Fields, NextFields
<1> QED
  BY <1>1, <1>2, <1>3, <1>4, <1>5, <1>6, <1>7, <1>8, Fields, NextFields DEF Seen

\* What is left is that the view stays sound.
LEMMA WorkerMoves ==
    ASSUME IInv, NEW s \in Slot, Types', Only(s), WorkerShape(s)', Once(queues'),
           Sound(View')
    PROVE  IInv'
BY OthersStay DEF IInv

\* A worker meets a child or leaves one, or has opened its task.
LEMMA LookStep ==
    ASSUME IInv, NEW s \in Slot,
           MeetChild(s) \/ ChildRefused(s) \/ (OpenSucceeds(s) /\ goal[s] = "task")
    PROVE  IInv'
<1>1. s \in Actor /\ s # Main
  BY SlotsAreActors
<1>2. CASE MeetChild(s)
  <2>1. PICK e \in todo[s] \cap Dir :
            todo' = [todo EXCEPT ![s] = @ \ {e}] /\ entry' = [entry EXCEPT ![s] = e]
    BY <1>2 DEF MeetChild, Skip
  <2>2. PICK label \in {"count", "reserve"} : pc' = [pc EXCEPT ![s] = label]
    BY <1>2 DEF MeetChild, Goto
  <2>3. /\ goal' = [goal EXCEPT ![s] = "child"] /\ pc[s] = "scan"
        /\ UNCHANGED <<node, remaining, queues, cur, operand>>
    BY <1>2 DEF MeetChild, Reading, nodes, sched
  <2>4. e \in Object
    BY DEF Object
  <2>5. Types' /\ Only(s)
    BY <1>1, <2>1, <2>2, <2>3, <2>4 DEF IInv, Types, Only, Opens
  <2>6. /\ pc'[s] = label /\ goal'[s] = "child" /\ goal[s] = "task"
        /\ entry'[s] = e /\ todo'[s] = todo[s] \ {e}
    BY <1>1, <2>1, <2>2, <2>3 DEF IInv, Types, WorkerShape
  <2>7. WorkerShape(s)' /\ Phase(s) = "scanning" /\ Phase(s)' = "meeting"
    BY <2>3, <2>6 DEF WorkerShape, Phase, Opens
  <2>8. Seen(View, View', s)
    BY <2>5, <2>7, WorkerSeen
  <2>9. Looks(View, View', s)
    BY <2>3, <2>6, <2>7, <2>8 DEF Seen, Looks, Looking
  <2> QED
    BY <2>3, <2>5, <2>7, <2>9, LooksIsSound, WorkerMoves DEF IInv
<1>3. CASE ChildRefused(s)
  <2>1. /\ pc' = [pc EXCEPT ![s] = "scan"] /\ goal' = [goal EXCEPT ![s] = "task"]
        /\ entry' = [entry EXCEPT ![s] = None]
        /\ pc[s] \in Opens /\ goal[s] = "child" /\ pc[s] \notin {"idle", "unref", "finish",
              "rmdir", "delete", "publish"}
        /\ UNCHANGED <<node, remaining, queues, cur, todo, operand>>
    BY <1>3 DEF ChildRefused, LeaveEntry, Goto, Hopeless, Opens, nodes, sched
  <2>2. Types' /\ Only(s)
    BY <1>1, <2>1 DEF IInv, Types, Only, Opens
  <2>3. pc'[s] = "scan" /\ goal'[s] = "task"
    BY <1>1, <2>1 DEF IInv, Types
  <2>4. WorkerShape(s)' /\ Phase(s) = "meeting" /\ Phase(s)' = "scanning"
    BY <2>1, <2>3 DEF WorkerShape, Phase, Opens
  <2>5. Seen(View, View', s)
    BY <2>2, <2>4, WorkerSeen
  <2>6. Looks(View, View', s)
    BY <2>1, <2>4, <2>5 DEF Seen, Looks, Looking
  <2> QED
    BY <2>1, <2>2, <2>4, <2>6, LooksIsSound, WorkerMoves DEF IInv
<1>4. CASE OpenSucceeds(s) /\ goal[s] = "task"
  <2>1. /\ pc' = [pc EXCEPT ![s] = "scan"] /\ todo' = [todo EXCEPT ![s] = Left(cur[s])]
        /\ pc[s] = "call" /\ UNCHANGED <<node, remaining, queues, cur, goal, entry, operand>>
    BY <1>4 DEF OpenSucceeds, AfterOpen, Goto, sched
  <2>2. Left(cur[s]) \subseteq Children(cur[s]) /\ Children(cur[s]) \subseteq Object
    BY DEF Left, Children
  <2>3. Types' /\ Only(s)
    BY <1>1, <2>1, <2>2 DEF IInv, Types, Only, Opens
  <2>4. pc'[s] = "scan" /\ goal'[s] = "task" /\ todo'[s] = Left(cur[s])
    BY <1>1, <1>4, <2>1 DEF IInv, Types
  <2>5. WorkerShape(s)' /\ Phase(s) = "unopened" /\ Phase(s)' = "scanning"
    BY <1>4, <2>1, <2>4 DEF WorkerShape, Phase, Opens
  <2>6. Seen(View, View', s)
    BY <2>3, <2>5, WorkerSeen
  <2>7. Looks(View, View', s)
    BY <2>1, <2>2, <2>4, <2>5, <2>6 DEF Seen, Looks, Looking
  <2> QED
    BY <2>1, <2>3, <2>5, <2>7, LooksIsSound, WorkerMoves DEF IInv
<1> QED
  BY <1>2, <1>3, <1>4

\* A worker takes a task out of a queue.
LEMMA AcquireTakes ==
    ASSUME IInv, NEW s \in Slot, Acquire(s)
    PROVE  \E d \in Tasks(queues) :
               /\ Start(s, d) /\ queues' \in Queues /\ Once(queues')
               /\ Tasks(queues') = Tasks(queues) \ {d}
<1>1. s \in Actor /\ s # Main
  BY SlotsAreActors
<1>2. Tier(s) \in {kRunnable, kAwaitingDescriptor}
  BY DEF Tier
<1>3. PICK tier \in {kRunnable, kAwaitingDescriptor} : tier = Tier(s)
  BY <1>2
<1>4. PICK o \in Source(s, tier) :
         LET tasks == queues[o][tier]
             taken == IF o = s THEN Last(tasks) ELSE Head(tasks)
         IN  /\ Start(s, taken)
             /\ queues' = [queues EXCEPT ![o][tier] =
                              IF o = s THEN Front(tasks) ELSE Tail(tasks)]
  BY <1>3 DEF Acquire
<1>5. o \in Actor /\ queues[o][tier] # <<>> /\ queues \in Queues
  BY <1>1, <1>4 DEF Source, IInv, Types
<1>6. PICK tasks \in Seq(Dir) : tasks = queues[o][tier]
  BY <1>5 DEF Queues
<1>7. PICK len \in Nat \ {0} : len = Len(tasks)
  BY <1>5, <1>6, EmptySeq, LenProperties
<1>8. PICK i \in {1, len} : i = IF o = s THEN len ELSE 1
  OBVIOUS
<1>9. PICK d : d = tasks[i]
  OBVIOUS
<1>10. d = (IF o = s THEN Last(tasks) ELSE Head(tasks)) /\ d \in Dir /\ i \in 1 .. len
  BY <1>5, <1>6, <1>7, <1>8, <1>9, HeadTailProperties DEF Last
<1>11. Start(s, d) /\ queues' = [queues EXCEPT ![o][tier] =
                                    IF o = s THEN Front(tasks) ELSE Tail(tasks)]
  BY <1>4, <1>6, <1>10
<1>12. Taken(queues, queues', o, tier, i, d)
  <2>1. Tail(tasks) \in Seq(Dir) /\ Front(tasks) \in Seq(Dir)
    <3>1. Tail(tasks) \in Seq(Dir)
      BY <1>5, <1>6, HeadTailProperties
    <3>2. Front(tasks) = SubSeq(tasks, 1, len - 1)
      BY <1>7 DEF Front
    <3> QED
      BY <3>1, <3>2, <1>7, SubSeqProperties
  <2>2. queues' \in Queues
    BY <2>1, <1>5, <1>11 DEF Queues
  <2>3. /\ \A x \in Actor, y \in {kRunnable, kAwaitingDescriptor} :
              <<x, y>> # <<o, tier>> => queues'[x][y] = queues[x][y]
        /\ queues'[o][tier] = IF o = s THEN Front(tasks) ELSE Tail(tasks)
    BY <1>5, <1>11 DEF Queues
  <2>4. \/ i = Len(tasks) /\ queues'[o][tier] = Front(tasks)
        \/ i = 1 /\ queues'[o][tier] = Tail(tasks)
    BY <2>3, <1>7, <1>8
  <2>5. At(queues, o, tier, i, d)
    BY <1>5, <1>6, <1>7, <1>9, <1>10 DEF At
  <2> QED
    BY <2>2, <2>3, <2>4, <2>5, <1>6 DEF Taken
<1>13. /\ Once(queues') /\ Tasks(queues') = Tasks(queues) \ {d} /\ d \in Tasks(queues)
       /\ queues' \in Queues
  <2>1. queues' \in Queues
    BY <1>12 DEF Taken
  <2> QED
    BY <2>1, <1>5, <1>12, TakenOnce DEF IInv
<1> QED
  BY <1>11, <1>13

\* That is its node now.
LEMMA AcquireStep ==
    ASSUME IInv, NEW s \in Slot, Acquire(s)
    PROVE  IInv'
<1>1. s \in Actor /\ s # Main
  BY SlotsAreActors
<1>2. pc[s] = "idle" /\ UNCHANGED <<node, remaining, entry, operand>>
  BY DEF Acquire, nodes
<1>3. PICK d \in Tasks(queues) :
          /\ Start(s, d) /\ queues' \in Queues /\ Once(queues')
          /\ Tasks(queues') = Tasks(queues) \ {d}
  BY AcquireTakes
<1>4. d \in Dir
  BY DEF Tasks
<1>5. PICK label \in {"scan", "reserve"} : pc' = [pc EXCEPT ![s] = label]
  BY <1>3 DEF Start, Goto
<1>6. /\ cur' = [cur EXCEPT ![s] = d] /\ goal' = [goal EXCEPT ![s] = "task"]
       /\ \/ label = "scan" /\ todo' = [todo EXCEPT ![s] = Left(d)]
          \/ label = "reserve" /\ todo' = todo
  BY <1>1, <1>3, <1>5 DEF Start, Goto, IInv, Types
<1>7. Left(d) \subseteq Children(d) /\ Children(d) \subseteq Object
  BY DEF Left, Children
<1>8. Types' /\ Only(s)
  BY <1>1, <1>2, <1>3, <1>4, <1>5, <1>6, <1>7 DEF IInv, Types, Only, Opens
<1>9. /\ pc'[s] = label /\ goal'[s] = "task" /\ cur'[s] = d
       /\ todo'[s] = IF label = "scan" THEN Left(d) ELSE todo[s]
  BY <1>1, <1>5, <1>6 DEF IInv, Types
<1>10. /\ WorkerShape(s)' /\ Phase(s) = "idle"
       /\ Phase(s)' = IF label = "scan" THEN "scanning" ELSE "unopened"
  BY <1>2, <1>5, <1>9 DEF WorkerShape, Phase, Opens
<1>11. Seen(View, View', s)
  BY <1>8, <1>10, WorkerSeen
<1>12. Acquires(View, View', s, d)
  <2>1. /\ View'.cur = [View.cur EXCEPT ![s] = d] /\ View.phase[s] = "idle"
        /\ View'.node = View.node /\ View'.remaining = View.remaining
        /\ View'.queued = View.queued \ {d} /\ d \in View.queued
        /\ View'.entry = View.entry
    BY <1>2, <1>3, <1>9, <1>10, <1>11 DEF Seen
  <2>2. View'.phase[s] = Phase(s)'
    BY <1>11 DEF Seen, View0
  <2>3. \/ View'.phase[s] = "unopened" /\ View'.todo[s] = View.todo[s]
        \/ View'.phase[s] = "scanning" /\ View'.todo[s] \subseteq Children(d)
    BY <2>2, <1>5, <1>7, <1>9, <1>10, <1>11 DEF Seen
  <2> QED
    BY <2>1, <2>3, <1>11 DEF Seen, Acquires
<1> QED
  BY <1>3, <1>4, <1>8, <1>10, <1>12, AcquiresIsSound, WorkerMoves DEF IInv

\* A worker puts its task back.
LEMMA ParkAdds ==
    ASSUME IInv, NEW s \in Slot, Park(s)
    PROVE  /\ cur[s] \in Dir /\ cur[s] \notin Tasks(queues)
           /\ queues' \in Queues /\ Once(queues')
           /\ Tasks(queues') = Tasks(queues) \cup {cur[s]}
<1>1. s \in Actor /\ s # Main
  BY SlotsAreActors
<1>2. /\ pc[s] = "retry" /\ goal[s] = "task"
      /\ queues' = [queues EXCEPT ![s][kAwaitingDescriptor] = Append(@, cur[s])]
  BY DEF Park, Insert
<1>3. Phase(s) = "unopened" /\ View.phase[s] = "unopened" /\ View.cur[s] = cur[s]
  BY <1>2, Fields DEF Phase, Opens
<1>4. cur[s] \in Dir /\ ~Waits(View, cur[s])
  BY <1>3 DEF IInv, Sound, Typed, ScannedOnce, Works, Scans
<1>5. cur[s] \notin Tasks(queues)
  BY <1>4, Fields DEF Waits
<1>6. queues \in Queues
  BY DEF IInv, Types
<1>7. Added(queues, queues', s, kAwaitingDescriptor, cur[s])
  <2>1. Append(queues[s][kAwaitingDescriptor], cur[s]) \in Seq(Dir)
    BY <1>1, <1>4, <1>6, AppendProperties DEF Queues
  <2> QED
    BY <2>1, <1>1, <1>2, <1>6 DEF Added, Queues
<1>8. Once(queues') /\ Tasks(queues') = Tasks(queues) \cup {cur[s]}
  BY <1>4, <1>5, <1>6, <1>7, AddedOnce DEF IInv
<1> QED
  BY <1>4, <1>5, <1>7, <1>8 DEF Added

\* It has no node then.
LEMMA ParkStep ==
    ASSUME IInv, NEW s \in Slot, Park(s)
    PROVE  IInv'
<1>1. s \in Actor /\ s # Main
  BY SlotsAreActors
<1>2. /\ pc[s] = "retry" /\ goal[s] = "task" /\ pc' = [pc EXCEPT ![s] = "finish"]
      /\ UNCHANGED <<node, remaining, cur, goal, todo, entry, operand>>
  BY DEF Park, Goto, nodes, scanning
<1>3. Phase(s) = "unopened" /\ View.phase[s] = "unopened" /\ View.cur[s] = cur[s]
  BY <1>2, Fields DEF Phase, Opens
<1>4. queues' \in Queues /\ Once(queues') /\ Tasks(queues') = Tasks(queues) \cup {cur[s]}
  BY ParkAdds
<1>5. Types' /\ Only(s)
  BY <1>1, <1>2, <1>4 DEF IInv, Types, Only
<1>6. pc'[s] = "finish" /\ goal'[s] = "task"
  BY <1>1, <1>2 DEF IInv, Types
<1>7. WorkerShape(s)' /\ Phase(s)' = "finish"
  BY <1>6 DEF WorkerShape, Phase
<1>8. Seen(View, View', s)
  BY <1>5, <1>7, WorkerSeen
<1>9. Parks(View, View', s)
  BY <1>2, <1>3, <1>4, <1>7, <1>8 DEF Seen, Parks
<1> QED
  BY <1>4, <1>5, <1>7, <1>9, ParksIsSound, WorkerMoves DEF IInv

\* A worker sets about removing what it could not open.
LEMMA AbandonStep ==
    ASSUME IInv, NEW s \in Slot, Abandon(s)
    PROVE  IInv'
<1>1. s \in Actor /\ s # Main
  BY SlotsAreActors
<1>2. PICK g \in {"task", "remove"}, label \in {"reserve", "rmdir", "delete"} :
         /\ goal' = [goal EXCEPT ![s] = g] /\ pc' = [pc EXCEPT ![s] = label]
         /\ label \in {"reserve", "rmdir"} => g = "remove"
  <2>1. CASE force
    BY <2>1 DEF Abandon, StartRemove, Goto
  <2>2. CASE ~force
    <3>1. goal' = [goal EXCEPT ![s] = "task"]
      BY <2>2, <1>1 DEF Abandon, IInv, Types
    <3> QED
      BY <2>2, <3>1 DEF Abandon, Goto
  <2> QED
    BY <2>1, <2>2
<1>3. /\ pc[s] \in {"giveup", "gone"} /\ goal[s] = "task"
      /\ UNCHANGED <<node, remaining, queues, cur, todo, entry, operand>>
  BY DEF Abandon, Hopeless, nodes, sched, scanning
<1>4. Types' /\ Only(s)
  BY <1>1, <1>2, <1>3 DEF IInv, Types, Only, Opens
<1>5. pc'[s] = label /\ goal'[s] = g
  BY <1>1, <1>2 DEF IInv, Types
<1>6. WorkerShape(s)' /\ Phase(s) = "unopened" /\ Phase(s)' = "removing"
  BY <1>2, <1>3, <1>5 DEF WorkerShape, Phase, Opens
<1>7. Seen(View, View', s)
  BY <1>4, <1>6, WorkerSeen
<1>8. Claims(View, View', s)
  BY <1>3, <1>6, <1>7 DEF Seen, Claims, Turns
<1> QED
  BY <1>3, <1>4, <1>6, <1>8, ClaimsIsSound, WorkerMoves DEF IInv

\* A worker drops a reference.
LEMMA UnrefStep ==
    ASSUME IInv, NEW s \in Slot, Unref(s)
    PROVE  IInv'
<1>1. s \in Actor /\ s # Main
  BY SlotsAreActors
<1>2. /\ pc[s] = "unref" /\ remaining' = [remaining EXCEPT ![cur[s]] = @ - 1]
      /\ UNCHANGED <<node, queues, cur, todo, entry, operand>>
  BY DEF Unref, sched, scanning
<1>3. Phase(s) = "unref" /\ View.phase[s] = "unref" /\ View.cur[s] = cur[s]
  BY <1>2, Fields DEF Phase
<1>4. cur[s] \in Dir
  BY <1>3 DEF IInv, Sound, Typed, Works
<1>5. remaining' \in [Dir -> Int] /\ \A c \in Dir \ {cur[s]} : remaining'[c] = remaining[c]
  BY <1>2, <1>4 DEF IInv, Types
<1>6. CASE remaining[cur[s]] = 1
  <2>1. PICK label \in {"reserve", "rmdir"} : pc' = [pc EXCEPT ![s] = label]
    BY <1>6 DEF Unref, StartRemove, Goto
  <2>2. goal' = [goal EXCEPT ![s] = "remove"]
    BY <1>6 DEF Unref, StartRemove
  <2>3. Types' /\ Only(s)
    BY <1>1, <1>2, <1>5, <2>1, <2>2 DEF IInv, Types, Only, Opens
  <2>4. pc'[s] = label /\ goal'[s] = "remove"
    BY <1>1, <2>1, <2>2 DEF IInv, Types
  <2>5. WorkerShape(s)' /\ Phase(s)' = "removing"
    BY <2>1, <2>4 DEF WorkerShape, Phase
  <2>6. Seen(View, View', s)
    BY <2>3, <2>5, WorkerSeen
  <2>7. Claims(View, View', s)
    BY <1>2, <1>3, <1>5, <1>6, <2>5, <2>6 DEF Seen, Claims, Turns
  <2> QED
    BY <1>2, <2>3, <2>5, <2>7, ClaimsIsSound, WorkerMoves DEF IInv
<1>7. CASE remaining[cur[s]] # 1
  <2>1. pc' = [pc EXCEPT ![s] = "finish"] /\ goal' = goal
    BY <1>7 DEF Unref, Goto
  <2>2. Types' /\ Only(s)
    BY <1>1, <1>2, <1>5, <2>1 DEF IInv, Types, Only
  <2>3. pc'[s] = "finish" /\ goal'[s] \in {"task", "remove"}
    BY <1>1, <1>2, <2>1 DEF IInv, Types, WorkerShape
  <2>4. WorkerShape(s)' /\ Phase(s)' = "finish"
    BY <2>3 DEF WorkerShape, Phase
  <2>5. Seen(View, View', s)
    BY <2>2, <2>4, WorkerSeen
  <2>6. Drops(View, View', s)
    BY <1>2, <1>3, <1>7, <2>4, <2>5 DEF Seen, Drops, Turns
  <2> QED
    BY <1>2, <2>2, <2>4, <2>6, DropsIsSound, WorkerMoves DEF IInv
<1> QED
  BY <1>6, <1>7

\* A worker has scanned its directory.
LEMMA CloseStep ==
    ASSUME IInv, NEW s \in Slot, CloseScanned(s)
    PROVE  IInv'
<1>1. s \in Actor /\ s # Main
  BY SlotsAreActors
<1>2. /\ pc[s] \in {"scan", "close"} /\ todo[s] = {} /\ goal[s] = "task"
      /\ pc' = [pc EXCEPT ![s] = "unref"]
      /\ UNCHANGED <<node, remaining, queues, cur, goal, todo, entry, operand>>
  BY DEF CloseScanned, Reading, Goto, IInv, WorkerShape, sched, scanning
<1>3. Types' /\ Only(s)
  BY <1>1, <1>2 DEF IInv, Types, Only
<1>4. pc'[s] = "unref" /\ goal'[s] = "task"
  BY <1>1, <1>2 DEF IInv, Types
<1>5. WorkerShape(s)' /\ Phase(s) = "scanning" /\ Phase(s)' = "unref"
  BY <1>2, <1>4 DEF WorkerShape, Phase, Opens
<1>6. Seen(View, View', s)
  BY <1>3, <1>5, WorkerSeen
<1>7. Closes(View, View', s)
  BY <1>2, <1>5, <1>6 DEF Seen, Closes, Turns
<1> QED
  BY <1>2, <1>3, <1>5, <1>7, ClosesIsSound, WorkerMoves DEF IInv

\* A worker counts a child on its parent.
LEMMA CountStep ==
    ASSUME IInv, NEW s \in Slot, Count(s)
    PROVE  IInv'
<1>1. s \in Actor /\ s # Main
  BY SlotsAreActors
<1>2. /\ pc[s] \in {"count", "retry"} /\ goal[s] = "child"
      /\ pc' = [pc EXCEPT ![s] = "publish"]
      /\ node' = [node EXCEPT ![entry[s]] = "live"]
      /\ remaining' = [remaining EXCEPT ![entry[s]] = 1, ![cur[s]] = @ + 1]
      /\ UNCHANGED <<queues, cur, goal, todo, entry, operand>>
  BY DEF Count, Goto, IInv, WorkerShape, sched, scanning
<1>3. /\ Phase(s) = "meeting" /\ View.phase[s] = "meeting"
      /\ View.cur[s] = cur[s] /\ View.entry[s] = entry[s]
  BY <1>2, Fields DEF Phase, Opens
<1>4. cur[s] \in Dir /\ entry[s] \in Dir
  BY <1>3 DEF IInv, Sound, Typed, Works
<1>5. Types' /\ Only(s)
  BY <1>1, <1>2, <1>4 DEF IInv, Types, Only
<1>6. pc'[s] = "publish" /\ goal'[s] = "child"
  BY <1>1, <1>2 DEF IInv, Types
<1>7. WorkerShape(s)' /\ Phase(s)' = "publishing"
  BY <1>6 DEF WorkerShape, Phase
<1>8. Seen(View, View', s)
  BY <1>5, <1>7, WorkerSeen
<1>9. Counts(View, View', s, cur[s], entry[s])
  BY <1>2, <1>3, <1>7, <1>8 DEF Seen, Counts
<1> QED
  BY <1>2, <1>5, <1>7, <1>9, CountsIsSound, WorkerMoves DEF IInv

\* A worker queues a child.
LEMMA PublishAdds ==
    ASSUME IInv, NEW s \in Slot, Publish(s)
    PROVE  /\ entry[s] \in Dir /\ entry[s] \notin Tasks(queues)
           /\ queues' \in Queues /\ Once(queues')
           /\ Tasks(queues') = Tasks(queues) \cup {entry[s]}
<1>1. s \in Actor /\ s # Main
  BY SlotsAreActors
<1>2. pc[s] = "publish"
  BY DEF Publish
<1>3. PICK tier \in {kRunnable, kAwaitingDescriptor} :
         queues' = [queues EXCEPT ![s][tier] = Append(@, entry[s])]
  BY DEF Publish, Insert
<1>4. goal[s] = "child"
  BY <1>2 DEF IInv, WorkerShape
<1>5. Phase(s) = "publishing" /\ View.phase[s] = "publishing" /\ View.entry[s] = entry[s]
  BY <1>2, <1>4, Fields DEF Phase
<1>6. entry[s] \in Dir /\ Published(View, entry[s])
  BY <1>5 DEF IInv, Sound, Typed, Published
<1>7. entry[s] \notin Tasks(queues) /\ queues \in Queues
  BY <1>6, Fields DEF IInv, Sound, ScannedOnce, Types
<1>8. Added(queues, queues', s, tier, entry[s])
  <2>1. Append(queues[s][tier], entry[s]) \in Seq(Dir)
    BY <1>1, <1>6, <1>7, AppendProperties DEF Queues
  <2> QED
    BY <2>1, <1>1, <1>3, <1>7 DEF Added, Queues
<1>9. Once(queues') /\ Tasks(queues') = Tasks(queues) \cup {entry[s]}
  BY <1>6, <1>7, <1>8, AddedOnce DEF IInv
<1> QED
  BY <1>6, <1>7, <1>8, <1>9 DEF Added

\* It goes on with its scan.
LEMMA PublishStep ==
    ASSUME IInv, NEW s \in Slot, Publish(s)
    PROVE  IInv'
<1>1. s \in Actor /\ s # Main
  BY SlotsAreActors
<1>2. /\ pc[s] = "publish" /\ pc' = [pc EXCEPT ![s] = "scan"]
      /\ goal' = [goal EXCEPT ![s] = "task"] /\ entry' = [entry EXCEPT ![s] = None]
      /\ UNCHANGED <<node, remaining, cur, todo, operand>>
  BY DEF Publish, LeaveEntry, Goto, nodes
<1>3. goal[s] = "child"
  BY <1>2 DEF IInv, WorkerShape
<1>4. /\ Phase(s) = "publishing" /\ View.phase[s] = "publishing"
      /\ View.cur[s] = cur[s] /\ View.entry[s] = entry[s]
  BY <1>2, <1>3, Fields DEF Phase
<1>5. /\ entry[s] \in Dir /\ queues' \in Queues /\ Once(queues')
      /\ Tasks(queues') = Tasks(queues) \cup {entry[s]}
  BY PublishAdds
<1>6. Types' /\ Only(s)
  BY <1>1, <1>2, <1>5 DEF IInv, Types, Only
<1>7. pc'[s] = "scan" /\ goal'[s] = "task"
  BY <1>1, <1>2 DEF IInv, Types
<1>8. WorkerShape(s)' /\ Phase(s)' = "scanning"
  BY <1>7 DEF WorkerShape, Phase, Opens
<1>9. Seen(View, View', s)
  BY <1>6, <1>8, WorkerSeen
<1>10. Publishes(View, View', s, entry[s])
  BY <1>2, <1>4, <1>5, <1>8, <1>9 DEF Seen, Publishes
<1> QED
  BY <1>5, <1>6, <1>8, <1>10, PublishesIsSound, WorkerMoves DEF IInv

\* A worker deletes a node.
LEMMA DeleteStep ==
    ASSUME IInv, NEW s \in Slot, Delete(s)
    PROVE  IInv'
<1>1. s \in Actor /\ s # Main
  BY SlotsAreActors
<1>2. /\ pc[s] = "delete" /\ node' = [node EXCEPT ![cur[s]] = "deleted"]
      /\ cur' = [cur EXCEPT ![s] = Parent[cur[s]]]
      /\ UNCHANGED <<remaining, queues, goal, todo, entry, operand>>
  BY <1>1 DEF Delete, IInv, Types, sched, scanning
<1>3. PICK label \in {"finish", "unref"} :
         /\ label = IF Parent[cur[s]] = None THEN "finish" ELSE "unref"
         /\ pc' = [pc EXCEPT ![s] = label]
  BY DEF Delete, Goto
<1>4. Phase(s) = "removing" /\ View.phase[s] = "removing" /\ View.cur[s] = cur[s]
  BY <1>2, Fields DEF Phase
<1>5. cur[s] \in Dir /\ Parent[cur[s]] \in Dir \cup {None}
  BY <1>4, ParentAssumption DEF IInv, Sound, Typed, Works, Object
<1>6. Types' /\ Only(s)
  BY <1>1, <1>2, <1>3, <1>5 DEF IInv, Types, Only
<1>7. pc'[s] = label /\ goal'[s] \in {"task", "remove"} /\ cur'[s] = Parent[cur[s]]
  BY <1>1, <1>2, <1>3 DEF IInv, Types, WorkerShape
<1>8. WorkerShape(s)' /\ Phase(s)' = label
  BY <1>3, <1>7 DEF WorkerShape, Phase
<1>9. Seen(View, View', s)
  BY <1>6, <1>8, WorkerSeen
<1>10. Deletes(View, View', s, cur[s])
  BY <1>2, <1>3, <1>4, <1>7, <1>8, <1>9 DEF Seen, Deletes
<1> QED
  BY <1>2, <1>6, <1>8, <1>10, DeletesIsSound, WorkerMoves DEF IInv

\* A worker is done with its task.
LEMMA FinishStep ==
    ASSUME IInv, NEW s \in Slot, Finish(s)
    PROVE  IInv'
<1>1. s \in Actor /\ s # Main
  BY SlotsAreActors
<1>2. /\ pc[s] = "finish" /\ pc' = [pc EXCEPT ![s] = "idle"]
      /\ cur' = [cur EXCEPT ![s] = None] /\ goal' = [goal EXCEPT ![s] = "none"]
      /\ UNCHANGED <<node, remaining, queues, todo, entry, operand>>
  BY DEF Finish, Goto, nodes, scanning
<1>3. Types' /\ Only(s)
  BY <1>1, <1>2 DEF IInv, Types, Only
<1>4. pc'[s] = "idle" /\ goal'[s] = "none"
  BY <1>1, <1>2 DEF IInv, Types
<1>5. WorkerShape(s)' /\ Phase(s) = "finish" /\ Phase(s)' = "idle"
  BY <1>2, <1>4 DEF WorkerShape, Phase
<1>6. Seen(View, View', s)
  BY <1>3, <1>5, WorkerSeen
<1>7. Finishes(View, View', s)
  BY <1>2, <1>5, <1>6 DEF Seen, Finishes
<1> QED
  BY <1>2, <1>3, <1>5, <1>7, FinishesIsSound, WorkerMoves DEF IInv

\* RunRm seeds an operand.
LEMMA SeedAdds ==
    ASSUME IInv, SeedRoot
    PROVE  /\ cur[Main] \in Dir /\ cur[Main] \notin Tasks(queues) /\ cur[Main] \in Unseeded
           /\ queues' \in Queues /\ Once(queues') /\ Unseeded' = Unseeded \ {cur[Main]}
           /\ Tasks(queues') = Tasks(queues) \cup {cur[Main]}
<1>1. Main \in Actor /\ \A s \in Slot : s \in Actor /\ s # Main
  BY SlotsAreActors
<1>2. PICK d : d = cur[Main]
  OBVIOUS
<1>3. /\ pc[Main] = "seed" /\ operand' = operand + 1
      /\ queues' = [queues EXCEPT ![Main][kRunnable] = Append(@, d)]
  BY <1>2 DEF SeedRoot, Insert, Shared, Idle
<1>4. /\ operand \in Nat \ {0} /\ operand <= Len(Operands) /\ Len(Operands) \in Nat
      /\ d = Operands[operand] /\ queues \in Queues
  BY <1>2, <1>3, TreeAssumption, LenProperties DEF IInv, MainShape, Types
<1>5. d \in Unseeded /\ d \in Dir
  BY <1>4, TreeAssumption DEF Unseeded
<1>6. Unseeded' = Unseeded \ {d}
  <2>1. operand .. Len(Operands) = (operand + 1 .. Len(Operands)) \cup {operand}
    BY <1>4
  <2>2. \A i \in operand + 1 .. Len(Operands) : Operands[i] # d
    <3> SUFFICES ASSUME NEW i \in operand + 1 .. Len(Operands), Operands[i] = Operands[operand]
                 PROVE  FALSE
      BY <1>4
    <3>1. i \in 1 .. Len(Operands) /\ operand \in 1 .. Len(Operands) /\ i # operand
      BY <1>4
    <3>2. DOMAIN Operands = 1 .. Len(Operands)
      BY TreeAssumption, LenProperties
    <3> QED
      BY <3>1, <3>2, TreeAssumption DEF IsInjective
  <2>3. Unseeded' = {Operands[i] : i \in operand + 1 .. Len(Operands)}
    BY <1>3 DEF Unseeded
  <2> QED
    BY <2>1, <2>2, <2>3, <1>4 DEF Unseeded
<1>7. d \notin Tasks(queues)
  BY <1>5, Fields DEF IInv, Sound, UnseededIsNew, AllLive, Waits
<1>8. Added(queues, queues', Main, kRunnable, d)
  <2>1. Append(queues[Main][kRunnable], d) \in Seq(Dir)
    BY <1>1, <1>4, <1>5, AppendProperties DEF Queues
  <2> QED
    BY <2>1, <1>1, <1>3, <1>4 DEF Added, Queues
<1>9. Once(queues') /\ Tasks(queues') = Tasks(queues) \cup {d}
  BY <1>4, <1>5, <1>7, <1>8, AddedOnce DEF IInv
<1> QED
  BY <1>2, <1>5, <1>6, <1>7, <1>8, <1>9 DEF Added

\* It has a node then.
LEMMA SeedStep ==
    ASSUME IInv, SeedRoot
    PROVE  IInv'
<1>1. Main \in Actor /\ \A s \in Slot : s \in Actor /\ s # Main
  BY SlotsAreActors
<1>2. PICK d : d = cur[Main]
  OBVIOUS
<1>3. /\ pc[Main] = "seed" /\ node' = [node EXCEPT ![d] = "live"]
      /\ remaining' = [remaining EXCEPT ![d] = 1]
      /\ operand' = operand + 1 /\ cur' = [cur EXCEPT ![Main] = None]
      /\ goal' = [goal EXCEPT ![Main] = "none"] /\ pc' = [pc EXCEPT ![Main] = "next"]
      /\ UNCHANGED <<todo, entry>>
  BY <1>2 DEF SeedRoot, Idle, Goto, scanning
<1>4. /\ d \in Dir /\ d \in Unseeded /\ queues' \in Queues /\ Once(queues')
      /\ Unseeded' = Unseeded \ {d} /\ Tasks(queues') = Tasks(queues) \cup {d}
  BY <1>2, SeedAdds
<1>5. Types'
  BY <1>1, <1>3, <1>4 DEF IInv, Types
<1>6. MainShape'
  BY <1>1, <1>3 DEF IInv, Types, MainShape
<1>7. \A s \in Slot : /\ WorkerShape(s)' /\ Phase(s)' = Phase(s) /\ cur'[s] = cur[s]
  BY <1>1, <1>3 DEF IInv, Types, WorkerShape, Phase
<1>8. View' \in View0
  BY <1>5, <1>7, ViewTyped
<1>9. Seeds(View, View', d)
  BY <1>3, <1>4, <1>7, <1>8, Fields, NextFields DEF Seeds
<1>10. Sound(View')
  BY <1>9, SeedsIsSound DEF IInv
<1> QED
  BY <1>4, <1>5, <1>6, <1>7, <1>10 DEF IInv

----------------------------------------------------------------------------
(* The theorems                                                            *)

\* At the start nothing is allocated.
LEMMA InitStep ==
    ASSUME Init
    PROVE  IInv
<1>1. Main \in Actor /\ \A s \in Slot : s \in Actor /\ s # Main
  BY SlotsAreActors
<1>2. Types
  <2>1. queues \in Queues
    <3>1. <<>> \in Seq(Dir)
      BY EmptySeq
    <3> QED
      BY <3>1 DEF Init, Queues, kRunnable, kAwaitingDescriptor
  <2>2. pc \in [Actor -> Opens \cup {"idle", "scan", "close", "count", "publish", "unref",
                                     "rmdir", "delete", "finish", "next", "seed", "exited"}]
    BY DEF Init
  <2> QED
    BY <2>1, <2>2 DEF Init, Types
<1>3. \A s \in Slot : WorkerShape(s) /\ Phase(s) = "idle"
  BY <1>1 DEF Init, WorkerShape, Phase
<1>4. MainShape
  BY <1>1 DEF Init, MainShape
<1>5. \A o, p, i, d : ~At(queues, o, p, i, d)
  <2>1. Len(<<>>) = 0
    BY EmptySeq
  <2> QED
    BY <2>1 DEF Init, At, kRunnable, kAwaitingDescriptor
<1>6. Once(queues) /\ Tasks(queues) = {}
  BY <1>5 DEF Once, Tasks
<1>7. View \in View0
  BY <1>2, <1>3, ViewTyped
<1>8. \A s \in Slot : View.phase[s] = "idle"
  BY <1>3, Fields
<1>9. /\ \A s \in Slot : ~Works(View, s) /\ ~Scans(View, s)
      /\ \A d : ~Waits(View, d) /\ ~Published(View, d) /\ ~Fresh(View, d)
  BY <1>6, <1>8, Fields DEF Works, Scans, Waits, Published, Fresh
<1>10. \A d \in Dir : View.node[d] = "none"
  BY Fields DEF Init
<1>11. \A d \in Unseeded : d \in Dir /\ Parent[d] = None
  <2> SUFFICES ASSUME NEW i \in operand .. Len(Operands)
               PROVE  Operands[i] \in Dir /\ Parent[Operands[i]] = None
    BY DEF Unseeded
  <2>1. i \in 1 .. Len(Operands)
    BY DEF Init
  <2>2. Operands[i] \in Dir /\ Operands[i] \in ToSet(Operands)
    BY <2>1, TreeAssumption, LenProperties DEF ToSet
  <2> QED
    BY <2>2, ParentAssumption DEF Object
<1>12. Typed(View)
  BY <1>7, <1>8, <1>9, <1>11, Fields DEF Typed
<1>13. ScannedOnce(View) /\ RemovedAlone(View)
  BY <1>6, <1>8, <1>9, Fields DEF ScannedOnce, RemovedAlone
<1>14. AllLive(View)
  BY <1>9, <1>10 DEF AllLive
<1>15. \A s \in Slot : View.todo[s] = {}
  BY Fields DEF Init
<1>16. AheadIsNew(View) /\ FreshIsNew(View)
  BY <1>8, <1>9, <1>15 DEF AheadIsNew, FreshIsNew
<1>17. UnseededIsNew(View) /\ Exact(View)
  BY <1>10, <1>11, Fields DEF UnseededIsNew, Exact
<1> QED
  BY <1>2, <1>3, <1>4, <1>6, <1>12, <1>13, <1>14, <1>16, <1>17 DEF IInv, Sound

\* Every step keeps the invariant.
LEMMA EveryStep ==
    ASSUME IInv, [Next]_vars
    PROVE  IInv'
<1>1. CASE UNCHANGED vars
  <2>1. MainQuiet
    BY <1>1 DEF MainQuiet, IInv, Types, MainShape, vars, nodes, sched, scanning
  <2> QED
    BY <2>1, MainQuietIsSound
<1>2. ASSUME NEW s \in Slot, WorkerStep(s)
      PROVE  IInv'
  <2>1. CASE Opening(s)
    BY <1>2, <2>1, WorkerOpensStep, LookStep
  <2>2. CASE UnlinkFile(s) \/ SkipGone(s) \/ StatFails(s) \/ ReadFails(s)
    BY <1>2, <2>2, SkipStep, ReadFailsStep
  <2>3. CASE MeetChild(s) \/ ChildRefused(s)
    BY <1>2, <2>3, LookStep
  <2>4. CASE Acquire(s) \/ Park(s) \/ Abandon(s) \/ Finish(s)
    BY <1>2, <2>4, AcquireStep, ParkStep, AbandonStep, FinishStep
  <2>5. CASE Count(s) \/ Publish(s) \/ CloseScanned(s) \/ Unref(s)
    BY <1>2, <2>5, CountStep, PublishStep, CloseStep, UnrefStep
  <2>6. CASE RemoveEmpty(s) \/ RemoveEmptyFails(s) \/ Delete(s)
    BY <1>2, <2>6, RemoveEmptyStep, DeleteStep
  <2> QED
    BY <1>2, <2>1, <2>2, <2>3, <2>4, <2>5, <2>6 DEF WorkerStep
<1>3. CASE MainStep
  BY <1>3, MainStepIsQuiet, MainOpeningStep, SeedStep DEF MainStep
<1>4. CASE FillTable \/ ClearTable \/ OthersRemove
  BY <1>4, SystemStep
<1> QED
  BY <1>1, <1>2, <1>3, <1>4 DEF Next

\* The invariant holds in every state.
THEOREM WalkIsSound == Spec => []IInv
<1>1. Init => IInv
  BY InitStep
<1>2. IInv /\ [Next]_vars => IInv'
  BY EveryStep
<1> QED
  BY <1>1, <1>2, PTL DEF Spec

\* What an object lies in, itself included.
Closed(objects) == \A x \in objects : Parent[x] # None => Parent[x] \in objects
Around(x) == {y \in Object : \A objects \in SUBSET Object :
                 x \in objects /\ Closed(objects) => y \in objects}

LEMMA AroundIsParents ==
    ASSUME NEW x \in Object
    PROVE  Around(x) = {x} \cup (IF Parent[x] = None THEN {} ELSE Around(Parent[x]))
<1>1. Parent[x] # None => Parent[x] \in Object
  BY ParentAssumption DEF Object
<1>2. PICK up : up = IF Parent[x] = None THEN {} ELSE Around(Parent[x])
  OBVIOUS
<1>3. up \subseteq Around(x) /\ x \in Around(x)
  BY <1>2 DEF Around, Closed
<1>4. {x} \cup up \subseteq Object /\ Closed({x} \cup up)
  <2>1. {x} \cup up \subseteq Object
    BY <1>2 DEF Around
  <2>2. Parent[x] # None => Parent[x] \in up
    BY <1>1, <1>2 DEF Around
  <2>3. ASSUME NEW y \in up, Parent[y] # None PROVE Parent[y] \in up
    <3>1. Parent[y] \in Object /\ y \in Object
      BY <2>1, <2>3, ParentAssumption DEF Object
    <3>2. Parent[x] # None /\ y \in Around(Parent[x])
      BY <2>3, <1>2
    <3>3. Parent[y] \in Around(Parent[x])
      BY <2>3, <3>1, <3>2 DEF Around, Closed
    <3> QED
      BY <3>2, <3>3, <1>2
  <2> QED
    BY <2>1, <2>2, <2>3 DEF Closed
<1>5. Around(x) \subseteq {x} \cup up
  BY <1>4 DEF Around
<1> QED
  BY <1>2, <1>3, <1>5

LEMMA ParentsDef ==
    \A x \in Object :
        Parents[x] = {x} \cup (IF Parent[x] = None THEN {} ELSE Parents[Parent[x]])
<1>1. PICK up : up = [x \in Object |-> Around(x)]
  OBVIOUS
<1>2. \A x \in Object : Parent[x] # None => Parent[x] \in Object
  BY ParentAssumption DEF Object
<1>3. up = [x \in Object |-> {x} \cup (IF Parent[x] = None THEN {} ELSE up[Parent[x]])]
  BY <1>1, <1>2, AroundIsParents
<1>4. Parents = [x \in Object |->
                    {x} \cup (IF Parent[x] = None THEN {} ELSE Parents[Parent[x]])]
  BY <1>3 DEF Parents
<1> QED
  BY <1>4

\* Whoever is referred to is allocated, and all that it lies in.
THEOREM NothingIsUsedAfterFree == Spec => []NoUseAfterFree
<1>1. IInv => NoUseAfterFree
  <2> SUFFICES ASSUME IInv
               PROVE  \A d \in Referenced : \A p \in Parents[d] : node[p] = "live"
    BY DEF NoUseAfterFree
  <2>1. \A d \in Referenced : d \in Dir /\ node[d] = "live"
    <3>1. ASSUME NEW d \in Queued PROVE d \in Dir /\ node[d] = "live"
      <4>1. d \in Tasks(queues)
        BY <3>1, TasksAreQueued DEF IInv, Types
      <4>2. d \in Dir /\ Waits(View, d)
        BY <4>1, Fields DEF Tasks, Waits
      <4> QED
        BY <4>2, Fields DEF IInv, Sound, AllLive
    <3>2. ASSUME NEW s \in Slot, pc[s] \notin {"idle", "finish"}
          PROVE  cur[s] \in Dir /\ node[cur[s]] = "live"
      <4>1. Phase(s) \notin {"idle", "finish"}
        BY <3>2 DEF Phase
      <4>2. Works(View, s)
        BY <4>1, Fields DEF Works
      <4> QED
        BY <4>2, Fields DEF IInv, Sound, AllLive, Typed
    <3>3. ASSUME NEW s \in Slot, pc[s] = "publish"
          PROVE  entry[s] \in Dir /\ node[entry[s]] = "live"
      <4>1. Phase(s) = "publishing"
        BY <3>3 DEF Phase, IInv, WorkerShape
      <4>2. entry[s] \in Dir /\ Waits(View, entry[s])
        BY <4>1, Fields DEF Waits, Published, IInv, Sound, Typed
      <4> QED
        BY <4>2, Fields DEF IInv, Sound, AllLive
    <3> QED
      BY <3>1, <3>2, <3>3 DEF Referenced
  <2>2. \A d \in Dir : node[d] = "live" /\ Parent[d] # None =>
           Parent[d] \in Dir /\ node[Parent[d]] = "live"
    BY Fields, ParentAssumption DEF IInv, Sound, AllLive, Object
  <2>3. PICK bad \in SUBSET Object :
           bad = {d \in Dir : node[d] = "live" /\ \E p \in Parents[d] : node[p] # "live"}
    BY DEF Object
  <2>4. bad = {}
    <3> SUFFICES ASSUME bad # {}
                 PROVE  FALSE
      OBVIOUS
    <3>1. PICK d \in bad : Parent[d] \notin bad
      BY TreeAssumption
    <3>2. /\ d \in Dir /\ d \in Object /\ node[d] = "live"
          /\ \E p \in Parents[d] : node[p] # "live"
      BY <3>1, <2>3 DEF Object
    <3>3. Parents[d] = {d} \cup (IF Parent[d] = None THEN {} ELSE Parents[Parent[d]])
      BY <3>2, ParentsDef
    <3>4. Parent[d] # None /\ \E p \in Parents[Parent[d]] : node[p] # "live"
      BY <3>2, <3>3
    <3> QED
      BY <3>1, <3>2, <3>4, <2>2, <2>3
  <2> QED
    BY <2>1, <2>3, <2>4
<1> QED
  BY <1>1, WalkIsSound, PTL

\* A node's counter is exact, whoever is at work on it.
THEOREM CountersAreExact == Spec => []RefcountIsExact
<1>1. IInv => RefcountIsExact
  <2> SUFFICES ASSUME IInv, NEW d \in Dir, node[d] = "live", ~Removing(d)
               PROVE  remaining[d] =
                         (IF Scanning(d) THEN 1 ELSE 0) + Cardinality(Workers(d))
                         + Cardinality({c \in Dir : Parent[c] = d /\ node[c] = "live"})
    BY DEF RefcountIsExact
  <2>1. \A s \in Slot :
           /\ pc[s] \in {"finish", "idle"} <=> Phase(s) \in {"finish", "idle"}
           /\ pc[s] = "publish" <=> Phase(s) = "publishing"
           /\ Phase(s) = "removing" =>
                 /\ pc[s] \in {"rmdir", "delete"} \/ goal[s] = "remove"
                 /\ pc[s] \notin {"unref", "finish"}
    BY DEF Phase, IInv, WorkerShape
  <2>2. ~Removed(View, d)
    BY <2>1, Fields DEF Removed, Removing
  <2>3. Workers(d) = Holders(View, d)
    BY <2>1, Fields DEF Workers, Holders, Works
  <2>4. Scanning(d) <=> Waits(View, d)
    BY <2>1, Fields, TasksAreQueued DEF Scanning, Waits, Published, IInv, Types
  <2>5. {c \in Dir : Parent[c] = d /\ node[c] = "live"} = Kids(View, d)
    BY Fields DEF Kids
  <2>6. Counted(View, d)
    BY <2>2, Fields DEF IInv, Sound, Exact
  <2> QED
    BY <2>3, <2>4, <2>5, <2>6, Fields DEF Counted
<1> QED
  BY <1>1, WalkIsSound, PTL

----------------------------------------------------------------------------
(* What is counted, and by what                                            *)

Busy == {s \in Slot : pc[s] # "idle"}
Reserving == {a \in Actor : Reserved(a)}
OpenDirs == {d \in Dir : fd[d]}

\* A worker is somewhere between the open of its directory and the close.
InScan(s) == Phase(s) \in {"scanning", "meeting", "publishing"}

\* What a thread has opened and not yet put into a queue.
Holds(a, d) ==
    \/ a \in Slot /\ cur[a] = d /\ InScan(a)
    \/ a \in Slot /\ entry[a] = d /\ pc[a] \in {"count", "publish"}
    \/ a = Main /\ cur[a] = d /\ pc[a] = "seed"

CountTypes ==
    /\ fd \in [Dir -> BOOLEAN] /\ extra \in [Actor -> 0 .. 2]
    /\ live \in Int /\ pending \in Int

\* OpenLong and RemoveEmpty hold descriptors at these places only.
ExtraShape(a) ==
    /\ extra[a] # 0 =>
          /\ goal[a] \in {"task", "remove"}
          /\ pc[a] \in Opens \cup {"scan", "rmdir", "delete"}
    /\ pc[a] \in {"reserve", "call", "refused"} => extra[a] <= 1
    /\ pc[a] = "rmdir" /\ cur[a] \in Long => extra[a] >= 1

\* An open directory is a task or held; what is being scanned is open.
DirsAreKept ==
    /\ \A d \in Dir : fd[d] => d \in Tasks(queues) \/ \E a \in Actor : Holds(a, d)
    /\ \A s \in Slot : InScan(s) => fd[cur[s]]

LeasesAreCounted ==
    live = Cardinality(OpenDirs) + Cardinality(Extras) + Cardinality(Reserving)

TasksAreCounted == pending = Cardinality(Tasks(queues)) + Cardinality(Busy)

\* A node that nobody removes has a reference left.
NodesAreReferenced ==
    \A d \in Dir : node[d] = "live" /\ ~Removed(View, d) => remaining[d] >= 1

ExitIsLast == pc[Main] = "exited" => pending = 0

LInv ==
    /\ CountTypes /\ (\A a \in Actor : ExtraShape(a)) /\ DirsAreKept
    /\ LeasesAreCounted /\ TasksAreCounted /\ NodesAreReferenced /\ ExitIsLast

----------------------------------------------------------------------------
(* Counting                                                                *)

\* Everything counted is finite.
LEMMA CountedIsFinite ==
    ASSUME NEW S,
           S \in SUBSET Slot \/ S \in SUBSET Actor \/ S \in SUBSET Dir
              \/ S \in SUBSET (Actor \X {1, 2})
    PROVE  IsFiniteSet(S) /\ Cardinality(S) \in Nat
<1>1. IsFiniteSet(Slot) /\ IsFiniteSet(Object)
  BY TreeAssumption, ThreadAssumption
<1>2. IsFiniteSet(Actor)
  BY <1>1, FS_AddElement DEF Actor
<1>3. Dir \in SUBSET Object
  BY DEF Object
<1>4. IsFiniteSet(Dir)
  BY <1>1, <1>3, FS_Subset
<1>5. IsFiniteSet({1} \cup {2}) /\ {1} \cup {2} = {1, 2}
  BY FS_Singleton, FS_AddElement
<1>6. IsFiniteSet(Actor \X {1, 2})
  BY <1>2, <1>5, FS_Product
<1>7. IsFiniteSet(S)
  BY <1>1, <1>2, <1>4, <1>6, FS_Subset
<1> QED
  BY <1>7, FS_CardinalityType

\* One more element counts one more.
LEMMA OneMore ==
    ASSUME NEW S, NEW T, NEW x, IsFiniteSet(S), x \notin S, T = S \cup {x}
    PROVE  Cardinality(T) = Cardinality(S) + 1
BY FS_AddElement

\* One element less counts one less.
LEMMA OneLess ==
    ASSUME NEW S, NEW T, NEW x, IsFiniteSet(S), x \in S, T = S \ {x}
    PROVE  Cardinality(T) = Cardinality(S) - 1
BY FS_RemoveElement

\* What the invariant counts, before a step and after it.
LEMMA CountsAreNatural ==
    /\ IsFiniteSet(Busy) /\ Cardinality(Busy) \in Nat
    /\ IsFiniteSet(Reserving) /\ Cardinality(Reserving) \in Nat
    /\ IsFiniteSet(OpenDirs) /\ Cardinality(OpenDirs) \in Nat
    /\ IsFiniteSet(Extras) /\ Cardinality(Extras) \in Nat
    /\ IsFiniteSet(Tasks(queues)) /\ Cardinality(Tasks(queues)) \in Nat
<1>1. /\ Busy \in SUBSET Slot /\ Reserving \in SUBSET Actor /\ OpenDirs \in SUBSET Dir
      /\ Extras \in SUBSET (Actor \X {1, 2}) /\ Tasks(queues) \in SUBSET Dir
  BY DEF Busy, Reserving, OpenDirs, Extras, Tasks
<1> QED
  BY <1>1, CountedIsFinite

\* The descriptors of a thread are one more, or one less.
LEMMA ExtraMore ==
    ASSUME CountTypes, NEW a \in Actor, extra[a] <= 1, extra' = [extra EXCEPT ![a] = @ + 1]
    PROVE  Cardinality(Extras') = Cardinality(Extras) + 1
<1>1. extra[a] + 1 \in {1, 2}
  BY DEF CountTypes
<1>2. Extras' = Extras \cup {<<a, extra[a] + 1>>}
  <2>1. \A h \in Actor \X {1, 2} :
           h[2] <= extra'[h[1]] <=> h[2] <= extra[h[1]] \/ h = <<a, extra[a] + 1>>
    <3> SUFFICES ASSUME NEW b \in Actor, NEW i \in {1, 2}
                 PROVE  i <= extra'[b] <=> i <= extra[b] \/ <<b, i>> = <<a, extra[a] + 1>>
      OBVIOUS
    <3>1. extra[a] \in 0 .. 2 /\ extra'[b] = IF b = a THEN extra[a] + 1 ELSE extra[b]
      BY DEF CountTypes
    <3> QED
      BY <3>1
  <2>2. <<a, extra[a] + 1>> \in Actor \X {1, 2}
    BY <1>1
  <2> QED
    BY <2>1, <2>2 DEF Extras
<1>3. <<a, extra[a] + 1>> \notin Extras
  BY DEF Extras, CountTypes
<1> QED
  BY <1>2, <1>3, CountsAreNatural, OneMore

\* Closing a descriptor RemoveEmpty or OpenLong held takes one from Extras.
LEMMA ExtraLess ==
    ASSUME CountTypes, NEW a \in Actor, extra[a] >= 1, extra' = [extra EXCEPT ![a] = @ - 1]
    PROVE  Cardinality(Extras') = Cardinality(Extras) - 1
<1>1. extra[a] \in {1, 2}
  BY DEF CountTypes
<1>2. Extras' = Extras \ {<<a, extra[a]>>}
  <2>1. \A h \in Actor \X {1, 2} :
           h[2] <= extra'[h[1]] <=> h[2] <= extra[h[1]] /\ h # <<a, extra[a]>>
    <3> SUFFICES ASSUME NEW b \in Actor, NEW i \in {1, 2}
                 PROVE  i <= extra'[b] <=> i <= extra[b] /\ <<b, i>> # <<a, extra[a]>>
      OBVIOUS
    <3>1. extra[a] \in 0 .. 2 /\ extra'[b] = IF b = a THEN extra[a] - 1 ELSE extra[b]
      BY DEF CountTypes
    <3> QED
      BY <3>1
  <2> QED
    BY <2>1 DEF Extras
<1>3. <<a, extra[a]>> \in Extras
  BY <1>1 DEF Extras
<1> QED
  BY <1>2, <1>3, CountsAreNatural, OneLess

----------------------------------------------------------------------------
(* Whose variables a step changes                                          *)

\* Only thread a moves.
Alone(a) ==
    /\ \A b \in Actor \ {a} :
          pc'[b] = pc[b] /\ goal'[b] = goal[b] /\ cur'[b] = cur[b] /\ extra'[b] = extra[b]
    /\ \A t \in Slot \ {a} : entry'[t] = entry[t]

\* A step of a call that opens changes neither a task nor an entry.
LEMMA OpeningFrame ==
    ASSUME IInv, CountTypes, NEW a \in Actor, Opening(a)
    PROVE  (Alone(a) /\ UNCHANGED <<nodes, sched, cur, goal, entry>>) \/ OpenSucceeds(a)
<1>1. CASE Reserve(a)
  BY <1>1 DEF Reserve, Alone, Goto, IInv, Types, CountTypes, scanning
<1>2. CASE OpenPiece(a)
  BY <1>2 DEF OpenPiece, Alone, Goto, IInv, Types, CountTypes, scanning
<1>3. CASE OpenFails(a)
  BY <1>3 DEF OpenFails, Alone, Goto, IInv, Types, CountTypes, scanning
<1>4. CASE OpenRefused(a)
  BY <1>4 DEF OpenRefused, Alone, Goto, IInv, Types, CountTypes, scanning
<1>5. CASE Refused(a)
  BY <1>5 DEF Refused, Alone, Goto, IInv, Types, CountTypes, scanning
<1>6. CASE Unwind(a)
  BY <1>6 DEF Unwind, Alone, Goto, IInv, Types, CountTypes, scanning
<1> QED
  BY <1>1, <1>2, <1>3, <1>4, <1>5, <1>6 DEF Opening

\* An open that succeeds moves its own thread and no node, queue or task.
LEMMA OpenSucceedsFrame ==
    ASSUME IInv, CountTypes, NEW a \in Actor, OpenSucceeds(a)
    PROVE  Alone(a) /\ UNCHANGED <<node, remaining, sched, cur, goal, entry>>
BY DEF OpenSucceeds, Alone, Goto, IInv, Types, CountTypes

\* A worker's step changes the program counter and locals of that worker only.
LEMMA WorkersActAlone ==
    ASSUME IInv, CountTypes, NEW s \in Slot, WorkerStep(s)
    PROVE  Alone(s)
<1>1. s \in Actor
  BY SlotsAreActors
<1>2. CASE Opening(s)
  BY <1>1, <1>2, OpeningFrame, OpenSucceedsFrame
<1>3. CASE Acquire(s)
  <2>1. PICK d : Start(s, d)
    BY <1>3, AcquireTakes
  <2> QED
    BY <1>1, <1>3, <2>1 DEF Acquire, Start, Goto, Alone, IInv, Types
<1>4. CASE Park(s) \/ Abandon(s)
  BY <1>1, <1>4 DEF Park, Abandon, StartRemove, Goto, Alone, IInv, Types, scanning
<1>5. CASE UnlinkFile(s) \/ SkipGone(s) \/ StatFails(s)
  BY <1>1, <1>5 DEF UnlinkFile, SkipGone, StatFails, Alone
<1>6. CASE ReadFails(s) \/ CloseScanned(s)
  BY <1>1, <1>6 DEF ReadFails, CloseScanned, Goto, Alone, IInv, Types, scanning
<1>7. CASE MeetChild(s)
  BY <1>1, <1>7 DEF MeetChild, Goto, Alone, IInv, Types
<1>8. CASE ChildRefused(s)
  BY <1>1, <1>8 DEF ChildRefused, LeaveEntry, Goto, Alone, IInv, Types
<1>9. CASE Count(s)
  BY <1>1, <1>9 DEF Count, Goto, Alone, IInv, Types, scanning
<1>10. CASE Publish(s)
  BY <1>1, <1>10 DEF Publish, LeaveEntry, Goto, Alone, IInv, Types
<1>11. CASE Unref(s)
  BY <1>1, <1>11 DEF Unref, StartRemove, Goto, Alone, IInv, Types, scanning
<1>12. CASE RemoveEmpty(s) \/ RemoveEmptyFails(s)
  BY <1>1, <1>12 DEF RemoveEmpty, RemoveEmptyFails, Goto, Alone, IInv, Types, scanning
<1>13. CASE Delete(s) \/ Finish(s)
  BY <1>1, <1>13 DEF Delete, Finish, Goto, Alone, IInv, Types, scanning
<1> QED
  BY <1>2, <1>3, <1>4, <1>5, <1>6, <1>7, <1>8, <1>9, <1>10, <1>11, <1>12, <1>13
     DEF WorkerStep

\* A step of the main thread changes its own program counter and locals only.
LEMMA MainActsAlone ==
    ASSUME IInv, CountTypes, MainStep
    PROVE  Alone(Main)
<1>1. Main \in Actor
  BY SlotsAreActors
<1>2. CASE Opening(Main)
  BY <1>1, <1>2, OpeningFrame, OpenSucceedsFrame
<1>3. CASE NextOperand \/ OperandGone
  BY <1>1, <1>3 DEF NextOperand, OperandGone, Goto, Alone, IInv, Types, scanning
<1>4. CASE SeedRoot \/ RootRefused
  BY <1>1, <1>4 DEF SeedRoot, RootRefused, Idle, Goto, Alone, IInv, Types, scanning
<1>5. CASE Wait
  BY <1>1, <1>5 DEF Wait, Goto, Alone, IInv, Types, scanning
<1> QED
  BY <1>2, <1>3, <1>4, <1>5 DEF MainStep

----------------------------------------------------------------------------
(* The descriptors of OpenLong and RemoveEmpty                             *)

\* A thread at no open and at no removal holds none.
LEMMA NoExtra ==
    ASSUME IInv, CountTypes, NEW a \in Actor, ExtraShape(a),
           \/ pc[a] \notin Opens \cup {"scan", "rmdir", "delete"}
           \/ goal[a] \notin {"task", "remove"}
           \/ pc[a] \notin {"reserve", "call", "refused", "rmdir"} /\ Unwound(a)
    PROVE  extra[a] = 0
BY DEF ExtraShape, Unwound, Kept, CountTypes, Opens

\* An open keeps them where they belong.
LEMMA OpeningExtra ==
    ASSUME IInv, CountTypes, NEW a \in Actor, ExtraShape(a), Opening(a)
    PROVE  CountTypes' /\ ExtraShape(a)'
<1>1. /\ extra[a] \in 0 .. 2 /\ extra \in [Actor -> 0 .. 2] /\ live \in Int
      /\ pc = [b \in Actor |-> pc[b]] /\ goal[a] \in {"none", "root", "task", "child", "remove"}
      /\ fd \in [Dir -> BOOLEAN] /\ pending \in Int
  BY DEF CountTypes, IInv, Types
<1>2. CASE Reserve(a)
  <2>1. /\ pc'[a] = "call" /\ pc[a] = "reserve" /\ UNCHANGED <<fd, extra, pending, goal, cur>>
        /\ live' = live + 1
    BY <1>1, <1>2 DEF Reserve, Goto, nodes, sched
  <2> QED
    BY <1>1, <2>1 DEF CountTypes, ExtraShape, Opens
<1>3. CASE OpenPiece(a)
  <2>1. /\ pc'[a] = "reserve" /\ UNCHANGED <<fd, live, pending, goal, cur>>
        /\ extra' = [extra EXCEPT ![a] = 1] /\ goal[a] \in {"task", "remove"}
    BY <1>1, <1>3 DEF OpenPiece, NeedsPiece, Goto, nodes, sched
  <2> QED
    BY <1>1, <2>1 DEF CountTypes, ExtraShape, Opens
<1>4. CASE OpenSucceeds(a)
  <2>1. extra[a] <= 1 /\ pc[a] = "call" /\ pc[a] \in Opens
    BY <1>4 DEF OpenSucceeds, ExtraShape, Opens
  <2>2. CASE goal[a] = "remove"
    <3>1. /\ pc'[a] = "rmdir" /\ extra' = [extra EXCEPT ![a] = @ + 1]
          /\ UNCHANGED <<fd, live, pending, goal, cur>>
      BY <1>1, <1>4, <2>2 DEF OpenSucceeds, AfterOpen, Goto, sched
    <3>2. extra[a] + 1 \in 1 .. 2
      BY <1>1, <2>1
    <3>3. extra' \in [Actor -> 0 .. 2] /\ extra'[a] = extra[a] + 1
      BY <1>1, <3>1, <3>2
    <3> QED
      BY <1>1, <2>2, <3>1, <3>2, <3>3 DEF CountTypes, ExtraShape
  <2>3. CASE goal[a] # "remove"
    <3>1. /\ fd' = [fd EXCEPT ![Target(a)] = TRUE] /\ UNCHANGED <<extra, live, pending, goal, cur>>
          /\ pc' = [pc EXCEPT ![a] = AfterOpen(a)]
      BY <1>4, <2>3 DEF OpenSucceeds, Goto, sched
    <3>2. CountTypes'
      BY <1>1, <3>1 DEF CountTypes
    <3>3. goal[a] \in {"root", "task", "child"}
      <4>1. pc[a] \notin {"idle", "next", "exited"}
        BY <2>1
      <4> QED
        BY <1>1, <2>3, <4>1, SlotsAreActors DEF IInv, WorkerShape, MainShape, Actor
    <3>4. CASE goal[a] = "task"
      <4>1. pc'[a] = "scan"
        BY <1>1, <3>1, <3>4 DEF AfterOpen
      <4> QED
        BY <3>1, <3>2, <3>4, <4>1 DEF ExtraShape
    <3>5. CASE goal[a] # "task"
      <4>1. extra[a] = 0
        BY <2>3, <3>5, NoExtra
      <4>2. pc'[a] \in {"seed", "count"}
        BY <1>1, <3>1, <3>3, <3>5 DEF AfterOpen
      <4> QED
        BY <3>1, <3>2, <4>1, <4>2 DEF ExtraShape
    <3> QED
      BY <3>4, <3>5
  <2> QED
    BY <2>2, <2>3
<1>5. CASE OpenFails(a)
  <2>1. /\ pc'[a] \in {"gone", "giveup"} /\ pc[a] = "call"
        /\ UNCHANGED <<fd, extra, pending, goal, cur>> /\ live' = live - 1
    BY <1>1, <1>5 DEF OpenFails, Goto, nodes, sched
  <2> QED
    BY <1>1, <2>1 DEF CountTypes, ExtraShape, Opens
<1>6. CASE OpenRefused(a)
  <2>1. /\ pc'[a] = "refused" /\ pc[a] = "call"
        /\ UNCHANGED <<fd, extra, pending, goal, cur, live>>
    BY <1>1, <1>6 DEF OpenRefused, Goto, nodes, sched, pool
  <2> QED
    BY <1>1, <2>1 DEF CountTypes, ExtraShape, Opens
<1>7. CASE Refused(a)
  <2>1. /\ pc'[a] \in {"retry", "giveup"} /\ pc[a] = "refused"
        /\ UNCHANGED <<fd, extra, pending, goal, cur>> /\ live' = live - 1
    BY <1>1, <1>7 DEF Refused, Goto, nodes, sched
  <2> QED
    BY <1>1, <2>1 DEF CountTypes, ExtraShape, Opens
<1>8. CASE Unwind(a)
  <2>1. /\ pc[a] \in {"scan", "rmdir", "delete", "retry", "giveup", "gone"} /\ ~Unwound(a)
        /\ extra' = [extra EXCEPT ![a] = @ - 1] /\ live' = live - 1
        /\ UNCHANGED <<fd, pending, goal, cur, pc>>
    BY <1>8 DEF Unwind, CloseOne, nodes, sched
  <2>2. extra[a] >= 1 /\ (pc[a] = "rmdir" /\ cur[a] \in Long => extra[a] >= 2)
    BY <1>1, <2>1 DEF Unwound, Kept, ExtraShape
  <2>3. extra' \in [Actor -> 0 .. 2] /\ extra'[a] = extra[a] - 1 /\ extra[a] - 1 \in 0 .. 1
    BY <1>1, <2>1, <2>2
  <2> QED
    BY <1>1, <2>1, <2>2, <2>3 DEF CountTypes, ExtraShape
<1> QED
  BY <1>2, <1>3, <1>4, <1>5, <1>6, <1>7, <1>8 DEF Opening

\* So does every other step of a worker.
LEMMA WorkerExtra ==
    ASSUME IInv, CountTypes, NEW s \in Slot, ExtraShape(s), WorkerStep(s), ~Opening(s)
    PROVE  CountTypes' /\ ExtraShape(s)' /\ extra' = extra
<1>1. /\ s \in Actor /\ s # Main /\ WorkerShape(s) /\ live \in Int /\ pending \in Int
      /\ pc = [b \in Actor |-> pc[b]] /\ goal = [b \in Actor |-> goal[b]]
      /\ fd \in [Dir -> BOOLEAN] /\ extra \in [Actor -> 0 .. 2]
  BY SlotsAreActors DEF IInv, Types, CountTypes
<1>2. CASE Acquire(s)
  <2>1. /\ UNCHANGED <<fd, extra, live, pending>> /\ pc[s] = "idle"
    BY <1>2 DEF Acquire, nodes, pool
  <2>2. PICK d : Start(s, d)
    BY <1>2, AcquireTakes
  <2>3. pc'[s] \in {"scan", "reserve"} /\ extra[s] = 0
    BY <1>1, <2>1, <2>2, NoExtra DEF Start, Goto, Opens
  <2> QED
    BY <1>1, <2>1, <2>3 DEF CountTypes, ExtraShape
<1>3. CASE Park(s)
  <2>1. /\ UNCHANGED <<fd, extra, live>> /\ pc[s] = "retry" /\ pc'[s] = "finish"
        /\ Unwound(s) /\ pending' = pending + 1
    BY <1>1, <1>3 DEF Park, Insert, Goto, nodes, pool
  <2>2. extra[s] = 0
    BY <1>1, <2>1, NoExtra
  <2> QED
    BY <1>1, <2>1, <2>2 DEF CountTypes, ExtraShape
<1>4. CASE Abandon(s)
  <2>1. /\ UNCHANGED <<fd, extra, live, pending, cur>> /\ pc[s] \in {"giveup", "gone"}
        /\ Unwound(s)
    BY <1>4 DEF Abandon, Hopeless, nodes, sched, pool
  <2>2. extra[s] = 0
    BY <1>1, <2>1, NoExtra
  <2>3. pc'[s] = "rmdir" => cur'[s] \notin Long
    BY <1>1, <1>4, <2>1 DEF Abandon, StartRemove, Goto
  <2> QED
    BY <1>1, <2>1, <2>2, <2>3 DEF CountTypes, ExtraShape
<1>5. CASE UnlinkFile(s) \/ SkipGone(s) \/ StatFails(s)
  <2>1. UNCHANGED <<fd, extra, live, pending, cur, pc, goal>>
    BY <1>5 DEF UnlinkFile, SkipGone, StatFails, nodes, sched, pool
  <2> QED
    BY <1>1, <2>1 DEF CountTypes, ExtraShape
<1>6. CASE ReadFails(s)
  <2>1. /\ UNCHANGED <<fd, extra, live, pending, cur>> /\ pc[s] = "scan" /\ pc'[s] = "close"
        /\ Unwound(s)
    BY <1>1, <1>6 DEF ReadFails, Reading, Goto, nodes, sched, pool
  <2>2. extra[s] = 0
    BY <1>1, <2>1, NoExtra
  <2> QED
    BY <1>1, <2>1, <2>2 DEF CountTypes, ExtraShape
<1>7. CASE MeetChild(s)
  <2>1. /\ UNCHANGED <<fd, extra, live, pending, cur>> /\ pc[s] = "scan" /\ Unwound(s)
        /\ pc'[s] \in {"count", "reserve"}
    BY <1>1, <1>7 DEF MeetChild, Reading, Goto, nodes, sched, pool
  <2>2. extra[s] = 0
    BY <1>1, <2>1, NoExtra
  <2> QED
    BY <1>1, <2>1, <2>2 DEF CountTypes, ExtraShape
<1>8. CASE ChildRefused(s)
  <2>1. /\ UNCHANGED <<fd, extra, live, pending, cur>> /\ goal[s] = "child"
        /\ pc'[s] = "scan"
    BY <1>1, <1>8 DEF ChildRefused, LeaveEntry, Goto, nodes, sched, pool
  <2>2. extra[s] = 0
    BY <1>1, <2>1, NoExtra
  <2> QED
    BY <1>1, <2>1, <2>2 DEF CountTypes, ExtraShape
<1>9. CASE Count(s)
  <2>1. /\ UNCHANGED <<fd, extra, live, pending, cur>> /\ goal[s] = "child"
        /\ pc'[s] = "publish"
    BY <1>1, <1>9 DEF Count, Goto, sched, pool, WorkerShape
  <2>2. extra[s] = 0
    BY <1>1, <2>1, NoExtra
  <2> QED
    BY <1>1, <2>1, <2>2 DEF CountTypes, ExtraShape
<1>10. CASE Publish(s)
  <2>1. /\ UNCHANGED <<fd, extra, live, cur>> /\ goal[s] = "child" /\ pc'[s] = "scan"
        /\ pending' = pending + 1
    BY <1>1, <1>10 DEF Publish, Insert, LeaveEntry, Goto, nodes, pool, WorkerShape
  <2>2. extra[s] = 0
    BY <1>1, <2>1, NoExtra
  <2> QED
    BY <1>1, <2>1, <2>2 DEF CountTypes, ExtraShape
<1>11. CASE CloseScanned(s)
  <2>1. /\ fd' = [fd EXCEPT ![cur[s]] = FALSE] /\ live' = live - 1
        /\ UNCHANGED <<extra, pending, cur>> /\ pc'[s] = "unref"
        /\ (pc[s] = "scan" /\ Unwound(s)) \/ pc[s] = "close"
    BY <1>1, <1>11 DEF CloseScanned, Reading, CloseOne, Goto, sched
  <2>2. extra[s] = 0
    BY <1>1, <2>1, NoExtra DEF Opens
  <2>3. fd' \in [Dir -> BOOLEAN]
    BY <1>1, <2>1
  <2>4. CountTypes'
    BY <1>1, <2>1, <2>3 DEF CountTypes
  <2> QED
    BY <1>1, <2>1, <2>2, <2>4 DEF ExtraShape
<1>12. CASE Unref(s)
  <2>1. UNCHANGED <<fd, extra, live, pending, cur>> /\ pc[s] = "unref"
    BY <1>12 DEF Unref, sched, pool
  <2>2. extra[s] = 0
    BY <1>1, <2>1, NoExtra DEF Opens
  <2>3. pc'[s] = "rmdir" => cur'[s] \notin Long
    BY <1>1, <1>12, <2>1 DEF Unref, StartRemove, Goto
  <2> QED
    BY <1>1, <2>1, <2>2, <2>3 DEF CountTypes, ExtraShape
<1>13. CASE RemoveEmpty(s) \/ RemoveEmptyFails(s)
  <2>1. /\ UNCHANGED <<fd, extra, live, pending, cur, goal>> /\ goal[s] = "remove"
        /\ pc'[s] = "delete"
    BY <1>1, <1>13 DEF RemoveEmpty, RemoveEmptyFails, Goto, nodes, sched, pool, WorkerShape
  <2> QED
    BY <1>1, <2>1 DEF CountTypes, ExtraShape
<1>14. CASE Delete(s)
  <2>1. /\ UNCHANGED <<fd, extra, live, pending, goal>> /\ pc[s] = "delete" /\ Unwound(s)
        /\ pc'[s] \in {"finish", "unref"}
    BY <1>1, <1>14 DEF Delete, Goto, sched, pool
  <2>2. extra[s] = 0
    BY <1>1, <2>1, NoExtra
  <2> QED
    BY <1>1, <2>1, <2>2 DEF CountTypes, ExtraShape
<1>15. CASE Finish(s)
  <2>1. /\ UNCHANGED <<fd, extra, live>> /\ pc[s] = "finish" /\ pc'[s] = "idle"
        /\ pending' = pending - 1
    BY <1>1, <1>15 DEF Finish, Goto, nodes, pool
  <2>2. extra[s] = 0
    BY <1>1, <2>1, NoExtra DEF Opens
  <2> QED
    BY <1>1, <2>1, <2>2 DEF CountTypes, ExtraShape
<1> QED
  BY <1>2, <1>3, <1>4, <1>5, <1>6, <1>7, <1>8, <1>9, <1>10, <1>11, <1>12, <1>13, <1>14,
     <1>15 DEF WorkerStep

\* And of RunRm.
LEMMA MainExtra ==
    ASSUME IInv, CountTypes, ExtraShape(Main), MainStep, ~Opening(Main)
    PROVE  CountTypes' /\ ExtraShape(Main)' /\ extra' = extra
<1>1. Main \in Actor /\ Main \notin Slot
  BY SlotsAreActors
<1>2. extra[Main] = 0
  <2>1. goal[Main] = "root" \/ pc[Main] \in {"next", "exited"}
    BY DEF IInv, MainShape
  <2> QED
    BY <1>1, <2>1, NoExtra DEF Opens
<1>3. UNCHANGED <<fd, extra, live>> /\ (pending' = pending \/ pending' = pending + 1)
  BY DEF MainStep, NextOperand, OperandGone, SeedRoot, RootRefused, Wait, Insert, nodes,
         sched, pool
<1>4. pc'[Main] # "rmdir"
  BY <1>1 DEF MainStep, NextOperand, OperandGone, SeedRoot, RootRefused, Wait, Idle, Goto,
              IInv, Types
<1> QED
  BY <1>2, <1>3, <1>4 DEF CountTypes, ExtraShape

----------------------------------------------------------------------------
(* Leases                                                                  *)

\* Nobody reserves, opens or closes.
LEMMA LeasesStay ==
    ASSUME LeasesAreCounted, NEW a \in Actor, Alone(a), UNCHANGED <<live, fd, extra>>,
           Reserved(a)' <=> Reserved(a)
    PROVE  LeasesAreCounted'
<1>1. Reserving' = Reserving
  BY DEF Reserving, Reserved, Alone
<1>2. OpenDirs' = OpenDirs /\ Extras' = Extras
  BY DEF OpenDirs, Extras
<1> QED
  BY <1>1, <1>2 DEF LeasesAreCounted

\* What is opened for a scan was closed.
LEMMA NotYetOpen ==
    ASSUME IInv, DirsAreKept, NEW a \in Actor, OpenSucceeds(a), goal[a] # "remove"
    PROVE  Target(a) \in Dir /\ ~fd[Target(a)]
<1>1. pc[a] = "call" /\ (a \in Slot \/ a = Main)
  BY DEF OpenSucceeds, Actor
<1>2. PICK d : d = Target(a)
  OBVIOUS
<1>3. \A s \in Slot : /\ InScan(s) => cur[s] \in Dir /\ Scans(View, s) /\ Works(View, s)
                      /\ View.cur[s] = cur[s] /\ View.entry[s] = entry[s]
                      /\ View.phase[s] = Phase(s)
  <2>1. \A s \in Slot : InScan(s) => Scans(View, s) /\ Works(View, s)
    BY Fields DEF InScan, Scans, Works
  <2> QED
    BY <2>1, Fields DEF IInv, Sound, Typed
<1>4. \A s \in Slot : pc[s] = "count" => Phase(s) = "meeting" /\ InScan(s)
  BY DEF IInv, WorkerShape, Phase, InScan, Opens
<1>5. \A s \in Slot : pc[s] = "publish" => Phase(s) = "publishing"
  BY DEF IInv, WorkerShape, Phase
<1>6. \A c \in Unseeded : c \in Dir /\ node[c] = "none" /\ Parent[c] = None
  BY Fields DEF IInv, Sound, UnseededIsNew, Typed, View0
<1>7. pc[Main] \in Opens \cup {"seed"} => cur[Main] \in Unseeded
  <2> SUFFICES ASSUME pc[Main] \in Opens \cup {"seed"}
               PROVE  cur[Main] \in Unseeded
    OBVIOUS
  <2>1. /\ operand <= Len(Operands) /\ cur[Main] = Operands[operand] /\ operand \in Nat
        /\ Len(Operands) \in Nat
    BY TreeAssumption, LenProperties DEF IInv, MainShape, Types, Opens
  <2> QED
    BY <2>1 DEF Unseeded
<1>8. \A c \in Dir : c \in Tasks(queues) => Waits(View, c) /\ node[c] = "live"
  BY Fields DEF Waits, IInv, Sound, AllLive
<1>9. \A c \in Dir, s \in Slot : entry[s] = c /\ pc[s] = "publish" =>
         Waits(View, c) /\ node[c] = "live"
  <2> SUFFICES ASSUME NEW c \in Dir, NEW s \in Slot, entry[s] = c, pc[s] = "publish"
               PROVE  Waits(View, c) /\ node[c] = "live"
    OBVIOUS
  <2>1. Waits(View, c)
    BY <1>3, <1>5 DEF Waits, Published
  <2> QED
    BY <2>1, Fields DEF IInv, Sound, AllLive
<1>10. \A s \in Slot : InScan(s) => node[cur[s]] = "live"
  BY <1>3, Fields DEF IInv, Sound, AllLive
<1>11. \A s \in Slot : pc[s] = "count" =>
          node[entry[s]] = "none" /\ entry[s] \in Dir /\ Parent[entry[s]] = cur[s]
  BY <1>3, <1>4, Fields DEF IInv, Sound, AheadIsNew, Typed
<1>12. None \notin Dir
  BY TreeAssumption DEF Object
<1>13. CASE a \in Slot /\ goal[a] = "task"
  <2>1. d = cur[a] /\ Phase(a) = "unopened"
    BY <1>1, <1>2, <1>13 DEF Target, Phase, Opens
  <2>2. /\ d \in Dir /\ node[d] = "live" /\ Scans(View, a) /\ ~Waits(View, d)
        /\ View.cur[a] = d
    BY <1>13, <2>1, Fields DEF IInv, Sound, Typed, AllLive, ScannedOnce, Works, Scans
  <2>3. ~InScan(a)
    BY <2>1 DEF InScan
  <2>4. \A s \in Slot : InScan(s) => cur[s] # d
    BY <1>3, <1>13, <2>2, <2>3 DEF IInv, Sound, ScannedOnce
  <2>5. \A s \in Slot : pc[s] = "count" => entry[s] # d
    BY <1>11, <2>2
  <2>6. pc[Main] = "seed" => cur[Main] # d
    BY <1>6, <1>7, <2>2
  <2> QED
    BY <1>2, <1>8, <1>9, <2>2, <2>4, <2>5, <2>6 DEF DirsAreKept, Holds
<1>14. CASE a \in Slot /\ goal[a] = "child"
  <2>1. d = entry[a] /\ Phase(a) = "meeting" /\ InScan(a)
    BY <1>1, <1>2, <1>14 DEF Target, Phase, Opens, InScan
  <2>2. d \in Dir /\ node[d] = "none" /\ Parent[d] = cur[a]
    BY <1>14, <2>1, Fields DEF IInv, Sound, Typed, AheadIsNew
  <2>3. cur[a] \in Dir
    BY <1>3, <1>14, <2>1
  <2>4. \A s \in Slot : pc[s] = "count" => entry[s] # d
    <3> SUFFICES ASSUME NEW s \in Slot, pc[s] = "count", entry[s] = d
                 PROVE  FALSE
      OBVIOUS
    <3>1. cur[s] = cur[a] /\ InScan(s)
      BY <1>4, <1>11, <2>2
    <3>2. s = a
      BY <1>3, <1>14, <2>1, <3>1 DEF IInv, Sound, ScannedOnce
    <3> QED
      BY <1>1, <3>2
  <2>5. pc[Main] = "seed" => cur[Main] # d
    BY <1>6, <1>7, <1>12, <2>2, <2>3
  <2> QED
    BY <1>2, <1>8, <1>9, <1>10, <2>2, <2>4, <2>5 DEF DirsAreKept, Holds
<1>15. CASE a = Main
  <2>1. d = cur[Main] /\ d \in Dir /\ node[d] = "none" /\ Parent[d] = None
    BY <1>1, <1>2, <1>6, <1>7, <1>15 DEF Target, Opens, IInv, MainShape
  <2>2. \A s \in Slot : pc[s] = "count" => entry[s] # d
    BY <1>3, <1>4, <1>11, <1>12, <2>1
  <2> QED
    BY <1>1, <1>2, <1>8, <1>9, <1>10, <1>15, <2>1, <2>2 DEF DirsAreKept, Holds
<1>16. a \in Slot => goal[a] \in {"task", "child"}
  BY <1>1 DEF IInv, WorkerShape
<1> QED
  BY <1>1, <1>13, <1>14, <1>15, <1>16

\* What an open does to the leases.
LEMMA OpeningLeases ==
    ASSUME IInv, LInv, NEW a \in Actor, Opening(a)
    PROVE  LeasesAreCounted'
<1>1. /\ CountTypes /\ ExtraShape(a) /\ DirsAreKept /\ live \in Int
      /\ live = Cardinality(OpenDirs) + Cardinality(Extras) + Cardinality(Reserving)
      /\ pc = [b \in Actor |-> pc[b]]
  BY DEF LInv, LeasesAreCounted, CountTypes, IInv, Types
<1>2. /\ Cardinality(OpenDirs) \in Int /\ Cardinality(Extras) \in Int
      /\ Cardinality(Reserving) \in Int
  BY CountsAreNatural
<1>3. ASSUME pc[a] \in {"call", "refused"}, NEW label, pc' = [pc EXCEPT ![a] = label],
             label \notin {"call", "refused"}
      PROVE  Cardinality(Reserving') = Cardinality(Reserving) - 1
  <2>1. a \in Reserving /\ Reserving' = Reserving \ {a}
    BY <1>1, <1>3 DEF Reserving, Reserved
  <2> QED
    BY <2>1, CountsAreNatural, OneLess
<1>4. CASE Reserve(a)
  <2>1. /\ pc[a] = "reserve" /\ pc' = [pc EXCEPT ![a] = "call"] /\ UNCHANGED <<fd, extra>>
        /\ live' = live + 1
    BY <1>4 DEF Reserve, Goto, nodes
  <2>2. a \notin Reserving /\ Reserving' = Reserving \cup {a}
    BY <1>1, <2>1 DEF Reserving, Reserved
  <2>3. Cardinality(Reserving') = Cardinality(Reserving) + 1
    BY <2>2, CountsAreNatural, OneMore
  <2>4. OpenDirs' = OpenDirs /\ Extras' = Extras
    BY <2>1 DEF OpenDirs, Extras
  <2> QED
    BY <1>1, <1>2, <2>1, <2>3, <2>4 DEF LeasesAreCounted
<1>5. CASE OpenPiece(a)
  <2>1. /\ pc[a] = "call" /\ UNCHANGED <<fd, live>>
        /\ \E label \in {"reserve"} : pc' = [pc EXCEPT ![a] = label]
        /\ extra' = [extra EXCEPT ![a] = 1] /\ extra[a] = 0 /\ 1 = extra[a] + 1
    BY <1>5 DEF OpenPiece, NeedsPiece, Goto, nodes
  <2>2. Cardinality(Reserving') = Cardinality(Reserving) - 1
    BY <1>3, <2>1
  <2>3. Cardinality(Extras') = Cardinality(Extras) + 1
    <3>1. extra' = [extra EXCEPT ![a] = @ + 1] /\ extra[a] <= 1
      BY <2>1
    <3> QED
      BY <1>1, <3>1, ExtraMore
  <2>4. OpenDirs' = OpenDirs
    BY <2>1 DEF OpenDirs
  <2> QED
    BY <1>1, <1>2, <2>1, <2>2, <2>3, <2>4 DEF LeasesAreCounted
<1>6. CASE OpenSucceeds(a)
  <2>1. pc[a] = "call" /\ live' = live /\ extra[a] <= 1
    BY <1>1, <1>6 DEF OpenSucceeds, ExtraShape
  <2>2. Cardinality(Reserving') = Cardinality(Reserving) - 1
    <3>1. AfterOpen(a) \in {"seed", "scan", "count", "rmdir"}
      BY <2>1, SlotsAreActors DEF AfterOpen, IInv, WorkerShape, MainShape, Actor
    <3> QED
      BY <1>3, <1>6, <2>1, <3>1 DEF OpenSucceeds, Goto
  <2>3. CASE goal[a] = "remove"
    <3>1. extra' = [extra EXCEPT ![a] = @ + 1] /\ fd' = fd
      BY <1>6, <2>3 DEF OpenSucceeds
    <3>2. Cardinality(Extras') = Cardinality(Extras) + 1
      BY <1>1, <2>1, <3>1, ExtraMore
    <3>3. OpenDirs' = OpenDirs
      BY <3>1 DEF OpenDirs
    <3> QED
      BY <1>1, <1>2, <2>1, <2>2, <3>2, <3>3 DEF LeasesAreCounted
  <2>4. CASE goal[a] # "remove"
    <3>1. PICK d \in Dir : d = Target(a) /\ ~fd[d]
      BY <1>1, <1>6, <2>4, NotYetOpen
    <3>2. extra' = extra /\ fd' = [fd EXCEPT ![d] = TRUE]
      BY <1>6, <2>4, <3>1 DEF OpenSucceeds
    <3>3. d \notin OpenDirs /\ OpenDirs' = OpenDirs \cup {d} /\ Extras' = Extras
      BY <1>1, <3>1, <3>2 DEF OpenDirs, Extras, CountTypes
    <3>4. Cardinality(OpenDirs') = Cardinality(OpenDirs) + 1
      BY <3>3, CountsAreNatural, OneMore
    <3> QED
      BY <1>1, <1>2, <2>1, <2>2, <3>3, <3>4 DEF LeasesAreCounted
  <2> QED
    BY <2>3, <2>4
<1>7. CASE OpenFails(a) \/ Refused(a)
  <2>1. /\ pc[a] \in {"call", "refused"} /\ UNCHANGED <<fd, extra>> /\ live' = live - 1
        /\ \E label \in {"gone", "giveup", "retry"} : pc' = [pc EXCEPT ![a] = label]
    BY <1>7 DEF OpenFails, Refused, Goto, nodes
  <2>2. Cardinality(Reserving') = Cardinality(Reserving) - 1
    BY <1>3, <2>1
  <2>3. OpenDirs' = OpenDirs /\ Extras' = Extras
    BY <2>1 DEF OpenDirs, Extras
  <2> QED
    BY <1>1, <1>2, <2>1, <2>2, <2>3 DEF LeasesAreCounted
<1>8. CASE OpenRefused(a)
  <2>1. /\ pc[a] = "call" /\ pc' = [pc EXCEPT ![a] = "refused"]
        /\ UNCHANGED <<fd, extra, live>>
    BY <1>8 DEF OpenRefused, Goto, nodes, pool
  <2>2. Reserving' = Reserving /\ OpenDirs' = OpenDirs /\ Extras' = Extras
    BY <1>1, <2>1 DEF Reserving, Reserved, OpenDirs, Extras
  <2> QED
    BY <1>1, <2>1, <2>2 DEF LeasesAreCounted
<1>9. CASE Unwind(a)
  <2>1. /\ ~Unwound(a) /\ extra' = [extra EXCEPT ![a] = @ - 1] /\ live' = live - 1
        /\ UNCHANGED <<fd, pc>>
    BY <1>9 DEF Unwind, CloseOne, nodes
  <2>2. extra[a] >= 1
    BY <1>1, <2>1 DEF Unwound, Kept, ExtraShape, CountTypes
  <2>3. Cardinality(Extras') = Cardinality(Extras) - 1
    BY <1>1, <2>1, <2>2, ExtraLess
  <2>4. Reserving' = Reserving /\ OpenDirs' = OpenDirs
    BY <2>1 DEF Reserving, Reserved, OpenDirs
  <2> QED
    BY <1>1, <1>2, <2>1, <2>3, <2>4 DEF LeasesAreCounted
<1> QED
  BY <1>4, <1>5, <1>6, <1>7, <1>8, <1>9 DEF Opening

\* And the end of a scan.
LEMMA CloseLeases ==
    ASSUME IInv, LInv, NEW s \in Slot, CloseScanned(s), Alone(s)
    PROVE  LeasesAreCounted'
<1>1. /\ s \in Actor /\ live \in Int /\ fd \in [Dir -> BOOLEAN]
      /\ live = Cardinality(OpenDirs) + Cardinality(Extras) + Cardinality(Reserving)
      /\ pc = [b \in Actor |-> pc[b]]
  BY SlotsAreActors DEF LInv, LeasesAreCounted, CountTypes, IInv, Types
<1>2. /\ Cardinality(OpenDirs) \in Int /\ Cardinality(Extras) \in Int
      /\ Cardinality(Reserving) \in Int
  BY CountsAreNatural
<1>3. /\ fd' = [fd EXCEPT ![cur[s]] = FALSE] /\ live' = live - 1 /\ extra' = extra
      /\ pc[s] \in {"scan", "close"} /\ pc'[s] = "unref"
  BY <1>1 DEF CloseScanned, Reading, CloseOne, Goto
<1>4. Phase(s) = "scanning"
  BY <1>3 DEF Phase, IInv, WorkerShape, Opens
<1>5. cur[s] \in Dir /\ fd[cur[s]]
  <2>1. fd[cur[s]]
    BY <1>4 DEF LInv, DirsAreKept, InScan
  <2>2. Works(View, s)
    BY <1>4, Fields DEF Works
  <2> QED
    BY <2>1, <2>2, Fields DEF IInv, Sound, Typed
<1>6. cur[s] \in OpenDirs /\ OpenDirs' = OpenDirs \ {cur[s]} /\ Extras' = Extras
  BY <1>1, <1>3, <1>5 DEF OpenDirs, Extras
<1>7. Reserving' = Reserving
  BY <1>3 DEF Reserving, Reserved, Alone
<1>8. Cardinality(OpenDirs') = Cardinality(OpenDirs) - 1
  BY <1>6, CountsAreNatural, OneLess
<1> QED
  BY <1>1, <1>2, <1>3, <1>6, <1>7, <1>8 DEF LeasesAreCounted

\* The other steps.
LEMMA WorkerLeases ==
    ASSUME IInv, LInv, NEW s \in Slot, WorkerStep(s)
    PROVE  LeasesAreCounted'
<1>1. /\ s \in Actor /\ Alone(s) /\ LeasesAreCounted /\ ExtraShape(s) /\ CountTypes
      /\ pc = [b \in Actor |-> pc[b]]
  BY SlotsAreActors, WorkersActAlone DEF LInv, IInv, Types
<1>2. CASE Opening(s)
  BY <1>1, <1>2, OpeningLeases
<1>3. CASE CloseScanned(s)
  BY <1>1, <1>3, CloseLeases
<1>4. ASSUME ~Opening(s), ~CloseScanned(s)
      PROVE  /\ UNCHANGED <<live, fd, extra>> /\ pc[s] \notin {"call", "refused"}
             /\ pc'[s] \notin {"call", "refused"}
  <2>1. extra' = extra
    BY <1>1, <1>4, WorkerExtra
  <2>2. CASE Acquire(s)
    <3>1. PICK d : Start(s, d)
      BY <2>2, AcquireTakes
    <3> QED
      BY <1>1, <2>2, <2>1, <3>1 DEF Acquire, Start, Goto, nodes, pool
  <2>3. CASE Park(s) \/ Abandon(s)
    BY <1>1, <2>1, <2>3 DEF Park, Abandon, StartRemove, Hopeless, Goto, nodes, pool
  <2>4. CASE UnlinkFile(s) \/ SkipGone(s) \/ StatFails(s)
    BY <2>1, <2>4 DEF UnlinkFile, SkipGone, StatFails, Reading, nodes, pool
  <2>5. CASE ReadFails(s) \/ MeetChild(s)
    BY <1>1, <2>1, <2>5 DEF ReadFails, MeetChild, Reading, Goto, nodes, pool
  <2>6. CASE ChildRefused(s) \/ Publish(s)
    BY <1>1, <2>1, <2>6 DEF ChildRefused, Publish, LeaveEntry, Hopeless, Goto, nodes, pool
  <2>7. CASE Count(s) \/ Unref(s)
    BY <1>1, <2>1, <2>7 DEF Count, Unref, StartRemove, Goto, nodes, pool
  <2>8. CASE RemoveEmpty(s) \/ RemoveEmptyFails(s)
    BY <1>1, <2>1, <2>8 DEF RemoveEmpty, RemoveEmptyFails, Hopeless, Goto, nodes, pool
  <2>9. CASE Delete(s) \/ Finish(s)
    BY <1>1, <2>1, <2>9 DEF Delete, Finish, Goto, nodes, pool
  <2> QED
    BY <1>4, <2>2, <2>3, <2>4, <2>5, <2>6, <2>7, <2>8, <2>9 DEF WorkerStep
<1>5. CASE ~Opening(s) /\ ~CloseScanned(s)
  BY <1>1, <1>4, <1>5, LeasesStay DEF Reserved
<1> QED
  BY <1>2, <1>3, <1>5

\* A step of the main thread keeps live the number of leases held.
LEMMA MainLeases ==
    ASSUME IInv, LInv, MainStep
    PROVE  LeasesAreCounted'
<1>1. /\ Main \in Actor /\ Alone(Main) /\ LeasesAreCounted /\ pc = [b \in Actor |-> pc[b]]
  BY SlotsAreActors, MainActsAlone DEF LInv, IInv, Types
<1>2. CASE Opening(Main)
  BY <1>1, <1>2, OpeningLeases
<1>3. CASE NextOperand \/ OperandGone \/ Wait
  <2>1. /\ UNCHANGED <<live, fd, extra>> /\ pc[Main] = "next"
        /\ pc'[Main] \in {"next", "reserve", "exited"}
    BY <1>1, <1>3 DEF NextOperand, OperandGone, Wait, Goto, nodes, pool
  <2> QED
    BY <1>1, <2>1, LeasesStay DEF Reserved
<1>4. CASE SeedRoot \/ RootRefused
  <2>1. /\ UNCHANGED <<live, fd, extra>> /\ pc[Main] \in {"seed", "retry", "giveup", "gone"}
        /\ pc'[Main] = "next"
    BY <1>1, <1>4 DEF SeedRoot, RootRefused, Hopeless, Idle, Goto, nodes, pool
  <2> QED
    BY <1>1, <2>1, LeasesStay DEF Reserved
<1> QED
  BY <1>2, <1>3, <1>4 DEF MainStep

----------------------------------------------------------------------------
(* Tasks                                                                   *)

\* No task comes or goes, no worker starts or ends one.
LEMMA TasksStay ==
    ASSUME TasksAreCounted, NEW a \in Actor, Alone(a), UNCHANGED <<pending, queues>>,
           a \in Slot => (pc'[a] = "idle" <=> pc[a] = "idle")
    PROVE  TasksAreCounted'
<1>1. Busy' = Busy
  BY SlotsAreActors DEF Busy, Alone
<1> QED
  BY <1>1 DEF TasksAreCounted

\* One that comes is pending.
LEMMA TaskComes ==
    ASSUME TasksAreCounted, NEW a \in Actor, Alone(a), pending' = pending + 1, NEW d,
           d \notin Tasks(queues), Tasks(queues') = Tasks(queues) \cup {d},
           a \in Slot => pc'[a] # "idle" /\ pc[a] # "idle"
    PROVE  TasksAreCounted'
<1>1. Busy' = Busy
  BY SlotsAreActors DEF Busy, Alone
<1>2. Cardinality(Tasks(queues')) = Cardinality(Tasks(queues)) + 1
  BY CountsAreNatural, OneMore
<1> QED
  BY <1>1, <1>2, CountsAreNatural DEF TasksAreCounted

\* A worker's step keeps pending the queued tasks and the busy workers.
LEMMA WorkerTasks ==
    ASSUME IInv, LInv, NEW s \in Slot, WorkerStep(s)
    PROVE  TasksAreCounted'
<1>1. /\ s \in Actor /\ Alone(s) /\ TasksAreCounted /\ WorkerShape(s)
      /\ pending = Cardinality(Tasks(queues)) + Cardinality(Busy)
      /\ pc = [b \in Actor |-> pc[b]]
  BY SlotsAreActors, WorkersActAlone DEF LInv, TasksAreCounted, IInv, Types
<1>2. /\ Cardinality(Tasks(queues)) \in Int /\ Cardinality(Busy) \in Int
  BY CountsAreNatural
<1>3. CASE Acquire(s)
  <2>1. PICK d \in Tasks(queues) :
           Start(s, d) /\ Tasks(queues') = Tasks(queues) \ {d}
    BY <1>3, AcquireTakes
  <2>2. pc[s] = "idle" /\ pending' = pending /\ pc'[s] \in {"scan", "reserve"}
    BY <1>1, <1>3, <2>1 DEF Acquire, Start, Goto
  <2>3. s \notin Busy /\ Busy' = Busy \cup {s}
    BY <1>1, <2>2, SlotsAreActors DEF Busy, Alone
  <2>4. /\ Cardinality(Busy') = Cardinality(Busy) + 1
        /\ Cardinality(Tasks(queues')) = Cardinality(Tasks(queues)) - 1
    BY <2>1, <2>3, CountsAreNatural, OneMore, OneLess
  <2> QED
    BY <1>1, <1>2, <2>2, <2>4 DEF TasksAreCounted
<1>4. CASE Park(s)
  <2>1. pending' = pending + 1 /\ pc[s] = "retry" /\ pc'[s] = "finish"
    BY <1>1, <1>4 DEF Park, Insert, Goto
  <2> QED
    BY <1>1, <1>4, <2>1, ParkAdds, TaskComes
<1>5. CASE Publish(s)
  <2>1. pending' = pending + 1 /\ pc[s] = "publish" /\ pc'[s] = "scan"
    BY <1>1, <1>5 DEF Publish, Insert, LeaveEntry, Goto
  <2> QED
    BY <1>1, <1>5, <2>1, PublishAdds, TaskComes
<1>6. CASE Finish(s)
  <2>1. pending' = pending - 1 /\ pc[s] = "finish" /\ pc'[s] = "idle" /\ queues' = queues
    BY <1>1, <1>6 DEF Finish, Goto
  <2>2. s \in Busy /\ Busy' = Busy \ {s}
    BY <1>1, <2>1, SlotsAreActors DEF Busy, Alone
  <2>3. Cardinality(Busy') = Cardinality(Busy) - 1
    BY <2>2, CountsAreNatural, OneLess
  <2> QED
    BY <1>1, <1>2, <2>1, <2>3 DEF TasksAreCounted
<1>7. CASE Opening(s)
  <2>1. UNCHANGED <<pending, queues>>
    BY <1>1, <1>7, OpeningFrame, OpenSucceedsFrame DEF LInv, sched
  <2>2. pc[s] \in Opens \cup {"scan", "rmdir", "delete"} /\ pc'[s] # "idle"
    <3>1. CASE Unwind(s)
      BY <3>1 DEF Unwind, Opens
    <3>2. CASE OpenSucceeds(s)
      <4>1. pc[s] = "call" /\ pc'[s] = AfterOpen(s) /\ goal[s] \in {"task", "child", "remove"}
        BY <1>1, <3>2 DEF OpenSucceeds, Goto, WorkerShape
      <4> QED
        BY <4>1 DEF AfterOpen, Opens
    <3>3. CASE ~Unwind(s) /\ ~OpenSucceeds(s)
      <4>1. pc[s] \in Opens /\ \E label \in Opens : Goto(s, label)
        BY <1>1, <1>7, <3>3, StillOpening DEF Opening
      <4> QED
        BY <1>1, <4>1 DEF Goto, Opens
    <3> QED
      BY <3>1, <3>2, <3>3
  <2> QED
    BY <1>1, <2>1, <2>2, TasksStay DEF Opens
<1>8. ASSUME ~Acquire(s), ~Park(s), ~Publish(s), ~Finish(s), ~Opening(s)
      PROVE  UNCHANGED <<pending, queues>> /\ pc[s] # "idle" /\ pc'[s] # "idle"
  <2>1. CASE Abandon(s)
    BY <1>1, <2>1 DEF Abandon, StartRemove, Hopeless, Goto, sched
  <2>2. CASE UnlinkFile(s) \/ SkipGone(s) \/ StatFails(s)
    BY <2>2 DEF UnlinkFile, SkipGone, StatFails, Reading, sched
  <2>3. CASE ReadFails(s) \/ MeetChild(s)
    BY <1>1, <2>3 DEF ReadFails, MeetChild, Reading, Goto, sched
  <2>4. CASE ChildRefused(s)
    BY <1>1, <2>4 DEF ChildRefused, LeaveEntry, Hopeless, Goto, sched
  <2>5. CASE Count(s)
    BY <1>1, <2>5 DEF Count, Goto, sched
  <2>6. CASE CloseScanned(s)
    BY <1>1, <2>6 DEF CloseScanned, Reading, Goto, sched
  <2>7. CASE Unref(s)
    BY <1>1, <2>7 DEF Unref, StartRemove, Goto, sched
  <2>8. CASE RemoveEmpty(s) \/ RemoveEmptyFails(s)
    BY <1>1, <2>8 DEF RemoveEmpty, RemoveEmptyFails, Hopeless, Goto, sched
  <2>9. CASE Delete(s)
    BY <1>1, <2>9 DEF Delete, Goto, sched
  <2> QED
    BY <1>8, <2>1, <2>2, <2>3, <2>4, <2>5, <2>6, <2>7, <2>8, <2>9 DEF WorkerStep
<1>9. CASE ~Acquire(s) /\ ~Park(s) /\ ~Publish(s) /\ ~Finish(s) /\ ~Opening(s)
  BY <1>1, <1>8, <1>9, TasksStay
<1> QED
  BY <1>3, <1>4, <1>5, <1>6, <1>7, <1>9

\* A step of the main thread keeps pending the queued tasks and the busy workers.
LEMMA MainTasks ==
    ASSUME IInv, LInv, MainStep
    PROVE  TasksAreCounted'
<1>1. /\ Main \in Actor /\ Main \notin Slot /\ Alone(Main) /\ TasksAreCounted /\ CountTypes
  BY SlotsAreActors, MainActsAlone DEF LInv
<1>2. CASE SeedRoot
  <2>1. pending' = pending + 1
    BY <1>2 DEF SeedRoot, Insert
  <2> QED
    BY <1>1, <1>2, <2>1, SeedAdds, TaskComes
<1>3. CASE Opening(Main)
  <2>1. UNCHANGED <<pending, queues>>
    BY <1>1, <1>3, OpeningFrame, OpenSucceedsFrame DEF sched
  <2> QED
    BY <1>1, <2>1, TasksStay
<1>4. CASE NextOperand \/ OperandGone \/ RootRefused \/ Wait
  <2>1. UNCHANGED <<pending, queues>>
    BY <1>4 DEF NextOperand, OperandGone, RootRefused, Wait, sched
  <2> QED
    BY <1>1, <2>1, TasksStay
<1> QED
  BY <1>2, <1>3, <1>4 DEF MainStep

\* When nothing is pending, nothing is queued and nobody is at work.
LEMMA NothingPending ==
    ASSUME TasksAreCounted, pending = 0
    PROVE  Tasks(queues) = {} /\ Busy = {}
<1>1. PICK t \in Nat, b \in Nat : t = Cardinality(Tasks(queues)) /\ b = Cardinality(Busy)
  BY CountsAreNatural
<1>2. t + b = 0
  BY <1>1 DEF TasksAreCounted
<1>3. t = 0 /\ b = 0
  BY <1>2
<1> QED
  BY <1>1, <1>3, CountsAreNatural, FS_EmptySet

\* RunRm returns when nothing is pending, and nothing begins after that.
LEMMA ExitStep ==
    ASSUME IInv, LInv, Next
    PROVE  ExitIsLast'
<1>1. SUFFICES ASSUME pc'[Main] = "exited"
               PROVE  pending' = 0
  BY DEF ExitIsLast
<1>2. Main \in Actor /\ pc = [b \in Actor |-> pc[b]]
  BY SlotsAreActors DEF IInv, Types
<1>3. CASE pc[Main] = "exited"
  <2>1. pending = 0 /\ Tasks(queues) = {} /\ Busy = {}
    BY <1>3, NothingPending DEF LInv, ExitIsLast
  <2>2. ASSUME NEW s \in Slot, WorkerStep(s)
        PROVE  FALSE
    <3>1. pc[s] = "idle"
      BY <2>1 DEF Busy
    <3>2. ~Acquire(s)
      BY <2>1, AcquireTakes
    <3>3. ~Opening(s)
      BY <3>1 DEF Opening, Reserve, OpenPiece, OpenSucceeds, OpenFails, OpenRefused, Refused,
                  Unwind
    <3> QED
      BY <2>2, <3>1, <3>2, <3>3
         DEF WorkerStep, Park, Abandon, UnlinkFile, SkipGone, StatFails, ReadFails, Reading,
             MeetChild, ChildRefused, Count, Publish, CloseScanned, Unref, RemoveEmpty,
             RemoveEmptyFails, Delete, Finish, Hopeless
  <2>3. ~MainStep
    <3>1. ~Opening(Main)
      BY <1>3 DEF Opening, Reserve, OpenPiece, OpenSucceeds, OpenFails, OpenRefused, Refused,
                  Unwind
    <3> QED
      BY <1>3, <3>1 DEF MainStep, NextOperand, OperandGone, SeedRoot, RootRefused, Wait,
                        Hopeless
  <2> QED
    BY <2>1, <2>2, <2>3 DEF Next, FillTable, ClearTable, OthersRemove, sched
<1>4. CASE pc[Main] # "exited"
  <2>1. ASSUME NEW s \in Slot, WorkerStep(s)
        PROVE  FALSE
    <3>1. Alone(s) /\ Main # s
      BY <2>1, SlotsAreActors, WorkersActAlone DEF LInv
    <3> QED
      BY <1>1, <1>2, <1>4, <3>1 DEF Alone
  <2>2. CASE MainStep
    <3>1. CASE Wait
      BY <3>1 DEF Wait, sched
    <3>2. CASE Opening(Main)
      <4>1. CASE Unwind(Main)
        BY <1>1, <1>4, <4>1 DEF Unwind
      <4>2. CASE OpenSucceeds(Main)
        <5>1. goal[Main] = "root"
          BY <4>2 DEF OpenSucceeds, IInv, MainShape
        <5> QED
          BY <1>1, <1>2, <4>2, <5>1 DEF OpenSucceeds, AfterOpen, Goto
      <4>3. CASE ~Unwind(Main) /\ ~OpenSucceeds(Main)
        <5>1. \E label \in Opens : Goto(Main, label)
          BY <1>2, <3>2, <4>3, StillOpening DEF Opening
        <5> QED
          BY <1>1, <1>2, <5>1 DEF Goto, Opens
      <4> QED
        BY <4>1, <4>2, <4>3
    <3>3. CASE NextOperand \/ OperandGone \/ SeedRoot \/ RootRefused
      BY <1>1, <1>2, <1>4, <3>3 DEF NextOperand, OperandGone, SeedRoot, RootRefused, Idle, Goto
    <3> QED
      BY <2>2, <3>1, <3>2, <3>3 DEF MainStep
  <2>3. CASE FillTable \/ ClearTable \/ OthersRemove
    BY <1>1, <1>4, <2>3 DEF FillTable, ClearTable, OthersRemove
  <2> QED
    BY <2>1, <2>2, <2>3 DEF Next
<1> QED
  BY <1>3, <1>4

----------------------------------------------------------------------------
(* References                                                              *)

\* No reference goes, and who removes a node goes on.
LEMMA NodesStay ==
    ASSUME NodesAreReferenced, UNCHANGED <<node, remaining>>,
           \A t \in Slot : Phase(t) = "removing" =>
              Phase(t)' = "removing" /\ cur'[t] = cur[t]
    PROVE  NodesAreReferenced'
<1> SUFFICES ASSUME NEW d \in Dir, node[d] = "live", ~Removed(View', d)
             PROVE  remaining[d] >= 1
  BY DEF NodesAreReferenced
<1>1. ~Removed(View, d)
  BY Fields, NextFields DEF Removed
<1> QED
  BY <1>1 DEF NodesAreReferenced

\* What the other threads are at stays.
LEMMA PhasesStay ==
    ASSUME NEW a \in Actor, Alone(a), NEW t \in Slot \ {a}
    PROVE  Phase(t)' = Phase(t) /\ cur'[t] = cur[t]
<1>1. pc'[t] = pc[t] /\ goal'[t] = goal[t] /\ cur'[t] = cur[t]
  BY SlotsAreActors DEF Alone
<1> QED
  BY <1>1 DEF Phase

\* Counting a child gives it one reference and its parent one more.
LEMMA CountNodes ==
    ASSUME IInv, LInv, NEW s \in Slot, Alone(s), Count(s)
    PROVE  NodesAreReferenced'
<1>1. /\ s \in Actor /\ NodesAreReferenced /\ pc = [b \in Actor |-> pc[b]]
      /\ node = [d \in Dir |-> node[d]] /\ remaining \in [Dir -> Int]
  BY SlotsAreActors DEF LInv, IInv, Types
<1>2. /\ goal[s] = "child" /\ pc[s] \in {"count", "retry"} /\ pc'[s] = "publish"
      /\ goal'[s] = "child" /\ node' = [node EXCEPT ![entry[s]] = "live"] /\ cur' = cur
      /\ remaining' = [remaining EXCEPT ![entry[s]] = 1, ![cur[s]] = @ + 1]
  BY <1>1 DEF Count, Goto, IInv, WorkerShape
<1>3. Phase(s) = "meeting" /\ Phase(s)' = "publishing"
  BY <1>2 DEF Phase, Opens
<1>4. /\ entry[s] \in Dir /\ Parent[entry[s]] = cur[s] /\ cur[s] \in Dir
      /\ node[cur[s]] = "live" /\ node[entry[s]] = "none"
  <2>1. Works(View, s)
    BY <1>3, Fields DEF Works
  <2> QED
    BY <1>3, <2>1, Fields DEF IInv, Sound, Typed, AllLive, AheadIsNew
<1>5. SUFFICES ASSUME NEW d \in Dir, node'[d] = "live", ~Removed(View', d)
               PROVE  remaining'[d] >= 1
  BY DEF NodesAreReferenced
<1>6. ~Removed(View, d)
  <2>1. \A t \in Slot : Phase(t) = "removing" => Phase(t)' = "removing" /\ cur'[t] = cur[t]
    BY <1>1, <1>3, PhasesStay
  <2> QED
    BY <1>5, <2>1, Fields, NextFields DEF Removed
<1>7. d # entry[s] => node[d] = "live" /\ remaining[d] >= 1 /\ remaining[d] \in Int
  BY <1>1, <1>2, <1>4, <1>5, <1>6 DEF NodesAreReferenced
<1>8. entry[s] # cur[s]
  BY <1>4
<1> QED
  BY <1>1, <1>2, <1>4, <1>7, <1>8

\* A node is left without a reference only by the worker that then removes it.
LEMMA UnrefNodes ==
    ASSUME IInv, LInv, NEW s \in Slot, Alone(s), Unref(s)
    PROVE  NodesAreReferenced'
<1>1. /\ s \in Actor /\ NodesAreReferenced /\ pc = [b \in Actor |-> pc[b]]
      /\ goal = [b \in Actor |-> goal[b]] /\ remaining \in [Dir -> Int]
  BY SlotsAreActors DEF LInv, IInv, Types
<1>2. /\ pc[s] = "unref" /\ remaining' = [remaining EXCEPT ![cur[s]] = @ - 1]
      /\ node' = node /\ cur' = cur
  BY DEF Unref
<1>3. Phase(s) = "unref"
  BY <1>2 DEF Phase
<1>4. cur[s] \in Dir /\ node[cur[s]] = "live" /\ ~Removed(View, cur[s])
  <2>1. Works(View, s)
    BY <1>3, Fields DEF Works
  <2>2. s \in Holders(View, cur[s])
    BY <2>1, Fields DEF Holders
  <2> QED
    BY <1>3, <2>1, <2>2, Fields DEF IInv, Sound, Typed, AllLive, RemovedAlone, Removed
<1>5. remaining[cur[s]] >= 1 /\ remaining[cur[s]] \in Int
  BY <1>1, <1>4 DEF NodesAreReferenced
<1>6. SUFFICES ASSUME NEW d \in Dir, node[d] = "live", ~Removed(View', d)
               PROVE  remaining'[d] >= 1
  BY <1>2 DEF NodesAreReferenced
<1>7. ~Removed(View, d)
  <2>1. \A t \in Slot : Phase(t) = "removing" => Phase(t)' = "removing" /\ cur'[t] = cur[t]
    BY <1>1, <1>3, PhasesStay
  <2> QED
    BY <1>6, <2>1, Fields, NextFields DEF Removed
<1>8. d # cur[s] => remaining'[d] >= 1
  BY <1>1, <1>2, <1>6, <1>7 DEF NodesAreReferenced
<1>9. CASE d = cur[s] /\ remaining[d] = 1
  <2>1. goal'[s] = "remove" /\ pc'[s] \in {"reserve", "rmdir"}
    BY <1>1, <1>9 DEF Unref, StartRemove, Goto
  <2>2. Phase(s)' = "removing"
    BY <2>1 DEF Phase
  <2> QED
    BY <1>2, <1>6, <1>9, <2>2, NextFields DEF Removed
<1>10. CASE d = cur[s] /\ remaining[d] # 1
  BY <1>1, <1>2, <1>4, <1>5, <1>10
<1> QED
  BY <1>8, <1>9, <1>10

\* Deleting a removed node leaves every other live node its references.
LEMMA DeleteNodes ==
    ASSUME IInv, LInv, NEW s \in Slot, Alone(s), Delete(s)
    PROVE  NodesAreReferenced'
<1>1. /\ s \in Actor /\ NodesAreReferenced /\ node = [d \in Dir |-> node[d]]
  BY SlotsAreActors DEF LInv, IInv, Types
<1>2. node' = [node EXCEPT ![cur[s]] = "deleted"] /\ remaining' = remaining
  BY DEF Delete
<1>3. SUFFICES ASSUME NEW d \in Dir, node'[d] = "live", ~Removed(View', d)
               PROVE  remaining[d] >= 1
  BY <1>2 DEF NodesAreReferenced
<1>4. node[d] = "live" /\ cur[s] # d
  BY <1>1, <1>2, <1>3
<1>5. ~Removed(View, d)
  <2>1. \A t \in Slot \ {s} : Phase(t) = "removing" =>
           Phase(t)' = "removing" /\ cur'[t] = cur[t]
    BY <1>1, PhasesStay
  <2> QED
    BY <1>3, <1>4, <2>1, Fields, NextFields DEF Removed
<1> QED
  BY <1>1, <1>4, <1>5 DEF NodesAreReferenced

\* A root starts with the reference of its own scan.
LEMMA SeedNodes ==
    ASSUME IInv, LInv, Alone(Main), SeedRoot
    PROVE  NodesAreReferenced'
<1>1. /\ Main \in Actor /\ NodesAreReferenced /\ node = [d \in Dir |-> node[d]]
      /\ remaining \in [Dir -> Int] /\ cur[Main] \in Dir
  BY SlotsAreActors, SeedAdds DEF LInv, IInv, Types
<1>2. /\ node' = [node EXCEPT ![cur[Main]] = "live"]
      /\ remaining' = [remaining EXCEPT ![cur[Main]] = 1]
  BY DEF SeedRoot
<1>3. SUFFICES ASSUME NEW d \in Dir, node'[d] = "live", ~Removed(View', d)
               PROVE  remaining'[d] >= 1
  BY DEF NodesAreReferenced
<1>4. ~Removed(View, d)
  <2>1. \A t \in Slot : Phase(t)' = Phase(t) /\ cur'[t] = cur[t]
    BY <1>1, SlotsAreActors, PhasesStay
  <2> QED
    BY <1>3, <2>1, Fields, NextFields DEF Removed
<1> QED
  BY <1>1, <1>2, <1>3, <1>4 DEF NodesAreReferenced

\* Opening, retrying or being refused a descriptor touches no reference.
LEMMA OpeningNodes ==
    ASSUME IInv, LInv, NEW a \in Actor, Alone(a), Opening(a)
    PROVE  NodesAreReferenced'
<1>1. CountTypes /\ NodesAreReferenced
  BY DEF LInv
<1>2. UNCHANGED <<node, remaining, cur, goal>>
  BY <1>1, OpeningFrame, OpenSucceedsFrame DEF nodes
<1>3. a \in Slot /\ Phase(a) = "removing" => Phase(a)' = "removing"
  <2> SUFFICES ASSUME a \in Slot, Phase(a) = "removing"
               PROVE  Phase(a)' = "removing"
    OBVIOUS
  <2>1. pc = [b \in Actor |-> pc[b]]
    BY DEF IInv, Types
  <2>2. CASE Unwind(a)
    BY <1>2, <2>2 DEF Unwind, Phase
  <2>3. CASE OpenSucceeds(a)
    <3>1. goal[a] = "remove" /\ pc'[a] = "rmdir"
      BY <2>1, <2>3 DEF OpenSucceeds, AfterOpen, Goto, Phase
    <3> QED
      BY <3>1 DEF Phase
  <2>4. CASE ~Unwind(a) /\ ~OpenSucceeds(a)
    <3>1. pc[a] \in Opens /\ \E label \in Opens : pc'[a] = label
      BY <2>1, <2>4, StillOpening DEF Opening, Goto
    <3> QED
      BY <1>2, <3>1 DEF Phase, Opens
  <2> QED
    BY <2>2, <2>3, <2>4
<1>4. \A t \in Slot : Phase(t) = "removing" => Phase(t)' = "removing" /\ cur'[t] = cur[t]
  BY <1>2, <1>3, PhasesStay
<1> QED
  BY <1>1, <1>2, <1>4, NodesStay

\* A worker's step leaves every live node a reference, or a worker that removes it.
LEMMA WorkerNodes ==
    ASSUME IInv, LInv, NEW s \in Slot, WorkerStep(s)
    PROVE  NodesAreReferenced'
<1>1. /\ s \in Actor /\ Alone(s) /\ NodesAreReferenced /\ WorkerShape(s)
      /\ pc = [b \in Actor |-> pc[b]]
  BY SlotsAreActors, WorkersActAlone DEF LInv, IInv, Types
<1>2. CASE Count(s) \/ Unref(s) \/ Delete(s) \/ Opening(s)
  BY <1>1, <1>2, CountNodes, UnrefNodes, DeleteNodes, OpeningNodes
<1>3. CASE ~Count(s) /\ ~Unref(s) /\ ~Delete(s) /\ ~Opening(s)
  <2>1. UNCHANGED <<node, remaining>>
    BY <1>3 DEF WorkerStep, Acquire, Park, Abandon, UnlinkFile, SkipGone, StatFails, ReadFails,
                MeetChild, ChildRefused, Publish, CloseScanned, RemoveEmpty,
                RemoveEmptyFails, Finish, nodes
  <2>2. Phase(s) = "removing" => Phase(s)' = "removing" /\ cur'[s] = cur[s]
    <3>1. CASE RemoveEmpty(s) \/ RemoveEmptyFails(s)
      <4>1. pc'[s] = "delete" /\ cur' = cur
        BY <1>1, <3>1 DEF RemoveEmpty, RemoveEmptyFails, Goto
      <4> QED
        BY <4>1 DEF Phase
    <3>2. CASE ~RemoveEmpty(s) /\ ~RemoveEmptyFails(s)
      <4>1. pc[s] \in {"idle", "finish"} \/ (goal[s] # "remove" /\ pc[s] \notin {"rmdir", "delete"})
        BY <1>1, <1>3, <3>2
           DEF WorkerStep, Acquire, Park, Abandon, UnlinkFile, SkipGone, StatFails, ReadFails,
               Reading, MeetChild, ChildRefused, Publish, CloseScanned, Finish, WorkerShape,
               Hopeless
      <4> QED
        BY <4>1 DEF Phase
    <3> QED
      BY <3>1, <3>2
  <2>3. \A t \in Slot : Phase(t) = "removing" => Phase(t)' = "removing" /\ cur'[t] = cur[t]
    BY <1>1, <2>2, PhasesStay
  <2> QED
    BY <1>1, <2>1, <2>3, NodesStay
<1> QED
  BY <1>2, <1>3

\* A step of the main thread leaves every live node a reference, or a remover.
LEMMA MainNodes ==
    ASSUME IInv, LInv, MainStep
    PROVE  NodesAreReferenced'
<1>1. Main \in Actor /\ Alone(Main) /\ NodesAreReferenced
  BY SlotsAreActors, MainActsAlone DEF LInv
<1>2. CASE SeedRoot \/ Opening(Main)
  BY <1>1, <1>2, SeedNodes, OpeningNodes
<1>3. CASE ~SeedRoot /\ ~Opening(Main)
  <2>1. UNCHANGED <<node, remaining>>
    BY <1>3 DEF MainStep, NextOperand, OperandGone, RootRefused, Wait, nodes
  <2>2. \A t \in Slot : Phase(t)' = Phase(t) /\ cur'[t] = cur[t]
    BY <1>1, SlotsAreActors, PhasesStay
  <2> QED
    BY <1>1, <2>1, <2>2, NodesStay
<1> QED
  BY <1>2, <1>3

----------------------------------------------------------------------------
(* Open directories                                                        *)

\* The other threads hold what they held.
LEMMA OthersHold ==
    ASSUME NEW a \in Actor, Alone(a), NEW b \in Actor \ {a}, NEW d
    PROVE  Holds(b, d) <=> Holds(b, d)'
<1>1. /\ pc'[b] = pc[b] /\ cur'[b] = cur[b]
      /\ b \in Slot => entry'[b] = entry[b] /\ Phase(b)' = Phase(b)
  BY PhasesStay DEF Alone
<1> QED
  BY <1>1 DEF Holds, InScan

\* Nothing is opened or closed; what thread a lets go of is a task.
LEMMA DirsStay ==
    ASSUME DirsAreKept, NEW a \in Actor, Alone(a), fd' = fd,
           \A d \in Dir : fd[d] /\ (d \in Tasks(queues) \/ Holds(a, d)) =>
              d \in Tasks(queues') \/ Holds(a, d)',
           a \in Slot /\ InScan(a)' => fd[cur'[a]]
    PROVE  DirsAreKept'
<1>1. ASSUME NEW d \in Dir, fd[d]
      PROVE  d \in Tasks(queues') \/ \E b \in Actor : Holds(b, d)'
  <2>1. CASE d \in Tasks(queues) \/ Holds(a, d)
    BY <1>1, <2>1
  <2>2. CASE ~(d \in Tasks(queues) \/ Holds(a, d))
    <3>1. PICK b \in Actor \ {a} : Holds(b, d)
      BY <1>1, <2>2 DEF DirsAreKept
    <3> QED
      BY <3>1, OthersHold
  <2> QED
    BY <2>1, <2>2
<1>2. ASSUME NEW s \in Slot, InScan(s)'
      PROVE  fd[cur'[s]]
  <2>1. CASE s # a
    BY <1>2, <2>1, SlotsAreActors, PhasesStay DEF DirsAreKept, InScan
  <2> QED
    BY <1>2, <2>1
<1> QED
  BY <1>1, <1>2 DEF DirsAreKept

\* Worker s goes on with its scan, or with anything else than a scan.
LEMMA ScanGoesOn ==
    ASSUME DirsAreKept, NEW s \in Slot, Alone(s), fd' = fd,
           Tasks(queues) \subseteq Tasks(queues'),
           InScan(s)' => InScan(s), InScan(s) => InScan(s)' /\ cur'[s] = cur[s],
           pc[s] \in {"count", "publish"} =>
              \/ pc'[s] \in {"count", "publish"} /\ entry'[s] = entry[s]
              \/ entry[s] \in Tasks(queues')
    PROVE  DirsAreKept'
<1>1. s \in Actor /\ s # Main
  BY SlotsAreActors
<1>2. \A d \in Dir : Holds(s, d) => d \in Tasks(queues') \/ Holds(s, d)'
  BY <1>1 DEF Holds
<1>3. InScan(s)' => fd[cur'[s]]
  BY DEF DirsAreKept
<1> QED
  BY <1>1, <1>2, <1>3, DirsStay

\* A directory just opened is held by the thread that opened it.
LEMMA OpeningDirs ==
    ASSUME IInv, LInv, NEW a \in Actor, Alone(a), Opening(a)
    PROVE  DirsAreKept'
<1>1. CountTypes /\ DirsAreKept /\ pc = [b \in Actor |-> pc[b]] /\ (a = Main <=> a \notin Slot)
  BY SlotsAreActors DEF LInv, IInv, Types, Actor
<1>2. UNCHANGED <<cur, goal, entry, queues>>
  BY <1>1, OpeningFrame, OpenSucceedsFrame DEF sched
<1>3. CASE OpenSucceeds(a) /\ goal[a] # "remove"
  <2>1. PICK d \in Dir : d = Target(a) /\ ~fd[d]
    BY <1>1, <1>3, NotYetOpen
  <2>2. fd' = [fd EXCEPT ![d] = TRUE] /\ pc[a] = "call" /\ pc'[a] = AfterOpen(a)
    BY <1>1, <1>3, <2>1 DEF OpenSucceeds, Goto
  <2>3. /\ fd'[d] /\ \A c \in Dir : c # d => fd'[c] = fd[c]
    BY <1>1, <2>2 DEF CountTypes
  <2>4. \A c : Holds(a, c) => Holds(a, c)'
    <3>1. a \in Slot /\ InScan(a) => InScan(a)'
      <4>1. a \in Slot /\ InScan(a) => goal[a] = "child"
        BY <1>3, <2>2 DEF InScan, Phase, Opens, IInv, WorkerShape
      <4>2. goal[a] = "child" => pc'[a] = "count"
        BY <2>2 DEF AfterOpen
      <4> QED
        BY <1>2, <4>1, <4>2 DEF InScan, Phase, Opens
    <3> QED
      BY <1>2, <2>2, <3>1 DEF Holds
  <2>5. Holds(a, d)' /\ (a \in Slot /\ InScan(a)' => fd'[cur[a]])
    <3>1. CASE a \in Slot /\ goal[a] = "task"
      <4>1. d = cur[a] /\ pc'[a] = "scan"
        BY <2>1, <2>2, <3>1 DEF Target, AfterOpen
      <4>2. InScan(a)'
        BY <1>2, <3>1, <4>1 DEF InScan, Phase, Opens
      <4> QED
        BY <1>2, <2>3, <3>1, <4>1, <4>2 DEF Holds
    <3>2. CASE a \in Slot /\ goal[a] = "child"
      <4>1. d = entry[a] /\ pc'[a] = "count" /\ InScan(a)
        BY <2>1, <2>2, <3>2 DEF Target, AfterOpen, InScan, Phase, Opens
      <4>2. fd[cur[a]] /\ cur[a] \in Dir
        <5>1. Works(View, a)
          BY <3>2, <4>1, Fields DEF Works, InScan
        <5> QED
          BY <1>1, <3>2, <4>1, <5>1, Fields DEF DirsAreKept, IInv, Sound, Typed
      <4> QED
        BY <1>2, <2>3, <3>2, <4>1, <4>2 DEF Holds
    <3>3. CASE a = Main
      <4>1. goal[a] = "root"
        BY <2>2, <3>3 DEF IInv, MainShape
      <4>2. d = cur[a] /\ pc'[a] = "seed"
        BY <2>1, <2>2, <4>1 DEF Target, AfterOpen
      <4> QED
        BY <1>1, <1>2, <3>3, <4>2 DEF Holds
    <3>4. a \in Slot => goal[a] \in {"task", "child"}
      BY <1>3, <2>2 DEF IInv, WorkerShape
    <3> QED
      BY <1>1, <3>1, <3>2, <3>3, <3>4
  <2>6. ASSUME NEW c \in Dir, fd'[c]
        PROVE  c \in Tasks(queues) \/ \E b \in Actor : Holds(b, c)'
    <3>1. CASE c = d
      BY <2>5, <3>1
    <3>2. CASE c # d
      <4>1. c \in Tasks(queues) \/ \E b \in Actor : Holds(b, c)
        BY <1>1, <2>3, <2>6, <3>2 DEF DirsAreKept
      <4> QED
        BY <2>4, <4>1, OthersHold
    <3> QED
      BY <3>1, <3>2
  <2>7. ASSUME NEW s \in Slot, InScan(s)'
        PROVE  fd'[cur[s]]
    <3>1. CASE s # a
      <4>1. InScan(s)
        BY <2>7, <3>1, SlotsAreActors, PhasesStay DEF InScan
      <4>2. Works(View, s)
        BY <4>1, Fields DEF Works, InScan
      <4>3. fd[cur[s]] /\ cur[s] \in Dir
        BY <1>1, <4>1, <4>2, Fields DEF DirsAreKept, IInv, Sound, Typed
      <4> QED
        BY <2>3, <4>3
    <3> QED
      BY <2>5, <2>7, <3>1
  <2> QED
    BY <1>2, <2>6, <2>7 DEF DirsAreKept
<1>4. CASE ~(OpenSucceeds(a) /\ goal[a] # "remove")
  <2>1. fd' = fd /\ (a \in Slot => Phase(a)' = Phase(a))
        /\ (pc'[a] = pc[a] \/ pc[a] \in Opens)
    <3>1. CASE OpenSucceeds(a)
      <4>1. fd' = fd /\ pc[a] = "call" /\ goal[a] = "remove" /\ pc'[a] = "rmdir"
        BY <1>1, <1>4, <3>1 DEF OpenSucceeds, AfterOpen, Goto
      <4> QED
        BY <1>2, <4>1 DEF Phase, Opens
    <3>2. CASE Unwind(a)
      BY <1>2, <3>2 DEF Unwind, Phase, nodes
    <3>3. CASE ~OpenSucceeds(a) /\ ~Unwind(a)
      <4>1. pc[a] \in Opens /\ \E label \in Opens : pc'[a] = label
        BY <1>1, <3>3, StillOpening DEF Opening, Goto
      <4>2. fd' = fd
        BY <1>1, <3>3, OpeningFrame DEF nodes
      <4> QED
        BY <1>2, <4>1, <4>2 DEF Phase, Opens
    <3> QED
      BY <3>1, <3>2, <3>3
  <2>2. \A d : Holds(a, d) => Holds(a, d)'
    BY <1>1, <1>2, <2>1 DEF Holds, InScan, Opens
  <2>3. a \in Slot /\ InScan(a)' => fd[cur'[a]]
    BY <1>1, <1>2, <2>1 DEF InScan, DirsAreKept
  <2> QED
    BY <1>1, <1>2, <2>1, <2>2, <2>3, DirsStay
<1> QED
  BY <1>3, <1>4

\* A task that is open is scanned at once.
LEMMA AcquireDirs ==
    ASSUME IInv, LInv, NEW s \in Slot, Alone(s), Acquire(s)
    PROVE  DirsAreKept'
<1>1. /\ s \in Actor /\ s # Main /\ DirsAreKept /\ pc = [b \in Actor |-> pc[b]]
      /\ goal = [b \in Actor |-> goal[b]] /\ cur = [b \in Actor |-> cur[b]]
  BY SlotsAreActors DEF LInv, IInv, Types
<1>2. PICK d \in Tasks(queues) : Start(s, d) /\ Tasks(queues') = Tasks(queues) \ {d}
  BY AcquireTakes
<1>3. /\ pc[s] = "idle" /\ fd' = fd /\ cur'[s] = d /\ goal'[s] = "task"
      /\ pc'[s] = IF fd[d] THEN "scan" ELSE "reserve"
  BY <1>1, <1>2 DEF Acquire, Start, Goto, nodes
<1>4. \A c : ~Holds(s, c)
  BY <1>1, <1>3 DEF Holds, InScan, Phase
<1>5. InScan(s)' <=> fd[d]
  BY <1>3 DEF InScan, Phase, Opens
<1>6. fd[d] => Holds(s, d)'
  BY <1>3, <1>5 DEF Holds
<1> QED
  BY <1>1, <1>2, <1>3, <1>4, <1>5, <1>6, DirsStay

\* What a worker has scanned it closes, and no other scans it.
LEMMA CloseDirs ==
    ASSUME IInv, LInv, NEW s \in Slot, Alone(s), CloseScanned(s)
    PROVE  DirsAreKept'
<1>1. /\ s \in Actor /\ s # Main /\ DirsAreKept /\ pc = [b \in Actor |-> pc[b]]
      /\ fd \in [Dir -> BOOLEAN]
  BY SlotsAreActors DEF LInv, CountTypes, IInv, Types
<1>2. /\ fd' = [fd EXCEPT ![cur[s]] = FALSE] /\ pc[s] \in {"scan", "close"}
      /\ pc'[s] = "unref" /\ UNCHANGED <<queues, cur>>
  BY <1>1 DEF CloseScanned, Reading, Goto, sched
<1>3. Phase(s) = "scanning" /\ Phase(s)' = "unref"
  BY <1>2 DEF Phase, IInv, WorkerShape, Opens
<1>4. ASSUME NEW d \in Dir, fd'[d]
      PROVE  d \in Tasks(queues) \/ \E b \in Actor : Holds(b, d)'
  <2>1. fd[d] /\ d # cur[s]
    BY <1>1, <1>2, <1>4
  <2>2. ~Holds(s, d)
    BY <1>1, <1>2, <2>1 DEF Holds
  <2> QED
    BY <1>1, <2>1, <2>2, OthersHold DEF DirsAreKept
<1>5. ASSUME NEW t \in Slot, InScan(t)'
      PROVE  fd'[cur[t]]
  <2>1. t # s
    BY <1>3, <1>5 DEF InScan
  <2>2. InScan(t)
    BY <1>1, <1>5, <2>1, PhasesStay DEF InScan
  <2>3. Scans(View, t) /\ Scans(View, s) /\ Works(View, t)
    BY <1>3, <2>2, Fields DEF Scans, Works, InScan
  <2>4. cur[t] # cur[s] /\ cur[t] \in Dir
    BY <2>1, <2>3, Fields DEF IInv, Sound, ScannedOnce, Typed
  <2> QED
    BY <1>1, <1>2, <2>2, <2>4 DEF DirsAreKept
<1> QED
  BY <1>2, <1>4, <1>5 DEF DirsAreKept

\* After a worker's step every open directory is queued or held.
LEMMA WorkerDirs ==
    ASSUME IInv, LInv, NEW s \in Slot, WorkerStep(s)
    PROVE  DirsAreKept'
<1>1. /\ s \in Actor /\ Alone(s) /\ DirsAreKept /\ WorkerShape(s)
      /\ pc = [b \in Actor |-> pc[b]] /\ goal = [b \in Actor |-> goal[b]]
      /\ entry = [b \in Slot |-> entry[b]]
  BY SlotsAreActors, WorkersActAlone DEF LInv, IInv, Types
<1>2. CASE Opening(s) \/ Acquire(s) \/ CloseScanned(s)
  BY <1>1, <1>2, OpeningDirs, AcquireDirs, CloseDirs
<1>3. CASE Park(s)
  <2>1. /\ fd' = fd /\ pc[s] = "retry" /\ goal[s] = "task" /\ pc'[s] = "finish"
    BY <1>1, <1>3 DEF Park, Goto, nodes
  <2>2. ~InScan(s) /\ ~InScan(s)'
    BY <2>1 DEF InScan, Phase, Opens
  <2> QED
    BY <1>1, <1>3, <2>1, <2>2, ParkAdds, ScanGoesOn
<1>4. CASE Abandon(s)
  <2>1. /\ UNCHANGED <<fd, queues>> /\ pc[s] \in {"giveup", "gone"} /\ goal[s] = "task"
        /\ pc'[s] \in {"reserve", "rmdir", "delete"}
        /\ pc'[s] # "delete" => goal'[s] = "remove"
    BY <1>1, <1>4 DEF Abandon, StartRemove, Hopeless, Goto, nodes, sched
  <2>2. ~InScan(s) /\ ~InScan(s)'
    BY <2>1 DEF InScan, Phase, Opens
  <2> QED
    BY <1>1, <2>1, <2>2, ScanGoesOn
<1>5. CASE UnlinkFile(s) \/ SkipGone(s) \/ StatFails(s)
  <2>1. UNCHANGED <<fd, queues, pc, goal, cur, entry>>
    BY <1>5 DEF UnlinkFile, SkipGone, StatFails, nodes, sched
  <2>2. InScan(s)' <=> InScan(s)
    BY <2>1 DEF InScan, Phase
  <2> QED
    BY <1>1, <2>1, <2>2, ScanGoesOn
<1>6. CASE ReadFails(s)
  <2>1. /\ UNCHANGED <<fd, queues, goal, cur, entry>> /\ pc[s] = "scan" /\ pc'[s] = "close"
    BY <1>1, <1>6 DEF ReadFails, Reading, Goto, nodes, sched
  <2>2. InScan(s)' /\ InScan(s)
    BY <1>1, <2>1 DEF InScan, Phase, WorkerShape, Opens
  <2> QED
    BY <1>1, <2>1, <2>2, ScanGoesOn
<1>7. CASE MeetChild(s)
  <2>1. /\ UNCHANGED <<fd, queues, cur>> /\ pc[s] = "scan" /\ pc'[s] \in {"count", "reserve"}
        /\ goal'[s] = "child"
    BY <1>1, <1>7 DEF MeetChild, Reading, Goto, nodes, sched
  <2>2. InScan(s)' /\ InScan(s)
    BY <1>1, <2>1 DEF InScan, Phase, WorkerShape, Opens
  <2> QED
    BY <1>1, <2>1, <2>2, ScanGoesOn
<1>8. CASE ChildRefused(s)
  <2>1. /\ UNCHANGED <<fd, queues, cur>> /\ pc[s] \in {"giveup", "gone"} /\ goal[s] = "child"
        /\ pc'[s] = "scan" /\ goal'[s] = "task"
    BY <1>1, <1>8 DEF ChildRefused, LeaveEntry, Hopeless, Goto, nodes, sched
  <2>2. InScan(s)' /\ InScan(s)
    BY <2>1 DEF InScan, Phase, Opens
  <2> QED
    BY <1>1, <2>1, <2>2, ScanGoesOn
<1>9. CASE Count(s)
  <2>1. /\ UNCHANGED <<fd, queues, cur, goal, entry>> /\ pc[s] \in {"count", "retry"}
        /\ goal[s] = "child" /\ pc'[s] = "publish"
    BY <1>1, <1>9 DEF Count, Goto, WorkerShape, sched, scanning
  <2>2. InScan(s)' /\ InScan(s)
    BY <2>1 DEF InScan, Phase, Opens
  <2> QED
    BY <1>1, <2>1, <2>2, ScanGoesOn
<1>10. CASE Publish(s)
  <2>1. /\ UNCHANGED <<fd, cur>> /\ pc[s] = "publish" /\ goal[s] = "child"
        /\ pc'[s] = "scan" /\ goal'[s] = "task"
    BY <1>1, <1>10 DEF Publish, LeaveEntry, Goto, WorkerShape, nodes
  <2>2. InScan(s)' /\ InScan(s)
    BY <2>1 DEF InScan, Phase, Opens
  <2>3. entry[s] \in Tasks(queues') /\ Tasks(queues) \subseteq Tasks(queues')
    BY <1>10, PublishAdds
  <2> QED
    BY <1>1, <2>1, <2>2, <2>3, ScanGoesOn
<1>11. CASE Unref(s)
  <2>1. /\ UNCHANGED <<fd, queues>> /\ pc[s] = "unref" /\ pc'[s] \in {"reserve", "rmdir", "finish"}
        /\ pc'[s] # "finish" => goal'[s] = "remove"
    BY <1>1, <1>11 DEF Unref, StartRemove, Goto, sched
  <2>2. ~InScan(s)' /\ ~InScan(s)
    BY <2>1 DEF InScan, Phase
  <2> QED
    BY <1>1, <2>1, <2>2, ScanGoesOn
<1>12. CASE RemoveEmpty(s) \/ RemoveEmptyFails(s)
  <2>1. /\ UNCHANGED <<fd, queues>> /\ goal[s] = "remove" /\ pc'[s] = "delete"
        /\ pc[s] \in Opens \cup {"rmdir"}
    BY <1>1, <1>12 DEF RemoveEmpty, RemoveEmptyFails, Hopeless, WorkerShape, Goto, nodes, sched,
                       Opens
  <2>2. ~InScan(s)' /\ ~InScan(s)
    BY <2>1 DEF InScan, Phase, Opens
  <2> QED
    BY <1>1, <2>1, <2>2, ScanGoesOn DEF Opens
<1>13. CASE Delete(s) \/ Finish(s)
  <2>1. /\ UNCHANGED <<fd, queues>> /\ pc[s] \in {"delete", "finish"}
        /\ pc'[s] \in {"finish", "unref", "idle"}
    BY <1>1, <1>13 DEF Delete, Finish, Goto, nodes, sched
  <2>2. ~InScan(s)' /\ ~InScan(s)
    BY <2>1 DEF InScan, Phase
  <2> QED
    BY <1>1, <2>1, <2>2, ScanGoesOn
<1> QED
  BY <1>2, <1>3, <1>4, <1>5, <1>6, <1>7, <1>8, <1>9, <1>10, <1>11, <1>12, <1>13
     DEF WorkerStep

\* After a step of the main thread every open directory is queued or held.
LEMMA MainDirs ==
    ASSUME IInv, LInv, MainStep
    PROVE  DirsAreKept'
<1>1. /\ Main \in Actor /\ Main \notin Slot /\ Alone(Main) /\ DirsAreKept
      /\ pc = [b \in Actor |-> pc[b]]
  BY SlotsAreActors, MainActsAlone DEF LInv, IInv, Types
<1>2. CASE Opening(Main)
  BY <1>1, <1>2, OpeningDirs
<1>3. CASE SeedRoot
  <2>1. fd' = fd /\ Tasks(queues') = Tasks(queues) \cup {cur[Main]}
    BY <1>3, SeedAdds DEF SeedRoot
  <2> QED
    BY <1>1, <2>1, DirsStay DEF Holds
<1>4. CASE NextOperand \/ OperandGone \/ RootRefused \/ Wait
  <2>1. UNCHANGED <<fd, queues>> /\ pc[Main] # "seed"
    BY <1>4 DEF NextOperand, OperandGone, RootRefused, Wait, Hopeless, nodes, sched
  <2> QED
    BY <1>1, <2>1, DirsStay DEF Holds
<1> QED
  BY <1>2, <1>3, <1>4 DEF MainStep

----------------------------------------------------------------------------
(* The invariant                                                           *)

\* Before the walk nothing is counted, queued or open.
LEMMA CountsAtStart ==
    ASSUME Init
    PROVE  LInv
<1>1. IInv /\ Main \in Actor /\ \A s \in Slot : s \in Actor /\ s # Main
  BY InitStep, SlotsAreActors
<1>2. CountTypes
  BY DEF Init, CountTypes
<1>3. \A a \in Actor : ExtraShape(a)
  BY DEF Init, ExtraShape
<1>4. Tasks(queues) = {}
  <2>1. Len(<<>>) = 0
    BY EmptySeq
  <2> QED
    BY <2>1 DEF Init, Tasks, At, kRunnable, kAwaitingDescriptor
<1>5. DirsAreKept
  <2>1. \A s \in Slot : Phase(s) = "idle"
    BY <1>1 DEF Init, Phase
  <2>2. \A d \in Dir : ~fd[d]
    BY DEF Init
  <2> QED
    BY <2>1, <2>2 DEF DirsAreKept, InScan
<1>6. OpenDirs = {} /\ Extras = {} /\ Reserving = {} /\ Busy = {}
  <2>1. OpenDirs = {}
    BY DEF Init, OpenDirs
  <2>2. Extras = {}
    BY DEF Init, Extras
  <2>3. Reserving = {} /\ Busy = {}
    BY <1>1 DEF Init, Reserving, Reserved, Busy
  <2> QED
    BY <2>1, <2>2, <2>3
<1>7. LeasesAreCounted /\ TasksAreCounted
  <2>1. live = 0 /\ pending = 0
    BY DEF Init
  <2>2. Cardinality({}) = 0
    BY FS_EmptySet
  <2>3. live = Cardinality({}) + Cardinality({}) + Cardinality({})
    BY <2>1, <2>2
  <2>4. pending = Cardinality({}) + Cardinality({})
    BY <2>1, <2>2
  <2>5. LeasesAreCounted
    BY <1>6, <2>3 DEF LeasesAreCounted
  <2>6. TasksAreCounted
    BY <1>4, <1>6, <2>4 DEF TasksAreCounted
  <2> QED
    BY <2>5, <2>6
<1>8. NodesAreReferenced /\ ExitIsLast
  BY <1>1 DEF Init, NodesAreReferenced, ExitIsLast
<1> QED
  BY <1>2, <1>3, <1>5, <1>7, <1>8 DEF LInv

\* No thread moves.
LEMMA CountsStay ==
    ASSUME LInv,
           UNCHANGED <<nodes, queues, pending, live, pc, goal, cur, entry, extra>>
    PROVE  LInv'
<1>1. \A s \in Slot : Phase(s)' = Phase(s)
  BY DEF Phase
<1>2. CountTypes' /\ \A a \in Actor : ExtraShape(a)'
  BY DEF LInv, CountTypes, ExtraShape, nodes
<1>3. DirsAreKept'
  BY <1>1 DEF LInv, DirsAreKept, Holds, InScan, nodes
<1>4. /\ OpenDirs' = OpenDirs /\ Extras' = Extras /\ Reserving' = Reserving /\ Busy' = Busy
  BY DEF OpenDirs, Extras, Reserving, Reserved, Busy, nodes
<1>5. LeasesAreCounted' /\ TasksAreCounted' /\ ExitIsLast'
  BY <1>4 DEF LInv, LeasesAreCounted, TasksAreCounted, ExitIsLast
<1>6. NodesAreReferenced'
  BY <1>1, NodesStay DEF LInv, nodes
<1> QED
  BY <1>2, <1>3, <1>5, <1>6 DEF LInv

\* Every step of the walk keeps the counts.
LEMMA CountsEveryStep ==
    ASSUME IInv, LInv, [Next]_vars
    PROVE  LInv'
<1>1. CountTypes /\ \A a \in Actor : ExtraShape(a)
  BY DEF LInv
<1>2. ASSUME NEW a \in Actor, Alone(a), ExtraShape(a)', Next
      PROVE  \A b \in Actor : ExtraShape(b)'
  BY <1>1, <1>2 DEF ExtraShape, Alone
<1>3. ASSUME NEW s \in Slot, WorkerStep(s), Next
      PROVE  LInv'
  <2>1. s \in Actor /\ Alone(s)
    BY <1>1, <1>3, SlotsAreActors, WorkersActAlone
  <2>2. CountTypes' /\ ExtraShape(s)'
    BY <1>1, <1>3, <2>1, OpeningExtra, WorkerExtra
  <2>3. \A b \in Actor : ExtraShape(b)'
    BY <1>2, <1>3, <2>1, <2>2
  <2> QED
    BY <1>3, <2>2, <2>3, WorkerDirs, WorkerLeases, WorkerTasks, WorkerNodes, ExitStep
       DEF LInv
<1>4. CASE MainStep /\ Next
  <2>1. Main \in Actor /\ Alone(Main)
    BY <1>1, <1>4, SlotsAreActors, MainActsAlone
  <2>2. CountTypes' /\ ExtraShape(Main)'
    BY <1>1, <1>4, <2>1, OpeningExtra, MainExtra
  <2>3. \A b \in Actor : ExtraShape(b)'
    BY <1>2, <1>4, <2>1, <2>2
  <2> QED
    BY <1>4, <2>2, <2>3, MainDirs, MainLeases, MainTasks, MainNodes, ExitStep DEF LInv
<1>5. CASE FillTable \/ ClearTable \/ OthersRemove \/ UNCHANGED vars
  <2>1. UNCHANGED <<nodes, queues, pending, live, pc, goal, cur, entry, extra>>
    BY <1>5 DEF FillTable, ClearTable, OthersRemove, vars, sched, pool, scanning
  <2> QED
    BY <2>1, CountsStay
<1> QED
  BY <1>3, <1>4, <1>5 DEF Next

\* Leases, pending tasks and references are exact in every state.
THEOREM EverythingIsCounted == Spec => [](IInv /\ LInv)
<1>1. Init => IInv /\ LInv
  BY InitStep, CountsAtStart
<1>2. IInv /\ LInv /\ [Next]_vars => (IInv /\ LInv)'
  BY EveryStep, CountsEveryStep
<1> QED
  BY <1>1, <1>2, PTL DEF Spec

----------------------------------------------------------------------------
(* The end                                                                 *)

\* When every live directory has a live child, none is live: a tree has as many
\* children as parents only when it is empty.
LEMMA NoEndlessTree ==
    ASSUME NEW L \in SUBSET Dir, \A d \in L : \E c \in L : Parent[c] = d
    PROVE  L = {}
<1>1. IsFiniteSet(L)
  BY CountedIsFinite
<1>2. PICK child : child = [d \in L |-> CHOOSE c \in L : Parent[c] = d]
  OBVIOUS
<1>3. \A d \in L : child[d] \in L /\ Parent[child[d]] = d
  BY <1>2
<1>4. child \in Injection(L, L)
  <2>1. child \in [L -> L]
    BY <1>2, <1>3
  <2>2. \A d, e \in L : child[d] = child[e] => d = e
    BY <1>3
  <2> QED
    BY <2>1, <2>2 DEF Injection, IsInjective
<1>5. child \in Surjection(L, L)
  BY <1>1, <1>4, FS_Injection
<1>6. \A c \in L : Parent[c] \in L
  <2> SUFFICES ASSUME NEW c \in L
               PROVE  Parent[c] \in L
    OBVIOUS
  <2>1. PICK d \in L : child[d] = c
    BY <1>5 DEF Surjection
  <2> QED
    BY <2>1, <1>3
<1>7. L \in SUBSET Object
  BY DEF Object
<1> QED
  BY <1>6, <1>7, TreeAssumption

\* When RunRm returns, every node is deleted, every directory closed, every
\* lease returned and every queue empty (main.cpp:477-517, fd.cpp:22-59).
THEOREM NothingIsLeft == Spec => []NothingLeaks
<1>1. IInv /\ LInv => NothingLeaks
  <2> SUFFICES ASSUME IInv, LInv, pc[Main] = "exited"
               PROVE  /\ \A d \in Dir : node[d] # "live" /\ ~fd[d]
                      /\ Descriptors = 0 /\ live = 0 /\ pending = 0 /\ Queued = {}
    BY DEF NothingLeaks, Exited
  <2>1. pending = 0 /\ Tasks(queues) = {} /\ Busy = {}
    BY NothingPending DEF LInv, ExitIsLast
  <2>2. \A s \in Slot : pc[s] = "idle" /\ Phase(s) = "idle"
    BY <2>1 DEF Busy, Phase
  <2>3. Queued = {}
    BY <2>1, TasksAreQueued DEF IInv, Types
  <2>4. \A d \in Dir : ~fd[d]
    <3>1. \A a \in Actor, d \in Dir : ~Holds(a, d)
      BY <2>2 DEF Holds, InScan
    <3> QED
      BY <2>1, <3>1 DEF LInv, DirsAreKept
  <2>5. \A a \in Actor : pc[a] \in {"idle", "exited"}
    BY <2>2 DEF Actor
  <2>6. OpenDirs = {} /\ Extras = {} /\ Reserving = {}
    <3>1. OpenDirs = {}
      BY <2>4 DEF OpenDirs
    <3>2. \A a \in Actor : extra[a] = 0
      BY <2>5, NoExtra DEF LInv, Opens
    <3>3. Extras = {}
      BY <3>2 DEF Extras
    <3>4. Reserving = {}
      BY <2>5 DEF Reserving, Reserved
    <3> QED
      BY <3>1, <3>3, <3>4
  <2>7. Descriptors = 0 /\ live = 0
    BY <2>6, FS_EmptySet DEF LInv, LeasesAreCounted, Descriptors, OpenDirs
  <2>8. PICK L \in SUBSET Dir : L = {d \in Dir : node[d] = "live"}
    OBVIOUS
  <2>9. ASSUME NEW d \in L
        PROVE  \E c \in L : Parent[c] = d
    <3>1. d \in Dir /\ node[d] = "live" /\ ~Removed(View, d)
      BY <2>2, <2>8, Fields DEF Removed
    <3>2. remaining[d] >= 1 /\ Counted(View, d)
      BY <3>1, Fields DEF LInv, NodesAreReferenced, IInv, Sound, Exact
    <3>3. ~Waits(View, d) /\ Holders(View, d) = {}
      BY <2>1, <2>2, Fields DEF Waits, Published, Holders, Works
    <3>4. Kids(View, d) # {}
      BY <3>2, <3>3, Fields, FS_EmptySet DEF Counted
    <3> QED
      BY <2>8, <3>4, Fields DEF Kids
  <2>10. L = {}
    BY <2>9, NoEndlessTree
  <2> QED
    BY <2>1, <2>3, <2>4, <2>7, <2>8, <2>10
<1> QED
  BY <1>1, EverythingIsCounted, PTL

----------------------------------------------------------------------------
(* What is left, and who answers for it                                    *)

\* Whatever exists is in something that does.
DirsHold == \A x \in Object : Exists(x) /\ Parent[x] # None => Exists(Parent[x])

\* A failure that is a reason for x to be left.
Explains(failure, x) ==
    /\ failure[1] \notin {"not empty", "gone"}
    /\ failure[2] \in Parents[x] \/ x \in Parents[failure[2]]

Explained(x) == \E failure \in failed : Explains(failure, x)

\* Worker s is about to queue d, to open it, or to remove it unopened.
Unlists(s, d) ==
    \/ Phase(s) = "publishing" /\ entry[s] = d
    \/ Phase(s) = "unopened" /\ cur[s] = d
    \/ Phase(s) = "removing" /\ cur[s] = d /\ pc[s] # "delete" /\ remaining[d] # 0

\* No scan has listed the directory yet.
Unlisted(d) ==
    node[d] = "none" \/ d \in Tasks(queues) \/ \E s \in Slot : Unlists(s, d)

\* The directory has a node whose removal is not over.
Standing(x) ==
    x \in Dir /\ node[x] = "live" /\ \A s \in Slot : ~(pc[s] = "delete" /\ cur[s] = x)

\* The scan of worker s will come to x, or is at it.
Awaits(s, x) == x \in todo[s] \/ (Phase(s) = "meeting" /\ entry[s] = x)

\* Somebody is still to remove the object, or to find it.
InHand(x) ==
    \/ Standing(x) \/ x \in Unseeded
    \/ \E s \in Slot : Awaits(s, x)
    \/ Parent[x] # None /\ Unlisted(Parent[x])

\* What is left is in somebody's hands or explained, and then it has failed
\* itself or the directory it is in has.
Answered(x) == InHand(x) \/ (Explained(x) /\ (x \in Named \/ Parent[x] \in Named))
AllAnswered == \A x \in Object : Exists(x) => Answered(x)

\* Nothing fails before a scan has come to it.
Reached(x) == x \in Object /\ (Parent[x] # None => node[Parent[x]] # "none")
FailuresAreReached == \A failure \in failed : Reached(failure[2])

\* Who found a directory gone was right, and it does not come back.
GoneIsGone == \A a \in Actor : pc[a] = "gone" => ~Exists(Target(a))

\* A scan meets what its directory holds; only for a long path does a removal
\* open the parent.
ScanShape(s) ==
    /\ todo[s] # {} => todo[s] \subseteq Children(cur[s])
    /\ goal[s] = "remove" /\ pc[s] \in Opens => cur[s] \in Long

\* RunRm waits when it has come to every operand.
ExitIsAfterAll == pc[Main] = "exited" => operand > Len(Operands)

TInv ==
    /\ DirsHold /\ AllAnswered /\ FailuresAreReached /\ GoneIsGone
    /\ \A s \in Slot : ScanShape(s)
    /\ ExitIsAfterAll

----------------------------------------------------------------------------
(* The tree                                                                *)

\* What an object lies in.
LEMMA ParentsAreAbove ==
    ASSUME NEW x \in Object
    PROVE  /\ x \in Parents[x] /\ Parents[x] \subseteq Object
           /\ \A y \in Parents[x] : Parents[y] \subseteq Parents[x]
           /\ Parent[x] # None => Parent[x] \in Parents[x] /\ Parent[x] \in Dir
<1>1. \A y \in Object :
         /\ Parents[y] = {y} \cup (IF Parent[y] = None THEN {} ELSE Parents[Parent[y]])
         /\ Parent[y] # None => Parent[y] \in Dir /\ Parent[y] \in Object
  BY ParentsDef, ParentAssumption DEF Object
<1>2. PICK bad \in SUBSET Object :
         bad = {y \in Object : \/ ~(Parents[y] \subseteq Object)
                               \/ \E z \in Parents[y] : ~(Parents[z] \subseteq Parents[y])}
  OBVIOUS
<1>3. bad = {}
  <2> SUFFICES ASSUME bad # {}
               PROVE  FALSE
    OBVIOUS
  <2>1. PICK y \in bad : Parent[y] \notin bad
    BY TreeAssumption
  <2>2. y \in Object
    BY <2>1
  <2>3. CASE Parent[y] = None
    <3>1. Parents[y] = {y}
      BY <1>1, <2>2, <2>3
    <3> QED
      BY <3>1, <2>1, <2>2, <1>2
  <2>4. CASE Parent[y] # None
    <3>1. Parents[y] = {y} \cup Parents[Parent[y]] /\ Parent[y] \in Object
      BY <1>1, <2>2, <2>4
    <3>2. /\ Parents[Parent[y]] \subseteq Object
          /\ \A z \in Parents[Parent[y]] : Parents[z] \subseteq Parents[Parent[y]]
      BY <3>1, <2>1, <1>2
    <3>3. Parents[y] \subseteq Object
      BY <3>1, <3>2, <2>2
    <3>4. ASSUME NEW z \in Parents[y]
          PROVE  Parents[z] \subseteq Parents[y]
      <4>1. CASE z = y
        BY <4>1
      <4>2. CASE z \in Parents[Parent[y]]
        BY <4>2, <3>1, <3>2
      <4> QED
        BY <3>1, <4>1, <4>2
    <3> QED
      BY <3>3, <3>4, <2>1, <1>2
  <2> QED
    BY <2>3, <2>4
<1>4. Parent[x] # None => Parent[x] \in Parents[Parent[x]]
  BY <1>1
<1> QED
  BY <1>1, <1>2, <1>3, <1>4

\* What lies in an object that is gone is gone.
LEMMA AboveExists ==
    ASSUME DirsHold, NEW x \in Object, Exists(x)
    PROVE  \A y \in Parents[x] : Exists(y)
<1>1. PICK bad \in SUBSET Object :
         bad = {y \in Object : Exists(y) /\ \E z \in Parents[y] : ~Exists(z)}
  OBVIOUS
<1>2. bad = {}
  <2> SUFFICES ASSUME bad # {}
               PROVE  FALSE
    OBVIOUS
  <2>1. PICK y \in bad : Parent[y] \notin bad
    BY TreeAssumption
  <2>2. /\ y \in Object /\ Exists(y) /\ \E z \in Parents[y] : ~Exists(z)
        /\ Parents[y] = {y} \cup (IF Parent[y] = None THEN {} ELSE Parents[Parent[y]])
    BY <2>1, <1>1, ParentsDef
  <2>3. Parent[y] # None /\ \E z \in Parents[Parent[y]] : ~Exists(z)
    BY <2>2
  <2>4. Exists(Parent[y]) /\ Parent[y] \in Object
    BY <2>2, <2>3, ParentAssumption DEF DirsHold, Object
  <2> QED
    BY <2>1, <2>3, <2>4, <1>1
<1> QED
  BY <1>1, <1>2

\* The first piece of a long path is a directory above it.
LEMMA PieceIsAbove ==
    ASSUME NEW d \in Dir
    PROVE  Piece(d) \in Parents[d]
<1>1. PICK bad \in SUBSET Object :
         bad = {x \in Dir : ~(\E p \in Parents[x] \ Long : Parents[x] \ Long \subseteq Parents[p])}
  BY DEF Object
<1>2. bad = {}
  <2> SUFFICES ASSUME bad # {}
               PROVE  FALSE
    OBVIOUS
  <2>1. PICK x \in bad : Parent[x] \notin bad
    BY TreeAssumption
  <2>2. x \in Dir /\ x \in Object
    BY <2>1, <1>1
  <2>3. x \in Long
    BY <2>1, <2>2, <1>1, ParentsAreAbove
  <2>4. Parent[x] \in Dir /\ Parent[x] # None
    BY <2>2, <2>3, LongAssumption, ParentsAreAbove
  <2>5. Parents[x] \ Long = Parents[Parent[x]] \ Long
    BY <2>2, <2>3, <2>4, ParentsDef
  <2> QED
    BY <2>1, <2>4, <2>5, <1>1
<1>3. \E p \in Parents[d] \ Long : Parents[d] \ Long \subseteq Parents[p]
  BY <1>1, <1>2
<1> QED
  BY <1>3 DEF Piece

----------------------------------------------------------------------------
(* What explains, what is in hand                                          *)

Justified(x) == Explained(x) /\ (x \in Named \/ Parent[x] \in Named)

\* A failure justifies that its object is left, and what lies in it.
LEMMA Blame ==
    ASSUME NEW error, error \notin {"not empty", "gone"}, NEW o \in Object,
           <<error, o>> \in failed', NEW x \in Object, x = o \/ (Parent[x] # None /\ Parent[x] = o)
    PROVE  Justified(x)'
<1>1. o \in Parents[x]
  BY ParentsAreAbove
<1>2. Explains(<<error, o>>, x)
  BY <1>1 DEF Explains
<1>3. o \in Named'
  <2>1. \E failure \in failed' : o = failure[2]
    OBVIOUS
  <2> QED
    BY <2>1 DEF Named
<1> QED
  BY <1>2, <1>3 DEF Justified, Explained

\* A reason for something to be left is one for what it is in.
LEMMA ExplainedAbove ==
    ASSUME FailuresAreReached, NEW y \in Object, Parent[y] # None, Explained(y)
    PROVE  Explained(Parent[y])
<1>1. PICK failure \in failed : Explains(failure, y)
  BY DEF Explained
<1>2. failure[2] \in Object
  BY DEF FailuresAreReached, Reached
<1>3. Parents[y] = {y} \cup Parents[Parent[y]] /\ Parent[y] \in Parents[y]
  BY ParentsDef, ParentsAreAbove
<1>4. y \in Parents[failure[2]] => Parent[y] \in Parents[failure[2]]
  BY <1>2, <1>3, ParentsAreAbove
<1>5. Explains(failure, Parent[y])
  BY <1>1, <1>3, <1>4 DEF Explains
<1> QED
  BY <1>5 DEF Explained

\* A step has to answer for what it takes out of somebody's hands.
LEMMA AnswersStay ==
    ASSUME AllAnswered, fs' \subseteq fs, failed \subseteq failed',
           \A x \in Object :
              Exists(x) /\ Exists(x)' /\ InHand(x) => InHand(x)' \/ Justified(x)'
    PROVE  AllAnswered'
<1>1. SUFFICES ASSUME NEW x \in Object, Exists(x)'
               PROVE  InHand(x)' \/ Justified(x)'
  BY DEF AllAnswered, Answered, Justified
<1>2. Exists(x)
  BY <1>1 DEF Exists
<1>3. Justified(x) => Justified(x)'
  BY DEF Justified, Explained, Named
<1> QED
  BY <1>1, <1>2, <1>3 DEF AllAnswered, Answered, Justified

\* What a step of worker s leaves in hand.
Keeps(s, x) ==
    /\ Standing(x) => node'[x] = "live" /\ ~(pc'[s] = "delete" /\ cur'[s] = x)
    /\ Awaits(s, x) => Awaits(s, x)'
    /\ Parent[x] # None =>
          /\ node[Parent[x]] = "none" => Unlisted(Parent[x])'
          /\ Parent[x] \in Tasks(queues) => Unlisted(Parent[x])'
          /\ Unlists(s, Parent[x]) => Unlisted(Parent[x])'
          /\ \A t \in Slot \ {s} : Unlists(t, Parent[x]) => Unlists(t, Parent[x])'

\* What was in hand then still is.
LEMMA KeepsInHand ==
    ASSUME NEW s \in Slot, Only(s), NEW x, InHand(x), Keeps(s, x)
    PROVE  InHand(x)'
<1>1. \A t \in Slot \ {s} : /\ pc'[t] = pc[t] /\ cur'[t] = cur[t] /\ goal'[t] = goal[t]
                            /\ todo'[t] = todo[t] /\ entry'[t] = entry[t]
  BY SlotsAreActors DEF Only
<1>2. CASE Standing(x)
  BY <1>1, <1>2 DEF Keeps, Standing, InHand
<1>3. CASE x \in Unseeded
  BY <1>3 DEF Only, Unseeded, InHand
<1>4. CASE \E t \in Slot : Awaits(t, x)
  <2>1. PICK t \in Slot : Awaits(t, x)
    BY <1>4
  <2>2. CASE t = s
    BY <2>1, <2>2 DEF Keeps, InHand
  <2>3. CASE t # s
    <3>1. Phase(t)' = Phase(t)
      BY <1>1, <2>3 DEF Phase
    <3>2. Awaits(t, x)'
      BY <1>1, <2>1, <2>3, <3>1 DEF Awaits
    <3> QED
      BY <3>2 DEF InHand
  <2> QED
    BY <2>2, <2>3
<1>5. CASE Parent[x] # None /\ Unlisted(Parent[x])
  <2>1. PICK d : d = Parent[x]
    OBVIOUS
  <2>2. CASE node[d] = "none" \/ d \in Tasks(queues) \/ Unlists(s, d)
    BY <1>5, <2>1, <2>2 DEF Keeps, InHand
  <2>3. CASE \E t \in Slot \ {s} : Unlists(t, d)
    <3>1. Unlisted(d)'
      BY <1>5, <2>1, <2>3 DEF Keeps, Unlisted
    <3> QED
      BY <1>5, <2>1, <3>1 DEF InHand
  <2> QED
    BY <1>5, <2>1, <2>2, <2>3 DEF Unlisted
<1> QED
  BY <1>2, <1>3, <1>4, <1>5 DEF InHand

\* The others keep what they are to list when no counter changes.
LEMMA OthersUnlist ==
    ASSUME NEW s \in Slot, Only(s), NEW d, remaining'[d] = remaining[d]
    PROVE  \A t \in Slot \ {s} : Unlists(t, d) => Unlists(t, d)'
<1>1. SUFFICES ASSUME NEW t \in Slot \ {s}, Unlists(t, d)
               PROVE  Unlists(t, d)'
  OBVIOUS
<1>2. /\ pc'[t] = pc[t] /\ cur'[t] = cur[t] /\ goal'[t] = goal[t] /\ entry'[t] = entry[t]
  BY SlotsAreActors DEF Only
<1>3. Phase(t)' = Phase(t)
  BY <1>2 DEF Phase
<1> QED
  BY <1>1, <1>2, <1>3 DEF Unlists

\* A worker that stays in its phase drops nothing but what its scan passes and
\* what it has given up removing.
LEMMA SamePhaseKeeps ==
    ASSUME NEW s \in Slot, Only(s), UNCHANGED <<node, remaining, queues>>,
           Phase(s)' = Phase(s), cur'[s] = cur[s], entry'[s] = entry[s], NEW x,
           x \in todo[s] => x \in todo'[s],
           pc'[s] = "delete" /\ pc[s] # "delete" => x # cur[s] /\ Parent[x] # cur[s]
    PROVE  Keeps(s, x)
<1>1. \A t \in Slot \ {s} : Unlists(t, Parent[x]) => Unlists(t, Parent[x])'
  BY OthersUnlist
<1>2. Unlists(s, Parent[x]) => Unlists(s, Parent[x])'
  BY DEF Unlists
<1>3. Awaits(s, x) => Awaits(s, x)'
  BY DEF Awaits
<1>4. Standing(x) => node'[x] = "live" /\ ~(pc'[s] = "delete" /\ cur'[s] = x)
  BY DEF Standing
<1> QED
  BY <1>1, <1>2, <1>3, <1>4 DEF Keeps, Unlisted

\* Nor does one whose phase matters to nobody, before the step and after it.
LEMMA NewPhaseKeeps ==
    ASSUME NEW s \in Slot, Only(s), UNCHANGED <<node, remaining, queues>>,
           pc'[s] # "delete", NEW x, Awaits(s, x) => Awaits(s, x)',
           Parent[x] # None /\ Unlists(s, Parent[x]) => Unlists(s, Parent[x])'
    PROVE  Keeps(s, x)
<1>1. \A t \in Slot \ {s} : Unlists(t, Parent[x]) => Unlists(t, Parent[x])'
  BY OthersUnlist
<1>2. Standing(x) => node'[x] = "live"
  BY DEF Standing
<1> QED
  BY <1>1, <1>2 DEF Keeps, Unlisted

----------------------------------------------------------------------------
(* What the steps do to the file system and to the failures                *)

\* What a worker works on has been reached.
LEMMA AtWork ==
    ASSUME IInv, NEW s \in Slot, Phase(s) \notin {"idle", "finish"}
    PROVE  cur[s] \in Dir /\ node[cur[s]] = "live" /\ Reached(cur[s])
<1>1. Works(View, s) /\ View.cur[s] = cur[s]
  BY Fields DEF Works
<1>2. cur[s] \in Dir /\ node[cur[s]] = "live"
  BY <1>1, Fields DEF IInv, Sound, Typed, AllLive
<1>3. Parent[cur[s]] # None => node[Parent[cur[s]]] = "live"
  BY <1>2, Fields DEF IInv, Sound, AllLive
<1> QED
  BY <1>2, <1>3 DEF Reached, Object

\* So has what its scan comes to.
LEMMA AtEntry ==
    ASSUME IInv, NEW s \in Slot, ScanShape(s), NEW x, Awaits(s, x)
    PROVE  /\ x \in Object /\ Parent[x] = cur[s] /\ Parent[x] # None /\ Reached(x)
           /\ cur[s] \in Dir /\ Phase(s) \in {"scanning", "meeting", "publishing"}
<1>1. Phase(s) \in {"scanning", "meeting", "publishing"}
  BY Fields DEF Awaits, IInv, Sound, AheadIsNew
<1>2. cur[s] \in Dir /\ node[cur[s]] = "live"
  BY <1>1, AtWork
<1>3. x \in Object /\ Parent[x] = cur[s]
  <2>1. CASE x \in todo[s]
    BY <2>1 DEF ScanShape, Children
  <2>2. CASE Phase(s) = "meeting" /\ entry[s] = x
    BY <2>2, Fields DEF IInv, Sound, Typed, Object
  <2> QED
    BY <2>1, <2>2 DEF Awaits
<1> QED
  BY <1>1, <1>2, <1>3, TreeAssumption DEF Reached, Object

\* A file or an empty directory goes, or nothing does.
Shrinks ==
    \/ fs' = fs
    \/ \E e \in Object : (e \in Dir => Left(e) = {}) /\ fs' = fs \ {Real[e]}

\* At most one failure is reported, of something that was reached.
Reports ==
    \/ failed' = failed
    \/ \E error, o : Reached(o) /\ failed' = failed \cup {<<error, o>>}

\* A directory goes only when nothing is left in it, under any of its names.
LEMMA ShrinkingHolds ==
    ASSUME DirsHold, Shrinks
    PROVE  DirsHold' /\ fs' \subseteq fs
<1>1. fs' \subseteq fs
  BY DEF Shrinks
<1>2. SUFFICES ASSUME NEW x \in Object, Real[x] \in fs', Parent[x] # None
               PROVE  Real[Parent[x]] \in fs'
  BY <1>1 DEF DirsHold, Exists
<1>3. Exists(x) /\ Real[Parent[x]] \in fs /\ Parent[x] \in Dir
  BY <1>1, <1>2, ParentAssumption DEF DirsHold, Exists
<1>4. ASSUME NEW e \in Object, e \in Dir => Left(e) = {}
      PROVE  Real[Parent[x]] # Real[e]
  <2>1. CASE e \in Dir
    <3>1. ASSUME Real[Parent[x]] = Real[e]
          PROVE  FALSE
      <4>1. x \in Children(Parent[x])
        BY DEF Children
      <4>2. Real[x] \in {Real[y] : y \in Children(e)}
        BY <1>3, <2>1, <3>1, <4>1, RealAssumption
      <4>3. PICK y \in Children(e) : Real[y] = Real[x]
        BY <4>2
      <4> QED
        BY <1>3, <1>4, <2>1, <4>3 DEF Left, Exists
    <3> QED
      BY <3>1
  <2>2. CASE e \in File
    BY <1>3, <2>2, RealAssumption
  <2> QED
    BY <2>1, <2>2 DEF Object
<1> QED
  BY <1>3, <1>4 DEF Shrinks

\* What was reached stays reached.
LEMMA ReportsAreReached ==
    ASSUME FailuresAreReached, Reports,
           \A d \in Dir : node[d] # "none" => node'[d] # "none"
    PROVE  FailuresAreReached' /\ failed \subseteq failed'
<1>1. failed \subseteq failed'
  BY DEF Reports
<1>2. \A x : Reached(x) => Reached(x)'
  BY ParentAssumption DEF Reached
<1>3. ASSUME NEW failure \in failed'
      PROVE  Reached(failure[2])
  BY <1>3 DEF Reports, FailuresAreReached
<1> QED
  BY <1>1, <1>2, <1>3 DEF FailuresAreReached

\* The removal of a directory, tried.
LEMMA RmdirDoes ==
    ASSUME NEW d \in Dir, Reached(d), NEW error, Rmdir(d, error)
    PROVE  /\ Shrinks /\ Reports
           /\ Exists(d)' => <<error, d>> \in failed' /\ (Left(d) # {} \/ Denied("rmdir", d))
<1>1. CASE Exists(d) /\ Removable(d) /\ fs' = fs \ {Real[d]} /\ failed' = failed
  BY <1>1 DEF Shrinks, Reports, Removable, Exists, Object
<1>2. CASE Exists(d) /\ ~Removable(d) /\ Fail(error, d) /\ fs' = fs
  BY <1>2 DEF Shrinks, Reports, Fail, Removable
<1>3. CASE ~Exists(d) /\ fs' = fs /\ failed' = failed
  BY <1>3 DEF Shrinks, Reports, Exists
<1> QED
  BY <1>1, <1>2, <1>3 DEF Rmdir

\* A worker's step does no more.
LEMMA WorkerEffect ==
    ASSUME IInv, TInv, NEW s \in Slot, WorkerStep(s)
    PROVE  Shrinks /\ Reports
<1>1. s \in Actor
  BY SlotsAreActors
<1>2. CASE Abandon(s)
  <2>1. fs' = fs /\ (failed' = failed \/ \E error : failed' = failed \cup {<<error, cur[s]>>})
    BY <1>2 DEF Abandon, Fail
  <2>2. Phase(s) \notin {"idle", "finish"}
    BY <1>2 DEF Abandon, Hopeless, Phase, Opens
  <2> QED
    BY <2>1, <2>2, AtWork DEF Shrinks, Reports
<1>3. CASE UnlinkFile(s)
  <2>1. PICK e \in todo[s] \cap File :
           \/ Fail("unlink", e) /\ fs' = fs
           \/ fs' = fs \ {Real[e]} /\ failed' = failed
    BY <1>3 DEF UnlinkFile
  <2>2. Reached(e) /\ e \in Object /\ e \notin Dir
    BY <2>1, AtEntry, TreeAssumption DEF Awaits, TInv
  <2> QED
    BY <2>1, <2>2 DEF Fail, Shrinks, Reports
<1>4. CASE StatFails(s)
  <2>1. PICK e \in todo[s] : Fail("stat", e) /\ fs' = fs
    BY <1>4 DEF StatFails
  <2> QED
    BY <2>1, AtEntry DEF Awaits, TInv, Fail, Shrinks, Reports
<1>5. CASE ReadFails(s)
  <2>1. fs' = fs /\ \E error : failed' = failed \cup {<<error, cur[s]>>}
    BY <1>5 DEF ReadFails, Fail
  <2>2. Phase(s) \notin {"idle", "finish"}
    BY <1>5 DEF ReadFails, Reading, Phase, Opens, IInv, WorkerShape
  <2> QED
    BY <2>1, <2>2, AtWork DEF Shrinks, Reports
<1>6. CASE ChildRefused(s)
  <2>1. Phase(s) = "meeting"
    BY <1>6 DEF ChildRefused, Hopeless, Phase, Opens
  <2>2. Reached(entry[s]) /\ entry[s] \in Dir
    BY <2>1, AtEntry, Fields DEF Awaits, TInv, IInv, Sound, Typed
  <2>3. CASE force
    BY <1>6, <2>2, <2>3, RmdirDoes DEF ChildRefused
  <2>4. CASE ~force
    <3>1. fs' = fs /\ \E error : failed' = failed \cup {<<error, entry[s]>>}
      BY <1>6, <2>4 DEF ChildRefused, Fail
    <3> QED
      BY <2>2, <3>1 DEF Shrinks, Reports
  <2> QED
    BY <2>3, <2>4
<1>7. CASE RemoveEmpty(s)
  <2>1. Phase(s) = "removing"
    BY <1>7 DEF RemoveEmpty, Phase
  <2>2. Reached(cur[s]) /\ cur[s] \in Dir
    BY <2>1, AtWork
  <2> QED
    BY <1>7, <2>2, RmdirDoes DEF RemoveEmpty
<1>8. CASE RemoveEmptyFails(s)
  <2>1. Phase(s) = "removing"
    BY <1>8 DEF RemoveEmptyFails, Hopeless, Phase
  <2>2. fs' = fs /\ (failed' = failed \/ failed' = failed \cup {<<"open", cur[s]>>})
    BY <1>8 DEF RemoveEmptyFails, Fail
  <2>3. Reached(cur[s])
    BY <2>1, AtWork
  <2> QED
    BY <2>2, <2>3 DEF Shrinks, Reports
<1>9. CASE \/ Opening(s) \/ Acquire(s) \/ Park(s) \/ SkipGone(s) \/ MeetChild(s) \/ Count(s)
           \/ Publish(s) \/ CloseScanned(s) \/ Unref(s) \/ Delete(s) \/ Finish(s)
  <2>1. fs' = fs /\ failed' = failed
    <3>1. CASE Opening(s)
      BY <3>1 DEF Opening, Reserve, OpenPiece, OpenSucceeds, OpenFails, OpenRefused, Refused,
                  Unwind
    <3>2. CASE Acquire(s) \/ Park(s) \/ SkipGone(s) \/ MeetChild(s) \/ Count(s)
      BY <3>2 DEF Acquire, Park, SkipGone, MeetChild, Count
    <3>3. CASE Publish(s) \/ CloseScanned(s) \/ Unref(s) \/ Delete(s) \/ Finish(s)
      BY <3>3 DEF Publish, CloseScanned, Unref, Delete, Finish
    <3> QED
      BY <1>9, <3>1, <3>2, <3>3
  <2> QED
    BY <2>1 DEF Shrinks, Reports
<1> QED
  BY <1>2, <1>3, <1>4, <1>5, <1>6, <1>7, <1>8, <1>9 DEF WorkerStep

\* An operand is in nothing that is walked.
LEMMA OperandsAreReached ==
    ASSUME NEW i \in 1 .. Len(Operands)
    PROVE  Operands[i] \in Dir /\ Parent[Operands[i]] = None /\ Reached(Operands[i])
<1>1. Operands[i] \in Dir /\ Operands[i] \in Object /\ i \in DOMAIN Operands
  BY TreeAssumption, LenProperties DEF Object
<1>2. Operands[i] \in ToSet(Operands)
  BY <1>1 DEF ToSet
<1>3. Parent[Operands[i]] = None
  BY <1>1, <1>2, ParentAssumption
<1> QED
  BY <1>1, <1>3 DEF Reached

\* RunRm's step does no more to files and failures than a worker's.
LEMMA MainEffect ==
    ASSUME IInv, MainStep
    PROVE  Shrinks /\ Reports
<1>1. operand \in Nat \ {0} /\ Len(Operands) \in Nat
  BY TreeAssumption, LenProperties DEF IInv, Types
<1>2. CASE OperandGone
  <2>1. Reached(Operands[operand])
    BY <1>1, <1>2, OperandsAreReached DEF OperandGone
  <2>2. fs' = fs /\ (failed' = failed \/ failed' = failed \cup {<<"gone", Operands[operand]>>})
    BY <1>2 DEF OperandGone, Fail
  <2> QED
    BY <2>1, <2>2 DEF Shrinks, Reports
<1>3. CASE RootRefused
  <2>1. operand \in 1 .. Len(Operands) /\ cur[Main] = Operands[operand]
    BY <1>1, <1>3 DEF RootRefused, Hopeless, IInv, MainShape
  <2>2. Reached(cur[Main]) /\ cur[Main] \in Dir
    BY <2>1, OperandsAreReached
  <2>3. CASE force
    BY <1>3, <2>2, <2>3, RmdirDoes DEF RootRefused
  <2>4. CASE ~force
    <3>1. fs' = fs /\ \E error : failed' = failed \cup {<<error, cur[Main]>>}
      BY <1>3, <2>4 DEF RootRefused, Fail
    <3> QED
      BY <2>2, <3>1 DEF Shrinks, Reports
  <2> QED
    BY <2>3, <2>4
<1>4. CASE NextOperand \/ Opening(Main) \/ SeedRoot \/ Wait
  <2>1. fs' = fs /\ failed' = failed
    <3>1. CASE Opening(Main)
      BY <3>1 DEF Opening, Reserve, OpenPiece, OpenSucceeds, OpenFails, OpenRefused, Refused,
                  Unwind
    <3>2. CASE NextOperand \/ SeedRoot \/ Wait
      BY <3>2 DEF NextOperand, SeedRoot, Wait
    <3> QED
      BY <1>4, <3>1, <3>2
  <2> QED
    BY <2>1 DEF Shrinks, Reports
<1> QED
  BY <1>2, <1>3, <1>4 DEF MainStep

\* Others remove no directory that something is in.
LEMMA SystemEffect ==
    ASSUME FillTable \/ ClearTable \/ OthersRemove
    PROVE  Shrinks /\ Reports
BY DEF FillTable, ClearTable, OthersRemove, Shrinks, Reports

\* A node does not come to nothing again.
LEMMA NodesStayMade ==
    ASSUME IInv, Next
    PROVE  \A d \in Dir : node[d] # "none" => node'[d] # "none"
<1>1. node = [d \in Dir |-> node[d]]
  BY DEF IInv, Types
<1>2. CASE node' = node
  BY <1>2
<1>3. CASE \E x : node' = [node EXCEPT ![x] = "live"] \/ node' = [node EXCEPT ![x] = "deleted"]
  BY <1>1, <1>3
<1>4. ASSUME NEW s \in Slot, WorkerStep(s)
      PROVE  node' = node \/ \E x : \/ node' = [node EXCEPT ![x] = "live"]
                                    \/ node' = [node EXCEPT ![x] = "deleted"]
  <2>1. CASE Count(s) \/ Delete(s)
    BY <2>1 DEF Count, Delete
  <2>2. CASE Opening(s)
    BY <2>2 DEF Opening, Reserve, OpenPiece, OpenSucceeds, OpenFails, OpenRefused, Refused,
                Unwind, nodes
  <2>3. CASE ~Count(s) /\ ~Delete(s) /\ ~Opening(s)
    BY <1>4, <2>3 DEF WorkerStep, Acquire, Park, Abandon, UnlinkFile, SkipGone, StatFails,
          ReadFails, MeetChild, ChildRefused, Publish, CloseScanned, Unref, RemoveEmpty,
          RemoveEmptyFails, Finish, nodes
  <2> QED
    BY <2>1, <2>2, <2>3
<1>5. ASSUME MainStep
      PROVE  node' = node \/ \E x : node' = [node EXCEPT ![x] = "live"]
  <2>1. CASE SeedRoot
    BY <2>1 DEF SeedRoot
  <2>2. CASE Opening(Main)
    BY <2>2 DEF Opening, Reserve, OpenPiece, OpenSucceeds, OpenFails, OpenRefused, Refused,
                Unwind, nodes
  <2>3. CASE NextOperand \/ OperandGone \/ RootRefused \/ Wait
    BY <2>3 DEF NextOperand, OperandGone, RootRefused, Wait, nodes
  <2> QED
    BY <1>5, <2>1, <2>2, <2>3 DEF MainStep
<1>6. CASE FillTable \/ ClearTable \/ OthersRemove
  BY <1>6 DEF FillTable, ClearTable, OthersRemove, nodes
<1> QED
  BY <1>2, <1>3, <1>4, <1>5, <1>6 DEF Next

----------------------------------------------------------------------------
(* What a worker takes out of its hands it answers for                     *)

\* The step of worker s answers for x.
Answers(s, x) == Exists(x)' => Keeps(s, x) \/ InHand(x)' \/ Justified(x)'

\* Opening does, but for the directory that is its task.
LEMMA OpeningAnswers ==
    ASSUME IInv, NEW s \in Slot, Opening(s), ~(OpenSucceeds(s) /\ goal[s] = "task"),
           Only(s), NEW x
    PROVE  Answers(s, x)
<1>1. s \in Actor /\ s # Main /\ WorkerShape(s) /\ pc = [b \in Actor |-> pc[b]]
  BY SlotsAreActors DEF IInv, Types
<1>2. UNCHANGED <<node, remaining, queues, cur, goal, todo, entry>>
  BY DEF Opening, Reserve, OpenPiece, OpenSucceeds, OpenFails, OpenRefused, Refused, Unwind,
         nodes, sched, scanning
<1>3. /\ pc'[s] # "delete" \/ pc[s] = "delete"
      /\ \/ pc'[s] = pc[s]
         \/ pc[s] \in Opens /\ pc'[s] \in Opens
         \/ pc[s] \in Opens /\ goal[s] = "child" /\ pc'[s] = "count"
         \/ pc[s] \in Opens /\ goal[s] = "remove" /\ pc'[s] = "rmdir"
  <2>1. CASE Unwind(s)
    BY <2>1 DEF Unwind
  <2>2. CASE OpenSucceeds(s)
    <3>1. pc[s] = "call" /\ pc'[s] = AfterOpen(s) /\ goal[s] \in {"child", "remove"}
      BY <1>1, <2>2 DEF OpenSucceeds, Goto, WorkerShape
    <3> QED
      BY <3>1 DEF AfterOpen, Opens
  <2>3. CASE ~Unwind(s) /\ ~OpenSucceeds(s)
    <3>1. pc[s] \in Opens /\ \E label \in Opens : Goto(s, label)
      BY <1>1, <2>3, StillOpening DEF Opening
    <3> QED
      BY <1>1, <3>1 DEF Goto, Opens
  <2> QED
    BY <2>1, <2>2, <2>3
<1>4. Phase(s)' = Phase(s)
  BY <1>2, <1>3 DEF Phase, Opens
<1>5. Keeps(s, x)
  BY <1>2, <1>3, <1>4, SamePhaseKeeps
<1> QED
  BY <1>5 DEF Answers

\* A worker that is not in a scan awaits nothing.
LEMMA NoScanAwaitsNothing ==
    ASSUME IInv, NEW s \in Slot, Phase(s) \notin {"scanning", "meeting", "publishing"}, NEW x
    PROVE  ~Awaits(s, x)
BY Fields DEF Awaits, IInv, Sound, AheadIsNew

\* A directory that is listed has what is in it awaited.
LEMMA ListingAnswers ==
    ASSUME IInv, NEW s \in Slot, OpenSucceeds(s), goal[s] = "task", Only(s), NEW x \in Object
    PROVE  Answers(s, x)
<1>1. s \in Actor /\ pc[s] = "call" /\ pc'[s] = "scan" /\ goal' = goal /\ cur' = cur
      /\ fs' = fs /\ entry' = entry /\ todo'[s] = Left(cur[s])
      /\ UNCHANGED <<node, remaining, queues>>
  BY SlotsAreActors DEF OpenSucceeds, AfterOpen, Goto, IInv, Types, sched
<1>2. Phase(s) = "unopened" /\ Phase(s)' = "scanning"
  BY <1>1 DEF Phase, Opens
<1>3. CASE Exists(x)' /\ Parent[x] = cur[s]
  <2>1. x \in todo'[s]
    BY <1>1, <1>3 DEF Left, Children, Exists
  <2> QED
    BY <2>1 DEF Answers, InHand, Awaits
<1>4. CASE Parent[x] # cur[s]
  <2>1. ~Awaits(s, x) /\ ~Unlists(s, Parent[x])
    BY <1>2, <1>4, NoScanAwaitsNothing DEF Unlists
  <2>2. Keeps(s, x)
    BY <1>1, <2>1, NewPhaseKeeps
  <2> QED
    BY <2>2 DEF Answers
<1> QED
  BY <1>3, <1>4 DEF Answers

\* A task taken out of a queue is listed, or in the worker's hands.
LEMMA AcquireAnswers ==
    ASSUME IInv, NEW s \in Slot, Acquire(s), Only(s), NEW x \in Object
    PROVE  Answers(s, x)
<1>1. PICK d \in Tasks(queues) : Start(s, d) /\ Tasks(queues') = Tasks(queues) \ {d}
  BY AcquireTakes
<1>2. s \in Actor /\ pc[s] = "idle" /\ fs' = fs /\ UNCHANGED <<node, remaining, entry>>
  BY SlotsAreActors DEF Acquire, nodes
<1>3. /\ cur'[s] = d /\ goal'[s] = "task"
      /\ fd[d] => todo'[s] = Left(d) /\ pc'[s] = "scan"
      /\ ~fd[d] => pc'[s] = "reserve"
  BY <1>1, <1>2 DEF Start, Goto, IInv, Types
<1>4. Phase(s) = "idle" /\ Phase(s)' = IF fd[d] THEN "scanning" ELSE "unopened"
  BY <1>2, <1>3 DEF Phase, Opens
<1>5. CASE Exists(x)' /\ Parent[x] = d /\ fd[d]
  <2>1. x \in todo'[s]
    BY <1>2, <1>3, <1>5 DEF Left, Children, Exists
  <2> QED
    BY <2>1 DEF Answers, InHand, Awaits
<1>6. CASE ~(Parent[x] = d /\ fd[d])
  <2>1. ~Awaits(s, x) /\ ~Unlists(s, Parent[x])
    BY <1>4, NoScanAwaitsNothing DEF Unlists
  <2>2. \A t \in Slot \ {s} : Unlists(t, Parent[x]) => Unlists(t, Parent[x])'
    BY <1>2, OthersUnlist
  <2>3. Parent[x] \in Tasks(queues) => Unlisted(Parent[x])'
    <3>1. CASE Parent[x] = d
      <4>1. Unlists(s, Parent[x])'
        BY <1>3, <1>4, <1>6, <3>1 DEF Unlists
      <4> QED
        BY <4>1 DEF Unlisted
    <3>2. CASE Parent[x] # d
      BY <1>1, <3>2 DEF Unlisted
    <3> QED
      BY <3>1, <3>2
  <2>4. pc'[s] # "delete"
    BY <1>3
  <2>5. Keeps(s, x)
    BY <1>2, <2>1, <2>2, <2>3, <2>4 DEF Keeps, Standing, Unlisted
  <2> QED
    BY <2>5 DEF Answers
<1> QED
  BY <1>5, <1>6 DEF Answers

\* A task put back is queued.
LEMMA ParkAnswers ==
    ASSUME IInv, NEW s \in Slot, Park(s), Only(s), NEW x \in Object
    PROVE  Answers(s, x)
<1>1. Tasks(queues') = Tasks(queues) \cup {cur[s]}
  BY ParkAdds
<1>2. /\ s \in Actor /\ pc[s] = "retry" /\ goal[s] = "task" /\ pc'[s] = "finish"
      /\ UNCHANGED <<node, remaining, cur, todo, entry>>
  BY SlotsAreActors DEF Park, Goto, IInv, Types, nodes, scanning
<1>3. Phase(s) = "unopened"
  BY <1>2 DEF Phase, Opens
<1>4. ~Awaits(s, x) /\ (Unlists(s, Parent[x]) => Parent[x] = cur[s])
  BY <1>3, NoScanAwaitsNothing DEF Unlists
<1>5. \A t \in Slot \ {s} : Unlists(t, Parent[x]) => Unlists(t, Parent[x])'
  BY <1>2, OthersUnlist
<1>6. Keeps(s, x)
  BY <1>1, <1>2, <1>4, <1>5 DEF Keeps, Standing, Unlisted
<1> QED
  BY <1>6 DEF Answers

\* What is gone is not left, nor is what was in it.
LEMMA GoneIsNotLeft ==
    ASSUME DirsHold, GoneIsGone, NEW a \in Actor, pc[a] = "gone", NEW x \in Object,
           x = Target(a) \/ (Parent[x] # None /\ Parent[x] = Target(a))
    PROVE  ~Exists(x)
BY DEF DirsHold, GoneIsGone

\* A directory that could not be opened has failed, or is about to be removed
\* unopened.
LEMMA AbandonAnswers ==
    ASSUME IInv, TInv, NEW s \in Slot, Abandon(s), Only(s), NEW x \in Object
    PROVE  Answers(s, x)
<1>1. /\ s \in Actor /\ pc[s] \in {"giveup", "gone"} /\ goal[s] = "task" /\ fs' = fs
      /\ UNCHANGED <<node, remaining, queues, cur, todo, entry>>
  BY SlotsAreActors DEF Abandon, Hopeless, nodes, sched, scanning
<1>2. Phase(s) = "unopened" /\ cur[s] \in Dir
  BY <1>1, AtWork DEF Phase, Opens
<1>3. ~Awaits(s, x)
  BY <1>2, NoScanAwaitsNothing
<1>4. CASE force
  <2>1. goal'[s] = "remove" /\ pc'[s] \in {"reserve", "rmdir"}
    BY <1>1, <1>4 DEF Abandon, StartRemove, Goto, IInv, Types
  <2>2. Phase(s)' = "removing"
    BY <2>1 DEF Phase
  <2>3. remaining[cur[s]] = 1
    <3>1. Fresh(View, cur[s])
      BY <1>2, Fields DEF Fresh
    <3> QED
      BY <1>2, <3>1, Fields DEF IInv, Sound, FreshIsNew
  <2>4. Unlists(s, Parent[x]) => Unlists(s, Parent[x])'
    BY <1>1, <1>2, <2>1, <2>2, <2>3 DEF Unlists
  <2>5. Keeps(s, x)
    BY <1>1, <1>3, <2>1, <2>4, NewPhaseKeeps
  <2> QED
    BY <2>5 DEF Answers
<1>5. CASE ~force
  <2>1. failed' = failed \cup {<<OpenError(s), cur[s]>>} /\ pc'[s] = "delete"
    BY <1>1, <1>5 DEF Abandon, Fail, Goto, IInv, Types
  <2>2. CASE x = cur[s] \/ (Parent[x] # None /\ Parent[x] = cur[s])
    <3>1. Target(s) = cur[s]
      BY <1>1 DEF Target
    <3>2. CASE pc[s] = "gone"
      BY <1>1, <2>2, <3>1, <3>2, GoneIsNotLeft DEF Answers, TInv, Exists
    <3>3. CASE pc[s] = "giveup"
      <4>1. <<"open", cur[s]>> \in failed'
        BY <2>1, <3>3 DEF OpenError
      <4> QED
        BY <1>2, <2>2, <4>1, Blame DEF Answers, Object
    <3> QED
      BY <1>1, <3>2, <3>3
  <2>3. CASE x # cur[s] /\ (Parent[x] = None \/ Parent[x] # cur[s])
    <3>1. Parent[x] # None => ~Unlists(s, Parent[x])
      BY <1>2, <2>3 DEF Unlists
    <3>2. \A t \in Slot \ {s} : Unlists(t, Parent[x]) => Unlists(t, Parent[x])'
      BY <1>1, OthersUnlist
    <3>3. Keeps(s, x)
      BY <1>1, <1>3, <2>3, <3>1, <3>2 DEF Keeps, Standing, Unlisted
    <3> QED
      BY <3>3 DEF Answers
  <2> QED
    BY <2>2, <2>3
<1> QED
  BY <1>4, <1>5

\* An entry that is passed is gone, or has failed.
LEMMA SkipAnswers ==
    ASSUME IInv, TInv, NEW s \in Slot, UnlinkFile(s) \/ SkipGone(s) \/ StatFails(s), Only(s),
           NEW x \in Object
    PROVE  Answers(s, x)
<1>1. /\ s \in Actor /\ UNCHANGED <<node, remaining, queues, pc, goal, cur, entry>>
      /\ pc[s] = "scan" /\ fs' \subseteq fs
  BY SlotsAreActors DEF UnlinkFile, SkipGone, StatFails, Reading, nodes, sched
<1>2. PICK e \in todo[s] :
         /\ todo' = [todo EXCEPT ![s] = @ \ {e}]
         /\ \/ <<"unlink", e>> \in failed' \/ <<"stat", e>> \in failed'
            \/ Real[e] \notin fs'
  <2>1. CASE UnlinkFile(s)
    BY <2>1 DEF UnlinkFile, Skip, Fail
  <2>2. CASE SkipGone(s)
    BY <2>2 DEF SkipGone, Skip, Exists
  <2>3. CASE StatFails(s)
    BY <2>3 DEF StatFails, Skip, Fail
  <2> QED
    BY <2>1, <2>2, <2>3
<1>3. todo'[s] = todo[s] \ {e} /\ e \in Object
  BY <1>2 DEF IInv, Types
<1>4. CASE x = e
  <2>1. Exists(x)' => Justified(x)'
    BY <1>2, <1>3, <1>4, Blame DEF Exists
  <2> QED
    BY <2>1 DEF Answers
<1>5. CASE x # e
  <2>1. Phase(s)' = Phase(s)
    BY <1>1 DEF Phase
  <2>2. Keeps(s, x)
    BY <1>1, <1>3, <1>5, <2>1, SamePhaseKeeps
  <2> QED
    BY <2>2 DEF Answers
<1> QED
  BY <1>4, <1>5

\* A directory that cannot be read has failed, and what was not read with it.
LEMMA ReadFailsAnswers ==
    ASSUME IInv, TInv, NEW s \in Slot, ReadFails(s), Only(s), NEW x \in Object
    PROVE  Answers(s, x)
<1>1. /\ s \in Actor /\ UNCHANGED <<fs, node, remaining, queues, goal, cur, entry>>
      /\ pc[s] = "scan" /\ pc'[s] = "close" /\ goal[s] = "task"
  BY SlotsAreActors DEF ReadFails, Reading, Goto, IInv, Types, WorkerShape, nodes, sched
<1>2. Phase(s) = "scanning" /\ Phase(s)' = "scanning"
  BY <1>1 DEF Phase, Opens
<1>3. CASE x \in todo[s]
  <2>1. x \in Object /\ Parent[x] = cur[s] /\ Parent[x] # None /\ cur[s] \in Object
    BY <1>3, AtEntry DEF Awaits, TInv, Object
  <2>2. Exists(x)' => Exists(cur[s])
    BY <1>1, <2>1 DEF TInv, DirsHold, Exists
  <2>3. Exists(cur[s]) => <<"read", cur[s]>> \in failed'
    BY DEF ReadFails, Fail
  <2>4. Exists(x)' => Justified(x)'
    BY <2>1, <2>2, <2>3, Blame
  <2> QED
    BY <2>4 DEF Answers
<1>4. CASE x \notin todo[s]
  <2>1. Keeps(s, x)
    BY <1>1, <1>2, <1>4, SamePhaseKeeps
  <2> QED
    BY <2>1 DEF Answers
<1> QED
  BY <1>3, <1>4

\* A subdirectory is at hand while the worker is at it.
LEMMA MeetAnswers ==
    ASSUME IInv, NEW s \in Slot, MeetChild(s), Only(s), NEW x \in Object
    PROVE  Answers(s, x)
<1>1. PICK e : todo' = [todo EXCEPT ![s] = @ \ {e}] /\ entry' = [entry EXCEPT ![s] = e]
  BY DEF MeetChild, Skip
<1>2. /\ s \in Actor /\ UNCHANGED <<node, remaining, queues, cur>>
      /\ pc[s] = "scan" /\ pc'[s] \in {"count", "reserve"} /\ goal[s] = "task"
      /\ goal'[s] = "child"
  BY SlotsAreActors DEF MeetChild, Reading, Goto, IInv, Types, WorkerShape, nodes, sched
<1>3. Phase(s) = "scanning" /\ Phase(s)' = "meeting"
  BY <1>2 DEF Phase, Opens
<1>4. todo'[s] = todo[s] \ {e} /\ entry'[s] = e
  BY <1>1 DEF IInv, Types
<1>5. Awaits(s, x) => Awaits(s, x)'
  BY <1>3, <1>4 DEF Awaits
<1>6. ~Unlists(s, Parent[x])
  BY <1>3 DEF Unlists
<1>7. Keeps(s, x)
  BY <1>2, <1>5, <1>6, NewPhaseKeeps
<1> QED
  BY <1>7 DEF Answers

\* A subdirectory that could not be opened has failed, or is gone.
LEMMA ChildRefusedAnswers ==
    ASSUME IInv, TInv, NEW s \in Slot, ChildRefused(s), Only(s), Shrinks, NEW x \in Object
    PROVE  Answers(s, x)
<1>1. /\ s \in Actor /\ UNCHANGED <<node, remaining, queues, cur, todo>>
      /\ pc[s] \in {"giveup", "gone"} /\ goal[s] = "child"
      /\ pc'[s] = "scan" /\ goal'[s] = "task"
  BY SlotsAreActors DEF ChildRefused, LeaveEntry, Hopeless, Goto, IInv, Types, nodes, sched
<1>2. Phase(s) = "meeting" /\ Phase(s)' = "scanning"
  BY <1>1 DEF Phase, Opens
<1>3. fs' \subseteq fs
  BY ShrinkingHolds DEF TInv
<1>4. CASE x = entry[s]
  <2>1. x \in Dir /\ Reached(x)
    BY <1>2, <1>4, AtEntry, Fields DEF Awaits, TInv, IInv, Sound, Typed
  <2>2. Exists(x)' => <<OpenError(s), x>> \in failed'
    <3>1. CASE force
      BY <1>4, <2>1, <3>1, RmdirDoes DEF ChildRefused
    <3>2. CASE ~force
      BY <1>4, <3>2 DEF ChildRefused, Fail
    <3> QED
      BY <3>1, <3>2
  <2>3. Exists(x)' => pc[s] = "giveup"
    <3>1. Target(s) = x
      BY <1>1, <1>4 DEF Target
    <3> QED
      BY <1>1, <1>3, <3>1, GoneIsNotLeft DEF TInv, Exists
  <2>4. Exists(x)' => <<"open", x>> \in failed'
    BY <2>2, <2>3 DEF OpenError
  <2>5. Exists(x)' => Justified(x)'
    BY <2>4, Blame
  <2> QED
    BY <2>5 DEF Answers
<1>5. CASE x # entry[s]
  <2>1. (Awaits(s, x) => Awaits(s, x)') /\ ~Unlists(s, Parent[x])
    BY <1>1, <1>2, <1>5 DEF Awaits, Unlists
  <2>2. Keeps(s, x)
    BY <1>1, <2>1, NewPhaseKeeps
  <2> QED
    BY <2>2 DEF Answers
<1> QED
  BY <1>4, <1>5

\* Whoever is about to remove a directory is the only one at it.
LEMMA RemoversAreAlone ==
    ASSUME IInv, NEW s \in Slot, NEW t \in Slot, s # t,
           Phase(s) \notin {"idle", "finish"}, Phase(t) = "removing"
    PROVE  cur[s] # cur[t]
<1>1. s \in Holders(View, cur[s])
  BY Fields DEF Holders, Works
<1>2. Holders(View, cur[t]) = {t}
  BY Fields DEF IInv, Sound, RemovedAlone
<1> QED
  BY <1>1, <1>2

\* A child that is counted has a node.
LEMMA CountAnswers ==
    ASSUME IInv, NEW s \in Slot, Count(s), Only(s), NEW x \in Object
    PROVE  Answers(s, x)
<1>1. /\ s \in Actor /\ pc[s] \in {"count", "retry"} /\ goal[s] = "child"
      /\ pc'[s] = "publish" /\ goal'[s] = "child"
      /\ node' = [node EXCEPT ![entry[s]] = "live"]
      /\ remaining' = [remaining EXCEPT ![entry[s]] = 1, ![cur[s]] = @ + 1]
      /\ UNCHANGED <<queues, cur, todo, entry>>
  BY SlotsAreActors DEF Count, Goto, IInv, Types, WorkerShape, sched, scanning
<1>2. Phase(s) = "meeting" /\ Phase(s)' = "publishing"
  BY <1>1 DEF Phase, Opens
<1>3. entry[s] \in Dir /\ cur[s] \in Dir /\ node[entry[s]] = "none"
  BY <1>2, AtWork, Fields DEF IInv, Sound, Typed, AheadIsNew
<1>4. node = [d \in Dir |-> node[d]] /\ remaining \in [Dir -> Int]
  BY DEF IInv, Types
<1>5. node'[entry[s]] = "live" /\ \A d : d # entry[s] /\ d \in Dir => node'[d] = node[d]
  BY <1>1, <1>3, <1>4
<1>6. CASE x = entry[s]
  <2>1. ASSUME NEW t \in Slot, pc'[t] = "delete", cur'[t] = x
        PROVE  FALSE
    <3>1. t # s /\ pc[t] = "delete" /\ cur[t] = x
      BY <1>1, <2>1, SlotsAreActors DEF Only
    <3>2. Phase(t) = "removing"
      BY <3>1 DEF Phase
    <3> QED
      BY <1>3, <1>6, <3>1, <3>2, AtWork
  <2>2. Standing(x)'
    BY <1>3, <1>5, <1>6, <2>1 DEF Standing
  <2> QED
    BY <2>2 DEF Answers, InHand
<1>7. CASE x # entry[s]
  <2>1. Standing(x) => node'[x] = "live"
    BY <1>5, <1>7 DEF Standing
  <2>2. Awaits(s, x) => Awaits(s, x)'
    BY <1>1, <1>7 DEF Awaits
  <2>3. Parent[x] # None /\ node[Parent[x]] = "none" => Unlisted(Parent[x])'
    <3>1. CASE Parent[x] = entry[s]
      BY <1>1, <1>2, <3>1 DEF Unlists, Unlisted
    <3>2. CASE Parent[x] # entry[s]
      BY <1>5, <3>2, ParentsAreAbove DEF Unlisted
    <3> QED
      BY <3>1, <3>2
  <2>4. Parent[x] \in Tasks(queues) => Unlisted(Parent[x])'
    BY <1>1 DEF Unlisted
  <2>5. ASSUME NEW t \in Slot \ {s}, Parent[x] # None, Unlists(t, Parent[x])
        PROVE  Unlists(t, Parent[x])'
    <3>1. /\ pc'[t] = pc[t] /\ cur'[t] = cur[t] /\ goal'[t] = goal[t] /\ entry'[t] = entry[t]
      BY SlotsAreActors DEF Only
    <3>2. Phase(t)' = Phase(t)
      BY <3>1 DEF Phase
    <3>3. CASE Phase(t) = "removing"
      <4>1. Parent[x] = cur[t] /\ cur[t] \in Dir /\ node[cur[t]] = "live" /\ cur[t] # cur[s]
        BY <1>2, <2>5, <3>3, AtWork, RemoversAreAlone DEF Unlists
      <4>2. remaining'[cur[t]] = remaining[cur[t]]
        BY <1>1, <1>3, <1>4, <4>1
      <4> QED
        BY <2>5, <3>1, <3>2, <4>1, <4>2 DEF Unlists
    <3>4. CASE Phase(t) # "removing"
      BY <2>5, <3>1, <3>2, <3>4 DEF Unlists
    <3> QED
      BY <3>3, <3>4
  <2>6. ~Unlists(s, Parent[x])
    BY <1>2 DEF Unlists
  <2>7. Keeps(s, x)
    BY <1>1, <2>1, <2>2, <2>3, <2>4, <2>5, <2>6 DEF Keeps
  <2> QED
    BY <2>7 DEF Answers
<1> QED
  BY <1>6, <1>7

\* A child that is published is in a queue.
LEMMA PublishAnswers ==
    ASSUME IInv, NEW s \in Slot, Publish(s), Only(s), NEW x \in Object
    PROVE  Answers(s, x)
<1>1. Tasks(queues') = Tasks(queues) \cup {entry[s]}
  BY PublishAdds
<1>2. /\ s \in Actor /\ pc[s] = "publish" /\ goal[s] = "child" /\ pc'[s] = "scan"
      /\ UNCHANGED <<node, remaining, cur, todo>>
  BY SlotsAreActors DEF Publish, LeaveEntry, Goto, IInv, Types, WorkerShape, nodes
<1>3. Phase(s) = "publishing"
  BY <1>2 DEF Phase
<1>4. (Awaits(s, x) => Awaits(s, x)') /\ (Unlists(s, Parent[x]) => Parent[x] = entry[s])
  BY <1>2, <1>3 DEF Awaits, Unlists
<1>5. \A t \in Slot \ {s} : Unlists(t, Parent[x]) => Unlists(t, Parent[x])'
  BY <1>2, OthersUnlist
<1>6. Keeps(s, x)
  BY <1>1, <1>2, <1>4, <1>5 DEF Keeps, Standing, Unlisted
<1> QED
  BY <1>6 DEF Answers

\* A directory that has been read to its end stays in hand.
LEMMA CloseAnswers ==
    ASSUME IInv, NEW s \in Slot, CloseScanned(s), Only(s), NEW x \in Object
    PROVE  Answers(s, x)
<1>1. /\ s \in Actor /\ UNCHANGED <<node, remaining, queues, goal, cur, entry, todo>>
      /\ pc[s] \in {"scan", "close"} /\ pc'[s] = "unref" /\ goal[s] = "task"
  BY SlotsAreActors
     DEF CloseScanned, Reading, Goto, IInv, Types, WorkerShape, sched, scanning
<1>2. Phase(s) = "scanning"
  BY <1>1 DEF Phase, Opens
<1>3. (Awaits(s, x) => Awaits(s, x)') /\ ~Unlists(s, Parent[x])
  BY <1>1, <1>2 DEF Awaits, Unlists
<1>4. Keeps(s, x)
  BY <1>1, <1>3, NewPhaseKeeps
<1> QED
  BY <1>4 DEF Answers

\* A reference dropped takes nothing out of anybody's hands.
LEMMA UnrefAnswers ==
    ASSUME IInv, NEW s \in Slot, Unref(s), Only(s), NEW x \in Object
    PROVE  Answers(s, x)
<1>1. /\ s \in Actor /\ UNCHANGED <<node, queues, cur, entry, todo>>
      /\ pc[s] = "unref" /\ pc'[s] # "delete"
      /\ remaining' = [remaining EXCEPT ![cur[s]] = @ - 1]
  BY SlotsAreActors DEF Unref, StartRemove, Goto, IInv, Types, sched, scanning
<1>2. Phase(s) = "unref" /\ cur[s] \in Dir
  BY <1>1, AtWork DEF Phase
<1>3. ~Awaits(s, x) /\ ~Unlists(s, Parent[x])
  BY <1>2, NoScanAwaitsNothing DEF Unlists
<1>4. ASSUME NEW t \in Slot \ {s}, Unlists(t, Parent[x])
      PROVE  Unlists(t, Parent[x])'
  <2>1. /\ pc'[t] = pc[t] /\ cur'[t] = cur[t] /\ goal'[t] = goal[t] /\ entry'[t] = entry[t]
    BY SlotsAreActors DEF Only
  <2>2. Phase(t)' = Phase(t)
    BY <2>1 DEF Phase
  <2>3. CASE Phase(t) = "removing"
    <3>1. Parent[x] = cur[t] /\ cur[t] \in Dir /\ cur[t] # cur[s]
      BY <1>2, <1>4, <2>3, AtWork, RemoversAreAlone DEF Unlists
    <3>2. remaining'[cur[t]] = remaining[cur[t]]
      BY <1>1, <3>1 DEF IInv, Types
    <3> QED
      BY <1>4, <2>1, <2>2, <3>1, <3>2 DEF Unlists
  <2>4. CASE Phase(t) # "removing"
    BY <1>4, <2>1, <2>2, <2>4 DEF Unlists
  <2> QED
    BY <2>3, <2>4
<1>5. Keeps(s, x)
  BY <1>1, <1>3, <1>4 DEF Keeps, Standing, Unlisted
<1> QED
  BY <1>5 DEF Answers

\* Of what is in a directory that has been listed and has no reference left,
\* nothing is in hand any more.
LEMMA NothingInHand ==
    ASSUME IInv, \A t \in Slot : ScanShape(t), NEW s \in Slot, Phase(s) = "removing",
           remaining[cur[s]] = 0, NEW x \in Object, Parent[x] = cur[s]
    PROVE  ~InHand(x)
<1>1. cur[s] \in Dir /\ node[cur[s]] = "live" /\ cur[s] # None
  BY AtWork, TreeAssumption DEF Object
<1>2. /\ ~Waits(View, cur[s]) /\ Kids(View, cur[s]) = {}
      /\ \A t \in Slot : t # s /\ Phase(t) \notin {"idle", "finish"} => cur[t] # cur[s]
  BY RemoversAreAlone, Fields DEF IInv, Sound, RemovedAlone
<1>3. ~Standing(x)
  BY <1>2, Fields DEF Standing, Kids
<1>4. x \notin Unseeded
  BY <1>1, Fields DEF IInv, Sound, Typed
<1>5. \A t \in Slot : ~Awaits(t, x)
  <2> SUFFICES ASSUME NEW t \in Slot, Awaits(t, x)
               PROVE  FALSE
    OBVIOUS
  <2>1. cur[t] = cur[s] /\ Phase(t) \in {"scanning", "meeting", "publishing"}
    BY AtEntry
  <2> QED
    BY <1>2, <2>1
<1>6. ~Unlisted(cur[s])
  <2>1. /\ cur[s] \notin Tasks(queues)
        /\ \A t \in Slot : ~(Phase(t) = "publishing" /\ entry[t] = cur[s])
    BY <1>2, Fields DEF Waits, Published
  <2>2. \A t \in Slot : ~Unlists(t, cur[s])
    BY <1>2, <2>1 DEF Unlists
  <2> QED
    BY <1>1, <2>1, <2>2 DEF Unlisted
<1> QED
  BY <1>3, <1>4, <1>5, <1>6 DEF InHand

\* A directory that is not removed has failed, for a reason of its own or of
\* something in it.
LEMMA RemoveEmptyAnswers ==
    ASSUME IInv, TInv, NEW s \in Slot, RemoveEmpty(s), Only(s), NEW x \in Object
    PROVE  Answers(s, x)
<1>0. PICK d : d = cur[s]
  OBVIOUS
<1>1. /\ s \in Actor /\ UNCHANGED <<node, remaining, queues, goal, cur, entry, todo>>
      /\ pc[s] = "rmdir" /\ pc'[s] = "delete" /\ goal[s] = "remove" /\ cur'[s] = d
  BY <1>0, SlotsAreActors
     DEF RemoveEmpty, Goto, IInv, Types, WorkerShape, nodes, sched, scanning
<1>2. Phase(s) = "removing" /\ Phase(s)' = "removing"
  BY <1>1 DEF Phase
<1>3. d \in Dir /\ Reached(d) /\ d \in Object
  BY <1>0, <1>2, AtWork DEF Object
<1>4. PICK error : error = RmdirError(d) /\ Rmdir(d, error)
  BY <1>0 DEF RemoveEmpty
<1>5. /\ Shrinks /\ Reports
      /\ Exists(d)' => <<error, d>> \in failed' /\ (Left(d) # {} \/ Denied("rmdir", d))
  BY <1>3, <1>4, RmdirDoes
<1>6. DirsHold' /\ fs' \subseteq fs /\ failed \subseteq failed'
  BY <1>5, ShrinkingHolds DEF TInv, Reports
<1>7. CASE x = d
  <2> SUFFICES ASSUME Exists(d)'
               PROVE  Justified(d)'
    BY <1>7 DEF Answers
  <2>1. CASE remaining[d] # 0 \/ Left(d) = {}
    <3>1. error \in {"open", "rmdir"}
      BY <1>4, <2>1 DEF RmdirError
    <3> QED
      BY <1>3, <1>5, <3>1, Blame
  <2>2. CASE remaining[d] = 0 /\ Left(d) # {}
    <3>1. PICK y \in Object : Parent[y] = d /\ Exists(y)
      BY <2>2 DEF Left, Children
    <3>2. ~InHand(y)
      BY <1>0, <1>2, <2>2, <3>1, NothingInHand DEF TInv
    <3>3. Explained(y) /\ Parent[y] # None
      BY <1>3, <3>1, <3>2, TreeAssumption DEF TInv, AllAnswered, Answered
    <3>4. Explained(d)
      BY <3>1, <3>3, ExplainedAbove DEF TInv
    <3>5. Explained(d)'
      BY <1>6, <3>4 DEF Explained
    <3>6. d \in Named'
      <4>1. \E failure \in failed' : d = failure[2]
        BY <1>5
      <4> QED
        BY <4>1 DEF Named
    <3> QED
      BY <3>5, <3>6 DEF Justified
  <2> QED
    BY <2>1, <2>2
<1>8. CASE x # d /\ Parent[x] # None /\ Parent[x] = d /\ remaining[d] # 0
  <2> SUFFICES ASSUME Exists(x)'
               PROVE  Justified(x)'
    BY DEF Answers
  <2>1. \A y \in Object : Exists(y)' /\ Parent[y] # None => Exists(Parent[y])'
    BY <1>6 DEF DirsHold
  <2>2. Exists(d)'
    BY <1>8, <2>1
  <2>3. error = "open"
    BY <1>4, <1>8 DEF RmdirError
  <2> QED
    BY <1>3, <1>5, <1>8, <2>2, <2>3, Blame
<1>9. CASE x # d /\ ~(Parent[x] # None /\ Parent[x] = d /\ remaining[d] # 0)
  <2>1. Parent[x] # None => ~Unlists(s, Parent[x])
    BY <1>0, <1>2, <1>9 DEF Unlists
  <2>2. \A t \in Slot \ {s} : Unlists(t, Parent[x]) => Unlists(t, Parent[x])'
    BY <1>1, OthersUnlist
  <2>3. Awaits(s, x) => Awaits(s, x)'
    BY <1>1, <1>2 DEF Awaits
  <2>4. Keeps(s, x)
    BY <1>1, <1>9, <2>1, <2>2, <2>3 DEF Keeps, Standing, Unlisted
  <2> QED
    BY <2>4 DEF Answers
<1> QED
  BY <1>7, <1>8, <1>9

\* So has one whose parent could not be opened, unless it is gone.
LEMMA RemoveEmptyFailsAnswers ==
    ASSUME IInv, TInv, NEW s \in Slot, RemoveEmptyFails(s), Only(s), NEW x \in Object
    PROVE  Answers(s, x)
<1>1. /\ s \in Actor /\ UNCHANGED <<fs, node, remaining, queues, goal, cur, entry, todo>>
      /\ pc[s] \in {"retry", "giveup", "gone"} /\ pc'[s] = "delete" /\ goal[s] = "remove"
  BY SlotsAreActors
     DEF RemoveEmptyFails, Hopeless, Goto, IInv, Types, nodes, sched, scanning
<1>2. Phase(s) = "removing" /\ Phase(s)' = "removing"
  BY <1>1 DEF Phase
<1>3. cur[s] \in Dir /\ cur[s] \in Object /\ Parent[cur[s]] # None
  BY <1>1, <1>2, AtWork, LongAssumption DEF Object, TInv, ScanShape, Opens
<1>4. CASE x = cur[s] \/ (Parent[x] # None /\ Parent[x] = cur[s])
  <2>1. CASE pc[s] = "gone"
    <3>1. Target(s) = Parent[cur[s]]
      BY <1>1 DEF Target
    <3>2. ~Exists(cur[s])
      BY <1>1, <1>3, <2>1, <3>1, GoneIsNotLeft DEF TInv
    <3>3. ~Exists(x)
      BY <1>4, <3>2 DEF TInv, DirsHold
    <3> QED
      BY <1>1, <3>3 DEF Answers, Exists
  <2>2. CASE pc[s] # "gone"
    <3>1. <<"open", cur[s]>> \in failed'
      BY <2>2 DEF RemoveEmptyFails, Fail
    <3> QED
      BY <1>3, <1>4, <3>1, Blame DEF Answers
  <2> QED
    BY <2>1, <2>2
<1>5. CASE x # cur[s] /\ (Parent[x] = None \/ Parent[x] # cur[s])
  <2>1. Parent[x] # None => ~Unlists(s, Parent[x])
    BY <1>2, <1>5 DEF Unlists
  <2>2. \A t \in Slot \ {s} : Unlists(t, Parent[x]) => Unlists(t, Parent[x])'
    BY <1>1, OthersUnlist
  <2>3. Awaits(s, x) => Awaits(s, x)'
    BY <1>1, <1>2 DEF Awaits
  <2>4. Keeps(s, x)
    BY <1>1, <1>5, <2>1, <2>2, <2>3 DEF Keeps, Standing, Unlisted
  <2> QED
    BY <2>4 DEF Answers
<1> QED
  BY <1>4, <1>5

\* A node is deleted when nothing is in hand of what it stands for.
LEMMA DeleteAnswers ==
    ASSUME IInv, NEW s \in Slot, Delete(s), Only(s), NEW x \in Object
    PROVE  Answers(s, x)
<1>1. /\ s \in Actor /\ pc[s] = "delete" /\ pc'[s] # "delete"
      /\ node' = [node EXCEPT ![cur[s]] = "deleted"]
      /\ UNCHANGED <<remaining, queues, goal, entry, todo>>
  BY SlotsAreActors DEF Delete, Goto, IInv, Types, sched, scanning
<1>2. Phase(s) = "removing"
  BY <1>1 DEF Phase
<1>3. cur[s] \in Dir /\ node[cur[s]] = "live" /\ node = [d \in Dir |-> node[d]]
  BY <1>2, AtWork DEF IInv, Types
<1>4. \A d \in Dir \ {cur[s]} : node'[d] = node[d]
  BY <1>1, <1>3
<1>5. Standing(x) => node'[x] = "live"
  BY <1>1, <1>4 DEF Standing
<1>6. ~Awaits(s, x) /\ ~Unlists(s, Parent[x])
  BY <1>1, <1>2, NoScanAwaitsNothing DEF Unlists
<1>7. Parent[x] # None /\ node[Parent[x]] = "none" => node'[Parent[x]] = "none"
  BY <1>3, <1>4, ParentsAreAbove
<1>8. \A t \in Slot \ {s} : Unlists(t, Parent[x]) => Unlists(t, Parent[x])'
  BY <1>1, OthersUnlist
<1>9. Keeps(s, x)
  BY <1>1, <1>5, <1>6, <1>7, <1>8 DEF Keeps, Unlisted
<1> QED
  BY <1>9 DEF Answers

\* A worker that is done has nothing in hand.
LEMMA FinishAnswers ==
    ASSUME IInv, NEW s \in Slot, Finish(s), Only(s), NEW x \in Object
    PROVE  Answers(s, x)
<1>1. /\ s \in Actor /\ pc[s] = "finish" /\ pc'[s] # "delete"
      /\ UNCHANGED <<node, remaining, queues, entry, todo>>
  BY SlotsAreActors DEF Finish, Goto, IInv, Types, nodes, scanning
<1>2. Phase(s) = "finish"
  BY <1>1 DEF Phase
<1>3. ~Awaits(s, x) /\ ~Unlists(s, Parent[x])
  BY <1>2, NoScanAwaitsNothing DEF Unlists
<1>4. Keeps(s, x)
  BY <1>1, <1>3, NewPhaseKeeps
<1> QED
  BY <1>4 DEF Answers

----------------------------------------------------------------------------
(* Everything stays answered                                               *)

\* A worker's step changes no list of another worker, and no operand.
LEMMA WorkersListAlone ==
    ASSUME IInv, NEW s \in Slot, WorkerStep(s)
    PROVE  /\ \A t \in Slot \ {s} : todo'[t] = todo[t]
           /\ operand' = operand
<1>1. todo = [t \in Slot |-> todo[t]]
  BY DEF IInv, Types
<1>2. CASE Opening(s)
  <2>1. CASE OpenSucceeds(s)
    BY <1>1, <2>1 DEF OpenSucceeds
  <2>2. CASE ~OpenSucceeds(s)
    BY <1>2, <2>2 DEF Opening, Reserve, OpenPiece, OpenFails, OpenRefused, Refused, Unwind,
                      scanning
  <2> QED
    BY <2>1, <2>2
<1>3. CASE Acquire(s)
  <2>1. PICK d : Start(s, d)
    BY <1>3, AcquireTakes
  <2> QED
    BY <1>1, <1>3, <2>1 DEF Acquire, Start
<1>4. CASE UnlinkFile(s) \/ SkipGone(s) \/ StatFails(s) \/ ReadFails(s) \/ MeetChild(s)
  BY <1>1, <1>4 DEF UnlinkFile, SkipGone, StatFails, ReadFails, MeetChild, Skip
<1>5. CASE Park(s) \/ Abandon(s) \/ ChildRefused(s) \/ Count(s) \/ Publish(s)
  BY <1>5 DEF Park, Abandon, ChildRefused, Count, Publish, scanning
<1>6. CASE CloseScanned(s) \/ Unref(s) \/ RemoveEmpty(s) \/ RemoveEmptyFails(s)
  BY <1>6 DEF CloseScanned, Unref, RemoveEmpty, RemoveEmptyFails, scanning
<1>7. CASE Delete(s) \/ Finish(s)
  BY <1>7 DEF Delete, Finish, scanning
<1> QED
  BY <1>2, <1>3, <1>4, <1>5, <1>6, <1>7 DEF WorkerStep

\* A worker's step moves that worker only.
LEMMA WorkerOnly ==
    ASSUME IInv, LInv, NEW s \in Slot, WorkerStep(s)
    PROVE  Only(s) /\ s \in Actor
<1>1. Alone(s)
  BY WorkersActAlone DEF LInv
<1> QED
  BY <1>1, WorkersListAlone, SlotsAreActors DEF Only, Alone

\* Whatever a worker does, it answers for.
LEMMA WorkerAnswers ==
    ASSUME IInv, TInv, NEW s \in Slot, Only(s), WorkerStep(s), NEW x \in Object
    PROVE  Answers(s, x)
<1>1. CASE Opening(s)
  BY <1>1, OpeningAnswers, ListingAnswers
<1>2. CASE Acquire(s) \/ Park(s) \/ Abandon(s)
  BY <1>2, AcquireAnswers, ParkAnswers, AbandonAnswers
<1>3. CASE UnlinkFile(s) \/ SkipGone(s) \/ StatFails(s) \/ ReadFails(s) \/ MeetChild(s)
  BY <1>3, SkipAnswers, ReadFailsAnswers, MeetAnswers
<1>4. CASE ChildRefused(s) \/ Count(s) \/ Publish(s)
  BY <1>4, WorkerEffect, ChildRefusedAnswers, CountAnswers, PublishAnswers
<1>5. CASE CloseScanned(s) \/ Unref(s) \/ RemoveEmpty(s) \/ RemoveEmptyFails(s)
  BY <1>5, CloseAnswers, UnrefAnswers, RemoveEmptyAnswers, RemoveEmptyFailsAnswers
<1>6. CASE Delete(s) \/ Finish(s)
  BY <1>6, DeleteAnswers, FinishAnswers
<1> QED
  BY <1>1, <1>2, <1>3, <1>4, <1>5, <1>6 DEF WorkerStep

\* So nothing is left unanswered.
LEMMA WorkerAllAnswered ==
    ASSUME IInv, LInv, TInv, NEW s \in Slot, WorkerStep(s), failed \subseteq failed',
           fs' \subseteq fs
    PROVE  AllAnswered'
<1>1. Only(s)
  BY WorkerOnly
<1>2. ASSUME NEW x \in Object, Exists(x)', InHand(x)
      PROVE  InHand(x)' \/ Justified(x)'
  <2>1. Answers(s, x)
    BY <1>1, WorkerAnswers
  <2> QED
    BY <1>1, <1>2, <2>1, KeepsInHand DEF Answers
<1> QED
  BY <1>2, AnswersStay DEF TInv

----------------------------------------------------------------------------
(* RunRm and the system                                                    *)

\* What a step that no worker takes leaves in hand.
MainKeeps(x) ==
    /\ Standing(x) => x \in Dir /\ node'[x] = "live"
    /\ x \in Unseeded => InHand(x)' \/ Justified(x)' \/ ~Exists(x)'
    /\ Parent[x] # None /\ node[Parent[x]] = "none" => Unlisted(Parent[x])'

\* While the workers rest, what they have in hand they keep.
LEMMA WorkersRest ==
    ASSUME UNCHANGED <<todo, entry>>, Tasks(queues) \subseteq Tasks(queues'),
           \A s \in Slot : pc'[s] = pc[s] /\ cur'[s] = cur[s] /\ goal'[s] = goal[s],
           fs' \subseteq fs, failed \subseteq failed', AllAnswered,
           \A d : (\E s \in Slot : Phase(s) = "removing" /\ cur[s] = d) =>
              remaining'[d] = remaining[d],
           \A x \in Object : MainKeeps(x)
    PROVE  AllAnswered'
<1>1. \A s \in Slot : Phase(s)' = Phase(s)
  BY DEF Phase
<1>2. \A s \in Slot : \A d : Unlists(s, d) => Unlists(s, d)'
  BY <1>1 DEF Unlists
<1>3. \A s \in Slot : \A x : Awaits(s, x) => Awaits(s, x)'
  BY <1>1 DEF Awaits
<1>4. ASSUME NEW x \in Object, Exists(x)', InHand(x)
      PROVE  InHand(x)' \/ Justified(x)'
  <2>1. CASE Standing(x)
    BY <1>4, <2>1 DEF MainKeeps, Standing, InHand
  <2>2. CASE x \in Unseeded
    BY <1>4, <2>2 DEF MainKeeps
  <2>3. CASE \E s \in Slot : Awaits(s, x)
    BY <1>3, <2>3 DEF InHand
  <2>4. CASE Parent[x] # None /\ Unlisted(Parent[x])
    <3>1. Unlisted(Parent[x])'
      BY <1>2, <1>4, <2>4 DEF MainKeeps, Unlisted
    <3> QED
      BY <2>4, <3>1 DEF InHand
  <2> QED
    BY <1>4, <2>1, <2>2, <2>3, <2>4 DEF InHand
<1> QED
  BY <1>4, AnswersStay

\* RunRm passes over one operand at a time.
LEMMA PassedOver ==
    ASSUME operand' = operand + 1, operand \in Nat, NEW x \in Unseeded, x # Operands[operand]
    PROVE  InHand(x)'
<1>1. PICK i \in operand .. Len(Operands) : x = Operands[i]
  BY DEF Unseeded
<1>2. i \in operand' .. Len(Operands)
  BY <1>1, TreeAssumption, LenProperties
<1>3. x \in Unseeded'
  BY <1>1, <1>2 DEF Unseeded
<1> QED
  BY <1>3 DEF InHand

\* An operand that is opened, or cannot be looked at, has been answered for.
LEMMA OperandAnswers ==
    ASSUME IInv, TInv, OperandGone, NEW x \in Object
    PROVE  MainKeeps(x)
<1>1. /\ operand' = operand + 1 /\ operand \in Nat /\ UNCHANGED <<fs, node, queues>>
      /\ ~Exists(Operands[operand])
  BY DEF OperandGone, IInv, Types, nodes, sched
<1>2. x \in Unseeded => InHand(x)' \/ ~Exists(x)'
  BY <1>1, PassedOver DEF Exists
<1> QED
  BY <1>1, <1>2 DEF MainKeeps, Standing, Unlisted

\* An operand that cannot be opened has failed, or is gone.
LEMMA RootRefusedAnswers ==
    ASSUME IInv, TInv, RootRefused, fs' \subseteq fs, NEW x \in Object
    PROVE  MainKeeps(x)
<1>1. PICK d : d = cur[Main]
  OBVIOUS
<1>2. /\ operand' = operand + 1 /\ operand \in Nat /\ UNCHANGED <<node, queues>>
      /\ pc[Main] \in {"retry", "giveup", "gone"}
  BY DEF RootRefused, Hopeless, Idle, IInv, Types, nodes, sched
<1>3. goal[Main] = "root" /\ d = Operands[operand] /\ operand \in 1 .. Len(Operands)
  BY <1>1, <1>2, TreeAssumption, LenProperties DEF IInv, Types, MainShape
<1>4. d \in Dir /\ d \in Object /\ Reached(d)
  BY <1>3, OperandsAreReached DEF Object
<1>5. Exists(d)' => <<OpenError(Main), d>> \in failed'
  <2>1. CASE force
    <3>1. PICK error : error = OpenError(Main) /\ Rmdir(d, error)
      BY <1>1, <2>1 DEF RootRefused
    <3> QED
      BY <1>4, <3>1, RmdirDoes
  <2>2. CASE ~force
    BY <1>1, <2>2 DEF RootRefused, Fail
  <2> QED
    BY <2>1, <2>2
<1>6. CASE pc[Main] = "gone"
  <2>1. Target(Main) = d /\ Main \in Actor
    BY <1>1, <1>3, SlotsAreActors DEF Target
  <2>2. ~Exists(d)
    BY <1>4, <1>6, <2>1, GoneIsNotLeft DEF TInv
  <2>3. ~Exists(d)'
    BY <2>2 DEF Exists
  <2>4. x \in Unseeded => InHand(x)' \/ ~Exists(x)'
    BY <1>2, <1>3, <2>3, PassedOver
  <2> QED
    BY <1>2, <2>4 DEF MainKeeps, Standing, Unlisted
<1>7. CASE pc[Main] # "gone"
  <2>1. OpenError(Main) = "open"
    BY <1>7 DEF OpenError
  <2>2. Exists(d)' => Justified(d)'
    BY <1>4, <1>5, <2>1, Blame
  <2>3. x \in Unseeded => InHand(x)' \/ Justified(x)' \/ ~Exists(x)'
    BY <1>2, <1>3, <2>2, PassedOver
  <2> QED
    BY <1>2, <2>3 DEF MainKeeps, Standing, Unlisted
<1> QED
  BY <1>6, <1>7

\* An operand that is open has a node, which is queued.
LEMMA SeedAnswers ==
    ASSUME IInv, SeedRoot, \A s \in Slot : pc'[s] = pc[s] /\ cur'[s] = cur[s], NEW x \in Object
    PROVE  /\ MainKeeps(x)
           /\ \A s \in Slot : Phase(s) = "removing" => remaining'[cur[s]] = remaining[cur[s]]
<1>1. PICK d : d = cur[Main]
  OBVIOUS
<1>2. /\ d \in Dir /\ d \in Unseeded /\ Unseeded' = Unseeded \ {d}
      /\ Tasks(queues') = Tasks(queues) \cup {d}
  BY <1>1, SeedAdds
<1>3. /\ node' = [node EXCEPT ![d] = "live"] /\ remaining' = [remaining EXCEPT ![d] = 1]
      /\ node = [c \in Dir |-> node[c]] /\ remaining = [c \in Dir |-> remaining[c]]
  BY <1>1 DEF SeedRoot, IInv, Types
<1>4. node[d] = "none" /\ node'[d] = "live" /\ \A c \in Dir \ {d} : node'[c] = node[c]
  BY <1>2, <1>3, Fields DEF IInv, Sound, UnseededIsNew
<1>5. \A s \in Slot : Phase(s) = "removing" => cur[s] \in Dir /\ cur[s] # d
  BY <1>4, AtWork
<1>6. \A s \in Slot : pc[s] = "delete" => Phase(s) = "removing"
  BY DEF Phase
<1>7. Standing(d)'
  BY <1>2, <1>4, <1>5, <1>6 DEF Standing
<1>8. x \in Unseeded => InHand(x)'
  BY <1>2, <1>7 DEF InHand
<1>9. Standing(x) => x \in Dir /\ node'[x] = "live"
  BY <1>4 DEF Standing
<1>10. Parent[x] # None /\ node[Parent[x]] = "none" => Unlisted(Parent[x])'
  <2>1. CASE Parent[x] = d
    BY <1>2, <2>1 DEF Unlisted
  <2>2. CASE Parent[x] # d
    BY <1>4, <2>2, ParentsAreAbove DEF Unlisted
  <2> QED
    BY <2>1, <2>2
<1>11. \A s \in Slot : Phase(s) = "removing" => remaining'[cur[s]] = remaining[cur[s]]
  BY <1>3, <1>5
<1> QED
  BY <1>8, <1>9, <1>10, <1>11 DEF MainKeeps

\* RunRm answers for what it does.
LEMMA MainAllAnswered ==
    ASSUME IInv, LInv, TInv, MainStep, failed \subseteq failed', fs' \subseteq fs
    PROVE  AllAnswered'
<1>1. \A s \in Slot : pc'[s] = pc[s] /\ cur'[s] = cur[s] /\ goal'[s] = goal[s]
  BY MainActsAlone, SlotsAreActors DEF LInv, Alone
<1>2. AllAnswered
  BY DEF TInv
<1>3. CASE OperandGone \/ RootRefused
  <2>1. UNCHANGED <<remaining, queues, todo, entry>>
    BY <1>3 DEF OperandGone, RootRefused, nodes, sched, scanning
  <2>2. \A x \in Object : MainKeeps(x)
    BY <1>3, OperandAnswers, RootRefusedAnswers
  <2> QED
    BY <1>1, <1>2, <2>1, <2>2, WorkersRest
<1>4. CASE SeedRoot
  <2>1. UNCHANGED <<todo, entry>> /\ Tasks(queues) \subseteq Tasks(queues')
    BY <1>4, SeedAdds DEF SeedRoot, scanning
  <2>2. \A x \in Object : MainKeeps(x)
    BY <1>1, <1>4, SeedAnswers
  <2>3. \A s \in Slot : Phase(s) = "removing" => remaining'[cur[s]] = remaining[cur[s]]
    <3>1. PICK x : x = cur[Main]
      OBVIOUS
    <3>2. x \in Object
      BY <1>4, <3>1, SeedAdds DEF Object
    <3> QED
      BY <1>1, <1>4, <3>2, SeedAnswers
  <2> QED
    BY <1>1, <1>2, <2>1, <2>2, <2>3, WorkersRest
<1>5. CASE Opening(Main) \/ NextOperand \/ Wait
  <2>1. UNCHANGED <<node, remaining, queues, todo, entry, operand>>
    <3>1. CASE OpenSucceeds(Main)
      <4>1. goal[Main] # "task"
        BY <3>1 DEF OpenSucceeds, IInv, MainShape
      <4> QED
        BY <3>1, <4>1 DEF OpenSucceeds, sched
    <3>2. CASE Opening(Main) /\ ~OpenSucceeds(Main)
      BY <3>2 DEF Opening, Reserve, OpenPiece, OpenFails, OpenRefused, Refused, Unwind,
                  nodes, sched, scanning
    <3>3. CASE NextOperand \/ Wait
      BY <3>3 DEF NextOperand, Wait, nodes, sched, scanning
    <3> QED
      BY <1>5, <3>1, <3>2, <3>3
  <2>2. \A x \in Object : MainKeeps(x)
    <3>1. Unseeded' = Unseeded
      BY <2>1 DEF Unseeded
    <3> QED
      BY <2>1, <3>1 DEF MainKeeps, Standing, Unlisted, InHand
  <2> QED
    BY <1>1, <1>2, <2>1, <2>2, WorkersRest
<1> QED
  BY <1>3, <1>4, <1>5 DEF MainStep

\* What the system does leaves everything to who had it.
LEMMA SystemAllAnswered ==
    ASSUME AllAnswered, UNCHANGED <<nodes, queues, pc, goal, cur, scanning, operand>>,
           failed \subseteq failed', fs' \subseteq fs
    PROVE  AllAnswered'
<1>1. UNCHANGED <<node, remaining, todo, entry>> /\ Unseeded' = Unseeded
  BY DEF nodes, scanning, Unseeded
<1>2. \A x \in Object : MainKeeps(x)
  BY <1>1 DEF MainKeeps, Standing, Unlisted, InHand
<1> QED
  BY <1>1, <1>2, WorkersRest

----------------------------------------------------------------------------
(* The rest of the invariant                                               *)

\* What a thread opens is a directory.
LEMMA TargetIsDir ==
    ASSUME IInv, NEW a \in Actor, pc[a] \in Opens, a \in Slot => ScanShape(a)
    PROVE  Target(a) \in Dir /\ goal[a] \in {"root", "task", "child", "remove"}
<1>1. CASE a = Main
  <2>1. goal[a] = "root" /\ cur[a] = Operands[operand] /\ operand \in 1 .. Len(Operands)
    BY <1>1, TreeAssumption, LenProperties DEF IInv, Types, MainShape, Opens
  <2> QED
    BY <2>1, OperandsAreReached DEF Target
<1>2. CASE a \in Slot
  <2>1. goal[a] \in {"task", "child", "remove"} /\ Phase(a) \notin {"idle", "finish"}
    BY <1>2 DEF IInv, WorkerShape, Opens, Phase
  <2>2. cur[a] \in Dir
    BY <1>2, <2>1, AtWork
  <2>3. CASE goal[a] = "remove"
    <3>1. Parent[cur[a]] \in Dir
      BY <1>2, <2>2, <2>3, LongAssumption, ParentsAreAbove DEF ScanShape, Object
    <3> QED
      BY <2>3, <3>1 DEF Target
  <2>4. CASE goal[a] = "child"
    <3>1. Phase(a) = "meeting"
      BY <2>4 DEF Phase, Opens
    <3>2. entry[a] \in Dir
      BY <1>2, <3>1, Fields DEF IInv, Sound, Typed
    <3> QED
      BY <2>4, <3>2 DEF Target
  <2>5. CASE goal[a] = "task"
    BY <2>2, <2>5 DEF Target
  <2> QED
    BY <2>1, <2>3, <2>4, <2>5
<1> QED
  BY <1>1, <1>2 DEF Actor

\* Who finds the directory gone, or the first piece of its path, is right.
LEMMA FoundGone ==
    ASSUME IInv, TInv, NEW a \in Actor, OpenFails(a), pc'[a] = "gone"
    PROVE  ~Exists(Target(a))
<1>1. pc[a] = "call" /\ ~Exists(Opened(a))
  BY DEF OpenFails, Goto, IInv, Types
<1>2. Target(a) \in Dir
  BY <1>1, TargetIsDir DEF TInv, Opens
<1>3. Opened(a) \in Parents[Target(a)]
  BY <1>2, PieceIsAbove, ParentsAreAbove DEF Opened, Object
<1> QED
  BY <1>1, <1>2, <1>3, AboveExists DEF TInv, Object

\* Thread a finds nothing gone that is there.
LEMMA GoneStays ==
    ASSUME TInv, IInv, NEW a \in Actor, Alone(a), fs' \subseteq fs,
           pc'[a] = "gone" => ~Exists(Target(a)) /\ UNCHANGED <<goal, cur, entry>>
    PROVE  GoneIsGone'
<1> SUFFICES ASSUME NEW b \in Actor, pc'[b] = "gone"
             PROVE  ~Exists(Target(b))'
  BY DEF GoneIsGone
<1>1. PICK d : d = Target(b)
  OBVIOUS
<1>2. Target(b)' = d /\ ~Exists(d)
  <2>1. CASE b = a
    BY <1>1, <2>1 DEF Target
  <2>2. CASE b # a
    <3>1. pc[b] = "gone" /\ goal'[b] = goal[b] /\ cur'[b] = cur[b]
      BY <2>2 DEF Alone
    <3>2. goal[b] = "child" => entry'[b] = entry[b]
      BY <2>2, SlotsAreActors DEF Alone, IInv, MainShape, Actor
    <3>3. Target(b)' = d
      BY <1>1, <3>1, <3>2 DEF Target
    <3> QED
      BY <1>1, <3>1, <3>3 DEF TInv, GoneIsGone
  <2> QED
    BY <2>1, <2>2
<1> QED
  BY <1>2 DEF Exists

\* Only an open finds something gone.
LEMMA OpeningGone ==
    ASSUME IInv, TInv, NEW a \in Actor, Opening(a), pc'[a] = "gone"
    PROVE  ~Exists(Target(a)) /\ UNCHANGED <<goal, cur, entry>>
<1>1. pc = [b \in Actor |-> pc[b]]
  BY DEF IInv, Types
<1>2. CASE OpenFails(a)
  BY <1>2, FoundGone DEF OpenFails, scanning
<1>3. CASE Unwind(a)
  BY <1>3 DEF Unwind, TInv, GoneIsGone, scanning
<1>4. CASE Reserve(a) \/ OpenPiece(a) \/ OpenRefused(a) \/ Refused(a)
  BY <1>1, <1>4 DEF Reserve, OpenPiece, OpenRefused, Refused, Goto
<1>5. CASE OpenSucceeds(a)
  <2>1. pc[a] = "call"
    BY <1>5 DEF OpenSucceeds
  <2>2. goal[a] \in {"root", "task", "child", "remove"}
    BY <2>1, TargetIsDir DEF TInv, Opens
  <2> QED
    BY <1>1, <1>5, <2>2 DEF OpenSucceeds, AfterOpen, Goto
<1> QED
  BY <1>2, <1>3, <1>4, <1>5 DEF Opening

\* A worker that finds a directory gone is right.
LEMMA WorkerGone ==
    ASSUME IInv, LInv, TInv, NEW s \in Slot, WorkerStep(s), fs' \subseteq fs
    PROVE  GoneIsGone'
<1>1. /\ s \in Actor /\ Alone(s) /\ pc = [b \in Actor |-> pc[b]]
  BY SlotsAreActors, WorkersActAlone DEF LInv, IInv, Types
<1>2. CASE Opening(s)
  BY <1>1, <1>2, OpeningGone, GoneStays
<1>3. CASE ~Opening(s)
  <2>1. CASE Acquire(s)
    <3>1. PICK d : Start(s, d)
      BY <2>1, AcquireTakes
    <3> QED
      BY <1>1, <3>1, GoneStays DEF Start, Goto
  <2>2. CASE UnlinkFile(s) \/ SkipGone(s) \/ StatFails(s)
    <3>1. pc' = pc /\ pc[s] = "scan"
      BY <2>2 DEF UnlinkFile, SkipGone, StatFails, Reading
    <3> QED
      BY <1>1, <3>1, GoneStays
  <2>3. CASE \/ Park(s) \/ Abandon(s) \/ ReadFails(s) \/ MeetChild(s) \/ ChildRefused(s)
             \/ Count(s) \/ Publish(s) \/ CloseScanned(s)
    <3>1. \E label : Goto(s, label) /\ label # "gone"
      BY <2>3 DEF Park, Abandon, StartRemove, ReadFails, MeetChild, ChildRefused, LeaveEntry,
                  Count, Publish, CloseScanned
    <3> QED
      BY <1>1, <3>1, GoneStays DEF Goto
  <2>4. CASE Unref(s) \/ RemoveEmpty(s) \/ RemoveEmptyFails(s) \/ Delete(s) \/ Finish(s)
    <3>1. \E label : Goto(s, label) /\ label # "gone"
      BY <2>4 DEF Unref, StartRemove, RemoveEmpty, RemoveEmptyFails, Delete, Finish
    <3> QED
      BY <1>1, <3>1, GoneStays DEF Goto
  <2> QED
    BY <1>3, <2>1, <2>2, <2>3, <2>4 DEF WorkerStep
<1> QED
  BY <1>2, <1>3

\* So is RunRm.
LEMMA MainGone ==
    ASSUME IInv, LInv, TInv, MainStep, fs' \subseteq fs
    PROVE  GoneIsGone'
<1>1. /\ Main \in Actor /\ Alone(Main) /\ pc = [b \in Actor |-> pc[b]]
  BY SlotsAreActors, MainActsAlone DEF LInv, IInv, Types
<1>2. CASE Opening(Main)
  BY <1>1, <1>2, OpeningGone, GoneStays
<1>3. CASE OperandGone
  <2>1. pc' = pc /\ pc[Main] = "next"
    BY <1>3 DEF OperandGone
  <2> QED
    BY <1>1, <2>1, GoneStays
<1>4. CASE NextOperand \/ SeedRoot \/ RootRefused \/ Wait
  <2>1. \E label : Goto(Main, label) /\ label # "gone"
    BY <1>4 DEF NextOperand, SeedRoot, RootRefused, Wait, Idle
  <2> QED
    BY <1>1, <2>1, GoneStays DEF Goto
<1> QED
  BY <1>2, <1>3, <1>4 DEF MainStep

\* A list is what its directory holds, and a worker that opens to remove does
\* so for a long path.
LEMMA WorkerScanShape ==
    ASSUME IInv, LInv, TInv, NEW s \in Slot, WorkerStep(s)
    PROVE  \A t \in Slot : ScanShape(t)'
<1>1. Only(s) /\ s \in Actor /\ ScanShape(s) /\ todo[s] \in SUBSET Object
  BY WorkerOnly DEF TInv, IInv, Types
<1>2. /\ pc = [b \in Actor |-> pc[b]] /\ goal = [b \in Actor |-> goal[b]]
      /\ cur = [b \in Actor |-> cur[b]] /\ todo = [t \in Slot |-> todo[t]]
  BY DEF IInv, Types
<1>3. \A t \in Slot \ {s} : ScanShape(t)'
  BY <1>1, SlotsAreActors DEF TInv, ScanShape, Only
<1> SUFFICES ScanShape(s)'
  BY <1>3
<1>4. CASE UNCHANGED cur /\ todo'[s] \subseteq todo[s]
            /\ (goal'[s] = "remove" /\ pc'[s] \in Opens =>
                  cur[s] \in Long \/ (goal[s] = "remove" /\ pc[s] \in Opens))
  BY <1>1, <1>4 DEF ScanShape
<1>5. CASE Opening(s)
  <2>1. UNCHANGED <<cur, goal>>
    BY <1>5 DEF Opening, Reserve, OpenPiece, OpenSucceeds, OpenFails, OpenRefused, Refused,
                Unwind
  <2>2. goal[s] = "remove" /\ pc'[s] \in Opens => pc[s] \in Opens
    <3>1. CASE Unwind(s)
      BY <3>1 DEF Unwind
    <3>2. CASE ~Unwind(s)
      BY <1>5, <3>2 DEF Opening, Reserve, OpenPiece, OpenSucceeds, OpenFails, OpenRefused,
                        Refused, Opens
    <3> QED
      BY <3>1, <3>2
  <2>3. todo'[s] \subseteq Children(cur[s]) \/ todo' = todo
    <3>1. CASE OpenSucceeds(s)
      BY <1>2, <3>1 DEF OpenSucceeds, Left
    <3>2. CASE ~OpenSucceeds(s)
      BY <1>5, <3>2 DEF Opening, Reserve, OpenPiece, OpenFails, OpenRefused, Refused, Unwind,
                        scanning
    <3> QED
      BY <3>1, <3>2
  <2> QED
    BY <1>1, <2>1, <2>2, <2>3 DEF ScanShape
<1>6. CASE Acquire(s)
  <2>1. PICK d : Start(s, d)
    BY <1>6, AcquireTakes
  <2>2. cur'[s] = d /\ goal'[s] = "task"
    BY <1>1, <1>2, <2>1 DEF Start
  <2>3. todo[s] = {}
    BY <1>6, NoScanAwaitsNothing DEF Acquire, Phase, Awaits
  <2>4. todo'[s] \subseteq Children(d)
    BY <1>2, <2>1, <2>3 DEF Start, Left
  <2> QED
    BY <2>2, <2>4 DEF ScanShape
<1>7. CASE Delete(s) \/ Finish(s)
  <2>1. pc[s] \in {"delete", "finish"} /\ todo' = todo
    BY <1>7 DEF Delete, Finish, scanning
  <2>2. todo'[s] = {}
    BY <2>1, NoScanAwaitsNothing DEF Phase, Awaits
  <2>3. pc'[s] \notin Opens
    BY <1>1, <1>2, <1>7 DEF Delete, Finish, Goto, Opens
  <2> QED
    BY <2>2, <2>3 DEF ScanShape
<1>8. CASE Abandon(s) \/ Unref(s)
  <2>1. UNCHANGED <<cur, todo>> /\ (goal'[s] = "remove" /\ pc'[s] \in Opens =>
           cur[s] \in Long \/ (goal[s] = "remove" /\ pc[s] \in Opens))
    BY <1>1, <1>2, <1>8 DEF Abandon, Unref, StartRemove, Goto, Opens, scanning
  <2> QED
    BY <1>4, <2>1
<1>9. CASE UnlinkFile(s) \/ SkipGone(s) \/ StatFails(s) \/ ReadFails(s)
  <2>1. UNCHANGED <<cur, goal>> /\ todo'[s] \subseteq todo[s]
    BY <1>1, <1>2, <1>9 DEF UnlinkFile, SkipGone, StatFails, ReadFails, Skip
  <2>2. pc'[s] \in Opens => pc[s] \in Opens
    BY <1>2, <1>1, <1>9 DEF UnlinkFile, SkipGone, StatFails, ReadFails, Goto, Opens
  <2> QED
    BY <1>4, <2>1, <2>2
<1>10. CASE MeetChild(s) \/ ChildRefused(s) \/ Publish(s)
  <2>1. cur' = cur /\ todo'[s] \subseteq todo[s] /\ goal'[s] # "remove"
    BY <1>1, <1>2, <1>10 DEF MeetChild, ChildRefused, Publish, LeaveEntry, Skip
  <2> QED
    BY <1>4, <2>1
<1>11. CASE Park(s) \/ Count(s) \/ CloseScanned(s) \/ RemoveEmpty(s) \/ RemoveEmptyFails(s)
  <2>1. UNCHANGED <<cur, todo>> /\ pc'[s] \notin Opens
    BY <1>1, <1>2, <1>11 DEF Park, Count, CloseScanned, RemoveEmpty, RemoveEmptyFails, Goto,
                             Opens, scanning
  <2> QED
    BY <1>4, <2>1
<1> QED
  BY <1>5, <1>6, <1>7, <1>8, <1>9, <1>10, <1>11 DEF WorkerStep

\* RunRm changes no list and no place of a worker.
LEMMA MainScanShape ==
    ASSUME IInv, LInv, TInv, MainStep
    PROVE  \A t \in Slot : ScanShape(t)'
<1>1. \A t \in Slot : pc'[t] = pc[t] /\ cur'[t] = cur[t] /\ goal'[t] = goal[t]
  BY MainActsAlone, SlotsAreActors DEF LInv, Alone
<1>2. todo' = todo
  <2>1. CASE Opening(Main)
    <3>1. CASE OpenSucceeds(Main)
      <4>1. goal[Main] # "task"
        BY <3>1 DEF OpenSucceeds, IInv, MainShape
      <4> QED
        BY <3>1, <4>1 DEF OpenSucceeds
    <3>2. CASE ~OpenSucceeds(Main)
      BY <2>1, <3>2 DEF Opening, Reserve, OpenPiece, OpenFails, OpenRefused, Refused, Unwind,
                        scanning
    <3> QED
      BY <3>1, <3>2
  <2>2. CASE NextOperand \/ OperandGone \/ SeedRoot \/ RootRefused \/ Wait
    BY <2>2 DEF NextOperand, OperandGone, SeedRoot, RootRefused, Wait, scanning
  <2> QED
    BY <2>1, <2>2 DEF MainStep
<1> QED
  BY <1>1, <1>2 DEF TInv, ScanShape

\* RunRm exits only after the last operand.
LEMMA ExitStays ==
    ASSUME IInv, LInv, TInv, Next
    PROVE  ExitIsAfterAll'
<1>1. CASE \E s \in Slot : WorkerStep(s)
  <2>1. PICK s \in Slot : WorkerStep(s)
    BY <1>1
  <2> QED
    BY <2>1, WorkerOnly, SlotsAreActors DEF Only, TInv, ExitIsAfterAll
<1>2. CASE MainStep
  <2>1. CASE Wait
    BY <2>1 DEF Wait, ExitIsAfterAll
  <2>2. CASE NextOperand \/ OperandGone \/ SeedRoot \/ RootRefused
    <3>1. pc[Main] # "exited" /\ (pc' = pc \/ \E label : Goto(Main, label) /\ label # "exited")
      BY <2>2 DEF NextOperand, OperandGone, SeedRoot, RootRefused, Hopeless, Idle
    <3> QED
      BY <3>1, SlotsAreActors DEF Goto, ExitIsAfterAll, IInv, Types
  <2>3. CASE Opening(Main)
    <3>1. pc[Main] # "exited"
      BY <2>3 DEF Opening, Reserve, OpenPiece, OpenSucceeds, OpenFails, OpenRefused, Refused,
                  Unwind
    <3>2. CASE OpenSucceeds(Main)
      <4>1. goal[Main] = "root"
        BY <3>2 DEF OpenSucceeds, IInv, MainShape
      <4> QED
        BY <3>2, <4>1, SlotsAreActors
           DEF OpenSucceeds, AfterOpen, Goto, ExitIsAfterAll, IInv, Types
    <3>3. CASE ~OpenSucceeds(Main)
      <4>1. pc' = pc \/ \E label : Goto(Main, label) /\ label # "exited"
        BY <2>3, <3>3 DEF Opening, Reserve, OpenPiece, OpenFails, OpenRefused, Refused, Unwind
      <4> QED
        BY <3>1, <4>1, SlotsAreActors DEF Goto, ExitIsAfterAll, IInv, Types
    <3> QED
      BY <3>2, <3>3
  <2> QED
    BY <1>2, <2>1, <2>2, <2>3 DEF MainStep
<1>3. CASE FillTable \/ ClearTable \/ OthersRemove
  BY <1>3 DEF FillTable, ClearTable, OthersRemove, TInv, ExitIsAfterAll
<1> QED
  BY <1>1, <1>2, <1>3 DEF Next

----------------------------------------------------------------------------
(* The invariant                                                           *)

\* Before the walk every operand is to be seeded, and nothing is listed.
LEMMA TruthAtStart ==
    ASSUME Init
    PROVE  TInv
<1>1. \A x \in Object : Exists(x)
  BY DEF Init, Things, Exists
<1>2. DirsHold
  BY <1>1, ParentAssumption DEF DirsHold, Object
<1>3. AllAnswered
  <2> SUFFICES ASSUME NEW x \in Object
               PROVE  InHand(x)
    BY DEF AllAnswered, Answered
  <2>1. CASE Parent[x] = None
    <3>1. x \in ToSet(Operands)
      BY <2>1, ParentAssumption
    <3>2. PICK i \in 1 .. Len(Operands) : x = Operands[i]
      BY <3>1, TreeAssumption, LenProperties DEF ToSet
    <3> QED
      BY <3>2 DEF Init, InHand, Unseeded
  <2>2. CASE Parent[x] # None
    <3>1. node[Parent[x]] = "none"
      BY <2>2, ParentsAreAbove DEF Init
    <3> QED
      BY <2>2, <3>1 DEF InHand, Unlisted
  <2> QED
    BY <2>1, <2>2
<1>4. FailuresAreReached /\ GoneIsGone /\ ExitIsAfterAll
  BY SlotsAreActors DEF Init, FailuresAreReached, GoneIsGone, ExitIsAfterAll
<1>5. \A s \in Slot : ScanShape(s)
  BY SlotsAreActors DEF Init, ScanShape
<1> QED
  BY <1>2, <1>3, <1>4, <1>5 DEF TInv

\* The system and a step that changes nothing leave the threads where they are.
LEMMA TruthStays ==
    ASSUME TInv, UNCHANGED <<nodes, queues, pc, goal, cur, scanning, operand>>,
           failed' = failed, Shrinks
    PROVE  TInv'
<1>1. DirsHold' /\ fs' \subseteq fs
  BY ShrinkingHolds DEF TInv
<1>2. AllAnswered'
  BY <1>1, SystemAllAnswered DEF TInv
<1>3. FailuresAreReached'
  BY DEF TInv, FailuresAreReached, Reached, nodes
<1>4. GoneIsGone'
  BY <1>1 DEF TInv, GoneIsGone, Target, Exists, scanning
<1>5. \A s \in Slot : ScanShape(s)'
  BY DEF TInv, ScanShape, scanning
<1>6. ExitIsAfterAll'
  BY DEF TInv, ExitIsAfterAll
<1> QED
  BY <1>1, <1>2, <1>3, <1>4, <1>5, <1>6 DEF TInv

\* Every step of the walk answers for what it does.
LEMMA TruthEveryStep ==
    ASSUME IInv, LInv, TInv, [Next]_vars
    PROVE  TInv'
<1>1. ASSUME Next, Shrinks, Reports
      PROVE  /\ DirsHold' /\ fs' \subseteq fs
             /\ FailuresAreReached' /\ failed \subseteq failed'
  <2>1. \A d \in Dir : node[d] # "none" => node'[d] # "none"
    BY <1>1, NodesStayMade
  <2> QED
    BY <1>1, <2>1, ShrinkingHolds, ReportsAreReached DEF TInv
<1>2. ASSUME NEW s \in Slot, WorkerStep(s), Next
      PROVE  TInv'
  <2>1. Shrinks /\ Reports
    BY <1>2, WorkerEffect
  <2>2. /\ DirsHold' /\ fs' \subseteq fs
        /\ FailuresAreReached' /\ failed \subseteq failed'
    BY <1>1, <1>2, <2>1
  <2> QED
    BY <1>2, <2>2, WorkerAllAnswered, WorkerGone, WorkerScanShape, ExitStays DEF TInv
<1>3. CASE MainStep /\ Next
  <2>1. Shrinks /\ Reports
    BY <1>3, MainEffect
  <2>2. /\ DirsHold' /\ fs' \subseteq fs
        /\ FailuresAreReached' /\ failed \subseteq failed'
    BY <1>1, <1>3, <2>1
  <2> QED
    BY <1>3, <2>2, MainAllAnswered, MainGone, MainScanShape, ExitStays DEF TInv
<1>4. CASE FillTable \/ ClearTable \/ OthersRemove
  <2>1. UNCHANGED <<nodes, queues, pc, goal, cur, scanning, operand>> /\ failed' = failed
    BY <1>4 DEF FillTable, ClearTable, OthersRemove, sched
  <2> QED
    BY <1>4, <2>1, SystemEffect, TruthStays
<1>5. CASE UNCHANGED vars
  BY <1>5, TruthStays DEF vars, sched, Shrinks
<1> QED
  BY <1>2, <1>3, <1>4, <1>5 DEF Next

\* Whatever still exists is in somebody's hands, or a failure explains it.
THEOREM EverythingIsAnswered == Spec => [](IInv /\ LInv /\ TInv)
<1>1. Init => IInv /\ LInv /\ TInv
  BY InitStep, CountsAtStart, TruthAtStart
<1>2. IInv /\ LInv /\ TInv /\ [Next]_vars => (IInv /\ LInv /\ TInv)'
  BY EveryStep, CountsEveryStep, TruthEveryStep
<1> QED
  BY <1>1, <1>2, PTL DEF Spec

----------------------------------------------------------------------------
(* What is left in a directory that is removed, and at the end             *)

\* The rmdir of a directory that was read to its end comes after everything in
\* it has been removed or reported (main.cpp:282-302, dir_node.cpp:72-97).
THEOREM RmdirComesLast == Spec => []RemovedLast
<1>1. IInv /\ TInv => RemovedLast
  <2> SUFFICES ASSUME IInv, TInv, NEW s \in Slot, pc[s] = "rmdir", remaining[cur[s]] = 0,
                      cur[s] \notin Named, NEW y \in Left(cur[s])
               PROVE  y \in Named
    BY DEF RemovedLast
  <2>1. Phase(s) = "removing"
    BY DEF Phase
  <2>2. y \in Object /\ Parent[y] = cur[s] /\ Exists(y)
    BY DEF Left, Children
  <2>3. ~InHand(y)
    BY <2>1, <2>2, NothingInHand DEF TInv
  <2> QED
    BY <2>2, <2>3 DEF TInv, AllAnswered, Answered
<1> QED
  BY <1>1, EverythingIsAnswered, PTL

\* What a node lies in has a node.
LEMMA MadeAbove ==
    ASSUME IInv, NEW d \in Dir, node[d] # "none"
    PROVE  \A p \in Parents[d] : node[p] # "none"
<1>1. PICK bad \in SUBSET Object :
         bad = {x \in Dir : node[x] # "none" /\ \E p \in Parents[x] : node[p] = "none"}
  BY DEF Object
<1>2. bad = {}
  <2> SUFFICES ASSUME bad # {}
               PROVE  FALSE
    OBVIOUS
  <2>1. PICK x \in bad : Parent[x] \notin bad
    BY TreeAssumption
  <2>2. /\ x \in Dir /\ x \in Object /\ node[x] # "none"
        /\ \E p \in Parents[x] : node[p] = "none"
    BY <2>1, <1>1
  <2>3. Parents[x] = {x} \cup (IF Parent[x] = None THEN {} ELSE Parents[Parent[x]])
    BY <2>2, ParentsDef
  <2>4. Parent[x] # None /\ \E p \in Parents[Parent[x]] : node[p] = "none"
    BY <2>2, <2>3
  <2>5. Parent[x] \in Dir /\ node[Parent[x]] # "none"
    BY <2>2, <2>4, ParentsAreAbove, Fields DEF IInv, Sound, AllLive
  <2> QED
    BY <2>1, <2>4, <2>5, <1>1
<1> QED
  BY <1>1, <1>2

\* When nothing is pending nobody has anything in hand, but for what is in a
\* directory that was never reached.
LEMMA NothingInHandAtExit ==
    ASSUME IInv, LInv, TInv, NothingLeaks, Exited, NEW x \in Object, InHand(x)
    PROVE  Parent[x] # None /\ node[Parent[x]] = "none"
<1>1. pc[Main] = "exited" /\ pending = 0 /\ \A d \in Dir : node[d] # "live"
  BY DEF Exited, NothingLeaks
<1>2. Tasks(queues) = {} /\ Busy = {}
  BY <1>1, NothingPending DEF LInv
<1>3. \A s \in Slot : pc[s] = "idle" /\ Phase(s) = "idle"
  BY <1>2 DEF Busy, Phase
<1>4. ~Standing(x) /\ \A s \in Slot : ~Awaits(s, x)
  BY <1>1, <1>3, NoScanAwaitsNothing DEF Standing
<1>5. x \notin Unseeded
  BY <1>1, TreeAssumption, LenProperties DEF TInv, ExitIsAfterAll, IInv, Types, Unseeded
<1>6. \A s \in Slot : ~Unlists(s, Parent[x])
  BY <1>3 DEF Unlists
<1> QED
  BY <1>2, <1>4, <1>5, <1>6 DEF InHand, Unlisted

\* Whatever is left when remmy exits has a reported cause, so exit code 0 means
\* that everything is gone (main.cpp:513-517).
THEOREM ExitSaysTheTruth == Spec => []ExitIsTruthful
<1>1. IInv /\ LInv /\ TInv /\ NothingLeaks => ExitIsTruthful
  <2> SUFFICES ASSUME IInv, LInv, TInv, NothingLeaks, Exited, NEW y \in Object, Exists(y)
               PROVE  Explained(y)
    BY DEF ExitIsTruthful, Explained, Explains
  <2>1. PICK bad \in SUBSET Object : bad = {x \in Object : Exists(x) /\ ~Explained(x)}
    OBVIOUS
  <2>2. bad = {}
    <3> SUFFICES ASSUME bad # {}
                 PROVE  FALSE
      OBVIOUS
    <3>1. PICK x \in bad : Parent[x] \notin bad
      BY TreeAssumption
    <3>2. x \in Object /\ Exists(x) /\ ~Explained(x)
      BY <3>1, <2>1
    <3>3. InHand(x)
      BY <3>2 DEF TInv, AllAnswered, Answered
    <3>4. PICK d : d = Parent[x]
      OBVIOUS
    <3>5. d # None /\ node[d] = "none" /\ d \in Dir /\ d \in Object /\ d \in Parents[x]
          /\ Parents[d] \subseteq Parents[x]
      BY <3>2, <3>3, <3>4, NothingInHandAtExit, ParentsAreAbove DEF Object
    <3>6. Exists(d)
      BY <3>2, <3>4, <3>5 DEF TInv, DirsHold
    <3>7. Explained(d)
      BY <3>1, <3>4, <3>5, <3>6, <2>1
    <3>8. PICK failure \in failed : Explains(failure, d)
      BY <3>7 DEF Explained
    <3>9. CASE failure[2] \in Parents[d]
      BY <3>2, <3>5, <3>8, <3>9 DEF Explained, Explains
    <3>10. CASE failure[2] \notin Parents[d] /\ d \in Parents[failure[2]]
      <4>1. PICK o \in Object : o = failure[2] /\ Reached(o)
        BY <3>8 DEF TInv, FailuresAreReached, Reached
      <4>2. d # o
        BY <3>5, <3>10, <4>1, ParentsAreAbove
      <4>3. Parents[o] = {o} \cup (IF Parent[o] = None THEN {} ELSE Parents[Parent[o]])
        BY ParentsDef
      <4>4. Parent[o] # None /\ d \in Parents[Parent[o]]
        BY <3>10, <4>1, <4>2, <4>3
      <4>5. Parent[o] \in Dir /\ node[Parent[o]] # "none"
        BY <4>1, <4>4, ParentsAreAbove DEF Reached
      <4> QED
        BY <3>5, <4>4, <4>5, MadeAbove
    <3> QED
      BY <3>8, <3>9, <3>10 DEF Explains
  <2> QED
    BY <2>1, <2>2
<1> QED
  BY <1>1, EverythingIsAnswered, NothingIsLeft, PTL

----------------------------------------------------------------------------
(* Descriptors that run short                                              *)

\* A thread acts: a worker, or RunRm.
Acts(a) == (a \in Slot /\ WorkerStep(a)) \/ (a = Main /\ MainStep)

\* A thread has been refused a descriptor that it may be given later.
Short(a) == pc[a] \in {"refused", "retry"}

\* More descriptors than the walk can have open at once.
Roomy == MaxFds > Cardinality(Dir) + 2 * Cardinality(Slot)

\* Some descriptor of ours is open.
SomeOpen == (\E d \in Dir : fd[d]) \/ \E b \in Actor : extra[b] # 0

\* A refusal is due to a descriptor of ours, which is still open unless the
\* epoch has moved.
ShortIsSeen == \A a \in Actor : pc[a] = "refused" /\ ~moved[a] => SomeOpen

\* Who gives up an open was refused the directory itself.
GiveupIsDenied == \A a \in Actor : pc[a] = "giveup" => Denied("open", Target(a))

\* Who is short, who gives up and why, unless the system's table was full once.
PInv ==
    /\ fills \in Nat /\ moved \in [Actor -> BOOLEAN] /\ (sysfull => fills # 0)
    /\ fills = 0 =>
          /\ ShortIsSeen /\ GiveupIsDenied
          /\ Roomy => \A a \in Actor : ~Short(a)
          /\ Len(Operands) = 1 => ~Short(Main)

\* The steps that open nothing refuse nothing, and close only at the end of a scan.
LEMMA RestRefusesNothing ==
    ASSUME IInv, LInv, NEW a \in Actor, Acts(a), ~Opening(a)
    PROVE  /\ pc'[a] \notin {"refused", "retry", "giveup"}
           /\ UNCHANGED table
           /\ UNCHANGED <<fd, extra, moved>> \/ (CloseOne /\ pc'[a] = "unref")
<1>1. pc = [b \in Actor |-> pc[b]] /\ CountTypes /\ ExtraShape(a)
  BY DEF IInv, Types, LInv
<1>2. CASE a = Main
  <2>1. CASE NextOperand \/ OperandGone \/ Wait
    BY <1>1, <1>2, <2>1 DEF NextOperand, OperandGone, Wait, Goto, nodes, pool, table
  <2>2. CASE SeedRoot \/ RootRefused
    BY <1>1, <1>2, <2>2 DEF SeedRoot, RootRefused, Idle, Goto, nodes, pool, table
  <2> QED
    BY <1>2, <2>1, <2>2, SlotsAreActors DEF Acts, MainStep
<1>3. CASE a \in Slot /\ WorkerStep(a)
  <2>1. CASE CloseScanned(a)
    BY <1>1, <2>1 DEF CloseScanned, Goto, table
  <2>2. ASSUME ~CloseScanned(a)
        PROVE  extra' = extra
    BY <1>1, <1>3, <2>2, WorkerExtra
  <2>3. CASE Acquire(a)
    <3>1. PICK d : Start(a, d)
      BY <1>3, <2>3, AcquireTakes
    <3> QED
      BY <1>1, <2>3, <3>1 DEF Acquire, Start, Goto, nodes, pool, table
  <2>4. CASE Park(a) \/ Abandon(a)
    BY <1>1, <2>4 DEF Park, Abandon, StartRemove, Hopeless, Goto, nodes, pool, table
  <2>5. CASE UnlinkFile(a) \/ SkipGone(a) \/ StatFails(a)
    BY <2>5 DEF UnlinkFile, SkipGone, StatFails, Reading, nodes, pool, table
  <2>6. CASE ReadFails(a) \/ MeetChild(a)
    BY <1>1, <2>6 DEF ReadFails, MeetChild, Reading, Goto, nodes, pool, table
  <2>7. CASE ChildRefused(a) \/ Publish(a)
    BY <1>1, <2>7 DEF ChildRefused, Publish, LeaveEntry, Hopeless, Goto, nodes, pool, table
  <2>8. CASE Count(a) \/ Unref(a)
    BY <1>1, <2>8 DEF Count, Unref, StartRemove, Goto, nodes, pool, table
  <2>9. CASE RemoveEmpty(a) \/ RemoveEmptyFails(a)
    BY <1>1, <2>9 DEF RemoveEmpty, RemoveEmptyFails, Hopeless, Goto, nodes, pool, table
  <2>10. CASE Delete(a) \/ Finish(a)
    BY <1>1, <2>10 DEF Delete, Finish, Goto, nodes, pool, table
  <2> QED
    BY <1>3, <2>1, <2>3, <2>4, <2>5, <2>6, <2>7, <2>8, <2>9, <2>10 DEF WorkerStep
<1> QED
  BY <1>2, <1>3 DEF Acts

\* A thread moves nobody else.
LEMMA ActsAlone ==
    ASSUME IInv, LInv, NEW a \in Actor, Acts(a)
    PROVE  Alone(a) /\ a \in Slot \cup {Main}
BY WorkersActAlone, MainActsAlone DEF Acts, LInv, Actor

\* A refusal to a thread beside an open descriptor is not the last word.
LEMMA RefusedIsRetried ==
    ASSUME IInv, LInv, NEW a \in Actor, Refused(a), moved[a] \in BOOLEAN,
           ~moved[a] => SomeOpen
    PROVE  pc'[a] = "retry"
<1>1. /\ pc = [b \in Actor |-> pc[b]] /\ pc[a] = "refused" /\ live' = live - 1
      /\ live = Cardinality(OpenDirs) + Cardinality(Extras) + Cardinality(Reserving)
  BY DEF Refused, IInv, Types, LInv, LeasesAreCounted
<1>2. /\ Cardinality(OpenDirs) \in Nat /\ Cardinality(Extras) \in Nat
      /\ Cardinality(Reserving) \in Nat
  BY CountsAreNatural
<1>3. a \in Reserving
  BY <1>1 DEF Reserving, Reserved
<1>4. Cardinality(Reserving) # 0
  BY <1>3, CountsAreNatural, FS_EmptySet
<1>5. ASSUME SomeOpen
      PROVE  live' # 0
  <2>1. OpenDirs # {} \/ Extras # {}
    <3>1. ASSUME NEW b \in Actor, extra[b] # 0
          PROVE  <<b, 1>> \in Extras
      <4>1. extra[b] \in 0 .. 2
        BY DEF LInv, CountTypes
      <4> QED
        BY <3>1, <4>1 DEF Extras
    <3> QED
      BY <1>5, <3>1 DEF SomeOpen, OpenDirs
  <2>2. Cardinality(OpenDirs) # 0 \/ Cardinality(Extras) # 0
    BY <2>1, CountsAreNatural, FS_EmptySet
  <2> QED
    BY <1>1, <1>2, <1>4, <2>2
<1>6. live' # 0 \/ moved[a]
  BY <1>5
<1> QED
  BY <1>1, <1>6 DEF Refused, Goto

\* With room enough, no open is refused.
LEMMA RoomyHasRoom ==
    ASSUME IInv, LInv, Roomy, ~sysfull
    PROVE  HasRoom
<1>1. Descriptors = Cardinality(OpenDirs) + Cardinality(Extras)
  BY DEF Descriptors, OpenDirs
<1>2. /\ IsFiniteSet(Dir) /\ IsFiniteSet(Slot) /\ Cardinality(Dir) \in Nat
      /\ Cardinality(Slot) \in Nat
  BY CountedIsFinite
<1>3. Cardinality(OpenDirs) <= Cardinality(Dir)
  BY <1>2, FS_Subset DEF OpenDirs
<1>4. Extras \subseteq Slot \X {1, 2}
  <2>1. extra[Main] = 0
    <3>1. goal[Main] \notin {"task", "remove"} \/ pc[Main] \in {"next", "exited"}
      BY DEF IInv, MainShape
    <3>2. ExtraShape(Main) /\ extra[Main] \in 0 .. 2
      BY SlotsAreActors DEF LInv, CountTypes
    <3> QED
      BY <3>1, <3>2 DEF ExtraShape, Opens
  <2>2. ASSUME NEW h \in Extras
        PROVE  h[1] # Main
    BY <2>1 DEF Extras
  <2> QED
    BY <2>2 DEF Extras, Actor
<1>5. /\ IsFiniteSet(Slot \X {1, 2})
      /\ Cardinality(Slot \X {1, 2}) = Cardinality(Slot) * 2
  <2>1. IsFiniteSet({1, 2}) /\ Cardinality({1, 2}) = 2
    <3>1. IsFiniteSet({1}) /\ Cardinality({1}) = 1
      BY FS_Singleton
    <3>2. {1, 2} = {1} \cup {2} /\ 2 \notin {1}
      OBVIOUS
    <3> QED
      BY <3>1, <3>2, FS_AddElement
  <2> QED
    BY <1>2, <2>1, FS_Product
<1>6. Cardinality(Extras) <= Cardinality(Slot) * 2
  BY <1>4, <1>5, FS_Subset
<1>7. Cardinality(OpenDirs) \in Nat /\ Cardinality(Extras) \in Nat
  BY CountsAreNatural
<1>8. Descriptors < MaxFds
  BY <1>1, <1>2, <1>3, <1>6, <1>7, BoundAssumption DEF Roomy
<1> QED
  BY <1>8 DEF HasRoom

\* With one operand RunRm opens it before anything else is open.
LEMMA FirstHasRoom ==
    ASSUME IInv, LInv, Len(Operands) = 1, MaxFds > 0, ~sysfull, pc[Main] = "call"
    PROVE  HasRoom
<1>1. operand = 1 /\ cur[Main] = Operands[1] /\ goal[Main] = "root"
  BY DEF IInv, Types, MainShape
<1>2. Operands[1] \in Unseeded
  BY <1>1 DEF Unseeded
<1>3. node[Operands[1]] = "none"
  BY <1>2, Fields DEF IInv, Sound, UnseededIsNew
<1>4. \A d \in Dir : node[d] = "none"
  <2> SUFFICES ASSUME NEW d \in Dir, node[d] # "none"
               PROVE  FALSE
    OBVIOUS
  <2>1. PICK bad \in SUBSET Object : bad = {x \in Dir : node[x] # "none"}
    BY DEF Object
  <2>2. PICK x \in bad : Parent[x] \notin bad
    BY <2>1, TreeAssumption
  <2>3. x \in Dir /\ x \in Object /\ node[x] # "none"
    BY <2>1, <2>2
  <2>4. CASE Parent[x] = None
    <3>1. x \in ToSet(Operands)
      BY <2>3, <2>4, ParentAssumption
    <3>2. PICK i \in 1 .. Len(Operands) : x = Operands[i]
      BY <3>1, TreeAssumption, LenProperties DEF ToSet
    <3> QED
      BY <3>2, <1>3, <2>3
  <2>5. CASE Parent[x] # None
    <3>1. Parent[x] \in Dir /\ node[Parent[x]] # "none"
      BY <2>3, <2>5, ParentsAreAbove, Fields DEF IInv, Sound, AllLive
    <3> QED
      BY <3>1, <2>1, <2>2
  <2> QED
    BY <2>4, <2>5
<1>5. \A s \in Slot : Phase(s) \in {"idle", "finish"}
  BY <1>4, AtWork
<1>6. \A s \in Slot : pc[s] \in {"idle", "finish"}
  BY <1>5 DEF Phase, Opens
<1>7. \A a \in Actor : extra[a] = 0
  <2>1. \A s \in Slot : extra[s] = 0
    BY <1>6, NoExtra, SlotsAreActors DEF LInv, Opens
  <2>2. extra[Main] = 0
    BY <1>1, NoExtra, SlotsAreActors DEF LInv
  <2> QED
    BY <2>1, <2>2 DEF Actor
<1>8. \A d \in Dir : ~fd[d]
  <2> SUFFICES ASSUME NEW d \in Dir, fd[d]
               PROVE  FALSE
    OBVIOUS
  <2>1. d \notin Tasks(queues)
    BY <1>4, Fields DEF IInv, Sound, AllLive, Waits
  <2>2. \A a \in Actor : ~Holds(a, d)
    BY <1>5, <1>6, SlotsAreActors DEF Holds, InScan
  <2> QED
    BY <2>1, <2>2 DEF LInv, DirsAreKept
<1>9. OpenDirs = {} /\ Extras = {}
  <2>1. OpenDirs = {}
    BY <1>8 DEF OpenDirs
  <2>2. Extras = {}
    BY <1>7 DEF Extras
  <2> QED
    BY <2>1, <2>2
<1> QED
  BY <1>9, FS_EmptySet, BoundAssumption DEF HasRoom, Descriptors, OpenDirs

\* What an open does to the refusals of the thread that opens.
LEMMA OpeningRefusals ==
    ASSUME IInv, LInv, TInv, PInv, MaxFds > 0, fills = 0, NEW a \in Actor, Opening(a)
    PROVE  /\ UNCHANGED <<table, goal, cur, entry>>
           /\ pc'[a] = "refused" => SomeOpen /\ ~HasRoom /\ pc[a] = "call"
           /\ pc'[a] = "giveup" => Denied("open", Target(a))
           /\ pc'[a] = "retry" => pc[a] \in {"retry", "refused"}
<1>1. pc = [b \in Actor |-> pc[b]] /\ ~sysfull
  BY DEF IInv, Types, PInv
<1>2. UNCHANGED <<table, goal, cur, entry>>
  BY DEF Opening, Reserve, OpenPiece, OpenSucceeds, OpenFails, OpenRefused, Refused, Unwind,
         scanning
<1>3. CASE Reserve(a) \/ OpenPiece(a)
  BY <1>1, <1>2, <1>3 DEF Reserve, OpenPiece, Goto
<1>4. CASE OpenSucceeds(a)
  <2>1. pc[a] = "call"
    BY <1>4 DEF OpenSucceeds
  <2>2. goal[a] \in {"root", "task", "child", "remove"}
    BY <2>1, TargetIsDir DEF TInv, Opens
  <2> QED
    BY <1>1, <1>2, <1>4, <2>2 DEF OpenSucceeds, AfterOpen, Goto
<1>5. CASE OpenFails(a)
  BY <1>1, <1>2, <1>5 DEF OpenFails, Goto
<1>6. CASE OpenRefused(a)
  <2>1. ~HasRoom /\ pc[a] = "call" /\ pc'[a] = "refused"
    BY <1>1, <1>6 DEF OpenRefused, Goto
  <2>2. Descriptors >= MaxFds
    <3>1. Descriptors \in Int
      BY CountsAreNatural DEF Descriptors, OpenDirs
    <3> QED
      BY <1>1, <2>1, <3>1, BoundAssumption DEF HasRoom
  <2>3. OpenDirs # {} \/ Extras # {}
    BY <2>2, FS_EmptySet, BoundAssumption DEF Descriptors, OpenDirs
  <2>4. ASSUME NEW h \in Extras
        PROVE  SomeOpen
    <3>1. h[1] \in Actor /\ h[2] \in {1, 2} /\ h[2] <= extra[h[1]]
      BY DEF Extras
    <3>2. extra[h[1]] # 0
      BY <3>1
    <3> QED
      BY <3>1, <3>2 DEF SomeOpen
  <2>5. SomeOpen
    BY <2>3, <2>4 DEF SomeOpen, OpenDirs
  <2> QED
    BY <1>2, <2>1, <2>5
<1>7. CASE Refused(a)
  <2>1. pc'[a] = "retry" /\ pc[a] = "refused"
    <3>1. pc[a] = "refused"
      BY <1>7 DEF Refused
    <3> QED
      BY <1>7, <3>1, RefusedIsRetried DEF PInv, ShortIsSeen
  <2> QED
    BY <1>2, <2>1
<1>8. CASE Unwind(a)
  <2>1. pc' = pc /\ pc[a] # "refused"
    BY <1>8 DEF Unwind
  <2> QED
    BY <1>2, <2>1 DEF PInv, GiveupIsDenied
<1> QED
  BY <1>3, <1>4, <1>5, <1>6, <1>7, <1>8 DEF Opening

\* What was open still is, or everybody with a reservation has been told.
LEMMA OpenedStays ==
    ASSUME IInv, LInv, PInv, NEW a \in Actor, Acts(a)
    PROVE  /\ moved' \in [Actor -> BOOLEAN]
           /\ \A b \in Actor : pc'[b] = "refused" =>
                 \/ moved'[b]
                 \/ (SomeOpen => SomeOpen') /\ moved'[b] = moved[b]
<1>1. /\ pc = [b \in Actor |-> pc[b]] /\ CountTypes /\ ExtraShape(a)
      /\ moved \in [Actor -> BOOLEAN] /\ Alone(a)
  BY ActsAlone DEF IInv, Types, LInv, PInv
<1>2. ASSUME CloseOne, pc'[a] # "refused" \/ pc' = pc
      PROVE  /\ moved' \in [Actor -> BOOLEAN]
             /\ \A b \in Actor : pc'[b] = "refused" => moved'[b]
  <2>1. moved' = [b \in Actor |-> Reserved(b)]
    BY <1>2 DEF CloseOne
  <2>2. \A b \in Actor : Reserved(b) \in BOOLEAN
    BY DEF Reserved
  <2>3. \A b \in Actor : pc'[b] = "refused" => pc[b] = "refused"
    BY <1>1, <1>2 DEF Alone
  <2> QED
    BY <2>1, <2>2, <2>3 DEF Reserved
<1>3. CASE ~Opening(a)
  <2>1. UNCHANGED <<fd, extra, moved>> \/ (CloseOne /\ pc'[a] # "refused")
    BY <1>3, RestRefusesNothing
  <2> QED
    BY <1>1, <1>2, <2>1 DEF SomeOpen
<1>4. CASE Reserve(a) \/ OpenPiece(a) \/ OpenSucceeds(a) \/ OpenFails(a) \/ Refused(a)
  <2>1. moved' = [moved EXCEPT ![a] = FALSE]
    BY <1>4 DEF Reserve, OpenPiece, OpenSucceeds, OpenFails, Refused, EndReservation
  <2>2. pc'[a] # "refused"
    <3>1. CASE Reserve(a) \/ OpenPiece(a) \/ OpenFails(a) \/ Refused(a)
      BY <1>1, <3>1 DEF Reserve, OpenPiece, OpenFails, Refused, Goto
    <3>2. CASE OpenSucceeds(a)
      <4>1. goal[a] \in {"root", "task", "child", "remove"}
        BY <3>2, SlotsAreActors DEF OpenSucceeds, IInv, WorkerShape, MainShape, Actor
      <4> QED
        BY <1>1, <3>2, <4>1 DEF OpenSucceeds, AfterOpen, Goto
    <3> QED
      BY <1>4, <3>1, <3>2
  <2>3. SomeOpen => SomeOpen'
    <3>1. CASE Reserve(a) \/ OpenFails(a) \/ Refused(a)
      BY <3>1 DEF Reserve, OpenFails, Refused, SomeOpen, nodes
    <3>2. CASE OpenPiece(a)
      <4>1. extra' = [extra EXCEPT ![a] = 1]
        BY <3>2 DEF OpenPiece
      <4> QED
        BY <1>1, <4>1 DEF SomeOpen, CountTypes
    <3>3. CASE OpenSucceeds(a)
      <4>1. CASE goal[a] = "remove"
        <5>1. extra' = [extra EXCEPT ![a] = @ + 1]
          BY <3>3, <4>1 DEF OpenSucceeds
        <5> QED
          BY <1>1, <5>1 DEF SomeOpen, CountTypes
      <4>2. CASE goal[a] # "remove"
        <5>1. fd' = [fd EXCEPT ![Target(a)] = TRUE] /\ extra' = extra
          BY <3>3, <4>2 DEF OpenSucceeds
        <5> QED
          BY <1>1, <5>1 DEF SomeOpen, CountTypes
      <4> QED
        BY <4>1, <4>2
    <3> QED
      BY <1>4, <3>1, <3>2, <3>3
  <2> QED
    BY <1>1, <2>1, <2>2, <2>3
<1>5. CASE OpenRefused(a)
  BY <1>1, <1>5 DEF OpenRefused, SomeOpen, nodes, pool
<1>6. CASE Unwind(a)
  <2>1. CloseOne /\ pc' = pc
    BY <1>6 DEF Unwind
  <2> QED
    BY <1>2, <2>1
<1> QED
  BY <1>3, <1>4, <1>5, <1>6 DEF Opening

\* A step keeps the refusals what they are.
LEMMA PatienceStays ==
    ASSUME IInv, LInv, TInv, PInv, MaxFds > 0, NEW a \in Actor, Acts(a)
    PROVE  PInv'
<1>1. /\ pc = [b \in Actor |-> pc[b]] /\ Alone(a) /\ UNCHANGED table
  <2>1. UNCHANGED table
    <3>1. CASE Opening(a)
      BY <3>1 DEF Opening, Reserve, OpenPiece, OpenSucceeds, OpenFails, OpenRefused, Refused,
                  Unwind
    <3> QED
      BY <3>1, RestRefusesNothing
  <2> QED
    BY <2>1, ActsAlone DEF IInv, Types
<1>2. UNCHANGED <<fills, sysfull, fault>>
  BY <1>1 DEF table, given
<1>3. moved' \in [Actor -> BOOLEAN]
  BY OpenedStays
<1>4. SUFFICES ASSUME fills = 0
               PROVE  /\ ShortIsSeen' /\ GiveupIsDenied'
                      /\ Roomy => \A b \in Actor : ~Short(b)'
                      /\ Len(Operands) = 1 => ~Short(Main)'
  BY <1>2, <1>3 DEF PInv
<1>5. /\ pc'[a] = "refused" => SomeOpen /\ ~HasRoom /\ pc[a] = "call"
      /\ pc'[a] = "giveup" => Denied("open", Target(a)) /\ UNCHANGED <<goal, cur, entry>>
      /\ pc'[a] = "retry" => pc[a] \in {"retry", "refused"}
  <2>1. CASE Opening(a)
    BY <1>4, <2>1, OpeningRefusals
  <2>2. CASE ~Opening(a)
    BY <2>2, RestRefusesNothing
  <2> QED
    BY <2>1, <2>2
<1>6. ShortIsSeen'
  <2> SUFFICES ASSUME NEW b \in Actor, pc'[b] = "refused", ~moved'[b]
               PROVE  SomeOpen'
    BY DEF ShortIsSeen
  <2>1. (SomeOpen => SomeOpen') /\ moved'[b] = moved[b]
    BY OpenedStays
  <2>2. CASE b = a
    BY <1>5, <2>1, <2>2
  <2>3. CASE b # a
    BY <1>1, <1>4, <2>1, <2>3 DEF Alone, PInv, ShortIsSeen
  <2> QED
    BY <2>2, <2>3
<1>7. GiveupIsDenied'
  <2> SUFFICES ASSUME NEW b \in Actor, pc'[b] = "giveup"
               PROVE  Denied("open", Target(b))'
    BY DEF GiveupIsDenied
  <2>1. PICK d : d = Target(b)
    OBVIOUS
  <2>2. Target(b)' = d /\ Denied("open", d)
    <3>1. CASE b = a
      BY <1>5, <2>1, <3>1 DEF Target
    <3>2. CASE b # a
      <4>1. pc[b] = "giveup" /\ goal'[b] = goal[b] /\ cur'[b] = cur[b]
        BY <1>1, <3>2 DEF Alone
      <4>2. goal[b] = "child" => entry'[b] = entry[b]
        BY <1>1, <3>2, <4>1, SlotsAreActors DEF Alone, IInv, MainShape, Opens, Actor
      <4>3. Target(b)' = d
        BY <2>1, <4>1, <4>2 DEF Target
      <4> QED
        BY <1>4, <2>1, <4>1, <4>3 DEF PInv, GiveupIsDenied
    <3> QED
      BY <3>1, <3>2
  <2> QED
    BY <1>2, <2>2 DEF Denied
<1>8. ASSUME Roomy, NEW b \in Actor
      PROVE  ~Short(b)'
  <2>1. HasRoom
    BY <1>4, <1>8, RoomyHasRoom DEF PInv
  <2>2. ~Short(b) /\ ~Short(a)
    BY <1>4, <1>8 DEF PInv
  <2> QED
    BY <1>1, <1>5, <2>1, <2>2 DEF Short, Alone
<1>9. ASSUME Len(Operands) = 1
      PROVE  ~Short(Main)'
  <2>1. ~Short(Main)
    BY <1>4, <1>9 DEF PInv
  <2>2. pc[Main] = "call" => HasRoom
    BY <1>4, <1>9, FirstHasRoom DEF PInv
  <2> QED
    BY <1>1, <1>5, <2>1, <2>2, SlotsAreActors DEF Short, Alone
<1> QED
  BY <1>6, <1>7, <1>8, <1>9

\* The invariant of the refusals: at the start, and after every step.
LEMMA PatienceAlways ==
    ASSUME MaxFds > 0
    PROVE  /\ Init => PInv
           /\ IInv /\ LInv /\ TInv /\ PInv /\ [Next]_vars => PInv'
<1>1. Init => PInv
  BY SlotsAreActors DEF Init, PInv, ShortIsSeen, GiveupIsDenied, Short
<1>2. ASSUME IInv, LInv, TInv, PInv, [Next]_vars
      PROVE  PInv'
  <2>1. CASE \E s \in Slot : WorkerStep(s)
    BY <1>2, <2>1, PatienceStays, SlotsAreActors DEF Acts
  <2>2. CASE MainStep
    BY <1>2, <2>2, PatienceStays, SlotsAreActors DEF Acts
  <2>3. CASE ClearTable \/ OthersRemove \/ UNCHANGED vars
    <3>1. /\ UNCHANGED <<nodes, pool, pc, cur, goal, entry, extra, fills, fault>>
          /\ sysfull' => sysfull
      BY <2>3 DEF ClearTable, OthersRemove, vars, given, table, scanning
    <3> QED
      BY <1>2, <3>1 DEF PInv, ShortIsSeen, GiveupIsDenied, Short, SomeOpen, Target, Denied,
                        nodes, pool
  <2>4. CASE FillTable
    BY <1>2, <2>4 DEF FillTable, PInv, pool
  <2> QED
    BY <1>2, <2>1, <2>2, <2>3, <2>4 DEF Next
<1> QED
  BY <1>1, <1>2

----------------------------------------------------------------------------
(* Every failure has a cause                                               *)

\* What is refused something lies in x, or is x.
Blocked(x) == \E y \in Object : Real[y] = fault[2] /\ x \in Parents[y]

\* The failure is due to the one refusal there is, or to a directory being gone.
Blamed(error, x) == IF error = "gone" THEN x \in Dir /\ ~Exists(x) ELSE Blocked(x)

FailuresAreBlamed == \A failure \in failed : Blamed(failure[1], failure[2])

\* A directory is removed without having been listed only if it could not be opened.
UnopenedIsBlamed ==
    \A s \in Slot : Phase(s) = "removing" /\ remaining[cur[s]] # 0 =>
        Blocked(cur[s]) \/ ~Exists(cur[s])

BInv == FailuresAreBlamed /\ UnopenedIsBlamed

\* No path is long and RunRm never runs short; or nobody does and nothing is refused.
Excuse ==
    \/ Long = {} /\ (Roomy \/ Len(Operands) = 1)
    \/ Roomy /\ fault[2] = None

\* No failure is due to a want of descriptors, or to the directory above.
NoHurry ==
    /\ pc[Main] # "retry"
    /\ \A s \in Slot : goal[s] = "remove" => pc[s] \notin {"retry", "giveup"}

\* So it is while the table has never filled and descriptors suffice.
LEMMA ExcuseHolds ==
    ASSUME IInv, TInv, PInv, fills = 0, Excuse
    PROVE  NoHurry /\ GiveupIsDenied
<1>1. GiveupIsDenied
  BY DEF PInv
<1>2. pc[Main] # "retry"
  BY SlotsAreActors DEF PInv, Excuse, Short
<1>3. ASSUME NEW s \in Slot, goal[s] = "remove", pc[s] \in {"retry", "giveup"}
      PROVE  FALSE
  <2>1. CASE Long = {}
    BY <1>3, <2>1 DEF TInv, ScanShape, Opens
  <2>2. CASE Roomy /\ fault[2] = None
    <3>1. pc[s] = "giveup" /\ s \in Actor
      BY <1>3, <2>2, SlotsAreActors DEF PInv, Short
    <3>2. Target(s) \in Dir
      BY <1>3, <3>1, TargetIsDir DEF TInv, Opens
    <3>3. Real[Target(s)] = None
      BY <1>1, <2>2, <3>1 DEF GiveupIsDenied, Denied
    <3> QED
      BY <3>2, <3>3, RealAssumption DEF Object
  <2> QED
    BY <2>1, <2>2 DEF Excuse
<1> QED
  BY <1>1, <1>2, <1>3 DEF NoHurry

\* What the system refuses is blocked, and what it is in.
LEMMA DeniedIsBlocked ==
    ASSUME NEW x \in Object, NEW call, Denied(call, x)
    PROVE  Blocked(x)
<1>1. Real[x] = fault[2] /\ x \in Parents[x]
  BY ParentsAreAbove DEF Denied
<1> QED
  BY <1>1 DEF Blocked

\* What blocks an object blocks the directory it is in.
LEMMA BlockedAbove ==
    ASSUME NEW x \in Object, Parent[x] # None, Blocked(x)
    PROVE  Blocked(Parent[x])
<1>1. PICK y \in Object : Real[y] = fault[2] /\ x \in Parents[y]
  BY DEF Blocked
<1>2. Parent[x] \in Parents[x] /\ Parents[x] \subseteq Parents[y]
  BY <1>1, ParentsAreAbove
<1> QED
  BY <1>1, <1>2 DEF Blocked

\* Who could not open a directory is right to blame it.
LEMMA OpenErrorIsBlamed ==
    ASSUME GiveupIsDenied, GoneIsGone, NEW a \in Actor, Hopeless(a), Target(a) \in Dir
    PROVE  /\ Blamed(OpenError(a), Target(a))
           /\ Blocked(Target(a)) \/ ~Exists(Target(a))
<1>1. CASE pc[a] = "gone"
  BY <1>1 DEF GoneIsGone, OpenError, Blamed
<1>2. CASE pc[a] = "giveup"
  <2>1. Blocked(Target(a))
    BY <1>2, DeniedIsBlocked DEF GiveupIsDenied, Object
  <2> QED
    BY <1>2, <2>1 DEF OpenError, Blamed
<1> QED
  BY <1>1, <1>2 DEF Hopeless

\* A step adds a failure with a cause, or none.
Adds == failed' = failed \/ \E error, x : Blamed(error, x) /\ failed' = failed \cup {<<error, x>>}

\* A cause stays one: nothing comes back.
LEMMA BlamedStays ==
    ASSUME FailuresAreBlamed, fault' = fault, fs' \subseteq fs, Adds
    PROVE  FailuresAreBlamed'
<1>1. \A error, x : Blamed(error, x) => Blamed(error, x)'
  BY DEF Blamed, Blocked, Exists
<1>2. \A failure \in failed' : Blamed(failure[1], failure[2])
  <2>1. CASE failed' = failed
    BY <2>1 DEF FailuresAreBlamed
  <2>2. CASE failed' # failed
    <3>1. PICK error, x : Blamed(error, x) /\ failed' = failed \cup {<<error, x>>}
      BY <2>2 DEF Adds
    <3>2. SUFFICES ASSUME NEW failure \in failed'
                   PROVE  Blamed(failure[1], failure[2])
      OBVIOUS
    <3>3. CASE failure \in failed
      BY <3>3 DEF FailuresAreBlamed
    <3>4. CASE failure = <<error, x>>
      <4>1. failure[1] = error /\ failure[2] = x
        BY <3>4
      <4> QED
        BY <3>1, <4>1
    <3> QED
      BY <3>1, <3>2, <3>3, <3>4
  <2> QED
    BY <2>1, <2>2
<1> QED
  BY <1>1, <1>2 DEF FailuresAreBlamed

\* A removal that is refused adds the failure it is given.
LEMMA RmdirAdds ==
    ASSUME NEW d, NEW error, Rmdir(d, error),
           Exists(d) /\ ~Removable(d) => Blamed(error, d)
    PROVE  Adds
BY DEF Rmdir, Fail, Adds

\* A directory that is not empty holds something that is blocked.
LEMMA RmdirIsBlamed ==
    ASSUME IInv, TInv, BInv, NEW s \in Slot, pc[s] = "rmdir",
           Exists(cur[s]), ~Removable(cur[s])
    PROVE  Blamed(RmdirError(cur[s]), cur[s])
<1>1. Phase(s) = "removing"
  BY DEF Phase
<1>2. cur[s] \in Dir /\ cur[s] \in Object /\ RmdirError(cur[s]) # "gone"
  BY <1>1, AtWork DEF Object, RmdirError
<1>3. CASE remaining[cur[s]] # 0
  BY <1>1, <1>2, <1>3 DEF BInv, UnopenedIsBlamed, Blamed
<1>4. CASE remaining[cur[s]] = 0 /\ Left(cur[s]) # {}
  <2>1. PICK y \in Left(cur[s]) : TRUE
    BY <1>4
  <2>2. y \in Object /\ Parent[y] = cur[s] /\ Exists(y) /\ Parent[y] # None
    BY <2>1, <1>2, TreeAssumption DEF Left, Children
  <2>3. ~InHand(y)
    BY <1>1, <1>4, <2>2, NothingInHand DEF TInv
  <2>4. y \in Named \/ cur[s] \in Named
    BY <2>2, <2>3 DEF TInv, AllAnswered, Answered
  <2>5. ASSUME NEW x \in Named, Exists(x)
        PROVE  Blocked(x)
    BY <2>5 DEF Named, BInv, FailuresAreBlamed, Blamed
  <2>6. Blocked(cur[s])
    BY <2>2, <2>4, <2>5, BlockedAbove
  <2> QED
    BY <1>2, <2>6 DEF Blamed
<1>5. CASE Left(cur[s]) = {}
  <2>1. Denied("rmdir", cur[s])
    BY <1>5 DEF Removable
  <2> QED
    BY <1>2, <2>1, DeniedIsBlocked DEF Blamed
<1> QED
  BY <1>3, <1>4, <1>5

\* Every failure of a worker has its cause.
LEMMA WorkerAdds ==
    ASSUME IInv, TInv, BInv, NoHurry, GiveupIsDenied, NEW s \in Slot, WorkerStep(s)
    PROVE  Adds
<1>1. s \in Actor /\ GoneIsGone
  BY SlotsAreActors DEF TInv
<1>2. ASSUME Hopeless(s)
      PROVE  /\ Target(s) \in Dir
             /\ Blamed(OpenError(s), Target(s))
  <2>1. Target(s) \in Dir
    BY <1>1, <1>2, TargetIsDir DEF TInv, Hopeless, Opens
  <2> QED
    BY <1>1, <1>2, <2>1, OpenErrorIsBlamed
<1>3. CASE Abandon(s)
  <2>1. Target(s) = cur[s] /\ Hopeless(s)
    BY <1>3 DEF Abandon, Target
  <2>2. failed' = failed \/ failed' = failed \cup {<<OpenError(s), cur[s]>>}
    BY <1>3 DEF Abandon, Fail
  <2> QED
    BY <1>2, <2>1, <2>2 DEF Adds
<1>4. CASE UnlinkFile(s)
  <2>1. PICK e \in todo[s] \cap File :
           failed' = failed \/ (Denied("unlink", e) /\ failed' = failed \cup {<<"unlink", e>>})
    BY <1>4 DEF UnlinkFile, Fail
  <2>2. e \in Object
    BY DEF Object
  <2>3. Denied("unlink", e) => Blamed("unlink", e)
    BY <2>2, DeniedIsBlocked DEF Blamed
  <2> QED
    BY <2>1, <2>3 DEF Adds
<1>5. CASE StatFails(s)
  <2>1. PICK e \in todo[s] : Denied("stat", e) /\ failed' = failed \cup {<<"stat", e>>}
    BY <1>5 DEF StatFails, Fail
  <2>2. e \in Object
    BY <1>1 DEF IInv, Types
  <2>3. Blamed("stat", e)
    BY <2>1, <2>2, DeniedIsBlocked DEF Blamed
  <2> QED
    BY <2>1, <2>3 DEF Adds
<1>6. CASE ReadFails(s)
  <2>1. /\ pc[s] = "scan" /\ (Denied("read", cur[s]) \/ ~Exists(cur[s]))
        /\ failed' = failed \cup {<<IF Exists(cur[s]) THEN "read" ELSE "gone", cur[s]>>}
    BY <1>6 DEF ReadFails, Reading, Fail
  <2>2. Phase(s) \notin {"idle", "finish"}
    BY <2>1 DEF Phase, Opens, IInv, WorkerShape
  <2>3. cur[s] \in Dir /\ cur[s] \in Object
    BY <2>2, AtWork DEF Object
  <2>4. Blamed(IF Exists(cur[s]) THEN "read" ELSE "gone", cur[s])
    BY <2>1, <2>3, DeniedIsBlocked DEF Blamed
  <2> QED
    BY <2>1, <2>4 DEF Adds
<1>7. CASE ChildRefused(s)
  <2>1. Target(s) = entry[s] /\ Hopeless(s)
    BY <1>7 DEF ChildRefused, Target
  <2>2. Rmdir(entry[s], OpenError(s)) \/ failed' = failed \cup {<<OpenError(s), entry[s]>>}
    BY <1>7 DEF ChildRefused, Fail
  <2>3. Blamed(OpenError(s), entry[s])
    BY <1>2, <2>1
  <2>4. CASE Rmdir(entry[s], OpenError(s))
    BY <2>3, <2>4, RmdirAdds
  <2> QED
    BY <2>2, <2>3, <2>4 DEF Adds
<1>8. CASE RemoveEmpty(s)
  <2>1. pc[s] = "rmdir" /\ Rmdir(cur[s], RmdirError(cur[s]))
    BY <1>8 DEF RemoveEmpty
  <2>2. Exists(cur[s]) /\ ~Removable(cur[s]) => Blamed(RmdirError(cur[s]), cur[s])
    BY <2>1, RmdirIsBlamed
  <2> QED
    BY <2>1, <2>2, RmdirAdds
<1>9. CASE RemoveEmptyFails(s)
  <2>1. pc[s] = "gone" /\ failed' = failed
    BY <1>9 DEF RemoveEmptyFails, Hopeless, NoHurry
  <2> QED
    BY <2>1 DEF Adds
<1>10. CASE \/ Opening(s) \/ Acquire(s) \/ Park(s) \/ SkipGone(s) \/ MeetChild(s) \/ Count(s)
            \/ Publish(s) \/ CloseScanned(s) \/ Unref(s) \/ Delete(s) \/ Finish(s)
  <2>1. failed' = failed
    <3>1. CASE Opening(s)
      BY <3>1 DEF Opening, Reserve, OpenPiece, OpenSucceeds, OpenFails, OpenRefused, Refused,
                  Unwind
    <3>2. CASE Acquire(s) \/ Park(s) \/ SkipGone(s) \/ MeetChild(s) \/ Count(s)
      BY <3>2 DEF Acquire, Park, SkipGone, MeetChild, Count
    <3>3. CASE Publish(s) \/ CloseScanned(s) \/ Unref(s) \/ Delete(s) \/ Finish(s)
      BY <3>3 DEF Publish, CloseScanned, Unref, Delete, Finish
    <3> QED
      BY <1>10, <3>1, <3>2, <3>3
  <2> QED
    BY <2>1 DEF Adds
<1> QED
  BY <1>3, <1>4, <1>5, <1>6, <1>7, <1>8, <1>9, <1>10 DEF WorkerStep

\* So has every failure of RunRm.
LEMMA MainAdds ==
    ASSUME IInv, TInv, NoHurry, GiveupIsDenied, MainStep
    PROVE  Adds
<1>1. operand \in Nat \ {0} /\ Len(Operands) \in Nat /\ Main \in Actor
  BY SlotsAreActors, TreeAssumption, LenProperties DEF IInv, Types
<1>2. CASE OperandGone
  <2>1. Operands[operand] \in Dir
    BY <1>1, <1>2, OperandsAreReached DEF OperandGone
  <2>2. Blamed("gone", Operands[operand])
    BY <1>2, <2>1 DEF OperandGone, Blamed
  <2> QED
    BY <1>2, <2>2 DEF OperandGone, Fail, Adds
<1>3. CASE RootRefused
  <2>1. Hopeless(Main) /\ pc[Main] \in Opens
    BY <1>3 DEF RootRefused, NoHurry, Hopeless, Opens
  <2>2. Target(Main) = cur[Main] /\ cur[Main] \in Dir
    BY <1>1, <2>1, TargetIsDir, SlotsAreActors DEF Target, IInv, MainShape, Hopeless
  <2>3. Blamed(OpenError(Main), cur[Main])
    BY <1>1, <2>1, <2>2, OpenErrorIsBlamed DEF TInv
  <2>4. \/ Rmdir(cur[Main], OpenError(Main))
        \/ failed' = failed \cup {<<OpenError(Main), cur[Main]>>}
    BY <1>3 DEF RootRefused, Fail
  <2>5. CASE Rmdir(cur[Main], OpenError(Main))
    BY <2>3, <2>5, RmdirAdds
  <2> QED
    BY <2>3, <2>4, <2>5 DEF Adds
<1>4. CASE NextOperand \/ Opening(Main) \/ SeedRoot \/ Wait
  <2>1. failed' = failed
    <3>1. CASE Opening(Main)
      BY <3>1 DEF Opening, Reserve, OpenPiece, OpenSucceeds, OpenFails, OpenRefused, Refused,
                  Unwind
    <3>2. CASE NextOperand \/ SeedRoot \/ Wait
      BY <3>2 DEF NextOperand, SeedRoot, Wait
    <3> QED
      BY <1>4, <3>1, <3>2
  <2> QED
    BY <2>1 DEF Adds
<1> QED
  BY <1>2, <1>3, <1>4 DEF MainStep

\* The counter of a directory that a worker removes is left to it.
LEMMA CountersRest ==
    ASSUME IInv, LInv, NEW s \in Slot, WorkerStep(s), NEW t \in Slot, t # s,
           Phase(t) = "removing"
    PROVE  remaining'[cur[t]] = remaining[cur[t]]
<1>1. cur[t] \in Dir /\ node[cur[t]] = "live" /\ remaining \in [Dir -> Int]
  BY AtWork DEF IInv, Types
<1>2. CASE Count(s)
  <2>1. Phase(s) = "meeting" /\ goal[s] = "child"
    BY <1>2 DEF Count, Phase, Opens, IInv, WorkerShape
  <2>2. entry[s] \in Dir /\ node[entry[s]] = "none"
    BY <2>1, Fields DEF IInv, Sound, AheadIsNew, Typed
  <2>3. cur[s] # cur[t] /\ cur[s] \in Dir
    BY <2>1, RemoversAreAlone, AtWork
  <2>4. remaining' = [remaining EXCEPT ![entry[s]] = 1, ![cur[s]] = @ + 1]
    BY <1>2 DEF Count
  <2> QED
    BY <1>1, <2>2, <2>3, <2>4
<1>3. CASE Unref(s)
  <2>1. Phase(s) = "unref"
    BY <1>3 DEF Unref, Phase
  <2>2. cur[s] # cur[t]
    BY <2>1, RemoversAreAlone
  <2>3. remaining' = [remaining EXCEPT ![cur[s]] = @ - 1]
    BY <1>3 DEF Unref
  <2> QED
    BY <1>1, <2>2, <2>3
<1>4. CASE Opening(s)
  BY <1>4 DEF Opening, Reserve, OpenPiece, OpenSucceeds, OpenFails, OpenRefused, Refused,
              Unwind, nodes
<1>5. CASE Acquire(s) \/ Park(s) \/ Abandon(s) \/ UnlinkFile(s) \/ SkipGone(s) \/ StatFails(s)
           \/ ReadFails(s) \/ MeetChild(s) \/ ChildRefused(s)
  BY <1>5 DEF Acquire, Park, Abandon, UnlinkFile, SkipGone, StatFails, ReadFails, MeetChild,
              ChildRefused, nodes
<1>6. CASE \/ Publish(s) \/ CloseScanned(s) \/ RemoveEmpty(s) \/ RemoveEmptyFails(s)
           \/ Delete(s) \/ Finish(s)
  BY <1>6 DEF Publish, CloseScanned, RemoveEmpty, RemoveEmptyFails, Delete, Finish, nodes
<1> QED
  BY <1>2, <1>3, <1>4, <1>5, <1>6 DEF WorkerStep

\* A worker comes to remove a directory when its last reference has gone, or
\* when it could not open it.
LEMMA RemovalStarts ==
    ASSUME IInv, LInv, TInv, GiveupIsDenied, NEW s \in Slot, WorkerStep(s),
           Phase(s)' = "removing", remaining'[cur'[s]] # 0
    PROVE  /\ cur'[s] = cur[s]
           /\ \/ Phase(s) = "removing" /\ remaining'[cur[s]] = remaining[cur[s]]
              \/ Blocked(cur[s]) \/ ~Exists(cur[s])
<1>1. /\ pc = [b \in Actor |-> pc[b]] /\ goal = [b \in Actor |-> goal[b]] /\ WorkerShape(s)
      /\ cur = [b \in Actor |-> cur[b]] /\ remaining \in [Dir -> Int] /\ s \in Actor
      /\ goal[s] \in {"none", "task", "child", "remove"}
  BY SlotsAreActors DEF IInv, Types, WorkerShape
<1>2. CASE Opening(s)
  <2>1. cur' = cur /\ goal' = goal /\ remaining' = remaining
    BY <1>2 DEF Opening, Reserve, OpenPiece, OpenSucceeds, OpenFails, OpenRefused, Refused,
                Unwind, nodes
  <2>2. CASE goal[s] = "remove"
    <3>1. pc[s] \in Opens \cup {"scan", "rmdir", "delete"}
      BY <1>2 DEF Opening, Reserve, OpenPiece, OpenSucceeds, OpenFails, OpenRefused, Refused,
                  Unwind, Opens
    <3>2. Phase(s) = "removing"
      BY <2>2, <3>1 DEF Phase, Opens
    <3> QED
      BY <2>1, <3>2
  <2>3. CASE goal[s] # "remove"
    <3>1. pc'[s] \in {"rmdir", "delete"}
      BY <2>1, <2>3 DEF Phase
    <3>2. CASE OpenSucceeds(s)
      BY <1>1, <2>3, <3>1, <3>2, TargetIsDir DEF OpenSucceeds, AfterOpen, Goto, TInv, Opens
    <3>3. CASE Unwind(s)
      <4>1. pc'[s] = pc[s]
        BY <3>3 DEF Unwind
      <4> QED
        BY <2>1, <3>1, <4>1 DEF Phase
    <3>4. CASE Reserve(s) \/ OpenPiece(s) \/ OpenFails(s) \/ OpenRefused(s) \/ Refused(s)
      BY <1>1, <3>1, <3>4 DEF Reserve, OpenPiece, OpenFails, OpenRefused, Refused, Goto
    <3> QED
      BY <1>2, <3>2, <3>3, <3>4 DEF Opening
  <2> QED
    BY <2>2, <2>3
<1>3. CASE Acquire(s)
  <2>1. PICK d : Start(s, d)
    BY <1>3, AcquireTakes
  <2>2. goal'[s] = "task" /\ pc'[s] \in {"scan", "reserve"}
    BY <1>1, <2>1 DEF Start, Goto
  <2> QED
    BY <2>2 DEF Phase
<1>4. CASE Abandon(s)
  <2>1. Hopeless(s) /\ Target(s) = cur[s] /\ cur' = cur
    BY <1>4 DEF Abandon, Target
  <2>2. Target(s) \in Dir
    BY <1>1, <2>1, TargetIsDir DEF TInv, Hopeless, Opens
  <2> QED
    BY <1>1, <2>1, <2>2, OpenErrorIsBlamed DEF TInv
<1>5. CASE Unref(s)
  <2>1. cur' = cur /\ remaining' = [remaining EXCEPT ![cur[s]] = @ - 1] /\ pc[s] = "unref"
    BY <1>5 DEF Unref
  <2>2. Phase(s) = "unref"
    BY <2>1 DEF Phase
  <2>3. cur[s] \in Dir
    BY <2>2, AtWork
  <2>4. remaining[cur[s]] # 1
    BY <1>1, <2>1, <2>3
  <2>5. pc'[s] = "finish"
    BY <1>1, <1>5, <2>4 DEF Unref, Goto
  <2> QED
    BY <2>5 DEF Phase
<1>6. CASE RemoveEmpty(s) \/ RemoveEmptyFails(s)
  <2>1. Phase(s) = "removing"
    BY <1>6 DEF RemoveEmpty, RemoveEmptyFails, Hopeless, Phase
  <2>2. cur' = cur /\ remaining' = remaining
    BY <1>6 DEF RemoveEmpty, RemoveEmptyFails, nodes
  <2> QED
    BY <2>1, <2>2
<1>7. CASE UnlinkFile(s) \/ SkipGone(s) \/ StatFails(s)
  <2>1. pc' = pc /\ goal' = goal /\ pc[s] = "scan" /\ goal[s] = "task"
    BY <1>1, <1>7 DEF UnlinkFile, SkipGone, StatFails, Reading, WorkerShape
  <2> QED
    BY <2>1 DEF Phase
<1>8. CASE ReadFails(s) \/ MeetChild(s) \/ Count(s)
  <2>1. goal'[s] \in {"task", "child"} /\ pc'[s] \in {"close", "count", "reserve", "publish"}
    BY <1>1, <1>8 DEF ReadFails, MeetChild, Count, Reading, WorkerShape, Goto
  <2> QED
    BY <2>1 DEF Phase
<1>9. CASE ChildRefused(s) \/ Publish(s)
  <2>1. goal'[s] = "task" /\ pc'[s] = "scan"
    BY <1>1, <1>9 DEF ChildRefused, Publish, LeaveEntry, Goto
  <2> QED
    BY <2>1 DEF Phase
<1>10. CASE Park(s) \/ CloseScanned(s) \/ Delete(s) \/ Finish(s)
  <2>1. pc'[s] \in {"idle", "finish", "unref"}
    BY <1>1, <1>10 DEF Park, CloseScanned, Delete, Finish, Goto
  <2> QED
    BY <2>1 DEF Phase
<1> QED
  BY <1>2, <1>3, <1>4, <1>5, <1>6, <1>7, <1>8, <1>9, <1>10 DEF WorkerStep

\* A worker's step leaves a cause for every directory that is removed unlisted.
LEMMA WorkerUnopened ==
    ASSUME IInv, LInv, TInv, UnopenedIsBlamed, GiveupIsDenied, NEW s \in Slot, WorkerStep(s),
           fault' = fault, fs' \subseteq fs
    PROVE  UnopenedIsBlamed'
<1>1. SUFFICES ASSUME NEW t \in Slot, Phase(t)' = "removing", remaining'[cur'[t]] # 0
               PROVE  Blocked(cur'[t]) \/ ~Exists(cur'[t])
  BY DEF UnopenedIsBlamed, Blocked, Exists
<1>2. CASE t = s
  BY <1>1, <1>2, RemovalStarts DEF UnopenedIsBlamed
<1>3. CASE t # s
  <2>1. Alone(s) /\ t \in Actor
    BY WorkersActAlone, SlotsAreActors DEF LInv
  <2>2. Phase(t) = "removing" /\ cur'[t] = cur[t]
    BY <1>1, <1>3, <2>1 DEF Alone, Phase
  <2>3. remaining[cur[t]] # 0
    BY <1>1, <1>3, <2>2, CountersRest
  <2> QED
    BY <2>2, <2>3 DEF UnopenedIsBlamed
<1> QED
  BY <1>2, <1>3

\* So does a step of RunRm, which removes nothing it has a node for.
LEMMA MainUnopened ==
    ASSUME IInv, LInv, UnopenedIsBlamed, MainStep, fault' = fault, fs' \subseteq fs
    PROVE  UnopenedIsBlamed'
<1>1. SUFFICES ASSUME NEW t \in Slot, Phase(t)' = "removing", remaining'[cur'[t]] # 0
               PROVE  Blocked(cur'[t]) \/ ~Exists(cur'[t])
  BY DEF UnopenedIsBlamed, Blocked, Exists
<1>2. Alone(Main) /\ t \in Actor /\ t # Main
  BY MainActsAlone, SlotsAreActors DEF LInv
<1>3. Phase(t) = "removing" /\ cur'[t] = cur[t]
  BY <1>1, <1>2 DEF Alone, Phase
<1>4. cur[t] \in Dir /\ node[cur[t]] = "live"
  BY <1>3, AtWork
<1>5. remaining'[cur[t]] = remaining[cur[t]]
  <2>1. CASE SeedRoot
    <3>1. cur[Main] \in Unseeded
      BY <2>1, TreeAssumption, LenProperties DEF SeedRoot, IInv, MainShape, Types, Unseeded
    <3>2. node[cur[Main]] = "none"
      BY <3>1, Fields DEF IInv, Sound, UnseededIsNew
    <3>3. remaining' = [remaining EXCEPT ![cur[Main]] = 1]
      BY <2>1 DEF SeedRoot
    <3> QED
      BY <1>4, <3>2, <3>3 DEF IInv, Types
  <2>2. CASE NextOperand \/ OperandGone \/ RootRefused \/ Wait
    BY <2>2 DEF NextOperand, OperandGone, RootRefused, Wait, nodes
  <2>3. CASE Opening(Main)
    BY <2>3 DEF Opening, Reserve, OpenPiece, OpenSucceeds, OpenFails, OpenRefused, Refused,
                Unwind, nodes
  <2> QED
    BY <2>1, <2>2, <2>3 DEF MainStep
<1> QED
  BY <1>1, <1>3, <1>5 DEF UnopenedIsBlamed

\* The refusal and -f are settled at the start; the system's table fills up at most
\* MaxFills times.
LEMMA SystemIsGiven ==
    ASSUME IInv, LInv, [Next]_vars
    PROVE  /\ UNCHANGED given
           /\ fills' = fills \/ (fills < MaxFills /\ fills' = fills + 1)
           /\ lost' = lost \/ \E x \in Object : lost' = lost \cup {Real[x]}
<1>1. ASSUME NEW a \in Actor, Acts(a)
      PROVE  UNCHANGED table
  <2>1. CASE Opening(a)
    BY <2>1 DEF Opening, Reserve, OpenPiece, OpenSucceeds, OpenFails, OpenRefused, Refused,
                Unwind
  <2> QED
    BY <1>1, <2>1, RestRefusesNothing
<1>2. CASE (\E s \in Slot : WorkerStep(s)) \/ MainStep
  BY <1>1, <1>2, SlotsAreActors DEF Acts, table
<1>3. CASE FillTable
  BY <1>3 DEF FillTable
<1>4. CASE ClearTable \/ OthersRemove \/ UNCHANGED vars
  BY <1>4 DEF ClearTable, OthersRemove, vars, table
<1> QED
  BY <1>2, <1>3, <1>4 DEF Next

\* A system's table that has never been full never was before.
LEMMA RefusalStays ==
    ASSUME IInv, LInv, PInv, [Next]_vars
    PROVE  fault' = fault /\ (fills' = 0 => fills = 0)
BY SystemIsGiven DEF PInv, given

\* As long as descriptors suffice every step that fails has a cause.
LEMMA BlameStays ==
    ASSUME IInv, LInv, TInv, PInv, BInv, Excuse, fills = 0, [Next]_vars
    PROVE  BInv'
<1>1. NoHurry /\ GiveupIsDenied /\ fault' = fault
  BY ExcuseHolds, RefusalStays
<1>2. ASSUME NEW s \in Slot, WorkerStep(s)
      PROVE  BInv'
  <2>1. fs' \subseteq fs
    BY <1>2, WorkerEffect, ShrinkingHolds DEF TInv
  <2> QED
    BY <1>1, <1>2, <2>1, WorkerAdds, BlamedStays, WorkerUnopened DEF BInv
<1>3. CASE MainStep
  <2>1. fs' \subseteq fs
    BY <1>3, MainEffect, ShrinkingHolds DEF TInv
  <2> QED
    BY <1>1, <1>3, <2>1, MainAdds, BlamedStays, MainUnopened DEF BInv
<1>4. CASE FillTable \/ ClearTable \/ OthersRemove \/ UNCHANGED vars
  <2>1. /\ UNCHANGED <<failed, fault, remaining, cur, pc, goal>>
        /\ fs' \subseteq fs
    BY <1>4 DEF FillTable, ClearTable, OthersRemove, vars, nodes, given, table
  <2>2. FailuresAreBlamed'
    BY <2>1, BlamedStays DEF BInv, Adds
  <2>3. UnopenedIsBlamed'
    BY <2>1 DEF BInv, UnopenedIsBlamed, Phase, Blocked, Exists
  <2> QED
    BY <2>2, <2>3 DEF BInv
<1> QED
  BY <1>2, <1>3, <1>4 DEF Next

\* While the system's table has never filled, and descriptors suffice for what the
\* behaviour may come to, every failure has its cause.
LEMMA EverythingIsBlamed ==
    ASSUME MaxFds > 0
    PROVE  Spec => [](IInv /\ LInv /\ TInv /\ PInv /\ (fills = 0 /\ Excuse => BInv))
<1>1. Init => IInv /\ LInv /\ TInv /\ PInv /\ (fills = 0 /\ Excuse => BInv)
  <2>1. Init => PInv
    BY PatienceAlways
  <2>2. Init => BInv
    BY SlotsAreActors DEF Init, BInv, FailuresAreBlamed, UnopenedIsBlamed, Phase
  <2> QED
    BY <2>1, <2>2, InitStep, CountsAtStart, TruthAtStart
<1>2. IInv /\ LInv /\ TInv /\ PInv /\ (fills = 0 /\ Excuse => BInv) /\ [Next]_vars
         => (IInv /\ LInv /\ TInv /\ PInv /\ (fills = 0 /\ Excuse => BInv))'
  <2> SUFFICES ASSUME IInv, LInv, TInv, PInv, fills = 0 /\ Excuse => BInv, [Next]_vars
               PROVE  (IInv /\ LInv /\ TInv /\ PInv /\ (fills = 0 /\ Excuse => BInv))'
    OBVIOUS
  <2>1. IInv' /\ LInv' /\ TInv' /\ PInv'
    BY EveryStep, CountsEveryStep, TruthEveryStep, PatienceAlways
  <2>2. fills' = 0 /\ Excuse' => fills = 0 /\ Excuse
    BY RefusalStays DEF Excuse, Roomy
  <2>3. fills' = 0 /\ Excuse' => BInv'
    BY <2>2, BlameStays
  <2> QED
    BY <2>1, <2>3
<1> QED
  BY <1>1, <1>2, PTL DEF Spec

----------------------------------------------------------------------------
(* Types and bounds                                                        *)

\* The errors a failure can have.
Errors == {"open", "read", "unlink", "stat", "rmdir", "not empty", "gone"}

\* The children of d that have, or had, a node.
Made(d) == {c \in Dir : Parent[c] = d /\ node[c] # "none"}

\* A counter is at most one more than those children.
CountersAreBounded ==
    \A d \in Dir : remaining[d] >= 0 /\ remaining[d] <= Cardinality(Made(d)) + 1

\* A lease that a reservation has seen is a descriptor or another's reservation.
SeenAreBounded ==
    /\ before \in [Actor -> 0 .. MaxFds + Cardinality(Slot)]
    /\ ceiling \in 0 .. MaxFds + Cardinality(Slot)

\* What has no bound but its type; RunRm is at most past the last operand.
FlagsAreTyped ==
    /\ sysfull \in BOOLEAN
    /\ moved \in [Actor -> BOOLEAN]
    /\ operand <= Len(Operands) + 1

UInv ==
    /\ fs \subseteq Things(Object) /\ lost \subseteq Things(Object)
    /\ fault \in Refusals /\ force \in BOOLEAN /\ fills \in 0 .. MaxFills
    /\ failed \subseteq Errors \X Object
    /\ CountersAreBounded /\ Descriptors <= MaxFds /\ SeenAreBounded
    /\ FlagsAreTyped

\* A failure has one of these errors.
Names == failed' = failed \/ \E error \in Errors : \E x : failed' = failed \cup {<<error, x>>}

\* A refused removal names its error.
LEMMA RmdirNames ==
    ASSUME NEW d, NEW error \in Errors, Rmdir(d, error)
    PROVE  Names
BY DEF Rmdir, Fail, Names

\* Every step does.
LEMMA FailuresAreNamed ==
    ASSUME IInv, [Next]_vars
    PROVE  Names
<1>1. \A a, d : OpenError(a) \in Errors /\ RmdirError(d) \in Errors
  BY DEF OpenError, RmdirError, Errors
<1>2. ASSUME NEW a \in Actor, Opening(a)
      PROVE  Names
  BY <1>2 DEF Opening, Reserve, OpenPiece, OpenSucceeds, OpenFails, OpenRefused, Refused,
              Unwind, Names
<1>3. ASSUME NEW s \in Slot, WorkerStep(s)
      PROVE  Names
  <2>1. CASE Opening(s)
    BY <1>2, <2>1, SlotsAreActors
  <2>2. CASE Abandon(s)
    BY <1>1, <2>2 DEF Abandon, Fail, Names
  <2>3. CASE UnlinkFile(s)
    BY <2>3 DEF UnlinkFile, Fail, Names, Errors
  <2>4. CASE StatFails(s) \/ ReadFails(s)
    BY <2>4 DEF StatFails, ReadFails, Fail, Names, Errors
  <2>5. CASE ChildRefused(s)
    <3>1. \/ Rmdir(entry[s], OpenError(s))
          \/ failed' = failed \cup {<<OpenError(s), entry[s]>>}
      BY <2>5 DEF ChildRefused, Fail
    <3> QED
      BY <1>1, <3>1, RmdirNames DEF Names
  <2>6. CASE RemoveEmpty(s)
    BY <1>1, <2>6, RmdirNames DEF RemoveEmpty
  <2>7. CASE RemoveEmptyFails(s)
    BY <2>7 DEF RemoveEmptyFails, Fail, Names, Errors
  <2>8. CASE Acquire(s) \/ Park(s) \/ SkipGone(s) \/ MeetChild(s) \/ Count(s)
    BY <2>8 DEF Acquire, Park, SkipGone, MeetChild, Count, Names
  <2>9. CASE Publish(s) \/ CloseScanned(s) \/ Unref(s) \/ Delete(s) \/ Finish(s)
    BY <2>9 DEF Publish, CloseScanned, Unref, Delete, Finish, Names
  <2> QED
    BY <1>3, <2>1, <2>2, <2>3, <2>4, <2>5, <2>6, <2>7, <2>8, <2>9 DEF WorkerStep
<1>4. CASE MainStep
  <2>1. CASE Opening(Main)
    BY <1>2, <2>1, SlotsAreActors
  <2>2. CASE RootRefused
    <3>1. \/ Rmdir(cur[Main], OpenError(Main))
          \/ failed' = failed \cup {<<OpenError(Main), cur[Main]>>}
      BY <2>2 DEF RootRefused, Fail
    <3> QED
      BY <1>1, <3>1, RmdirNames DEF Names
  <2>3. CASE OperandGone
    BY <2>3 DEF OperandGone, Fail, Names, Errors
  <2>4. CASE NextOperand \/ SeedRoot \/ Wait
    BY <2>4 DEF NextOperand, SeedRoot, Wait, Names
  <2> QED
    BY <1>4, <2>1, <2>2, <2>3, <2>4 DEF MainStep
<1>5. CASE FillTable \/ ClearTable \/ OthersRemove \/ UNCHANGED vars
  BY <1>5 DEF FillTable, ClearTable, OthersRemove, vars, Names
<1> QED
  BY <1>3, <1>4, <1>5 DEF Next

\* What a directory's counter becomes.
LEMMA CountersStay ==
    ASSUME IInv, LInv, CountersAreBounded, [Next]_vars
    PROVE  CountersAreBounded'
<1>1. /\ remaining \in [Dir -> Int] /\ node \in [Dir -> {"none", "live", "deleted"}]
      /\ \A d \in Dir : IsFiniteSet(Made(d)) /\ Cardinality(Made(d)) \in Nat
      /\ \A d \in Dir : IsFiniteSet(Made(d)') /\ Cardinality(Made(d)') \in Nat
  BY CountedIsFinite DEF IInv, Types, Made
<1>2. \A d \in Dir : node[d] # "none" => node'[d] # "none"
  <2>1. CASE Next
    BY <2>1, NodesStayMade
  <2> QED
    BY <2>1 DEF vars, nodes
<1>3. \A d \in Dir : Cardinality(Made(d)) <= Cardinality(Made(d)')
  BY <1>1, <1>2, FS_Subset DEF Made
<1>4. CASE remaining' = remaining
  BY <1>1, <1>3, <1>4 DEF CountersAreBounded
<1>5. ASSUME NEW s \in Slot, Count(s)
      PROVE  CountersAreBounded'
  <2>1. Phase(s) = "meeting"
    BY <1>5 DEF Count, Phase, Opens, IInv, WorkerShape
  <2>2. /\ entry[s] \in Dir /\ node[entry[s]] = "none" /\ Parent[entry[s]] = cur[s]
        /\ cur[s] \in Dir /\ node[cur[s]] = "live"
    BY <2>1, AtWork, Fields DEF IInv, Sound, AheadIsNew, Typed
  <2>3. /\ node' = [node EXCEPT ![entry[s]] = "live"]
        /\ remaining' = [remaining EXCEPT ![entry[s]] = 1, ![cur[s]] = @ + 1]
    BY <1>5 DEF Count
  <2>4. PICK p \in Dir, e \in Dir : p = cur[s] /\ e = entry[s]
    BY <2>2
  <2>5. Made(p)' = Made(p) \cup {e} /\ e \notin Made(p)
    BY <1>1, <2>2, <2>3, <2>4 DEF Made
  <2>6. Cardinality(Made(p)') = Cardinality(Made(p)) + 1
    BY <1>1, <2>5, OneMore
  <2> SUFFICES ASSUME NEW d \in Dir
               PROVE  remaining'[d] >= 0 /\ remaining'[d] <= Cardinality(Made(d)') + 1
    BY DEF CountersAreBounded
  <2>7. p # e
    BY <2>2, <2>4
  <2>8. \/ remaining'[d] = 1 \/ remaining'[d] = remaining[d]
        \/ d = p /\ remaining'[d] = remaining[d] + 1
    BY <1>1, <2>2, <2>3, <2>4, <2>7
  <2>9. remaining[d] \in Int /\ remaining[d] >= 0 /\ remaining[d] <= Cardinality(Made(d)) + 1
    BY <1>1 DEF CountersAreBounded
  <2> QED
    BY <1>1, <1>3, <2>6, <2>8, <2>9
<1>6. ASSUME NEW s \in Slot, Unref(s)
      PROVE  CountersAreBounded'
  <2>1. Phase(s) = "unref"
    BY <1>6 DEF Unref, Phase
  <2>2. cur[s] \in Dir /\ node[cur[s]] = "live"
    BY <2>1, AtWork
  <2>3. ~Removed(View, cur[s])
    <3>1. \A t \in Slot : ~(Phase(t) = "removing" /\ cur[t] = cur[s])
      BY <2>1, RemoversAreAlone
    <3> QED
      BY <3>1, Fields DEF Removed
  <2>4. remaining[cur[s]] >= 1
    BY <2>2, <2>3 DEF LInv, NodesAreReferenced
  <2>5. remaining' = [remaining EXCEPT ![cur[s]] = @ - 1]
    BY <1>6 DEF Unref
  <2> SUFFICES ASSUME NEW d \in Dir
               PROVE  remaining'[d] >= 0 /\ remaining'[d] <= Cardinality(Made(d)') + 1
    BY DEF CountersAreBounded
  <2>6. remaining'[d] = IF d = cur[s] THEN remaining[d] - 1 ELSE remaining[d]
    BY <1>1, <2>2, <2>5
  <2>7. remaining[d] \in Int /\ remaining[d] >= 0 /\ remaining[d] <= Cardinality(Made(d)) + 1
    BY <1>1 DEF CountersAreBounded
  <2> QED
    BY <1>1, <1>3, <2>4, <2>6, <2>7
<1>7. CASE SeedRoot
  <2>1. remaining' = [remaining EXCEPT ![cur[Main]] = 1]
    BY <1>7 DEF SeedRoot
  <2> SUFFICES ASSUME NEW d \in Dir
               PROVE  remaining'[d] >= 0 /\ remaining'[d] <= Cardinality(Made(d)') + 1
    BY DEF CountersAreBounded
  <2>2. remaining'[d] = 1 \/ remaining'[d] = remaining[d]
    BY <1>1, <2>1
  <2> QED
    BY <1>1, <1>3, <2>2 DEF CountersAreBounded
<1>8. ASSUME NEW a \in Actor, Opening(a)
      PROVE  remaining' = remaining
  BY <1>8 DEF Opening, Reserve, OpenPiece, OpenSucceeds, OpenFails, OpenRefused, Refused,
              Unwind, nodes
<1>9. ASSUME NEW s \in Slot, WorkerStep(s)
      PROVE  CountersAreBounded'
  <2>1. CASE \/ Acquire(s) \/ Park(s) \/ Abandon(s) \/ UnlinkFile(s) \/ SkipGone(s)
             \/ StatFails(s) \/ ReadFails(s) \/ MeetChild(s) \/ ChildRefused(s)
    BY <1>4, <2>1 DEF Acquire, Park, Abandon, UnlinkFile, SkipGone, StatFails, ReadFails,
                      MeetChild, ChildRefused, nodes
  <2>2. CASE \/ Publish(s) \/ CloseScanned(s) \/ RemoveEmpty(s) \/ RemoveEmptyFails(s)
             \/ Delete(s) \/ Finish(s)
    BY <1>4, <2>2 DEF Publish, CloseScanned, RemoveEmpty, RemoveEmptyFails, Delete, Finish,
                      nodes
  <2> QED
    BY <1>4, <1>5, <1>6, <1>8, <1>9, <2>1, <2>2, SlotsAreActors DEF WorkerStep
<1>10. CASE MainStep
  <2>1. CASE NextOperand \/ OperandGone \/ RootRefused \/ Wait
    BY <1>4, <2>1 DEF NextOperand, OperandGone, RootRefused, Wait, nodes
  <2> QED
    BY <1>4, <1>7, <1>8, <1>10, <2>1, SlotsAreActors DEF MainStep
<1>11. CASE FillTable \/ ClearTable \/ OthersRemove \/ UNCHANGED vars
  BY <1>4, <1>11 DEF FillTable, ClearTable, OthersRemove, vars, nodes
<1> QED
  BY <1>9, <1>10, <1>11 DEF Next

\* A worker opens and closes its directory at the two ends of the scan only.
LEMMA WorkerKeepsOpen ==
    ASSUME IInv, LInv, NEW s \in Slot, WorkerStep(s), ~Opening(s), ~CloseScanned(s)
    PROVE  UNCHANGED <<fd, extra>>
<1>1. extra' = extra
  BY WorkerExtra, SlotsAreActors DEF LInv
<1>2. CASE \/ Acquire(s) \/ Park(s) \/ Abandon(s) \/ UnlinkFile(s) \/ SkipGone(s)
           \/ StatFails(s) \/ ReadFails(s) \/ MeetChild(s) \/ ChildRefused(s)
  BY <1>1, <1>2 DEF Acquire, Park, Abandon, UnlinkFile, SkipGone, StatFails, ReadFails,
                    MeetChild, ChildRefused, nodes
<1>3. CASE \/ Publish(s) \/ RemoveEmpty(s) \/ RemoveEmptyFails(s) \/ Delete(s) \/ Finish(s)
           \/ Count(s) \/ Unref(s)
  BY <1>1, <1>3 DEF Publish, RemoveEmpty, RemoveEmptyFails, Delete, Finish, Count, Unref,
                    nodes
<1> QED
  BY <1>2, <1>3 DEF WorkerStep

\* An open finds room for what it opens; nothing else opens anything.
LEMMA DescriptorsStay ==
    ASSUME IInv, LInv, Descriptors <= MaxFds, [Next]_vars
    PROVE  Descriptors' <= MaxFds
<1>1. /\ Descriptors = Cardinality(OpenDirs) + Cardinality(Extras)
      /\ Descriptors' = Cardinality(OpenDirs') + Cardinality(Extras')
  BY DEF Descriptors, OpenDirs
<1>2. /\ IsFiniteSet(OpenDirs) /\ Cardinality(OpenDirs) \in Nat
      /\ IsFiniteSet(Extras) /\ Cardinality(Extras) \in Nat
      /\ Cardinality(OpenDirs') \in Nat /\ Cardinality(Extras') \in Nat
  <2>1. OpenDirs' \in SUBSET Dir /\ Extras' \in SUBSET (Actor \X {1, 2})
    BY DEF OpenDirs, Extras
  <2> QED
    BY <2>1, CountsAreNatural, CountedIsFinite
<1>3. CountTypes /\ \A a \in Actor : ExtraShape(a)
  BY DEF LInv
<1>4. CASE fd' = fd /\ extra' = extra
  BY <1>1, <1>4 DEF OpenDirs, Extras
<1>5. ASSUME OpenDirs' \subseteq OpenDirs, Extras' \subseteq Extras
      PROVE  Descriptors' <= MaxFds
  <2>1. /\ Cardinality(OpenDirs') <= Cardinality(OpenDirs)
        /\ Cardinality(Extras') <= Cardinality(Extras)
    BY <1>2, <1>5, FS_Subset
  <2> QED
    BY <1>1, <1>2, <2>1, BoundAssumption
<1>6. ASSUME NEW a \in Actor, Opening(a)
      PROVE  Descriptors' <= MaxFds
  <2>1. CASE Reserve(a) \/ OpenFails(a) \/ OpenRefused(a) \/ Refused(a)
    BY <1>4, <2>1 DEF Reserve, OpenFails, OpenRefused, Refused, nodes
  <2>2. CASE Unwind(a)
    <3>1. fd' = fd /\ extra' = [extra EXCEPT ![a] = @ - 1]
      BY <2>2 DEF Unwind, nodes
    <3>2. \A b \in Actor : extra'[b] \in Int /\ extra[b] \in Int /\ extra'[b] <= extra[b]
      BY <1>3, <3>1 DEF CountTypes
    <3>3. Extras' \subseteq Extras
      BY <3>2 DEF Extras
    <3> QED
      BY <1>5, <3>1, <3>3 DEF OpenDirs
  <2>3. ASSUME HasRoom
        PROVE  Cardinality(OpenDirs) + Cardinality(Extras) + 1 <= MaxFds
    BY <1>1, <1>2, <2>3, BoundAssumption DEF HasRoom
  <2>4. ASSUME HasRoom, fd' = fd, extra[a] <= 1, extra' = [extra EXCEPT ![a] = @ + 1]
        PROVE  Descriptors' <= MaxFds
    <3>1. Cardinality(Extras') = Cardinality(Extras) + 1
      BY <1>3, <2>4, ExtraMore
    <3> QED
      BY <1>1, <1>2, <2>3, <2>4, <3>1 DEF OpenDirs
  <2>5. CASE OpenPiece(a)
    <3>1. HasRoom /\ fd' = fd /\ extra[a] = 0 /\ extra' = [extra EXCEPT ![a] = 1]
      BY <2>5 DEF OpenPiece, NeedsPiece, nodes
    <3>2. extra' = [extra EXCEPT ![a] = @ + 1]
      BY <1>3, <3>1 DEF CountTypes
    <3> QED
      BY <2>4, <3>1, <3>2
  <2>6. CASE OpenSucceeds(a) /\ goal[a] = "remove"
    <3>1. /\ HasRoom /\ fd' = fd /\ extra' = [extra EXCEPT ![a] = @ + 1] /\ pc[a] = "call"
      BY <2>6 DEF OpenSucceeds
    <3> QED
      BY <1>3, <2>4, <3>1 DEF ExtraShape
  <2>7. CASE OpenSucceeds(a) /\ goal[a] # "remove"
    <3>1. HasRoom /\ extra' = extra /\ fd' = [fd EXCEPT ![Target(a)] = TRUE]
      BY <2>7 DEF OpenSucceeds
    <3>2. OpenDirs' \subseteq OpenDirs \cup {Target(a)}
      BY <1>3, <3>1 DEF OpenDirs, CountTypes
    <3>3. /\ IsFiniteSet(OpenDirs \cup {Target(a)})
          /\ Cardinality(OpenDirs \cup {Target(a)}) <= Cardinality(OpenDirs) + 1
      BY <1>2, FS_AddElement
    <3>4. Cardinality(OpenDirs') <= Cardinality(OpenDirs \cup {Target(a)})
      BY <3>2, <3>3, FS_Subset
    <3>5. Extras' = Extras /\ Cardinality(OpenDirs \cup {Target(a)}) \in Nat
      BY <3>1, <3>3, FS_CardinalityType DEF Extras
    <3>6. Cardinality(OpenDirs) + Cardinality(Extras) + 1 <= MaxFds
      BY <2>3, <3>1
    <3>7. Cardinality(OpenDirs') <= Cardinality(OpenDirs) + 1
      BY <1>2, <3>3, <3>4, <3>5
    <3>8. Cardinality(OpenDirs') + Cardinality(Extras') <= MaxFds
      BY <1>2, <3>5, <3>6, <3>7, BoundAssumption
    <3> QED
      BY <1>1, <3>8
  <2> QED
    BY <1>6, <2>1, <2>2, <2>5, <2>6, <2>7 DEF Opening
<1>7. ASSUME NEW a \in Actor, Acts(a), ~Opening(a)
      PROVE  Descriptors' <= MaxFds
  <2>1. CASE UNCHANGED <<fd, extra>>
    BY <1>4, <2>1
  <2>2. CASE a \in Slot /\ CloseScanned(a)
    <3>1. extra' = extra /\ fd' = [fd EXCEPT ![cur[a]] = FALSE]
      BY <2>2 DEF CloseScanned
    <3> QED
      BY <1>3, <1>5, <3>1 DEF OpenDirs, Extras, CountTypes
  <2>3. CASE a \in Slot /\ ~CloseScanned(a) /\ WorkerStep(a)
    BY <1>7, <2>1, <2>3, WorkerKeepsOpen
  <2>4. CASE a = Main /\ MainStep
    BY <1>7, <2>1, <2>4, SlotsAreActors
       DEF MainStep, NextOperand, OperandGone, SeedRoot, RootRefused, Wait, nodes
  <2> QED
    BY <1>7, <2>2, <2>3, <2>4 DEF Acts
<1>8. CASE (\E s \in Slot : WorkerStep(s)) \/ MainStep
  BY <1>6, <1>7, <1>8, SlotsAreActors DEF Acts
<1>9. CASE FillTable \/ ClearTable \/ OthersRemove \/ UNCHANGED vars
  BY <1>4, <1>9 DEF FillTable, ClearTable, OthersRemove, vars, nodes
<1> QED
  BY <1>8, <1>9 DEF Next

\* The leases a reservation sees are other threads'.
LEMMA SeenStays ==
    ASSUME IInv, LInv, SeenAreBounded, Descriptors <= MaxFds, [Next]_vars
    PROVE  SeenAreBounded'
<1> DEFINE most == MaxFds + Cardinality(Slot)
<1>1. most \in Nat
  BY CountedIsFinite, BoundAssumption
<1>2. CASE before' = before /\ ceiling' = ceiling
  BY <1>2 DEF SeenAreBounded
<1>3. ASSUME NEW a \in Actor, EndReservation(a), ceiling' = ceiling
      PROVE  SeenAreBounded'
  BY <1>1, <1>3 DEF SeenAreBounded, EndReservation
<1>4. ASSUME NEW a \in Actor, Reserve(a)
      PROVE  SeenAreBounded'
  <2>1. before' = [before EXCEPT ![a] = live] /\ ceiling' = ceiling /\ pc[a] = "reserve"
    BY <1>4 DEF Reserve
  <2>2. live = Descriptors + Cardinality(Reserving)
    BY CountsAreNatural DEF LInv, LeasesAreCounted, Descriptors, OpenDirs
  <2>3. Reserving \subseteq Actor \ {a}
    BY <2>1 DEF Reserving, Reserved
  <2>4. /\ IsFiniteSet(Actor) /\ Cardinality(Actor) = Cardinality(Slot) + 1
        /\ Cardinality(Slot) \in Nat
    BY CountedIsFinite, ThreadAssumption, FS_AddElement DEF Actor
  <2>5. IsFiniteSet(Actor \ {a}) /\ Cardinality(Actor \ {a}) = Cardinality(Slot)
    BY <2>4, FS_RemoveElement
  <2>6. Cardinality(Reserving) <= Cardinality(Slot)
    BY <2>3, <2>5, FS_Subset
  <2>7. Descriptors \in Nat /\ Cardinality(Reserving) \in Nat
    BY CountsAreNatural DEF Descriptors, OpenDirs
  <2>8. live \in 0 .. most
    BY <2>2, <2>4, <2>6, <2>7, BoundAssumption
  <2> QED
    BY <2>1, <2>8 DEF SeenAreBounded
<1>5. ASSUME NEW a \in Actor, Refused(a)
      PROVE  SeenAreBounded'
  <2>1. EndReservation(a) /\ ceiling' \in {ceiling, before[a]}
    BY <1>5 DEF Refused
  <2>2. ceiling' \in 0 .. most
    BY <2>1 DEF SeenAreBounded
  <2>3. before' \in [Actor -> 0 .. most]
    BY <1>1, <2>1 DEF SeenAreBounded, EndReservation
  <2> QED
    BY <2>2, <2>3 DEF SeenAreBounded
<1>6. ASSUME NEW a \in Actor, Opening(a)
      PROVE  SeenAreBounded'
  <2>1. CASE OpenPiece(a) \/ OpenSucceeds(a) \/ OpenFails(a)
    BY <1>3, <2>1 DEF OpenPiece, OpenSucceeds, OpenFails
  <2>2. CASE OpenRefused(a) \/ Unwind(a)
    BY <1>2, <2>2 DEF OpenRefused, Unwind, CloseOne, pool
  <2> QED
    BY <1>4, <1>5, <1>6, <2>1, <2>2 DEF Opening
<1>7. ASSUME NEW s \in Slot, WorkerStep(s)
      PROVE  SeenAreBounded'
  <2>1. CASE \/ Acquire(s) \/ Park(s) \/ Abandon(s) \/ UnlinkFile(s) \/ SkipGone(s)
             \/ StatFails(s) \/ ReadFails(s) \/ MeetChild(s) \/ ChildRefused(s)
    BY <1>2, <2>1 DEF Acquire, Park, Abandon, UnlinkFile, SkipGone, StatFails, ReadFails,
                      MeetChild, ChildRefused, pool
  <2>2. CASE \/ Publish(s) \/ CloseScanned(s) \/ RemoveEmpty(s) \/ RemoveEmptyFails(s)
             \/ Delete(s) \/ Finish(s) \/ Count(s) \/ Unref(s)
    BY <1>2, <2>2 DEF Publish, CloseScanned, RemoveEmpty, RemoveEmptyFails, Delete, Finish,
                      Count, Unref, CloseOne, pool
  <2> QED
    BY <1>6, <1>7, <2>1, <2>2, SlotsAreActors DEF WorkerStep
<1>8. CASE MainStep
  <2>1. CASE NextOperand \/ OperandGone \/ SeedRoot \/ RootRefused \/ Wait
    BY <1>2, <2>1 DEF NextOperand, OperandGone, SeedRoot, RootRefused, Wait, pool
  <2> QED
    BY <1>6, <1>8, <2>1, SlotsAreActors DEF MainStep
<1>9. CASE FillTable \/ ClearTable \/ OthersRemove \/ UNCHANGED vars
  BY <1>2, <1>9 DEF FillTable, ClearTable, OthersRemove, vars, pool
<1> QED
  BY <1>7, <1>8, <1>9 DEF Next

\* A release tells every reservation, and its end or start forgets that.
LEMMA FlagsStay ==
    ASSUME IInv, FlagsAreTyped, [Next]_vars
    PROVE  FlagsAreTyped'
<1> DEFINE Kin == moved' = moved \/ moved' = [a \in Actor |-> Reserved(a)]
                  \/ \E a \in Actor : moved' = [moved EXCEPT ![a] = FALSE]
           Stays == operand' = operand \/ (operand <= Len(Operands) /\ operand' = operand + 1)
<1>1. ASSUME NEW a \in Actor, Opening(a)
      PROVE  Kin /\ UNCHANGED <<operand, sysfull>>
  BY <1>1 DEF Opening, Reserve, OpenPiece, OpenSucceeds, OpenFails, OpenRefused, Refused,
              Unwind, CloseOne, EndReservation, pool, table
<1>2. ASSUME NEW s \in Slot, WorkerStep(s)
      PROVE  Kin /\ UNCHANGED <<operand, sysfull>>
  <2>1. CASE \/ Acquire(s) \/ Park(s) \/ Abandon(s) \/ UnlinkFile(s) \/ SkipGone(s)
             \/ StatFails(s) \/ ReadFails(s) \/ MeetChild(s) \/ ChildRefused(s)
    BY <2>1 DEF Acquire, Park, Abandon, UnlinkFile, SkipGone, StatFails, ReadFails,
                MeetChild, ChildRefused, pool, table
  <2>2. CASE \/ Publish(s) \/ CloseScanned(s) \/ RemoveEmpty(s) \/ RemoveEmptyFails(s)
             \/ Delete(s) \/ Finish(s) \/ Count(s) \/ Unref(s)
    BY <2>2 DEF Publish, CloseScanned, RemoveEmpty, RemoveEmptyFails, Delete, Finish,
                Count, Unref, CloseOne, pool, table
  <2> QED
    BY <1>1, <1>2, <2>1, <2>2, SlotsAreActors DEF WorkerStep
<1>3. ASSUME MainStep
      PROVE  Kin /\ Stays /\ sysfull' = sysfull
  <2>1. CASE NextOperand \/ OperandGone \/ Wait
    BY <2>1 DEF NextOperand, OperandGone, Wait, pool, table
  <2>2. CASE SeedRoot \/ RootRefused
    <3>1. moved' = moved /\ operand' = operand + 1 /\ sysfull' = sysfull
      BY <2>2 DEF SeedRoot, RootRefused, Idle, pool, table
    <3>2. pc[Main] \notin {"next", "exited"}
      BY <2>2 DEF SeedRoot, RootRefused, Hopeless
    <3>3. operand <= Len(Operands)
      BY <3>2 DEF IInv, MainShape
    <3> QED
      BY <3>1, <3>3
  <2> QED
    BY <1>1, <1>3, <2>1, <2>2, SlotsAreActors DEF MainStep
<1>4. CASE FillTable \/ ClearTable \/ OthersRemove \/ UNCHANGED vars
  <2>1. UNCHANGED <<moved, operand>>
    BY <1>4 DEF FillTable, ClearTable, OthersRemove, vars, pool
  <2>2. sysfull' = sysfull \/ sysfull' = TRUE \/ sysfull' = FALSE
    BY <1>4 DEF FillTable, ClearTable, OthersRemove, vars, table
  <2>3. sysfull' \in BOOLEAN
    BY <2>2 DEF FlagsAreTyped
  <2> QED
    BY <2>1, <2>3 DEF FlagsAreTyped
<1>5. ASSUME Kin, Stays, sysfull' = sysfull
      PROVE  FlagsAreTyped'
  <2>1. \A a \in Actor : Reserved(a) \in BOOLEAN
    BY DEF Reserved
  <2>2. moved' \in [Actor -> BOOLEAN]
    BY <1>5, <2>1 DEF FlagsAreTyped
  <2>3. operand \in Nat /\ Len(Operands) \in Nat
    BY TreeAssumption DEF IInv, Types
  <2> QED
    BY <1>5, <2>2, <2>3 DEF FlagsAreTyped
<1> HIDE DEF Kin
<1> QED
  BY <1>2, <1>3, <1>4, <1>5 DEF Next

\* The bounds, at the start and after every step.
LEMMA BoundsHold ==
    /\ Init => UInv
    /\ IInv /\ LInv /\ TInv /\ UInv /\ [Next]_vars => UInv'
<1>1. ASSUME Init
      PROVE  UInv
  <2>1. Descriptors <= MaxFds
    <3>1. {d \in Dir : fd[d]} = {} /\ Extras = {}
      BY <1>1 DEF Init, Extras
    <3> QED
      BY <3>1, FS_EmptySet, BoundAssumption DEF Descriptors
  <2>2. CountersAreBounded
    <3>1. \A d \in Dir : Cardinality(Made(d)) \in Nat
      BY CountedIsFinite DEF Made
    <3> QED
      BY <1>1, <3>1 DEF Init, CountersAreBounded
  <2>3. SeenAreBounded
    <3>1. 0 \in 0 .. MaxFds + Cardinality(Slot)
      BY CountedIsFinite, BoundAssumption
    <3> QED
      BY <1>1, <3>1 DEF Init, SeenAreBounded
  <2>4. FlagsAreTyped
    <3>1. Len(Operands) \in Nat
      BY TreeAssumption
    <3>2. operand <= Len(Operands) + 1
      BY <1>1, <3>1 DEF Init
    <3>3. moved \in [Actor -> BOOLEAN]
      BY <1>1 DEF Init
    <3>4. sysfull \in BOOLEAN
      BY <1>1 DEF Init
    <3> QED
      BY <3>2, <3>3, <3>4 DEF FlagsAreTyped
  <2> QED
    BY <1>1, <2>1, <2>2, <2>3, <2>4, FaultAssumption, ForceAssumption, BoundAssumption
       DEF Init, UInv
<1>2. ASSUME IInv, LInv, TInv, UInv, [Next]_vars
      PROVE  UInv'
  <2>1. fs' \subseteq fs
    <3>1. CASE Next
      BY <1>2, <3>1, WorkerEffect, MainEffect, SystemEffect, ShrinkingHolds DEF Next, TInv
    <3> QED
      BY <1>2, <3>1 DEF vars
  <2>2. /\ UNCHANGED given /\ lost' \subseteq Things(Object)
        /\ fills' \in 0 .. MaxFills
    BY <1>2, SystemIsGiven, BoundAssumption DEF UInv, Things
  <2>3. failed' \subseteq Errors \X Object
    <3>1. FailuresAreReached' /\ Names
      BY <1>2, TruthEveryStep, FailuresAreNamed DEF TInv
    <3>2. CASE failed' = failed
      BY <1>2, <3>2 DEF UInv
    <3>3. ASSUME NEW error \in Errors, NEW x, failed' = failed \cup {<<error, x>>}
          PROVE  x \in Object
      <4>1. Reached(<<error, x>>[2])'
        BY <3>1, <3>3 DEF FailuresAreReached
      <4> QED
        BY <4>1 DEF Reached
    <3> QED
      BY <1>2, <3>1, <3>2, <3>3 DEF Names, UInv
  <2>4. /\ CountersAreBounded' /\ Descriptors' <= MaxFds /\ SeenAreBounded'
        /\ FlagsAreTyped'
    BY <1>2, CountersStay, DescriptorsStay, SeenStays, FlagsStay DEF UInv
  <2>5. fs' \subseteq Things(Object) /\ fault' \in Refusals /\ force' \in BOOLEAN
    BY <1>2, <2>1, <2>2 DEF UInv, given
  <2> QED
    BY <2>2, <2>3, <2>4, <2>5 DEF UInv
<1> QED
  BY <1>1, <1>2

\* The walk keeps its bounds.
LEMMA EverythingIsBounded == Spec => [](IInv /\ LInv /\ TInv /\ UInv)
<1>1. Init => IInv /\ LInv /\ TInv /\ UInv
  BY InitStep, CountsAtStart, TruthAtStart, BoundsHold
<1>2. IInv /\ LInv /\ TInv /\ UInv /\ [Next]_vars => (IInv /\ LInv /\ TInv /\ UInv)'
  BY EveryStep, CountsEveryStep, TruthEveryStep, BoundsHold
<1> QED
  BY <1>1, <1>2, PTL DEF Spec

\* Every variable has its type: no counter goes below zero or beyond what it counts,
\* never are more descriptors open than there can be, and no more is pending than there
\* are directories and workers (dir_node.hpp:60-83, fd.cpp:22-59).
THEOREM WalkIsTyped == Spec => []TypeOK
<1>1. IInv /\ LInv /\ UInv => TypeOK
  <2> SUFFICES ASSUME IInv, LInv, UInv
               PROVE  TypeOK
    OBVIOUS
  <2>1. remaining \in [Dir -> 0 .. Cardinality(Dir)]
    <3> SUFFICES ASSUME NEW d \in Dir
                 PROVE  remaining[d] \in 0 .. Cardinality(Dir)
      BY DEF IInv, Types
    <3>1. /\ IsFiniteSet(Dir) /\ Cardinality(Dir) \in Nat
          /\ Cardinality(Made(d)) \in Nat
      BY CountedIsFinite DEF Made
    <3>2. d \in Object /\ (Parent[d] = d => FALSE)
      <4>1. d \in Object /\ {d} \in SUBSET Object
        BY DEF Object
      <4>2. PICK x \in {d} : Parent[x] \notin {d}
        BY <4>1, TreeAssumption
      <4> QED
        BY <4>1, <4>2
    <3>3. Made(d) \subseteq Dir \ {d}
      BY <3>2 DEF Made
    <3>4. IsFiniteSet(Dir \ {d}) /\ Cardinality(Dir \ {d}) = Cardinality(Dir) - 1
      BY <3>1, FS_RemoveElement
    <3>5. Cardinality(Made(d)) <= Cardinality(Dir) - 1
      BY <3>3, <3>4, FS_Subset
    <3>6. /\ remaining[d] \in Int /\ remaining[d] >= 0
          /\ remaining[d] <= Cardinality(Made(d)) + 1
      BY DEF IInv, Types, UInv, CountersAreBounded
    <3> QED
      BY <3>1, <3>5, <3>6
  <2>2. \A o \in Actor, p \in {0, 1} : queues[o][p] \in Seq(Dir)
    BY DEF IInv, Types, Queues, kRunnable, kAwaitingDescriptor
  <2>3. pending \in 0 .. Cardinality(Dir) + Cardinality(Slot)
    <3>1. /\ IsFiniteSet(Dir) /\ Cardinality(Dir) \in Nat
          /\ IsFiniteSet(Slot) /\ Cardinality(Slot) \in Nat
      BY CountedIsFinite
    <3>2. Cardinality(Tasks(queues)) <= Cardinality(Dir)
      BY <3>1, FS_Subset DEF Tasks
    <3>3. Cardinality(Busy) <= Cardinality(Slot)
      BY <3>1, FS_Subset DEF Busy
    <3> QED
      BY <3>1, <3>2, <3>3, CountsAreNatural DEF LInv, TasksAreCounted
  <2>4. live \in 0 .. MaxFds + Cardinality(Actor)
    <3>1. IsFiniteSet(Actor) /\ Cardinality(Actor) \in Nat
      BY CountedIsFinite
    <3>2. Cardinality(Reserving) <= Cardinality(Actor)
      BY <3>1, FS_Subset DEF Reserving
    <3>3. Cardinality(OpenDirs) + Cardinality(Extras) <= MaxFds
      BY DEF UInv, Descriptors, OpenDirs
    <3> QED
      BY <3>1, <3>2, <3>3, CountsAreNatural, BoundAssumption DEF LInv, LeasesAreCounted
  <2>5. /\ pc \in [Actor -> Label] /\ operand \in 1 .. Len(Operands) + 1
        /\ sysfull \in BOOLEAN /\ moved \in [Actor -> BOOLEAN]
    <3>1. operand \in Nat \ {0} /\ Len(Operands) \in Nat
      BY TreeAssumption DEF IInv, Types
    <3> QED
      BY <3>1 DEF IInv, Types, Opens, Label, UInv, FlagsAreTyped
  <2> QED
    BY <2>1, <2>2, <2>3, <2>4, <2>5
       DEF TypeOK, IInv, Types, LInv, CountTypes, UInv, SeenAreBounded, Errors
<1> QED
  BY <1>1, EverythingIsBounded, PTL

----------------------------------------------------------------------------
(* What fails, and why                                                     *)

\* "remmy removes everything the failure does not block", however few descriptors
\* there are: with one operand and no path of PATH_MAX bytes, or with more descriptors
\* than the walk can have open at once (test_faults.py:3).  With several operands, or
\* with long paths, the code gives up for want of a descriptor.
THEOREM OnlyTheBlocked ==
    ASSUME Long = {}, MaxFds > 0, Roomy \/ Len(Operands) = 1
    PROVE  Spec => []OnlyTheBlockedFails
<1>1. BInv => {failure[2] : failure \in {f \in failed : f[1] # "gone"}}
                 \subseteq UNION {Parents[x] : x \in {y \in Object : Real[y] = fault[2]}}
  BY DEF BInv, FailuresAreBlamed, Blamed, Blocked
<1>2. (fills = 0 /\ Excuse => BInv) => OnlyTheBlockedFails
  BY <1>1 DEF OnlyTheBlockedFails, Excuse
<1> QED
  BY <1>2, EverythingIsBlamed, PTL

\* "The tree must go, and a failure may only be a lost race": with descriptors enough,
\* and a system whose table never fills, whatever fails does so because the thing is
\* gone, however the operands lie in one another and whoever else removes things; and
\* nothing is left (test_recursive.py:165).
THEOREM OnlyRacesAreLost ==
    ASSUME Roomy, MaxFills = 0
    PROVE  Spec => []OnlyLostRaces
<1>1. MaxFds > 0
  <2>1. Cardinality(Dir) \in Nat /\ Cardinality(Slot) \in Nat
    BY CountedIsFinite
  <2> QED
    BY <2>1, BoundAssumption DEF Roomy
<1>2. ASSUME BInv, fault[2] = None, NEW failure \in failed
      PROVE  failure[1] = "gone" /\ failure[2] \in Dir
  BY <1>2, RealAssumption DEF BInv, FailuresAreBlamed, Blamed, Blocked
<1>3. ASSUME BInv, fault[2] = None, ExitIsTruthful, fs \subseteq Things(Object), Exited
      PROVE  fs = {}
  BY <1>2, <1>3 DEF ExitIsTruthful, Things, Exists
<1>4. (fills = 0 /\ Excuse => BInv) /\ ExitIsTruthful /\ UInv => OnlyLostRaces
  <2> SUFFICES ASSUME fills = 0 /\ Excuse => BInv, ExitIsTruthful, UInv, fault[2] = None
               PROVE  /\ \A failure \in failed : failure[1] = "gone" /\ failure[2] \in Dir
                      /\ Exited => fs = {}
    BY DEF OnlyLostRaces
  <2>1. BInv
    BY DEF UInv, Excuse
  <2> QED
    BY <1>2, <1>3, <2>1 DEF UInv
<1> QED
  BY <1>1, <1>4, EverythingIsBlamed, EverythingIsBounded, ExitSaysTheTruth, PTL

=============================================================================
