---------------------------- MODULE FdPoolProofs ----------------------------
(***************************************************************************)
(* What FdPool promises for any number of threads, any limit and any       *)
(* number of epochs.  The inductive invariant is TypeOK together with      *)
(* three independent parts: the lease count, the raise of the limit and    *)
(* the history of a refusal.                                               *)
(***************************************************************************)
EXTENDS FdPool, FiniteSetTheorems, TLAPS

\* The two sets the lease count adds up are finite.
LEMMA CountedSetsAreFinite ==
    /\ IsFiniteSet(Ours) /\ Cardinality(Ours) \in Nat
    /\ IsFiniteSet(LeaseHolders) /\ Cardinality(LeaseHolders) \in Nat
<1>1. IsFiniteSet(Slot)
  BY FS_Interval, LimitAssumption DEF Slot
<1>2. Ours \subseteq Slot /\ LeaseHolders \subseteq Thread
  BY DEF Ours, LeaseHolders
<1> QED
  BY <1>1, <1>2, ThreadAssumption, FS_Subset, FS_CardinalityType

\* Whoever holds a lease, or a descriptor, keeps the count above zero: the
\* fetch_sub of Forget and the fetch_add of Release never borrow.
LEMMA HolderIsCounted ==
    ASSUME LeasesAreCounted
    PROVE  /\ \A t \in Thread : pc[t] \in Leased => leases.live > 0
           /\ Ours # {} => leases.live > 0
           /\ leases.live = 0 => Ours = {} /\ LeaseHolders = {}
<1>1. Ours # {} => Cardinality(Ours) > 0
  BY CountedSetsAreFinite, FS_EmptySet
<1>2. LeaseHolders # {} => Cardinality(LeaseHolders) > 0
  BY CountedSetsAreFinite, FS_EmptySet
<1>3. \A t \in Thread : pc[t] \in Leased => t \in LeaseHolders
  BY DEF LeaseHolders
<1> QED
  BY <1>1, <1>2, <1>3, CountedSetsAreFinite DEF LeasesAreCounted

----------------------------------------------------------------------------

LEMMA TypeInit == Init => TypeOK
<1> SUFFICES ASSUME Init PROVE TypeOK
  OBVIOUS
<1>1. NoReading \in LeasesType
  BY EpochAssumption DEF NoReading, LeasesType
<1>2. soft \in 1 .. HardLimit /\ "idle" \in PC /\ 0 \in 0 .. EpochSpan
  BY LimitAssumption, EpochAssumption DEF Init, PC
<1> QED
  BY <1>1, <1>2 DEF Init, TypeOK

\* Every step keeps the types; live stays a natural number because only a
\* counted holder decrements it.
LEMMA TypeStep ==
    TypeOK /\ LeasesAreCounted /\ [Next]_vars => TypeOK'
<1> SUFFICES ASSUME TypeOK, LeasesAreCounted, [Next]_vars
             PROVE  TypeOK'
  OBVIOUS
<1>0. /\ {"idle", "capacity", "getlimit", "storelimit", "testandset"} \subseteq PC
      /\ {"setmax", "storeraised", "resetceiling", "opening"} \subseteq PC
      /\ {"dropped", "refused", "lowering", "lower", "judging"} \subseteq PC
      /\ {"answered", "closed"} \subseteq PC
      /\ {"dropped", "refused", "closed"} \subseteq Leased
  BY DEF PC, Leased
<1> USE <1>0, LimitAssumption, EpochAssumption
<1> USE DEF TypeOK, LeasesType, Goto, LeaveOpen, NoReading, kernelVars,
            raiseVars, refusalVars
<1>1. CASE StartWorkers
  BY <1>1 DEF StartWorkers
<1>2. CASE ForeignClose
  BY <1>2 DEF ForeignClose
<1>3. ASSUME NEW t \in Thread, OpenStep(t)
      PROVE  TypeOK'
  <2>1. CASE Acquire(t)
    BY <2>1 DEF Acquire
  <2>2. CASE LoadCapacity(t)
    BY <2>2 DEF LoadCapacity, AfterCapacity
  <2>3. CASE GetLimit(t)
    BY <2>3 DEF GetLimit
  <2>4. CASE StoreLimit(t)
    BY <2>4 DEF StoreLimit, AfterCapacity
  <2>5. CASE TestAndSet(t)
    BY <2>5 DEF TestAndSet
  <2>6. CASE SetMax(t)
    <3>1. HardLimit \in Nat /\ HardLimit \in 1 .. HardLimit
      OBVIOUS
    <3>2. soft' \in 1 .. HardLimit /\ limit' \in [Thread -> Nat]
      BY <2>6, <3>1 DEF SetMax
    <3>3. pc' \in [Thread -> PC]
      BY <2>6 DEF SetMax
    <3> QED
      BY <2>6, <3>2, <3>3 DEF SetMax
  <2>7. CASE StoreRaised(t)
    BY <2>7 DEF StoreRaised
  <2>8. CASE ResetCeiling(t)
    BY <2>8 DEF ResetCeiling
  <2>9. CASE OpenSucceeds(t)
    BY <2>9 DEF OpenSucceeds, FreeSlots
  <2>10. CASE OpenFails(t)
    BY <2>10 DEF OpenFails
  <2>11. CASE OpenRefused(t)
    BY <2>11 DEF OpenRefused, Ours
  <2>12. CASE DropReservation(t)
    BY <2>12, HolderIsCounted DEF DropReservation, ForgetLease
  <2> QED
    BY <1>3, <2>1, <2>2, <2>3, <2>4, <2>5, <2>6, <2>7, <2>8, <2>9, <2>10,
       <2>11, <2>12 DEF OpenStep
<1>4. ASSUME NEW t \in Thread, RefusedStep(t)
      PROVE  TypeOK'
  <2>1. CASE ForgetRefused(t)
    BY <2>1, HolderIsCounted DEF ForgetRefused, ForgetLease
  <2>2. CASE LoadCeiling(t)
    BY <2>2 DEF LoadCeiling, TestCeiling
  <2>3. CASE LowerCeiling(t)
    <3>1. ceiling' \in [Thread -> Nat]
      BY <2>3 DEF LowerCeiling, TestCeiling
    <3>2. pc' \in [Thread -> PC]
      BY <2>3 DEF LowerCeiling, TestCeiling
    <3>3. observed_ceiling' \in Nat
      BY <2>3 DEF LowerCeiling
    <3> QED
      BY <2>3, <3>1, <3>2, <3>3 DEF LowerCeiling
  <2>4. CASE Judge(t)
    BY <2>4 DEF Judge
  <2>5. CASE Return(t)
    BY <2>5 DEF Return
  <2> QED
    BY <1>4, <2>1, <2>2, <2>3, <2>4, <2>5 DEF RefusedStep
<1>5. ASSUME NEW t \in Thread, CloseStep(t)
      PROVE  TypeOK'
  <2>1. CASE CloseDescriptor(t)
    BY <2>1 DEF CloseDescriptor, Ours
  <2>2. CASE ReleaseLease(t)
    <3>1. leases' \in LeasesType
      BY <2>2, HolderIsCounted DEF ReleaseLease, Advance
    <3>2. since' \in [Thread -> 0 .. EpochSpan]
      <4> DEFINE Count(u) == IF \/ pc[u] \in {"idle", "closed"}
                                \/ since[u] = EpochSpan
                             THEN since[u] ELSE since[u] + 1
      <4>1. \A u \in Thread : Count(u) \in 0 .. EpochSpan
        OBVIOUS
      <4>2. since' = [u \in Thread |-> Count(u)]
        BY <2>2 DEF ReleaseLease
      <4> QED
        BY <4>1, <4>2
    <3> QED
      BY <2>2, <3>1, <3>2 DEF ReleaseLease
  <2>3. CASE HandOff(t)
    BY <2>3, HolderIsCounted DEF HandOff, ForgetLease, Ours
  <2> QED
    BY <1>5, <2>1, <2>2, <2>3 DEF CloseStep
<1>6. CASE UNCHANGED vars
  BY <1>6 DEF vars
<1> QED
  BY <1>1, <1>2, <1>3, <1>4, <1>5, <1>6 DEF Next

----------------------------------------------------------------------------
(* The lease count                                                         *)

\* What a step of one thread does to the number of lease holders.
LEMMA HoldersStep ==
    ASSUME NEW t \in Thread, \A u \in Thread \ {t} : pc'[u] = pc[u]
    PROVE  /\ (pc[t] \in Leased <=> pc'[t] \in Leased)
              => LeaseHolders' = LeaseHolders
           /\ pc[t] \notin Leased /\ pc'[t] \in Leased
              => Cardinality(LeaseHolders') = Cardinality(LeaseHolders) + 1
           /\ pc[t] \in Leased /\ pc'[t] \notin Leased
              => Cardinality(LeaseHolders') = Cardinality(LeaseHolders) - 1
<1>1. (pc[t] \in Leased <=> pc'[t] \in Leased) => LeaseHolders' = LeaseHolders
  BY DEF LeaseHolders
<1>2. pc[t] \notin Leased /\ pc'[t] \in Leased
      => t \notin LeaseHolders /\ LeaseHolders' = LeaseHolders \cup {t}
  BY DEF LeaseHolders
<1>3. pc[t] \in Leased /\ pc'[t] \notin Leased
      => t \in LeaseHolders /\ LeaseHolders' = LeaseHolders \ {t}
  BY DEF LeaseHolders
<1> QED
  BY <1>1, <1>2, <1>3, CountedSetsAreFinite, FS_AddElement, FS_RemoveElement

\* What a change of one slot does to the number of descriptors of ours.
LEMMA OursStep ==
    ASSUME NEW s \in Slot, \A r \in Slot \ {s} : table'[r] = table[r]
    PROVE  /\ (table[s] = "ours" <=> table'[s] = "ours") => Ours' = Ours
           /\ table[s] # "ours" /\ table'[s] = "ours"
              => Cardinality(Ours') = Cardinality(Ours) + 1
           /\ table[s] = "ours" /\ table'[s] # "ours"
              => Cardinality(Ours') = Cardinality(Ours) - 1
<1>1. (table[s] = "ours" <=> table'[s] = "ours") => Ours' = Ours
  BY DEF Ours
<1>2. table[s] # "ours" /\ table'[s] = "ours"
      => s \notin Ours /\ Ours' = Ours \cup {s}
  BY DEF Ours
<1>3. table[s] = "ours" /\ table'[s] # "ours"
      => s \in Ours /\ Ours' = Ours \ {s}
  BY DEF Ours
<1>4. IsFiniteSet(Ours)
  BY CountedSetsAreFinite
<1>5. table[s] # "ours" /\ table'[s] = "ours"
      => Cardinality(Ours') = Cardinality(Ours) + 1
  BY <1>2, <1>4, FS_AddElement
<1>6. table[s] = "ours" /\ table'[s] # "ours"
      => Cardinality(Ours') = Cardinality(Ours) - 1
  BY <1>3, <1>4, FS_RemoveElement
<1> QED
  BY <1>1, <1>5, <1>6

\* A step that only moves a thread between two places that both hold a lease,
\* or neither, leaves the count right.
LEMMA SameHolders ==
    ASSUME LeasesAreCounted, NEW t \in Thread,
           \A u \in Thread \ {t} : pc'[u] = pc[u],
           pc[t] \in Leased <=> pc'[t] \in Leased,
           UNCHANGED <<table, leases>>
    PROVE  LeasesAreCounted'
<1>1. LeaseHolders' = LeaseHolders
  BY HoldersStep
<1>2. Ours' = Ours
  BY DEF Ours
<1> QED
  BY <1>1, <1>2 DEF LeasesAreCounted

LEMMA CountInit == Init => LeasesAreCounted
<1> SUFFICES ASSUME Init PROVE LeasesAreCounted
  OBVIOUS
<1>1. Ours = {} /\ LeaseHolders = {}
  BY DEF Init, Ours, LeaseHolders, Leased
<1> QED
  BY <1>1, FS_EmptySet DEF Init, LeasesAreCounted, NoReading

LEMMA CountStep ==
    TypeOK /\ LeasesAreCounted /\ [Next]_vars => LeasesAreCounted'
<1> SUFFICES ASSUME TypeOK, LeasesAreCounted, [Next]_vars
             PROVE  LeasesAreCounted'
  OBVIOUS
<1> USE DEF Goto, LeaveOpen, kernelVars
<1>0. /\ pc \in [Thread -> PC] /\ table \in [Slot -> {"free", "ours", "foreign"}]
      /\ leases \in [live : Nat, epoch : 0 .. EpochSpan - 1]
  BY DEF TypeOK, LeasesType
<1>1. CASE StartWorkers
  BY <1>1 DEF StartWorkers, LeasesAreCounted, Ours, LeaseHolders
<1>2. CASE ForeignClose
  <2>1. Ours' = Ours
    BY <1>0, <1>2 DEF ForeignClose, Ours
  <2> QED
    BY <1>2, <2>1 DEF ForeignClose, LeasesAreCounted, LeaseHolders
<1>3. ASSUME NEW t \in Thread, OpenStep(t)
      PROVE  LeasesAreCounted'
  <2>1. CASE Acquire(t)
    <3>1. Cardinality(LeaseHolders') = Cardinality(LeaseHolders) + 1
      <4>1. pc[t] \notin Leased /\ pc'[t] \in Leased
        BY <1>0, <2>1 DEF Acquire, Leased
      <4> QED
        BY <1>0, <2>1, <4>1, HoldersStep DEF Acquire
    <3>2. Ours' = Ours /\ leases'.live = leases.live + 1
      BY <1>0, <2>1 DEF Acquire, Ours
    <3> QED
      BY <1>0, <3>1, <3>2, CountedSetsAreFinite DEF LeasesAreCounted
  <2>2. CASE \/ LoadCapacity(t) \/ GetLimit(t)    \/ StoreLimit(t)
             \/ TestAndSet(t)   \/ SetMax(t)      \/ StoreRaised(t)
             \/ ResetCeiling(t) \/ OpenRefused(t) \/ OpenFails(t)
    <3>1. pc[t] \in Leased /\ pc'[t] \in Leased
      BY <1>0, <2>2
         DEF LoadCapacity, GetLimit, StoreLimit, TestAndSet, SetMax,
             StoreRaised, ResetCeiling, OpenRefused, OpenFails, Leased,
             AfterCapacity
    <3>2. \A u \in Thread \ {t} : pc'[u] = pc[u]
      BY <1>0, <2>2
         DEF LoadCapacity, GetLimit, StoreLimit, TestAndSet, SetMax,
             StoreRaised, ResetCeiling, OpenRefused, OpenFails, AfterCapacity
    <3>3. UNCHANGED <<table, leases>>
      BY <2>2
         DEF LoadCapacity, GetLimit, StoreLimit, TestAndSet, SetMax,
             StoreRaised, ResetCeiling, OpenRefused, OpenFails
    <3> QED
      BY <3>1, <3>2, <3>3, SameHolders
  <2>3. CASE OpenSucceeds(t)
    <3>1. PICK s \in FreeSlots : table' = [table EXCEPT ![s] = "ours"]
      BY <2>3 DEF OpenSucceeds
    <3>2. s \in Slot /\ table[s] = "free"
      BY <3>1 DEF FreeSlots
    <3>3. Cardinality(Ours') = Cardinality(Ours) + 1
      BY <1>0, <3>1, <3>2, OursStep
    <3>4. pc[t] \in Leased /\ pc'[t] \notin Leased
      BY <1>0, <2>3 DEF OpenSucceeds, Leased
    <3>5. Cardinality(LeaseHolders') = Cardinality(LeaseHolders) - 1
      BY <1>0, <2>3, <3>4, HoldersStep DEF OpenSucceeds
    <3> QED
      BY <1>0, <2>3, <3>3, <3>5, CountedSetsAreFinite
         DEF OpenSucceeds, LeasesAreCounted
  <2>4. CASE DropReservation(t)
    <3>1. pc[t] \in Leased /\ pc'[t] \notin Leased
      BY <1>0, <2>4 DEF DropReservation, Leased
    <3>2. Cardinality(LeaseHolders') = Cardinality(LeaseHolders) - 1
      BY <1>0, <2>4, <3>1, HoldersStep DEF DropReservation
    <3>3. Ours' = Ours /\ leases'.live = leases.live - 1
      BY <1>0, <2>4 DEF DropReservation, ForgetLease, Ours
    <3> QED
      BY <1>0, <3>2, <3>3, CountedSetsAreFinite DEF LeasesAreCounted
  <2> QED
    BY <1>3, <2>1, <2>2, <2>3, <2>4 DEF OpenStep
<1>4. ASSUME NEW t \in Thread, RefusedStep(t)
      PROVE  LeasesAreCounted'
  <2>1. CASE ForgetRefused(t)
    <3>1. pc[t] \in Leased /\ pc'[t] \notin Leased
      BY <1>0, <2>1 DEF ForgetRefused, Leased
    <3>2. Cardinality(LeaseHolders') = Cardinality(LeaseHolders) - 1
      BY <1>0, <2>1, <3>1, HoldersStep DEF ForgetRefused
    <3>3. Ours' = Ours /\ leases'.live = leases.live - 1
      BY <1>0, <2>1 DEF ForgetRefused, ForgetLease, Ours
    <3> QED
      BY <1>0, <3>2, <3>3, CountedSetsAreFinite DEF LeasesAreCounted
  <2>2. CASE LoadCeiling(t) \/ LowerCeiling(t) \/ Judge(t) \/ Return(t)
    <3>1. pc[t] \notin Leased /\ pc'[t] \notin Leased
      BY <1>0, <2>2 DEF LoadCeiling, LowerCeiling, TestCeiling, Judge,
                        Return, Leased
    <3>2. \A u \in Thread \ {t} : pc'[u] = pc[u]
      BY <1>0, <2>2 DEF LoadCeiling, LowerCeiling, TestCeiling, Judge, Return
    <3>3. UNCHANGED <<table, leases>>
      BY <2>2 DEF LoadCeiling, LowerCeiling, Judge, Return
    <3> QED
      BY <3>1, <3>2, <3>3, SameHolders
  <2> QED
    BY <1>4, <2>1, <2>2 DEF RefusedStep
<1>5. ASSUME NEW t \in Thread, CloseStep(t)
      PROVE  LeasesAreCounted'
  <2>1. CASE CloseDescriptor(t)
    <3>1. PICK s \in Ours : table' = [table EXCEPT ![s] = "free"]
      BY <2>1 DEF CloseDescriptor
    <3>2. s \in Slot /\ table[s] = "ours"
      BY <3>1 DEF Ours
    <3>3. Cardinality(Ours') = Cardinality(Ours) - 1
      BY <1>0, <3>1, <3>2, OursStep
    <3>4. pc[t] \notin Leased /\ pc'[t] \in Leased
      BY <1>0, <2>1 DEF CloseDescriptor, Leased
    <3>5. Cardinality(LeaseHolders') = Cardinality(LeaseHolders) + 1
      BY <1>0, <2>1, <3>4, HoldersStep DEF CloseDescriptor
    <3> QED
      BY <1>0, <2>1, <3>3, <3>5, CountedSetsAreFinite
         DEF CloseDescriptor, LeasesAreCounted
  <2>2. CASE ReleaseLease(t)
    <3>1. pc[t] \in Leased /\ pc'[t] \notin Leased
      BY <1>0, <2>2 DEF ReleaseLease, Leased
    <3>2. Cardinality(LeaseHolders') = Cardinality(LeaseHolders) - 1
      BY <1>0, <2>2, <3>1, HoldersStep DEF ReleaseLease
    <3>3. Ours' = Ours /\ leases'.live = leases.live - 1
      BY <1>0, <2>2 DEF ReleaseLease, Ours
    <3> QED
      BY <1>0, <3>2, <3>3, CountedSetsAreFinite DEF LeasesAreCounted
  <2>3. CASE HandOff(t)
    <3>1. PICK s \in Ours : table' = [table EXCEPT ![s] = "foreign"]
      BY <2>3 DEF HandOff
    <3>2. s \in Slot /\ table[s] = "ours"
      BY <3>1 DEF Ours
    <3>3. Cardinality(Ours') = Cardinality(Ours) - 1
      BY <1>0, <3>1, <3>2, OursStep
    <3>4. LeaseHolders' = LeaseHolders /\ leases'.live = leases.live - 1
      BY <1>0, <2>3 DEF HandOff, LeaseHolders, ForgetLease
    <3> QED
      BY <1>0, <3>3, <3>4, CountedSetsAreFinite DEF LeasesAreCounted
  <2> QED
    BY <1>5, <2>1, <2>2, <2>3 DEF CloseStep
<1>6. CASE UNCHANGED vars
  BY <1>6 DEF vars, LeasesAreCounted, Ours, LeaseHolders
<1> QED
  BY <1>1, <1>2, <1>3, <1>4, <1>5, <1>6 DEF Next

----------------------------------------------------------------------------
(* The history of a refusal                                                *)

\* A thread with a reservation knows how far the epoch has moved since: the
\* releases it has seen, modulo EpochSpan, as long as they are fewer.
EpochTracks ==
    \A t \in Thread :
        /\ pc[t] \in {"idle", "closed"} => since[t] = 0
        /\ pc[t] \notin {"idle", "closed"} /\ since[t] < EpochSpan
           => \/ leases.epoch = before[t].epoch + since[t]
              \/ leases.epoch = before[t].epoch + since[t] - EpochSpan

\* While nothing has been released since the reservation, each descriptor
\* that stood in a refused open's way still has its lease: its Fd holds it,
\* or the thread that closed it has not released it yet.
BlockersAreLeased ==
    \A t \in Thread :
        /\ pc[t] \in {"refused", "lowering", "lower", "judging"}
        /\ since[t] = 0
        => \A s \in blockers[t] :
              table[s] = "ours" \/ \E u \in Thread : pc[u] = "closed"

VerdictIsLast ==
    \A t \in Thread : verdict[t] # "none" => pc[t] = "answered"

LEMMA EpochStep ==
    TypeOK /\ EpochTracks /\ [Next]_vars => EpochTracks'
<1> SUFFICES ASSUME TypeOK, EpochTracks, [Next]_vars
             PROVE  EpochTracks'
  OBVIOUS
<1> USE EpochAssumption
<1>0. /\ pc \in [Thread -> PC] /\ since \in [Thread -> 0 .. EpochSpan]
      /\ leases \in LeasesType /\ before \in [Thread -> LeasesType]
  BY DEF TypeOK
<1> USE <1>0 DEF Goto, LeaveOpen, refusalVars
<1>1. CASE StartWorkers
  BY <1>1 DEF StartWorkers, EpochTracks
<1>2. CASE ForeignClose
  BY <1>2 DEF ForeignClose, EpochTracks
<1>3. ASSUME NEW t \in Thread, OpenStep(t)
      PROVE  EpochTracks'
  <2>1. CASE Acquire(t)
    <3>1. /\ leases'.epoch = leases.epoch /\ before'[t].epoch = leases.epoch
          /\ since[t] = 0 /\ since' = since
      BY <2>1 DEF Acquire, LeasesType, EpochTracks
    <3> QED
      BY <2>1, <3>1 DEF Acquire, EpochTracks, LeasesType
  <2>2. CASE \/ LoadCapacity(t) \/ GetLimit(t)    \/ StoreLimit(t)
             \/ TestAndSet(t)   \/ SetMax(t)      \/ StoreRaised(t)
             \/ ResetCeiling(t) \/ OpenRefused(t) \/ OpenFails(t)
    <3>1. pc[t] \notin {"idle", "closed"} /\ pc'[t] \notin {"idle", "closed"}
      BY <2>2
         DEF LoadCapacity, GetLimit, StoreLimit, TestAndSet, SetMax,
             StoreRaised, ResetCeiling, OpenRefused, OpenFails, AfterCapacity
    <3>2. \A u \in Thread \ {t} : pc'[u] = pc[u]
      BY <2>2
         DEF LoadCapacity, GetLimit, StoreLimit, TestAndSet, SetMax,
             StoreRaised, ResetCeiling, OpenRefused, OpenFails, AfterCapacity
    <3>3. UNCHANGED <<leases, before, since>>
      BY <2>2
         DEF LoadCapacity, GetLimit, StoreLimit, TestAndSet, SetMax,
             StoreRaised, ResetCeiling, OpenRefused, OpenFails
    <3> QED
      BY <3>1, <3>2, <3>3 DEF EpochTracks
  <2>3. CASE OpenSucceeds(t)
    BY <2>3 DEF OpenSucceeds, EpochTracks
  <2>4. CASE DropReservation(t)
    BY <2>4 DEF DropReservation, ForgetLease, LeasesType, EpochTracks
  <2> QED
    BY <1>3, <2>1, <2>2, <2>3, <2>4 DEF OpenStep
<1>4. ASSUME NEW t \in Thread, RefusedStep(t)
      PROVE  EpochTracks'
  <2>1. CASE ForgetRefused(t)
    BY <2>1 DEF ForgetRefused, ForgetLease, LeasesType, EpochTracks
  <2>2. CASE LoadCeiling(t) \/ LowerCeiling(t) \/ Judge(t)
    BY <2>2 DEF LoadCeiling, LowerCeiling, TestCeiling, Judge, EpochTracks
  <2>3. CASE Return(t)
    BY <2>3 DEF Return, EpochTracks
  <2> QED
    BY <1>4, <2>1, <2>2, <2>3 DEF RefusedStep
<1>5. ASSUME NEW t \in Thread, CloseStep(t)
      PROVE  EpochTracks'
  <2>1. CASE CloseDescriptor(t)
    BY <2>1 DEF CloseDescriptor, EpochTracks
  <2>2. CASE ReleaseLease(t)
    <3>1. leases'.epoch = Advance(leases.epoch) /\ before' = before
      BY <2>2 DEF ReleaseLease
    <3> SUFFICES ASSUME NEW u \in Thread
                 PROVE  /\ pc'[u] \in {"idle", "closed"} => since'[u] = 0
                        /\ pc'[u] \notin {"idle", "closed"}
                           /\ since'[u] < EpochSpan
                           => \/ leases'.epoch = before[u].epoch + since'[u]
                              \/ leases'.epoch =
                                    before[u].epoch + since'[u] - EpochSpan
      BY <3>1 DEF EpochTracks
    <3>2. CASE pc[u] \in {"idle", "closed"}
      BY <2>2, <3>2 DEF ReleaseLease, EpochTracks
    <3>3. CASE pc[u] \notin {"idle", "closed"}
      <4>1. pc'[u] = pc[u]
        BY <2>2, <3>3 DEF ReleaseLease
      <4>2. since'[u] = IF since[u] = EpochSpan THEN EpochSpan ELSE since[u] + 1
        BY <2>2, <3>3 DEF ReleaseLease
      <4>3. since[u] < EpochSpan
            => \/ leases.epoch = before[u].epoch + since[u]
               \/ leases.epoch = before[u].epoch + since[u] - EpochSpan
        BY <3>3 DEF EpochTracks
      <4>4. /\ leases.epoch \in 0 .. EpochSpan - 1
            /\ before[u].epoch \in 0 .. EpochSpan - 1
            /\ since[u] \in 0 .. EpochSpan
        BY DEF LeasesType
      <4> QED
        BY <3>1, <3>3, <4>1, <4>2, <4>3, <4>4 DEF Advance
    <3> QED
      BY <3>2, <3>3
  <2>3. CASE HandOff(t)
    BY <2>3 DEF HandOff, ForgetLease, LeasesType, EpochTracks
  <2> QED
    BY <1>5, <2>1, <2>2, <2>3 DEF CloseStep
<1>6. CASE UNCHANGED vars
  BY <1>6 DEF vars, EpochTracks
<1> QED
  BY <1>1, <1>2, <1>3, <1>4, <1>5, <1>6 DEF Next

RefusalInv == EpochTracks /\ BlockersAreLeased /\ VerdictIsLast /\ GiveUpIsSound

LEMMA RefusalInit == Init => RefusalInv
  BY DEF Init, RefusalInv, EpochTracks, BlockersAreLeased, VerdictIsLast,
         GiveUpIsSound, NoReading

\* The step of Judge: a zero count and an unmoved epoch prove that nothing of
\* ours was in the way.
LEMMA JudgeStep ==
    ASSUME TypeOK, LeasesAreCounted, RefusalInv, NEW t \in Thread, Judge(t),
           verdict'[t] = "giveup", since'[t] < EpochSpan
    PROVE  blockers'[t] = {}
<1> USE EpochAssumption
<1>1. /\ pc[t] = "judging" /\ since' = since /\ blockers' = blockers
      /\ verdict' = [verdict EXCEPT ![t] =
                        IF Retryable(t) THEN "retry" ELSE "giveup"]
  BY DEF Judge
<1>2. ~Retryable(t)
  BY <1>1 DEF TypeOK
<1>3. leases.live = 0 /\ leases.epoch = before[t].epoch
  BY <1>2 DEF Retryable
<1>4. since[t] = 0
  <2>1. /\ leases.epoch \in 0 .. EpochSpan - 1 /\ since[t] \in 0 .. EpochSpan
        /\ before[t].epoch \in 0 .. EpochSpan - 1
    BY DEF TypeOK, LeasesType
  <2>2. \/ leases.epoch = before[t].epoch + since[t]
        \/ leases.epoch = before[t].epoch + since[t] - EpochSpan
    BY <1>1 DEF RefusalInv, EpochTracks
  <2> QED
    BY <1>1, <1>3, <2>1, <2>2
<1>5. Ours = {} /\ LeaseHolders = {}
  BY <1>3, HolderIsCounted
<1>6. \A u \in Thread : pc[u] # "closed"
  BY <1>5 DEF LeaseHolders, Leased
<1>7. \A s \in blockers[t] : table[s] = "ours" /\ s \in Slot
  BY <1>1, <1>4, <1>6 DEF RefusalInv, BlockersAreLeased, TypeOK
<1> QED
  BY <1>1, <1>5, <1>7 DEF Ours

LEMMA RefusalStep ==
    TypeOK /\ LeasesAreCounted /\ RefusalInv /\ [Next]_vars => RefusalInv'
<1> SUFFICES ASSUME TypeOK, LeasesAreCounted, RefusalInv, [Next]_vars
             PROVE  BlockersAreLeased' /\ VerdictIsLast' /\ GiveUpIsSound'
  BY EpochStep DEF RefusalInv
<1>0. /\ pc \in [Thread -> PC] /\ since \in [Thread -> 0 .. EpochSpan]
      /\ table \in [Slot -> {"free", "ours", "foreign"}]
      /\ verdict \in [Thread -> {"none", "retry", "giveup"}]
      /\ blockers \in [Thread -> SUBSET Slot]
  BY DEF TypeOK
<1> USE <1>0, EpochAssumption
    DEF Goto, LeaveOpen, refusalVars, kernelVars, RefusalInv,
        BlockersAreLeased, VerdictIsLast, GiveUpIsSound
<1>1. CASE StartWorkers
  BY <1>1 DEF StartWorkers
<1>2. CASE ForeignClose
  BY <1>2 DEF ForeignClose
<1>3. ASSUME NEW t \in Thread, OpenStep(t)
      PROVE  BlockersAreLeased' /\ VerdictIsLast' /\ GiveUpIsSound'
  <2>1. CASE Acquire(t)
    BY <2>1 DEF Acquire
  <2>2. CASE \/ LoadCapacity(t) \/ GetLimit(t)    \/ StoreLimit(t)
             \/ TestAndSet(t)   \/ SetMax(t)      \/ StoreRaised(t)
             \/ ResetCeiling(t) \/ OpenFails(t)
    <3>1. /\ pc[t] \notin {"refused", "lowering", "lower", "judging",
                           "answered", "closed"}
          /\ pc'[t] \notin {"refused", "lowering", "lower", "judging",
                            "answered", "closed"}
      BY <2>2
         DEF LoadCapacity, GetLimit, StoreLimit, TestAndSet, SetMax,
             StoreRaised, ResetCeiling, OpenFails, AfterCapacity
    <3>2. \A u \in Thread \ {t} : pc'[u] = pc[u]
      BY <2>2
         DEF LoadCapacity, GetLimit, StoreLimit, TestAndSet, SetMax,
             StoreRaised, ResetCeiling, OpenFails, AfterCapacity
    <3>3. UNCHANGED <<table, blockers, verdict, since>>
      BY <2>2
         DEF LoadCapacity, GetLimit, StoreLimit, TestAndSet, SetMax,
             StoreRaised, ResetCeiling, OpenFails
    <3> QED
      BY <3>1, <3>2, <3>3
  <2>3. CASE OpenSucceeds(t)
    BY <2>3 DEF OpenSucceeds
  <2>4. CASE DropReservation(t)
    BY <2>4 DEF DropReservation
  <2>5. CASE OpenRefused(t)
    BY <2>5 DEF OpenRefused, Ours
  <2> QED
    BY <1>3, <2>1, <2>2, <2>3, <2>4, <2>5 DEF OpenStep
<1>4. ASSUME NEW t \in Thread, RefusedStep(t)
      PROVE  BlockersAreLeased' /\ VerdictIsLast' /\ GiveUpIsSound'
  <2>1. CASE ForgetRefused(t)
    BY <2>1 DEF ForgetRefused
  <2>2. CASE LoadCeiling(t) \/ LowerCeiling(t)
    BY <2>2 DEF LoadCeiling, LowerCeiling, TestCeiling
  <2>3. CASE Judge(t)
    <3>1. GiveUpIsSound'
      BY <2>3, JudgeStep DEF Judge
    <3> QED
      BY <2>3, <3>1 DEF Judge
  <2>4. CASE Return(t)
    BY <2>4 DEF Return
  <2> QED
    BY <1>4, <2>1, <2>2, <2>3, <2>4 DEF RefusedStep
<1>5. ASSUME NEW t \in Thread, CloseStep(t)
      PROVE  BlockersAreLeased' /\ VerdictIsLast' /\ GiveUpIsSound'
  <2>1. CASE CloseDescriptor(t)
    BY <2>1 DEF CloseDescriptor
  <2>2. CASE ReleaseLease(t)
    <3>1. \A u \in Thread :
             since'[u] = IF pc[u] \in {"idle", "closed"} \/ since[u] = EpochSpan
                         THEN since[u] ELSE since[u] + 1
      BY <2>2 DEF ReleaseLease
    <3>2. \A u \in Thread :
             pc[u] \notin {"idle", "closed"} => since'[u] > 0
                                             /\ since'[u] >= since[u]
      BY <3>1
    <3> QED
      BY <2>2, <3>2 DEF ReleaseLease
  <2>3. CASE HandOff(t)
    BY <2>3 DEF HandOff
  <2> QED
    BY <1>5, <2>1, <2>2, <2>3 DEF CloseStep
<1>6. CASE UNCHANGED vars
  BY <1>6 DEF vars
<1> QED
  BY <1>1, <1>2, <1>3, <1>4, <1>5, <1>6 DEF Next

----------------------------------------------------------------------------
(* The raise of the limit                                                  *)

Raising == {"setmax", "storeraised", "resetceiling"}

\* Where a thread can be only when the capacity is cached.
CapacityKnown == Raising \cup
    {"testandset", "opening", "dropped", "refused", "lowering", "lower",
     "judging", "answered"}

\* The first reservation, Main's, runs alone and caches the capacity; a limit
\* a thread has read is the one in force until it is stored.
RaiseInv ==
    /\ workersStarted => known_capacity # 0
    /\ Ours # {} => known_capacity # 0
    /\ \A t \in Thread :
          /\ ~workersStarted /\ t # Main => pc[t] = "idle"
          /\ pc[t] \in {"getlimit", "storelimit"} => known_capacity = 0
          /\ pc[t] \in CapacityKnown => known_capacity # 0
          /\ pc[t] = "storelimit" => limit[t] = soft
          /\ pc[t] = "storeraised" => limit[t] = soft
          /\ pc[t] \in {"storeraised", "resetceiling"} => soft = HardLimit
          /\ pc[t] \in Raising => raise_attempted
    /\ OneRaiser
    /\ CapacityIsCurrent

\* A thread in the loop of Refused is there because its count is not zero and
\* lower than the ceiling it has read.
CeilingInv ==
    \A t \in Thread :
        /\ pc[t] \in {"lowering", "lower"} => before[t].live # 0
        /\ pc[t] = "lower" => Lowers(before[t].live, ceiling[t])

IInv == TypeOK /\ LeasesAreCounted /\ RefusalInv /\ RaiseInv /\ CeilingInv

LEMMA RaiseInit == Init => RaiseInv /\ CeilingInv
  BY DEF Init, RaiseInv, CeilingInv, OneRaiser, CapacityIsCurrent,
         CapacityKnown, Raising, Ours

LEMMA RaiseStep ==
    TypeOK /\ RaiseInv /\ [Next]_vars => RaiseInv'
<1> SUFFICES ASSUME TypeOK, RaiseInv, [Next]_vars
             PROVE  RaiseInv'
  OBVIOUS
<1>0. /\ pc \in [Thread -> PC] /\ limit \in [Thread -> Nat]
      /\ table \in [Slot -> {"free", "ours", "foreign"}]
      /\ soft \in 1 .. HardLimit /\ HardLimit # 0
  BY LimitAssumption DEF TypeOK
<1> USE <1>0, MainAssumption
    DEF Goto, LeaveOpen, refusalVars, kernelVars, raiseVars, MayRun,
        RaiseInv, OneRaiser, CapacityIsCurrent, CapacityKnown, Raising
<1>1. CASE StartWorkers
  BY <1>1 DEF StartWorkers, Ours
<1>2. CASE ForeignClose
  <2>1. Ours' = Ours
    BY <1>2 DEF ForeignClose, Ours
  <2> QED
    BY <1>2, <2>1 DEF ForeignClose
<1>3. ASSUME NEW t \in Thread, OpenStep(t)
      PROVE  RaiseInv'
  <2>1. CASE Acquire(t)
    BY <2>1 DEF Acquire, Ours
  <2>2. CASE LoadCapacity(t)
    BY <2>2 DEF LoadCapacity, AfterCapacity, Ours
  <2>3. CASE GetLimit(t)
    BY <2>3 DEF GetLimit, Ours
  <2>4. CASE StoreLimit(t)
    BY <2>4 DEF StoreLimit, AfterCapacity, Ours
  <2>5. CASE TestAndSet(t)
    BY <2>5 DEF TestAndSet, Ours
  <2>6. CASE SetMax(t)
    BY <2>6 DEF SetMax, Ours
  <2>7. CASE StoreRaised(t)
    BY <2>7 DEF StoreRaised, Ours
  <2>8. CASE ResetCeiling(t)
    BY <2>8 DEF ResetCeiling, Ours
  <2>9. CASE OpenSucceeds(t)
    BY <2>9 DEF OpenSucceeds, FreeSlots
  <2>10. CASE OpenFails(t)
    BY <2>10 DEF OpenFails, Ours
  <2>11. CASE OpenRefused(t)
    BY <2>11 DEF OpenRefused, Ours
  <2>12. CASE DropReservation(t)
    BY <2>12 DEF DropReservation, Ours
  <2> QED
    BY <1>3, <2>1, <2>2, <2>3, <2>4, <2>5, <2>6, <2>7, <2>8, <2>9, <2>10,
       <2>11, <2>12 DEF OpenStep
<1>4. ASSUME NEW t \in Thread, RefusedStep(t)
      PROVE  RaiseInv'
  <2>1. CASE ForgetRefused(t)
    BY <2>1 DEF ForgetRefused, Ours
  <2>2. CASE LoadCeiling(t)
    BY <2>2 DEF LoadCeiling, TestCeiling, Ours
  <2>3. CASE LowerCeiling(t)
    BY <2>3 DEF LowerCeiling, TestCeiling, Ours
  <2>4. CASE Judge(t) \/ Return(t)
    BY <2>4 DEF Judge, Return, Ours
  <2> QED
    BY <1>4, <2>1, <2>2, <2>3, <2>4 DEF RefusedStep
<1>5. ASSUME NEW t \in Thread, CloseStep(t)
      PROVE  RaiseInv'
  <2>1. CASE CloseDescriptor(t)
    BY <2>1 DEF CloseDescriptor, Ours
  <2>2. CASE ReleaseLease(t)
    BY <2>2 DEF ReleaseLease, Ours
  <2>3. CASE HandOff(t)
    BY <2>3 DEF HandOff, Ours
  <2> QED
    BY <1>5, <2>1, <2>2, <2>3 DEF CloseStep
<1>6. CASE UNCHANGED vars
  BY <1>6 DEF vars, Ours
<1> QED
  BY <1>1, <1>2, <1>3, <1>4, <1>5, <1>6 DEF Next

LEMMA CeilingStep ==
    TypeOK /\ CeilingInv /\ [Next]_vars => CeilingInv'
<1> SUFFICES ASSUME TypeOK, CeilingInv, [Next]_vars
             PROVE  CeilingInv'
  OBVIOUS
<1>0. /\ pc \in [Thread -> PC] /\ ceiling \in [Thread -> Nat]
      /\ before \in [Thread -> LeasesType]
  BY DEF TypeOK
<1> USE <1>0 DEF Goto, LeaveOpen, refusalVars, CeilingInv
<1>1. CASE StartWorkers \/ ForeignClose
  BY <1>1 DEF StartWorkers, ForeignClose
<1>2. ASSUME NEW t \in Thread, OpenStep(t)
      PROVE  CeilingInv'
  <2>1. /\ pc'[t] \notin {"lowering", "lower"}
        /\ \A u \in Thread \ {t} : /\ pc'[u] = pc[u] /\ before'[u] = before[u]
                                   /\ ceiling'[u] = ceiling[u]
    BY <1>2
       DEF OpenStep, Acquire, LoadCapacity, GetLimit, StoreLimit, TestAndSet,
           SetMax, StoreRaised, ResetCeiling, OpenSucceeds, OpenFails,
           OpenRefused, DropReservation, AfterCapacity
  <2> QED
    BY <2>1
<1>3. ASSUME NEW t \in Thread, RefusedStep(t)
      PROVE  CeilingInv'
  <2>1. CASE ForgetRefused(t)
    BY <2>1 DEF ForgetRefused
  <2>2. CASE LoadCeiling(t)
    BY <2>2 DEF LoadCeiling, TestCeiling
  <2>3. CASE LowerCeiling(t)
    BY <2>3 DEF LowerCeiling, TestCeiling
  <2>4. CASE Judge(t) \/ Return(t)
    BY <2>4 DEF Judge, Return
  <2> QED
    BY <1>3, <2>1, <2>2, <2>3, <2>4 DEF RefusedStep
<1>4. ASSUME NEW t \in Thread, CloseStep(t)
      PROVE  CeilingInv'
  BY <1>4 DEF CloseStep, CloseDescriptor, ReleaseLease, HandOff
<1>5. CASE UNCHANGED vars
  BY <1>5 DEF vars
<1> QED
  BY <1>1, <1>2, <1>3, <1>4, <1>5 DEF Next

----------------------------------------------------------------------------
(* The theorems                                                            *)

\* The inductive invariant holds in every reachable state of the pool
\* (fd.cpp:22-197, os/fd.hpp:46-103).
THEOREM PoolInvariant == Spec => []IInv
<1>1. Init => IInv
  BY TypeInit, CountInit, RefusalInit, RaiseInit DEF IInv
<1>2. IInv /\ [Next]_vars => IInv'
  BY TypeStep, CountStep, RefusalStep, RaiseStep, CeilingStep DEF IInv
<1> QED
  BY <1>1, <1>2, PTL DEF Spec

\* Every variable keeps its type; in particular live never goes below zero,
\* so Release never borrows from the epoch half of the packed word.
THEOREM TypeCorrect == Spec => []TypeOK
  BY PoolInvariant, PTL DEF IInv

\* The live count is exact whatever the threads do between a reservation and
\* its claim, its refusal or its drop, and between close and Release.
THEOREM LeaseCountCorrect == Spec => []LeasesAreCounted
  BY PoolInvariant, PTL DEF IInv

\* A refusal answered "not retryable" never blames a permanent shortage for
\* one that a descriptor of ours caused.
THEOREM GiveUpCorrect == Spec => []GiveUpIsSound
<1>1. IInv => GiveUpIsSound
  BY DEF IInv, RefusalInv
<1> QED
  BY <1>1, PoolInvariant, PTL

\* The cached capacity is the limit in force except while it is being raised.
THEOREM CapacityCorrect == Spec => []CapacityIsCurrent
<1>1. IInv => CapacityIsCurrent
  BY DEF IInv, RaiseInv
<1> QED
  BY <1>1, PoolInvariant, PTL

\* One thread raises the limit, however many cross the threshold at once.
THEOREM RaiserCorrect == Spec => []OneRaiser
<1>1. IInv => OneRaiser
  BY DEF IInv, RaiseInv
<1> QED
  BY <1>1, PoolInvariant, PTL

\* Racing refusals only lower the ceiling; only the raise resets it.
THEOREM CeilingCorrect == Spec => CeilingOnlyFalls
<1>1. IInv /\ [Next]_vars => [CeilingFallsStep]_vars
  <2> SUFFICES ASSUME IInv, Next
               PROVE  CeilingFallsStep
    BY DEF vars
  <2> USE DEF IInv, CeilingFallsStep
  <2>1. CASE StartWorkers \/ ForeignClose
    BY <2>1 DEF StartWorkers, ForeignClose
  <2>2. ASSUME NEW t \in Thread, OpenStep(t)
        PROVE  CeilingFallsStep
    <3>1. CASE ResetCeiling(t)
      BY <3>1 DEF ResetCeiling, RaiseInv, Raising
    <3>2. CASE ~ResetCeiling(t)
      BY <2>2, <3>2
         DEF OpenStep, Acquire, LoadCapacity, GetLimit, StoreLimit,
             TestAndSet, SetMax, StoreRaised, OpenSucceeds, OpenFails,
             OpenRefused, DropReservation
    <3> QED
      BY <3>1, <3>2
  <2>3. ASSUME NEW t \in Thread, RefusedStep(t)
        PROVE  CeilingFallsStep
    <3>1. CASE LowerCeiling(t)
      <4>1. /\ before[t].live \in Nat /\ observed_ceiling \in Nat
            /\ before[t].live # 0 /\ Lowers(before[t].live, ceiling[t])
        BY <3>1 DEF TypeOK, LeasesType, LowerCeiling, CeilingInv
      <4> QED
        BY <3>1, <4>1 DEF LowerCeiling, Lowers
    <3>2. CASE ForgetRefused(t) \/ LoadCeiling(t) \/ Judge(t) \/ Return(t)
      BY <3>2 DEF ForgetRefused, LoadCeiling, Judge, Return
    <3> QED
      BY <2>3, <3>1, <3>2 DEF RefusedStep
  <2>4. ASSUME NEW t \in Thread, CloseStep(t)
        PROVE  CeilingFallsStep
    BY <2>4 DEF CloseStep, CloseDescriptor, ReleaseLease, HandOff
  <2> QED
    BY <2>1, <2>2, <2>3, <2>4 DEF Next
<1> QED
  BY <1>1, PoolInvariant, PTL DEF Spec, CeilingOnlyFalls
=============================================================================
