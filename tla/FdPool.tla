------------------------------- MODULE FdPool -------------------------------
(***************************************************************************)
(* The process-wide descriptor pool of cutils/src/os/limits/fd.cpp and the *)
(* two operations of cutils::os::Fd that drive it, Open and Close.  Every  *)
(* atomic access, every system call and nothing else is a step, so threads *)
(* interleave between the reservation, the call that opens, the answer of  *)
(* a refusal, the call that closes and the release of the lease.           *)
(*                                                                         *)
(* All accesses are relaxed, but each word is accessed by single atomic    *)
(* operations and no property relates two words through an unsynchronised  *)
(* read, so interleaving the accesses is enough.                           *)
(***************************************************************************)
EXTENDS Integers, FiniteSets

CONSTANTS
    Thread,       \* the threads of the process
    Main,         \* the one that opens the first operand, before the workers
    HardLimit,    \* RLIMIT_NOFILE, rlim_max
    InitialSoft,  \* RLIMIT_NOFILE, rlim_cur when the process starts
    Inherited,    \* descriptors open when the process starts (stdio)
    EpochSpan     \* the number of epochs: 2^32 in the code

Slot == 0 .. HardLimit - 1

ASSUME MainAssumption == Main \in Thread
ASSUME ThreadAssumption == IsFiniteSet(Thread)
ASSUME LimitAssumption ==
    /\ HardLimit \in Nat /\ InitialSoft \in Nat
    /\ 0 < InitialSoft /\ InitialSoft <= HardLimit
    /\ Inherited \subseteq Slot
ASSUME EpochAssumption == EpochSpan \in Nat /\ 0 < EpochSpan

VARIABLES
    table,            \* the kernel's descriptor table: who holds each slot
    soft,             \* the kernel's rlim_cur
    leases,           \* AtomicLeases, unpacked: [live, epoch]
    known_capacity, observed_ceiling, raise_attempted,
    pc,               \* where each thread is in Open or Close
    before,           \* Reservation::before_ of each thread
    limit,            \* the limit a thread has read and not yet stored
    ceiling,          \* the local `ceiling` of the loop in Refused
    verdict,          \* what the last refusal of each thread answered
    workersStarted,   \* whether the scheduler has started its threads
    blockers,         \* history: our descriptors that were open when the call
                      \* was refused, the ones handed off since left out
    since             \* history: releases since the reservation, at most
                      \* EpochSpan

vars == <<table, soft, leases, known_capacity, observed_ceiling,
          raise_attempted, pc, before, limit, ceiling, verdict,
          workersStarted, blockers, since>>

kernelVars  == <<table, soft>>
raiseVars   == <<known_capacity, raise_attempted, limit>>
refusalVars == <<before, ceiling, verdict, blockers>>

Ours == {s \in Slot : table[s] = "ours"}

\* A lease is held from Acquire to Claim, Forget or Release.
Leased == {"capacity", "getlimit", "storelimit", "testandset", "setmax",
           "storeraised", "resetceiling", "opening", "dropped", "refused",
           "closed"}

PC == Leased \cup {"idle", "lowering", "lower", "judging", "answered"}

LeaseHolders == {t \in Thread : pc[t] \in Leased}

Goto(t, label) == pc' = [pc EXCEPT ![t] = label]

NoReading == [live |-> 0, epoch |-> 0]

Init ==
    /\ table = [s \in Slot |-> IF s \in Inherited THEN "foreign" ELSE "free"]
    /\ soft = InitialSoft
    /\ leases = NoReading
    /\ known_capacity = 0
    /\ observed_ceiling = 0
    /\ raise_attempted = FALSE
    /\ pc = [t \in Thread |-> "idle"]
    /\ before = [t \in Thread |-> NoReading]
    /\ limit = [t \in Thread |-> 0]
    /\ ceiling = [t \in Thread |-> 0]
    /\ verdict = [t \in Thread |-> "none"]
    /\ workersStarted = FALSE
    /\ blockers = [t \in Thread |-> {}]
    /\ since = [t \in Thread |-> 0]

----------------------------------------------------------------------------
(* Fd::Open: Pool::Reserve                                                 *)

MayRun(t) == t = Main \/ workersStarted

\* Mutant: workers run before Main's first reservation is over.
StartWorkersEarly ==
    /\ ~workersStarted
    /\ workersStarted' = TRUE
    /\ UNCHANGED <<kernelVars, leases, observed_ceiling, raiseVars, pc,
                   refusalVars, since>>

\* The scheduler starts a thread only when a root is submitted, so when Main
\* has opened one: its first Reserve is over.
StartWorkers ==
    /\ pc[Main] = "idle" /\ Ours # {} /\ ~workersStarted
    /\ workersStarted' = TRUE
    /\ UNCHANGED <<kernelVars, leases, observed_ceiling, raiseVars, pc,
                   refusalVars, since>>

Acquire(t) ==
    /\ pc[t] = "idle" /\ MayRun(t)
    /\ leases' = [leases EXCEPT !.live = @ + 1]
    /\ before' = [before EXCEPT ![t] = leases]
    /\ Goto(t, "capacity")
    /\ UNCHANGED <<kernelVars, observed_ceiling, raiseVars, ceiling, verdict,
                   blockers, workersStarted, since>>

\* The reservation, Open's locals with it, goes out of scope.
LeaveOpen(t) ==
    /\ before' = [before EXCEPT ![t] = NoReading]
    /\ verdict' = [verdict EXCEPT ![t] = "none"]
    /\ blockers' = [blockers EXCEPT ![t] = {}]
    /\ since' = [since EXCEPT ![t] = 0]
    /\ Goto(t, "idle")

\* live * 100 < capacity * kRaiseAtPercent, for the lease just taken.
kRaiseAtPercent == 50
AtThreshold(live, capacity) ==
    capacity # 0 /\ ~(live * 100 < capacity * kRaiseAtPercent)

AfterCapacity(t, capacity) ==
    Goto(t, IF AtThreshold(before[t].live + 1, capacity)
            THEN "testandset" ELSE "opening")

LoadCapacity(t) ==
    /\ pc[t] = "capacity"
    /\ IF known_capacity = 0
       THEN Goto(t, "getlimit")
       ELSE AfterCapacity(t, known_capacity)
    /\ UNCHANGED <<kernelVars, leases, observed_ceiling, raiseVars,
                   refusalVars, workersStarted, since>>

\* getrlimit with a valid resource and address does not fail.
GetLimit(t) ==
    /\ pc[t] = "getlimit"
    /\ limit' = [limit EXCEPT ![t] = soft]
    /\ Goto(t, "storelimit")
    /\ UNCHANGED <<kernelVars, leases, known_capacity, observed_ceiling,
                   raise_attempted, refusalVars, workersStarted, since>>

StoreLimit(t) ==
    /\ pc[t] = "storelimit"
    /\ known_capacity' = limit[t]
    /\ limit' = [limit EXCEPT ![t] = 0]
    /\ AfterCapacity(t, limit[t])
    /\ UNCHANGED <<kernelVars, leases, observed_ceiling, raise_attempted,
                   refusalVars, workersStarted, since>>

\* Mutant: the flag is tested but not set by the same access.
TestOnly(t) ==
    /\ pc[t] = "testandset"
    /\ Goto(t, IF raise_attempted THEN "opening" ELSE "setmax")
    /\ UNCHANGED <<kernelVars, leases, known_capacity, observed_ceiling,
                   raise_attempted, limit, refusalVars, workersStarted, since>>

TestAndSet(t) ==
    /\ pc[t] = "testandset"
    /\ raise_attempted' = TRUE
    /\ Goto(t, IF raise_attempted THEN "opening" ELSE "setmax")
    /\ UNCHANGED <<kernelVars, leases, known_capacity, observed_ceiling,
                   limit, refusalVars, workersStarted, since>>

\* setrlimit may be refused; the raise is not tried again.
SetMax(t) ==
    /\ pc[t] = "setmax"
    /\ \/ /\ soft' = HardLimit
          /\ limit' = [limit EXCEPT ![t] = HardLimit]
          /\ Goto(t, "storeraised")
       \/ /\ Goto(t, "opening")
          /\ UNCHANGED <<soft, limit>>
    /\ UNCHANGED <<table, leases, known_capacity, observed_ceiling,
                   raise_attempted, refusalVars, workersStarted, since>>

StoreRaised(t) ==
    /\ pc[t] = "storeraised"
    /\ known_capacity' = limit[t]
    /\ limit' = [limit EXCEPT ![t] = 0]
    /\ Goto(t, "resetceiling")
    /\ UNCHANGED <<kernelVars, leases, observed_ceiling, raise_attempted,
                   refusalVars, workersStarted, since>>

ResetCeiling(t) ==
    /\ pc[t] = "resetceiling"
    /\ observed_ceiling' = 0
    /\ Goto(t, "opening")
    /\ UNCHANGED <<kernelVars, leases, raiseVars, refusalVars,
                   workersStarted, since>>

----------------------------------------------------------------------------
(* Fd::Open: the call that opens, Claim, ~Reservation and Refused          *)

FreeSlots == {s \in Slot : s < soft /\ table[s] = "free"}

\* Mutant: the Fd does not claim the lease; the destructor forgets it.
OpenUnclaimed(t) ==
    /\ pc[t] = "opening"
    /\ \E s \in FreeSlots :
          /\ \A r \in FreeSlots : s <= r
          /\ table' = [table EXCEPT ![s] = "ours"]
    /\ leases' = [leases EXCEPT !.live = @ - 1]
    /\ LeaveOpen(t)
    /\ UNCHANGED <<soft, observed_ceiling, raiseVars, ceiling,
                   workersStarted>>

\* The kernel hands out the lowest free slot.  Claim only disarms the
\* reservation, which no other thread sees: the lease becomes the Fd's.
OpenSucceeds(t) ==
    /\ pc[t] = "opening"
    /\ \E s \in FreeSlots :
          /\ \A r \in FreeSlots : s <= r
          /\ table' = [table EXCEPT ![s] = "ours"]
    /\ LeaveOpen(t)
    /\ UNCHANGED <<soft, leases, observed_ceiling, raiseVars, ceiling,
                   workersStarted>>

\* ENOENT, EACCES, ELOOP...: the reservation is dropped.
OpenFails(t) ==
    /\ pc[t] = "opening"
    /\ Goto(t, "dropped")
    /\ UNCHANGED <<kernelVars, leases, observed_ceiling, raiseVars,
                   refusalVars, workersStarted, since>>

\* EMFILE when the table is full; ENFILE whenever the whole system's is.
OpenRefused(t) ==
    /\ pc[t] = "opening"
    /\ blockers' = [blockers EXCEPT ![t] = Ours]
    /\ Goto(t, "refused")
    /\ UNCHANGED <<kernelVars, leases, observed_ceiling, raiseVars, before,
                   ceiling, verdict, workersStarted, since>>

ForgetLease == leases' = [leases EXCEPT !.live = @ - 1]

DropReservation(t) ==
    /\ pc[t] = "dropped"
    /\ ForgetLease
    /\ LeaveOpen(t)
    /\ UNCHANGED <<kernelVars, observed_ceiling, raiseVars, ceiling,
                   workersStarted>>

\* Refused: forget the lease, then lower the ceiling if others were held.
ForgetRefused(t) ==
    /\ pc[t] = "refused"
    /\ ForgetLease
    /\ Goto(t, IF before[t].live # 0 THEN "lowering" ELSE "judging")
    /\ UNCHANGED <<kernelVars, observed_ceiling, raiseVars, refusalVars,
                   workersStarted, since>>

Lowers(held, c) == c = 0 \/ held < c

TestCeiling(t) ==
    LET lowers == Lowers(before[t].live, observed_ceiling)
    IN  /\ ceiling' = [ceiling EXCEPT ![t] =
                           IF lowers THEN observed_ceiling ELSE 0]
        /\ Goto(t, IF lowers THEN "lower" ELSE "judging")

LoadCeiling(t) ==
    /\ pc[t] = "lowering"
    /\ TestCeiling(t)
    /\ UNCHANGED <<kernelVars, leases, observed_ceiling, raiseVars, before,
                   verdict, blockers, workersStarted, since>>

\* Mutant: a plain store in place of the compare-and-swap.
StoreCeiling(t) ==
    /\ pc[t] = "lower"
    /\ observed_ceiling' = before[t].live
    /\ ceiling' = [ceiling EXCEPT ![t] = 0]
    /\ Goto(t, "judging")
    /\ UNCHANGED <<kernelVars, leases, raiseVars, before, verdict, blockers,
                   workersStarted, since>>

\* compare_exchange_weak: on failure `ceiling` is reloaded and the loop's
\* condition tested again.  (A spurious failure changes nothing.)
LowerCeiling(t) ==
    /\ pc[t] = "lower"
    /\ \/ /\ observed_ceiling = ceiling[t]
          /\ observed_ceiling' = before[t].live
          /\ ceiling' = [ceiling EXCEPT ![t] = 0]
          /\ Goto(t, "judging")
       \/ /\ observed_ceiling # ceiling[t]
          /\ TestCeiling(t)
          /\ UNCHANGED observed_ceiling
    /\ UNCHANGED <<kernelVars, leases, raiseVars, before, verdict, blockers,
                   workersStarted, since>>

Retryable(t) == leases.live # 0 \/ leases.epoch # before[t].epoch

Judge(t) ==
    /\ pc[t] = "judging"
    /\ verdict' = [verdict EXCEPT ![t] =
                      IF Retryable(t) THEN "retry" ELSE "giveup"]
    /\ Goto(t, "answered")
    /\ UNCHANGED <<kernelVars, leases, observed_ceiling, raiseVars, before,
                   ceiling, blockers, workersStarted, since>>

Return(t) ==
    /\ pc[t] = "answered"
    /\ LeaveOpen(t)
    /\ UNCHANGED <<kernelVars, leases, observed_ceiling, raiseVars, ceiling,
                   workersStarted>>

----------------------------------------------------------------------------
(* Fd::Close and Fd::Release                                               *)

\* An Fd moves from thread to thread with its task: any thread may close it.
CloseDescriptor(t) ==
    /\ pc[t] = "idle" /\ MayRun(t)
    /\ \E s \in Ours : table' = [table EXCEPT ![s] = "free"]
    /\ Goto(t, "closed")
    /\ UNCHANGED <<soft, leases, observed_ceiling, raiseVars, refusalVars,
                   workersStarted, since>>

\* Mutant: Release only gives the lease back, as Forget does.
NoAdvance(epoch) == epoch

Advance(epoch) == IF epoch + 1 = EpochSpan THEN 0 ELSE epoch + 1

\* AtomicLeases::Release adds 2^32 - 1: one lease less, one epoch more.
ReleaseLease(t) ==
    /\ pc[t] = "closed"
    /\ leases' = [live |-> leases.live - 1, epoch |-> Advance(leases.epoch)]
    /\ since' = [u \in Thread |->
                    IF pc[u] \in {"idle", "closed"} \/ since[u] = EpochSpan
                    THEN since[u] ELSE since[u] + 1]
    /\ Goto(t, "idle")
    /\ UNCHANGED <<kernelVars, observed_ceiling, raiseVars, refusalVars,
                   workersStarted>>

\* Fd::Release: the descriptor stays open, in other hands.  Forget precedes
\* the exchange of fd_, which only the owner sees.
HandOff(t) ==
    /\ pc[t] = "idle" /\ MayRun(t)
    /\ \E s \in Ours :
          /\ table' = [table EXCEPT ![s] = "foreign"]
          /\ blockers' = [u \in Thread |-> blockers[u] \ {s}]
    /\ ForgetLease
    /\ UNCHANGED <<soft, observed_ceiling, raiseVars, pc, before, ceiling,
                   verdict, workersStarted, since>>

\* Whoever took a descriptor over may close it.
ForeignClose ==
    /\ \E s \in Slot \ Inherited :
          /\ table[s] = "foreign"
          /\ table' = [table EXCEPT ![s] = "free"]
    /\ UNCHANGED <<soft, leases, observed_ceiling, raiseVars, pc,
                   refusalVars, workersStarted, since>>

OpenStep(t) ==
    \/ Acquire(t)      \/ LoadCapacity(t)  \/ GetLimit(t)
    \/ StoreLimit(t)   \/ TestAndSet(t)    \/ SetMax(t)
    \/ StoreRaised(t)  \/ ResetCeiling(t)  \/ OpenSucceeds(t)
    \/ OpenFails(t)    \/ OpenRefused(t)   \/ DropReservation(t)

RefusedStep(t) ==
    \/ ForgetRefused(t) \/ LoadCeiling(t) \/ LowerCeiling(t)
    \/ Judge(t)         \/ Return(t)

CloseStep(t) == CloseDescriptor(t) \/ ReleaseLease(t) \/ HandOff(t)

Next ==
    \/ StartWorkers
    \/ ForeignClose
    \/ \E t \in Thread : OpenStep(t) \/ RefusedStep(t) \/ CloseStep(t)

Spec == Init /\ [][Next]_vars

----------------------------------------------------------------------------
(* Properties                                                              *)

LeasesType == [live : Nat, epoch : 0 .. EpochSpan - 1]

\* Every variable has its type (fd.cpp:22-59, fd.hpp:33-78).
TypeOK ==
    /\ table \in [Slot -> {"free", "ours", "foreign"}]
    /\ soft \in 1 .. HardLimit
    /\ leases \in LeasesType
    /\ known_capacity \in Nat
    /\ observed_ceiling \in Nat
    /\ raise_attempted \in BOOLEAN
    /\ pc \in [Thread -> PC]
    /\ before \in [Thread -> LeasesType]
    /\ limit \in [Thread -> Nat]
    /\ ceiling \in [Thread -> Nat]
    /\ verdict \in [Thread -> {"none", "retry", "giveup"}]
    /\ workersStarted \in BOOLEAN
    /\ blockers \in [Thread -> SUBSET Slot]
    /\ since \in [Thread -> 0 .. EpochSpan]

\* The live count is exactly the descriptors held by an Fd plus the threads
\* between a reservation and its end or between close and Release: whatever
\* the interleaving of Open, Refused, Close and Release, no lease is counted
\* twice or lost, so live never borrows from the epoch in the packed word.
LeasesAreCounted ==
    leases.live = Cardinality(Ours) + Cardinality(LeaseHolders)

\* OpenError::retryable: "Refused for lack of descriptors while one of ours
\* held."  A refusal answered "do not retry" is sound: none of our
\* descriptors was open when the call was refused, except ones since handed
\* off still open, unless 2^32 releases came between reservation and answer.
GiveUpIsSound ==
    \A t \in Thread :
        (verdict[t] = "giveup" /\ since[t] < EpochSpan) => blockers[t] = {}

\* Outside a raise, the capacity the raise threshold is computed from is the
\* limit in force: no thread overwrites a raised limit with an older reading.
CapacityIsCurrent ==
    \/ known_capacity \in {0, soft}
    \/ \E t \in Thread : pc[t] = "storeraised"

\* The ceiling is set only from a refusal, never rises except by being
\* reset, and is reset only by the thread that raised the limit: two refusals
\* racing in the compare-and-swap loop keep the lower count.
CeilingFallsStep ==
    \/ observed_ceiling' = observed_ceiling
    \/ observed_ceiling' = 0 /\ raise_attempted /\ soft = HardLimit
    \/ observed_ceiling' > 0 /\ observed_ceiling = 0
    \/ observed_ceiling' < observed_ceiling

CeilingOnlyFalls == [][CeilingFallsStep]_vars

\* At most one thread at a time is inside the raise, and once the raise has
\* been tried the limit changes only by that thread's hand.
OneRaiser ==
    \A t, u \in Thread :
        /\ pc[t] \in {"setmax", "storeraised", "resetceiling"}
        /\ pc[u] \in {"setmax", "storeraised", "resetceiling"}
        => t = u
=============================================================================
