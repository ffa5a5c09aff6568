------------------------- MODULE TaskSchedulerProofs -------------------------
(***************************************************************************)
(* The safety of the scheduler for any number of workers, priorities and   *)
(* tasks, and the one submitter remmy has.                                 *)
(***************************************************************************)
EXTENDS TaskScheduler, SequenceTheorems, FiniteSetTheorems, TLAPS

\* What remmy does: its public Submit is called by the thread that waits.
OneSubmitter == Submitter = {Main}

Owner == Slot \cup {Shared}
Items(s, p) == queues[s][p].items
Waiting(s, p) == ToSet(queues[s][p].items)

\* Main has a task that is in no queue yet.
Carrying == pc[Main] \in {"insert", "store"}
Growing == {"grow", "test", "cas", "spawn", "assign"}
\* Workers that have a task.
Busy == {"processing"} \cup Growing
WorkerPlaces == Busy \cup {"unborn", "loop", "poll", "steal", "notify", "exited"}
MainPlaces == Submitting \cup {"idle", "wait", "blocked", "asleep", "stop", "join",
                              "returned"}

PlacesType ==
    /\ pc \in [Caller -> WorkerPlaces \cup MainPlaces]
    /\ \A s \in Slot : pc[s] \in WorkerPlaces
    /\ pc[Main] \in MainPlaces

LocalsType ==
    /\ task \in [Caller -> Task \cup {None}]
    /\ prio \in [Caller -> Priority]
    /\ seen \in [Caller -> Nat]
    /\ at \in [Slot -> 0 .. PollCount - 1]
    /\ owed \in Nat

SharedType ==
    /\ pending \in Nat /\ live \in 0 .. MaxWorkers /\ stop \in BOOLEAN
    /\ handle \in [Slot -> Caller \cup {None}]
    /\ issued \in 0 .. MaxTasks

QueuesType == queues \in [Owner -> [Priority -> [top : Nat, items : Seq(Task)]]]

HistoriesType ==
    /\ started \in [Task -> Nat]
    /\ done \subseteq Task /\ IsFiniteSet(done)

Types == PlacesType /\ LocalsType /\ SharedType /\ QueuesType /\ HistoriesType

\* A queue holds each task once, and has held no more than were submitted.
ItemsDiffer == \A s \in Owner, p \in Priority : IsInjective(Items(s, p))
Used(s, p) == queues[s][p].top + Len(Items(s, p))
UsedBounded ==
    /\ \A s \in Owner, p \in Priority : Used(s, p) <= issued
    /\ Carrying => \A p \in Priority : Used(Shared, p) < issued
\* Nobody else inserts where Main is about to store.
BottomRead == pc[Main] = "store" => seen[Main] = Used(Shared, prio[Main])

QueuesInv == ItemsDiffer /\ UsedBounded /\ BottomRead

\* A worker has found its own queues empty up to the one it polls; the queue it
\* steals from has lost no task since it read its top, or the top has moved.
PollInvOf(s) ==
    /\ \A p \in Priority :
          p < PollPriority(at[s]) \/ (p = PollPriority(at[s]) /\ PollOwner(s, at[s]) # s) =>
             Items(s, p) = <<>>
    /\ pc[s] = "steal" =>
          /\ PollOwner(s, at[s]) # s
          /\ seen[s] <= Polled(s).top
          /\ seen[s] = Polled(s).top => Polled(s).items # <<>>

PollInv == \A s \in Slot : pc[s] \in {"poll", "steal"} => PollInvOf(s)

\* Where a task is: on its way to a queue, in one, in a worker's hands, or done.
StartedOnce == \A t \in Task : started[t] <= 1 /\ (started[t] > 0 => t <= issued)
CarriedIsNew == Carrying => task[Main] \in 1 .. issued /\ started[task[Main]] = 0
QueuedAreNew ==
    \A s \in Owner, p \in Priority : \A t \in Waiting(s, p) :
        t \in 1 .. issued /\ started[t] = 0 /\ ~(Carrying /\ t = task[Main])
QueuesDisjoint ==
    \A s, r \in Owner, p, q \in Priority :
        Waiting(s, p) \cap Waiting(r, q) # {} => s = r /\ p = q
HeldAreStarted ==
    \A s \in Slot : pc[s] \in Busy => task[s] \in Task \ done /\ started[task[s]] = 1
HeldByOne ==
    \A r, s \in Slot :
        pc[r] \in Busy /\ pc[s] \in Busy /\ task[r] = task[s] => r = s
DoneWereStarted == \A t \in done : started[t] = 1

TasksInv ==
    /\ StartedOnce
    /\ CarriedIsNew
    /\ QueuedAreNew
    /\ QueuesDisjoint
    /\ HeldAreStarted
    /\ HeldByOne
    /\ DoneWereStarted

\* pending_tasks_ is exact: what was issued and is not done.
CountInv ==
    pending + Cardinality(done) = issued

\* Slots are born in order; the one who counted a slot in starts its worker
\* and then stores the handle.
Spawning == {"spawn", "assign"}
UnbornAbove == \A s \in Slot : live <= s => pc[s] = "unborn" /\ handle[s] = None
CasInRange == \A c \in Caller : pc[c] = "cas" => seen[c] < MaxWorkers
SpawnerInv ==
    \A c \in Caller : pc[c] \in Spawning =>
        /\ seen[c] \in Slot /\ seen[c] < live /\ handle[seen[c]] = None
        /\ c \in Slot => c < seen[c]
        /\ pc[c] = "spawn" <=> pc[seen[c]] = "unborn"
SpawnersDiffer ==
    \A c, d \in Caller :
        pc[c] \in Spawning /\ pc[d] \in Spawning /\ seen[c] = seen[d] => c = d
HandlesStored ==
    \A s \in Slot : pc[s] # "unborn" =>
        \/ handle[s] = Main
        \/ handle[s] \in Slot /\ handle[s] < s
        \/ \E c \in Caller : pc[c] = "assign" /\ seen[c] = s

ThreadsInv == UnbornAbove /\ CasInRange /\ SpawnerInv /\ SpawnersDiffer /\ HandlesStored

\* Main stops the workers and joins them only when nothing is pending.
WaitInv ==
    /\ pc[Main] \in {"stop", "join", "returned"} => pending = 0
    /\ stop => pc[Main] \in {"join", "returned"}
    /\ pc[Main] = "join" => owed < MaxWorkers

\* The inductive invariant.
IInv ==
    /\ Types
    /\ QueuesInv
    /\ PollInv
    /\ TasksInv
    /\ NoTaskIsLost
    /\ CountInv
    /\ ThreadsInv
    /\ WaitInv
----------------------------------------------------------------------------
(* Sequences, and the order of polling                                     *)

\* A task appended to a queue is the only one that it gains.
LEMMA AppendElements ==
    ASSUME NEW S, NEW q \in Seq(S), NEW t \in S
    PROVE  /\ Append(q, t) \in Seq(S) /\ Len(Append(q, t)) = Len(q) + 1
           /\ ToSet(Append(q, t)) = ToSet(q) \cup {t}
           /\ IsInjective(q) /\ t \notin ToSet(q) => IsInjective(Append(q, t))
<1> DEFINE r == Append(q, t)
<1>1. /\ r \in Seq(S) /\ Len(r) = Len(q) + 1
      /\ \A i \in 1 .. Len(q) : r[i] = q[i]
      /\ r[Len(q) + 1] = t
      /\ DOMAIN r = 1 .. Len(r) /\ DOMAIN q = 1 .. Len(q) /\ Len(q) \in Nat
  BY AppendProperties, LenProperties
<1> HIDE DEF r
<1>2. ToSet(r) = ToSet(q) \cup {t}
  BY <1>1 DEF ToSet
<1>3. IsInjective(q) /\ t \notin ToSet(q) => IsInjective(r)
  BY <1>1 DEF ToSet, IsInjective
<1> QED
  BY <1>1, <1>2, <1>3 DEF r

\* Taking the youngest task of a queue, as its owner does, loses that task and
\* no other.
LEMMA FrontElements ==
    ASSUME NEW S, NEW q \in Seq(S), q # <<>>
    PROVE  /\ Front(q) \in Seq(S) /\ Len(Front(q)) = Len(q) - 1
           /\ Last(q) \in S /\ Last(q) \in ToSet(q) /\ ToSet(Front(q)) \subseteq ToSet(q)
           /\ IsInjective(q) => /\ ToSet(Front(q)) = ToSet(q) \ {Last(q)}
                                /\ IsInjective(Front(q))
<1> DEFINE r == Front(q)
<1>1. Len(q) \in Nat \ {0} /\ DOMAIN q = 1 .. Len(q) /\ \A i \in 1 .. Len(q) : q[i] \in S
  BY EmptySeq, LenProperties
<1>2. /\ r \in Seq(S) /\ Len(r) = Len(q) - 1
      /\ \A i \in 1 .. Len(q) - 1 : r[i] = q[i]
  BY <1>1, SubSeqProperties DEF Front
<1>3. DOMAIN r = 1 .. Len(q) - 1
  BY <1>2, LenProperties
<1> HIDE DEF r
<1>4. Last(q) \in S /\ Last(q) \in ToSet(q) /\ ToSet(r) \subseteq ToSet(q)
  BY <1>1, <1>2, <1>3 DEF Last, ToSet
<1>5. IsInjective(q) => ToSet(r) = ToSet(q) \ {Last(q)}
  BY <1>1, <1>2, <1>3 DEF Last, ToSet, IsInjective
<1>6. IsInjective(q) => IsInjective(r)
  BY <1>1, <1>2, <1>3 DEF IsInjective
<1> QED
  BY <1>2, <1>4, <1>5, <1>6 DEF r

\* Stealing the oldest task of a queue loses that task and no other.
LEMMA TailElements ==
    ASSUME NEW S, NEW q \in Seq(S), q # <<>>
    PROVE  /\ Tail(q) \in Seq(S) /\ Len(Tail(q)) = Len(q) - 1
           /\ Head(q) \in S /\ Head(q) \in ToSet(q) /\ ToSet(Tail(q)) \subseteq ToSet(q)
           /\ IsInjective(q) => /\ ToSet(Tail(q)) = ToSet(q) \ {Head(q)}
                                /\ IsInjective(Tail(q))
<1> DEFINE r == Tail(q)
<1>1. Len(q) \in Nat \ {0} /\ DOMAIN q = 1 .. Len(q)
  BY EmptySeq, LenProperties
<1>2. /\ r \in Seq(S) /\ Len(r) = Len(q) - 1 /\ Head(q) \in S
      /\ \A i \in 1 .. Len(q) - 1 : r[i] = q[i + 1]
  BY <1>1, HeadTailProperties
<1>3. DOMAIN r = 1 .. Len(q) - 1 /\ Head(q) = q[1]
  BY <1>2, LenProperties
<1> HIDE DEF r
<1>4. Head(q) \in ToSet(q) /\ ToSet(r) \subseteq ToSet(q)
  <2>1. \A i \in 1 .. Len(q) - 1 : i + 1 \in 1 .. Len(q)
    BY <1>1
  <2> QED
    BY <1>1, <1>2, <1>3, <2>1 DEF ToSet
<1>5. IsInjective(q) => ToSet(r) = ToSet(q) \ {Head(q)}
  <2> SUFFICES ASSUME IsInjective(q), NEW e
               PROVE  e \in ToSet(r) <=> e \in ToSet(q) /\ e # Head(q)
    OBVIOUS
  <2>1. ASSUME NEW i \in 1 .. Len(q), i # 1 PROVE i - 1 \in 1 .. Len(q) - 1 /\ r[i - 1] = q[i]
    <3> DEFINE j == i - 1
    <3>1. j \in 1 .. Len(q) - 1 /\ j + 1 = i
      BY <1>1, <2>1
    <3> HIDE DEF j
    <3>2. r[j] = q[i]
      BY <1>2, <3>1
    <3> QED
      BY <3>1, <3>2 DEF j
  <2>2. ASSUME e \in ToSet(q), e # Head(q) PROVE e \in ToSet(r)
    BY <1>1, <1>3, <2>1, <2>2 DEF ToSet
  <2>3. ASSUME NEW i \in 1 .. Len(q) - 1 PROVE q[i + 1] \in ToSet(q) /\ q[i + 1] # Head(q)
    BY <1>1, <1>3 DEF ToSet, IsInjective
  <2> QED
    BY <1>2, <1>3, <2>2, <2>3 DEF ToSet
<1>6. IsInjective(q) => IsInjective(r)
  <2> SUFFICES ASSUME IsInjective(q), NEW i \in 1 .. Len(q) - 1, NEW j \in 1 .. Len(q) - 1,
                      r[i] = r[j]
               PROVE  i = j
    BY <1>3 DEF IsInjective
  <2>1. i + 1 \in 1 .. Len(q) /\ j + 1 \in 1 .. Len(q) /\ q[i + 1] = q[j + 1]
    BY <1>1, <1>2
  <2> QED
    BY <1>1, <2>1 DEF IsInjective
<1> QED
  BY <1>2, <1>4, <1>5, <1>6 DEF r

\* Counting through the rows of a table of width w.
LEMMA Rows ==
    ASSUME NEW w \in Nat, 1 < w, NEW rows \in Nat, NEW k \in Nat, k < rows * w
    PROVE  /\ k \div w \in Nat /\ k \div w < rows /\ k % w \in 0 .. w - 1
           /\ 0 \div w = 0 /\ 0 % w = 0
           /\ (k + 1) % w = 0 => (k + 1) \div w = k \div w + 1 /\ k % w # 0
           /\ (k + 1) % w # 0 => (k + 1) \div w = k \div w
<1>1. k \div w \in Nat /\ k % w \in 0 .. w - 1
  OBVIOUS
<1>2. k \div w < rows
  OBVIOUS
<1>3. 0 \div w = 0 /\ 0 % w = 0
  OBVIOUS
<1>4. (k + 1) % w = 0 => (k + 1) \div w = k \div w + 1 /\ k % w # 0
  OBVIOUS
<1>5. (k + 1) % w # 0 => (k + 1) \div w = k \div w
  OBVIOUS
<1> QED
  BY <1>1, <1>2, <1>3, <1>4, <1>5

\* The order in which a worker polls: its own queue of a priority is the first.
LEMMA Polling ==
    ASSUME NEW s \in Slot, NEW k \in 0 .. PollCount - 1
    PROVE  /\ PollOwner(s, k) \in Owner /\ PollPriority(k) \in Priority
           /\ 0 \in 0 .. PollCount - 1 /\ PollOwner(s, 0) = s /\ PollPriority(0) = 0
           /\ k + 1 < PollCount =>
                 /\ k + 1 \in 0 .. PollCount - 1
                 /\ PollOwner(s, k + 1) = s =>
                       PollPriority(k + 1) = PollPriority(k) + 1 /\ PollOwner(s, k) # s
                 /\ PollOwner(s, k + 1) # s => PollPriority(k + 1) = PollPriority(k)
<1> DEFINE w == MaxWorkers + 1
<1>1. w \in Nat /\ 1 < w /\ kPriorities \in Nat /\ k \in Nat
  BY WorkerAssumption, PriorityAssumption
<1>2. k < kPriorities * w /\ PollCount = kPriorities * w /\ PollCount \in Nat
  BY WorkerAssumption, PriorityAssumption DEF PollCount
<1>3. s \in Nat /\ s < MaxWorkers
  BY WorkerAssumption DEF Slot
<1>4. \A j \in Nat : j % w \in 0 .. w - 1
  BY <1>1
<1>5. \A j \in Nat : PollOwner(s, j) \in Owner /\ (PollOwner(s, j) = s <=> j % w = 0)
  BY <1>3, <1>4, WorkerAssumption DEF PollOwner, Owner, Slot, Shared
<1>6. \A j \in Nat : PollPriority(j) = j \div w
  BY DEF PollPriority
<1> HIDE DEF w
<1>7. /\ k \div w \in Nat /\ k \div w < kPriorities /\ 0 \div w = 0 /\ 0 % w = 0
      /\ (k + 1) % w = 0 => (k + 1) \div w = k \div w + 1 /\ k % w # 0
      /\ (k + 1) % w # 0 => (k + 1) \div w = k \div w
  BY <1>1, <1>2, Rows
<1>8. PollPriority(k) \in Priority /\ PollOwner(s, k) \in Owner
  BY <1>1, <1>5, <1>6, <1>7 DEF Priority
<1>9. 0 \in 0 .. PollCount - 1 /\ PollOwner(s, 0) = s /\ PollPriority(0) = 0
  BY <1>1, <1>2, <1>5, <1>6, <1>7
<1>10. k + 1 < PollCount => k + 1 \in 0 .. PollCount - 1
  BY <1>1, <1>2
<1> QED
  BY <1>1, <1>5, <1>6, <1>7, <1>8, <1>9, <1>10
----------------------------------------------------------------------------
(* What a queue is, and what changing one of them does                     *)

\* With one submitter, the callers are Main and the workers.
LEMMA Callers ==
    OneSubmitter => Caller = {Main} \cup Slot /\ Main \notin Slot /\ Submitter = {Main}
BY SubmitterAssumption DEF OneSubmitter, Caller

\* What the type of the queues says of each of them.  It is stated of a value so
\* that it serves the queues before a step and after it.
LEMMA QueueTypes ==
    ASSUME NEW Q \in [Owner -> [Priority -> [top : Nat, items : Seq(Task)]]]
    PROVE  /\ \A s \in Owner, p \in Priority :
                 /\ Q[s][p] = [top |-> Q[s][p].top, items |-> Q[s][p].items]
                 /\ Q[s][p].top \in Nat /\ Q[s][p].items \in Seq(Task)
                 /\ Len(Q[s][p].items) \in Nat
           /\ \A t : (\E s \in Slot \cup {Shared}, p \in Priority : Contains(Q[s][p].items, t))
                     <=> \E s \in Owner, p \in Priority : t \in ToSet(Q[s][p].items)
<1>1. \A s \in Owner, p \in Priority : Q[s][p] \in [top : Nat, items : Seq(Task)]
  OBVIOUS
<1>2. \A s \in Owner, p \in Priority :
         /\ Q[s][p] = [top |-> Q[s][p].top, items |-> Q[s][p].items]
         /\ Q[s][p].top \in Nat /\ Q[s][p].items \in Seq(Task)
  BY <1>1
<1>3. \A s \in Owner, p \in Priority :
         /\ Len(Q[s][p].items) \in Nat
         /\ DOMAIN Q[s][p].items = 1 .. Len(Q[s][p].items)
  BY <1>2, LenProperties
<1>4. \A t : (\E s \in Slot \cup {Shared}, p \in Priority : Contains(Q[s][p].items, t))
             <=> \E s \in Owner, p \in Priority : t \in ToSet(Q[s][p].items)
  BY <1>3 DEF Contains, ToSet, Owner
<1> QED
  BY <1>2, <1>3, <1>4

\* A queue is its top and its items; a task is queued when it waits in one.
LEMMA Queues ==
    ASSUME QueuesType
    PROVE  /\ \A s \in Owner, p \in Priority :
                 /\ queues[s][p] = [top |-> queues[s][p].top, items |-> Items(s, p)]
                 /\ queues[s][p].top \in Nat /\ Items(s, p) \in Seq(Task)
                 /\ Len(Items(s, p)) \in Nat /\ Used(s, p) \in Nat
           /\ \A t : Queued(t) <=> \E s \in Owner, p \in Priority : t \in Waiting(s, p)
<1>1. /\ \A s \in Owner, p \in Priority :
            /\ queues[s][p] = [top |-> queues[s][p].top, items |-> Items(s, p)]
            /\ queues[s][p].top \in Nat /\ Items(s, p) \in Seq(Task)
            /\ Len(Items(s, p)) \in Nat
      /\ \A t : Queued(t) <=> \E s \in Owner, p \in Priority : t \in Waiting(s, p)
  BY QueueTypes DEF QueuesType, Queued, Waiting, Items
<1>2. \A s \in Owner, p \in Priority : Used(s, p) \in Nat
  <2> SUFFICES ASSUME NEW s \in Owner, NEW p \in Priority PROVE Used(s, p) \in Nat
    OBVIOUS
  <2>1. queues[s][p].top \in Nat /\ Len(Items(s, p)) \in Nat
    BY <1>1
  <2> QED
    BY <2>1 DEF Used
<1> QED
  BY <1>1, <1>2

\* A task that waits in some queue after a step is queued after it.
LEMMA QueuedNext ==
    ASSUME QueuesType', NEW s \in Owner, NEW p \in Priority, NEW t, t \in Waiting(s, p)'
    PROVE  Queued(t)'
BY QueueTypes DEF QueuesType, Queued, Waiting

\* One queue changes.
Becomes(o, p, n, q) == queues' = [queues EXCEPT ![o][p] = [top |-> n, items |-> q]]

\* One queue takes its new value, every other one keeps its own.
LEMMA QueueUpdate ==
    ASSUME QueuesType, NEW o \in Owner, NEW p \in Priority, NEW n \in Nat, NEW q \in Seq(Task),
           Becomes(o, p, n, q)
    PROVE  /\ QueuesType'
           /\ Items(o, p)' = q /\ queues'[o][p].top = n /\ Waiting(o, p)' = ToSet(q)
           /\ \A s \in Owner, r \in Priority : s # o \/ r # p =>
                 /\ queues'[s][r] = queues[s][r]
                 /\ Items(s, r)' = Items(s, r) /\ Waiting(s, r)' = Waiting(s, r)
<1>1. [top |-> n, items |-> q] \in [top : Nat, items : Seq(Task)]
  OBVIOUS
<1>2. QueuesType'
  BY <1>1 DEF QueuesType, Becomes
<1>3. queues'[o][p] = [top |-> n, items |-> q]
  BY DEF QueuesType, Becomes
<1>4. \A s \in Owner, r \in Priority : s # o \/ r # p => queues'[s][r] = queues[s][r]
  BY DEF QueuesType, Becomes
<1> QED
  BY <1>2, <1>3, <1>4 DEF Items, Waiting

\* A worker removes t from a queue and starts it.
LEMMA TaskStarts ==
    ASSUME OneSubmitter, Types, TasksInv, NoTaskIsLost, QueuesType',
           NEW s \in Slot, pc[s] \in {"poll", "steal"},
           NEW o \in Owner, NEW p \in Priority, NEW t \in Waiting(o, p),
           Waiting(o, p)' = Waiting(o, p) \ {t},
           \A r \in Owner, q \in Priority : r # o \/ q # p => Waiting(r, q)' = Waiting(r, q),
           task' = [task EXCEPT ![s] = t],
           started' = [started EXCEPT ![t] = @ + 1],
           pc' = [pc EXCEPT ![s] = "processing"],
           UNCHANGED <<issued, done>>
    PROVE  TasksInv' /\ NoTaskIsLost' /\ HistoriesType'
<1>1. t \in Task /\ t \in 1 .. issued /\ started[t] = 0 /\ ~(Carrying /\ t = task[Main])
  BY TaskAssumption DEF TasksInv, QueuedAreNew, Types, Task, SharedType
<1>2. /\ started'[t] = 1 /\ \A u \in Task : u # t => started'[u] = started[u]
      /\ started' \in [Task -> Nat]
  BY <1>1 DEF Types, HistoriesType
<1>3. /\ pc'[s] = "processing" /\ task'[s] = t
      /\ \A c \in Caller : c # s => pc'[c] = pc[c] /\ task'[c] = task[c]
  BY Callers DEF Types, PlacesType, LocalsType
<1>4. (Carrying' <=> Carrying) /\ task'[Main] = task[Main]
  BY <1>3, Callers DEF Carrying
<1>5. \A r \in Owner, q \in Priority : Waiting(r, q)' \subseteq Waiting(r, q) \ {t}
  BY DEF TasksInv, QueuesDisjoint
<1>6. \A r \in Slot : pc[r] \in Busy => task[r] # t
  BY <1>1 DEF TasksInv, HeldAreStarted
<1>7. \A r \in Slot : r # s => pc'[r] = pc[r] /\ task'[r] = task[r]
  BY <1>3, Callers
<1>8. TasksInv'
  <2>1. StartedOnce'
    BY <1>1, <1>2 DEF TasksInv, StartedOnce
  <2>2. CarriedIsNew'
    BY <1>1, <1>2, <1>4 DEF TasksInv, CarriedIsNew, Types, SharedType, Task
  <2>3. QueuedAreNew'
    BY <1>2, <1>4, <1>5 DEF TasksInv, QueuedAreNew, Types, SharedType, Task
  <2>4. QueuesDisjoint'
    BY <1>5 DEF TasksInv, QueuesDisjoint
  <2>5. HeldAreStarted'
    <3>1. t \notin done
      BY <1>1 DEF TasksInv, DoneWereStarted
    <3> QED
      BY <1>1, <1>2, <1>3, <1>6, <1>7, <3>1 DEF TasksInv, HeldAreStarted
  <2>6. HeldByOne'
    BY <1>3, <1>6, <1>7 DEF TasksInv, HeldByOne
  <2>7. DoneWereStarted'
    BY <1>1, <1>2 DEF TasksInv, DoneWereStarted, Types, HistoriesType
  <2> QED
    BY <2>1, <2>2, <2>3, <2>4, <2>5, <2>6, <2>7 DEF TasksInv
<1>9. NoTaskIsLost'
  <2> SUFFICES ASSUME NEW u \in 1 .. issued
               PROVE  (\/ \E c \in Submitter : pc[c] \in {"insert", "store"} /\ task[c] = u
                       \/ Queued(u)
                       \/ started[u] > 0)'
    BY DEF NoTaskIsLost
  <2>1. u \in Task /\ Main \in Caller /\ Submitter = {Main}
    BY Callers, TaskAssumption DEF Types, SharedType, Task
  <2>2. CASE u = t
    BY <1>2, <2>2
  <2>3. CASE u # t /\ \E c \in Submitter : pc[c] \in {"insert", "store"} /\ task[c] = u
    BY <1>3, <2>1, <2>3, Callers
  <2>4. CASE u # t /\ Queued(u)
    <3>1. PICK r \in Owner, q \in Priority : u \in Waiting(r, q)
      BY <2>4, Queues DEF Types
    <3>2. u \in Waiting(r, q)'
      BY <2>4, <3>1
    <3>3. Queued(u)'
      BY <3>2, QueuedNext
    <3> QED
      BY <3>3
  <2>5. CASE u # t /\ started[u] > 0
    BY <1>2, <2>1, <2>5
  <2> QED
    BY <2>2, <2>3, <2>4, <2>5 DEF NoTaskIsLost
<1>10. HistoriesType'
  BY <1>2 DEF Types, HistoriesType
<1> QED
  BY <1>8, <1>9, <1>10

----------------------------------------------------------------------------
(* Steps that leave a part of the state alone                              *)

\* No task moves, none is issued or done.
LEMMA TasksStay ==
    ASSUME OneSubmitter, IInv,
           UNCHANGED <<pending, queues, issued, task, prio, started, done>>,
           Carrying' <=> Carrying,
           pc'[Main] = "store" => pc[Main] = "store" /\ seen'[Main] = seen[Main],
           \A s \in Slot : pc'[s] \in Busy => pc[s] \in Busy
    PROVE  /\ QueuesType' /\ HistoriesType'
           /\ QueuesInv' /\ TasksInv' /\ NoTaskIsLost' /\ CountInv'
<1>1. QueuesType' /\ HistoriesType'
  BY DEF IInv, Types, QueuesType, HistoriesType
<1>2. QueuesInv'
  BY DEF IInv, QueuesInv, ItemsDiffer, UsedBounded, BottomRead, Used, Items
<1>3. TasksInv'
  <2>1. StartedOnce' /\ CarriedIsNew' /\ DoneWereStarted'
    BY DEF IInv, TasksInv, StartedOnce, CarriedIsNew, DoneWereStarted
  <2>2. QueuedAreNew' /\ QueuesDisjoint'
    <3>1. \A s \in Owner, p \in Priority : Waiting(s, p)' = Waiting(s, p)
      BY DEF Waiting
    <3>2. QueuedAreNew'
      BY <3>1 DEF IInv, TasksInv, QueuedAreNew
    <3>3. QueuesDisjoint'
      BY <3>1 DEF IInv, TasksInv, QueuesDisjoint
    <3> QED
      BY <3>2, <3>3
  <2>3. HeldAreStarted' /\ HeldByOne'
    BY DEF IInv, TasksInv, HeldAreStarted, HeldByOne
  <2> QED
    BY <2>1, <2>2, <2>3 DEF TasksInv
<1>4. NoTaskIsLost'
  BY Callers DEF IInv, NoTaskIsLost, Queued, Carrying
<1>5. CountInv'
  BY DEF IInv, CountInv
<1> QED
  BY <1>1, <1>2, <1>3, <1>4, <1>5

\* No worker goes on polling, and those that poll stay where they are.
LEMMA PollsStay ==
    ASSUME PollInv, UNCHANGED queues,
           \A s \in Slot : pc'[s] \in {"poll", "steal"} =>
              pc'[s] = pc[s] /\ at'[s] = at[s] /\ seen'[s] = seen[s]
    PROVE  PollInv'
BY DEF PollInv, PollInvOf, Items, Polled

\* No worker is started.
LEMMA ThreadsStay ==
    ASSUME OneSubmitter, ThreadsInv, UNCHANGED <<live, handle>>,
           \A c \in Caller :
              /\ \A x \in {"unborn", "spawn", "assign"} : pc'[c] = x <=> pc[c] = x
              /\ pc[c] \in {"spawn", "assign"} => seen'[c] = seen[c]
              /\ pc'[c] = "cas" => (pc[c] = "cas" /\ seen'[c] = seen[c]) \/ seen'[c] < MaxWorkers
    PROVE  ThreadsInv'
<1>1. UnbornAbove' /\ CasInRange'
  BY Callers DEF ThreadsInv, UnbornAbove, CasInRange
<1>2. SpawnerInv'
  BY Callers DEF ThreadsInv, SpawnerInv, Spawning
<1>3. SpawnersDiffer'
  BY DEF ThreadsInv, SpawnersDiffer, Spawning
<1>4. HandlesStored'
  BY Callers DEF ThreadsInv, HandlesStored, Spawning
<1> QED
  BY <1>1, <1>2, <1>3, <1>4 DEF ThreadsInv


\* A worker takes t out of a queue, from either end: the queue still starts at
\* the next task to steal, and no thief can mistake it for the one it read.
LEMMA TaskTaken ==
    ASSUME OneSubmitter, IInv, NEW s \in Slot, pc[s] \in {"poll", "steal"},
           NEW o \in Owner, NEW p \in Priority, NEW n \in Nat, NEW q \in Seq(Task),
           NEW t \in Waiting(o, p),
           Becomes(o, p, n, q),
           ToSet(q) = Waiting(o, p) \ {t}, IsInjective(q),
           Len(q) = Len(Items(o, p)) - 1,
           n \in {queues[o][p].top, queues[o][p].top + 1},
           q = <<>> \/ o = Shared => n = queues[o][p].top + 1,
           StartTask(s, t),
           seen' \in [Caller -> Nat], \A c \in Caller : c # s => seen'[c] = seen[c],
           UNCHANGED <<pending, stop, live, handle, prio, owed, issued, done>>
    PROVE  IInv'
<1>1. /\ Caller = {Main} \cup Slot /\ Main \notin Slot
      /\ Types /\ QueuesType /\ PlacesType /\ LocalsType /\ SharedType
  BY Callers DEF IInv, Types
<1>2. /\ task' = [task EXCEPT ![s] = t]
      /\ started' = [started EXCEPT ![t] = @ + 1]
      /\ at' = [at EXCEPT ![s] = 0]
      /\ pc' = [pc EXCEPT ![s] = "processing"]
  BY DEF StartTask, Goto
<1>3. /\ pc'[s] = "processing" /\ \A c \in Caller : c # s => pc'[c] = pc[c]
      /\ \A r \in Slot : r # s => at'[r] = at[r]
  BY <1>1, <1>2 DEF PlacesType, LocalsType
<1>4. /\ QueuesType'
      /\ Items(o, p)' = q /\ queues'[o][p].top = n /\ Waiting(o, p)' = ToSet(q)
      /\ \A r \in Owner, i \in Priority : r # o \/ i # p =>
            /\ queues'[r][i] = queues[r][i]
            /\ Items(r, i)' = Items(r, i) /\ Waiting(r, i)' = Waiting(r, i)
  BY <1>1, QueueUpdate
<1>5. TasksInv' /\ NoTaskIsLost' /\ HistoriesType'
  <2>1. TasksInv /\ NoTaskIsLost
    BY DEF IInv
  <2>2. Waiting(o, p)' = Waiting(o, p) \ {t}
    BY <1>4
  <2>3. \A r \in Owner, i \in Priority : r # o \/ i # p => Waiting(r, i)' = Waiting(r, i)
    BY <1>4
  <2>4. QueuesType' /\ UNCHANGED <<issued, done>> /\ pc[s] \in {"poll", "steal"}
    BY <1>4
  <2> QED
    BY <1>1, <1>2, <2>1, <2>2, <2>3, <2>4, TaskStarts, Zenon
<1>6. PlacesType'
  BY <1>1, <1>2, <1>3 DEF PlacesType, WorkerPlaces, Busy, MainPlaces
<1>7. LocalsType' /\ SharedType'
  <2>1. t \in Task
    BY <1>1, TaskAssumption DEF IInv, TasksInv, QueuedAreNew, Task, SharedType
  <2>2. 0 \in 0 .. PollCount - 1
    BY <1>1, Polling DEF LocalsType
  <2> QED
    BY <1>1, <1>2, <2>1, <2>2 DEF LocalsType, SharedType
<1>8. /\ queues[o][p].top \in Nat /\ Len(Items(o, p)) \in Nat /\ Len(q) \in Nat
      /\ \A r \in Owner, i \in Priority : queues[r][i].top \in Nat
  BY <1>1, Queues, LenProperties
<1>9. QueuesInv'
  <2> DEFINE m == queues[o][p].top
             l == Len(Items(o, p))
  <2>1. Used(o, p)' <= Used(o, p) /\ (o = Shared => Used(o, p)' = Used(o, p))
        /\ Used(o, p) \in Nat /\ Used(o, p)' \in Nat
    <3>1. Used(o, p) = m + l /\ m \in Nat /\ l \in Nat /\ Len(q) \in Nat
      BY <1>8 DEF Used
    <3>2. Used(o, p)' = n + Len(q)
      BY <1>4 DEF Used
    <3>3. Len(q) = l - 1 /\ n \in {m, m + 1} /\ (o = Shared => n = m + 1)
      OBVIOUS
    <3> HIDE DEF m, l
    <3>4. Used(o, p)' \in Nat /\ Used(o, p)' <= m + l
      BY <3>1, <3>2, <3>3
    <3>5. ASSUME o = Shared PROVE Used(o, p)' = m + l
      <4>1. n = m + 1
        BY <3>3, <3>5
      <4>2. Used(o, p)' = (m + 1) + (l - 1)
        BY <3>2, <3>3, <4>1
      <4> QED
        BY <3>1, <4>2
    <3> QED
      BY <3>1, <3>4, <3>5
  <2>2. \A r \in Owner, i \in Priority : r # o \/ i # p => Used(r, i)' = Used(r, i)
    BY <1>4 DEF Used
  <2>3. issued \in Nat
    BY <1>1 DEF SharedType
  <2>4. Shared \in Owner /\ pc'[Main] = pc[Main] /\ seen'[Main] = seen[Main]
        /\ prio[Main] \in Priority
    BY <1>1, <1>3 DEF Owner, LocalsType
  <2>5. \A i \in Priority : Used(Shared, i)' = Used(Shared, i)
    BY <2>1, <2>2, <2>4
  <2>6. ItemsDiffer'
    BY <1>4 DEF IInv, QueuesInv, ItemsDiffer
  <2>7. \A r \in Owner, i \in Priority : Used(r, i) <= issued
    BY DEF IInv, QueuesInv, UsedBounded
  <2>8. \A r \in Owner, i \in Priority : Used(r, i)' <= issued
    <3> SUFFICES ASSUME NEW r \in Owner, NEW i \in Priority PROVE Used(r, i)' <= issued
      OBVIOUS
    <3>1. CASE r = o /\ i = p
      BY <2>1, <2>3, <2>7, <3>1
    <3>2. CASE r # o \/ i # p
      BY <2>2, <2>7, <3>2
    <3> QED
      BY <3>1, <3>2
  <2>9. UsedBounded'
    BY <2>4, <2>5, <2>8 DEF IInv, QueuesInv, UsedBounded, Carrying
  <2>10. BottomRead'
    BY <2>4, <2>5 DEF IInv, QueuesInv, BottomRead
  <2> QED
    BY <2>6, <2>9, <2>10 DEF QueuesInv
<1>10. PollInv'
  <2> SUFFICES ASSUME NEW r \in Slot, pc'[r] \in {"poll", "steal"} PROVE PollInvOf(r)'
    BY DEF PollInv
  <2>1. r # s /\ pc'[r] = pc[r] /\ at'[r] = at[r] /\ seen'[r] = seen[r] /\ r \in Owner
        /\ r \in Caller
    BY <1>1, <1>3 DEF Owner
  <2>2. PollInvOf(r)
    BY <2>1 DEF IInv, PollInv
  <2>3. PollOwner(r, at[r]) \in Owner /\ PollPriority(at[r]) \in Priority
    BY <1>1, Polling DEF LocalsType
  <2>4. \A i \in Priority : Items(r, i) = <<>> => Items(r, i)' = <<>>
    <3>1. Items(o, p) # <<>>
      BY <1>8, EmptySeq
    <3> QED
      BY <1>4, <2>1, <3>1
  <2>5. CASE PollOwner(r, at[r]) # o \/ PollPriority(at[r]) # p
    <3>1. Polled(r)' = Polled(r)
      BY <1>4, <2>1, <2>3, <2>5 DEF Polled
    <3> QED
      BY <2>1, <2>2, <2>4, <3>1 DEF PollInvOf
  <2>6. CASE PollOwner(r, at[r]) = o /\ PollPriority(at[r]) = p
    <3>1. Polled(r)'.top = n /\ Polled(r)'.items = q /\ Polled(r).top = queues[o][p].top
      BY <1>4, <2>1, <2>6 DEF Polled, Items
    <3>2. seen[r] \in Nat
      BY <1>1, <2>1 DEF LocalsType
    <3>3. seen[r] <= queues[o][p].top =>
             seen[r] <= n /\ (seen[r] = n => n = queues[o][p].top /\ q # <<>>)
      BY <1>8, <3>2
    <3> QED
      BY <2>1, <2>2, <2>4, <3>1, <3>3 DEF PollInvOf
  <2> QED
    BY <2>5, <2>6
<1>11. CountInv' /\ WaitInv'
  BY <1>1, <1>3 DEF IInv, CountInv, WaitInv
<1>12. ThreadsInv'
  BY <1>1, <1>3, ThreadsStay DEF IInv
<1> QED
  BY <1>4, <1>5, <1>6, <1>7, <1>9, <1>10, <1>11, <1>12 DEF IInv, Types

\* t becomes the youngest task of a queue.
Appended(t, o, p) ==
    queues' = [queues EXCEPT ![o][p] =
                  [queues[o][p] EXCEPT !.items = Append(Items(o, p), t)]]

\* No task is in two queues or twice in one, and no poller is misled: a queue a
\* thief reads may grow behind its top.
LEMMA TaskAppended ==
    ASSUME OneSubmitter, IInv, NEW o \in Owner, NEW p \in Priority, NEW t \in Task,
           \A r \in Owner, i \in Priority : t \notin Waiting(r, i),
           Appended(t, o, p),
           \A r \in Slot : pc'[r] \in {"poll", "steal"} =>
              r # o /\ pc'[r] = pc[r] /\ at'[r] = at[r] /\ seen'[r] = seen[r]
    PROVE  /\ QueuesType' /\ ItemsDiffer' /\ PollInv' /\ QueuesDisjoint'
           /\ Waiting(o, p)' = Waiting(o, p) \cup {t}
           /\ Used(o, p)' = Used(o, p) + 1 /\ Used(o, p) \in Nat
           /\ \A r \in Owner, i \in Priority : r # o \/ i # p =>
                 Used(r, i)' = Used(r, i) /\ Waiting(r, i)' = Waiting(r, i)
<1>1. QueuesType /\ LocalsType /\ PollInv /\ Caller = {Main} \cup Slot
  BY Callers DEF IInv, Types
<1>2. PICK old \in Seq(Task), n \in Nat :
         /\ old = Items(o, p) /\ n = queues[o][p].top /\ Len(old) \in Nat
         /\ queues[o][p] = [top |-> n, items |-> old]
  BY <1>1, Queues
<1>3. PICK q \in Seq(Task) :
         /\ q = Append(old, t) /\ Len(q) = Len(old) + 1
         /\ ToSet(q) = Waiting(o, p) \cup {t} /\ IsInjective(q)
  BY <1>2, AppendElements DEF Waiting, Items, IInv, QueuesInv, ItemsDiffer
<1>4. Becomes(o, p, n, q)
  <2>1. \A x : [[top |-> n, items |-> old] EXCEPT !.items = x] = [top |-> n, items |-> x]
    OBVIOUS
  <2>2. [queues[o][p] EXCEPT !.items = q] = [top |-> n, items |-> q]
    BY <1>2, <2>1
  <2> QED
    BY <1>2, <1>3, <2>2 DEF Appended, Becomes
<1>5. /\ QueuesType'
      /\ Items(o, p)' = q /\ queues'[o][p].top = n
      /\ Waiting(o, p)' = ToSet(q)
      /\ \A r \in Owner, i \in Priority : r # o \/ i # p =>
            /\ queues'[r][i] = queues[r][i]
            /\ Items(r, i)' = Items(r, i) /\ Waiting(r, i)' = Waiting(r, i)
  <2>1. QueuesType /\ n \in Nat /\ q \in Seq(Task)
    BY <1>1, <1>2, <1>3
  <2> QED
    BY <1>4, <2>1, QueueUpdate
<1>6. ItemsDiffer'
  BY <1>3, <1>5 DEF IInv, QueuesInv, ItemsDiffer
<1>7. QueuesDisjoint'
  BY <1>3, <1>5 DEF IInv, TasksInv, QueuesDisjoint
<1>8. Used(o, p)' = Used(o, p) + 1 /\ Used(o, p) \in Nat
  <2>1. Used(o, p) = n + Len(old)
    BY <1>2 DEF Used
  <2>2. Used(o, p)' = n + Len(q)
    BY <1>5 DEF Used
  <2> QED
    BY <1>2, <1>3, <2>1, <2>2
<1>9. \A r \in Owner, i \in Priority : r # o \/ i # p => Used(r, i)' = Used(r, i)
  BY <1>5 DEF Used
<1>10. PollInv'
  <2> SUFFICES ASSUME NEW r \in Slot, pc'[r] \in {"poll", "steal"} PROVE PollInvOf(r)'
    BY DEF PollInv
  <2>1. /\ r # o /\ pc'[r] = pc[r] /\ at'[r] = at[r] /\ seen'[r] = seen[r] /\ r \in Owner
        /\ PollInvOf(r)
    BY <1>1 DEF Owner, PollInv
  <2>2. PollOwner(r, at[r]) \in Owner /\ PollPriority(at[r]) \in Priority
    BY <1>1, Polling DEF LocalsType
  <2>3. q # <<>>
    BY <1>2, <1>3, EmptySeq
  <2>4. CASE PollOwner(r, at[r]) # o \/ PollPriority(at[r]) # p
    <3>1. Polled(r)' = Polled(r)
      BY <1>5, <2>1, <2>2, <2>4 DEF Polled
    <3> QED
      BY <1>5, <2>1, <3>1 DEF PollInvOf
  <2>5. CASE PollOwner(r, at[r]) = o /\ PollPriority(at[r]) = p
    <3>1. Polled(r)'.top = n /\ Polled(r)'.items = q /\ Polled(r).top = n
      BY <1>2, <1>5, <2>1, <2>5 DEF Polled, Items
    <3> QED
      BY <1>5, <2>1, <2>3, <3>1 DEF PollInvOf
  <2> QED
    BY <2>4, <2>5
<1> QED
  BY <1>3, <1>5, <1>6, <1>7, <1>8, <1>9, <1>10
----------------------------------------------------------------------------
(* Submit and MaybeGrowThreads                                             *)

\* An outside submission: the task is issued and counted, and Main carries it.
LEMMA SubmitStep ==
    ASSUME OneSubmitter, IInv, NEW c \in Submitter, Submit(c)
    PROVE  IInv'
<1>1. /\ c = Main /\ Main \in Caller /\ Main \notin Slot /\ Caller = {Main} \cup Slot
      /\ pc[Main] = "idle" /\ ~Carrying
      /\ PlacesType /\ LocalsType /\ SharedType /\ QueuesType /\ HistoriesType
  BY Callers DEF Submit, Carrying, IInv, Types
<1>2. issued + 1 \in Task /\ issued \in Nat /\ issued < MaxTasks /\ issued' = issued + 1
  BY <1>1, TaskAssumption DEF Submit, Task, SharedType
<1>3. /\ pc' = [pc EXCEPT ![Main] = "insert"] /\ task' = [task EXCEPT ![Main] = issued + 1]
      /\ UNCHANGED <<stop, live, queues, handle, seen, at, owed, started, done>>
      /\ pending' = pending + 1
  BY <1>1 DEF Submit, Goto, histories
<1>4. /\ Carrying' /\ pc'[Main] = "insert" /\ task'[Main] = issued + 1
      /\ \A s \in Slot : pc'[s] = pc[s] /\ task'[s] = task[s]
  BY <1>1, <1>3 DEF PlacesType, LocalsType, Carrying
<1>5. PlacesType'
  BY <1>1, <1>3 DEF PlacesType, Submitting, MainPlaces
<1>6. LocalsType'
  BY <1>1, <1>2, <1>3 DEF LocalsType, Submit
<1>7. SharedType'
  BY <1>1, <1>2, <1>3, TaskAssumption DEF SharedType
<1>8. QueuesType' /\ HistoriesType'
  BY <1>1, <1>3 DEF QueuesType, HistoriesType
<1>9. QueuesInv'
  <2>1. \A s \in Owner, p \in Priority : Used(s, p)' = Used(s, p) /\ Items(s, p)' = Items(s, p)
    BY <1>3 DEF Used, Items
  <2>2. \A s \in Owner, p \in Priority : Used(s, p) \in Nat /\ Used(s, p) <= issued
    BY <1>1, Queues DEF IInv, QueuesInv, UsedBounded
  <2>3. ItemsDiffer'
    BY <2>1 DEF IInv, QueuesInv, ItemsDiffer
  <2>4. \A s \in Owner, p \in Priority : Used(s, p)' <= issued' /\ Used(s, p)' < issued'
    BY <1>2, <2>1, <2>2
  <2>5. UsedBounded'
    BY <2>4 DEF UsedBounded, Owner
  <2>6. BottomRead'
    BY <1>4 DEF BottomRead
  <2> QED
    BY <2>3, <2>5, <2>6 DEF QueuesInv
<1>10. PollInv'
  BY <1>3, <1>4, PollsStay DEF IInv
<1>11. started[issued + 1] = 0
  BY <1>1, <1>2 DEF IInv, TasksInv, StartedOnce, HistoriesType
<1>12. TasksInv'
  <2>1. \A s \in Owner, p \in Priority : Waiting(s, p)' = Waiting(s, p)
    BY <1>3 DEF Waiting
  <2>2. StartedOnce'
    BY <1>2, <1>3 DEF IInv, TasksInv, StartedOnce, Task
  <2>3. CarriedIsNew'
    BY <1>2, <1>3, <1>4, <1>11 DEF CarriedIsNew
  <2>4. QueuedAreNew'
    BY <1>2, <1>3, <1>4, <2>1 DEF IInv, TasksInv, QueuedAreNew
  <2>5. QueuesDisjoint'
    BY <2>1 DEF IInv, TasksInv, QueuesDisjoint
  <2>6. HeldAreStarted' /\ HeldByOne' /\ DoneWereStarted'
    BY <1>3, <1>4 DEF IInv, TasksInv, HeldAreStarted, HeldByOne, DoneWereStarted
  <2> QED
    BY <2>2, <2>3, <2>4, <2>5, <2>6 DEF TasksInv
<1>13. NoTaskIsLost'
  BY <1>1, <1>2, <1>3, <1>4, Callers DEF IInv, NoTaskIsLost, Queued, Carrying
<1>14. CountInv'
  <2>1. Cardinality(done) \in Nat
    BY <1>1, FS_CardinalityType DEF HistoriesType
  <2> QED
    BY <1>1, <1>2, <1>3, <2>1 DEF IInv, CountInv, SharedType
<1>15. ThreadsInv'
  BY <1>1, <1>3, <1>4, ThreadsStay DEF IInv
<1>16. WaitInv'
  BY <1>1, <1>3, <1>4 DEF IInv, WaitInv
<1> QED
  BY <1>5, <1>6, <1>7, <1>8, <1>9, <1>10, <1>12, <1>13, <1>14, <1>15, <1>16 DEF IInv, Types

\* Insert has read bottom_: no one else moves it, for Main alone inserts there.
LEMMA LoadBottomStep ==
    ASSUME OneSubmitter, IInv, NEW c \in Submitter, LoadBottom(c)
    PROVE  IInv'
<1>1. /\ c = Main /\ Main \in Caller /\ Main \notin Slot /\ Caller = {Main} \cup Slot
      /\ pc[Main] = "insert" /\ Shared \in Owner
      /\ PlacesType /\ LocalsType /\ SharedType /\ QueuesType /\ HistoriesType
  BY Callers DEF LoadBottom, IInv, Types, Owner
<1>2. /\ pc' = [pc EXCEPT ![Main] = "store"]
      /\ seen' = [seen EXCEPT ![Main] = Used(Shared, prio[Main])]
      /\ UNCHANGED <<pending, stop, live, queues, handle, task, prio, at, owed, issued,
                     started, done>>
  BY <1>1 DEF LoadBottom, Goto, activity, histories, Bottom, Used, Items
<1>3. /\ (Carrying' <=> Carrying) /\ pc'[Main] = "store"
      /\ \A s \in Slot : pc'[s] = pc[s] /\ seen'[s] = seen[s]
      /\ seen'[Main] = Used(Shared, prio[Main])
  BY <1>1, <1>2 DEF PlacesType, LocalsType, Carrying
<1>4. PlacesType'
  BY <1>1, <1>2 DEF PlacesType, Submitting, MainPlaces
<1>5. LocalsType'
  <2>1. Used(Shared, prio[Main]) \in Nat
    BY <1>1, Queues DEF LocalsType
  <2> QED
    BY <1>1, <1>2, <2>1 DEF LocalsType
<1>6. SharedType' /\ QueuesType' /\ HistoriesType'
  BY <1>1, <1>2 DEF SharedType, QueuesType, HistoriesType
<1>7. QueuesInv'
  <2>1. \A s \in Owner, p \in Priority : Used(s, p)' = Used(s, p) /\ Items(s, p)' = Items(s, p)
    BY <1>2 DEF Used, Items
  <2>2. Used(Shared, prio[Main])' = Used(Shared, prio[Main])
    BY <1>2 DEF Used, Items
  <2>3. ItemsDiffer' /\ UsedBounded'
    BY <1>1, <1>2, <1>3, <2>1 DEF IInv, QueuesInv, ItemsDiffer, UsedBounded
  <2>4. BottomRead'
    BY <1>2, <1>3, <2>2 DEF BottomRead
  <2> QED
    BY <2>3, <2>4 DEF QueuesInv
<1>8. PollInv'
  BY <1>2, <1>3, PollsStay DEF IInv
<1>9. TasksInv'
  <2>1. \A s \in Owner, p \in Priority : Waiting(s, p)' = Waiting(s, p)
    BY <1>2 DEF Waiting
  <2>2. StartedOnce' /\ CarriedIsNew' /\ DoneWereStarted'
    BY <1>2, <1>3 DEF IInv, TasksInv, StartedOnce, CarriedIsNew, DoneWereStarted
  <2>3. QueuedAreNew'
    BY <1>2, <1>3, <2>1 DEF IInv, TasksInv, QueuedAreNew
  <2>4. QueuesDisjoint'
    BY <2>1 DEF IInv, TasksInv, QueuesDisjoint
  <2>5. HeldAreStarted' /\ HeldByOne'
    BY <1>2, <1>3 DEF IInv, TasksInv, HeldAreStarted, HeldByOne
  <2> QED
    BY <2>2, <2>3, <2>4, <2>5 DEF TasksInv
<1>10. NoTaskIsLost'
  BY <1>1, <1>2, <1>3, Callers DEF IInv, NoTaskIsLost, Queued, Carrying
<1>11. CountInv' /\ WaitInv'
  BY <1>1, <1>2, <1>3 DEF IInv, CountInv, WaitInv
<1>12. ThreadsInv'
  BY <1>1, <1>2, <1>3, ThreadsStay DEF IInv
<1> QED
  BY <1>4, <1>5, <1>6, <1>7, <1>8, <1>9, <1>10, <1>11, <1>12 DEF IInv, Types

\* Insert stores the task where it read bottom_, which is still the end.
LEMMA StoreTaskStep ==
    ASSUME OneSubmitter, IInv, NEW c \in Caller, StoreTask(c)
    PROVE  IInv'
<1>1. /\ c = Main /\ Main \in Caller /\ Main \notin Slot /\ Caller = {Main} \cup Slot
      /\ pc[Main] = "store" /\ Carrying
      /\ PlacesType /\ LocalsType /\ SharedType /\ QueuesType /\ HistoriesType
  BY Callers DEF StoreTask, IInv, Types, PlacesType, WorkerPlaces, Busy, Growing, Carrying
<1>2. PICK p \in Priority : p = prio[Main]
  BY <1>1 DEF LocalsType
<1>3. PICK t \in Task : t = task[Main] /\ t \in 1 .. issued /\ started[t] = 0 /\ issued \in Nat
  BY <1>1, TaskAssumption DEF IInv, TasksInv, CarriedIsNew, Task, SharedType
<1>4. \A s \in Owner, r \in Priority : t \notin Waiting(s, r)
  BY <1>1, <1>3 DEF IInv, TasksInv, QueuedAreNew
<1>5. Appended(t, Shared, p)
  <2> DEFINE q == Items(Shared, p)
  <2>0. Shared \in Owner /\ q \in Seq(Task) /\ queues[Shared][p].top \in Nat /\ Len(q) \in Nat
    BY <1>1, Queues DEF Owner
  <2>1. seen[Main] = queues[Shared][p].top + Len(q)
    BY <1>1, <1>2 DEF IInv, QueuesInv, BottomRead, Used
  <2>2. SubSeq(q, 1, Len(q)) = q
    BY <2>0, SubSeqFull
  <2>3. ~(seen[Main] < queues[Shared][p].top) /\ seen[Main] - queues[Shared][p].top = Len(q)
    BY <2>0, <2>1
  <2>4. StoreAt(queues[Shared][p], seen[Main], t)
        = [queues[Shared][p] EXCEPT !.items = Append(q, t)]
    BY <2>2, <2>3 DEF StoreAt, Items
  <2> QED
    BY <1>1, <1>2, <1>3, <2>4 DEF StoreTask, Appended
<1>6. /\ pc' = [pc EXCEPT ![Main] = "grow"] /\ task' = [task EXCEPT ![Main] = None]
      /\ seen' = [seen EXCEPT ![Main] = 0] /\ prio' = [prio EXCEPT ![Main] = 0]
      /\ UNCHANGED <<pending, stop, live, handle, at, owed, issued, started, done>>
  BY <1>1 DEF StoreTask, Goto, activity, histories
<1>7. /\ ~Carrying' /\ pc'[Main] = "grow"
      /\ \A s \in Slot : pc'[s] = pc[s] /\ task'[s] = task[s] /\ seen'[s] = seen[s]
  BY <1>1, <1>6 DEF PlacesType, LocalsType, Carrying
<1>8. PlacesType'
  BY <1>1, <1>6 DEF PlacesType, Submitting, MainPlaces
<1>9. LocalsType'
  BY <1>1, <1>6, PriorityAssumption DEF LocalsType, Priority
<1>10. SharedType' /\ HistoriesType'
  BY <1>1, <1>6 DEF SharedType, HistoriesType
<1>11. /\ QueuesType' /\ ItemsDiffer' /\ PollInv' /\ QueuesDisjoint'
       /\ Waiting(Shared, p)' = Waiting(Shared, p) \cup {t}
       /\ Used(Shared, p)' = Used(Shared, p) + 1 /\ Used(Shared, p) \in Nat
       /\ \A s \in Owner, r \in Priority : s # Shared \/ r # p =>
             Used(s, r)' = Used(s, r) /\ Waiting(s, r)' = Waiting(s, r)
  <2>1. Shared \in Owner /\ \A r \in Slot : r # Shared
    BY WorkerAssumption DEF Owner, Slot, Shared
  <2>2. \A r \in Slot : pc'[r] \in {"poll", "steal"} =>
           r # Shared /\ pc'[r] = pc[r] /\ at'[r] = at[r] /\ seen'[r] = seen[r]
    BY <1>6, <1>7, <2>1
  <2> QED
    BY <1>4, <1>5, <2>1, <2>2, TaskAppended
<1>12. UsedBounded'
  <2>1. \A s \in Owner, r \in Priority : Used(s, r) <= issued
    BY DEF IInv, QueuesInv, UsedBounded
  <2>2. Used(Shared, p) < issued
    BY <1>1, <1>2 DEF IInv, QueuesInv, UsedBounded
  <2>3. Used(Shared, p)' <= issued
    BY <1>3, <1>11, <2>2
  <2> QED
    BY <1>6, <1>7, <1>11, <2>1, <2>3 DEF UsedBounded
<1>13. QueuesInv'
  BY <1>7, <1>11, <1>12 DEF QueuesInv, BottomRead
<1>14. TasksInv'
  <2>1. StartedOnce' /\ CarriedIsNew' /\ DoneWereStarted'
    BY <1>6, <1>7 DEF IInv, TasksInv, StartedOnce, CarriedIsNew, DoneWereStarted
  <2>2. QueuedAreNew'
    BY <1>3, <1>6, <1>7, <1>11 DEF IInv, TasksInv, QueuedAreNew
  <2>3. HeldAreStarted' /\ HeldByOne'
    BY <1>6, <1>7 DEF IInv, TasksInv, HeldAreStarted, HeldByOne
  <2> QED
    BY <1>11, <2>1, <2>2, <2>3 DEF TasksInv
<1>15. NoTaskIsLost'
  <2> SUFFICES ASSUME NEW u \in 1 .. issued
               PROVE  (Queued(u) \/ started[u] > 0)'
    BY <1>6 DEF NoTaskIsLost
  <2>1. CASE u = t
    BY <1>11, <2>1, QueuedNext DEF Owner
  <2>2. CASE Queued(u)
    <3>1. PICK s \in Owner, r \in Priority : u \in Waiting(s, r)
      BY <1>1, <2>2, Queues
    <3>2. u \in Waiting(s, r)'
      BY <1>11, <3>1
    <3> QED
      BY <1>11, <3>2, QueuedNext
  <2>3. CASE started[u] > 0
    BY <1>6, <2>3
  <2> QED
    BY <1>3, <2>1, <2>2, <2>3, Callers DEF IInv, NoTaskIsLost
<1>16. CountInv' /\ WaitInv'
  BY <1>1, <1>6, <1>7 DEF IInv, CountInv, WaitInv
<1>17. ThreadsInv'
  BY <1>1, <1>6, <1>7, ThreadsStay DEF IInv
<1> QED
  BY <1>8, <1>9, <1>10, <1>11, <1>13, <1>14, <1>15, <1>16, <1>17 DEF IInv, Types

\* A caller goes on without touching queues or tasks: a worker keeps the task
\* it has, Main neither carries one nor waits.
LEMMA CallerGoesOn ==
    ASSUME OneSubmitter, IInv, NEW c \in Caller,
           pc[c] \in Growing,
           c \in Slot => pc'[c] \in Busy,
           c = Main => pc'[c] \in Growing \cup {"idle"},
           pc' \in [Caller -> WorkerPlaces \cup MainPlaces],
           \A s \in Slot : s # c => pc'[s] = pc[s] \/ (pc[s] = "unborn" /\ pc'[s] = "loop"),
           c # Main => pc'[Main] = pc[Main],
           UNCHANGED <<pending, stop, queues, task, prio, at, owed, issued, started, done>>,
           \A d \in Caller : d # c => seen'[d] = seen[d],
           LocalsType', SharedType', ThreadsInv'
    PROVE  IInv'
<1>1. /\ Caller = {Main} \cup Slot /\ Main \notin Slot
      /\ PlacesType /\ QueuesType /\ HistoriesType /\ PollInv
  BY Callers DEF IInv, Types
<1>2. PlacesType'
  <2>1. \A s \in Slot : pc'[s] \in WorkerPlaces
    BY <1>1 DEF PlacesType, WorkerPlaces
  <2>2. pc'[Main] \in MainPlaces
    BY <1>1 DEF PlacesType, MainPlaces, Submitting, Growing
  <2> QED
    BY <2>1, <2>2 DEF PlacesType
<1>3. /\ QueuesType' /\ HistoriesType'
      /\ QueuesInv' /\ TasksInv' /\ NoTaskIsLost' /\ CountInv'
  <2>1. Carrying' <=> Carrying
    BY <1>1 DEF Carrying, Growing
  <2>2. pc'[Main] = "store" => pc[Main] = "store" /\ seen'[Main] = seen[Main]
    BY <1>1 DEF Growing
  <2>3. \A s \in Slot : pc'[s] \in Busy => pc[s] \in Busy
    BY <1>1 DEF Busy, Growing
  <2> QED
    BY <2>1, <2>2, <2>3, TasksStay
<1>4. PollInv'
  <2>1. \A s \in Slot : pc'[s] \in {"poll", "steal"} =>
              pc'[s] = pc[s] /\ at'[s] = at[s] /\ seen'[s] = seen[s]
    BY <1>1 DEF Busy, Growing
  <2> QED
    BY <1>1, <2>1, PollsStay
<1>5. WaitInv'
  BY <1>1 DEF IInv, WaitInv, Growing
<1> QED
  BY <1>2, <1>3, <1>4, <1>5 DEF IInv, Types

\* MaybeGrowThreads reads live_threads_.
LEMMA GrowLoadStep ==
    ASSUME OneSubmitter, IInv, NEW c \in Caller, GrowLoad(c)
    PROVE  IInv'
<1>1. PlacesType /\ LocalsType /\ SharedType /\ ThreadsInv /\ Caller = {Main} \cup Slot
  BY Callers DEF IInv, Types
<1>2. /\ pc[c] = "grow" /\ pc' = [pc EXCEPT ![c] = "test"] /\ seen' = [seen EXCEPT ![c] = live]
      /\ UNCHANGED <<pending, stop, live, queues, handle, task, prio, at, owed, issued,
                     started, done>>
  BY DEF GrowLoad, Goto, activity, histories
<1>3. /\ pc'[c] = "test" /\ pc' \in [Caller -> WorkerPlaces \cup MainPlaces]
      /\ \A d \in Caller : d # c => pc'[d] = pc[d] /\ seen'[d] = seen[d]
  BY <1>1, <1>2 DEF PlacesType, LocalsType, MainPlaces, Submitting
<1>4. LocalsType' /\ SharedType'
  BY <1>1, <1>2, WorkerAssumption DEF LocalsType, SharedType
<1>5. ThreadsInv'
  BY <1>1, <1>2, <1>3, ThreadsStay
<1> QED
  BY <1>1, <1>2, <1>3, <1>4, <1>5, CallerGoesOn DEF Growing, Busy

\* Where a caller goes when it has grown the threads.
LEMMA AfterSubmits ==
    ASSUME OneSubmitter, NEW c \in Caller
    PROVE  /\ c \in Slot => AfterSubmit(c) = "processing"
           /\ c = Main => AfterSubmit(c) = "idle"
           /\ AfterSubmit(c) \in WorkerPlaces \cup MainPlaces
           /\ AfterSubmit(c) \notin {"unborn", "spawn", "assign", "cas"}
BY Callers DEF AfterSubmit, WorkerPlaces, Busy, MainPlaces

\* MaybeGrowThreads goes on to its compare-and-swap only below the limit.
LEMMA GrowTestStep ==
    ASSUME OneSubmitter, IInv, NEW c \in Caller, GrowTest(c)
    PROVE  IInv'
<1>1. PlacesType /\ LocalsType /\ SharedType /\ ThreadsInv /\ Caller = {Main} \cup Slot
  BY Callers DEF IInv, Types
<1>2. PICK x \in {"cas", AfterSubmit(c)} :
         /\ pc' = [pc EXCEPT ![c] = x]
         /\ x = "cas" => seen[c] < MaxWorkers /\ UNCHANGED seen
  <2>1. CASE seen[c] < MaxWorkers /\ pending # 0
    BY <2>1 DEF GrowTest, Goto
  <2>2. CASE ~(seen[c] < MaxWorkers /\ pending # 0)
    BY <2>2, AfterSubmits DEF GrowTest, Goto
  <2> QED
    BY <2>1, <2>2
<1>3. /\ pc[c] = "test" /\ (UNCHANGED seen \/ seen' = [seen EXCEPT ![c] = 0])
      /\ UNCHANGED <<pending, stop, live, queues, handle, task, prio, at, owed, issued,
                     started, done>>
  BY DEF GrowTest, activity, histories
<1>4. /\ x \in WorkerPlaces \cup MainPlaces /\ x \notin {"unborn", "spawn", "assign"}
      /\ c \in Slot => x \in {"cas", "processing"}
      /\ c = Main => x \in {"cas", "idle"}
  BY AfterSubmits DEF WorkerPlaces, Busy, Growing
<1>5. /\ pc'[c] = x /\ pc' \in [Caller -> WorkerPlaces \cup MainPlaces]
      /\ \A d \in Caller : d # c => pc'[d] = pc[d] /\ seen'[d] = seen[d]
  BY <1>1, <1>2, <1>3, <1>4 DEF PlacesType, LocalsType
<1>6. LocalsType' /\ SharedType'
  BY <1>1, <1>3 DEF LocalsType, SharedType
<1>7. ThreadsInv'
  BY <1>1, <1>2, <1>3, <1>4, <1>5, ThreadsStay
<1> QED
  BY <1>1, <1>3, <1>4, <1>5, <1>6, <1>7, CallerGoesOn DEF Growing, Busy

\* The compare-and-swap wins a slot that nobody has yet been given.
LEMMA GrowCasStep ==
    ASSUME OneSubmitter, IInv, NEW c \in Caller, GrowCas(c)
    PROVE  IInv'
<1>1. PlacesType /\ LocalsType /\ SharedType /\ ThreadsInv /\ Caller = {Main} \cup Slot
  BY Callers DEF IInv, Types
<1>2. PICK x \in {"spawn", "test"} :
         /\ pc' = [pc EXCEPT ![c] = x]
         /\ \/ live = seen[c] /\ live' = live + 1 /\ x = "spawn" /\ UNCHANGED seen
            \/ live' = live /\ x = "test" /\ seen' = [seen EXCEPT ![c] = live]
  BY DEF GrowCas, Goto
<1>3. /\ pc[c] = "cas"
      /\ UNCHANGED <<pending, stop, queues, handle, task, prio, at, owed, issued,
                     started, done>>
  BY DEF GrowCas, histories
<1>4. /\ pc'[c] = x /\ pc' \in [Caller -> WorkerPlaces \cup MainPlaces]
      /\ \A d \in Caller : d # c => pc'[d] = pc[d]
  BY <1>1, <1>2 DEF PlacesType, MainPlaces, Submitting
<1>5. CASE live = seen[c] /\ live' = live + 1 /\ x = "spawn" /\ UNCHANGED seen
  <2>1. live \in Nat /\ live < MaxWorkers /\ live \in Slot
    BY <1>1, <1>3, <1>5, WorkerAssumption DEF ThreadsInv, CasInRange, SharedType, Slot
  <2>2. LocalsType' /\ SharedType'
    BY <1>1, <1>3, <1>5, <2>1, WorkerAssumption DEF LocalsType, SharedType
  <2>3. pc[live] = "unborn" /\ handle[live] = None /\ live # c
    BY <1>1, <1>3, <2>1 DEF ThreadsInv, UnbornAbove
  <2>4. \A d \in Caller : pc[d] \in Spawning => seen[d] < live
    BY <1>1 DEF ThreadsInv, SpawnerInv
  <2>5. c \in Slot => c \in Nat /\ c < live
    BY <1>1, <1>3, <2>1, WorkerAssumption DEF ThreadsInv, UnbornAbove, Slot
  <2>6. UnbornAbove'
    <3>1. \A s \in Slot : live + 1 <= s => live <= s
      BY <2>1 DEF Slot
    <3>2. \A s \in Slot : live + 1 <= s => pc[s] = "unborn" /\ handle[s] = None
      BY <1>1, <3>1 DEF ThreadsInv, UnbornAbove
    <3> QED
      BY <1>1, <1>3, <1>4, <1>5, <3>2 DEF UnbornAbove
  <2>7. CasInRange'
    BY <1>1, <1>4, <1>5 DEF ThreadsInv, CasInRange
  <2>8. SpawnerInv'
    <3> SUFFICES ASSUME NEW d \in Caller, pc'[d] \in Spawning
                 PROVE  /\ seen[d] \in Slot /\ seen[d] < live + 1 /\ handle[seen[d]] = None
                        /\ d \in Slot => d < seen[d]
                        /\ pc'[d] = "spawn" <=> pc'[seen[d]] = "unborn"
      BY <1>3, <1>5 DEF SpawnerInv
    <3>1. CASE d = c
      BY <1>1, <1>4, <1>5, <2>1, <2>3, <2>5, <3>1
    <3>2. CASE d # c
      <4>1. /\ pc'[d] = pc[d]
            /\ seen[d] \in Slot /\ seen[d] < live /\ handle[seen[d]] = None
            /\ d \in Slot => d < seen[d]
            /\ pc[d] = "spawn" <=> pc[seen[d]] = "unborn"
        BY <1>1, <1>4, <3>2 DEF ThreadsInv, SpawnerInv
      <4>2. seen[d] < live + 1
        BY <2>1, <4>1 DEF Slot
      <4>3. pc'[seen[d]] = "unborn" <=> pc[seen[d]] = "unborn"
        BY <1>1, <1>3, <1>4, <1>5, <4>1
      <4> QED
        BY <4>1, <4>2, <4>3
    <3> QED
      BY <3>1, <3>2
  <2>9. SpawnersDiffer'
    <3> SUFFICES ASSUME NEW d \in Caller, NEW e \in Caller,
                        pc'[d] \in Spawning, pc'[e] \in Spawning, seen[d] = seen[e]
                 PROVE  d = e
      BY <1>5 DEF SpawnersDiffer
    <3>1. \A f \in Caller : f # c /\ pc'[f] \in Spawning => pc[f] \in Spawning /\ seen[f] # live
      BY <1>1, <1>4, <2>1, <2>4 DEF ThreadsInv, SpawnerInv, Slot
    <3> QED
      BY <1>1, <1>5, <3>1 DEF ThreadsInv, SpawnersDiffer
  <2>10. HandlesStored'
    BY <1>1, <1>3, <1>4, <1>5 DEF ThreadsInv, HandlesStored
  <2>11. ThreadsInv'
    BY <2>6, <2>7, <2>8, <2>9, <2>10 DEF ThreadsInv
  <2> QED
    BY <1>1, <1>3, <1>4, <1>5, <2>2, <2>11, CallerGoesOn DEF Growing, Busy
<1>6. CASE live' = live /\ x = "test" /\ seen' = [seen EXCEPT ![c] = live]
  <2>1. LocalsType' /\ SharedType'
    BY <1>1, <1>3, <1>6, WorkerAssumption DEF LocalsType, SharedType
  <2>2. \A d \in Caller : d # c => seen'[d] = seen[d]
    BY <1>1, <1>6 DEF LocalsType
  <2>3. ThreadsInv'
    BY <1>1, <1>3, <1>4, <1>6, <2>2, ThreadsStay
  <2> QED
    BY <1>1, <1>3, <1>4, <1>6, <2>1, <2>2, <2>3, CallerGoesOn DEF Growing, Busy
<1> QED
  BY <1>2, <1>5, <1>6

\* The worker of the slot that was won starts.
LEMMA SpawnStep ==
    ASSUME OneSubmitter, IInv, NEW c \in Caller, Spawn(c)
    PROVE  IInv'
<1>1. /\ PlacesType /\ LocalsType /\ SharedType /\ ThreadsInv
      /\ Caller = {Main} \cup Slot /\ Main \notin Slot /\ pc[c] = "spawn"
  BY Callers DEF IInv, Types, Spawn
<1>2. PICK s \in Slot : s = seen[c] /\ s < live /\ handle[s] = None /\ pc[s] = "unborn" /\ s # c
  BY <1>1 DEF ThreadsInv, SpawnerInv, Spawning
<1>3. /\ pc' = [pc EXCEPT ![c] = "assign", ![s] = "loop"]
      /\ UNCHANGED <<pending, stop, live, queues, handle, task, prio, seen, at, owed, issued,
                     started, done>>
  BY <1>2 DEF Spawn, activity, histories, locals
<1>4. /\ pc'[c] = "assign" /\ pc'[s] = "loop"
      /\ pc' \in [Caller -> WorkerPlaces \cup MainPlaces]
      /\ \A d \in Caller : d # c /\ d # s => pc'[d] = pc[d]
  BY <1>1, <1>2, <1>3 DEF PlacesType, MainPlaces, Submitting, WorkerPlaces
<1>5. LocalsType' /\ SharedType'
  BY <1>1, <1>3 DEF LocalsType, SharedType
<1>6. \A d \in Caller : d # c /\ pc[d] \in Spawning => seen[d] # s
  BY <1>1, <1>2 DEF ThreadsInv, SpawnersDiffer, Spawning
<1>7. \A d \in Caller : pc'[d] \in Spawning => d # s /\ pc[d] \in Spawning
  BY <1>1, <1>2, <1>4 DEF Spawning
<1>8. UnbornAbove' /\ CasInRange'
  <2>1. s \in Nat /\ live \in Nat /\ \A r \in Slot : r \in Nat
    BY <1>1, WorkerAssumption DEF Slot, SharedType
  <2>2. \A r \in Slot : live <= r => r # c /\ r # s
    BY <1>1, <1>2, <2>1 DEF ThreadsInv, UnbornAbove
  <2>3. UnbornAbove'
    BY <1>1, <1>3, <1>4, <2>2 DEF ThreadsInv, UnbornAbove
  <2>4. CasInRange'
    BY <1>1, <1>3, <1>4 DEF ThreadsInv, CasInRange
  <2> QED
    BY <2>3, <2>4
<1>9. SpawnerInv'
  <2> SUFFICES ASSUME NEW d \in Caller, pc'[d] \in Spawning
               PROVE  /\ seen[d] \in Slot /\ seen[d] < live /\ handle[seen[d]] = None
                      /\ d \in Slot => d < seen[d]
                      /\ pc'[d] = "spawn" <=> pc'[seen[d]] = "unborn"
    BY <1>3 DEF SpawnerInv
  <2>1. /\ seen[d] \in Slot /\ seen[d] < live /\ handle[seen[d]] = None
        /\ d \in Slot => d < seen[d]
        /\ pc[d] = "spawn" <=> pc[seen[d]] = "unborn"
    BY <1>1, <1>7 DEF ThreadsInv, SpawnerInv
  <2>2. CASE d = c
    BY <1>2, <1>4, <2>1, <2>2
  <2>3. CASE d # c
    <3>1. pc'[d] = pc[d] /\ seen[d] # s
      BY <1>4, <1>6, <1>7, <2>3
    <3>2. pc'[seen[d]] = "unborn" <=> pc[seen[d]] = "unborn"
      BY <1>1, <1>4, <2>1, <3>1
    <3> QED
      BY <2>1, <3>1, <3>2
  <2> QED
    BY <2>2, <2>3
<1>10. SpawnersDiffer'
  BY <1>1, <1>3, <1>7 DEF ThreadsInv, SpawnersDiffer
<1>11. HandlesStored'
  <2> SUFFICES ASSUME NEW r \in Slot, pc'[r] # "unborn"
               PROVE  \/ handle[r] = Main
                      \/ handle[r] \in Slot /\ handle[r] < r
                      \/ \E d \in Caller : pc'[d] = "assign" /\ seen[d] = r
    BY <1>3 DEF HandlesStored
  <2>1. CASE r = s
    BY <1>2, <1>4, <2>1
  <2>2. CASE r # s
    <3>1. pc[r] # "unborn"
      BY <1>1, <1>4, <2>2
    <3>2. \A d \in Caller : pc[d] = "assign" => pc'[d] = "assign"
      BY <1>1, <1>2, <1>4
    <3> QED
      BY <1>1, <3>1, <3>2 DEF ThreadsInv, HandlesStored
  <2> QED
    BY <2>1, <2>2
<1>12. ThreadsInv'
  BY <1>8, <1>9, <1>10, <1>11 DEF ThreadsInv
<1> QED
  BY <1>1, <1>2, <1>3, <1>4, <1>5, <1>12, CallerGoesOn DEF Growing, Busy

\* The handle is stored in the slot that was won, by the caller that won it.
LEMMA AssignHandleStep ==
    ASSUME OneSubmitter, IInv, NEW c \in Caller, AssignHandle(c)
    PROVE  IInv'
<1>1. /\ PlacesType /\ LocalsType /\ SharedType /\ ThreadsInv
      /\ Caller = {Main} \cup Slot /\ Main \notin Slot /\ pc[c] = "assign"
  BY Callers DEF IInv, Types, AssignHandle
<1>2. PICK s \in Slot : s = seen[c] /\ s < live /\ pc[s] # "unborn" /\ (c \in Slot => c < s)
  BY <1>1 DEF ThreadsInv, SpawnerInv, Spawning
<1>3. /\ pc' = [pc EXCEPT ![c] = AfterSubmit(c)] /\ handle' = [handle EXCEPT ![s] = c]
      /\ seen' = [seen EXCEPT ![c] = 0]
      /\ UNCHANGED <<pending, stop, live, queues, task, prio, at, owed, issued, started, done>>
  BY <1>2 DEF AssignHandle, Goto, activity, histories
<1>4. PICK x : /\ x = AfterSubmit(c)
               /\ c \in Slot => x = "processing"
               /\ c = Main => x = "idle"
               /\ x \in WorkerPlaces \cup MainPlaces /\ x \notin {"unborn", "spawn", "assign", "cas"}
  BY AfterSubmits, <1>1
<1>5. /\ pc'[c] = x
      /\ pc' \in [Caller -> WorkerPlaces \cup MainPlaces]
      /\ \A d \in Caller : d # c => pc'[d] = pc[d] /\ seen'[d] = seen[d]
  BY <1>1, <1>3, <1>4 DEF PlacesType, LocalsType
<1>6. handle'[s] = c /\ \A r \in Slot : r # s => handle'[r] = handle[r]
  BY <1>1, <1>2, <1>3 DEF SharedType
<1>7. LocalsType' /\ SharedType'
  BY <1>1, <1>2, <1>3 DEF LocalsType, SharedType
<1>8. \A d \in Caller : pc'[d] \in Spawning => d # c /\ pc[d] \in Spawning /\ seen[d] # s
  BY <1>1, <1>2, <1>4, <1>5 DEF ThreadsInv, SpawnersDiffer, Spawning
<1>9. \A d \in Caller : pc'[d] = "unborn" <=> pc[d] = "unborn"
  BY <1>1, <1>4, <1>5
<1>10. UnbornAbove' /\ CasInRange'
  <2>1. s \in Nat /\ live \in Nat /\ \A r \in Slot : r \in Nat
    BY <1>1, WorkerAssumption DEF Slot, SharedType
  <2>2. \A r \in Slot : live <= r => r # s
    BY <1>2, <2>1
  <2>3. UnbornAbove'
    BY <1>1, <1>3, <1>6, <1>9, <2>2 DEF ThreadsInv, UnbornAbove
  <2>4. CasInRange'
    BY <1>1, <1>4, <1>5 DEF ThreadsInv, CasInRange
  <2> QED
    BY <2>3, <2>4
<1>11. SpawnerInv'
  <2> SUFFICES ASSUME NEW d \in Caller, pc'[d] \in Spawning
               PROVE  /\ seen'[d] \in Slot /\ seen'[d] < live /\ handle'[seen'[d]] = None
                      /\ d \in Slot => d < seen'[d]
                      /\ pc'[d] = "spawn" <=> pc'[seen'[d]] = "unborn"
    BY <1>3 DEF SpawnerInv
  <2>1. /\ seen[d] \in Slot /\ seen[d] < live /\ handle[seen[d]] = None
        /\ d \in Slot => d < seen[d]
        /\ pc[d] = "spawn" <=> pc[seen[d]] = "unborn"
    BY <1>1, <1>8 DEF ThreadsInv, SpawnerInv
  <2>2. pc'[d] = pc[d] /\ seen'[d] = seen[d] /\ handle'[seen[d]] = handle[seen[d]]
    BY <1>5, <1>6, <1>8, <2>1
  <2> QED
    BY <1>1, <1>9, <2>1, <2>2
<1>12. SpawnersDiffer'
  BY <1>1, <1>5, <1>8 DEF ThreadsInv, SpawnersDiffer
<1>13. HandlesStored'
  <2> SUFFICES ASSUME NEW r \in Slot, pc'[r] # "unborn"
               PROVE  \/ handle'[r] = Main
                      \/ handle'[r] \in Slot /\ handle'[r] < r
                      \/ \E d \in Caller : pc'[d] = "assign" /\ seen'[d] = r
    BY DEF HandlesStored
  <2>1. CASE r = s
    BY <1>1, <1>2, <1>6, <2>1
  <2>2. CASE r # s
    <3>1. \A d \in Caller : pc[d] = "assign" /\ seen[d] = r => pc'[d] = "assign" /\ seen'[d] = r
      BY <1>2, <1>5, <2>2
    <3> QED
      BY <1>1, <1>6, <1>9, <2>2, <3>1 DEF ThreadsInv, HandlesStored
  <2> QED
    BY <2>1, <2>2
<1>14. ThreadsInv'
  BY <1>10, <1>11, <1>12, <1>13 DEF ThreadsInv
<1> QED
  BY <1>1, <1>3, <1>4, <1>5, <1>7, <1>14, CallerGoesOn DEF Growing, Busy
----------------------------------------------------------------------------
(* WorkerLoop and AcquireNextTask                                          *)

\* A worker without a task moves on to a place where it has none.
LEMMA WorkerMovesOn ==
    ASSUME OneSubmitter, IInv, NEW s \in Slot,
           pc[s] \notin Spawning \cup {"unborn"}, pc'[s] \in {"loop", "poll", "steal", "exited"},
           pc' \in [Caller -> WorkerPlaces \cup MainPlaces],
           \A c \in Caller : c # s => pc'[c] = pc[c] /\ seen'[c] = seen[c],
           UNCHANGED <<pending, stop, live, queues, handle, task, prio, owed, issued, started,
                       done>>,
           LocalsType', PollInv'
    PROVE  IInv'
<1>1. /\ Caller = {Main} \cup Slot /\ Main \notin Slot
      /\ PlacesType /\ SharedType /\ ThreadsInv
  BY Callers DEF IInv, Types
<1>2. pc'[Main] = pc[Main] /\ seen'[Main] = seen[Main] /\ (Carrying' <=> Carrying)
  BY <1>1 DEF Carrying
<1>3. PlacesType' /\ SharedType'
  BY <1>1, <1>2 DEF PlacesType, WorkerPlaces, SharedType
<1>4. /\ QueuesType' /\ HistoriesType'
      /\ QueuesInv' /\ TasksInv' /\ NoTaskIsLost' /\ CountInv'
  BY <1>1, <1>2, TasksStay DEF Busy, Growing
<1>5. ThreadsInv'
  BY <1>1, ThreadsStay DEF Spawning
<1>6. WaitInv'
  BY <1>2 DEF IInv, WaitInv
<1> QED
  BY <1>3, <1>4, <1>5, <1>6 DEF IInv, Types

\* A worker polls the next queue or starts over, no queue having changed: its
\* own queue of the priority it has just polled was empty.
LEMMA PollsNext ==
    ASSUME OneSubmitter, IInv, NEW s \in Slot, pc[s] \in {"poll", "steal"}, PollNext(s),
           PollOwner(s, at[s]) = s => Polled(s).items = <<>>,
           seen' \in [Caller -> Nat],
           \A c \in Caller : c # s => seen'[c] = seen[c],
           UNCHANGED <<pending, stop, live, queues, handle, task, prio, owed, issued, started,
                       done>>
    PROVE  IInv'
<1>1. PlacesType /\ LocalsType /\ PollInv /\ Caller = {Main} \cup Slot
  BY Callers DEF IInv, Types
<1>2. /\ PollOwner(s, at[s]) \in Owner /\ PollPriority(at[s]) \in Priority
      /\ 0 \in 0 .. PollCount - 1
      /\ at[s] + 1 < PollCount =>
            /\ at[s] + 1 \in 0 .. PollCount - 1
            /\ PollOwner(s, at[s] + 1) = s =>
                  PollPriority(at[s] + 1) = PollPriority(at[s]) + 1 /\ PollOwner(s, at[s]) # s
            /\ PollOwner(s, at[s] + 1) # s => PollPriority(at[s] + 1) = PollPriority(at[s])
  BY <1>1, Polling DEF LocalsType
<1>3. /\ pc'[s] \in {"poll", "loop"} /\ pc' \in [Caller -> WorkerPlaces \cup MainPlaces]
      /\ \A c \in Caller : c # s => pc'[c] = pc[c]
  BY <1>1 DEF PlacesType, WorkerPlaces, PollNext, Goto
<1>4. /\ pc'[s] = "poll" => at[s] + 1 < PollCount /\ at'[s] = at[s] + 1
      /\ \A r \in Slot : r # s => at'[r] = at[r]
  BY <1>1 DEF PlacesType, LocalsType, PollNext, Goto
<1>5. LocalsType'
  BY <1>1, <1>2 DEF LocalsType, PollNext
<1>6. \A p \in Priority : p <= PollPriority(at[s]) => Items(s, p) = <<>>
  <2>1. PollInvOf(s)
    BY <1>1 DEF PollInv
  <2>2. Items(s, PollPriority(at[s])) = <<>>
    <3>1. CASE PollOwner(s, at[s]) = s
      BY <3>1 DEF Polled, Items
    <3>2. CASE PollOwner(s, at[s]) # s
      BY <1>2, <2>1, <3>2 DEF PollInvOf
    <3> QED
      BY <3>1, <3>2
  <2>3. \A p \in Priority : p < PollPriority(at[s]) => Items(s, p) = <<>>
    BY <2>1 DEF PollInvOf
  <2>4. \A p \in Priority :
           p <= PollPriority(at[s]) => p < PollPriority(at[s]) \/ p = PollPriority(at[s])
    BY <1>2 DEF Priority
  <2> QED
    BY <2>2, <2>3, <2>4
<1>7. PollInv'
  <2> SUFFICES ASSUME NEW r \in Slot, pc'[r] \in {"poll", "steal"} PROVE PollInvOf(r)'
    BY DEF PollInv
  <2>1. \A p \in Priority : Items(r, p)' = Items(r, p)
    BY DEF Items
  <2>2. CASE r # s
    <3>1. PollInvOf(r) /\ pc'[r] = pc[r] /\ at'[r] = at[r] /\ seen'[r] = seen[r]
      BY <1>1, <1>3, <1>4, <2>2 DEF PollInv
    <3>2. Polled(r)' = Polled(r)
      BY <3>1 DEF Polled
    <3> QED
      BY <2>1, <3>1, <3>2 DEF PollInvOf
  <2>3. CASE r = s
    <3>1. pc'[s] = "poll" /\ at'[s] = at[s] + 1 /\ at[s] + 1 < PollCount
      BY <1>3, <1>4, <2>3
    <3>2. PollOwner(s, at'[s]) = s => PollPriority(at'[s]) = PollPriority(at[s]) + 1
      BY <1>2, <3>1
    <3>3. PollOwner(s, at'[s]) # s => PollPriority(at'[s]) = PollPriority(at[s])
      BY <1>2, <3>1
    <3>4. \A p \in Priority :
             p < PollPriority(at'[s]) \/ (p = PollPriority(at'[s]) /\ PollOwner(s, at'[s]) # s)
                => p <= PollPriority(at[s])
      BY <1>2, <3>2, <3>3 DEF Priority
    <3> QED
      BY <1>6, <2>1, <2>3, <3>1, <3>4 DEF PollInvOf
  <2> QED
    BY <2>2, <2>3
<1> QED
  BY <1>3, <1>5, <1>7, WorkerMovesOn DEF Spawning

\* A worker reads stop_ and leaves, or starts to poll from the first queue.
LEMMA CheckStopStep ==
    ASSUME OneSubmitter, IInv, NEW s \in Slot, CheckStop(s)
    PROVE  IInv'
<1>1. PlacesType /\ LocalsType /\ PollInv /\ Caller = {Main} \cup Slot
  BY Callers DEF IInv, Types
<1>2. PICK x \in {"exited", "poll"} : pc' = [pc EXCEPT ![s] = x]
  BY DEF CheckStop, Goto
<1>3. /\ pc[s] = "loop" /\ at' = [at EXCEPT ![s] = 0]
      /\ UNCHANGED <<pending, stop, live, queues, handle, task, prio, seen, owed, issued,
                     started, done>>
  BY DEF CheckStop, activity, histories
<1>4. PollOwner(s, 0) = s /\ PollPriority(0) = 0 /\ 0 \in 0 .. PollCount - 1
  BY <1>1, Polling DEF LocalsType
<1>5. /\ pc'[s] = x /\ pc' \in [Caller -> WorkerPlaces \cup MainPlaces]
      /\ \A c \in Caller : c # s => pc'[c] = pc[c]
      /\ at'[s] = 0 /\ \A r \in Slot : r # s => at'[r] = at[r]
  BY <1>1, <1>2, <1>3 DEF PlacesType, WorkerPlaces, LocalsType
<1>6. LocalsType'
  BY <1>1, <1>3, <1>4 DEF LocalsType
<1>7. PollInv'
  <2> SUFFICES ASSUME NEW r \in Slot, pc'[r] \in {"poll", "steal"} PROVE PollInvOf(r)'
    BY DEF PollInv
  <2>1. CASE r # s
    <3>1. PollInvOf(r) /\ pc'[r] = pc[r] /\ at'[r] = at[r] /\ seen'[r] = seen[r]
      BY <1>1, <1>3, <1>5, <2>1 DEF PollInv
    <3>2. Polled(r)' = Polled(r) /\ \A p \in Priority : Items(r, p)' = Items(r, p)
      BY <1>3, <3>1 DEF Polled, Items
    <3> QED
      BY <3>1, <3>2 DEF PollInvOf
  <2>2. CASE r = s
    BY <1>2, <1>4, <1>5, <2>2 DEF PollInvOf, Priority
  <2> QED
    BY <2>1, <2>2
<1> QED
  BY <1>2, <1>3, <1>5, <1>6, <1>7, WorkerMovesOn DEF Spawning

\* A worker takes the youngest task of its own queue, or polls on.
LEMMA TakeOwnStep ==
    ASSUME OneSubmitter, IInv, NEW s \in Slot, TakeOwn(s)
    PROVE  IInv'
<1>1. /\ LocalsType /\ QueuesType /\ Caller = {Main} \cup Slot
      /\ s \in Owner /\ s # Shared /\ pc[s] = "poll" /\ PollOwner(s, at[s]) = s
      /\ UNCHANGED <<pending, stop, live, handle, prio, seen, owed, issued, done>>
  BY Callers, WorkerAssumption DEF IInv, Types, TakeOwn, activity, Owner, Slot, Shared
<1>2. PICK p \in Priority : p = PollPriority(at[s])
  BY <1>1, Polling DEF LocalsType
<1>3. PICK q \in Seq(Task), n \in Nat :
         q = Items(s, p) /\ n = queues[s][p].top /\ q = Polled(s).items /\ Len(q) \in Nat
  <2>1. Polled(s) = queues[s][p]
    BY <1>1, <1>2 DEF Polled
  <2>2. Items(s, p) \in Seq(Task) /\ queues[s][p].top \in Nat /\ Len(Items(s, p)) \in Nat
    BY <1>1, Queues
  <2> QED
    BY <2>1, <2>2 DEF Items
<1>4. CASE q = <<>> /\ PollNext(s) /\ UNCHANGED <<queues, task, started>>
  BY <1>1, <1>3, <1>4, PollsNext DEF LocalsType
<1>5. CASE /\ q # <<>> /\ StartTask(s, Last(q))
           /\ queues' = [queues EXCEPT ![s][p] = TakeLast(@)]
  <2>0. IsInjective(q) /\ Waiting(s, p) = ToSet(q)
    BY <1>1, <1>3 DEF IInv, QueuesInv, ItemsDiffer, Waiting, Items
  <2>1. /\ Front(q) \in Seq(Task) /\ Len(Front(q)) = Len(q) - 1 /\ Last(q) \in Waiting(s, p)
        /\ ToSet(Front(q)) = Waiting(s, p) \ {Last(q)} /\ IsInjective(Front(q))
    BY <1>5, <2>0, FrontElements
  <2>2. PICK f \in Seq(Task), t \in Waiting(s, p) :
           /\ f = Front(q) /\ t = Last(q) /\ Len(f) = Len(q) - 1
           /\ ToSet(f) = Waiting(s, p) \ {t} /\ IsInjective(f)
    BY <2>1
  <2>3. PICK m \in Nat : /\ m = IF Len(q) = 1 THEN n + 1 ELSE n
    BY <1>3
  <2>4. Becomes(s, p, m, f)
    BY <1>3, <1>5, <2>2, <2>3 DEF Becomes, TakeLast, Items
  <2>5. f = <<>> => m = n + 1
    <3>1. f = <<>> => Len(f) = 0
      OBVIOUS
    <3> QED
      BY <1>3, <2>2, <2>3, <3>1
  <2>6. m \in {n, n + 1}
    BY <2>3
  <2>7. seen' \in [Caller -> Nat] /\ \A c \in Caller : c # s => seen'[c] = seen[c]
    BY <1>1 DEF LocalsType
  <2> QED
    BY <1>1, <1>3, <1>5, <2>2, <2>4, <2>5, <2>6, <2>7, TaskTaken
<1> QED
  BY <1>1, <1>2, <1>3, <1>4, <1>5 DEF TakeOwn

\* A thief reads the top of a queue that has a task, or polls on.
LEMMA StealTopStep ==
    ASSUME OneSubmitter, IInv, NEW s \in Slot, StealTop(s)
    PROVE  IInv'
<1>1. /\ PlacesType /\ LocalsType /\ QueuesType /\ PollInv /\ Caller = {Main} \cup Slot
      /\ pc[s] = "poll" /\ PollOwner(s, at[s]) # s
      /\ UNCHANGED <<pending, stop, live, queues, handle, task, prio, owed, issued, started,
                     done>>
  BY Callers DEF IInv, Types, StealTop, activity, histories
<1>2. CASE PollNext(s) /\ UNCHANGED seen
  BY <1>1, <1>2, PollsNext DEF LocalsType
<1>3. CASE /\ Polled(s).items # <<>> /\ seen' = [seen EXCEPT ![s] = Polled(s).top]
           /\ pc' = [pc EXCEPT ![s] = "steal"] /\ UNCHANGED at
  <2>1. Polled(s).top \in Nat
    BY <1>1, Polling, Queues DEF LocalsType, Polled
  <2>2. /\ pc'[s] = "steal" /\ pc' \in [Caller -> WorkerPlaces \cup MainPlaces]
        /\ seen'[s] = Polled(s).top
        /\ \A c \in Caller : c # s => pc'[c] = pc[c] /\ seen'[c] = seen[c]
    BY <1>1, <1>3 DEF PlacesType, LocalsType, WorkerPlaces
  <2>3. LocalsType'
    BY <1>1, <1>3, <2>1 DEF LocalsType
  <2>4. PollInv'
    <3> SUFFICES ASSUME NEW r \in Slot, pc'[r] \in {"poll", "steal"} PROVE PollInvOf(r)'
      BY DEF PollInv
    <3>1. Polled(r)' = Polled(r) /\ \A p \in Priority : Items(r, p)' = Items(r, p)
      BY <1>1, <1>3 DEF Polled, Items
    <3>2. PollInvOf(r) /\ at'[r] = at[r]
      BY <1>1, <1>3, <2>2 DEF PollInv
    <3>3. CASE r # s
      BY <1>1, <2>2, <3>1, <3>2, <3>3 DEF PollInvOf
    <3>4. CASE r = s
      BY <1>1, <1>3, <2>1, <2>2, <3>1, <3>2, <3>4 DEF PollInvOf
    <3> QED
      BY <3>3, <3>4
  <2> QED
    BY <1>1, <2>2, <2>3, <2>4, WorkerMovesOn DEF Spawning
<1> QED
  BY <1>1, <1>2, <1>3 DEF StealTop, Goto

\* A thief wins the task at the top it has read, or polls on: an owner who took
\* the last task meanwhile has moved the top.
LEMMA StealCasStep ==
    ASSUME OneSubmitter, IInv, NEW s \in Slot, StealCas(s)
    PROVE  IInv'
<1>1. /\ LocalsType /\ QueuesType /\ PollInv /\ Caller = {Main} \cup Slot
      /\ pc[s] = "steal" /\ seen' = [seen EXCEPT ![s] = 0]
      /\ UNCHANGED <<pending, stop, live, handle, prio, owed, issued, done>>
  BY Callers DEF IInv, Types, StealCas, activity
<1>2. /\ PollOwner(s, at[s]) # s
      /\ seen[s] = Polled(s).top => Polled(s).items # <<>>
  BY <1>1 DEF PollInv, PollInvOf
<1>3. seen' \in [Caller -> Nat] /\ \A c \in Caller : c # s => seen'[c] = seen[c]
  BY <1>1 DEF LocalsType
<1>4. PICK o \in Owner, p \in Priority : o = PollOwner(s, at[s]) /\ p = PollPriority(at[s])
  BY <1>1, Polling DEF LocalsType
<1>5. PICK q \in Seq(Task), n \in Nat :
         /\ q = Items(o, p) /\ n = queues[o][p].top /\ Len(q) \in Nat
         /\ q = Polled(s).items /\ n = Polled(s).top
  BY <1>1, <1>4, Queues DEF Polled, Items
<1>6. CASE PollNext(s) /\ UNCHANGED <<queues, task, started>>
  BY <1>1, <1>2, <1>3, <1>6, PollsNext
<1>7. CASE /\ n = seen[s] /\ StartTask(s, Head(q))
           /\ queues' = [queues EXCEPT ![o][p] = [top |-> @.top + 1, items |-> Tail(@.items)]]
  <2>1. q # <<>>
    BY <1>2, <1>5, <1>7
  <2>0. IsInjective(q) /\ Waiting(o, p) = ToSet(q) /\ n + 1 \in Nat
    <3>1. IsInjective(Items(o, p))
      BY DEF IInv, QueuesInv, ItemsDiffer
    <3> QED
      BY <1>5, <3>1 DEF Waiting, Items
  <2>2. /\ Tail(q) \in Seq(Task) /\ Len(Tail(q)) = Len(q) - 1 /\ Head(q) \in Waiting(o, p)
        /\ ToSet(Tail(q)) = Waiting(o, p) \ {Head(q)} /\ IsInjective(Tail(q))
    BY <2>0, <2>1, TailElements
  <2>3. PICK f \in Seq(Task), t \in Waiting(o, p), m \in Nat :
           /\ f = Tail(q) /\ t = Head(q) /\ Len(f) = Len(q) - 1 /\ m = n + 1
           /\ ToSet(f) = Waiting(o, p) \ {t} /\ IsInjective(f)
    BY <2>0, <2>2
  <2>4. Becomes(o, p, m, f)
    BY <1>5, <1>7, <2>3 DEF Becomes, Items
  <2>5. m \in {n, n + 1}
    BY <2>3
  <2> QED
    BY <1>1, <1>3, <1>5, <1>7, <2>3, <2>4, <2>5, TaskTaken
<1> QED
  BY <1>1, <1>4, <1>5, <1>6, <1>7 DEF StealCas
----------------------------------------------------------------------------
(* Process: a worker's own submissions, and its end                        *)

\* pending counts the tasks issued and not done: it is above zero as long as
\* some worker has a task, and when it is zero every task issued is done.
LEMMA Counting ==
    ASSUME OneSubmitter, IInv
    PROVE  /\ done \subseteq 1 .. issued
           /\ IsFiniteSet(1 .. issued) /\ Cardinality(1 .. issued) = issued
           /\ pending = 0 => done = 1 .. issued
           /\ \A s \in Slot : pc[s] \in Busy => pending > 0 /\ task[s] \in 1 .. issued
<1>1. /\ issued \in Nat /\ pending \in Nat /\ issued <= MaxTasks
      /\ done \subseteq Task /\ IsFiniteSet(done) /\ Cardinality(done) \in Nat
  BY FS_CardinalityType DEF IInv, Types, SharedType, HistoriesType
<1>2. pending + Cardinality(done) = issued
  BY DEF IInv, CountInv
<1>3. IsFiniteSet(1 .. issued) /\ Cardinality(1 .. issued) = issued
  BY <1>1, FS_Interval
<1>4. \A t \in Task : started[t] = 1 => t \in 1 .. issued
  BY <1>1 DEF IInv, TasksInv, StartedOnce, Task
<1>5. done \subseteq 1 .. issued
  BY <1>1, <1>4 DEF IInv, TasksInv, DoneWereStarted
<1>6. ASSUME pending = 0 PROVE done = 1 .. issued
  <2>1. Cardinality(done) = Cardinality(1 .. issued)
    BY <1>1, <1>2, <1>3, <1>6
  <2> QED
    BY <1>3, <1>5, <2>1, FS_Subset
<1>7. ASSUME NEW s \in Slot, pc[s] \in Busy PROVE pending > 0 /\ task[s] \in 1 .. issued
  <2>1. task[s] \in Task \ done /\ started[task[s]] = 1
    BY <1>7 DEF IInv, TasksInv, HeldAreStarted
  <2>2. task[s] \in 1 .. issued
    BY <1>4, <2>1
  <2> QED
    BY <1>1, <1>6, <2>1, <2>2
<1> QED
  BY <1>3, <1>5, <1>6, <1>7

\* A worker submits a task from Process into its own queue, where nobody else
\* inserts; pending cannot be zero, as the worker has a task itself.
LEMMA InsertOwnStep ==
    ASSUME OneSubmitter, IInv, NEW s \in Slot, InsertOwn(s)
    PROVE  IInv'
<1>1. /\ PlacesType /\ LocalsType /\ SharedType /\ QueuesType /\ HistoriesType
      /\ Caller = {Main} \cup Slot /\ Main \notin Slot /\ s \in Owner /\ s # Shared
  BY Callers, WorkerAssumption DEF IInv, Types, Owner, Slot, Shared
<1>2. PICK p \in Priority : queues' = [queues EXCEPT ![s][p].items = Append(@, issued + 1)]
  BY DEF InsertOwn
<1>3. /\ pc[s] = "processing" /\ issued < MaxTasks
      /\ issued' = issued + 1 /\ pending' = pending + 1
      /\ pc' = [pc EXCEPT ![s] = "grow"]
      /\ UNCHANGED <<stop, live, handle, task, prio, seen, at, owed, started, done>>
  BY DEF InsertOwn, Goto, histories, locals
<1>4. PICK t \in Task : t = issued + 1 /\ issued \in Nat /\ t \notin 1 .. issued
  BY <1>1, <1>3, TaskAssumption DEF Task, SharedType
<1>5. \A r \in Owner, i \in Priority : t \notin Waiting(r, i)
  BY <1>4 DEF IInv, TasksInv, QueuedAreNew
<1>6. started[t] = 0
  BY <1>1, <1>4 DEF IInv, TasksInv, StartedOnce, HistoriesType
<1>7. Appended(t, s, p)
  BY <1>1, <1>2, <1>4 DEF Appended, Items, QueuesType
<1>8. /\ pc'[s] = "grow" /\ \A c \in Caller : c # s => pc'[c] = pc[c]
      /\ pc' \in [Caller -> WorkerPlaces \cup MainPlaces]
      /\ pc'[Main] = pc[Main] /\ (Carrying' <=> Carrying)
      /\ \A r \in Slot : pc'[r] \in Busy => pc[r] \in Busy
  BY <1>1, <1>3 DEF PlacesType, MainPlaces, Submitting, Carrying, Busy
<1>9. PlacesType'
  BY <1>1, <1>8 DEF PlacesType, WorkerPlaces, Busy, Growing
<1>10. LocalsType' /\ SharedType' /\ HistoriesType'
  BY <1>1, <1>3, <1>4, TaskAssumption DEF LocalsType, SharedType, HistoriesType
<1>11. /\ QueuesType' /\ ItemsDiffer' /\ PollInv' /\ QueuesDisjoint'
       /\ Waiting(s, p)' = Waiting(s, p) \cup {t}
       /\ Used(s, p)' = Used(s, p) + 1 /\ Used(s, p) \in Nat
       /\ \A r \in Owner, i \in Priority : r # s \/ i # p =>
             Used(r, i)' = Used(r, i) /\ Waiting(r, i)' = Waiting(r, i)
  <2>1. \A r \in Slot : pc'[r] \in {"poll", "steal"} =>
           r # s /\ pc'[r] = pc[r] /\ at'[r] = at[r] /\ seen'[r] = seen[r]
    BY <1>1, <1>3, <1>8
  <2> QED
    BY <1>1, <1>5, <1>7, <2>1, TaskAppended
<1>12. QueuesInv'
  <2>1. \A r \in Owner, i \in Priority : Used(r, i) \in Nat /\ Used(r, i) <= issued
    BY <1>1, Queues DEF IInv, QueuesInv, UsedBounded
  <2>2. \A r \in Owner, i \in Priority : Used(r, i)' <= issued'
    <3> SUFFICES ASSUME NEW r \in Owner, NEW i \in Priority PROVE Used(r, i)' <= issued'
      OBVIOUS
    <3>1. CASE r = s /\ i = p
      BY <1>3, <1>4, <1>11, <2>1, <3>1
    <3>2. CASE r # s \/ i # p
      BY <1>3, <1>4, <1>11, <2>1, <3>2
    <3> QED
      BY <3>1, <3>2
  <2>3. Shared \in Owner /\ \A i \in Priority : Used(Shared, i)' = Used(Shared, i)
    BY <1>1, <1>11 DEF Owner
  <2>4. Carrying => \A i \in Priority : Used(Shared, i) < issued + 1
    BY <1>4, <2>1, <2>3
  <2>5. UsedBounded'
    BY <1>3, <1>8, <2>2, <2>3, <2>4 DEF UsedBounded
  <2>6. BottomRead'
    BY <1>1, <1>3, <1>8, <2>3 DEF IInv, QueuesInv, BottomRead, LocalsType
  <2> QED
    BY <1>11, <2>5, <2>6 DEF QueuesInv
<1>13. TasksInv'
  <2>1. StartedOnce' /\ CarriedIsNew'
    BY <1>1, <1>3, <1>4, <1>8 DEF IInv, TasksInv, StartedOnce, CarriedIsNew, Task
  <2>2. QueuedAreNew'
    <3>1. Carrying => task[Main] # t
      BY <1>4 DEF IInv, TasksInv, CarriedIsNew
    <3>2. t \in 1 .. issued' /\ \A u \in 1 .. issued : u \in 1 .. issued'
      BY <1>3, <1>4
    <3> QED
      BY <1>3, <1>6, <1>8, <1>11, <3>1, <3>2 DEF IInv, TasksInv, QueuedAreNew
  <2>3. HeldAreStarted' /\ HeldByOne' /\ DoneWereStarted'
    BY <1>3, <1>8 DEF IInv, TasksInv, HeldAreStarted, HeldByOne, DoneWereStarted
  <2> QED
    BY <1>11, <2>1, <2>2, <2>3 DEF TasksInv
<1>14. NoTaskIsLost'
  <2> SUFFICES ASSUME NEW u \in 1 .. issued'
               PROVE  \/ \E c \in Submitter : pc'[c] \in {"insert", "store"} /\ task'[c] = u
                      \/ Queued(u)'
                      \/ started'[u] > 0
    BY DEF NoTaskIsLost
  <2>1. CASE u = t
    BY <1>1, <1>11, <2>1, QueuedNext
  <2>2. CASE u # t
    <3>1. u \in 1 .. issued
      BY <1>3, <1>4, <2>2
    <3>2. Queued(u) => Queued(u)'
      <4>1. SUFFICES ASSUME Queued(u) PROVE Queued(u)'
        OBVIOUS
      <4>2. PICK r \in Owner, i \in Priority : u \in Waiting(r, i)
        BY <1>1, <4>1, Queues
      <4>3. u \in Waiting(r, i)'
        BY <1>11, <4>2
      <4> QED
        BY <1>11, <4>3, QueuedNext
    <3>3. (\E c \in Submitter : pc[c] \in {"insert", "store"} /\ task[c] = u)
          => \E c \in Submitter : pc'[c] \in {"insert", "store"} /\ task'[c] = u
      BY <1>3, <1>8, Callers
    <3> QED
      BY <1>3, <3>1, <3>2, <3>3 DEF IInv, NoTaskIsLost
  <2> QED
    BY <2>1, <2>2
<1>15. Cardinality(done) \in Nat /\ pending \in Nat
  BY <1>1, FS_CardinalityType DEF HistoriesType, SharedType
<1>16. CountInv'
  BY <1>3, <1>4, <1>15 DEF IInv, CountInv
<1>17. pending # 0
  BY <1>3, Counting DEF Busy
<1>18. WaitInv'
  BY <1>3, <1>8, <1>17 DEF IInv, WaitInv
<1>19. ThreadsInv'
  BY <1>1, <1>3, <1>8, ThreadsStay DEF IInv
<1> QED
  BY <1>9, <1>10, <1>11, <1>12, <1>13, <1>14, <1>16, <1>18, <1>19 DEF IInv, Types

\* Process returns: the task is done, and no other worker has it.
LEMMA FinishStep ==
    ASSUME OneSubmitter, IInv, NEW s \in Slot, Finish(s)
    PROVE  IInv'
<1>1. /\ PlacesType /\ LocalsType /\ SharedType /\ QueuesType /\ HistoriesType
      /\ Caller = {Main} \cup Slot /\ Main \notin Slot /\ pc[s] = "processing"
  BY Callers DEF IInv, Types, Finish
<1>2. PICK x \in {"notify", "loop"} : pc' = [pc EXCEPT ![s] = x]
  BY DEF Finish, Goto
<1>3. PICK t : t = task[s]
  OBVIOUS
<1>4. /\ done' = done \cup {t} /\ task' = [task EXCEPT ![s] = None] /\ pending' = pending - 1
      /\ UNCHANGED <<stop, live, queues, handle, prio, seen, at, owed, issued, started>>
  BY <1>3 DEF Finish
<1>5. /\ t \in Task \ done /\ started[t] = 1 /\ pending \in Nat /\ pending > 0
      /\ pending - 1 \in Nat
  BY <1>1, <1>3, Counting DEF IInv, TasksInv, HeldAreStarted, Busy, SharedType
<1>6. /\ pc'[s] = x /\ \A c \in Caller : c # s => pc'[c] = pc[c] /\ task'[c] = task[c]
      /\ pc' \in [Caller -> WorkerPlaces \cup MainPlaces]
      /\ pc'[Main] = pc[Main] /\ task'[Main] = task[Main] /\ (Carrying' <=> Carrying)
      /\ \A r \in Slot : pc'[r] \in Busy =>
            r # s /\ pc[r] \in Busy /\ task'[r] = task[r]
  BY <1>1, <1>2, <1>4 DEF PlacesType, LocalsType, WorkerPlaces, Carrying, Busy, Growing
<1>7. PlacesType'
  BY <1>1, <1>2, <1>6 DEF PlacesType, WorkerPlaces
<1>8. LocalsType' /\ SharedType'
  BY <1>1, <1>4, <1>5 DEF LocalsType, SharedType
<1>9. /\ IsFiniteSet(done') /\ Cardinality(done') = Cardinality(done) + 1
      /\ Cardinality(done) \in Nat
  BY <1>1, <1>4, <1>5, FS_AddElement, FS_CardinalityType DEF HistoriesType
<1>10. HistoriesType' /\ QueuesType'
  BY <1>1, <1>4, <1>5, <1>9 DEF HistoriesType, QueuesType
<1>11. \A r \in Owner, i \in Priority :
          Items(r, i)' = Items(r, i) /\ Used(r, i)' = Used(r, i) /\ Waiting(r, i)' = Waiting(r, i)
  BY <1>4 DEF Items, Used, Waiting
<1>12. QueuesInv'
  <2>1. ItemsDiffer' /\ UsedBounded'
    BY <1>4, <1>6, <1>11 DEF IInv, QueuesInv, ItemsDiffer, UsedBounded, Owner
  <2>2. Used(Shared, prio[Main])' = Used(Shared, prio[Main])
    BY <1>4 DEF Used, Items
  <2>3. BottomRead'
    BY <1>4, <1>6, <2>2 DEF IInv, QueuesInv, BottomRead
  <2> QED
    BY <2>1, <2>3 DEF QueuesInv
<1>13. PollInv'
  <2>1. \A r \in Slot : pc'[r] \in {"poll", "steal"} =>
              pc'[r] = pc[r] /\ at'[r] = at[r] /\ seen'[r] = seen[r]
    BY <1>1, <1>2, <1>4, <1>6
  <2> QED
    BY <1>4, <2>1, PollsStay DEF IInv
<1>14. TasksInv'
  <2>1. StartedOnce' /\ CarriedIsNew'
    BY <1>4, <1>6 DEF IInv, TasksInv, StartedOnce, CarriedIsNew
  <2>2. QueuedAreNew'
    BY <1>4, <1>6, <1>11 DEF IInv, TasksInv, QueuedAreNew
  <2>3. QueuesDisjoint'
    BY <1>11 DEF IInv, TasksInv, QueuesDisjoint
  <2>4. HeldAreStarted'
    <3> SUFFICES ASSUME NEW r \in Slot, pc'[r] \in Busy
                 PROVE  task'[r] \in Task \ done' /\ started'[task'[r]] = 1
      BY DEF HeldAreStarted
    <3>1. r # s /\ pc[r] \in Busy /\ pc[s] \in Busy /\ task'[r] = task[r]
      BY <1>1, <1>6 DEF Busy
    <3>2. task[r] \in Task \ done /\ started[task[r]] = 1 /\ task[r] # t
      BY <1>3, <3>1 DEF IInv, TasksInv, HeldAreStarted, HeldByOne
    <3> QED
      BY <1>4, <3>1, <3>2
  <2>5. HeldByOne'
    BY <1>6 DEF IInv, TasksInv, HeldByOne
  <2>6. DoneWereStarted'
    BY <1>4, <1>5 DEF IInv, TasksInv, DoneWereStarted
  <2> QED
    BY <2>1, <2>2, <2>3, <2>4, <2>5, <2>6 DEF TasksInv
<1>15. NoTaskIsLost'
  BY <1>1, <1>4, <1>6, Callers DEF IInv, NoTaskIsLost, Queued
<1>16. CountInv'
  <2>1. pending + Cardinality(done) = issued /\ issued' = issued
    BY <1>4 DEF IInv, CountInv
  <2> QED
    BY <1>4, <1>5, <1>9, <2>1 DEF CountInv
<1>17. ThreadsInv'
  BY <1>1, <1>2, <1>4, <1>6, ThreadsStay DEF IInv
<1>18. WaitInv'
  BY <1>4, <1>5, <1>6 DEF IInv, WaitInv
<1> QED
  BY <1>7, <1>8, <1>10, <1>12, <1>13, <1>14, <1>15, <1>16, <1>17, <1>18 DEF IInv, Types
----------------------------------------------------------------------------
(* Wait and StopAndJoinThreads                                             *)

\* Main waits and a worker wakes it: only their places, stop and what Main
\* counts change, and Main leaves the wait only when nothing is pending.
LEMMA MainWaits ==
    ASSUME OneSubmitter, IInv,
           UNCHANGED <<pending, live, queues, handle, task, prio, seen, at, issued, started, done>>,
           pc' \in [Caller -> WorkerPlaces \cup MainPlaces],
           \A s \in Slot : pc'[s] = pc[s] \/ (pc[s] = "notify" /\ pc'[s] = "loop"),
           pc[Main] \notin Submitting,
           pc'[Main] \in {"idle", "wait", "blocked", "asleep", "stop", "join", "returned"},
           owed' \in Nat, stop' \in BOOLEAN,
           WaitInv'
    PROVE  IInv'
<1>1. /\ Caller = {Main} \cup Slot /\ Main \notin Slot
      /\ PlacesType /\ LocalsType /\ SharedType /\ PollInv /\ ThreadsInv
  BY Callers DEF IInv, Types
<1>2. PlacesType'
  BY <1>1 DEF PlacesType, WorkerPlaces, MainPlaces
<1>3. LocalsType' /\ SharedType'
  BY <1>1 DEF LocalsType, SharedType
<1>4. /\ QueuesType' /\ HistoriesType'
      /\ QueuesInv' /\ TasksInv' /\ NoTaskIsLost' /\ CountInv'
  <2>1. (Carrying' <=> Carrying) /\ pc'[Main] # "store"
    BY DEF Carrying, Submitting
  <2>2. \A s \in Slot : pc'[s] \in Busy => pc[s] \in Busy
    BY DEF Busy, Growing
  <2> QED
    BY <2>1, <2>2, TasksStay
<1>5. PollInv'
  BY <1>1, PollsStay
<1>6. ThreadsInv'
  <2>1. pc[Main] \notin {"unborn", "spawn", "assign", "cas"}
    BY <1>1 DEF Submitting, PlacesType, MainPlaces
  <2>2. \A c \in Caller :
           /\ \A x \in {"unborn", "spawn", "assign"} : pc'[c] = x <=> pc[c] = x
           /\ pc'[c] = "cas" => pc[c] = "cas"
    BY <1>1, <2>1
  <2> QED
    BY <1>1, <2>2, ThreadsStay
<1> QED
  BY <1>2, <1>3, <1>4, <1>5, <1>6 DEF IInv, Types

\* The last worker to finish wakes Main, if it sleeps.
LEMMA NotifyStep ==
    ASSUME OneSubmitter, IInv, NEW s \in Slot, Notify(s)
    PROVE  IInv'
<1>1. /\ Caller = {Main} \cup Slot /\ Main \notin Slot /\ PlacesType /\ LocalsType /\ SharedType
      /\ pc[s] = "notify"
      /\ UNCHANGED <<pending, stop, live, queues, handle, task, prio, seen, at, owed, issued,
                     started, done>>
  BY Callers DEF IInv, Types, Notify, activity, locals, histories
<1>2. PICK x : /\ pc' = [pc EXCEPT ![s] = "loop", ![Main] = x]
               /\ x = IF pc[Main] = "asleep" THEN "blocked" ELSE pc[Main]
  BY <1>1 DEF Notify, PlacesType
<1>3. /\ pc'[s] = "loop" /\ pc'[Main] = x /\ x \in MainPlaces
      /\ pc' \in [Caller -> WorkerPlaces \cup MainPlaces]
      /\ \A r \in Slot : r # s => pc'[r] = pc[r]
  BY <1>1, <1>2 DEF PlacesType, WorkerPlaces, MainPlaces
<1>4. WaitInv'
  BY <1>1, <1>2, <1>3 DEF IInv, WaitInv
<1>5. CASE pc[Main] \in Submitting
  <2>1. pc'[Main] = pc[Main]
    BY <1>2, <1>3, <1>5 DEF Submitting
  <2>2. PollInv'
    BY <1>1, <1>3, PollsStay DEF IInv
  <2>3. LocalsType'
    BY <1>1 DEF LocalsType
  <2> QED
    BY <1>1, <1>3, <2>1, <2>2, <2>3, WorkerMovesOn DEF Spawning
<1>6. CASE pc[Main] \notin Submitting
  BY <1>1, <1>2, <1>3, <1>4, <1>6, MainWaits DEF SharedType, LocalsType, PlacesType, MainPlaces
<1> QED
  BY <1>5, <1>6

\* Wait and StopAndJoinThreads: Main sets stop_ only when nothing is pending.
LEMMA WaitSteps ==
    ASSUME OneSubmitter, IInv, WaitStep
    PROVE  IInv'
<1>1. /\ Caller = {Main} \cup Slot /\ Main \notin Slot
      /\ PlacesType /\ LocalsType /\ SharedType /\ owed \in Nat /\ pending \in Nat
      /\ stop \in BOOLEAN
  BY Callers DEF IInv, Types, LocalsType, SharedType
<1>2. /\ pc[Main] \in {"stop", "join", "returned"} => pending = 0
      /\ stop => pc[Main] \in {"join", "returned"}
      /\ pc[Main] = "join" => owed < MaxWorkers
  BY DEF IInv, WaitInv
<1>3. ASSUME NEW x \in {"wait", "blocked", "asleep", "stop", "join", "returned"},
             pc' = [pc EXCEPT ![Main] = x]
      PROVE  /\ pc'[Main] = x /\ pc' \in [Caller -> WorkerPlaces \cup MainPlaces]
             /\ \A s \in Slot : pc'[s] = pc[s]
  BY <1>1, <1>3 DEF PlacesType, MainPlaces
<1>4. CASE WaitLoad
  <2>1. PICK x \in {"stop", "blocked"} : /\ pc' = [pc EXCEPT ![Main] = x]
                                         /\ x = "stop" => pending = 0
    BY <1>4 DEF WaitLoad, Goto
  <2>2. /\ pc[Main] \in {"idle", "wait"} /\ owed' = pending
        /\ UNCHANGED <<pending, stop, live, queues, handle, task, prio, seen, at, issued,
                       started, done>>
    BY <1>4 DEF WaitLoad, activity, locals, histories
  <2>3. /\ pc'[Main] = x /\ pc' \in [Caller -> WorkerPlaces \cup MainPlaces]
        /\ \A s \in Slot : pc'[s] = pc[s]
    BY <1>3, <2>1
  <2>4. WaitInv'
    BY <1>2, <2>1, <2>2, <2>3 DEF WaitInv
  <2> QED
    BY <1>1, <2>2, <2>3, <2>4, MainWaits DEF Submitting
<1>5. CASE WaitBlock
  <2>1. PICK x \in {"asleep", "wait"} : pc' = [pc EXCEPT ![Main] = x]
    BY <1>5 DEF WaitBlock, Goto
  <2>2. /\ pc[Main] = "blocked"
        /\ UNCHANGED <<pending, stop, live, queues, handle, task, prio, seen, at, owed, issued,
                       started, done>>
    BY <1>5 DEF WaitBlock, activity, locals, histories
  <2>3. /\ pc'[Main] = x /\ pc' \in [Caller -> WorkerPlaces \cup MainPlaces]
        /\ \A s \in Slot : pc'[s] = pc[s]
    BY <1>3, <2>1
  <2>4. WaitInv'
    BY <1>2, <2>2, <2>3 DEF WaitInv
  <2> QED
    BY <1>1, <2>2, <2>3, <2>4, MainWaits DEF Submitting
<1>6. CASE Stop
  <2>1. /\ pc[Main] = "stop" /\ stop' = TRUE /\ owed' = 0 /\ pc' = [pc EXCEPT ![Main] = "join"]
        /\ UNCHANGED <<pending, live, queues, handle, task, prio, seen, at, issued,
                       started, done>>
    BY <1>6 DEF Stop, Goto, locals, histories
  <2>2. /\ pc'[Main] = "join" /\ pc' \in [Caller -> WorkerPlaces \cup MainPlaces]
        /\ \A s \in Slot : pc'[s] = pc[s]
    BY <1>3, <2>1
  <2>3. WaitInv'
    BY <1>2, <2>1, <2>2, WorkerAssumption DEF WaitInv
  <2> QED
    BY <1>1, <2>1, <2>2, <2>3, MainWaits DEF Submitting
<1>7. CASE Join
  <2>1. /\ pc[Main] = "join"
        /\ UNCHANGED <<pending, stop, live, queues, handle, task, prio, seen, at, issued,
                       started, done>>
        /\ \/ owed + 1 < MaxWorkers /\ owed' = owed + 1 /\ pc' = pc
           \/ owed' = 0 /\ pc' = [pc EXCEPT ![Main] = "returned"]
    BY <1>7 DEF Join, Goto, activity, locals, histories
  <2>2. /\ pc'[Main] \in {"join", "returned"} /\ pc' \in [Caller -> WorkerPlaces \cup MainPlaces]
        /\ \A s \in Slot : pc'[s] = pc[s]
    BY <1>1, <1>3, <2>1 DEF PlacesType
  <2>3. owed' \in Nat /\ (pc'[Main] = "join" => owed' < MaxWorkers)
    BY <1>1, <1>3, <2>1
  <2>4. WaitInv'
    BY <1>2, <2>1, <2>2, <2>3 DEF WaitInv
  <2> QED
    BY <1>1, <2>1, <2>2, <2>3, <2>4, MainWaits DEF Submitting
<1> QED
  BY <1>4, <1>5, <1>6, <1>7 DEF WaitStep
----------------------------------------------------------------------------
(* The invariant, and what it gives                                        *)

\* The scheduler as it is constructed.
LEMMA InvInit ==
    ASSUME OneSubmitter, Init
    PROVE  IInv
<1>1. Caller = {Main} \cup Slot /\ Main \notin Slot /\ Submitter = {Main}
  BY Callers
<1>2. /\ pc \in [Caller -> {"unborn", "idle"}] /\ pc[Main] = "idle"
      /\ \A s \in Slot : pc[s] = "unborn"
  BY <1>1 DEF Init
<1>3. PlacesType
  BY <1>2 DEF PlacesType, WorkerPlaces, MainPlaces
<1>4. LocalsType /\ SharedType
  <2>1. 0 \in Priority /\ 0 \in 0 .. PollCount - 1 /\ 0 \in 0 .. MaxWorkers /\ 0 \in 0 .. MaxTasks
    <3>1. PollCount \in Nat /\ 0 < PollCount
      BY PriorityAssumption, WorkerAssumption DEF PollCount
    <3> QED
      BY <3>1, PriorityAssumption, WorkerAssumption, TaskAssumption DEF Priority
  <2> QED
    BY <2>1 DEF Init, LocalsType, SharedType
<1>5. QueuesType
  BY DEF Init, QueuesType, Owner
<1>6. HistoriesType
  BY FS_EmptySet DEF Init, HistoriesType
<1>7. \A s \in Owner, p \in Priority :
         queues[s][p].top = 0 /\ Items(s, p) = <<>> /\ Waiting(s, p) = {} /\ Used(s, p) = 0
  BY DEF Init, Owner, Items, Waiting, Used, ToSet
<1>8. QueuesInv
  BY <1>2, <1>7 DEF QueuesInv, ItemsDiffer, UsedBounded, BottomRead, Carrying, IsInjective, Init
<1>9. PollInv
  BY <1>2 DEF PollInv
<1>10. TasksInv
  <2>1. StartedOnce /\ DoneWereStarted
    BY DEF Init, StartedOnce, DoneWereStarted
  <2>2. CarriedIsNew
    BY <1>2 DEF CarriedIsNew, Carrying
  <2>3. QueuedAreNew /\ QueuesDisjoint
    BY <1>7 DEF QueuedAreNew, QueuesDisjoint
  <2>4. HeldAreStarted /\ HeldByOne
    BY <1>2 DEF HeldAreStarted, HeldByOne, Busy, Growing
  <2> QED
    BY <2>1, <2>2, <2>3, <2>4 DEF TasksInv
<1>11. NoTaskIsLost /\ CountInv
  BY FS_EmptySet DEF Init, NoTaskIsLost, CountInv
<1>12. ThreadsInv
  BY <1>1, <1>2 DEF Init, ThreadsInv, UnbornAbove, CasInRange, SpawnerInv, SpawnersDiffer,
                    HandlesStored, Spawning
<1>13. WaitInv
  BY <1>2 DEF Init, WaitInv
<1> QED
  BY <1>3, <1>4, <1>5, <1>6, <1>8, <1>9, <1>10, <1>11, <1>12, <1>13 DEF IInv, Types

\* A step that changes no variable.
LEMMA InvStutter ==
    ASSUME IInv, UNCHANGED vars
    PROVE  IInv'
<1> USE DEF vars
<1>1. Types'
  BY DEF IInv, Types, PlacesType, LocalsType, SharedType, QueuesType, HistoriesType
<1>2. QueuesInv'
  BY DEF IInv, QueuesInv, ItemsDiffer, UsedBounded, BottomRead, Used, Items, Carrying
<1>3. PollInv'
  BY DEF IInv, PollInv, PollInvOf, Items, Polled
<1>4. TasksInv'
  BY DEF IInv, TasksInv, StartedOnce, CarriedIsNew, QueuedAreNew, QueuesDisjoint,
         HeldAreStarted, HeldByOne, DoneWereStarted, Carrying, Waiting
<1>5. NoTaskIsLost' /\ CountInv' /\ WaitInv'
  BY DEF IInv, NoTaskIsLost, Queued, CountInv, WaitInv
<1>6. ThreadsInv'
  BY DEF IInv, ThreadsInv, UnbornAbove, CasInRange, SpawnerInv, SpawnersDiffer, HandlesStored
<1> QED
  BY <1>1, <1>2, <1>3, <1>4, <1>5, <1>6 DEF IInv

\* Every step preserves the invariant.
LEMMA InvStep ==
    ASSUME OneSubmitter, IInv, [Next]_vars
    PROVE  IInv'
<1>1. Submitter \subseteq Caller /\ Slot \subseteq Caller
  BY DEF Caller
<1>2. ASSUME NEW c \in Caller, CallerStep(c) PROVE IInv'
  BY <1>2, StoreTaskStep, GrowLoadStep, GrowTestStep, GrowCasStep, SpawnStep, AssignHandleStep,
     LoadBottomStep DEF CallerStep, LoadBottom
<1>3. CASE \E c \in Submitter : Submit(c) \/ CallerStep(c)
  BY <1>1, <1>2, <1>3, SubmitStep
<1>4. CASE \E s \in Slot : WorkerStep(s) \/ InsertOwn(s) \/ Finish(s)
  BY <1>1, <1>2, <1>4, CheckStopStep, TakeOwnStep, StealTopStep, StealCasStep, NotifyStep,
     InsertOwnStep, FinishStep DEF WorkerStep
<1>5. CASE WaitStep
  BY <1>5, WaitSteps
<1>6. CASE UNCHANGED vars
  BY <1>6, InvStutter
<1> QED
  BY <1>3, <1>4, <1>5, <1>6 DEF Next

\* The state of the scheduler is what a worker, a submitter and Wait rely on,
\* after every step (task_scheduler.hpp:94-334).
THEOREM SchedulerInvariant == ASSUME OneSubmitter PROVE Spec => []IInv
<1>1. Init => IInv
  BY InvInit
<1>2. IInv /\ [Next]_vars => IInv'
  BY InvStep
<1> QED
  BY <1>1, <1>2, PTL DEF Spec

\* Every variable has its type: pending and the tops stay within the tasks
\* submitted, every queue holds tasks, every thread is at a place of its own kind
\* and no more workers are counted in than max_workers_ allows.
THEOREM TypesHold == ASSUME OneSubmitter PROVE Spec => []TypeOK
<1>1. IInv => TypeOK
  <2> SUFFICES ASSUME IInv PROVE TypeOK
    OBVIOUS
  <2>1. /\ PlacesType /\ LocalsType /\ SharedType /\ QueuesType
        /\ Submitter = {Main} /\ MaxTasks \in Nat
    BY Callers, TaskAssumption DEF IInv, Types
  <2>2. pending \in 0 .. MaxTasks
    <3>1. pending + Cardinality(done) = issued /\ Cardinality(done) \in Nat
      BY FS_CardinalityType DEF IInv, Types, HistoriesType, CountInv
    <3> QED
      BY <2>1, <3>1 DEF SharedType
  <2>3. \A s \in Slot \cup {Shared}, p \in Priority :
           queues[s][p].top \in 0 .. MaxTasks /\ queues[s][p].items \in Seq(Task)
    <3> SUFFICES ASSUME NEW s \in Owner, NEW p \in Priority
                 PROVE  queues[s][p].top \in 0 .. MaxTasks /\ queues[s][p].items \in Seq(Task)
      BY DEF Owner
    <3>1. /\ queues[s][p].top \in Nat /\ Items(s, p) \in Seq(Task) /\ Len(Items(s, p)) \in Nat
      BY <2>1, Queues
    <3>2. queues[s][p].top + Len(Items(s, p)) <= issued /\ issued \in Nat /\ issued <= MaxTasks
      BY <2>1 DEF IInv, QueuesInv, UsedBounded, Used, SharedType
    <3> QED
      BY <2>1, <3>1, <3>2 DEF Items
  <2>4. \A s \in Slot :
           pc[s] \in Working \cup {"unborn", "loop", "poll", "steal", "notify", "exited"}
    BY <2>1 DEF PlacesType, WorkerPlaces, Busy, Growing, Working, Submitting
  <2>5. \A c \in Submitter :
           pc[c] \in Submitting \cup {"idle", "wait", "blocked", "asleep", "stop", "join",
                                      "returned"}
    BY <2>1 DEF PlacesType, MainPlaces
  <2>6. started \in [Task -> Nat] /\ done \subseteq Task
    BY DEF IInv, Types, HistoriesType
  <2> QED
    BY <2>1, <2>2, <2>3, <2>4, <2>5, <2>6 DEF TypeOK, SharedType, LocalsType
<1> QED
  BY <1>1, SchedulerInvariant, PTL

\* No task is processed twice, however takes and steals race for it: remmy's
\* tasks are raw pointers that Process frees.
THEOREM ProcessedAtMostOnce == ASSUME OneSubmitter PROVE Spec => []RunsAtMostOnce
<1>1. IInv => RunsAtMostOnce
  BY DEF IInv, TasksInv, StartedOnce, RunsAtMostOnce
<1> QED
  BY <1>1, SchedulerInvariant, PTL

\* With the one submitter remmy has (main.cpp calls Submit from the thread that
\* waits), a task whose Submit has stored it is in a queue, in a worker's hands or
\* done.
THEOREM NothingIsLost == ASSUME OneSubmitter PROVE Spec => []NoTaskIsLost
<1>1. IInv => NoTaskIsLost
  BY DEF IInv
<1> QED
  BY <1>1, SchedulerInvariant, PTL

\* stop_ is set only when every task submitted has been processed to its end.
THEOREM StopsWhenDone == ASSUME OneSubmitter PROVE Spec => []StopMeansDone
<1>1. IInv => StopMeansDone
  BY Counting DEF IInv, WaitInv, StopMeansDone
<1> QED
  BY <1>1, SchedulerInvariant, PTL

\* While Wait joins, every worker that was started has its handle stored, by
\* Main itself or by a worker of a lower slot, which Main joins first.
THEOREM JoinsEveryWorker == ASSUME OneSubmitter PROVE Spec => []JoinSeesEveryHandle
<1>1. IInv => JoinSeesEveryHandle
  <2> SUFFICES ASSUME IInv, pc[Main] \in {"join", "returned"},
                      NEW s \in Slot, pc[s] # "unborn"
               PROVE  handle[s] = Main \/ (handle[s] \in Slot /\ handle[s] < s)
    BY DEF JoinSeesEveryHandle
  <2>1. pending = 0
    BY DEF IInv, WaitInv
  <2>2. \A c \in Caller : pc[c] # "assign"
    BY <2>1, Counting, Callers DEF Busy, Growing
  <2> QED
    BY <2>2 DEF IInv, ThreadsInv, HandlesStored
<1> QED
  BY <1>1, SchedulerInvariant, PTL

\* A worker never starts a task while its own queue holds a more urgent one:
\* "Acquire the most urgent runnable task".
THEOREM MostUrgentFirst == ASSUME OneSubmitter PROVE Spec => UrgentFirst
<1>1. IInv => UrgentFirstStep
  BY DEF IInv, PollInv, PollInvOf, UrgentFirstStep, Items
<1> QED
  BY <1>1, SchedulerInvariant, PTL DEF UrgentFirst
=============================================================================
