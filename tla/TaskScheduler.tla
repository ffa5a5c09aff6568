--------------------------- MODULE TaskScheduler ---------------------------
(***************************************************************************)
(* The scheduler of task_scheduler/task_scheduler.hpp: threads outside it  *)
(* submit tasks, workers poll queues of every priority, process tasks that *)
(* submit more, and start further workers; one of the outside threads      *)
(* waits until nothing is pending, then stops and joins the workers.       *)
(*                                                                         *)
(* Every atomic access, every queue operation and every thread operation   *)
(* is a step.  A work-stealing queue is what WorkStealingQueue promises    *)
(* (ChaseLev implements it), with the two steps of a Steal that decide who *)
(* wins: reading the top and the compare-and-swap.                         *)
(***************************************************************************)
EXTENDS Integers, Sequences, SequencesExt, FiniteSets

CONSTANTS
    Main,         \* the thread that owns the scheduler and calls Wait
    Submitter,    \* the threads that call the public Submit, Main included
    MaxWorkers,   \* max_workers_
    kPriorities,
    MaxTasks,     \* bound: submissions in a behaviour; a task resubmitted by
                  \* its worker counts as a new one
    None

ASSUME WorkerAssumption == MaxWorkers \in Nat /\ 0 < MaxWorkers
ASSUME PriorityAssumption == kPriorities \in Nat /\ 0 < kPriorities
ASSUME TaskAssumption == MaxTasks \in Nat

Slot == 0 .. MaxWorkers - 1
Priority == 0 .. kPriorities - 1
Task == 1 .. MaxTasks
Caller == Submitter \cup Slot    \* whoever submits and grows

ASSUME SubmitterAssumption == Main \in Submitter /\ Submitter \cap Slot = {}

\* queues[s] is slots_[s].queues; queues[Shared] is submitted_.
Shared == MaxWorkers

VARIABLES
    pending, stop, live,  \* activity_
    queues,      \* per owner and priority: how many have left at the top, and
                 \* what is in the queue, the oldest first
    handle,      \* who stored slots_[s].thread, or None
    pc,          \* where each thread is; "unborn" before a worker starts
    task,        \* the task a caller submits or a worker processes
    prio,        \* the priority of that submission
    seen,        \* the index, top or bottom a thread has read
    at,          \* how far a worker has polled
    owed,        \* the local `owed` of Wait, then the slot to join
    issued,      \* how many tasks have been submitted
    started,     \* history: how often Process was called for each task
    done         \* history: the tasks whose Process has returned

vars == <<pending, stop, live, queues, handle, pc, task, prio, seen, at, owed,
          issued, started, done>>

activity == <<pending, stop, live>>
histories == <<started, done>>
locals == <<task, prio, seen, at>>

Goto(c, label) == pc' = [pc EXCEPT ![c] = label]

Init ==
    /\ pending = 0 /\ stop = FALSE /\ live = 0
    /\ queues = [s \in Slot \cup {Shared} |->
                    [p \in Priority |-> [top |-> 0, items |-> <<>>]]]
    /\ handle = [s \in Slot |-> None]
    /\ pc = [c \in Caller |-> IF c \in Slot THEN "unborn" ELSE "idle"]
    /\ task = [c \in Caller |-> None]
    /\ prio = [c \in Caller |-> 0]
    /\ seen = [c \in Caller |-> 0]
    /\ at = [s \in Slot |-> 0]
    /\ owed = 0
    /\ issued = 0
    /\ started = [t \in Task |-> 0]
    /\ done = {}

----------------------------------------------------------------------------
(* Submit and MaybeGrowThreads, by an outside thread or by a worker        *)

\* Mutant: an outside submission is not counted.
SubmitUncounted(c) ==
    /\ c \in Submitter /\ pc[c] = "idle" /\ ~stop
    /\ pc[Main] = "idle"
    /\ issued < MaxTasks
    /\ issued' = issued + 1
    /\ task' = [task EXCEPT ![c] = issued + 1]
    /\ \E p \in Priority : prio' = [prio EXCEPT ![c] = p]
    /\ Goto(c, "insert")
    /\ UNCHANGED <<activity, queues, handle, seen, at, owed, histories>>

\* The public Submit; it does nothing once stop_ is set.  "After calling
\* Wait, the scheduler cannot be re-used": callers keep to that, so stop_ cannot
\* be set between its load and the fetch_add, which are one step here.
Submit(c) ==
    /\ c \in Submitter /\ pc[c] = "idle" /\ ~stop
    /\ pc[Main] \in {"idle", "insert", "store", "grow", "test", "cas",
                     "spawn", "assign"}
    /\ issued < MaxTasks
    /\ issued' = issued + 1
    /\ pending' = pending + 1
    /\ task' = [task EXCEPT ![c] = issued + 1]
    /\ \E p \in Priority : prio' = [prio EXCEPT ![c] = p]
    /\ Goto(c, "insert")
    /\ UNCHANGED <<stop, live, queues, handle, seen, at, owed, histories>>

\* Insert reads bottom_ ...
Bottom(q) == q.top + Len(q.items)

LoadBottom(c) ==
    /\ c \in Submitter /\ pc[c] = "insert"
    /\ seen' = [seen EXCEPT ![c] = Bottom(queues[Shared][prio[c]])]
    /\ Goto(c, "store")
    /\ UNCHANGED <<activity, queues, handle, task, prio, at, owed, issued,
                   histories>>

\* Mutant: the slot before the one read.
StoreEarly(q, b, t) ==
    [q EXCEPT !.items =
        IF b <= q.top THEN <<t>>
        ELSE Append(SubSeq(q.items, 1, b - q.top - 1), t)]

\* ... then writes the slot it names and moves bottom_ behind it.
StoreAt(q, b, t) ==
    [q EXCEPT !.items =
        IF b < q.top THEN <<>> ELSE Append(SubSeq(q.items, 1, b - q.top), t)]

StoreTask(c) ==
    /\ pc[c] = "store"
    /\ queues' = [queues EXCEPT ![Shared][prio[c]] =
                     StoreAt(@, seen[c], task[c])]
    /\ seen' = [seen EXCEPT ![c] = 0]
    /\ task' = [task EXCEPT ![c] = None]
    /\ prio' = [prio EXCEPT ![c] = 0]
    /\ Goto(c, "grow")
    /\ UNCHANGED <<activity, handle, at, owed, issued, histories>>

\* Mutant: a worker's submission is not counted.
InsertOwnUncounted(s) ==
    /\ pc[s] = "processing" /\ issued < MaxTasks
    /\ issued' = issued + 1
    /\ \E p \in Priority :
          queues' = [queues EXCEPT ![s][p].items = Append(@, issued + 1)]
    /\ Goto(s, "grow")
    /\ UNCHANGED <<activity, handle, locals, owed, histories>>

\* A worker's submission, from Process, into its own slot: no other thread
\* inserts there.  The fetch_add and the Insert are one step: in between pending
\* is above zero anyway, for the task in hand, so that Wait and MaybeGrowThreads
\* do the same in either state, and a thief finds the task or does not.
InsertOwn(s) ==
    /\ pc[s] = "processing" /\ issued < MaxTasks
    /\ issued' = issued + 1
    /\ pending' = pending + 1
    /\ \E p \in Priority :
          queues' = [queues EXCEPT ![s][p].items = Append(@, issued + 1)]
    /\ Goto(s, "grow")
    /\ UNCHANGED <<stop, live, handle, locals, owed, histories>>

AfterSubmit(c) == IF c \in Slot THEN "processing" ELSE "idle"

GrowLoad(c) ==
    /\ pc[c] = "grow"
    /\ seen' = [seen EXCEPT ![c] = live]
    /\ Goto(c, "test")
    /\ UNCHANGED <<activity, queues, handle, task, prio, at, owed, issued,
                   histories>>

GrowTest(c) ==
    /\ pc[c] = "test"
    /\ IF seen[c] < MaxWorkers /\ pending # 0
       THEN Goto(c, "cas") /\ UNCHANGED seen
       ELSE Goto(c, AfterSubmit(c)) /\ seen' = [seen EXCEPT ![c] = 0]
    /\ UNCHANGED <<activity, queues, handle, task, prio, at, owed, issued,
                   histories>>

GrowCas(c) ==
    /\ pc[c] = "cas"
    /\ IF live = seen[c]
       THEN live' = live + 1 /\ Goto(c, "spawn") /\ UNCHANGED seen
       ELSE /\ seen' = [seen EXCEPT ![c] = live]
            /\ Goto(c, "test")
            /\ UNCHANGED live
    /\ UNCHANGED <<pending, stop, queues, handle, task, prio, at, owed,
                   issued, histories>>

\* The thread runs before slots_[index].thread is assigned.
Spawn(c) ==
    /\ pc[c] = "spawn"
    /\ pc' = [pc EXCEPT ![c] = "assign", ![seen[c]] = "loop"]
    /\ UNCHANGED <<activity, queues, handle, locals, owed, issued, histories>>

AssignHandle(c) ==
    /\ pc[c] = "assign"
    /\ handle' = [handle EXCEPT ![seen[c]] = c]
    /\ seen' = [seen EXCEPT ![c] = 0]
    /\ Goto(c, AfterSubmit(c))
    /\ UNCHANGED <<activity, queues, task, prio, at, owed, issued, histories>>

----------------------------------------------------------------------------
(* WorkerLoop and AcquireNextTask                                          *)

\* The queues a worker polls: for each priority its own, the other slots' in
\* order, then submitted_.
PollCount == kPriorities * (MaxWorkers + 1)

\* Mutant: the least urgent priority first.
PollPriorityReversed(k) == kPriorities - 1 - (k \div (MaxWorkers + 1))

PollPriority(k) == k \div (MaxWorkers + 1)
PollOwner(s, k) ==
    LET i == k % (MaxWorkers + 1)
    IN  IF i = 0 THEN s
        ELSE IF i = MaxWorkers THEN Shared
        ELSE IF i <= s THEN i - 1 ELSE i

Polled(s) == queues[PollOwner(s, at[s])][PollPriority(at[s])]

CheckStop(s) ==
    /\ pc[s] = "loop"
    /\ at' = [at EXCEPT ![s] = 0]
    /\ Goto(s, IF stop THEN "exited" ELSE "poll")
    /\ UNCHANGED <<activity, queues, handle, task, prio, seen, owed, issued,
                   histories>>

\* Nothing there: the next queue, or yield and start over.
PollNext(s) ==
    IF at[s] + 1 < PollCount
    THEN at' = [at EXCEPT ![s] = @ + 1] /\ Goto(s, "poll")
    ELSE at' = [at EXCEPT ![s] = 0] /\ Goto(s, "loop")

StartTask(s, t) ==
    /\ task' = [task EXCEPT ![s] = t]
    /\ started' = [started EXCEPT ![t] = @ + 1]
    /\ at' = [at EXCEPT ![s] = 0]
    /\ Goto(s, "processing")

\* Taking the last element moves the top, so that a thief which has read it
\* loses; taking another one does not.
TakeLast(q) ==
    [top |-> IF Len(q.items) = 1 THEN q.top + 1 ELSE q.top,
     items |-> Front(q.items)]

TakeOwn(s) ==
    /\ pc[s] = "poll" /\ PollOwner(s, at[s]) = s
    /\ \/ /\ Polled(s).items # <<>>
          /\ StartTask(s, Last(Polled(s).items))
          /\ queues' = [queues EXCEPT ![s][PollPriority(at[s])] = TakeLast(@)]
       \/ /\ Polled(s).items = <<>>
          /\ PollNext(s)
          /\ UNCHANGED <<queues, task, started>>
    /\ UNCHANGED <<activity, handle, prio, seen, owed, issued, done>>

StealTop(s) ==
    /\ pc[s] = "poll" /\ PollOwner(s, at[s]) # s
    /\ \/ /\ Polled(s).items # <<>>
          /\ seen' = [seen EXCEPT ![s] = Polled(s).top]
          /\ Goto(s, "steal")
          /\ UNCHANGED at
       \/ /\ Polled(s).items = <<>>
          /\ PollNext(s)
          /\ UNCHANGED seen
    /\ UNCHANGED <<activity, queues, handle, task, prio, owed, issued,
                   histories>>

\* Mutant: the compare-and-swap leaves the top where it was.
StealInPlace(s) ==
    /\ pc[s] = "steal"
    /\ seen' = [seen EXCEPT ![s] = 0]
    /\ \/ /\ Polled(s).top = seen[s]
          /\ StartTask(s, Head(Polled(s).items))
       \/ /\ Polled(s).top # seen[s]
          /\ PollNext(s)
          /\ UNCHANGED <<task, started>>
    /\ UNCHANGED <<activity, queues, handle, prio, owed, issued, done>>

StealCas(s) ==
    /\ pc[s] = "steal"
    /\ seen' = [seen EXCEPT ![s] = 0]
    /\ \/ /\ Polled(s).top = seen[s]
          /\ StartTask(s, Head(Polled(s).items))
          /\ queues' = [queues EXCEPT
                           ![PollOwner(s, at[s])][PollPriority(at[s])] =
                              [top |-> @.top + 1, items |-> Tail(@.items)]]
       \/ /\ Polled(s).top # seen[s]
          /\ PollNext(s)
          /\ UNCHANGED <<queues, task, started>>
    /\ UNCHANGED <<activity, handle, prio, owed, issued, done>>

\* Process returns, the task is no longer pending.
Finish(s) ==
    /\ pc[s] = "processing"
    /\ done' = done \cup {task[s]}
    /\ task' = [task EXCEPT ![s] = None]
    /\ pending' = pending - 1
    /\ Goto(s, IF pending = 1 THEN "notify" ELSE "loop")
    /\ UNCHANGED <<stop, live, queues, handle, prio, seen, at, owed, issued,
                   started>>

\* Mutant: the last worker to finish wakes nobody.
NotifyNobody(s) ==
    /\ pc[s] = "notify"
    /\ Goto(s, "loop")
    /\ UNCHANGED <<activity, queues, handle, locals, owed, issued, histories>>

Notify(s) ==
    /\ pc[s] = "notify"
    /\ pc' = [pc EXCEPT ![s] = "loop",
                        ![Main] = IF @ = "asleep" THEN "blocked" ELSE @]
    /\ UNCHANGED <<activity, queues, handle, locals, owed, issued, histories>>

----------------------------------------------------------------------------
(* Wait and StopAndJoinThreads                                             *)

\* Mutant: the wait ends one task early.
WaitLoadEarly ==
    /\ \/ pc[Main] = "idle" /\ \A c \in Submitter : pc[c] = "idle"
       \/ pc[Main] = "wait"
    /\ owed' = pending
    /\ Goto(Main, IF pending <= 1 THEN "stop" ELSE "blocked")
    /\ UNCHANGED <<activity, queues, handle, locals, issued, histories>>

WaitLoad ==
    /\ \/ pc[Main] = "idle" /\ \A c \in Submitter : pc[c] = "idle"
       \/ pc[Main] = "wait"
    /\ owed' = pending
    /\ Goto(Main, IF pending = 0 THEN "stop" ELSE "blocked")
    /\ UNCHANGED <<activity, queues, handle, locals, issued, histories>>

\* pending_tasks_.wait(owed): sleep if the value is still the one read.
WaitBlock ==
    /\ pc[Main] = "blocked"
    /\ Goto(Main, IF pending = owed THEN "asleep" ELSE "wait")
    /\ UNCHANGED <<activity, queues, handle, locals, owed, issued, histories>>

Stop ==
    /\ pc[Main] = "stop"
    /\ stop' = TRUE
    /\ owed' = 0
    /\ Goto(Main, "join")
    /\ UNCHANGED <<pending, live, queues, handle, locals, issued, histories>>

\* The slots in order; one whose handle is not joinable is passed over.
Join ==
    /\ pc[Main] = "join"
    /\ handle[owed] # None => pc[owed] = "exited"
    /\ IF owed + 1 < MaxWorkers
       THEN owed' = owed + 1 /\ UNCHANGED pc
       ELSE owed' = 0 /\ Goto(Main, "returned")
    /\ UNCHANGED <<activity, queues, handle, locals, issued, histories>>

CallerStep(c) ==
    \/ LoadBottom(c) \/ StoreTask(c) \/ GrowLoad(c) \/ GrowTest(c)
    \/ GrowCas(c)    \/ Spawn(c)     \/ AssignHandle(c)

WorkerStep(s) ==
    \/ CheckStop(s) \/ TakeOwn(s) \/ StealTop(s) \/ StealCas(s)
    \/ Notify(s)    \/ CallerStep(s)

WaitStep == WaitLoad \/ WaitBlock \/ Stop \/ Join

Next ==
    \/ \E c \in Submitter : Submit(c) \/ CallerStep(c)
    \/ \E s \in Slot : WorkerStep(s) \/ InsertOwn(s) \/ Finish(s)
    \/ WaitStep

Spec == Init /\ [][Next]_vars

\* Every thread keeps running, every Process returns and the caller gets to
\* Wait.  No compare-and-swap is assumed to succeed.
Fairness ==
    /\ \A c \in Submitter : WF_vars(CallerStep(c))
    /\ \A s \in Slot : WF_vars(WorkerStep(s) \/ Finish(s))
    /\ WF_vars(WaitStep)

FairSpec == Spec /\ Fairness

----------------------------------------------------------------------------
(* Properties                                                              *)

Submitting == {"insert", "store", "grow", "test", "cas", "spawn", "assign"}
Working == {"processing"} \cup Submitting

\* Every variable has its type (task_scheduler.hpp:189-202, 313-334): pending_tasks_
\* counts no task that was not submitted, live_threads_ no worker without a slot.
TypeOK ==
    /\ pending \in 0 .. MaxTasks /\ live \in 0 .. MaxWorkers
    /\ stop \in BOOLEAN
    /\ \A s \in Slot \cup {Shared}, p \in Priority :
          /\ queues[s][p].top \in 0 .. MaxTasks
          /\ queues[s][p].items \in Seq(Task)
    /\ handle \in [Slot -> Caller \cup {None}]
    /\ \A s \in Slot :
          pc[s] \in Working \cup {"unborn", "loop", "poll", "steal", "notify",
                                  "exited"}
    /\ \A c \in Submitter :
          pc[c] \in Submitting \cup {"idle", "wait", "blocked", "asleep",
                                     "stop", "join", "returned"}
    /\ task \in [Caller -> Task \cup {None}]
    /\ prio \in [Caller -> Priority] /\ seen \in [Caller -> Nat]
    /\ at \in [Slot -> 0 .. PollCount - 1] /\ owed \in Nat
    /\ issued \in 0 .. MaxTasks
    /\ started \in [Task -> Nat] /\ done \subseteq Task

\* No task is processed twice, however takes and steals race for it: remmy's
\* tasks are raw pointers that Process frees.
RunsAtMostOnce == \A t \in Task : started[t] <= 1

Queued(t) ==
    \E s \in Slot \cup {Shared}, p \in Priority :
        Contains(queues[s][p].items, t)

\* A task whose Submit has stored it is in a queue, in a worker's hands or
\* done: none is lost on the way.  That needs the one submitter remmy has: with
\* two, which "@note Thread safe." (line 144) allows, both inserts may read the
\* same bottom_ and the later one writes over the earlier one's task.
NoTaskIsLost ==
    \A t \in 1 .. issued :
        \/ \E c \in Submitter : pc[c] \in {"insert", "store"} /\ task[c] = t
        \/ Queued(t)
        \/ started[t] > 0

\* stop_ is set only when every task submitted has been processed to its end,
\* so no worker leaves while there is work and Wait returns on a quiet tree.
StopMeansDone == stop => done = 1 .. issued

\* While Wait joins, every worker that was started has its handle stored, by
\* Main itself or by a worker of a lower slot, which Main joins first: the
\* plain write of slots_[index].thread always happens before Main reads it.
JoinSeesEveryHandle ==
    pc[Main] \in {"join", "returned"} =>
        \A s \in Slot :
            pc[s] # "unborn" =>
                handle[s] = Main \/ (handle[s] \in Slot /\ handle[s] < s)

\* "Acquire the most urgent runnable task": a worker never starts a task while
\* its own queue holds a more urgent one.  Of the queues others fill or steal from
\* nothing of the kind holds: a task may come after its queue was polled, and a
\* lost race for the top of one passes it over.
UrgentFirstStep ==
    \A s \in Slot :
        (pc[s] \in {"poll", "steal"} /\ pc'[s] = "processing") =>
            \A p \in Priority :
                p < PollPriority(at[s]) => queues[s][p].items = <<>>

UrgentFirst == [][UrgentFirstStep]_vars

\* Wait returns: the workers drain what was submitted, the last one wakes the
\* waiter and every worker sees stop_.
WaitReturns ==
    (pc[Main] \in {"wait", "blocked", "asleep", "stop", "join"})
        ~> (pc[Main] = "returned")
=============================================================================
