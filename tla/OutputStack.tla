---------------------------- MODULE OutputStack ----------------------------
(***************************************************************************)
(* What remmy prints: the lines of -v on standard output and the warnings  *)
(* on standard error (cutils/io), written by RunRm and the workers.        *)
(*                                                                         *)
(* A line goes as one WriteMany down a stack of writers: a BufferedWriter  *)
(* of the thread's own (a Handle of ConcurrentWriter), a MutexWriter, a    *)
(* shared BufferedWriter and a BasicFdWriter.  Standard error is a         *)
(* MutexWriter on a BasicFdWriter, which is a shared buffer of no room.    *)
(* What is private to a thread or done under the lock is one step, except  *)
(* that each writev is a step of its own.                                  *)
(*                                                                         *)
(* A unit is what a short write can separate.  kMaxBytes is not reached:   *)
(* a batch is at most 64 KiB and the pieces of a line.                     *)
(***************************************************************************)
EXTENDS Integers, Sequences, SequencesExt, FiniteSets

CONSTANTS
    Worker, Main,
    Object,
    Work,           \* the objects each thread removes, in order
    Ends,           \* where the pieces of an object's line end
    Setups,         \* capacities and builds: see SetupAssumption
    kMaxPieces,     \* how many pieces one writev takes
    MaxErrors,      \* bound: how many writes fail
    MaxInterrupts,  \* bound: how many writes are interrupted
    None

Thread == Worker \cup {Main}
Stream == {"stdout", "stderr"}
Fate == {"none", "removed", "left", "gone"}   \* "gone": others removed it

ASSUME WorkAssumption ==
    /\ Work \in [Thread -> Seq(Object)]
    /\ \A t, u \in Thread : \A i \in DOMAIN Work[t], j \in DOMAIN Work[u] :
          Work[t][i] = Work[u][j] => t = u /\ i = j
    /\ \A o \in Object : \E t \in Thread : o \in ToSet(Work[t])
ASSUME NoneAssumption == None \notin Thread \cup Object
ASSUME PieceAssumption ==
    /\ Ends \in [Object -> Seq(Nat)]
    /\ \A o \in Object : \A i, j \in DOMAIN Ends[o] : i <= j => Ends[o][i] <= Ends[o][j]
ASSUME SetupAssumption ==
    \A s \in Setups :
        /\ DOMAIN s = {"verbose", "shared", "handle", "concat"}
        /\ s.verbose \in BOOLEAN /\ s.shared \in Nat /\ s.handle \in Nat
        /\ s.concat \in BOOLEAN   \* __cpp_lib_ranges_concat
ASSUME BoundAssumption ==
    kMaxPieces \in Nat \ {0} /\ MaxErrors \in Nat /\ MaxInterrupts \in Nat

VARIABLES
    setup,      \* the options and the build
    todo,       \* per thread: what it has yet to remove
    pc,
    line,       \* the object a thread removes or reports
    stream,     \* where it writes
    handle,     \* per thread: the buffer of its Handle
    calls,      \* per thread: the WriteManys it has yet to make below it
    owner,      \* per stream: who holds MutexWriter's mutex
    buf,        \* per stream: the shared buffer, up to used_
    jobs,       \* per thread: the WriteManys yet to make on the descriptor
    batch,      \* per thread: what is left of the batch given to writev
    fd,         \* per stream: what has been written; Cut where it failed
    errors, interrupts,
    fate,       \* history: what became of each object: see Fate
    begun       \* history, per stream: the lines begun since its last error

vars == <<setup, todo, pc, line, stream, handle, calls, owner, buf, jobs, batch,
          fd, errors, interrupts, fate, begun>>

faults == <<errors, interrupts>>
locals == <<line, stream>>

Cut == <<None, 0>>

\* A line: pieces of units; some may be empty (print.hpp, warn.hpp).
LinePieces(o) ==
    LET before(i) == IF i = 1 THEN 0 ELSE Ends[o][i - 1]
    IN [i \in DOMAIN Ends[o] |->
            [k \in 1 .. Ends[o][i] - before(i) |-> <<o, before(i) + k>>]]
Size(o) == Len(FlattenSeq(LinePieces(o)))

Goto(t, label) == pc' = [pc EXCEPT ![t] = label]

Init ==
    /\ setup \in Setups
    /\ todo = Work
    /\ pc = [t \in Thread |-> "run"]
    /\ line = [t \in Thread |-> None]
    /\ stream = [t \in Thread |-> "stdout"]
    /\ handle = [t \in Thread |-> <<>>]
    /\ calls = [t \in Thread |-> <<>>]
    /\ owner = [s \in Stream |-> None]
    /\ buf = [s \in Stream |-> <<>>]
    /\ jobs = [t \in Thread |-> <<>>]
    /\ batch = [t \in Thread |-> <<>>]
    /\ fd = [s \in Stream |-> <<>>]
    /\ errors = 0 /\ interrupts = 0
    /\ fate = [o \in Object |-> "none"]
    /\ begun = [s \in Stream |-> {}]

Capacity(s) == IF s = "stdout" THEN setup.shared ELSE 0

\* BufferedWriter::WriteMany of what does not fit after `buffered`: one call
\* with everything, or a Flush (which an empty buffer skips) and a call.
PassOn(buffered, pieces) ==
    IF setup.concat THEN <<<<buffered>> \o pieces>>
    ELSE (IF buffered = <<>> THEN <<>> ELSE <<<<buffered>>>>) \o <<pieces>>

Fits(buffered, pieces, capacity) ==
    Len(FlattenSeq(pieces)) <= capacity - Len(buffered)

----------------------------------------------------------------------------
(* The callers                                                             *)

Begin(t, s) ==
    /\ stream' = [stream EXCEPT ![t] = s]
    /\ line' = [line EXCEPT ![t] = Head(todo[t])]
    /\ begun' = [begun EXCEPT ![s] = @ \cup {Head(todo[t])}]

\* What became of the thread's next object.
Meets(t, outcome) ==
    /\ pc[t] = "run" /\ todo[t] # <<>>
    /\ fate' = [fate EXCEPT ![Head(todo[t])] = outcome]
    /\ todo' = [todo EXCEPT ![t] = Tail(@)]

\* LogIfRemoved: under -v what is removed is printed.
Removed(t) ==
    /\ Meets(t, "removed")
    /\ IF setup.verbose
       THEN Begin(t, "stdout") /\ Goto(t, "handle")
       ELSE UNCHANGED <<pc, stream, line, begun>>
    /\ UNCHANGED <<setup, handle, calls, owner, buf, jobs, batch, fd, faults>>

\* WarnAt: what could not be removed is warned about.
NotRemoved(t) ==
    /\ Meets(t, "left")
    /\ Begin(t, "stderr")
    /\ calls' = [calls EXCEPT ![t] = <<LinePieces(Head(todo[t]))>>]
    /\ Goto(t, "lock")
    /\ UNCHANGED <<setup, handle, owner, buf, jobs, batch, fd, faults>>

\* ENOENT: others removed it first, and nothing is said of it.
FoundGone(t) ==
    /\ Meets(t, "gone")
    /\ UNCHANGED <<setup, pc, locals, handle, calls, owner, buf, jobs, batch, fd,
                   faults, begun>>

\* Handle::WriteMany: into the thread's buffer, or on to the shared writer.  remmy
\* takes no Handle and writes to the ConcurrentWriter itself: that is a Handle of
\* no capacity, which passes every line on.
WriteHandle(t) ==
    LET pieces == LinePieces(line[t]) IN
    /\ pc[t] = "handle"
    /\ \/ /\ Fits(handle[t], pieces, setup.handle)
          /\ handle' = [handle EXCEPT ![t] = @ \o FlattenSeq(pieces)]
          /\ Goto(t, "run")
          /\ UNCHANGED calls
       \/ /\ ~Fits(handle[t], pieces, setup.handle)
          /\ handle' = [handle EXCEPT ![t] = <<>>]
          /\ calls' = [calls EXCEPT ![t] = PassOn(handle[t], pieces)]
          /\ Goto(t, "lock")
    /\ UNCHANGED <<setup, todo, locals, owner, buf, jobs, batch, fd, faults,
                   fate, begun>>

\* A thread is through with its work: its Handle flushes as it goes.
DropHandle(t) ==
    /\ pc[t] = "run" /\ todo[t] = <<>>
    /\ IF handle[t] = <<>>
       THEN Goto(t, "done") /\ UNCHANGED <<handle, calls, stream>>
       ELSE /\ handle' = [handle EXCEPT ![t] = <<>>]
            /\ calls' = [calls EXCEPT ![t] = <<<<handle[t]>>>>]
            /\ stream' = [stream EXCEPT ![t] = "stdout"]
            /\ Goto(t, "lock")
    /\ UNCHANGED <<setup, todo, line, owner, buf, jobs, batch, fd, faults,
                   fate, begun>>

----------------------------------------------------------------------------
(* MutexWriter and the shared BufferedWriter                               *)

\* Mutant: what does not fit overtakes what is buffered.
DepositPast(t, s) ==
    LET pieces == Head(calls[t]) IN
    \/ /\ Fits(buf[s], pieces, Capacity(s))
       /\ buf' = [buf EXCEPT ![s] = @ \o FlattenSeq(pieces)]
       /\ Goto(t, "unlock")
       /\ UNCHANGED jobs
    \/ /\ ~Fits(buf[s], pieces, Capacity(s))
       /\ jobs' = [jobs EXCEPT ![t] = <<pieces>>]
       /\ Goto(t, "write")
       /\ UNCHANGED buf

\* Under the lock: copy what fits, or take the buffer out (used_ = 0) and
\* write it first.
Deposit(t, s) ==
    LET pieces == Head(calls[t]) IN
    \/ /\ Fits(buf[s], pieces, Capacity(s))
       /\ buf' = [buf EXCEPT ![s] = @ \o FlattenSeq(pieces)]
       /\ Goto(t, "unlock")
       /\ UNCHANGED jobs
    \/ /\ ~Fits(buf[s], pieces, Capacity(s))
       /\ buf' = [buf EXCEPT ![s] = <<>>]
       /\ jobs' = [jobs EXCEPT ![t] = PassOn(buf[s], pieces)]
       /\ Goto(t, "write")

\* Mutant: no mutex.
LockAlways(t) ==
    LET s == stream[t] IN
    /\ pc[t] = "lock"
    /\ owner' = [owner EXCEPT ![s] = t]
    /\ Deposit(t, s)
    /\ UNCHANGED <<setup, todo, locals, handle, calls, batch, fd, faults,
                   fate, begun>>

Lock(t) ==
    LET s == stream[t] IN
    /\ pc[t] = "lock" /\ owner[s] = None
    /\ owner' = [owner EXCEPT ![s] = t]
    /\ Deposit(t, s)
    /\ UNCHANGED <<setup, todo, locals, handle, calls, batch, fd, faults,
                   fate, begun>>

\* The call returns; a Flush that succeeded is followed by the line.
Unlock(t) ==
    LET s == stream[t] IN
    /\ pc[t] = "unlock"
    /\ owner' = [owner EXCEPT ![s] = None]
    /\ calls' = [calls EXCEPT ![t] = Tail(@)]
    /\ Goto(t, IF Len(calls[t]) > 1 THEN "lock" ELSE "run")
    /\ UNCHANGED <<setup, todo, locals, handle, buf, jobs, batch, fd, faults,
                   fate, begun>>

----------------------------------------------------------------------------
(* BasicFdWriter                                                           *)

\* The next batch: all the pieces that kMaxPieces have room for, of which those
\* that are empty take none.
Gather(t) ==
    LET pieces == Head(jobs[t])
        room(n) == Cardinality({i \in 1 .. n : pieces[i] # <<>>}) <= kMaxPieces
    IN
    /\ pc[t] = "write" /\ batch[t] = <<>> /\ jobs[t] # <<>>
    /\ \E n \in 0 .. Len(pieces) :
          /\ room(n) /\ (n < Len(pieces) => ~room(n + 1))
          /\ batch' = [batch EXCEPT ![t] = FlattenSeq(SubSeq(pieces, 1, n))]
          /\ jobs' = [jobs EXCEPT ![t] =
                         IF n = Len(pieces) THEN Tail(@)
                         ELSE <<SubSeq(pieces, n + 1, Len(pieces))>> \o Tail(@)]
    /\ UNCHANGED <<setup, todo, pc, locals, handle, calls, owner, buf, fd,
                   faults, fate, begun>>

Transfer(t, n) ==
    fd' = [fd EXCEPT ![stream[t]] = @ \o SubSeq(batch[t], 1, n)]

\* writev takes the batch or a part of it, and is called again for the rest.
Writev(t) ==
    /\ pc[t] = "write" /\ batch[t] # <<>>
    /\ \E n \in 1 .. Len(batch[t]) :
          /\ Transfer(t, n)
          /\ batch' = [batch EXCEPT ![t] = SubSeq(@, n + 1, Len(@))]
    /\ UNCHANGED <<setup, todo, pc, locals, handle, calls, owner, buf, jobs,
                   faults, fate, begun>>

WritevInterrupted(t) ==
    /\ pc[t] = "write" /\ batch[t] # <<>> /\ interrupts < MaxInterrupts
    /\ interrupts' = interrupts + 1
    /\ UNCHANGED <<setup, todo, pc, locals, handle, calls, owner, buf, jobs,
                   batch, fd, errors, fate, begun>>

\* Where a WriteMany on the descriptor returns to: main's end flushes without
\* the lock.
Back(t) == Goto(t, IF t = Main /\ todo[t] = <<>> /\ calls[t] = <<>>
                   THEN "exited" ELSE "unlock")

\* Mutant: the error returns past the unlocking.
WritevFailsLocked(t) ==
    LET s == stream[t] IN
    /\ pc[t] = "write" /\ batch[t] # <<>> /\ errors < MaxErrors
    /\ errors' = errors + 1
    /\ fd' = [fd EXCEPT ![s] = Append(@, Cut)]
    /\ batch' = [batch EXCEPT ![t] = <<>>]
    /\ jobs' = [jobs EXCEPT ![t] = <<>>]
    /\ calls' = [calls EXCEPT ![t] = <<>>]
    /\ begun' = [begun EXCEPT ![s] = {}]
    /\ Goto(t, "run")
    /\ UNCHANGED <<setup, todo, locals, handle, owner, buf, interrupts, fate>>

\* writev fails (or takes nothing): what the call still had is dropped, and
\* so is what was to follow it.
WritevFails(t) ==
    LET s == stream[t] IN
    /\ pc[t] = "write" /\ batch[t] # <<>> /\ errors < MaxErrors
    /\ errors' = errors + 1
    /\ fd' = [fd EXCEPT ![s] = Append(@, Cut)]
    /\ batch' = [batch EXCEPT ![t] = <<>>]
    /\ jobs' = [jobs EXCEPT ![t] = <<>>]
    /\ calls' = [calls EXCEPT ![t] = IF @ = <<>> THEN @ ELSE <<Head(@)>>]
    /\ begun' = [begun EXCEPT ![s] = {}]
    /\ Back(t)
    /\ UNCHANGED <<setup, todo, locals, handle, owner, buf, interrupts, fate>>

Written(t) ==
    /\ pc[t] = "write" /\ batch[t] = <<>> /\ jobs[t] = <<>>
    /\ Back(t)
    /\ UNCHANGED <<setup, todo, locals, handle, calls, owner, buf, jobs, batch,
                   fd, faults, fate, begun>>

FdStep(t) ==
    \/ Gather(t) \/ Writev(t) \/ WritevInterrupted(t) \/ WritevFails(t)
    \/ Written(t)

ThreadStep(t) ==
    \/ Removed(t) \/ NotRemoved(t) \/ FoundGone(t)
    \/ WriteHandle(t) \/ DropHandle(t)
    \/ Lock(t) \/ Unlock(t) \/ FdStep(t)

\* Mutant: the buffer is not flushed when it goes.
CloseUnflushed ==
    /\ \A t \in Thread : pc[t] = "done"
    /\ stream' = [stream EXCEPT ![Main] = "stdout"]
    /\ Goto(Main, "write")
    /\ UNCHANGED <<setup, todo, line, handle, calls, owner, buf, jobs, batch,
                   fd, faults, fate, begun>>

\* RunRm returns when the workers are joined: ~BufferedWriter flushes what is
\* left, and ignores whether that works.
Close ==
    /\ \A t \in Thread : pc[t] = "done"
    /\ stream' = [stream EXCEPT ![Main] = "stdout"]
    /\ buf' = [buf EXCEPT !["stdout"] = <<>>]
    /\ jobs' = [jobs EXCEPT ![Main] =
                   IF buf["stdout"] = <<>> THEN <<>> ELSE <<<<buf["stdout"]>>>>]
    /\ Goto(Main, "write")
    /\ UNCHANGED <<setup, todo, line, handle, calls, owner, batch, fd, faults,
                   fate, begun>>

Next == (\E t \in Thread : ThreadStep(t)) \/ Close

Spec == Init /\ [][Next]_vars

\* The threads run, and a writev returns.
FairSpec == Spec /\ (\A t \in Thread : WF_vars(ThreadStep(t))) /\ WF_vars(Close)

----------------------------------------------------------------------------
(* Properties                                                              *)

Exited == pc[Main] = "exited"
Units(o) == {<<o, k>> : k \in 1 .. Size(o)}
Ended(outcome) == {o \in Object : fate[o] = outcome}

\* All that has gone into a stream: what is written, what the thread in the
\* writer has yet to write, and what is buffered.
InFlight(s) ==
    LET writers == {t \in Thread : pc[t] = "write" /\ stream[t] = s}
    IN IF writers = {} THEN <<>>
       ELSE LET t == CHOOSE u \in writers : TRUE
            IN batch[t] \o FlattenSeq(FlattenSeq(jobs[t]))
Sent(s) == fd[s] \o InFlight(s) \o buf[s]

\* Lines are never interleaved, torn or repeated: in all that has gone into a
\* stream a unit follows the one before it in its line, a line stops short
\* only where a write failed, and no unit is there twice
\* (mutex_writer.hpp:17, warn.hpp:160 "as one write").
LinesAreWhole ==
    \A s \in Stream :
        LET q == Sent(s) IN
        \A i \in DOMAIN q : q[i] # Cut =>
            LET o == q[i][1]
                k == q[i][2]
            IN /\ k > 1 => i > 1 /\ q[i - 1] = <<o, k - 1>>
               /\ k < Size(o) => i < Len(q) /\ q[i + 1] \in {<<o, k + 1>>, Cut}
               /\ \A j \in 1 .. i - 1 : q[j] # q[i]

\* A thread's lines are in a stream in the order it wrote them, through both
\* buffers (buffered_writer.hpp:90-98).
InThreadOrder ==
    \A s \in Stream, t \in Thread : \A i, j \in DOMAIN fd[s] :
        \A k, l \in DOMAIN Work[t] :
            i < j /\ fd[s][i][1] = Work[t][k] /\ fd[s][j][1] = Work[t][l] => k <= l

\* Only a write error loses a line: when remmy exits, every line begun after
\* the last failed write of its stream is written in full, whoever's buffer it
\* was in; so with no error -v names just what remmy removed, the warnings name
\* what stays, and what was gone already is named by neither.
OnlyErrorsLose ==
    Exited =>
        /\ \A s \in Stream : \A o \in begun[s] : Units(o) \subseteq ToSet(fd[s])
        /\ errors = 0 => /\ begun["stderr"] = Ended("left")
                         /\ setup.verbose => begun["stdout"] = Ended("removed")

\* On standard error, and on a terminal, a line is out when the call that
\* wrote it returns (stderr_writer.hpp:19 "unbuffered", main.cpp:441-444).
ShownAtOnce ==
    \A s \in Stream :
        (Capacity(s) = 0 /\ (s = "stdout" => setup.handle = 0)) =>
            \A t \in Thread :
                (pc[t] \in {"run", "done"}) =>
                    \A o \in begun[s] \cap ToSet(Work[t]) :
                        Units(o) \subseteq ToSet(fd[s])

\* Whatever fails, the writers let go of the lock and remmy exits.
Terminates == <>Exited
=============================================================================
