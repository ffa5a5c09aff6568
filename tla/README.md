# A TLA+ model of remmy

remmy is a parallel `rm`: it removes directory trees with a pool of worker
threads, retries what fails only because descriptors are short for a moment,
and reports everything it could not remove. This directory holds TLA+ modules
of its concurrent core and of the classes it rests on, the TLC configurations
that check them, and proofs that TLAPS checks: about descriptors and their pool, the
work-stealing queue, the task scheduler, its arrays, the walk, the front end and the
output.
Paths below are relative to the repository.

## Inventory

| Component | Code | State | Operations | Who calls whom |
|---|---|---|---|---|
| Descriptor pool | `cutils/src/os/limits/fd.cpp` | lease count and epoch in one word, known capacity, observed ceiling, the raise flag | Reserve, Claim, Refused, Forget, Release, Exhausted | `Fd::Open` and `Fd::Close`, from every thread |
| Work-stealing queue | `.../workstealing_queue/chase_lev.hpp` | top, bottom, the current buffer and the retired ones | Take and Insert (owner), Steal (thieves), Resize | the scheduler |
| Task scheduler | `.../task_scheduler/task_scheduler.hpp` | pending tasks, stop flag, live threads, slots, submitted queues | Submit, grow, acquire, Process, Wait, join | `RunRm`; `FileUnlinkWorker` through `TaskContext` |
| Directory walk | `src/main.cpp`, `src/dir_node.cpp` | the tree of `DirNode`s, their reference counts and descriptors, failures per worker | Process, Scan, MaybeCleanupDirNode, Open, RemoveEmpty | scheduler, pool, system calls |
| RunRm | `src/main.cpp` | operands, failures | prompt, dispatch of operands, SeedRoot, Wait, exit code | scheduler, walk |
| Output stack | `cutils/include/cutils/io/` | buffers, a mutex, a stream's error | Write, WriteMany, Flush | RunRm and every worker under -v, warnings |
| Prompt input | `io/buffered_reader.hpp` | a buffer | ReadByte, SkipPast | RunRm |
| Command line | `src/cli.cpp` | options, operands | parse | main |
| Directory reader | `os/os.hpp` | a buffer of packed records, offsets into it, a pending error | Read, `*`, `++`, end test | Scan |
| Descriptor ownership | `os/fd.hpp` | `fd_` of each `Fd`; `std::optional<Fd>` keeps "no value" in it | move, swap, assign, reset, Release, Close, destroy | whoever holds a descriptor; the pool |
| HeapArray | `collections/heap_array.hpp` | a block, a size, an allocator | construct, copy, move, assign, swap, destroy | the scheduler's slots |

What is hard here:

* **Concurrency.** Queues and the pool use atomics with relaxed orders; nodes
  are raw pointers whose last user deletes them; thread handles are plain
  writes. Interleavings and reordered stores decide correctness.
* **Shortage.** Descriptors run out for a moment (another thread will close
  one) or for good. Every open may be refused; a directory is then parked and
  opened by path later. The program must neither give up early nor spin.
* **Partial failure.** Any call on any object may fail; the rest must still go,
  and what stays must have been reported.
* **Termination.** Wait must return when, and only when, everything is done.
* **Others.** Other processes, and other operands of the same command line, remove
  what is being walked: every call may find its object gone.
* **Ownership.** A descriptor or a block handed from object to object, through
  temporaries, must be released once, by its last owner, in the right place.
* **Shared output.** Lines of several threads go through one buffer and one
  descriptor, in writes that may be short, interrupted or fail.

What makes each component correct:

* pool: the lease count is exact; "do not retry" is only said when none of our
  descriptors was in the way; the capacity is not overwritten by an old value;
* queue: every value is returned once, none is lost, the owner's Take is empty
  only when the queue is;
* scheduler: a task runs once; stop means done; every thread is joined; urgent
  tasks first in each worker's own queue; Wait returns;
* walk: no node is used after its deletion; a directory is removed after its
  contents; what is left has a reported cause; nothing leaks; remmy exits;
* output: lines are whole, once and in each thread's order; only a write error
  loses any, and not those begun after it;
* ownership: a descriptor that is open has one owner, or was handed over; a block
  is freed once, through the allocator it came from;
* directory reader: every entry once, an error once, then the end;
* front end: only what the command line and the answer allow is removed; the
  exit code says whether all of it is gone.

The hazards, each at its line with the properties that would catch it, are in
`PROJECT.json`.

## Modules

| Module | Models | Level of a step |
|---|---|---|
| `FdPool` | the pool, `Fd::Open`, `Fd::Close`, `Fd::Release` | one atomic access or system call |
| `FdPoolProofs` | theorems about `FdPool` | |
| `DescriptorOwners` | what `Fd` and `std::optional<Fd>` promise | one operation |
| `FdOwner` | their operations, with the moves and temporaries inside | one operation; a function of memory within |
| `FdOwnerProofs` | theorems about `FdOwner` | |
| `ArrayValues` | what `HeapArray` promises | one operation |
| `HeapArray` | its blocks, sizes and allocators | one operation; a function of memory within |
| `EntryStream` | what a loop over `DirEntries` is promised | one entry |
| `DirReader` | `DirEntries`, `BasicDirReader` and Scan's loop | one system call or one member call |
| `WorkStealingQueue` | what a work-stealing queue promises | one operation |
| `ChaseLev` | the queue, under a memory model with store buffers | one load, store, fence or compare-and-swap |
| `ChaseLevProofs` | theorems about `ChaseLev` | |
| `TaskScheduler` | the scheduler over the queue's promise | one atomic access or queue operation |
| `TaskSchedulerProofs` | theorems about `TaskScheduler` | |
| `HeapArrayProofs` | theorems about `HeapArray` | |
| `RemmyWalk` | RunRm, FileUnlinkWorker, DirNode over the scheduler and the pool, beside others that remove things | one system call, reference count access, scheduler or pool call |
| `RemmyWalkProofs` | theorems about `RemmyWalk` | |
| `OutputStack` | the writers of `cutils/io` under LogIfRemoved and WarnAt, to the last flush | one writev; what is private to a thread or done under the lock in between |
| `OutputStackProofs` | theorems about `OutputStack` | |
| `FrontEnd` | the command line, the question of -I, unlink(1), RunRm's dispatch of operands | one system call |
| `FrontEndProofs` | theorems about `FrontEnd` | |

`MCX.tla` and `MCX.cfg` give the constants of a model their values.

### How they compose

`ChaseLev` implements `WorkStealingQueue` (`ImplementsQueue`, a refinement
mapping that reads the queue's contents off the owner's view). In the same way
`FdOwner` implements `DescriptorOwners`, `HeapArray` implements `ArrayValues` and
`DirReader` implements `EntryStream`. `TaskScheduler`
uses queues with that behaviour, keeping the two steps of a Steal that decide a
race; the public Submit inserts in two steps because nothing keeps two outside
threads from it. `RemmyWalk` uses a scheduler whose Submit and acquisition are
single steps and whose workers exist from the start, and a pool whose soft limit is
raised already and of whose epoch only "has it moved since the reservation" is kept.
These replacements are argued, not checked: the scheduler's promises they rest on
are `RunsAtMostOnce`, `NoTaskIsLost` (of one submitter), `UrgentFirst`,
`StopMeansDone` and `WaitReturns`, the pool's are `LeasesAreCounted` and
`GiveUpIsSound`. Where `RemmyWalk` says that a descriptor is closed when a local
goes out of scope it rests on `LeasesAreOwned` of `FdOwner`, and where it says that
a scan is given the entries there are, or one error, on `ImplementsStream` of
`DirReader`. `FrontEnd` in turn takes a walk for one step that ends with the root
removed, with a failure counted, or both: what `ExitIsTruthful` and `Terminates` of
`RemmyWalk` say of one. `OutputStack` stands beside the walk: its threads are RunRm
and the workers, and each removal or failure there is one line here.

### FdPool

`leases` is the unpacked word of `AtomicLeases`; Release's single addition is
one step that changes both halves. `table` is the kernel's descriptor table,
`soft` its limit. `before`, `limit`, `ceiling` and `verdict` are the locals of
`Reservation`, `RaiseIfNeeded`, `Refused` and `Open`. `blockers` and `since` are
history: our descriptors that were open at the refusal, and the releases since
the reservation. `StartWorkers` encodes that the scheduler starts threads only
after Main's first open; `CapacityIsCurrent` fails without it.

The accesses are relaxed, but each is to one atomic word and no property relates
two words through an unsynchronised read, so sequentially consistent steps
suffice.

### ChaseLev

The owner's stores go through a buffer and drain in any order its fences allow:
stores to one location in order, a release store after everything before it, a
store behind a release fence after what precedes the fence, and the seq_cst fence
of Take waits for an empty buffer. Thieves see what has drained. Loads are not
reordered: Steal's are acquire loads and Take's follow its fence. Indices do not
wrap (2^63 insertions). The retired buffers are kept, as in the code. `TypeOK` types
every variable: the indices, each slot of each buffer and each pending store, and at
each label the locals that have been set by then.

### TaskScheduler

`queues` are the per-slot and submitted queues, `handle` is who stored a slot's
jthread, `seen` the value a thread has read before a compare-and-swap. `Submit`
is enabled only while Main has not called Wait, as its contract demands. A
worker's Process submits any number of tasks up to `MaxTasks`. Submit's load of
`stop_` and its fetch_add are one step, and so are a worker's fetch_add and its
insertion. `stop_` is set by Wait alone, after every Submit of the one submitter. Between
the count and the insertion of a worker `pending` is only higher than the queues
explain, while that worker is itself counted; another's zero test gives the same
answer in either order.
compare_exchange_weak is not assumed to succeed spuriously or otherwise; a
spurious failure repeats the loop with the value unchanged.

### RemmyWalk

The directories, files and the tree they form are constants. `fs` is what
exists, `fault` the one object the system refuses something for good (an open, a
read, a stat, an unlink or an rmdir; chosen in Init), `sysfull` whether the
system's file table is full (ENFILE) and `MaxFds` how many descriptors the
process has (EMFILE). `node`, `fd` and `remaining` are a DirNode's lifetime, fd_
and remaining_children_dirs_; `cur` walks from a task up its parent chain as
`MaybeCleanupDirNode` does; `extra` counts the descriptors `OpenLong` and
`RemoveEmpty` hold between calls; `failed` holds each counted failure with the
error it is due to. `goal` says why a thread opens a directory:

* `root`: RunRm opens an operand (a refusal is never retried there),
* `child`: Scan opens a subdirectory unless `Exhausted`,
* `task`: Process opens a parked directory by path,
* `remove`: RemoveEmpty opens the parent of a long path.

An object is a path as remmy walks it, and `Real` says which thing on disk it is:
with the operands `r` and `r/a` the directory `a` is two objects, each with a
`DirNode` of its own, and `fs`, `fault` and `Exists` speak of the thing. So does
`OthersRemove`, another process that removes a file or an empty directory (`lost`).
A call on what is gone says ENOENT: `SkipGone` for an entry, `OperandGone` for
lstat, the label `gone` after an open, the last disjunct of `Rmdir`. An open that
fails for good (`Hopeless`) leads, under -f, to an attempt to rmdir. A scan does not
see entries that went before it reached them, or sees and fails to find them.

RunRm's lstat finds an operand or finds it gone; its other errors are in `FrontEnd`.

Not in the model: others that create or move things, paths of more than two
pieces, the raise of the soft limit, allocation failure.

### FdOwner

`mem` is the memory of the objects concerned: `fd_` of every object and of the two
temporaries an operation uses (`Fresh` for `T{...}`, `Old` for what std::exchange
or std::swap keep), the descriptors open and the lease count. Each member function
is a function from memory to memory, written as the code is: `AssignOptional` is
`storage_ = std::exchange(other.storage_, T{kDisengaged})`, with the temporaries
constructed, moved from and destroyed. Objects that do not exist hold `Absent`.
`outside` is what Release gave away. An optional's value is an Fd like any other
(`HasFd`), so moving the value and moving the optional are different operations.
The mapping to `DescriptorOwners` leaves the temporaries out.

### HeapArray

`mem.heap` says of every address whether it is given out, by which allocator and
with what in it; `Build` allocates and constructs, `DestroyAndDeallocate` gives a
block back, which does nothing when the allocator or the size is not the one the
block came with, so that `BlocksAreOwned` sees the leak. `traits` chooses, in
Init, what propagates on copy, move and swap. An operation may use any allocator
and any free block. The mapping to `ArrayValues` forgets the blocks.

The allocator-extended move constructor leaves moved-from elements in its source
when the allocators differ, as the standard's containers may; the comment in
heap_array.hpp:439, "Leave `other` empty, matching every other move path.", is
true of the moves it can be compared with, not of that one.

### DirReader

`buffer` has, for every word, the entry whose record starts there, or `Junk` in
the middle of one; `Fill` overwrites the words the kernel fills and leaves the rest as
the last directory left them. The kernel may return any number of whole records
that fit, be interrupted, or fail; entries it has not returned yet may vanish.
`Left`, what a loop is still to be given, is read off the buffer, the offsets and
the kernel's rest.

### OutputStack

A thread's `line` goes down the stack as pieces, which `Ends` cuts a line into:
`handle` is the buffer of its
`ConcurrentWriter::Handle`, `calls` the WriteMany calls it has yet to make on the
shared writer (two where the library has no `views::concat`), `owner` the mutex,
`buf` the shared buffer up to `used_`, `jobs` the calls yet to make on the
descriptor and `batch` what is left of the pieces given to writev. `setup`
chooses, in Init, -v, both capacities and the build; remmy itself uses a shared
buffer of 64 KiB or none, and handles are part of the class but not of remmy,
which writes to the ConcurrentWriter itself: a handle of no capacity, that passes every
line on. An unlink or rmdir has three outcomes (`fate`): the object is removed and, under
-v, printed; it is left and warned about; or it is found gone (ENOENT), of which nothing
is said.
`fd` is what has been written, with a `Cut` where a write failed, so that
`LinesAreWhole` can tell where a line may stop short. All errors are ignored by
the callers, as in the code. `Close` is the destructor's flush, after the join.

### FrontEnd

`Options`, `Operands`, `IsUsageError` and `IsUnsupported` are the parser as
operators over the arguments; an argument is a value with, if it starts with
`-`, its `Letters`. `Count`, one lstat of the loop, and `Confirm` decide whether there is
a question, `Fill` to `Judge` ask it: a read fetches any
part of what the buffer has room for, and `Verdict` says independently what a
whole input answers. `Lstat` to `RmdirUnopened` are RunRm's branches, each on an
operand that others may remove or replace (`Interfere`) between two calls.
`failed` notes which call failed and how, `walks` how many walks of each path are under
way, for an operand may be given twice. `WalkEnds` lets a walk fail in any case: which
walks fail is `RemmyWalk`'s question. Exit code 0 with an operand left is
possible in one case, which is the code's intent: under -rf anyone but root is
not told of an operand that lstat refuses.

## Runs

| Run | Instance | Shows |
|---|---|---|
| `fd_pool` | 2 threads, hard limit 4, soft 3, 1 inherited, 2 epochs | the pool's invariants and the falling ceiling, with a raise, refusals, hand-offs and an epoch that wraps |
| `chase_lev` | initial capacity 1, 4 insertions, 2 thieves | two resizes, races for the last element, reordered stores; refinement |
| `scheduler` | 1 submitter, 2 workers, 2 priorities, 3 tasks | safety and Wait's return under weak fairness of each thread |
| `walk` | r{a{c,f},b}, 2 workers, 2 descriptors, 1 episode of ENFILE, 18 faults or none | everything the walk promises, and termination once the table has room |
| `walk_overlap` | operands r and r/a of r{a{c{e},f}}, c and e long, with and without -f, 12 descriptors, two things removed by others, c refused or nothing | only lost races fail, nothing is left, nothing leaks, the exit code; pieces and their descriptors, removal relative to the parent, rmdir of what cannot be opened |
| `fd_owner` | 2 `Fd`s, 2 optionals, 3 descriptors | one owner each; refinement |
| `heap_array` | 2 arrays of up to 2 elements, 2 allocators, 3 blocks, 8 combinations of traits | one owner for each block; refinement |
| `dir_reader` | directories of four, three and no entries, records of 1 to 3 words, a buffer of 4 words, 2 entries that vanish | refinement; every read ends |
| `output` | a worker with two objects and RunRm with one, each removed, left or gone, seven setups, 2 failing writes, 1 interrupted, lines of 2 and 3 units, 2 pieces a writev | lines whole, once and in order; what an error loses; nothing left behind; no thread stuck |
| `front_end` | 31 command lines, 8 inputs, a buffer of 2, 1 refused call, 2 changes by others | consent, what is removed, the exit code, termination |
| `operand_refused`, `long_path_spins` | the smallest that show it | violations, below |

The bounds: two threads suffice for every pairwise race, and a third party takes
part where the code has one (Main, an owner beside two thieves, the kernel). One
initial slot makes a buffer wrap and resize twice within four insertions. In
`walk` the tree has a directory with a subdirectory and a file beside a leaf, so
that a chain is cleaned up over two levels by different workers, and two
descriptors make both opened and parked children, refusals in each phase and
retries occur. In `output` a shared buffer of three units and handles of two hold
one line but not two, and a batch of two pieces cuts a line of three. In
`walk_overlap` the shared part is three levels deep, so that one walk can be ahead
of the other at every level; two of them are long, so that a name is opened in
pieces from one walk's node while the other removes what it leads through; and
descriptors are enough, so that nothing else fails. Two objects of each type are
enough for ownership, because an operation takes at most two; the third descriptor
or block is the one an operation opens or builds while both are in use. In
`dir_reader` a buffer holds at most a part of either directory, so records cross
from one call to the next and from one directory to the next. In `front_end` the
buffer of two cuts every answer, and the operands are all kinds of thing, missing
ones and options in an operand's place included. Each property has a mutant in
`PROJECT.json` that breaks it under the same bounds.

### Fairness

Every thread that can run eventually does (the operating system's scheduler) and
every system call returns: weak fairness of each thread's steps. `FairSpec` of
RemmyWalk adds that a full file table is eventually not full (`WF(ClearTable)`),
which is up to other processes: `Terminates` says nothing of a table that they keep
full for ever, and the run `walk` has no long path (`long_path_spins` shows why). No
fairness is assumed of a compare-and-swap, of the arbitration of a queue or of faults.
The scheduler's next tasks are the worker's choice; that Process returns is an
assumption of `TaskScheduler` and a result, `Terminates`, of `RemmyWalk`, which
`FrontEnd` assumes of its walks again. There, standard input is finite; in
`OutputStack` a writev returns. In `DirReader` a getdents that is called again after
each signal answers in the end, for signals do not interrupt every call for ever:
strong fairness of `Answer`, which an interruption would otherwise keep from being
taken.

### What disagrees

* `operand_refused`: a second operand that is refused a descriptor is reported as
  failed, though workers started for the first one will close theirs.
* `long_path_spins`: with one descriptor left, a path of two pieces blocks itself
  and is retried for ever.

Read in the code, and reached by these models when given the instance, but without
a run of their own:

* the public Submit is documented as thread safe (task_scheduler.hpp:144), but
  inserts into a queue that only its owner may insert into: of two tasks submitted at
  once by two threads one is lost. TLC shows it as a violation of `NoTaskIsLost` when
  `Submitter <- TwoThreads` is put into `MCTaskScheduler.cfg`. remmy submits from its
  main thread alone, so that the run `scheduler` and the theorems are about one
  submitter and claim nothing for two.
* a reservation in flight counts as a descriptor held (fd.cpp:195), so two workers
  whose opens are all refused can keep each other retrying under a fair but unlucky
  schedule: `Terminates` of `RemmyWalk` needs `WF(ClearTable)`.
* RemoveEmpty of a long path (dir_node.cpp:127) reports a refusal a retry would have
  avoided.
* a directory that others remove while it is being read makes getdents say ENOENT
  on Linux, which Scan counts as a failure even under -f (main.cpp:192-198), while
  ENOENT from any other call is none: the label `gone` in `failed`, which
  `OnlyLostRaces` allows.
* a thread refused under the old soft limit may lower the ceiling after another has
  raised the limit and reset it (fd.cpp:190): directories are then parked although
  there is room, which costs time only.

## Proofs

`FdPoolProofs` proves, for any finite set of threads, any limits and any epoch
span, that the invariants of the run `fd_pool` hold, and its action property.
`TypeOK` and `LeasesAreCounted` support each other: that a subtraction does not
go below zero needs the count, and the count needs the types. `GiveUpIsSound` is
not inductive. `RefusalInv` strengthens it: while a thread is between its
reservation and its answer, the epoch it read and the number of releases since
determine the current epoch modulo the span, and every descriptor in `blockers`
is either still open (so the count is not zero) or was released since (so the
epoch has moved, unless it went all the way round). `RaiseInv` says where the
raise is, who is in it and what the cached capacity can be meanwhile;
`CeilingInv` that a local ceiling about to be compared was read as 0 or above
what the thread held. `IInv` is their conjunction; `PoolInvariant` proves it
from `Init` and every action, and the theorems follow.

The assumptions are those `FdPool` names: limits and the epoch span are natural
numbers, the threads are finitely many.

`FdOwnerProofs` proves `LeasesAreOwned` for any objects and any finite set of
descriptors. `Sound` is `LeasesAreOwned` of any memory, with its types, and every
function of memory is shown to preserve it and what it does to `fd_`, from
`Close` and `Hold` up: the temporaries of an assignment are cells like the others,
so each lemma chains those of the moves it consists of. A step then is one of these
functions between two states in which the temporaries are gone (`Resting`). The
sentinels are no descriptors because descriptors are natural numbers and both
sentinels are negative. The assumptions: descriptors are finitely many naturals,
and objects, temporaries and `Absent` are distinct.

It proves `ImplementsOwners` from that, for the same constants. The
lemmas also say what each operation does to the `View` of
memory, which is what the objects hold, and an abstract step is a change of that
view together with what is open afterwards. `OpenIsSeen` settles the second half
once and for all: when no temporary exists, `Sound` makes the open descriptors
those the objects hold and those handed over. What is left is one lemma per
action: its view is that of an abstract step allowed in the same state, or no
change (an object assigned to itself).

`ChaseLevProofs` proves `TypeOK`, `NothingLost` and `ImplementsQueue`, for any set of
thieves, any values and any first capacity. What makes this hard is that a thief
reads memory that lags behind what the owner has done. So the invariant `IInv`
looks at the *stages* that memory goes through while the buffer drains
(`Replays`): the first is memory as thieves see it, the last the owner's view.

* `Fifo`: the buffer drains in order. The memory orders let a store overtake others
  only if it is relaxed, and the relaxed ones are stores to `bottom_` that follow
  another store to `bottom_` or nothing, so that Drain always takes the oldest
  (`OldestDrains`);
* `Sound` and `Readable`: an index that is below `bottom_` in one stage reads the same
  there as in the owner's queue, and as in every later stage, from whichever buffer
  has been published by then. The release store of `data_` and the release fence of
  Insert are what keep it: without the fence a stage has the new `bottom_` and not
  the slot;
* `Thieving`: what a thief whose compare-and-swap can still succeed (its `t` is `top`)
  knows at each of its labels. When it has read the slot, its value is the oldest of
  the queue;
* `OwnInv`: what the owner knows in the middle of an operation. `top` is at most the
  queue's end and the queue is no longer than its buffer, so that two indices in it
  have different slots (`ModDistinct`); after the fence of a Take, no thief can pass
  the `bottom_` that is stored, because nothing is buffered.

`Drained`, `BottomStored`, `SlotStored` and `Resized` say what each kind of store does to
the stages; the copies of Resize go to a buffer nobody reads before it is published
(`Partial`). One lemma per action then says that `IInv` is kept and what becomes of
the queue: nothing, a miss, an element more, or the first or last given out.
The step of `WorkStealingQueue` is read off that, and so is `Present`, the inductive
form of `NothingLost`: what has been inserted was returned or is in the queue.
TLC finds `IInv` invariant on the instance of the run.

The assumptions are those `ChaseLev` names: the owner is no thief, the first capacity
is a positive number, and neither `Empty` nor `Junk` is a value. `MaxInserts` may be
any number, so that the bound of the run is none of the theorem.

`TaskSchedulerProofs` proves every safety property of the run `scheduler` and its
action property, for any numbers of workers, priorities and tasks. The hypothesis
of each theorem is `OneSubmitter`: the public Submit is called by the thread that
waits, as in remmy. With two, `NoTaskIsLost` is false ("What disagrees", above),
and the invariant says where one is needed: `BottomRead`, the bottom that Main has
read is still the end of the queue when it stores. None of the properties is
inductive. `IInv` adds

* `TasksInv`: a task that is queued or carried has not been started, is in one
  place of one queue only, and two workers never have the same task. Takes and
  steals keep it because they remove what they start;
* `PollInv`: a thief has read a top at or below the queue's, and if it is the
  queue's, a task is there. So the compare-and-swap decides who gets the last
  task: an owner that takes it moves the top, which is why `TakeLast` must, and one
  that takes another leaves one behind. It also carries what `UrgentFirst` needs:
  a worker's own queues are empty up to the one it polls;
* `CountInv`: pending_tasks_ plus the tasks done is the number issued. A worker that
  has a task is then a reason for pending not to be zero (`Counting`), so nobody
  is inside Process, or still growing the threads, when Wait sees zero; and zero
  means that all are done, by the cardinality of 1 .. issued;
* `ThreadsInv`: slots are born in order, one who counted a slot in is the only one
  to start and store it and, if a worker, has a lower slot. With `Counting` this
  gives `JoinSeesEveryHandle`;
* `QueuesInv`: a queue has given away and holds no more than was issued, so that
  tops stay in their type.

`TaskTaken` and `TaskAppended` carry most of it: they say what a take or steal, and
an insertion, do to all of these at once, and each action is an instance. TLC finds
`IInv` invariant on the instance of the run.

The assumptions are those `TaskScheduler` names: there is a worker and a priority,
`MaxTasks` is a natural number, Main is a submitter and no submitter is a slot.

`HeapArrayProofs` proves `BlocksAreOwned` and `ImplementsValues` for any arrays,
allocators and blocks. `Sound` is `BlocksAreOwned` of any memory, with its types.
The helpers leave it broken halfway (a block built and not yet owned, an array
whose block is gone), so each is described by what it writes (`Builds`, `Replaces`,
`Renames`, `Steals`), and each special member function by one of a few relations
between the memory before and after: `Renews` (a new block in the place of the
old), `Takes` (another's block), `Rewrites` (the same blocks, other elements),
`Empty` and the exchange of a swap. For each of these one lemma says that memory
stays `Sound` and what becomes of the `View`, the contents that the users see. That
the block is built before the old one is released matters there: it is written to a
block that is free, hence nobody's. The move assignment between allocators that
differ chains three of them. A step of the abstract specification is then read off
the view. The assumptions: `Null` is no block, `Absent` no allocator, and `MaxSize`
is a natural number.

`RemmyWalkProofs` proves `NoUseAfterFree` and `RefcountIsExact` for any tree, any
operands, workers, descriptors and faults. Neither is inductive: that a counter is
exact when a child is counted needs the child to be new, that a node can be deleted
needs nobody else to be on its way to it. `View` is what these properties are about:
the nodes, their counters, what is queued, which operands are to come, and of every
worker the node it works on, what its scan has yet to meet and its `Phase`, which
leaves out how an open is retried or an rmdir attempted. `Sound` says of a view

* `ScannedOnce`: a directory is in a queue, counted but not yet queued, or scanned by
  one worker, never two of these. So the reference of its scan is dropped once;
* `AllLive`: what is referred to is allocated, and so is the directory it is in;
* `AheadIsNew`, `FreshIsNew`, `UnseededIsNew`: what a scan has still to meet, what
  is in a directory nobody has opened yet and what RunRm has not seeded has no node.
  `FreshIsNew` also gives the counter its value there, which is why a worker that
  abandons a directory without a look may remove it as if it had dropped the last
  reference;
* `RemovedAlone`: whoever removes a node is the only one at it, and it has no live
  children. `LastReference` gives that from `Exact` at the moment of the drop;
* `Exact`: the counter is the number of the scan, the workers at the node and its
  live children, till the last reference goes.

All but thirteen actions leave the view alone or only shorten what is ahead
(`Quiet`). For each kind of the others one lemma (`AcquiresIsSound` to
`SeedsIsSound`) says that the view stays sound, and one lemma per action that it is
of that kind. `Once`, which is about positions in the queues, makes a take remove the
task from all of them. `NoUseAfterFree` speaks of whole parent chains:
`ParentsDef` shows that the recursive function `Parents` has the value its definition
says, from the sets closed under `Parent`, and the chain is live because a tree has
no infinite descent upwards. TLC finds the invariant on the instance of `walk`.

The second half of the module proves `NothingLeaks` from it. `LInv` says what keeps each resource
until it is given back:

* `LeasesAreCounted`: `live` is the number of directories open, of descriptors that
  OpenLong and RemoveEmpty hold besides (`Extras`; `ExtraShape` says at which places
  they do) and of reservations;
* `TasksAreCounted`: `pending` is the number of tasks queued and of workers busy,
  and RunRm returns only at zero (`ExitIsLast`);
* `DirsAreKept`: an open directory is in a queue or held by a thread that will close
  or queue it. Error paths that forget one show up here;
* `NodesAreReferenced`: a live node that nobody removes has a counter above zero.

With no task and no worker left, nothing is open, so `live` is zero. That no node is
left needs the tree: by `Exact` of the first invariant the counter of a node is then
the number of its live children, which is not zero, so that each live node has a live
child. Choosing one for each is an injection of a finite set into itself, hence onto,
and a set whose members all have their parent in it is empty (`NoEndlessTree`).

`RemovedLast` and `ExitIsTruthful` are proved from both. Each speaks of
the moment when nobody will do anything more about an object, so the invariant
`TInv` says who will until then. An object is `InHand` while

* it is a directory whose removal is not over (`Standing`), or an operand RunRm has
  not come to;
* a scan has it on its list or is at it (`Awaits`);
* the directory it is in has not been listed (`Unlisted`): it has no node, is queued,
  or a worker is about to queue it, to open it, or to remove it without a look.

`AllAnswered`: whatever exists is in hand, or a failure explains it and then it, or
the directory it is in, has itself been reported. So the proof has one lemma per
action that says where what leaves somebody's hands goes (`Answers`): to somebody
else's, or it is gone, or the action reports the failure that explains it. The
delicate ones are errors that are not reported because the object is gone:
`GoneIsGone` says that whoever was told ENOENT was told the truth and that it stays
true, for the pieces of a long path as well (`PieceIsAbove`, `AboveExists`), and
`DirsHold` that with a directory all that is in it is gone. `DirsHold` is why
an rmdir of one name of a directory takes nothing that another name still needs.

`RemovedLast` follows because nothing in a directory is in hand when its last
reference is gone (`NothingInHand`, from `RemovedAlone` of the first invariant). An
rmdir that fails for "not empty" explains nothing, and what is left in the directory
is explained by something else for the same reason (`ExplainedAbove`). At exit
`NothingLeaks` leaves nobody who could have anything in hand, except that a directory
that was never reached has not been listed. By induction down the tree a failure
explains that directory, and it cannot lie below, because nothing fails before it is
reached (`FailuresAreReached`, `MadeAbove`): so it explains what is in it as well.
TLC finds `TInv` invariant on a deeper tree with every refusal, with -f and
without, and on overlapping operands with removals by others.

The same module proves which failures there can be, and from it
`OnlyTheBlockedFails` and `OnlyLostRaces`. Both depend on descriptors, and each theorem
says on how many:

* `OnlyTheBlocked`: one descriptor is enough when there is one operand and no path of
  PATH_MAX bytes. Several operands or long paths need more than the walk can have open
  at once (`Roomy`: a descriptor for each directory and two for each worker). Both
  limits are those of the code: `operand_refused` and the give-up of RemoveEmpty below
  "What disagrees" are what happens beyond them. Long paths are excluded altogether,
  because an rmdir below a directory that refuses to be opened again names the
  directory removed.
* `OnlyRacesAreLost`: descriptors that are `Roomy` and a system's table that never fills
  are enough for any operands, -f, long paths and removals by others.

`PInv` is the half about descriptors: whoever is refused one is refused beside an open
descriptor of remmy's or has been told since that one was closed (`ShortIsSeen`), so by
`LeasesAreCounted` the answer to it is "retry" (`RefusedIsRetried`), and whoever gives
up was refused the directory itself (`GiveupIsDenied`). With one operand RunRm opens it
before anything else is open (`FirstHasRoom`), with room enough nobody is ever short.
`BInv` is the half about causes: every failure so far is due to a directory that is gone
or to the refusal, of the object or of something in it (`FailuresAreBlamed`), and so is
the removal of a directory that was never listed (`UnopenedIsBlamed`). The step that
needs all the invariants is the rmdir that finds its directory not empty
(`RmdirIsBlamed`): `AllAnswered` and `NothingInHand` say that what is left there, or the
directory, has failed already, hence with a cause, and what blocks an object blocks what
it is in (`BlockedAbove`). `OnlyLostRaces` takes `ExitIsTruthful` besides: a failure
"gone" explains nothing that is left, so nothing is.

`WalkIsTyped` is `TypeOK` for any constants. `UInv` adds to the invariants what bounds
the counters from above: the children of a directory that have or had a node
(`CountersAreBounded`), `HasRoom` before every open, and for what a reservation has seen
that it is a descriptor or another thread's reservation (`SeenAreBounded`). The labels,
nodes and entries of the threads are typed by the first invariant. TLC finds
`PInv`, `BInv` and these bounds invariant on the instances of `walk`, with -f and
without, and `walk_overlap`.

The assumptions of these theorems are those `RemmyWalk` names: `TreeAssumption` and
`ParentAssumption` (finitely many objects that form a forest, whose roots are the
operands, each given once), `ThreadAssumption` (finitely many workers, none of them
Main), and, for the last, `LongAssumption` (an operand's own path is not long; what
is in a long directory is) and `RealAssumption` (no file is a directory, and two
names of one directory list the same things; `None` is no thing). Each stands for what the code works
on: an operand given twice is two objects.

`FrontEndProofs` proves the three invariants of the run `front_end`, for any command
lines, inputs, capacity of the reader and numbers of failures and changes. Each has
its own part of the invariant:

* `Reading`: where the reader stands in the input. What it has buffered and what is
  still unread follow that `Position` (`InPlace`), however a read cut them up; before
  the first character of a line the input stands at the end of a line and no line up
  to there decides (`AtLine`); while the rest of a line is skipped there is a start of
  that line with no `Newline` since (`InLine`). From this `AnswerIsTheLines` follows
  whichever way the line ends: at a `Newline` in the buffer, in a later read, or with
  the input (`NextIsLater`, `FirstDecides`);
* `Allowance`: the operands to come, the directories seeded and what was removed are
  all wanted, and whoever may remove something has been allowed to. With `Reading`
  that gives `OnlyWhatWasAllowed`, also for a read that fails after the y;
* `Account`: while nothing is held against rm, each operand named is gone or one that
  lstat refused under -rf (`Settled`), to come or being walked, and what is held against
  it has a cause. All the branches of RunRm are of two kinds: `Retries`, which leave the
  operand where it is, and `Deals`, which are done with it and leave it excused or
  explained. The steps of others keep the account because nothing comes back where
  nothing is (`SettledStays`).

`RemovableIsTheRest`, that what is kept of the operands is all that is not protected,
is about a recursive function: that the function exists and what it returns are
shown by the least number that would be a counterexample (`LeastExists`). The
assumptions are those that `FrontEnd` names. TLC finds all the parts of the invariant
to hold on the instance of the run.

`OutputStackProofs` proves the three invariants of the run `output`, and `ShownAtOnce`, for any threads,
lines in any pieces, capacities of both buffers, numbers of pieces a writev takes and
numbers of failures. For each stream it follows what has gone to the descriptor or is
on its way there under the lock (`Passed`), the shared buffer, and what each thread
has `Pending` above them. Nearly every step is `Quiet`, that is, it leaves these three
as they are, short writes included. The others are of three kinds: a thread `Says` a
line, which appends its `Text` to what it has pending; it `Moves` a WriteMany to behind
what is buffered, and both to the descriptor if they do not fit; or it `Loses` what a
failed write cuts off. The inductive invariant `IInv` has, beside the types,

* `Control`: who holds a mutex is the only one in that writer, and Main is alone at the
  last flush. So a step of one thread leaves what the others have pending, and nobody
  else's units get between those of a line (`WriterAlone`);
* `WholeInv`: what has passed, each buffer and each WriteMany to come hold whole lines,
  but for a `Cut`. `LinesAreWhole` needs this of the contents of the buffers, since it is
  a flush between two halves of a line that would tear it;
* `OrderInv`: for each thread its lines in what has passed, in the shared buffer and in
  what it has pending are in the order of its work, and each of these comes before the
  next (`Settled`). Being once follows from the same order;
* `KeptInv`: a line begun and not lost is in one of the three. At exit the other two are
  empty, and what is left is `OnlyErrorsLose`, with `ToldInv`, that the lines begun tell
  what was removed and what was left while there was no error;
* `OwnInv`: without a buffer a thread writes nothing but its own lines, so that
  `ShownAtOnce` says of a thread what its own writes did.

What is written is a sequence of sequences of pieces, laid end to end by FlattenSeq, a
recursive function of the community modules. That it exists, what it gives for an empty
sequence and one more element, and that it maps concatenations to concatenations is
shown by the least number that would be a counterexample (`FlattensExists`,
`FlattensAgree`). TLC finds all the parts of the invariant to hold on the instance of
the run. The assumptions are those `OutputStack` names: an object is the work of one
thread, once (`WorkAssumption`); the ends of a line's pieces are in order
(`PieceAssumption`); capacities are numbers, and a writev takes at least one piece
(`SetupAssumption`, `BoundAssumption`); `None` is neither a thread nor an object.

TLAPS does not prove liveness under fairness, or anything about RECURSIVE operators
(there are none here). `WaitReturns`, `EveryReadEnds` and `Terminates` are model-checked
only. So is everything about the directory reader: where a record starts is a sum over
those before it, and what the buffer holds is decoded record by record, so its
refinement of `EntryStream` rests on inductions over the data more than on its steps.

## Plan

1. Done: the pool with its proofs, the queue and its abstract specification, the
   scheduler, the walk, the output stack, the front end, their runs.
2. Done: the ownership of descriptors with its proofs, that of its refinement
   included, HeapArray, the directory reader, each with its abstract specification;
   repeated and nested operands and removal by others in the walk.
3. Done: the safety of the scheduler proved, `HeapArray` and its refinement, the
   queue and its refinement, and of the walk the lifetime and the counters of its nodes,
   that nothing leaks, that a directory is removed last, that the exit code is true and
   what fails; of the front end the answer, what is removed and the exit code; of the
   output that lines are whole, in order, complete and shown.
4. Prove: the refinement of `EntryStream` by `DirReader`.

## Not modelled

Formatting and escaping of output; the system call wrappers of `os.hpp` and
`os.cpp`, which add nothing to the calls; iterators, comparisons and const access
of `HeapArray` and `std::optional<Fd>`; the queue's move constructor, used before
any thread exists; `Read(span)` and moves of the readers and writers, which remmy
does not call; concepts, variants and environment lookup (no state); tests,
benchmarks and CI.
