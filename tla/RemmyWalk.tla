------------------------------ MODULE RemmyWalk ------------------------------
(***************************************************************************)
(* The removal of directory trees: RunRm and FileUnlinkWorker of main.cpp, *)
(* the reference-counted DirNode of dir_node.cpp and its opens of long     *)
(* paths, on top of the scheduler and of the descriptor pool.              *)
(*                                                                         *)
(* A step is one system call, one access to a reference count, one call of *)
(* the scheduler or one call of the pool.  TaskScheduler refines a call of *)
(* the scheduler (here the workers exist from the start and acquire a task *)
(* in one step); FdPool refines a call of the pool (here the soft limit is *)
(* raised already and only "has the epoch moved since" is kept of it).     *)
(*                                                                         *)
(* An object is a path as remmy walks it.  Operands may be repeated or lie *)
(* in one another: then several objects are the same thing on disk (Real), *)
(* walked by nodes that know nothing of each other.  Other processes       *)
(* remove things too, but add none.  Paths are shorter than twice          *)
(* PATH_MAX.  A behaviour has at most one thing the system refuses         *)
(* something about for good.                                               *)
(***************************************************************************)
EXTENDS Integers, Sequences, SequencesExt, FiniteSets, FiniteSetsExt, Functions

CONSTANTS
    Dir, File,
    Parent,      \* the directory an object is in; None for an operand
    Operands,    \* the directories of the command line, in order
    Real,        \* the thing on disk an object is
    Long,        \* the directories whose path has PATH_MAX bytes or more
    Slot,        \* the workers
    Main,
    Forces,      \* with -f, without, or either
    Faults,      \* the refusals considered: see Refusals
    MaxFds,      \* how many directory descriptors the process can have
    MaxFills,    \* bound: how often the system's file table fills up
    MaxLost,     \* bound: how many things others remove
    None

Object == Dir \cup File
Actor == Slot \cup {Main}

Children(d) == {x \in Object : Parent[x] = d}

ASSUME ParentAssumption ==
    /\ Parent \in [Object -> Dir \cup {None}]
    /\ \A d \in Object : Parent[d] = None <=> d \in ToSet(Operands)
\* Finitely many objects that form a tree: an operand is one object for every
\* time it is given.
ASSUME TreeAssumption ==
    /\ IsFiniteSet(Object) /\ Dir \cap File = {} /\ None \notin Object
    /\ Operands \in Seq(Dir) /\ IsInjective(Operands)
    /\ \A objects \in SUBSET Object :
          objects # {} => \E x \in objects : Parent[x] \notin objects
ASSUME ThreadAssumption == IsFiniteSet(Slot) /\ Main \notin Slot
ASSUME LongAssumption ==
    /\ Long \in SUBSET {d \in Dir : Parent[d] # None}
    /\ \A d \in Dir : Parent[d] \in Long => d \in Long
\* No file is a directory; directories that are the same hold the same; None is
\* no thing.
ASSUME RealAssumption ==
    /\ DOMAIN Real = Object /\ None \notin {Real[x] : x \in Object}
    /\ {Real[d] : d \in Dir} \cap {Real[f] : f \in File} = {}
    /\ \A d, e \in Dir : Real[d] = Real[e] =>
          {Real[x] : x \in Children(d)} = {Real[x] : x \in Children(e)}
ASSUME ForceAssumption == Forces \subseteq BOOLEAN
ASSUME BoundAssumption == MaxFds \in Nat /\ MaxFills \in Nat /\ MaxLost \in Nat

Things(objects) == {Real[x] : x \in objects}
Refusals == {<<"none", None>>} \cup
            ({"open", "read", "rmdir"} \X Things(Dir)) \cup
            ({"unlink"} \X Things(File)) \cup ({"stat"} \X Things(Object))
ASSUME FaultAssumption == Faults \subseteq Refusals

kRunnable == 0
kAwaitingDescriptor == 1
Shared == Main   \* whoever submits from outside does it to submitted_

VARIABLES
    fs,          \* the things that exist
    fault,       \* the refusal of this behaviour
    force,       \* options_.force
    lost,        \* what others have removed
    sysfull,     \* the system's file table is full
    fills,       \* how often it has been
    node,        \* per directory: its DirNode is not yet, allocated, deleted
    fd,          \* per directory: fd_ is open
    remaining,   \* remaining_children_dirs_
    queues,      \* per worker and Shared, and tier: the tasks, oldest first
    pending,     \* the scheduler's pending_tasks_
    live,        \* the pool's lease count
    ceiling,     \* observed_ceiling, 0 when there is none
    pc,
    cur,         \* the node a thread works on: its task, then up the chain
    goal,        \* what it opens a directory for
    todo,        \* the entries its scan has yet to read
    entry,       \* the entry it is at
    before,      \* before_.live of its reservation
    moved,       \* the epoch has moved since that reservation
    extra,       \* the descriptors OpenLong and RemoveEmpty hold
    failed,      \* the failures counted and warned about: error and object
    operand      \* how far RunRm has got

pool == <<live, ceiling, before, moved>>
given == <<fault, force>>
table == <<sysfull, fills, given, lost>>
nodes == <<node, fd, remaining>>
sched == <<queues, pending>>
scanning == <<todo, entry>>
vars == <<fs, table, nodes, sched, pool, pc, cur, goal, scanning, extra,
          failed, operand>>

Goto(a, label) == pc' = [pc EXCEPT ![a] = label]
\* BasicParentChain: an object and everything it lies in.
Parents[x \in Object] ==
    {x} \cup (IF Parent[x] = None THEN {} ELSE Parents[Parent[x]])

Init ==
    /\ fs = Things(Object)
    /\ fault \in Faults
    /\ force \in Forces
    /\ lost = {}
    /\ sysfull = FALSE /\ fills = 0
    /\ node = [d \in Dir |-> "none"]
    /\ fd = [d \in Dir |-> FALSE]
    /\ remaining = [d \in Dir |-> 0]
    /\ queues = [o \in Actor |-> [p \in {0, 1} |-> <<>>]]
    /\ pending = 0
    /\ live = 0 /\ ceiling = 0
    /\ pc = [a \in Actor |-> IF a = Main THEN "next" ELSE "idle"]
    /\ cur = [a \in Actor |-> None]
    /\ goal = [a \in Actor |-> "none"]
    /\ todo = [s \in Slot |-> {}]
    /\ entry = [s \in Slot |-> None]
    /\ before = [a \in Actor |-> 0]
    /\ moved = [a \in Actor |-> FALSE]
    /\ extra = [a \in Actor |-> 0]
    /\ failed = {}
    /\ operand = 1

----------------------------------------------------------------------------
(* The system                                                              *)

\* The descriptors OpenLong and RemoveEmpty hold, named by holder and rank.
Extras == {h \in Actor \X {1, 2} : h[2] <= extra[h[1]]}
Descriptors == Cardinality({d \in Dir : fd[d]}) + Cardinality(Extras)
HasRoom == ~sysfull /\ Descriptors < MaxFds

Exists(x) == Real[x] \in fs
Left(d) == {x \in Children(d) : Exists(x)}
Denied(call, x) == fault = <<call, Real[x]>>

\* rmdir and unlinkat(AT_REMOVEDIR): only of an empty directory.
Removable(d) == Left(d) = {} /\ ~Denied("rmdir", d)

\* A failure is counted and warned about once, with the error it is due to.
Fail(error, x) == failed' = failed \cup {<<error, x>>}

\* Mutant: that it is gone already counts.
RmdirStrict(d, error) ==
    \/ Exists(d) /\ Removable(d) /\ fs' = fs \ {Real[d]} /\ UNCHANGED failed
    \/ ~(Exists(d) /\ Removable(d)) /\ Fail(error, d) /\ UNCHANGED fs

\* That it is gone already is no failure.
Rmdir(d, error) ==
    \/ Exists(d) /\ Removable(d) /\ fs' = fs \ {Real[d]} /\ UNCHANGED failed
    \/ Exists(d) /\ ~Removable(d) /\ Fail(error, d) /\ UNCHANGED fs
    \/ ~Exists(d) /\ UNCHANGED <<fs, failed>>

FillTable ==
    /\ ~sysfull /\ fills < MaxFills /\ pc[Main] # "exited"
    /\ sysfull' = TRUE /\ fills' = fills + 1
    /\ UNCHANGED <<fs, given, lost, nodes, sched, pool, pc, cur, goal, scanning,
                   extra, failed, operand>>

ClearTable ==
    /\ sysfull /\ sysfull' = FALSE
    /\ UNCHANGED <<fs, given, lost, fills, nodes, sched, pool, pc, cur, goal,
                   scanning, extra, failed, operand>>

\* Another process removes a file or an empty directory.
OthersRemove ==
    /\ Cardinality(lost) < MaxLost /\ pc[Main] # "exited"
    /\ \E x \in Object :
          /\ Exists(x) /\ (x \in Dir => Left(x) = {})
          /\ fs' = fs \ {Real[x]}
          /\ lost' = lost \cup {Real[x]}
    /\ UNCHANGED <<sysfull, fills, given, nodes, sched, pool, pc, cur, goal,
                   scanning, extra, failed, operand>>

----------------------------------------------------------------------------
(* Opening: Fd::Open under a reservation of the pool, OpenLong's pieces    *)

Exhausted == ceiling # 0 /\ live >= ceiling

Reserved(a) == pc[a] \in {"call", "refused"}

\* A descriptor is closed, its lease released and the epoch moved.
CloseOne ==
    /\ live' = live - 1
    /\ moved' = [a \in Actor |-> Reserved(a)]
    /\ UNCHANGED <<ceiling, before>>

\* What is opened: the parent when a long path is removed.
Target(a) ==
    CASE goal[a] = "child"  -> entry[a]
      [] goal[a] = "remove" -> Parent[cur[a]]
      [] OTHER              -> cur[a]

\* A path from the working directory, too long for one open, whose first
\* piece is not open yet.
NeedsPiece(a) ==
    goal[a] \in {"task", "remove"} /\ Target(a) \in Long /\ extra[a] = 0

Reserve(a) ==
    /\ pc[a] = "reserve"
    /\ live' = live + 1
    /\ before' = [before EXCEPT ![a] = live]
    /\ moved' = [moved EXCEPT ![a] = FALSE]
    /\ Goto(a, "call")
    /\ UNCHANGED <<fs, table, nodes, sched, ceiling, cur, goal, scanning,
                   extra, failed, operand>>

EndReservation(a) ==
    /\ before' = [before EXCEPT ![a] = 0]
    /\ moved' = [moved EXCEPT ![a] = FALSE]

Piece(d) == CHOOSE p \in Parents[d] \ Long : Parents[d] \ Long \subseteq Parents[p]
Opened(a) == IF NeedsPiece(a) THEN Piece(Target(a)) ELSE Target(a)

OpenPiece(a) ==
    /\ pc[a] = "call" /\ HasRoom /\ NeedsPiece(a) /\ Exists(Opened(a))
    /\ extra' = [extra EXCEPT ![a] = 1]
    /\ EndReservation(a)
    /\ Goto(a, "reserve")
    /\ UNCHANGED <<fs, table, nodes, sched, live, ceiling, cur, goal,
                   scanning, failed, operand>>

AfterOpen(a) ==
    CASE goal[a] = "root"   -> "seed"
      [] goal[a] = "task"   -> "scan"
      [] goal[a] = "child"  -> "count"
      [] goal[a] = "remove" -> "rmdir"

OpenSucceeds(a) ==
    /\ pc[a] = "call" /\ HasRoom /\ ~NeedsPiece(a)
    /\ Exists(Target(a)) /\ ~Denied("open", Target(a))
    /\ IF goal[a] = "remove"
       THEN extra' = [extra EXCEPT ![a] = @ + 1] /\ UNCHANGED fd
       ELSE fd' = [fd EXCEPT ![Target(a)] = TRUE] /\ UNCHANGED extra
    /\ IF goal[a] = "task"
       THEN todo' = [todo EXCEPT ![a] = Left(cur[a])]
       ELSE UNCHANGED todo
    /\ EndReservation(a)
    /\ Goto(a, AfterOpen(a))
    /\ UNCHANGED <<fs, table, node, remaining, sched, live, ceiling, cur,
                   goal, entry, failed, operand>>

\* Mutant: every error is retried.
OpenFailsRetried(a) ==
    /\ pc[a] = "call" /\ HasRoom /\ ~NeedsPiece(a)
    /\ Denied("open", Target(a))
    /\ live' = live - 1
    /\ EndReservation(a)
    /\ Goto(a, "retry")
    /\ UNCHANGED <<fs, table, nodes, sched, ceiling, cur, goal, scanning,
                   extra, failed, operand>>

\* Any other error: the reservation is forgotten and there is no retry.
OpenFails(a) ==
    /\ pc[a] = "call" /\ HasRoom
    /\ live' = live - 1
    /\ EndReservation(a)
    /\ \/ ~Exists(Opened(a)) /\ Goto(a, "gone")
       \/ /\ Exists(Opened(a)) /\ ~NeedsPiece(a) /\ Denied("open", Target(a))
          /\ Goto(a, "giveup")
    /\ UNCHANGED <<fs, table, nodes, sched, ceiling, cur, goal, scanning,
                   extra, failed, operand>>

OpenRefused(a) ==
    /\ pc[a] = "call" /\ ~HasRoom
    /\ Goto(a, "refused")
    /\ UNCHANGED <<fs, table, nodes, sched, pool, cur, goal, scanning, extra,
                   failed, operand>>

\* Mutant: a refusal is retried only when a descriptor was freed meanwhile.
RefusedUnlessFreed(a) ==
    /\ pc[a] = "refused"
    /\ live' = live - 1
    /\ UNCHANGED ceiling
    /\ Goto(a, IF moved[a] THEN "retry" ELSE "giveup")
    /\ EndReservation(a)
    /\ UNCHANGED <<fs, table, nodes, sched, cur, goal, scanning, extra,
                   failed, operand>>

\* Reservation::Refused: the lease is forgotten, the ceiling falls to what
\* was held, and a lease held or a slot freed since means: retry.
Refused(a) ==
    /\ pc[a] = "refused"
    /\ live' = live - 1
    /\ ceiling' = IF before[a] # 0 /\ (ceiling = 0 \/ before[a] < ceiling)
                  THEN before[a] ELSE ceiling
    /\ Goto(a, IF live' # 0 \/ moved[a] THEN "retry" ELSE "giveup")
    /\ EndReservation(a)
    /\ UNCHANGED <<fs, table, nodes, sched, cur, goal, scanning, extra,
                   failed, operand>>

\* Mutant: the descriptor of a long path's parent is kept.
KeptOpen(a) == IF pc[a] \in {"rmdir", "delete"} /\ cur[a] \in Long THEN 1 ELSE 0

\* The descriptors of OpenLong and RemoveEmpty go when these return; the
\* parent of a long path is still there for unlinkat.
Kept(a) == IF pc[a] = "rmdir" /\ cur[a] \in Long THEN 1 ELSE 0
Unwound(a) == extra[a] = Kept(a)

Unwind(a) ==
    /\ pc[a] \in {"scan", "rmdir", "delete", "retry", "giveup", "gone"}
    /\ ~Unwound(a)
    /\ extra' = [extra EXCEPT ![a] = @ - 1]
    /\ CloseOne
    /\ UNCHANGED <<fs, table, nodes, sched, pc, cur, goal, scanning, failed,
                   operand>>

Opening(a) ==
    \/ Reserve(a)   \/ OpenPiece(a)   \/ OpenSucceeds(a)
    \/ OpenFails(a) \/ OpenRefused(a) \/ Refused(a) \/ Unwind(a)

----------------------------------------------------------------------------
(* FileUnlinkWorker                                                        *)

Insert(o, p, d) ==
    /\ queues' = [queues EXCEPT ![o][p] = Append(@, d)]
    /\ pending' = pending + 1

\* A worker takes the newest task of its own queue, else steals the oldest
\* of another one, else does the same one tier down.
Source(s, p) ==
    IF queues[s][p] # <<>> THEN {s} ELSE {o \in Actor : queues[o][p] # <<>>}

Tier(s) == IF Source(s, kRunnable) # {} THEN kRunnable ELSE kAwaitingDescriptor

Start(s, d) ==
    /\ cur' = [cur EXCEPT ![s] = d]
    /\ goal' = [goal EXCEPT ![s] = "task"]
    /\ IF fd[d]
       THEN /\ todo' = [todo EXCEPT ![s] = Left(d)]
            /\ Goto(s, "scan")
       ELSE UNCHANGED todo /\ Goto(s, "reserve")

Acquire(s) ==
    /\ pc[s] = "idle"
    /\ \E o \in Source(s, Tier(s)) :
          LET tasks == queues[o][Tier(s)]
              taken == IF o = s THEN Last(tasks) ELSE Head(tasks)
          IN  /\ Start(s, taken)
              /\ queues' = [queues EXCEPT ![o][Tier(s)] =
                               IF o = s THEN Front(tasks) ELSE Tail(tasks)]
    /\ UNCHANGED <<fs, table, nodes, pending, pool, entry, extra, failed,
                   operand>>

\* Mutant: a parked task is not pending.
ParkUncounted(s) ==
    /\ pc[s] = "retry" /\ goal[s] = "task" /\ Unwound(s)
    /\ queues' = [queues EXCEPT ![s][kAwaitingDescriptor] = Append(@, cur[s])]
    /\ Goto(s, "finish")
    /\ UNCHANGED <<fs, table, nodes, pending, pool, cur, goal, scanning, extra,
                   failed, operand>>

\* Process could not open its task for want of descriptors: park it.
Park(s) ==
    /\ pc[s] = "retry" /\ goal[s] = "task" /\ Unwound(s)
    /\ Insert(s, kAwaitingDescriptor, cur[s])
    /\ Goto(s, "finish")
    /\ UNCHANGED <<fs, table, nodes, pool, cur, goal, scanning, extra, failed,
                   operand>>

\* RemoveEmpty opens the parent first when the path is too long for rmdir.
StartRemove(s) ==
    /\ goal' = [goal EXCEPT ![s] = "remove"]
    /\ Goto(s, IF cur[s] \in Long THEN "reserve" ELSE "rmdir")

\* An open failed for good, or because there is nothing left to open.
Hopeless(a) == pc[a] \in {"giveup", "gone"}
OpenError(a) == IF pc[a] = "gone" THEN "gone" ELSE "open"

\* Process could not open its task at all: with -f it may still be empty.
Abandon(s) ==
    /\ Hopeless(s) /\ goal[s] = "task" /\ Unwound(s)
    /\ IF force
       THEN StartRemove(s) /\ UNCHANGED failed
       ELSE /\ Fail(OpenError(s), cur[s])
            /\ Goto(s, "delete")
            /\ UNCHANGED goal
    /\ UNCHANGED <<fs, table, nodes, sched, pool, cur, scanning, extra,
                   operand>>

\* Scan, one entry: the read, then what is done about it.
Reading(s) == pc[s] = "scan" /\ Unwound(s)

Skip(s, e) == todo' = [todo EXCEPT ![s] = @ \ {e}]

UnlinkFile(s) ==
    /\ Reading(s)
    /\ \E e \in todo[s] \cap File :
          /\ Exists(e) /\ ~Denied("stat", e)
          /\ Skip(s, e)
          /\ IF Denied("unlink", e)
             THEN Fail("unlink", e) /\ UNCHANGED fs
             ELSE fs' = fs \ {Real[e]} /\ UNCHANGED failed
    /\ UNCHANGED <<table, nodes, sched, pool, pc, cur, goal, entry, extra,
                   operand>>

\* The entry went first: the directory no longer lists it, or fstatat or
\* unlinkat say ENOENT, which is no failure.
SkipGone(s) ==
    /\ Reading(s)
    /\ \E e \in todo[s] : ~Exists(e) /\ Skip(s, e)
    /\ UNCHANGED <<fs, table, nodes, sched, pool, pc, cur, goal, entry, extra,
                   failed, operand>>

StatFails(s) ==
    /\ Reading(s)
    /\ \E e \in todo[s] :
          /\ Exists(e) /\ Denied("stat", e)
          /\ Skip(s, e)
          /\ Fail("stat", e)
    /\ UNCHANGED <<fs, table, nodes, sched, pool, pc, cur, goal, entry, extra,
                   operand>>

\* Mutant: a failed read is taken for the end of the directory.
ReadEnds(s) ==
    /\ Reading(s) /\ (Denied("read", cur[s]) \/ ~Exists(cur[s]))
    /\ todo' = [todo EXCEPT ![s] = {}]
    /\ Goto(s, "close")
    /\ UNCHANGED <<fs, table, nodes, sched, pool, cur, goal, entry, extra,
                   failed, operand>>

\* A directory that is gone cannot be read to its end (ENOENT), on Linux.
ReadFails(s) ==
    /\ Reading(s) /\ (Denied("read", cur[s]) \/ ~Exists(cur[s]))
    /\ Fail(IF Exists(cur[s]) THEN "read" ELSE "gone", cur[s])
    /\ todo' = [todo EXCEPT ![s] = {}]
    /\ Goto(s, "close")
    /\ UNCHANGED <<fs, table, nodes, sched, pool, cur, goal, entry, extra,
                   operand>>

\* A subdirectory: opened now, or parked unopened near the ceiling.
MeetChild(s) ==
    /\ Reading(s)
    /\ \E e \in todo[s] \cap Dir :
          /\ ~Denied("stat", e)
          /\ Skip(s, e)
          /\ entry' = [entry EXCEPT ![s] = e]
    /\ goal' = [goal EXCEPT ![s] = "child"]
    /\ Goto(s, IF Exhausted THEN "count" ELSE "reserve")
    /\ UNCHANGED <<fs, table, nodes, sched, pool, cur, extra, failed, operand>>

LeaveEntry(s) ==
    /\ entry' = [entry EXCEPT ![s] = None]
    /\ goal' = [goal EXCEPT ![s] = "task"]
    /\ Goto(s, "scan")

\* Mutant: with -f any error is taken for the absence of the directory.
ChildRefusedSilent(s) ==
    /\ Hopeless(s) /\ goal[s] = "child"
    /\ LeaveEntry(s)
    /\ IF force
       THEN UNCHANGED <<fs, failed>>
       ELSE Fail(OpenError(s), entry[s]) /\ UNCHANGED fs
    /\ UNCHANGED <<table, nodes, sched, pool, cur, todo, extra, operand>>

\* With -f an empty directory can go unopened.
ChildRefused(s) ==
    /\ Hopeless(s) /\ goal[s] = "child"
    /\ LeaveEntry(s)
    /\ IF force
       THEN Rmdir(entry[s], OpenError(s))
       ELSE Fail(OpenError(s), entry[s]) /\ UNCHANGED fs
    /\ UNCHANGED <<table, nodes, sched, pool, cur, todo, extra, operand>>

\* Mutant: the child is not counted on its parent.
CountNothing(s) ==
    /\ pc[s] = "count" \/ (pc[s] = "retry" /\ goal[s] = "child")
    /\ node' = [node EXCEPT ![entry[s]] = "live"]
    /\ remaining' = [remaining EXCEPT ![entry[s]] = 1]
    /\ Goto(s, "publish")
    /\ UNCHANGED <<fs, table, fd, sched, pool, cur, goal, scanning, extra,
                   failed, operand>>

\* "Count the child on the parent before publishing it."
Count(s) ==
    /\ pc[s] = "count" \/ (pc[s] = "retry" /\ goal[s] = "child")
    /\ node' = [node EXCEPT ![entry[s]] = "live"]
    /\ remaining' = [remaining EXCEPT ![entry[s]] = 1, ![cur[s]] = @ + 1]
    /\ Goto(s, "publish")
    /\ UNCHANGED <<fs, table, fd, sched, pool, cur, goal, scanning, extra,
                   failed, operand>>

Publish(s) ==
    /\ pc[s] = "publish"
    /\ Insert(s, IF fd[entry[s]] THEN kRunnable ELSE kAwaitingDescriptor,
              entry[s])
    /\ LeaveEntry(s)
    /\ UNCHANGED <<fs, table, nodes, pool, cur, todo, extra, failed, operand>>

CloseScanned(s) ==
    /\ \/ Reading(s) /\ todo[s] = {} /\ ~Denied("read", cur[s])
       \/ pc[s] = "close"
    /\ fd' = [fd EXCEPT ![cur[s]] = FALSE]
    /\ CloseOne
    /\ Goto(s, "unref")
    /\ UNCHANGED <<fs, table, node, remaining, sched, cur, goal, scanning,
                   extra, failed, operand>>

\* Mutant: the last reference is taken for one of two.
UnrefEarly(s) ==
    /\ pc[s] = "unref"
    /\ remaining' = [remaining EXCEPT ![cur[s]] = @ - 1]
    /\ IF remaining[cur[s]] <= 2
       THEN StartRemove(s)
       ELSE Goto(s, "finish") /\ UNCHANGED goal
    /\ UNCHANGED <<fs, table, node, fd, sched, pool, cur, scanning, extra,
                   failed, operand>>

\* MaybeCleanupDirNode, one node of the chain: drop a reference ...
Unref(s) ==
    /\ pc[s] = "unref"
    /\ remaining' = [remaining EXCEPT ![cur[s]] = @ - 1]
    /\ IF remaining[cur[s]] = 1
       THEN StartRemove(s)
       ELSE Goto(s, "finish") /\ UNCHANGED goal
    /\ UNCHANGED <<fs, table, node, fd, sched, pool, cur, scanning, extra,
                   failed, operand>>

\* ... remove the directory with the last one ...  A directory that could not
\* be opened is warned about with that error.
RmdirError(d) ==
    IF remaining[d] # 0 THEN "open"
    ELSE IF Left(d) # {} THEN "not empty" ELSE "rmdir"

RemoveEmpty(s) ==
    /\ pc[s] = "rmdir" /\ Unwound(s)
    /\ Rmdir(cur[s], RmdirError(cur[s]))
    /\ Goto(s, "delete")
    /\ UNCHANGED <<table, nodes, sched, pool, cur, goal, scanning, extra,
                   operand>>

\* The parent of a long path could not be opened: no failure if it is gone.
RemoveEmptyFails(s) ==
    /\ pc[s] = "retry" \/ Hopeless(s)
    /\ goal[s] = "remove" /\ Unwound(s)
    /\ IF pc[s] = "gone" THEN UNCHANGED failed ELSE Fail("open", cur[s])
    /\ Goto(s, "delete")
    /\ UNCHANGED <<fs, table, nodes, sched, pool, cur, goal, scanning, extra,
                   operand>>

\* Mutant: the walk up the chain ends with the task.
DeleteOne(s) ==
    /\ pc[s] = "delete" /\ Unwound(s)
    /\ node' = [node EXCEPT ![cur[s]] = "deleted"]
    /\ Goto(s, "finish")
    /\ UNCHANGED <<fs, table, fd, remaining, sched, pool, cur, goal, scanning,
                   extra, failed, operand>>

\* ... and delete the node; its parent is next.
Delete(s) ==
    /\ pc[s] = "delete" /\ Unwound(s)
    /\ node' = [node EXCEPT ![cur[s]] = "deleted"]
    /\ cur' = [cur EXCEPT ![s] = Parent[@]]
    /\ Goto(s, IF Parent[cur[s]] = None THEN "finish" ELSE "unref")
    /\ UNCHANGED <<fs, table, fd, remaining, sched, pool, goal, scanning,
                   extra, failed, operand>>

\* Process has returned.
Finish(s) ==
    /\ pc[s] = "finish"
    /\ pending' = pending - 1
    /\ cur' = [cur EXCEPT ![s] = None]
    /\ goal' = [goal EXCEPT ![s] = "none"]
    /\ Goto(s, "idle")
    /\ UNCHANGED <<fs, table, nodes, queues, pool, scanning, extra, failed,
                   operand>>

WorkerStep(s) ==
    \/ Acquire(s)     \/ Opening(s)  \/ Park(s)       \/ Abandon(s)
    \/ UnlinkFile(s)  \/ SkipGone(s) \/ StatFails(s) \/ ReadFails(s) \/ MeetChild(s)
    \/ ChildRefused(s) \/ Count(s)   \/ Publish(s)    \/ CloseScanned(s)
    \/ Unref(s) \/ RemoveEmpty(s) \/ RemoveEmptyFails(s) \/ Delete(s)
    \/ Finish(s)

----------------------------------------------------------------------------
(* RunRm                                                                   *)

Idle(next) ==
    /\ operand' = next
    /\ cur' = [cur EXCEPT ![Main] = None]
    /\ goal' = [goal EXCEPT ![Main] = "none"]
    /\ Goto(Main, "next")

\* lstat: with -f it is no failure that an operand is gone.  FrontEnd has its
\* other errors.
OperandGone ==
    /\ pc[Main] = "next" /\ operand <= Len(Operands)
    /\ ~Exists(Operands[operand])
    /\ IF force THEN UNCHANGED failed ELSE Fail("gone", Operands[operand])
    /\ operand' = operand + 1
    /\ UNCHANGED <<fs, table, nodes, sched, pool, pc, cur, goal, scanning,
                   extra>>

NextOperand ==
    /\ pc[Main] = "next" /\ operand <= Len(Operands)
    /\ Exists(Operands[operand])
    /\ cur' = [cur EXCEPT ![Main] = Operands[operand]]
    /\ goal' = [goal EXCEPT ![Main] = "root"]
    /\ Goto(Main, "reserve")
    /\ UNCHANGED <<fs, table, nodes, sched, pool, scanning, extra, failed,
                   operand>>

\* Mutant: the root does not hold a reference for its own scan.
SeedRootUnheld ==
    /\ pc[Main] = "seed"
    /\ node' = [node EXCEPT ![cur[Main]] = "live"]
    /\ Insert(Shared, kRunnable, cur[Main])
    /\ Idle(operand + 1)
    /\ UNCHANGED <<fs, table, fd, remaining, pool, scanning, extra, failed>>

SeedRoot ==
    /\ pc[Main] = "seed"
    /\ node' = [node EXCEPT ![cur[Main]] = "live"]
    /\ remaining' = [remaining EXCEPT ![cur[Main]] = 1]
    /\ Insert(Shared, kRunnable, cur[Main])
    /\ Idle(operand + 1)
    /\ UNCHANGED <<fs, table, fd, pool, scanning, extra, failed>>

\* Whether or not the error is retryable.
RootRefused ==
    /\ pc[Main] = "retry" \/ Hopeless(Main)
    /\ IF force
       THEN Rmdir(cur[Main], OpenError(Main))
       ELSE Fail(OpenError(Main), cur[Main]) /\ UNCHANGED fs
    /\ Idle(operand + 1)
    /\ UNCHANGED <<table, nodes, sched, pool, scanning, extra>>

\* Wait returns, and with it RunRm: exit code 0 if nothing failed.
Wait ==
    /\ pc[Main] = "next" /\ operand > Len(Operands) /\ pending = 0
    /\ Goto(Main, "exited")
    /\ UNCHANGED <<fs, table, nodes, sched, pool, cur, goal, scanning, extra,
                   failed, operand>>

MainStep ==
    NextOperand \/ OperandGone \/ Opening(Main) \/ SeedRoot \/ RootRefused \/ Wait

Next ==
    \/ \E s \in Slot : WorkerStep(s)
    \/ MainStep
    \/ FillTable \/ ClearTable \/ OthersRemove

Spec == Init /\ [][Next]_vars

\* Every thread keeps running and every system call returns; other processes
\* close files again.
FairSpec ==
    /\ Spec
    /\ \A s \in Slot : WF_vars(WorkerStep(s))
    /\ WF_vars(MainStep) /\ WF_vars(ClearTable)

----------------------------------------------------------------------------
(* Properties                                                              *)

Exited == pc[Main] = "exited"
Named == {failure[2] : failure \in failed}

Label == {"next", "seed", "exited",
          "idle", "reserve", "call", "refused", "retry", "giveup", "gone",
          "scan", "close", "count", "publish", "unref", "rmdir", "delete", "finish"}

\* Every variable has its type (dir_node.hpp, fd.cpp:22-59).
TypeOK ==
    /\ fs \subseteq Things(Object) /\ fault \in Refusals /\ force \in BOOLEAN
    /\ lost \subseteq Things(Object)
    /\ sysfull \in BOOLEAN /\ fills \in 0 .. MaxFills
    /\ failed \subseteq
          {"open", "read", "unlink", "stat", "rmdir", "not empty", "gone"} \X Object
    /\ node \in [Dir -> {"none", "live", "deleted"}]
    /\ fd \in [Dir -> BOOLEAN]
    /\ remaining \in [Dir -> 0 .. Cardinality(Dir)]
    /\ \A o \in Actor, p \in {0, 1} : queues[o][p] \in Seq(Dir)
    /\ pending \in 0 .. Cardinality(Dir) + Cardinality(Slot)
    /\ Descriptors <= MaxFds
    /\ live \in 0 .. MaxFds + Cardinality(Actor)
    /\ ceiling \in 0 .. MaxFds + Cardinality(Slot)
    /\ pc \in [Actor -> Label]
    /\ cur \in [Actor -> Dir \cup {None}]
    /\ goal \in [Actor -> {"none", "root", "task", "child", "remove"}]
    /\ todo \in [Slot -> SUBSET Object]
    /\ entry \in [Slot -> Object \cup {None}]
    /\ before \in [Actor -> 0 .. MaxFds + Cardinality(Slot)]
    /\ moved \in [Actor -> BOOLEAN]
    /\ extra \in [Actor -> 0 .. 2]
    /\ operand \in 1 .. Len(Operands) + 1

QueuedIn(o) == UNION {ToSet(queues[o][p]) : p \in {0, 1}}
Queued == UNION {QueuedIn(o) : o \in Actor}

\* What the threads and the queues still refer to.
Referenced ==
    Queued
    \cup {cur[s] : s \in {t \in Slot : pc[t] \notin {"idle", "finish"}}}
    \cup {entry[s] : s \in {t \in Slot : pc[t] = "publish"}}

\* No worker touches a deleted node: whatever is queued or worked on is
\* allocated, and so is its whole parent chain, which PathInto and the
\* cleanup walk without any lock (dir_node.cpp:72-97, main.cpp:282-302).
NoUseAfterFree ==
    \A d \in Referenced : \A p \in Parents[d] : node[p] = "live"

\* A node's counter is the number of those who will still drop it: its own
\* scan, its live children and whoever has just deleted one (dir_node.hpp
\* 60-83), from its allocation to the moment its last reference goes.
Removing(d) ==
    \E s \in Slot :
        /\ cur[s] = d
        /\ \/ pc[s] \in {"rmdir", "delete"} \/ goal[s] = "remove"
        /\ pc[s] \notin {"unref", "finish"}

Scanning(d) ==
    \/ d \in Queued
    \/ \E s \in Slot : entry[s] = d /\ pc[s] = "publish"

Workers(d) == {s \in Slot : cur[s] = d /\ pc[s] \notin {"finish", "idle"}}

RefcountIsExact ==
    \A d \in Dir :
        (node[d] = "live" /\ ~Removing(d)) =>
            remaining[d] =
                (IF Scanning(d) THEN 1 ELSE 0) + Cardinality(Workers(d))
                + Cardinality({c \in Dir : Parent[c] = d /\ node[c] = "live"})

\* A directory whose last reference has gone holds nothing but what a worker
\* reported, unless it could not be read itself: its rmdir is never tried
\* while a worker may still be removing something in it.
RemovedLast ==
    \A s \in Slot :
        (pc[s] = "rmdir" /\ remaining[cur[s]] = 0 /\ cur[s] \notin Named) =>
            Left(cur[s]) \subseteq Named

\* Whatever is left when remmy exits has a reported cause: an error other than
\* ENOTEMPTY of the object itself, of a directory it lies in, or of something
\* in it.  So exit code 0 means that everything is gone (main.cpp:513-517).
ExitIsTruthful ==
    Exited =>
        \A x \in Object : Exists(x) => \E failure \in failed :
            /\ failure[1] \notin {"not empty", "gone"}
            /\ failure[2] \in Parents[x] \/ x \in Parents[failure[2]]

\* When RunRm returns every node is deleted, every descriptor closed, every
\* lease returned and every queue empty.
NothingLeaks ==
    Exited =>
        /\ \A d \in Dir : node[d] # "live" /\ ~fd[d]
        /\ Descriptors = 0 /\ live = 0 /\ pending = 0 /\ Queued = {}

\* "remmy removes everything the failure does not block": while the system's
\* table never fills, the object that is refused something and the directories
\* around it are all that ever fails, however short descriptors are
\* (test_faults.py:3).
OnlyTheBlockedFails ==
    fills = 0 =>
        {failure[2] : failure \in {f \in failed : f[1] # "gone"}}
            \subseteq UNION {Parents[x] : x \in {y \in Object : Real[y] = fault[2]}}

\* "The tree must go, and a failure may only be a lost race": with operands
\* repeated or nested, other processes removing things at the same time, and
\* descriptors enough, whatever fails does so because the thing is gone, never a
\* file, and nothing is left (test_recursive.py:165, main.cpp:222-230).
OnlyLostRaces ==
    fault[2] = None =>
        /\ \A failure \in failed : failure[1] = "gone" /\ failure[2] \in Dir
        /\ Exited => fs = {}

\* "Transient descriptor exhaustion ... must be retried": while nothing is
\* refused for good and the system's table never fills, nothing fails.
TransientIsRetried ==
    (fault[2] = None /\ fills = 0) => failed = {}

\* remmy exits: parking and retrying end, as long as others empty the system's
\* table when it is full (cf. FairSpec).
Terminates == <>Exited
=============================================================================
