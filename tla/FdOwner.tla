------------------------------- MODULE FdOwner -------------------------------
(***************************************************************************)
(* Who owns a descriptor: Fd and the niche std::optional<Fd> of fd.hpp,    *)
(* whose storage is an Fd that holds kReserved when there is no value.     *)
(*                                                                         *)
(* An operation is one step, as the objects it works on belong to one      *)
(* thread; inside it the moves, temporaries and destructions of the code   *)
(* follow each other as functions of the state of memory.  The pool's      *)
(* counter is FdPool's subject: here an open counts one lease.             *)
(***************************************************************************)
EXTENDS Integers, FiniteSets

CONSTANTS
    Plain,       \* objects of type Fd
    Optional,    \* objects of type std::optional<Fd>
    Descriptor,  \* the numbers the kernel gives out
    Absent       \* what an object holds that does not exist

kInvalid == -1
kReserved == -2147483647 - 1

\* The temporaries of an operation: T{...}, and what std::exchange returns.
Fresh == "fresh"
Old == "old"
Temporary == {Fresh, Old}
Object == Plain \cup Optional

ASSUME DescriptorAssumption == Descriptor \subseteq Nat /\ IsFiniteSet(Descriptor)
ASSUME AbsentAssumption == Absent \notin Descriptor \cup {kInvalid, kReserved}
ASSUME ObjectAssumption == Object \cap Temporary = {} /\ Plain \cap Optional = {}

VARIABLES
    mem,      \* fd_ of every object, the descriptors open, the leases
    outside   \* descriptors handed over by Release

vars == <<mem, outside>>

----------------------------------------------------------------------------
(* Fd, as functions of memory                                              *)

Memory(holding, descriptors, count) ==
    [fd |-> holding, open |-> descriptors, leases |-> count]

Hold(m, o, value) == Memory([m.fd EXCEPT ![o] = value], m.open, m.leases)

\* Mutant: the number stays, to be closed again.
CloseOnly(m, o) ==
    IF m.fd[o] \in Descriptor
    THEN Memory(m.fd, m.open \ {m.fd[o]}, m.leases - 1)
    ELSE m

Close(m, o) ==
    IF m.fd[o] \in Descriptor
    THEN Memory([m.fd EXCEPT ![o] = kInvalid], m.open \ {m.fd[o]}, m.leases - 1)
    ELSE Hold(m, o, kInvalid)

Destroy(m, o) == Hold(Close(m, o), o, Absent)

MoveConstruct(m, dst, src) == Hold(Hold(m, dst, m.fd[src]), src, kInvalid)

MoveAssign(m, dst, src) ==
    IF dst = src THEN m ELSE MoveConstruct(Close(m, dst), dst, src)

\* dst = T(...), the value being in a temporary.
AssignFrom(m, dst, temporary) == Destroy(MoveAssign(m, dst, temporary), temporary)

\* std::exchange(src, T{kDisengaged}), into a new object.
ExchangeReserved(m, new, src) ==
    AssignFrom(Hold(MoveConstruct(m, new, src), Fresh, kReserved), src, Fresh)

\* std::swap
SwapFds(m, o, p) ==
    AssignFrom(MoveAssign(MoveConstruct(m, Old, o), o, p), p, Old)

----------------------------------------------------------------------------
(* std::optional<Fd>, as functions of memory                               *)

HasValue(m, o) == m.fd[o] # kReserved

MoveOptional(m, dst, src) == ExchangeReserved(m, dst, src)

\* Mutant: the value is moved, not the optional.
AssignOptionalByValue(m, dst, src) == MoveAssign(m, dst, src)

AssignOptional(m, dst, src) ==
    IF dst = src THEN m ELSE AssignFrom(ExchangeReserved(m, Old, src), dst, Old)

Reset(m, o) == AssignFrom(Hold(m, Fresh, kReserved), o, Fresh)

\* operator=(U&&) and emplace: storage_ = T(std::forward<U>(value)).
AssignValue(m, o, src) == AssignFrom(MoveConstruct(m, Fresh, src), o, Fresh)
EmplaceClosed(m, o) == AssignFrom(Hold(m, Fresh, kInvalid), o, Fresh)

ValueOr(m, dst, o, fallback) ==
    MoveConstruct(m, dst, IF HasValue(m, o) THEN o ELSE fallback)

----------------------------------------------------------------------------
(* What a program may do                                                   *)

Alive(o) == mem.fd[o] # Absent
\* An Fd, or the Fd in an optional reached through value(), * or ->.
HasFd(o) == Alive(o) /\ HasValue(mem, o)
IsOptional(o) == o \in Optional /\ Alive(o)

Init ==
    /\ mem = Memory([o \in Object \cup Temporary |-> Absent], {}, 0)
    /\ outside = {}

Begin(o) ==
    /\ ~Alive(o)
    /\ mem' = Hold(mem, o, IF o \in Optional THEN kReserved ELSE kInvalid)
    /\ UNCHANGED outside

\* Fd::Open; an optional moves the Fd it is built from.
Open(o) ==
    /\ ~Alive(o)
    /\ \E d \in Descriptor \ mem.open :
          LET opened == Memory([mem.fd EXCEPT ![Fresh] = d],
                               mem.open \cup {d}, mem.leases + 1)
          IN  mem' = Destroy(MoveConstruct(opened, o, Fresh), Fresh)
    /\ UNCHANGED outside

OnFd(o) ==
    /\ HasFd(o)
    /\ \/ mem' = Close(mem, o)
       \/ \E p \in Object :
             \/ ~Alive(p) /\ mem' = MoveConstruct(mem, p, o)
             \/ HasFd(p) /\ mem' \in {MoveAssign(mem, p, o), SwapFds(mem, p, o)}
             \/ IsOptional(p) /\ mem' = AssignValue(mem, p, o)
    /\ UNCHANGED outside

OnOptional(o) ==
    /\ IsOptional(o)
    /\ \/ mem' \in {Reset(mem, o), EmplaceClosed(mem, o)}
       \/ \E p \in Optional :
             \/ ~Alive(p) /\ mem' = MoveOptional(mem, p, o)
             \/ Alive(p) /\ mem' \in {AssignOptional(mem, p, o), SwapFds(mem, p, o)}
       \/ \E p \in Plain, fallback \in Object :
             ~Alive(p) /\ HasFd(fallback) /\ mem' = ValueOr(mem, p, o, fallback)
    /\ UNCHANGED outside

Release(o) ==
    /\ HasFd(o) /\ mem.fd[o] \in Descriptor
    /\ mem' = Memory([mem.fd EXCEPT ![o] = kInvalid], mem.open, mem.leases - 1)
    /\ outside' = outside \cup {mem.fd[o]}

End(o) == Alive(o) /\ mem' = Destroy(mem, o) /\ UNCHANGED outside

ForeignClose ==
    \E d \in outside :
        /\ outside' = outside \ {d}
        /\ mem' = Memory(mem.fd, mem.open \ {d}, mem.leases)

Next ==
    \/ \E o \in Object :
          Begin(o) \/ Open(o) \/ OnFd(o) \/ OnOptional(o) \/ Release(o) \/ End(o)
    \/ ForeignClose

Spec == Init /\ [][Next]_vars

----------------------------------------------------------------------------
(* Properties                                                              *)

Held(m) == {m.fd[o] : o \in DOMAIN m.fd} \cap Descriptor

\* No two objects hold the same descriptor.
OneOwner(m) ==
    \A o, p \in DOMAIN m.fd : m.fd[o] = m.fd[p] /\ m.fd[o] \in Descriptor => o = p

\* Every descriptor that is open is held by exactly one object or was handed
\* over, so none leaks and none is closed twice or behind its owner's back;
\* and the pool counts exactly those that are held (fd.hpp:34-35).
LeasesAreOwned ==
    /\ OneOwner(mem)
    /\ mem.open = Held(mem) \cup outside
    /\ Held(mem) \cap outside = {}
    /\ mem.leases = Cardinality(Held(mem))

\* Fd and optional<Fd> implement owners of descriptors: in particular an
\* optional that was moved from is empty, one whose value was moved is not, and
\* a descriptor is closed only when its owner goes or is given another value.
Owners == INSTANCE DescriptorOwners WITH
    holds <- [o \in Object |-> mem.fd[o]], open <- mem.open,
    Nothing <- kInvalid, Empty <- kReserved

ImplementsOwners == Owners!Spec
=============================================================================
