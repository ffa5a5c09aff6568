--------------------------- MODULE DescriptorOwners ---------------------------
(***************************************************************************)
(* What Fd and std::optional<Fd> promise their users: a descriptor has one *)
(* owner, moving hands it over and leaves the source as the standard says, *)
(* and it is closed when its owner is destroyed, closed or given another   *)
(* value, at no other time.                                                *)
(***************************************************************************)
CONSTANTS Plain, Optional, Descriptor,
          Absent,    \* an object that does not exist
          Nothing,   \* an Fd that holds no descriptor
          Empty      \* an optional that holds no Fd

VARIABLES
    holds,    \* per object: one of the above, or a descriptor
    outside,  \* descriptors handed over to others
    open      \* descriptors the process has open

Object == Plain \cup Optional
vars == <<holds, outside, open>>

Alive(o) == holds[o] # Absent
HasFd(o) == holds[o] \notin {Absent, Empty}

\* Whatever is neither held nor handed over is closed.
Become(h, out) ==
    /\ holds' = h
    /\ outside' = out
    /\ open' = ({h[o] : o \in Object} \cap Descriptor) \cup out

Init ==
    /\ holds = [o \in Object |-> Absent]
    /\ outside = {} /\ open = {}

Acquire(o) ==
    \E d \in Descriptor \ open :
        Become([holds EXCEPT ![o] = d], outside)

Lose(o, left) == Become([holds EXCEPT ![o] = left], outside)

\* What src holds moves to dst; what dst held is closed.
Move(dst, src, left) ==
    /\ dst # src
    /\ Become([holds EXCEPT ![dst] = holds[src], ![src] = left], outside)

Exchange(o, p) ==
    Become([holds EXCEPT ![o] = holds[p], ![p] = holds[o]], outside)

HandOver(o) ==
    /\ holds[o] \in Descriptor
    /\ Become([holds EXCEPT ![o] = Nothing], outside \cup {holds[o]})

OthersClose == \E d \in outside : Become(holds, outside \ {d})

Next ==
    \/ \E o \in Object :
          \/ ~Alive(o) /\ (Acquire(o) \/ Lose(o, Nothing))
          \/ ~Alive(o) /\ o \in Optional /\ Lose(o, Empty)
          \/ HasFd(o) /\ (Lose(o, Nothing) \/ HandOver(o))
          \/ Alive(o) /\ o \in Optional /\ \E left \in {Nothing, Empty} : Lose(o, left)
          \/ Alive(o) /\ Lose(o, Absent)
          \/ \E p \in Object :
                \/ HasFd(p) /\ (o \in Optional \/ holds[o] # Empty) /\ Move(o, p, Nothing)
                \/ {o, p} \subseteq Optional /\ Alive(p) /\ Move(o, p, Empty)
                \/ HasFd(o) /\ HasFd(p) /\ Exchange(o, p)
                \/ {o, p} \subseteq Optional /\ Alive(o) /\ Alive(p) /\ Exchange(o, p)
    \/ OthersClose

Spec == Init /\ [][Next]_vars
===============================================================================
