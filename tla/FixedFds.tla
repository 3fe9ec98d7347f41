------------------------------ MODULE FixedFds ------------------------------
(***************************************************************************)
(* The registered files of the rings (marked_buffer.hpp, the fixed-fd part *)
(* of uring_proxy.hpp, base_io_type.hpp): each context lends the slots of  *)
(* its ring's file table to connectors, which then name their socket by    *)
(* the index of a slot instead of a descriptor.                            *)
(*                                                                         *)
(* The descriptors of the process and the kernel's side of the file table  *)
(* are external.  A descriptor names an open file until it is closed, and  *)
(* a new file gets the lowest free one; a registered file stays open after *)
(* its descriptor is closed.                                               *)
(***************************************************************************)
EXTENDS Integers, Sequences, FiniteSetsExt, SequencesExt

CONSTANTS Ctx, kFixFdArraySize,
          FD,              \* 0..n, 0 is standard input
          File,            \* open files: one socket per coroutine, stdin
          stdin, null,     \* /dev/null, the file of a slot that is free
          none

Slot == 0 .. kFixFdArraySize - 1
invalid == -1              \* the idx of an invalid item

ASSUME FixedFdsAssumption ==
    /\ kFixFdArraySize \in Nat /\ 0 \in FD /\ FD \subseteq Nat
    /\ stdin \in File /\ {null, none} \cap File = {} /\ null # none

VARIABLES
    que,             \* per context: the indexes that are free
    data,            \* per context and slot: the descriptor, or null
    registered,      \* per context and slot: the file the kernel has there
    fdtab,           \* the file behind each descriptor, or none
    exited           \* std::exit(1) was called

fdVars == <<que, data, registered, fdtab, exited>>

\* uring_proxy::init: every slot is free and holds a null descriptor.
FixedFdsInit ==
    /\ que = [c \in Ctx |-> [n \in 1 .. kFixFdArraySize |-> n - 1]]
    /\ data = [c \in Ctx |-> [n \in Slot |-> null]]
    /\ registered = [c \in Ctx |-> [n \in Slot |-> null]]
    /\ fdtab = [fd \in FD |-> IF fd = 0 THEN stdin ELSE none]
    /\ exited = FALSE

\* A new file gets the lowest descriptor that is free.
FreeFds == {fd \in FD : fdtab[fd] = none}
NewFd == Min(FreeFds)

\* The index that marked_buffer::borrow lends on context c, and its effect.
borrowed(c) == IF que[c] = <<>> THEN invalid ELSE Head(que[c])
get_fixed_fd(c) == que' = [que EXCEPT ![c] = IF @ = <<>> THEN @ ELSE Tail(@)]

\* A slot is set to descriptor fd, now that the descriptors are as in tab, and
\* the kernel is told: it refuses a descriptor that is closed.
update_register_fixed_fds(c, idx, fd, tab) ==
    LET f == IF fd = null THEN null ELSE tab[fd] IN
    /\ data' = [data EXCEPT ![c][idx] = fd]
    /\ registered' = [registered EXCEPT ![c][idx] = IF f = none THEN @ ELSE f]
    /\ exited' = (exited \/ f = none)

\* fixed_fds::assign: the owner of a valid item names its file by the index.
assign(c, idx, fd, tab) ==
    IF idx = invalid THEN UNCHANGED <<data, registered, exited>>
                     ELSE update_register_fixed_fds(c, idx, fd, tab)

\* Mutant of return_back: the kernel keeps the file of the slot.
return_back_kept(c, idx) ==
    /\ UNCHANGED <<registered, exited>>
    /\ IF idx = invalid
       THEN UNCHANGED <<que, data>>
       ELSE /\ data' = [data EXCEPT ![c][idx] = null]
            /\ que' = [que EXCEPT ![c] = Append(@, idx)]

\* fixed_fds::return_back on context c: the slot holds the null descriptor again
\* before it can be lent.
return_back(c, idx) ==
    IF idx = invalid
    THEN UNCHANGED <<que, data, registered, exited>>
    ELSE /\ update_register_fixed_fds(c, idx, null, fdtab)
         /\ que' = [que EXCEPT ![c] = Append(@, idx)]
=============================================================================
