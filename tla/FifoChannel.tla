---------------------------- MODULE FifoChannel ----------------------------
(***************************************************************************)
(* What coro::channel promises its users: a bounded queue that values      *)
(* leave in the order they came, each of them once.  After close() nothing *)
(* is accepted any more, and what has been accepted can still be received; *)
(* only then does recv() say that the channel is closed.                   *)
(***************************************************************************)
EXTENDS Naturals, Sequences

CONSTANTS Value,
          nullopt,    \* recv() on a closed, drained channel
          refused     \* send() on a closed channel: false

VARIABLES bound,      \* how many values it can hold
          buffer, closed,
          out         \* the last answer it has given

channelVars == <<bound, buffer, closed, out>>

ChannelInit ==
    /\ bound \in Nat \ {0}
    /\ buffer = <<>>
    /\ closed = FALSE
    /\ out \notin Value \cup {nullopt, refused}

Accept(v) ==
    /\ ~closed
    /\ Len(buffer) < bound
    /\ buffer' = Append(buffer, v)
    /\ UNCHANGED <<bound, closed, out>>

Refuse ==
    /\ closed
    /\ out' = refused
    /\ UNCHANGED <<bound, buffer, closed>>

Deliver ==
    /\ buffer # <<>>
    /\ out' = Head(buffer)
    /\ buffer' = Tail(buffer)
    /\ UNCHANGED <<bound, closed>>

Drained ==
    /\ closed /\ buffer = <<>>
    /\ out' = nullopt
    /\ UNCHANGED <<bound, buffer, closed>>

Close ==
    /\ closed' = TRUE
    /\ UNCHANGED <<bound, buffer, out>>

ChannelNext == Refuse \/ Deliver \/ Drained \/ Close \/ \E v \in Value : Accept(v)

ChannelSafety == ChannelInit /\ [][ChannelNext]_channelVars
=============================================================================
