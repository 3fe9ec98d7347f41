------------------------------ MODULE Channel ------------------------------
(***************************************************************************)
(* coro::channel (channel.hpp): send(), recv() and close() over a Ring,    *)
(* one mutex and two condition variables.  Producers make a number of      *)
(* calls of send(), consumers call recv() until it says that the channel   *)
(* is closed, and closers call close(), as in channel_test.cpp.  Init      *)
(* chooses the workload from Loads: the capacity of the channel, the       *)
(* number of calls of each producer and the consumers that take part.      *)
(*                                                                         *)
(* What the mutex guards is accessed together with the access that follows *)
(* or precedes it; m_close_state, which close() stores without the mutex,  *)
(* is read in the step that evaluates the predicate or the test.           *)
(***************************************************************************)
EXTENDS CondVar, Ring, FiniteSets

CONSTANTS Producer, Consumer, Closer,
          Loads,                \* the workloads, see above
          Patient,              \* close() comes after the producers' last send()
          m_producer_cv, m_consumer_cv,
          nullopt, refused

ASSUME ChannelAssumption ==
    /\ Coro = Producer \cup Consumer \cup Closer
    /\ Producer \cap Consumer = {} /\ Closer \cap (Producer \cup Consumer) = {}
    /\ Cv = {m_producer_cv, m_consumer_cv} /\ m_producer_cv # m_consumer_cv
    /\ Loads \subseteq [capacity : Nat, calls : [Producer -> Nat],
                        consumers : SUBSET Consumer]
    /\ SizeMax \in Nat /\ \A l \in Loads : HasSingleBit(l.capacity) =>
            SizeMax % l.capacity = 0 /\ SizeMax > l.capacity
    /\ NoOwner \notin Coro
    /\ empty_slot \notin (Producer \X Nat) \cup {nullopt, refused}
    /\ Patient \in BOOLEAN

complete_close == 0
part_close == 1
no_close == 2

VARIABLES load, buf, m_close_state,
          num,    \* calls of send() made; for a closer, notify_all() made
          out     \* history variable: the last result of send() or recv()

chanVars == <<load, buf, m_close_state, num, out>>
vars == <<cvVars, chanVars>>

capacity == load.capacity

Init ==
    /\ load \in Loads
    /\ CvInit(Producer \cup load.consumers \cup Closer)
    /\ buf = RingInit(capacity)
    /\ m_close_state = no_close
    /\ num = [c \in Coro |-> 0]
    /\ out = empty_slot

part_closed == m_close_state <= part_close

\* The condition variable a coroutine waits on, and the predicate it waits for.
CvOf(c) == IF c \in Producer THEN m_producer_cv ELSE m_consumer_cv

cond(c) ==
    \/ part_closed
    \/ IF c \in Producer THEN ~full(buf, capacity) ELSE ~empty(buf, capacity)
-----------------------------------------------------------------------------
\* send() is called; a closed channel refuses.
send(c) ==
    /\ pc[c] = "start" /\ c \in Producer
    /\ num[c] < load.calls[c]
    /\ num' = [num EXCEPT ![c] = @ + 1]
    /\ IF part_closed
       THEN out' = refused /\ UNCHANGED pc
       ELSE Goto(c, "lock") /\ UNCHANGED out
    /\ UNCHANGED <<lockVars, m_list, m_suspend_state, ready, cur, then, walk,
                   m_num_wait_task, load, buf, m_close_state>>

\* Mutant of send_value: no test whether the channel has been closed meanwhile.
send_value_untested(c) ==
    /\ pc[c] = "body" /\ c \in Producer
    /\ buf' = push(buf, <<c, num[c]>>, capacity)
    /\ Goto(c, "notify")
    /\ UNCHANGED <<lockVars, m_list, m_suspend_state, ready, cur, then, walk,
                   m_num_wait_task, load, m_close_state, num, out>>

\* With the mutex, after the wait: refuse, or store the value.
send_value(c) ==
    /\ pc[c] = "body" /\ c \in Producer
    /\ IF part_closed
       THEN /\ out' = refused
            /\ Goto(c, "unlock")
            /\ UNCHANGED buf
       ELSE /\ buf' = push(buf, <<c, num[c]>>, capacity)
            /\ Goto(c, "notify")
            /\ UNCHANGED out
    /\ UNCHANGED <<lockVars, m_list, m_suspend_state, ready, cur, then, walk,
                   m_num_wait_task, load, m_close_state, num>>

recv(c) ==
    /\ pc[c] = "start" /\ c \in Consumer
    /\ IF m_close_state <= complete_close
       THEN out' = nullopt /\ Goto(c, "finished")
       ELSE Goto(c, "lock") /\ UNCHANGED out
    /\ UNCHANGED <<lockVars, m_list, m_suspend_state, ready, cur, then, walk,
                   m_num_wait_task, load, buf, m_close_state, num>>

\* With the mutex, after the wait: the end, or a value.
recv_value(c) ==
    /\ pc[c] = "body" /\ c \in Consumer
    /\ IF empty(buf, capacity) /\ part_closed
       THEN /\ m_close_state' = complete_close
            /\ out' = nullopt
            /\ then' = [then EXCEPT ![c] = "finished"]
            /\ Goto(c, "unlock")
            /\ UNCHANGED buf
       ELSE /\ out' = front(buf, capacity)
            /\ buf' = pop(buf, capacity)
            /\ Goto(c, "notify")
            /\ UNCHANGED <<m_close_state, then>>
    /\ UNCHANGED <<lockVars, m_list, m_suspend_state, ready, cur, walk,
                   m_num_wait_task, load, num>>

close(c) ==
    /\ pc[c] = "start" /\ c \in Closer
    /\ Patient => \A p \in Producer : pc[p] = "start" /\ num[p] = load.calls[p]
    /\ m_close_state' = part_close
    /\ Goto(c, "notify")
    /\ UNCHANGED <<lockVars, m_list, m_suspend_state, ready, cur, then, walk,
                   m_num_wait_task, load, buf, num, out>>

\* Mutant of notify: the caller's own side is notified.
notify_own(c) ==
    /\ pc[c] = "notify" /\ c \notin Closer
    /\ notify_one(c, CvOf(c))
    /\ UNCHANGED chanVars

\* A value was stored or taken: notify_one() the other side.
notify(c) ==
    /\ pc[c] = "notify" /\ c \notin Closer
    /\ notify_one(c, IF c \in Producer THEN m_consumer_cv ELSE m_producer_cv)
    /\ UNCHANGED chanVars

\* close() notifies all producers, then all consumers.
close_notify(c) ==
    /\ pc[c] = "notify" /\ c \in Closer
    /\ notify_all(c, IF num[c] = 0 THEN m_producer_cv ELSE m_consumer_cv)
    /\ num' = [num EXCEPT ![c] = @ + 1]
    /\ UNCHANGED <<load, buf, m_close_state, out>>

\* notify_one() or notify_all() returns; lock_guard unlocks at the end.
notified(c) ==
    /\ pc[c] = "wake_up"
    /\ walk[c] = <<>>
    /\ Goto(c, CASE c \notin Closer -> "unlock"
                 [] num[c] = 1      -> "notify"
                 [] OTHER           -> "finished")
    /\ UNCHANGED <<lockVars, m_list, m_suspend_state, ready, cur, then, walk,
                   m_num_wait_task, chanVars>>

\* The steps of the mutex and the condition variables.
wait(c) ==
    /\ \/ lock_guard(c) \/ unlock(c) \/ await_resume(c, "body")
       \/ register_lock(c, cond(c), "body") \/ register_cv(c, CvOf(cur[c]))
       \/ resume(c, cond(cur[c])) \/ wake_up(c)
    /\ UNCHANGED chanVars

step(c) == \/ send(c) \/ send_value(c) \/ recv(c) \/ recv_value(c)
           \/ close(c) \/ notify(c) \/ close_notify(c) \/ notified(c) \/ wait(c)

Finished(c) ==
    \/ pc[c] = "finished"
    \/ c \in Producer /\ pc[c] = "start" /\ num[c] = load.calls[c]

\* No coroutine can run any more.
Quiescent == \A c \in Coro : Finished(c) \/ (pc[c] = "suspended" /\ c \notin ready)

Next == (Quiescent /\ UNCHANGED vars) \/ \E c \in Coro : step(c)

Spec == Init /\ [][Next]_vars

\* Contexts run the coroutines that were submitted to them.
FairSpec == Spec /\ \A c \in Coro : WF_vars(step(c))
-----------------------------------------------------------------------------
(* Properties.                                                             *)

\* Types; the indices of the three buffers stay in range across the wrap-around.
ChannelTypeOK ==
    /\ owner \in Coro \cup {NoOwner}
    /\ queue \in Seq(Coro)
    /\ m_list \in [Cv -> Seq(Coro)]
    /\ m_suspend_state \in [Coro -> BOOLEAN]
    /\ ready \subseteq Coro
    /\ cur \in [Coro -> Coro \cup {NoOwner}]
    /\ walk \in [Coro -> Seq(Coro)]
    /\ m_num_wait_task \in [Coro -> {0, 1}]
    /\ DOMAIN buf.m_array = 0..(Slots(capacity) - 1)
    /\ {buf.m_head, buf.m_tail} \subseteq
            0..((IF HasSingleBit(capacity) THEN SizeMax ELSE Slots(capacity)) - 1)
    /\ buf.m_num \in 0..Slots(capacity)
    /\ m_close_state \in {complete_close, part_close, no_close}

\* Whoever evaluates a predicate, touches the buffer or unlocks has the mutex, on
\* its own account or on that of the awaiter it resumes; so at most one does.
Holds(c) == pc[c] \in {"wait", "body", "notify", "register_cv", "unlock", "resume"}
                /\ ~(c \in Closer /\ pc[c] = "notify")

BufferIsGuarded ==
    /\ \A c, d \in Coro : Holds(c) /\ Holds(d) => c = d
    /\ \A c \in Coro : Holds(c) => owner \in {c, cur[c]}

\* A coroutine that comes back from the wait finds its predicate true.
PredicateHolds == \A c \in Coro : pc[c] = "body" => cond(c)

\* A context counts its coroutine as waiting exactly while it has an awaiter that
\* is suspended, or about to be, however often the predicate has failed.
CountsSuspended ==
    \A c \in Coro : m_num_wait_task[c] =
        IF pc[c] = "suspended" \/ m_suspend_state[c] THEN 1 ELSE 0

\* Nobody waits for what is there: when nothing can run any more, a suspended
\* producer finds the channel full, a suspended consumer finds it empty.
NobodyWaitsInVain ==
    Quiescent => \A c \in Coro : pc[c] = "suspended" =>
        IF c \in Producer THEN full(buf, capacity) ELSE empty(buf, capacity)

\* Every send() returns, whether the channel is closed or not.
SendsReturn == <>[](\A p \in Producer : Finished(p))

\* The n-th call of p sends <<p, n>>.
Values == UNION {UNION {{p} \X (1..l.calls[p]) : p \in Producer} : l \in Loads}

\* The channel is a bounded FIFO queue: nothing is lost, duplicated, reordered or
\* accepted after close(), and recv() only says closed when it is drained.
Fifo == INSTANCE FifoChannel WITH
            Value <- Values,
            bound <- Slots(capacity),
            buffer <- Contents(buf, capacity),
            closed <- part_closed

ImplementsFifoChannel == Fifo!ChannelSafety

\* After close() every recv() returns: the consumers of channel_test.cpp end and
\* loop() returns (lines 214 to 216).
ConsumersEnd ==
    Quiescent /\ (\A c \in Closer : Finished(c)) => \A c \in Consumer : Finished(c)
=============================================================================
