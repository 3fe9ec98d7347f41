----------------------------- MODULE WaitGroup -----------------------------
(***************************************************************************)
(* coro::wait_group (wait_group.cpp, wait_group.hpp), used for one round   *)
(* of work or for two.  Each notifier is a piece of work that calls done() *)
(* when it is finished.  The counter starts with the pieces of the first   *)
(* round; a coroutine that has passed wait() may start the second with     *)
(* add() and with new workers and waiters, as a Go program would.          *)
(***************************************************************************)
EXTENDS AwaiterList

CONSTANT Later        \* the workers and waiters of the second round

ASSUME WaitGroupAssumption == Later \subseteq Coro

VARIABLES again,      \* the second round has begun
          overtaken   \* history variable: it has begun while a done() of the
                      \* first was between its fetch_sub and its exchange

countVars == <<m_count, again, overtaken>>
wgVars == <<listVars, countVars>>

WgInit ==
    /\ ListInit(nullptr, "start")
    /\ m_count = Cardinality(Notifier \ Later)
    /\ again = FALSE /\ overtaken = FALSE

\* c is about to run for the first time.
Starts(c) == pc[c] = "start" /\ HasContext(c) /\ (c \in Later => again)

\* Coroutine w has passed wait(), and starts the second round.
add(w) ==
    /\ pc[w] = "finished" /\ HasContext(w) /\ Later # {} /\ ~again
    /\ m_count' = m_count + Cardinality(Notifier \cap Later)
    /\ again' = TRUE
    /\ overtaken' = \E n \in Notifier : pc[n] = "exchange"
    /\ UNCHANGED <<m_state, m_next, old_value, cur, pc, m_num_wait_task>>

\* await_suspend registers, then its loop begins with a test of the counter.
await_suspend(w) ==
    /\ Starts(w)
    /\ register_wait(w)
    /\ Goto(w, "load")
    /\ UNCHANGED <<m_state, m_next, old_value, cur, countVars>>

\* Zero: await_suspend returns false and await_resume unregisters.
load_count(w) ==
    /\ pc[w] = "load"
    /\ IF m_count = 0
       THEN Goto(w, "finished") /\ unregister_wait(w)
       ELSE Goto(w, "load_state") /\ UNCHANGED m_num_wait_task
    /\ UNCHANGED <<m_state, m_next, old_value, cur, countVars>>

\* Mutant of load_state: the awaiter is not linked to the stack.
load_state_unlinked(w) ==
    /\ pc[w] = "load_state"
    /\ old_value' = [old_value EXCEPT ![w] = m_state]
    /\ Goto(w, "cas")
    /\ UNCHANGED <<m_state, m_next, cur, m_num_wait_task, countVars>>

load_state(w) ==
    /\ pc[w] = "load_state"
    /\ old_value' = [old_value EXCEPT ![w] = m_state]
    /\ m_next' = [m_next EXCEPT ![w] = m_state]
    /\ Goto(w, "cas")
    /\ UNCHANGED <<m_state, cur, m_num_wait_task, countVars>>

\* Mutant of last_done: the last but one call takes the waiters.
last_done_early(count) == count <= 2

\* The call of done() that brings the counter to zero takes the waiters.
last_done(count) == count = 1

done_fetch_sub(n) ==
    /\ Starts(n)
    /\ m_count' = m_count - 1
    /\ Goto(n, IF last_done(m_count) THEN "exchange" ELSE "finished")
    /\ UNCHANGED <<m_state, m_next, old_value, cur, m_num_wait_task, again,
                   overtaken>>

done_exchange(n) ==
    /\ pc[n] = "exchange"
    /\ detach(n, nullptr)
    /\ UNCHANGED countVars

wgStep(c) ==
    \/ c \in Waiter /\ (await_suspend(c) \/ load_count(c) \/ load_state(c))
                    /\ UNCHANGED astray
    \/ c \in Waiter /\ add(c) /\ UNCHANGED astray
    \/ c \in Notifier /\ (done_fetch_sub(c) \/ done_exchange(c))
                      /\ UNCHANGED astray
    \/ listStep(c) /\ UNCHANGED countVars

\* Nothing can run any more; a second round may never begin.
WgQuiescent ==
    /\ \A c \in Coro : pc[c] \in {"suspended", "finished"}
                       \/ (c \in Later /\ ~again)
    /\ Later # {} /\ ~again => \A w \in Waiter : pc[w] # "finished"
    /\ UNCHANGED wgVars

WgNext == WgQuiescent \/ \E c \in Coro : wgStep(c)

WgSpec == WgInit /\ [][WgNext]_wgVars

\* Contexts run the coroutines that are ready, and a weak CAS that keeps finding
\* the expected value does not fail for ever.
WgFairSpec ==
    /\ WgSpec
    /\ \A c \in Coro : WF_wgVars(wgStep(c))
    /\ \A w \in Waiter : SF_wgVars(push(w) /\ UNCHANGED <<countVars, astray>>)
-----------------------------------------------------------------------------
\* Nobody passes wait() before every piece of work of its round has called
\* done(): the second round is mixed up with the first only if it begins while
\* the last done() of the first has still to take the waiters.
PassesOnlyWhenDone ==
    \A w \in Waiter : pc[w] \in {"ready", "finished"} =>
        \/ \A n \in Notifier : pc[n] = "start" => n \in Later /\ w \notin Later
        \/ w \in Later /\ overtaken

\* A waiter whose awaiter is on the list before the counter reaches zero is
\* released, in either round, if the walk is not led astray.
QueuedInTimeIsReleased ==
    \A w \in Waiter : pc[w] = "suspended" /\ m_count > 0
                        ~> astray \/ pc[w] = "finished"
=============================================================================
