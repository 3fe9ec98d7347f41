---------------------------- MODULE AwaiterList ----------------------------
(***************************************************************************)
(* What event and wait_group have in common: waiting coroutines push their *)
(* awaiters on a lock-free stack, and a notifier that has detached the     *)
(* stack walks it, submitting each awaiter's coroutine to its context and  *)
(* then reading the awaiter's m_next.                                      *)
(*                                                                         *)
(* An awaiter lives in the frame of its coroutine and dies when the        *)
(* coroutine goes on after await_resume.  m_next may be read after that:   *)
(* the value read is then the old one, or zero if the memory has been used *)
(* again in the meantime.                                                  *)
(*                                                                         *)
(* Coroutines of one context take turns: one starts, or goes on, when no   *)
(* other coroutine of its context is running.                              *)
(***************************************************************************)
EXTENDS Integers, FiniteSets, Functions

CONSTANTS Waiter,     \* coroutines that wait
          Notifier,   \* coroutines that set the event or call done()
          Context, home,
          nullptr

Coro == Waiter \cup Notifier

ASSUME AwaiterListAssumption ==
    /\ IsFiniteSet(Coro)
    /\ Waiter \cap Notifier = {}
    /\ nullptr \notin Coro
    /\ home \in [Coro -> Context]

VARIABLES m_state,          \* top of the stack, or a special value
          m_next,           \* awaiter::m_next
          old_value,        \* local of the push loop
          cur,              \* a notifier's position in the list it walks
          m_count,          \* the counter of a latch or a wait_group
          pc, m_num_wait_task,
          astray            \* history variable: a walk has read something else
                            \* than m_next from an awaiter that had died

listVars == <<m_state, m_next, old_value, cur, pc, m_num_wait_task, astray>>

Goto(c, label) == pc' = [pc EXCEPT ![c] = label]

\* Coroutines that are not running: not started, waiting, queued or finished.
Parked == {"start", "suspended", "ready", "finished"}

\* c's context can run c now.
HasContext(c) == \A d \in Coro \ {c} : home[d] = home[c] => pc[d] \in Parked

register_wait(w) ==
    m_num_wait_task' = [m_num_wait_task EXCEPT ![home[w]] = @ + 1]

unregister_wait(w) ==
    m_num_wait_task' = [m_num_wait_task EXCEPT ![home[w]] = @ - 1]
-----------------------------------------------------------------------------
ListInit(top, first) ==
    /\ m_state = top
    /\ m_next = [w \in Waiter |-> nullptr]
    /\ old_value = [w \in Waiter |-> nullptr]
    /\ cur = [n \in Notifier |-> nullptr]
    /\ pc = [c \in Coro |-> IF c \in Notifier THEN first ELSE "start"]
    /\ m_num_wait_task = [x \in Context |-> 0]
    /\ astray = FALSE

\* Mutant of push: a plain store in place of the compare-exchange.
push_store(w) ==
    /\ pc[w] = "cas"
    /\ m_state' = w
    /\ Goto(w, "suspended")
    /\ UNCHANGED <<m_next, old_value, cur, m_num_wait_task>>

\* The CAS of the push loop succeeds: the coroutine is suspended.
push(w) ==
    /\ pc[w] = "cas"
    /\ m_state = old_value[w]
    /\ m_state' = w
    /\ Goto(w, "suspended")
    /\ UNCHANGED <<m_next, old_value, cur, m_num_wait_task>>

\* It fails, because m_state has changed or spuriously (it is a weak CAS).
push_retry(w) ==
    /\ pc[w] = "cas"
    /\ Goto(w, "load")
    /\ UNCHANGED <<m_state, m_next, old_value, cur, m_num_wait_task>>

\* Mutant of await_resume: the wait is not unregistered.
await_resume_registered(w) ==
    /\ pc[w] = "ready" /\ HasContext(w)
    /\ Goto(w, "finished")
    /\ UNCHANGED <<m_state, m_next, old_value, cur, m_num_wait_task>>

\* The context runs the resumed coroutine, which unregisters and goes on.
await_resume(w) ==
    /\ pc[w] = "ready" /\ HasContext(w)
    /\ unregister_wait(w)
    /\ Goto(w, "finished")
    /\ UNCHANGED <<m_state, m_next, old_value, cur>>

\* The notifier detaches the whole stack, leaving top in m_state.
detach(n, top) ==
    /\ m_state' = top
    /\ cur' = [cur EXCEPT ![n] = m_state]
    /\ Goto(n, IF m_state \in Waiter THEN "submit" ELSE "finished")
    /\ UNCHANGED <<m_next, old_value, m_num_wait_task>>

\* It puts the awaiter's coroutine in the queue of its context ...
submit(n) ==
    /\ pc[n] = "submit"
    /\ pc' = [pc EXCEPT ![n] = "next", ![cur[n]] = "ready"]
    /\ UNCHANGED <<m_state, m_next, old_value, cur, m_num_wait_task>>

\* The values that reading m_next of w can return.
ReadNext(w) == IF pc[w] = "finished" THEN {m_next[w], nullptr} ELSE {m_next[w]}

\* Mutant of advance: the walk does not move on.
advance_stuck(n) ==
    /\ pc[n] = "next"
    /\ Goto(n, "submit")
    /\ UNCHANGED <<m_state, m_next, old_value, cur, m_num_wait_task,
                   astray>>

\* ... and only then reads where the list goes on.
advance(n) ==
    /\ pc[n] = "next"
    /\ \E p \in ReadNext(cur[n]) :
        /\ cur' = [cur EXCEPT ![n] = p]
        /\ Goto(n, IF p = nullptr THEN "finished" ELSE "submit")
        /\ astray' = (astray \/ p # m_next[cur[n]])
    /\ UNCHANGED <<m_state, m_next, old_value, m_num_wait_task>>

listStep(c) ==
    \/ c \in Waiter /\ (push(c) \/ push_retry(c) \/ await_resume(c))
                    /\ UNCHANGED astray
    \/ c \in Notifier /\ submit(c) /\ UNCHANGED astray
    \/ c \in Notifier /\ advance(c)

\* No coroutine can run any more.
Quiescent == \A c \in Coro : pc[c] \in {"suspended", "finished"}
-----------------------------------------------------------------------------
(* Properties that event, latch and wait_group share.                      *)

\* m_num_wait_task counts the coroutines of a context between await_ready (or
\* await_suspend) and await_resume, so that the context stays for them.
WaitTaskCount ==
    \A x \in Context : m_num_wait_task[x] =
        Cardinality({w \in Waiter : home[w] = x /\
            pc[w] \in {"load", "load_state", "cas", "suspended", "ready"}})

\* A notifier only submits suspended coroutines: none is resumed twice, none
\* while it still runs.
SubmitsSuspended ==
    \A n \in Notifier : pc[n] = "submit" =>
        cur[n] \in Waiter /\ pc[cur[n]] = "suspended"

AllNotified == \A n \in Notifier : pc[n] = "finished"
NobodySuspended == \A w \in Waiter : pc[w] # "suspended"

\* When every notifier has returned nobody is left suspended (in event_test.cpp
\* line 102 and wait_group_test.cpp line 86 every waiter passes).
AllReleased == AllNotified => NobodySuspended
=============================================================================
