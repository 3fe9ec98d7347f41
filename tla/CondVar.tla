------------------------------ MODULE CondVar ------------------------------
(***************************************************************************)
(* coro::condition_variable (condition_variable.cpp, condition_variable    *)
(* .hpp), on top of the lock that Mutex is proved to implement.            *)
(*                                                                         *)
(* A cv_awaiter is a mutex_awaiter.  It waits in the list of a condition   *)
(* variable until a notifier puts it in the queue of the mutex, or takes a *)
(* free mutex on its behalf.  Whoever hands it the mutex, by unlock() or   *)
(* by that, runs its resume(): the predicate is evaluated again, and if it *)
(* does not hold the awaiter goes back into the list and the mutex on to   *)
(* the next.  These are tail calls, so a coroutine that is doing it only   *)
(* needs to know the awaiter at hand and where it returns to in the end.   *)
(*                                                                         *)
(* The list is guarded by a spinlock: each access to it is one step.  The  *)
(* value of a predicate is a parameter; its evaluation is a step of its    *)
(* own.  Every coroutine has a context to itself, the most concurrent      *)
(* case; a coroutine that is submitted to its context while it runs goes   *)
(* on when it has suspended.                                               *)
(***************************************************************************)
EXTENDS FifoLock, Integers

CONSTANT Cv      \* condition variables

VARIABLES m_list,           \* the awaiters of each condition variable
          m_suspend_state,  \* cv_awaiter::m_suspend_state; TRUE also says that
                            \* c's awaiter is a cv_awaiter that has waited
          ready,            \* coroutines submitted to their context
          pc,
          cur, then,        \* the awaiter at hand and the label to return to
          walk,             \* the awaiters a notifier still has to wake
          m_num_wait_task   \* of each coroutine's context

cvVars == <<lockVars, m_list, m_suspend_state, ready, cur, then, pc, walk,
            m_num_wait_task>>

\* active are the coroutines that take part.
CvInit(active) ==
    /\ FifoInit
    /\ m_list = [v \in Cv |-> <<>>]
    /\ m_suspend_state = [c \in Coro |-> FALSE]
    /\ ready = {}
    /\ cur = [c \in Coro |-> NoOwner]
    /\ then = [c \in Coro |-> "start"]
    /\ pc = [c \in Coro |-> IF c \in active THEN "start" ELSE "finished"]
    /\ walk = [c \in Coro |-> <<>>]
    /\ m_num_wait_task = [c \in Coro |-> 0]

Goto(c, label) == pc' = [pc EXCEPT ![c] = label]

Call(c, awaiter, label) == cur' = [cur EXCEPT ![c] = awaiter] /\ Goto(c, label)
Return(c) == Call(c, NoOwner, then[c]) /\ then' = [then EXCEPT ![c] = "start"]

register_wait(c, n) == m_num_wait_task' = [m_num_wait_task EXCEPT ![c] = @ + n]
-----------------------------------------------------------------------------
(* The mutex, as coroutine c uses it.                                      *)

\* co_await lock_guard(): await_resume follows at once if the mutex was free.
lock_guard(c) ==
    /\ pc[c] = "lock"
    /\ \/ Acquire(c) /\ Goto(c, "wait") /\ UNCHANGED m_num_wait_task
       \/ Enqueue(c) /\ Goto(c, "suspended") /\ register_wait(c, 1)
    /\ UNCHANGED <<m_list, m_suspend_state, ready, cur, then, walk>>

\* unlock() hands the mutex on and calls the virtual resume() of the awaiter;
\* mutex_awaiter::resume submits its coroutine.
unlock(c) ==
    /\ pc[c] = "unlock"
    /\ Release
    /\ IF queue # <<>> /\ m_suspend_state[Head(queue)]
       THEN Call(c, Head(queue), "resume") /\ UNCHANGED <<ready, then>>
       ELSE /\ ready' = IF queue = <<>> THEN ready ELSE ready \cup {Head(queue)}
            /\ Return(c)
    /\ UNCHANGED <<m_list, m_suspend_state, walk, m_num_wait_task>>

\* A coroutine goes on: after lock_guard() with the wait, after that with label.
await_resume(c, label) ==
    /\ pc[c] = "suspended"
    /\ c \in ready
    /\ ready' = ready \ {c}
    /\ register_wait(c, -1)
    /\ m_suspend_state' = [m_suspend_state EXCEPT ![c] = FALSE]
    /\ Goto(c, IF m_suspend_state[c] THEN label ELSE "wait")
    /\ UNCHANGED <<lockVars, m_list, cur, then, walk>>
-----------------------------------------------------------------------------
(* cv_awaiter.                                                             *)

\* register_lock: no suspension if the predicate holds.
register_lock(c, holds, label) ==
    /\ pc[c] = "wait"
    /\ IF holds
       THEN /\ Goto(c, label)
            /\ UNCHANGED <<m_suspend_state, cur, then, m_num_wait_task>>
       ELSE /\ register_wait(c, 1)
            /\ m_suspend_state' = [m_suspend_state EXCEPT ![c] = TRUE]
            /\ then' = [then EXCEPT ![c] = "suspended"]
            /\ Call(c, c, "register_cv")
    /\ UNCHANGED <<lockVars, m_list, ready, walk>>

\* register_cv appends to the list of condition variable v; unlock() follows.
register_cv(c, v) ==
    /\ pc[c] = "register_cv"
    /\ m_list' = [m_list EXCEPT ![v] = Append(@, cur[c])]
    /\ Goto(c, "unlock")
    /\ UNCHANGED <<lockVars, m_suspend_state, ready, cur, then, walk,
                   m_num_wait_task>>

\* Mutant of resume: the predicate is not evaluated again.
resume_unchecked(c, holds) ==
    /\ pc[c] = "resume"
    /\ ready' = ready \cup {cur[c]}
    /\ Return(c)
    /\ UNCHANGED <<lockVars, m_list, m_suspend_state, walk, m_num_wait_task>>

\* Mutant of resume: the wait is registered again.
resume_registers(c, holds) ==
    /\ pc[c] = "resume"
    /\ ready' = IF holds THEN ready \cup {cur[c]} ELSE ready
    /\ IF holds
       THEN Return(c) /\ UNCHANGED m_num_wait_task
       ELSE Goto(c, "register_cv") /\ UNCHANGED <<cur, then>>
                                   /\ register_wait(cur[c], 1)
    /\ UNCHANGED <<lockVars, m_list, m_suspend_state, walk>>

\* resume: the wait is registered already when the predicate does not hold.
resume(c, holds) ==
    /\ pc[c] = "resume"
    /\ ready' = IF holds THEN ready \cup {cur[c]} ELSE ready
    /\ IF holds
       THEN Return(c)
       ELSE Goto(c, "register_cv") /\ UNCHANGED <<cur, then>>
    /\ UNCHANGED <<lockVars, m_list, m_suspend_state, walk, m_num_wait_task>>

\* Mutant of wake_up: the awaiter is resumed although it is queued.
wake_up_resumes(c) ==
    /\ pc[c] = "wake_up"
    /\ walk[c] # <<>>
    /\ walk' = [walk EXCEPT ![c] = Tail(@)]
    /\ Enqueue(Head(walk[c])) \/ Acquire(Head(walk[c]))
    /\ then' = [then EXCEPT ![c] = "wake_up"]
    /\ Call(c, Head(walk[c]), "resume")
    /\ UNCHANGED <<m_list, m_suspend_state, ready, m_num_wait_task>>

\* wake_up the next awaiter of a walk: it queues for the mutex, or it has got it
\* and is resumed.
wake_up(c) ==
    /\ pc[c] = "wake_up"
    /\ walk[c] # <<>>
    /\ walk' = [walk EXCEPT ![c] = Tail(@)]
    /\ \/ /\ Enqueue(Head(walk[c]))
          /\ UNCHANGED <<cur, then, pc>>
       \/ /\ Acquire(Head(walk[c]))
          /\ then' = [then EXCEPT ![c] = "wake_up"]
          /\ Call(c, Head(walk[c]), "resume")
    /\ UNCHANGED <<m_list, m_suspend_state, ready, m_num_wait_task>>
-----------------------------------------------------------------------------
\* Mutant of notify_one: the rest of the list is dropped.
notify_one_drops(c, v) ==
    /\ \/ m_list[v] = <<>> /\ UNCHANGED walk
       \/ m_list[v] # <<>> /\ walk' = [walk EXCEPT ![c] = <<Head(m_list[v])>>]
    /\ m_list' = [m_list EXCEPT ![v] = <<>>]
    /\ Goto(c, "wake_up")
    /\ UNCHANGED <<lockVars, m_suspend_state, ready, cur, then, m_num_wait_task>>

\* The first awaiter of the list, if there is one, is to be woken.
notify_one(c, v) ==
    /\ \/ m_list[v] = <<>> /\ UNCHANGED <<walk, m_list>>
       \/ /\ m_list[v] # <<>>
          /\ walk' = [walk EXCEPT ![c] = <<Head(m_list[v])>>]
          /\ m_list' = [m_list EXCEPT ![v] = Tail(@)]
    /\ Goto(c, "wake_up")
    /\ UNCHANGED <<lockVars, m_suspend_state, ready, cur, then, m_num_wait_task>>

\* All of them are.
notify_all(c, v) ==
    /\ walk' = [walk EXCEPT ![c] = m_list[v]]
    /\ m_list' = [m_list EXCEPT ![v] = <<>>]
    /\ Goto(c, "wake_up")
    /\ UNCHANGED <<lockVars, m_suspend_state, ready, cur, then, m_num_wait_task>>
=============================================================================
