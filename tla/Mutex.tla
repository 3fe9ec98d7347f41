------------------------------- MODULE Mutex -------------------------------
(***************************************************************************)
(* coro::mutex (src/src/comp/mutex.cpp, src/include/coro/comp/mutex.hpp).  *)
(*                                                                         *)
(* m_state is one atomic word: nolocked (1), locked_no_waiting (0, the     *)
(* null pointer) or the address of the awaiter that was pushed last.  The  *)
(* awaiters form a stack through m_next; unlock() detaches the stack,      *)
(* reverses it in place and serves the reversed list, m_resume_list_head,  *)
(* one awaiter per unlock().  An awaiter lives in the frame of the         *)
(* coroutine that awaits it, so it is identified with that coroutine.      *)
(*                                                                         *)
(* Every atomic access is a step of its own; plain accesses are merged     *)
(* with the atomic access they follow.  Coroutines are interleaved as if   *)
(* each had a thread: the contexts' serialisation only removes behaviours. *)
(***************************************************************************)
EXTENDS Integers, Sequences, FiniteSets

CONSTANTS Coro,      \* coroutines
          Context,   \* execution contexts
          home,      \* the context a coroutine runs on (m_ctx)
          nullptr,
          nolocked

ASSUME MutexAssumption ==
    /\ IsFiniteSet(Coro)
    /\ nullptr \notin Coro
    /\ nolocked \notin Coro
    /\ nullptr # nolocked
    /\ home \in [Coro -> Context]

locked_no_waiting == nullptr

VARIABLES
    m_state,             \* mutex::m_state
    m_resume_list_head,  \* mutex::m_resume_list_head
    m_next,              \* mutex_awaiter::m_next
    pc,                  \* where each coroutine is
    state,               \* local `state` of register_lock
    awaiter, to_resume,  \* locals of unlock
    m_num_wait_task,     \* context::m_num_wait_task
    order                \* history variable: awaiters in the order they
                         \* were pushed and not yet granted the lock

listVars == <<m_resume_list_head, m_next>>
unlockVars == <<awaiter, to_resume>>
vars == <<m_state, listVars, pc, state, unlockVars, m_num_wait_task, order>>

Init ==
    /\ m_state = nolocked
    /\ m_resume_list_head = nullptr
    /\ m_next = [c \in Coro |-> nullptr]
    /\ pc = [c \in Coro |-> "idle"]
    /\ state = [c \in Coro |-> nullptr]
    /\ awaiter = [c \in Coro |-> nullptr]
    /\ to_resume = [c \in Coro |-> nullptr]
    /\ m_num_wait_task = [x \in Context |-> 0]
    /\ order = <<>>

Goto(c, label) == pc' = [pc EXCEPT ![c] = label]

register_wait(c) ==
    m_num_wait_task' = [m_num_wait_task EXCEPT ![home[c]] = @ + 1]

unregister_wait(c) ==
    m_num_wait_task' = [m_num_wait_task EXCEPT ![home[c]] = @ - 1]
-----------------------------------------------------------------------------
(* lock(), lock_guard(): await_ready is false, so await_suspend runs.      *)

\* Mutant of await_suspend: the wait is not registered.
await_suspend_unregistered(c) ==
    /\ pc[c] = "idle"
    /\ Goto(c, "load")
    /\ UNCHANGED <<m_state, listVars, state, unlockVars, m_num_wait_task, order>>

await_suspend(c) ==
    /\ pc[c] = "idle"
    /\ register_wait(c)
    /\ Goto(c, "load")
    /\ UNCHANGED <<m_state, listVars, state, unlockVars, order>>

\* m_next is nullptr when the lock looks free and when it looks held without
\* waiters: locked_no_waiting is the null pointer.
register_lock_load(c) ==
    /\ pc[c] = "load"
    /\ state' = [state EXCEPT ![c] = m_state]
    /\ m_next' = [m_next EXCEPT ![c] =
                    IF m_state = nolocked THEN nullptr ELSE m_state]
    /\ Goto(c, "cas")
    /\ UNCHANGED <<m_state, m_resume_list_head, unlockVars, m_num_wait_task,
                   order>>

\* Mutant of register_lock_acquire: a plain store in place of the CAS.
register_lock_acquire_store(c) ==
    /\ pc[c] = "cas"
    /\ state[c] = nolocked
    /\ m_state' = locked_no_waiting
    /\ unregister_wait(c)
    /\ Goto(c, "locked")
    /\ UNCHANGED <<listVars, state, unlockVars, order>>

\* The first CAS of register_lock succeeds: await_suspend returns false and
\* the coroutine goes on in await_resume at once.
register_lock_acquire(c) ==
    /\ pc[c] = "cas"
    /\ state[c] = nolocked
    /\ m_state = state[c]
    /\ m_state' = locked_no_waiting
    /\ unregister_wait(c)
    /\ Goto(c, "locked")
    /\ UNCHANGED <<listVars, state, unlockVars, order>>

\* Mutant of register_lock_push: a plain store in place of the CAS.
register_lock_push_store(c) ==
    /\ pc[c] = "cas"
    /\ state[c] # nolocked
    /\ m_state' = c
    /\ order' = Append(order, c)
    /\ Goto(c, "suspended")
    /\ UNCHANGED <<listVars, state, unlockVars, m_num_wait_task>>

\* The second CAS succeeds: the awaiter is on the stack and suspended.
register_lock_push(c) ==
    /\ pc[c] = "cas"
    /\ state[c] # nolocked
    /\ m_state = state[c]
    /\ m_state' = c
    /\ order' = Append(order, c)
    /\ Goto(c, "suspended")
    /\ UNCHANGED <<listVars, state, unlockVars, m_num_wait_task>>

\* Either CAS fails, on a changed m_state or spuriously (both are _weak).
register_lock_retry(c) ==
    /\ pc[c] = "cas"
    /\ Goto(c, "load")
    /\ UNCHANGED <<m_state, listVars, state, unlockVars, m_num_wait_task,
                   order>>

\* The context runs the coroutine that resume() put in its task queue.
await_resume(c) ==
    /\ pc[c] = "ready"
    /\ unregister_wait(c)
    /\ Goto(c, "locked")
    /\ UNCHANGED <<m_state, listVars, state, unlockVars, order>>

\* A successful try_lock(); a failed one changes nothing.
try_lock(c) ==
    /\ pc[c] = "idle"
    /\ m_state = nolocked
    /\ m_state' = locked_no_waiting
    /\ Goto(c, "locked")
    /\ UNCHANGED <<listVars, state, unlockVars, m_num_wait_task, order>>
-----------------------------------------------------------------------------
(* unlock(), called by the owner or by the destructor of its lock_guard.   *)

\* The resume list still has an awaiter to serve.
unlock_next(c) ==
    /\ pc[c] = "locked"
    /\ m_resume_list_head # nullptr
    /\ to_resume' = [to_resume EXCEPT ![c] = m_resume_list_head]
    /\ Goto(c, "resume")
    /\ UNCHANGED <<m_state, listVars, state, awaiter, m_num_wait_task, order>>

\* Mutant of unlock_free: a plain store in place of the CAS.
unlock_free_store(c) ==
    /\ pc[c] = "locked"
    /\ m_resume_list_head = nullptr
    /\ m_state' = nolocked
    /\ Goto(c, "idle")
    /\ UNCHANGED <<listVars, state, unlockVars, m_num_wait_task, order>>

\* The CAS of unlock succeeds: no waiters, the lock is free.
unlock_free(c) ==
    /\ pc[c] = "locked"
    /\ m_resume_list_head = nullptr
    /\ m_state = locked_no_waiting
    /\ m_state' = nolocked
    /\ Goto(c, "idle")
    /\ UNCHANGED <<listVars, state, unlockVars, m_num_wait_task, order>>

\* The CAS of unlock fails.
unlock_contended(c) ==
    /\ pc[c] = "locked"
    /\ m_resume_list_head = nullptr
    /\ m_state # locked_no_waiting
    /\ to_resume' = [to_resume EXCEPT ![c] = nullptr]
    /\ Goto(c, "exchange")
    /\ UNCHANGED <<m_state, listVars, state, awaiter, m_num_wait_task, order>>

\* Mutant of unlock_exchange: a load in place of the exchange.
unlock_exchange_load(c) ==
    /\ pc[c] = "exchange"
    /\ awaiter' = [awaiter EXCEPT ![c] = m_state]
    /\ Goto(c, "reverse")
    /\ UNCHANGED <<m_state, listVars, state, to_resume, m_num_wait_task, order>>

\* Mutant of unlock_exchange: the stack is served without being reversed.
unlock_exchange_lifo(c) ==
    /\ pc[c] = "exchange"
    /\ to_resume' = [to_resume EXCEPT ![c] = m_state]
    /\ m_state' = locked_no_waiting
    /\ Goto(c, "resume")
    /\ UNCHANGED <<listVars, state, awaiter, m_num_wait_task, order>>

unlock_exchange(c) ==
    /\ pc[c] = "exchange"
    /\ awaiter' = [awaiter EXCEPT ![c] = m_state]
    /\ m_state' = locked_no_waiting
    /\ Goto(c, "reverse")
    /\ UNCHANGED <<listVars, state, to_resume, m_num_wait_task, order>>

\* One turn of the do-while loop that reverses the detached stack.
unlock_reverse(c) ==
    /\ pc[c] = "reverse"
    /\ LET a == awaiter[c]
       IN  /\ m_next' = [m_next EXCEPT ![a] = to_resume[c]]
           /\ to_resume' = [to_resume EXCEPT ![c] = a]
           /\ awaiter' = [awaiter EXCEPT ![c] = m_next[a]]
           /\ Goto(c, IF m_next[a] = nullptr THEN "resume" ELSE "reverse")
    /\ UNCHANGED <<m_state, m_resume_list_head, state, m_num_wait_task, order>>

\* Mutant of unlock_resume: the rest of the list is dropped.
unlock_resume_drops(c) ==
    /\ pc[c] = "resume"
    /\ m_resume_list_head' = nullptr
    /\ pc' = [pc EXCEPT ![c] = "idle", ![to_resume[c]] = "ready"]
    /\ order' = Tail(order)
    /\ UNCHANGED <<m_state, m_next, state, unlockVars, m_num_wait_task>>

\* The lock passes to to_resume, which resume() puts in its context's queue.
unlock_resume(c) ==
    /\ pc[c] = "resume"
    /\ m_resume_list_head' = m_next[to_resume[c]]
    /\ pc' = [pc EXCEPT ![c] = "idle", ![to_resume[c]] = "ready"]
    /\ order' = Tail(order)
    /\ UNCHANGED <<m_state, m_next, state, unlockVars, m_num_wait_task>>
-----------------------------------------------------------------------------
lock(c) ==
    \/ register_lock_load(c) \/ register_lock_acquire(c)
    \/ register_lock_push(c) \/ register_lock_retry(c) \/ await_resume(c)

unlock(c) ==
    \/ unlock_next(c) \/ unlock_free(c) \/ unlock_contended(c)
    \/ unlock_exchange(c) \/ unlock_reverse(c) \/ unlock_resume(c)

Next == \E c \in Coro : await_suspend(c) \/ lock(c) \/ try_lock(c) \/ unlock(c)

Spec == Init /\ [][Next]_vars

\* A context runs the coroutines in its queue, and a coroutine that holds the
\* lock goes on to unlock() it; nobody has to ask for the lock.
Fairness == \A c \in Coro : WF_vars(lock(c)) /\ WF_vars(unlock(c))

FairSpec == Spec /\ Fairness
-----------------------------------------------------------------------------
(* Properties.                                                             *)

\* c has been given the lock and has not yet passed it on.
Holds(c) == pc[c] \in {"ready", "locked", "exchange", "reverse", "resume"}

\* c is between register_wait and unregister_wait.
Registered(c) == pc[c] \in {"load", "cas", "suspended", "ready"}

Waiting(x) == {c \in Coro : home[c] = x /\ Registered(c)}

\* Types of the mutex; m_num_wait_task of a context never drops below zero.
TypeOK ==
    /\ m_state \in Coro \cup {nullptr, nolocked}
    /\ m_resume_list_head \in Coro \cup {nullptr}
    /\ m_next \in [Coro -> Coro \cup {nullptr}]
    /\ pc \in [Coro -> {"idle", "load", "cas", "suspended", "ready", "locked",
                        "exchange", "reverse", "resume"}]
    /\ state \in [Coro -> Coro \cup {nullptr, nolocked}]
    /\ awaiter \in [Coro -> Coro \cup {nullptr}]
    /\ to_resume \in [Coro -> Coro \cup {nullptr}]
    /\ m_num_wait_task \in [Context -> Nat]
    /\ order \in Seq(Coro)

\* Two coroutines never hold the lock together, counting the one that unlock()
\* has handed it to but that its context has not run yet.
MutualExclusion == \A c, d \in Coro : Holds(c) /\ Holds(d) => c = d

\* The assertions of unlock() (mutex.cpp lines 66, 78 and 90) hold, and what it
\* resumes is a suspended coroutine: none is resumed twice or while it runs.
UnlockAssertions ==
    \A c \in Coro :
        /\ pc[c] = "locked" => m_state # nolocked
        /\ pc[c] = "exchange" => m_state \in Coro
        /\ pc[c] = "reverse" => awaiter[c] \in Coro
        /\ pc[c] = "resume" => /\ to_resume[c] \in Coro
                               /\ pc[to_resume[c]] = "suspended"

\* m_num_wait_task of a context counts its coroutines that are locking or
\* waiting, so empty_wait_task() is false while one of them is suspended here.
WaitTaskCount ==
    \A x \in Context : m_num_wait_task[x] = Cardinality(Waiting(x))

\* m_state is nolocked exactly while nobody holds the lock, and then nobody is
\* left on either list; so the destructor's assertion (mutex.hpp line 61) holds
\* once every coroutine is through with the mutex.
FreeIffUnowned ==
    /\ m_state = nolocked <=> \A c \in Coro : ~Holds(c)
    /\ m_state = nolocked => m_resume_list_head = nullptr /\ order = <<>>

\* The positions of order and the links agree: the last ones are the stack
\* under m_state, the middle ones (k+1..r) the list that is being served or
\* built, the first k the part of a detached stack still to be reversed.
Linked(k, r) ==
    LET n == Len(order) IN
    /\ \A i \in (1..k) \cup (r+1..n) : m_next[order[i]] =
            IF i \in {1, r+1} THEN nullptr ELSE order[i-1]
    /\ \A i \in k+1..r : m_next[order[i]] =
            IF i = r THEN nullptr ELSE order[i+1]
    /\ IF r < n THEN m_state = order[n] ELSE m_state \in {nullptr, nolocked}

Heads(k, r) ==
    LET first == IF k = r THEN nullptr ELSE order[k+1] IN
    /\ (\A c \in Coro : pc[c] \notin {"reverse", "resume"})
            => k = 0 /\ m_resume_list_head = first
    /\ \A c \in Coro :
        /\ pc[c] = "exchange" => r = 0 /\ to_resume[c] = first
        /\ pc[c] = "reverse" => /\ k > 0 /\ awaiter[c] = order[k]
                                /\ to_resume[c] = first
        /\ pc[c] = "resume" => k = 0 /\ r > 0 /\ to_resume[c] = first

\* The history variable holds every suspended coroutine once and nobody else.
OrderHoldsWaiters ==
    /\ \A i, j \in 1..Len(order) : order[i] = order[j] => i = j
    /\ \A c \in Coro : pc[c] = "suspended" <=> \E i \in 1..Len(order) : order[i] = c

\* The awaiters on the two lists are exactly the suspended coroutines, each on
\* one list and once, in arrival order: no push, detach, reversal or grant loses,
\* duplicates or reorders a waiter, whatever address register_lock compared with.
ListsHoldWaiters ==
    /\ OrderHoldsWaiters
    /\ \E k, r \in 0..Len(order) : k <= r /\ Linked(k, r) /\ Heads(k, r)

\* A suspended coroutine gets the lock, if every owner unlocks it.
SuspendedGetsLock ==
    \A c \in Coro : pc[c] = "suspended" ~> pc[c] = "locked"

\* Who holds the lock, for the refinement below.
Owner == IF \E c \in Coro : Holds(c) THEN CHOOSE c \in Coro : Holds(c)
                                     ELSE nullptr

Fifo == INSTANCE FifoLock WITH NoOwner <- nullptr, owner <- Owner,
                               queue <- order

\* The mutex implements the FIFO lock: handover in arrival order, no barging.
ImplementsFifoLock == Fifo!FifoSpec
=============================================================================
