------------------------------- MODULE Latch -------------------------------
(***************************************************************************)
(* An event that is used directly, or through coro::latch (latch.hpp), a   *)
(* counter in front of an event<>.  The notifiers are the calls of set(),  *)
(* or those of count_down(), made directly or by the destructor of an      *)
(* event_guard or a latch_guard.  Init chooses which.                      *)
(***************************************************************************)
EXTENDS Event

CONSTANTS MaxCount,     \* bound of the latch's constructor argument
          no_latch      \* m_count of an event without a latch

ASSUME LatchAssumption == MaxCount \in Nat /\ no_latch \notin Int

vars == <<eventVars, m_count>>

\* The event of a latch that is constructed with zero is set.
LatchInit == \E count \in 0..MaxCount :
                /\ ListInit(IF count <= 0 THEN set ELSE nullptr, "start")
                /\ m_count = count
                /\ value = {set}

Init == LatchInit \/ (EventInit /\ m_count = no_latch)

\* Mutant of last_count_down: the last but one call sets the event already.
last_count_down_early(count) == count <= 2

\* The call that brings the counter to zero, or finds it there, sets the event.
last_count_down(count) == count <= 1

\* The fetch_sub of count_down; event<> has no value to store.
count_down(n) ==
    /\ pc[n] = "start" /\ HasContext(n)
    /\ m_count' = m_count - 1
    /\ Goto(n, IF last_count_down(m_count) THEN "set" ELSE "finished")
    /\ UNCHANGED <<m_state, m_next, old_value, cur, m_num_wait_task, value>>

step(c) ==
    \/ c \in Notifier /\ m_count # no_latch /\ count_down(c) /\ UNCHANGED astray
    \/ /\ \/ waitStep(c) /\ UNCHANGED astray
          \/ c \in Notifier /\ m_count = no_latch /\ return_value(c)
                            /\ UNCHANGED astray
          \/ c \in Notifier /\ set_state(c) /\ UNCHANGED astray
          \/ listStep(c) /\ UNCHANGED value
       /\ UNCHANGED m_count

Next == (Quiescent /\ UNCHANGED vars) \/ \E c \in Coro : step(c)

Spec == Init /\ [][Next]_vars

\* Contexts run the coroutines that are ready, and a weak CAS that keeps finding
\* the expected value does not fail for ever.
FairSpec ==
    /\ Spec
    /\ \A c \in Coro : WF_vars(step(c))
    /\ \A w \in Waiter : SF_vars(push(w) /\ UNCHANGED <<value, astray, m_count>>)
-----------------------------------------------------------------------------
\* Nobody passes wait() before the event is set, nor before the value that
\* await_resume returns is stored, nor before the counter of the latch has
\* reached zero.
PassesOnlyWhenSet ==
    \A w \in Waiter : pc[w] \in {"ready", "finished"} =>
        /\ m_state = set /\ value # {}
        /\ m_count = no_latch \/ m_count <= 0

\* The only way to leave a waiter behind is the walk's late read of m_next: the
\* test, the push and the exchange miss nobody, in whatever order they come,
\* once set() or enough calls of count_down() have returned.
OnlyWalkLoses ==
    AllNotified /\ Notifier # {} /\ ~astray /\ (m_count = no_latch \/ m_count <= 0) =>
        NobodySuspended

\* Every coroutine that waits is released, since somebody sets the event or
\* count_down() is called often enough.
EveryoneReleased ==
    Cardinality(Notifier) >= MaxCount =>
        <>(astray \/ \A w \in Waiter : pc[w] = "finished")
=============================================================================
