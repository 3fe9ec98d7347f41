------------------------------- MODULE Event -------------------------------
(***************************************************************************)
(* coro::event (event.cpp, event.hpp).  m_state is the event itself once   *)
(* it is set, and the stack of awaiters before that.  event<T> stores a    *)
(* value before it is set; event_guard sets an event in its destructor.    *)
(***************************************************************************)
EXTENDS AwaiterList

CONSTANT set      \* m_state == this

ASSUME EventAssumption == set \notin Coro \cup {nullptr}

VARIABLE value    \* the notifiers whose value is stored; {set} for an event
                  \* that was constructed set or has no value

eventVars == <<listVars, value>>

EventInit == \E top \in {nullptr, set} :
                 ListInit(top, "start") /\ value = {top} \ {nullptr}

\* await_ready registers and tests; a set event is passed without suspending.
await_ready(w) ==
    /\ pc[w] = "start" /\ HasContext(w)
    /\ IF m_state = set
       THEN Goto(w, "finished") /\ UNCHANGED m_num_wait_task
       ELSE Goto(w, "load") /\ register_wait(w)
    /\ UNCHANGED <<m_state, m_next, old_value, cur, value>>

\* Mutant of Linked: the awaiter is not linked to the stack.
Linked_not(w) == m_next[w]

\* What register_awaiter writes to m_next.
Linked(w) == m_state

\* register_awaiter loads m_state; false if the event has been set meanwhile.
register_awaiter(w) ==
    /\ pc[w] = "load"
    /\ old_value' = [old_value EXCEPT ![w] = m_state]
    /\ IF m_state = set
       THEN /\ m_next' = [m_next EXCEPT ![w] = nullptr]
            /\ unregister_wait(w)
            /\ Goto(w, "finished")
       ELSE /\ m_next' = [m_next EXCEPT ![w] = Linked(w)]
            /\ Goto(w, "cas")
            /\ UNCHANGED m_num_wait_task
    /\ UNCHANGED <<m_state, cur, value>>

\* event<T>::set stores the value ...
return_value(n) ==
    /\ pc[n] = "start" /\ HasContext(n)
    /\ value' = value \cup {n}
    /\ Goto(n, "set")
    /\ UNCHANGED <<m_state, m_next, old_value, cur, m_num_wait_task>>

\* ... before set_state publishes it and takes the waiters.
set_state(n) ==
    /\ pc[n] = "set"
    /\ detach(n, set)
    /\ UNCHANGED value

waitStep(w) == w \in Waiter /\ (await_ready(w) \/ register_awaiter(w))
=============================================================================
