------------------------------ MODULE FifoLock ------------------------------
(***************************************************************************)
(* What coro::mutex promises its users: a lock with at most one owner,     *)
(* handed from owner to owner in the order in which the waiters queued.    *)
(* Nobody overtakes: a free lock has no waiters, so neither lock() nor     *)
(* try_lock() can barge in front of a coroutine that is already queued.    *)
(***************************************************************************)
EXTENDS Naturals, Sequences

CONSTANTS Coro,     \* the coroutines that use the lock
          NoOwner   \* the value of owner while the lock is free

VARIABLES owner,    \* who holds the lock, or has just been handed it
          queue     \* the coroutines waiting for it, longest waiting first

lockVars == <<owner, queue>>

FifoInit == owner = NoOwner /\ queue = <<>>

\* A free lock is taken by lock(), lock_guard() or try_lock().
Acquire(c) ==
    /\ owner = NoOwner
    /\ owner' = c
    /\ UNCHANGED queue

\* A coroutine that finds the lock taken queues behind all others.  It may hold
\* the lock itself: a condition variable queues a waiter before that has unlocked.
Enqueue(c) ==
    /\ owner # NoOwner
    /\ \A i \in 1..Len(queue) : queue[i] # c
    /\ queue' = Append(queue, c)
    /\ UNCHANGED owner

\* unlock() frees the lock, or hands it to the longest waiting coroutine.
Release ==
    /\ owner # NoOwner
    /\ \/ queue = <<>> /\ owner' = NoOwner /\ UNCHANGED queue
       \/ queue # <<>> /\ owner' = Head(queue) /\ queue' = Tail(queue)

FifoNext == Release \/ \E c \in Coro : Acquire(c) \/ Enqueue(c)

FifoSafety == FifoInit /\ [][FifoNext]_lockVars

\* An owner releases the lock in the end.
FifoSpec == FifoSafety /\ WF_lockVars(Release)
=============================================================================
