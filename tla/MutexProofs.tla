---------------------------- MODULE MutexProofs ----------------------------
(***************************************************************************)
(* Proofs about Mutex, for any set of coroutines and contexts.             *)
(*                                                                         *)
(* Neither mutual exclusion nor the assertions of unlock() are inductive:  *)
(* both need that the links of the awaiters describe the queue of waiters, *)
(* wherever an unlock() in progress has got to in reversing a part of it.  *)
(***************************************************************************)
EXTENDS Mutex, FiniteSetTheorems, TLAPS

\* TypeOK without the claim that the wait counters do not drop below zero.
Types ==
    /\ m_state \in Coro \cup {nullptr, nolocked}
    /\ m_resume_list_head \in Coro \cup {nullptr}
    /\ m_next \in [Coro -> Coro \cup {nullptr}]
    /\ pc \in [Coro -> {"idle", "load", "cas", "suspended", "ready", "locked",
                        "exchange", "reverse", "resume"}]
    /\ state \in [Coro -> Coro \cup {nullptr, nolocked}]
    /\ awaiter \in [Coro -> Coro \cup {nullptr}]
    /\ to_resume \in [Coro -> Coro \cup {nullptr}]
    /\ order \in Seq(Coro)

\* What register_lock has read is what it has linked its awaiter to.
CasLinked ==
    \A c \in Coro : pc[c] = "cas" /\ state[c] # nolocked => m_next[c] = state[c]

ExchangeFinds == \A c \in Coro : pc[c] = "exchange" => m_state \in Coro

\* The inductive invariant.
IInv ==
    /\ Types
    /\ MutualExclusion
    /\ FreeIffUnowned
    /\ CasLinked
    /\ ExchangeFinds
    /\ ListsHoldWaiters

USE MutexAssumption
-----------------------------------------------------------------------------
\* The mutex starts free and without waiters.
LEMMA InitIInv == Init => IInv
<1> SUFFICES ASSUME Init PROVE IInv
    OBVIOUS
<1> USE DEF Init
<1>1. Types
    BY DEF Types
<1>2. MutualExclusion /\ FreeIffUnowned /\ CasLinked /\ ExchangeFinds
    BY DEF MutualExclusion, FreeIffUnowned, CasLinked, ExchangeFinds, Holds
<1>3. Len(order) = 0
    OBVIOUS
<1>4. Linked(0, 0) /\ Heads(0, 0)
    BY <1>3 DEF Linked, Heads
<1>5. ListsHoldWaiters
    BY <1>3, <1>4 DEF ListsHoldWaiters, OrderHoldsWaiters
<1> QED
    BY <1>1, <1>2, <1>5 DEF IInv

\* await_suspend changes only where the coroutine is.
LEMMA AwaitSuspendIInv ==
    ASSUME IInv, NEW c \in Coro, await_suspend(c)
    PROVE  IInv'
<1> USE DEF IInv, await_suspend, Goto, listVars, unlockVars
<1>1. Types'
    BY DEF Types
<1>2. MutualExclusion' /\ FreeIffUnowned' /\ CasLinked' /\ ExchangeFinds'
    BY DEF Types, MutualExclusion, FreeIffUnowned, CasLinked, ExchangeFinds, Holds
<1>3. OrderHoldsWaiters'
    BY DEF ListsHoldWaiters, OrderHoldsWaiters, Types
<1>4. PICK k, r \in 0..Len(order) : k <= r /\ Linked(k, r) /\ Heads(k, r)
    BY DEF ListsHoldWaiters
<1>5. Linked(k, r)' /\ Heads(k, r)'
    BY <1>4 DEF Linked, Heads, Types
<1>6. ListsHoldWaiters'
    BY <1>3, <1>4, <1>5 DEF ListsHoldWaiters
<1> QED
    BY <1>1, <1>2, <1>6

\* The load links an awaiter that is not on a list yet.
LEMMA LoadIInv ==
    ASSUME IInv, NEW c \in Coro, register_lock_load(c)
    PROVE  IInv'
<1> USE DEF IInv, register_lock_load, Goto, listVars, unlockVars
<1>1. Types'
    BY DEF Types
<1>2. MutualExclusion' /\ FreeIffUnowned' /\ CasLinked' /\ ExchangeFinds'
    BY DEF Types, MutualExclusion, FreeIffUnowned, CasLinked, ExchangeFinds, Holds
<1>3. OrderHoldsWaiters'
    BY DEF ListsHoldWaiters, OrderHoldsWaiters, Types
<1>4. PICK k, r \in 0..Len(order) : k <= r /\ Linked(k, r) /\ Heads(k, r)
    BY DEF ListsHoldWaiters
<1>5. Linked(k, r)' /\ Heads(k, r)'
  <2>1. \A i \in 1..Len(order) : order[i] \in Coro /\ order[i] # c
    BY DEF ListsHoldWaiters, OrderHoldsWaiters, Types
  <2>2. \A i \in 1..Len(order) : m_next'[order[i]] = m_next[order[i]]
    BY <2>1 DEF Types
  <2> QED
    BY <1>4, <2>2 DEF Linked, Heads, Types
<1>6. ListsHoldWaiters'
    BY <1>3, <1>4, <1>5 DEF ListsHoldWaiters
<1> QED
    BY <1>1, <1>2, <1>6

\* A free mutex has no waiters, so the lists stay empty.
LEMMA AcquireIInv ==
    ASSUME IInv, NEW c \in Coro, register_lock_acquire(c)
    PROVE  IInv'
<1> USE DEF IInv, register_lock_acquire, Goto, listVars, unlockVars, locked_no_waiting
<1>1. Types'
    BY DEF Types
<1>2. MutualExclusion' /\ FreeIffUnowned' /\ CasLinked' /\ ExchangeFinds'
    BY DEF Types, MutualExclusion, FreeIffUnowned, CasLinked, ExchangeFinds, Holds
<1>3. OrderHoldsWaiters'
    BY DEF ListsHoldWaiters, OrderHoldsWaiters, Types
<1>4. /\ order = <<>> /\ m_resume_list_head = nullptr
      /\ \A d \in Coro : ~Holds(d)
    BY DEF FreeIffUnowned
<1>5. Len(order) = 0 /\ Len(order') = 0
    BY <1>4
<1>6. Linked(0, 0)' /\ Heads(0, 0)'
    BY <1>4, <1>5 DEF Linked, Heads, Types, Holds
<1>7. ListsHoldWaiters'
    BY <1>3, <1>5, <1>6 DEF ListsHoldWaiters
<1> QED
    BY <1>1, <1>2, <1>7

\* The same for try_lock.
LEMMA TryLockIInv ==
    ASSUME IInv, NEW c \in Coro, try_lock(c)
    PROVE  IInv'
<1> USE DEF IInv, try_lock, Goto, listVars, unlockVars, locked_no_waiting
<1>1. Types'
    BY DEF Types
<1>2. MutualExclusion' /\ FreeIffUnowned' /\ CasLinked' /\ ExchangeFinds'
    BY DEF Types, MutualExclusion, FreeIffUnowned, CasLinked, ExchangeFinds, Holds
<1>3. OrderHoldsWaiters'
    BY DEF ListsHoldWaiters, OrderHoldsWaiters, Types
<1>4. /\ order = <<>> /\ m_resume_list_head = nullptr
      /\ \A d \in Coro : ~Holds(d)
    BY DEF FreeIffUnowned
<1>5. Len(order) = 0 /\ Len(order') = 0
    BY <1>4
<1>6. Linked(0, 0)' /\ Heads(0, 0)'
    BY <1>4, <1>5 DEF Linked, Heads, Types, Holds
<1>7. ListsHoldWaiters'
    BY <1>3, <1>5, <1>6 DEF ListsHoldWaiters
<1> QED
    BY <1>1, <1>2, <1>7

\* A failed compare-exchange starts over.
LEMMA RetryIInv ==
    ASSUME IInv, NEW c \in Coro, register_lock_retry(c)
    PROVE  IInv'
<1> USE DEF IInv, register_lock_retry, Goto, listVars, unlockVars
<1>1. Types'
    BY DEF Types
<1>2. MutualExclusion' /\ FreeIffUnowned' /\ CasLinked' /\ ExchangeFinds'
    BY DEF Types, MutualExclusion, FreeIffUnowned, CasLinked, ExchangeFinds, Holds
<1>3. OrderHoldsWaiters'
    BY DEF ListsHoldWaiters, OrderHoldsWaiters, Types
<1>4. PICK k, r \in 0..Len(order) : k <= r /\ Linked(k, r) /\ Heads(k, r)
    BY DEF ListsHoldWaiters
<1>5. Linked(k, r)' /\ Heads(k, r)'
    BY <1>4 DEF Linked, Heads, Types
<1>6. ListsHoldWaiters'
    BY <1>3, <1>4, <1>5 DEF ListsHoldWaiters
<1> QED
    BY <1>1, <1>2, <1>6

\* The coroutine that was handed the lock runs.
LEMMA AwaitResumeIInv ==
    ASSUME IInv, NEW c \in Coro, await_resume(c)
    PROVE  IInv'
<1> USE DEF IInv, await_resume, Goto, listVars, unlockVars
<1>1. Types'
    BY DEF Types
<1>2. MutualExclusion' /\ FreeIffUnowned' /\ CasLinked' /\ ExchangeFinds'
    BY DEF Types, MutualExclusion, FreeIffUnowned, CasLinked, ExchangeFinds, Holds
<1>3. OrderHoldsWaiters'
    BY DEF ListsHoldWaiters, OrderHoldsWaiters, Types
<1>4. PICK k, r \in 0..Len(order) : k <= r /\ Linked(k, r) /\ Heads(k, r)
    BY DEF ListsHoldWaiters
<1>5. Linked(k, r)' /\ Heads(k, r)'
    BY <1>4 DEF Linked, Heads, Types
<1>6. ListsHoldWaiters'
    BY <1>3, <1>4, <1>5 DEF ListsHoldWaiters
<1> QED
    BY <1>1, <1>2, <1>6

\* A push extends the queue at its end and links the awaiter to the top of the
\* stack it replaces.
LEMMA PushIInv ==
    ASSUME IInv, NEW c \in Coro, register_lock_push(c)
    PROVE  IInv'
<1> USE DEF IInv, register_lock_push, Goto, listVars, unlockVars
<1> DEFINE n == Len(order)
<1>1. /\ n \in Nat /\ Len(order') = n + 1 /\ order'[n + 1] = c
      /\ \A i \in 1..n : order'[i] = order[i] /\ order[i] \in Coro
      /\ order' \in Seq(Coro)
    BY DEF Types
<1>2. Types'
    BY <1>1 DEF Types
<1>3. MutualExclusion' /\ FreeIffUnowned' /\ CasLinked' /\ ExchangeFinds'
    BY DEF Types, MutualExclusion, FreeIffUnowned, CasLinked, ExchangeFinds, Holds
<1>4. OrderHoldsWaiters'
  <2>1. \A i \in 1..n : order[i] # c
    BY DEF ListsHoldWaiters, OrderHoldsWaiters
  <2>2. (\A i, j \in 1..Len(order) : order[i] = order[j] => i = j)'
    BY <1>1, <2>1 DEF ListsHoldWaiters, OrderHoldsWaiters
  <2>3. ASSUME NEW d \in Coro
        PROVE  (pc[d] = "suspended" <=> \E i \in 1..Len(order) : order[i] = d)'
    <3>1. CASE d = c
        BY <1>1, <3>1 DEF Types
    <3>2. CASE d # c
      <4>1. pc'[d] = pc[d]
        BY <3>2 DEF Types
      <4>2. (\E i \in 1..n : order[i] = d) <=> (\E i \in 1..n+1 : order'[i] = d)
        BY <1>1, <3>2
      <4> QED
        BY <1>1, <4>1, <4>2 DEF ListsHoldWaiters, OrderHoldsWaiters
    <3> QED
        BY <3>1, <3>2
  <2> QED
    BY <2>2, <2>3 DEF OrderHoldsWaiters
<1>5. PICK k, r \in 0..n : k <= r /\ Linked(k, r) /\ Heads(k, r)
    BY DEF ListsHoldWaiters
<1>6. m_next[c] = IF r < n THEN order[n] ELSE nullptr
    BY <1>5 DEF Linked, CasLinked
<1>7. Linked(k, r)'
    BY <1>1, <1>5, <1>6, SMTT(30) DEF Linked
<1>8. Heads(k, r)'
    BY <1>1, <1>5, SMTT(30) DEF Heads, Types
<1>9. ListsHoldWaiters'
    BY <1>1, <1>4, <1>5, <1>7, <1>8 DEF ListsHoldWaiters
<1> QED
    BY <1>2, <1>3, <1>9

\* unlock takes the first awaiter of the resume list.
LEMMA UnlockNextIInv ==
    ASSUME IInv, NEW c \in Coro, unlock_next(c)
    PROVE  IInv'
<1> USE DEF IInv, unlock_next, Goto, listVars, unlockVars
<1>1. Types'
    BY DEF Types
<1>2. MutualExclusion' /\ FreeIffUnowned' /\ CasLinked' /\ ExchangeFinds'
    BY DEF Types, MutualExclusion, FreeIffUnowned, CasLinked, ExchangeFinds, Holds
<1>3. OrderHoldsWaiters'
    BY DEF ListsHoldWaiters, OrderHoldsWaiters, Types
<1>4. PICK k, r \in 0..Len(order) : k <= r /\ Linked(k, r) /\ Heads(k, r)
    BY DEF ListsHoldWaiters
<1>5. \A d \in Coro : d # c => ~Holds(d) /\ pc'[d] = pc[d]
    BY DEF MutualExclusion, Holds, Types
<1>6. Linked(k, r)'
    BY <1>4 DEF Linked
<1>7. Heads(k, r)'
    BY <1>4, <1>5 DEF Heads, Types, Holds
<1>8. ListsHoldWaiters'
    BY <1>3, <1>4, <1>6, <1>7 DEF ListsHoldWaiters
<1> QED
    BY <1>1, <1>2, <1>8

\* unlock frees the mutex only when both lists are empty.
LEMMA UnlockFreeIInv ==
    ASSUME IInv, NEW c \in Coro, unlock_free(c)
    PROVE  IInv'
<1> USE DEF IInv, unlock_free, Goto, listVars, unlockVars, locked_no_waiting
<1>1. Types'
    BY DEF Types
<1>2. PICK k, r \in 0..Len(order) : k <= r /\ Linked(k, r) /\ Heads(k, r)
    BY DEF ListsHoldWaiters
<1>3. \A d \in Coro : d # c => ~Holds(d) /\ pc'[d] = pc[d]
    BY DEF MutualExclusion, Holds, Types
<1>4. \A i \in 1..Len(order) : order[i] \in Coro
    BY DEF Types
<1>5. k = 0 /\ r = 0
    BY <1>2, <1>3, <1>4 DEF Heads, Holds, Types
<1>6. Len(order) = 0 /\ order = <<>>
    BY <1>2, <1>4, <1>5 DEF Linked, Types
<1>7. MutualExclusion' /\ FreeIffUnowned' /\ CasLinked' /\ ExchangeFinds'
    BY <1>3, <1>6
    DEF Types, MutualExclusion, FreeIffUnowned, CasLinked, ExchangeFinds, Holds
<1>8. OrderHoldsWaiters'
    BY DEF ListsHoldWaiters, OrderHoldsWaiters, Types
<1>9. Linked(0, 0)' /\ Heads(0, 0)'
    BY <1>3, <1>6 DEF Linked, Heads, Types, Holds
<1>10. ListsHoldWaiters'
    BY <1>6, <1>8, <1>9 DEF ListsHoldWaiters
<1> QED
    BY <1>1, <1>7, <1>10

\* The mutex is held and m_state is not null, so there is a stack to detach.
LEMMA UnlockContendedIInv ==
    ASSUME IInv, NEW c \in Coro, unlock_contended(c)
    PROVE  IInv'
<1> USE DEF IInv, unlock_contended, Goto, listVars, unlockVars, locked_no_waiting
<1>1. Types'
    BY DEF Types
<1>2. \A d \in Coro : d # c => ~Holds(d) /\ pc'[d] = pc[d]
    BY DEF MutualExclusion, Holds, Types
<1>3. MutualExclusion' /\ FreeIffUnowned' /\ CasLinked' /\ ExchangeFinds'
    BY <1>2
    DEF Types, MutualExclusion, FreeIffUnowned, CasLinked, ExchangeFinds, Holds
<1>4. OrderHoldsWaiters'
    BY DEF ListsHoldWaiters, OrderHoldsWaiters, Types
<1>5. PICK k, r \in 0..Len(order) : k <= r /\ Linked(k, r) /\ Heads(k, r)
    BY DEF ListsHoldWaiters
<1>6. \A i \in 1..Len(order) : order[i] \in Coro
    BY DEF Types
<1>7. k = 0 /\ r = 0
    BY <1>2, <1>5, <1>6 DEF Heads, Holds, Types
<1>8. Linked(0, 0)'
    BY <1>5, <1>7 DEF Linked
<1>9. Heads(0, 0)'
    BY <1>2, <1>5, <1>7, Zenon DEF Heads, Types, Holds
<1>10. ListsHoldWaiters'
    BY <1>4, <1>8, <1>9, <1>5, <1>7, Zenon DEF ListsHoldWaiters
<1> QED
    BY <1>1, <1>3, <1>10

\* The whole queue is detached, and none of it reversed yet.
LEMMA UnlockExchangeIInv ==
    ASSUME IInv, NEW c \in Coro, unlock_exchange(c)
    PROVE  IInv'
<1> USE DEF IInv, unlock_exchange, Goto, listVars, unlockVars, locked_no_waiting
<1> DEFINE n == Len(order)
<1>1. m_state \in Coro
    BY DEF ExchangeFinds
<1>2. Types'
    BY <1>1 DEF Types
<1>3. \A d \in Coro : d # c => ~Holds(d) /\ pc'[d] = pc[d]
    BY DEF MutualExclusion, Holds, Types
<1>4. MutualExclusion' /\ FreeIffUnowned' /\ CasLinked' /\ ExchangeFinds'
    BY <1>1, <1>3
    DEF Types, MutualExclusion, FreeIffUnowned, CasLinked, ExchangeFinds, Holds
<1>5. OrderHoldsWaiters'
    BY DEF ListsHoldWaiters, OrderHoldsWaiters, Types
<1>6. PICK k, r \in 0..n : k <= r /\ Linked(k, r) /\ Heads(k, r)
    BY DEF ListsHoldWaiters
<1>7. k = 0 /\ r = 0 /\ to_resume[c] = nullptr
    BY <1>6 DEF Heads
<1>8. n > 0 /\ m_state = order[n]
    BY <1>1, <1>6, <1>7 DEF Linked
<1>9. Linked(n, n)'
    BY <1>6, <1>7, <1>8 DEF Linked
<1>10. Heads(n, n)'
    BY <1>3, <1>7, <1>8 DEF Heads, Types, Holds
<1>11. ListsHoldWaiters'
    BY <1>5, <1>8, <1>9, <1>10 DEF ListsHoldWaiters
<1> QED
    BY <1>2, <1>4, <1>11

\* One more awaiter moves from the detached stack to the front of the list.
LEMMA UnlockReverseIInv ==
    ASSUME IInv, NEW c \in Coro, unlock_reverse(c)
    PROVE  IInv'
<1> USE DEF IInv, unlock_reverse, Goto, listVars, unlockVars
<1> DEFINE n == Len(order)
<1>1. PICK k, r \in 0..n : k <= r /\ Linked(k, r) /\ Heads(k, r)
    BY DEF ListsHoldWaiters
<1>2. \A i \in 1..n : order[i] \in Coro
    BY DEF Types
<1>3. \A i, j \in 1..n : order[i] = order[j] => i = j
    BY DEF ListsHoldWaiters, OrderHoldsWaiters
<1>4. /\ k \in 1..n /\ awaiter[c] = order[k] /\ awaiter[c] \in Coro
      /\ to_resume[c] = IF k = r THEN nullptr ELSE order[k+1]
    BY <1>1, <1>2 DEF Heads
<1>5. m_next[order[k]] = IF k = 1 THEN nullptr ELSE order[k-1]
    BY <1>1, <1>4, SMTT(30) DEF Linked
<1>6. Types'
    BY <1>4 DEF Types
<1>7. \A d \in Coro : d # c => ~Holds(d) /\ pc'[d] = pc[d]
    BY DEF MutualExclusion, Holds, Types
<1>8. MutualExclusion' /\ FreeIffUnowned' /\ ExchangeFinds'
    BY <1>7, ZenonT(30)
    DEF Types, MutualExclusion, FreeIffUnowned, ExchangeFinds, Holds
<1>9. pc[order[k]] = "suspended"
    BY <1>4, Zenon DEF ListsHoldWaiters, OrderHoldsWaiters
<1>10. CasLinked'
    BY <1>4, <1>9, Zenon DEF CasLinked, Types
<1>11. OrderHoldsWaiters'
    BY SMTT(30) DEF ListsHoldWaiters, OrderHoldsWaiters, Types
<1>12. \A i \in 1..n : m_next'[order[i]] =
            IF i = k THEN to_resume[c] ELSE m_next[order[i]]
    BY <1>2, <1>3, <1>4 DEF Types
<1>s. order' = order /\ m_state' = m_state /\ n \in Nat
    BY SMTT(30) DEF Types
<1>p. /\ pc'[c] = IF k = 1 THEN "resume" ELSE "reverse"
      /\ to_resume'[c] = order[k] /\ awaiter'[c] = m_next[order[k]]
  <2>1. to_resume'[c] = order[k] /\ awaiter'[c] = m_next[order[k]]
    BY <1>4 DEF Types
  <2>2. pc'[c] = IF m_next[order[k]] = nullptr THEN "resume" ELSE "reverse"
    BY <1>4 DEF Types
  <2>3. k # 1 => order[k-1] # nullptr
    BY <1>2, <1>4, MutexAssumption
  <2> QED
    BY <1>5, <2>1, <2>2, <2>3
<1> HIDE DEF IInv, unlock_reverse
<1>13. Linked(k-1, r)'
  <2>1. ASSUME NEW i \in (1..k-1) \cup (r+1..n)
        PROVE  m_next'[order[i]] = IF i \in {1, r+1} THEN nullptr ELSE order[i-1]
    <3>1. i \in 1..n /\ i # k /\ i \in (1..k) \cup (r+1..n)
      BY <1>1, <1>4
    <3> QED
      BY <1>1, <1>12, <3>1, ZenonT(30) DEF Linked
  <2>2. ASSUME NEW i \in k..r
        PROVE  m_next'[order[i]] = IF i = r THEN nullptr ELSE order[i+1]
    <3>1. i \in 1..n /\ (i # k => i \in k+1..r)
      BY <1>1, <1>4
    <3>2. CASE i = k
      BY <1>4, <1>12, <3>1, <3>2, Zenon
    <3>3. CASE i # k
      BY <1>1, <1>12, <3>1, <3>3, Zenon DEF Linked
    <3> QED
      BY <3>2, <3>3
  <2>3. (k-1)+1 = k
    BY <1>4
  <2> QED
    BY <1>1, <1>s, <2>1, <2>2, <2>3, Zenon DEF Linked
<1>14. Heads(k-1, r)'
  <2>3. k-1 # r /\ (k-1)+1 = k
    BY <1>1, <1>4
  <2>4. \A d \in Coro : d # c => pc'[d] \notin {"exchange", "reverse", "resume"}
    BY <1>7, Zenon DEF Holds
  <2>5. k # 1 => k-1 > 0 /\ awaiter'[c] = order[k-1]
    BY <1>4, <1>5, <1>p, SMTT(30)
  <2>6. r > 0 /\ (k = 1 => k-1 = 0)
    BY <1>1, <1>4, SMTT(30)
  <2>7. (IF k-1 = r THEN nullptr ELSE order'[(k-1)+1]) = order[k]
    BY <1>s, <2>3, Zenon
  <2>8. pc'[c] \in {"resume", "reverse"}
    BY <1>p, Zenon
  <2>9. /\ pc'[c] = "reverse" => k-1 > 0 /\ awaiter'[c] = order'[k-1]
        /\ pc'[c] = "resume" => k-1 = 0
    BY <1>p, <1>s, <2>5, <2>6
  <2> QED
    BY <1>p, <2>4, <2>6, <2>7, <2>8, <2>9 DEF Heads
<1>15. ListsHoldWaiters'
  <2>2. k-1 \in 0..n /\ k-1 <= r
    BY <1>1, <1>4
  <2> QED
    BY <1>1, <1>s, <1>11, <1>13, <1>14, <2>2 DEF ListsHoldWaiters
<1> QED
    BY <1>6, <1>8, <1>10, <1>15 DEF IInv

\* The first of the queue gets the lock.
LEMMA UnlockResumeIInv ==
    ASSUME IInv, NEW c \in Coro, unlock_resume(c)
    PROVE  IInv'
<1> USE DEF IInv, unlock_resume, Goto, listVars, unlockVars
<1> DEFINE n == Len(order)
<1>1. PICK k, r \in 0..n : k <= r /\ Linked(k, r) /\ Heads(k, r)
    BY DEF ListsHoldWaiters
<1>2. \A i \in 1..n : order[i] \in Coro
    BY DEF Types
<1>3. k = 0 /\ r \in 1..n /\ to_resume[c] = order[1] /\ order[1] \in Coro
    BY <1>1, <1>2, SMTT(30) DEF Heads
<1>4. /\ order' \in Seq(Coro) /\ Len(order') = n - 1
      /\ \A i \in 1..n-1 : order'[i] = order[i+1]
    BY <1>3, SMTT(30) DEF Types
<1>5. m_next[order[1]] = IF r = 1 THEN nullptr ELSE order[2]
    BY <1>1, <1>3 DEF Linked
<1>6. pc[order[1]] = "suspended" /\ order[1] # c
    BY <1>3 DEF ListsHoldWaiters, OrderHoldsWaiters
<1>7. Types'
    BY <1>3, <1>4, Zenon DEF Types
<1>8. /\ \A d \in Coro : d # c => ~Holds(d)
      /\ pc'[c] = "idle" /\ pc'[order[1]] = "ready"
      /\ \A d \in Coro : d # c /\ d # order[1] => pc'[d] = pc[d]
    BY <1>3, <1>6 DEF MutualExclusion, Holds, Types
<1>9. MutualExclusion' /\ FreeIffUnowned' /\ CasLinked' /\ ExchangeFinds'
    BY <1>3, <1>8, ZenonT(30)
    DEF Types, MutualExclusion, FreeIffUnowned, CasLinked, ExchangeFinds, Holds
<1>o. OrderHoldsWaiters
    BY DEF ListsHoldWaiters
<1>s. m_next' = m_next /\ m_state' = m_state /\ n \in Nat
    BY SMTT(30) DEF Types
<1>h. m_resume_list_head' = m_next[order[1]] /\ pc[c] = "resume"
    BY <1>3
<1> HIDE DEF IInv, unlock_resume
<1>10. OrderHoldsWaiters'
  <2>1. \A i, j \in 1..n : order[i] = order[j] => i = j
    BY <1>o DEF OrderHoldsWaiters
  <2>2. ASSUME NEW i \in 1..n-1, NEW j \in 1..n-1, order'[i] = order'[j]
        PROVE  i = j
    <3>1. i+1 \in 1..n /\ j+1 \in 1..n /\ (i+1 = j+1 => i = j)
      BY <1>s
    <3>2. order[i+1] = order[j+1]
      BY <1>4, <2>2
    <3> QED
      BY <2>1, <3>1, <3>2
  <2>3. ASSUME NEW d \in Coro
        PROVE  (pc[d] = "suspended" <=> \E i \in 1..Len(order) : order[i] = d)'
    <3>1. CASE d = order[1]
      <4>1. ASSUME NEW j \in 1..n-1, order'[j] = d
            PROVE  FALSE
        <5>1. order[j+1] = order[1] /\ j+1 \in 1..n /\ 1 \in 1..n /\ j+1 # 1
          BY <1>3, <1>4, <1>s, <3>1, <4>1
        <5> QED
          BY <2>1, <5>1
      <4>2. pc'[d] # "suspended"
        BY <1>8, <3>1
      <4> QED
        BY <1>4, <4>1, <4>2
    <3>2. CASE d # order[1]
      <4>1. pc'[d] = "suspended" <=> pc[d] = "suspended"
        BY <1>8, <1>h, <3>2
      <4>2. ASSUME NEW i \in 1..n, order[i] = d
            PROVE  \E j \in 1..n-1 : order'[j] = d
        <5>1. i # 1
          BY <3>2, <4>2
        <5>2. PICK j \in 1..n-1 : j+1 = i
          BY <5>1, i-1 \in 1..n-1, (i-1)+1 = i
        <5>3. order'[j] = d
          BY <1>4, <4>2, <5>2
        <5> QED
          BY <5>3
      <4>3. ASSUME NEW j \in 1..n-1, order'[j] = d
            PROVE  \E i \in 1..n : order[i] = d
        BY <1>4, <4>3, j+1 \in 1..n
      <4> QED
        BY <1>4, <1>o, <4>1, <4>2, <4>3 DEF OrderHoldsWaiters
    <3> QED
        BY <3>1, <3>2
  <2> QED
    BY <1>4, <2>2, <2>3 DEF OrderHoldsWaiters
<1>11. Linked(0, r-1)'
  <2>1. ASSUME NEW i \in r..n-1
        PROVE  m_next[order'[i]] = IF i \in {1, r} THEN nullptr ELSE order'[i-1]
    <3>1. i \in 1..n-1 /\ i+1 \in r+1..n /\ i+1 # 1 /\ (i+1)-1 = i
      BY <1>1, <1>3, SMTT(30)
    <3>2. m_next[order[i+1]] = IF i+1 = r+1 THEN nullptr ELSE order[i]
      BY <1>1, <3>1 DEF Linked
    <3>3. i+1 = r+1 <=> i = r
      BY <1>1, <3>1
    <3>4. i # r => i-1 \in 1..n-1 /\ (i-1)+1 = i /\ i # 1
      BY <1>1, <1>3, <3>1
    <3> QED
      BY <1>1, <1>3, <1>4, <3>1, <3>2, <3>3, <3>4, Zenon
  <2>2. ASSUME NEW i \in 1..r-1
        PROVE  m_next[order'[i]] = IF i = r-1 THEN nullptr ELSE order'[i+1]
    <3>1. i \in 1..n-1 /\ i+1 \in 1..r /\ (i+1 = r <=> i = r-1)
      BY <1>1, <1>3
    <3>2. m_next[order[i+1]] = IF i+1 = r THEN nullptr ELSE order[(i+1)+1]
      BY <1>1, <1>3, <3>1 DEF Linked
    <3>3. i # r-1 => i+1 \in 1..n-1
      BY <1>1, <1>3, <3>1
    <3> QED
      BY <1>4, <3>1, <3>2, <3>3, Zenon
  <2>3. IF r-1 < n-1 THEN m_state = order'[n-1] ELSE m_state \in {nullptr, nolocked}
    <3>1. r < n <=> r-1 < n-1
      BY <1>1, <1>s
    <3>2. r < n => n-1 \in 1..n-1 /\ (n-1)+1 = n
      BY <1>1, <1>3, <1>s
    <3> QED
      BY <1>1, <1>4, <3>1, <3>2 DEF Linked
  <2>4. (r-1)+1 = r
    BY <1>1
  <2>5. 1..0 = {} /\ 0+1 = 1
    OBVIOUS
  <2> QED
    BY <1>4, <1>s, <2>1, <2>2, <2>3, <2>4, <2>5, Zenon DEF Linked
<1>12. Heads(0, r-1)'
  <2>1. m_resume_list_head' = IF 0 = r-1 THEN nullptr ELSE order'[0+1]
    <3>1. r # 1 => 1 \in 1..n-1 /\ order'[1] = order[1+1]
      BY <1>1, <1>3, <1>4, SMTT(30)
    <3>2. 0 = r-1 <=> r = 1
      BY <1>1
    <3> QED
      BY <1>5, <1>h, <3>1, <3>2, SMTT(30)
  <2>2. \A d \in Coro : pc'[d] \notin {"exchange", "reverse", "resume"}
    BY <1>3, <1>8 DEF Holds
  <2> QED
    BY <2>1, <2>2, Zenon DEF Heads
<1>13. ListsHoldWaiters'
  <2>1. 0 \in 0..n-1 /\ r-1 \in 0..n-1 /\ 0 <= r-1
    BY <1>1, <1>3, <1>s
  <2> QED
    BY <1>4, <1>10, <1>11, <1>12, <2>1 DEF ListsHoldWaiters
<1> QED
    BY <1>7, <1>9, <1>13 DEF IInv

-----------------------------------------------------------------------------
\* Every step of the mutex keeps the inductive invariant.
LEMMA NextIInv == IInv /\ [Next]_vars => IInv'
<1> SUFFICES ASSUME IInv, [Next]_vars PROVE IInv'
    OBVIOUS
<1>1. ASSUME NEW c \in Coro, await_suspend(c) \/ lock(c) \/ try_lock(c) \/ unlock(c)
      PROVE  IInv'
    BY <1>1, AwaitSuspendIInv, LoadIInv, AcquireIInv, TryLockIInv, RetryIInv,
       AwaitResumeIInv, PushIInv, UnlockNextIInv, UnlockFreeIInv,
       UnlockContendedIInv, UnlockExchangeIInv, UnlockReverseIInv,
       UnlockResumeIInv
    DEF lock, unlock
<1>2. CASE UNCHANGED vars
  <2> USE <1>2 DEF vars, listVars, unlockVars
  <2>1. Types' /\ OrderHoldsWaiters'
    BY Zenon DEF IInv, Types, ListsHoldWaiters, OrderHoldsWaiters
  <2>2. MutualExclusion' /\ FreeIffUnowned' /\ CasLinked' /\ ExchangeFinds'
    BY DEF IInv, MutualExclusion, FreeIffUnowned, CasLinked, ExchangeFinds, Holds
  <2>3. PICK k, r \in 0..Len(order) : k <= r /\ Linked(k, r) /\ Heads(k, r)
    BY Zenon DEF IInv, ListsHoldWaiters
  <2>4. Linked(k, r)' /\ Heads(k, r)'
    BY <2>3 DEF Linked, Heads
  <2> QED
    BY <2>1, <2>2, <2>3, <2>4, Zenon DEF IInv, ListsHoldWaiters
<1> QED
    BY <1>1, <1>2 DEF Next

\* The inductive invariant holds in every reachable state.
THEOREM Invariance == Spec => []IInv
    BY InitIInv, NextIInv, PTL DEF Spec

\* No two coroutines hold the lock, for any number of coroutines that lock, try
\* and unlock the mutex on any number of contexts.
THEOREM MutexExcludes == Spec => []MutualExclusion
<1>1. IInv => MutualExclusion
    BY DEF IInv
<1> QED
    BY <1>1, Invariance, PTL

\* No push, reversal or handover loses, duplicates or reorders a waiter.
THEOREM WaitersAreKept == Spec => []ListsHoldWaiters
<1>1. IInv => ListsHoldWaiters
    BY DEF IInv
<1> QED
    BY <1>1, Invariance, PTL

\* m_state is nolocked just when nobody holds the lock, and then nobody waits.
THEOREM FreeMeansUnowned == Spec => []FreeIffUnowned
<1>1. IInv => FreeIffUnowned
    BY Zenon DEF IInv
<1> QED
    BY <1>1, Invariance, PTL

\* The assertions of unlock() never fail and it resumes suspended coroutines.
THEOREM UnlockIsSafe == Spec => []UnlockAssertions
<1>1. ASSUME IInv, NEW c \in Coro
      PROVE  /\ pc[c] = "locked" => m_state # nolocked
             /\ pc[c] = "exchange" => m_state \in Coro
             /\ pc[c] = "reverse" => awaiter[c] \in Coro
             /\ pc[c] = "resume" => /\ to_resume[c] \in Coro
                                    /\ pc[to_resume[c]] = "suspended"
  <2> USE <1>1 DEF IInv
  <2>1. pc[c] = "locked" => m_state # nolocked
    BY DEF FreeIffUnowned, Holds
  <2>2. pc[c] = "exchange" => m_state \in Coro
    BY DEF ExchangeFinds
  <2>3. PICK k, r \in 0..Len(order) : k <= r /\ Linked(k, r) /\ Heads(k, r)
    BY DEF ListsHoldWaiters
  <2>4. \A i \in 1..Len(order) : order[i] \in Coro /\ pc[order[i]] = "suspended"
    BY SMTT(30) DEF Types, ListsHoldWaiters, OrderHoldsWaiters
  <2>5. pc[c] = "reverse" => awaiter[c] \in Coro
    BY <2>3, <2>4, SMTT(30) DEF Heads
  <2>6. pc[c] = "resume" => to_resume[c] = order[1] /\ 1 \in 1..Len(order)
    BY <2>3, SMTT(30) DEF Heads
  <2> QED
    BY <2>1, <2>2, <2>4, <2>5, <2>6
<1>2. IInv => UnlockAssertions
    BY <1>1 DEF UnlockAssertions
<1> QED
    BY <1>2, Invariance, PTL
-----------------------------------------------------------------------------
\* The wait counter of a context follows the set of its registered coroutines.
CountInv == WaitTaskCount /\ m_num_wait_task \in [Context -> Nat]

\* A finite set of coroutines has a cardinality.
LEMMA WaitingIsFinite ==
    \A x \in Context : IsFiniteSet(Waiting(x)) /\ Cardinality(Waiting(x)) \in Nat
<1> SUFFICES ASSUME NEW x \in Context
             PROVE  IsFiniteSet(Waiting(x)) /\ Cardinality(Waiting(x)) \in Nat
    OBVIOUS
<1>1. Waiting(x) \in SUBSET Coro
    BY DEF Waiting
<1> QED
    BY <1>1, FS_Subset, FS_CardinalityType

\* A step that leaves the counters alone and registers or unregisters nobody.
LEMMA CountUnchanged ==
    ASSUME CountInv, UNCHANGED m_num_wait_task,
           \A c \in Coro : Registered(c)' <=> Registered(c)
    PROVE  CountInv'
<1>1. \A x \in Context : Waiting(x)' = Waiting(x)
    BY DEF Waiting
<1> QED
    BY <1>1 DEF CountInv, WaitTaskCount

\* register_wait, of a coroutine that starts to lock.
LEMMA CountRegister ==
    ASSUME CountInv, NEW c \in Coro, register_wait(c), ~Registered(c), Registered(c)',
           \A d \in Coro : d # c => (Registered(d)' <=> Registered(d))
    PROVE  CountInv'
<1>1. ASSUME NEW x \in Context
      PROVE  m_num_wait_task'[x] = Cardinality(Waiting(x)') /\ m_num_wait_task'[x] \in Nat
  <2>1. CASE x = home[c]
    <3>1. Waiting(x)' = Waiting(x) \cup {c} /\ c \notin Waiting(x)
        BY <2>1 DEF Waiting
    <3>2. Cardinality(Waiting(x)') = Cardinality(Waiting(x)) + 1
        BY <3>1, WaitingIsFinite, FS_AddElement, Zenon
    <3> QED
        BY <2>1, <3>2, WaitingIsFinite DEF CountInv, WaitTaskCount, register_wait
  <2>2. CASE x # home[c]
    <3>1. Waiting(x)' = Waiting(x)
        BY <2>2 DEF Waiting
    <3> QED
        BY <2>2, <3>1 DEF CountInv, WaitTaskCount, register_wait
  <2> QED
    BY <2>1, <2>2
<1>2. m_num_wait_task' \in [Context -> Nat]
    BY <1>1 DEF CountInv, register_wait
<1> QED
    BY <1>1, <1>2 DEF CountInv, WaitTaskCount

\* unregister_wait, of a coroutine that has the lock and runs.
LEMMA CountUnregister ==
    ASSUME CountInv, NEW c \in Coro, unregister_wait(c), Registered(c), ~Registered(c)',
           \A d \in Coro : d # c => (Registered(d)' <=> Registered(d))
    PROVE  CountInv'
<1>1. ASSUME NEW x \in Context
      PROVE  m_num_wait_task'[x] = Cardinality(Waiting(x)') /\ m_num_wait_task'[x] \in Nat
  <2>1. CASE x = home[c]
    <3>1. Waiting(x)' = Waiting(x) \ {c} /\ c \in Waiting(x)
        BY <2>1 DEF Waiting
    <3>2. /\ Cardinality(Waiting(x)') = Cardinality(Waiting(x)) - 1
          /\ Cardinality(Waiting(x)') \in Nat
        BY <3>1, WaitingIsFinite, FS_RemoveElement, FS_CardinalityType
    <3> QED
        BY <2>1, <3>2 DEF CountInv, WaitTaskCount, unregister_wait
  <2>2. CASE x # home[c]
    <3>1. Waiting(x)' = Waiting(x)
        BY <2>2 DEF Waiting
    <3> QED
        BY <2>2, <3>1 DEF CountInv, WaitTaskCount, unregister_wait
  <2> QED
    BY <2>1, <2>2
<1>2. m_num_wait_task' \in [Context -> Nat]
    BY <1>1 DEF CountInv, unregister_wait
<1> QED
    BY <1>1, <1>2 DEF CountInv, WaitTaskCount

\* Every step of the mutex keeps the counters right.
LEMMA NextCountInv == IInv /\ UnlockAssertions /\ CountInv /\ [Next]_vars => CountInv'
<1> SUFFICES ASSUME IInv, UnlockAssertions, CountInv, [Next]_vars PROVE CountInv'
    OBVIOUS
<1> USE DEF Goto, Registered
<1>t. pc \in [Coro -> {"idle", "load", "cas", "suspended", "ready", "locked",
                       "exchange", "reverse", "resume"}]
    BY DEF IInv, Types
<1>1. ASSUME NEW c \in Coro, await_suspend(c) PROVE CountInv'
    BY <1>t, <1>1, CountRegister DEF await_suspend
<1>2. ASSUME NEW c \in Coro, register_lock_acquire(c) \/ await_resume(c)
      PROVE  CountInv'
    BY <1>t, <1>2, CountUnregister DEF register_lock_acquire, await_resume
<1>3. ASSUME NEW c \in Coro,
             register_lock_load(c) \/ register_lock_push(c) \/ register_lock_retry(c)
      PROVE  CountInv'
    BY <1>t, <1>3, CountUnchanged
    DEF register_lock_load, register_lock_push, register_lock_retry
<1>4. ASSUME NEW c \in Coro,
             try_lock(c) \/ unlock_next(c) \/ unlock_free(c) \/ unlock_contended(c)
      PROVE  CountInv'
    BY <1>t, <1>4, CountUnchanged, Zenon
    DEF try_lock, unlock_next, unlock_free, unlock_contended
<1>5. ASSUME NEW c \in Coro, unlock_exchange(c) \/ unlock_reverse(c)
      PROVE  CountInv'
    BY <1>t, <1>5, CountUnchanged DEF unlock_exchange, unlock_reverse
<1>6. ASSUME NEW c \in Coro, unlock_resume(c) PROVE CountInv'
    BY <1>t, <1>6, CountUnchanged DEF unlock_resume, UnlockAssertions
<1>7. CASE UNCHANGED vars
    BY <1>7, CountUnchanged DEF vars
<1> QED
    BY <1>1, <1>2, <1>3, <1>4, <1>5, <1>6, <1>7 DEF Next, lock, unlock

\* m_num_wait_task counts the coroutines that are locking or waiting.
THEOREM WaitTasksAreCounted == Spec => []CountInv
<1>1. Init => CountInv
  <2> SUFFICES ASSUME Init PROVE CountInv
    OBVIOUS
  <2>1. \A x \in Context : Waiting(x) = {}
    BY DEF Init, Waiting, Registered
  <2> QED
    BY <2>1, FS_EmptySet, Zenon DEF Init, CountInv, WaitTaskCount
<1> QED
    BY <1>1, NextCountInv, Invariance, UnlockIsSafe, PTL DEF Spec

\* m_num_wait_task is the number of coroutines of the context that are locking or
\* waiting, so it is zero when none is and the engine may stop.
THEOREM LockWaitsCounted == Spec => []WaitTaskCount
  BY WaitTasksAreCounted, PTL DEF CountInv

\* Type correctness; that no counter drops below zero takes the whole argument.
THEOREM TypeCorrect == Spec => []TypeOK
<1>1. IInv /\ CountInv => TypeOK
    BY DEF IInv, Types, CountInv, TypeOK
<1> QED
    BY <1>1, Invariance, WaitTasksAreCounted, PTL
-----------------------------------------------------------------------------
(* The mutex implements FifoLock, as far as safety goes.                   *)

\* The coroutine that holds the lock is its owner.
LEMMA HolderOwns ==
    ASSUME MutualExclusion, NEW c \in Coro, Holds(c)
    PROVE  Owner = c
BY DEF MutualExclusion, Owner

LEMMA HolderOwnsNext ==
    ASSUME MutualExclusion', NEW c \in Coro, Holds(c)'
    PROVE  Owner' = c
BY DEF MutualExclusion, Owner

\* A step that does not change who holds the lock leaves the owner alone.
LEMMA OwnerUnchanged ==
    ASSUME \A c \in Coro : Holds(c)' <=> Holds(c)
    PROVE  Owner' = Owner
BY Zenon DEF Owner

\* Every step of the mutex is a step of the FIFO lock, or none.
LEMMA NextIsFifo == IInv /\ IInv' /\ [Next]_vars => [Fifo!FifoNext]_(Fifo!lockVars)
<1> SUFFICES ASSUME IInv, IInv', [Next]_vars
             PROVE  [Fifo!FifoNext]_(Fifo!lockVars)
    OBVIOUS
<1> USE DEF Goto, Fifo!lockVars
<1>t. /\ pc \in [Coro -> {"idle", "load", "cas", "suspended", "ready", "locked",
                          "exchange", "reverse", "resume"}]
      /\ MutualExclusion /\ MutualExclusion'
    BY DEF IInv, Types
<1>1. ASSUME NEW c \in Coro, register_lock_acquire(c) \/ try_lock(c)
      PROVE  Fifo!FifoNext
  <2>1. \A d \in Coro : ~Holds(d)
    BY <1>1 DEF IInv, FreeIffUnowned, register_lock_acquire, try_lock
  <2>2. Owner = nullptr
    BY <2>1, ZenonT(30) DEF Owner
  <2>3. Holds(c)' /\ order' = order
    BY <1>t, <1>1 DEF Holds, register_lock_acquire, try_lock
  <2>4. Owner' = c
    BY <1>t, <2>3, HolderOwnsNext, Zenon
  <2> QED
    BY <2>2, <2>3, <2>4, ZenonT(30) DEF Fifo!FifoNext, Fifo!Acquire
<1>2. ASSUME NEW c \in Coro, register_lock_push(c)
      PROVE  Fifo!FifoNext
  <2>1. PICK d \in Coro : Holds(d)
    BY <1>2, Zenon DEF IInv, FreeIffUnowned, register_lock_push
  <2>2. Owner = d /\ d # c
    BY <1>t, <1>2, <2>1, HolderOwns, ZenonT(30) DEF Holds, register_lock_push
  <2>3. \A e \in Coro : Holds(e)' <=> Holds(e)
    BY <1>t, <1>2 DEF Holds, register_lock_push
  <2>4. Owner' = Owner
    BY <2>3, OwnerUnchanged, Zenon
  <2>5. \A i \in 1..Len(order) : order[i] # c
    BY <1>2, ZenonT(30) DEF IInv, ListsHoldWaiters, OrderHoldsWaiters, register_lock_push
  <2> QED
    BY <1>2, <2>2, <2>4, <2>5, Zenon
    DEF Fifo!FifoNext, Fifo!Enqueue, register_lock_push
<1>3. ASSUME NEW c \in Coro, unlock_free(c)
      PROVE  Fifo!FifoNext
  <2>1. Holds(c)
    BY <1>3 DEF Holds, unlock_free
  <2>2. Owner = c
    BY <1>t, <2>1, HolderOwns
  <2>3. m_state' = nolocked /\ order' = order
    BY <1>3 DEF unlock_free
  <2>4. order' = <<>> /\ \A d \in Coro : ~Holds(d)'
    BY <2>3 DEF IInv, FreeIffUnowned
  <2>5. Owner' = nullptr
    BY <2>4 DEF Owner
  <2> QED
    BY <2>2, <2>3, <2>4, <2>5 DEF Fifo!FifoNext, Fifo!Release
<1>4. ASSUME NEW c \in Coro, unlock_resume(c)
      PROVE  Fifo!FifoNext
  <2>1. Owner = c
    BY <1>t, <1>4, HolderOwns DEF Holds, unlock_resume
  <2>2. PICK k, r \in 0..Len(order) : k <= r /\ Linked(k, r) /\ Heads(k, r)
    BY DEF IInv, ListsHoldWaiters
  <2>p. pc[c] = "resume"
    BY <1>4, Zenon DEF unlock_resume
  <2>q. k = 0 /\ r > 0 /\ to_resume[c] = IF k = r THEN nullptr ELSE order[k+1]
    BY <2>2, <2>p DEF Heads
  <2>3. Len(order) > 0 /\ to_resume[c] = order[1]
    BY <2>2, <2>q, SMTT(30)
  <2>o. order \in Seq(Coro)
    BY DEF IInv, Types
  <2>4. order # <<>> /\ order[1] = Head(order) /\ order[1] \in Coro
    BY <2>3, <2>o
  <2>d. PICK d \in Coro : d = order[1]
    BY <2>4, ZenonT(30)
  <2>5. Holds(d)'
    BY <1>t, <1>4, <2>3, <2>d DEF unlock_resume, Holds
  <2>6. Owner' = Head(order)
    BY <1>t, <2>4, <2>5, <2>d, HolderOwnsNext
  <2> QED
    BY <1>4, <2>1, <2>4, <2>6
    DEF Fifo!FifoNext, Fifo!Release, unlock_resume
<1>5. ASSUME NEW c \in Coro,
             \/ await_suspend(c) \/ register_lock_load(c) \/ register_lock_retry(c)
             \/ await_resume(c) \/ unlock_next(c) \/ unlock_contended(c)
             \/ unlock_exchange(c) \/ unlock_reverse(c)
      PROVE  UNCHANGED <<Owner, order>>
  <2>1. order' = order /\ \A d \in Coro : Holds(d)' <=> Holds(d)
    BY <1>t, <1>5
    DEF await_suspend, register_lock_load, register_lock_retry, await_resume,
        unlock_next, unlock_contended, unlock_exchange, unlock_reverse, Holds
  <2> QED
    BY <2>1, OwnerUnchanged, Zenon
<1>6. CASE UNCHANGED vars
    BY <1>6, OwnerUnchanged DEF vars, Holds
<1> QED
    BY <1>1, <1>2, <1>3, <1>4, <1>5, <1>6 DEF Next, lock, unlock

\* The lock passes from owner to owner in the order in which the coroutines
\* queued, and nobody takes it while somebody waits.
THEOREM MutexIsFifo == Spec => Fifo!FifoSafety
<1>1. Init => Fifo!FifoInit
    BY DEF Init, Owner, Holds, Fifo!FifoInit
<1> QED
    BY <1>1, NextIsFifo, Invariance, PTL DEF Spec, Fifo!FifoSafety
=============================================================================
