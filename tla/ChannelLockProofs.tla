------------------------- MODULE ChannelLockProofs -------------------------
(***************************************************************************)
(* Proofs about the mutex and the condition variables of the channel, for  *)
(* any number of producers, consumers and closers: the mutex has one       *)
(* holder, and every awaiter is in one place.                              *)
(***************************************************************************)
EXTENDS Channel, TLAPS

Label == {"start", "lock", "suspended", "wait", "body", "notify", "wake_up", "resume",
          "register_cv", "unlock", "finished"}

\* The types of the variables, but for the buffer.
Types ==
    /\ load \in Loads
    /\ owner \in Coro \cup {NoOwner}
    /\ queue \in Seq(Coro)
    /\ m_list \in [Cv -> Seq(Coro)]
    /\ m_suspend_state \in [Coro -> BOOLEAN]
    /\ ready \in SUBSET Coro
    /\ cur \in [Coro -> Coro \cup {NoOwner}]
    /\ then \in [Coro -> {"start", "suspended", "finished", "wake_up"}]
    /\ pc \in [Coro -> Label]
    /\ walk \in [Coro -> Seq(Coro)]
    /\ m_num_wait_task \in [Coro -> Int]
    /\ m_close_state \in {complete_close, part_close, no_close}
    /\ num \in [Coro -> Nat]

\* c hands the mutex on, or does so for the awaiter at hand.
HandsOn == {"register_cv", "unlock", "resume"}

\* c acts as the owner of the mutex, its own or that of the awaiter at hand.
Holder(c) == \/ pc[c] \in HandsOn \cup {"wait", "body"}
             \/ pc[c] \in {"notify", "wake_up"} /\ c \notin Closer

\* The awaiter at hand, where c returns to, and whether c's awaiter has waited.
LocalInv ==
    \A c \in Coro :
        /\ pc[c] \notin HandsOn => cur[c] = NoOwner /\ then[c] = "start"
        /\ pc[c] \in {"register_cv", "resume"} => cur[c] \in Coro /\ m_suspend_state[cur[c]]
        /\ then[c] = "wake_up" => c \in Closer
        /\ pc[c] \in HandsOn => (m_suspend_state[c] <=> then[c] = "suspended")
        /\ pc[c] \notin HandsOn \cup {"suspended"} => ~m_suspend_state[c]

\* The mutex has one holder, or its owner has been resumed.
OwnerInv ==
    /\ \A c, d \in Coro : Holder(c) /\ Holder(d) => c = d
    /\ \A c \in Coro : Holder(c) => owner = IF cur[c] = NoOwner THEN c ELSE cur[c]
    /\ \A c \in ready : owner = c /\ pc[c] = "suspended" /\ \A d \in Coro : ~Holder(d)
    /\ owner = NoOwner => queue = <<>>

\* The places where an awaiter can be.
InQueue(w) == \E n \in 1..Len(queue) : queue[n] = w
InList(w) == \E v \in Cv : \E n \in 1..Len(m_list[v]) : m_list[v][n] = w
InWalk(w) == \E c \in Coro : \E n \in 1..Len(walk[c]) : walk[c][n] = w
AtHand(w) == \E c \in Coro : pc[c] \in {"register_cv", "resume"} /\ cur[c] = w

\* An awaiter is in one place at a time.
Apart(w) ==
    /\ InQueue(w) => ~InList(w) /\ ~InWalk(w) /\ ~AtHand(w) /\ w \notin ready
    /\ InList(w) => ~InWalk(w) /\ ~AtHand(w) /\ w \notin ready
    /\ InWalk(w) => ~AtHand(w) /\ w \notin ready

PlaceInv ==
    \A w \in Coro : /\ InQueue(w) => pc[w] = "suspended" \/ m_suspend_state[w]
                    /\ InList(w) \/ InWalk(w) => m_suspend_state[w]
                    /\ Apart(w)

\* It is there once.
OnceInv ==
    /\ \A n, k \in 1..Len(queue) : queue[n] = queue[k] => n = k
    /\ \A u, v \in Cv : \A n \in 1..Len(m_list[u]), k \in 1..Len(m_list[v]) :
            m_list[u][n] = m_list[v][k] => u = v /\ n = k
    /\ \A c, d \in Coro : \A n \in 1..Len(walk[c]), k \in 1..Len(walk[d]) :
            walk[c][n] = walk[d][k] => c = d /\ n = k

LockInv == Types /\ LocalInv /\ OwnerInv /\ PlaceInv /\ OnceInv
-----------------------------------------------------------------------------
(* What a step changes.                                                    *)

\* The actions that change each variable.
LEMMA Changes ==
    ASSUME NEW c \in Coro, step(c)
    PROVE  /\ \/ UNCHANGED <<owner, queue>>
              \/ lock_guard(c) \/ unlock(c) \/ wake_up(c)
           /\ \/ UNCHANGED m_list
              \/ register_cv(c, CvOf(cur[c])) \/ notify(c) \/ close_notify(c)
           /\ UNCHANGED m_suspend_state \/ await_resume(c, "body") \/ register_lock(c, cond(c), "body")
           /\ \/ UNCHANGED ready
              \/ unlock(c) \/ await_resume(c, "body") \/ resume(c, cond(cur[c]))
           /\ \/ UNCHANGED cur
              \/ unlock(c) \/ register_lock(c, cond(c), "body") \/ resume(c, cond(cur[c]))
              \/ wake_up(c)
           /\ \/ UNCHANGED then
              \/ recv_value(c) \/ unlock(c) \/ register_lock(c, cond(c), "body")
              \/ resume(c, cond(cur[c])) \/ wake_up(c)
           /\ UNCHANGED walk \/ wake_up(c) \/ notify(c) \/ close_notify(c)
           /\ \/ UNCHANGED m_num_wait_task
              \/ lock_guard(c) \/ await_resume(c, "body") \/ register_lock(c, cond(c), "body")
           /\ UNCHANGED load
           /\ UNCHANGED buf \/ send_value(c) \/ recv_value(c)
           /\ UNCHANGED m_close_state \/ recv_value(c) \/ close(c)
           /\ UNCHANGED num \/ send(c) \/ close_notify(c)
           /\ UNCHANGED out \/ send(c) \/ send_value(c) \/ recv(c) \/ recv_value(c)
  <1>. USE DEF cvVars, lockVars, chanVars
  <1>1. CASE send(c)
    BY <1>1, Zenon DEF send
  <1>2. CASE send_value(c)
    BY <1>2, Zenon DEF send_value
  <1>3. CASE recv(c)
    BY <1>3, Zenon DEF recv
  <1>4. CASE recv_value(c)
    BY <1>4, Zenon DEF recv_value
  <1>5. CASE close(c)
    BY <1>5, Zenon DEF close
  <1>6. CASE notify(c)
    BY <1>6, Zenon DEF notify, notify_one
  <1>7. CASE close_notify(c)
    BY <1>7, Zenon DEF close_notify, notify_all
  <1>8. CASE notified(c)
    BY <1>8, Zenon DEF notified
  <1>9. CASE wait(c)
    <2>0. UNCHANGED <<load, buf, m_close_state, num, out>>
      BY <1>9, Zenon DEF wait
    <2>1. CASE lock_guard(c)
      BY <2>0, <2>1, Zenon DEF lock_guard
    <2>2. CASE unlock(c)
      BY <2>0, <2>2, Zenon DEF unlock
    <2>3. CASE await_resume(c, "body")
      BY <2>0, <2>3, Zenon DEF await_resume
    <2>4. CASE register_lock(c, cond(c), "body")
      BY <2>0, <2>4, Zenon DEF register_lock
    <2>5. CASE register_cv(c, CvOf(cur[c]))
      BY <2>0, <2>5, Zenon DEF register_cv
    <2>6. CASE resume(c, cond(cur[c]))
      BY <2>0, <2>6, Zenon DEF resume
    <2>7. CASE wake_up(c)
      BY <2>0, <2>7, Zenon DEF wake_up
    <2>8. QED
      BY <1>9, <2>1, <2>2, <2>3, <2>4, <2>5, <2>6, <2>7, Zenon DEF wait
  <1>10. QED
    BY <1>1, <1>2, <1>3, <1>4, <1>5, <1>6, <1>7, <1>8, <1>9, Zenon DEF step

\* Coroutines and condition variables.
LEMMA Names ==
    /\ NoOwner \notin Coro
    /\ \A c : CvOf(c) \in Cv
    /\ m_producer_cv \in Cv /\ m_consumer_cv \in Cv
    /\ Producer \subseteq Coro /\ Consumer \subseteq Coro /\ Closer \subseteq Coro
    /\ Producer \cap Consumer = {} /\ Producer \cap Closer = {} /\ Consumer \cap Closer = {}
    /\ Coro = Producer \cup Consumer \cup Closer
  BY ChannelAssumption DEF CvOf

\* A step of c moves c to a label.
LEMMA PcStep ==
    ASSUME Types, NEW c \in Coro, step(c)
    PROVE  \E l \in Label : pc' = [pc EXCEPT ![c] = l]
  <1>0. /\ pc \in [Coro -> Label] /\ pc[c] \in Label /\ pc = [pc EXCEPT ![c] = pc[c]]
        /\ {"start", "lock", "suspended", "wait", "body", "notify", "wake_up", "resume",
            "register_cv", "unlock", "finished"} \subseteq Label
        /\ then[c] \in Label
    <2>1. pc \in [Coro -> Label] /\ then[c] \in {"start", "suspended", "finished", "wake_up"}
      BY DEF Types
    <2>2. QED
      BY <2>1 DEF Label
  <1>1. CASE send(c) \/ send_value(c) \/ recv(c) \/ recv_value(c) \/ close(c)
    BY <1>0, <1>1 DEF send, send_value, recv, recv_value, close, Goto
  <1>2. CASE notify(c) \/ close_notify(c) \/ notified(c)
    BY <1>0, <1>2 DEF notify, close_notify, notified, notify_one, notify_all, Goto
  <1>3. CASE wait(c)
    <2>1. CASE lock_guard(c) \/ register_cv(c, CvOf(cur[c]))
      BY <1>0, <2>1 DEF lock_guard, register_cv, Goto
    <2>2. CASE unlock(c) \/ wake_up(c) \/ resume(c, cond(cur[c]))
      BY <1>0, <2>2 DEF unlock, wake_up, resume, Return, Call, Goto
    <2>3. CASE await_resume(c, "body") \/ register_lock(c, cond(c), "body")
      BY <1>0, <2>3 DEF await_resume, register_lock, Call, Goto
    <2>4. QED
      BY <1>3, <2>1, <2>2, <2>3 DEF wait
  <1>4. QED
    BY <1>1, <1>2, <1>3 DEF step

\* It leaves the other coroutines where they are.
LEMMA Others ==
    ASSUME Types, NEW c \in Coro, step(c), NEW d \in Coro \ {c}
    PROVE  /\ pc'[d] = pc[d] /\ cur'[d] = cur[d] /\ then'[d] = then[d] /\ walk'[d] = walk[d]
           /\ m_suspend_state'[d] = m_suspend_state[d]
           /\ m_num_wait_task'[d] = m_num_wait_task[d] /\ num'[d] = num[d]
  <1>1. pc'[d] = pc[d]
    BY PcStep DEF Types
  <1>2. cur'[d] = cur[d]
    <2>1. cur \in [Coro -> Coro \cup {NoOwner}]
      BY DEF Types
    <2>2. cur' = cur \/ \E w : cur' = [cur EXCEPT ![c] = w]
      BY Changes, Zenon DEF unlock, register_lock, resume, wake_up, Return, Call
    <2>3. QED
      BY <2>1, <2>2
  <1>3. then'[d] = then[d]
    <2>1. then' = then \/ \E w : then' = [then EXCEPT ![c] = w]
      BY Changes, Zenon DEF recv_value, unlock, register_lock, resume, wake_up, Return
    <2>2. QED
      BY <2>1 DEF Types
  <1>4. walk'[d] = walk[d]
    BY Changes, Zenon DEF Types, wake_up, notify, close_notify, notify_one, notify_all
  <1>5. m_suspend_state'[d] = m_suspend_state[d]
    <2>1. m_suspend_state \in [Coro -> BOOLEAN]
      BY DEF Types
    <2>2. \/ m_suspend_state' = m_suspend_state
          \/ \E w : m_suspend_state' = [m_suspend_state EXCEPT ![c] = w]
      BY Changes, Zenon DEF await_resume, register_lock
    <2>3. QED
      BY <2>1, <2>2
  <1>6. m_num_wait_task'[d] = m_num_wait_task[d]
    BY Changes, Zenon DEF Types, lock_guard, await_resume, register_lock, register_wait
  <1>7. num'[d] = num[d]
    BY Changes, Zenon DEF Types, send, close_notify
  <1>8. QED
    BY <1>1, <1>2, <1>3, <1>4, <1>5, <1>6, <1>7

\* Steps keep the types.
LEMMA TypesKept ==
    ASSUME Types, LocalInv, NEW c \in Coro, step(c)
    PROVE  Types'
  <1>1. load' \in Loads
    BY Changes DEF Types
  <1>2. owner' \in Coro \cup {NoOwner} /\ queue' \in Seq(Coro)
    <2>0. owner \in Coro \cup {NoOwner} /\ queue \in Seq(Coro) /\ walk[c] \in Seq(Coro)
      BY DEF Types
    <2>1. CASE lock_guard(c)
      <3>1. Acquire(c) \/ Enqueue(c)
        BY <2>1 DEF lock_guard
      <3>2. QED
        BY <2>0, <3>1 DEF Acquire, Enqueue
    <2>2. CASE unlock(c)
      BY <2>0, <2>2 DEF unlock, Release
    <2>3. CASE wake_up(c)
      <3>1. PICK w \in Coro : w = Head(walk[c])
        BY <2>0, <2>3 DEF wake_up
      <3>2. Acquire(w) \/ Enqueue(w)
        BY <2>3, <3>1 DEF wake_up
      <3>3. QED
        BY <2>0, <3>2 DEF Acquire, Enqueue
    <2>4. QED
      BY <2>0, <2>1, <2>2, <2>3, Changes
  <1>3. m_list' \in [Cv -> Seq(Coro)] /\ walk' \in [Coro -> Seq(Coro)]
    <2>0. m_list \in [Cv -> Seq(Coro)] /\ walk \in [Coro -> Seq(Coro)]
      BY DEF Types
    <2>1. CASE register_cv(c, CvOf(cur[c]))
      <3>1. cur[c] \in Coro /\ CvOf(cur[c]) \in Cv
        BY <2>1, Names DEF register_cv, LocalInv
      <3>2. Append(m_list[CvOf(cur[c])], cur[c]) \in Seq(Coro)
        BY <2>0, <3>1
      <3>3. QED
        BY <2>0, <2>1, <3>2, Zenon DEF register_cv
    <2>2. ASSUME NEW v \in Cv, notify_one(c, v)
          PROVE  m_list' \in [Cv -> Seq(Coro)] /\ walk' \in [Coro -> Seq(Coro)]
      <3>1. CASE m_list[v] = <<>>
        BY <2>0, <2>2, <3>1 DEF notify_one
      <3>2. CASE m_list[v] # <<>>
        <4>1. m_list[v] \in Seq(Coro)
          BY <2>0
        <4>2. Tail(m_list[v]) \in Seq(Coro) /\ <<Head(m_list[v])>> \in Seq(Coro)
          BY <3>2, <4>1
        <4>3. QED
          BY <2>0, <2>2, <3>2, <4>2, Zenon DEF notify_one
      <3>3. QED
        BY <3>1, <3>2
    <2>3. ASSUME NEW v \in Cv, notify_all(c, v)
          PROVE  m_list' \in [Cv -> Seq(Coro)] /\ walk' \in [Coro -> Seq(Coro)]
      BY <2>0, <2>3 DEF notify_all
    <2>4. CASE wake_up(c)
      <3>1. Tail(walk[c]) \in Seq(Coro)
        BY <2>0, <2>4 DEF wake_up
      <3>2. QED
        BY <2>0, <2>4, <3>1 DEF wake_up
    <2>5. CASE notify(c)
      BY <2>2, <2>5, Names, Zenon DEF notify
    <2>6. CASE close_notify(c)
      BY <2>3, <2>6, Names, Zenon DEF close_notify
    <2>7. CASE UNCHANGED m_list /\ UNCHANGED walk
      BY <2>0, <2>7
    <2>8. QED
      BY <2>1, <2>4, <2>5, <2>6, <2>7, Changes DEF register_cv, wake_up
  <1>4. m_suspend_state' \in [Coro -> BOOLEAN]
    BY Changes, Zenon DEF Types, await_resume, register_lock
  <1>5. ready' \in SUBSET Coro
    <2>0. ready \subseteq Coro /\ queue \in Seq(Coro)
      BY DEF Types
    <2>1. CASE unlock(c)
      <3>1. queue # <<>> => Head(queue) \in Coro
        BY <2>0
      <3>2. QED
        BY <2>0, <2>1, <3>1 DEF unlock
    <2>2. CASE await_resume(c, "body")
      BY <2>0, <2>2 DEF await_resume
    <2>3. CASE resume(c, cond(cur[c]))
      BY <2>0, <2>3 DEF resume, LocalInv
    <2>4. QED
      BY <2>0, <2>1, <2>2, <2>3, Changes
  <1>6. cur' \in [Coro -> Coro \cup {NoOwner}]
    <2>0. cur \in [Coro -> Coro \cup {NoOwner}] /\ queue \in Seq(Coro) /\ walk[c] \in Seq(Coro)
      BY DEF Types
    <2>1. CASE unlock(c)
      <3>1. queue # <<>> => Head(queue) \in Coro
        BY <2>0
      <3>2. QED
        BY <2>0, <2>1, <3>1 DEF unlock, Return, Call
    <2>2. CASE register_lock(c, cond(c), "body")
      BY <2>0, <2>2 DEF register_lock, Call
    <2>3. CASE resume(c, cond(cur[c]))
      BY <2>0, <2>3 DEF resume, Return, Call
    <2>4. CASE wake_up(c)
      <3>1. Head(walk[c]) \in Coro
        BY <2>0, <2>4 DEF wake_up
      <3>2. QED
        BY <2>0, <2>4, <3>1 DEF wake_up, Call
    <2>5. QED
      BY <2>0, <2>1, <2>2, <2>3, <2>4, Changes
  <1>7. then' \in [Coro -> {"start", "suspended", "finished", "wake_up"}]
    BY Changes, Zenon DEF Types, recv_value, unlock, register_lock, resume, wake_up, Return
  <1>8. pc' \in [Coro -> Label]
    BY PcStep, Zenon DEF Types
  <1>9. m_num_wait_task' \in [Coro -> Int]
    <2>1. m_num_wait_task \in [Coro -> Int]
      BY DEF Types
    <2>2. m_num_wait_task' = m_num_wait_task \/ register_wait(c, 1) \/ register_wait(c, -1)
      BY Changes, Zenon DEF lock_guard, await_resume, register_lock
    <2>3. QED
      BY <2>1, <2>2 DEF register_wait
  <1>10. m_close_state' \in {complete_close, part_close, no_close}
    BY Changes DEF Types, recv_value, close
  <1>11. num' \in [Coro -> Nat]
    <2>1. num \in [Coro -> Nat]
      BY DEF Types
    <2>2. num' = num \/ num' = [num EXCEPT ![c] = @ + 1]
      BY Changes, Zenon DEF send, close_notify
    <2>3. QED
      BY <2>1, <2>2
  <1>12. QED
    BY <1>1, <1>2, <1>3, <1>4, <1>5, <1>6, <1>7, <1>8, <1>9, <1>10, <1>11, Zenon DEF Types

\* The steps that neither lock nor wait: the bodies of send(), recv() and close(),
\* and the beginning and the end of a notification.
Quiet(c) == \/ send(c) \/ send_value(c) \/ recv(c) \/ recv_value(c)
            \/ close(c) \/ notify(c) \/ close_notify(c) \/ notified(c)

\* They leave the mutex and the predicates of others alone.
LEMMA QuietSteps ==
    ASSUME Types, NEW c \in Coro, Quiet(c)
    PROVE  /\ step(c) /\ UNCHANGED <<owner, queue, m_suspend_state, ready, cur, m_num_wait_task>>
           /\ pc[c] \in {"start", "body", "notify", "wake_up"}
           /\ pc'[c] \in {"start", "lock", "finished", "unlock", "notify", "wake_up"}
           /\ then'[c] = then[c] \/ (then'[c] = "finished" /\ pc'[c] = "unlock")
           /\ Holder(c)' <=> Holder(c)
  <1>1. /\ UNCHANGED <<owner, queue, m_suspend_state, ready, cur, m_num_wait_task>> /\ step(c)
    BY Zenon DEF Quiet, step, send, send_value, recv, recv_value, close, notify, close_notify, notified,
         notify_one, notify_all, lockVars
  <1>2. pc \in [Coro -> Label] /\ then \in [Coro -> {"start", "suspended", "finished", "wake_up"}]
    BY DEF Types
  <1>3. c \in Producer \/ c \in Consumer => c \notin Closer
    BY Names
  <1>4. CASE send(c) \/ recv(c) \/ close(c)
    BY <1>1, <1>2, <1>3, <1>4 DEF send, recv, close, Goto, Holder, HandsOn
  <1>5. CASE send_value(c)
    BY <1>1, <1>2, <1>3, <1>5 DEF send_value, Goto, Holder, HandsOn
  <1>6. CASE recv_value(c)
    BY <1>1, <1>2, <1>3, <1>6 DEF recv_value, Goto, Holder, HandsOn
  <1>7. CASE notify(c) \/ close_notify(c)
    BY <1>1, <1>2, <1>7 DEF notify, close_notify, notify_one, notify_all, Goto, Holder, HandsOn
  <1>8. CASE notified(c)
    BY <1>1, <1>2, <1>8 DEF notified, Goto, Holder, HandsOn
  <1>9. QED
    BY <1>4, <1>5, <1>6, <1>7, <1>8 DEF Quiet

\* The steps of the mutex and the condition variables, as c sees them.
LEMMA DoesLock ==
    ASSUME Types, NEW c \in Coro, lock_guard(c)
    PROVE  /\ pc[c] = "lock"
           /\ \/ Acquire(c) /\ pc'[c] = "wait" /\ m_num_wait_task' = m_num_wait_task
              \/ Enqueue(c) /\ pc'[c] = "suspended" /\ register_wait(c, 1)
  BY DEF Types, lock_guard, Goto

\* unlock() resumes an awaiter of a condition variable, or returns.
LEMMA DoesUnlock ==
    ASSUME Types, NEW c \in Coro, unlock(c)
    PROVE  /\ pc[c] = "unlock"
           /\ \/ /\ queue # <<>> /\ m_suspend_state[Head(queue)] /\ pc'[c] = "resume"
                 /\ cur'[c] = Head(queue) /\ then' = then /\ ready' = ready
              \/ /\ queue = <<>> \/ ~m_suspend_state[Head(queue)]
                 /\ pc'[c] = then[c] /\ cur'[c] = NoOwner /\ then'[c] = "start"
                 /\ ready' = IF queue = <<>> THEN ready ELSE ready \cup {Head(queue)}
  <1>1. /\ pc \in [Coro -> Label] /\ then \in [Coro -> {"start", "suspended", "finished", "wake_up"}]
        /\ cur \in [Coro -> Coro \cup {NoOwner}]
    BY DEF Types
  <1>2. QED
    BY <1>1 DEF unlock, Return, Call, Goto

\* A coroutine that goes on.
LEMMA DoesResume ==
    ASSUME Types, NEW c \in Coro, await_resume(c, "body")
    PROVE  /\ pc[c] = "suspended" /\ ~m_suspend_state'[c] /\ c \in ready /\ ready' = ready \ {c}
           /\ pc'[c] = IF m_suspend_state[c] THEN "body" ELSE "wait"
  BY DEF Types, await_resume, Goto

\* register_lock() waits, or does not.
LEMMA DoesRegister ==
    ASSUME Types, NEW c \in Coro, register_lock(c, cond(c), "body")
    PROVE  /\ pc[c] = "wait"
           /\ \/ /\ cond(c) /\ pc'[c] = "body"
                 /\ UNCHANGED <<m_suspend_state, cur, then, m_num_wait_task>>
              \/ /\ ~cond(c) /\ pc'[c] = "register_cv" /\ cur'[c] = c /\ then'[c] = "suspended"
                 /\ m_suspend_state'[c] /\ register_wait(c, 1)
  <1>1. /\ pc \in [Coro -> Label] /\ then \in [Coro -> {"start", "suspended", "finished", "wake_up"}]
        /\ cur \in [Coro -> Coro \cup {NoOwner}] /\ m_suspend_state \in [Coro -> BOOLEAN]
    BY DEF Types
  <1>2. QED
    BY <1>1 DEF register_lock, Call, Goto

\* register_cv() goes on with unlock().
LEMMA DoesAppend ==
    ASSUME Types, NEW c \in Coro, register_cv(c, CvOf(cur[c]))
    PROVE  pc[c] = "register_cv" /\ pc'[c] = "unlock"
  BY DEF Types, register_cv, Goto

\* resume() submits the awaiter's coroutine, or puts the awaiter back.
LEMMA DoesCheck ==
    ASSUME Types, NEW c \in Coro, resume(c, cond(cur[c]))
    PROVE  /\ pc[c] = "resume"
           /\ \/ /\ cond(cur[c]) /\ ready' = ready \cup {cur[c]}
                 /\ pc'[c] = then[c] /\ cur'[c] = NoOwner /\ then'[c] = "start"
              \/ ~cond(cur[c]) /\ pc'[c] = "register_cv" /\ UNCHANGED <<cur, then, ready>>
  <1>1. /\ pc \in [Coro -> Label] /\ then \in [Coro -> {"start", "suspended", "finished", "wake_up"}]
        /\ cur \in [Coro -> Coro \cup {NoOwner}]
    BY DEF Types
  <1>2. QED
    BY <1>1 DEF resume, Return, Call, Goto

\* wake_up() queues an awaiter, or resumes it with the mutex.
LEMMA DoesWake ==
    ASSUME Types, NEW c \in Coro, wake_up(c)
    PROVE  /\ pc[c] = "wake_up" /\ walk[c] # <<>> /\ Head(walk[c]) \in Coro
           /\ \/ Enqueue(Head(walk[c])) /\ UNCHANGED <<cur, then, pc>>
              \/ /\ Acquire(Head(walk[c])) /\ pc'[c] = "resume" /\ cur'[c] = Head(walk[c])
                 /\ then'[c] = "wake_up"
  <1>1. /\ pc \in [Coro -> Label] /\ then \in [Coro -> {"start", "suspended", "finished", "wake_up"}]
        /\ cur \in [Coro -> Coro \cup {NoOwner}] /\ walk[c] \in Seq(Coro)
    BY DEF Types
  <1>2. walk[c] # <<>> /\ Head(walk[c]) \in Coro
    BY <1>1 DEF wake_up
  <1>3. QED
    BY <1>1, <1>2 DEF wake_up, Call, Goto

\* Every step is one of these, or a quiet one.
LEMMA Cases ==
    ASSUME NEW c \in Coro, step(c)
    PROVE  \/ Quiet(c) \/ lock_guard(c) \/ unlock(c) \/ await_resume(c, "body")
           \/ register_lock(c, cond(c), "body") \/ register_cv(c, CvOf(cur[c]))
           \/ resume(c, cond(cur[c])) \/ wake_up(c)
  BY Zenon DEF step, wait, Quiet

\* What a coroutine knows of its awaiter and of the awaiter at hand.
LEMMA LocalKept ==
    ASSUME LockInv, NEW c \in Coro, step(c)
    PROVE  LocalInv'
  <1>0. Types /\ LocalInv /\ OwnerInv
    BY DEF LockInv
  <1>. DEFINE OK(d) ==
                /\ pc'[d] \notin HandsOn => cur'[d] = NoOwner /\ then'[d] = "start"
                /\ pc'[d] \in {"register_cv", "resume"} =>
                        cur'[d] \in Coro /\ m_suspend_state'[cur'[d]]
                /\ then'[d] = "wake_up" => d \in Closer
                /\ pc'[d] \in HandsOn => (m_suspend_state'[d] <=> then'[d] = "suspended")
                /\ pc'[d] \notin HandsOn \cup {"suspended"} => ~m_suspend_state'[d]
  <1>1. ASSUME NEW d \in Coro \ {c}
        PROVE  OK(d)
    <2>1. \A w \in Coro : m_suspend_state[w] /\ ~m_suspend_state'[w] => w = c /\ await_resume(c, "body")
      <3>1. \A w \in Coro \ {c} : m_suspend_state'[w] = m_suspend_state[w]
        BY <1>0, Others, Zenon
      <3>2. register_lock(c, cond(c), "body") =>
                UNCHANGED m_suspend_state \/ m_suspend_state'[c]
        BY <1>0, DoesRegister
      <3>3. UNCHANGED m_suspend_state \/ await_resume(c, "body") \/ register_lock(c, cond(c), "body")
        BY Changes, Zenon
      <3>4. QED
        BY <3>1, <3>2, <3>3, Zenon
    <2>2. await_resume(c, "body") => ~Holder(d)
      BY <1>0, DoesResume DEF OwnerInv
    <2>3. pc[d] \in {"register_cv", "resume"} => Holder(d)
      BY DEF Holder, HandsOn
    <2>4. QED
      BY <1>0, <2>1, <2>2, <2>3, Others DEF LocalInv, HandsOn
  <1>2. OK(c)
    <2>0. /\ pc[c] \notin HandsOn => cur[c] = NoOwner /\ then[c] = "start"
          /\ pc[c] \in {"register_cv", "resume"} => cur[c] \in Coro /\ m_suspend_state[cur[c]]
          /\ then[c] = "wake_up" => c \in Closer
          /\ pc[c] \in HandsOn => (m_suspend_state[c] <=> then[c] = "suspended")
          /\ pc[c] \notin HandsOn \cup {"suspended"} => ~m_suspend_state[c]
      BY <1>0 DEF LocalInv
    <2>1. CASE Quiet(c)
      BY <1>0, <2>0, <2>1, QuietSteps DEF HandsOn
    <2>2. CASE lock_guard(c)
      BY <1>0, <2>0, <2>2, DoesLock DEF lock_guard, HandsOn
    <2>3. CASE unlock(c)
      <3>1. /\ queue # <<>> => Head(queue) \in Coro
            /\ then[c] \in {"start", "suspended", "finished", "wake_up"}
            /\ UNCHANGED m_suspend_state
        BY <1>0, <2>3 DEF Types, unlock
      <3>2. QED
        BY <1>0, <2>0, <2>3, <3>1, DoesUnlock DEF HandsOn
    <2>4. CASE await_resume(c, "body")
      BY <1>0, <2>0, <2>4, DoesResume, Zenon DEF await_resume, HandsOn
    <2>5. CASE register_lock(c, cond(c), "body")
      BY <1>0, <2>0, <2>5, DoesRegister DEF HandsOn
    <2>6. CASE register_cv(c, CvOf(cur[c]))
      BY <1>0, <2>0, <2>6, DoesAppend, Zenon DEF register_cv, HandsOn
    <2>7. CASE resume(c, cond(cur[c]))
      BY <1>0, <2>0, <2>7, DoesCheck, Zenon DEF resume, HandsOn, Types
    <2>8. CASE wake_up(c)
      <3>1. InWalk(Head(walk[c])) /\ UNCHANGED m_suspend_state
        <4>1. walk[c] \in Seq(Coro) /\ walk[c] # <<>>
          BY <1>0, <2>8 DEF Types, wake_up
        <4>2. 1 \in 1..Len(walk[c]) /\ walk[c][1] = Head(walk[c])
          BY <4>1
        <4>3. QED
          BY <2>8, <4>2 DEF InWalk, wake_up
      <3>2. m_suspend_state[Head(walk[c])]
        BY <1>0, <2>8, <3>1, DoesWake DEF LockInv, PlaceInv
      <3>3. Acquire(Head(walk[c])) => c \in Closer
        BY <1>0, <2>0, <2>8, Names, DoesWake DEF Acquire, OwnerInv, Holder, HandsOn
      <3>4. QED
        BY <1>0, <2>0, <2>8, <3>1, <3>2, <3>3, DoesWake DEF HandsOn
    <2>9. QED
      BY <2>1, <2>2, <2>3, <2>4, <2>5, <2>6, <2>7, <2>8, Cases
  <1>3. QED
    BY <1>1, <1>2 DEF LocalInv, HandsOn

\* The mutex has an owner, and it is the right one.
LEMMA OwnerKept ==
    ASSUME LockInv, NEW c \in Coro, step(c)
    PROVE  OwnerInv'
  <1>. DEFINE Account == IF cur'[c] = NoOwner THEN c ELSE cur'[c]
  <1>0. Types /\ LocalInv /\ OwnerInv /\ PlaceInv /\ NoOwner \notin Coro
    BY Names DEF LockInv
  <1>1. \A d \in Coro \ {c} : (Holder(d)' <=> Holder(d)) /\ pc'[d] = pc[d] /\ cur'[d] = cur[d]
    BY <1>0, Others DEF Holder, HandsOn
  <1>2. /\ \A d, e \in Coro : Holder(d) /\ Holder(e) => d = e
        /\ \A d \in Coro : Holder(d) => owner = IF cur[d] = NoOwner THEN d ELSE cur[d]
        /\ \A d \in ready : d \in Coro /\ owner = d /\ pc[d] = "suspended" /\ \A e \in Coro : ~Holder(e)
        /\ owner = NoOwner => queue = <<>>
    BY <1>0 DEF OwnerInv, Types
  <1>3. owner = NoOwner => ready = {} /\ \A d \in Coro : ~Holder(d)
    BY <1>0, <1>2
  <1>4. ASSUME UNCHANGED <<owner, ready>>, Holder(c)' <=> Holder(c), Holder(c) => owner = Account,
               pc[c] # "suspended", owner # NoOwner \/ queue' = queue
        PROVE  OwnerInv'
    BY <1>1, <1>2, <1>4 DEF OwnerInv
  <1>5. ASSUME Holder(c), Holder(c)' => owner' = Account,
               \A w \in ready' : w = owner' /\ w \in Coro /\ pc'[w] = "suspended" /\ ~Holder(c)',
               owner' = NoOwner => queue' = <<>>
        PROVE  OwnerInv'
    BY <1>1, <1>2, <1>5 DEF OwnerInv
  <1>6. ASSUME \A d \in Coro : ~Holder(d), ready' = {}, Holder(c)' => owner' = Account,
               owner' = NoOwner => queue' = <<>>
        PROVE  OwnerInv'
    BY <1>1, <1>6 DEF OwnerInv
  <1>7. pc[c] \notin HandsOn => cur[c] = NoOwner
    BY <1>0 DEF LocalInv
  <1>8. CASE Quiet(c)
    <2>1. /\ UNCHANGED <<owner, queue, ready, cur>> /\ (Holder(c)' <=> Holder(c))
          /\ pc[c] # "suspended"
      BY <1>0, <1>8, QuietSteps
    <2>2. QED
      BY <1>2, <1>4, <2>1
  <1>9. CASE lock_guard(c)
    <2>0. pc[c] = "lock" /\ cur'[c] = NoOwner /\ ~Holder(c) /\ UNCHANGED ready
      BY <1>0, <1>9, DoesLock DEF LocalInv, lock_guard, Holder, HandsOn
    <2>1. CASE Acquire(c)
      BY <1>0, <1>3, <1>6, <2>0, <2>1 DEF Acquire
    <2>2. CASE Enqueue(c) /\ pc'[c] = "suspended"
      <3>1. ~Holder(c)' /\ owner' = owner /\ owner # NoOwner
        BY <2>2 DEF Holder, HandsOn, Enqueue
      <3>2. QED
        BY <1>4, <2>0, <3>1
    <2>3. QED
      BY <1>0, <1>9, <2>1, <2>2, DoesLock
  <1>10. CASE unlock(c)
    <2>0. pc[c] = "unlock" /\ Holder(c) /\ ready = {} /\ (then[c] = "wake_up" => c \in Closer)
      <3>1. pc[c] = "unlock" /\ Holder(c)
        BY <1>10 DEF unlock, Holder, HandsOn
      <3>2. QED
        BY <1>0, <1>2, <3>1 DEF LocalInv
    <2>1. Release /\ (queue # <<>> => Head(queue) \in Coro /\ InQueue(Head(queue)))
      <3>1. queue \in Seq(Coro) /\ Release
        BY <1>0, <1>10 DEF unlock, Types
      <3>2. queue # <<>> => Head(queue) \in Coro /\ 1 \in 1..Len(queue) /\ queue[1] = Head(queue)
        BY <3>1
      <3>3. QED
        BY <3>1, <3>2 DEF InQueue
    <2>2. CASE /\ queue # <<>> /\ pc'[c] = "resume" /\ cur'[c] = Head(queue) /\ ready' = ready
      <3>1. owner' = Account /\ owner' # NoOwner
        BY <1>0, <2>1, <2>2 DEF Release
      <3>2. QED
        BY <1>5, <2>0, <2>2, <3>1
    <2>3. CASE /\ queue = <<>> \/ ~m_suspend_state[Head(queue)]
               /\ pc'[c] = then[c] /\ cur'[c] = NoOwner
               /\ ready' = IF queue = <<>> THEN ready ELSE ready \cup {Head(queue)}
      <3>1. then[c] \in {"start", "suspended", "finished", "wake_up"}
        BY <1>0 DEF Types
      <3>2. ~Holder(c)'
        BY <2>0, <2>3, <3>1 DEF Holder, HandsOn
      <3>3. CASE queue = <<>>
        BY <1>5, <2>0, <2>1, <2>3, <3>2, <3>3 DEF Release
      <3>4. CASE queue # <<>>
        <4>1. /\ pc[Head(queue)] = "suspended" /\ Head(queue) # c /\ Head(queue) \in Coro
          BY <1>0, <2>0, <2>1, <2>3, <3>4 DEF PlaceInv
        <4>2. owner' = Head(queue) /\ ready' = {Head(queue)}
          BY <2>0, <2>1, <2>3, <3>4 DEF Release
        <4>3. QED
          BY <1>0, <1>1, <1>5, <2>0, <3>2, <4>1, <4>2
      <3>5. QED
        BY <3>3, <3>4
    <2>4. QED
      BY <1>0, <1>10, <2>2, <2>3, DoesUnlock
  <1>11. CASE await_resume(c, "body")
    <2>1. /\ pc[c] = "suspended" /\ c \in ready /\ ready' = ready \ {c}
          /\ UNCHANGED <<owner, queue, cur>>
      BY <1>0, <1>11, DoesResume DEF await_resume, lockVars
    <2>2. /\ owner' = c /\ ready' = {} /\ cur'[c] = NoOwner /\ \A d \in Coro : ~Holder(d)
      BY <1>2, <1>7, <2>1 DEF HandsOn
    <2>3. QED
      BY <1>0, <1>6, <2>2
  <1>12. CASE register_lock(c, cond(c), "body")
    <2>1. /\ pc[c] = "wait" /\ UNCHANGED <<owner, queue, ready>>
          /\ pc'[c] \in {"body", "register_cv"} /\ (cur'[c] = cur[c] \/ cur'[c] = c)
      BY <1>0, <1>12, DoesRegister DEF register_lock, lockVars
    <2>2. Holder(c) /\ Holder(c)' /\ cur[c] = NoOwner
      BY <1>7, <2>1 DEF Holder, HandsOn
    <2>3. QED
      BY <1>2, <1>4, <2>1, <2>2
  <1>13. CASE register_cv(c, CvOf(cur[c]))
    <2>1. pc[c] = "register_cv" /\ pc'[c] = "unlock" /\ UNCHANGED <<owner, queue, ready, cur>>
      BY <1>0, <1>13, DoesAppend, Zenon DEF register_cv, lockVars
    <2>2. Holder(c) /\ Holder(c)'
      BY <2>1 DEF Holder, HandsOn
    <2>3. QED
      BY <1>2, <1>4, <2>1, <2>2
  <1>14. CASE resume(c, cond(cur[c]))
    <2>0. /\ pc[c] = "resume" /\ Holder(c) /\ UNCHANGED <<owner, queue>>
          /\ cur[c] \in Coro /\ m_suspend_state[cur[c]] /\ owner = cur[c] /\ ready = {}
      <3>1. pc[c] = "resume" /\ UNCHANGED <<owner, queue>>
        BY <1>14 DEF resume, lockVars
      <3>2. Holder(c)
        BY <3>1 DEF Holder, HandsOn
      <3>3. QED
        BY <1>0, <1>2, <3>1, <3>2 DEF LocalInv
    <2>1. CASE pc'[c] = "register_cv" /\ UNCHANGED <<cur, then, ready>>
      <3>1. Holder(c)'
        BY <2>1 DEF Holder, HandsOn
      <3>2. QED
        BY <1>2, <1>4, <2>0, <2>1, <3>1
    <2>2. CASE /\ ready' = ready \cup {cur[c]} /\ pc'[c] = then[c]
      <3>1. /\ then[c] \in {"start", "suspended", "finished", "wake_up"}
            /\ then[c] = "wake_up" => c \in Closer
            /\ m_suspend_state[c] <=> then[c] = "suspended"
        BY <1>0, <2>0 DEF Types, LocalInv, HandsOn
      <3>2. ~Holder(c)'
        BY <2>2, <3>1 DEF Holder, HandsOn
      <3>3. pc'[cur[c]] = "suspended"
        <4>1. CASE cur[c] = c
          BY <2>0, <2>2, <3>1, <4>1
        <4>2. CASE cur[c] # c
          <5>1. ~Holder(cur[c])
            BY <1>2, <2>0, <4>2
          <5>2. pc[cur[c]] = "suspended"
            BY <1>0, <2>0, <5>1 DEF LocalInv, Holder
          <5>3. QED
            BY <1>1, <2>0, <4>2, <5>2
        <4>3. QED
          BY <4>1, <4>2
      <3>4. QED
        BY <1>0, <1>5, <2>0, <2>2, <3>2, <3>3
    <2>3. QED
      BY <1>0, <1>14, <2>1, <2>2, DoesCheck
  <1>15. CASE wake_up(c)
    <2>0. pc[c] = "wake_up" /\ UNCHANGED ready /\ Head(walk[c]) \in Coro
      BY <1>0, <1>15, DoesWake, Zenon DEF wake_up
    <2>1. CASE Enqueue(Head(walk[c])) /\ UNCHANGED <<cur, then, pc>>
      <3>1. Holder(c)' <=> Holder(c)
        BY <2>1 DEF Holder
      <3>2. QED
        BY <1>2, <1>4, <2>0, <2>1, <3>1 DEF Enqueue
    <2>2. CASE Acquire(Head(walk[c])) /\ cur'[c] = Head(walk[c])
      BY <1>0, <1>3, <1>6, <2>0, <2>2 DEF Acquire
    <2>3. QED
      BY <1>0, <1>15, <2>1, <2>2, DoesWake
  <1>20. QED
    BY <1>8, <1>9, <1>10, <1>11, <1>12, <1>13, <1>14, <1>15, Cases

\* The positions of a sequence without its first element.
LEMMA TailPlaces ==
    ASSUME NEW S, NEW s \in Seq(S), s # <<>>
    PROVE  /\ Head(s) \in S /\ 1 \in 1..Len(s) /\ s[1] = Head(s)
           /\ \A n \in 1..Len(Tail(s)) : n + 1 \in 1..Len(s) /\ n + 1 # 1 /\ Tail(s)[n] = s[n + 1]
  OBVIOUS

\* The positions of a sequence with one more element.
LEMMA AppendPlaces ==
    ASSUME NEW S, NEW s \in Seq(S), NEW w \in S
    PROVE  \A n \in 1..Len(Append(s, w)) :
                \/ n \in 1..Len(s) /\ Append(s, w)[n] = s[n]
                \/ n \notin 1..Len(s) /\ n = Len(s) + 1 /\ Append(s, w)[n] = w
  OBVIOUS

\* Of the quiet steps, the notifications move awaiters.
LEMMA QuietLists ==
    ASSUME NEW c \in Coro, Quiet(c)
    PROVE  \/ UNCHANGED <<m_list, walk>>
           \/ \E v \in Cv : notify_one(c, v) \/ notify_all(c, v)
  <1>1. CASE send(c) \/ send_value(c) \/ recv(c) \/ recv_value(c) \/ close(c) \/ notified(c)
    BY <1>1, Zenon DEF send, send_value, recv, recv_value, close, notified
  <1>2. CASE notify(c)
    BY <1>2, Names DEF notify
  <1>3. CASE close_notify(c)
    BY <1>3, Names DEF close_notify
  <1>4. QED
    BY <1>1, <1>2, <1>3, Zenon DEF Quiet

\* An awaiter stays in one place.
LEMMA PlaceKept ==
    ASSUME LockInv, NEW c \in Coro, step(c)
    PROVE  PlaceInv'
  <1>. DEFINE Good(u) == /\ InQueue(u)' => pc'[u] = "suspended" \/ m_suspend_state'[u]
                         /\ InList(u)' \/ InWalk(u)' => m_suspend_state'[u]
                         /\ Apart(u)'
              Stays(u) == /\ pc[u] = "suspended" => pc'[u] = "suspended"
                          /\ m_suspend_state[u] => m_suspend_state'[u]
              Caught(u) == pc'[c] \in {"register_cv", "resume"} /\ cur'[c] = u
  <1>. SUFFICES ASSUME NEW u \in Coro PROVE Good(u)
    BY DEF PlaceInv, InQueue, InList, InWalk
  <1>0. Types /\ LocalInv /\ OwnerInv /\ PlaceInv /\ OnceInv /\ NoOwner \notin Coro
    BY Names DEF LockInv
  <1>1. /\ InQueue(u) => pc[u] = "suspended" \/ m_suspend_state[u]
        /\ InList(u) \/ InWalk(u) => m_suspend_state[u]
        /\ Apart(u)
        /\ AtHand(u) => m_suspend_state[u]
    <2>1. ASSUME AtHand(u)
          PROVE  m_suspend_state[u]
      <3>1. PICK d \in Coro : pc[d] \in {"register_cv", "resume"} /\ cur[d] = u
        BY <2>1, Zenon DEF AtHand
      <3>2. m_suspend_state[cur[d]]
        BY <1>0, <3>1, Zenon DEF LocalInv
      <3>3. QED
        BY <3>1, <3>2, Zenon
    <2>2. QED
      BY <1>0, <2>1, Zenon DEF PlaceInv
  <1>2. AtHand(u)' => AtHand(u) \/ Caught(u)
    BY <1>0, Others DEF AtHand
  <1>3. ~await_resume(c, "body") => Stays(u)
    <2>1. ~await_resume(c, "body") => pc[c] # "suspended" /\ (m_suspend_state[c] => m_suspend_state'[c])
      BY <1>0, Cases, Changes, QuietSteps, DoesLock, DoesUnlock, DoesRegister, DoesAppend, DoesCheck,
         DoesWake, Zenon
    <2>2. QED
      BY <1>0, <2>1, Others
  <1>4. ASSUME Stays(u), InQueue(u)' => InQueue(u), InList(u)' => InList(u), InWalk(u)' => InWalk(u),
               AtHand(u)' => AtHand(u), u \in ready' => u \in ready
        PROVE  Good(u)
    BY <1>1, <1>4 DEF Apart
  <1>5. /\ UNCHANGED queue => (InQueue(u)' => InQueue(u))
        /\ UNCHANGED m_list => (InList(u)' => InList(u))
        /\ UNCHANGED walk => (InWalk(u)' => InWalk(u))
    BY DEF InQueue, InList, InWalk
  <1>6. CASE Quiet(c)
    <2>0. UNCHANGED <<queue, m_suspend_state, ready>> /\ Stays(u) /\ ~Caught(u)
      BY <1>0, <1>3, <1>6, QuietSteps DEF await_resume
    <2>1. (InQueue(u)' => InQueue(u)) /\ (AtHand(u)' => AtHand(u))
      BY <1>2, <1>5, <2>0
    <2>2. CASE UNCHANGED <<m_list, walk>>
      BY <1>4, <1>5, <2>0, <2>1, <2>2
    <2>3. ASSUME NEW v \in Cv, notify_one(c, v) \/ notify_all(c, v)
          PROVE  Good(u)
      <3>0. m_list \in [Cv -> Seq(Coro)] /\ m_list[v] \in Seq(Coro) /\ walk \in [Coro -> Seq(Coro)]
        BY <1>0, <2>3 DEF Types
      <3>1. (InList(u)' => InList(u)) /\ (InWalk(u)' => InWalk(u) \/ (InList(u) /\ ~InList(u)'))
        <4>1. CASE m_list[v] # <<>> /\ notify_one(c, v)
          <5>1. /\ walk' = [walk EXCEPT ![c] = <<Head(m_list[v])>>]
                /\ m_list' = [m_list EXCEPT ![v] = Tail(m_list[v])]
            BY <4>1 DEF notify_one
          <5>2. /\ \A d \in Coro \ {c} : walk'[d] = walk[d]
                /\ walk'[c] = <<Head(m_list[v])>>
                /\ \A x \in Cv \ {v} : m_list'[x] = m_list[x]
                /\ m_list'[v] = Tail(m_list[v])
            BY <2>3, <3>0, <5>1
          <5>3. /\ 1 \in 1..Len(m_list[v]) /\ m_list[v][1] = Head(m_list[v])
                /\ \A n \in 1..Len(m_list'[v]) :
                      n + 1 \in 1..Len(m_list[v]) /\ n + 1 # 1 /\ m_list'[v][n] = m_list[v][n + 1]
            BY <3>0, <4>1, <5>2, TailPlaces
          <5>4. \A x \in Cv : \A n \in 1..Len(m_list'[x]) :
                   \E k \in 1..Len(m_list[x]) : (x = v => k # 1) /\ m_list'[x][n] = m_list[x][k]
            <6>1. TAKE x \in Cv
            <6>2. TAKE n \in 1..Len(m_list'[x])
            <6>3. CASE x = v
              BY <5>3, <6>3, Zenon
            <6>4. CASE x # v
              BY <5>2, <6>4
            <6>5. QED
              BY <6>3, <6>4
          <5>5. InWalk(u)' => InWalk(u) \/ u = m_list[v][1]
            BY <5>2, <5>3 DEF InWalk
          <5>6. InList(u)' => InList(u)
            BY <5>4 DEF InList
          <5>7. u = m_list[v][1] => InList(u) /\ ~InList(u)'
            <6>1. \A x \in Cv : \A k \in 1..Len(m_list[x]) : m_list[x][k] = m_list[v][1] => x = v /\ k = 1
              BY <1>0, <2>3, <5>3 DEF OnceInv
            <6>2. InList(m_list[v][1])
              BY <2>3, <5>3, Zenon DEF InList
            <6>3. \A x \in Cv : \A n \in 1..Len(m_list'[x]) : m_list'[x][n] # m_list[v][1]
              BY <5>4, <6>1
            <6>4. QED
              BY <6>2, <6>3, Zenon DEF InList
          <5>8. QED
            BY <5>5, <5>6, <5>7
        <4>2. CASE m_list[v] = <<>> /\ notify_one(c, v)
          BY <1>5, <4>2 DEF notify_one
        <4>3. CASE notify_all(c, v)
          <5>1. /\ \A d \in Coro \ {c} : walk'[d] = walk[d]
                /\ walk'[c] = m_list[v]
                /\ \A x \in Cv \ {v} : m_list'[x] = m_list[x]
                /\ m_list'[v] = <<>>
            BY <2>3, <3>0, <4>3 DEF notify_all
          <5>2. InList(u)' => InList(u)
            BY <5>1 DEF InList
          <5>3. InWalk(u)' => InWalk(u) \/ \E n \in 1..Len(m_list[v]) : m_list[v][n] = u
            BY <5>1 DEF InWalk
          <5>4. (\E n \in 1..Len(m_list[v]) : m_list[v][n] = u) => InList(u) /\ ~InList(u)'
            BY <1>0, <2>3, <5>1 DEF InList, OnceInv
          <5>5. QED
            BY <5>2, <5>3, <5>4
        <4>4. QED
          BY <2>3, <4>1, <4>2, <4>3
      <3>2. CASE InWalk(u)' => InWalk(u)
        BY <1>4, <2>0, <2>1, <3>1, <3>2
      <3>3. CASE InList(u) /\ ~InList(u)'
        BY <1>1, <2>0, <2>1, <3>3 DEF Apart
      <3>4. QED
        BY <3>1, <3>2, <3>3
    <2>4. QED
      BY <1>6, <2>2, <2>3, QuietLists, Zenon
  <1>7. CASE lock_guard(c)
    <2>0. /\ UNCHANGED <<m_list, m_suspend_state, ready, cur, walk>> /\ pc[c] = "lock"
          /\ pc'[c] \in {"wait", "suspended"} /\ Stays(u)
      BY <1>0, <1>3, <1>7, DoesLock DEF lock_guard, await_resume
    <2>1. (AtHand(u)' => AtHand(u)) /\ (InList(u)' => InList(u)) /\ (InWalk(u)' => InWalk(u))
      BY <1>2, <1>5, <2>0
    <2>2. CASE Acquire(c)
      BY <1>4, <1>5, <2>0, <2>1, <2>2 DEF Acquire
    <2>3. CASE Enqueue(c) /\ pc'[c] = "suspended"
      <3>1. InQueue(u)' => InQueue(u) \/ u = c
        <4>1. queue \in Seq(Coro) /\ queue' = Append(queue, c)
          BY <1>0, <2>3 DEF Types, Enqueue
        <4>2. QED
          BY <4>1, AppendPlaces DEF InQueue
      <3>2. CASE u = c
        <4>1. ~m_suspend_state[u] /\ u \notin ready
          BY <1>0, <2>0, <3>2 DEF LocalInv, OwnerInv, HandsOn
        <4>2. ~InList(u) /\ ~InWalk(u) /\ ~AtHand(u)
          BY <1>1, <4>1
        <4>3. QED
          BY <2>0, <2>1, <2>3, <3>2, <4>1, <4>2 DEF Apart
      <3>3. CASE u # c
        BY <1>4, <2>0, <2>1, <3>1, <3>3
      <3>4. QED
        BY <3>2, <3>3
    <2>4. QED
      BY <1>0, <1>7, <2>2, <2>3, DoesLock
  <1>8. CASE unlock(c)
    <2>0. /\ UNCHANGED <<m_list, walk>> /\ Release /\ queue \in Seq(Coro) /\ Stays(u)
          /\ then[c] \in {"start", "suspended", "finished", "wake_up"}
      BY <1>0, <1>3, <1>8 DEF unlock, await_resume, Types
    <2>1. (InList(u)' => InList(u)) /\ (InWalk(u)' => InWalk(u))
      BY <1>5, <2>0
    <2>2. CASE queue = <<>>
      <3>1. UNCHANGED <<queue, ready>> /\ ~Caught(u)
        BY <1>0, <1>8, <2>0, <2>2, DoesUnlock DEF Release
      <3>2. QED
        BY <1>2, <1>4, <1>5, <2>0, <2>1, <3>1
    <2>3. CASE queue # <<>>
      <3>1. /\ InQueue(u)' => InQueue(u)
            /\ u = Head(queue) => InQueue(u) /\ ~InQueue(u)'
        <4>1. queue' = Tail(queue)
          BY <2>0, <2>3 DEF Release
        <4>2. /\ 1 \in 1..Len(queue) /\ queue[1] = Head(queue)
              /\ \A n \in 1..Len(queue') : n + 1 \in 1..Len(queue) /\ n + 1 # 1 /\ queue'[n] = queue[n + 1]
          BY <2>0, <2>3, <4>1, TailPlaces
        <4>3. QED
          BY <1>0, <4>2 DEF InQueue, OnceInv
      <3>2. \/ ready' = ready /\ cur'[c] = Head(queue)
            \/ ready' = ready \cup {Head(queue)} /\ ~Caught(u)
        BY <1>0, <1>8, <2>0, <2>3, DoesUnlock
      <3>3. CASE u = Head(queue)
        BY <1>1, <2>0, <2>1, <3>1, <3>3 DEF Apart
      <3>4. CASE u # Head(queue)
        BY <1>2, <1>4, <2>0, <2>1, <3>1, <3>2, <3>4
      <3>5. QED
        BY <3>3, <3>4
    <2>4. QED
      BY <2>2, <2>3
  <1>9. CASE await_resume(c, "body")
    <2>1. /\ UNCHANGED <<queue, m_list, walk, cur>> /\ c \in ready /\ ready' = ready \ {c}
          /\ pc'[c] \in {"wait", "body"}
      BY <1>0, <1>9, DoesResume, Zenon DEF await_resume, lockVars
    <2>2. (AtHand(u)' => AtHand(u))
      BY <1>2, <2>1
    <2>3. CASE u = c
      BY <1>1, <1>5, <2>1, <2>2, <2>3 DEF Apart
    <2>4. CASE u # c
      <3>1. Stays(u)
        BY <1>0, <2>4, Others
      <3>2. QED
        BY <1>4, <1>5, <2>1, <2>2, <3>1
    <2>5. QED
      BY <2>3, <2>4
  <1>10. CASE register_lock(c, cond(c), "body")
    <2>1. /\ UNCHANGED <<queue, m_list, ready, walk>> /\ pc[c] = "wait" /\ Stays(u)
          /\ ~m_suspend_state[c] /\ (Caught(u) => u = c)
      BY <1>0, <1>3, <1>10, DoesRegister DEF register_lock, lockVars, LocalInv, HandsOn, await_resume
    <2>2. CASE u = c
      <3>1. ~InQueue(u) /\ ~InList(u) /\ ~InWalk(u)
        BY <1>1, <2>1, <2>2
      <3>2. QED
        BY <1>5, <2>1, <3>1 DEF Apart
    <2>3. CASE u # c
      BY <1>2, <1>4, <1>5, <2>1, <2>3
    <2>4. QED
      BY <2>2, <2>3
  <1>11. CASE register_cv(c, CvOf(cur[c]))
    <2>0. /\ UNCHANGED <<queue, ready, walk, cur, m_suspend_state>> /\ Stays(u)
          /\ pc[c] = "register_cv" /\ pc'[c] = "unlock"
          /\ cur[c] \in Coro /\ m_suspend_state[cur[c]]
      BY <1>0, <1>3, <1>11, DoesAppend, Zenon DEF register_cv, lockVars, LocalInv, await_resume
    <2>1. /\ InQueue(u)' => InQueue(u)
          /\ InWalk(u)' => InWalk(u)
          /\ AtHand(u)' => AtHand(u)
      BY <1>2, <1>5, <2>0
    <2>2. InList(u)' => InList(u) \/ u = cur[c]
      <3>1. PICK v \in Cv : v = CvOf(cur[c])
        BY Names
      <3>2. m_list \in [Cv -> Seq(Coro)] /\ m_list' = [m_list EXCEPT ![v] = Append(@, cur[c])]
        BY <1>0, <1>11, <3>1 DEF Types, register_cv
      <3>3. /\ \A x \in Cv \ {v} : m_list'[x] = m_list[x]
            /\ m_list'[v] = Append(m_list[v], cur[c]) /\ m_list[v] \in Seq(Coro)
        BY <3>2
      <3>4. \A n \in 1..Len(m_list'[v]) :
                (n \in 1..Len(m_list[v]) /\ m_list'[v][n] = m_list[v][n]) \/ m_list'[v][n] = cur[c]
        BY <2>0, <3>3, AppendPlaces
      <3>5. QED
        BY <3>3, <3>4 DEF InList
    <2>3. CASE u = cur[c]
      <3>1. Holder(c) /\ AtHand(u) /\ (\A d \in Coro \ {c} : ~Holder(d)) /\ ready = {}
        BY <1>0, <2>0, <2>3 DEF OwnerInv, Holder, HandsOn, AtHand
      <3>2. ~AtHand(u)'
        <4>1. \A d \in Coro \ {c} : pc'[d] = pc[d]
          BY <1>0, Others, Zenon
        <4>2. \A d \in Coro \ {c} : pc[d] \notin {"register_cv", "resume"}
          BY <3>1 DEF Holder, HandsOn
        <4>3. QED
          BY <2>0, <4>1, <4>2 DEF AtHand
      <3>3. QED
        BY <1>1, <2>0, <2>1, <2>3, <3>1, <3>2 DEF Apart
    <2>4. CASE u # cur[c]
      BY <1>4, <2>0, <2>1, <2>2, <2>4
    <2>5. QED
      BY <2>3, <2>4
  <1>12. CASE resume(c, cond(cur[c]))
    <2>0. /\ UNCHANGED <<queue, m_list, walk>> /\ Stays(u) /\ pc[c] = "resume"
          /\ ready' \subseteq ready \cup {cur[c]} /\ (Caught(u) => u = cur[c])
      <3>1. then[c] \in {"start", "suspended", "finished", "wake_up"}
        BY <1>0, Zenon DEF Types
      <3>2. QED
        BY <1>0, <1>3, <1>12, <3>1, DoesCheck DEF resume, lockVars, await_resume
    <2>1. CASE u = cur[c]
      <3>1. AtHand(u)
        BY <2>0, <2>1 DEF AtHand
      <3>2. QED
        BY <1>1, <1>5, <2>0, <3>1 DEF Apart
    <2>2. CASE u # cur[c]
      BY <1>2, <1>4, <1>5, <2>0, <2>2
    <2>3. QED
      BY <2>1, <2>2
  <1>13. CASE wake_up(c)
    <2>0. UNCHANGED <<m_list, ready>> /\ Stays(u) /\ walk' = [walk EXCEPT ![c] = Tail(@)]
      BY <1>3, <1>13 DEF wake_up, await_resume
    <2>1. PICK w \in Coro : w = Head(walk[c])
      BY <1>0, <1>13, DoesWake
    <2>2. /\ (InWalk(u)' => InWalk(u)) /\ InWalk(w) /\ ~InWalk(w)'
      <3>1. walk \in [Coro -> Seq(Coro)] /\ walk[c] \in Seq(Coro) /\ walk[c] # <<>>
        BY <1>0, <1>13 DEF Types, wake_up
      <3>2. walk'[c] = Tail(walk[c]) /\ \A d \in Coro \ {c} : walk'[d] = walk[d]
        BY <2>0, <3>1
      <3>3. /\ 1 \in 1..Len(walk[c]) /\ walk[c][1] = w
            /\ \A n \in 1..Len(walk'[c]) :
                    n + 1 \in 1..Len(walk[c]) /\ n + 1 # 1 /\ walk'[c][n] = walk[c][n + 1]
        BY <2>1, <3>1, <3>2, TailPlaces
      <3>4. InWalk(w) /\ (InWalk(u)' => InWalk(u))
        BY <3>2, <3>3, Zenon DEF InWalk
      <3>5. \A d \in Coro : \A n \in 1..Len(walk'[d]) : walk'[d][n] # w
        <4>1. \A n \in 1..Len(walk'[c]) : walk'[c][n] # w
          <5>1. \A k \in 1..Len(walk[c]) : walk[c][k] = walk[c][1] => k = 1
            BY <1>0, <3>3 DEF OnceInv
          <5>2. QED
            BY <3>3, <5>1
        <4>2. \A d \in Coro \ {c} : \A n \in 1..Len(walk[d]) : walk[d][n] # w
          BY <1>0, <3>3, Zenon DEF OnceInv
        <4>3. QED
          BY <3>2, <4>1, <4>2, Zenon
      <3>6. QED
        BY <3>3, <3>4, <3>5 DEF InWalk
    <2>3. (InQueue(u)' => InQueue(u) \/ u = w) /\ (Caught(u) => u = w)
             /\ (UNCHANGED queue \/ ~Caught(u))
      <3>1. queue \in Seq(Coro)
        BY <1>0, Zenon DEF Types
      <3>2. CASE Enqueue(w) /\ UNCHANGED <<cur, pc>>
        <4>1. pc[c] = "wake_up"
          BY <1>13 DEF wake_up
        <4>2. InQueue(u)' => InQueue(u) \/ u = w
          <5>1. queue' = Append(queue, w) /\ w \in Coro
            BY <3>2 DEF Enqueue
          <5>2. \A n \in 1..Len(queue') :
                    (n \in 1..Len(queue) /\ queue'[n] = queue[n]) \/ queue'[n] = w
            BY <3>1, <5>1, AppendPlaces
          <5>3. QED
            BY <5>2, Zenon DEF InQueue
        <4>3. QED
          BY <3>2, <4>1, <4>2
      <3>3. CASE Acquire(w) /\ cur'[c] = w
        BY <1>5, <3>3 DEF Acquire
      <3>4. QED
        BY <1>0, <1>13, <2>1, <3>2, <3>3, DoesWake
    <2>4. CASE u = w
      <3>1. ~InQueue(u) /\ ~InList(u) /\ ~AtHand(u) /\ u \notin ready /\ m_suspend_state[u]
        BY <1>1, <2>2, <2>4 DEF Apart
      <3>2. QED
        BY <1>2, <1>5, <2>0, <2>2, <2>3, <2>4, <3>1 DEF Apart
    <2>5. CASE u # w
      BY <1>2, <1>4, <1>5, <2>0, <2>2, <2>3, <2>5
    <2>6. QED
      BY <2>4, <2>5
  <1>20. QED
    BY <1>6, <1>7, <1>8, <1>9, <1>10, <1>11, <1>12, <1>13, Cases
=============================================================================
