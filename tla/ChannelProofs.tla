--------------------------- MODULE ChannelProofs ---------------------------
(***************************************************************************)
(* Proofs about the channel, for any capacity and any workload: the three  *)
(* buffers are bounded queues, the predicates hold where they are relied   *)
(* on, and the channel implements FifoChannel.                             *)
(***************************************************************************)
EXTENDS ChannelLockProofs, RingProofs

\* What can be in a slot of the buffer.
Slot == (Producer \X Nat) \cup {empty_slot}

\* Who has the mutex after a wait finds the predicate true; a channel that is
\* completely closed is drained; the n-th call of a producer sends its n-th value.
DataInv ==
    /\ RingOK(buf, capacity, Slot)
    /\ PredicateHolds
    /\ \A c \in ready : m_suspend_state[c] => cond(c)
    /\ m_close_state = complete_close => empty(buf, capacity)
    /\ \A p \in Producer : /\ num[p] <= load.calls[p]
                           /\ pc[p] # "start" => num[p] > 0

IInv == LockInv /\ CountsSuspended /\ DataInv
-----------------------------------------------------------------------------
(* The workload.                                                           *)

\* The number of calls of a producer.
LEMMA Calls ==
    ASSUME NEW l \in Loads, NEW p \in Producer
    PROVE  l.calls[p] \in Nat
  <1>1. Loads \subseteq [capacity : Nat, calls : [Producer -> Nat], consumers : SUBSET Consumer]
    BY ChannelAssumption
  <1>2. QED
    BY <1>1

\* The capacity.
LEMMA CapacityFits ==
    ASSUME load \in Loads
    PROVE  /\ CapacityOK(capacity) /\ empty_slot \in Slot
           /\ Slots(capacity) \in Nat \ {0} /\ SizeMax \in Nat
  <1>1. CapacityOK(capacity) /\ SizeMax \in Nat
    BY ChannelAssumption DEF CapacityOK, capacity
  <1>2. QED
    BY <1>1, Capacities DEF Slot

-----------------------------------------------------------------------------
(* Steps.                                                                  *)

\* It is there once.
LEMMA OnceKept ==
    ASSUME LockInv, NEW c \in Coro, step(c)
    PROVE  OnceInv'
  <1>0. Types /\ LocalInv /\ OwnerInv /\ PlaceInv
    BY DEF LockInv
  <1>1. /\ \A n, k \in 1..Len(queue) : queue[n] = queue[k] => n = k
        /\ \A u, v \in Cv : \A n \in 1..Len(m_list[u]), k \in 1..Len(m_list[v]) :
                m_list[u][n] = m_list[v][k] => u = v /\ n = k
        /\ \A b, d \in Coro : \A n \in 1..Len(walk[b]), k \in 1..Len(walk[d]) :
                walk[b][n] = walk[d][k] => b = d /\ n = k
    BY DEF LockInv, OnceInv
  <1>2. /\ queue \in Seq(Coro) /\ m_list \in [Cv -> Seq(Coro)] /\ walk \in [Coro -> Seq(Coro)]
    BY <1>0, Zenon DEF Types
  <1>3. \A n, k \in 1..Len(queue') : queue'[n] = queue'[k] => n = k
    <2>1. CASE UNCHANGED queue
      BY <1>1, <2>1
    <2>2. CASE queue # <<>> /\ queue' = Tail(queue)
      <3>1. \A n \in 1..Len(queue') : n + 1 \in 1..Len(queue) /\ queue'[n] = queue[n + 1]
        BY <1>2, <2>2, TailPlaces
      <3>2. QED
        BY <1>1, <3>1
    <2>3. ASSUME NEW w \in Coro, Enqueue(w)
          PROVE  \A n, k \in 1..Len(queue') : queue'[n] = queue'[k] => n = k
      <3>1. \A n \in 1..Len(queue') :
                \/ n \in 1..Len(queue) /\ queue'[n] = queue[n]
                \/ n \notin 1..Len(queue) /\ n = Len(queue) + 1 /\ queue'[n] = w
        BY <1>2, <2>3, AppendPlaces DEF Enqueue
      <3>2. \A n \in 1..Len(queue) : queue[n] # w
        BY <2>3 DEF Enqueue
      <3>3. QED
        BY <1>1, <3>1, <3>2
    <2>4. QED
      <3>1. CASE lock_guard(c)
        BY <2>1, <2>3, <3>1 DEF lock_guard, Acquire
      <3>2. CASE unlock(c)
        BY <2>1, <2>2, <3>2 DEF unlock, Release
      <3>3. CASE wake_up(c)
        BY <1>0, <2>1, <2>3, <3>3, DoesWake DEF Acquire
      <3>4. QED
        BY <2>1, <3>1, <3>2, <3>3, Changes, Zenon
  <1>4. ASSUME NEW v \in Cv, m_list[v] # <<>>, m_list' = [m_list EXCEPT ![v] = Tail(@)]
        PROVE  \A x, y \in Cv : \A n \in 1..Len(m_list'[x]), k \in 1..Len(m_list'[y]) :
                    m_list'[x][n] = m_list'[y][k] => x = y /\ n = k
    <2>1. \A x \in Cv : x # v => m_list'[x] = m_list[x]
      BY <1>2, <1>4
    <2>2. m_list'[v] = Tail(m_list[v]) /\ m_list[v] \in Seq(Coro)
      BY <1>2, <1>4
    <2>3. \A n \in 1..Len(m_list'[v]) : n + 1 \in 1..Len(m_list[v]) /\ m_list'[v][n] = m_list[v][n + 1]
      <3>1. \A n \in 1..Len(Tail(m_list[v])) :
                n + 1 \in 1..Len(m_list[v]) /\ Tail(m_list[v])[n] = m_list[v][n + 1]
        BY <1>4, <2>2, TailPlaces
      <3>2. QED
        BY <2>2, <3>1, Zenon
    <2>4. \A n, k \in 1..Len(m_list'[v]) : m_list'[v][n] = m_list'[v][k] => n = k
      BY <1>1, <1>4, <2>3
    <2>5. \A x \in Cv : x # v => \A n \in 1..Len(m_list'[v]), k \in 1..Len(m_list'[x]) :
              m_list'[v][n] # m_list'[x][k]
      BY <1>1, <1>4, <2>1, <2>3
    <2>6. QED
      BY <1>1, <2>1, <2>4, <2>5
  <1>5. \A u, v \in Cv : \A n \in 1..Len(m_list'[u]), k \in 1..Len(m_list'[v]) :
            m_list'[u][n] = m_list'[v][k] => u = v /\ n = k
    <2>1. CASE UNCHANGED m_list
      BY <1>1, <2>1
    <2>2. CASE register_cv(c, CvOf(cur[c]))
      <3>1. PICK v \in Cv : v = CvOf(cur[c])
        BY Names
      <3>2. /\ m_list' = [m_list EXCEPT ![v] = Append(@, cur[c])]
            /\ cur[c] \in Coro /\ AtHand(cur[c])
        BY <1>0, <2>2, <3>1 DEF register_cv, LocalInv, AtHand
      <3>3. ~InList(cur[c])
        BY <1>0, <3>2 DEF PlaceInv, Apart
      <3>4. \A x \in Cv : x # v => m_list'[x] = m_list[x]
        BY <1>2, <3>2
      <3>5. m_list'[v] = Append(m_list[v], cur[c]) /\ m_list[v] \in Seq(Coro)
        BY <1>2, <3>2
      <3>6. \A n \in 1..Len(m_list'[v]) :
                \/ n \in 1..Len(m_list[v]) /\ m_list'[v][n] = m_list[v][n]
                \/ n \notin 1..Len(m_list[v]) /\ n = Len(m_list[v]) + 1 /\ m_list'[v][n] = cur[c]
        BY <3>2, <3>5, AppendPlaces
      <3>7. \A x \in Cv : \A n \in 1..Len(m_list[x]) : m_list[x][n] # cur[c]
        BY <3>3 DEF InList
      <3>8. QED
        BY <1>1, <3>4, <3>6, <3>7
    <2>3. ASSUME NEW v \in Cv, m_list' = [m_list EXCEPT ![v] = <<>>]
          PROVE  \A x, y \in Cv : \A n \in 1..Len(m_list'[x]), k \in 1..Len(m_list'[y]) :
                    m_list'[x][n] = m_list'[y][k] => x = y /\ n = k
      <3>1. (\A x \in Cv : x # v => m_list'[x] = m_list[x]) /\ Len(m_list'[v]) = 0
        BY <1>2, <2>3
      <3>2. QED
        BY <1>1, <3>1
    <2>4. CASE notify(c)
      BY <1>4, <2>1, <2>4, Names, Zenon DEF notify, notify_one
    <2>5. CASE close_notify(c)
      BY <2>3, <2>5, Names, Zenon DEF close_notify, notify_all
    <2>6. QED
      BY <2>1, <2>2, <2>4, <2>5, Changes
  <1>6. \A b, d \in Coro : \A n \in 1..Len(walk'[b]), k \in 1..Len(walk'[d]) :
            walk'[b][n] = walk'[d][k] => b = d /\ n = k
    <2>0. \A d \in Coro : d # c => walk'[d] = walk[d]
      BY <1>0, Others, Zenon
    <2>1. CASE UNCHANGED walk
      BY <1>1, <2>1
    <2>9. ASSUME \A d \in Coro : d # c => \A n \in 1..Len(walk'[c]), k \in 1..Len(walk'[d]) :
                    walk'[c][n] # walk'[d][k],
                 \A n, k \in 1..Len(walk'[c]) : walk'[c][n] = walk'[c][k] => n = k
          PROVE  \A b, d \in Coro : \A n \in 1..Len(walk'[b]), k \in 1..Len(walk'[d]) :
                    walk'[b][n] = walk'[d][k] => b = d /\ n = k
      <3>1. \A b, d \in Coro \ {c} : \A n \in 1..Len(walk'[b]), k \in 1..Len(walk'[d]) :
                walk'[b][n] = walk'[d][k] => b = d /\ n = k
        BY <1>1, <2>0
      <3>2. QED
        BY <2>9, <3>1
    <2>2. CASE wake_up(c)
      <3>1. walk'[c] = Tail(walk[c]) /\ walk[c] # <<>> /\ walk[c] \in Seq(Coro)
        BY <1>2, <2>2 DEF wake_up
      <3>2. \A n \in 1..Len(walk'[c]) : n + 1 \in 1..Len(walk[c]) /\ walk'[c][n] = walk[c][n + 1]
        BY <3>1, TailPlaces
      <3>3. \A d \in Coro : d # c => \A n \in 1..Len(walk'[c]), k \in 1..Len(walk'[d]) :
                walk'[c][n] # walk'[d][k]
        BY <1>1, <2>0, <3>2
      <3>4. \A n, k \in 1..Len(walk'[c]) : walk'[c][n] = walk'[c][k] => n = k
        <4>1. \A n, k \in 1..Len(walk[c]) : walk[c][n] = walk[c][k] => n = k
          BY <1>1
        <4>2. TAKE n, k \in 1..Len(walk'[c])
        <4>3. walk'[c][n] = walk'[c][k] => n + 1 = k + 1
          BY <3>2, <4>1, <4>2
        <4>4. n \in Int /\ k \in Int
          BY <4>2
        <4>5. QED
          BY <4>3, <4>4
      <3>5. QED
        BY <2>9, <3>3, <3>4
    <2>3. ASSUME NEW v \in Cv,
                 \A n \in 1..Len(walk'[c]) : n \in 1..Len(m_list[v]) /\ walk'[c][n] = m_list[v][n]
          PROVE  \A b, d \in Coro : \A n \in 1..Len(walk'[b]), k \in 1..Len(walk'[d]) :
                    walk'[b][n] = walk'[d][k] => b = d /\ n = k
      <3>1. \A d \in Coro : \A n \in 1..Len(m_list[v]), k \in 1..Len(walk[d]) : m_list[v][n] # walk[d][k]
        <4>1. TAKE d \in Coro
        <4>2. TAKE n \in 1..Len(m_list[v]), k \in 1..Len(walk[d])
        <4>3. m_list[v][n] \in Coro
          BY <1>2, <2>3, <4>2
        <4>4. InList(m_list[v][n]) /\ (m_list[v][n] = walk[d][k] => InWalk(m_list[v][n]))
          BY <2>3, <4>2 DEF InList, InWalk
        <4>5. QED
          BY <1>0, <4>3, <4>4 DEF PlaceInv, Apart
      <3>2. \A d \in Coro : d # c => \A n \in 1..Len(walk'[c]), k \in 1..Len(walk'[d]) :
                walk'[c][n] # walk'[d][k]
        BY <2>0, <2>3, <3>1
      <3>3. \A n, k \in 1..Len(walk'[c]) : walk'[c][n] = walk'[c][k] => n = k
        <4>1. \A n, k \in 1..Len(m_list[v]) : m_list[v][n] = m_list[v][k] => n = k
          BY <1>1, <2>3
        <4>2. QED
          BY <2>3, <4>1, Zenon
      <3>4. QED
        BY <2>9, <3>2, <3>3
    <2>4. CASE notify(c)
      <3>1. PICK v \in Cv : notify_one(c, v)
        BY <2>4, Names DEF notify
      <3>2. CASE m_list[v] = <<>>
        BY <2>1, <3>1, <3>2 DEF notify_one
      <3>3. CASE m_list[v] # <<>>
        <4>1. walk'[c] = <<Head(m_list[v])>> /\ m_list[v] \in Seq(Coro)
          BY <1>2, <3>1, <3>3 DEF notify_one
        <4>2. \A n \in 1..Len(walk'[c]) : n \in 1..Len(m_list[v]) /\ walk'[c][n] = m_list[v][n]
          BY <3>3, <4>1
        <4>3. QED
          BY <2>3, <4>2
      <3>4. QED
        BY <3>2, <3>3
    <2>5. CASE close_notify(c)
      <3>1. PICK v \in Cv : notify_all(c, v)
        BY <2>5, Names DEF close_notify
      <3>2. walk'[c] = m_list[v]
        BY <1>2, <3>1 DEF notify_all
      <3>3. QED
        BY <2>3, <3>2
    <2>6. QED
      BY <2>1, <2>2, <2>4, <2>5, Changes, Zenon
  <1>7. QED
    BY <1>3, <1>5, <1>6 DEF OnceInv

\* Steps keep the invariant of the mutex and the condition variables.
LEMMA LockKept ==
    ASSUME LockInv, NEW c \in Coro, step(c)
    PROVE  LockInv'
  BY TypesKept, LocalKept, OwnerKept, PlaceKept, OnceKept DEF LockInv

\* A context counts its coroutine as waiting once.
LEMMA CountsKept ==
    ASSUME LockInv, CountsSuspended, NEW c \in Coro, step(c)
    PROVE  CountsSuspended'
  <1>0. Types /\ LocalInv /\ LocalInv' /\ m_num_wait_task \in [Coro -> Int]
    BY LocalKept DEF LockInv, Types
  <1>1. \A d \in Coro \ {c} : m_num_wait_task'[d] = IF pc'[d] = "suspended" \/ m_suspend_state'[d] THEN 1 ELSE 0
    BY <1>0, Others DEF CountsSuspended
  <1>2. m_num_wait_task[c] = IF pc[c] = "suspended" \/ m_suspend_state[c] THEN 1 ELSE 0
    BY DEF CountsSuspended
  <1>3. m_num_wait_task'[c] = IF pc'[c] = "suspended" \/ m_suspend_state'[c] THEN 1 ELSE 0
    <2>0. /\ pc[c] \notin HandsOn \cup {"suspended"} => ~m_suspend_state[c]
          /\ pc[c] \in HandsOn => (m_suspend_state[c] <=> then[c] = "suspended")
          /\ pc'[c] \notin HandsOn \cup {"suspended"} => ~m_suspend_state'[c]
      BY <1>0 DEF LocalInv, HandsOn
    <2>1. CASE Quiet(c)
      BY <1>0, <1>2, <2>1, QuietSteps
    <2>2. CASE lock_guard(c)
      BY <1>0, <1>2, <2>0, <2>2, DoesLock DEF lock_guard, register_wait, HandsOn
    <2>3. CASE unlock(c)
      <3>1. UNCHANGED <<m_num_wait_task, m_suspend_state>>
        BY <2>3 DEF unlock
      <3>2. QED
        BY <1>0, <1>2, <2>0, <2>3, <3>1, DoesUnlock DEF HandsOn
    <2>4. CASE await_resume(c, "body")
      <3>1. m_num_wait_task'[c] = m_num_wait_task[c] - 1
        BY <1>0, <2>4 DEF await_resume, register_wait
      <3>2. QED
        BY <1>0, <1>2, <2>4, <3>1, DoesResume
    <2>5. CASE register_lock(c, cond(c), "body")
      BY <1>0, <1>2, <2>0, <2>5, DoesRegister DEF register_wait, HandsOn
    <2>6. CASE register_cv(c, CvOf(cur[c]))
      BY <1>0, <1>2, <2>6, DoesAppend, Zenon DEF register_cv
    <2>7. CASE resume(c, cond(cur[c]))
      <3>1. UNCHANGED <<m_num_wait_task, m_suspend_state>>
        BY <2>7 DEF resume
      <3>2. QED
        BY <1>0, <1>2, <2>0, <2>7, <3>1, DoesCheck DEF HandsOn
    <2>8. CASE wake_up(c)
      <3>1. UNCHANGED <<m_num_wait_task, m_suspend_state>>
        BY <2>8 DEF wake_up
      <3>2. QED
        BY <1>0, <1>2, <2>8, <3>1, DoesWake
    <2>9. QED
      BY <2>1, <2>2, <2>3, <2>4, <2>5, <2>6, <2>7, <2>8, Cases
  <1>4. QED
    BY <1>1, <1>3 DEF CountsSuspended

\* The invariant holds initially.
LEMMA LockInit ==
    ASSUME Init
    PROVE  LockInv /\ CountsSuspended
  <1>1. Types
    <2>1. queue = <<>> /\ owner = NoOwner /\ load \in Loads
      BY DEF Init, CvInit, FifoInit
    <2>2. m_list \in [Cv -> Seq(Coro)] /\ walk \in [Coro -> Seq(Coro)]
      BY DEF Init, CvInit
    <2>3. pc \in [Coro -> Label]
      BY DEF Init, CvInit, Label
    <2>4. /\ m_suspend_state \in [Coro -> BOOLEAN] /\ ready \in SUBSET Coro
          /\ then \in [Coro -> {"start", "suspended", "finished", "wake_up"}]
          /\ cur \in [Coro -> Coro \cup {NoOwner}]
      BY DEF Init, CvInit
    <2>5. /\ m_num_wait_task \in [Coro -> Int] /\ num \in [Coro -> Nat]
          /\ m_close_state \in {complete_close, part_close, no_close}
      BY DEF Init, CvInit
    <2>6. QED
      BY <2>1, <2>2, <2>3, <2>4, <2>5 DEF Types
  <1>2. /\ \A c \in Coro : /\ pc[c] \in {"start", "finished"} /\ cur[c] = NoOwner /\ then[c] = "start"
                           /\ ~m_suspend_state[c] /\ walk[c] = <<>> /\ m_num_wait_task[c] = 0
                           /\ num[c] = 0
        /\ \A v \in Cv : m_list[v] = <<>>
        /\ queue = <<>> /\ ready = {}
    BY DEF Init, CvInit, FifoInit
  <1>3. \A c \in Coro : ~Holder(c)
    BY <1>2, Zenon DEF Holder, HandsOn
  <1>4. LocalInv
    BY <1>2, Zenon DEF LocalInv, HandsOn
  <1>5. OwnerInv
    BY <1>2, <1>3 DEF OwnerInv
  <1>6. \A w \in Coro : ~InQueue(w) /\ ~InList(w) /\ ~InWalk(w) /\ ~AtHand(w)
    BY <1>2 DEF InQueue, InList, InWalk, AtHand
  <1>7. PlaceInv
    BY <1>2, <1>6, Zenon DEF PlaceInv, Apart
  <1>8. OnceInv
    BY <1>2 DEF OnceInv
  <1>9. CountsSuspended
    BY <1>2, Zenon DEF CountsSuspended
  <1>10. QED
    BY <1>1, <1>4, <1>5, <1>7, <1>8, <1>9 DEF LockInv

\* Steps keep it.
LEMMA LockNext ==
    ASSUME LockInv, CountsSuspended, [Next]_vars
    PROVE  LockInv' /\ CountsSuspended'
  <1>1. ASSUME UNCHANGED vars
        PROVE  LockInv' /\ CountsSuspended'
    <2>1. UNCHANGED <<owner, queue, m_list, m_suspend_state, ready, cur, then, pc, walk,
                      m_num_wait_task, load, m_close_state, num>>
      BY <1>1 DEF vars, cvVars, lockVars, chanVars
    <2>2. Types' /\ LocalInv'
      BY <2>1 DEF LockInv, Types, LocalInv
    <2>3. OwnerInv'
      BY <2>1 DEF LockInv, OwnerInv, Holder
    <2>4. PlaceInv' /\ OnceInv'
      BY <2>1 DEF LockInv, PlaceInv, OnceInv, Apart, InQueue, InList, InWalk, AtHand
    <2>5. CountsSuspended'
      BY <2>1 DEF CountsSuspended
    <2>6. QED
      BY <2>2, <2>3, <2>4, <2>5 DEF LockInv
  <1>2. ASSUME NEW c \in Coro, step(c)
        PROVE  LockInv' /\ CountsSuspended'
    BY <1>2, LockKept, CountsKept
  <1>3. QED
    BY <1>1, <1>2 DEF Next
\* The buffer, the predicates and the number of calls.
LEMMA DataKept ==
    ASSUME LockInv, DataInv, NEW c \in Coro, step(c)
    PROVE  DataInv'
  <1>. DEFINE n == capacity
              Goal == /\ RingOK(buf', n, Slot)
                      /\ \A d \in Coro : pc'[d] = "body" => cond(d)'
                      /\ \A d \in ready' : m_suspend_state'[d] => cond(d)'
                      /\ m_close_state' = complete_close => empty(buf', n)
  <1>0. Types /\ LocalInv /\ OwnerInv /\ Types' /\ OwnerInv' /\ load \in Loads /\ load' = load
    BY TypesKept, OwnerKept, Changes DEF LockInv, Types
  <1>1. /\ RingOK(buf, n, Slot) /\ (\A d \in Coro : pc[d] = "body" => cond(d))
        /\ \A d \in ready : m_suspend_state[d] => cond(d)
        /\ m_close_state = complete_close => empty(buf, n)
        /\ \A p \in Producer : num[p] <= load.calls[p] /\ (pc[p] # "start" => num[p] > 0)
    BY DEF DataInv, PredicateHolds
  <1>2. capacity' = n /\ (part_closed => part_closed')
    <2>1. m_close_state' = m_close_state \/ m_close_state' \in {complete_close, part_close}
      BY Changes DEF recv_value, close
    <2>2. QED
      BY <1>0, <2>1 DEF part_closed, complete_close, part_close, capacity
  <1>3. ASSUME send_value(c) \/ recv_value(c)
        PROVE  /\ cond(c) /\ ready' = {} /\ \A d \in Coro : pc'[d] # "body"
    <2>1. pc[c] = "body" /\ Holder(c)
      BY <1>3 DEF send_value, recv_value, Holder
    <2>2. ready = {} /\ \A d \in Coro \ {c} : pc[d] # "body"
      BY <1>0, <2>1 DEF OwnerInv, Holder
    <2>3. ready' = ready /\ pc'[c] # "body"
      BY <1>0, <1>3, QuietSteps DEF Quiet
    <2>4. \A d \in Coro \ {c} : pc'[d] = pc[d]
      BY <1>0, Others, Zenon
    <2>5. cond(c)
      BY <1>1, <2>1
    <2>6. QED
      BY <2>2, <2>3, <2>4, <2>5
  <1>4. ASSUME UNCHANGED buf
        PROVE  Goal
    <2>1. \A d : cond(d) => cond(d)'
      BY <1>2, <1>4 DEF cond
    <2>2. \A d \in Coro : pc'[d] = "body" => cond(d)'
      <3>1. pc'[c] = "body" => cond(c)
        <4>1. CASE await_resume(c, "body")
          BY <1>0, <1>1, <4>1, DoesResume
        <4>2. QED
          <5>1. then[c] # "body"
            BY <1>0, Zenon DEF Types
          <5>2. QED
            BY <1>0, <4>1, <5>1, Cases, QuietSteps, DoesLock, DoesUnlock, DoesRegister, DoesAppend,
               DoesCheck, DoesWake
      <3>2. QED
        BY <1>0, <1>1, <2>1, <3>1, Others
    <2>3. ASSUME NEW d \in ready', m_suspend_state'[d]
          PROVE  cond(d)'
      <3>0. d \in Coro
        BY <1>0 DEF Types
      <3>1. CASE d \in ready
        <4>1. pc[d] = "suspended"
          BY <1>0, <3>1 DEF OwnerInv
        <4>2. m_suspend_state[d]
          <5>1. CASE d # c
            BY <1>0, <2>3, <3>0, <5>1, Others
          <5>2. CASE d = c
            <6>1. ~await_resume(c, "body") /\ ~register_lock(c, cond(c), "body")
              BY <1>0, <2>3, <4>1, <5>2, DoesResume, DoesRegister
            <6>2. QED
              BY <2>3, <5>2, <6>1, Changes
          <5>3. QED
            BY <5>1, <5>2
        <4>3. QED
          BY <1>1, <2>1, <3>1, <4>2
      <3>2. CASE d \notin ready
        <4>1. CASE unlock(c)
          BY <1>0, <2>3, <3>2, <4>1, DoesUnlock DEF unlock
        <4>2. CASE resume(c, cond(cur[c]))
          BY <1>0, <2>1, <2>3, <3>2, <4>2, DoesCheck
        <4>3. CASE await_resume(c, "body")
          BY <1>0, <2>3, <3>2, <4>3, DoesResume
        <4>4. QED
          BY <2>3, <3>2, <4>1, <4>2, <4>3, Changes
      <3>3. QED
        BY <3>1, <3>2
    <2>4. m_close_state' = complete_close => empty(buf, n)
      <3>1. CASE recv_value(c)
        BY <1>1, <3>1 DEF recv_value
      <3>2. CASE close(c)
        BY <3>2 DEF close, complete_close, part_close
      <3>3. QED
        BY <1>1, <3>1, <3>2, Changes
    <2>5. QED
      BY <1>1, <1>4, <2>2, <2>3, <2>4
  <1>5. ASSUME send_value(c), ~UNCHANGED buf
        PROVE  Goal
    <2>1. /\ c \in Producer /\ ~part_closed /\ buf' = push(buf, <<c, num[c]>>, n)
          /\ UNCHANGED m_close_state
      BY <1>5 DEF send_value
    <2>2. ~full(buf, n) /\ <<c, num[c]>> \in Slot
      BY <1>0, <1>3, <1>5, <2>1 DEF cond, Slot, Types
    <2>3. RingOK(buf', n, Slot)
      BY <1>0, <1>1, <2>1, <2>2, CapacityFits, RingPush
    <2>4. m_close_state' # complete_close
      BY <2>1 DEF part_closed, complete_close, part_close
    <2>5. QED
      BY <1>3, <1>5, <2>3, <2>4
  <1>6. ASSUME recv_value(c), ~UNCHANGED buf
        PROVE  Goal
    <2>1. /\ c \in Consumer /\ ~(empty(buf, n) /\ part_closed) /\ buf' = pop(buf, n)
          /\ UNCHANGED m_close_state
      BY <1>6 DEF recv_value
    <2>2. ~empty(buf, n)
      BY <1>3, <1>6, <2>1, Names DEF cond
    <2>3. RingOK(buf', n, Slot)
      BY <1>0, <1>1, <2>1, <2>2, CapacityFits, RingPop
    <2>4. m_close_state' # complete_close
      BY <1>1, <2>1, <2>2
    <2>5. QED
      BY <1>3, <1>6, <2>3, <2>4
  <1>7. ASSUME NEW p \in Producer
        PROVE  num'[p] <= load.calls[p] /\ (pc'[p] # "start" => num'[p] > 0)
    <2>0. /\ p \in Coro /\ num \in [Coro -> Nat] /\ load.calls[p] \in Nat
          /\ num[p] <= load.calls[p] /\ (pc[p] # "start" => num[p] > 0)
      BY <1>0, <1>1, Names, Calls, Zenon DEF Types
    <2>1. CASE p # c
      BY <1>0, <2>0, <2>1, Others
    <2>2. CASE p = c /\ send(c)
      BY <2>0, <2>2 DEF send
    <2>3. CASE p = c /\ ~send(c)
      <3>1. c \notin Closer /\ c \notin Consumer
        BY <2>3, Names
      <3>2. UNCHANGED num
        BY <2>3, <3>1, Changes DEF close_notify
      <3>3. pc[c] # "start"
        <4>1. CASE Quiet(c)
          BY <2>3, <3>1, <4>1 DEF Quiet, send_value, recv, recv_value, close, notify, close_notify, notified
        <4>2. QED
          BY <1>0, <4>1, Cases, DoesLock, DoesUnlock, DoesResume, DoesRegister, DoesAppend, DoesCheck, DoesWake
      <3>4. QED
        BY <2>0, <2>3, <3>2, <3>3
    <2>4. QED
      BY <2>1, <2>2, <2>3
  <1>8. Goal
    BY <1>4, <1>5, <1>6, Changes
  <1>9. QED
    BY <1>0, <1>2, <1>7, <1>8 DEF DataInv, PredicateHolds

\* The buffer is empty initially.
LEMMA InitBuffer ==
    ASSUME Init
    PROVE  RingOK(buf, capacity, Slot) /\ empty(buf, capacity)
  <1>1. load \in Loads /\ buf = RingInit(capacity)
    BY DEF Init
  <1>2. QED
    BY <1>1, CapacityFits, RingStarts

\* The invariant holds initially.
LEMMA InitIInv ==
    ASSUME Init
    PROVE  IInv
  <1>1. LockInv /\ CountsSuspended
    BY LockInit
  <1>2. RingOK(buf, capacity, Slot) /\ empty(buf, capacity)
    BY InitBuffer
  <1>3. /\ load \in Loads /\ ready = {}
        /\ \A c \in Coro : pc[c] \in {"start", "finished"} /\ num[c] = 0
        /\ \A p \in Producer : pc[p] = "start"
    BY Names DEF Init, CvInit
  <1>4. \A p \in Producer : pc[p] = "start" /\ num[p] <= load.calls[p]
    BY <1>3, Calls, Names
  <1>5. DataInv
    BY <1>2, <1>3, <1>4 DEF DataInv, PredicateHolds
  <1>6. QED
    BY <1>1, <1>5 DEF IInv

\* Steps keep it.
LEMMA NextIInv ==
    ASSUME IInv, [Next]_vars
    PROVE  IInv'
  <1>1. ASSUME UNCHANGED vars
        PROVE  DataInv'
    <2>1. UNCHANGED <<m_suspend_state, ready, pc, load, buf, m_close_state, num>>
      BY <1>1 DEF vars, cvVars, lockVars, chanVars
    <2>2. QED
      BY <2>1 DEF IInv, DataInv, PredicateHolds, cond, part_closed, capacity
  <1>2. ASSUME NEW c \in Coro, step(c)
        PROVE  DataInv'
    BY <1>2, DataKept DEF IInv
  <1>3. QED
    BY <1>1, <1>2, LockNext DEF IInv, Next
-----------------------------------------------------------------------------
(* Theorems.                                                               *)

\* Who has the mutex, where each awaiter is, and what a coroutine and its context
\* know of it.
THEOREM LockInvariant == Spec => [](LockInv /\ CountsSuspended)
  BY LockInit, LockNext, PTL DEF Spec

\* One coroutine at a time evaluates a predicate, uses the buffer or unlocks.
THEOREM BufferGuarded == Spec => []BufferIsGuarded
  <1>1. ASSUME LockInv
        PROVE  BufferIsGuarded
    <2>1. \A c \in Coro : Holds(c) => Holder(c)
      BY DEF Holds, Holder, HandsOn
    <2>2. OwnerInv
      BY <1>1 DEF LockInv
    <2>3. QED
      BY <2>1, <2>2 DEF OwnerInv, BufferIsGuarded
  <1>2. QED
    BY <1>1, LockInvariant, PTL

\* A context counts its coroutine as waiting exactly while it waits.
THEOREM WaitsCounted == Spec => []CountsSuspended
  BY LockInvariant, PTL

\* The inductive invariant: who has the mutex, where each awaiter is, what the
\* buffer holds and what the predicates say.
THEOREM ChannelInvariant == Spec => []IInv
  BY InitIInv, NextIInv, PTL DEF Spec

\* Types; the indices of the buffer of any capacity stay in range, across the
\* wrap-around of a size_t too.
THEOREM ChannelTypes == Spec => []ChannelTypeOK
  <1>1. ASSUME IInv
        PROVE  ChannelTypeOK
    <2>0. Types /\ load \in Loads /\ RingOK(buf, capacity, Slot)
      BY <1>1 DEF IInv, LockInv, DataInv, Types
    <2>1. /\ owner \in Coro \cup {NoOwner} /\ queue \in Seq(Coro) /\ m_list \in [Cv -> Seq(Coro)]
          /\ m_suspend_state \in [Coro -> BOOLEAN] /\ ready \subseteq Coro
          /\ cur \in [Coro -> Coro \cup {NoOwner}] /\ walk \in [Coro -> Seq(Coro)]
          /\ m_close_state \in {complete_close, part_close, no_close}
      BY <2>0 DEF Types
    <2>2. m_num_wait_task \in [Coro -> {0, 1}]
      BY <1>1, <2>0 DEF IInv, CountsSuspended, Types
    <2>3. DOMAIN buf.m_array = 0..(Slots(capacity) - 1)
      BY <2>0 DEF RingOK
    <2>4. /\ buf.m_head \in Nat /\ buf.m_tail \in Nat /\ buf.m_num \in Nat
          /\ Slots(capacity) \in Nat \ {0} /\ SizeMax \in Nat
      BY <2>0, CapacityFits DEF RingOK
    <2>5. CASE HasSingleBit(capacity)
      <3>1. buf.m_head < SizeMax /\ buf.m_tail < SizeMax /\ buf.m_num = 0
        BY <2>0, <2>5 DEF RingOK
      <3>2. QED
        BY <2>1, <2>2, <2>3, <2>4, <2>5, <3>1 DEF ChannelTypeOK
    <2>6. CASE ~HasSingleBit(capacity)
      <3>1. /\ buf.m_head < Slots(capacity) /\ buf.m_num <= Slots(capacity)
            /\ buf.m_tail = IF buf.m_head + buf.m_num < Slots(capacity)
                            THEN buf.m_head + buf.m_num ELSE buf.m_head + buf.m_num - Slots(capacity)
        BY <2>0, <2>6 DEF RingOK
      <3>2. buf.m_tail < Slots(capacity)
        BY <2>4, <3>1
      <3>3. QED
        BY <2>1, <2>2, <2>3, <2>4, <2>6, <3>1, <3>2 DEF ChannelTypeOK
    <2>7. QED
      BY <2>5, <2>6
  <1>2. QED
    BY <1>1, ChannelInvariant, PTL

\* A coroutine that comes back from the wait finds its predicate true.
THEOREM PredicatesHold == Spec => []PredicateHolds
  BY ChannelInvariant, PTL DEF IInv, DataInv

\* The values that the producers send.
LEMMA ValueRange ==
    /\ Values \subseteq Producer \X Nat
    /\ \A p \in Producer, l \in Loads : \A k \in 1..l.calls[p] : <<p, k>> \in Values
  <1>1. ASSUME NEW x \in Values
        PROVE  x \in Producer \X Nat
    <2>1. PICK p \in Producer, l \in Loads : x \in {p} \X (1..l.calls[p])
      <3>1. PICK l \in Loads : x \in UNION {{p} \X (1..l.calls[p]) : p \in Producer}
        BY <1>1 DEF Values
      <3>2. QED
        BY <3>1
    <2>2. QED
      BY <2>1
  <1>2. ASSUME NEW p \in Producer, NEW l \in Loads, NEW k \in 1..l.calls[p]
        PROVE  <<p, k>> \in Values
    <2>1. <<p, k>> \in {p} \X (1..l.calls[p])
      BY <1>2
    <2>2. QED
      <3>1. <<p, k>> \in UNION {{r} \X (1..l.calls[r]) : r \in Producer}
        BY <2>1
      <3>2. QED
        BY <3>1 DEF Values
  <1>3. QED
    BY <1>1, <1>2

\* The channel is a bounded FIFO queue.
THEOREM ChannelIsFifo == Spec => ImplementsFifoChannel
  <1>1. ASSUME Init
        PROVE  Fifo!ChannelInit
    <2>1. IInv /\ load \in Loads /\ m_close_state = no_close /\ out = empty_slot
      BY <1>1, InitIInv DEF Init
    <2>2. Slots(capacity) \in Nat \ {0}
      BY <2>1, CapacityFits
    <2>3. Contents(buf, capacity) = <<>>
      <3>1. RingOK(buf, capacity, Slot) /\ empty(buf, capacity)
        BY <1>1, InitBuffer
      <3>2. QED
        BY <2>1, <3>1, CapacityFits, EmptyContents
    <2>4. part_closed = FALSE
      BY <2>1 DEF part_closed, no_close, part_close
    <2>5. out \notin Values \cup {nullopt, refused}
      BY <2>1, ValueRange, ChannelAssumption
    <2>6. QED
      BY <2>2, <2>3, <2>4, <2>5 DEF Fifo!ChannelInit
  <1>2. ASSUME IInv, NEW c \in Coro, step(c)
        PROVE  Fifo!ChannelNext \/ UNCHANGED Fifo!channelVars
    <2>0. /\ load \in Loads /\ RingOK(buf, capacity, Slot) /\ load' = load /\ capacity' = capacity
          /\ m_close_state \in {complete_close, part_close, no_close}
      BY <1>2, Changes DEF IInv, LockInv, Types, DataInv, capacity
    <2>1. CASE UNCHANGED <<buf, m_close_state, out>>
      BY <2>0, <2>1 DEF Fifo!channelVars, part_closed
    <2>2. CASE out' = refused /\ UNCHANGED <<buf, m_close_state>> /\ part_closed
      BY <2>0, <2>2 DEF Fifo!ChannelNext, Fifo!Refuse, part_closed
    <2>3. CASE /\ out' = nullopt /\ UNCHANGED buf /\ empty(buf, capacity)
               /\ part_closed /\ part_closed'
      <3>1. Contents(buf, capacity) = <<>>
        BY <2>0, <2>3, CapacityFits, EmptyContents
      <3>2. QED
        BY <2>0, <2>3, <3>1 DEF Fifo!ChannelNext, Fifo!Drained
    <2>4. CASE send(c)
      BY <2>1, <2>2, <2>4 DEF send
    <2>5. CASE send_value(c)
      <3>1. CASE part_closed
        BY <2>2, <2>5, <3>1 DEF send_value
      <3>2. CASE ~part_closed
        <4>1. /\ c \in Producer /\ pc[c] = "body" /\ buf' = push(buf, <<c, num[c]>>, capacity)
              /\ UNCHANGED <<m_close_state, out>>
          BY <2>5, <3>2 DEF send_value
        <4>2. ~full(buf, capacity)
          BY <1>2, <3>2, <4>1 DEF IInv, DataInv, PredicateHolds, cond
        <4>3. num[c] \in 1..load.calls[c] /\ num[c] \in Nat
          <5>1. num[c] \in Nat /\ num[c] <= load.calls[c] /\ num[c] > 0
            BY <1>2, <4>1 DEF IInv, LockInv, Types, DataInv
          <5>2. load.calls[c] \in Nat
            BY <2>0, <4>1, Calls
          <5>3. QED
            BY <5>1, <5>2
        <4>4. <<c, num[c]>> \in Values /\ <<c, num[c]>> \in Slot
          BY <2>0, <4>1, <4>3, ValueRange DEF Slot
        <4>5. Contents(buf', capacity) = Append(Contents(buf, capacity), <<c, num[c]>>)
          BY <2>0, <4>1, <4>2, <4>4, CapacityFits, PushAppends
        <4>6. Len(Contents(buf, capacity)) < Slots(capacity)
          <5>1. /\ Len(Contents(buf, capacity)) \in 0..Slots(capacity)
                /\ Len(Contents(buf, capacity)) # Slots(capacity) /\ Slots(capacity) \in Nat
            <6>1. Len(Contents(buf, capacity)) = Length(buf, capacity)
              BY <2>0, CapacityFits, ContentsSeq
            <6>2. /\ Length(buf, capacity) \in 0..Slots(capacity)
                  /\ Length(buf, capacity) # Slots(capacity)
              BY <2>0, <4>2, CapacityFits, RingLength
            <6>3. QED
              BY <2>0, <6>1, <6>2, CapacityFits
          <5>2. QED
            BY <5>1
        <4>7. Fifo!Accept(<<c, num[c]>>)
          BY <2>0, <3>2, <4>1, <4>5, <4>6 DEF Fifo!Accept, part_closed
        <4>8. QED
          BY <4>4, <4>7 DEF Fifo!ChannelNext
      <3>3. QED
        BY <3>1, <3>2
    <2>6. CASE recv(c)
      <3>1. CASE m_close_state <= complete_close
        <4>1. m_close_state = complete_close /\ part_closed
          BY <2>0, <3>1 DEF complete_close, part_close, no_close, part_closed
        <4>2. empty(buf, capacity)
          BY <1>2, <4>1 DEF IInv, DataInv
        <4>3. out' = nullopt /\ UNCHANGED <<buf, m_close_state>>
          BY <2>6, <3>1 DEF recv
        <4>4. QED
          BY <2>3, <4>1, <4>2, <4>3 DEF part_closed
      <3>2. CASE ~(m_close_state <= complete_close)
        BY <2>1, <2>6, <3>2 DEF recv
      <3>3. QED
        BY <3>1, <3>2
    <2>7. CASE recv_value(c)
      <3>1. CASE empty(buf, capacity) /\ part_closed
        BY <2>3, <2>7, <3>1 DEF recv_value, part_closed, complete_close, part_close
      <3>2. CASE ~(empty(buf, capacity) /\ part_closed)
        <4>1. /\ c \in Consumer /\ pc[c] = "body" /\ out' = front(buf, capacity)
              /\ buf' = pop(buf, capacity) /\ UNCHANGED m_close_state
          BY <2>7, <3>2 DEF recv_value
        <4>2. ~empty(buf, capacity)
          BY <1>2, <3>2, <4>1, Names DEF IInv, DataInv, PredicateHolds, cond
        <4>3. /\ Contents(buf, capacity) # <<>> /\ out' = Head(Contents(buf, capacity))
              /\ Contents(buf', capacity) = Tail(Contents(buf, capacity))
          BY <2>0, <4>1, <4>2, CapacityFits, PopTakesHead
        <4>4. Fifo!Deliver
          BY <2>0, <4>1, <4>3 DEF Fifo!Deliver, part_closed
        <4>5. QED
          BY <4>4 DEF Fifo!ChannelNext
      <3>3. QED
        BY <3>1, <3>2
    <2>8. CASE close(c)
      <3>1. m_close_state' = part_close /\ UNCHANGED <<buf, out>>
        BY <2>8 DEF close
      <3>2. Fifo!Close
        BY <2>0, <3>1 DEF Fifo!Close, part_closed, part_close
      <3>3. QED
        BY <3>2 DEF Fifo!ChannelNext
    <2>9. ~(send(c) \/ send_value(c) \/ recv(c) \/ recv_value(c) \/ close(c)) =>
              UNCHANGED <<buf, m_close_state, out>>
      BY <1>2, Changes, Zenon
    <2>10. QED
      BY <2>1, <2>4, <2>5, <2>6, <2>7, <2>8, <2>9
  <1>3. ASSUME UNCHANGED vars
        PROVE  UNCHANGED Fifo!channelVars
    BY <1>3 DEF vars, chanVars, Fifo!channelVars, part_closed, capacity
  <1>4. ASSUME IInv, [Next]_vars
        PROVE  [Fifo!ChannelNext]_Fifo!channelVars
    BY <1>2, <1>3, <1>4 DEF Next
  <1>5. QED
    BY <1>1, <1>4, ChannelInvariant, PTL DEF Spec, ImplementsFifoChannel, Fifo!ChannelSafety
=============================================================================
