------------------------- MODULE RuntimeStopProofs -------------------------
(***************************************************************************)
(* Proofs about the decision to stop, for every number of contexts and     *)
(* every application.  The inductive invariants of RuntimeHandleProofs are *)
(* extended by where tasks are at home, how many wait there, and by what a *)
(* context that is about to stop knows of the others.                      *)
(***************************************************************************)
EXTENDS RuntimeHandleProofs

\* A task stays with the context it was submitted to; the context counts the
\* ones that are suspended.
HomeInv ==
    /\ \A x \in Context : \A n \in 1..Len(m_task_queue[x]) : home[m_task_queue[x][n]] = x
    /\ \A x \in Context : running[x] \in Task => home[running[x]] = x
    /\ \A h \in Thread : pc[h] \in Carrying =>
        home[call[h].arg] = IF call[h].arg \in suspended THEN call[h].to ELSE none
    /\ \A x \in Context : m_num_wait_task[x] = Cardinality(Waiting(x))

\* Context x has nothing to do, and nobody is about to give it anything.
Idle(x) ==
    /\ m_task_queue[x] = <<>> /\ pc[x] \notin InTask
    /\ \A t \in suspended : home[t] # x
    /\ \A h \in Thread : pc[h] \in Carrying => call[h].to # x

\* x has found out that it is idle, and has not set its flag again.
Stopping(x) ==
    \/ pc[x] \in {"stop_cb", "fetch_sub", "stop", "stop_wake"}
    \/ m_ctx_stop_flag[x] = 0
    \/ x \in stop_requested

\* x has seen the token drop to zero, or was asked to stop because of that.
StopDecided(x) == pc[x] \in {"stop", "stop_wake"} \/ (Scheduled /\ x \in stop_requested)

\* If tasks submit to their own contexts only, a context that has cleared its
\* flag, or is about to, is idle, and all are when one has found the token 0.
StopInv ==
    /\ \A h \in Context : pc[h] \notin {"fetch_or", "fetch_add"}
    /\ \A h \in Context : pc[h] \in Carrying => call[h].to = h \/ call[h].arg \in suspended
    /\ \A x \in Context : Stopping(x) => Idle(x) /\ MainDone
    /\ (\E x \in Context : StopDecided(x)) => \A y \in Context : Idle(y)
-----------------------------------------------------------------------------
(* Homes.                                                                  *)

\* HomeInv holds at first: no task has a home.
LEMMA HomeInit == Init => HomeInv
  <1>1. SUFFICES ASSUME Init
                 PROVE  HomeInv
    OBVIOUS
  <1>2. \A x \in Context : Waiting(x) = {}
    BY <1>1 DEF Init, Waiting
  <1>3. \A x \in Context : m_num_wait_task[x] = Cardinality(Waiting(x))
    BY <1>1, <1>2, FS_EmptySet, Zenon DEF Init
  <1>4. /\ \A x \in Context : \A n \in 1..Len(m_task_queue[x]) : home[m_task_queue[x][n]] = x
        /\ \A x \in Context : running[x] \notin Task
        /\ \A h \in Thread : pc[h] \notin Carrying
    BY <1>1, Names DEF Init, Carrying
  <1>5. QED
    BY <1>3, <1>4 DEF HomeInv

\* Steps that touch neither handles nor homes.
LEMMA HomesStay ==
    ASSUME TypeInv, HomeInv, NEW h \in Thread, Step(h),
           UNCHANGED <<m_task_queue, running, suspended, home, m_num_wait_task>>,
           \A g \in Thread : /\ pc'[g] \in Carrying => pc[g] \in Carrying
                             /\ pc[g] \in Carrying => /\ call'[g].arg = call[g].arg
                                                      /\ call'[g].to = call[g].to
    PROVE  HomeInv'
  <1>1. \A x \in Context : Waiting(x)' = Waiting(x)
    BY DEF Waiting
  <1>2. \A x \in Context : m_num_wait_task'[x] = Cardinality(Waiting(x)')
    BY <1>1 DEF HomeInv
  <1>3. \A g \in Thread : pc'[g] \in Carrying =>
          home'[call'[g].arg] = IF call'[g].arg \in suspended' THEN call'[g].to ELSE none
    BY DEF HomeInv
  <1>4. QED
    BY <1>2, <1>3 DEF HomeInv, Carrying

\* A thread begins to submit v: a fresh one, or a suspended one to its home.
LEMMA HomeCarried ==
    ASSUME TypeInv, HomeInv, NEW h \in Thread, NEW v \in Task, Step(h),
           UNCHANGED <<m_task_queue, running, suspended, home, m_num_wait_task>>,
           call'[h].arg = v, home[v] = IF v \in suspended THEN call'[h].to ELSE none,
           \A g \in Thread \ {h} : pc'[g] = pc[g] /\ call'[g] = call[g]
    PROVE  HomeInv'
  <1>1. \A x \in Context : Waiting(x)' = Waiting(x)
    BY DEF Waiting
  <1>2. \A x \in Context : m_num_wait_task'[x] = Cardinality(Waiting(x)')
    BY <1>1 DEF HomeInv
  <1>3. \A g \in Thread : pc'[g] \in Carrying =>
          home'[call'[g].arg] = IF call'[g].arg \in suspended' THEN call'[g].to ELSE none
    BY DEF HomeInv
  <1>4. QED
    BY <1>2, <1>3 DEF HomeInv, Carrying

\* engine::submit_task gives the task its home, or leaves it with the one it has.
LEMMA HomePush ==
    ASSUME TypeInv, HandleInv, HomeInv, NEW h \in Thread, Step(h), submit_push(h)
    PROVE  HomeInv'
  <1>0. /\ UNCHANGED <<running, call, suspended, m_num_wait_task>> /\ pc[h] = "push"
        /\ call[h].to \in Context /\ call[h].arg \in Task
        /\ m_task_queue \in [Context -> Seq(Task)] /\ home \in [Task -> Context \cup {none}]
        /\ pc \in [Thread -> Label] /\ suspended \subseteq Task
    BY ThreadTypes DEF submit_push, threadVars, Calling, Carrying, TypeInv, Types
  <1>1. PICK v \in Task, x \in Context : v = call[h].arg /\ x = call[h].to
    BY <1>0
  <1>2. /\ m_task_queue' = [m_task_queue EXCEPT ![x] = Append(m_task_queue[x], v)]
        /\ home'[v] = x /\ \A t \in Task \ {v} : home'[t] = home[t]
        /\ \A g \in Thread : pc'[g] \in Carrying => pc[g] \in Carrying /\ g # h
    BY <1>0, <1>1 DEF submit_push, Goto, Carrying
  <1>3. /\ ~InQueue(v) /\ ~Runs(v)
        /\ \A g \in Thread \ {h} : pc[g] \in Carrying => call[g].arg # v
        /\ v \in suspended => home[v] = x
    <2>1. Carried(v) /\ pc[h] \in Carrying
      BY <1>0, <1>1 DEF Carried, Carrying
    <2>2. QED
      BY <1>1, <2>1 DEF HandleInv, Exclusive, HomeInv
  <1>4. \A y \in Context : \A n \in 1..Len(m_task_queue'[y]) :
          \/ n \in 1..Len(m_task_queue[y]) /\ m_task_queue'[y][n] = m_task_queue[y][n]
          \/ y = x /\ m_task_queue'[y][n] = v
    BY <1>0, <1>2
  <1>5. \A y \in Context : \A n \in 1..Len(m_task_queue'[y]) : home'[m_task_queue'[y][n]] = y
    <2>1. \A y \in Context : \A n \in 1..Len(m_task_queue[y]) :
            m_task_queue[y][n] \in Task \ {v} /\ home[m_task_queue[y][n]] = y
      BY <1>0, <1>3 DEF HomeInv, InQueue
    <2>2. QED
      BY <1>2, <1>4, <2>1
  <1>6. \A y \in Context : running'[y] \in Task => home'[running'[y]] = y
    <2>1. \A y \in Context : running[y] # v
      BY <1>3, Names DEF Runs
    <2>2. QED
      BY <1>0, <1>2, <2>1 DEF HomeInv
  <1>7. \A g \in Thread : pc'[g] \in Carrying =>
          home'[call'[g].arg] = IF call'[g].arg \in suspended' THEN call'[g].to ELSE none
    <2>1. \A g \in Thread : pc[g] \in Carrying => call[g].arg \in Task
      BY DEF TypeInv, Locals, LocalOK, Calling
    <2>2. QED
      BY <1>0, <1>2, <1>3, <2>1 DEF HomeInv
  <1>8. \A y \in Context : Waiting(y)' = Waiting(y)
    BY <1>0, <1>2, <1>3 DEF Waiting
  <1>9. \A y \in Context : m_num_wait_task'[y] = Cardinality(Waiting(y)')
    BY <1>0, <1>8 DEF HomeInv
  <1>10. QED
    BY <1>5, <1>6, <1>7, <1>9 DEF HomeInv, Carrying

\* A task suspends: its context counts it.
LEMMA HomeSuspend ==
    ASSUME TypeInv, HandleInv, HomeInv, NEW h \in Context, NEW u \in Task, Step(h),
           running[h] = u, suspended' = suspended \cup {u},
           running' = [running EXCEPT ![h] = none],
           m_num_wait_task' = [m_num_wait_task EXCEPT ![h] = @ + 1],
           UNCHANGED <<m_task_queue, home, call>>, pc' = [pc EXCEPT ![h] = "work"]
    PROVE  HomeInv'
  <1>0. /\ running \in [Thread -> Task \cup {main, none}] /\ pc \in [Thread -> Label]
        /\ m_num_wait_task \in [Context -> Int] /\ h \in Thread
    BY Names DEF TypeInv, Types
  <1>1. Runs(u) /\ ~Carried(u) /\ u \notin suspended /\ home[u] = h
    <2>1. Runs(u)
      BY <1>0 DEF Runs
    <2>2. QED
      BY <2>1 DEF HandleInv, Exclusive, StateInv, HomeInv
  <1>2. \A y \in Context : running'[y] \in Task => home'[running'[y]] = y
    BY <1>0, Names DEF HomeInv
  <1>3. \A g \in Thread : pc'[g] \in Carrying =>
          home'[call'[g].arg] = IF call'[g].arg \in suspended' THEN call'[g].to ELSE none
    <2>1. \A g \in Thread : pc'[g] \in Carrying => pc[g] \in Carrying /\ call[g].arg # u
      BY <1>0, <1>1 DEF Carried, Carrying
    <2>2. QED
      BY <2>1 DEF HomeInv
  <1>4. Waiting(h)' = Waiting(h) \cup {u} /\ u \notin Waiting(h)
    BY <1>1 DEF Waiting
  <1>5. Cardinality(Waiting(h)') = Cardinality(Waiting(h)) + 1
    BY <1>4, Finite, FS_AddElement, Zenon
  <1>6. \A y \in Context \ {h} : Waiting(y)' = Waiting(y)
    BY <1>1 DEF Waiting
  <1>7. \A y \in Context : m_num_wait_task'[y] = Cardinality(Waiting(y)')
    <2>1. TAKE y \in Context
    <2>2. CASE y = h
      <3>1. m_num_wait_task'[h] = m_num_wait_task[h] + 1
        BY <1>0
      <3>2. m_num_wait_task[h] = Cardinality(Waiting(h))
        BY DEF HomeInv
      <3>3. QED
        BY <1>5, <2>2, <3>1, <3>2
    <2>3. CASE y # h
      <3>1. m_num_wait_task'[y] = m_num_wait_task[y] /\ Waiting(y)' = Waiting(y)
        BY <1>0, <1>6, <2>3
      <3>2. QED
        BY <3>1 DEF HomeInv
    <2>4. QED
      BY <2>2, <2>3
  <1>8. QED
    BY <1>2, <1>3, <1>7 DEF HomeInv, Carrying

\* A context takes a task from its queue, and uncounts it if it was suspended.
LEMMA HomeExec ==
    ASSUME TypeInv, HandleInv, HomeInv, NEW h \in Context, Step(h), exec_one_task(h)
    PROVE  HomeInv'
  <1>0. /\ running \in [Thread -> Task \cup {main, none}] /\ pc \in [Thread -> Label]
        /\ m_num_wait_task \in [Context -> Int] /\ h \in Thread
        /\ m_task_queue \in [Context -> Seq(Task)] /\ UNCHANGED <<call, home>>
        /\ m_task_queue[h] # <<>> /\ Head(m_task_queue[h]) \in Task
    BY Names DEF TypeInv, Types, exec_one_task
  <1>1. PICK u \in Task : u = Head(m_task_queue[h])
    BY <1>0
  <1>2. /\ m_task_queue' = [m_task_queue EXCEPT ![h] = Tail(m_task_queue[h])]
        /\ running' = [running EXCEPT ![h] = u] /\ suspended' = suspended \ {u}
        /\ m_num_wait_task' = [m_num_wait_task EXCEPT
                                    ![h] = IF u \in suspended THEN @ - 1 ELSE @]
        /\ \A g \in Thread : pc'[g] \in Carrying => pc[g] \in Carrying
    BY <1>0, <1>1 DEF exec_one_task, Goto, Carrying
  <1>3. InQueue(u) /\ ~Carried(u) /\ home[u] = h
    <2>1. 1 \in 1..Len(m_task_queue[h]) /\ m_task_queue[h][1] = u
      BY <1>0, <1>1
    <2>2. InQueue(u)
      BY <2>1 DEF InQueue
    <2>3. QED
      BY <2>1, <2>2 DEF HandleInv, Exclusive, HomeInv
  <1>4. \A y \in Context : \A n \in 1..Len(m_task_queue'[y]) : home'[m_task_queue'[y][n]] = y
    <2>1. TAKE y \in Context
    <2>2. TAKE n \in 1..Len(m_task_queue'[y])
    <2>3. CASE y = h
      <3>1. n + 1 \in 1..Len(m_task_queue[y]) /\ m_task_queue'[y][n] = m_task_queue[y][n + 1]
        BY <1>0, <1>2, <2>3
      <3>2. QED
        BY <1>0, <3>1 DEF HomeInv
    <2>4. CASE y # h
      BY <1>0, <1>2, <2>4 DEF HomeInv
    <2>5. QED
      BY <2>3, <2>4
  <1>5. \A y \in Context : running'[y] \in Task => home'[running'[y]] = y
    BY <1>0, <1>2, <1>3, Names DEF HomeInv
  <1>6. \A g \in Thread : pc'[g] \in Carrying =>
          home'[call'[g].arg] = IF call'[g].arg \in suspended' THEN call'[g].to ELSE none
    <2>1. \A g \in Thread : pc'[g] \in Carrying => pc[g] \in Carrying /\ call[g].arg # u
      BY <1>2, <1>3 DEF Carried
    <2>2. QED
      BY <1>0, <1>2, <2>1 DEF HomeInv
  <1>7. \A y \in Context \ {h} : Waiting(y)' = Waiting(y)
    BY <1>0, <1>2, <1>3 DEF Waiting
  <1>8. m_num_wait_task[h] = Cardinality(Waiting(h)) /\ IsFiniteSet(Waiting(h))
    BY Finite DEF HomeInv
  <1>9. m_num_wait_task'[h] = Cardinality(Waiting(h)')
    <2>1. CASE u \in suspended
      <3>1. Waiting(h)' = Waiting(h) \ {u} /\ u \in Waiting(h)
        BY <1>0, <1>2, <1>3, <2>1 DEF Waiting
      <3>2. Cardinality(Waiting(h)') = Cardinality(Waiting(h)) - 1
        BY <1>8, <3>1, FS_RemoveElement, Zenon
      <3>3. m_num_wait_task'[h] = m_num_wait_task[h] - 1
        BY <1>0, <1>2, <2>1
      <3>4. QED
        BY <1>8, <3>2, <3>3
    <2>2. CASE u \notin suspended
      <3>1. Waiting(h)' = Waiting(h)
        BY <1>0, <1>2, <2>2 DEF Waiting
      <3>2. m_num_wait_task'[h] = m_num_wait_task[h]
        BY <1>0, <1>2, <2>2
      <3>3. QED
        BY <1>8, <3>1, <3>2
    <2>3. QED
      BY <2>1, <2>2
  <1>10. \A y \in Context : m_num_wait_task'[y] = Cardinality(Waiting(y)')
    <2>1. TAKE y \in Context
    <2>2. CASE y = h
      BY <1>9, <2>2
    <2>3. CASE y # h
      <3>1. m_num_wait_task'[y] = m_num_wait_task[y] /\ Waiting(y)' = Waiting(y)
        BY <1>0, <1>2, <1>7, <2>3
      <3>2. QED
        BY <3>1 DEF HomeInv
    <2>4. QED
      BY <2>2, <2>3
  <1>11. QED
    BY <1>4, <1>5, <1>6, <1>10 DEF HomeInv, Carrying

\* Steps keep HomeInv.
LEMMA HomeStep ==
    ASSUME TypeInv, HandleInv, HomeInv, NEW h \in Thread, Step(h)
    PROVE  HomeInv'
  <1>0. /\ running \in [Thread -> Task \cup {main, none}] /\ pc \in [Thread -> Label]
        /\ call \in [Thread -> Call] /\ m_task_queue \in [Context -> Seq(Task)]
    BY DEF TypeInv, Types
  <1>1. CASE dispatch(h) \/ submit_to_context(h)
    <2>1. PICK o \in {"scheduler", "context"} : Performs(h, o)
      BY <1>1 DEF dispatch, submit_to_context
    <2>2. PICK v \in Task : v = Arg(h)
      BY <2>1, Performing
    <2>3. v \notin suspended /\ home[v] = none
      BY <2>1, <2>2, SubmitsFresh DEF HandleInv, Fresh, Step
    <2>4. /\ UNCHANGED <<m_task_queue, running, suspended, home, m_num_wait_task>>
          /\ call'[h].arg = v
          /\ \A g \in Thread \ {h} : pc'[g] = pc[g] /\ call'[g] = call[g]
      BY <1>0, <1>1, <2>2 DEF dispatch, submit_to_context, Goto, engineVars
    <2>5. QED
      BY <2>3, <2>4, HomeCarried
  <1>2. CASE signal(h)
    <2>1. /\ UNCHANGED <<m_task_queue, running, suspended, home, m_num_wait_task>>
          /\ Performs(h, "signal")
      BY <1>2 DEF signal, engineVars
    <2>2. PICK v \in Task : v = Arg(h)
      BY <2>1, Performing
    <2>3. CASE v \in suspended \ signalled
      <3>1. /\ call'[h].arg = v /\ call'[h].to = home[v]
            /\ \A g \in Thread \ {h} : pc'[g] = pc[g] /\ call'[g] = call[g]
        BY <1>0, <1>2, <2>2, <2>3 DEF signal, Goto
      <3>2. QED
        BY <2>1, <2>3, <3>1, HomeCarried
    <2>4. CASE v \notin suspended \ signalled
      <3>1. UNCHANGED <<pc, call>>
        BY <1>2, <2>2, <2>4 DEF signal
      <3>2. QED
        BY <2>1, <3>1, HomesStay
    <2>5. QED
      BY <2>3, <2>4
  <1>3. CASE submit_push(h)
    BY <1>3, HomePush
  <1>4. CASE await(h)
    <2>1. Performs(h, "await") /\ UNCHANGED <<m_task_queue, call, home>>
      BY <1>4 DEF await
    <2>2. h \in Context /\ running[h] \in Task
      BY <2>1, Performing, Names
    <2>3. CASE running[h] \in signalled
      <3>1. UNCHANGED <<suspended, pc, running, m_num_wait_task>>
        BY <1>4, <2>3 DEF await
      <3>2. QED
        BY <2>1, <3>1, HomesStay
    <2>4. CASE running[h] \notin signalled
      <3>1. /\ running' = [running EXCEPT ![h] = none] /\ pc' = [pc EXCEPT ![h] = "work"]
            /\ suspended' = suspended \cup {running[h]}
            /\ m_num_wait_task' = [m_num_wait_task EXCEPT ![h] = @ + 1]
        BY <1>4, <2>4 DEF await, Goto
      <3>2. QED
        BY <2>1, <2>2, <3>1, HomeSuspend, Zenon
    <2>5. QED
      BY <2>3, <2>4
  <1>5. CASE finish(h)
    <2>1. /\ UNCHANGED <<m_task_queue, call, home, suspended, m_num_wait_task>>
          /\ running' = [running EXCEPT ![h] = none] /\ pc' = [pc EXCEPT ![h] = "work"]
      BY <1>5 DEF finish, Goto, engineVars
    <2>2. \A y \in Context : running'[y] \in Task => home'[running'[y]] = y
      BY <1>0, <2>1, Names DEF HomeInv
    <2>3. \A g \in Thread : pc'[g] \in Carrying => pc[g] \in Carrying
      BY <1>0, <2>1 DEF Carrying
    <2>4. \A y \in Context : Waiting(y)' = Waiting(y)
      BY <2>1 DEF Waiting
    <2>5. \A y \in Context : m_num_wait_task'[y] = Cardinality(Waiting(y)')
      BY <2>1, <2>4 DEF HomeInv
    <2>6. \A g \in Thread : pc'[g] \in Carrying =>
            home'[call'[g].arg] = IF call'[g].arg \in suspended' THEN call'[g].to ELSE none
      BY <2>1, <2>3 DEF HomeInv
    <2>7. QED
      BY <2>1, <2>2, <2>5, <2>6 DEF HomeInv, Carrying
  <1>6. CASE h \in Context /\ exec_one_task(h)
    BY <1>6, HomeExec
  <1>7. CASE h \in Context /\ deinit(h)
    <2>1. /\ UNCHANGED <<running, call, home, suspended, m_num_wait_task>>
          /\ m_task_queue' = [m_task_queue EXCEPT ![h] = <<>>]
          /\ \A g \in Thread : pc'[g] \in Carrying => pc[g] \in Carrying
      BY <1>0, <1>7 DEF deinit, Goto, threadVars, taskVars, Carrying
    <2>2. \A y \in Context : \A n \in 1..Len(m_task_queue'[y]) : home'[m_task_queue'[y][n]] = y
      BY <1>0, <2>1 DEF HomeInv
    <2>3. \A y \in Context : Waiting(y)' = Waiting(y)
      BY <2>1 DEF Waiting
    <2>4. \A y \in Context : m_num_wait_task'[y] = Cardinality(Waiting(y)')
      BY <2>1, <2>3 DEF HomeInv
    <2>5. \A g \in Thread : pc'[g] \in Carrying =>
            home'[call'[g].arg] = IF call'[g].arg \in suspended' THEN call'[g].to ELSE none
      BY <2>1 DEF HomeInv
    <2>6. QED
      BY <2>1, <2>2, <2>4, <2>5 DEF HomeInv, Carrying
  <1>8. CASE submit_fetch_or(h) \/ submit_fetch_add(h) \/ submit_wake(h)
    <2>1. /\ UNCHANGED <<m_task_queue, running, suspended, home, m_num_wait_task>>
          /\ \A g \in Thread : /\ pc'[g] \in Carrying => pc[g] \in Carrying
                               /\ call'[g].arg = call[g].arg /\ call'[g].to = call[g].to
      BY <1>0, <1>8 DEF submit_fetch_or, submit_fetch_add, submit_wake, Goto, Carrying, Call,
           engineVars, threadVars, taskVars
    <2>2. QED
      BY <2>1, HomesStay
  <1>9. CASE h \in Context /\ run(h) /\ ~exec_one_task(h) /\ ~deinit(h)
    <2>1. UNCHANGED <<m_task_queue, running, suspended, home, m_num_wait_task>>
      BY <1>9 DEF run, process_work, empty_wait_task, poll_work, default_stop_cb,
           stop_cb_fetch_and, stop_cb_fetch_sub, notify_stop_request, notify_stop_wake,
           engineVars, threadVars, taskVars
    <2>2. \A g \in Thread : /\ pc'[g] \in Carrying => pc[g] \in Carrying
                            /\ call'[g].arg = call[g].arg /\ call'[g].to = call[g].to
      <3>1. call' = call \/ call' = [call EXCEPT ![h].cnt = m_ctx_stop_flag[h]]
        BY <1>9 DEF run, process_work, empty_wait_task, poll_work, default_stop_cb,
             stop_cb_fetch_and, stop_cb_fetch_sub, notify_stop_request, notify_stop_wake, threadVars
      <3>2. \A g \in Thread : call'[g].arg = call[g].arg /\ call'[g].to = call[g].to
        <4>1. CASE call' = call
          BY <4>1
        <4>2. CASE call' = [call EXCEPT ![h].cnt = m_ctx_stop_flag[h]]
          BY <1>0, <4>2 DEF Call
        <4>3. QED
          BY <3>1, <4>1, <4>2
      <3>3. \A g \in Thread : pc'[g] \in Carrying => pc[g] \in Carrying
        BY <1>0, <1>9 DEF run, process_work, empty_wait_task, poll_work, default_stop_cb,
             stop_cb_fetch_and, stop_cb_fetch_sub, notify_stop_request, notify_stop_wake,
             Goto, Carrying
      <3>4. QED
        BY <3>2, <3>3
    <2>3. QED
      BY <2>1, <2>2, HomesStay
  <1>10. CASE h = main /\ mainThread
    <2>1. UNCHANGED <<m_task_queue, running, suspended, home, m_num_wait_task, call>>
      BY <1>10 DEF mainThread, start_thread, start_assign, join, engineVars, threadVars, taskVars
    <2>2. \A g \in Thread : pc'[g] \in Carrying => pc[g] \in Carrying
      <3>1. pc'[main] \notin Carrying
        BY <1>0, <1>10, Names DEF mainThread, start_thread, start_assign, join, Goto, Carrying
      <3>2. QED
        BY <1>10, <3>1, OthersStay DEF Carrying
    <2>3. QED
      BY <2>1, <2>2, HomesStay
  <1>11. QED
    BY <1>1, <1>2, <1>3, <1>4, <1>5, <1>6, <1>7, <1>8, <1>9, <1>10 DEF Step, operation

\* HomeInv in a step that changes nothing.
LEMMA HomeStutter == HomeInv /\ UNCHANGED vars => HomeInv'
  BY DEF vars, schedVars, jobVars, engineVars, threadVars, taskVars, HomeInv, Waiting

-----------------------------------------------------------------------------
(* The decision to stop.                                                   *)

\* A context that has started finds main done.
LEMMA StartedMainDone ==
    ASSUME TypeInv, NEW x \in Context, pc[x] # "unborn"
    PROVE  MainDone
  <1>1. i[main] \in Nat /\ x \in Nat
    BY Names DEF TypeInv, Types
  <1>2. ~(i[main] < x \/ (i[main] = x /\ pc[main] # "assign"))
    BY DEF TypeInv, Starting
  <1>3. i[main] > 0 \/ pc[main] = "assign"
    BY <1>1, <1>2
  <1>4. QED
    BY <1>3 DEF TypeInv, Starting, MainDone

\* Once main is done it stays so, and it carries nothing.
LEMMA MainStaysDone ==
    ASSUME TypeInv, MainDone, NEW h \in Thread, Step(h)
    PROVE  /\ MainDone' /\ (h = main => mainThread) /\ pc[main] \notin Carrying
           /\ pc'[main] \notin Carrying
  <1>0. /\ Program' = Program /\ ip[main] \in Nat /\ Len(Program[main]) \in Nat
        /\ main \in Thread /\ pc \in [Thread -> Label]
    BY Names, RuntimeAssumption DEF Step, Program, TypeInv, Types
  <1>1. h = main => mainThread
    <2>1. ASSUME h = main, operation(main)
          PROVE  FALSE
      <3>1. pc[main] \notin Calling
        BY DEF MainDone
      <3>2. \E o : Performs(main, o)
        BY <2>1, <3>1 DEF operation, dispatch, submit_fetch_or, submit_fetch_add,
             submit_to_context, signal, submit_push, submit_wake, await, finish, Calling, Carrying
      <3>3. QED
        BY <1>0, <3>2, Performing
    <2>2. QED
      BY <2>1, Names DEF Step
  <1>2. ip'[main] = ip[main]
    <2>1. CASE h = main
      BY <1>1, <2>1 DEF mainThread, start_thread, start_assign, join, taskVars
    <2>2. CASE h # main
      <3>1. running[h] # main
        BY <2>2, Names DEF TypeInv, Locals, LocalOK
      <3>2. QED
        BY <3>1, ScriptsAdvance
    <2>3. QED
      BY <2>1, <2>2
  <1>3. pc'[main] \notin Calling
    <2>1. CASE h = main
      BY <1>0, <1>1, <2>1, Names DEF mainThread, start_thread, start_assign, join, Goto, Calling,
           Carrying
    <2>2. CASE h # main
      BY <1>0, <2>2, OthersStay, Names DEF MainDone
    <2>3. QED
      BY <2>1, <2>2
  <1>4. QED
    BY <1>0, <1>1, <1>2, <1>3 DEF MainDone, Calling, Carrying

\* What OwnWorkOnly says of the operation that a context performs.
LEMMA OwnWork ==
    ASSUME TypeInv, OwnWorkOnly, NEW h \in Context, NEW o, Performs(h, o)
    PROVE  /\ o # "scheduler"
           /\ o = "context" => Program[running[h]][ip[running[h]]].ctx = none
  <1>1. h \in Thread /\ h # main
    BY Names
  <1>2. running[h] \in Task /\ ip[running[h]] \in 1..Len(Program[running[h]])
    BY <1>1, Performing
  <1>3. ip[running[h]] \in DOMAIN Program[running[h]]
    <2>1. Program \in [Task \cup {main} -> Seq(Op)]
      BY RuntimeAssumption DEF Program, TypeInv, Types
    <2>2. Program[running[h]] \in Seq(Op)
      BY <1>2, <2>1
    <2>3. QED
      BY <1>2, <2>2
  <1>4. QED
    BY <1>2, <1>3 DEF OwnWorkOnly, Performs

\* With OwnWorkOnly, whatever a context begins to carry goes to itself or to
\* the home of a suspended task.
LEMMA CarriesHome ==
    ASSUME TypeInv, OwnWorkOnly, StopInv, NEW h \in Context, Step(h), pc'[h] \in Carrying
    PROVE  /\ pc'[h] = "push"
           /\ \/ call'[h].to = h
              \/ /\ call'[h].arg \in suspended /\ suspended' = suspended
                 /\ call'[h].to = home[call'[h].arg]
  <1>0. /\ h \in Thread /\ h # main /\ pc \in [Thread -> Label] /\ call \in [Thread -> Call]
    BY Names DEF TypeInv, Types
  <1>1. ~dispatch(h)
    BY OwnWork DEF dispatch
  <1>2. pc[h] \notin {"fetch_or", "fetch_add"}
    BY DEF StopInv
  <1>3. ASSUME run(h)
        PROVE  FALSE
    BY <1>0, <1>3 DEF run, process_work, exec_one_task, empty_wait_task, poll_work,
         default_stop_cb, stop_cb_fetch_and, stop_cb_fetch_sub, notify_stop_request,
         notify_stop_wake, deinit, Goto, Carrying
  <1>4. submit_to_context(h) \/ signal(h)
    <2>1. operation(h)
      BY <1>0, <1>3 DEF Step
    <2>2. QED
      BY <1>0, <1>1, <1>2, <2>1 DEF operation, submit_fetch_or, submit_fetch_add, submit_push,
           submit_wake, await, finish, Performs, Goto, Carrying
  <1>5. CASE submit_to_context(h)
    <2>1. Program[running[h]][ip[running[h]]].ctx = none
      BY <1>5, OwnWork, Zenon DEF submit_to_context
    <2>2. QED
      BY <1>0, <1>5, <2>1 DEF submit_to_context, Goto
  <1>6. CASE signal(h)
    BY <1>0, <1>6 DEF signal, Performs, Goto, Carrying
  <1>7. QED
    BY <1>4, <1>5, <1>6

\* An idle context stays idle.
LEMMA IdleStays ==
    ASSUME TypeInv, HandleInv, HomeInv, OwnWorkOnly, StopInv, MainDone,
           NEW x \in Context, Idle(x), NEW h \in Thread, Step(h)
    PROVE  Idle(x)'
  <1>0. /\ pc \in [Thread -> Label] /\ x \in Thread /\ x # main
        /\ home \in [Task -> Context \cup {none}] /\ call \in [Thread -> Call]
        /\ running \in [Thread -> Task \cup {main, none}]
    BY Names DEF TypeInv, Types
  <1>1. m_task_queue'[x] = <<>>
    <2>1. ~(submit_push(h) /\ call[h].to = x)
      BY DEF Idle, submit_push, Carrying
    <2>2. m_task_queue[x] = <<>>
      BY DEF Idle
    <2>3. QED
      BY <2>1, <2>2, QueueSteps
  <1>2. pc'[x] \notin InTask
    <2>1. pc[x] \notin InTask /\ m_task_queue[x] = <<>>
      BY DEF Idle
    <2>2. CASE x = h
      <3>1. ~operation(h)
        BY <2>1, <2>2 DEF operation, dispatch, submit_fetch_or, submit_fetch_add,
             submit_to_context, signal, submit_push, submit_wake, await, finish, Performs,
             InTask, Calling, Carrying
      <3>2. run(h)
        BY <1>0, <2>2, <3>1 DEF Step
      <3>3. QED
        BY <1>0, <2>1, <2>2, <3>2 DEF run, process_work, exec_one_task, empty_wait_task,
             poll_work, default_stop_cb, stop_cb_fetch_and, stop_cb_fetch_sub,
             notify_stop_request, notify_stop_wake, deinit, Goto, InTask, Calling, Carrying
    <2>3. CASE x # h
      BY <1>0, <2>1, <2>3, OthersStay DEF InTask, Calling, Carrying
    <2>4. QED
      BY <2>2, <2>3
  <1>3. \A t \in suspended' : home'[t] # x
    <2>0. \A t \in suspended : home[t] # x
      BY DEF Idle
    <2>1. CASE UNCHANGED <<home, suspended>>
      BY <2>0, <2>1
    <2>2. CASE submit_push(h)
      <3>1. call[h].to # x /\ suspended' = suspended /\ call[h].arg \in Task
        BY <2>2, ThreadTypes DEF submit_push, Idle, Calling, Carrying
      <3>2. \A t \in Task : home'[t] = home[t] \/ home'[t] = call[h].to
        BY <1>0, <2>2, <3>1 DEF submit_push
      <3>3. suspended \subseteq Task
        BY DEF TypeInv, Types
      <3>4. QED
        BY <2>0, <3>1, <3>2, <3>3
    <2>3. CASE await(h)
      <3>1. Performs(h, "await") /\ pc[h] = "op" /\ home' = home
        BY <2>3 DEF await, Performs
      <3>2. h \in Context /\ running[h] \in Task /\ h # x
        BY <3>1, Performing, Names DEF Idle, InTask
      <3>3. home[running[h]] = h /\ suspended' \subseteq suspended \cup {running[h]}
        BY <2>3, <3>2 DEF HomeInv, await
      <3>4. QED
        BY <2>0, <3>1, <3>2, <3>3
    <2>4. CASE finish(h)
      BY <2>0, <2>4 DEF finish
    <2>5. CASE h \in Context /\ exec_one_task(h)
      BY <2>0, <2>5, Zenon DEF exec_one_task
    <2>6. CASE h \in Context /\ deinit(h)
      BY <2>0, <2>6, Zenon DEF deinit, taskVars
    <2>7. QED
      BY <2>1, <2>2, <2>3, <2>4, <2>5, <2>6, QuietSteps
  <1>4. \A g \in Thread : pc'[g] \in Carrying => call'[g].to # x
    <2>1. TAKE g \in Thread
    <2>2. HAVE pc'[g] \in Carrying
    <2>3. g # main
      BY <2>2, MainStaysDone
    <2>4. CASE g # h
      <3>1. pc'[g] = pc[g] /\ call'[g] = call[g]
        BY <2>2, <2>4, OthersStay DEF Carrying
      <3>2. QED
        BY <2>2, <3>1 DEF Idle
    <2>5. CASE g = h
      <3>1. h \in Context /\ h # x
        BY <1>2, <2>2, <2>3, <2>5, Names DEF InTask, Calling
      <3>2. QED
        BY <2>2, <2>5, <3>1, CarriesHome DEF Idle
    <2>6. QED
      BY <2>4, <2>5
  <1>5. QED
    BY <1>1, <1>2, <1>3, <1>4 DEF Idle, InTask, Calling, Carrying

\* A context that is about to call its stop callback is idle.
LEMMA StopCbIdle ==
    ASSUME TypeInv, HomeInv, OwnWorkOnly, StopInv, NEW x \in Context, Step(x),
           empty_wait_task(x), pc'[x] = "stop_cb"
    PROVE  Idle(x) /\ MainDone
  <1>0. /\ pc \in [Thread -> Label] /\ x \in Thread /\ pc[x] = "work"
    BY Names DEF TypeInv, Types, empty_wait_task
  <1>1. m_num_wait_task[x] = 0 /\ m_task_queue[x] = <<>>
    BY <1>0 DEF empty_wait_task, Goto
  <1>2. Waiting(x) = {}
    <2>1. Cardinality(Waiting(x)) = 0 /\ IsFiniteSet(Waiting(x))
      BY <1>1, Finite DEF HomeInv
    <2>2. QED
      BY <2>1, FS_EmptySet
  <1>3. MainDone
    BY <1>0, StartedMainDone
  <1>4. \A t \in suspended : home[t] # x
    BY <1>2 DEF Waiting
  <1>5. \A h \in Thread : pc[h] \in Carrying => call[h].to # x
    <2>1. TAKE h \in Thread
    <2>2. HAVE pc[h] \in Carrying
    <2>3. h \in Context /\ h # x
      BY <1>0, <1>3, <2>2, Names DEF MainDone, Calling, Carrying
    <2>4. call[h].to = h \/ call[h].arg \in suspended
      BY <2>2, <2>3 DEF StopInv
    <2>5. call[h].arg \in suspended => home[call[h].arg] = call[h].to
      BY <2>2 DEF HomeInv
    <2>6. QED
      BY <1>4, <2>3, <2>4, <2>5
  <1>6. pc[x] \notin InTask
    BY <1>0 DEF InTask, Calling, Carrying
  <1>7. QED
    BY <1>1, <1>3, <1>4, <1>5, <1>6 DEF Idle

\* How a context comes to be stopping: it finds nothing to do, or it is asked.
LEMMA StoppingSteps ==
    ASSUME TypeInv, NEW h \in Thread, Step(h), NEW x \in Context, Stopping(x)', ~Stopping(x)
    PROVE  \/ h = x /\ empty_wait_task(x) /\ pc'[x] = "stop_cb"
           \/ h \in Context /\ StopDecided(h)
  <1>0. /\ pc \in [Thread -> Label] /\ x \in Thread /\ x # main
        /\ m_ctx_stop_flag \in [Context -> {0, 1}]
        /\ pc[x] \notin {"stop_cb", "fetch_sub", "stop", "stop_wake"}
        /\ m_ctx_stop_flag[x] = 1 /\ x \notin stop_requested
    BY Names DEF TypeInv, Types, Stopping
  <1>1. CASE x \in stop_requested'
    <2>1. h \in Context /\ (default_stop_cb(h) \/ notify_stop_request(h))
      BY <1>0, <1>1, Zenon DEF Step, operation, run, mainThread, dispatch, submit_fetch_or,
           submit_fetch_add, submit_to_context, signal, submit_push, submit_wake, await, finish,
           process_work, exec_one_task, empty_wait_task, poll_work, stop_cb_fetch_and,
           stop_cb_fetch_sub, notify_stop_wake, deinit, start_thread, start_assign, join, jobVars
    <2>2. CASE default_stop_cb(h)
      BY <1>0, <1>1, <2>2 DEF default_stop_cb, request_stop
    <2>3. CASE notify_stop_request(h)
      BY <2>1, <2>3 DEF notify_stop_request, StopDecided
    <2>4. QED
      BY <2>1, <2>2, <2>3
  <1>2. CASE m_ctx_stop_flag'[x] = 0
    <2>1. ~(h = x /\ stop_cb_fetch_and(h))
      BY <1>0 DEF stop_cb_fetch_and
    <2>2. CASE h \in Context /\ stop_cb_fetch_and(h)
      BY <1>0, <1>2, <2>1, <2>2 DEF stop_cb_fetch_and
    <2>3. CASE submit_fetch_or(h)
      BY <1>0, <1>2, <2>3 DEF submit_fetch_or
    <2>4. CASE UNCHANGED m_ctx_stop_flag
      BY <1>0, <1>2, <2>4
    <2>5. QED
      BY <2>2, <2>3, <2>4, Zenon DEF Step, operation, run, mainThread, dispatch,
           submit_fetch_add, submit_to_context, signal, submit_push, submit_wake, await, finish,
           process_work, exec_one_task, empty_wait_task, poll_work, default_stop_cb,
           stop_cb_fetch_sub, notify_stop_request, notify_stop_wake, deinit, start_thread,
           start_assign, join, schedVars
  <1>3. CASE pc'[x] \in {"stop_cb", "fetch_sub", "stop", "stop_wake"}
    <2>1. CASE h # x
      BY <1>0, <1>3, <2>1, OthersStay
    <2>2. CASE h = x
      <3>1. ~operation(h)
        BY <1>0, <1>3, <2>2 DEF operation, dispatch, submit_fetch_or, submit_fetch_add,
             submit_to_context, signal, submit_push, submit_wake, await, finish, Performs, Goto
      <3>2. run(x)
        BY <1>0, <2>2, <3>1 DEF Step
      <3>3. empty_wait_task(x) /\ pc'[x] = "stop_cb"
        BY <1>0, <1>3, <3>2 DEF run, process_work, exec_one_task, empty_wait_task, poll_work,
             default_stop_cb, stop_cb_fetch_and, stop_cb_fetch_sub, notify_stop_request,
             notify_stop_wake, deinit, Goto
      <3>4. QED
        BY <2>2, <3>3
    <2>3. QED
      BY <2>1, <2>2
  <1>4. QED
    BY <1>1, <1>2, <1>3 DEF Stopping

\* How the decision is made: a callback subtracts what is left of the token.
LEMMA DecidingSteps ==
    ASSUME TypeInv, NEW h \in Thread, Step(h), NEW z \in Context, StopDecided(z)',
           \A x \in Context : ~StopDecided(x)
    PROVE  /\ h = z /\ pc[z] = "fetch_sub" /\ m_stop_token' = 0 /\ call' = call
           /\ \A g \in Thread : pc'[g] = IF g = z THEN "stop" ELSE pc[g]
  <1>0. /\ pc \in [Thread -> Label] /\ z \in Thread /\ z # main /\ Scheduled' = Scheduled
        /\ \A x \in Context : pc[x] \notin {"stop", "stop_wake"}
        /\ m_stop_token \in Int
    BY Names, Zenon DEF TypeInv, Types, StopDecided, Step, Scheduled
  <1>1. ~(Scheduled' /\ z \in stop_requested')
    <2>1. SUFFICES ASSUME Scheduled, z \in stop_requested'
                   PROVE  FALSE
      BY <1>0
    <2>2. z \notin stop_requested
      BY <2>1 DEF StopDecided
    <2>3. h \in Context /\ (default_stop_cb(h) \/ notify_stop_request(h))
      BY <2>1, <2>2, Zenon DEF Step, operation, run, mainThread, dispatch, submit_fetch_or,
           submit_fetch_add, submit_to_context, signal, submit_push, submit_wake, await, finish,
           process_work, exec_one_task, empty_wait_task, poll_work, stop_cb_fetch_and,
           stop_cb_fetch_sub, notify_stop_wake, deinit, start_thread, start_assign, join, jobVars
    <2>4. QED
      BY <1>0, <2>1, <2>3 DEF default_stop_cb, notify_stop_request
  <1>2. pc'[z] \in {"stop", "stop_wake"}
    BY <1>1 DEF StopDecided
  <1>3. h = z
    BY <1>0, <1>2, OthersStay
  <1>4. ~operation(h)
    BY <1>0, <1>2, <1>3 DEF operation, dispatch, submit_fetch_or, submit_fetch_add,
         submit_to_context, signal, submit_push, submit_wake, await, finish, Performs, Goto
  <1>5. run(z)
    BY <1>0, <1>3, <1>4 DEF Step
  <1>6. stop_cb_fetch_sub(z) /\ m_stop_token = stop_cnt(z) /\ pc' = [pc EXCEPT ![z] = "stop"]
    BY <1>0, <1>2, <1>5 DEF run, process_work, exec_one_task, empty_wait_task, poll_work,
         default_stop_cb, stop_cb_fetch_and, stop_cb_fetch_sub, notify_stop_request,
         notify_stop_wake, deinit, Goto
  <1>7. QED
    BY <1>0, <1>3, <1>6 DEF stop_cb_fetch_sub, threadVars

\* When the token is 0 and nobody is about to add to it, no flag is set.
LEMMA NoFlagLeft ==
    ASSUME TypeInv, TokenInv, m_stop_token = 0, Adding = {}
    PROVE  \A x \in Context : m_ctx_stop_flag[x] = 0
  <1>1. Cardinality(Adding) = 0
    BY FS_EmptySet
  <1>2. Cardinality(Flagged) = 0
    BY <1>1, Finite DEF TokenInv
  <1>3. Flagged = {}
    BY <1>2, Finite, FS_EmptySet
  <1>4. QED
    BY <1>3 DEF Flagged, TypeInv, Types

\* StopInv is inductive relative to the other invariants.
LEMMA StopStep ==
    ASSUME TypeInv, HandleInv, HomeInv, TokenInv, TypeInv', TokenInv', OwnWorkOnly, StopInv,
           NEW h \in Thread, Step(h)
    PROVE  StopInv'
  <1>0. /\ pc \in [Thread -> Label] /\ call \in [Thread -> Call]
        /\ m_task_queue \in [Context -> Seq(Task)]
    BY DEF TypeInv, Types
  <1>1. \A g \in Context : pc'[g] \notin {"fetch_or", "fetch_add"}
    <2>1. TAKE g \in Context
    <2>2. g \in Thread /\ pc[g] \notin {"fetch_or", "fetch_add"}
      BY Names DEF StopInv
    <2>3. CASE g = h
      BY <2>3, CarriesHome DEF Carrying
    <2>4. CASE g # h
      BY <2>2, <2>4, OthersStay
    <2>5. QED
      BY <2>3, <2>4
  <1>2. \A g \in Context : pc'[g] \in Carrying => call'[g].to = g \/ call'[g].arg \in suspended'
    <2>1. TAKE g \in Context
    <2>2. HAVE pc'[g] \in Carrying
    <2>3. CASE g = h
      BY <2>2, <2>3, CarriesHome
    <2>4. CASE g # h
      <3>1. pc'[g] = pc[g] /\ call'[g] = call[g] /\ g \in Thread
        BY <2>2, <2>4, OthersStay, Names DEF Carrying
      <3>2. call[g].to = g \/ call[g].arg \in suspended
        BY <2>2, <3>1 DEF StopInv
      <3>3. call[g].arg \in suspended => call[g].arg \in suspended'
        <4>1. CASE h \in Context /\ exec_one_task(h)
          <5>1. suspended' = suspended \ {Head(m_task_queue[h])} /\ m_task_queue[h] # <<>>
            BY <4>1 DEF exec_one_task
          <5>2. Head(m_task_queue[h]) = m_task_queue[h][1] /\ 1 \in 1..Len(m_task_queue[h])
            BY <1>0, <4>1, <5>1
          <5>3. call[g].arg \in Task
            BY <2>2, <3>1, ThreadTypes DEF Calling
          <5>4. Carried(call[g].arg)
            BY <2>2, <3>1 DEF Carried
          <5>5. ~InQueue(call[g].arg)
            BY <5>3, <5>4 DEF HandleInv, Exclusive
          <5>6. call[g].arg # Head(m_task_queue[h])
            BY <4>1, <5>2, <5>5 DEF InQueue
          <5>7. QED
            BY <5>1, <5>6
        <4>2. CASE ~(h \in Context /\ exec_one_task(h))
          <5>1. suspended \subseteq suspended'
            BY <4>2, QuietSteps DEF submit_push, await, finish, deinit, taskVars
          <5>2. QED
            BY <5>1
        <4>3. QED
          BY <4>1, <4>2
      <3>4. QED
        BY <3>1, <3>2, <3>3
    <2>5. QED
      BY <2>3, <2>4
  <1>3. ASSUME NEW x \in Context, Stopping(x)'
        PROVE  Idle(x)' /\ MainDone'
    <2>1. Idle(x) /\ MainDone
      <3>1. CASE Stopping(x)
        BY <3>1 DEF StopInv
      <3>2. CASE h = x /\ empty_wait_task(x) /\ pc'[x] = "stop_cb"
        BY <3>2, StopCbIdle
      <3>3. CASE h \in Context /\ StopDecided(h)
        <4>1. Stopping(h)
          BY <3>3 DEF StopDecided, Stopping
        <4>2. QED
          BY <3>3, <4>1 DEF StopInv
      <3>4. QED
        BY <1>3, <3>1, <3>2, <3>3, StoppingSteps
    <2>2. QED
      BY <2>1, IdleStays, MainStaysDone
  <1>4. ASSUME NEW z \in Context, StopDecided(z)', NEW y \in Context
        PROVE  Idle(y)'
    <2>1. CASE \E x \in Context : StopDecided(x)
      <3>1. PICK x \in Context : StopDecided(x)
        BY <2>1
      <3>2. Stopping(x)
        BY <3>1 DEF StopDecided, Stopping
      <3>3. Idle(y) /\ MainDone
        BY <3>1, <3>2 DEF StopInv
      <3>4. QED
        BY <3>3, IdleStays
    <2>2. CASE \A x \in Context : ~StopDecided(x)
      <3>1. /\ h = z /\ pc[z] = "fetch_sub" /\ m_stop_token' = 0 /\ call' = call
            /\ \A g \in Thread : pc'[g] = IF g = z THEN "stop" ELSE pc[g]
        BY <1>4, <2>2, DecidingSteps
      <3>2. MainDone
        BY <3>1 DEF StopInv, Stopping
      <3>3. \A g \in Thread : pc[g] # "fetch_add"
        BY <3>2, Names DEF StopInv, MainDone, Calling, Carrying
      <3>4. Adding' = {}
        BY <3>1, <3>3 DEF Adding
      <3>5. m_ctx_stop_flag'[y] = 0
        <4>1. (m_stop_token = 0 /\ Adding = {} /\ TypeInv /\ TokenInv
                  => \A x \in Context : m_ctx_stop_flag[x] = 0)'
          BY NoFlagLeft, PTL
        <4>2. QED
          BY <3>1, <3>4, <4>1
      <3>6. Stopping(y)'
        BY <3>5 DEF Stopping
      <3>7. QED
        BY <1>3, <3>6
    <2>3. QED
      BY <2>1, <2>2
  <1>5. QED
    BY <1>1, <1>2, <1>3, <1>4 DEF StopInv, Carrying

\* Nothing is stopping at first.
LEMMA StopInit == Init => StopInv
  <1>. SUFFICES ASSUME Init
                PROVE  StopInv
    OBVIOUS
  <1>1. /\ \A x \in Context : pc[x] = "unborn" /\ m_ctx_stop_flag[x] = 1
        /\ stop_requested = {}
    BY Names DEF Init
  <1>2. \A x \in Context : ~Stopping(x) /\ ~StopDecided(x)
    BY <1>1 DEF Stopping, StopDecided
  <1>3. QED
    BY <1>1, <1>2 DEF StopInv, Carrying

\* StopInv in a step that changes nothing.
LEMMA StopStutter == StopInv /\ UNCHANGED vars => StopInv'
  BY DEF vars, schedVars, jobVars, engineVars, threadVars, taskVars, StopInv, Stopping,
     StopDecided, Idle, MainDone, Program, Scheduled, InTask, Calling, Carrying

\* All the invariants together are inductive.  OwnWorkOnly is about the
\* application, which does not change.
LEMMA StopInvariant ==
    Spec => [](TypeInv /\ HandleInv /\ HomeInv /\ TokenInv /\ (OwnWorkOnly => StopInv))
  <1>1. TypeInv /\ HandleInv /\ HomeInv /\ [Next]_vars => HomeInv'
    BY HomeStep, HomeStutter DEF Next, Finished
  <1>2. [Next]_vars => (OwnWorkOnly' => OwnWorkOnly)
    BY DEF Next, Step, Finished, vars, OwnWorkOnly, Program
  <1>3. /\ TypeInv /\ HandleInv /\ HomeInv /\ TokenInv /\ TypeInv' /\ TokenInv'
        /\ OwnWorkOnly /\ StopInv /\ [Next]_vars
        => StopInv'
    BY StopStep, StopStutter DEF Next, Finished
  <1>4. QED
    BY <1>1, <1>2, <1>3, HandleInvariant, TokenInvariant, HomeInit, StopInit, PTL DEF Spec

\* If tasks submit to their own context only, a context is asked to stop when
\* every task submitted has returned; one without a scheduler, when its own
\* have: the token drops to 0 only when no context has, or can get, work.
THEOREM StopsWhenDone == Spec => []StopOnlyWhenDone
  <1>1. ASSUME TypeInv, HandleInv, HomeInv, OwnWorkOnly, StopInv, NEW x \in stop_requested,
               NEW t \in Submitted, Scheduled \/ home[t] = x, t \notin done
        PROVE  FALSE
    <2>0. /\ x \in Context /\ t \in Task /\ Stopping(x)
          /\ m_task_queue \in [Context -> Seq(Task)]
      BY <1>1 DEF TypeInv, Types, Stopping, Submitted
    <2>1. MainDone /\ \A y \in Context : Scheduled \/ y = x => Idle(y)
      BY <1>1, <2>0 DEF StopInv, StopDecided
    <2>2. t \in suspended \/ InQueue(t) \/ Runs(t) \/ Carried(t)
      <3>1. t \in suspended \/ Handles(t) # {}
        BY <1>1 DEF Submitted
      <3>2. \A y \in Context : DOMAIN m_task_queue[y] = 1..Len(m_task_queue[y])
        BY <2>0
      <3>3. Handles(t) # {} => InQueue(t) \/ Runs(t) \/ Carried(t)
        BY <3>2 DEF Handles, InQueue, Runs, Carried, Carrying
      <3>4. QED
        BY <3>1, <3>3
    <2>3. CASE t \in suspended
      BY <1>1, <2>0, <2>1, <2>3, Zenon DEF Idle, TypeInv, Homed
    <2>4. CASE InQueue(t)
      <3>1. PICK y \in Context : \E n \in 1..Len(m_task_queue[y]) : m_task_queue[y][n] = t
        BY <2>4 DEF InQueue
      <3>2. home[t] = y /\ m_task_queue[y] # <<>>
        <4>1. home[t] = y
          BY <1>1, <3>1, Zenon DEF HomeInv
        <4>2. m_task_queue[y] # <<>>
          BY <2>0, <3>1
        <4>3. QED
          BY <4>1, <4>2
      <3>3. QED
        BY <1>1, <2>1, <3>1, <3>2, Zenon DEF Idle
    <2>5. CASE Runs(t)
      <3>1. PICK y \in Thread : running[y] = t
        BY <2>5 DEF Runs
      <3>2. y \in Context /\ pc[y] \in InTask /\ home[t] = y
        BY <1>1, <2>0, <3>1, Names, Zenon DEF TypeInv, Locals, LocalOK, HomeInv
      <3>3. QED
        BY <1>1, <2>1, <3>2, Zenon DEF Idle
    <2>6. CASE Carried(t) /\ t \notin suspended
      <3>1. PICK y \in Thread : pc[y] \in Carrying /\ call[y].arg = t
        BY <2>6 DEF Carried
      <3>2. y \in Context
        BY <2>1, <3>1, Names DEF MainDone, Calling
      <3>3. call[y].to = y /\ home[t] = none
        BY <1>1, <2>6, <3>1, <3>2 DEF StopInv, HomeInv
      <3>4. Scheduled
        BY <1>1, <2>0, <3>3, Names
      <3>5. QED
        BY <2>1, <3>1, <3>2, <3>3, <3>4, Zenon DEF Idle
    <2>7. QED
      BY <2>2, <2>3, <2>4, <2>5, <2>6
  <1>2. TypeInv /\ HandleInv /\ HomeInv /\ (OwnWorkOnly => StopInv) => StopOnlyWhenDone
    BY <1>1 DEF StopOnlyWhenDone
  <1>3. QED
    BY <1>2, StopInvariant, PTL
=============================================================================
