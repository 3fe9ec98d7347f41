------------------------ MODULE RuntimeHandleProofs ------------------------
(***************************************************************************)
(* Proofs about the scheduler's coroutine handles and its stop token, for  *)
(* every number of contexts and every application.                         *)
(***************************************************************************)
EXTENDS RuntimeProofs, FiniteSetTheorems

\* The three kinds of handles.
InQueue(t) == \E x \in Context : \E n \in 1..Len(m_task_queue[x]) : m_task_queue[x][n] = t
Runs(t) == \E h \in Thread : running[h] = t
Carried(t) == \E h \in Thread : pc[h] \in Carrying /\ call[h].arg = t
HasHandle(t) == InQueue(t) \/ Runs(t) \/ Carried(t)

\* No two handles are of the same task.
Exclusive ==
    /\ \A x, y \in Context :
        \A n \in 1..Len(m_task_queue[x]), k \in 1..Len(m_task_queue[y]) :
            m_task_queue[x][n] = m_task_queue[y][k] => x = y /\ n = k
    /\ \A h, g \in Thread : running[h] = running[g] /\ running[h] \in Task => h = g
    /\ \A h, g \in Thread :
        pc[h] \in Carrying /\ pc[g] \in Carrying /\ call[h].arg = call[g].arg => h = g
    /\ \A t \in Task : /\ ~(InQueue(t) /\ Runs(t)) /\ ~(InQueue(t) /\ Carried(t))
                       /\ ~(Runs(t) /\ Carried(t))

\* What nobody has submitted yet has no handle, and no state.
Fresh(t) == ~HasHandle(t) /\ t \notin suspended /\ t \notin done /\ home[t] = none

\* The submissions that are still to be made submit fresh tasks.
PendingFresh ==
    \A s \in Task \cup {main} : \A n \in ip[s]..Len(Program[s]) :
        Submits(Program[s][n]) => Fresh(Program[s][n].arg)

\* A suspended task has a handle only once it is signalled; none while it runs.
StateInv ==
    /\ \A t \in suspended : ~Runs(t) /\ t \notin done
    /\ \A t \in suspended \ signalled : ~HasHandle(t)
    /\ \A t \in done : ~HasHandle(t)

HandleInv == Exclusive /\ StateInv /\ PendingFresh

\* The terms of TokenAccounting.
Flagged == {x \in Context : m_ctx_stop_flag[x] = 1}
Subtracting == {x \in Context : pc[x] = "fetch_sub" /\ call[x].cnt = 1}
Adding == {h \in Thread : pc[h] = "fetch_add" /\ call[h].cnt = 0}

\* The token is accounted for, and a context that has not started is flagged.
TokenInv ==
    /\ m_stop_token = Cardinality(Flagged) + Cardinality(Subtracting) - Cardinality(Adding)
    /\ \A x \in Context : pc[x] = "unborn" => m_ctx_stop_flag[x] = 1

\* The coroutines that wait for a signal, or to go on after one, on context x.
Waiting(x) == {t \in suspended : home[t] = x}
-----------------------------------------------------------------------------
(* Handles.                                                                *)

\* Only one operation of the application submits a given task.
LEMMA SubmittedOnce ==
    ASSUME app \in Apps, NEW s \in Task \cup {main}, NEW u \in Task \cup {main},
           NEW n \in DOMAIN Program[s], NEW k \in DOMAIN Program[u],
           Submits(Program[s][n]), Submits(Program[u][k]), Program[s][n].arg = Program[u][k].arg
    PROVE  s = u /\ n = k
  BY RuntimeAssumption DEF Program

\* The operation that a thread performs submits a fresh task, and no later
\* operation submits that one.
LEMMA SubmitsFresh ==
    ASSUME TypeInv, PendingFresh, NEW h \in Thread, NEW o \in {"scheduler", "context"},
           Performs(h, o), UNCHANGED app
    PROVE  /\ Fresh(Arg(h))
           /\ \A s \in Task \cup {main} : \A n \in ip'[s]..Len(Program'[s]) :
                Submits(Program'[s][n]) =>
                    n \in ip[s]..Len(Program[s]) /\ Program'[s] = Program[s]
                    /\ Program[s][n].arg # Arg(h)
  <1>. DEFINE r == running[h]
  <1>0. /\ r \in Task \cup {main} /\ ip[r] \in 1..Len(Program[r])
        /\ ip' = [ip EXCEPT ![r] = ip[r] + 1] /\ Submits(Program[r][ip[r]])
        /\ Arg(h) = Program[r][ip[r]].arg /\ Program' = Program
    BY Performing DEF Arg, Program
  <1>1. /\ ip \in [Task \cup {main} -> Nat \ {0}] /\ app \in Apps
        /\ \A s \in Task \cup {main} : Program[s] \in Seq(Op) /\ Len(Program[s]) \in Nat
    BY RuntimeAssumption DEF TypeInv, Types, Program
  <1>2. Fresh(Arg(h))
    <2>1. ip[r] \in ip[r]..Len(Program[r])
      BY <1>0, <1>1
    <2>2. QED
      BY <1>0, <2>1 DEF PendingFresh
  <1>3. ASSUME NEW s \in Task \cup {main}, NEW n \in ip'[s]..Len(Program[s]),
               Submits(Program[s][n])
        PROVE  n \in ip[s]..Len(Program[s]) /\ Program[s][n].arg # Arg(h)
    <2>1. /\ n \in ip[s]..Len(Program[s]) /\ n \in DOMAIN Program[s] /\ ~(s = r /\ n = ip[r])
          /\ ip[r] \in DOMAIN Program[r]
      BY <1>0, <1>1
    <2>2. Program[s][n].arg = Program[r][ip[r]].arg => s = r /\ n = ip[r]
      <3>1. PICK k \in DOMAIN Program[r] : k = ip[r] /\ Submits(Program[r][k])
        BY <1>0, <2>1
      <3>2. PICK v \in Task \cup {main} : v = r
        BY <1>0
      <3>3. k \in DOMAIN Program[v] /\ Submits(Program[v][k])
        BY <3>1, <3>2
      <3>4. Program[s][n].arg = Program[v][k].arg => s = v /\ n = k
        BY <1>1, <1>3, <2>1, <3>3, SubmittedOnce, Zenon
      <3>5. QED
        BY <3>1, <3>2, <3>4
    <2>3. QED
      BY <1>0, <2>1, <2>2
  <1>4. QED
    BY <1>0, <1>2, <1>3

\* Scripts advance, so what stays fresh is what PendingFresh asks for.
LEMMA PendingKept ==
    ASSUME TypeInv, PendingFresh, NEW h \in Thread, Step(h),
           \A t \in Task : Fresh(t) => Fresh(t)'
    PROVE  PendingFresh'
  <1>0. Program' = Program /\ app \in Apps
    BY DEF TypeInv, Types, Step, Program
  <1>1. ASSUME NEW s \in Task \cup {main}, NEW n \in ip'[s]..Len(Program[s]),
               Submits(Program[s][n])
        PROVE  Fresh(Program[s][n].arg)'
    <2>1. n \in ip[s]..Len(Program[s])
      <3>1. ip[s] \in Nat /\ ip'[s] \in Nat /\ ip[s] <= ip'[s]
        BY ScriptsAdvance
      <3>2. Len(Program[s]) \in Nat
        BY <1>0, RuntimeAssumption DEF Program
      <3>3. QED
        BY <3>1, <3>2
    <2>2. Program[s][n].arg \in Task
      <3>1. ip[s] \in Nat \ {0} /\ Len(Program[s]) \in Nat
        BY <1>0, RuntimeAssumption DEF Program, TypeInv, Types
      <3>2. n \in Nat \ {0} /\ n <= Len(Program[s])
        BY <2>1, <3>1
      <3>3. QED
        BY <1>0, <1>1, <3>2, OpTypes DEF Submits
    <2>3. PICK t \in Task : t = Program[s][n].arg
      BY <2>2
    <2>4. Fresh(t)
      BY <1>1, <2>1, <2>3 DEF PendingFresh
    <2>5. Fresh(t)'
      BY <2>4
    <2>6. t = (Program[s][n].arg)'
      BY <1>0, <2>3
    <2>7. QED
      BY <2>5, <2>6
  <1>2. QED
    BY <1>0, <1>1 DEF PendingFresh

\* Steps that move no handle.
LEMMA HandlesStay ==
    ASSUME TypeInv, HandleInv, NEW h \in Thread, Step(h),
           UNCHANGED <<m_task_queue, running, suspended, done, home>>,
           signalled \subseteq signalled',
           \A g \in Thread : /\ pc'[g] \in Carrying <=> pc[g] \in Carrying
                             /\ pc[g] \in Carrying => call'[g].arg = call[g].arg
    PROVE  HandleInv'
  <1>1. \A t \in Task : /\ InQueue(t)' <=> InQueue(t)
                        /\ Runs(t)' <=> Runs(t)
                        /\ Carried(t)' <=> Carried(t)
    BY DEF InQueue, Runs, Carried, Carrying
  <1>2. \A t \in Task : HasHandle(t)' <=> HasHandle(t)
    BY <1>1 DEF HasHandle
  <1>3. Exclusive'
    BY <1>1 DEF HandleInv, Exclusive, Carrying
  <1>4. StateInv'
    BY <1>1, <1>2 DEF HandleInv, StateInv, TypeInv, Types
  <1>5. \A t \in Task : Fresh(t) => Fresh(t)'
    BY <1>2 DEF Fresh
  <1>6. QED
    BY <1>3, <1>4, <1>5, PendingKept DEF HandleInv

\* Thread h begins to submit u, which has no handle yet.
LEMMA HandleCarried ==
    ASSUME TypeInv, HandleInv, NEW h \in Thread, NEW u \in Task, Step(h),
           UNCHANGED <<m_task_queue, running, suspended, done, home>>,
           pc[h] = "op", pc'[h] \in Carrying, call'[h].arg = u, ~HasHandle(u),
           \A g \in Thread \ {h} : pc'[g] = pc[g] /\ call'[g] = call[g]
    PROVE  /\ Exclusive'
           /\ \A t \in Task : Runs(t)' <=> Runs(t)
           /\ \A t \in Task \ {u} : HasHandle(t)' <=> HasHandle(t)
  <1>1. \A t \in Task : /\ InQueue(t)' <=> InQueue(t)
                        /\ Runs(t)' <=> Runs(t)
                        /\ Carried(t)' <=> Carried(t) \/ t = u
    <2>1. pc[h] \notin Carrying
      BY DEF Carrying
    <2>2. QED
      BY <2>1 DEF InQueue, Runs, Carried, Carrying
  <1>2. \A t \in Task \ {u} : HasHandle(t)' <=> HasHandle(t)
    BY <1>1 DEF HasHandle
  <1>3. \A g, k \in Thread :
          pc'[g] \in Carrying /\ pc'[k] \in Carrying /\ call'[g].arg = call'[k].arg => g = k
    <2>1. \A g \in Thread \ {h} : pc[g] \in Carrying => call[g].arg # u
      BY DEF HasHandle, Carried
    <2>2. QED
      BY <2>1 DEF HandleInv, Exclusive
  <1>4. Exclusive'
    BY <1>1, <1>3 DEF HandleInv, Exclusive, HasHandle, Carrying
  <1>5. QED
    BY <1>1, <1>2, <1>4

\* submit_to_scheduler and submit_to_context.
LEMMA HandleSubmit ==
    ASSUME TypeInv, HandleInv, NEW h \in Thread, Step(h), dispatch(h) \/ submit_to_context(h)
    PROVE  HandleInv'
  <1>0. PICK o \in {"scheduler", "context"} : Performs(h, o)
    BY DEF dispatch, submit_to_context
  <1>. DEFINE u == Arg(h)
  <1>1. /\ UNCHANGED <<m_task_queue, running, suspended, done, home, signalled, app>>
        /\ u \in Task /\ Fresh(u) /\ pc[h] = "op"
    BY <1>0, Performing, SubmitsFresh, Zenon
    DEF dispatch, submit_to_context, engineVars, HandleInv, Step, Performs
  <1>2. /\ pc'[h] \in Carrying /\ call'[h].arg = u
        /\ \A g \in Thread \ {h} : pc'[g] = pc[g] /\ call'[g] = call[g]
    <2>0. pc \in [Thread -> Label] /\ call \in [Thread -> Call]
      BY DEF TypeInv, Types
    <2>1. PICK x, l : /\ call' = [call EXCEPT ![h] = [arg |-> u, to |-> x, cnt |-> 0]]
                      /\ l \in Carrying /\ pc' = [pc EXCEPT ![h] = l]
      <3>1. CASE dispatch(h)
        BY <3>1, Zenon DEF dispatch, Goto, Carrying
      <3>2. CASE submit_to_context(h)
        BY <3>2, Zenon DEF submit_to_context, Goto, Carrying
      <3>3. QED
        BY <3>1, <3>2
    <2>2. QED
      BY <2>0, <2>1
  <1>3. PICK v \in Task : v = Arg(h)
    BY <1>1
  <1>4. /\ Exclusive'
        /\ \A t \in Task : Runs(t)' <=> Runs(t)
        /\ \A t \in Task \ {v} : HasHandle(t)' <=> HasHandle(t)
    BY <1>1, <1>2, <1>3, HandleCarried DEF Fresh
  <1>5. v \notin suspended /\ v \notin done
    BY <1>1, <1>3 DEF Fresh
  <1>6. StateInv'
    BY <1>1, <1>4, <1>5 DEF HandleInv, StateInv, TypeInv, Types
  <1>7. \A t \in Task \ {v} : Fresh(t) => Fresh(t)'
    BY <1>1, <1>4 DEF Fresh
  <1>8. PendingFresh'
    <2>0. Program' = Program
      BY <1>1 DEF Program
    <2>1. SUFFICES ASSUME NEW s \in Task \cup {main}, NEW n \in ip'[s]..Len(Program[s]),
                          Submits(Program[s][n])
                   PROVE  Fresh(Program[s][n].arg)'
      BY <2>0 DEF PendingFresh
    <2>2. n \in ip[s]..Len(Program[s]) /\ Program[s][n].arg # v
      BY <1>0, <1>1, <1>3, <2>0, <2>1, SubmitsFresh DEF HandleInv
    <2>3. Program[s][n].arg \in Task
      <3>1. /\ ip[s] \in Nat \ {0} /\ Len(Program[s]) \in Nat /\ app \in Apps
        BY RuntimeAssumption DEF Program, TypeInv, Types
      <3>2. n \in Nat \ {0} /\ n <= Len(Program[s])
        BY <2>2, <3>1
      <3>3. QED
        BY <2>1, <3>1, <3>2, OpTypes DEF Submits
    <2>4. PICK t \in Task \ {v} : t = Program[s][n].arg
      BY <2>2, <2>3
    <2>5. Fresh(t)
      BY <2>1, <2>2, <2>4 DEF HandleInv, PendingFresh
    <2>6. Fresh(t)' /\ t = (Program[s][n].arg)'
      BY <1>7, <2>0, <2>4, <2>5
    <2>7. QED
      BY <2>6
  <1>9. QED
    BY <1>4, <1>6, <1>8 DEF HandleInv

\* A signal submits a suspended task once.
LEMMA HandleSignal ==
    ASSUME TypeInv, HandleInv, NEW h \in Thread, Step(h), signal(h)
    PROVE  HandleInv'
  <1>0. /\ UNCHANGED <<m_task_queue, running, suspended, done, home>>
        /\ Performs(h, "signal") /\ pc[h] = "op" /\ Arg(h) \in Task
        /\ signalled' = signalled \cup {Arg(h)}
    BY Performing, Zenon DEF signal, engineVars, Performs
  <1>1. CASE Arg(h) \notin suspended \ signalled
    <2>1. UNCHANGED <<pc, call>>
      BY <1>1 DEF signal
    <2>2. QED
      BY <1>0, <2>1, HandlesStay DEF Carrying
  <1>2. CASE Arg(h) \in suspended \ signalled
    <2>1. PICK v \in Task : v = Arg(h)
      BY <1>0
    <2>2. ~HasHandle(v) /\ v \in suspended /\ v \notin done
      BY <1>2, <2>1 DEF HandleInv, StateInv
    <2>3. /\ pc'[h] \in Carrying /\ call'[h].arg = v
          /\ \A g \in Thread \ {h} : pc'[g] = pc[g] /\ call'[g] = call[g]
      BY <1>2, <2>1 DEF signal, Goto, Carrying, TypeInv, Types
    <2>4. /\ Exclusive'
          /\ \A t \in Task : Runs(t)' <=> Runs(t)
          /\ \A t \in Task \ {v} : HasHandle(t)' <=> HasHandle(t)
      BY <1>0, <2>2, <2>3, HandleCarried
    <2>5. StateInv'
      BY <1>0, <2>1, <2>2, <2>4 DEF HandleInv, StateInv, TypeInv, Types
    <2>6. \A t \in Task : Fresh(t) => Fresh(t)'
      BY <1>0, <2>2, <2>4 DEF Fresh
    <2>7. QED
      BY <2>4, <2>5, <2>6, PendingKept DEF HandleInv
  <1>3. QED
    BY <1>1, <1>2

\* try_push: the handle goes from the caller to the queue.
LEMMA HandlePush ==
    ASSUME TypeInv, HandleInv, NEW h \in Thread, Step(h), submit_push(h)
    PROVE  HandleInv'
  <1>0. /\ UNCHANGED <<running, call, suspended, done, signalled>> /\ pc[h] = "push"
        /\ call[h].to \in Context /\ call[h].arg \in Task
    BY ThreadTypes DEF submit_push, threadVars, Calling, Carrying
  <1>1. PICK v \in Task, x \in Context : v = call[h].arg /\ x = call[h].to
    BY <1>0
  <1>2. /\ m_task_queue \in [Context -> Seq(Task)] /\ home \in [Task -> Context \cup {none}]
        /\ pc \in [Thread -> Label]
    BY DEF TypeInv, Types
  <1>3. /\ m_task_queue' = [m_task_queue EXCEPT ![x] = Append(m_task_queue[x], v)]
        /\ home' = [home EXCEPT ![v] = x] /\ pc'[h] = "wake"
        /\ \A g \in Thread \ {h} : pc'[g] = pc[g]
    BY <1>1, <1>2 DEF submit_push, Goto
  <1>4. Carried(v) /\ ~InQueue(v) /\ ~Runs(v) /\ v \notin done
        /\ \A g \in Thread \ {h} : pc[g] \in Carrying => call[g].arg # v
    <2>1. Carried(v) /\ pc[h] \in Carrying
      BY <1>0, <1>1 DEF Carried, Carrying
    <2>2. QED
      BY <1>1, <2>1 DEF HandleInv, Exclusive, StateInv, HasHandle
  <1>5. \A y \in Context \ {x} : m_task_queue'[y] = m_task_queue[y]
    BY <1>2, <1>3
  <1>6. /\ Len(m_task_queue[x]) \in Nat /\ Len(m_task_queue'[x]) = Len(m_task_queue[x]) + 1
        /\ \A n \in 1..Len(m_task_queue[x]) : m_task_queue'[x][n] = m_task_queue[x][n]
        /\ m_task_queue'[x][Len(m_task_queue[x]) + 1] = v
    BY <1>2, <1>3
  <1>7. \A y \in Context : \A n \in 1..Len(m_task_queue'[y]) :
          \/ n \in 1..Len(m_task_queue[y]) /\ m_task_queue'[y][n] = m_task_queue[y][n]
          \/ y = x /\ n = Len(m_task_queue[x]) + 1 /\ m_task_queue'[y][n] = v
    BY <1>5, <1>6
  <1>8. \A y \in Context : \A n \in 1..Len(m_task_queue[y]) :
          n \in 1..Len(m_task_queue'[y]) /\ m_task_queue'[y][n] = m_task_queue[y][n]
    BY <1>5, <1>6
  <1>9. \A t \in Task : InQueue(t)' <=> InQueue(t) \/ t = v
    <2>1. Len(m_task_queue[x]) + 1 \in 1..Len(m_task_queue'[x])
      BY <1>6
    <2>2. InQueue(v)'
      BY <1>6, <2>1 DEF InQueue
    <2>3. \A t \in Task : InQueue(t) => InQueue(t)'
      BY <1>8 DEF InQueue
    <2>4. \A t \in Task : InQueue(t)' => InQueue(t) \/ t = v
      BY <1>7 DEF InQueue
    <2>5. QED
      BY <2>2, <2>3, <2>4
  <1>10. \A t \in Task : /\ Runs(t)' <=> Runs(t)
                         /\ Carried(t)' <=> Carried(t) /\ t # v
    BY <1>0, <1>1, <1>3, <1>4 DEF Runs, Carried, Carrying
  <1>11. \A t \in Task : HasHandle(t)' <=> HasHandle(t)
    BY <1>4, <1>9, <1>10 DEF HasHandle
  <1>12. Exclusive'
    <2>1. \A y, z \in Context :
            \A n \in 1..Len(m_task_queue'[y]), k \in 1..Len(m_task_queue'[z]) :
                m_task_queue'[y][n] = m_task_queue'[z][k] => y = z /\ n = k
      <3>1. \A y \in Context : \A n \in 1..Len(m_task_queue[y]) : m_task_queue[y][n] # v
        BY <1>4 DEF InQueue
      <3>2. SUFFICES ASSUME NEW y \in Context, NEW z \in Context,
                            NEW n \in 1..Len(m_task_queue'[y]), NEW k \in 1..Len(m_task_queue'[z]),
                            m_task_queue'[y][n] = m_task_queue'[z][k]
                     PROVE  y = z /\ n = k
        OBVIOUS
      <3>3. /\ \/ n \in 1..Len(m_task_queue[y]) /\ m_task_queue'[y][n] = m_task_queue[y][n]
               \/ y = x /\ n = Len(m_task_queue[x]) + 1 /\ m_task_queue'[y][n] = v
            /\ \/ k \in 1..Len(m_task_queue[z]) /\ m_task_queue'[z][k] = m_task_queue[z][k]
               \/ z = x /\ k = Len(m_task_queue[x]) + 1 /\ m_task_queue'[z][k] = v
        BY <1>7
      <3>4. CASE n \in 1..Len(m_task_queue[y]) /\ k \in 1..Len(m_task_queue[z])
        BY <1>8, <3>2, <3>4 DEF HandleInv, Exclusive
      <3>5. QED
        BY <1>8, <3>1, <3>2, <3>3, <3>4
    <2>2. \A g, k \in Thread :
            pc'[g] \in Carrying /\ pc'[k] \in Carrying /\ call'[g].arg = call'[k].arg => g = k
      BY <1>0, <1>3 DEF HandleInv, Exclusive, Carrying
    <2>3. QED
      BY <1>0, <1>4, <1>9, <1>10, <2>1, <2>2 DEF HandleInv, Exclusive, Carrying
  <1>13. StateInv'
    BY <1>0, <1>10, <1>11 DEF HandleInv, StateInv, TypeInv, Types
  <1>14. \A t \in Task : Fresh(t) => Fresh(t)'
    <2>1. HasHandle(v)
      BY <1>4 DEF HasHandle
    <2>2. QED
      BY <1>0, <1>2, <1>3, <1>11, <2>1 DEF Fresh
  <1>15. QED
    BY <1>12, <1>13, <1>14, PendingKept DEF HandleInv

\* The task that thread h runs suspends or returns.
LEMMA HandleLeft ==
    ASSUME TypeInv, HandleInv, NEW h \in Context, NEW u \in Task, Step(h), running[h] = u,
           running' = [running EXCEPT ![h] = none],
           UNCHANGED <<m_task_queue, call, home, signalled>>,
           pc[h] = "op", pc' = [pc EXCEPT ![h] = "work"],
           \/ suspended' = suspended \cup {u} /\ done' = done
           \/ suspended' = suspended /\ done' = done \cup {u}
    PROVE  HandleInv'
  <1>0. /\ running \in [Thread -> Task \cup {main, none}] /\ pc \in [Thread -> Label]
        /\ h \in Thread
    BY Names DEF TypeInv, Types
  <1>1. \A t \in Task : /\ InQueue(t)' <=> InQueue(t)
                        /\ Runs(t)' <=> Runs(t) /\ t # u
                        /\ Carried(t)' <=> Carried(t)
    <2>1. \A t \in Task : InQueue(t)' <=> InQueue(t)
      BY DEF InQueue
    <2>2. \A t \in Task : Runs(t)' <=> Runs(t) /\ t # u
      <3>1. \A g \in Thread \ {h} : running'[g] = running[g] /\ running[g] # u
        BY <1>0 DEF HandleInv, Exclusive
      <3>2. running'[h] = none
        BY <1>0
      <3>3. QED
        BY <3>1, <3>2, Names DEF Runs
    <2>3. \A t \in Task : Carried(t)' <=> Carried(t)
      BY <1>0 DEF Carried, Carrying
    <2>4. QED
      BY <2>1, <2>2, <2>3
  <1>2. Runs(u) /\ ~InQueue(u) /\ ~Carried(u) /\ u \notin suspended /\ u \notin done
    <2>1. Runs(u)
      BY <1>0 DEF Runs
    <2>2. QED
      BY <2>1 DEF HandleInv, Exclusive, StateInv, HasHandle
  <1>3. \A t \in Task : HasHandle(t)' <=> HasHandle(t) /\ t # u
    BY <1>1, <1>2 DEF HasHandle
  <1>4. Exclusive'
    <2>1. \A g, k \in Thread : running'[g] = running'[k] /\ running'[g] \in Task => g = k
      BY <1>0, Names DEF HandleInv, Exclusive
    <2>2. \A g, k \in Thread :
            pc'[g] \in Carrying /\ pc'[k] \in Carrying /\ call'[g].arg = call'[k].arg => g = k
      BY <1>0 DEF HandleInv, Exclusive, Carrying
    <2>3. QED
      <3>1. UNCHANGED m_task_queue
        BY <1>0
      <3>2. QED
        BY <1>1, <2>1, <2>2, <3>1 DEF HandleInv, Exclusive
  <1>5. StateInv'
    BY <1>1, <1>2, <1>3, Zenon DEF HandleInv, StateInv, TypeInv, Types
  <1>6. \A t \in Task : Fresh(t) => Fresh(t)'
    <2>1. HasHandle(u)
      BY <1>2 DEF HasHandle
    <2>2. QED
      BY <1>3, <2>1 DEF Fresh
  <1>7. QED
    BY <1>0, <1>4, <1>5, <1>6, PendingKept DEF HandleInv

\* exec_one_task: the handle goes from the queue to the thread of the context.
LEMMA HandleExec ==
    ASSUME TypeInv, HandleInv, NEW h \in Context, Step(h), exec_one_task(h)
    PROVE  HandleInv'
  <1>0. /\ running \in [Thread -> Task \cup {main, none}] /\ pc \in [Thread -> Label]
        /\ h \in Thread /\ m_task_queue \in [Context -> Seq(Task)]
        /\ UNCHANGED <<call, home, signalled, done>>
        /\ m_task_queue[h] # <<>> /\ pc[h] = "work" /\ Head(m_task_queue[h]) \in Task
    BY Names DEF TypeInv, Types, exec_one_task
  <1>1. PICK u \in Task : u = Head(m_task_queue[h])
    BY <1>0
  <1>2. /\ m_task_queue' = [m_task_queue EXCEPT ![h] = Tail(m_task_queue[h])]
        /\ running' = [running EXCEPT ![h] = u] /\ suspended' = suspended \ {u}
        /\ \A g \in Thread : pc'[g] \in Carrying <=> pc[g] \in Carrying
    BY <1>0, <1>1 DEF exec_one_task, Goto, Carrying
  <1>3. /\ Len(m_task_queue[h]) \in Nat \ {0} /\ m_task_queue[h][1] = u
        /\ Len(m_task_queue'[h]) = Len(m_task_queue[h]) - 1
        /\ \A n \in 1..Len(m_task_queue'[h]) : m_task_queue'[h][n] = m_task_queue[h][n + 1]
    BY <1>0, <1>1, <1>2
  <1>4. \A y \in Context \ {h} : m_task_queue'[y] = m_task_queue[y]
    BY <1>0, <1>2
  <1>5. InQueue(u) /\ ~Runs(u) /\ ~Carried(u) /\ u \notin done
    <2>1. 1 \in 1..Len(m_task_queue[h])
      BY <1>3
    <2>2. InQueue(u)
      BY <1>3, <2>1 DEF InQueue
    <2>3. QED
      BY <2>2 DEF HandleInv, Exclusive, StateInv, HasHandle
  <1>. DEFINE Was(y, n) == IF y = h THEN n + 1 ELSE n
  <1>6. \A y \in Context : \A n \in 1..Len(m_task_queue'[y]) :
          /\ Was(y, n) \in 1..Len(m_task_queue[y]) /\ ~(y = h /\ Was(y, n) = 1)
          /\ m_task_queue'[y][n] = m_task_queue[y][Was(y, n)]
    <2>1. TAKE y \in Context
    <2>2. CASE y = h
      BY <1>3, <2>2
    <2>3. CASE y # h
      BY <1>4, <2>3
    <2>4. QED
      BY <2>2, <2>3
  <1>7. \A y \in Context : \A n \in 1..Len(m_task_queue[y]) :
          \/ m_task_queue[y][n] = u
          \/ \E k \in 1..Len(m_task_queue'[y]) : m_task_queue'[y][k] = m_task_queue[y][n]
    <2>1. SUFFICES ASSUME NEW y \in Context, NEW n \in 1..Len(m_task_queue[y]),
                          m_task_queue[y][n] # u
                   PROVE  \E k \in 1..Len(m_task_queue'[y]) :
                            m_task_queue'[y][k] = m_task_queue[y][n]
      OBVIOUS
    <2>2. CASE y = h
      <3>1. n - 1 \in 1..Len(m_task_queue'[h]) /\ (n - 1) + 1 = n
        BY <1>3, <2>1, <2>2
      <3>2. m_task_queue'[h][n - 1] = m_task_queue[h][n]
        BY <1>3, <3>1
      <3>3. QED
        BY <2>2, <3>1, <3>2
    <2>3. CASE y # h
      BY <1>4, <2>3
    <2>4. QED
      BY <2>2, <2>3
  <1>8. \A y \in Context : \A n \in 1..Len(m_task_queue'[y]) : m_task_queue'[y][n] # u
    <2>1. 1 \in 1..Len(m_task_queue[h]) /\ m_task_queue[h][1] = u
      BY <1>3
    <2>2. \A y \in Context : \A k \in 1..Len(m_task_queue[y]) :
            m_task_queue[h][1] = m_task_queue[y][k] => h = y /\ 1 = k
      <3>1. \A x, y \in Context :
              \A n \in 1..Len(m_task_queue[x]), k \in 1..Len(m_task_queue[y]) :
                m_task_queue[x][n] = m_task_queue[y][k] => x = y /\ n = k
        BY DEF HandleInv, Exclusive
      <3>2. QED
        BY <2>1, <3>1
    <2>3. ASSUME NEW y \in Context, NEW n \in 1..Len(m_task_queue'[y])
          PROVE  m_task_queue'[y][n] # u
      <3>1. PICK k \in 1..Len(m_task_queue[y]) :
                ~(y = h /\ k = 1) /\ m_task_queue'[y][n] = m_task_queue[y][k]
        BY <1>6, <2>3, Zenon
      <3>2. QED
        BY <2>1, <2>2, <3>1
    <2>4. QED
      BY <2>3
  <1>9. \A t \in Task : /\ InQueue(t)' <=> InQueue(t) /\ t # u
                        /\ Runs(t)' <=> Runs(t) \/ t = u
                        /\ Carried(t)' <=> Carried(t)
    <2>1. \A t \in Task : InQueue(t)' => InQueue(t) /\ t # u
      BY <1>6, <1>8 DEF InQueue
    <2>2. \A t \in Task : InQueue(t) /\ t # u => InQueue(t)'
      BY <1>7 DEF InQueue
    <2>3. \A t \in Task : Runs(t)' <=> Runs(t) \/ t = u
      <3>1. running[h] = none
        BY <1>0, Names, Zenon DEF TypeInv, Locals, LocalOK, InTask, Calling, Carrying
      <3>2. running'[h] = u /\ \A g \in Thread \ {h} : running'[g] = running[g]
        BY <1>0, <1>2
      <3>3. QED
        BY <1>0, <3>1, <3>2, Names, Zenon DEF Runs
    <2>4. \A t \in Task : Carried(t)' <=> Carried(t)
      BY <1>0, <1>2 DEF Carried, Carrying
    <2>5. QED
      BY <2>1, <2>2, <2>3, <2>4
  <1>10. \A t \in Task : HasHandle(t)' <=> HasHandle(t)
    BY <1>5, <1>9 DEF HasHandle
  <1>11. Exclusive'
    <2>1. \A y, z \in Context :
            \A n \in 1..Len(m_task_queue'[y]), k \in 1..Len(m_task_queue'[z]) :
                m_task_queue'[y][n] = m_task_queue'[z][k] => y = z /\ n = k
      <3>1. SUFFICES ASSUME NEW y \in Context, NEW z \in Context,
                            NEW n \in 1..Len(m_task_queue'[y]), NEW k \in 1..Len(m_task_queue'[z]),
                            m_task_queue'[y][n] = m_task_queue'[z][k]
                     PROVE  y = z /\ n = k
        OBVIOUS
      <3>2. PICK nn \in 1..Len(m_task_queue[y]), kk \in 1..Len(m_task_queue[z]) :
                /\ nn = Was(y, n) /\ m_task_queue'[y][n] = m_task_queue[y][nn]
                /\ kk = Was(z, k) /\ m_task_queue'[z][k] = m_task_queue[z][kk]
        BY <1>6
      <3>3. y = z /\ nn = kk
        <4>1. m_task_queue[y][nn] = m_task_queue[z][kk]
          BY <3>1, <3>2, Zenon
        <4>2. QED
          BY <4>1 DEF HandleInv, Exclusive
      <3>4. QED
        BY <1>3, <3>2, <3>3
    <2>2. \A g, k \in Thread : running'[g] = running'[k] /\ running'[g] \in Task => g = k
      <3>1. \A g \in Thread : running[g] # u
        BY <1>5 DEF Runs
      <3>2. QED
        BY <1>0, <1>2, <3>1 DEF HandleInv, Exclusive
    <2>3. \A g, k \in Thread :
            pc'[g] \in Carrying /\ pc'[k] \in Carrying /\ call'[g].arg = call'[k].arg => g = k
      BY <1>0, <1>2 DEF HandleInv, Exclusive
    <2>4. \A t \in Task : /\ ~(InQueue(t)' /\ Runs(t)') /\ ~(InQueue(t)' /\ Carried(t)')
                          /\ ~(Runs(t)' /\ Carried(t)')
      BY <1>5, <1>9, Zenon DEF HandleInv, Exclusive
    <2>5. QED
      BY <2>1, <2>2, <2>3, <2>4 DEF Exclusive, Carrying
  <1>12. StateInv'
    BY <1>0, <1>2, <1>5, <1>9, <1>10, Zenon DEF HandleInv, StateInv, TypeInv, Types
  <1>13. \A t \in Task : Fresh(t) => Fresh(t)'
    BY <1>0, <1>2, <1>10 DEF Fresh
  <1>14. QED
    BY <1>0, <1>11, <1>12, <1>13, PendingKept DEF HandleInv

\* deinit() drops what is queued.
LEMMA HandleDeinit ==
    ASSUME TypeInv, HandleInv, NEW h \in Context, Step(h), deinit(h)
    PROVE  HandleInv'
  <1>0. /\ m_task_queue \in [Context -> Seq(Task)] /\ pc \in [Thread -> Label] /\ h \in Thread
        /\ UNCHANGED <<running, call, home, suspended, signalled, done>>
        /\ m_task_queue' = [m_task_queue EXCEPT ![h] = <<>>]
        /\ \A g \in Thread : pc'[g] \in Carrying <=> pc[g] \in Carrying
    BY Names DEF TypeInv, Types, deinit, Goto, threadVars, taskVars, Carrying
  <1>1. \A y \in Context : \A n \in 1..Len(m_task_queue'[y]) :
          n \in 1..Len(m_task_queue[y]) /\ m_task_queue'[y][n] = m_task_queue[y][n]
    BY <1>0
  <1>2. \A t \in Task : /\ InQueue(t)' => InQueue(t)
                        /\ Runs(t)' <=> Runs(t)
                        /\ Carried(t)' <=> Carried(t)
    BY <1>0, <1>1 DEF InQueue, Runs, Carried, Carrying
  <1>3. \A t \in Task : HasHandle(t)' => HasHandle(t)
    BY <1>2 DEF HasHandle
  <1>4. Exclusive'
    <2>1. \A y, z \in Context :
            \A n \in 1..Len(m_task_queue'[y]), k \in 1..Len(m_task_queue'[z]) :
                m_task_queue'[y][n] = m_task_queue'[z][k] => y = z /\ n = k
      BY <1>1 DEF HandleInv, Exclusive
    <2>2. QED
      BY <1>0, <1>2, <2>1 DEF HandleInv, Exclusive
  <1>5. StateInv'
    BY <1>0, <1>2, <1>3, Zenon DEF HandleInv, StateInv, TypeInv, Types
  <1>6. \A t \in Task : Fresh(t) => Fresh(t)'
    BY <1>0, <1>3 DEF Fresh
  <1>7. QED
    BY <1>0, <1>4, <1>5, <1>6, PendingKept DEF HandleInv

\* HandleInv holds at first: every task is fresh.
LEMMA HandleInit == Init => HandleInv
  <1>1. SUFFICES ASSUME Init
                 PROVE  HandleInv
    OBVIOUS
  <1>2. \A t \in Task : ~InQueue(t) /\ ~Runs(t) /\ ~Carried(t)
    <2>1. \A t \in Task : ~InQueue(t)
      BY <1>1 DEF Init, InQueue
    <2>2. \A t \in Task : ~Runs(t)
      BY <1>1, Names, Zenon DEF Init, Runs
    <2>3. \A h \in Thread : pc[h] \notin Carrying
      BY <1>1 DEF Init, Carrying
    <2>4. QED
      BY <2>1, <2>2, <2>3 DEF Carried
  <1>3. Exclusive /\ StateInv
    BY <1>1, <1>2, Names DEF Init, Exclusive, StateInv, HasHandle, Carrying
  <1>4. PendingFresh
    <2>1. SUFFICES ASSUME NEW s \in Task \cup {main}, NEW n \in ip[s]..Len(Program[s]),
                          Submits(Program[s][n])
                   PROVE  Fresh(Program[s][n].arg)
      BY DEF PendingFresh
    <2>2. ip[s] = 1 /\ Len(Program[s]) \in Nat /\ app \in Apps
      BY <1>1, RuntimeAssumption DEF Init, Program
    <2>3. Program[s][n].arg \in Task
      BY <2>1, <2>2, OpTypes DEF Submits
    <2>4. QED
      BY <1>1, <1>2, <2>3 DEF Fresh, HasHandle, Init
  <1>5. QED
    BY <1>3, <1>4 DEF HandleInv

\* Steps keep HandleInv: a submitted task is moved, and who takes a handle
\* away from where it was is the only one to do so.
LEMMA HandleStep ==
    ASSUME TypeInv, HandleInv, NEW h \in Thread, Step(h)
    PROVE  HandleInv'
  <1>0. /\ running \in [Thread -> Task \cup {main, none}] /\ pc \in [Thread -> Label]
        /\ call \in [Thread -> Call]
    BY DEF TypeInv, Types
  <1>1. CASE dispatch(h) \/ submit_to_context(h)
    BY <1>1, HandleSubmit
  <1>2. CASE signal(h)
    BY <1>2, HandleSignal
  <1>3. CASE submit_push(h)
    BY <1>3, HandlePush
  <1>4. CASE await(h)
    <2>1. Performs(h, "await") /\ UNCHANGED <<m_task_queue, call, home, signalled, done>>
      BY <1>4 DEF await
    <2>2. h \in Context /\ running[h] \in Task /\ pc[h] = "op"
      BY <2>1, Performing, Names
    <2>3. CASE running[h] \in signalled
      <3>1. UNCHANGED <<suspended, pc, running>>
        BY <1>4, <2>3 DEF await
      <3>2. QED
        BY <2>1, <3>1, HandlesStay DEF Carrying
    <2>4. CASE running[h] \notin signalled
      <3>1. /\ running' = [running EXCEPT ![h] = none] /\ pc' = [pc EXCEPT ![h] = "work"]
            /\ suspended' = suspended \cup {running[h]}
        BY <1>4, <2>4 DEF await, Goto
      <3>2. QED
        BY <2>1, <2>2, <3>1, HandleLeft, Zenon
    <2>5. QED
      BY <2>3, <2>4
  <1>5. CASE finish(h)
    <2>1. /\ UNCHANGED <<m_task_queue, call, home, signalled, suspended>>
          /\ running' = [running EXCEPT ![h] = none] /\ pc' = [pc EXCEPT ![h] = "work"]
          /\ done' = done \cup {running[h]} /\ pc[h] = "op" /\ h # main
      BY <1>5 DEF finish, Goto, engineVars
    <2>2. h \in Context /\ running[h] \in Task
      BY <2>1, ThreadTypes, Names DEF InTask
    <2>3. QED
      BY <2>1, <2>2, HandleLeft, Zenon
  <1>6. CASE h \in Context /\ exec_one_task(h)
    BY <1>6, HandleExec
  <1>7. CASE h \in Context /\ deinit(h)
    BY <1>7, HandleDeinit
  <1>8. CASE submit_fetch_or(h) \/ submit_fetch_add(h)
    <2>1. /\ UNCHANGED <<m_task_queue, running, suspended, done, home, signalled>>
          /\ \A g \in Thread : /\ pc'[g] \in Carrying <=> pc[g] \in Carrying
                               /\ call'[g].arg = call[g].arg
      BY <1>0, <1>8 DEF submit_fetch_or, submit_fetch_add, Goto, Carrying, Call, engineVars,
           threadVars, taskVars
    <2>2. QED
      BY <2>1, HandlesStay
  <1>9. CASE submit_wake(h)
    <2>1. /\ UNCHANGED <<m_task_queue, running, suspended, done, home, signalled, call>>
          /\ \A g \in Thread : pc'[g] \in Carrying <=> pc[g] \in Carrying
      BY <1>0, <1>9 DEF submit_wake, Goto, Carrying, threadVars, taskVars
    <2>2. QED
      BY <2>1, HandlesStay
  <1>10. CASE h \in Context /\ run(h) /\ ~exec_one_task(h) /\ ~deinit(h)
    <2>1. UNCHANGED <<m_task_queue, running, suspended, done, home, signalled>>
      BY <1>10 DEF run, process_work, empty_wait_task, poll_work, default_stop_cb,
           stop_cb_fetch_and, stop_cb_fetch_sub, notify_stop_request, notify_stop_wake,
           engineVars, threadVars, taskVars
    <2>2. \A g \in Thread : /\ pc'[g] \in Carrying <=> pc[g] \in Carrying
                            /\ call'[g].arg = call[g].arg
      BY <1>0, <1>10 DEF run, process_work, empty_wait_task, poll_work, default_stop_cb,
           stop_cb_fetch_and, stop_cb_fetch_sub, notify_stop_request, notify_stop_wake,
           threadVars, Goto, Carrying, Call
    <2>3. QED
      BY <2>1, <2>2, HandlesStay
  <1>11. CASE h = main /\ mainThread
    <2>1. UNCHANGED <<m_task_queue, running, suspended, done, home, signalled, call>>
      BY <1>11 DEF mainThread, start_thread, start_assign, join, engineVars, threadVars, taskVars
    <2>2. \A g \in Thread : pc'[g] \in Carrying <=> pc[g] \in Carrying
      <3>1. pc[main] \notin Carrying /\ pc'[main] \notin Carrying
        BY <1>0, <1>11, Names DEF mainThread, start_thread, start_assign, join, MainReady, Goto,
             Carrying
      <3>2. QED
        BY <1>11, <3>1, OthersStay DEF Carrying
    <2>3. QED
      BY <2>1, <2>2, HandlesStay
  <1>12. QED
    BY <1>1, <1>2, <1>3, <1>4, <1>5, <1>6, <1>7, <1>8, <1>9, <1>10, <1>11 DEF Step, operation

\* HandleInv in a step that changes nothing.
LEMMA HandleStutter == HandleInv /\ UNCHANGED vars => HandleInv'
  <1>1. SUFFICES ASSUME HandleInv, UNCHANGED <<m_task_queue, running, pc, call, suspended,
                                               signalled, done, home, ip, app>>
                 PROVE  HandleInv'
    BY DEF vars, engineVars, threadVars, taskVars
  <1>2. \A t \in Task : /\ InQueue(t)' <=> InQueue(t)
                        /\ Runs(t)' <=> Runs(t)
                        /\ Carried(t)' <=> Carried(t)
    BY <1>1 DEF InQueue, Runs, Carried
  <1>3. \A t \in Task : HasHandle(t)' <=> HasHandle(t)
    BY <1>2 DEF HasHandle
  <1>4. Exclusive'
    BY <1>1, <1>2 DEF HandleInv, Exclusive
  <1>5. StateInv'
    BY <1>1 DEF HandleInv, StateInv, HasHandle, InQueue, Runs, Carried
  <1>6. PendingFresh'
    BY <1>1 DEF HandleInv, PendingFresh, Fresh, HasHandle, InQueue, Runs, Carried, Program
  <1>7. QED
    BY <1>4, <1>5, <1>6 DEF HandleInv

\* TypeInv and HandleInv together are inductive.
THEOREM HandleInvariant == Spec => [](TypeInv /\ HandleInv)
  <1>1. TypeInv /\ HandleInv /\ [Next]_vars => HandleInv'
    BY HandleStep, HandleStutter DEF Next, Finished
  <1>2. QED
    BY <1>1, TypesInit, HandleInit, TypesStep, PTL DEF Spec
-----------------------------------------------------------------------------
(* Counting.                                                               *)

\* A set whose elements are all equal has at most one.
LEMMA AtMostOne ==
    ASSUME NEW S, \A p, q \in S : p = q
    PROVE  Cardinality(S) <= 1
  <1>1. CASE S = {}
    BY <1>1, FS_EmptySet
  <1>2. CASE S # {}
    <2>1. PICK p \in S : S = {p}
      BY <1>2
    <2>2. Cardinality(S) = 1
      BY <2>1, FS_Singleton, Zenon
    <2>3. QED
      BY <2>2
  <1>3. QED
    BY <1>1, <1>2

\* The sets that are counted are finite.
LEMMA Finite ==
    ASSUME TypeInv
    PROVE  /\ IsFiniteSet(Context) /\ IsFiniteSet(Thread)
           /\ IsFiniteSet(Flagged) /\ IsFiniteSet(Subtracting) /\ IsFiniteSet(Adding)
           /\ \A x \in Context : IsFiniteSet(Waiting(x))
           /\ Cardinality(Flagged) \in Nat /\ Cardinality(Subtracting) \in Nat
           /\ Cardinality(Adding) \in Nat
  <1>1. IsFiniteSet(Context)
    BY Names, FS_Interval
  <1>2. IsFiniteSet(Thread)
    BY <1>1, FS_AddElement DEF Thread
  <1>3. IsFiniteSet(Flagged) /\ IsFiniteSet(Subtracting) /\ IsFiniteSet(Adding)
    BY <1>1, <1>2, FS_Subset DEF Flagged, Subtracting, Adding
  <1>4. \A x \in Context : IsFiniteSet(Waiting(x))
    <2>1. TAKE x \in Context
    <2>2. Waiting(x) \subseteq Task
      BY DEF Waiting, TypeInv, Types
    <2>3. QED
      BY <2>2, FS_Subset, RuntimeAssumption
  <1>5. QED
    BY <1>1, <1>2, <1>3, <1>4, FS_CardinalityType

\* A coroutine has at most one handle, whichever context and thread submitted
\* it, and none once it has returned: no handle is queued twice, resumed while
\* it runs or resumed after its end.
THEOREM HandlesAreUnique == Spec => []OneHandlePerTask
  <1>1. ASSUME TypeInv, HandleInv, NEW t \in Task
        PROVE  Cardinality(Handles(t)) <= 1 /\ (t \in done => Handles(t) = {})
    <2>. DEFINE Q == {p \in Handles(t) : \E x \in Context : \E n \in 1..Len(m_task_queue[x]) :
                                            p = <<x, n>> /\ m_task_queue[x][n] = t}
                R == {p \in Handles(t) : \E h \in Thread : p = <<h, 0>> /\ running[h] = t}
                K == {p \in Handles(t) : \E h \in Thread :
                        p = <<h, -1>> /\ pc[h] \in Carrying /\ call[h].arg = t}
    <2>1. Handles(t) = Q \cup R \cup K
      <3>1. \A x \in Context : DOMAIN m_task_queue[x] = 1..Len(m_task_queue[x])
        BY <1>1 DEF TypeInv, Types
      <3>2. QED
        BY <3>1 DEF Handles, Carrying
    <2>2. Q # {} => InQueue(t)
      BY DEF InQueue
    <2>3. R # {} => Runs(t)
      BY DEF Runs
    <2>4. K # {} => Carried(t)
      BY DEF Carried
    <2>5. \A p, q \in Q : p = q
      BY <1>1 DEF HandleInv, Exclusive
    <2>6. \A p, q \in R : p = q
      BY <1>1 DEF HandleInv, Exclusive
    <2>7. \A p, q \in K : p = q
      BY <1>1 DEF HandleInv, Exclusive
    <2>8. ~(InQueue(t) /\ Runs(t)) /\ ~(InQueue(t) /\ Carried(t)) /\ ~(Runs(t) /\ Carried(t))
      BY <1>1 DEF HandleInv, Exclusive
    <2>9. \A p, q \in Handles(t) : p = q
      BY <2>1, <2>2, <2>3, <2>4, <2>5, <2>6, <2>7, <2>8
    <2>10. t \in done => Handles(t) = {}
      BY <1>1, <2>1, <2>2, <2>3, <2>4, Zenon DEF HandleInv, StateInv, HasHandle
    <2>11. QED
      BY <2>9, <2>10, AtMostOne
  <1>2. TypeInv /\ HandleInv => OneHandlePerTask
    BY <1>1 DEF OneHandlePerTask
  <1>3. QED
    BY <1>2, HandleInvariant, PTL

-----------------------------------------------------------------------------
(* The stop token.                                                         *)

\* The token starts as the number of contexts, which are all flagged.
LEMMA TokenInit == Init => TokenInv
  <1>1. SUFFICES ASSUME Init
                 PROVE  TokenInv
    OBVIOUS
  <1>2. Flagged = 0..(m_ctx_cnt - 1) /\ Subtracting = {} /\ Adding = {}
    BY <1>1, Names DEF Init, Flagged, Subtracting, Adding
  <1>3. Cardinality(Flagged) = m_ctx_cnt
    BY <1>2, Names, FS_Interval
  <1>4. Cardinality(Subtracting) = 0 /\ Cardinality(Adding) = 0
    BY <1>2, FS_EmptySet
  <1>5. m_stop_token = m_ctx_cnt /\ \A x \in Context : m_ctx_stop_flag[x] = 1
    BY <1>1 DEF Init
  <1>6. QED
    BY <1>3, <1>4, <1>5, Names DEF TokenInv

\* Only a context's own callback clears its flag, when it has started.
LEMMA FlagSteps ==
    ASSUME TypeInv, TokenInv, NEW h \in Thread, Step(h)
    PROVE  \A x \in Context : pc'[x] = "unborn" => m_ctx_stop_flag'[x] = 1
  <1>1. TAKE x \in Context
  <1>2. HAVE pc'[x] = "unborn"
  <1>3. pc[x] = "unborn" /\ x # h
    <2>1. CASE x = h
      <3>1. operation(h) \/ run(h)
        BY <2>1, Names DEF Step
      <3>2. pc'[h] # "unborn"
        BY <2>1, <3>1, Names, Zenon DEF operation, run, dispatch, submit_fetch_or,
             submit_fetch_add, submit_to_context, signal, submit_push, submit_wake, await, finish,
             process_work, exec_one_task, empty_wait_task, poll_work, default_stop_cb,
             stop_cb_fetch_and, stop_cb_fetch_sub, notify_stop_request, notify_stop_wake, deinit,
             Performs, Goto, TypeInv, Types
      <3>3. QED
        BY <1>2, <2>1, <3>2
    <2>2. CASE x # h
      BY <1>2, <2>2, OthersStay, Names
    <2>3. QED
      BY <2>1, <2>2
  <1>4. m_ctx_stop_flag[x] = 1
    BY <1>3 DEF TokenInv
  <1>5. m_ctx_stop_flag'[x] = m_ctx_stop_flag[x] \/ m_ctx_stop_flag'[x] = 1
    BY <1>3, Names, Zenon DEF Step, operation, run, mainThread, dispatch, submit_fetch_or,
         submit_fetch_add, submit_to_context, signal, submit_push, submit_wake, await, finish,
         process_work, exec_one_task, empty_wait_task, poll_work, default_stop_cb,
         stop_cb_fetch_and, stop_cb_fetch_sub, notify_stop_request, notify_stop_wake, deinit,
         start_thread, start_assign, join, schedVars, TypeInv, Types
  <1>6. QED
    BY <1>4, <1>5

\* Steps keep the account: each of the four atomic operations on the token and
\* the flags moves one unit between its terms.
LEMMA TokenStep ==
    ASSUME TypeInv, TokenInv, NEW h \in Thread, Step(h)
    PROVE  TokenInv'
  <1>0. /\ m_ctx_stop_flag \in [Context -> {0, 1}] /\ pc \in [Thread -> Label]
        /\ call \in [Thread -> Call] /\ m_stop_token \in Int
    BY DEF TypeInv, Types
  <1>1. /\ IsFiniteSet(Flagged) /\ IsFiniteSet(Subtracting) /\ IsFiniteSet(Adding)
        /\ Cardinality(Flagged) \in Nat /\ Cardinality(Subtracting) \in Nat
        /\ Cardinality(Adding) \in Nat
    BY Finite
  <1>2. m_stop_token = Cardinality(Flagged) + Cardinality(Subtracting) - Cardinality(Adding)
    BY DEF TokenInv
  <1>3. SUFFICES m_stop_token' = Cardinality(Flagged') + Cardinality(Subtracting')
                                    - Cardinality(Adding')
    BY FlagSteps DEF TokenInv
  <1>4. CASE submit_fetch_or(h)
    <2>1. PICK x \in Context : x = call[h].to
      BY ThreadTypes
    <2>2. /\ m_ctx_stop_flag' = [m_ctx_stop_flag EXCEPT ![x] = 1] /\ pc[h] = "fetch_or"
          /\ pc'[h] = "fetch_add" /\ call'[h].cnt = m_ctx_stop_flag[x]
          /\ \A g \in Thread \ {h} : pc'[g] = pc[g] /\ call'[g] = call[g]
          /\ m_stop_token' = m_stop_token
      BY <1>0, <1>4, <2>1 DEF submit_fetch_or, Goto, Call
    <2>3. Subtracting' = Subtracting
      BY <2>2, Names DEF Subtracting
    <2>4. CASE m_ctx_stop_flag[x] = 0
      <3>1. /\ Flagged' = Flagged \cup {x} /\ x \notin Flagged
            /\ Adding' = Adding \cup {h} /\ h \notin Adding
        BY <1>0, <2>2, <2>4 DEF Flagged, Adding
      <3>2. /\ Cardinality(Flagged') = Cardinality(Flagged) + 1
            /\ Cardinality(Adding') = Cardinality(Adding) + 1
        BY <1>1, <3>1, FS_AddElement, Zenon
      <3>3. QED
        BY <1>1, <1>2, <2>2, <2>3, <3>2
    <2>5. CASE m_ctx_stop_flag[x] = 1
      <3>1. Flagged' = Flagged /\ Adding' = Adding
        BY <1>0, <2>2, <2>5 DEF Flagged, Adding
      <3>2. QED
        BY <1>2, <2>2, <2>3, <3>1
    <2>6. QED
      BY <1>0, <2>4, <2>5
  <1>5. CASE submit_fetch_add(h)
    <2>1. /\ m_stop_token' = m_stop_token + (1 - call[h].cnt) /\ call' = call
          /\ m_ctx_stop_flag' = m_ctx_stop_flag /\ pc[h] = "fetch_add" /\ pc'[h] = "push"
          /\ \A g \in Thread \ {h} : pc'[g] = pc[g]
      BY <1>0, <1>5 DEF submit_fetch_add, Goto, threadVars
    <2>2. Flagged' = Flagged /\ Subtracting' = Subtracting /\ Adding' = Adding \ {h}
      BY <2>1, Names DEF Flagged, Subtracting, Adding
    <2>3. CASE call[h].cnt = 0
      <3>1. h \in Adding
        BY <2>1, <2>3 DEF Adding
      <3>2. Cardinality(Adding') = Cardinality(Adding) - 1
        BY <1>1, <2>2, <3>1, FS_RemoveElement, Zenon
      <3>3. QED
        BY <1>0, <1>1, <1>2, <2>1, <2>2, <2>3, <3>2
    <2>4. CASE call[h].cnt = 1
      <3>1. Adding' = Adding /\ Flagged' = Flagged /\ Subtracting' = Subtracting
        BY <2>2, <2>4 DEF Adding
      <3>2. m_stop_token' = m_stop_token
        BY <1>0, <2>1, <2>4
      <3>3. QED
        BY <1>2, <3>1, <3>2
    <2>5. QED
      BY <2>3, <2>4, ThreadTypes
  <1>6. CASE h \in Context /\ stop_cb_fetch_and(h)
    <2>1. /\ m_ctx_stop_flag' = [m_ctx_stop_flag EXCEPT ![h] = 0] /\ pc[h] = "stop_cb"
          /\ pc'[h] = "fetch_sub" /\ call'[h].cnt = m_ctx_stop_flag[h] /\ h \in Thread
          /\ \A g \in Thread \ {h} : pc'[g] = pc[g] /\ call'[g] = call[g]
          /\ m_stop_token' = m_stop_token
      BY <1>0, <1>6, Names DEF stop_cb_fetch_and, Goto, Call
    <2>2. Adding' = Adding /\ Flagged' = Flagged \ {h}
      BY <1>0, <1>6, <2>1 DEF Adding, Flagged
    <2>3. CASE m_ctx_stop_flag[h] = 1
      <3>1. h \in Flagged /\ h \notin Subtracting /\ Subtracting' = Subtracting \cup {h}
        BY <1>6, <2>1, <2>3, Names DEF Flagged, Subtracting
      <3>2. /\ Cardinality(Flagged') = Cardinality(Flagged) - 1
            /\ Cardinality(Subtracting') = Cardinality(Subtracting) + 1
        <4>1. Cardinality(Flagged') = Cardinality(Flagged) - 1
          BY <1>1, <2>2, <3>1, FS_RemoveElement, Zenon
        <4>2. Cardinality(Subtracting') = Cardinality(Subtracting) + 1
          BY <1>1, <3>1, FS_AddElement, Zenon
        <4>3. QED
          BY <4>1, <4>2
      <3>3. QED
        BY <1>1, <1>2, <2>1, <2>2, <3>2
    <2>4. CASE m_ctx_stop_flag[h] = 0
      <3>1. Flagged' = Flagged /\ Subtracting' = Subtracting
        BY <1>6, <2>1, <2>2, <2>4, Names DEF Flagged, Subtracting
      <3>2. QED
        BY <1>2, <2>1, <2>2, <3>1
    <2>5. QED
      BY <1>0, <1>6, <2>3, <2>4
  <1>7. CASE h \in Context /\ stop_cb_fetch_sub(h)
    <2>1. /\ m_stop_token' = m_stop_token - call[h].cnt /\ call' = call
          /\ m_ctx_stop_flag' = m_ctx_stop_flag /\ pc[h] = "fetch_sub"
          /\ pc'[h] \in {"stop", "poll"} /\ h \in Thread
          /\ \A g \in Thread \ {h} : pc'[g] = pc[g]
      BY <1>0, <1>7, Names DEF stop_cb_fetch_sub, stop_cnt, Goto, threadVars
    <2>2. Flagged' = Flagged /\ Adding' = Adding /\ Subtracting' = Subtracting \ {h}
      BY <1>7, <2>1, Names, Zenon DEF Flagged, Subtracting, Adding
    <2>3. CASE call[h].cnt = 1
      <3>1. h \in Subtracting
        BY <1>7, <2>1, <2>3 DEF Subtracting
      <3>2. Cardinality(Subtracting') = Cardinality(Subtracting) - 1
        BY <1>1, <2>2, <3>1, FS_RemoveElement, Zenon
      <3>3. QED
        BY <1>0, <1>1, <1>2, <2>1, <2>2, <2>3, <3>2
    <2>4. CASE call[h].cnt = 0
      <3>1. Subtracting' = Subtracting /\ Flagged' = Flagged /\ Adding' = Adding
        BY <2>2, <2>4 DEF Subtracting
      <3>2. m_stop_token' = m_stop_token
        BY <1>0, <2>1, <2>4
      <3>3. QED
        BY <1>2, <3>1, <3>2
    <2>5. QED
      BY <2>3, <2>4, ThreadTypes
  <1>8. CASE /\ ~submit_fetch_or(h) /\ ~submit_fetch_add(h)
             /\ ~(h \in Context /\ (stop_cb_fetch_and(h) \/ stop_cb_fetch_sub(h)))
    <2>1. UNCHANGED <<m_stop_token, m_ctx_stop_flag>>
      BY <1>8, Zenon DEF Step, operation, run, mainThread, dispatch, submit_to_context, signal,
           submit_push, submit_wake, await, finish, process_work, exec_one_task,
           empty_wait_task, poll_work, default_stop_cb, notify_stop_request, notify_stop_wake,
           deinit, start_thread, start_assign, join, schedVars
    <2>2. pc[h] \notin {"fetch_add", "fetch_sub"} /\ pc'[h] \notin {"fetch_add", "fetch_sub"}
      BY <1>0, <1>8, Names, Zenon DEF Step, operation, run, mainThread, dispatch, submit_to_context,
           signal, submit_push, submit_wake, await, finish, process_work, exec_one_task,
           empty_wait_task, poll_work, default_stop_cb, notify_stop_request, notify_stop_wake,
           deinit, start_thread, start_assign, join, Performs, MainReady, Goto
    <2>3. Flagged' = Flagged /\ Adding' = Adding /\ Subtracting' = Subtracting
      <3>1. \A g \in Thread : /\ pc'[g] = "fetch_add" <=> pc[g] = "fetch_add"
                              /\ pc'[g] = "fetch_sub" <=> pc[g] = "fetch_sub"
                              /\ pc[g] \in {"fetch_add", "fetch_sub"} => call'[g] = call[g]
        BY <2>2, OthersStay
      <3>2. QED
        BY <2>1, <3>1, Names, Zenon DEF Flagged, Subtracting, Adding
    <2>4. QED
      BY <1>2, <2>1, <2>3
  <1>9. QED
    BY <1>4, <1>5, <1>6, <1>7, <1>8

\* TokenInv in a step that changes nothing.
LEMMA TokenStutter == TokenInv /\ UNCHANGED vars => TokenInv'
  BY DEF vars, schedVars, jobVars, engineVars, threadVars, taskVars, TokenInv, Flagged,
         Subtracting, Adding

\* TypeInv and TokenInv together are inductive.
LEMMA TokenInvariant == Spec => [](TypeInv /\ TokenInv)
  <1>1. TypeInv /\ TokenInv /\ [Next]_vars => TokenInv'
    BY TokenStep, TokenStutter DEF Next, Finished
  <1>2. QED
    BY <1>1, TypesInit, TokenInit, TypesStep, PTL DEF Spec

\* The stop token counts the contexts whose flag is set, up to the operations
\* of submit_task_impl and of the stop callbacks that are half done.
THEOREM TokenIsAccounted == Spec => []TokenAccounting
  <1>1. TokenInv => TokenAccounting
    BY DEF TokenInv, TokenAccounting, Flagged, Subtracting, Adding
  <1>2. QED
    BY <1>1, TokenInvariant, PTL

\* The assertion of submit_task_impl holds for main, and for a task on a
\* context whose flag is set, while no call from a context without its flag is
\* half done.
THEOREM SubmitFindsToken == Spec => []SubmitAssertion
  <1>1. ASSUME TypeInv, TokenInv, NEW h \in Thread,
               pc[h] = "op", ip[running[h]] <= Len(Program[running[h]]),
               h = main \/ m_ctx_stop_flag[h] = 1,
               \A x \in Context : pc[x] = "fetch_add" /\ call[x].cnt = 0
                                    => m_ctx_stop_flag[x] = 1
        PROVE  m_stop_token > 0
    <2>0. /\ IsFiniteSet(Flagged) /\ IsFiniteSet(Adding)
          /\ Cardinality(Flagged) \in Nat /\ Cardinality(Subtracting) \in Nat
          /\ Cardinality(Adding) \in Nat /\ i[main] \in Nat
      BY <1>1, Finite, ThreadTypes
    <2>1. main \notin Adding
      <3>1. CASE h = main
        BY <1>1, <3>1 DEF Adding
      <3>2. CASE h # main
        <4>1. h \in Context /\ h \in Nat /\ pc[h] # "unborn"
          BY <1>1, <3>2, Names
        <4>2. ~(i[main] < h \/ (i[main] = h /\ pc[main] # "assign"))
          BY <1>1, <4>1 DEF TypeInv, Starting
        <4>3. i[main] > 0 \/ pc[main] = "assign"
          BY <2>0, <4>1, <4>2
        <4>4. pc[main] \notin Calling
          BY <1>1, <4>3 DEF TypeInv, Starting
        <4>5. QED
          BY <4>4 DEF Adding, Calling, Carrying
      <3>3. QED
        BY <3>1, <3>2
    <2>2. Adding \subseteq Flagged
      BY <1>1, <2>1, Names DEF Adding, Flagged
    <2>3. PICK x \in Flagged : x \notin Adding
      <3>1. CASE h = main
        <4>1. i[main] = 0 /\ pc[main] # "assign"
          <5>1. running[main] = main /\ app \in Apps /\ ip[main] \in Nat
            BY <1>1, <3>1 DEF TypeInv, Types, Locals, LocalOK
          <5>2. Len(Program[main]) \in Nat /\ ip[main] <= Len(Program[main])
            BY <1>1, <3>1, <5>1, RuntimeAssumption DEF Program
          <5>3. i[main] > 0 => ip[main] > Len(Program[main])
            BY <1>1 DEF TypeInv, Starting
          <5>4. ~(i[main] > 0)
            BY <5>1, <5>2, <5>3
          <5>5. QED
            BY <1>1, <2>0, <3>1, <5>4
        <4>2. 0 \in Context /\ pc[0] = "unborn"
          BY <1>1, <4>1, Names DEF TypeInv, Starting
        <4>3. 0 \in Flagged /\ 0 \notin Adding
          BY <1>1, <4>2 DEF TokenInv, Flagged, Adding
        <4>4. QED
          BY <4>3
      <3>2. CASE h # main
        BY <1>1, <3>2, Names DEF Flagged, Adding
      <3>3. QED
        BY <3>1, <3>2
    <2>4. Cardinality(Adding) < Cardinality(Flagged)
      <3>1. Adding \subseteq Flagged \ {x} /\ IsFiniteSet(Flagged \ {x})
        BY <2>0, <2>2, <2>3, FS_RemoveElement
      <3>2. Cardinality(Flagged \ {x}) = Cardinality(Flagged) - 1
        BY <2>0, <2>3, FS_RemoveElement, Zenon
      <3>3. Cardinality(Adding) <= Cardinality(Flagged \ {x})
        BY <3>1, FS_Subset
      <3>4. QED
        BY <2>0, <3>2, <3>3
    <2>5. m_stop_token = Cardinality(Flagged) + Cardinality(Subtracting) - Cardinality(Adding)
      BY <1>1 DEF TokenInv
    <2>6. QED
      BY <2>0, <2>4, <2>5
  <1>2. TypeInv /\ TokenInv => SubmitAssertion
    BY <1>1 DEF SubmitAssertion
  <1>3. QED
    BY <1>2, TokenInvariant, PTL
=============================================================================
