--------------------------- MODULE RuntimeProofs ---------------------------
(***************************************************************************)
(* Proofs about the scheduler and its contexts, for every number of        *)
(* contexts and every application.                                         *)
(***************************************************************************)
EXTENDS Runtime, TLAPS

\* Where a thread is while it executes a call of submit_task, a task, or more.
Carrying == {"fetch_or", "fetch_add", "push"}
Calling == Carrying \cup {"wake"}
InTask == Calling \cup {"op"}
MainLabel == InTask \cup {"assign", "joined"}
RunLabel == InTask \cup {"unborn", "born", "loop", "work", "stop_cb", "fetch_sub", "stop",
                         "stop_wake", "poll", "exited"}

Label == MainLabel \cup RunLabel

\* The locals of submit_task_impl.
Call == [arg : Task \cup {none}, to : Context, cnt : {0, 1}]

\* The types of the variables.
Types ==
    /\ app \in Apps
    /\ m_stop_token \in Int
    /\ m_ctx_stop_flag \in [Context -> {0, 1}]
    /\ m_cur \in Context
    /\ m_job \in SUBSET Context /\ stop_requested \in SUBSET Context
    /\ m_num_wait_task \in [Context -> Int]
    /\ m_task_queue \in [Context -> Seq(Task)]
    /\ efd \in [Context -> {"zero", "set", "closed"}]
    /\ pc \in [Thread -> Label]
    /\ running \in [Thread -> Task \cup {main, none}]
    /\ call \in [Thread -> Call]
    /\ i \in [Thread -> Nat]
    /\ ip \in [Task \cup {main} -> Nat \ {0}]
    /\ home \in [Task -> Context \cup {none}]
    /\ suspended \in SUBSET Task /\ signalled \in SUBSET Task /\ done \in SUBSET Task

\* What thread h runs (r), the task it submits (u) and its loop variable (n)
\* when it is at l.
LocalOK(h, l, r, u, n) ==
    /\ l \in Calling => u \in Task
    /\ h = main => /\ l \in MainLabel /\ r = main
                   /\ n <= m_ctx_cnt /\ (l = "assign" => n < m_ctx_cnt)
    /\ h # main => /\ l \in RunLabel
                   /\ IF l \in InTask THEN r \in Task ELSE r = none
                   /\ l \in {"unborn", "born", "stop_cb", "fetch_sub", "poll"} => n = 0
                   /\ l \in {"stop", "stop_wake"} => n < m_ctx_cnt

Locals == \A h \in Thread : LocalOK(h, pc[h], running[h], call[h].arg, i[h])

\* Contexts start one after the other, when main has submitted its tasks.
Starting ==
    /\ \A x \in Context : i[main] < x \/ (i[main] = x /\ pc[main] # "assign") => pc[x] = "unborn"
    /\ i[main] > 0 \/ pc[main] \in {"assign", "joined"} =>
        ip[main] > Len(Program[main]) /\ pc[main] \notin Calling

\* A task has a home from the time it is queued.
Homed ==
    /\ \A x \in Context : \A n \in 1..Len(m_task_queue[x]) : home[m_task_queue[x][n]] \in Context
    /\ \A x \in Context : running[x] \in Task => home[running[x]] \in Context
    /\ \A t \in suspended : home[t] \in Context

TypeInv == Types /\ Locals /\ Starting /\ Homed
-----------------------------------------------------------------------------
(* The invariants.                                                         *)

\* The tasks of the batch of context x that process_work has not taken yet.
Batch(x) == IF pc[x] \in InTask \cup {"work"} THEN i[x] ELSE 0

\* Context x has taken its batch, and is not about to test its stop token and
\* take another.
Committed(x) == pc[x] \notin {"unborn", "born", "loop", "exited"}

\* x finds its eventfd set: because of a task, because of a request to stop.
TaskWakes(x) == efd[x] = "set" \/ \E g \in Thread : pc[g] = "wake" /\ call[g].to = x
StopWakes(x) == efd[x] = "set" \/ \E y \in Context : pc[y] = "stop_wake" /\ i[y] = x

\* What a context has not taken into account yet, it is going to be woken for.
WakeInv ==
    /\ \A x \in Context : Batch(x) <= Len(m_task_queue[x])
    /\ \A x \in Context : efd[x] = "closed" => pc[x] = "exited"
    /\ \A x \in Context : Committed(x) /\ Batch(x) < Len(m_task_queue[x]) => TaskWakes(x)
    /\ Scheduled => \A x \in stop_requested : Committed(x) => StopWakes(x)

\* Main has submitted what it submits before the contexts run.
MainDone == ip[main] > Len(Program[main]) /\ pc[main] \notin Calling
-----------------------------------------------------------------------------
(* Types.                                                                  *)

\* Context numbers are naturals; main is neither a task nor a context, none is
\* neither.
LEMMA Names ==
    /\ m_ctx_cnt \in Nat \ {0} /\ Context = 0..(m_ctx_cnt - 1)
    /\ Thread = Context \cup {main}
    /\ main \notin Task /\ main \notin Context /\ none \notin Task /\ none \notin Context
    /\ none # main
  BY RuntimeAssumption DEF Context, Thread

\* What an operation of a script refers to.
LEMMA OpTypes ==
    ASSUME app \in Apps, NEW t \in Task \cup {main}, NEW n \in Nat \ {0}, n <= Len(Program[t])
    PROVE  /\ Program[t][n].op \in {"scheduler", "signal", "context"} => Program[t][n].arg \in Task
           /\ Program[t][n].op = "context" => Program[t][n].ctx \in Context \cup {none}
           /\ t = main => /\ Program[t][n].op # "await"
                          /\ Program[t][n].op = "context" => Program[t][n].ctx \in Context
  <1>1. Program \in [Task \cup {main} -> Seq(Op)]
    BY RuntimeAssumption, Zenon DEF Program
  <1>2. Program[t] \in Seq(Op) /\ n \in 1..Len(Program[t]) /\ n \in DOMAIN Program[t]
    BY <1>1
  <1>3. Program[t][n] \in Op
    BY <1>2
  <1>4. t = main => ~NeedsContext(Program[t][n])
    BY <1>2, RuntimeAssumption DEF Program
  <1>5. QED
    BY <1>3, <1>4 DEF Op, NeedsContext

\* The next number in round robin.
LEMMA ModStep ==
    ASSUME NEW n \in Nat \ {0}, NEW k \in 0..(n - 1)
    PROVE  (k + 1) % n = IF k + 1 = n THEN 0 ELSE k + 1
  <1>1. CASE k + 1 = n
    BY <1>1
  <1>2. CASE k + 1 # n
    BY <1>2
  <1>3. QED
    BY <1>1, <1>2

\* TypeInv holds when the contexts have been constructed.
LEMMA TypesInit == Init => TypeInv
  BY Names, RuntimeAssumption, 0 \in Context
  DEF Init, TypeInv, Types, Locals, LocalOK, Starting, Homed, Label, MainLabel, RunLabel, InTask,
      Calling, Carrying, Call

\* A thread that performs an operation runs a task of its own, at a place of
\* its script.
LEMMA Performing ==
    ASSUME TypeInv, NEW h \in Thread, NEW o, Performs(h, o)
    PROVE  /\ pc[h] = "op" /\ running[h] \in Task \cup {main} /\ (running[h] = main <=> h = main)
           /\ ip[running[h]] \in 1..Len(Program[running[h]])
           /\ ip' = [ip EXCEPT ![running[h]] = ip[running[h]] + 1]
           /\ ip' \in [Task \cup {main} -> Nat \ {0}]
           /\ o \in {"scheduler", "signal", "context"} => Arg(h) \in Task
           /\ o \in {"scheduler", "context"} => Submits(Program[running[h]][ip[running[h]]])
           /\ o = "context" =>
                LET x == Program[running[h]][ip[running[h]]].ctx
                IN  (IF x = none THEN h ELSE x) \in Context
           /\ o = "await" => h \in Context
           /\ h = main => i[main] = 0 /\ ~MainDone
  <1>1. /\ pc[h] = "op" /\ ip[running[h]] <= Len(Program[running[h]])
        /\ Program[running[h]][ip[running[h]]].op = o
        /\ ip' = [ip EXCEPT ![running[h]] = ip[running[h]] + 1]
    BY DEF Performs
  <1>2. running[h] \in Task \cup {main} /\ (running[h] = main <=> h = main)
    BY <1>1, Names DEF TypeInv, Locals, LocalOK, InTask
  <1>3. ip[running[h]] \in Nat \ {0} /\ Len(Program[running[h]]) \in Nat
    BY <1>2, RuntimeAssumption DEF TypeInv, Types, Program
  <1>4. ip' \in [Task \cup {main} -> Nat \ {0}]
    <2>1. ip \in [Task \cup {main} -> Nat \ {0}]
      BY DEF TypeInv, Types
    <2>2. QED
      BY <1>1, <1>2, <2>1
  <1>5. /\ o \in {"scheduler", "signal", "context"} => Arg(h) \in Task
        /\ o = "context" => Program[running[h]][ip[running[h]]].ctx \in Context \cup {none}
        /\ h = main => /\ o # "await"
                       /\ o = "context" => Program[running[h]][ip[running[h]]].ctx \in Context
    BY <1>1, <1>2, <1>3, OpTypes DEF TypeInv, Types, Arg
  <1>6. h = main => i[main] = 0 /\ ~MainDone
    <2>1. i[main] \in Nat
      BY Names, Zenon DEF TypeInv, Types
    <2>2. i[main] > 0 => ip[main] > Len(Program[main])
      BY DEF TypeInv, Starting
    <2>3. QED
      BY <1>1, <1>2, <1>3, <2>1, <2>2 DEF MainDone
  <1>7. QED
    BY <1>1, <1>2, <1>3, <1>4, <1>5, <1>6, Names DEF Submits

\* The labels, listed.
LEMMA Labels ==
    {"op", "fetch_or", "fetch_add", "push", "wake", "assign", "joined", "unborn", "born", "loop",
     "work", "stop_cb", "fetch_sub", "stop", "stop_wake", "poll", "exited"} = Label
  BY DEF Label, MainLabel, RunLabel, InTask, Calling, Carrying

\* The locals of a thread.
LEMMA ThreadTypes ==
    ASSUME TypeInv, NEW h \in Thread
    PROVE  /\ call[h].to \in Context /\ call[h].cnt \in {0, 1}
           /\ i[h] \in Nat /\ i[main] \in Nat
           /\ pc[h] \in Calling => call[h].arg \in Task
           /\ h # main /\ pc[h] \in InTask => running[h] \in Task
           /\ pc[h] \in {"stop", "stop_wake"} => h \in Context /\ i[h] \in Context
           /\ pc[main] = "assign" => i[main] \in Context
  <1>1. call[h] \in Call
    BY DEF TypeInv, Types
  <1>2. call[h].to \in Context /\ call[h].cnt \in {0, 1}
    BY <1>1 DEF Call
  <1>3. pc[h] \in Calling => call[h].arg \in Task
    BY DEF TypeInv, Locals, LocalOK
  <1>4. h # main /\ pc[h] \in InTask => running[h] \in Task
    BY Names DEF TypeInv, Locals, LocalOK
  <1>5. /\ pc[h] \in {"stop", "stop_wake"} => h \in Context /\ i[h] < m_ctx_cnt
        /\ pc[main] = "assign" => i[main] < m_ctx_cnt
    BY Names, Zenon DEF TypeInv, Locals, LocalOK, MainLabel, InTask, Calling, Carrying
  <1>6. i[h] \in Nat /\ i[main] \in Nat
    BY Names, Zenon DEF TypeInv, Types
  <1>7. QED
    BY <1>2, <1>3, <1>4, <1>5, <1>6, Names

-----------------------------------------------------------------------------
(* What a step changes.                                                    *)

\* Which actions change which variables.
LEMMA Changes ==
    ASSUME NEW h \in Thread, Step(h)
    PROVE  /\ app' = app
           /\ m_stop_token' = m_stop_token \/ submit_fetch_add(h) \/ stop_cb_fetch_sub(h)
           /\ m_ctx_stop_flag' = m_ctx_stop_flag \/ submit_fetch_or(h)
                \/ (h \in Context /\ stop_cb_fetch_and(h))
           /\ m_cur' = m_cur \/ dispatch(h)
           /\ m_job' = m_job \/ (h = main /\ start_assign)
           /\ stop_requested' = stop_requested
                \/ (h \in Context /\ (default_stop_cb(h) \/ notify_stop_request(h)))
           /\ m_num_wait_task' = m_num_wait_task \/ await(h) \/ (h \in Context /\ exec_one_task(h))
           /\ m_task_queue' = m_task_queue \/ submit_push(h)
                \/ (h \in Context /\ (exec_one_task(h) \/ deinit(h)))
           /\ efd' = efd \/ submit_wake(h) \/ notify_stop_wake(h) \/ poll_work(h) \/ deinit(h)
           /\ running' = running \/ await(h) \/ finish(h)
                \/ (h \in Context /\ exec_one_task(h))
           /\ call' = call \/ dispatch(h) \/ submit_fetch_or(h) \/ submit_to_context(h)
                \/ signal(h) \/ (h \in Context /\ stop_cb_fetch_and(h))
           /\ \/ i' = i \/ (h = main /\ start_assign)
              \/ h \in Context /\ (process_work(h) \/ exec_one_task(h) \/ notify_stop_wake(h))
           /\ ip' = ip \/ \E o \in {"scheduler", "context", "signal", "await"} : Performs(h, o)
           /\ home' = home \/ submit_push(h)
           /\ suspended' = suspended \/ await(h) \/ (h \in Context /\ exec_one_task(h))
           /\ signalled' = signalled \/ signal(h)
           /\ done' = done \/ finish(h)
  <1>. USE DEF Step, operation, run, mainThread, dispatch, submit_fetch_or, submit_fetch_add,
         submit_to_context, signal, submit_push, submit_wake, await, finish, process_work,
         exec_one_task, empty_wait_task, poll_work, default_stop_cb, stop_cb_fetch_and,
         stop_cb_fetch_sub, notify_stop_request, notify_stop_wake, deinit, start_thread,
         start_assign, join, schedVars, jobVars, engineVars, threadVars, taskVars
  <1>1. /\ app' = app
        /\ m_stop_token' = m_stop_token \/ submit_fetch_add(h) \/ stop_cb_fetch_sub(h)
        /\ m_cur' = m_cur \/ dispatch(h)
    BY Zenon
  <1>2. /\ m_ctx_stop_flag' = m_ctx_stop_flag \/ submit_fetch_or(h)
             \/ (h \in Context /\ stop_cb_fetch_and(h))
        /\ stop_requested' = stop_requested
             \/ (h \in Context /\ (default_stop_cb(h) \/ notify_stop_request(h)))
        /\ m_job' = m_job \/ (h = main /\ start_assign)
    BY Zenon DEF request_stop
  <1>3. /\ m_num_wait_task' = m_num_wait_task \/ await(h) \/ (h \in Context /\ exec_one_task(h))
        /\ m_task_queue' = m_task_queue \/ submit_push(h)
             \/ (h \in Context /\ (exec_one_task(h) \/ deinit(h)))
        /\ efd' = efd \/ submit_wake(h) \/ notify_stop_wake(h) \/ poll_work(h) \/ deinit(h)
    BY Zenon
  <1>4. running' = running \/ await(h) \/ finish(h) \/ (h \in Context /\ exec_one_task(h))
    BY Zenon
  <1>5. call' = call \/ dispatch(h) \/ submit_fetch_or(h) \/ submit_to_context(h)
            \/ signal(h) \/ (h \in Context /\ stop_cb_fetch_and(h))
    BY Zenon
  <1>6. \/ i' = i \/ (h = main /\ start_assign)
        \/ h \in Context /\ (process_work(h) \/ exec_one_task(h) \/ notify_stop_wake(h))
    BY Zenon
  <1>7. ip' = ip \/ \E o \in {"scheduler", "context", "signal", "await"} : Performs(h, o)
    BY Zenon
  <1>8. home' = home \/ submit_push(h)
    BY Zenon
  <1>9. suspended' = suspended \/ await(h) \/ (h \in Context /\ exec_one_task(h))
    BY Zenon
  <1>10. (signalled' = signalled \/ signal(h)) /\ (done' = done \/ finish(h))
    BY Zenon
  <1>11. QED
    BY ONLY <1>1, <1>2, <1>3, <1>4, <1>5, <1>6, <1>7, <1>8, <1>9, <1>10, Zenon

\* A step of thread h changes nobody's locals but its own; main creates the
\* threads of the contexts.
LEMMA OwnSteps ==
    ASSUME TypeInv, NEW h \in Thread, Step(h)
    PROVE  /\ \/ \E l \in Label : pc' = [pc EXCEPT ![h] = l]
              \/ h = main /\ start_thread
           /\ \E r \in Task \cup {main, none} : running' = [running EXCEPT ![h] = r]
           /\ \E c \in Call : call' = [call EXCEPT ![h] = c]
           /\ \E n \in Nat : i' = [i EXCEPT ![h] = n]
  <1>0. /\ pc \in [Thread -> Label] /\ running \in [Thread -> Task \cup {main, none}]
        /\ call \in [Thread -> Call] /\ i \in [Thread -> Nat]
    BY DEF TypeInv, Types
  <1>1. \/ \E l \in Label : pc' = [pc EXCEPT ![h] = l]
        \/ h = main /\ start_thread
    <2>1. \/ \E l \in Label : Goto(h, l)
          \/ pc' = pc
          \/ h = main /\ start_thread
      BY Labels DEF Step, operation, run, mainThread, dispatch, submit_fetch_or,
           submit_fetch_add, submit_to_context, signal, submit_push, submit_wake, await, finish,
           process_work, exec_one_task, empty_wait_task, poll_work, default_stop_cb,
           stop_cb_fetch_and, stop_cb_fetch_sub, notify_stop_request, notify_stop_wake, deinit,
           start_assign, join
    <2>2. pc' = pc => pc' = [pc EXCEPT ![h] = pc[h]] /\ pc[h] \in Label
      BY <1>0
    <2>3. QED
      BY <2>1, <2>2 DEF Goto
  <1>2. \E r \in Task \cup {main, none} : running' = [running EXCEPT ![h] = r]
    <2>1. CASE running' = running
      <3>1. running' = [running EXCEPT ![h] = running[h]] /\ running[h] \in Task \cup {main, none}
        BY <1>0, <2>1
      <3>2. QED
        BY <3>1, Zenon
    <2>2. CASE running' # running /\ (await(h) \/ finish(h))
      <3>1. running' = [running EXCEPT ![h] = none] /\ none \in Task \cup {main, none}
        BY <2>2, Zenon DEF await, finish
      <3>2. QED
        BY <3>1, Zenon
    <2>3. CASE h \in Context /\ exec_one_task(h)
      <3>1. Head(m_task_queue[h]) \in Task
        BY <2>3 DEF exec_one_task, TypeInv, Types
      <3>2. QED
        BY <2>3, <3>1, Zenon DEF exec_one_task
    <2>4. QED
      BY <2>1, <2>2, <2>3, Changes
  <1>3. \E c \in Call : call' = [call EXCEPT ![h] = c]
    <2>1. CASE call' = call
      <3>1. call' = [call EXCEPT ![h] = call[h]] /\ call[h] \in Call
        BY <1>0, <2>1
      <3>2. QED
        BY <3>1, Zenon
    <2>2. CASE dispatch(h)
      <3>1. Arg(h) \in Task /\ m_cur \in Context
        BY <2>2, Performing DEF dispatch, TypeInv, Types
      <3>2. QED
        BY <2>2, <3>1, Zenon DEF dispatch, Call
    <2>3. CASE submit_fetch_or(h)
      <3>1. m_ctx_stop_flag[call[h].to] \in {0, 1}
        BY ThreadTypes DEF TypeInv, Types
      <3>2. QED
        BY <1>0, <2>3, <3>1, Zenon DEF submit_fetch_or, Call
    <2>4. CASE submit_to_context(h)
      <3>1. PICK x \in Context : call' = [call EXCEPT ![h] = [arg |-> Arg(h), cnt |-> 0, to |-> x]]
        BY <2>4, Performing, Zenon DEF submit_to_context
      <3>2. Arg(h) \in Task
        BY <2>4, Performing DEF submit_to_context
      <3>3. QED
        BY <3>1, <3>2, Zenon DEF Call
    <2>5. CASE call' # call /\ signal(h)
      <3>1. Arg(h) \in Task
        BY <2>5, Performing DEF signal
      <3>2. PICK x \in Context : call' = [call EXCEPT ![h] = [arg |-> Arg(h), to |-> x, cnt |-> 0]]
        BY <2>5 DEF signal, TypeInv, Homed
      <3>3. QED
        BY <3>1, <3>2, Zenon DEF Call
    <2>6. CASE h \in Context /\ stop_cb_fetch_and(h)
      <3>1. m_ctx_stop_flag[h] \in {0, 1}
        BY <2>6 DEF TypeInv, Types
      <3>2. QED
        BY <1>0, <2>6, <3>1, Zenon DEF stop_cb_fetch_and, Call
    <2>7. QED
      BY <2>1, <2>2, <2>3, <2>4, <2>5, <2>6, Changes
  <1>4. \E n \in Nat : i' = [i EXCEPT ![h] = n]
    <2>1. CASE i' = i
      <3>1. i' = [i EXCEPT ![h] = i[h]] /\ i[h] \in Nat
        BY <1>0, <2>1
      <3>2. QED
        BY <3>1, Zenon
    <2>2. CASE h \in Context /\ process_work(h)
      <3>1. Len(m_task_queue[h]) \in Nat
        BY <2>2 DEF TypeInv, Types
      <3>2. QED
        BY <2>2, <3>1, Zenon DEF process_work
    <2>3. CASE h \in Context /\ exec_one_task(h)
      <3>1. i[h] - 1 \in Nat
        BY <1>0, <2>3 DEF exec_one_task
      <3>2. QED
        BY <2>3, <3>1, Zenon DEF exec_one_task
    <2>4. CASE h \in Context /\ notify_stop_wake(h)
      <3>1. (i[h] + 1) % m_ctx_cnt \in Nat
        BY <1>0, Names
      <3>2. QED
        BY <2>4, <3>1, Zenon DEF notify_stop_wake
    <2>5. CASE h = main /\ start_assign
      <3>1. i[main] + 1 \in Nat
        BY <1>0, <2>5
      <3>2. QED
        BY <2>5, <3>1, Zenon DEF start_assign
    <2>6. QED
      BY <2>1, <2>2, <2>3, <2>4, <2>5, Changes
  <1>5. QED
    BY <1>1, <1>2, <1>3, <1>4, Zenon

\* A step keeps the types.
LEMMA TypesKept ==
    ASSUME TypeInv, NEW h \in Thread, Step(h)
    PROVE  Types'
  <1>1. app' \in Apps
    BY Changes DEF TypeInv, Types
  <1>2. m_stop_token' \in Int
    <2>1. m_stop_token \in Int
      BY DEF TypeInv, Types
    <2>2. QED
      BY <2>1, Changes, ThreadTypes DEF submit_fetch_add, stop_cb_fetch_sub, stop_cnt
  <1>3. m_ctx_stop_flag' \in [Context -> {0, 1}]
    <2>1. m_ctx_stop_flag \in [Context -> {0, 1}]
      BY DEF TypeInv, Types
    <2>2. QED
      BY <2>1, Changes DEF submit_fetch_or, stop_cb_fetch_and
  <1>4. m_cur' \in Context
    <2>1. m_cur \in Context
      BY DEF TypeInv, Types
    <2>2. QED
      BY <2>1, Changes, Names DEF dispatch
  <1>5. m_job' \subseteq Context /\ stop_requested' \subseteq Context
    <2>1. m_job \subseteq Context /\ stop_requested \subseteq Context
      BY DEF TypeInv, Types
    <2>2. CASE h = main /\ start_assign
      BY <2>1, <2>2, ThreadTypes DEF start_assign
    <2>3. CASE h \in Context /\ default_stop_cb(h)
      BY <2>1, <2>3 DEF default_stop_cb, request_stop
    <2>4. CASE h \in Context /\ notify_stop_request(h)
      BY <2>1, <2>4, ThreadTypes DEF notify_stop_request, request_stop
    <2>5. QED
      BY <2>1, <2>2, <2>3, <2>4, Changes
  <1>6. m_num_wait_task' \in [Context -> Int]
    <2>1. m_num_wait_task \in [Context -> Int]
      BY DEF TypeInv, Types
    <2>2. QED
      BY <2>1, Changes DEF await, exec_one_task
  <1>7. m_task_queue' \in [Context -> Seq(Task)]
    <2>1. m_task_queue \in [Context -> Seq(Task)]
      BY DEF TypeInv, Types
    <2>2. CASE submit_push(h)
      <3>1. call[h].to \in Context /\ call[h].arg \in Task
        BY <2>2, ThreadTypes DEF submit_push, Calling, Carrying
      <3>2. QED
        BY <2>1, <2>2, <3>1 DEF submit_push
    <2>3. CASE h \in Context /\ exec_one_task(h)
      <3>1. m_task_queue[h] \in Seq(Task) /\ m_task_queue[h] # <<>>
        BY <2>1, <2>3 DEF exec_one_task
      <3>2. Tail(m_task_queue[h]) \in Seq(Task)
        BY <3>1
      <3>3. QED
        BY <2>1, <2>3, <3>2 DEF exec_one_task
    <2>4. CASE h \in Context /\ deinit(h)
      BY <2>1, <2>4 DEF deinit
    <2>5. QED
      BY <2>1, <2>2, <2>3, <2>4, Changes, Zenon
  <1>8. efd' \in [Context -> {"zero", "set", "closed"}]
    <2>1. efd \in [Context -> {"zero", "set", "closed"}]
      BY DEF TypeInv, Types
    <2>2. QED
      BY <2>1, Changes DEF submit_wake, notify_stop_wake, wake_up, poll_work, deinit
  <1>9. pc' \in [Thread -> Label]
    <2>1. pc \in [Thread -> Label]
      BY DEF TypeInv, Types
    <2>2. "assign" \in Label /\ "born" \in Label
      BY Labels
    <2>3. QED
      BY <2>1, <2>2, OwnSteps DEF start_thread
  <1>10. running' \in [Thread -> Task \cup {main, none}]
    BY OwnSteps DEF TypeInv, Types
  <1>11. call' \in [Thread -> Call]
    BY OwnSteps, Zenon DEF TypeInv, Types
  <1>12. i' \in [Thread -> Nat]
    BY OwnSteps DEF TypeInv, Types
  <1>13. ip' \in [Task \cup {main} -> Nat \ {0}]
    BY Changes, Performing, Zenon DEF TypeInv, Types
  <1>14. home' \in [Task -> Context \cup {none}]
    <2>1. home \in [Task -> Context \cup {none}]
      BY DEF TypeInv, Types
    <2>2. CASE submit_push(h)
      <3>1. call[h].arg \in Task /\ call[h].to \in Context
        BY <2>2, ThreadTypes DEF submit_push, Calling, Carrying
      <3>2. QED
        BY <2>1, <2>2, <3>1 DEF submit_push
    <2>3. home' = home \/ submit_push(h)
      BY Changes, Zenon
    <2>4. QED
      BY <2>1, <2>2, <2>3
  <1>15. suspended' \subseteq Task
    <2>1. suspended \subseteq Task
      BY DEF TypeInv, Types
    <2>2. await(h) => running[h] \in Task
      BY Performing, Names DEF await
    <2>3. QED
      BY <2>1, <2>2, Changes DEF await, exec_one_task
  <1>16. signalled' \subseteq Task
    <2>1. signalled \subseteq Task /\ (signal(h) => Arg(h) \in Task)
      BY Performing DEF signal, TypeInv, Types
    <2>2. QED
      BY <2>1, Changes, Zenon DEF signal
  <1>17. done' \subseteq Task
    <2>1. done \subseteq Task /\ (finish(h) => running[h] \in Task)
      BY ThreadTypes DEF finish, InTask, TypeInv, Types
    <2>2. QED
      BY <2>1, Changes, Zenon DEF finish
  <1>18. QED
    BY <1>1, <1>2, <1>3, <1>4, <1>5, <1>6, <1>7, <1>8, <1>9, <1>10, <1>11, <1>12, <1>13, <1>14,
       <1>15, <1>16, <1>17 DEF Types

\* What a step of thread h leaves alone: the other threads, but for the one
\* that main creates.
LEMMA OthersStay ==
    ASSUME TypeInv, NEW h \in Thread, Step(h)
    PROVE  \A g \in Thread \ {h} :
               /\ running'[g] = running[g] /\ call'[g] = call[g] /\ i'[g] = i[g]
               /\ \/ pc'[g] = pc[g]
                  \/ h = main /\ MainReady /\ g = i[main] /\ pc[g] = "unborn" /\ pc'[g] = "born"
  <1>0. /\ pc \in [Thread -> Label] /\ running \in [Thread -> Task \cup {main, none}]
        /\ call \in [Thread -> Call] /\ i \in [Thread -> Nat]
    BY DEF TypeInv, Types
  <1>1. \A g \in Thread \ {h} :
            running'[g] = running[g] /\ call'[g] = call[g] /\ i'[g] = i[g]
    BY <1>0, OwnSteps
  <1>2. CASE \E l \in Label : pc' = [pc EXCEPT ![h] = l]
    BY <1>0, <1>1, <1>2
  <1>3. CASE h = main /\ start_thread
    <2>1. \A x \in Context : x = i[main] => pc[x] = "unborn"
      BY <1>3 DEF start_thread, MainReady, TypeInv, Starting
    <2>2. QED
      BY <1>0, <1>1, <1>3, <2>1, Names, Zenon DEF start_thread
  <1>4. QED
    BY <1>2, <1>3, OwnSteps

\* A thread's step leaves its locals as its next label needs them.
LEMMA OwnLocals ==
    ASSUME TypeInv, NEW h \in Thread, Step(h)
    PROVE  LocalOK(h, pc'[h], running'[h], call'[h].arg, i'[h])
  <1>0. /\ pc \in [Thread -> Label] /\ running \in [Thread -> Task \cup {main, none}]
        /\ call \in [Thread -> Call] /\ i \in [Thread -> Nat]
    BY DEF TypeInv, Types
  <1>1. LocalOK(h, pc[h], running[h], call[h].arg, i[h])
    BY DEF TypeInv, Locals
  <1>. USE DEF LocalOK, MainLabel, RunLabel, InTask, Calling, Carrying
  <1>2. CASE dispatch(h) \/ submit_to_context(h) \/ signal(h)
    <2>1. PICK o \in {"scheduler", "signal", "context"} : Performs(h, o)
      BY <1>2 DEF dispatch, submit_to_context, signal
    <2>2. pc[h] = "op" /\ Arg(h) \in Task
      BY <2>1, Performing
    <2>3. running' = running /\ i' = i
      BY <1>2, Zenon DEF dispatch, submit_to_context, signal
    <2>4. \/ pc'[h] \in Carrying /\ call'[h].arg = Arg(h)
          \/ pc'[h] = pc[h] /\ call' = call
      BY <1>0, <1>2 DEF dispatch, submit_to_context, signal, Goto
    <2>5. QED
      BY <1>1, <2>2, <2>3, <2>4
  <1>3. CASE submit_fetch_or(h) \/ submit_fetch_add(h) \/ submit_push(h) \/ submit_wake(h)
    <2>1. pc[h] \in Calling /\ pc'[h] \in InTask
      BY <1>0, <1>3 DEF submit_fetch_or, submit_fetch_add, submit_push, submit_wake, Goto
    <2>2. running' = running /\ i' = i
      BY <1>3, Zenon DEF submit_fetch_or, submit_fetch_add, submit_push, submit_wake, threadVars
    <2>3. call'[h].arg = call[h].arg
      BY <1>0, <1>3 DEF submit_fetch_or, submit_fetch_add, submit_push, submit_wake, threadVars,
           Call
    <2>4. QED
      BY <1>1, <2>1, <2>2, <2>3
  <1>4. CASE await(h) \/ finish(h)
    <2>1. pc[h] = "op" /\ h # main
      BY <1>4, Performing, Names DEF await, finish
    <2>2. call' = call /\ i' = i
      BY <1>4, Zenon DEF await, finish
    <2>3. \/ pc'[h] = "work" /\ running'[h] = none
          \/ pc'[h] = pc[h] /\ running'[h] = running[h]
      BY <1>0, <1>4 DEF await, finish, Goto
    <2>4. QED
      BY <1>1, <2>1, <2>2, <2>3
  <1>5. CASE h \in Context /\ process_work(h)
    <2>1. /\ pc[h] \in {"born", "loop"} /\ pc'[h] = "work" /\ running' = running /\ call' = call
      BY <1>0, <1>5 DEF process_work, Goto
    <2>2. QED
      BY <1>1, <1>5, <2>1, Names
  <1>6. CASE h \in Context /\ exec_one_task(h)
    <2>1. pc'[h] = "op" /\ running'[h] = Head(m_task_queue[h]) /\ call' = call
      BY <1>0, <1>6 DEF exec_one_task, Goto
    <2>2. Head(m_task_queue[h]) \in Task
      BY <1>6 DEF exec_one_task, TypeInv, Types
    <2>3. QED
      BY <1>6, <2>1, <2>2, Names
  <1>7. CASE h \in Context /\ (empty_wait_task(h) \/ poll_work(h) \/ deinit(h))
    <2>1. /\ pc[h] \in {"work", "poll", "born", "loop"} /\ (pc[h] = "work" => i[h] = 0)
          /\ pc'[h] \in {"poll", "loop", "stop_cb", "exited"}
          /\ pc'[h] \in {"poll", "stop_cb"} => pc[h] = "work"
      BY <1>0, <1>7 DEF empty_wait_task, poll_work, deinit, Goto
    <2>2. running' = running /\ call' = call /\ i' = i
      BY <1>7, Zenon DEF empty_wait_task, poll_work, deinit, threadVars
    <2>3. QED
      BY <1>1, <1>7, <2>1, <2>2, Names
  <1>8. CASE h \in Context /\ (default_stop_cb(h) \/ stop_cb_fetch_and(h) \/ stop_cb_fetch_sub(h)
                               \/ notify_stop_request(h))
    <2>1. \/ pc[h] \in {"stop_cb", "fetch_sub"} /\ pc'[h] \in {"poll", "fetch_sub", "stop"}
          \/ pc[h] = "stop" /\ pc'[h] = "stop_wake"
      BY <1>0, <1>8 DEF default_stop_cb, stop_cb_fetch_and, stop_cb_fetch_sub,
           notify_stop_request, Goto
    <2>2. running' = running /\ i' = i
      BY <1>8, Zenon DEF default_stop_cb, stop_cb_fetch_and, stop_cb_fetch_sub,
           notify_stop_request, threadVars
    <2>3. QED
      BY <1>1, <1>8, <2>1, <2>2, Names
  <1>9. CASE h \in Context /\ notify_stop_wake(h)
    <2>1. /\ pc[h] = "stop_wake" /\ running' = running /\ i'[h] = (i[h] + 1) % m_ctx_cnt
          /\ pc'[h] = IF i[h] + 1 = m_ctx_cnt THEN "poll" ELSE "stop"
      BY <1>0, <1>9 DEF notify_stop_wake, Goto
    <2>2. i'[h] < m_ctx_cnt /\ (i[h] + 1 = m_ctx_cnt => i'[h] = 0)
      BY <2>1, ThreadTypes, Names, ModStep
    <2>3. QED
      BY <1>1, <1>9, <2>1, <2>2, Names
  <1>10. CASE h = main /\ mainThread
    <2>1. running' = running /\ call' = call
      BY <1>10, Zenon DEF mainThread, start_thread, start_assign, join, threadVars
    <2>2. \/ pc'[main] = "assign" /\ i' = i /\ i[main] < m_ctx_cnt
          \/ pc[main] = "assign" /\ pc'[main] = "op" /\ i'[main] = i[main] + 1
          \/ pc'[main] = "joined" /\ i' = i
      BY <1>0, <1>10, Names DEF mainThread, start_thread, start_assign, join, Goto, threadVars
    <2>3. QED
      BY <1>0, <1>1, <1>10, <2>1, <2>2, Names
  <1>11. QED
    BY <1>2, <1>3, <1>4, <1>5, <1>6, <1>7, <1>8, <1>9, <1>10, Zenon DEF Step, operation, run

\* A step keeps the locals of every thread in order.
LEMMA LocalsKept ==
    ASSUME TypeInv, NEW h \in Thread, Step(h)
    PROVE  Locals'
  <1>1. SUFFICES ASSUME NEW g \in Thread, g # h
                 PROVE  LocalOK(g, pc'[g], running'[g], call'[g].arg, i'[g])
    BY OwnLocals DEF Locals
  <1>2. LocalOK(g, pc[g], running[g], call[g].arg, i[g])
    BY DEF TypeInv, Locals
  <1>3. /\ running'[g] = running[g] /\ call'[g] = call[g] /\ i'[g] = i[g]
        /\ pc'[g] = pc[g] \/ (g # main /\ pc[g] = "unborn" /\ pc'[g] = "born")
    BY <1>1, OthersStay
  <1>4. CASE pc'[g] = pc[g]
    BY <1>2, <1>3, <1>4
  <1>5. CASE g # main /\ pc[g] = "unborn" /\ pc'[g] = "born"
    BY <1>2, <1>3, <1>5 DEF LocalOK, RunLabel, InTask, Calling, Carrying
  <1>6. QED
    BY <1>3, <1>4, <1>5

\* Scripts only advance, and only the one of the task that runs.
LEMMA ScriptsAdvance ==
    ASSUME TypeInv, NEW h \in Thread, Step(h), NEW t \in Task \cup {main}
    PROVE  /\ ip[t] \in Nat /\ ip'[t] \in Nat /\ ip[t] <= ip'[t]
           /\ t # running[h] => ip'[t] = ip[t]
  <1>1. ip \in [Task \cup {main} -> Nat \ {0}]
    BY DEF TypeInv, Types
  <1>2. CASE ip' = ip
    BY <1>1, <1>2
  <1>3. ASSUME NEW o, Performs(h, o)
        PROVE  ip' = [ip EXCEPT ![running[h]] = ip[running[h]] + 1]
    BY <1>3, Performing
  <1>4. CASE ip' = [ip EXCEPT ![running[h]] = ip[running[h]] + 1]
    BY <1>1, <1>4
  <1>5. QED
    BY <1>2, <1>3, <1>4, Changes, Zenon

\* The actions that change what is queued, run or suspended, and where.
LEMMA QuietSteps ==
    ASSUME NEW h \in Thread, Step(h)
    PROVE  \/ UNCHANGED <<m_task_queue, home, suspended, running>>
           \/ submit_push(h) \/ await(h) \/ finish(h)
           \/ h \in Context /\ (exec_one_task(h) \/ deinit(h))
  BY Zenon DEF Step, operation, run, mainThread, dispatch, submit_fetch_or, submit_fetch_add,
         submit_to_context, signal, submit_wake, process_work,
         empty_wait_task, poll_work, default_stop_cb, stop_cb_fetch_and,
         stop_cb_fetch_sub, notify_stop_request, notify_stop_wake, start_thread,
         start_assign, join, taskVars, threadVars, engineVars

\* A step keeps the order in which main starts the contexts.
LEMMA StartingKept ==
    ASSUME TypeInv, NEW h \in Thread, Step(h)
    PROVE  Starting'
  <1>0. /\ pc \in [Thread -> Label] /\ i \in [Thread -> Nat] /\ main \in Thread /\ app' = app
        /\ Program' = Program
    BY Names DEF TypeInv, Types, Step, Program
  <1>1. CASE h # main
    <2>1. pc'[main] = pc[main] /\ i'[main] = i[main]
      BY <1>0, <1>1, OthersStay, Names
    <2>2. \A x \in Context : pc[x] = "unborn" => pc'[x] = "unborn"
      <3>1. pc[h] # "unborn"
        BY <1>1, Names, Zenon DEF Step, operation, run, dispatch, submit_fetch_or, submit_fetch_add,
             submit_to_context, signal, submit_push, submit_wake, await, finish, process_work,
             exec_one_task, empty_wait_task, poll_work, default_stop_cb, stop_cb_fetch_and,
             stop_cb_fetch_sub, notify_stop_request, notify_stop_wake, deinit, Performs
      <3>2. QED
        BY <1>1, <3>1, OthersStay, Names
    <2>3. ip'[main] = ip[main]
      <3>1. running[h] # main
        BY <1>1, Names DEF TypeInv, Locals, LocalOK
      <3>2. QED
        BY <3>1, ScriptsAdvance
    <2>4. QED
      BY <1>0, <2>1, <2>2, <2>3 DEF TypeInv, Starting
  <1>2. CASE h = main /\ operation(main)
    <2>1. pc[main] = "op" \/ pc[main] \in Calling
      BY <1>2 DEF operation, dispatch, submit_fetch_or, submit_fetch_add,
             submit_to_context, signal, submit_push, submit_wake, await, finish, Performs,
             Calling, Carrying
    <2>2. pc[main] = "op" => \E o : Performs(main, o)
      BY <1>2 DEF operation, dispatch, submit_fetch_or, submit_fetch_add,
             submit_to_context, signal, submit_push, submit_wake, await, finish
    <2>3. i[main] = 0
      <3>1. CASE pc[main] = "op"
        BY <1>0, <2>2, <3>1, Performing
      <3>2. CASE pc[main] \in Calling
        <4>1. ~(i[main] > 0)
          BY <3>2 DEF TypeInv, Starting
        <4>2. i[main] \in Nat
          BY <1>0
        <4>3. QED
          BY <4>1, <4>2
      <3>3. QED
        BY <2>1, <3>1, <3>2
    <2>4. i'[main] = i[main] /\ pc'[main] \in InTask /\ pc'[main] \notin {"assign", "joined"}
      <3>1. pc'[main] \in InTask
        <4>1. ~await(main)
          BY <1>0, Performing, Names DEF await
        <4>2. QED
          BY <1>0, <1>2, <4>1 DEF operation, dispatch, submit_fetch_or, submit_fetch_add,
             submit_to_context, signal, submit_push, submit_wake, finish, Goto, Performs,
             InTask, Calling, Carrying
      <3>2. i' = i
        BY <1>2, Zenon DEF operation, dispatch, submit_fetch_or, submit_fetch_add,
             submit_to_context, signal, submit_push, submit_wake, await, finish, threadVars
      <3>3. QED
        BY <3>1, <3>2 DEF InTask, Calling, Carrying
    <2>5. \A x \in Context : pc[x] = "unborn" => pc'[x] = "unborn"
      <3>1. \A x \in Thread \ {main} : pc'[x] = pc[x]
        BY <1>0, <1>2 DEF operation, dispatch, submit_fetch_or, submit_fetch_add,
             submit_to_context, signal, submit_push, submit_wake, await, finish, Goto
      <3>2. QED
        BY <3>1, Names
    <2>6. pc[main] # "assign"
      BY <2>1 DEF Calling, Carrying
    <2>7. QED
      BY <1>0, <2>3, <2>4, <2>5, <2>6 DEF TypeInv, Starting
  <1>3. CASE h = main /\ start_thread
    <2>1. /\ i' = i /\ ip' = ip /\ pc[main] = "op" /\ ip[main] > Len(Program[main])
          /\ i[main] \in Context /\ i[main] # main
      BY <1>0, <1>3, Names DEF start_thread, MainReady, threadVars, taskVars
    <2>2. pc'[main] = "assign" /\ \A x \in Context : x # i[main] => pc'[x] = pc[x]
      BY <1>0, <1>3, <2>1, Names, Zenon DEF start_thread
    <2>3. \A x \in Context : i[main] < x => x # i[main]
      BY <2>1, Names
    <2>4. "assign" \notin Calling
      BY DEF Calling, Carrying
    <2>5. QED
      BY <1>0, <2>1, <2>2, <2>3, <2>4 DEF TypeInv, Starting
  <1>4. CASE h = main /\ start_assign
    <2>1. /\ i'[main] = i[main] + 1 /\ ip' = ip /\ pc[main] = "assign" /\ pc'[main] = "op"
          /\ \A x \in Context : pc'[x] = pc[x]
      BY <1>0, <1>4, Names DEF start_assign, Goto, taskVars
    <2>2. \A x \in Context : i[main] + 1 < x \/ i[main] + 1 = x => i[main] < x
      BY <1>0, Names
    <2>3. "op" \notin Calling
      BY DEF Calling, Carrying
    <2>4. QED
      BY <1>0, <2>1, <2>2, <2>3 DEF TypeInv, Starting
  <1>5. CASE h = main /\ join
    <2>1. /\ i' = i /\ ip' = ip /\ pc[main] = "op" /\ ip[main] > Len(Program[main])
          /\ i[main] = m_ctx_cnt /\ pc'[main] = "joined"
      BY <1>0, <1>5 DEF join, MainReady, Goto, threadVars, taskVars
    <2>2. \A x \in Context : ~(i[main] < x \/ i[main] = x)
      BY <2>1, Names
    <2>3. "joined" \notin Calling
      BY DEF Calling, Carrying
    <2>4. QED
      BY <1>0, <2>1, <2>2, <2>3 DEF TypeInv, Starting
  <1>6. QED
    BY <1>1, <1>2, <1>3, <1>4, <1>5, Names DEF Step, mainThread

\* What is queued, runs or is suspended keeps a home.
LEMMA HomedKept ==
    ASSUME TypeInv, NEW h \in Thread, Step(h)
    PROVE  Homed'
  <1>0. /\ m_task_queue \in [Context -> Seq(Task)] /\ home \in [Task -> Context \cup {none}]
        /\ running \in [Thread -> Task \cup {main, none}]
    BY DEF TypeInv, Types
  <1>1. CASE UNCHANGED <<m_task_queue, home, suspended, running>>
    BY <1>1 DEF TypeInv, Homed
  <1>2. CASE submit_push(h)
    <2>1. call[h].to \in Context /\ call[h].arg \in Task
      BY <1>2, ThreadTypes DEF submit_push, Calling, Carrying
    <2>2. UNCHANGED <<suspended, running>>
      BY <1>2 DEF submit_push, threadVars
    <2>3. \A t \in Task : home'[t] = home[t] \/ home'[t] \in Context
      BY <1>0, <1>2, <2>1 DEF submit_push
    <2>4. home'[call[h].arg] \in Context
      BY <1>0, <1>2, <2>1 DEF submit_push
    <2>5. \A x \in Context : \A n \in 1..Len(m_task_queue'[x]) :
            \/ m_task_queue'[x][n] = call[h].arg
            \/ n \in 1..Len(m_task_queue[x]) /\ m_task_queue'[x][n] = m_task_queue[x][n]
      BY <1>0, <1>2, <2>1 DEF submit_push
    <2>6. \A x \in Context : \A n \in 1..Len(m_task_queue[x]) : m_task_queue[x][n] \in Task
      BY <1>0
    <2>7. suspended \subseteq Task
      BY DEF TypeInv, Types
    <2>8. QED
      BY <2>2, <2>3, <2>4, <2>5, <2>6, <2>7 DEF TypeInv, Homed
  <1>3. CASE await(h)
    <2>1. Performs(h, "await") /\ UNCHANGED <<m_task_queue, home>>
      BY <1>3 DEF await
    <2>2. h \in Context /\ running[h] \in Task
      <3>1. h \in Context /\ running[h] \in Task \cup {main} /\ (running[h] = main <=> h = main)
        BY <2>1, Performing, Zenon
      <3>2. QED
        BY <3>1, Names
    <2>3. \A x \in Thread : running'[x] = running[x] \/ running'[x] = none
      BY <1>0, <1>3 DEF await
    <2>4. suspended' \subseteq suspended \cup {running[h]}
      BY <1>3 DEF await
    <2>5. QED
      BY <2>1, <2>2, <2>3, <2>4, Names DEF TypeInv, Homed
  <1>4. CASE finish(h)
    <2>1. UNCHANGED <<m_task_queue, home, suspended>>
      BY <1>4 DEF finish, engineVars
    <2>2. \A x \in Thread : running'[x] = running[x] \/ running'[x] = none
      BY <1>0, <1>4 DEF finish
    <2>3. QED
      BY <2>1, <2>2, Names DEF TypeInv, Homed
  <1>5. CASE h \in Context /\ exec_one_task(h)
    <2>1. UNCHANGED home /\ suspended' \subseteq suspended
      BY <1>5 DEF exec_one_task
    <2>2. m_task_queue[h] # <<>> /\ m_task_queue[h] \in Seq(Task)
      BY <1>0, <1>5 DEF exec_one_task
    <2>3. home[Head(m_task_queue[h])] \in Context
      BY <1>5, <2>2 DEF TypeInv, Homed
    <2>4. \A x \in Context : \A n \in 1..Len(m_task_queue'[x]) :
            \E k \in 1..Len(m_task_queue[x]) : m_task_queue'[x][n] = m_task_queue[x][k]
      <3>1. SUFFICES ASSUME NEW x \in Context, NEW n \in 1..Len(m_task_queue'[x])
                     PROVE  \E k \in 1..Len(m_task_queue[x]) :
                                m_task_queue'[x][n] = m_task_queue[x][k]
        OBVIOUS
      <3>2. CASE x = h
        <4>1. m_task_queue'[x] = Tail(m_task_queue[x])
          BY <1>0, <1>5, <3>2 DEF exec_one_task
        <4>2. n + 1 \in 1..Len(m_task_queue[x]) /\ m_task_queue'[x][n] = m_task_queue[x][n + 1]
          BY <2>2, <3>2, <4>1
        <4>3. QED
          BY <4>2
      <3>3. CASE x # h
        BY <1>0, <1>5, <3>3 DEF exec_one_task
      <3>4. QED
        BY <3>2, <3>3
    <2>5. \A x \in Thread : running'[x] = running[x] \/ running'[x] = Head(m_task_queue[h])
      BY <1>0, <1>5 DEF exec_one_task
    <2>6. \A x \in Context : \A n \in 1..Len(m_task_queue'[x]) :
            home'[m_task_queue'[x][n]] \in Context
      BY <2>1, <2>4 DEF TypeInv, Homed
    <2>7. \A x \in Context : running'[x] \in Task => home'[running'[x]] \in Context
      BY <2>1, <2>3, <2>5, Names DEF TypeInv, Homed
    <2>8. \A t \in suspended' : home'[t] \in Context
      BY <2>1 DEF TypeInv, Homed
    <2>9. QED
      BY <2>6, <2>7, <2>8 DEF Homed
  <1>6. CASE h \in Context /\ deinit(h)
    <2>1. UNCHANGED <<home, suspended, running>>
      BY <1>6 DEF deinit, threadVars, taskVars
    <2>2. \A x \in Context : m_task_queue'[x] = m_task_queue[x] \/ m_task_queue'[x] = <<>>
      BY <1>0, <1>6 DEF deinit
    <2>3. QED
      BY <2>1, <2>2 DEF TypeInv, Homed
  <1>7. QED
    BY <1>1, <1>2, <1>3, <1>4, <1>5, <1>6, QuietSteps

\* Every variable has its type, and what a thread runs, calls and counts goes
\* with where it is.
LEMMA TypesStep == TypeInv /\ [Next]_vars => TypeInv'
  <1>1. ASSUME TypeInv, UNCHANGED vars
        PROVE  TypeInv'
    BY <1>1 DEF vars, schedVars, jobVars, engineVars, threadVars, taskVars, TypeInv, Types,
                Locals, Starting, Homed, Program
  <1>2. ASSUME TypeInv, NEW h \in Thread, Step(h)
        PROVE  TypeInv'
    BY <1>2, TypesKept, LocalsKept, StartingKept, HomedKept DEF TypeInv
  <1>3. QED
    BY <1>1, <1>2 DEF Next, Finished

\* Every variable of the runtime has its type in every reachable state, and
\* where a thread is determines what it runs, what it is submitting and where
\* its loops stand.
THEOREM TypeCorrect == Spec => []TypeInv
  BY TypesInit, TypesStep, PTL DEF Spec

-----------------------------------------------------------------------------
(* Wake-ups.                                                               *)

\* Where a thread has only one way to go on.
LEMMA OneWay ==
    ASSUME TypeInv, NEW h \in Thread, Step(h)
    PROVE  /\ pc[h] = "push" => submit_push(h)
           /\ pc[h] = "wake" => submit_wake(h)
           /\ pc[h] = "stop_wake" => h \in Context /\ notify_stop_wake(h)
           /\ pc[h] \in {"born", "loop"} => h \in Context /\ (process_work(h) \/ deinit(h))
           /\ pc[h] \notin {"unborn", "exited"}
  BY Zenon DEF Step, Performs, MainReady, operation, run, mainThread, dispatch, submit_fetch_or,
     submit_fetch_add,
         submit_to_context, signal, submit_push, submit_wake, await, finish, process_work,
         exec_one_task, empty_wait_task, poll_work, default_stop_cb, stop_cb_fetch_and,
         stop_cb_fetch_sub, notify_stop_request, notify_stop_wake, deinit, start_thread,
         start_assign, join

\* Who changes the queue of context x: whoever pushes, and its own thread.
LEMMA QueueSteps ==
    ASSUME TypeInv, NEW h \in Thread, Step(h), NEW x \in Context
    PROVE  \/ m_task_queue'[x] = m_task_queue[x] /\ ~(submit_push(h) /\ call[h].to = x)
           \/ /\ submit_push(h) /\ call[h].to = x /\ call[h].arg \in Task
              /\ m_task_queue'[x] = Append(m_task_queue[x], call[h].arg)
           \/ /\ x = h /\ exec_one_task(h) /\ m_task_queue[x] # <<>>
              /\ m_task_queue'[x] = Tail(m_task_queue[x])
           \/ x = h /\ deinit(h) /\ m_task_queue'[x] = <<>>
  <1>0. m_task_queue \in [Context -> Seq(Task)] /\ Len(m_task_queue[x]) \in Nat
    BY DEF TypeInv, Types
  <1>1. CASE UNCHANGED m_task_queue
    <2>1. submit_push(h) => call[h].to # x
      <3>1. SUFFICES ASSUME submit_push(h), call[h].to = x
                     PROVE  FALSE
        OBVIOUS
      <3>2. call[h].arg \in Task /\ m_task_queue'[x] = Append(m_task_queue[x], call[h].arg)
        BY <1>0, <3>1, ThreadTypes DEF submit_push, Calling, Carrying
      <3>3. Len(m_task_queue'[x]) = Len(m_task_queue[x]) + 1
        BY <1>0, <3>2
      <3>4. QED
        BY <1>0, <1>1, <3>3
    <2>2. QED
      BY <1>1, <2>1
  <1>2. CASE submit_push(h)
    <2>1. call[h].arg \in Task
      BY <1>2, ThreadTypes DEF submit_push, Calling, Carrying
    <2>2. QED
      BY <1>0, <1>2, <2>1 DEF submit_push
  <1>3. CASE h \in Context /\ exec_one_task(h)
    <2>1. ~submit_push(h)
      BY <1>3 DEF exec_one_task, submit_push
    <2>2. QED
      BY <1>0, <1>3, <2>1 DEF exec_one_task
  <1>4. CASE h \in Context /\ deinit(h)
    <2>1. ~submit_push(h)
      BY <1>4 DEF deinit, submit_push
    <2>2. QED
      BY <1>0, <1>4, <2>1 DEF deinit
  <1>5. CASE await(h) \/ finish(h)
    <2>1. UNCHANGED m_task_queue
      BY <1>5 DEF await, finish, engineVars
    <2>2. QED
      BY <1>1, <2>1
  <1>6. QED
    BY <1>1, <1>2, <1>3, <1>4, <1>5, QuietSteps, Zenon

\* Who changes the eventfd of context x: whoever writes it, and its own thread.
LEMMA EfdSteps ==
    ASSUME TypeInv, NEW h \in Thread, Step(h), NEW x \in Context
    PROVE  /\ \/ efd'[x] = efd[x]
              \/ efd'[x] = "set" /\ efd[x] # "closed"
              \/ x = h /\ (poll_work(h) \/ deinit(h))
           /\ submit_wake(h) /\ call[h].to = x /\ efd[x] # "closed" => efd'[x] = "set"
           /\ notify_stop_wake(h) /\ i[h] = x /\ efd[x] # "closed" => efd'[x] = "set"
  <1>0. efd \in [Context -> {"zero", "set", "closed"}]
    BY DEF TypeInv, Types
  <1>1. CASE submit_wake(h)
    <2>1. ~notify_stop_wake(h)
      BY <1>1 DEF submit_wake, notify_stop_wake
    <2>2. QED
      BY <1>0, <1>1, <2>1, ThreadTypes DEF submit_wake, wake_up
  <1>2. CASE notify_stop_wake(h)
    <2>1. ~submit_wake(h)
      BY <1>2 DEF submit_wake, notify_stop_wake
    <2>2. QED
      BY <1>0, <1>2, <2>1, ThreadTypes, Zenon DEF notify_stop_wake, wake_up
  <1>3. CASE ~submit_wake(h) /\ ~notify_stop_wake(h)
    <2>1. UNCHANGED efd \/ poll_work(h) \/ deinit(h)
      BY <1>3 DEF Step, operation, run, mainThread, dispatch, submit_fetch_or, submit_fetch_add,
         submit_to_context, signal, submit_push, await, finish, process_work,
         exec_one_task, empty_wait_task, default_stop_cb, stop_cb_fetch_and,
         stop_cb_fetch_sub, notify_stop_request, start_thread, start_assign, join, engineVars
    <2>2. QED
      BY <1>0, <1>3, <2>1 DEF poll_work, deinit
  <1>4. QED
    BY <1>1, <1>2, <1>3

\* A batch shrinks only when a task of it is taken.
LEMMA BatchSteps ==
    ASSUME TypeInv, NEW h \in Thread, Step(h), NEW x \in Context
    PROVE  /\ Batch(x) \in Nat
           /\ \/ Batch(x)' = Batch(x)
              \/ x = h /\ process_work(h) /\ Batch(x)' = Len(m_task_queue[x])
              \/ x = h /\ exec_one_task(h) /\ Batch(x) > 0 /\ Batch(x)' = Batch(x) - 1
  <1>0. /\ pc \in [Thread -> Label] /\ i \in [Thread -> Nat] /\ x \in Thread
        /\ Batch(x) \in Nat
    BY Names DEF TypeInv, Types, Batch
  <1>1. CASE x # h
    BY <1>0, <1>1, OthersStay DEF Batch, InTask, Calling, Carrying
  <1>2. CASE x = h /\ process_work(h)
    BY <1>0, <1>2 DEF Batch, process_work, Goto
  <1>3. CASE x = h /\ exec_one_task(h)
    <2>1. pc[h] = "work" /\ pc'[h] = "op" /\ i[h] > 0 /\ i'[h] = i[h] - 1
      BY <1>0, <1>3 DEF exec_one_task, Goto
    <2>2. QED
      BY <1>0, <1>3, <2>1 DEF Batch, InTask
  <1>4. CASE x = h /\ ~process_work(h) /\ ~exec_one_task(h)
    <2>1. operation(h) \/ run(h)
      BY <1>4, Names DEF Step
    <2>2. CASE operation(h)
      <3>1. i' = i
        BY <2>2 DEF operation, dispatch, submit_fetch_or, submit_fetch_add, submit_to_context,
             signal, submit_push, submit_wake, await, finish, threadVars
      <3>2. pc[h] \in InTask /\ pc'[h] \in InTask \cup {"work"}
        BY <1>0, <2>2, Zenon DEF operation, dispatch, submit_fetch_or, submit_fetch_add,
             submit_to_context, signal, submit_push, submit_wake, await, finish, Performs, Goto,
             InTask, Calling, Carrying
      <3>3. QED
        BY <1>0, <1>4, <3>1, <3>2 DEF Batch, InTask, Calling, Carrying
    <2>3. CASE run(h)
      <3>1. /\ pc[h] \in {"work", "poll", "stop_cb", "fetch_sub", "stop", "stop_wake", "born", "loop"}
            /\ pc[h] = "work" => i[h] = 0
            /\ pc'[h] \notin InTask \cup {"work"}
        BY <1>0, <1>4, <2>3 DEF run, empty_wait_task, poll_work, default_stop_cb,
             stop_cb_fetch_and, stop_cb_fetch_sub, notify_stop_request, notify_stop_wake, deinit,
             Goto, InTask, Calling, Carrying
      <3>2. QED
        BY <1>0, <1>4, <3>1 DEF Batch, InTask, Calling, Carrying
    <2>4. QED
      BY <2>1, <2>2, <2>3
  <1>5. QED
    BY <1>0, <1>1, <1>2, <1>3, <1>4

\* A wake-up under way gets to a context that still needs it.
LEMMA WakesStay ==
    ASSUME TypeInv, WakeInv, NEW h \in Thread, Step(h), NEW x \in Context,
           Committed(x), Committed(x)'
    PROVE  /\ TaskWakes(x) => TaskWakes(x)'
           /\ StopWakes(x) => StopWakes(x)'
  <1>0. pc \in [Thread -> Label] /\ efd[x] # "closed"
    BY DEF TypeInv, Types, WakeInv, Committed
  <1>1. ~(x = h /\ (poll_work(h) \/ deinit(h)))
    BY <1>0, Names DEF poll_work, deinit, Goto, Committed
  <1>2. efd[x] = "set" => efd'[x] = "set"
    BY <1>1, EfdSteps, Zenon
  <1>3. efd'[x] = "set" => TaskWakes(x)' /\ StopWakes(x)'
    BY Zenon DEF TaskWakes, StopWakes
  <1>4. ASSUME NEW g \in Thread, pc[g] = "wake", call[g].to = x
        PROVE  TaskWakes(x)'
    <2>1. CASE g = h
      <3>1. submit_wake(h)
        BY <1>4, <2>1, OneWay, Zenon
      <3>2. efd'[x] = "set"
        BY <1>0, <1>4, <2>1, <3>1, EfdSteps, Zenon
      <3>3. QED
        BY <1>3, <3>2, Zenon
    <2>2. CASE g # h
      <3>1. pc'[g] = "wake" /\ call'[g].to = x
        BY <1>4, <2>2, OthersStay, Zenon
      <3>2. QED
        BY <3>1, Zenon DEF TaskWakes
    <2>3. QED
      BY <2>1, <2>2
  <1>5. ASSUME NEW g \in Context, pc[g] = "stop_wake", i[g] = x
        PROVE  StopWakes(x)'
    <2>0. g \in Thread
      BY Names
    <2>1. CASE g = h
      <3>1. notify_stop_wake(h)
        BY <1>5, <2>1, OneWay, Zenon
      <3>2. efd'[x] = "set"
        BY <1>0, <1>5, <2>1, <3>1, EfdSteps, Zenon
      <3>3. QED
        BY <1>3, <3>2, Zenon
    <2>2. CASE g # h
      <3>1. pc'[g] = "stop_wake" /\ i'[g] = x
        BY <1>5, <2>0, <2>2, OthersStay, Zenon
      <3>2. QED
        BY <3>1, Zenon DEF StopWakes
    <2>3. QED
      BY <2>1, <2>2
  <1>6. QED
    BY <1>2, <1>3, <1>4, <1>5, Zenon DEF TaskWakes, StopWakes

\* WakeInv holds at first, as nobody sleeps.
LEMMA WakeInit == Init => WakeInv
  BY Names DEF Init, WakeInv, Batch, Committed, InTask, Calling, Carrying

\* Steps keep WakeInv: submit_task pushes before it writes the eventfd, and
\* notify_stop requests the stop before it does.
LEMMA WakeStep ==
    ASSUME TypeInv, WakeInv, NEW h \in Thread, Step(h)
    PROVE  WakeInv'
  <1>0. /\ pc \in [Thread -> Label] /\ app' = app /\ Scheduled' = Scheduled
        /\ \A x \in Context : m_task_queue[x] \in Seq(Task)
    BY DEF TypeInv, Types, Step, Scheduled
  <1>1. ASSUME NEW x \in Context
        PROVE  Batch(x)' <= Len(m_task_queue'[x])
    <2>1. Batch(x) <= Len(m_task_queue[x]) /\ Len(m_task_queue[x]) \in Nat /\ Batch(x) \in Nat
      BY <1>0, BatchSteps DEF WakeInv
    <2>2. CASE submit_push(h) /\ call[h].to = x
      <3>1. Batch(x)' = Batch(x)
        BY <2>2, BatchSteps, Zenon DEF submit_push, process_work, exec_one_task
      <3>2. Len(m_task_queue'[x]) = Len(m_task_queue[x]) + 1
        <4>0. ~exec_one_task(h) /\ ~deinit(h)
          BY <2>2 DEF submit_push, exec_one_task, deinit
        <4>1. call[h].arg \in Task /\ m_task_queue'[x] = Append(m_task_queue[x], call[h].arg)
          BY <2>2, <4>0, QueueSteps, Zenon
        <4>2. QED
          BY <1>0, <4>1
      <3>3. QED
        BY <2>1, <3>1, <3>2
    <2>3. CASE x = h /\ exec_one_task(h)
      <3>1. Batch(x) > 0 /\ Batch(x)' = Batch(x) - 1
        <4>1. pc[h] = "work" /\ pc'[h] = "op" /\ i[h] > 0 /\ i'[h] = i[h] - 1
          BY <1>0, <2>3 DEF exec_one_task, Goto, TypeInv, Types
        <4>2. QED
          BY <2>3, <4>1 DEF Batch, InTask
      <3>2. m_task_queue[x] # <<>> /\ m_task_queue'[x] = Tail(m_task_queue[x])
        BY <2>3 DEF exec_one_task, TypeInv, Types
      <3>3. Len(m_task_queue'[x]) = Len(m_task_queue[x]) - 1
        BY <1>0, <3>2
      <3>4. QED
        BY <2>1, <3>1, <3>3
    <2>4. CASE x = h /\ deinit(h)
      <3>1. Batch(x)' = 0 /\ pc'[h] = "exited"
        BY <1>0, <2>4 DEF deinit, Goto, Batch, InTask, Calling, Carrying
      <3>2. m_task_queue'[x] \in Seq(Task)
        BY TypesStep DEF Next, TypeInv, Types
      <3>3. QED
        BY <3>1, <3>2
    <2>5. CASE m_task_queue'[x] = m_task_queue[x] /\ ~(x = h /\ exec_one_task(h))
      BY <2>1, <2>5, BatchSteps
    <2>6. QED
      BY <2>2, <2>3, <2>4, <2>5, QueueSteps
  <1>2. ASSUME NEW x \in Context, efd'[x] = "closed"
        PROVE  pc'[x] = "exited"
    <2>1. CASE efd[x] = "closed"
      <3>1. pc[x] = "exited" /\ x # h
        BY <2>1, OneWay DEF WakeInv
      <3>2. QED
        BY <3>1, OthersStay, Names
    <2>2. CASE efd[x] # "closed"
      <3>1. efd[x] \in {"zero", "set"} /\ h = x /\ deinit(h)
        BY <1>2, <2>2, EfdSteps, Zenon DEF poll_work, TypeInv, Types
      <3>2. QED
        BY <1>0, <3>1 DEF deinit, Goto
    <2>3. QED
      BY <2>1, <2>2
  <1>3. ASSUME NEW x \in Context, Committed(x)', Batch(x)' < Len(m_task_queue'[x])
        PROVE  TaskWakes(x)'
    <2>0. /\ Batch(x) \in Nat /\ Len(m_task_queue[x]) \in Nat /\ x \in Thread
          /\ m_task_queue[x] \in Seq(Task)
      BY <1>0, BatchSteps, Names
    <2>1. ~(x = h /\ deinit(h))
      BY <1>0, <1>3 DEF deinit, Goto, Committed
    <2>2. CASE submit_push(h) /\ call[h].to = x
      <3>1. pc'[h] = "wake" /\ call'[h].to = x
        BY <1>0, <2>2 DEF submit_push, Goto, threadVars
      <3>2. QED
        BY <3>1 DEF TaskWakes
    <2>3. CASE x = h /\ process_work(h)
      <3>1. m_task_queue'[x] = m_task_queue[x] /\ Batch(x)' = Len(m_task_queue[x])
        BY <1>0, <2>0, <2>3 DEF process_work, engineVars, Batch, Goto, TypeInv, Types
      <3>2. QED
        BY <1>3, <2>0, <3>1
    <2>4. CASE ~(submit_push(h) /\ call[h].to = x) /\ ~(x = h /\ process_work(h))
      <3>1. Committed(x)
        <4>1. CASE x = h
          BY <2>1, <2>4, <4>1, OneWay, Zenon DEF Committed
        <4>2. CASE x # h
          BY <1>3, <2>0, <4>2, OthersStay DEF Committed
        <4>3. QED
          BY <4>1, <4>2
      <3>2. Batch(x) < Len(m_task_queue[x])
        <4>1. CASE x = h /\ exec_one_task(h)
          <5>1. Batch(x)' = Batch(x) - 1 /\ m_task_queue[x] # <<>>
            <6>1. pc[h] = "work" /\ pc'[h] = "op" /\ i[h] > 0 /\ i'[h] = i[h] - 1
              BY <1>0, <4>1 DEF exec_one_task, Goto, TypeInv, Types
            <6>2. QED
              BY <4>1, <6>1 DEF Batch, InTask, exec_one_task
          <5>2. m_task_queue'[x] = Tail(m_task_queue[x])
            BY <4>1 DEF exec_one_task, TypeInv, Types
          <5>3. Len(m_task_queue'[x]) = Len(m_task_queue[x]) - 1
            BY <2>0, <5>1, <5>2
          <5>4. QED
            BY <1>3, <2>0, <5>1, <5>3
        <4>2. CASE ~(x = h /\ exec_one_task(h))
          BY <1>3, <2>1, <2>4, <4>2, BatchSteps, QueueSteps
        <4>3. QED
          BY <4>1, <4>2
      <3>3. TaskWakes(x)
        BY <3>1, <3>2 DEF WakeInv
      <3>4. QED
        BY <1>3, <3>1, <3>3, WakesStay
    <2>5. QED
      BY <2>2, <2>3, <2>4, Zenon
  <1>4. ASSUME Scheduled, NEW x \in stop_requested', Committed(x)'
        PROVE  StopWakes(x)'
    <2>0. x \in Context /\ x \in Thread
      BY TypesStep, Names, Zenon DEF Next, TypeInv, Types
    <2>1. CASE x \in stop_requested
      <3>1. Committed(x)
        <4>1. CASE x = h
          BY <1>0, <1>4, <2>1, <4>1, OneWay DEF Committed, process_work, deinit, Goto
        <4>2. CASE x # h
          BY <1>4, <2>0, <4>2, OthersStay DEF Committed
        <4>3. QED
          BY <4>1, <4>2
      <3>2. StopWakes(x)
        BY <1>4, <2>1, <3>1 DEF WakeInv
      <3>3. QED
        BY <1>4, <2>0, <3>1, <3>2, WakesStay
    <2>2. CASE x \notin stop_requested
      <3>1. h \in Context /\ notify_stop_request(h) /\ i[h] = x
        BY <1>4, <2>2, Zenon DEF Step, jobVars, request_stop, operation, run, mainThread,
             dispatch, submit_fetch_or, submit_fetch_add, submit_to_context, signal, submit_push,
             submit_wake, await, finish, process_work, exec_one_task, empty_wait_task, poll_work,
             default_stop_cb, stop_cb_fetch_and, stop_cb_fetch_sub, notify_stop_request,
             notify_stop_wake, deinit, start_thread, start_assign, join
      <3>2. pc'[h] = "stop_wake" /\ i'[h] = x
        BY <1>0, <3>1, Names DEF notify_stop_request, Goto, threadVars
      <3>3. QED
        BY <3>1, <3>2 DEF StopWakes
    <2>3. QED
      BY <2>1, <2>2
  <1>5. QED
    BY <1>0, <1>1, <1>2, <1>3, <1>4 DEF WakeInv

\* What a state predicate depends on is unchanged.
LEMMA WakeStutter == WakeInv /\ UNCHANGED vars => WakeInv'
  <1>1. SUFFICES ASSUME WakeInv, UNCHANGED vars PROVE WakeInv'
    OBVIOUS
  <1>2. UNCHANGED <<stop_requested, m_task_queue, efd, pc, call, i, app>>
    BY <1>1 DEF vars, jobVars, engineVars, threadVars
  <1>3. /\ Scheduled' = Scheduled
        /\ \A x : Batch(x)' = Batch(x) /\ (Committed(x)' <=> Committed(x))
        /\ \A x : (TaskWakes(x)' <=> TaskWakes(x)) /\ (StopWakes(x)' <=> StopWakes(x))
    BY <1>2 DEF Scheduled, Batch, Committed, TaskWakes, StopWakes
  <1>4. QED
    BY <1>1, <1>2, <1>3 DEF WakeInv

\* TypeInv and WakeInv together are inductive.
THEOREM WakeInvariant == Spec => [](TypeInv /\ WakeInv)
  <1>1. TypeInv /\ WakeInv /\ [Next]_vars => WakeInv'
    BY WakeStep, WakeStutter DEF Next, Finished
  <1>2. QED
    BY <1>1, TypesInit, WakeInit, TypesStep, PTL DEF Spec

\* No wake-up is lost: a context that sleeps in wait_eventfd although it has
\* work, or was asked to stop by the scheduler, is about to be woken.
THEOREM NoLostWakeUp == Spec => []SleeperIsWoken
  <1>1. TypeInv /\ WakeInv => SleeperIsWoken
    <2>1. SUFFICES ASSUME TypeInv, WakeInv, NEW x \in Context, pc[x] = "poll", efd[x] = "zero"
                   PROVE  /\ m_task_queue[x] # <<>> =>
                                \E h \in Thread : pc[h] = "wake" /\ call[h].to = x
                          /\ Scheduled /\ x \in stop_requested =>
                                \E y \in Context : pc[y] = "stop_wake" /\ i[y] = x
      BY Zenon DEF SleeperIsWoken
    <2>2. Committed(x) /\ Batch(x) = 0
      BY <2>1 DEF Committed, Batch, InTask, Calling, Carrying
    <2>3. m_task_queue[x] # <<>> => 0 < Len(m_task_queue[x])
      BY DEF TypeInv, Types
    <2>4. QED
      BY <2>1, <2>2, <2>3 DEF WakeInv, TaskWakes, StopWakes
  <1>2. QED
    BY <1>1, WakeInvariant, PTL

\* process_work pops only what it has counted, so that pop() never spins on an
\* empty queue.
THEOREM BatchStaysQueued == Spec => []BatchIsQueued
  <1>1. WakeInv => BatchIsQueued
    BY DEF WakeInv, BatchIsQueued, Batch, InTask, Calling, Carrying
  <1>2. QED
    BY <1>1, WakeInvariant, PTL

=============================================================================
