------------------------------ MODULE Runtime ------------------------------
(***************************************************************************)
(* The scheduler, its contexts and the task queue and eventfd of their     *)
(* engines: how tasks reach a context, how a context sleeps and wakes, and *)
(* how the runtime decides that it is time to stop (scheduler.cpp,         *)
(* context.cpp, engine.cpp, dispatcher.hpp).                               *)
(*                                                                         *)
(* A task is a script, Program[t], of the calls it makes into the runtime; *)
(* Init chooses the application app from Apps, its scripts and whether it  *)
(* uses the scheduler or starts the contexts on their own:                 *)
(*    scheduler u    submit_to_scheduler(u)                                *)
(*    context u x    x.submit_task(u), submit_to_context(u) if x is none   *)
(*    await          suspend on a synchronisation object, unless signalled *)
(*    signal u       let u go on: submit it to its context if suspended    *)
(* Program[main] is what the main thread submits before the contexts run.  *)
(*                                                                         *)
(* Every access to shared memory is a step of its own.  What only the      *)
(* context's own thread touches goes with the access it precedes; so does  *)
(* m_num_wait_task, as an awaiter registers with the context it runs on.   *)
(* An eventfd is abstracted to whether its counter is zero, and the task   *)
(* queue is never full.                                                    *)
(***************************************************************************)
EXTENDS Integers, Sequences, FiniteSets

CONSTANTS m_ctx_cnt,   \* number of contexts
          Task,
          Apps,        \* the applications, see above
          main,        \* the main thread, and what it runs
          none

Context == 0..(m_ctx_cnt - 1)
Thread == Context \cup {main}
Op == [op : {"scheduler", "signal"}, arg : Task]
        \cup [op : {"context"}, arg : Task, ctx : Context \cup {none}]
        \cup [op : {"await"}]

\* Operation o hands a task to a context: the task is moved, so that only one
\* operation of an application does that with it.
Submits(o) == o.op \in {"scheduler", "context"}

\* The main thread has no context of its own.
NeedsContext(o) == o.op = "await" \/ (o.op = "context" /\ o.ctx = none)

ASSUME RuntimeAssumption ==
    /\ m_ctx_cnt \in Nat \ {0}
    /\ IsFiniteSet(Task)
    /\ main \notin Task \cup Context
    /\ none \notin Task \cup Thread
    /\ \A p \in Apps :
        /\ p.script \in [Task \cup {main} -> Seq(Op)]
        /\ p.scheduled \in BOOLEAN
        /\ \A n \in DOMAIN p.script[main] : ~NeedsContext(p.script[main][n])
        /\ \A s, u \in Task \cup {main} :
            \A n \in DOMAIN p.script[s], k \in DOMAIN p.script[u] :
                /\ Submits(p.script[s][n]) /\ Submits(p.script[u][k])
                /\ p.script[s][n].arg = p.script[u][k].arg
                => s = u /\ n = k

VARIABLES
    m_stop_token, m_ctx_stop_flag, m_cur,  \* scheduler, dispatcher
    m_job,           \* contexts whose m_job has been assigned
    stop_requested,  \* contexts whose jthread was asked to stop
    m_num_wait_task, m_task_queue,
    efd,             \* eventfd of each engine: "zero", "set" or "closed"
    pc,              \* where each thread is
    running,         \* the task each thread runs
    call,            \* locals of submit_task_impl and of the stop callback
    i,               \* loop variable of process_work, start_impl, stop_impl
    ip,              \* next operation of each task
    home,            \* the context a task was submitted to
    suspended, signalled, done,
    crashed,         \* m_job was used before it was assigned
    app              \* the application that runs

schedVars == <<m_stop_token, m_ctx_stop_flag, m_cur>>
jobVars == <<m_job, stop_requested, crashed>>
engineVars == <<m_num_wait_task, m_task_queue, efd>>
threadVars == <<running, call, i>>
taskVars == <<ip, home, suspended, signalled, done>>
vars == <<schedVars, jobVars, engineVars, pc, threadVars, taskVars, app>>

Program == app.script
Scheduled == app.scheduled

\* init_impl, and the construction of the contexts and their engines.
Init ==
    /\ app \in Apps
    /\ m_stop_token = m_ctx_cnt
    /\ m_ctx_stop_flag = [x \in Context |-> 1]
    /\ m_cur = 0
    /\ m_job = {} /\ stop_requested = {} /\ crashed = FALSE
    /\ m_num_wait_task = [x \in Context |-> 0]
    /\ m_task_queue = [x \in Context |-> <<>>]
    /\ efd = [x \in Context |-> "zero"]
    /\ pc = [h \in Thread |-> IF h = main THEN "op" ELSE "unborn"]
    /\ running = [h \in Thread |-> IF h = main THEN main ELSE none]
    /\ call = [h \in Thread |-> [arg |-> none, to |-> 0, cnt |-> 0]]
    /\ i = [h \in Thread |-> 0]
    /\ ip = [t \in Task \cup {main} |-> 1]
    /\ home = [t \in Task |-> none]
    /\ suspended = {} /\ signalled = {} /\ done = {}

Goto(h, label) == pc' = [pc EXCEPT ![h] = label]
-----------------------------------------------------------------------------
(* The operations of the task that thread h runs.                          *)

\* h is about to perform an operation o of its task; the script advances.
Performs(h, o) ==
    LET t == running[h] IN
    /\ pc[h] = "op"
    /\ ip[t] <= Len(Program[t])
    /\ Program[t][ip[t]].op = o
    /\ ip' = [ip EXCEPT ![t] = @ + 1]

Arg(h) == Program[running[h]][ip[running[h]]].arg

\* submit_task_impl: the dispatcher picks the context round robin.  What the
\* assertion before it demands is SubmitAssertion.
dispatch(h) ==
    /\ Performs(h, "scheduler")
    /\ call' = [call EXCEPT ![h] = [arg |-> Arg(h), to |-> m_cur, cnt |-> 0]]
    /\ m_cur' = (m_cur + 1) % m_ctx_cnt
    /\ Goto(h, "fetch_or")
    /\ UNCHANGED <<m_stop_token, m_ctx_stop_flag, jobVars, engineVars, running,
                   i, home, suspended, signalled, done>>

submit_fetch_or(h) ==
    /\ pc[h] = "fetch_or"
    /\ call' = [call EXCEPT ![h].cnt = m_ctx_stop_flag[call[h].to]]
    /\ m_ctx_stop_flag' = [m_ctx_stop_flag EXCEPT ![call[h].to] = 1]
    /\ Goto(h, "fetch_add")
    /\ UNCHANGED <<m_stop_token, m_cur, jobVars, engineVars, running, i,
                   taskVars>>

\* Mutant of submit_fetch_add: every submission counts, not only the first.
submit_fetch_add_always(h) ==
    /\ pc[h] = "fetch_add"
    /\ m_stop_token' = m_stop_token + 1
    /\ Goto(h, "push")
    /\ UNCHANGED <<m_ctx_stop_flag, m_cur, jobVars, engineVars, threadVars,
                   taskVars>>

submit_fetch_add(h) ==
    /\ pc[h] = "fetch_add"
    /\ m_stop_token' = m_stop_token + (1 - call[h].cnt)
    /\ Goto(h, "push")
    /\ UNCHANGED <<m_ctx_stop_flag, m_cur, jobVars, engineVars, threadVars,
                   taskVars>>

\* context::submit_task on a given context or on the caller's own.
submit_to_context(h) ==
    /\ Performs(h, "context")
    /\ LET x == Program[running[h]][ip[running[h]]].ctx IN
       call' = [call EXCEPT ![h] = [arg |-> Arg(h), cnt |-> 0,
                                    to |-> IF x = none THEN h ELSE x]]
    /\ Goto(h, "push")
    /\ UNCHANGED <<schedVars, jobVars, engineVars, running, i, home, suspended,
                   signalled, done>>

\* A synchronisation object resumes u through the context u waits on.
signal(h) ==
    /\ Performs(h, "signal")
    /\ signalled' = signalled \cup {Arg(h)}
    /\ IF Arg(h) \in suspended \ signalled
       THEN /\ call' = [call EXCEPT ![h] =
                            [arg |-> Arg(h), to |-> home[Arg(h)], cnt |-> 0]]
            /\ Goto(h, "push")
       ELSE UNCHANGED <<call, pc>>
    /\ UNCHANGED <<schedVars, jobVars, engineVars, running, i, home, suspended,
                   done>>

\* engine::submit_task: try_push, then wake_up.
submit_push(h) ==
    /\ pc[h] = "push"
    /\ m_task_queue' = [m_task_queue EXCEPT
                            ![call[h].to] = Append(@, call[h].arg)]
    /\ home' = [home EXCEPT ![call[h].arg] = call[h].to]
    /\ Goto(h, "wake")
    /\ UNCHANGED <<schedVars, jobVars, m_num_wait_task, efd, threadVars, ip,
                   suspended, signalled, done>>

\* Mutant of wake_up: the eventfd is not written.
wake_up_lost(x) == efd' = [efd EXCEPT ![x] = @]

\* write_eventfd; a write to the eventfd of an engine that has gone fails.
wake_up(x) == efd' = [efd EXCEPT ![x] = IF @ = "closed" THEN @ ELSE "set"]

submit_wake(h) ==
    /\ pc[h] = "wake"
    /\ wake_up(call[h].to)
    /\ Goto(h, "op")
    /\ UNCHANGED <<schedVars, jobVars, m_num_wait_task, m_task_queue,
                   threadVars, taskVars>>

\* The awaiter registers with the context; without a signal the task suspends
\* and the context goes on with process_work.
await(h) ==
    /\ Performs(h, "await")
    /\ LET t == running[h] IN
       IF t \in signalled
       THEN UNCHANGED <<m_num_wait_task, suspended, pc, running>>
       ELSE /\ m_num_wait_task' = [m_num_wait_task EXCEPT ![h] = @ + 1]
            /\ suspended' = suspended \cup {t}
            /\ running' = [running EXCEPT ![h] = none]
            /\ Goto(h, "work")
    /\ UNCHANGED <<schedVars, jobVars, m_task_queue, efd, call, i, home,
                   signalled, done>>

\* The task returns.
finish(h) ==
    /\ pc[h] = "op" /\ h # main
    /\ ip[running[h]] > Len(Program[running[h]])
    /\ done' = done \cup {running[h]}
    /\ running' = [running EXCEPT ![h] = none]
    /\ Goto(h, "work")
    /\ UNCHANGED <<schedVars, jobVars, engineVars, call, i, ip, home,
                   suspended, signalled>>
-----------------------------------------------------------------------------
(* The worker thread of context x: context::run.                           *)

\* Mutant of process_work: one task too many.
process_work_too_many(x) ==
    /\ pc[x] \in {"born", "loop"}
    /\ x \notin stop_requested
    /\ i' = [i EXCEPT ![x] = Len(m_task_queue[x]) + 1]
    /\ Goto(x, "work")
    /\ UNCHANGED <<schedVars, jobVars, engineVars, running, call, taskVars>>

\* init() and the test of the stop token; then process_work takes the size of
\* the queue.
process_work(x) ==
    /\ pc[x] \in {"born", "loop"}
    /\ x \notin stop_requested
    /\ i' = [i EXCEPT ![x] = Len(m_task_queue[x])]
    /\ Goto(x, "work")
    /\ UNCHANGED <<schedVars, jobVars, engineVars, running, call, taskVars>>

\* The loop ends: deinit() closes the eventfd and drops what is queued.
deinit(x) ==
    /\ pc[x] \in {"born", "loop"}
    /\ x \in stop_requested
    /\ efd' = [efd EXCEPT ![x] = "closed"]
    /\ m_task_queue' = [m_task_queue EXCEPT ![x] = <<>>]
    /\ Goto(x, "exited")
    /\ UNCHANGED <<schedVars, jobVars, m_num_wait_task, threadVars, taskVars>>

\* Mutant of exec_one_task: the handle stays in the queue.
exec_one_task_no_pop(x) ==
    /\ pc[x] = "work"
    /\ i[x] > 0
    /\ m_task_queue[x] # <<>>
    /\ running' = [running EXCEPT ![x] = Head(m_task_queue[x])]
    /\ i' = [i EXCEPT ![x] = @ - 1]
    /\ Goto(x, "op")
    /\ UNCHANGED <<schedVars, jobVars, engineVars, call, taskVars>>

\* exec_one_task; a task that was suspended unregisters in await_resume.
exec_one_task(x) ==
    /\ pc[x] = "work"
    /\ i[x] > 0
    /\ m_task_queue[x] # <<>>
    /\ LET t == Head(m_task_queue[x]) IN
       /\ running' = [running EXCEPT ![x] = t]
       /\ m_num_wait_task' = [m_num_wait_task EXCEPT
                                ![x] = IF t \in suspended THEN @ - 1 ELSE @]
       /\ suspended' = suspended \ {t}
    /\ m_task_queue' = [m_task_queue EXCEPT ![x] = Tail(@)]
    /\ i' = [i EXCEPT ![x] = @ - 1]
    /\ Goto(x, "op")
    /\ UNCHANGED <<schedVars, jobVars, efd, call, ip, home, signalled, done>>

\* Mutant of empty_wait_task: coroutines that wait are forgotten.
empty_wait_task_ignores_waits(x) ==
    /\ pc[x] = "work"
    /\ i[x] = 0
    /\ Goto(x, IF m_task_queue[x] # <<>> THEN "loop" ELSE "stop_cb")
    /\ UNCHANGED <<schedVars, jobVars, engineVars, threadVars, taskVars>>

\* The batch is done: stop_cb when nothing waits and nothing is queued.
empty_wait_task(x) ==
    /\ pc[x] = "work"
    /\ i[x] = 0
    /\ Goto(x, CASE m_num_wait_task[x] # 0   -> "poll"
                 [] m_task_queue[x] # <<>>   -> "loop"
                 [] OTHER                    -> "stop_cb")
    /\ UNCHANGED <<schedVars, jobVars, engineVars, threadVars, taskVars>>

\* poll_submit without IO: blocks in wait_eventfd until the counter is set.
poll_work(x) ==
    /\ pc[x] = "poll"
    /\ efd[x] = "set"
    /\ efd' = [efd EXCEPT ![x] = "zero"]
    /\ Goto(x, "loop")
    /\ UNCHANGED <<schedVars, jobVars, m_num_wait_task, m_task_queue,
                   threadVars, taskVars>>
-----------------------------------------------------------------------------
(* Stopping.                                                               *)

\* m_job->request_stop(), by thread h.  The thread that start() creates may
\* get here before make_unique has returned and m_job has been assigned.
request_stop(x) ==
    /\ stop_requested' = IF x \in m_job THEN stop_requested \cup {x}
                                        ELSE stop_requested
    /\ crashed' = (x \notin m_job)
    /\ UNCHANGED m_job

\* The default stop callback, of a context without a scheduler.
default_stop_cb(x) ==
    /\ pc[x] = "stop_cb" /\ ~Scheduled
    /\ request_stop(x)
    /\ Goto(x, "poll")
    /\ UNCHANGED <<schedVars, engineVars, threadVars, taskVars>>

\* The callback that start_impl installs.
stop_cb_fetch_and(x) ==
    /\ pc[x] = "stop_cb" /\ Scheduled
    /\ call' = [call EXCEPT ![x].cnt = m_ctx_stop_flag[x]]
    /\ m_ctx_stop_flag' = [m_ctx_stop_flag EXCEPT ![x] = 0]
    /\ Goto(x, "fetch_sub")
    /\ UNCHANGED <<m_stop_token, m_cur, jobVars, engineVars, running, i,
                   taskVars>>

\* Mutant of stop_cnt: every round of an idle context counts.
stop_cnt_always(x) == 1

\* What the callback subtracts: whether it has cleared the flag.
stop_cnt(x) == call[x].cnt

stop_cb_fetch_sub(x) ==
    /\ pc[x] = "fetch_sub"
    /\ m_stop_token' = m_stop_token - stop_cnt(x)
    /\ Goto(x, IF m_stop_token = stop_cnt(x) THEN "stop" ELSE "poll")
    /\ UNCHANGED <<m_ctx_stop_flag, m_cur, jobVars, engineVars, threadVars,
                   taskVars>>

\* stop_impl, notify_stop of context i: request_stop, then wake_up.
notify_stop_request(x) ==
    /\ pc[x] = "stop"
    /\ request_stop(i[x])
    /\ Goto(x, "stop_wake")
    /\ UNCHANGED <<schedVars, engineVars, threadVars, taskVars>>

\* Mutant of notify_stop_wake: a stop request without a wake-up.
notify_stop_wake_missing(x) ==
    /\ pc[x] = "stop_wake"
    /\ i' = [i EXCEPT ![x] = (@ + 1) % m_ctx_cnt]
    /\ Goto(x, IF i[x] + 1 = m_ctx_cnt THEN "poll" ELSE "stop")
    /\ UNCHANGED <<schedVars, jobVars, engineVars, running, call, taskVars>>

notify_stop_wake(x) ==
    /\ pc[x] = "stop_wake"
    /\ wake_up(i[x])
    /\ i' = [i EXCEPT ![x] = (@ + 1) % m_ctx_cnt]
    /\ Goto(x, IF i[x] + 1 = m_ctx_cnt THEN "poll" ELSE "stop")
    /\ UNCHANGED <<schedVars, jobVars, m_num_wait_task, m_task_queue, running,
                   call, taskVars>>
-----------------------------------------------------------------------------
(* The main thread, once it has submitted its tasks.                       *)

MainReady == pc[main] = "op" /\ ip[main] > Len(Program[main])

\* start(): the new thread runs before m_job is assigned.
start_thread ==
    /\ MainReady /\ i[main] < m_ctx_cnt
    /\ pc' = [pc EXCEPT ![main] = "assign", ![i[main]] = "born"]
    /\ UNCHANGED <<schedVars, jobVars, engineVars, threadVars, taskVars>>

start_assign ==
    /\ pc[main] = "assign"
    /\ m_job' = m_job \cup {i[main]}
    /\ i' = [i EXCEPT ![main] = @ + 1]
    /\ Goto(main, "op")
    /\ UNCHANGED <<schedVars, stop_requested, crashed, engineVars, running,
                   call, taskVars>>

join ==
    /\ MainReady /\ i[main] = m_ctx_cnt
    /\ \A x \in Context : pc[x] = "exited"
    /\ Goto(main, "joined")
    /\ UNCHANGED <<schedVars, jobVars, engineVars, threadVars, taskVars>>
-----------------------------------------------------------------------------
operation(h) ==
    \/ dispatch(h) \/ submit_fetch_or(h) \/ submit_fetch_add(h)
    \/ submit_to_context(h) \/ signal(h) \/ submit_push(h) \/ submit_wake(h)
    \/ await(h) \/ finish(h)

run(x) ==
    \/ process_work(x) \/ exec_one_task(x) \/ empty_wait_task(x)
    \/ poll_work(x) \/ default_stop_cb(x) \/ stop_cb_fetch_and(x)
    \/ stop_cb_fetch_sub(x) \/ notify_stop_request(x) \/ notify_stop_wake(x)
    \/ deinit(x)

mainThread == start_thread \/ start_assign \/ join

\* A thread takes a step; the process ends when loop() returns or it crashes.
Step(h) ==
    /\ ~crashed
    /\ operation(h) \/ (h = main /\ mainThread) \/ (h \in Context /\ run(h))
    /\ UNCHANGED app

Finished == (crashed \/ pc[main] = "joined") /\ UNCHANGED vars

Next == Finished \/ \E h \in Thread : Step(h)

Spec == Init /\ [][Next]_vars

\* The operating system schedules every thread that can take a step.
FairSpec == Spec /\ \A h \in Thread : WF_vars(Step(h))
-----------------------------------------------------------------------------
(* Properties.                                                             *)

\* m_stop_token is the number of contexts whose stop flag is set, but for the
\* callbacks that have cleared a flag and not yet subtracted it and the calls
\* of submit_task_impl that have set one and not yet added it.
TokenAccounting ==
    m_stop_token =
        Cardinality({x \in Context : m_ctx_stop_flag[x] = 1})
        + Cardinality({x \in Context : pc[x] = "fetch_sub" /\ call[x].cnt = 1})
        - Cardinality({h \in Thread : pc[h] = "fetch_add" /\ call[h].cnt = 0})

\* assert(m_stop_token != 0) in submit_task_impl ("submit task after scheduler
\* loop finish"): a task that submits from a context whose stop flag is set
\* finds the token above zero, although other contexts count down meanwhile.
\* The exception is a call of submit_task_impl that has not added yet and comes
\* from a context without its flag: a task that was pushed after its context
\* had cleared the flag, or straight to the context, makes such calls.
SubmitAssertion ==
    \A h \in Thread :
        /\ pc[h] = "op" /\ ip[running[h]] <= Len(Program[running[h]])
        /\ Program[running[h]][ip[running[h]]].op = "scheduler"
        /\ h = main \/ m_ctx_stop_flag[h] = 1
        /\ \A x \in Context : pc[x] = "fetch_add" /\ call[x].cnt = 0
                                => m_ctx_stop_flag[x] = 1
        => m_stop_token > 0

\* The handles of t that the runtime has: in a queue, running, on their way.
Handles(t) ==
    (UNION {{<<x, n>> : n \in {n \in DOMAIN m_task_queue[x] :
                                m_task_queue[x][n] = t}} : x \in Context})
    \cup {<<h, 0>> : h \in {h \in Thread : running[h] = t}}
    \cup {<<h, -1>> : h \in {h \in Thread : call[h].arg = t
                            /\ pc[h] \in {"fetch_or", "fetch_add", "push"}}}

\* A coroutine is never queued twice, resumed while it runs, or resumed after
\* it has returned, whichever context and thread submitted it.
OneHandlePerTask ==
    \A t \in Task : /\ Cardinality(Handles(t)) <= 1
                    /\ t \in done => Handles(t) = {}

\* A context that sleeps in wait_eventfd with a task in its queue, or after it
\* was asked to stop, is about to be woken: submit_task pushes before it writes
\* the eventfd, notify_stop requests the stop before it does.  (The default
\* callback of a context on its own only requests; StopIsObeyed is about that.)
SleeperIsWoken ==
    \A x \in Context :
        pc[x] = "poll" /\ efd[x] = "zero" =>
            /\ m_task_queue[x] # <<>> =>
                \E h \in Thread : pc[h] = "wake" /\ call[h].to = x
            /\ Scheduled /\ x \in stop_requested =>
                \E y \in Context : pc[y] = "stop_wake" /\ i[y] = x

\* process_work never pops from an empty queue (pop() would spin): only the
\* context's own thread pops, so what was_size() counted is still there.
BatchIsQueued ==
    \A x \in Context :
        pc[x] \in {"work", "op", "fetch_or", "fetch_add", "push", "wake"} =>
            i[x] <= Len(m_task_queue[x])

\* Tasks that were handed to the runtime, by main or by a task.
Submitted == {t \in Task : Handles(t) # {}} \cup suspended \cup done

\* No task submits to the scheduler or to a context other than its own: all
\* else has been submitted before the contexts run.
OwnWorkOnly ==
    \A t \in Task : \A n \in DOMAIN Program[t] :
        LET o == Program[t][n] IN
        o.op # "scheduler" /\ (o.op = "context" => o.ctx = none)

\* If tasks submit to their own context only, the contexts are stopped when
\* every task submitted, the suspended ones and the ones submitted by tasks
\* included, has returned; a context on its own, when its own tasks have.
StopOnlyWhenDone ==
    OwnWorkOnly => \A x \in stop_requested : \A t \in Submitted :
        Scheduled \/ home[t] = x => t \in done

\* loop() returns when the contexts have done all the work they were given
\* (scheduler.hpp line 34; context_scheduler_test.cpp line 289 counts it).
LoopRunsEverything == pc[main] = "joined" => \A t \in Task : t \in done

\* loop(), or start() and join(), returns once the tasks have.
LoopReturns == <>(crashed \/ pc[main] = "joined")

\* A worker thread that was asked to stop does (join(), context.hpp line 56,
\* waits for it).
StopIsObeyed ==
    \A x \in Context : x \in stop_requested ~> (crashed \/ pc[x] = "exited")
=============================================================================
