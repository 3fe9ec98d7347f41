------------------------------- MODULE Engine -------------------------------
(***************************************************************************)
(* The engine of one context: its bounded task queue with the inline       *)
(* execution of submit_task, its io_uring and the awaiters that use it,    *)
(* the counter behind its eventfd, and the coroutine frames that all of    *)
(* them refer to, with what they return or throw (engine.cpp,              *)
(* uring_proxy.hpp, io_awaiter.cpp, task.hpp, container.hpp).              *)
(*                                                                         *)
(* A coroutine is a script of                                              *)
(*    submit u     submit_to_context(u), u detached                        *)
(*    co_await u   co_await u(), a temporary task that u's caller owns     *)
(*    io k         co_await an io awaiter of kind k                        *)
(*    await        suspend on a synchronisation object, unless signalled   *)
(*    throw        end with an exception                                   *)
(* and the thread outside, which runs no context, one of                   *)
(*    submit u, start (the worker thread), signal u.                       *)
(* Init chooses from Apps the scripts, the capacities of the queue and of  *)
(* the ring, and the type of what each coroutine returns.                  *)
(*                                                                         *)
(* The ring, its kernel side and the eventfd are external: io_uring_submit *)
(* takes some of what was prepared, requests complete in any order, one    *)
(* signal may stand for several completions, and m_urc has room for them.  *)
(***************************************************************************)
EXTENDS Integers, Sequences, FiniteSetsExt, SequencesExt

CONSTANTS Task, worker, outside, none,
          Apps,                 \* set of [script, type, kQueCap, kEntryLength]
          kMaxRecursiveDepth,
          task_flag,            \* what a wake-up adds to the eventfd, 2^44
          CqeSpan,              \* cqe_mask + 1, 2^24
          EfdMax                \* largest value of an eventfd, 2^64 - 2

Thread == {worker, outside}
Kind == {"read", "connect", "timer"}
Op == [op : {"submit", "co_await", "signal"}, arg : Task]
        \cup [op : {"io"}, kind : Kind] \cup [op : {"await", "start", "throw"}]
ResultType == {"void", "object", "pod"}

ASSUME EngineAssumption ==
    /\ worker # outside /\ none \notin Task /\ Thread \cap Task = {}
    /\ kMaxRecursiveDepth \in Nat
    /\ CqeSpan \in Nat \ {0} /\ task_flag % CqeSpan = 0 /\ task_flag <= EfdMax
    /\ \A p \in Apps : /\ p.script \in [Task \cup {outside} -> Seq(Op)]
                       /\ p.type \in [Task -> ResultType]
                       /\ {p.kQueCap, p.kEntryLength} \subseteq Nat \ {0}

VARIABLES
    app,
    m_task_queue, m_num_wait_task, m_max_recursive_depth,
    efd,             \* value of the eventfd's counter
    sq,              \* requests prepared and not submitted
    kernel,          \* requests the kernel works on
    cq,              \* completions not yet marked as seen
    owed,            \* the kernel has posted and not yet signalled
    m_num_io_wait_submit, m_num_io_running,
    pc, call,        \* of each thread; the handle it submits
    stack,           \* the worker's calls of exec_task
    loop, i, num,    \* the worker's loop: "work" or "cqe", its index, its end
    stop_requested,
    ip,              \* next operation of each coroutine, and of outside
    frame,           \* "none", "alive", "final" (returned) or "freed"
    m_continuation, waiting, signalled, m_result,
    outcome,         \* what the promise holds: "unset", "value", "exception"
    discarded,       \* handles that submit_task dropped
    terminated       \* std::terminate, or a crash

queueVars == <<m_task_queue, m_num_wait_task, m_max_recursive_depth>>
ringVars == <<sq, kernel, cq, owed>>
countVars == <<m_num_io_wait_submit, m_num_io_running>>
loopVars == <<loop, i, num, stop_requested>>
frameVars == <<frame, m_continuation, waiting, signalled, m_result, outcome>>
endVars == <<discarded, terminated>>
vars == <<app, queueVars, efd, ringVars, countVars, pc, call, stack, loopVars,
          ip, frameVars, endVars>>

\* The eventfd and the ring, before any request.
RingInit ==
    /\ efd = 0
    /\ sq = <<>> /\ kernel = {} /\ cq = <<>> /\ owed = FALSE

\* The construction of a context, and its init when the worker starts.
Init ==
    /\ RingInit
    /\ app \in Apps
    /\ m_task_queue = <<>> /\ m_num_wait_task = 0 /\ m_max_recursive_depth = 0
    /\ m_num_io_wait_submit = 0 /\ m_num_io_running = 0
    /\ pc = [h \in Thread |-> IF h = outside THEN "op" ELSE "unborn"]
    /\ call = [h \in Thread |-> none]
    /\ stack = <<>>
    /\ loop = "work" /\ i = 0 /\ num = 0 /\ stop_requested = FALSE
    /\ ip = [t \in Task \cup {outside} |-> 1]
    /\ frame = [t \in Task |-> "none"]
    /\ m_continuation = [t \in Task |-> none]
    /\ waiting = [t \in Task |-> "no"]
    /\ signalled = {}
    /\ m_result = [t \in Task |-> "none"]
    /\ outcome = [t \in Task |-> "unset"]
    /\ discarded = {} /\ terminated = FALSE

Goto(h, label) == pc' = [pc EXCEPT ![h] = label]

\* The coroutine that the worker runs, innermost call of exec_task.
Running == Last(stack).task

\* Where the worker goes on when a call into the engine returns and its calls
\* of exec_task are s.
Back(s) == IF s = <<>> THEN loop ELSE "op"

\* Script p (a coroutine that runs, or outside) performs an operation o.
Script(h) == IF h = worker THEN Running ELSE outside
HasOp(h) == pc[h] = "op" /\ ip[Script(h)] <= Len(app.script[Script(h)])
Now(h) == app.script[Script(h)][ip[Script(h)]]
Performs(h, o) ==
    /\ HasOp(h)
    /\ Now(h).op = o
    /\ ip' = [ip EXCEPT ![Script(h)] = @ + 1]
-----------------------------------------------------------------------------
(* exec_task and the end of a resumption.                                  *)

\* exec_task(t), t resumed; await_resume of a synchronisation object
\* unregisters.  inline: called from submit_task.
exec_task(t, inline) ==
    /\ stack' = Append(stack, [handle |-> t, task |-> t, inline |-> inline])
    /\ m_num_wait_task' = IF waiting[t] = "sync" THEN m_num_wait_task - 1
                                                 ELSE m_num_wait_task
    /\ waiting' = [waiting EXCEPT ![t] = "no"]
    /\ Goto(worker, "op")

\* Mutant of Returns: a coroutine that has returned is not destroyed.
Returns_no_clean(f) ==
    /\ stack' = Front(stack)
    /\ m_max_recursive_depth' = IF Last(stack).inline
                                THEN m_max_recursive_depth - 1
                                ELSE m_max_recursive_depth
    /\ frame' = f
    /\ Goto(worker, Back(Front(stack)))

\* handle.resume() returns to exec_task, with the frames as in f: a handle that
\* is done and detached is destroyed.  The frame of the handle may be gone when
\* done() reads it (its caller went on and finished the co_await expression);
\* what is read then belongs to a task that was not detached, or to nobody, and
\* nothing is destroyed.
Returns(f) ==
    LET top == Last(stack) IN
    /\ stack' = Front(stack)
    /\ m_max_recursive_depth' = IF top.inline THEN m_max_recursive_depth - 1
                                              ELSE m_max_recursive_depth
    /\ frame' = IF f[top.handle] = "final"
                THEN [f EXCEPT ![top.handle] = "freed"] ELSE f
    /\ Goto(worker, Back(Front(stack)))

\* The coroutine that runs is at its end; its promise holds a value, unless it
\* holds an exception already.
Ends == pc[worker] = "op" /\ ~HasOp(worker)
return_value(t) ==
    [outcome EXCEPT ![t] = IF @ = "unset" THEN "value" ELSE @]

\* Mutant of rethrows: promise<void> has no result that rethrows.
rethrows_unless_void(t) ==
    outcome[t] = "exception" /\ app.type[t] # "void"

\* result() of the promise of t, read by the one that awaits t.
rethrows(t) == outcome[t] = "exception"

\* The destructor of a temporary task, at the end of the co_await expression.
destroyed(t) == [frame EXCEPT ![t] = "freed"]

\* final_suspend transfers to the coroutine that awaits this one: it reads the
\* result and destroys the temporary task.
return_to_continuation ==
    LET t == Running IN
    /\ Ends /\ m_continuation[t] # none
    /\ ~rethrows(t)
    /\ outcome' = return_value(t)
    /\ frame' = destroyed(t)
    /\ stack' = [stack EXCEPT ![Len(stack)].task = m_continuation[t]]
    /\ UNCHANGED <<queueVars, efd, ringVars, countVars, pc, call, loopVars, ip,
                   m_continuation, waiting, signalled, m_result, endVars>>

\* The promise of t takes the exception.  A container of a pod_type assigns it
\* over an exception_ptr that was never constructed, which may crash.
set_exception(t) ==
    /\ outcome' = [outcome EXCEPT ![t] = "exception"]
    /\ terminated' \in {FALSE, app.type[t] = "pod"}

\* An exception leaves coroutine t, wherever it was.
unhandled_exception(t) ==
    /\ ip' = [ip EXCEPT ![t] = Len(app.script[t]) + 1]
    /\ set_exception(t)

\* result() rethrows, and the exception leaves the awaiting coroutine as well.
rethrow_to_continuation ==
    LET t == Running IN
    /\ Ends /\ m_continuation[t] # none
    /\ rethrows(t) /\ app.type[t] # "pod"
    /\ unhandled_exception(m_continuation[t])
    /\ frame' = destroyed(t)
    /\ stack' = [stack EXCEPT ![Len(stack)].task = m_continuation[t]]
    /\ UNCHANGED <<queueVars, efd, ringVars, countVars, pc, call, loopVars,
                   m_continuation, waiting, signalled, m_result, discarded>>

\* result() of a container of a pod_type is noexcept.
rethrow_noexcept ==
    /\ Ends /\ m_continuation[Running] # none
    /\ rethrows(Running) /\ app.type[Running] = "pod"
    /\ terminated' = TRUE
    /\ UNCHANGED <<queueVars, efd, ringVars, countVars, pc, call, stack,
                   loopVars, ip, frameVars, discarded>>

\* The coroutine returns and nobody awaits it; nobody reads an exception.
return_void ==
    /\ Ends /\ m_continuation[Running] = none
    /\ outcome' = return_value(Running)
    /\ Returns([frame EXCEPT ![Running] = "final"])
    /\ UNCHANGED <<m_task_queue, m_num_wait_task, efd, ringVars, countVars,
                   call, loopVars, ip, m_continuation, waiting, signalled,
                   m_result, endVars>>
-----------------------------------------------------------------------------
(* The operations of coroutines, and of outside.                           *)

\* A coroutine is called: its frame is made, and it is suspended at once.
get_return_object(t) == [frame EXCEPT ![t] = "alive"]

\* context::submit_task(task&&): the task is detached.
submit(h) ==
    /\ Performs(h, "submit")
    /\ frame' = get_return_object(Now(h).arg)
    /\ call' = [call EXCEPT ![h] = Now(h).arg]
    /\ Goto(h, "push")
    /\ UNCHANGED <<queueVars, efd, ringVars, countVars, stack, loopVars,
                   m_continuation, waiting, signalled, m_result, outcome, endVars>>

throw(h) ==
    /\ HasOp(h) /\ Now(h).op = "throw"
    /\ unhandled_exception(Running)
    /\ UNCHANGED <<queueVars, efd, ringVars, countVars, pc, call, stack,
                   loopVars, frame, m_continuation, waiting, signalled,
                   m_result, discarded>>

\* awaitable_base::await_suspend: symmetric transfer to the new coroutine.
co_await(h) ==
    /\ Performs(h, "co_await")
    /\ LET u == Now(h).arg IN
       /\ frame' = get_return_object(u)
       /\ m_continuation' = [m_continuation EXCEPT ![u] = Running]
       /\ stack' = [stack EXCEPT ![Len(stack)].task = u]
    /\ UNCHANGED <<queueVars, efd, ringVars, countVars, pc, call, loopVars,
                   waiting, signalled, m_result, outcome, endVars>>

\* A synchronisation object: register_wait and suspend, unless signalled.
await(h) ==
    /\ Performs(h, "await")
    /\ LET t == Running IN
       IF t \in signalled
       THEN UNCHANGED <<m_num_wait_task, m_max_recursive_depth, pc, stack,
                        frame, waiting>>
       ELSE /\ m_num_wait_task' = m_num_wait_task + 1
            /\ waiting' = [waiting EXCEPT ![t] = "sync"]
            /\ Returns(frame)
    /\ UNCHANGED <<m_task_queue, efd, ringVars, countVars, call, loopVars,
                   m_continuation, signalled, m_result, outcome, endVars>>

signal(h) ==
    /\ Performs(h, "signal")
    /\ LET u == Now(h).arg IN
       /\ signalled' = signalled \cup {u}
       /\ IF waiting[u] = "sync"
          THEN call' = [call EXCEPT ![h] = u] /\ Goto(h, "push")
          ELSE UNCHANGED <<call, pc>>
    /\ UNCHANGED <<queueVars, efd, ringVars, countVars, stack, loopVars, frame,
                   m_continuation, waiting, m_result, outcome, endVars>>

start(h) ==
    /\ Performs(h, "start")
    /\ Goto(worker, "loop")
    /\ UNCHANGED <<queueVars, efd, ringVars, countVars, call, stack, loopVars,
                   frameVars, endVars>>
-----------------------------------------------------------------------------
(* engine::submit_task(call[h]), by thread h.                              *)

Full == Len(m_task_queue) >= app.kQueCap
Resumes(h) == IF h = worker THEN Back(stack) ELSE "op"

submit_push(h) ==
    /\ pc[h] = "push" /\ ~Full
    /\ m_task_queue' = Append(m_task_queue, call[h])
    /\ call' = [call EXCEPT ![h] = none]
    /\ Goto(h, "wake")
    /\ UNCHANGED <<m_num_wait_task, m_max_recursive_depth, efd, ringVars,
                   countVars, stack, loopVars, ip, frameVars, endVars>>

\* Mutant of submit_inline: no limit on the recursion.
submit_inline_unlimited(h) ==
    /\ pc[h] = "push" /\ Full /\ h = worker
    /\ m_max_recursive_depth' = m_max_recursive_depth + 1
    /\ exec_task(call[h], TRUE)
    /\ call' = [call EXCEPT ![h] = none]
    /\ UNCHANGED <<m_task_queue, efd, ringVars, countVars, loopVars, ip, frame,
                   m_continuation, signalled, m_result, outcome, endVars>>

\* The queue is full and the thread runs a context: the task is run here.
submit_inline(h) ==
    /\ pc[h] = "push" /\ Full /\ h = worker
    /\ m_max_recursive_depth < kMaxRecursiveDepth
    /\ m_max_recursive_depth' = m_max_recursive_depth + 1
    /\ exec_task(call[h], TRUE)
    /\ call' = [call EXCEPT ![h] = none]
    /\ UNCHANGED <<m_task_queue, efd, ringVars, countVars, loopVars, ip, frame,
                   m_continuation, signalled, m_result, outcome, endVars>>

\* The recursion is too deep, or the thread runs no context: an error is
\* logged.
submit_discard(h) ==
    /\ pc[h] = "push" /\ Full
    /\ h = worker => m_max_recursive_depth >= kMaxRecursiveDepth
    /\ discarded' = discarded \cup {call[h]}
    /\ call' = [call EXCEPT ![h] = none]
    /\ Goto(h, Resumes(h))
    /\ UNCHANGED <<queueVars, efd, ringVars, countVars, stack, loopVars, ip,
                   frameVars, terminated>>

\* write_eventfd blocks while the counter would exceed its largest value.
CanWake == efd + task_flag <= EfdMax
wake_up == CanWake /\ efd' = efd + task_flag

\* The eventfd of an engine that has gone is no longer there to be written.
submit_wake(h) ==
    /\ pc[h] = "wake"
    /\ IF pc[worker] = "exited" THEN UNCHANGED efd ELSE wake_up
    /\ Goto(h, Resumes(h))
    /\ UNCHANGED <<queueVars, ringVars, countVars, call, stack, loopVars, ip,
                   frameVars, endVars>>
-----------------------------------------------------------------------------
(* IO.                                                                     *)

\* io_uring_submit: the kernel takes requests from the front of the ring, and
\* stops at one it cannot start; how many it took is not looked at.
uring_submit ==
    \E n \in Min({1, Len(sq)})..Len(sq) :
        /\ kernel' = kernel \cup ToSet(SubSeq(sq, 1, n))
        /\ sq' = SubSeq(sq, n + 1, Len(sq))

\* base_io_awaiter finds the ring full and submits, until it has room.
base_io_awaiter_submit ==
    /\ HasOp(worker) /\ Now(worker).op = "io"
    /\ Len(sq) = app.kEntryLength
    /\ uring_submit
    /\ UNCHANGED <<queueVars, efd, cq, owed, countVars, pc, call, stack,
                   loopVars, ip, frameVars, endVars>>

\* The constructor of an io awaiter prepares a request that points to the
\* io_info in the coroutine's frame, and the coroutine suspends.
io_awaiter(h) ==
    /\ Performs(h, "io")
    /\ Len(sq) < app.kEntryLength
    /\ LET t == Running IN
       /\ sq' = Append(sq, t)
       /\ waiting' = [waiting EXCEPT ![t] = "io"]
       /\ m_result' = [m_result EXCEPT ![t] = "none"]
    /\ m_num_io_wait_submit' = m_num_io_wait_submit + 1
    /\ Returns(frame)
    /\ UNCHANGED <<m_task_queue, m_num_wait_task, efd, kernel, cq, owed,
                   m_num_io_running, call, loopVars, m_continuation, signalled,
                   outcome, endVars>>

\* The kind of the awaiter that coroutine t is suspended in.
KindOf(t) == app.script[t][ip[t] - 1].kind

\* What the kernel may answer; a timeout ends with -ETIME, or with 0 when it
\* has counted another completion; m_ts, which nothing initialises before the
\* add_ functions add to it, may be a time the kernel refuses.
Answers(k) == CASE k = "connect" -> {"zero", "error"}
                [] k = "timer" -> {"etime", "zero", "error"}
                [] OTHER -> {"value", "error"}

\* The callbacks: connect returns its socket, an expired timer is a success.
connect_callback(res) == IF res = "zero" THEN "socket" ELSE res
timer_callback(res) == IF res = "etime" THEN "zero" ELSE res
callback(k, res) == CASE k = "connect" -> connect_callback(res)
                      [] k = "timer"   -> timer_callback(res)
                      [] OTHER         -> res

\* The kernel completes a request and posts it, and signals the eventfd later.
uring_complete ==
    /\ \E t \in kernel : \E res \in Answers(KindOf(t)) :
        /\ kernel' = kernel \ {t}
        /\ cq' = Append(cq, [task |-> t, res |-> res])
    /\ owed' = TRUE
    /\ UNCHANGED <<queueVars, efd, sq, countVars, pc, call, stack, loopVars, ip,
                   frameVars, endVars>>

uring_signal ==
    /\ owed
    /\ owed' = FALSE
    /\ efd' = Min({efd + 1, EfdMax})
    /\ UNCHANGED <<queueVars, sq, kernel, cq, countVars, pc, call, stack,
                   loopVars, ip, frameVars, endVars>>
-----------------------------------------------------------------------------
(* The worker thread: context::run, process_work and poll_submit.          *)

run_stops ==
    /\ pc[worker] = "loop" /\ stop_requested
    /\ Goto(worker, "exited")
    /\ UNCHANGED <<queueVars, efd, ringVars, countVars, call, stack, loopVars,
                   ip, frameVars, endVars>>

process_work ==
    /\ pc[worker] = "loop" /\ ~stop_requested
    /\ loop' = "work" /\ i' = 0 /\ num' = Len(m_task_queue)
    /\ Goto(worker, "work")
    /\ UNCHANGED <<queueVars, efd, ringVars, countVars, call, stack,
                   stop_requested, ip, frameVars, endVars>>

exec_one_task ==
    /\ pc[worker] = "work" /\ i < num
    /\ m_task_queue # <<>>
    /\ i' = i + 1
    /\ m_task_queue' = Tail(m_task_queue)
    /\ exec_task(Head(m_task_queue), FALSE)
    /\ UNCHANGED <<m_max_recursive_depth, efd, ringVars, countVars, call, loop,
                   num, stop_requested, ip, frame, m_continuation, signalled,
                   m_result, outcome, endVars>>

\* Mutant of empty_io: requests that are not submitted yet are forgotten.
empty_io_submitted == m_num_io_running = 0

empty_io == m_num_io_wait_submit = 0 /\ m_num_io_running = 0

\* The end of a round: nothing to wait for and nothing queued is the end; with
\* something queued the eventfd is not read.
empty_wait_task ==
    /\ pc[worker] = "work" /\ i = num
    /\ Goto(worker, CASE m_num_wait_task # 0 \/ ~empty_io -> "poll"
                      [] m_task_queue # <<>>              -> "loop"
                      [] OTHER                            -> "stop_cb")
    /\ UNCHANGED <<queueVars, efd, ringVars, countVars, call, stack, loopVars,
                   ip, frameVars, endVars>>

\* The stop callback of the only context of a scheduler: notify_stop.
stop_cb ==
    /\ pc[worker] = "stop_cb"
    /\ stop_requested' = TRUE
    /\ wake_up
    /\ Goto(worker, "poll")
    /\ UNCHANGED <<queueVars, ringVars, countVars, call, stack, loop, i, num,
                   ip, frameVars, endVars>>

\* Mutant of do_io_submit: the requests that run already are forgotten.
do_io_submit_assigns ==
    /\ pc[worker] = "poll"
    /\ IF m_num_io_wait_submit > 0
       THEN /\ uring_submit
            /\ m_num_io_running' = m_num_io_wait_submit
            /\ m_num_io_wait_submit' = 0
       ELSE UNCHANGED <<sq, kernel, countVars>>
    /\ Goto(worker, "wait")
    /\ UNCHANGED <<queueVars, efd, cq, owed, call, stack, loopVars, ip,
                   frameVars, endVars>>

do_io_submit ==
    /\ pc[worker] = "poll"
    /\ IF m_num_io_wait_submit > 0
       THEN /\ uring_submit
            /\ m_num_io_running' = m_num_io_running + m_num_io_wait_submit
            /\ m_num_io_wait_submit' = 0
       ELSE UNCHANGED <<sq, kernel, countVars>>
    /\ Goto(worker, "wait")
    /\ UNCHANGED <<queueVars, efd, cq, owed, call, stack, loopVars, ip,
                   frameVars, endVars>>

\* Mutant of wake_by_cqe: a wake-up by a task hides the completions.
wake_by_cqe_only(cnt) == cnt < CqeSpan

wake_by_cqe(cnt) == cnt % CqeSpan > 0

wait_eventfd ==
    /\ pc[worker] = "wait" /\ efd > 0
    /\ efd' = 0
    /\ Goto(worker, IF wake_by_cqe(efd) THEN "peek" ELSE "loop")
    /\ UNCHANGED <<queueVars, ringVars, countVars, call, stack, loopVars, ip,
                   frameVars, endVars>>

peek_batch_cqe ==
    /\ pc[worker] = "peek"
    /\ loop' = "cqe" /\ i' = 0 /\ num' = Min({Len(cq), m_num_io_running})
    /\ Goto(worker, IF num' = 0 THEN "loop" ELSE "cqe")
    /\ UNCHANGED <<queueVars, efd, ringVars, countVars, call, stack,
                   stop_requested, ip, frameVars, endVars>>

\* Mutant of handle_cqe_entry: always the first completion of the batch.
handle_cqe_entry_first ==
    /\ pc[worker] = "cqe" /\ i < num
    /\ i' = i + 1
    /\ LET t == cq[1].task IN
       /\ m_result' = [m_result EXCEPT ![t] = callback(KindOf(t), cq[1].res)]
       /\ call' = [call EXCEPT ![worker] = t]
    /\ Goto(worker, "push")
    /\ UNCHANGED <<queueVars, efd, ringVars, countVars, stack, loop, num,
                   stop_requested, ip, frame, m_continuation, waiting,
                   signalled, outcome, endVars>>

\* The callback stores the result and submits the coroutine.
handle_cqe_entry ==
    /\ pc[worker] = "cqe" /\ i < num
    /\ i' = i + 1
    /\ LET t == cq[i + 1].task IN
       /\ m_result' = [m_result EXCEPT ![t] = callback(KindOf(t), cq[i + 1].res)]
       /\ call' = [call EXCEPT ![worker] = t]
    /\ Goto(worker, "push")
    /\ UNCHANGED <<queueVars, efd, ringVars, countVars, stack, loop, num,
                   stop_requested, ip, frame, m_continuation, waiting,
                   signalled, outcome, endVars>>

cq_advance ==
    /\ pc[worker] = "cqe" /\ i = num
    /\ cq' = SubSeq(cq, num + 1, Len(cq))
    /\ m_num_io_running' = m_num_io_running - num
    /\ i' = 0 /\ num' = 0
    /\ Goto(worker, "loop")
    /\ UNCHANGED <<queueVars, efd, sq, kernel, owed, m_num_io_wait_submit, call,
                   stack, loop, stop_requested, ip, frameVars, endVars>>
-----------------------------------------------------------------------------
submit_task(h) ==
    submit_push(h) \/ submit_inline(h) \/ submit_discard(h) \/ submit_wake(h)

\* Coroutines run on the worker only; start and signal are outside's.
workerStep ==
    /\ ~terminated
    /\ \/ submit(worker) \/ throw(worker) \/ co_await(worker) \/ await(worker)
       \/ base_io_awaiter_submit \/ io_awaiter(worker) \/ submit_task(worker)
       \/ return_to_continuation \/ rethrow_to_continuation
       \/ rethrow_noexcept \/ return_void
       \/ run_stops \/ process_work \/ exec_one_task \/ empty_wait_task
       \/ stop_cb \/ do_io_submit \/ wait_eventfd \/ peek_batch_cqe
       \/ handle_cqe_entry \/ cq_advance
    /\ UNCHANGED app

outsideStep ==
    /\ ~terminated
    /\ submit(outside) \/ start(outside) \/ signal(outside)
       \/ submit_task(outside)
    /\ UNCHANGED app

kernelStep ==
    /\ ~terminated
    /\ uring_complete \/ uring_signal
    /\ UNCHANGED app

\* The worker is blocked by its own eventfd.
Saturated == pc[worker] \in {"wake", "stop_cb"} /\ ~CanWake

\* The worker sleeps on requests that io_uring_submit left in the ring, and
\* counts them among those that run.
Stranded == pc[worker] = "wait" /\ efd = 0 /\ sq # <<>>

\* Nothing is left to do: the program has died, the worker is blocked by its
\* eventfd, or all is quiet and it has gone or waits for a coroutine that was
\* discarded, or for requests left in the ring.
Finished ==
    /\ \/ terminated \/ Saturated
       \/ /\ pc[outside] = "op" /\ ~HasOp(outside) /\ kernel = {} /\ ~owed
          /\ \/ pc[worker] = "exited"
             \/ Stranded
             \/ pc[worker] = "wait" /\ efd = 0 /\ discarded # {}
    /\ UNCHANGED vars

Next == workerStep \/ outsideStep \/ kernelStep \/ Finished

\* Threads are scheduled, and the kernel completes every request.
Spec ==
    /\ Init /\ [][Next]_vars
    /\ WF_vars(workerStep) /\ WF_vars(outsideStep) /\ WF_vars(kernelStep)
-----------------------------------------------------------------------------
(* Properties.                                                             *)

\* Types; the queue, the ring, the recursion of submit_task and the eventfd stay
\* within their limits.
EngineTypeOK ==
    /\ app \in Apps
    /\ m_task_queue \in Seq(Task) /\ Len(m_task_queue) <= app.kQueCap
    /\ m_num_wait_task \in Nat
    /\ m_max_recursive_depth \in 0..kMaxRecursiveDepth
    /\ efd \in 0..EfdMax
    /\ sq \in Seq(Task) /\ Len(sq) <= app.kEntryLength
    /\ kernel \subseteq Task /\ owed \in BOOLEAN
    /\ cq \in Seq([task : Task, res : {"zero", "value", "etime", "error"}])
    /\ m_num_io_wait_submit \in Nat /\ m_num_io_running \in Nat
    /\ pc[outside] \in {"op", "push", "wake"}
    /\ pc[worker] \in {"unborn", "loop", "work", "op", "push", "wake", "stop_cb",
                       "poll", "wait", "peek", "cqe", "exited"}
    /\ call \in [Thread -> Task \cup {none}]
    /\ stack \in Seq([handle : Task, task : Task, inline : BOOLEAN])
    /\ loop \in {"work", "cqe"} /\ i \in 0..num /\ num \in Nat
    /\ stop_requested \in BOOLEAN
    /\ ip \in [Task \cup {outside} -> Nat]
    /\ frame \in [Task -> {"none", "alive", "final", "freed"}]
    /\ m_continuation \in [Task -> Task \cup {none}]
    /\ waiting \in [Task -> {"no", "io", "sync"}]
    /\ signalled \subseteq Task /\ discarded \subseteq Task
    /\ m_result \in [Task -> {"none", "zero", "value", "socket", "error"}]
    /\ outcome \in [Task -> {"unset", "value", "exception"}]
    /\ terminated \in BOOLEAN

\* The two counters of the engine add up to the requests that are prepared, in
\* the kernel or completed and not marked as seen, even while a full ring is
\* submitted early and while callbacks run coroutines that start new requests.
\* Once they are all submitted m_num_io_running alone does, so that
\* peek_batch_cqe, which takes no more than that, leaves no completion behind.
IoAccounting ==
    LET requests == Len(sq) + Cardinality(kernel) + Len(cq) IN
    /\ m_num_io_wait_submit + m_num_io_running = requests
    /\ pc[worker] \in {"wait", "peek"} => m_num_io_running = requests

\* Completions whose callback has not been called yet.
Unhandled == {n \in DOMAIN cq : loop = "cqe" => n > i}

\* Where the runtime holds a handle of t.
Handles(t) ==
    {<<"sq", n>> : n \in {n \in DOMAIN sq : sq[n] = t}}
    \cup {<<"kernel", 0>> : u \in kernel \cap {t}}
    \cup {<<"cq", n>> : n \in {n \in Unhandled : cq[n].task = t}}
    \cup {<<"call", h>> : h \in {h \in Thread : call[h] = t}}
    \cup {<<"queue", n>> : n \in {n \in DOMAIN m_task_queue :
                                    m_task_queue[n] = t}}
    \cup {<<"stack", n>> : n \in {n \in DOMAIN stack : stack[n].task = t}}
    \cup {<<"discarded", 0>> : u \in discarded \cap {t}}

\* A coroutine that waits for IO is in exactly one place on the way from the
\* ring through the kernel and the callback to the queue, and it is resumed
\* with a result of its own operation, neither twice nor before; no coroutine
\* is ever in two places.
IoResumesOnce ==
    \A t \in Task :
        /\ Cardinality(Handles(t)) <= 1
        /\ waiting[t] = "io" => Handles(t) # {}
        /\ <<"stack", Len(stack)>> \in Handles(t) /\ ip[t] > 1
             /\ outcome[t] # "exception" =>
             LET o == app.script[t][ip[t] - 1] IN
             o.op = "io" => m_result[t] \in {callback(o.kind, r) :
                                              r \in Answers(o.kind)}

\* Whatever the ring, the kernel, the queue, a caller or an awaited coroutine
\* refers to is alive: exec_task destroys no frame too early.  And it forgets
\* none, except those of coroutines that have awaited another: resumed through
\* the handle of the latter, they return without anyone testing their own.
FramesOutliveHandles ==
    \A t \in Task :
        /\ Handles(t) # {} => frame[t] = "alive"
        /\ frame[t] = "alive" /\ m_continuation[t] # none =>
             frame[m_continuation[t]] = "alive"
        /\ frame[t] = "final" =>
             \E n \in DOMAIN app.script[t] : app.script[t][n].op = "co_await"

\* A worker that sleeps in wait_eventfd is about to be woken if a task is queued
\* or a completion is posted: no wake-up is lost when task wake-ups and
\* completions share one counter.
EngineSleeperIsWoken ==
    pc[worker] = "wait" /\ efd = 0 =>
        /\ m_task_queue # <<>> => pc[outside] = "wake"
        /\ cq # <<>> => owed

\* An exception goes up through every coroutine that awaits, whatever they
\* return and wherever they were resumed, and none goes on past the co_await
\* that failed; only a coroutine that returns a pod_type ends the program.
ExceptionsReachCallers ==
    /\ \A t \in Task :
        frame[t] = "freed" /\ outcome[t] = "exception"
          /\ m_continuation[t] # none => outcome[m_continuation[t]] = "exception"
    /\ terminated =>
        \E t \in Task : outcome[t] = "exception" /\ app.type[t] = "pod"

\* Coroutines that wait for one that was discarded, and that one.
Lost == {t \in Task : \E u \in discarded :
            \/ u = t
            \/ frame[u] = "alive" /\ m_continuation[u] = t}

\* Every coroutine returns and the worker thread ends, unless the program has
\* died, submit_task has discarded a handle, io_uring_submit has left requests
\* that no later one takes, or the worker is blocked by the eventfd that it
\* alone reads: rounds that end with a task queued do not read it.
TasksEnd ==
    \/ <>(\/ Saturated \/ terminated
          \/ /\ \A t \in Task \ Lost : frame[t] # "alive"
             /\ pc[worker] = "exited" \/ discarded # {})
    \/ <>[]Stranded
=============================================================================
