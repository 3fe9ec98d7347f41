----------------------------- MODULE MCRuntime -----------------------------
(* Scripts for the tasks.                                                  *)
EXTENDS Runtime, TLC
CONSTANTS a, b, c, d, e

Scheduler(u) == [op |-> "scheduler", arg |-> u]
OnContext(u, x) == [op |-> "context", arg |-> u, ctx |-> x]
Signal(u) == [op |-> "signal", arg |-> u]
Await == [op |-> "await"]

MCTask == {a, b, c}
MCTasks == {a, b, c, d, e}

\* Everything is submitted before loop(), but for one task that b submits to its
\* own context.  The rest is a chain of wake-ups across the contexts.
PreSubmitted ==
    a :> <<Await>>
    @@ b :> <<OnContext(c, none), Await, Signal(a)>>
    @@ c :> <<Signal(d)>>
    @@ d :> <<Await, Signal(b)>>
    @@ e :> <<>>
    @@ main :> <<Scheduler(a), Scheduler(b), Scheduler(d)>>

\* A task submits two more to the scheduler while it runs.
Derived ==
    a :> <<Scheduler(b), Scheduler(c)>>
    @@ b :> <<>>
    @@ c :> <<>>
    @@ main :> <<Scheduler(a)>>

\* Contexts without a scheduler, whose tasks submit to their own context.
Standalone ==
    a :> <<OnContext(c, none)>>
    @@ b :> <<>>
    @@ c :> <<>>
    @@ d :> <<>>
    @@ e :> <<>>
    @@ main :> <<OnContext(a, 0), OnContext(b, 1), OnContext(d, 2)>>

\* Two of them, where a, on one context, waits for b, on the other.
StandaloneAwait ==
    a :> <<Await>>
    @@ b :> <<OnContext(c, none), Signal(a)>>
    @@ c :> <<>>
    @@ main :> <<OnContext(a, 0), OnContext(b, 1)>>

WithScheduler(p) == [script |-> p, scheduled |-> TRUE]
OnTheirOwn(p) == [script |-> p, scheduled |-> FALSE]

\* Derived, where the task that a task has submitted submits another.
Chained == b :> <<Scheduler(d)>> @@ d :> <<>> @@ e :> <<>> @@ Derived

\* Tasks that are given straight to contexts that may have cleared their flags,
\* and submit to the scheduler.
Uncounted ==
    a :> <<OnContext(b, 1)>>
    @@ b :> <<OnContext(d, 2), Scheduler(c)>>
    @@ c :> <<>>
    @@ d :> <<Scheduler(e)>>
    @@ e :> <<>>
    @@ main :> <<Scheduler(a)>>

MCApps == {WithScheduler(PreSubmitted), WithScheduler(Chained), WithScheduler(Uncounted),
           OnTheirOwn(Standalone)}
DerivedApp == {WithScheduler(Derived)}
StandaloneApp == {OnTheirOwn(StandaloneAwait)}
=============================================================================
