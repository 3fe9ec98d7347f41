------------------------------ MODULE MCEngine ------------------------------
(* Scripts for the coroutines of one engine.                               *)
EXTENDS Engine, TLC
CONSTANTS a, b, c, d

MCTask == {a, b, c, d}

Submit(u) == [op |-> "submit", arg |-> u]
CoAwait(u) == [op |-> "co_await", arg |-> u]
Signal(u) == [op |-> "signal", arg |-> u]
Io(k) == [op |-> "io", kind |-> k]
Await == [op |-> "await"]
Start == [op |-> "start"]
Throw == [op |-> "throw"]

\* Requests of every kind, more than the ring holds, from coroutines that are
\* nested, and a signal from outside.
Requests ==
    a :> <<Submit(b), Io("read"), Io("timer")>>
    @@ b :> <<Submit(c), CoAwait(d), Io("read")>>
    @@ c :> <<Await>>
    @@ d :> <<Io("connect")>>
    @@ outside :> <<Submit(a), Start, Signal(c)>>

\* A full queue when coroutines and callbacks submit, and a recursion too deep.
Crowd ==
    a :> <<Submit(b), Submit(c)>>
    @@ b :> <<Io("read")>>
    @@ c :> <<Io("read"), Submit(d)>>
    @@ d :> <<>>
    @@ outside :> <<Submit(a), Start>>

\* A full queue before the start, and a caller that returns when resumed through
\* the coroutine it awaits.
Overfull ==
    a :> <<Submit(c), CoAwait(d)>>
    @@ b :> <<>>
    @@ c :> <<Io("read")>>
    @@ d :> <<Await>>
    @@ outside :> <<Submit(a), Submit(b), Start, Signal(d)>>

\* Each coroutine submits the next: the eventfd is never read.
Chain ==
    a :> <<Submit(b)>>
    @@ b :> <<Submit(c)>>
    @@ c :> <<Submit(d)>>
    @@ d :> <<>>
    @@ outside :> <<Submit(a), Start>>

\* An exception below two callers, after an IO, with every type of result, and two
\* requests in one submission.
Throws ==
    a :> <<CoAwait(b), Io("read")>>
    @@ b :> <<CoAwait(d), Io("read")>>
    @@ c :> <<Io("read")>>
    @@ d :> <<Io("timer"), Throw>>
    @@ outside :> <<Submit(a), Submit(c), Start>>

App(p, type, cap, entries) ==
    [script |-> p, type |-> type, kQueCap |-> cap, kEntryLength |-> entries]
void == [t \in MCTask |-> "void"]

MCApps == {App(Requests, void, 1, 1)}
          \cup {App(Requests, void, 2, n) : n \in {1, 2}}
          \cup {App(p, void, 1, 1) : p \in {Crowd, Overfull, Chain}}
          \cup {App(Throws, [void EXCEPT ![b] = tb, ![d] = td], 2, 2) :
                    tb, td \in ResultType}
=============================================================================
