---------------------------- MODULE MCWaitGroup ----------------------------
(* Two rounds: three waiters and two pieces of work in the first, one of   *)
(* each in the second; or a single round with one waiter.                  *)
EXTENDS WaitGroup
CONSTANTS w1, w2, w3, w4, n1, n2, n3, x1, x2

MCWaiter == {w1, w2, w3, w4}
OneWaiter == {w1}
MCNotifier == {n1, n2, n3}
OneRound == {n1, n2}
MCLater == {w4, n3}
MCContext == {x1, x2}
MCHome == [c \in Coro |-> IF c \in {n1, w2, w4} THEN x1 ELSE x2]
=============================================================================
