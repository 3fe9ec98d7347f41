------------------------------ MODULE MCLatch ------------------------------
(* Three waiters and two notifiers, spread over two contexts; an event, or *)
(* a latch of at most two.                                                 *)
EXTENDS Latch
CONSTANTS w1, w2, w3, n1, n2, x1, x2

MCWaiter == {w1, w2, w3}
MCNotifier == {n1, n2}
MCContext == {x1, x2}
MCHome == [c \in Coro |-> IF c \in {n1, w3} THEN x1 ELSE x2]
=============================================================================
