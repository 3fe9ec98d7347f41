------------------------------ MODULE MCMutex ------------------------------
(* Three coroutines on two contexts: two that share a context and one that *)
(* runs in parallel with them.                                             *)
EXTENDS Mutex
CONSTANTS c1, c2, c3, x1, x2

MCCoro == {c1, c2, c3}
MCContext == {x1, x2}
MCHome == [c \in MCCoro |-> IF c = c3 THEN x2 ELSE x1]
=============================================================================
