------------------------------- MODULE MCTcp --------------------------------
(* A server with its sessions, and a client in the same process.           *)
EXTENDS Tcp, TLC
CONSTANTS s1, s2, c1, c2

MCSession == {s1, s2}
MCCtx == {c1, c2}
MCFile == MCSession \cup {server, client, echo, stdin}
MCFD == 0..4

\* Contexts are interchangeable: the server, or a lone client, is on the first.
MCApps == {[on |-> server :> c1, peers |-> MCSession, bytes |-> 1],
           [on |-> client :> c1, peers |-> {}, bytes |-> 1]}
          \cup {[on |-> server :> c1 @@ client :> c, peers |-> {s1}, bytes |-> 0]
                 : c \in MCCtx}
=============================================================================
