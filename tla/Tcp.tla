-------------------------------- MODULE Tcp ---------------------------------
(***************************************************************************)
(* TCP servers, clients and connectors on the rings of several contexts    *)
(* (tcp.hpp, tcp.cpp, the tcp awaiters of io_awaiter.cpp), as the          *)
(* repository uses them: the server and its sessions of net_tcp_test.cpp,  *)
(* the client and its echo of stdin_client.cpp.                            *)
(*                                                                         *)
(* A coroutine runs on one context: its requests are completed there, and  *)
(* its callbacks submit it there.  It runs from one co_await to the next   *)
(* in one step.  A request names its file by a descriptor or by a slot,    *)
(* and the kernel looks the file up when the request is submitted, which   *)
(* is after other coroutines of the context, and of others, have run.      *)
(* Sockets have the name of the coroutine they were made for.              *)
(***************************************************************************)
EXTENDS FixedFds

CONSTANTS Session, server, client, echo,
          Apps             \* set of [on, peers, bytes]: where main's coroutines
                           \* run, the connections that will be made, and
                           \* (a bound) how often the peer of each one sends

Coro == Session \cup {server, client, echo}

ASSUME TcpAssumption ==
    /\ File = Coro \cup {stdin}
    /\ \A app \in Apps : /\ DOMAIN app.on \subseteq {server, client}
                         /\ \A k \in DOMAIN app.on : app.on[k] \in Ctx
                         /\ app.peers \subseteq Session
                         /\ app.bytes \in Nat

VARIABLES
    at,              \* what the coroutine awaits
    req,             \* how far its request is
    ctx,             \* the context it was submitted to
    arg,             \* the descriptor it was given
    conn,            \* its connector, server or client object
    file,            \* the file the kernel found for its request
    result,          \* io_info::result
    sq,              \* per context: requests prepared and not submitted
    peers,           \* connections that nobody has accepted yet
    bytes            \* what the peer of each coroutine has still to send

coroVars == <<at, req, ctx, arg, conn, file, result, sq, peers, bytes>>
vars == <<fdVars, coroVars>>

\* An object that has no slot and no descriptor yet.
Unset == [idx |-> invalid, m_sockfd |-> invalid, m_original_fd |-> invalid,
          m_sqe_flag |-> FALSE]

Init ==
    /\ FixedFdsInit
    /\ \E app \in Apps :
        /\ ctx = [k \in Coro |-> IF k \in DOMAIN app.on THEN app.on[k] ELSE none]
        /\ peers = app.peers
        /\ bytes = [k \in Coro |-> app.bytes]
    /\ arg = [k \in Coro |-> invalid]
    /\ at = [k \in Coro |-> "none"]
    /\ req = [k \in Coro |-> "none"]
    /\ conn = [k \in Coro |-> Unset]
    /\ file = [k \in Coro |-> none]
    /\ result = [k \in Coro |-> 0]
    /\ sq = [c \in Ctx |-> <<>>]
-----------------------------------------------------------------------------
(* Awaiters.                                                               *)

\* The constructor of an io awaiter prepares a request; k suspends.
io_awaiter(k, op) ==
    /\ at' = [at EXCEPT ![k] = op]
    /\ req' = [req EXCEPT ![k] = "prepared"]
    /\ sq' = [sq EXCEPT ![ctx[k]] = Append(@, k)]
    /\ result' = [result EXCEPT ![k] = 0]

Ends(k) == /\ at' = [at EXCEPT ![k] = "done"]
           /\ req' = [req EXCEPT ![k] = "none"]
           /\ UNCHANGED <<sq, result>>

\* Coroutine k is resumed from its await of op.
Resumed(k, op) == ~exited /\ at[k] = op /\ req[k] = "complete"
Starts(k) == ~exited /\ at[k] = "none" /\ ctx[k] # none

\* submit_to_scheduler(u(fd)): any context may get it.
submit_to_scheduler(u, fd) ==
    /\ \E c \in Ctx : ctx' = [ctx EXCEPT ![u] = c]
    /\ arg' = [arg EXCEPT ![u] = fd]

\* What read, write and accept put in the request.
sqe_of(k) == [fd |-> conn[k].m_sockfd, fixed |-> conn[k].m_sqe_flag]

\* Mutant of sqe_close: the descriptor may be the index of a slot.
sqe_close_sockfd(k) == [fd |-> conn[k].m_sockfd, fixed |-> FALSE]

\* close, connect and a read of standard input always use a descriptor.
sqe_close(k) == [fd |-> conn[k].m_original_fd, fixed |-> FALSE]
sqe_connect(k) == [fd |-> conn[k].m_original_fd, fixed |-> FALSE]
sqe_stdin(k) == [fd |-> 0, fixed |-> FALSE]

sqe(k) == CASE at[k] = "close"   -> sqe_close(k)
            [] at[k] = "connect" -> sqe_connect(k)
            [] at[k] = "stdin"   -> sqe_stdin(k)
            [] OTHER             -> sqe_of(k)

\* The file that k's request names.
Named(k) == IF sqe(k).fixed THEN registered[ctx[k]][sqe(k).fd]
            ELSE IF sqe(k).fd \in FD THEN fdtab[sqe(k).fd] ELSE none

\* The kernel takes the next request of a ring; a close takes effect here.
uring_submit(c) ==
    /\ ~exited /\ sq[c] # <<>>
    /\ LET k == Head(sq[c]) IN
       /\ file' = [file EXCEPT ![k] = Named(k)]
       /\ req' = [req EXCEPT ![k] = "kernel"]
       /\ fdtab' = IF at[k] = "close" /\ Named(k) # none
                   THEN [fdtab EXCEPT ![sqe(k).fd] = none] ELSE fdtab
    /\ sq' = [sq EXCEPT ![c] = Tail(@)]
    /\ UNCHANGED <<que, data, registered, exited, at, ctx, arg, conn, result, peers, bytes>>

\* The answers of the kernel to a request that found a file: 1 is a number of
\* bytes, 0 the end of the stream or success, -1 an error.  An error of a read
\* is answered like the end of the stream.
Answers(k) == CASE at[k] = "close" -> {0}
                [] at[k] = "connect" -> {0, -1}
                [] at[k] = "read" -> IF bytes[k] > 0 THEN {1, 0} ELSE {0}
                [] OTHER -> {1, -1}

\* The callback of connect: its descriptor, or the error.
connect_callback(k, res) == IF res # 0 THEN res ELSE conn[k].m_original_fd

Delivered(k, res) == IF at[k] = "connect" THEN connect_callback(k, res) ELSE res

\* A request of k other than an accept is completed, and its callback called.
uring_complete(k) ==
    /\ ~exited /\ req[k] = "kernel" /\ at[k] # "accept"
    /\ \E res \in IF file[k] \in {none, null} THEN {-1} ELSE Answers(k) :
        /\ result' = [result EXCEPT ![k] = Delivered(k, res)]
        /\ bytes' = IF at[k] = "read" /\ res > 0
                    THEN [bytes EXCEPT ![k] = @ - 1] ELSE bytes
    /\ req' = [req EXCEPT ![k] = "complete"]
    /\ file' = [file EXCEPT ![k] = none]
    /\ UNCHANGED <<fdVars, at, ctx, arg, conn, sq, peers>>

\* An accept is completed with a new connection, or fails.
uring_accept ==
    /\ ~exited /\ req[server] = "kernel" /\ at[server] = "accept"
    /\ \/ /\ file[server] = server
          /\ FreeFds # {}
          /\ \E k \in peers :
              /\ fdtab' = [fdtab EXCEPT ![NewFd] = k]
              /\ peers' = peers \ {k}
          /\ result' = [result EXCEPT ![server] = NewFd]
       \/ /\ result' = [result EXCEPT ![server] = -1]
          /\ UNCHANGED <<fdtab, peers>>
    /\ req' = [req EXCEPT ![server] = "complete"]
    /\ file' = [file EXCEPT ![server] = none]
    /\ UNCHANGED <<que, data, registered, exited, at, ctx, arg, conn, sq, bytes>>
-----------------------------------------------------------------------------
(* Servers, clients and connectors.                                        *)

\* Mutant of sqe_flag: IOSQE_FIXED_FILE is not set.
sqe_flag_clear(idx) == FALSE

\* The requests of an object name a slot: IOSQE_FIXED_FILE.
sqe_flag(idx) == idx # invalid

\* An object of coroutine k is made for descriptor fd, with the descriptors as
\* in tab: it names the file by a slot if one is free on its context.
holds_slot(k, fd, tab) ==
    LET idx == borrowed(ctx[k]) IN
    /\ get_fixed_fd(ctx[k])
    /\ assign(ctx[k], idx, fd, tab)
    /\ conn' = [conn EXCEPT ![k] =
                  [idx |-> idx, m_original_fd |-> fd,
                   m_sockfd |-> IF idx = invalid THEN fd ELSE idx,
                   m_sqe_flag |-> sqe_flag(idx)]]

\* tcp_server::tcp_server: a listening socket.
tcp_server(k) ==
    /\ fdtab' = [fdtab EXCEPT ![NewFd] = k]
    /\ holds_slot(k, NewFd, fdtab')

\* tcp_connector::tcp_connector: whatever file the descriptor names now.
tcp_connector(k, fd) == holds_slot(k, fd, fdtab) /\ UNCHANGED fdtab

\* tcp_client::tcp_client: a socket, without a slot.
tcp_client(k) ==
    /\ fdtab' = [fdtab EXCEPT ![NewFd] = k]
    /\ conn' = [conn EXCEPT ![k].m_original_fd = NewFd]
    /\ UNCHANGED <<que, data, registered, exited>>

\* Mutant of releases: the slot is returned, and the item stays valid.
releases_twice(k) == /\ return_back(ctx[k], conn[k].idx)
                     /\ UNCHANGED conn

\* fixed_fds::return_back of k's object: its item is invalid then.
releases(k) == /\ return_back(ctx[k], conn[k].idx)
               /\ conn' = [conn EXCEPT ![k].idx = invalid]

\* tcp_connector::close: the slot is returned when the request is prepared.
close(k) == releases(k) /\ io_awaiter(k, "close") /\ UNCHANGED fdtab

\* The coroutine returns: the destructor of the object.
destructs(k) == releases(k) /\ Ends(k) /\ UNCHANGED fdtab
-----------------------------------------------------------------------------
(* The coroutines.                                                         *)

server_start ==
    /\ Starts(server)
    /\ tcp_server(server)
    /\ io_awaiter(server, "accept")
    /\ UNCHANGED <<ctx, arg, file, peers, bytes>>

\* A new connection gets a session; an error ends the server.
server_accept ==
    /\ Resumed(server, "accept")
    /\ IF result[server] > 0
       THEN /\ submit_to_scheduler(fdtab[result[server]], result[server])
            /\ io_awaiter(server, "accept")
            /\ UNCHANGED <<fdVars, conn>>
       ELSE destructs(server) /\ UNCHANGED <<ctx, arg>>
    /\ UNCHANGED <<file, peers, bytes>>

session_start(k) ==
    /\ Starts(k)
    /\ tcp_connector(k, arg[k])
    /\ io_awaiter(k, "read")
    /\ UNCHANGED <<ctx, arg, file, peers, bytes>>

\* What was read is written back; the end of the stream or an error closes.
session_read(k) ==
    /\ Resumed(k, "read")
    /\ IF result[k] > 0 THEN io_awaiter(k, "write") /\ UNCHANGED <<fdVars, conn>>
                        ELSE close(k)
    /\ UNCHANGED <<ctx, arg, file, peers, bytes>>

session_write(k) ==
    /\ Resumed(k, "write")
    /\ IF result[k] > 0 THEN io_awaiter(k, "read") /\ UNCHANGED <<fdVars, conn>>
                        ELSE close(k)
    /\ UNCHANGED <<ctx, arg, file, peers, bytes>>

client_start ==
    /\ Starts(client)
    /\ tcp_client(client)
    /\ io_awaiter(client, "connect")
    /\ UNCHANGED <<ctx, arg, file, peers, bytes>>

\* The echo gets the descriptor too, and makes a connector of its own.
client_connect ==
    /\ Resumed(client, "connect")
    /\ IF result[client] > 0
       THEN /\ submit_to_scheduler(echo, result[client])
            /\ tcp_connector(client, result[client])
            /\ io_awaiter(client, "read")
       ELSE Ends(client) /\ UNCHANGED <<fdVars, ctx, arg, conn>>
    /\ UNCHANGED <<file, peers, bytes>>

client_read ==
    /\ Resumed(client, "read")
    /\ IF result[client] > 0
       THEN io_awaiter(client, "read") /\ UNCHANGED <<fdVars, conn>>
       ELSE close(client)
    /\ UNCHANGED <<ctx, arg, file, peers, bytes>>

\* The end of a session, and of the client; the assertion is CloseSucceeds.
closed(k) ==
    /\ Resumed(k, "close")
    /\ destructs(k)
    /\ UNCHANGED <<ctx, arg, file, peers, bytes>>

echo_start ==
    /\ Starts(echo)
    /\ tcp_connector(echo, arg[echo])
    /\ io_awaiter(echo, "stdin")
    /\ UNCHANGED <<ctx, arg, file, peers, bytes>>

\* The echo ignores every result.
echo_loop ==
    /\ \/ Resumed(echo, "stdin") /\ io_awaiter(echo, "write")
       \/ Resumed(echo, "write") /\ io_awaiter(echo, "stdin")
    /\ UNCHANGED <<fdVars, ctx, arg, conn, file, peers, bytes>>
-----------------------------------------------------------------------------
coroStep(k) ==
    \/ k = server /\ (server_start \/ server_accept)
    \/ k \in Session /\ (session_start(k) \/ session_read(k) \/ session_write(k))
    \/ k = client /\ (client_start \/ client_connect \/ client_read)
    \/ k \in Session \cup {client} /\ closed(k)
    \/ k = echo /\ (echo_start \/ echo_loop)

\* Only accepts and standard input are pending, nothing is, or the process has
\* gone.
Idle ==
    /\ exited \/ \A k \in Coro :
                    at[k] = "done" \/ req[k] = "kernel" \/ ctx[k] = none
    /\ UNCHANGED vars

Next == \/ \E k \in Coro : coroStep(k) \/ uring_complete(k)
        \/ \E c \in Ctx : uring_submit(c)
        \/ uring_accept
        \/ Idle

\* Contexts run their coroutines and submit their requests; peers of a
\* connection send, receive or close in the end.
Spec ==
    /\ Init /\ [][Next]_vars
    /\ \A k \in Coro : WF_vars(coroStep(k))
    /\ \A c \in Ctx : WF_vars(uring_submit(c))
    /\ \A k \in Session \cup {client} : WF_vars(uring_complete(k))
-----------------------------------------------------------------------------
(* Properties.                                                             *)

\* The coroutines that hold slot n of context c.
Holders(c, n) == {k \in Coro : ctx[k] = c /\ conn[k].idx = n}

\* Borrowing, returning and the destructors conserve the slots of each ring: a
\* slot is in the free queue once and held by nobody, and the kernel has
\* /dev/null there; or it is held by one connector or server and not in the
\* queue, and the kernel has a socket there.
SlotsConserved ==
    ~exited => \A c \in Ctx : \A n \in Slot :
        LET free == Cardinality({p \in DOMAIN que[c] : que[c][p] = n}) IN
        /\ free + Cardinality(Holders(c, n)) = 1
        /\ registered[c][n] = null <=> free = 1

\* The client has closed the descriptor that the echo was given.
EchoIsStale == \/ at[client] = "done"
               \/ at[client] = "close" /\ req[client] # "prepared"

\* The socket that coroutine k works on.
OwnFile(k) == IF at[k] = "stdin" THEN stdin ELSE IF k = echo THEN client ELSE k

\* A request reaches the socket of the connector it was made with, although its
\* file is looked up only when the ring is submitted, slots and descriptors
\* being reused meanwhile.  The echo of stdin_client.cpp alone may write to
\* another connection, and its constructor end the process, after the client
\* has closed the descriptor.
OwnSocket ==
    /\ exited => EchoIsStale /\ at[echo] = "stdin"
    /\ \A k \in Coro : req[k] = "kernel" =>
         \/ file[k] = OwnFile(k)
         \/ k = echo /\ EchoIsStale

\* assert(ret == 0) after co_await conn.close(), in sessions and in the client;
\* and the descriptor that was closed is not the socket's any more, nor is
\* another one.
CloseSucceeds ==
    \A k \in Session \cup {client} : Resumed(k, "close") =>
        result[k] = 0 /\ \A fd \in FD : fdtab[fd] # k

\* Something of the process refers to socket f, the echo's slot and request
\* apart.
Referred(f) ==
    \/ \E fd \in FD : fdtab[fd] = f
    \/ \E k \in Coro \ {echo} : file[k] = f
    \/ \E c \in Ctx : \E n \in Slot :
        registered[c][n] = f /\ echo \notin Holders(c, n)

\* Every connection that a session was started for is closed in the end: no
\* descriptor, slot or request of the server's side keeps it open, unless a
\* stale echo does.
SessionsEnd ==
    \A k \in Session :
        ctx[k] # none ~> exited \/ (at[k] = "done" /\ ~Referred(k))
=============================================================================
