------------------------------ MODULE TlsChat ------------------------------
(***************************************************************************)
(* The TLS chat server of 03_networking/lab_16: an epoll loop over OpenSSL *)
(* connections with a handshake state each, ended by a signal.             *)
(*                                                                         *)
(* What arrives is a sequence of TLS records: the client's hello, its      *)
(* finish (sent in answer to the server's flight), data, and bye, which is *)
(* a close_notify or anything else after which OpenSSL fails.  Client      *)
(* sockets are registered EPOLLIN | EPOLLOUT | EPOLLET, so that every      *)
(* descriptor on the ready list is reported, readable or not.              *)
(***************************************************************************)
EXTENDS EpollLoop

VARIABLES at,        \* main's position
          running,
          state,     \* per descriptor: the state of its conn_t, or "none"
          hs,        \* per peer: the record SSL_accept waits for, or "done"
          cli,       \* per peer: the last handshake record it has sent
          pending,   \* the peers for which an SSL_write was left unfinished
          errors,    \* whether OpenSSL's error queue of the thread holds an error
          early      \* history: peers that sent data or ended before their
                     \* handshake was found complete

tlsVars == <<at, running, state, hs, cli, pending, errors, early>>
vars == <<loopVars, tlsVars>>

Init == /\ LoopInit
        /\ at = "ctx" /\ running = TRUE
        /\ state = [f \in Fds |-> "none"]
        /\ hs = [p \in Peers |-> "hello"]
        /\ cli = [p \in Peers |-> "none"]
        /\ pending = {} /\ errors = FALSE /\ early = {}
-----------------------------------------------------------------------------
(* The clients (client.c) and their kernels. *)

Arrive(p, rec) ==
    /\ proc = "up" /\ conn[p] = "open"
    /\ inq' = [inq EXCEPT ![p] = Append(@, rec)]
    /\ ready' = ready \cup FdOf(p)
    /\ UNCHANGED <<proc, fds, conn, backlog, batch, last, at, running, state, hs, pending, errors, early>>

\* SSL_connect: hello, and finish once the server's flight has come.
Hello(p) == /\ cli[p] = "none" /\ Arrive(p, "hello")
            /\ cli' = [cli EXCEPT ![p] = "hello"] /\ UNCHANGED nsent

Finish(p) == /\ cli[p] = "hello" /\ hs[p] = "finish" /\ Arrive(p, "finish")
             /\ cli' = [cli EXCEPT ![p] = "finish"] /\ UNCHANGED nsent

Type(p, rec) == /\ nsent < MaxLines /\ (cli[p] = "finish" \/ rec = "bye") /\ Arrive(p, rec)
                /\ nsent' = nsent + 1 /\ UNCHANGED cli

\* A peer resets the connection; PeerClose is its orderly end.
PeerReset(p) ==
    /\ proc = "up" /\ conn[p] = "open"
    /\ conn' = [conn EXCEPT ![p] = "reset"]
    /\ ready' = ready \cup FdOf(p)
    /\ UNCHANGED <<proc, fds, inq, nsent, backlog, batch, last, tlsVars>>

\* A slow peer has read: its socket is writable again, an EPOLLOUT edge.
Drain(p) ==
    /\ proc = "up" /\ p \in pending
    /\ ready' = ready \cup FdOf(p)
    /\ UNCHANGED <<proc, fds, conn, inq, nsent, backlog, batch, last, tlsVars>>

Client(p) == \/ at # "ctx" /\ at # "listener" /\ PeerConnect(p) /\ UNCHANGED tlsVars
             \/ PeerClose(p) /\ UNCHANGED tlsVars
             \/ Hello(p) \/ Finish(p) \/ PeerReset(p) \/ Drain(p)
             \/ \E rec \in Lines : Type(p, rec)
-----------------------------------------------------------------------------
(* Start-up, the loop and the end of main. *)

Main(from, to) == proc = "up" /\ at = from /\ at' = to

Stay == UNCHANGED <<running, state, hs, cli, pending, errors, early>>

\* create_ssl_ctx, create_listener, epoll_create1: each may fail, which ends
\* the program.
CreateSslCtx == Main("ctx", "listener") /\ Stay /\ UNCHANGED loopVars
CreateListener == Main("listener", "epoll") /\ Stay /\ UNCHANGED loopVars
CreateEpoll == Main("epoll", "test") /\ Stay /\ UNCHANGED loopVars
StartFails == /\ at \in {"ctx", "listener", "epoll"} /\ Main(at, "end")
              /\ proc' = "exited"
              /\ Stay /\ UNCHANGED <<fds, conn, inq, nsent, backlog, ready, batch, last>>

\* The batch has been worked through.
LoopTest == /\ Main("test", IF running THEN "wait" ELSE "shutdown") /\ batch = {}
            /\ Stay /\ UNCHANGED loopVars

Events == ready \cup {f \in {Listen} : backlog # <<>>}

Wait == /\ Main("wait", "test") /\ Events # {}
        /\ batch' = Events /\ ready' = {}
        /\ Stay /\ UNCHANGED <<proc, fds, conn, inq, nsent, backlog, last>>

\* Mutant: epoll_wait without a timeout only returns with an event.
MutTimeout == Main("wait", "test") /\ Events # {} /\ Stay /\ UNCHANGED loopVars

\* Nothing for 2000 ms.
Timeout == Main("wait", "test") /\ Events = {} /\ Stay /\ UNCHANGED loopVars

\* The accept loop: one connection after the other, entered as handshaking and
\* registered; its socket is writable, so it is ready.
Accept(f) ==
    /\ Main("test", "test") /\ Listen \in batch /\ AcceptAs(f)
    /\ state' = [state EXCEPT ![f] = "handshake"]
    /\ ready' = ready \cup {f}
    /\ UNCHANGED <<proc, conn, inq, nsent, batch, last, running, hs, cli, pending, errors, early>>

\* accept fails: EAGAIN when nobody is left, or EMFILE.
AcceptEnd ==
    /\ Main("test", "test") /\ Event(Listen) /\ (backlog = <<>> \/ Open = Fds)
    /\ Stay /\ UNCHANGED <<proc, fds, conn, inq, nsent, backlog, ready, last>>

\* handle_sigint; it also ends an epoll_wait (EINTR), but not one that main has
\* not entered yet.
Signal ==
    /\ proc = "up" /\ running
    /\ running' = FALSE
    /\ at' \in {at, IF at = "wait" THEN "test" ELSE at}
    /\ UNCHANGED <<loopVars, state, hs, cli, pending, errors, early>>

\* SSL_shutdown may write a close_notify, which raises SIGPIPE on a connection
\* that answered an earlier write with a reset.
ShutdownKills(S) == \E f \in S : conn[fds[f]] = "broken"

\* All connections are shut down and closed.
Shutdown ==
    /\ Main("shutdown", "end")
    /\ \/ proc' = "exited" /\ CloseFds(Open) /\ state' = [f \in Fds |-> "none"]
       \/ ShutdownKills(Open) /\ proc' = "killed" /\ UNCHANGED <<fds, conn, ready, state>>
    /\ UNCHANGED <<inq, nsent, backlog, batch, last, running, hs, cli, pending, errors, early>>
-----------------------------------------------------------------------------
(* An event of a client. *)

\* Mutant: the descriptor is not closed.
MutRemoveConnection(S, newState, newConn) ==
    /\ state' = [g \in Fds |-> IF g \in S THEN "none" ELSE newState[g]]
    /\ conn' = newConn /\ UNCHANGED fds

\* remove_connection, with the clean-up that precedes it: S is {f} or empty.
RemoveConnection(S, newState, newConn) ==
    /\ state' = [g \in Fds |-> IF g \in S THEN "none" ELSE newState[g]]
    /\ fds' = [g \in Fds |-> IF g \in S THEN None ELSE fds[g]]
    /\ conn' = [p \in Peers |-> IF FdOf(p) \cap S # {} THEN "done" ELSE newConn[p]]

\* SSL_accept works through the records that are there.
Progress(p) == IF inq[p] = <<>> \/ Head(inq[p]) # hs[p] THEN hs[p]
               ELSE IF hs[p] = "hello" THEN "finish" ELSE "done"

\* A finished handshake leaves what has come with it unread; otherwise a record
\* that does not belong there or the end of the stream is fatal.  SSL_accept
\* starts with an empty error queue; of a failure's errors only one is taken.
Handshake(f) ==
    LET p == fds[f]
        rest == IF Progress(p) = hs[p] THEN inq[p] ELSE Tail(inq[p])
        done == Progress(p) = "done"
        fatal == ~done /\ (rest # <<>> \/ Ended(p))
    IN  /\ Main("test", "test") /\ Event(f) /\ state[f] = "handshake"
        /\ hs' = [hs EXCEPT ![p] = Progress(p)]
        /\ inq' = [inq EXCEPT ![p] = rest]
        /\ early' = IF done /\ (rest # <<>> \/ Ended(p)) THEN early \cup {p} ELSE early
        /\ RemoveConnection(IF fatal THEN {f} ELSE {},
                            [state EXCEPT ![f] = IF done THEN "established" ELSE @], conn)
        /\ ready' = IF fatal THEN ready \ {f} ELSE ready
        /\ errors' \in IF fatal THEN BOOLEAN ELSE {FALSE}
        /\ UNCHANGED <<proc, nsent, backlog, last, running, cli, pending>>

\* Mutant: SSL_read is called once per event.
MutReads(p) == IF inq[p] # <<>> /\ inq[p][1] = "data" THEN 1 ELSE 0

\* How many data records SSL_read returns before it blocks, ends or fails.
Reads(p) == CHOOSE k \in 0..Len(inq[p]) :
                /\ \A i \in 1..k : inq[p][i] = "data"
                /\ k < Len(inq[p]) => inq[p][k+1] # "data"

\* broadcast_message for k records, to the established peers P, by f, on which
\* nothing more can come if over.  A write to a connection the peer has ended is
\* answered by a reset; one after that raises SIGPIPE; one after the peer's own
\* reset fails and marks the connection.  For a slow peer the message is given
\* up (B), and a later write is refused by OpenSSL if it is no proper retry of
\* that one.  Nobody clears the error queue: once it holds an error (e),
\* SSL_get_error calls every write and read that only blocks a failure, which
\* marks the slow peers (C) and ends the sender.
Broadcast(f, k, P, over) ==
    LET slow == {p \in P \cap Slow : conn[p] = "open"}
        reset == {p \in P : conn[p] = "reset"}
        fails(C) == C # {} /\ (k > 1 \/ C \cap pending # {})
    IN  IF \/ \E p \in P : conn[p] = "broken" \/ (conn[p] = "closed" /\ k > 1)
        THEN /\ proc' = "killed"
             /\ UNCHANGED <<fds, conn, ready, state, pending, errors>>
        ELSE \E B \in SUBSET slow, C \in SUBSET slow, e \in BOOLEAN :
                LET leaves == IF over \/ e THEN {f} ELSE {}
                IN  /\ B \cap C = {} /\ (errors => e /\ B = {})
                    /\ C # {} => e
                    /\ e => errors \/ reset # {} \/ fails(C)
                    /\ pending' = (pending \ slow) \cup B
                    /\ RemoveConnection(leaves,
                            [g \in Fds |-> IF fds[g] \in reset \cup C THEN "closed" ELSE state[g]],
                            [p \in Peers |-> IF p \in P /\ Ended(p) THEN "broken" ELSE conn[p]])
                    /\ ready' = (ready \cup ResetBy(P)) \ leaves
                    /\ errors' \in {e, e \/ over}
                    /\ UNCHANGED proc

\* SSL_read until it blocks (WANT_READ), the peer has said bye or the
\* connection failed; every record read is broadcast.
Established(f) ==
    LET p == fds[f]
        k == Reads(p)
        P == {fds[g] : g \in {h \in Open \ {f} : k > 0 /\ state[h] = "established"}}
        rest == SubSeq(inq[p], k + 1, Len(inq[p]))
        over == (rest # <<>> /\ Head(rest) # "data") \/ (rest = <<>> /\ Ended(p))
    IN  /\ Main("test", "test") /\ Event(f) /\ state[f] = "established"
        /\ inq' = [inq EXCEPT ![p] = rest]
        /\ \/ Broadcast(f, k, P, over)
           \/ over /\ ShutdownKills({f}) /\ proc' = "killed"
              /\ UNCHANGED <<fds, conn, ready, state, pending, errors>>
        /\ UNCHANGED <<nsent, backlog, last, running, hs, cli, early>>

\* A connection that a broadcast marked is cleaned up at its own next event;
\* SSL_shutdown may leave an error.
Cleanup(f) ==
    /\ Main("test", "test") /\ Event(f) /\ state[f] = "closed"
    /\ \/ RemoveConnection({f}, state, conn) /\ ready' = ready \ {f} /\ UNCHANGED proc
       \/ ShutdownKills({f}) /\ proc' = "killed" /\ UNCHANGED <<fds, conn, ready, state>>
    /\ errors' \in {errors, TRUE}
    /\ UNCHANGED <<inq, nsent, backlog, last, running, hs, cli, pending, early>>

Server == \/ CreateSslCtx \/ CreateListener \/ CreateEpoll \/ StartFails
          \/ LoopTest \/ Wait \/ Timeout \/ AcceptEnd \/ Shutdown
          \/ \E f \in Fds : Accept(f) \/ Handshake(f) \/ Established(f) \/ Cleanup(f)

Next == Server \/ Signal \/ \E p \in Peers : Client(p)

\* The server process runs; nothing is assumed of clients and signals.
Spec == Init /\ [][Next]_vars /\ WF_vars(Server)
-----------------------------------------------------------------------------
\* connections holds exactly the open descriptors, and every event of a batch
\* is about one of them: the branch for unknown descriptors, which would close
\* a number that may be another connection's, is never taken.
ListedIsOpen ==
    /\ Open = {f \in Fds : state[f] # "none"}
    /\ batch \ {Listen} \subseteq Open

\* SSL_read drains the socket: what has arrived on a connection, records or its
\* end, has its event coming, except what came before the handshake was found
\* complete, which waits for the next arrival.  So a connection whose peer is
\* gone is freed, also one in its handshake or marked by a broadcast.
NothingStranded ==
    proc = "up" => \A f \in Open :
        Readable(f) => f \in ready \cup batch \/ fds[f] \in early

\* SIGINT or SIGTERM ends the server, also when it comes between the test of
\* running and epoll_wait and no client ever does anything.
SignalEnds == ~running ~> proc # "up"
=============================================================================
