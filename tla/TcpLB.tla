------------------------------- MODULE TcpLB -------------------------------
(***************************************************************************)
(* The TCP load balancer of 03_networking/lab_10: an append-only table of  *)
(* pairs, level-triggered events, and no descriptor of a pair ever closed. *)
(* The kqueue variant of lab_11 makes the same steps over kevent.          *)
(***************************************************************************)
EXTENDS Proxy

VARIABLE conn_table      \* conn_table[0..conn_count-1]

Init == ProxyInit /\ conn_table = <<>>

\* epoll_wait, level-triggered: everything that can be read, every time.
Wait ==
    LET events == {f \in Open : Readable(f)} \cup {f \in {Listen} : backlog # <<>>}
    IN  /\ proc = "up" /\ batch = {} /\ events # {}
        /\ batch' = events
        /\ ready' = {}
        /\ UNCHANGED <<proc, fds, conn, inq, nsent, backlog, last, proxyVars, conn_table>>

\* accept leaves no descriptor for the socket to the backend.
LastFd == \E f \in Fds : Fds \ Open = {f}

\* The blocking connect has succeeded, and the pair is entered.
Entered(f, g, b) ==
    /\ Paired(f, g, b) /\ turn \notin down
    /\ conn' = [conn EXCEPT ![b] = "open"]
    /\ ready' = ReadyWith(f, Head(backlog))
    /\ served' = [served EXCEPT ![turn] = @ + 1]
    /\ conn_table' = Append(conn_table, [client |-> f, backend |-> g])
    /\ UNCHANGED misses

\* Mutant: current_backend starts over before the last backend.
MutAcceptPair(f, g, b) ==
    Entered(f, g, b) /\ turn' = (IF turn + 1 >= BackendCount - 1 THEN 0 ELSE turn + 1)

\* Then current_backend moves on.
AcceptPair(f, g, b) == Entered(f, g, b) /\ turn' = NextTurn

\* connect_backend fails: the backend refuses, or there is no socket for it.
\* The client is closed; current_backend stays.
AcceptRefused == (turn \in down \/ LastFd) /\ Refused /\ UNCHANGED <<turn, misses, conn_table>>

AcceptNothing == AcceptFails /\ UNCHANGED <<proxyVars, conn_table>>

\* The search for the other descriptor goes on to the last entry that has f.
Partner(f) ==
    LET Has(i) == f \in {conn_table[i].client, conn_table[i].backend}
        i == CHOOSE j \in DOMAIN conn_table :
                Has(j) /\ \A k \in DOMAIN conn_table : Has(k) => k <= j
    IN  IF conn_table[i].client = f THEN conn_table[i].backend ELSE conn_table[i].client

Forward(f) == Copy(f, Partner(f)) /\ UNCHANGED conn_table

\* read returns 0 or an error: forward_data returns, nothing is closed.
Ignore(f) ==
    /\ Event(f) /\ f \in Open /\ inq[fds[f]] = <<>>
    /\ UNCHANGED <<proc, fds, conn, inq, nsent, backlog, ready, last, proxyVars, conn_table>>

Server == \/ Wait \/ AcceptRefused \/ AcceptNothing
          \/ \E f \in Fds : Forward(f) \/ Ignore(f)
          \/ \E f, g \in Fds, b \in Peers \ Clients : AcceptPair(f, g, b)
-----------------------------------------------------------------------------
\* Round robin: no backend has more than one connection more than another.
Balanced == \A b, c \in Backends : served[b] <= served[c] + 1
=============================================================================
