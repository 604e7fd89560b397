------------------------------- MODULE ForkLB -------------------------------
(***************************************************************************)
(* The load balancer of 03_networking/lab_12: the parent only accepts and  *)
(* connects; a child forked for every pair carries one request to the      *)
(* backend and one answer back, with blocking calls, and ends.             *)
(***************************************************************************)
EXTENDS Proxy

VARIABLE child    \* per client: what its child does next, "none" if it has none

Init == ProxyInit /\ child = [p \in Clients |-> "none"]

\* Mutant: it moves on once a connection was made.
MutAdvance == turn' = IF turn \in down THEN turn ELSE NextTurn

\* next_backend moves on before the backend is tried.
Advance == turn' = NextTurn

\* A client is accepted and connected to the end b of a backend.  The parent
\* keeps neither descriptor, so it never runs out of them.
Connected(b) ==
    LET p == Head(backlog)
    IN  /\ Event(Listen) /\ backlog # <<>> /\ turn \notin down
        /\ b \in Peers \ Clients /\ conn[b] = "idle"
        /\ backlog' = Tail(backlog)
        /\ mate' = [mate EXCEPT ![p] = b, ![b] = p]
        /\ misses' = 0
        /\ Advance
        /\ UNCHANGED <<proc, fds, inq, nsent, ready, last, down, served>>

AcceptFork(b) ==
    /\ Connected(b)
    /\ conn' = [conn EXCEPT ![b] = "open"]
    /\ child' = [child EXCEPT ![Head(backlog)] = "request"]

\* fork fails, unnoticed: the parent closes both descriptors and nobody has them.
ForkFails(b) ==
    /\ Connected(b)
    /\ conn' = [conn EXCEPT ![b] = "done", ![Head(backlog)] = "done"]
    /\ UNCHANGED child

\* The blocking connect is refused, and the client closed.
AcceptRefused ==
    turn \in down /\ Refused /\ misses' = misses + 1 /\ Advance /\ UNCHANGED child

\* read from p, which has sent or ended; a write of what was read to q.  Nothing
\* is written at the end of the stream, and nobody has written to q before.
Relay(p, q) ==
    LET got == inq[p] # <<>>
    IN  /\ got \/ Ended(p)
        /\ inq' = [inq EXCEPT ![p] = SubSeq(@, BufLines + 1, Len(@))]
        /\ last' = IF got /\ conn[q] = "open" THEN [last EXCEPT ![q] = p] ELSE last
        /\ UNCHANGED <<proc, fds, nsent, backlog, ready, batch, proxyVars>>

Exits(p) ==
    /\ child' = [child EXCEPT ![p] = "ended"]
    /\ conn' = [conn EXCEPT ![p] = "done", ![mate[p]] = "done"]

\* The request; if the backend has reset the connection, SIGPIPE ends the child.
Request(p) ==
    /\ child[p] = "request" /\ Relay(p, mate[p])
    /\ \/ child' = [child EXCEPT ![p] = "answer"] /\ UNCHANGED conn
       \/ inq[p] # <<>> /\ conn[mate[p]] = "closed" /\ Exits(p)

\* The answer, and the child's exit, which closes both.
Answer(p) == child[p] = "answer" /\ Relay(mate[p], p) /\ Exits(p)

Server == \/ EpollWait /\ UNCHANGED <<proxyVars, child>>
          \/ AcceptRefused
          \/ \E b \in Peers : AcceptFork(b) \/ ForkFails(b)
          \/ \E p \in Clients : Request(p) \/ Answer(p)
=============================================================================
