------------------------------ MODULE AsyncLB ------------------------------
(***************************************************************************)
(* The asynchronous load balancer of 03_networking/lab_13: the two         *)
(* descriptors of a pair are entered in connections[], and closed together.*)
(*                                                                         *)
(* A batch of events may hold both descriptors of a pair: when the first   *)
(* event closes the pair, the second is stale, and its descriptor may by   *)
(* then belong to a connection accepted within the same batch.             *)
(***************************************************************************)
EXTENDS Proxy

VARIABLE connections     \* connections[fd]: client_fd and backend_fd, 0 if never set

vars == <<loopVars, proxyVars, connections>>

Init == /\ ProxyInit
        /\ connections = [f \in Fds |-> [client |-> 0, backend |-> 0]]

\* accept, begin to connect to the backend, enter the pair and register both.
\* connect does not wait: that the backend is down comes out when the backend's
\* descriptor is read (its event is there at once) or, first, written to, which
\* fails once and raises SIGPIPE after that, as for a connection that has ended.
AcceptPair(f, g, b) ==
    LET pair == [client |-> f, backend |-> g]
        dead == turn \in down
    IN  /\ Paired(f, g, b)
        /\ conn' = [conn EXCEPT ![b] = IF dead THEN "closed" ELSE "open"]
        /\ ready' = ReadyWith(f, Head(backlog)) \cup (IF dead THEN {g} ELSE {})
        /\ misses' = IF dead THEN misses + 1 ELSE 0
        /\ connections' = [connections EXCEPT ![f] = pair, ![g] = pair]
        /\ turn' = NextTurn
        /\ UNCHANGED served

\* socket or connect fails at once, for want of a descriptor or a local port:
\* the client is closed, and next_backend moves on all the same.
AcceptRefused == Refused /\ misses' = 0 /\ turn' = NextTurn /\ UNCHANGED connections

\* No descriptor at all: accept and socket fail alike, nothing is closed.
AcceptNothing ==
    AcceptFails /\ misses' = 0 /\ turn' = NextTurn /\ UNCHANGED <<down, mate, served, connections>>

\* The other descriptor of f's entry.
Partner(f) == IF connections[f].client = f THEN connections[f].backend ELSE connections[f].client

\* Mutant: only the descriptor that ended is closed.
MutCloseBoth(f) ==
    /\ Event(f)
    /\ f \in Open => inq[fds[f]] = <<>>
    /\ CloseFds({f} \cap Open)
    /\ UNCHANGED <<proc, inq, nsent, backlog, last, proxyVars, connections>>

\* read returns 0 or an error - EBADF or EAGAIN on a stale event - and both
\* descriptors of the entry are closed, whatever they are by now.
CloseBoth(f) ==
    /\ Event(f)
    /\ f \in Open => inq[fds[f]] = <<>>
    /\ CloseFds({f, Partner(f)} \cap Open)
    /\ UNCHANGED <<proc, inq, nsent, backlog, last, proxyVars, connections>>

Forward(f) == Copy(f, Partner(f)) /\ UNCHANGED connections

Server == \/ EpollWait /\ UNCHANGED <<proxyVars, connections>>
          \/ AcceptRefused \/ AcceptNothing
          \/ \E f \in Fds : CloseBoth(f) \/ Forward(f)
          \/ \E f, g \in Fds, b \in Peers \ Clients : AcceptPair(f, g, b)

Next == Server \/ \E p \in Peers : Remote(p) /\ UNCHANGED <<proxyVars, connections>>

Spec == Init /\ [][Next]_vars
-----------------------------------------------------------------------------
\* An entry that has an open descriptor has two, the two ends of one pairing,
\* and both descriptors' entries say so.  With stale events about, this rests
\* on descriptors being allocated lowest first and in pairs.
PairsIntact ==
    \A f \in Open :
        /\ Partner(f) \in Open /\ connections[Partner(f)] = connections[f]
        /\ fds[Partner(f)] = mate[fds[f]]

\* README: "Multiple clients can now connect simultaneously - the LB will route
\* them using round robin and handle everything": a pair whose two ends are both
\* still there is not closed.
LivePairKept ==
    [][\A p \in Clients : mate[p] # None /\ conn[p] = "open" /\ conn[mate[p]] = "open"
                          => conn'[p] # "done"]_vars
=============================================================================
