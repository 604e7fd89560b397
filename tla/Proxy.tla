------------------------------- MODULE Proxy -------------------------------
(***************************************************************************)
(* What the epoll load balancers of 03_networking, labs 10 to 13, have in  *)
(* common: every accepted client is connected to the backend whose turn it *)
(* is, and what arrives on one descriptor of the pair is written to the    *)
(* other.  The remote ends, of clients and of backends, are the peers of   *)
(* EpollLoop.                                                              *)
(***************************************************************************)
EXTENDS EpollLoop, FiniteSets

CONSTANTS Clients,       \* the peers that are clients; the others are backends' ends
          BackendCount,  \* BACKEND_COUNT, MAX_BACKENDS
          DownSets       \* the sets of backends that may refuse connections

Backends == 0..BackendCount-1

ASSUME ProxyAssumption ==
    /\ Clients \subseteq Peers
    /\ BackendCount \in Nat \ {0} /\ DownSets \subseteq SUBSET Backends

VARIABLES down,          \* the backends that refuse, the same throughout
          turn,          \* next_backend, current_backend
          mate,          \* history: the end a remote end was paired with, or None
          misses,        \* history, labs 12 and 13: clients in a row given to a dead backend
          served         \* history, lab 10: connections made to each backend

proxyVars == <<down, turn, mate, misses, served>>

ProxyInit == /\ LoopInit
             /\ down \in DownSets
             /\ turn = 0
             /\ mate = [p \in Peers |-> None]
             /\ misses = 0
             /\ served = [b \in Backends |-> 0]

\* The server's next_backend, moved on by one.
NextTurn == (turn + 1) % BackendCount

\* A client is accepted as f, and g is the socket to the end b of a backend.
Paired(f, g, b) ==
    LET p == Head(backlog)
    IN  /\ Event(Listen) /\ backlog # <<>> /\ Lowest(f)
        /\ g \in Fds \ (Open \cup {f}) /\ \A h \in 1..g-1 : h \in Open \cup {f}
        /\ b \in Peers \ Clients /\ conn[b] = "idle"
        /\ fds' = [fds EXCEPT ![f] = p, ![g] = b]
        /\ backlog' = Tail(backlog)
        /\ mate' = [mate EXCEPT ![p] = b, ![b] = p]
        /\ UNCHANGED <<proc, inq, nsent, last, down>>

\* Without a socket to a backend the client is closed.
Refused ==
    /\ Event(Listen) /\ backlog # <<>> /\ Open # Fds
    /\ conn' = [conn EXCEPT ![Head(backlog)] = "done"]
    /\ backlog' = Tail(backlog)
    /\ UNCHANGED <<proc, fds, inq, nsent, ready, last, down, mate, served>>

\* One read from f, one unchecked write to g.
Copy(f, g) ==
    LET P == {fds[h] : h \in {g} \cap Open}
    IN  /\ Event(f)
        /\ f \in Open /\ inq[fds[f]] # <<>>
        /\ Consume(f)
        /\ Send(P, [q \in P |-> fds[f]])
        /\ ready' = ready \cup ResetBy(P)
        /\ UNCHANGED <<fds, nsent, backlog, proxyVars>>

Remote(p) == \/ p \in Clients /\ PeerConnect(p)
             \/ PeerClose(p)
             \/ \E line \in Lines : PeerSend(p, line)
-----------------------------------------------------------------------------
\* What a remote end receives came from the end it was paired with: no stale
\* entry or reused descriptor carries data over to another client.
Isolation == \A p \in Peers : last[p] # None => last[p] = mate[p]

\* A backend that is down costs one client a turn: after at most as many clients
\* as there are backends down comes one that is given to a live backend.
OncePerDead == down # Backends => misses <= Cardinality(down)
=============================================================================
