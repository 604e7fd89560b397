----------------------------- MODULE EpollLoop -----------------------------
(***************************************************************************)
(* What the single-threaded epoll servers of 03_networking have in common  *)
(* (labs 04, 05, 10 to 14 and 16 to 18): the remote peers, the kernel's    *)
(* sockets and descriptors, and the main loop that takes a batch of events *)
(* from epoll_wait and works through it.  A server's module adds what it   *)
(* keeps about its clients and what it does for an event.                  *)
(*                                                                         *)
(* Client sockets are registered edge-triggered (EPOLLIN | EPOLLET): an    *)
(* event is reported once after something has arrived, and every event is  *)
(* answered by one recv.  Peers send lines; recv returns as many of those  *)
(* that have arrived as its buffer holds.                                  *)
(***************************************************************************)
EXTENDS Naturals, Sequences

CONSTANTS Peers,      \* remote clients; each opens one connection
          Slow,       \* the peers whose socket buffer may be full
          Lines,      \* the lines a peer may send
          MaxLines,   \* bound: lines the peers send altogether
          BufLines,   \* lines one recv returns at most
          MaxFd,      \* descriptors the process has for clients
          None

ASSUME PeersAssumption == None \notin Peers /\ Slow \subseteq Peers
ASSUME LoopBounds == MaxLines \in Nat /\ BufLines \in Nat \ {0} /\ MaxFd \in Nat \ {0}

VARIABLES proc,     \* "up" or "killed" (by SIGPIPE)
          fds,      \* kernel table: the peer behind each descriptor, or None
          conn,     \* per peer: the connection
          inq,      \* per peer: lines that have arrived and are not read
          nsent,    \* how many lines have been sent
          backlog,  \* connections not yet accepted
          ready,    \* descriptors on epoll's ready list
          batch,    \* events of the current epoll_wait not yet handled
          last      \* per peer: the last message delivered to it, or None

loopVars == <<proc, fds, conn, inq, nsent, backlog, ready, batch, last>>

Fds == 1..MaxFd
Listen == 0     \* the listening socket, registered level-triggered

LoopInit ==
    /\ proc = "up"
    /\ fds = [f \in Fds |-> None]
    /\ conn = [p \in Peers |-> "idle"]
    /\ inq = [p \in Peers |-> <<>>]
    /\ nsent = 0
    /\ backlog = <<>>
    /\ ready = {} /\ batch = {}
    /\ last = [p \in Peers |-> None]

Open == {f \in Fds : fds[f] # None}
FdOf(p) == {f \in Fds : fds[f] = p}
Ended(p) == conn[p] \in {"closed", "reset", "broken"}
Readable(f) == f \in Open /\ (inq[fds[f]] # <<>> \/ Ended(fds[f]))
-----------------------------------------------------------------------------
(* The peers. *)

PeerConnect(p) ==
    /\ proc = "up" /\ conn[p] = "idle"
    /\ conn' = [conn EXCEPT ![p] = "open"]
    /\ backlog' = Append(backlog, p)
    /\ UNCHANGED <<proc, fds, inq, nsent, ready, batch, last>>

PeerSend(p, line) ==
    /\ proc = "up" /\ conn[p] = "open" /\ nsent < MaxLines
    /\ inq' = [inq EXCEPT ![p] = Append(@, line)]
    /\ nsent' = nsent + 1
    /\ ready' = ready \cup FdOf(p)
    /\ UNCHANGED <<proc, fds, conn, backlog, batch, last>>

\* The peer ends the connection, in order or with a reset: the servers do the
\* same for both.
PeerClose(p) ==
    /\ proc = "up" /\ conn[p] = "open"
    /\ conn' = [conn EXCEPT ![p] = "closed"]
    /\ ready' = ready \cup FdOf(p)
    /\ UNCHANGED <<proc, fds, inq, nsent, backlog, batch, last>>

Peer(p) == PeerConnect(p) \/ PeerClose(p) \/ \E line \in Lines : PeerSend(p, line)
-----------------------------------------------------------------------------
(* The calls of the servers.                                               *)

\* epoll_wait: the ready descriptors that are readable now, each once.
EpollWait ==
    LET events == {f \in ready : Readable(f)} \cup {f \in {Listen} : backlog # <<>>}
    IN  /\ proc = "up" /\ batch = {} /\ events # {}
        /\ batch' = events
        /\ ready' = {}
        /\ UNCHANGED <<proc, fds, conn, inq, nsent, backlog, last>>

\* The loop takes the next event of the batch.
Event(f) == proc = "up" /\ f \in batch /\ batch' = batch \ {f}

\* accept returns the lowest free descriptor, which is then registered.
Lowest(f) == f \in Fds \ Open /\ \A g \in 1..f-1 : g \in Open
AcceptAs(f) ==
    LET p == Head(backlog)
    IN  /\ backlog # <<>> /\ Lowest(f)
        /\ fds' = [fds EXCEPT ![f] = p]
        /\ backlog' = Tail(backlog)

\* The descriptors that are ready when f is registered for peer p.
ReadyWith(f, p) == ready \cup {g \in {f} : inq[p] # <<>> \/ Ended(p)}

\* accept fails with EMFILE: the servers go on to the next event.
AcceptFails == Event(Listen) /\ Open = Fds
               /\ UNCHANGED <<proc, fds, conn, inq, nsent, backlog, ready, last>>

\* What one recv on f returns.
Received(f) ==
    LET q == inq[fds[f]]
    IN  SubSeq(q, 1, IF Len(q) < BufLines THEN Len(q) ELSE BufLines)

Consume(f) == inq' = [inq EXCEPT ![fds[f]] = SubSeq(@, Len(Received(f)) + 1, Len(@))]

\* Non-blocking sends whose results nobody looks at: msg[p] for the peers p in
\* P.  A full buffer loses the message; a connection the peer has ended answers
\* with a reset; a send after that raises SIGPIPE.
Send(P, msg) ==
    IF \E p \in P : conn[p] = "broken"
    THEN proc' = "killed" /\ UNCHANGED <<conn, last>>
    ELSE /\ \E lost \in SUBSET (P \cap Slow) :
               last' = [p \in Peers |-> IF p \in P \ lost /\ conn[p] = "open" THEN msg[p] ELSE last[p]]
         /\ conn' = [p \in Peers |-> IF p \in P /\ Ended(p) THEN "broken" ELSE conn[p]]
         /\ UNCHANGED proc

\* The descriptors on which those resets are reported.
ResetBy(P) == {f \in Open : fds[f] \in P /\ conn[fds[f]] = "closed"}

\* close() of open descriptors, which also takes them off epoll's lists (the DEL
\* that follows fails).
CloseFds(S) ==
    /\ fds' = [f \in Fds |-> IF f \in S THEN None ELSE fds[f]]
    /\ conn' = [p \in Peers |-> IF FdOf(p) \cap S # {} THEN "done" ELSE conn[p]]
    /\ ready' = ready \ S

CloseFd(f) == CloseFds({f})
=============================================================================
