----------------------------- MODULE TcpLogger -----------------------------
(***************************************************************************)
(* The TCP logger of 03_networking/lab_05: a select loop over a fixed      *)
(* array of slots.  batch is what select left in readfds.                  *)
(***************************************************************************)
EXTENDS EpollLoop

CONSTANT MaxClients   \* MAX_CLIENTS

VARIABLES clients,    \* clients[i]: a descriptor, or 0
          log         \* logs.txt: who sent what was logged, in order

Slots == 1..MaxClients

Init == LoopInit /\ clients = [i \in Slots |-> 0] /\ log = <<>>

Held == {clients[i] : i \in Slots} \ {0}

\* select: what can be read now among the listening socket and the slots.
Select ==
    LET events == {f \in Held : Readable(f)} \cup {f \in {Listen} : backlog # <<>>}
    IN  /\ proc = "up" /\ batch = {} /\ events # {}
        /\ batch' = events
        /\ UNCHANGED <<proc, fds, conn, inq, nsent, backlog, ready, last, clients, log>>

\* The new client takes the first free slot; without one its descriptor is
\* kept nowhere, and neither read nor closed.
Accept(f) ==
    LET first(i) == clients[i] = 0 /\ \A j \in 1..i-1 : clients[j] # 0
    IN  /\ Event(Listen) /\ AcceptAs(f)
        /\ clients' = [i \in Slots |-> IF first(i) THEN f ELSE clients[i]]
        /\ UNCHANGED <<proc, conn, inq, nsent, ready, last, log>>

\* accept fails: the loop starts again, with a new select.
AcceptError ==
    /\ proc = "up" /\ Listen \in batch /\ Open = Fds
    /\ batch' = {}
    /\ UNCHANGED <<proc, fds, conn, inq, nsent, backlog, ready, last, clients, log>>

\* The slots are looked at after the listening socket.
Slot(f) == Listen \notin batch /\ Event(f) /\ f \in Held

Disconnect(f) ==
    /\ Slot(f) /\ inq[fds[f]] = <<>>
    /\ CloseFd(f)
    /\ clients' = [i \in Slots |-> IF clients[i] = f THEN 0 ELSE clients[i]]
    /\ UNCHANGED <<proc, inq, nsent, backlog, last, log>>

LogLine(f) ==
    /\ Slot(f) /\ inq[fds[f]] # <<>>
    /\ Consume(f)
    /\ log' = Append(log, fds[f])
    /\ UNCHANGED <<proc, fds, conn, nsent, backlog, ready, last, clients>>

Server == Select \/ AcceptError \/ \E f \in Fds : Accept(f) \/ Disconnect(f) \/ LogLine(f)
-----------------------------------------------------------------------------
\* The slots hold different open descriptors, and what select reported is still
\* in its slot when the scan comes to it.
SlotsAreOpen ==
    /\ Held \subseteq Open
    /\ \A i, j \in Slots : i # j /\ clients[i] # 0 => clients[i] # clients[j]
    /\ batch \ {Listen} \subseteq Held
=============================================================================
