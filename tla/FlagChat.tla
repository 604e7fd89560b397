------------------------------ MODULE FlagChat ------------------------------
(***************************************************************************)
(* The first epoll chat server, 03_networking/lab_04: instead of an array  *)
(* of clients it keeps a flag for every descriptor number.                 *)
(***************************************************************************)
EXTENDS EpollLoop

VARIABLE clients    \* clients[fd], 1 for a connected client

Init == LoopInit /\ clients = [f \in Fds |-> 0]

Accept(f) ==
    /\ Event(Listen) /\ AcceptAs(f)
    /\ clients' = [clients EXCEPT ![f] = 1]
    /\ ready' = ReadyWith(f, Head(backlog))
    /\ UNCHANGED <<proc, conn, inq, nsent, last>>

\* read returns 0 or an error.
Disconnect(f) ==
    /\ Event(f) /\ f \in Open /\ inq[fds[f]] = <<>>
    /\ CloseFd(f)
    /\ clients' = [clients EXCEPT ![f] = 0]
    /\ UNCHANGED <<proc, inq, nsent, backlog, last>>

\* What was read is written to every flagged descriptor but the sender's.
Message(f) ==
    LET P == {fds[g] : g \in {h \in Fds : clients[h] = 1} \ {f}}
    IN  /\ Event(f) /\ f \in Open /\ inq[fds[f]] # <<>>
        /\ Consume(f)
        /\ Send(P, [q \in P |-> [kind |-> "text"]])
        /\ ready' = ready \cup ResetBy(P)
        /\ UNCHANGED <<fds, nsent, backlog, clients>>

Server == \/ (EpollWait \/ AcceptFails) /\ UNCHANGED clients
          \/ \E f \in Fds : Accept(f) \/ Disconnect(f) \/ Message(f)
-----------------------------------------------------------------------------
\* The flags are those of the open descriptors, and every event of the batch is
\* about an open one.
FlagsAreOpen ==
    /\ Open = {f \in Fds : clients[f] = 1}
    /\ batch \ {Listen} \subseteq Open
=============================================================================
