----------------------------- MODULE EpollChat -----------------------------
(***************************************************************************)
(* The epoll chat server of 03_networking/lab_14: an array of descriptors, *)
(* and everything received is sent to all others.                          *)
(***************************************************************************)
EXTENDS ClientArray

Init == ArrayInit

\* broadcast: to every listed descriptor but the sender's.
Audience(f) == Others(f)

\* A new client is appended and announced.
Accept(f) ==
    LET P == Audience(f)
    IN  /\ Event(Listen) /\ AcceptAs(f)
        /\ clients' = Append(clients, [fd |-> f])
        /\ Send(P, [q \in P |-> [kind |-> "joined"]])
        /\ ready' = ReadyWith(f, Head(backlog)) \cup ResetBy(P)
        /\ UNCHANGED <<inq, nsent, mine>>

\* recv returns 0 or an error: close and remove.
Disconnect(f) == HangUp(f)

Message(f) ==
    /\ Recv(f, "text")
    /\ Tell(Audience(f), [kind |-> "text"])
    /\ UNCHANGED <<fds, arrayVars>>

Server == \/ (EpollWait \/ AcceptFails) /\ UNCHANGED arrayVars
          \/ \E f \in Fds : Accept(f) \/ Disconnect(f) \/ Message(f)
=============================================================================
