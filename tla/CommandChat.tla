---------------------------- MODULE CommandChat ----------------------------
(***************************************************************************)
(* The command chat server of 03_networking/lab_17: every client has a     *)
(* nickname; text goes to all others and /msg to the first client of a     *)
(* name.                                                                   *)
(***************************************************************************)
EXTENDS ClientArray

Init == ArrayInit

\* A new entry is unnamed and announced to the others.
Accept(f) ==
    LET P == Others(f)
    IN  /\ Event(Listen) /\ AcceptAs(f)
        /\ clients' = Append(clients, [fd |-> f, name |-> Empty])
        /\ Send(P, [q \in P |-> [kind |-> "joined"]])
        /\ ready' = ReadyWith(f, Head(backlog)) \cup ResetBy(P)
        /\ UNCHANGED <<inq, nsent, mine>>

Nick(f) ==
    /\ Recv(f, "nick")
    /\ SetEntry(f, "name", Stored(Arg(f)))
    /\ Tell({fds[f]}, Reply("nick"))
    /\ UNCHANGED fds

List(f) ==
    /\ Recv(f, "list")
    /\ Tell({fds[f]}, [kind |-> "list", names |-> {clients[i].name : i \in DOMAIN clients}])
    /\ UNCHANGED <<fds, arrayVars>>

\* find_client_by_name: the first entry of that name.
Named(name) ==
    {i \in DOMAIN clients : clients[i].name = name /\ \A j \in 1..i-1 : clients[j].name # name}

\* /msg to a user, by the name as typed; without a text it is answered by its
\* usage.
Msg(f) ==
    LET P == {fds[clients[i].fd] : i \in Named(Arg(f))}
    IN  /\ Recv(f, "msg")
        /\ IF P = {} THEN Tell({fds[f]}, Reply("not found"))
                     ELSE Tell(P, [kind |-> "pm", to |-> Arg(f)])
        /\ UNCHANGED <<fds, arrayVars>>

Usage(f) ==
    /\ Recv(f, "msg-only")
    /\ Tell({fds[f]}, Reply("usage"))
    /\ UNCHANGED <<fds, arrayVars>>

Quit(f) == Recv(f, "quit") /\ Bye(f)

Unknown(f) ==
    /\ Recv(f, "unknown")
    /\ Tell({fds[f]}, Reply("unknown command"))
    /\ UNCHANGED <<fds, arrayVars>>

Text(f) ==
    /\ Recv(f, "text")
    /\ Tell(Others(f), [kind |-> "text", name |-> clients[Entry(f)].name])
    /\ UNCHANGED <<fds, arrayVars>>

HandleCommand(f) == Nick(f) \/ List(f) \/ Msg(f) \/ Usage(f) \/ Quit(f) \/ Unknown(f)

Server == \/ (EpollWait \/ AcceptFails) /\ UNCHANGED arrayVars
          \/ \E f \in Fds : Accept(f) \/ HangUp(f) \/ HandleCommand(f) \/ Text(f)
-----------------------------------------------------------------------------
\* "Private Messaging": a private message that a peer receives is addressed to
\* the nickname the peer itself set last, whichever entries were moved and slots
\* reused.
ToOwnName ==
    \A p \in Peers : last'[p] # last[p] /\ last'[p].kind = "pm" => last'[p].to = mine[p].name
=============================================================================
