------------------------------ MODULE RoomChat ------------------------------
(***************************************************************************)
(* The room-based chat server of 03_networking/lab_18: every client has a  *)
(* nickname and a room, changed by commands, and text is sent to the other *)
(* members of the sender's room.                                           *)
(***************************************************************************)
EXTENDS ClientArray

Init == ArrayInit

Self(f) == clients[Entry(f)]

\* broadcast_room: the members of a room but f.
Members(room, f) == PeersOf({i \in DOMAIN clients : clients[i].room = room}, f)

\* Mutant: the slot keeps the room of the client it belonged to before.
MutNewEntry(f) ==
    [fd |-> f, name |-> Empty, room |-> CHOOSE r \in Words : r # Empty]

\* A new entry, with the slot's name and room cleared.
NewEntry(f) == [fd |-> f, name |-> Empty, room |-> Empty]

Accept(f) ==
    LET p == Head(backlog)
    IN  /\ Event(Listen) /\ AcceptAs(f)
        /\ clients' = Append(clients, NewEntry(f))
        /\ Send({p}, [q \in {p} |-> Reply("welcome")])
        /\ ready' = ReadyWith(f, p)
        /\ UNCHANGED <<inq, nsent, mine>>

Nick(f) ==
    /\ Recv(f, "nick")
    /\ SetEntry(f, "name", Stored(Arg(f)))
    /\ Tell({fds[f]}, Reply("nick"))
    /\ UNCHANGED fds

\* The notice goes to the room by the name typed, the entry keeps what fits.
Join(f) ==
    /\ Recv(f, "join")
    /\ SetEntry(f, "room", Stored(Arg(f)))
    /\ TellBoth(Members(Arg(f), f), [kind |-> "joined", name |-> Self(f).name], f, Reply("joined"))
    /\ UNCHANGED fds

Leave(f) ==
    LET notice == [kind |-> "left", name |-> Self(f).name]
    IN  /\ Recv(f, "leave")
        /\ IF Self(f).room # Empty
           THEN TellBoth(Members(Self(f).room, f), notice, f, Reply("left"))
           ELSE Tell({fds[f]}, Reply("not in any room"))
        /\ SetEntry(f, "room", Empty)
        /\ UNCHANGED fds

\* The names in the caller's room, those of the roomless for a roomless caller.
List(f) ==
    LET present == {i \in DOMAIN clients : clients[i].room = Self(f).room}
    IN  /\ Recv(f, "list")
        /\ Tell({fds[f]}, [kind |-> "list", names |-> {clients[i].name : i \in present}])
        /\ UNCHANGED <<fds, arrayVars>>

Quit(f) == Recv(f, "quit") /\ Bye(f)

Unknown(f) ==
    /\ Recv(f, "unknown")
    /\ Tell({fds[f]}, Reply("unknown command"))
    /\ UNCHANGED <<fds, arrayVars>>

\* A text goes to the sender's room, if it is in one.
Text(f) ==
    LET room == Self(f).room
    IN  /\ Recv(f, "text")
        /\ IF room = Empty
           THEN Tell({fds[f]}, Reply("join a room first"))
           ELSE Tell(Members(room, f), [kind |-> "text", room |-> room])
        /\ UNCHANGED <<fds, arrayVars>>

HandleCommand(f) == Nick(f) \/ Join(f) \/ Leave(f) \/ List(f) \/ Quit(f) \/ Unknown(f)

Server == \/ (EpollWait \/ AcceptFails) /\ UNCHANGED arrayVars
          \/ \E f \in Fds : Accept(f) \/ HangUp(f) \/ HandleCommand(f) \/ Text(f)
-----------------------------------------------------------------------------
\* An entry holds the nickname and room that its own connection set last:
\* nothing is inherited from the client that had the descriptor or the slot
\* before, or from the one that was moved into it.
EntryIsOwn ==
    \A i \in DOMAIN clients :
        [name |-> clients[i].name, room |-> clients[i].room] = mine[fds[clients[i].fd]]

\* "Scoped Broadcast": a text that a peer receives is one of the room the peer
\* itself joined last, and has not left since.
ToOwnRoom ==
    \A p \in Peers : last'[p] # last[p] /\ last'[p].kind = "text" => last'[p].room = mine[p].room
=============================================================================
