---------------------------- MODULE ClientArray ----------------------------
(***************************************************************************)
(* What the chat servers of 03_networking labs 14, 17 and 18 have in       *)
(* common on top of EpollLoop: an array of clients, appended to by accept, *)
(* in which the last entry replaces one that is removed.                   *)
(*                                                                         *)
(* One recv is handled as one command or one text, whatever it holds: a    *)
(* command is the first line of the buffer and the lines behind it are     *)
(* ignored; a text is the whole buffer.                                    *)
(***************************************************************************)
EXTENDS EpollLoop

CONSTANTS Words,     \* nicknames and room names that fit their array
          LongWords, \* longer ones, which begin with the same characters
          Prefix,    \* as many of those as fit, a word of its own
          Empty      \* the empty string: no nickname yet, in no room

ASSUME WordsAssumption ==
    /\ {Prefix, Empty} \subseteq Words /\ Prefix # Empty
    /\ Words \cap LongWords = {}

VARIABLES clients,   \* clients[0..client_count-1], records with a field fd
          mine       \* history: the nickname and room a connection set last

arrayVars == <<clients, mine>>
vars == <<loopVars, arrayVars>>

ArrayInit ==
    /\ LoopInit
    /\ clients = <<>>
    /\ mine = [p \in Peers |-> [name |-> Empty, room |-> Empty]]

\* snprintf into an array keeps what fits.
Stored(word) == IF word \in LongWords THEN Prefix ELSE word

\* find_client_by_fd: the index of f's entry.
Entry(f) == CHOOSE i \in DOMAIN clients : clients[i].fd = f

\* The peers of the entries with these indices, but f's.
PeersOf(I, f) == {fds[clients[i].fd] : i \in {j \in I : clients[j].fd # f}}

\* broadcast: to every listed descriptor but the sender's.
Others(f) == PeersOf(DOMAIN clients, f)

\* Mutant: only the descriptor moves into the gap.
MutWithout(f) ==
    [j \in 1..Len(clients)-1 |->
        IF j = Entry(f) THEN [clients[j] EXCEPT !.fd = clients[Len(clients)].fd] ELSE clients[j]]

\* The array without f's entry: the last one moves into the gap.
Without(f) ==
    [j \in 1..Len(clients)-1 |-> IF j = Entry(f) THEN clients[Len(clients)] ELSE clients[j]]

\* Mutant: the descriptor is closed, the entry stays.
MutRemoveClient(f) == CloseFd(f) /\ UNCHANGED clients

\* remove_client
RemoveClient(f) == clients' = Without(f) /\ CloseFd(f)

\* Mutant: the branch ends in `break` instead of `continue`.
MutHangUp(f) ==
    /\ proc = "up" /\ f \in batch /\ f \in Open /\ inq[fds[f]] = <<>>
    /\ batch' = {}
    /\ RemoveClient(f)
    /\ UNCHANGED <<proc, inq, nsent, backlog, last, mine>>

\* recv returned 0 or an error.
HangUp(f) ==
    /\ Event(f) /\ f \in Open /\ inq[fds[f]] = <<>>
    /\ RemoveClient(f)
    /\ UNCHANGED <<proc, inq, nsent, backlog, last, mine>>

\* recv returned lines of which the first is cmd.
Recv(f, cmd) ==
    /\ Event(f) /\ f \in Open /\ inq[fds[f]] # <<>>
    /\ Head(inq[fds[f]]).cmd = cmd
    /\ Consume(f)
    /\ UNCHANGED <<nsent, backlog>>

Arg(f) == Head(inq[fds[f]]).arg

Reply(what) == [kind |-> "reply", what |-> what]

\* Send note to the peers in P.
Tell(P, note) == Send(P, [q \in P |-> note]) /\ ready' = ready \cup ResetBy(P)

\* Send note to the peers in P, and answer the peer of f.
TellBoth(P, note, f, answer) ==
    LET Q == P \cup {fds[f]}
    IN  /\ Send(Q, [q \in Q |-> IF q = fds[f] THEN answer ELSE note])
        /\ ready' = ready \cup ResetBy(Q)

\* f's peer sets its nickname or its room.
SetEntry(f, field, word) ==
    /\ clients' = [clients EXCEPT ![Entry(f)][field] = word]
    /\ mine' = [mine EXCEPT ![fds[f]][field] = word]

\* "Bye!" is sent, then the connection closed.
Bye(f) ==
    LET p == fds[f]
    IN  /\ IF conn[p] = "broken"
           THEN proc' = "killed" /\ UNCHANGED <<clients, fds, conn, ready, last>>
           ELSE /\ RemoveClient(f)
                /\ \/ last' = [last EXCEPT ![p] = IF conn[p] = "open" THEN Reply("bye") ELSE @]
                   \/ p \in Slow /\ UNCHANGED last
                /\ UNCHANGED proc
        /\ UNCHANGED mine
-----------------------------------------------------------------------------
\* The array holds exactly the open descriptors, each once, and every event of
\* the batch is about an open one, through removals and reused numbers.
ListIsOpen ==
    /\ Open = {clients[i].fd : i \in DOMAIN clients}
    /\ \A i, j \in DOMAIN clients : i # j => clients[i].fd # clients[j].fd
    /\ batch \ {Listen} \subseteq Open
=============================================================================
