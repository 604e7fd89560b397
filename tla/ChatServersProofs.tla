------------------------- MODULE ChatServersProofs -------------------------
(***************************************************************************)
(* Theorems about the single-threaded chat servers of labs 04, 14, 17 and  *)
(* 18 and the logger of lab 05, for any number of peers, descriptors,      *)
(* lines, words and slots.  They are stated for the composition            *)
(* MCChatServers, in which one of the five runs.                           *)
(***************************************************************************)
EXTENDS MCChatServers, TLAPS

Conns == {"idle", "open", "closed", "reset", "broken", "done"}
Over == {"closed", "reset", "broken"}
Arrays == {14, 17, 18}

\* An entry of the array of clients in each lab.
EntryOf(l) == IF l = 14 THEN [fd : Fds]
              ELSE IF l = 17 THEN [fd : Fds, name : Words]
              ELSE [fd : Fds, name : Words, room : Words]

\* The types of the variables the proofs are about: the network's, and each
\* server's own.
NetTypes ==
    /\ fds \in [Fds -> Peers \cup {None}]
    /\ conn \in [Peers -> Conns]
    /\ inq \in [Peers -> Seq(LinesOf(lab))]
    /\ nsent \in Nat
    /\ backlog \in Seq(Peers)
    /\ DOMAIN last = Peers
FlagTypes == clients \in [Fds -> {0, 1}]
SlotTypes == clients \in [1..MaxClients -> 0..MaxFd]
ArrayTypes ==
    /\ clients \in Seq(EntryOf(lab))
    /\ mine \in [Peers -> [name : Words, room : Words]]
Types ==
    /\ lab \in {4, 5, 14, 17, 18} /\ NetTypes
    /\ lab = 4 => FlagTypes
    /\ lab = 5 => SlotTypes
    /\ lab \in Arrays => ArrayTypes

\* A peer is in one place: not connected yet, waiting to be accepted (once), or
\* behind one descriptor.
OnePlace ==
    /\ \A f \in Fds : fds[f] # None => conn[fds[f]] # "idle"
    /\ \A f, g \in Fds : fds[f] # None /\ fds[f] = fds[g] => f = g
    /\ \A i \in DOMAIN backlog : conn[backlog[i]] # "idle" /\ \A f \in Fds : fds[f] # backlog[i]
    /\ \A i, j \in DOMAIN backlog : i # j => backlog[i] # backlog[j]

\* Who has not been accepted has set no name and no room.
Blank(p) == mine[p] = [name |-> Empty, room |-> Empty]
Fresh == lab \in Arrays =>
    /\ \A p \in Peers : conn[p] = "idle" => Blank(p)
    /\ \A i \in DOMAIN backlog : Blank(backlog[i])

\* An entry has what its connection set last.
Own ==
    /\ lab \in {17, 18} => \A i \in DOMAIN clients : clients[i].name = mine[fds[clients[i].fd]].name
    /\ lab = 18 => \A i \in DOMAIN clients : clients[i].room = mine[fds[clients[i].fd]].room
-----------------------------------------------------------------------------
(* What the servers' steps do, in terms of what they have in common.       *)

\* Connections are made or ended, as seen by recv, by no send.
ConnKept ==
    /\ conn' \in [Peers -> Conns]
    /\ \A p \in Peers : /\ conn'[p] = "idle" <=> conn[p] = "idle"
                        /\ conn'[p] \in Over <=> conn[p] \in Over

\* accept gives f to the first of the backlog.
NewClient(f) ==
    /\ backlog # <<>> /\ f \in Fds \ Open
    /\ fds' = [fds EXCEPT ![f] = Head(backlog)] /\ backlog' = Tail(backlog)
    /\ batch' = batch \ {Listen} /\ ready \subseteq ready'
    /\ lab # 5 /\ (inq[Head(backlog)] # <<>> \/ Ended(Head(backlog))) => f \in ready'
    /\ ConnKept /\ DOMAIN last' = Peers /\ UNCHANGED <<inq, nsent>>

\* The event of f is answered by a recv that returns lines.
Handled(f) ==
    /\ f \in Fds /\ f \in Open /\ inq[fds[f]] # <<>> /\ Consume(f)
    /\ batch' = batch \ {f} /\ ready \subseteq ready'
    /\ ConnKept /\ DOMAIN last' = Peers /\ UNCHANGED <<fds, nsent, backlog>>

\* The event of f ends with its close().
Gone(f) ==
    /\ f \in Fds /\ f \in Open /\ CloseFd(f) /\ batch' = batch \ {f}
    /\ inq' = inq \/ (inq[fds[f]] # <<>> /\ Consume(f))
    /\ DOMAIN last' = Peers /\ UNCHANGED <<nsent, backlog>>

\* The text m of a room may be sent to p, the private message m may be sent to p.
ToRoom(p, m) == m.kind = "text" =>
    \E i \in DOMAIN clients :
       fds[clients[i].fd] = p /\ clients[i].room = m.room /\ clients[i].room # Empty
ToName(p, m) == m.kind = "pm" =>
    \E i \in DOMAIN clients :
       fds[clients[i].fd] = p /\ clients[i].name = m.to /\ clients[i].name # Empty
Right(p, m) == (lab = 18 => ToRoom(p, m)) /\ (lab = 17 => ToName(p, m))

\* Whoever receives something receives what may be sent to it.
Sends == \A p \in Peers : last'[p] = last[p] \/ Right(p, last'[p])

\* The peer behind f changes its name or room to w.
Sets(f, field, w) ==
    /\ SetEntry(f, field, w) /\ w \in Words
    /\ \/ lab \in {17, 18} /\ field = "name"
       \/ lab = 18 /\ field = "room"

\* Descriptors and batches as they were: nothing but the batch and what is
\* ready changes, and no open descriptor is forgotten.
Waits ==
    /\ UNCHANGED <<fds, conn, inq, nsent, backlog, last>>
    /\ \/ batch' \subseteq batch /\ batch \ {Listen} \subseteq batch' /\ UNCHANGED ready
       \/ batch = {} /\ ready' = {} /\ batch' \ {Listen} = {f \in ready : Readable(f)}

\* accept's new entry, without a name or a room.
Appended(f) ==
    \E e \in EntryOf(lab) :
       /\ e.fd = f /\ (lab \in {17, 18} => e.name = Empty) /\ (lab = 18 => e.room = Empty)
       /\ clients' = Append(clients, e)

\* What a step of the servers with an array of clients does.
ArrayEffect ==
    \/ Waits /\ UNCHANGED arrayVars
    \/ \E f \in Fds : NewClient(f) /\ Appended(f) /\ Sends /\ UNCHANGED mine
    \/ \E f \in Fds : /\ Handled(f) /\ Sends
                      /\ \/ UNCHANGED arrayVars
                         \/ \E field \in {"name", "room"}, w \in Words : Sets(f, field, w)
    \/ \E f \in Fds : Gone(f) /\ clients' = Without(f) /\ Sends /\ UNCHANGED mine

\* A send ends no connection and reaches only whom it is for.
LEMMA SendKeeps ==
    ASSUME conn \in [Peers -> Conns], DOMAIN last = Peers, NEW P, NEW msg, Send(P, msg)
    PROVE  /\ ConnKept /\ DOMAIN last' = Peers
           /\ \A p \in Peers : last'[p] = last[p] \/ (p \in P /\ last'[p] = msg[p])
<1>1. CASE \E p \in P : conn[p] = "broken" BY <1>1 DEF Send, ConnKept
<1>2. CASE ~\E p \in P : conn[p] = "broken"
  <2>1. PICK lost \in SUBSET (P \cap Slow) :
           last' = [p \in Peers |-> IF p \in P \ lost /\ conn[p] = "open" THEN msg[p] ELSE last[p]]
    BY <1>2 DEF Send
  <2>2. conn' = [p \in Peers |-> IF p \in P /\ Ended(p) THEN "broken" ELSE conn[p]]
    BY <1>2 DEF Send
  <2>3. ConnKept BY <2>2 DEF ConnKept, Conns, Over, Ended
  <2> QED BY <2>1, <2>3
<1> QED BY <1>1, <1>2


\* Sending each peer what may be sent to it.
LEMMA SendIsRight ==
    ASSUME conn \in [Peers -> Conns], DOMAIN last = Peers, NEW P, NEW msg, Send(P, msg),
           \A p \in P : Right(p, msg[p])
    PROVE  ConnKept /\ DOMAIN last' = Peers /\ Sends
<1>1. \A p \in Peers : last'[p] = last[p] \/ (p \in P /\ last'[p] = msg[p]) BY SendKeeps
<1>2. ConnKept /\ DOMAIN last' = Peers BY SendKeeps
<1> QED BY <1>1, <1>2 DEF Sends

\* The operators that labs 14, 17 and 18 take from EpollLoop and ClientArray.
LEMMA Same14 ==
    ASSUME NEW f \in Fds
    PROVE  /\ L14!HangUp(f) => HangUp(f)
           /\ \A cmd : L14!Recv(f, cmd) => Recv(f, cmd)
           /\ \A P, msg : L14!Send(P, msg) => Send(P, msg)
           /\ \A P, note : L14!Tell(P, note) => Tell(P, note)
           /\ L14!EpollWait \/ L14!AcceptFails => Waits
           /\ L14!AcceptAs(f) => AcceptAs(f)
           /\ \A p : L14!ReadyWith(f, p) = ReadyWith(f, p)
<1> USE DEF loopVars, arrayVars, L14!loopVars, L14!arrayVars, L14!Fds, Fds, L14!Listen, Listen,
            L14!Open, Open, L14!FdOf, FdOf, L14!Ended, Ended, L14!Event, Event
<1>1. L14!HangUp(f) => HangUp(f)
  BY DEF L14!HangUp, HangUp, L14!RemoveClient, RemoveClient, L14!Without, Without, L14!Entry, Entry,
         L14!CloseFd, CloseFd, L14!CloseFds, CloseFds
<1>2. \A cmd : L14!Recv(f, cmd) => Recv(f, cmd)
  BY DEF L14!Recv, Recv, L14!Consume, Consume, L14!Received, Received
<1>3. \A P, msg : L14!Send(P, msg) => Send(P, msg) BY DEF L14!Send, Send
<1>4. \A P : L14!ResetBy(P) = ResetBy(P) BY DEF L14!ResetBy, ResetBy
<1>5. \A P, note : L14!Tell(P, note) => Tell(P, note) BY <1>3, <1>4 DEF L14!Tell, Tell
<1>6. L14!EpollWait \/ L14!AcceptFails => Waits
  BY DEF L14!EpollWait, L14!Readable, Readable, Waits, L14!AcceptFails
<1>7. L14!AcceptAs(f) => AcceptAs(f) BY DEF L14!AcceptAs, AcceptAs, L14!Lowest, Lowest
<1>8. \A p : L14!ReadyWith(f, p) = ReadyWith(f, p) BY DEF L14!ReadyWith, ReadyWith
<1> QED BY <1>1, <1>2, <1>3, <1>5, <1>6, <1>7, <1>8

\* The same for lab 17, with the commands.
LEMMA Same17 ==
    ASSUME NEW f \in Fds
    PROVE  /\ L17!HangUp(f) => HangUp(f)
           /\ \A cmd : L17!Recv(f, cmd) => Recv(f, cmd)
           /\ \A P, msg : L17!Send(P, msg) => Send(P, msg)
           /\ \A P, note : L17!Tell(P, note) => Tell(P, note)
           /\ L17!EpollWait \/ L17!AcceptFails => Waits
           /\ L17!AcceptAs(f) => AcceptAs(f)
           /\ \A p : L17!ReadyWith(f, p) = ReadyWith(f, p)
           /\ L17!Bye(f) => Bye(f)
           /\ \A field, w : L17!SetEntry(f, field, w) => SetEntry(f, field, w)
           /\ L17!Entry(f) = Entry(f) /\ L17!Arg(f) = Arg(f)
           /\ \A w : L17!Stored(w) = Stored(w)
           /\ \A what : L17!Reply(what) = Reply(what)
<1> USE DEF loopVars, arrayVars, L17!loopVars, L17!arrayVars, L17!Fds, Fds, L17!Listen, Listen,
            L17!Open, Open, L17!FdOf, FdOf, L17!Ended, Ended, L17!Event, Event
<1>1. L17!HangUp(f) => HangUp(f)
  BY DEF L17!HangUp, HangUp, L17!RemoveClient, RemoveClient, L17!Without, Without, L17!Entry, Entry,
         L17!CloseFd, CloseFd, L17!CloseFds, CloseFds
<1>2. \A cmd : L17!Recv(f, cmd) => Recv(f, cmd)
  BY DEF L17!Recv, Recv, L17!Consume, Consume, L17!Received, Received
<1>3. \A P, msg : L17!Send(P, msg) => Send(P, msg) BY DEF L17!Send, Send
<1>4. \A P : L17!ResetBy(P) = ResetBy(P) BY DEF L17!ResetBy, ResetBy
<1>5. \A P, note : L17!Tell(P, note) => Tell(P, note) BY <1>3, <1>4 DEF L17!Tell, Tell
<1>6. L17!EpollWait \/ L17!AcceptFails => Waits
  BY DEF L17!EpollWait, L17!Readable, Readable, Waits, L17!AcceptFails
<1>7. L17!AcceptAs(f) => AcceptAs(f) BY DEF L17!AcceptAs, AcceptAs, L17!Lowest, Lowest
<1>8. \A p : L17!ReadyWith(f, p) = ReadyWith(f, p) BY DEF L17!ReadyWith, ReadyWith
<1>9. \A what : L17!Reply(what) = Reply(what) BY DEF L17!Reply, Reply
<1>10. L17!Bye(f) => Bye(f)
  BY <1>9 DEF L17!Bye, Bye, L17!RemoveClient, RemoveClient, L17!Without, Without, L17!Entry, Entry,
         L17!CloseFd, CloseFd, L17!CloseFds, CloseFds
<1>11. \A field, w : L17!SetEntry(f, field, w) => SetEntry(f, field, w)
  BY DEF L17!SetEntry, SetEntry, L17!Entry, Entry
<1>12. L17!Entry(f) = Entry(f) /\ L17!Arg(f) = Arg(f) BY DEF L17!Entry, Entry, L17!Arg, Arg
<1>13. \A w : L17!Stored(w) = Stored(w) BY DEF L17!Stored, Stored
<1> QED BY <1>1, <1>2, <1>3, <1>5, <1>6, <1>7, <1>8, <1>9, <1>10, <1>11, <1>12, <1>13

\* The same for lab 18, with the commands.
LEMMA Same18 ==
    ASSUME NEW f \in Fds
    PROVE  /\ L18!HangUp(f) => HangUp(f)
           /\ \A cmd : L18!Recv(f, cmd) => Recv(f, cmd)
           /\ \A P, msg : L18!Send(P, msg) => Send(P, msg)
           /\ \A P, note : L18!Tell(P, note) => Tell(P, note)
           /\ L18!EpollWait \/ L18!AcceptFails => Waits
           /\ L18!AcceptAs(f) => AcceptAs(f)
           /\ \A p : L18!ReadyWith(f, p) = ReadyWith(f, p)
           /\ L18!Bye(f) => Bye(f)
           /\ \A P, note, answer : L18!TellBoth(P, note, f, answer) => TellBoth(P, note, f, answer)
           /\ \A field, w : L18!SetEntry(f, field, w) => SetEntry(f, field, w)
           /\ L18!Entry(f) = Entry(f) /\ L18!Arg(f) = Arg(f)
           /\ \A w : L18!Stored(w) = Stored(w)
           /\ \A what : L18!Reply(what) = Reply(what)
<1> USE DEF loopVars, arrayVars, L18!loopVars, L18!arrayVars, L18!Fds, Fds, L18!Listen, Listen,
            L18!Open, Open, L18!FdOf, FdOf, L18!Ended, Ended, L18!Event, Event
<1>1. L18!HangUp(f) => HangUp(f)
  BY DEF L18!HangUp, HangUp, L18!RemoveClient, RemoveClient, L18!Without, Without, L18!Entry, Entry,
         L18!CloseFd, CloseFd, L18!CloseFds, CloseFds
<1>2. \A cmd : L18!Recv(f, cmd) => Recv(f, cmd)
  BY DEF L18!Recv, Recv, L18!Consume, Consume, L18!Received, Received
<1>3. \A P, msg : L18!Send(P, msg) => Send(P, msg) BY DEF L18!Send, Send
<1>4. \A P : L18!ResetBy(P) = ResetBy(P) BY DEF L18!ResetBy, ResetBy
<1>5. \A P, note : L18!Tell(P, note) => Tell(P, note) BY <1>3, <1>4 DEF L18!Tell, Tell
<1>6. L18!EpollWait \/ L18!AcceptFails => Waits
  BY DEF L18!EpollWait, L18!Readable, Readable, Waits, L18!AcceptFails
<1>7. L18!AcceptAs(f) => AcceptAs(f) BY DEF L18!AcceptAs, AcceptAs, L18!Lowest, Lowest
<1>8. \A p : L18!ReadyWith(f, p) = ReadyWith(f, p) BY DEF L18!ReadyWith, ReadyWith
<1>9. \A what : L18!Reply(what) = Reply(what) BY DEF L18!Reply, Reply
<1>10. L18!Bye(f) => Bye(f)
  BY <1>9 DEF L18!Bye, Bye, L18!RemoveClient, RemoveClient, L18!Without, Without, L18!Entry, Entry,
         L18!CloseFd, CloseFd, L18!CloseFds, CloseFds
<1>11. \A field, w : L18!SetEntry(f, field, w) => SetEntry(f, field, w)
  BY DEF L18!SetEntry, SetEntry, L18!Entry, Entry
<1>12. L18!Entry(f) = Entry(f) /\ L18!Arg(f) = Arg(f) BY DEF L18!Entry, Entry, L18!Arg, Arg
<1>13. \A w : L18!Stored(w) = Stored(w) BY DEF L18!Stored, Stored
<1>14. \A P, note, answer : L18!TellBoth(P, note, f, answer) => TellBoth(P, note, f, answer)
  BY <1>3, <1>4 DEF L18!TellBoth, TellBoth
<1> QED BY <1>1, <1>2, <1>3, <1>5, <1>6, <1>7, <1>8, <1>9, <1>10, <1>11, <1>12, <1>13, <1>14


\* A hang-up closes the descriptor and removes its entry.
LEMMA HangUpEffect ==
    ASSUME Types, NEW f \in Fds, HangUp(f) PROVE ArrayEffect
<1>1. Gone(f) BY DEF HangUp, RemoveClient, Gone, Event, Types, NetTypes
<1>2. Sends BY DEF HangUp, Sends
<1> QED BY <1>1, <1>2 DEF HangUp, RemoveClient, ArrayEffect

\* A recv that returned lines, with what was sent for it.
LEMMA Handles ==
    ASSUME Types, NEW f \in Fds, NEW cmd, Recv(f, cmd), ready \subseteq ready', UNCHANGED fds,
           ConnKept, DOMAIN last' = Peers
    PROVE  Handled(f)
  BY DEF Recv, Event, Handled

\* One message to several peers.
LEMMA Tells ==
    ASSUME Types, NEW P, NEW note, Tell(P, note), \A p \in P : Right(p, note)
    PROVE  ConnKept /\ DOMAIN last' = Peers /\ Sends /\ ready \subseteq ready'
<1> DEFINE msg == [q \in P |-> note]
<1>1. Send(P, msg) /\ ready \subseteq ready' BY DEF Tell
<1>2. \A p \in P : Right(p, msg[p]) OBVIOUS
<1> HIDE DEF msg
<1> QED BY <1>1, <1>2, SendIsRight DEF Types, NetTypes

\* /quit: the connection is closed and its entry removed, or the server ends.
LEMMA QuitEffect ==
    ASSUME Types, NEW f \in Fds, NEW cmd, Recv(f, cmd), Bye(f) PROVE ArrayEffect
<1> DEFINE p == fds[f]
<1>0. f \in Open /\ p \in Peers BY DEF Recv, Open, Types, NetTypes
<1>1. CASE conn[p] = "broken"
  <2>1. UNCHANGED <<clients, fds, conn, ready, last, mine>> BY <1>1 DEF Bye
  <2>2. Handled(f) BY <2>1, Handles DEF ConnKept, Types, NetTypes
  <2>3. Sends BY <2>1 DEF Sends
  <2> QED BY <2>1, <2>2, <2>3 DEF ArrayEffect, arrayVars
<1>2. CASE conn[p] # "broken"
  <2>1. RemoveClient(f) /\ UNCHANGED mine BY <1>2 DEF Bye
  <2>2. last' = last \/ last' = [last EXCEPT ![p] = IF conn[p] = "open" THEN Reply("bye") ELSE @]
    BY <1>2 DEF Bye
  <2>3. Gone(f) BY <1>0, <2>1, <2>2 DEF RemoveClient, Gone, Event, Recv, Types, NetTypes
  <2>4. Sends BY <1>0, <2>2 DEF Sends, Right, ToRoom, ToName, Reply, Types, NetTypes
  <2> QED BY <2>1, <2>3, <2>4 DEF RemoveClient, ArrayEffect
<1> QED BY <1>1, <1>2

\* The server of lab 14.
LEMMA Steps14 ==
    ASSUME Types, lab = 14, L14!Server PROVE ArrayEffect
<1> USE DEF L14!arrayVars, arrayVars
<1>1. CASE (L14!EpollWait \/ L14!AcceptFails) /\ UNCHANGED arrayVars
  <2>1. 1 \in Fds BY LoopBounds DEF Fds
  <2> QED BY <1>1, <2>1, Same14 DEF ArrayEffect
<1>3. ASSUME NEW f \in Fds, L14!Accept(f) PROVE ArrayEffect
  <2> DEFINE P == L14!Audience(f)
  <2> USE <1>3 DEF L14!Accept
  <2>1. Send(P, [q \in P |-> [kind |-> "joined"]]) BY Same14
  <2>2. ConnKept /\ DOMAIN last' = Peers /\ Sends BY <2>1, SendIsRight DEF Types, NetTypes, Right
  <2>3. Appended(f) BY DEF Appended, EntryOf
  <2>4. AcceptAs(f) /\ ReadyWith(f, Head(backlog)) \subseteq ready' BY Same14
  <2>5. NewClient(f) BY <2>2, <2>4 DEF NewClient, AcceptAs, Lowest, ReadyWith, L14!Event, L14!Listen, Listen
  <2> QED BY <2>2, <2>3, <2>5 DEF ArrayEffect
<1>4. ASSUME NEW f \in Fds, L14!Message(f) PROVE ArrayEffect
  <2>1. Recv(f, "text") /\ Tell(L14!Audience(f), [kind |-> "text"]) /\ UNCHANGED <<fds, arrayVars>>
    BY <1>4, Same14 DEF L14!Message
  <2>2. ConnKept /\ DOMAIN last' = Peers /\ Sends /\ ready \subseteq ready' BY <2>1, Tells DEF Right
  <2>3. Handled(f) BY <2>1, <2>2, Handles
  <2> QED BY <2>1, <2>2, <2>3 DEF ArrayEffect
<1>5. ASSUME NEW f \in Fds, L14!Disconnect(f) PROVE ArrayEffect
  BY <1>5, Same14, HangUpEffect DEF L14!Disconnect
<1>6. L14!Fds = Fds BY DEF L14!Fds, Fds
<1> QED BY <1>1, <1>3, <1>4, <1>5, <1>6 DEF L14!Server

\* The word of a line fits its array or is a longer one; /msg is never without
\* a name (strtok returns none that is empty).
LEMMA LineWords ==
    ASSUME Types, NEW f \in Fds, NEW cmd, Recv(f, cmd), lab \in {17, 18}
    PROVE  /\ Stored(Arg(f)) \in Words
           /\ lab = 17 /\ cmd = "msg" => Arg(f) # Empty
<1> DEFINE line == Head(inq[fds[f]])
<1>1. line \in LinesOf(lab) /\ line.cmd = cmd
  <2>1. fds[f] \in Peers /\ inq[fds[f]] # <<>> BY DEF Recv, Open, Types, NetTypes
  <2>2. inq[fds[f]] \in Seq(LinesOf(lab)) BY <2>1 DEF Types, NetTypes
  <2> QED BY <2>1, <2>2 DEF Recv
<1> HIDE DEF line
<1>2. line.arg \in Words \cup LongWords
  BY <1>1, WordsAssumption DEF LinesOf, Plain
<1>3. ASSUME lab = 17, cmd = "msg" PROVE line.arg \in {Prefix} \cup LongWords
  BY <1>1, <1>3 DEF LinesOf, Plain
<1> QED BY <1>2, <1>3, WordsAssumption DEF line, Arg, Stored

\* A command answered to its sender only, or announced to several.
LEMMA TellEffect ==
    ASSUME Types, NEW f \in Fds, NEW cmd, Recv(f, cmd), UNCHANGED fds,
           NEW P, NEW note, Tell(P, note), \A p \in P : Right(p, note),
           \/ UNCHANGED arrayVars
           \/ \E field \in {"name", "room"}, w \in Words : Sets(f, field, w)
    PROVE  ArrayEffect
<1>1. ConnKept /\ DOMAIN last' = Peers /\ Sends /\ ready \subseteq ready' BY Tells
<1>2. Handled(f) BY <1>1, Handles
<1> QED BY <1>1, <1>2 DEF ArrayEffect

\* Nothing but a text or a private message is restricted.
LEMMA RightReply == \A p, what : Right(p, Reply(what))
  BY DEF Right, ToRoom, ToName, Reply

\* The server of lab 17.
LEMMA Steps17 ==
    ASSUME Types, lab = 17, L17!Server PROVE ArrayEffect
<1> USE DEF L17!arrayVars, arrayVars
<1>1. CASE (L17!EpollWait \/ L17!AcceptFails) /\ UNCHANGED arrayVars
  <2>1. 1 \in Fds BY LoopBounds DEF Fds
  <2> QED BY <1>1, <2>1, Same17 DEF ArrayEffect
<1>2. ASSUME NEW f \in Fds, L17!Accept(f) PROVE ArrayEffect
  <2> DEFINE P == L17!Others(f)
  <2> USE <1>2 DEF L17!Accept
  <2>1. Send(P, [q \in P |-> [kind |-> "joined"]]) BY Same17
  <2>2. ConnKept /\ DOMAIN last' = Peers /\ Sends BY <2>1, SendIsRight DEF Types, NetTypes, Right, ToName
  <2>3. Appended(f) BY WordsAssumption DEF Appended, EntryOf
  <2>4. AcceptAs(f) /\ ReadyWith(f, Head(backlog)) \subseteq ready' BY Same17
  <2>5. NewClient(f) BY <2>2, <2>4 DEF NewClient, AcceptAs, Lowest, ReadyWith, L17!Event, L17!Listen, Listen
  <2> QED BY <2>2, <2>3, <2>5 DEF ArrayEffect
<1>3. ASSUME NEW f \in Fds, L17!Nick(f) PROVE ArrayEffect
  <2>1. Recv(f, "nick") /\ SetEntry(f, "name", Stored(Arg(f))) /\ Tell({fds[f]}, Reply("nick")) /\ UNCHANGED fds
    BY <1>3, Same17 DEF L17!Nick
  <2>2. Sets(f, "name", Stored(Arg(f))) /\ Stored(Arg(f)) \in Words BY <2>1, LineWords DEF Sets
  <2> QED BY <2>1, <2>2, TellEffect, RightReply
<1>4. ASSUME NEW f \in Fds, L17!List(f) PROVE ArrayEffect
  <2> DEFINE note == [kind |-> "list", names |-> {clients[i].name : i \in DOMAIN clients}]
  <2>1. Recv(f, "list") /\ Tell({fds[f]}, note) /\ UNCHANGED <<fds, arrayVars>>
    BY <1>4, Same17 DEF L17!List
  <2>2. \A p : Right(p, note) BY DEF Right, ToRoom, ToName
  <2> QED BY <2>1, <2>2, TellEffect
<1>5. ASSUME NEW f \in Fds, L17!Msg(f) PROVE ArrayEffect
  <2> DEFINE P == {fds[clients[i].fd] : i \in L17!Named(Arg(f))}
             note == [kind |-> "pm", to |-> Arg(f)]
  <2>1. /\ Recv(f, "msg") /\ UNCHANGED <<fds, arrayVars>>
        /\ Tell({fds[f]}, Reply("not found")) \/ Tell(P, note)
    BY <1>5, Same17 DEF L17!Msg
  <2>2. Arg(f) # Empty BY <2>1, LineWords
  <2>3. \A p \in P : Right(p, note) BY <2>2 DEF Right, ToName, L17!Named
  <2>4. CASE Tell(P, note)
    <3> HIDE DEF P, note
    <3> QED BY <2>1, <2>3, <2>4, TellEffect
  <2>5. CASE Tell({fds[f]}, Reply("not found")) BY <2>1, <2>5, TellEffect, RightReply
  <2> QED BY <2>1, <2>4, <2>5
<1>6. ASSUME NEW f \in Fds, L17!Usage(f) PROVE ArrayEffect
  BY <1>6, Same17, TellEffect, RightReply DEF L17!Usage
<1>7. ASSUME NEW f \in Fds, L17!Quit(f) PROVE ArrayEffect BY <1>7, Same17, QuitEffect DEF L17!Quit
<1>8. ASSUME NEW f \in Fds, L17!Unknown(f) PROVE ArrayEffect
  BY <1>8, Same17, TellEffect, RightReply DEF L17!Unknown
<1>9. ASSUME NEW f \in Fds, L17!Text(f) PROVE ArrayEffect
  <2> DEFINE note == [kind |-> "text", name |-> clients[Entry(f)].name]
  <2>1. Recv(f, "text") /\ Tell(L17!Others(f), note) /\ UNCHANGED <<fds, arrayVars>>
    BY <1>9, Same17 DEF L17!Text
  <2>2. \A p : Right(p, note) BY DEF Right, ToName
  <2> QED BY <2>1, <2>2, TellEffect
<1>10. ASSUME NEW f \in Fds, L17!HangUp(f) PROVE ArrayEffect BY <1>10, Same17, HangUpEffect
<1>11. L17!Fds = Fds BY DEF L17!Fds, Fds
<1> QED BY <1>1, <1>2, <1>3, <1>4, <1>5, <1>6, <1>7, <1>8, <1>9, <1>10, <1>11 DEF L17!Server, L17!HandleCommand

\* A notice to several peers and an answer to the sender.
LEMMA TellBothEffect ==
    ASSUME Types, NEW f \in Fds, NEW cmd, Recv(f, cmd), UNCHANGED fds,
           NEW P, NEW note, NEW answer, TellBoth(P, note, f, answer),
           \A p : Right(p, note) /\ Right(p, answer),
           \/ UNCHANGED arrayVars
           \/ \E field \in {"name", "room"}, w \in Words : Sets(f, field, w)
    PROVE  ArrayEffect
<1> DEFINE Q == P \cup {fds[f]}
           msg == [q \in Q |-> IF q = fds[f] THEN answer ELSE note]
<1>1. Send(Q, msg) /\ ready \subseteq ready' BY DEF TellBoth
<1>2. \A p \in Q : Right(p, msg[p]) OBVIOUS
<1> HIDE DEF msg, Q
<1>3. ConnKept /\ DOMAIN last' = Peers /\ Sends BY <1>1, <1>2, SendIsRight DEF Types, NetTypes
<1>4. Handled(f) BY <1>1, <1>3, Handles
<1> QED BY <1>3, <1>4 DEF ArrayEffect

\* The server of lab 18.
LEMMA Steps18 ==
    ASSUME Types, lab = 18, L18!Server PROVE ArrayEffect
<1> USE DEF L18!arrayVars, arrayVars
<1>1. CASE (L18!EpollWait \/ L18!AcceptFails) /\ UNCHANGED arrayVars
  <2>1. 1 \in Fds BY LoopBounds DEF Fds
  <2> QED BY <1>1, <2>1, Same18 DEF ArrayEffect
<1>2. ASSUME NEW f \in Fds, L18!Accept(f) PROVE ArrayEffect
  <2> DEFINE p == Head(backlog)
             msg == [q \in {p} |-> Reply("welcome")]
  <2> USE <1>2 DEF L18!Accept
  <2>1. Send({p}, msg) BY Same18
  <2>2. \A q \in {p} : Right(q, msg[q]) BY RightReply
  <2>3. ConnKept /\ DOMAIN last' = Peers /\ Sends
    <3> HIDE DEF msg
    <3> QED BY <2>1, <2>2, SendIsRight DEF Types, NetTypes
  <2>4. Appended(f) BY WordsAssumption DEF Appended, EntryOf, L18!NewEntry
  <2>5. AcceptAs(f) /\ ReadyWith(f, p) = ready' BY Same18
  <2>6. NewClient(f) BY <2>3, <2>5 DEF NewClient, AcceptAs, Lowest, ReadyWith, L18!Event, L18!Listen, Listen
  <2> QED BY <2>3, <2>4, <2>6 DEF ArrayEffect
<1>3. ASSUME NEW f \in Fds, L18!Nick(f) PROVE ArrayEffect
  <2>1. Recv(f, "nick") /\ SetEntry(f, "name", Stored(Arg(f))) /\ Tell({fds[f]}, Reply("nick")) /\ UNCHANGED fds
    BY <1>3, Same18 DEF L18!Nick
  <2>2. Sets(f, "name", Stored(Arg(f))) /\ Stored(Arg(f)) \in Words BY <2>1, LineWords DEF Sets
  <2> QED BY <2>1, <2>2, TellEffect, RightReply
<1>4. ASSUME NEW f \in Fds, L18!Join(f) PROVE ArrayEffect
  <2> DEFINE note == [kind |-> "joined", name |-> L18!Self(f).name]
             P == L18!Members(Arg(f), f)
  <2>1. /\ Recv(f, "join") /\ SetEntry(f, "room", Stored(Arg(f))) /\ UNCHANGED fds
        /\ TellBoth(P, note, f, Reply("joined"))
    BY <1>4, Same18 DEF L18!Join
  <2>2. Sets(f, "room", Stored(Arg(f))) /\ Stored(Arg(f)) \in Words BY <2>1, LineWords DEF Sets
  <2>3. \A p : Right(p, note) BY DEF Right, ToRoom
  <2> HIDE DEF P, note
  <2> QED BY <2>1, <2>2, <2>3, TellBothEffect, RightReply
<1>5. ASSUME NEW f \in Fds, L18!Leave(f) PROVE ArrayEffect
  <2> DEFINE note == [kind |-> "left", name |-> L18!Self(f).name]
             P == L18!Members(L18!Self(f).room, f)
  <2>1. /\ Recv(f, "leave") /\ SetEntry(f, "room", Empty) /\ UNCHANGED fds
        /\ TellBoth(P, note, f, Reply("left")) \/ Tell({fds[f]}, Reply("not in any room"))
    BY <1>5, Same18 DEF L18!Leave
  <2>2. Sets(f, "room", Empty) /\ Empty \in Words BY <2>1, WordsAssumption DEF Sets
  <2>3. \A p : Right(p, note) BY DEF Right, ToRoom
  <2> HIDE DEF P, note
  <2>4. CASE TellBoth(P, note, f, Reply("left")) BY <2>1, <2>2, <2>3, <2>4, TellBothEffect, RightReply
  <2>5. CASE Tell({fds[f]}, Reply("not in any room")) BY <2>1, <2>2, <2>5, TellEffect, RightReply
  <2> QED BY <2>1, <2>4, <2>5
<1>6. ASSUME NEW f \in Fds, L18!List(f) PROVE ArrayEffect
  <2> DEFINE present == {i \in DOMAIN clients : clients[i].room = L18!Self(f).room}
             note == [kind |-> "list", names |-> {clients[i].name : i \in present}]
  <2>1. Recv(f, "list") /\ Tell({fds[f]}, note) /\ UNCHANGED <<fds, arrayVars>>
    BY <1>6, Same18 DEF L18!List
  <2>2. \A p : Right(p, note) BY DEF Right, ToRoom
  <2> HIDE DEF note
  <2> QED BY <2>1, <2>2, TellEffect
<1>7. ASSUME NEW f \in Fds, L18!Quit(f) PROVE ArrayEffect BY <1>7, Same18, QuitEffect DEF L18!Quit
<1>8. ASSUME NEW f \in Fds, L18!Unknown(f) PROVE ArrayEffect
  BY <1>8, Same18, TellEffect, RightReply DEF L18!Unknown
<1>9. ASSUME NEW f \in Fds, L18!Text(f) PROVE ArrayEffect
  <2> DEFINE room == L18!Self(f).room
             P == L18!Members(room, f)
             note == [kind |-> "text", room |-> room]
  <2>1. /\ Recv(f, "text") /\ UNCHANGED <<fds, arrayVars>>
        /\ Tell({fds[f]}, Reply("join a room first")) \/ (room # Empty /\ Tell(P, note))
    BY <1>9, Same18 DEF L18!Text
  <2>2. room # Empty => \A p \in P : Right(p, note)
    BY DEF Right, ToRoom, L18!Members, L18!PeersOf
  <2> HIDE DEF P, note
  <2>3. CASE room # Empty /\ Tell(P, note) BY <2>1, <2>2, <2>3, TellEffect
  <2>4. CASE Tell({fds[f]}, Reply("join a room first")) BY <2>1, <2>4, TellEffect, RightReply
  <2> QED BY <2>1, <2>3, <2>4
<1>10. ASSUME NEW f \in Fds, L18!HangUp(f) PROVE ArrayEffect BY <1>10, Same18, HangUpEffect
<1>11. L18!Fds = Fds BY DEF L18!Fds, Fds
<1> QED BY <1>1, <1>2, <1>3, <1>4, <1>5, <1>6, <1>7, <1>8, <1>9, <1>10, <1>11 DEF L18!Server, L18!HandleCommand

\* What a step of lab 04 does.
FlagEffect ==
    \/ Waits /\ UNCHANGED clients
    \/ \E f \in Fds : NewClient(f) /\ clients' = [clients EXCEPT ![f] = 1]
    \/ \E f \in Fds : Handled(f) /\ UNCHANGED clients
    \/ \E f \in Fds : Gone(f) /\ clients' = [clients EXCEPT ![f] = 0]

\* The server of lab 04.
LEMMA Steps04 ==
    ASSUME Types, lab = 4, L04!Server PROVE FlagEffect
<1> USE DEF loopVars, L04!loopVars, L04!Fds, Fds, L04!Listen, Listen,
            L04!Open, Open, L04!FdOf, FdOf, L04!Ended, Ended, L04!Event, Event
<1>1. CASE (L04!EpollWait \/ L04!AcceptFails) /\ UNCHANGED clients
  BY <1>1 DEF L04!EpollWait, L04!AcceptFails, L04!Readable, Readable, Waits, FlagEffect
<1>2. ASSUME NEW f \in Fds, L04!Accept(f) PROVE FlagEffect
  <2>1. ConnKept BY <1>2 DEF L04!Accept, ConnKept, Types, NetTypes
  <2>2. NewClient(f)
    BY <1>2, <2>1 DEF L04!Accept, L04!AcceptAs, L04!Lowest, L04!ReadyWith, NewClient, Types, NetTypes
  <2> QED BY <1>2, <2>2 DEF L04!Accept, FlagEffect
<1>3. ASSUME NEW f \in Fds, L04!Disconnect(f) PROVE FlagEffect
  <2>1. Gone(f) BY <1>3 DEF L04!Disconnect, L04!CloseFd, L04!CloseFds, CloseFd, CloseFds, Gone, Types, NetTypes
  <2> QED BY <1>3, <2>1 DEF L04!Disconnect, FlagEffect
<1>4. ASSUME NEW f \in Fds, L04!Message(f) PROVE FlagEffect
  <2> DEFINE P == {fds[g] : g \in {h \in Fds : clients[h] = 1} \ {f}}
             msg == [q \in P |-> [kind |-> "text"]]
  <2>1. Send(P, msg) BY <1>4 DEF L04!Message, L04!Send, Send
  <2> HIDE DEF P, msg
  <2>2. ConnKept /\ DOMAIN last' = Peers BY <2>1, SendKeeps DEF Types, NetTypes
  <2>3. Consume(f) BY <1>4 DEF L04!Message, L04!Consume, Consume, L04!Received, Received
  <2>4. Handled(f) BY <1>4, <2>2, <2>3 DEF L04!Message, Handled
  <2> QED BY <1>4, <2>4 DEF L04!Message, FlagEffect
<1> QED BY <1>1, <1>2, <1>3, <1>4 DEF L04!Server

\* What a step of lab 05 does.
FirstFree(i) == clients[i] = 0 /\ \A j \in 1..i-1 : clients[j] # 0
SlotEffect ==
    \/ /\ UNCHANGED <<fds, conn, inq, nsent, backlog, last, clients>>
       /\ batch' \ {Listen} \subseteq {clients[i] : i \in 1..MaxClients} \cap Fds
    \/ \E f \in Fds : /\ NewClient(f)
                      /\ clients' = [i \in 1..MaxClients |-> IF FirstFree(i) THEN f ELSE clients[i]]
    \/ \E f \in Fds : Handled(f) /\ UNCHANGED clients
    \/ \E f \in Fds : /\ Gone(f)
                      /\ clients' = [i \in 1..MaxClients |-> IF clients[i] = f THEN 0 ELSE clients[i]]

\* The server of lab 05.
LEMMA Steps05 ==
    ASSUME Types, lab = 5, L05!SlotsAreOpen, L05!Server PROVE SlotEffect
<1> USE DEF loopVars, L05!loopVars, L05!Fds, Fds, L05!Listen, Listen,
            L05!Open, Open, L05!FdOf, FdOf, L05!Ended, Ended, L05!Event, Event, L05!Slots
<1>0. L05!Held = {clients[i] : i \in 1..MaxClients} \cap Fds
  BY LoopBounds DEF L05!Held, Types, SlotTypes
<1>1. CASE L05!Select BY <1>0, <1>1 DEF L05!Select, SlotEffect
<1>2. CASE L05!AcceptError BY <1>2 DEF L05!AcceptError, SlotEffect
<1>3. ASSUME NEW f \in Fds, L05!Accept(f) PROVE SlotEffect
  <2>1. ConnKept BY <1>3 DEF L05!Accept, ConnKept, Types, NetTypes
  <2>2. NewClient(f) BY <1>3, <2>1 DEF L05!Accept, L05!AcceptAs, L05!Lowest, NewClient, Types, NetTypes
  <2>3. clients' = [i \in 1..MaxClients |-> IF FirstFree(i) THEN f ELSE clients[i]]
    BY <1>3 DEF L05!Accept, FirstFree
  <2> QED BY <2>2, <2>3 DEF SlotEffect
<1>4. ASSUME NEW f \in Fds, L05!Disconnect(f) PROVE SlotEffect
  <2>1. f \in Open BY <1>4 DEF L05!Disconnect, L05!Slot, L05!SlotsAreOpen
  <2>2. Gone(f)
    BY <1>4, <2>1 DEF L05!Disconnect, L05!Slot, L05!CloseFd, L05!CloseFds, CloseFd, CloseFds, Gone, Types, NetTypes
  <2> QED BY <1>4, <2>2 DEF L05!Disconnect, SlotEffect
<1>5. ASSUME NEW f \in Fds, L05!LogLine(f) PROVE SlotEffect
  <2>1. f \in Open BY <1>5 DEF L05!LogLine, L05!Slot, L05!SlotsAreOpen
  <2>2. Consume(f) BY <1>5 DEF L05!LogLine, L05!Consume, Consume, L05!Received, Received
  <2>3. Handled(f) BY <1>5, <2>1, <2>2 DEF L05!LogLine, L05!Slot, Handled, ConnKept, Types, NetTypes
  <2> QED BY <1>5, <2>3 DEF L05!LogLine, SlotEffect
<1> QED BY <1>1, <1>2, <1>3, <1>4, <1>5 DEF L05!Server
-----------------------------------------------------------------------------
(* The network, for all five servers.                                      *)

\* What a step does to connections and descriptors.
Net ==
    \/ Waits
    \/ lab = 5 /\ UNCHANGED <<fds, conn, inq, nsent, backlog, last>>
    \/ \E f \in Fds : NewClient(f) \/ Handled(f) \/ Gone(f)
    \/ \E p \in Peers : PeerStep(p)

\* Every step, by the lab whose server runs.
LEMMA Frame ==
    ASSUME Types, TableIsOpen, [Next]_allVars
    PROVE  /\ UNCHANGED lab
           /\ \/ lab \in Arrays /\ ArrayEffect
              \/ lab = 4 /\ FlagEffect
              \/ lab = 5 /\ SlotEffect
              \/ (\E p \in Peers : PeerStep(p)) /\ UNCHANGED arrayVars
              \/ UNCHANGED vars
           /\ LeftBehind \/ UNCHANGED <<vars, left>>
<1>1. CASE UNCHANGED allVars BY <1>1 DEF allVars
<1>2. CASE Next
  <2>1. lab = 5 => L05!SlotsAreOpen BY DEF TableIsOpen
  <2> QED BY <1>2, <2>1, Steps04, Steps05, Steps14, Steps17, Steps18 DEF Next, Arrays
<1> QED BY <1>1, <1>2

\* Every step is one of the network effects, in whichever lab.
LEMMA NetFrame ==
    ASSUME Types, TableIsOpen, [Next]_allVars PROVE UNCHANGED lab /\ Net /\ (LeftBehind \/ UNCHANGED <<vars, left>>)
<1>1. ArrayEffect => Net BY DEF ArrayEffect, Net
<1>2. FlagEffect => Net BY DEF FlagEffect, Net
<1>3. lab = 5 /\ SlotEffect => Net BY DEF SlotEffect, Net
<1>4. UNCHANGED vars => Net BY DEF vars, loopVars, Net, Waits
<1> QED BY <1>1, <1>2, <1>3, <1>4, Frame DEF Net

\* recv takes something from one connection.
LEMMA ConsumeFacts ==
    ASSUME NetTypes, NEW f \in Open, inq[fds[f]] # <<>>, Consume(f)
    PROVE  /\ inq' \in [Peers -> Seq(LinesOf(lab))]
           /\ \A p \in Peers : p # fds[f] => inq'[p] = inq[p]
           /\ Len(inq'[fds[f]]) < Len(inq[fds[f]]) /\ Len(inq[fds[f]]) \in Nat
           /\ Len(inq'[fds[f]]) \in Nat
<1> DEFINE p == fds[f]
           q == inq[p]
           L == LinesOf(lab)
<1>1. p \in Peers /\ q \in Seq(L) /\ q # <<>> BY DEF NetTypes, Open
<1>2. Received(f) = SubSeq(q, 1, IF Len(q) < BufLines THEN Len(q) ELSE BufLines) BY DEF Received
<1> DEFINE k == Len(Received(f))
<1> HIDE DEF L
<1>3. k \in 1..Len(q) BY <1>1, <1>2, LoopBounds
<1>4. inq' = [inq EXCEPT ![p] = SubSeq(q, k + 1, Len(q))] BY DEF Consume
<1> HIDE DEF k, q
<1> DEFINE r == SubSeq(q, k + 1, Len(q))
<1>5. r \in Seq(L) /\ Len(r) < Len(q) /\ Len(r) \in Nat /\ Len(q) \in Nat BY <1>1, <1>3
<1> HIDE DEF r
<1>6. inq'[p] = r /\ \A o \in Peers : o # p => inq'[o] = inq[o] BY <1>1, <1>4 DEF NetTypes, r
<1>7. inq' \in [Peers -> Seq(L)]
  <2>1. inq \in [Peers -> Seq(L)] BY DEF NetTypes, L
  <2> QED BY <1>1, <1>4, <1>5, <2>1 DEF r
<1> QED BY <1>5, <1>6, <1>7 DEF L, q

\* The first of the backlog, and what is left of it.
LEMMA First ==
    ASSUME NetTypes, backlog # <<>>
    PROVE  /\ Head(backlog) \in Peers /\ Head(backlog) = backlog[1] /\ 1 \in DOMAIN backlog
           /\ Tail(backlog) \in Seq(Peers)
           /\ \A i \in DOMAIN Tail(backlog) :
                 i + 1 \in DOMAIN backlog /\ Tail(backlog)[i] = backlog[i + 1] /\ i + 1 # 1 /\ i \in Nat
  BY DEF NetTypes

\* A peer joins the backlog.
LEMMA Joined ==
    ASSUME NetTypes, NEW p \in Peers
    PROVE  /\ Append(backlog, p) \in Seq(Peers)
           /\ \A i \in DOMAIN Append(backlog, p) :
                 \/ i \in DOMAIN backlog /\ Append(backlog, p)[i] = backlog[i]
                 \/ i = Len(backlog) + 1 /\ Append(backlog, p)[i] = p
  BY DEF NetTypes

\* A line arrives.
LEMMA LineArrives ==
    ASSUME NetTypes, NEW p \in Peers, NEW line \in LinesOf(lab), PeerSend(p, line)
    PROVE  /\ inq' \in [Peers -> Seq(LinesOf(lab))]
           /\ \A o \in Peers : o # p => inq'[o] = inq[o]
<1> DEFINE L == LinesOf(lab)
<1>1. inq \in [Peers -> Seq(L)] /\ line \in L BY DEF NetTypes
<1> HIDE DEF L
<1>2. inq' = [inq EXCEPT ![p] = Append(inq[p], line)] BY DEF PeerSend
<1>3. Append(inq[p], line) \in Seq(L) BY <1>1
<1> QED BY <1>1, <1>2, <1>3 DEF L

\* Closing f ends its connection and no other.
LEMMA CloseFacts ==
    ASSUME NetTypes, OnePlace, NEW f \in Open, CloseFd(f)
    PROVE  /\ fds' \in [Fds -> Peers \cup {None}] /\ fds'[f] = None
           /\ \A g \in Fds : g # f => fds'[g] = fds[g]
           /\ conn' \in [Peers -> Conns] /\ conn'[fds[f]] = "done"
           /\ \A p \in Peers : p # fds[f] => conn'[p] = conn[p]
  BY PeersAssumption DEF NetTypes, OnePlace, CloseFd, CloseFds, FdOf, Open, Conns

\* A peer stays in one place.
LEMMA NetStep ==
    ASSUME NetTypes, OnePlace, UNCHANGED lab, Net
    PROVE  NetTypes' /\ OnePlace'
<1> USE PeersAssumption
<1>1. CASE UNCHANGED <<fds, conn, inq, nsent, backlog, last>>
  BY <1>1 DEF NetTypes, OnePlace
<1>2. ASSUME NEW f \in Fds, NewClient(f) PROVE NetTypes' /\ OnePlace'
  <2> USE <1>2, First DEF NewClient
  <2>1. NetTypes' BY DEF NetTypes, ConnKept
  <2>3. OnePlace'
    <3>1. \A g \in Fds : fds'[g] = IF g = f THEN Head(backlog) ELSE fds[g] BY DEF NetTypes
    <3>2. \A p \in Peers : conn'[p] = "idle" <=> conn[p] = "idle" BY DEF ConnKept
    <3>3. \A i \in DOMAIN backlog : backlog[i] \in Peers BY DEF NetTypes
    <3>4. \A g \in Fds : fds[g] # None => fds[g] \in Peers BY DEF NetTypes
    <3>5. fds[f] = None BY DEF Open
    <3> QED BY <3>1, <3>2, <3>3, <3>4, <3>5 DEF OnePlace
  <2> QED BY <2>1, <2>3
<1>3. ASSUME NEW f \in Fds, Handled(f) PROVE NetTypes' /\ OnePlace'
  <2>1. f \in Open /\ inq[fds[f]] # <<>> /\ Consume(f) BY <1>3 DEF Handled
  <2>2. NetTypes' BY <1>3, <2>1, ConsumeFacts DEF NetTypes, Handled, ConnKept
  <2>4. OnePlace'
    <3>1. UNCHANGED <<fds, backlog>> /\ \A p \in Peers : conn'[p] = "idle" <=> conn[p] = "idle"
      BY <1>3 DEF Handled, ConnKept
    <3> QED BY <3>1 DEF OnePlace, NetTypes
  <2> QED BY <2>2, <2>4
<1>4. ASSUME NEW f \in Fds, Gone(f) PROVE NetTypes' /\ OnePlace'
  <2>1. f \in Open /\ CloseFd(f) /\ fds[f] \in Peers BY <1>4 DEF Gone, Open, NetTypes
  <2>2. inq' \in [Peers -> Seq(LinesOf(lab))]
    <3>1. CASE inq' = inq BY <3>1 DEF NetTypes
    <3>2. CASE inq' # inq BY <1>4, <2>1, <3>2, ConsumeFacts DEF Gone
    <3> QED BY <3>1, <3>2
  <2>3. NetTypes' BY <1>4, <2>1, <2>2, CloseFacts DEF Gone, NetTypes
  <2>5. OnePlace' 
    <3>1. /\ \A g \in Fds : fds'[g] = IF g = f THEN None ELSE fds[g]
          /\ \A p \in Peers : conn[p] # "idle" => conn'[p] # "idle"
          /\ UNCHANGED backlog
      BY <1>4, <2>1, CloseFacts DEF Gone
    <3> QED BY <3>1 DEF OnePlace, NetTypes
  <2> QED BY <2>3, <2>5
<1>5. ASSUME NEW p \in Peers, PeerStep(p) PROVE NetTypes' /\ OnePlace'
  <2>1. CASE PeerConnect(p)
    <3> USE <2>1, Joined DEF PeerConnect
    <3>1. NetTypes' BY DEF NetTypes, Conns
    <3>3. OnePlace'
      <4>1. \A f \in Fds : fds[f] # p BY DEF OnePlace
      <4>2. \A i \in DOMAIN backlog : backlog[i] # p /\ backlog[i] \in Peers BY DEF OnePlace, NetTypes
      <4>3. \A o \in Peers : conn'[o] = IF o = p THEN "open" ELSE conn[o] BY DEF NetTypes
      <4>4. \A i \in DOMAIN backlog' :
               \/ i \in DOMAIN backlog /\ backlog'[i] = backlog[i]
               \/ i = Len(backlog) + 1 /\ backlog'[i] = p
        OBVIOUS
      <4> QED BY <4>1, <4>2, <4>3, <4>4 DEF OnePlace, NetTypes
    <3> QED BY <3>1, <3>3
  <2>2. CASE PeerClose(p)
    BY <2>2 DEF PeerClose, NetTypes, Conns, OnePlace
  <2>3. ASSUME NEW line \in LinesOf(lab), PeerSend(p, line) PROVE NetTypes' /\ OnePlace'
    <3>1. NetTypes' BY <2>3, LineArrives DEF NetTypes, PeerSend
    <3>2. OnePlace' BY <2>3 DEF OnePlace, PeerSend
    <3> QED BY <3>1, <3>2
  <2> QED BY <1>5, <2>1, <2>2, <2>3 DEF PeerStep
<1> QED BY <1>1, <1>2, <1>3, <1>4, <1>5 DEF Net, Waits

\* What is unread has its event coming, or its connection's last recv left it.
LEMMA EdgeStep ==
    ASSUME NetTypes, OnePlace, UNCHANGED lab, Net, LeftBehind, EdgeSeen
    PROVE  EdgeSeen'
<1> DEFINE Quiet(o) == inq'[o] = inq[o] /\ (Ended(o)' <=> Ended(o))
<1>0. SUFFICES ASSUME lab # 5, NEW g \in Fds, NEW p \in Peers, fds'[g] = p, p # None, Unread(p)',
                      g \notin ready' \cup batch'
               PROVE  p \in left'
  <2>1. NetTypes' BY NetStep
  <2>2. ASSUME NEW g \in Open', Unread(fds[g])' PROVE g \in Fds /\ fds'[g] \in Peers /\ fds'[g] # None
    BY <2>1 DEF Open, NetTypes
  <2>3. \A p \in Peers : \A g \in Fds : fds'[g] = p => (Unread(fds[g])' <=> Unread(p)')
    BY DEF Unread, Ended
  <2> QED BY <2>2, <2>3 DEF EdgeSeen
<1>a. Len(inq[p]) \in Nat
  <2>1. inq[p] \in Seq(LinesOf(lab)) BY <1>0 DEF NetTypes
  <2> QED BY <2>1
<1>b. g # Listen BY DEF Fds, Listen
<1>c. ASSUME fds[g] = p, Quiet(p), g \notin ready \cup batch PROVE p \in left'
  <2>1. p \in left BY <1>0, <1>c DEF EdgeSeen, Unread, Open
  <2>2. ~Arrives(p) BY <1>a, <1>c DEF Arrives
  <2> QED BY <1>0, <2>1, <2>2 DEF LeftBehind, Unread
<1>1. CASE Waits
  <2>1. fds[g] = p /\ Quiet(p) BY <1>0, <1>1 DEF Waits, Ended
  <2>2. Readable(g) BY <1>0, <2>1 DEF Readable, Unread, Open
  <2> QED BY <1>0, <1>1, <1>b, <1>c, <2>1, <2>2 DEF Waits
<1>2. ASSUME NEW f \in Fds, NewClient(f) PROVE p \in left'
  <2>1. UNCHANGED inq /\ (Ended(p)' <=> Ended(p)) BY <1>0, <1>2 DEF NewClient, ConnKept, Over, Ended
  <2>2. CASE g = f
    <3>1. p = Head(backlog) BY <1>0, <1>2, <2>2 DEF NewClient, NetTypes
    <3> QED BY <1>0, <1>2, <2>1, <2>2, <3>1 DEF NewClient, Unread
  <2>3. CASE g # f
    <3>1. fds[g] = p BY <1>0, <1>2, <2>3 DEF NewClient, NetTypes
    <3>2. g \notin ready \cup batch BY <1>0, <1>2, <1>b DEF NewClient
    <3> QED BY <1>c, <2>1, <3>1, <3>2
  <2> QED BY <2>2, <2>3
<1>3. ASSUME NEW f \in Fds, Handled(f) PROVE p \in left'
  <2>1. /\ f \in Open /\ inq[fds[f]] # <<>> /\ Consume(f) /\ fds[g] = p
        /\ batch' = batch \ {f} /\ ready \subseteq ready' /\ (Ended(p)' <=> Ended(p))
    BY <1>0, <1>3 DEF Handled, ConnKept, Over, Ended
  <2>2. CASE g = f
    <3>1. Len(inq'[p]) < Len(inq[p]) /\ Len(inq'[p]) \in Nat BY <2>1, <2>2, ConsumeFacts
    <3>2. ~Arrives(p) BY <1>a, <2>1, <3>1 DEF Arrives
    <3> QED BY <1>0, <3>1, <3>2 DEF LeftBehind, Unread
  <2>3. CASE g # f
    <3>1. p # fds[f] BY <1>0, <2>1, <2>3 DEF OnePlace
    <3>2. inq'[p] = inq[p] BY <1>0, <2>1, <3>1, ConsumeFacts
    <3> QED BY <1>0, <1>c, <2>1, <2>3, <3>2
  <2> QED BY <2>2, <2>3
<1>4. ASSUME NEW f \in Fds, Gone(f) PROVE p \in left'
  <2>1. f \in Open /\ CloseFd(f) /\ batch' = batch \ {f} /\ ready' = ready \ {f}
    BY <1>4 DEF Gone, CloseFd, CloseFds
  <2>2. g # f /\ fds[g] = p BY <1>0, <2>1, CloseFacts
  <2>3. p # fds[f] BY <1>0, <2>1, <2>2 DEF OnePlace
  <2>4. inq'[p] = inq[p] BY <1>0, <1>4, <2>1, <2>3, ConsumeFacts DEF Gone
  <2>5. conn'[p] = conn[p] BY <1>0, <2>1, <2>3, CloseFacts
  <2> QED BY <1>0, <1>c, <2>1, <2>2, <2>4, <2>5 DEF Ended
<1>5. ASSUME NEW q \in Peers, PeerStep(q) PROVE p \in left'
  <2>1. CASE PeerConnect(q)
    <3>1. UNCHANGED <<fds, inq, ready, batch>> /\ conn[q] = "idle" BY <2>1 DEF PeerConnect
    <3>2. p # q BY <1>0, <3>1 DEF OnePlace
    <3>3. conn'[p] = conn[p] BY <1>0, <2>1, <3>2 DEF PeerConnect, NetTypes
    <3> QED BY <1>0, <1>c, <3>1, <3>3 DEF Ended
  <2>2. CASE PeerClose(q)
    <3>1. UNCHANGED <<fds, inq, batch>> /\ ready' = ready \cup FdOf(q) BY <2>2 DEF PeerClose
    <3>2. p # q BY <1>0, <3>1 DEF FdOf
    <3>3. conn'[p] = conn[p] BY <1>0, <2>2, <3>2 DEF PeerClose, NetTypes
    <3> QED BY <1>0, <1>c, <3>1, <3>3 DEF Ended
  <2>3. ASSUME NEW line \in LinesOf(lab), PeerSend(q, line) PROVE p \in left'
    <3>1. UNCHANGED <<fds, conn, batch>> /\ ready' = ready \cup FdOf(q) BY <2>3 DEF PeerSend
    <3>2. p # q BY <1>0, <3>1 DEF FdOf
    <3>3. inq'[p] = inq[p] BY <1>0, <2>3, <3>2, LineArrives
    <3> QED BY <1>0, <1>c, <3>1, <3>3 DEF Ended
  <2> QED BY <1>5, <2>1, <2>2, <2>3 DEF PeerStep
<1> QED BY <1>0, <1>1, <1>2, <1>3, <1>4, <1>5 DEF Net
-----------------------------------------------------------------------------
(* The tables of clients.                                                  *)

\* Lab 04: the flags are those of the open descriptors.
LEMMA FlagStep ==
    ASSUME NetTypes, OnePlace, FlagTypes, L04!FlagsAreOpen,
           FlagEffect \/ (UNCHANGED clients /\ (UNCHANGED vars \/ \E p \in Peers : PeerStep(p)))
    PROVE  FlagTypes' /\ L04!FlagsAreOpen'
<1> USE DEF FlagTypes, Open
<1>0. L04!FlagsAreOpen <=> /\ \A f \in Fds : fds[f] # None <=> clients[f] = 1
                           /\ batch \ {Listen} \subseteq Open
  BY DEF L04!FlagsAreOpen, L04!Open, L04!Fds, Fds, L04!Listen, Listen
<1>a. L04!FlagsAreOpen' <=> /\ \A f \in Fds : fds'[f] # None <=> clients'[f] = 1
                            /\ batch' \ {Listen} \subseteq Open'
  BY DEF L04!FlagsAreOpen, L04!Open, L04!Fds, Fds, L04!Listen, Listen
<1>1. CASE Waits /\ UNCHANGED clients BY <1>0, <1>a, <1>1 DEF Waits, Readable
<1>2. ASSUME NEW f \in Fds, NewClient(f), clients' = [clients EXCEPT ![f] = 1]
      PROVE  FlagTypes' /\ L04!FlagsAreOpen'
  BY <1>0, <1>a, <1>2, First, PeersAssumption DEF NewClient, NetTypes
<1>3. ASSUME NEW f \in Fds, Handled(f), UNCHANGED clients PROVE FlagTypes' /\ L04!FlagsAreOpen'
  BY <1>0, <1>a, <1>3 DEF Handled
<1>4. ASSUME NEW f \in Fds, Gone(f), clients' = [clients EXCEPT ![f] = 0]
      PROVE  FlagTypes' /\ L04!FlagsAreOpen'
  <2>1. f \in Open /\ CloseFd(f) /\ batch' = batch \ {f} BY <1>4 DEF Gone
  <2>2. \A g \in Fds : fds'[g] = IF g = f THEN None ELSE fds[g] BY <2>1, CloseFacts
  <2> QED BY <1>0, <1>a, <1>4, <2>1, <2>2
<1>5. ASSUME NEW p \in Peers, PeerStep(p), UNCHANGED clients PROVE FlagTypes' /\ L04!FlagsAreOpen'
  BY <1>0, <1>a, <1>5 DEF PeerStep, PeerConnect, PeerClose, PeerSend
<1>6. CASE UNCHANGED vars BY <1>0, <1>a, <1>6 DEF vars, loopVars, arrayVars
<1> QED BY <1>1, <1>2, <1>3, <1>4, <1>5, <1>6 DEF FlagEffect

\* Lab 05: the slots hold open descriptors.
LEMMA SlotStep ==
    ASSUME NetTypes, OnePlace, SlotTypes, L05!SlotsAreOpen,
           SlotEffect \/ (UNCHANGED clients /\ (UNCHANGED vars \/ \E p \in Peers : PeerStep(p)))
    PROVE  SlotTypes' /\ L05!SlotsAreOpen'
<1> DEFINE Slot == 1..MaxClients
<1> USE DEF SlotTypes
<1>0. L05!SlotsAreOpen <=> /\ \A i \in Slot : clients[i] = 0 \/ clients[i] \in Open
                           /\ \A i, j \in Slot : i # j /\ clients[i] # 0 => clients[i] # clients[j]
                           /\ \A g \in batch : g # 0 => \E i \in Slot : clients[i] = g
  BY DEF L05!SlotsAreOpen, L05!Slots, L05!Held, L05!Open, Open, L05!Fds, Fds, L05!Listen
<1>a. L05!SlotsAreOpen' <=> /\ \A i \in Slot : clients'[i] = 0 \/ clients'[i] \in Open'
                            /\ \A i, j \in Slot : i # j /\ clients'[i] # 0 => clients'[i] # clients'[j]
                            /\ \A g \in batch' : g # 0 => \E i \in Slot : clients'[i] = g
  BY DEF L05!SlotsAreOpen, L05!Slots, L05!Held, L05!Open, Open, L05!Fds, Fds, L05!Listen
<1>1. CASE UNCHANGED vars BY <1>0, <1>a, <1>1 DEF vars, loopVars, arrayVars, Open
<1>2. ASSUME NEW f \in Fds, NewClient(f),
             clients' = [i \in Slot |-> IF FirstFree(i) THEN f ELSE clients[i]]
      PROVE  SlotTypes' /\ L05!SlotsAreOpen'
  <2>1. Open' = Open \cup {f} /\ f \notin Open /\ batch' \subseteq batch /\ f # 0
    BY <1>2, First, PeersAssumption DEF NewClient, NetTypes, Open, Fds
  <2>2. \A i, j \in Slot : FirstFree(i) /\ FirstFree(j) => i = j BY SlotsAssumption DEF FirstFree
  <2>3. \A i \in Slot : clients'[i] = IF FirstFree(i) THEN f ELSE clients[i] BY <1>2
  <2>4. SlotTypes' BY <1>2 DEF Fds
  <2>5. \A i \in Slot : FirstFree(i) => clients[i] = 0 BY DEF FirstFree
  <2> QED BY <1>0, <1>a, <2>1, <2>2, <2>3, <2>4, <2>5
<1>3. ASSUME NEW f \in Fds, Handled(f), UNCHANGED clients PROVE SlotTypes' /\ L05!SlotsAreOpen'
  BY <1>0, <1>a, <1>3 DEF Handled, Open
<1>4. ASSUME NEW f \in Fds, Gone(f), clients' = [i \in Slot |-> IF clients[i] = f THEN 0 ELSE clients[i]]
      PROVE  SlotTypes' /\ L05!SlotsAreOpen'
  <2>1. f \in Open /\ CloseFd(f) /\ batch' = batch \ {f} BY <1>4 DEF Gone
  <2>2. Open' = Open \ {f} BY <2>1, CloseFacts DEF Open
  <2>3. \A i \in Slot : clients'[i] = IF clients[i] = f THEN 0 ELSE clients[i] BY <1>4
  <2>4. SlotTypes' BY <1>4, LoopBounds
  <2> QED BY <1>0, <1>a, <2>1, <2>2, <2>3, <2>4
<1>5. ASSUME NEW p \in Peers, PeerStep(p), UNCHANGED clients PROVE SlotTypes' /\ L05!SlotsAreOpen'
  BY <1>0, <1>a, <1>5 DEF PeerStep, PeerConnect, PeerClose, PeerSend, Open
<1>6. CASE /\ UNCHANGED <<fds, conn, inq, nsent, backlog, last, clients>>
           /\ batch' \ {Listen} \subseteq {clients[i] : i \in Slot} \cap Fds
  BY <1>0, <1>a, <1>6 DEF Fds, Open, Listen
<1> QED BY <1>1, <1>2, <1>3, <1>4, <1>5, <1>6 DEF SlotEffect

\* remove_client: the entries that stay are those of the other descriptors, each
\* once.
LEMMA WithoutFacts ==
    ASSUME NEW E, clients \in Seq(E), NEW f, NEW c \in DOMAIN clients, clients[c].fd = f,
           \A i, j \in DOMAIN clients : i # j => clients[i].fd # clients[j].fd
    PROVE  /\ Without(f) \in Seq(E)
           /\ \A j \in DOMAIN Without(f) :
                 \E k \in DOMAIN clients : clients[k].fd # f /\ Without(f)[j] = clients[k]
           /\ \A k \in DOMAIN clients : clients[k].fd # f =>
                 \E j \in DOMAIN Without(f) : Without(f)[j] = clients[k]
           /\ \A i, j \in DOMAIN Without(f) : i # j => Without(f)[i].fd # Without(f)[j].fd
<1> DEFINE n == Len(clients)
           W == Without(f)
           src(j) == IF j = c THEN n ELSE j
<1>1. Entry(f) = c BY DEF Entry
<1>2. n \in Nat /\ n # 0 /\ DOMAIN clients = 1..n /\ c \in 1..n BY <1>1
<1>3. W = [j \in 1..n-1 |-> clients[src(j)]] BY <1>1 DEF Without
<1> HIDE DEF n, W
<1>4. \A j \in 1..n-1 : src(j) \in 1..n /\ src(j) # c BY <1>2
<1>5. \A i, j \in 1..n-1 : i # j => src(i) # src(j) BY <1>2
<1>6. \A k \in 1..n : k # c => \E j \in 1..n-1 : src(j) = k
  <2>1. SUFFICES ASSUME NEW k \in 1..n, k # c PROVE \E j \in 1..n-1 : src(j) = k OBVIOUS
  <2>2. CASE k = n
    <3>1. c \in 1..n-1 /\ src(c) = k BY <1>2, <2>1, <2>2
    <3> QED BY <3>1
  <2>3. CASE k # n
    <3>1. k \in 1..n-1 /\ src(k) = k BY <1>2, <2>1, <2>3
    <3> QED BY <3>1
  <2> QED BY <2>2, <2>3
<1> HIDE DEF src
<1>7. DOMAIN W = 1..n-1 /\ \A j \in 1..n-1 : W[j] = clients[src(j)] BY <1>3
<1>8. \A k \in 1..n : clients[k] \in E BY <1>2 DEF n
<1>9. W \in Seq(E)
  <2>1. n - 1 \in Nat BY <1>2
  <2>2. \A j \in 1..n-1 : clients[src(j)] \in E BY <1>4, <1>8
  <2> QED BY <1>3, <2>1, <2>2
<1>10. \A k \in 1..n : k # c => clients[k].fd # f BY <1>2
<1>11. \A j \in 1..n-1 : \E k \in 1..n : clients[k].fd # f /\ W[j] = clients[k] BY <1>4, <1>7, <1>10
<1>12. \A k \in 1..n : clients[k].fd # f => \E j \in 1..n-1 : W[j] = clients[k] BY <1>6, <1>7
<1>13. \A i, j \in 1..n-1 : i # j => W[i].fd # W[j].fd BY <1>2, <1>4, <1>5, <1>7
<1>14. \A j \in DOMAIN W : \E k \in DOMAIN clients : clients[k].fd # f /\ W[j] = clients[k]
  BY <1>2, <1>7, <1>11
<1>15. \A k \in DOMAIN clients : clients[k].fd # f => \E j \in DOMAIN W : W[j] = clients[k]
  BY <1>2, <1>7, <1>12
<1>16. \A i, j \in DOMAIN W : i # j => W[i].fd # W[j].fd BY <1>7, <1>13
<1> QED BY <1>9, <1>14, <1>15, <1>16, Zenon DEF W

\* Every open descriptor has one entry.
LEMMA EntryFacts ==
    ASSUME ArrayTypes, ListIsOpen, NEW f \in Open
    PROVE  /\ Entry(f) \in DOMAIN clients /\ clients[Entry(f)].fd = f
           /\ \A i \in DOMAIN clients : clients[i].fd = f => i = Entry(f)
  BY DEF ListIsOpen, Entry

\* accept: the entries stay and the last one is new.
LEMMA AppendFacts ==
    ASSUME NEW E, NEW s \in Seq(E), NEW e \in E
    PROVE  /\ Append(s, e) \in Seq(E)
           /\ \A i \in DOMAIN s : i \in DOMAIN Append(s, e) /\ Append(s, e)[i] = s[i]
           /\ \E n \in DOMAIN Append(s, e) :
                 /\ Append(s, e)[n] = e
                 /\ \A i \in DOMAIN Append(s, e) : i = n \/ i \in DOMAIN s
<1>1. Len(s) \in Nat /\ DOMAIN s = 1..Len(s) OBVIOUS
<1>2. Len(s) + 1 \in DOMAIN Append(s, e) /\ Append(s, e)[Len(s) + 1] = e OBVIOUS
<1>3. \A i \in DOMAIN Append(s, e) : i = Len(s) + 1 \/ i \in DOMAIN s OBVIOUS
<1>4. \A i \in DOMAIN s : i \in DOMAIN Append(s, e) /\ Append(s, e)[i] = s[i] OBVIOUS
<1> QED BY <1>2, <1>3, <1>4

\* A command changes one field of one entry.
LEMMA SetFacts ==
    ASSUME ArrayTypes, ListIsOpen, NEW f \in Open, NEW field \in {"name", "room"}, NEW w \in Words,
           Sets(f, field, w)
    PROVE  /\ clients' \in Seq(EntryOf(lab)) /\ DOMAIN clients' = DOMAIN clients
           /\ \A i \in DOMAIN clients : clients'[i].fd = clients[i].fd
           /\ \A i \in DOMAIN clients : i # Entry(f) => clients'[i] = clients[i]
           /\ field = "name" => /\ clients'[Entry(f)].name = w
                                /\ lab = 18 => clients'[Entry(f)].room = clients[Entry(f)].room
           /\ field = "room" => /\ clients'[Entry(f)].room = w
                                /\ clients'[Entry(f)].name = clients[Entry(f)].name
<1> DEFINE c == Entry(f)
           E == EntryOf(lab)
           e == [clients[c] EXCEPT ![field] = w]
<1>1. c \in DOMAIN clients BY EntryFacts
<1>2. clients \in Seq(E) BY DEF ArrayTypes
<1>3. clients' = [clients EXCEPT ![c] = e] BY DEF Sets, SetEntry
<1>4. lab \in {17, 18} /\ (field = "room" => lab = 18) BY DEF Sets
<1>5. clients[c] \in E
  <2> HIDE DEF E
  <2> QED BY <1>1, <1>2
<1>6. e \in E /\ e.fd = clients[c].fd BY <1>4, <1>5 DEF EntryOf
<1>7. field = "name" => e.name = w /\ (lab = 18 => e.room = clients[c].room) 
  <2>1. CASE lab = 17 BY <1>5, <2>1 DEF EntryOf
  <2>2. CASE lab = 18 BY <1>5, <2>2 DEF EntryOf
  <2> QED BY <1>4, <2>1, <2>2
<1>8. field = "room" => e.room = w /\ e.name = clients[c].name BY <1>4, <1>5 DEF EntryOf
<1> HIDE DEF E, e, c
<1>9. clients' \in Seq(E) /\ DOMAIN clients' = DOMAIN clients BY <1>1, <1>2, <1>3, <1>6
<1>10. clients'[c] = e /\ \A i \in DOMAIN clients : i # c => clients'[i] = clients[i] BY <1>1, <1>2, <1>3
<1> QED BY <1>6, <1>7, <1>8, <1>9, <1>10 DEF c, E

\* After remove_client.
LEMMA RemoveFacts ==
    ASSUME ArrayTypes, ListIsOpen, NEW f \in Open, clients' = Without(f)
    PROVE  /\ clients' \in Seq(EntryOf(lab))
           /\ \A j \in DOMAIN clients' : \E k \in DOMAIN clients : clients[k].fd # f /\ clients'[j] = clients[k]
           /\ \A k \in DOMAIN clients : clients[k].fd # f => \E j \in DOMAIN clients' : clients'[j] = clients[k]
           /\ \A i, j \in DOMAIN clients' : i # j => clients'[i].fd # clients'[j].fd
<1> DEFINE W == Without(f)
           E == EntryOf(lab)
<1>1. Entry(f) \in DOMAIN clients /\ clients[Entry(f)].fd = f BY EntryFacts
<1>2. \A i, j \in DOMAIN clients : i # j => clients[i].fd # clients[j].fd BY DEF ListIsOpen
<1>3. clients \in Seq(E) BY DEF ArrayTypes
<1> HIDE DEF E
<1>4. /\ W \in Seq(E)
      /\ \A j \in DOMAIN W : \E k \in DOMAIN clients : clients[k].fd # f /\ W[j] = clients[k]
      /\ \A k \in DOMAIN clients : clients[k].fd # f => \E j \in DOMAIN W : W[j] = clients[k]
      /\ \A i, j \in DOMAIN W : i # j => W[i].fd # W[j].fd
  BY <1>1, <1>2, <1>3, WithoutFacts, Zenon
<1> HIDE DEF W
<1> QED BY <1>4 DEF W, E

\* A step that is not the server's.
ArrayKept == UNCHANGED arrayVars /\ (UNCHANGED vars \/ \E p \in Peers : PeerStep(p))

\* The array stays that of the open descriptors.
LEMMA ListStep ==
    ASSUME NetTypes, OnePlace, ArrayTypes, ListIsOpen, UNCHANGED lab, ArrayEffect \/ ArrayKept
    PROVE  ArrayTypes' /\ ListIsOpen'
<1> DEFINE E == EntryOf(lab)
<1>0. E' = E BY DEF EntryOf, Fds
<1>1. CASE UNCHANGED arrayVars /\ UNCHANGED fds /\ batch' \ {Listen} \subseteq Open
  BY <1>0, <1>1 DEF ArrayTypes, ListIsOpen, arrayVars, Open
<1>2. CASE Waits /\ UNCHANGED arrayVars
  <2>1. UNCHANGED fds /\ batch' \ {Listen} \subseteq Open BY <1>2 DEF Waits, ListIsOpen, Readable
  <2> QED BY <1>1, <1>2, <2>1
<1>3. ASSUME NEW f \in Fds, NewClient(f), Appended(f), UNCHANGED mine
      PROVE  ArrayTypes' /\ ListIsOpen'
  <2>1. PICK e \in E : e.fd = f /\ clients' = Append(clients, e) BY <1>3 DEF Appended
  <2> HIDE DEF E
  <2>2. clients \in Seq(E) BY DEF ArrayTypes, E
  <2>3. clients' \in Seq(E) BY <2>1, <2>2, AppendFacts
  <2>4. \A i \in DOMAIN clients : i \in DOMAIN clients' /\ clients'[i] = clients[i] BY <2>1, <2>2, AppendFacts
  <2>5. PICK n \in DOMAIN clients' : clients'[n] = e /\ \A i \in DOMAIN clients' : i = n \/ i \in DOMAIN clients
    BY <2>1, <2>2, AppendFacts
  <2>6. Open' = Open \cup {f} /\ f \notin Open
    BY <1>3, First, PeersAssumption DEF NewClient, NetTypes, Open
  <2>7. ListIsOpen'
    BY <1>3, <2>1, <2>4, <2>5, <2>6 DEF ListIsOpen, NewClient
  <2>8. ArrayTypes' BY <1>0, <1>3, <2>3 DEF ArrayTypes, E
  <2> QED BY <2>7, <2>8
<1>4. ASSUME NEW f \in Fds, Handled(f), UNCHANGED arrayVars PROVE ArrayTypes' /\ ListIsOpen'
  BY <1>1, <1>4 DEF Handled, ListIsOpen
<1>5. ASSUME NEW f \in Fds, Handled(f), NEW field \in {"name", "room"}, NEW w \in Words, Sets(f, field, w)
      PROVE  ArrayTypes' /\ ListIsOpen'
  <2>1. f \in Open /\ fds[f] \in Peers /\ UNCHANGED fds /\ batch' \ {Listen} \subseteq Open /\ Open' = Open
    BY <1>5 DEF Handled, ListIsOpen, Open, NetTypes
  <2>2. /\ clients' \in Seq(E) /\ DOMAIN clients' = DOMAIN clients
        /\ \A i \in DOMAIN clients : clients'[i].fd = clients[i].fd
    BY <1>5, <2>1, SetFacts
  <2>3. ListIsOpen' BY <2>1, <2>2 DEF ListIsOpen
  <2>4. mine' \in [Peers -> [name : Words, room : Words]]
    <3>1. mine' = [mine EXCEPT ![fds[f]] = [mine[fds[f]] EXCEPT ![field] = w]]
      BY <1>5 DEF Sets, SetEntry
    <3> QED BY <1>5, <2>1, <3>1 DEF ArrayTypes
  <2> HIDE DEF E
  <2> QED BY <1>0, <2>2, <2>3, <2>4 DEF ArrayTypes, E
<1>6. ASSUME NEW f \in Fds, Gone(f), clients' = Without(f), UNCHANGED mine
      PROVE  ArrayTypes' /\ ListIsOpen'
  <2>1. f \in Open /\ CloseFd(f) /\ batch' = batch \ {f} BY <1>6 DEF Gone
  <2>2. Open' = Open \ {f} BY <2>1, CloseFacts DEF Open
  <2>6. /\ clients' \in Seq(E)
        /\ \A j \in DOMAIN clients' : \E k \in DOMAIN clients : clients[k].fd # f /\ clients'[j] = clients[k]
        /\ \A k \in DOMAIN clients : clients[k].fd # f => \E j \in DOMAIN clients' : clients'[j] = clients[k]
        /\ \A i, j \in DOMAIN clients' : i # j => clients'[i].fd # clients'[j].fd
    BY <1>6, <2>1, RemoveFacts
  <2> HIDE DEF E
  <2>7. {clients'[j].fd : j \in DOMAIN clients'} = {clients[k].fd : k \in DOMAIN clients} \ {f}
    BY <2>6
  <2>8. ListIsOpen' BY <2>1, <2>2, <2>6, <2>7 DEF ListIsOpen
  <2> QED BY <1>0, <1>6, <2>6, <2>8 DEF ArrayTypes, E
<1>7. CASE ArrayKept
  <2>1. UNCHANGED <<fds, batch>>
    BY <1>7 DEF ArrayKept, vars, loopVars, PeerStep, PeerConnect, PeerClose, PeerSend
  <2> QED BY <1>1, <1>7, <2>1 DEF ArrayKept, ListIsOpen
<1> QED BY <1>2, <1>3, <1>4, <1>5, <1>6, <1>7 DEF ArrayEffect

\* Whoever has not been accepted has set nothing.
LEMMA FreshStep ==
    ASSUME NetTypes, OnePlace, ArrayTypes, Fresh, lab \in Arrays, UNCHANGED lab, ArrayEffect \/ ArrayKept
    PROVE  Fresh'
<1>0. /\ \A p \in Peers : conn[p] = "idle" => Blank(p)
      /\ \A i \in DOMAIN backlog : Blank(backlog[i])
  BY DEF Fresh
<1> USE DEF Blank
<1>1. CASE UNCHANGED <<mine, backlog>> /\ \A p \in Peers : conn'[p] = "idle" => conn[p] = "idle"
  BY <1>0, <1>1 DEF Fresh
<1>2. CASE Waits /\ UNCHANGED arrayVars BY <1>1, <1>2 DEF Waits, arrayVars
<1>3. ASSUME NEW f \in Fds, NewClient(f), UNCHANGED mine PROVE Fresh'
  <2>1. \A i \in DOMAIN backlog' : \E j \in DOMAIN backlog : backlog'[i] = backlog[j]
    BY <1>3, First DEF NewClient
  <2> QED BY <1>0, <1>3, <2>1 DEF Fresh, NewClient, ConnKept
<1>4. ASSUME NEW f \in Fds, Handled(f), UNCHANGED arrayVars PROVE Fresh'
  BY <1>1, <1>4 DEF Handled, ConnKept, arrayVars
<1>5. ASSUME NEW f \in Fds, Handled(f), NEW field, NEW w, Sets(f, field, w) PROVE Fresh'
  <2>1. fds[f] \in Peers /\ conn[fds[f]] # "idle" /\ \A i \in DOMAIN backlog : backlog[i] # fds[f]
    BY <1>5 DEF Handled, Open, NetTypes, OnePlace
  <2>2. \A p \in Peers : p # fds[f] => mine'[p] = mine[p] BY <1>5 DEF Sets, SetEntry, ArrayTypes
  <2>3. \A i \in DOMAIN backlog : backlog[i] \in Peers BY DEF NetTypes
  <2>4. UNCHANGED backlog /\ \A p \in Peers : conn'[p] = "idle" => conn[p] = "idle"
    BY <1>5 DEF Handled, ConnKept
  <2> QED BY <1>0, <2>1, <2>2, <2>3, <2>4 DEF Fresh
<1>6. ASSUME NEW f \in Fds, Gone(f), UNCHANGED mine PROVE Fresh'
  <2>1. \A p \in Peers : conn'[p] = "idle" => conn[p] = "idle" BY <1>6, CloseFacts DEF Gone
  <2> QED BY <1>1, <1>6, <2>1 DEF Gone
<1>7. CASE ArrayKept
  <2>1. CASE UNCHANGED vars BY <1>1, <2>1 DEF vars, loopVars, arrayVars
  <2>2. ASSUME NEW p \in Peers, PeerStep(p), UNCHANGED mine PROVE Fresh'
    <3>1. CASE PeerConnect(p)
      <4>1. \A o \in Peers : conn'[o] = "idle" => conn[o] = "idle" BY <3>1 DEF PeerConnect, NetTypes
      <4>2. \A i \in DOMAIN backlog' : backlog'[i] = p \/ \E j \in DOMAIN backlog : backlog'[i] = backlog[j]
        BY <3>1, Joined DEF PeerConnect
      <4>3. Blank(p) BY <1>0, <3>1 DEF PeerConnect
      <4> QED BY <1>0, <2>2, <4>1, <4>2, <4>3 DEF Fresh
    <3>2. CASE PeerClose(p) BY <1>1, <2>2, <3>2 DEF PeerClose, NetTypes
    <3>3. ASSUME NEW line, PeerSend(p, line) PROVE Fresh' BY <1>1, <2>2, <3>3 DEF PeerSend
    <3> QED BY <2>2, <3>1, <3>2, <3>3 DEF PeerStep
  <2> QED BY <1>7, <2>1, <2>2 DEF ArrayKept, arrayVars
<1> QED BY <1>2, <1>3, <1>4, <1>5, <1>6, <1>7 DEF ArrayEffect

\* Entries stay with their connections.
LEMMA OwnStep ==
    ASSUME NetTypes, OnePlace, ArrayTypes, ListIsOpen, Fresh, Own, lab \in Arrays, UNCHANGED lab,
           ArrayEffect \/ ArrayKept
    PROVE  Own'
<1> DEFINE Names == lab \in {17, 18} => \A i \in DOMAIN clients : clients[i].name = mine[fds[clients[i].fd]].name
           Rooms == lab = 18 => \A i \in DOMAIN clients : clients[i].room = mine[fds[clients[i].fd]].room
<1>a. Names /\ Rooms BY DEF Own
<1>b. \A i \in DOMAIN clients : clients[i].fd \in Open /\ clients[i].fd \in Fds BY DEF ListIsOpen, Open
<1>1. CASE UNCHANGED <<fds, arrayVars>> BY <1>1 DEF Own, arrayVars
<1>2. CASE Waits /\ UNCHANGED arrayVars BY <1>1, <1>2 DEF Waits
<1>3. ASSUME NEW f \in Fds, NewClient(f), Appended(f), UNCHANGED mine PROVE Own'
  <2> DEFINE E == EntryOf(lab)
  <2>1. PICK e \in E : /\ e.fd = f /\ (lab \in {17, 18} => e.name = Empty) /\ (lab = 18 => e.room = Empty)
                       /\ clients' = Append(clients, e)
    BY <1>3 DEF Appended
  <2> HIDE DEF E
  <2>2. clients \in Seq(E) BY DEF ArrayTypes, E
  <2>4. \A i \in DOMAIN clients : i \in DOMAIN clients' /\ clients'[i] = clients[i] BY <2>1, <2>2, AppendFacts
  <2>5. PICK n \in DOMAIN clients' : clients'[n] = e /\ \A i \in DOMAIN clients' : i = n \/ i \in DOMAIN clients
    BY <2>1, <2>2, AppendFacts
  <2>6. \A g \in Open : fds'[g] = fds[g] BY <1>3 DEF NewClient, NetTypes, Open
  <2>7. fds'[f] = Head(backlog) /\ Blank(Head(backlog))
    BY <1>3, First DEF NewClient, NetTypes, Fresh
  <2>8. Names' BY <1>a, <1>b, <1>3, <2>1, <2>4, <2>5, <2>6, <2>7 DEF Blank
  <2>9. Rooms' BY <1>a, <1>b, <1>3, <2>1, <2>4, <2>5, <2>6, <2>7 DEF Blank
  <2> QED BY <2>8, <2>9 DEF Own
<1>4. ASSUME NEW f \in Fds, Handled(f), UNCHANGED arrayVars PROVE Own' BY <1>1, <1>4 DEF Handled
<1>5. ASSUME NEW f \in Fds, Handled(f), NEW field \in {"name", "room"}, NEW w \in Words, Sets(f, field, w)
      PROVE  Own'
  <2> DEFINE c == Entry(f)
  <2>1. f \in Open /\ fds[f] \in Peers /\ UNCHANGED fds BY <1>5 DEF Handled, Open, NetTypes
  <2>2. /\ c \in DOMAIN clients /\ clients[c].fd = f
        /\ \A i \in DOMAIN clients : i # c => clients[i].fd # f
    BY <2>1, EntryFacts
  <2>3. /\ DOMAIN clients' = DOMAIN clients
        /\ \A i \in DOMAIN clients : clients'[i].fd = clients[i].fd
        /\ \A i \in DOMAIN clients : i # c => clients'[i] = clients[i]
        /\ field = "name" => clients'[c].name = w /\ (lab = 18 => clients'[c].room = clients[c].room)
        /\ field = "room" => clients'[c].room = w /\ clients'[c].name = clients[c].name
    BY <1>5, <2>1, SetFacts
  <2>4. mine' = [mine EXCEPT ![fds[f]] = [mine[fds[f]] EXCEPT ![field] = w]]
    BY <1>5 DEF Sets, SetEntry
  <2>5. /\ \A p \in Peers : p # fds[f] => mine'[p] = mine[p]
        /\ field = "name" => mine'[fds[f]].name = w /\ mine'[fds[f]].room = mine[fds[f]].room
        /\ field = "room" => mine'[fds[f]].room = w /\ mine'[fds[f]].name = mine[fds[f]].name
    BY <2>1, <2>4 DEF ArrayTypes
  <2>6. \A i \in DOMAIN clients : i # c => fds[clients[i].fd] # fds[f] /\ fds[clients[i].fd] \in Peers
    BY <1>b, <2>1, <2>2 DEF OnePlace, Open, NetTypes
  <2>7. (lab = 18 \/ lab = 17) /\ (field = "room" => lab = 18) BY <1>5 DEF Sets
  <2> HIDE DEF c
  <2>8. Names' BY <1>a, <2>1, <2>2, <2>3, <2>5, <2>6, <2>7
  <2>9. Rooms' BY <1>a, <2>1, <2>2, <2>3, <2>5, <2>6, <2>7
  <2> QED BY <2>8, <2>9 DEF Own
<1>6. ASSUME NEW f \in Fds, Gone(f), clients' = Without(f), UNCHANGED mine PROVE Own'
  <2>1. f \in Open /\ CloseFd(f) BY <1>6 DEF Gone
  <2>2. \A j \in DOMAIN clients' : \E k \in DOMAIN clients : clients[k].fd # f /\ clients'[j] = clients[k]
    BY <1>6, <2>1, RemoveFacts
  <2>3. \A g \in Fds : g # f => fds'[g] = fds[g] BY <2>1, CloseFacts
  <2>4. Names' BY <1>a, <1>b, <1>6, <2>2, <2>3
  <2>5. Rooms' BY <1>a, <1>b, <1>6, <2>2, <2>3
  <2> QED BY <2>4, <2>5 DEF Own
<1>7. CASE ArrayKept
  BY <1>1, <1>7 DEF ArrayKept, vars, loopVars, PeerStep, PeerConnect, PeerClose, PeerSend
<1> QED BY <1>2, <1>3, <1>4, <1>5, <1>6, <1>7 DEF ArrayEffect

\* Texts and private messages reach only whom they are for.
LEMMA ScopeStep ==
    ASSUME NetTypes, ArrayTypes, ListIsOpen, Own, lab \in Arrays, ArrayEffect \/ ArrayKept
    PROVE  (lab = 18 => L18!ToOwnRoom) /\ (lab = 17 => L17!ToOwnName)
<1>1. Sends
  <2>1. UNCHANGED last => Sends BY DEF Sends
  <2>2. Waits => UNCHANGED last BY DEF Waits
  <2>3. ArrayKept => UNCHANGED last
    BY DEF ArrayKept, vars, loopVars, PeerStep, PeerConnect, PeerClose, PeerSend
  <2> QED BY <2>1, <2>2, <2>3 DEF ArrayEffect
<1>2. ASSUME lab = 18, NEW p \in Peers, ToRoom(p, last'[p]), last'[p].kind = "text"
      PROVE  last'[p].room = mine[p].room
  BY <1>2 DEF ToRoom, Own
<1>3. ASSUME lab = 17, NEW p \in Peers, ToName(p, last'[p]), last'[p].kind = "pm"
      PROVE  last'[p].to = mine[p].name
  BY <1>3 DEF ToName, Own
<1> QED BY <1>1, <1>2, <1>3 DEF L18!ToOwnRoom, L17!ToOwnName, Sends, Right
-----------------------------------------------------------------------------
(* All of it together.                                                     *)

IInv == /\ Types /\ OnePlace /\ EdgeSeen /\ TableIsOpen
        /\ lab \in Arrays => Fresh /\ Own

\* The inductive invariant holds initially.
LEMMA InitIInv == Init => IInv
<1> SUFFICES ASSUME Init PROVE IInv OBVIOUS
<1>1. LoopInit /\ lab \in {4, 5, 14, 17, 18}
  BY DEF Init, L04!Init, L05!Init, L14!Init, L17!Init, L18!Init, L04!LoopInit, L05!LoopInit,
         L14!ArrayInit, L17!ArrayInit, L18!ArrayInit, L14!LoopInit, L17!LoopInit, L18!LoopInit, LoopInit,
         L04!Fds, L05!Fds, L14!Fds, L17!Fds, L18!Fds, Fds
<1>2. NetTypes
  <2> DEFINE L == LinesOf(lab)
  <2> HIDE DEF L
  <2>1. inq \in [Peers -> Seq(L)] BY <1>1 DEF LoopInit
  <2> QED BY <1>1, <2>1 DEF LoopInit, NetTypes, Conns, L
<1>3. OnePlace /\ EdgeSeen BY <1>1, PeersAssumption DEF LoopInit, OnePlace, EdgeSeen, Open
<1>5. CASE lab = 4
  <2>1. clients = [f \in Fds |-> 0] BY <1>5 DEF Init, L04!Init, L04!Fds, Fds
  <2>2. FlagTypes /\ L04!FlagsAreOpen
    BY <1>1, <2>1 DEF FlagTypes, L04!FlagsAreOpen, LoopInit, L04!Open, L04!Fds, Fds
  <2> QED BY <1>1, <1>2, <1>3, <1>5, <2>2 DEF IInv, Types, TableIsOpen, Arrays
<1>6. CASE lab = 5
  <2>1. clients = [i \in 1..MaxClients |-> 0] BY <1>6 DEF Init, L05!Init, L05!Slots
  <2>2. SlotTypes /\ L05!SlotsAreOpen
    BY <1>1, <2>1, LoopBounds DEF SlotTypes, L05!SlotsAreOpen, LoopInit, L05!Held, L05!Slots
  <2> QED BY <1>1, <1>2, <1>3, <1>6, <2>2 DEF IInv, Types, TableIsOpen, Arrays
<1>7. CASE lab \in Arrays
  <2>1. ArrayInit
    BY <1>1, <1>7 DEF Init, L14!Init, L17!Init, L18!Init, L14!ArrayInit, L17!ArrayInit, L18!ArrayInit, ArrayInit, Arrays
  <2>2. ArrayTypes
    <3> DEFINE E == EntryOf(lab)
    <3> HIDE DEF E
    <3>1. clients \in Seq(E) BY <2>1 DEF ArrayInit
    <3> QED BY <2>1, <3>1, WordsAssumption DEF ArrayInit, ArrayTypes, E
  <2>3. ListIsOpen BY <2>1 DEF ArrayInit, LoopInit, ListIsOpen, Open
  <2>4. Fresh /\ Own BY <2>1 DEF ArrayInit, LoopInit, Fresh, Blank, Own
  <2> QED BY <1>1, <1>2, <1>3, <1>7, <2>2, <2>3, <2>4 DEF IInv, Types, TableIsOpen, Arrays
<1> QED BY <1>1, <1>5, <1>6, <1>7 DEF Arrays

\* Every step preserves the inductive invariant.
LEMMA NextIInv == ASSUME IInv, [Next]_allVars PROVE IInv'
<1>1. UNCHANGED lab /\ Net /\ (LeftBehind \/ UNCHANGED <<vars, left>>) BY NetFrame DEF IInv
<1>2. NetTypes /\ OnePlace /\ EdgeSeen BY DEF IInv, Types
<1>3. NetTypes' /\ OnePlace' BY <1>1, <1>2, NetStep
<1>4. EdgeSeen'
  <2>1. UNCHANGED <<vars, left>> => EdgeSeen'
    BY <1>1, <1>2 DEF vars, loopVars, EdgeSeen, Unread, Ended, Open
  <2> QED BY <1>1, <1>2, <2>1, EdgeStep
<1>5. /\ lab \in Arrays => ArrayEffect \/ ArrayKept
      /\ lab = 4 => FlagEffect \/ (UNCHANGED clients /\ (UNCHANGED vars \/ \E p \in Peers : PeerStep(p)))
      /\ lab = 5 => SlotEffect \/ (UNCHANGED clients /\ (UNCHANGED vars \/ \E p \in Peers : PeerStep(p)))
  <2>1. UNCHANGED vars => UNCHANGED arrayVars BY DEF vars
  <2>2. UNCHANGED arrayVars => UNCHANGED clients BY DEF arrayVars
  <2> QED BY <2>1, <2>2, Frame DEF IInv, ArrayKept, Arrays
<1>6. CASE lab = 4
  <2>1. FlagTypes' /\ L04!FlagsAreOpen' BY <1>2, <1>5, <1>6, FlagStep DEF IInv, Types, TableIsOpen
  <2> QED BY <1>1, <1>3, <1>4, <1>6, <2>1 DEF IInv, Types, TableIsOpen, Arrays
<1>7. CASE lab = 5
  <2>1. SlotTypes' /\ L05!SlotsAreOpen' BY <1>2, <1>5, <1>7, SlotStep DEF IInv, Types, TableIsOpen
  <2> QED BY <1>1, <1>3, <1>4, <1>7, <2>1 DEF IInv, Types, TableIsOpen, Arrays
<1>8. CASE lab \in Arrays
  <2>1. ArrayTypes /\ ListIsOpen /\ Fresh /\ Own
    BY <1>8 DEF IInv, Types, TableIsOpen, Arrays
  <2>2. ArrayTypes' /\ ListIsOpen' BY <1>1, <1>2, <1>5, <1>8, <2>1, ListStep
  <2>3. Fresh' BY <1>1, <1>2, <1>5, <1>8, <2>1, FreshStep
  <2>4. Own' BY <1>1, <1>2, <1>5, <1>8, <2>1, OwnStep
  <2> QED BY <1>1, <1>3, <1>4, <1>8, <2>2, <2>3, <2>4 DEF IInv, Types, TableIsOpen, Arrays
<1> QED BY <1>6, <1>7, <1>8 DEF IInv, Types, Arrays

\* What every step sends, in labs 17 and 18.
LEMMA ScopeFrame ==
    ASSUME IInv, [Next]_allVars
    PROVE  (lab = 18 => L18!ToOwnRoom) /\ (lab = 17 => L17!ToOwnName)
<1> SUFFICES ASSUME lab \in Arrays PROVE (lab = 18 => L18!ToOwnRoom) /\ (lab = 17 => L17!ToOwnName)
  BY DEF Arrays
<1>1. NetTypes /\ ArrayTypes /\ ListIsOpen /\ Own BY DEF IInv, Types, TableIsOpen, Arrays
<1>2. ArrayEffect \/ ArrayKept
  <2>1. UNCHANGED vars => UNCHANGED arrayVars BY DEF vars
  <2> QED BY <2>1, Frame DEF IInv, ArrayKept, Arrays
<1> QED BY <1>1, <1>2, ScopeStep

\* The inductive invariant holds in every reachable state of the five servers.
THEOREM Invariance == Spec => []IInv
<1>1. Init => IInv BY InitIInv
<1>2. IInv /\ [Next]_allVars => IInv' BY NextIInv
<1> QED BY <1>1, <1>2, PTL DEF Spec

\* The flags of lab 04, the slots of lab 05 and the arrays of labs 14, 17 and 18
\* are those of open descriptors, through removals and reused numbers, and no
\* event of a batch is about a closed one.
THEOREM TablesAreOpen == Spec => []TableIsOpen
  BY Invariance, PTL DEF IInv

\* With edge-triggered events and one recv for each: whatever is unread on an
\* accepted connection has its event coming, or is what the last recv on that
\* same connection left behind, with nothing arriving there since.  However many
\* lines there are and whoever sent them, an arrival is followed by a recv.
THEOREM EdgesAreSeen == Spec => []EdgeSeen
  BY Invariance, PTL DEF IInv

\* Lab 18: an entry has the nickname and room that its own connection set last.
THEOREM EntriesAreOwn == Spec => []EntryIsOwn
<1>1. ASSUME IInv PROVE EntryIsOwn
  <2>1. SUFFICES ASSUME lab = 18, NEW i \in DOMAIN clients
                 PROVE  [name |-> clients[i].name, room |-> clients[i].room] = mine[fds[clients[i].fd]]
    BY DEF EntryIsOwn, L18!EntryIsOwn
  <2>2. Own /\ ListIsOpen /\ NetTypes /\ ArrayTypes BY <1>1, <2>1 DEF IInv, Types, TableIsOpen, Arrays
  <2>3. fds[clients[i].fd] \in Peers BY <2>2 DEF ListIsOpen, Open, NetTypes
  <2>4. mine[fds[clients[i].fd]] \in [name : Words, room : Words] BY <2>2, <2>3 DEF ArrayTypes
  <2> QED BY <2>1, <2>2, <2>4 DEF Own
<1> QED BY <1>1, Invariance, PTL

\* Lab 18: broadcast_room's text reaches a client only if the room is the one that
\* this client itself entered last.
THEOREM TextsStayInRoom == Spec => TextStaysInRoom
<1>1. IInv /\ [Next]_allVars => [lab = 18 => L18!ToOwnRoom]_allVars
  BY ScopeFrame
<1> QED BY <1>1, Invariance, PTL DEF Spec, TextStaysInRoom

\* Lab 17: /msg reaches a client only by the name that this client itself set
\* last.
THEOREM PrivateMessages == Spec => PrivateToNamed
<1>1. IInv /\ [Next]_allVars => [lab = 17 => L17!ToOwnName]_allVars
  BY ScopeFrame
<1> QED BY <1>1, Invariance, PTL DEF Spec, PrivateToNamed
=============================================================================
