--------------------------- MODULE MCChatServers ---------------------------
(***************************************************************************)
(* The four single-threaded epoll chat servers, and the logger of lab 05,  *)
(* before the same peers, for TLC.  Which lab's server runs is chosen in   *)
(* the initial state.                                                      *)
(***************************************************************************)
EXTENDS ClientArray, TLC

CONSTANTS MaxClients,   \* MAX_CLIENTS, the slots of lab 05
          MaxCommands   \* bound: the lines that may be commands
ASSUME SlotsAssumption == MaxClients \in Nat

VARIABLES lab,
          log,     \* lab 05: its log
          left     \* history: the peers of which the last recv left something behind

allVars == <<vars, lab, log, left>>

L04 == INSTANCE FlagChat
L05 == INSTANCE TcpLogger
L14 == INSTANCE EpollChat
L17 == INSTANCE CommandChat
L18 == INSTANCE RoomChat

\* The lines a client of each lab may send: every command, and a text.
Plain(cmds) == [cmd : cmds, arg : {Empty}]
LinesOf(l) ==
    CASE l \in {4, 5, 14} -> Plain({"text"})
      [] l = 17 -> [cmd : {"nick", "msg"}, arg : {Prefix} \cup LongWords]
                   \cup Plain({"list", "msg-only", "quit", "unknown", "text"})
      [] l = 18 -> [cmd : {"nick"}, arg : LongWords] \cup [cmd : {"join"}, arg : Words \cup LongWords]
                   \cup Plain({"leave", "list", "quit", "unknown", "text"})
AllLines == UNION {LinesOf(l) : l \in {4, 5, 14, 17, 18}}

Init == /\ left = {}
        /\ \/ lab = 4 /\ L04!Init /\ mine = {} /\ log = <<>>
           \/ lab = 5 /\ L05!Init /\ mine = {}
           \/ lab = 14 /\ L14!Init /\ log = <<>>
           \/ lab = 17 /\ L17!Init /\ log = <<>>
           \/ lab = 18 /\ L18!Init /\ log = <<>>

\* Bounds: a command that is only answered is the first line sent or none; after
\* MaxCommands lines only texts are sent, and nothing in lab 17.
InTurn(line) ==
    /\ nsent # 0 => line.cmd \notin {"list", "msg-only", "unknown"}
    /\ nsent >= MaxCommands => line.cmd = "text" /\ lab # 17

PeerStep(p) == \/ PeerConnect(p) \/ PeerClose(p)
               \/ \E line \in LinesOf(lab) : InTurn(line) /\ PeerSend(p, line)

\* What a step leaves unread of peer p, and the arrival of something new.
Unread(p) == inq[p] # <<>> \/ Ended(p)
Arrives(p) == Len(inq'[p]) > Len(inq[p]) \/ (Ended(p)' /\ ~Ended(p))

\* A recv has taken some lines and left others, which its buffer did not hold, or
\* the end of the connection, and nothing has arrived since.
LeftBehind ==
    left' = {p \in Peers : /\ Unread(p)' /\ ~Arrives(p)
                           /\ p \in left \/ Len(inq'[p]) < Len(inq[p])}

Next == /\ \/ lab = 4 /\ L04!Server /\ UNCHANGED <<mine, log>>
           \/ lab = 5 /\ L05!Server /\ UNCHANGED mine
           \/ lab = 14 /\ L14!Server /\ UNCHANGED log
           \/ lab = 17 /\ L17!Server /\ UNCHANGED log
           \/ lab = 18 /\ L18!Server /\ UNCHANGED log
           \/ (\E p \in Peers : PeerStep(p)) /\ UNCHANGED <<arrayVars, log>>
        /\ LeftBehind
        /\ UNCHANGED lab

Spec == Init /\ [][Next]_allVars
-----------------------------------------------------------------------------
\* In every server the table of clients is that of the open descriptors.
TableIsOpen == CASE lab = 4 -> L04!FlagsAreOpen
                 [] lab = 5 -> L05!SlotsAreOpen
                 [] OTHER -> ListIsOpen

\* Where events are edge-triggered: what is unread on an accepted connection has
\* its event coming, unless the last recv on this connection, which nothing that
\* arrived has followed, left it behind.
EdgeSeen ==
    lab # 5 => \A f \in Open : Unread(fds[f]) => f \in ready \cup batch \/ fds[f] \in left

\* Lab 18: names and rooms are those their connection set.
EntryIsOwn == lab = 18 => L18!EntryIsOwn

\* Lab 18: whoever receives a text is in its room.
TextStaysInRoom == [][lab = 18 => L18!ToOwnRoom]_allVars

\* Lab 17: whoever receives a private message has the name it is addressed to.
PrivateToNamed == [][lab = 17 => L17!ToOwnName]_allVars

Symmetry == Permutations(Peers)
=============================================================================
