------------------------ MODULE LoadBalancersProofs ------------------------
(***************************************************************************)
(* Theorems about the load balancers of labs 10, 12 and 13, for any number *)
(* of clients, backends and descriptors.  They are stated for the          *)
(* composition MCLoadBalancers, in which one of the three runs.            *)
(***************************************************************************)
EXTENDS MCLoadBalancers, FiniteSetTheorems, TLAPS

\* The types of the variables the proofs are about.
Types ==
    /\ lab \in {10, 12, 13}
    /\ fds \in [Fds -> Peers \cup {None}]
    /\ conn \in [Peers -> {"idle", "open", "closed", "broken", "done"}]
    /\ backlog \in Seq(Clients)
    /\ last \in [Peers -> Peers \cup {None}]
    /\ mate \in [Peers -> Peers \cup {None}]
    /\ down \in SUBSET Backends /\ turn \in Backends
    /\ misses \in Nat /\ served \in [Backends -> Nat]

\* A peer is in one place: not connected yet, waiting to be accepted (once), or
\* behind one descriptor.
OnePlace ==
    /\ \A f \in Fds : fds[f] # None => conn[fds[f]] # "idle"
    /\ \A f, g \in Fds : fds[f] # None /\ fds[f] = fds[g] => f = g
    /\ \A i \in DOMAIN backlog :
          conn[backlog[i]] # "idle" /\ \A f \in Fds : fds[f] # backlog[i]
    /\ \A i, j \in DOMAIN backlog : i # j => backlog[i] # backlog[j]

\* Who has not been accepted has no mate.
Unmated ==
    /\ \A p \in Peers : conn[p] = "idle" => mate[p] = None
    /\ \A i \in DOMAIN backlog : mate[backlog[i]] = None

\* Lab 12: the child of a client has it and the backend's end it is paired with.
ForkInv == lab = 12 =>
    /\ table \in [Clients -> {"none", "request", "answer", "ended"}]
    /\ \A p \in Clients : table[p] \in {"request", "answer"} =>
          /\ mate[p] \in Peers \ Clients /\ mate[mate[p]] = p
          /\ conn[p] # "idle" /\ conn[mate[p]] # "idle"

\* Lab 13: descriptors are used two by two, 1 with 2, 3 with 4, and so on; an
\* entry is empty or names these two; of two such descriptors both are open, for
\* the two ends of one pairing, or neither.
Buddy(f) == IF f % 2 = 1 THEN f + 1 ELSE f - 1
Entry(f) == IF f % 2 = 1 THEN [client |-> f, backend |-> f + 1]
                         ELSE [client |-> f - 1, backend |-> f]
AsyncInv == lab = 13 =>
    /\ table \in [Fds -> [client : 0..MaxFd, backend : 0..MaxFd]]
    /\ \A f \in Fds : table[f] = [client |-> 0, backend |-> 0] \/ table[f] = Entry(f)
    /\ \A f \in Open : /\ table[f] = Entry(f)
                       /\ Buddy(f) \in Open /\ fds[Buddy(f)] = mate[fds[f]]

\* Lab 10: every open descriptor is in one entry of the table, and an entry has
\* the two ends of one pairing.
Has(i, f) == f \in {table[i].client, table[i].backend}
TcpInv == lab = 10 =>
    /\ table \in Seq([client : Fds, backend : Fds])
    /\ \A i \in DOMAIN table :
          /\ table[i].client \in Open /\ table[i].backend \in Open
          /\ mate[fds[table[i].client]] = fds[table[i].backend]
          /\ mate[fds[table[i].backend]] = fds[table[i].client]
    /\ \A i, j \in DOMAIN table : \A f \in Fds : Has(i, f) /\ Has(j, f) => i = j
    /\ \A f \in Open : \E i \in DOMAIN table : Has(i, f)

\* Lab 10: the backends before the one whose turn it is are one connection ahead.
RoundInv == lab = 10 =>
    \A b \in Backends : served[b] = served[BackendCount - 1] + (IF b < turn THEN 1 ELSE 0)

\* Labs 12 and 13: the backends that had the last turns were all dead.
Before(k) == IF k <= turn THEN turn - k ELSE BackendCount + turn - k
RefuseInv == lab # 10 /\ down # Backends =>
    misses < BackendCount /\ \A k \in 1..misses : Before(k) \in down

\* What a step does to peers and pairs: a client joins the backlog, its first
\* client is turned away, paired with a backend's end, live or dead, or, by a
\* forking parent, given to a child, or nothing happens but that connections end.
Joins(p) ==
    /\ p \in Clients /\ conn[p] = "idle"
    /\ conn' = [conn EXCEPT ![p] = "open"]
    /\ backlog' = Append(backlog, p)
    /\ UNCHANGED <<fds, mate, last, turn, misses, served>>

TurnedAway ==
    /\ backlog # <<>>
    /\ conn' = [conn EXCEPT ![Head(backlog)] = "done"]
    /\ backlog' = Tail(backlog)
    /\ UNCHANGED <<fds, mate, last>>

Linked(f, g, b) ==
    /\ Paired(f, g, b)
    /\ \E c \in {"open", "closed"} : conn' = [conn EXCEPT ![b] = c]

Forked(b) ==
    /\ lab = 12 /\ backlog # <<>> /\ b \in Peers \ Clients /\ conn[b] = "idle"
    /\ conn' \in [Peers -> {"idle", "open", "closed", "broken", "done"}]
    /\ conn'[b] # "idle" /\ conn'[Head(backlog)] # "idle"
    /\ \A p \in Peers \ {b, Head(backlog)} : conn'[p] = conn[p]
    /\ backlog' = Tail(backlog)
    /\ mate' = [mate EXCEPT ![Head(backlog)] = b, ![b] = Head(backlog)]
    /\ UNCHANGED <<fds, last>>

Kept ==
    /\ conn' \in [Peers -> {"idle", "open", "closed", "broken", "done"}]
    /\ \A p \in Peers : conn'[p] = "idle" <=> conn[p] = "idle"
    /\ fds' \in [Fds -> Peers \cup {None}]
    /\ \A f \in Fds : fds'[f] \in {fds[f], None}
    /\ UNCHANGED <<backlog, mate>>

AllVars == <<loopVars, proxyVars, lab, table>>

\* Each instance has these operators from EpollLoop and Proxy; they are the same.
USE DEF
        loopVars, proxyVars, Fds, Listen, Open, FdOf, Ended, Event, Backends,
        L10!loopVars, L10!proxyVars, L10!Fds, L10!Listen, L10!Open, L10!FdOf, L10!Ended, L10!Event, L10!Backends,
        L12!loopVars, L12!proxyVars, L12!Fds, L12!Listen, L12!Open, L12!FdOf, L12!Ended, L12!Event, L12!Backends,
        L13!loopVars, L13!proxyVars, L13!Fds, L13!Listen, L13!Open, L13!FdOf, L13!Ended, L13!Event, L13!Backends,
        NextTurn, L10!NextTurn, L12!NextTurn, L13!NextTurn

\* Sends leave a connection that was not idle so.
LEMMA SendKeeps ==
    ASSUME Types, NEW P, NEW msg, Send(P, msg)
    PROVE  /\ conn' \in [Peers -> {"idle", "open", "closed", "broken", "done"}]
           /\ \A p \in Peers : conn'[p] = "idle" <=> conn[p] = "idle"
  BY DEF Types, Send

\* Closing descriptors ends connections and opens none.
LEMMA CloseKeeps ==
    ASSUME Types, OnePlace, NEW S, CloseFds(S)
    PROVE  /\ conn' \in [Peers -> {"idle", "open", "closed", "broken", "done"}]
           /\ \A p \in Peers : conn'[p] = "idle" <=> conn[p] = "idle"
           /\ fds' \in [Fds -> Peers \cup {None}]
           /\ \A f \in Fds : fds'[f] \in {fds[f], None}
<1> USE DEF Types, CloseFds
<1>1. \A p \in Peers : FdOf(p) \cap S # {} => conn[p] # "idle"
  BY PeersAssumption DEF OnePlace
<1> QED BY <1>1

\* Nothing that a pairing, a forwarding or the choice of a backend looks at.
Quiet == UNCHANGED <<fds, last, proxyVars, table>>

\* The steps of labs 10 and 13 are those of Proxy and EpollLoop with a table.
LEMMA Steps10 ==
    ASSUME lab = 10, [Next]_AllVars
    PROVE  /\ UNCHANGED <<lab, down>>
           /\ \/ \E p \in Peers : Remote(p) /\ UNCHANGED <<proxyVars, table>>
              \/ Quiet /\ UNCHANGED <<conn, backlog>>
              \/ Refused /\ UNCHANGED <<turn, misses, table>>
              \/ \E f \in Fds : Copy(f, L10!Partner(f)) /\ UNCHANGED table
              \/ \E f, g \in Fds, b \in Peers :
                    /\ Linked(f, g, b) /\ turn' = (turn + 1) % BackendCount
                    /\ served' = [served EXCEPT ![turn] = @ + 1] /\ UNCHANGED misses
                    /\ table' = Append(table, [client |-> f, backend |-> g])
<1>0. UNCHANGED lab BY DEF Next, AllVars
<1>1. CASE L10!Wait \/ L10!AcceptNothing \/ \E f \in Fds : L10!Ignore(f)
  BY <1>0, <1>1 DEF L10!Wait, L10!AcceptNothing, L10!AcceptFails, L10!Ignore, Quiet
<1>2. CASE L10!AcceptRefused BY <1>0, <1>2 DEF L10!AcceptRefused, L10!Refused, Refused
<1>3. ASSUME NEW f \in Fds, L10!Forward(f) PROVE Copy(f, L10!Partner(f)) /\ UNCHANGED <<table, down>>
  BY <1>3 DEF L10!Forward, L10!Copy, Copy, L10!Send, Send, L10!Consume, Consume,
              L10!Received, Received, L10!ResetBy, ResetBy
<1>4. ASSUME NEW f \in Fds, NEW g \in Fds, NEW b \in Peers, L10!AcceptPair(f, g, b)
      PROVE  /\ Linked(f, g, b) /\ turn' = (turn + 1) % BackendCount /\ UNCHANGED <<down, misses>>
             /\ served' = [served EXCEPT ![turn] = @ + 1]
             /\ table' = Append(table, [client |-> f, backend |-> g])
  BY <1>4 DEF L10!AcceptPair, L10!Entered, L10!Paired, Paired, L10!Lowest, Lowest, Linked
<1>5. CASE UNCHANGED AllVars BY <1>5 DEF AllVars, Quiet
<1>6. CASE L10!Server
  BY <1>0, <1>1, <1>2, <1>3, <1>4, <1>6 DEF L10!Server
<1>7. CASE \E p \in Peers : Remote(p) /\ UNCHANGED <<proxyVars, table>> BY <1>0, <1>7
<1> QED BY <1>5, <1>6, <1>7 DEF Next

\* What a step of lab 13 does to the table and the network.
LEMMA Steps13 ==
    ASSUME lab = 13, [Next]_AllVars
    PROVE  /\ UNCHANGED <<lab, down>>
           /\ \/ \E p \in Peers : Remote(p) /\ UNCHANGED <<proxyVars, table>>
              \/ Quiet /\ UNCHANGED <<conn, backlog>>
              \/ Refused /\ misses' = 0 /\ turn' = (turn + 1) % BackendCount /\ UNCHANGED table
              \/ /\ misses' = 0 /\ turn' = (turn + 1) % BackendCount
                 /\ UNCHANGED <<fds, conn, backlog, last, mate, served, table>>
              \/ \E f \in Fds : Copy(f, L13!Partner(f)) /\ UNCHANGED table
              \/ \E f \in Fds : /\ CloseFds({f, L13!Partner(f)} \cap Open)
                                /\ UNCHANGED <<backlog, last, proxyVars, table>>
              \/ \E f, g \in Fds, b \in Peers :
                    /\ Linked(f, g, b) /\ turn' = (turn + 1) % BackendCount
                    /\ UNCHANGED served /\ misses' = (IF turn \in down THEN misses + 1 ELSE 0)
                    /\ table' = [table EXCEPT ![f] = [client |-> f, backend |-> g],
                                              ![g] = [client |-> f, backend |-> g]]
<1>0. UNCHANGED lab BY DEF Next, AllVars
<1>1. CASE L13!EpollWait /\ UNCHANGED <<proxyVars, table>> BY <1>0, <1>1 DEF L13!EpollWait, Quiet
<1>2. CASE L13!AcceptRefused BY <1>0, <1>2 DEF L13!AcceptRefused, L13!Refused, Refused
<1>3. CASE L13!AcceptNothing BY <1>0, <1>3 DEF L13!AcceptNothing, L13!AcceptFails
<1>4. ASSUME NEW f \in Fds, L13!Forward(f) PROVE Copy(f, L13!Partner(f)) /\ UNCHANGED <<table, down>>
  BY <1>4 DEF L13!Forward, L13!Copy, Copy, L13!Send, Send, L13!Consume, Consume,
              L13!Received, Received, L13!ResetBy, ResetBy
<1>5. ASSUME NEW f \in Fds, L13!CloseBoth(f)
      PROVE  CloseFds({f, L13!Partner(f)} \cap Open) /\ UNCHANGED <<backlog, last, proxyVars, table>>
  BY <1>5 DEF L13!CloseBoth, L13!CloseFds, CloseFds
<1>6. ASSUME NEW f \in Fds, NEW g \in Fds, NEW b \in Peers, L13!AcceptPair(f, g, b)
      PROVE  /\ Linked(f, g, b) /\ turn' = (turn + 1) % BackendCount /\ UNCHANGED <<down, served>>
             /\ misses' = (IF turn \in down THEN misses + 1 ELSE 0)
             /\ table' = [table EXCEPT ![f] = [client |-> f, backend |-> g],
                                       ![g] = [client |-> f, backend |-> g]]
  BY <1>6 DEF L13!AcceptPair, L13!Paired, Paired, L13!Lowest, Lowest, Linked
<1>7. CASE UNCHANGED AllVars BY <1>7 DEF AllVars, Quiet
<1>8. CASE L13!Server
  BY <1>0, <1>1, <1>2, <1>3, <1>4, <1>5, <1>6, <1>8 DEF L13!Server
<1>9. CASE \E p \in Peers : Remote(p) /\ UNCHANGED <<proxyVars, table>> BY <1>0, <1>9
<1>10. L13!Server \/ (\E p \in Peers : Remote(p) /\ UNCHANGED <<proxyVars, table>>) \/ UNCHANGED AllVars
  BY DEF Next
<1> QED BY <1>7, <1>8, <1>9, <1>10

\* Steps of lab 12.
LEMMA Steps12 ==
    ASSUME lab = 12, Types, OnePlace, ForkInv, [Next]_AllVars
    PROVE  /\ UNCHANGED <<lab, down, fds>>
           /\ \/ Quiet /\ (Kept \/ \E p \in Peers : Joins(p))
              \/ /\ Refused /\ turn \in down /\ misses' = misses + 1
                 /\ turn' = (turn + 1) % BackendCount /\ UNCHANGED table
              \/ \E b \in Peers :
                    /\ Forked(b) /\ misses' = 0 /\ turn' = (turn + 1) % BackendCount
                    /\ UNCHANGED served
                    /\ table' \in {table, [table EXCEPT ![Head(backlog)] = "request"]}
              \/ \E p \in Clients :
                    /\ table[p] \in {"request", "answer"} /\ UNCHANGED proxyVars /\ Kept
                    /\ table' \in {[table EXCEPT ![p] = "answer"], [table EXCEPT ![p] = "ended"]}
                    /\ last' \in {last, [last EXCEPT ![p] = mate[p]], [last EXCEPT ![mate[p]] = p]}
<1>0. UNCHANGED lab BY DEF Next, AllVars
<1>1. ASSUME NEW p \in Peers, Remote(p) /\ UNCHANGED <<proxyVars, table>> PROVE Quiet /\ (Kept \/ Joins(p))
  BY <1>1 DEF Remote, PeerConnect, PeerClose, PeerSend, Quiet, Joins, Kept, Types
<1>2. CASE L12!EpollWait /\ UNCHANGED <<proxyVars, table>> BY <1>0, <1>2 DEF L12!EpollWait, Quiet, Kept, Types
<1>3. CASE L12!AcceptRefused
  BY <1>0, <1>3 DEF L12!AcceptRefused, L12!Advance, L12!Refused, Refused
<1>4. ASSUME NEW b \in Peers, L12!AcceptFork(b) \/ L12!ForkFails(b)
      PROVE  /\ UNCHANGED <<fds, down>>
             /\ Forked(b) /\ misses' = 0 /\ turn' = (turn + 1) % BackendCount
             /\ UNCHANGED served
             /\ table' \in {table, [table EXCEPT ![Head(backlog)] = "request"]}
  <2>1. L12!Connected(b) BY <1>4 DEF L12!AcceptFork, L12!ForkFails
  <2>2. /\ backlog # <<>> /\ b \in Peers \ Clients /\ conn[b] = "idle"
        /\ backlog' = Tail(backlog) /\ UNCHANGED <<fds, last, down, served>>
        /\ mate' = [mate EXCEPT ![Head(backlog)] = b, ![b] = Head(backlog)]
        /\ misses' = 0 /\ turn' = (turn + 1) % BackendCount
    BY <2>1 DEF L12!Connected, L12!Advance
  <2>3. Head(backlog) \in Clients /\ conn[Head(backlog)] # "idle" BY <2>2 DEF Types, OnePlace
  <2>4. \/ conn' = [conn EXCEPT ![b] = "open"]
        \/ conn' = [conn EXCEPT ![b] = "done", ![Head(backlog)] = "done"]
    BY <1>4 DEF L12!AcceptFork, L12!ForkFails
  <2>5. Forked(b) BY <2>2, <2>3, <2>4, ProxyAssumption DEF Forked, Types
  <2>6. table' \in {table, [table EXCEPT ![Head(backlog)] = "request"]}
    BY <1>4 DEF L12!AcceptFork, L12!ForkFails
  <2> QED BY <2>2, <2>5, <2>6
<1>5. ASSUME NEW p \in Clients, L12!Request(p) \/ L12!Answer(p)
      PROVE  /\ UNCHANGED <<fds, down>>
             /\ table[p] \in {"request", "answer"} /\ UNCHANGED proxyVars /\ Kept
             /\ table' \in {[table EXCEPT ![p] = "answer"], [table EXCEPT ![p] = "ended"]}
             /\ last' \in {last, [last EXCEPT ![p] = mate[p]], [last EXCEPT ![mate[p]] = p]}
  <2>1. /\ UNCHANGED <<fds, backlog>> /\ table[p] \in {"request", "answer"} /\ UNCHANGED proxyVars
        /\ table' \in {[table EXCEPT ![p] = "answer"], [table EXCEPT ![p] = "ended"]}
        /\ last' \in {last, [last EXCEPT ![p] = mate[p]], [last EXCEPT ![mate[p]] = p]}
        /\ conn' = conn \/ conn' = [conn EXCEPT ![p] = "done", ![mate[p]] = "done"]
    BY <1>5 DEF L12!Request, L12!Answer, L12!Relay, L12!Exits
  <2>2. mate[p] \in Peers /\ conn[p] # "idle" /\ conn[mate[p]] # "idle" BY <2>1 DEF ForkInv
  <2>3. Kept BY <2>1, <2>2, ProxyAssumption DEF Kept, Types
  <2> QED BY <2>1, <2>3
<1>6. CASE UNCHANGED AllVars BY <1>6 DEF AllVars, Quiet, Kept, Types
<1>7. CASE \E b \in Peers : L12!AcceptFork(b) \/ L12!ForkFails(b) BY <1>0, <1>4, <1>7
<1>8. CASE \E p \in Clients : L12!Request(p) \/ L12!Answer(p) BY <1>0, <1>5, <1>8
<1>9. CASE L12!Server BY <1>2, <1>3, <1>7, <1>8, <1>9 DEF L12!Server
<1> QED BY <1>0, <1>1, <1>6, <1>9 DEF Next, Quiet

\* Every step, of whichever lab, as one of the few effects below.
LEMMA Frame ==
    ASSUME Types, OnePlace, ForkInv, [Next]_AllVars
    PROVE  \/ \E p \in Peers : Joins(p)
           \/ \E f, g \in Fds, b \in Peers : lab # 12 /\ Linked(f, g, b)
           \/ TurnedAway
           \/ \E b \in Peers : Forked(b)
           \/ Kept
<1>1. ASSUME NEW p \in Peers, Remote(p) /\ UNCHANGED <<proxyVars, table>> PROVE Joins(p) \/ Kept
  BY <1>1 DEF Remote, PeerConnect, PeerClose, PeerSend, Joins, Kept, Types
<1>2. ASSUME NEW f, NEW g, Copy(f, g) PROVE Kept BY <1>2, SendKeeps DEF Copy, Kept, Types
<1>3. CASE lab # 12
  <2>1. ASSUME NEW S, CloseFds(S), UNCHANGED <<backlog, mate>> PROVE Kept BY <2>1, CloseKeeps DEF Kept
  <2>2. CASE Refused BY <2>2 DEF Refused, TurnedAway
  <2>3. CASE UNCHANGED <<fds, conn, backlog, mate>> BY <2>3 DEF Kept, Types
  <2>4. Quiet => UNCHANGED <<fds, mate>> BY DEF Quiet
  <2>5. CASE lab = 10
    <3> HIDE DEF proxyVars, Fds, Open
    <3> QED BY <1>1, <1>2, <1>3, <2>2, <2>3, <2>4, <2>5, Steps10
  <2>6. CASE lab = 13
    <3>1. UNCHANGED proxyVars => UNCHANGED mate OBVIOUS
    <3> HIDE DEF proxyVars, Fds, Open
    <3> QED BY <1>1, <1>2, <1>3, <2>1, <2>2, <2>3, <2>4, <2>6, <3>1, Steps13
  <2> QED BY <1>3, <2>5, <2>6 DEF Types
<1>4. CASE lab = 12
  <2>1. Refused => TurnedAway BY DEF Refused, TurnedAway
  <2> QED BY <1>4, <2>1, Steps12
<1> QED BY <1>3, <1>4

\* The first of the backlog, and what is left of it.
LEMMA First ==
    ASSUME Types, OnePlace, backlog # <<>>
    PROVE  /\ Head(backlog) \in Clients /\ Head(backlog) \in Peers
           /\ Tail(backlog) \in Seq(Clients)
           /\ conn[Head(backlog)] # "idle" /\ \A f \in Fds : fds[f] # Head(backlog)
           /\ \A i \in DOMAIN Tail(backlog) :
                 /\ i + 1 \in DOMAIN backlog /\ Tail(backlog)[i] = backlog[i + 1]
                 /\ Tail(backlog)[i] # Head(backlog)
           /\ Unmated => mate[Head(backlog)] = None
<1> USE DEF Types, OnePlace
<1>1. 1 \in DOMAIN backlog /\ Head(backlog) = backlog[1] OBVIOUS
<1>2. \A i \in DOMAIN Tail(backlog) :
         i + 1 \in DOMAIN backlog /\ Tail(backlog)[i] = backlog[i + 1] /\ i + 1 # 1
  OBVIOUS
<1> QED BY <1>1, <1>2, ProxyAssumption DEF Unmated

\* The types of the variables the kernel and the peers share.
NetTypes ==
    /\ fds \in [Fds -> Peers \cup {None}]
    /\ conn \in [Peers -> {"idle", "open", "closed", "broken", "done"}]
    /\ backlog \in Seq(Clients)
    /\ mate \in [Peers -> Peers \cup {None}]

\* No step takes a network variable out of its type.
LEMMA NetStep ==
    ASSUME Types, OnePlace, Unmated, ForkInv, [Next]_AllVars
    PROVE  (NetTypes /\ OnePlace /\ Unmated)'
<1> USE PeersAssumption, ProxyAssumption
<1>1. ASSUME NEW p \in Peers, Joins(p) PROVE (NetTypes /\ OnePlace /\ Unmated)'
  <2>1. \A i \in DOMAIN backlog' : IF i = Len(backlog) + 1 THEN backlog'[i] = p
                                   ELSE i \in DOMAIN backlog /\ backlog'[i] = backlog[i]
    BY <1>1 DEF Joins, Types
  <2>2. NetTypes' BY <1>1 DEF Joins, NetTypes, Types
  <2> QED BY <1>1, <2>1, <2>2 DEF Joins, Types, OnePlace, Unmated
<1>2. ASSUME NEW f \in Fds, NEW g \in Fds, NEW b \in Peers, Linked(f, g, b)
      PROVE (NetTypes /\ OnePlace /\ Unmated)'
  <2> DEFINE p == Head(backlog)
  <2>1. /\ backlog # <<>> /\ f # g /\ fds[f] = None /\ fds[g] = None
        /\ b \in Peers \ Clients /\ conn[b] = "idle"
        /\ fds' = [fds EXCEPT ![f] = p, ![g] = b]
        /\ \E c \in {"open", "closed"} : conn' = [conn EXCEPT ![b] = c]
        /\ backlog' = Tail(backlog)
        /\ mate' = [mate EXCEPT ![p] = b, ![b] = p]
    BY <1>2 DEF Linked, Paired, Lowest
  <2>2. NetTypes'
    <3>1. conn' \in [Peers -> {"idle", "open", "closed", "broken", "done"}] BY <2>1 DEF Types
    <3>2. fds' \in [Fds -> Peers \cup {None}] /\ mate' \in [Peers -> Peers \cup {None}]
      BY <2>1, First DEF Types
    <3>3. backlog' \in Seq(Clients) BY <2>1, First
    <3> QED BY <3>1, <3>2, <3>3 DEF NetTypes
  <2>3. \A h \in Fds : fds[h] # b BY <2>1 DEF OnePlace
  <2>4. \A h \in Fds : fds'[h] = IF h = f THEN p ELSE IF h = g THEN b ELSE fds[h]
    BY <2>1 DEF Types
  <2>5. p # b /\ p \in Peers /\ b # None /\ p # None BY <2>1, First
  <2>6. OnePlace'
    <3>1. \A q \in Peers : conn'[q] # "idle" <=> conn[q] # "idle" \/ q = b BY <2>1 DEF Types
    <3>9. \A h \in Fds : fds[h] # None => fds[h] \in Peers BY DEF Types
    <3>2. \A h \in Fds : fds[h] # None => fds[h] \in Peers /\ conn[fds[h]] # "idle" BY <3>9 DEF OnePlace
    <3>3. conn[p] # "idle" /\ \A h \in Fds : fds[h] # p BY <2>1, First
    <3>4. \A h \in Fds : fds'[h] # None => conn'[fds'[h]] # "idle" BY <2>4, <2>5, <3>1, <3>2, <3>3
    <3>5. \A h, k \in Fds : fds'[h] # None /\ fds'[h] = fds'[k] => h = k
      BY <2>3, <2>4, <2>5, <3>3 DEF OnePlace
    <3>6. \A i \in DOMAIN backlog' : /\ backlog'[i] # b /\ backlog'[i] # p /\ backlog'[i] \in Peers
                                     /\ i + 1 \in DOMAIN backlog /\ backlog'[i] = backlog[i + 1]
                                     /\ i \in Nat
      <4>1. \A i \in DOMAIN Tail(backlog) : i \in Nat /\ Tail(backlog)[i] \in Clients BY <2>1, First
      <4> QED BY <2>1, <4>1, First
    <3>7. \A i \in DOMAIN backlog' :
             conn'[backlog'[i]] # "idle" /\ \A h \in Fds : fds'[h] # backlog'[i]
      BY <2>4, <3>1, <3>6 DEF OnePlace
    <3>8. \A i, j \in DOMAIN backlog' : i # j => backlog'[i] # backlog'[j]
      <4> SUFFICES ASSUME NEW i \in DOMAIN backlog', NEW j \in DOMAIN backlog', i # j
                   PROVE  backlog'[i] # backlog'[j]
        OBVIOUS
      <4>1. i + 1 # j + 1 BY <3>6
      <4> QED BY <3>6, <4>1 DEF OnePlace
    <3> QED BY <3>4, <3>5, <3>7, <3>8 DEF OnePlace
  <2>7. Unmated'
    <3>1. \A q \in Peers : mate'[q] = IF q = b THEN p ELSE IF q = p THEN b ELSE mate[q]
      BY <2>1, <2>5 DEF Types
    <3>2. \A q \in Peers : conn'[q] = "idle" => conn[q] = "idle" /\ q # b /\ q # p
      BY <2>1, First DEF Types
    <3>3. \A i \in DOMAIN backlog' :
             /\ backlog'[i] \in Peers /\ backlog'[i] # b /\ backlog'[i] # p
             /\ i + 1 \in DOMAIN backlog /\ backlog'[i] = backlog[i + 1]
      <4>1. \A i \in DOMAIN Tail(backlog) : Tail(backlog)[i] \in Clients BY <2>1, First
      <4> QED BY <2>1, <4>1, First
    <3> QED BY <3>1, <3>2, <3>3 DEF Unmated
  <2> QED BY <2>2, <2>6, <2>7
<1>3. CASE TurnedAway
  BY <1>3, First DEF TurnedAway, NetTypes, Types, OnePlace, Unmated
<1>4. ASSUME NEW b \in Peers, Forked(b) PROVE (NetTypes /\ OnePlace /\ Unmated)'
  <2>1. NetTypes' BY <1>4, First DEF Forked, NetTypes, Types
  <2>2. \A i \in DOMAIN backlog' : /\ backlog'[i] # b /\ backlog'[i] # Head(backlog) /\ backlog'[i] \in Peers
                                   /\ i + 1 \in DOMAIN backlog /\ backlog'[i] = backlog[i + 1] /\ i \in Nat
    BY <1>4, First DEF Forked, Types
  <2>3. \A q \in Peers : conn[q] # "idle" => conn'[q] # "idle" BY <1>4 DEF Forked
  <2>4. \A f \in Fds : fds'[f] = fds[f] /\ (fds[f] # None => fds[f] \in Peers) BY <1>4 DEF Forked, Types
  <2>5. OnePlace'
    <3>1. \A i, j \in DOMAIN backlog' : i # j => backlog'[i] # backlog'[j]
      <4> SUFFICES ASSUME NEW i \in DOMAIN backlog', NEW j \in DOMAIN backlog', i # j
                   PROVE  backlog'[i] # backlog'[j]
        OBVIOUS
      <4>1. i + 1 # j + 1 BY <2>2
      <4> QED BY <2>2, <4>1 DEF OnePlace
    <3> QED BY <2>2, <2>3, <2>4, <3>1 DEF OnePlace
  <2>6. Unmated'
    <3>1. mate' = [mate EXCEPT ![Head(backlog)] = b, ![b] = Head(backlog)] BY <1>4 DEF Forked
    <3>2. \A q \in Peers : conn'[q] = "idle" => q # b /\ q # Head(backlog) /\ conn[q] = "idle"
      BY <1>4 DEF Forked
    <3> QED BY <2>2, <3>1, <3>2 DEF Unmated, Types
  <2> QED BY <2>1, <2>5, <2>6
<1>5. CASE Kept
  <2>1. NetTypes' BY <1>5 DEF Kept, NetTypes, Types
  <2>2. \A f \in Fds : fds'[f] # None => fds'[f] = fds[f] /\ fds[f] \in Peers BY <1>5 DEF Kept, Types
  <2>3. \A i \in DOMAIN backlog : backlog[i] \in Peers /\ backlog[i] # None BY DEF Types
  <2>4. OnePlace' BY <1>5, <2>2, <2>3 DEF Kept, OnePlace
  <2>5. Unmated' BY <1>5, <2>3 DEF Kept, Unmated
  <2> QED BY <2>1, <2>4, <2>5
<1> QED BY <1>1, <1>2, <1>3, <1>4, <1>5, Frame

\* The modulus of round robin.
LEMMA TurnModulus ==
    ASSUME NEW t \in Backends
    PROVE  (t + 1) % BackendCount = IF t = BackendCount - 1 THEN 0 ELSE t + 1
  BY ProxyAssumption

\* A message goes from the peer behind f to the one behind g, if g is open.
LEMMA CopyLast ==
    ASSUME Types, NEW f, NEW g, Copy(f, g)
    PROVE  /\ f \in Open /\ UNCHANGED <<fds, backlog, proxyVars>>
           /\ last' \in [Peers -> Peers \cup {None}]
           /\ \A q \in Peers : last'[q] # last[q] =>
                 g \in Open /\ q = fds[g] /\ last'[q] = fds[f]
<1> DEFINE P == {fds[h] : h \in {g} \cap Open}
           msg == [q \in P |-> fds[f]]
<1>1. f \in Open /\ UNCHANGED <<fds, backlog, proxyVars>> /\ Send(P, msg) BY DEF Copy
<1>2. fds[f] \in Peers /\ \A q \in P : msg[q] = fds[f] /\ g \in Open /\ q = fds[g] BY <1>1 DEF Types
<1> HIDE DEF P, msg
<1>3. CASE UNCHANGED last BY <1>1, <1>3 DEF Types
<1>4. ASSUME NEW lost \in SUBSET (P \cap Slow),
             last' = [p \in Peers |-> IF p \in P \ lost /\ conn[p] = "open" THEN msg[p] ELSE last[p]]
      PROVE  /\ last' \in [Peers -> Peers \cup {None}]
             /\ \A q \in Peers : last'[q] # last[q] => g \in Open /\ q = fds[g] /\ last'[q] = fds[f]
  BY <1>2, <1>4 DEF Types
<1> QED BY <1>1, <1>3, <1>4 DEF Send

\* No step takes a variable out of its type.
LEMMA TypesStep ==
    ASSUME Types, OnePlace, Unmated, ForkInv, [Next]_AllVars
    PROVE  Types'
<1>0. (turn + 1) % BackendCount \in Backends BY TurnModulus, ProxyAssumption DEF Types
<1>1. NetTypes' BY NetStep
<1>2. ASSUME NEW p \in Peers, Remote(p) /\ UNCHANGED <<proxyVars, table>> PROVE UNCHANGED <<last, turn, misses, served>>
  BY <1>2 DEF Remote, PeerConnect, PeerClose, PeerSend
<1>3. Refused => UNCHANGED <<last, served>> BY DEF Refused
<1>4. ASSUME NEW f, NEW g, NEW b, Linked(f, g, b) PROVE UNCHANGED last BY <1>4 DEF Linked, Paired
<1>8. ASSUME NEW f, NEW g, Copy(f, g)
      PROVE  last' \in [Peers -> Peers \cup {None}] /\ UNCHANGED <<turn, misses, served>>
  BY <1>8, CopyLast
<1> DEFINE Rest == /\ last \in [Peers -> Peers \cup {None}] /\ turn \in Backends
                   /\ misses \in Nat /\ served \in [Backends -> Nat]
<1>9. /\ Rest /\ misses + 1 \in Nat
      /\ [served EXCEPT ![turn] = @ + 1] \in [Backends -> Nat]
  BY DEF Types
<1>10. ASSUME lab' = lab, down' = down, Rest' PROVE Types' BY <1>1, <1>10 DEF Types, NetTypes
<1>11. Quiet => UNCHANGED <<last, turn, misses, served>> BY DEF Quiet
<1>12. UNCHANGED proxyVars => UNCHANGED <<turn, misses, served>> OBVIOUS
<1>5. CASE lab = 10
  <2> HIDE DEF proxyVars, Fds, Open, Backends
  <2>1. Rest' BY <1>0, <1>2, <1>3, <1>4, <1>5, <1>8, <1>9, <1>11, Steps10
  <2> QED BY <1>5, <1>10, <2>1, Steps10
<1>6. CASE lab = 12
  <2>1. ASSUME NEW p \in Clients, table[p] \in {"request", "answer"}, UNCHANGED proxyVars,
               last' \in {last, [last EXCEPT ![p] = mate[p]], [last EXCEPT ![mate[p]] = p]}
        PROVE  last' \in [Peers -> Peers \cup {None}]
    <3>1. p \in Peers /\ mate[p] \in Peers BY <1>6, <2>1, ProxyAssumption DEF ForkInv
    <3> QED BY <2>1, <3>1 DEF Types
  <2>2. last' \in [Peers -> Peers \cup {None}] /\ misses' \in Nat /\ served' \in [Backends -> Nat]
    BY <1>3, <1>6, <2>1, Steps12 DEF Types, Quiet, Forked
  <2>3. turn' \in Backends BY <1>0, <1>6, Steps12 DEF Types, Quiet
  <2>4. lab' = lab /\ down' = down BY <1>6, Steps12
  <2> QED BY <1>1, <2>2, <2>3, <2>4 DEF Types, NetTypes
<1>7. CASE lab = 13
  <2> HIDE DEF proxyVars, Fds, Open, Backends
  <2>0. 0 \in Nat /\ (IF turn \in down THEN misses + 1 ELSE 0) \in Nat BY <1>9
  <2>2. last' \in [Peers -> Peers \cup {None}]
    BY <1>2, <1>3, <1>4, <1>7, <1>8, <1>9, <1>11, Steps13
  <2>3. turn' \in Backends /\ misses' \in Nat
    BY <1>0, <1>2, <1>7, <1>8, <1>9, <1>11, <1>12, <2>0, Steps13
  <2>4. served' \in [Backends -> Nat]
    BY <1>2, <1>3, <1>7, <1>8, <1>9, <1>11, <1>12, Steps13
  <2>1. Rest' BY <2>2, <2>3, <2>4
  <2> QED BY <1>7, <1>10, <2>1, Steps13
<1> QED BY <1>5, <1>6, <1>7 DEF Types

\* Each forked child of lab 12 keeps its own pair.
LEMMA ForkStep ==
    ASSUME Types, OnePlace, Unmated, ForkInv, [Next]_AllVars
    PROVE  ForkInv'
<1> SUFFICES ASSUME lab = 12 PROVE ForkInv' BY DEF ForkInv, Next, AllVars
<1> USE ProxyAssumption, PeersAssumption
<1>1. \A p \in Peers : conn[p] # "idle" => conn'[p] # "idle"
  BY Frame DEF Joins, TurnedAway, Forked, Kept, Types
<1>2. CASE Quiet BY <1>1, <1>2 DEF Quiet, ForkInv
<1>3. CASE Refused /\ UNCHANGED table BY <1>1, <1>3 DEF Refused, ForkInv
<1>4. ASSUME NEW b \in Peers, Forked(b), table' \in {table, [table EXCEPT ![Head(backlog)] = "request"]}
      PROVE ForkInv'
  <2> DEFINE h == Head(backlog)
  <2>1. h \in Clients /\ (mate[h] = None) /\ mate[b] = None /\ b \in Peers \ Clients
    BY <1>4, First DEF Forked, Unmated
  <2>2. mate' = [mate EXCEPT ![h] = b, ![b] = h] BY <1>4 DEF Forked
  <2>3. \A p \in Clients \ {h} : table[p] \in {"request", "answer"} =>
            mate[p] # b /\ mate[p] # h
    BY <2>1 DEF ForkInv
  <2>4. table' \in [Clients -> {"none", "request", "answer", "ended"}] BY <1>4, <2>1 DEF ForkInv
  <2>5. \A p \in Clients \ {h} : table'[p] = table[p] BY <1>4, <2>1 DEF ForkInv
  <2>6. mate'[h] = b /\ mate'[b] = h BY <2>1, <2>2 DEF Types
  <2>7. \A p \in Peers \ {h, b} : mate'[p] = mate[p] BY <2>2 DEF Types
  <2>8. conn'[h] # "idle" /\ conn'[b] # "idle" BY <1>4 DEF Forked
  <2> QED BY <1>1, <2>1, <2>3, <2>4, <2>5, <2>6, <2>7, <2>8 DEF ForkInv
<1>5. ASSUME NEW p \in Clients, table[p] \in {"request", "answer"}, UNCHANGED proxyVars,
             table' \in {[table EXCEPT ![p] = "answer"], [table EXCEPT ![p] = "ended"]}
      PROVE ForkInv'
  BY <1>1, <1>5 DEF ForkInv
<1> QED BY <1>2, <1>3, <1>4, <1>5, Steps12

\* The two descriptors of a pair.
LEMMA BuddyPair ==
    ASSUME NEW f \in Nat \ {0}
    PROVE  /\ Buddy(f) \in Nat \ {0} /\ Buddy(f) # f
           /\ Buddy(Buddy(f)) = f /\ Entry(Buddy(f)) = Entry(f)
           /\ Entry(f).client \in {f, Buddy(f)} /\ Entry(f).backend \in {f, Buddy(f)}
           /\ IF Entry(f).client = f THEN Entry(f).backend = Buddy(f)
                                     ELSE Entry(f).client = Buddy(f)
  BY DEF Buddy, Entry

\* Where an entry leads to.
LEMMA Partner13 ==
    ASSUME lab = 13, AsyncInv, NEW f \in Fds
    PROVE  /\ L13!Partner(f) \in {0, Buddy(f)}
           /\ f \in Open => L13!Partner(f) = Buddy(f)
           /\ f \in Open <=> Buddy(f) \in Open
<1>1. f \in Nat \ {0} BY LoopBounds
<1>2. table[f] = Entry(f) => L13!Partner(f) = Buddy(f) BY <1>1, BuddyPair DEF L13!Partner
<1>3. table[f] = [client |-> 0, backend |-> 0] => L13!Partner(f) = 0 BY <1>1 DEF L13!Partner
<1>4. f \in Open => table[f] = Entry(f) BY DEF AsyncInv
<1>5. f \in Open => Buddy(f) \in Open BY DEF AsyncInv
<1>6. Buddy(f) \in Open => Buddy(Buddy(f)) \in Open BY DEF AsyncInv
<1> QED BY <1>1, <1>2, <1>3, <1>4, <1>5, <1>6, BuddyPair DEF AsyncInv

\* The descriptors accept and socket return next to each other are a pair.
LEMMA LowestPair ==
    ASSUME lab = 13, AsyncInv, NEW f \in Fds, NEW g \in Fds, NEW b, Linked(f, g, b)
    PROVE  f % 2 = 1 /\ g = f + 1
<1>1. /\ f \notin Open /\ \A h \in 1..f-1 : h \in Open
      /\ g \notin Open /\ g # f /\ \A h \in 1..g-1 : h \in Open \cup {f}
  BY DEF Linked, Paired, Lowest
<1>2. f % 2 = 1
  <2> SUFFICES ASSUME f % 2 # 1 PROVE FALSE OBVIOUS
  <2>1. f - 1 \in 1..f-1 /\ (f - 1) % 2 = 1 /\ f - 1 \in Fds BY LoopBounds
  <2>2. Buddy(f - 1) = f BY <2>1, LoopBounds DEF Buddy
  <2> QED BY <1>1, <2>1, <2>2, Partner13
<1>3. f + 1 \notin Open
  <2> SUFFICES ASSUME f + 1 \in Open PROVE FALSE OBVIOUS
  <2>1. Buddy(f) = f + 1 BY <1>2 DEF Buddy
  <2> QED BY <1>1, <2>1, Partner13
<1>4. ~(g < f) BY <1>1, LoopBounds
<1>5. ~(g > f + 1)
  <2> SUFFICES ASSUME g > f + 1 PROVE FALSE OBVIOUS
  <2>1. f + 1 \in 1..g-1 /\ f + 1 # f BY LoopBounds
  <2> QED BY <1>1, <1>3, <2>1
<1> QED BY <1>1, <1>2, <1>4, <1>5, LoopBounds

\* The reactor of lab 13 keeps the two ends of a pair buddies.
LEMMA AsyncStep ==
    ASSUME Types, OnePlace, Unmated, AsyncInv, [Next]_AllVars
    PROVE  AsyncInv'
<1> SUFFICES ASSUME lab = 13 PROVE AsyncInv' BY DEF AsyncInv, Next, AllVars
<1> USE PeersAssumption, ProxyAssumption, LoopBounds
<1>1. UNCHANGED <<fds, mate, table>> => AsyncInv' BY DEF AsyncInv
<1>2. ASSUME NEW p \in Peers, Remote(p) /\ UNCHANGED <<proxyVars, table>> PROVE UNCHANGED <<fds, mate, table>>
  BY <1>2 DEF Remote, PeerConnect, PeerClose, PeerSend
<1>3. ASSUME NEW f \in Fds, CloseFds({f, L13!Partner(f)} \cap Open), UNCHANGED <<mate, table>>
      PROVE  AsyncInv'
  <2> DEFINE S == {f, L13!Partner(f)} \cap Open
  <2>1. \A g \in Fds : fds'[g] = IF g \in S THEN None ELSE fds[g] BY <1>3 DEF CloseFds
  <2>2. \A g \in Fds : g \in S <=> f \in Open /\ g \in {f, Buddy(f)} BY Partner13
  <2>3. \A g \in Fds : g \in S <=> Buddy(g) \in S
    <3> SUFFICES ASSUME NEW g \in Fds PROVE g \in S <=> Buddy(g) \in S OBVIOUS
    <3>1. Buddy(Buddy(g)) = g /\ Buddy(Buddy(f)) = f BY BuddyPair
    <3>2. Buddy(g) \in S => Buddy(g) \in Fds OBVIOUS
    <3>3. f \in Open => Buddy(f) \in Fds BY Partner13
    <3> QED BY <2>2, <3>1, <3>2, <3>3
  <2>4. \A g \in Open' : g \in Open /\ g \notin S /\ fds'[g] = fds[g] BY <2>1
  <2>5. \A g \in Open' : Buddy(g) \in Open /\ Buddy(g) \notin S BY <2>3, <2>4 DEF AsyncInv
  <2>6. \A g \in Open' : Buddy(g) \in Open' /\ fds'[Buddy(g)] = fds[Buddy(g)] BY <2>1, <2>5
  <2> QED BY <1>3, <2>4, <2>6 DEF AsyncInv
<1>4. ASSUME NEW f \in Fds, NEW g \in Fds, NEW b \in Peers, Linked(f, g, b),
             table' = [table EXCEPT ![f] = [client |-> f, backend |-> g],
                                    ![g] = [client |-> f, backend |-> g]]
      PROVE  AsyncInv'
  <2> DEFINE p == Head(backlog)
  <2>1. /\ backlog # <<>> /\ f # g /\ fds[f] = None /\ fds[g] = None
        /\ b \in Peers \ Clients /\ conn[b] = "idle"
        /\ fds' = [fds EXCEPT ![f] = p, ![g] = b]
        /\ mate' = [mate EXCEPT ![p] = b, ![b] = p]
    BY <1>4 DEF Linked, Paired, Lowest
  <2>2. f % 2 = 1 /\ g = f + 1 BY <1>4, LowestPair
  <2>3. Buddy(f) = g /\ Buddy(g) = f /\ Entry(f) = [client |-> f, backend |-> g]
        /\ Entry(g) = [client |-> f, backend |-> g]
    BY <2>2 DEF Buddy, Entry
  <2>4. p \in Peers /\ p \in Clients /\ \A h \in Fds : fds[h] # p /\ fds[h] # b
    BY <2>1, First DEF OnePlace
  <2>5. \A h \in Fds : fds'[h] = IF h = f THEN p ELSE IF h = g THEN b ELSE fds[h]
    BY <2>1 DEF Types
  <2>6. Open' = Open \cup {f, g} BY <2>4, <2>5
  <2>7. mate'[p] = b /\ mate'[b] = p /\ \A q \in Peers \ {p, b} : mate'[q] = mate[q]
    BY <2>1, <2>4 DEF Types
  <2>8. /\ table' \in [Fds -> [client : 0..MaxFd, backend : 0..MaxFd]]
        /\ \A h \in Fds : table'[h] = IF h \in {f, g} THEN Entry(h) ELSE table[h]
    <3>1. [client |-> f, backend |-> g] \in [client : 0..MaxFd, backend : 0..MaxFd] OBVIOUS
    <3>2. table \in [Fds -> [client : 0..MaxFd, backend : 0..MaxFd]] BY DEF AsyncInv
    <3>3. table' \in [Fds -> [client : 0..MaxFd, backend : 0..MaxFd]] BY <1>4, <3>1, <3>2
    <3> QED BY <1>4, <2>3, <3>2, <3>3
  <2>9. \A h \in Open : Buddy(h) \notin {f, g} /\ Buddy(h) \in Open /\ fds[h] \in Peers \ {p, b}
    BY <2>1, <2>4 DEF AsyncInv, Types
  <2>10. \A h \in Open : h \notin {f, g} BY <2>1
  <2>11. \A h \in Open' : /\ table'[h] = Entry(h)
                          /\ Buddy(h) \in Open' /\ fds'[Buddy(h)] = mate'[fds'[h]]
    <3>1. ASSUME NEW h \in Open PROVE /\ table'[h] = Entry(h)
                          /\ Buddy(h) \in Open' /\ fds'[Buddy(h)] = mate'[fds'[h]]
      <4>1. table[h] = Entry(h) /\ fds[Buddy(h)] = mate[fds[h]] BY AsyncInv DEF AsyncInv
      <4>2. fds'[h] = fds[h] /\ fds'[Buddy(h)] = fds[Buddy(h)] BY <2>5, <2>9, <2>10
      <4> QED BY <2>6, <2>7, <2>8, <2>9, <2>10, <4>1, <4>2
    <3>2. table'[f] = Entry(f) /\ table'[g] = Entry(g) BY <2>8
    <3>3. fds'[f] = p /\ fds'[g] = b BY <2>1, <2>5
    <3> QED BY <2>3, <2>6, <2>7, <3>1, <3>2, <3>3
  <2>12. \A h \in Fds : table'[h] = [client |-> 0, backend |-> 0] \/ table'[h] = Entry(h)
    BY <2>8 DEF AsyncInv
  <2> QED BY <2>8, <2>11, <2>12 DEF AsyncInv
<1>5. Quiet => UNCHANGED <<fds, mate, table>> BY DEF Quiet
<1>6. Refused => UNCHANGED <<fds, mate>> BY DEF Refused
<1>7. ASSUME NEW f, NEW g, Copy(f, g) PROVE UNCHANGED <<fds, mate>> BY <1>7 DEF Copy
<1>8. UNCHANGED proxyVars => UNCHANGED mate OBVIOUS
<1> HIDE DEF proxyVars, Fds, Open
<1> QED BY <1>1, <1>2, <1>3, <1>4, <1>5, <1>6, <1>7, <1>8, Steps13

\* The entry that forward_data finds for an open descriptor has it.
LEMMA Partner10 ==
    ASSUME lab = 10, TcpInv, NEW f \in Open
    PROVE  /\ L10!Partner(f) \in Open
           /\ mate[fds[L10!Partner(f)]] = fds[f] /\ mate[fds[f]] = fds[L10!Partner(f)]
<1> DEFINE Mine(j) == /\ f \in {table[j].client, table[j].backend}
                      /\ \A k \in DOMAIN table : f \in {table[k].client, table[k].backend} => k <= j
           i == CHOOSE j \in DOMAIN table : Mine(j)
<1>1. \E j \in DOMAIN table : Mine(j)
  <2>1. PICK j \in DOMAIN table : Has(j, f) BY DEF TcpInv
  <2>2. \A k \in DOMAIN table : Has(k, f) => k = j BY <2>1 DEF TcpInv
  <2>3. j \in Nat BY DEF TcpInv
  <2> QED BY <2>1, <2>2, <2>3 DEF Has
<1>2. i \in DOMAIN table /\ Mine(i) BY <1>1
<1>3. L10!Partner(f) = IF table[i].client = f THEN table[i].backend ELSE table[i].client
  BY DEF L10!Partner
<1> QED BY <1>2, <1>3 DEF TcpInv

\* A table entry of lab 10 keeps the two ends of one pair.
LEMMA TcpStep ==
    ASSUME Types, OnePlace, Unmated, TcpInv, [Next]_AllVars
    PROVE  TcpInv'
<1> SUFFICES ASSUME lab = 10 PROVE TcpInv' BY DEF TcpInv, Next, AllVars
<1> USE PeersAssumption, ProxyAssumption
<1>1. UNCHANGED <<fds, mate, table>> => TcpInv' BY DEF TcpInv, Has
<1>2. ASSUME NEW p \in Peers, Remote(p) /\ UNCHANGED <<proxyVars, table>> PROVE UNCHANGED <<fds, mate, table>>
  BY <1>2 DEF Remote, PeerConnect, PeerClose, PeerSend
<1>3. ASSUME NEW f \in Fds, NEW g \in Fds, NEW b \in Peers, Linked(f, g, b),
             table' = Append(table, [client |-> f, backend |-> g])
      PROVE  TcpInv'
  <2> DEFINE p == Head(backlog)
  <2>0. PICK n : n = Len(table) + 1 OBVIOUS
  <2>1. /\ backlog # <<>> /\ f # g /\ fds[f] = None /\ fds[g] = None
        /\ b \in Peers \ Clients /\ conn[b] = "idle"
        /\ fds' = [fds EXCEPT ![f] = p, ![g] = b]
        /\ mate' = [mate EXCEPT ![p] = b, ![b] = p]
    BY <1>3 DEF Linked, Paired, Lowest
  <2>2. p \in Peers /\ p \in Clients /\ \A h \in Fds : fds[h] # p /\ fds[h] # b
    BY <2>1, First DEF OnePlace
  <2>3. \A h \in Fds : fds'[h] = IF h = f THEN p ELSE IF h = g THEN b ELSE fds[h]
    BY <2>1 DEF Types
  <2>4. Open' = Open \cup {f, g} /\ f \notin Open /\ g \notin Open BY <2>1, <2>2, <2>3
  <2>5. mate'[p] = b /\ mate'[b] = p /\ \A q \in Peers \ {p, b} : mate'[q] = mate[q]
    BY <2>1, <2>2 DEF Types
  <2>6. /\ table' \in Seq([client : Fds, backend : Fds])
        /\ DOMAIN table' = DOMAIN table \cup {n} /\ n \notin DOMAIN table
        /\ table'[n] = [client |-> f, backend |-> g]
        /\ \A i \in DOMAIN table : table'[i] = table[i]
    BY <1>3, <2>0 DEF TcpInv
  <2>7. \A h \in Open : fds'[h] = fds[h] /\ mate'[fds[h]] = mate[fds[h]]
    BY <2>2, <2>3, <2>4, <2>5 DEF Types
  <2>8. \A i \in DOMAIN table' :
          /\ table'[i].client \in Open' /\ table'[i].backend \in Open'
          /\ mate'[fds'[table'[i].client]] = fds'[table'[i].backend]
          /\ mate'[fds'[table'[i].backend]] = fds'[table'[i].client]
    <3>1. fds'[f] = p /\ fds'[g] = b BY <2>1, <2>3
    <3>2. ASSUME NEW i \in DOMAIN table
          PROVE  /\ table[i].client \in Open /\ table[i].backend \in Open
                 /\ mate[fds[table[i].client]] = fds[table[i].backend]
                 /\ mate[fds[table[i].backend]] = fds[table[i].client]
      BY DEF TcpInv
    <3>3. ASSUME NEW i \in DOMAIN table
          PROVE  /\ table'[i].client \in Open' /\ table'[i].backend \in Open'
                 /\ mate'[fds'[table'[i].client]] = fds'[table'[i].backend]
                 /\ mate'[fds'[table'[i].backend]] = fds'[table'[i].client]
      <4>1. table'[i] = table[i] BY <2>6
      <4> DEFINE c == table[i].client
                 k == table[i].backend
      <4>2. fds'[c] = fds[c] /\ fds'[k] = fds[k] /\ mate'[fds[c]] = fds[k] /\ mate'[fds[k]] = fds[c]
        BY <2>7, <3>2
      <4>3. c \in Open' /\ k \in Open' BY <2>4, <3>2
      <4> QED BY <4>1, <4>2, <4>3
    <3> QED BY <2>4, <2>5, <2>6, <3>1, <3>3
  <2>9. \A i \in DOMAIN table' : \A h \in Fds :
           Has(i, h)' <=> IF i = n THEN h \in {f, g} ELSE Has(i, h)
    BY <2>6 DEF Has
  <2>10. \A i \in DOMAIN table : \A h \in Fds : Has(i, h) => h \in Open BY DEF TcpInv, Has
  <2>11. \A i, j \in DOMAIN table' : \A h \in Fds : Has(i, h)' /\ Has(j, h)' => i = j
    <3> SUFFICES ASSUME NEW i \in DOMAIN table', NEW j \in DOMAIN table', NEW h \in Fds,
                        Has(i, h)', Has(j, h)'
                 PROVE  i = j
      OBVIOUS
    <3>1. CASE i # n /\ j # n
      <4>1. i \in DOMAIN table /\ j \in DOMAIN table /\ Has(i, h) /\ Has(j, h) BY <2>6, <2>9, <3>1
      <4> QED BY <4>1 DEF TcpInv
    <3>2. CASE i = n /\ j # n BY <2>4, <2>6, <2>9, <2>10, <3>2
    <3>3. CASE i # n /\ j = n BY <2>4, <2>6, <2>9, <2>10, <3>3
    <3> QED BY <3>1, <3>2, <3>3
  <2>12. \A h \in Open' : \E i \in DOMAIN table' : Has(i, h)'
    <3>1. ASSUME NEW h \in Open PROVE \E i \in DOMAIN table' : Has(i, h)'
      <4>1. PICK i \in DOMAIN table : Has(i, h) BY DEF TcpInv
      <4> QED BY <2>6, <2>9, <4>1
    <3>2. Has(n, f)' /\ Has(n, g)' /\ n \in DOMAIN table' BY <2>6, <2>9
    <3> QED BY <2>4, <3>1, <3>2
  <2> QED BY <2>6, <2>8, <2>11, <2>12 DEF TcpInv
<1>4. Quiet => UNCHANGED <<fds, mate, table>> BY DEF Quiet
<1>5. Refused => UNCHANGED <<fds, mate>> BY DEF Refused
<1>6. ASSUME NEW f, NEW g, Copy(f, g) PROVE UNCHANGED <<fds, mate>> BY <1>6 DEF Copy
<1> HIDE DEF proxyVars, Fds, Open
<1> QED BY <1>1, <1>2, <1>3, <1>4, <1>5, <1>6, Steps10

\* A pairing is made once, and who receives is paired with the sender.
LEMMA IsolationStep ==
    ASSUME Types, OnePlace, Unmated, ForkInv, TcpInv, AsyncInv, Isolation, [Next]_AllVars
    PROVE  Isolation'
<1> USE PeersAssumption, ProxyAssumption
<1>1. \A p \in Peers : mate[p] # None => mate'[p] = mate[p]
  <2>1. ASSUME NEW b \in Peers, backlog # <<>>, conn[b] = "idle",
               mate' = [mate EXCEPT ![Head(backlog)] = b, ![b] = Head(backlog)]
        PROVE  \A p \in Peers : mate[p] # None => mate'[p] = mate[p]
    <3>1. mate[b] = None /\ mate[Head(backlog)] = None BY <2>1, First DEF Unmated
    <3> QED BY <2>1, <3>1 DEF Types
  <2>2. ASSUME NEW f, NEW g, NEW b \in Peers, Linked(f, g, b)
        PROVE  \A p \in Peers : mate[p] # None => mate'[p] = mate[p]
    BY <2>1, <2>2 DEF Linked, Paired
  <2>3. ASSUME NEW b \in Peers, Forked(b)
        PROVE  \A p \in Peers : mate[p] # None => mate'[p] = mate[p]
    BY <2>1, <2>3 DEF Forked
  <2>4. (\E p \in Peers : Joins(p)) \/ TurnedAway \/ Kept => UNCHANGED mate
    BY DEF Joins, TurnedAway, Kept
  <2> QED BY <2>2, <2>3, <2>4, Frame
<1>2. \A p \in Peers : last'[p] # last[p] => last'[p] = mate[p]
  <2>1. UNCHANGED last => \A p \in Peers : last'[p] # last[p] => last'[p] = mate[p] OBVIOUS
  <2>2. ASSUME NEW p \in Peers, Remote(p) PROVE UNCHANGED last
    BY <2>2 DEF Remote, PeerConnect, PeerClose, PeerSend
  <2>3. ASSUME NEW f, NEW g, NEW b, Linked(f, g, b) PROVE UNCHANGED last BY <2>3 DEF Linked, Paired
  <2>4. (Quiet => UNCHANGED last) /\ (Refused => UNCHANGED last) BY DEF Quiet, Refused
  <2>5. CASE lab = 10
    <3>1. ASSUME NEW f \in Fds, Copy(f, L10!Partner(f))
          PROVE  \A p \in Peers : last'[p] # last[p] => last'[p] = mate[p]
      <4>1. f \in Open BY <3>1, CopyLast
      <4>2. mate[fds[L10!Partner(f)]] = fds[f] BY <2>5, <4>1, Partner10
      <4> QED BY <3>1, <4>2, CopyLast
    <3> HIDE DEF proxyVars, Fds, Open
    <3> QED BY <2>1, <2>2, <2>3, <2>4, <2>5, <3>1, Steps10
  <2>6. CASE lab = 12
    <3>1. ASSUME NEW p \in Clients, table[p] \in {"request", "answer"},
                 last' \in {last, [last EXCEPT ![p] = mate[p]], [last EXCEPT ![mate[p]] = p]}
          PROVE  \A q \in Peers : last'[q] # last[q] => last'[q] = mate[q]
      <4>1. mate[p] \in Peers /\ mate[mate[p]] = p BY <2>6, <3>1 DEF ForkInv
      <4> QED BY <3>1, <4>1 DEF Types
    <3>2. ASSUME NEW b \in Peers, Forked(b) PROVE UNCHANGED last BY <3>2 DEF Forked
    <3> HIDE DEF proxyVars, Fds, Open
    <3> QED BY <2>1, <2>4, <2>6, <3>1, <3>2, Steps12
  <2>7. CASE lab = 13
    <3>1. ASSUME NEW f \in Fds, Copy(f, L13!Partner(f))
          PROVE  \A p \in Peers : last'[p] # last[p] => last'[p] = mate[p]
      <4>1. f \in Open BY <3>1, CopyLast
      <4>2. L13!Partner(f) = Buddy(f) /\ Buddy(f) \in Open BY <2>7, <4>1, Partner13
      <4>3. Buddy(Buddy(f)) = f BY BuddyPair, LoopBounds
      <4>4. mate[fds[L13!Partner(f)]] = fds[f] BY <2>7, <4>2, <4>3 DEF AsyncInv
      <4> QED BY <3>1, <4>4, CopyLast
    <3> HIDE DEF proxyVars, Fds, Open
    <3> QED BY <2>1, <2>2, <2>3, <2>4, <2>7, <3>1, Steps13
  <2> QED BY <2>5, <2>6, <2>7 DEF Types
<1> QED BY <1>1, <1>2 DEF Isolation

\* A connection moves the turn of lab 10 to the next backend.
LEMMA RoundStep ==
    ASSUME Types, RoundInv, [Next]_AllVars
    PROVE  RoundInv'
<1> SUFFICES ASSUME lab = 10 PROVE RoundInv' BY DEF RoundInv, Next, AllVars
<1>1. UNCHANGED <<turn, served>> => RoundInv' BY DEF RoundInv
<1>2. ASSUME NEW f, NEW g, NEW b, Linked(f, g, b), turn' = (turn + 1) % BackendCount,
             served' = [served EXCEPT ![turn] = @ + 1]
      PROVE  RoundInv'
  <2>1. turn' = IF turn = BackendCount - 1 THEN 0 ELSE turn + 1 BY <1>2, TurnModulus DEF Types
  <2>2. served' = [served EXCEPT ![turn] = @ + 1] BY <1>2
  <2>3. turn \in Nat /\ turn < BackendCount /\ BackendCount \in Nat \ {0} BY ProxyAssumption DEF Types
  <2>4. \A c \in Backends : c \in Nat /\ served[c] \in Nat
                            /\ served'[c] = IF c = turn THEN served[c] + 1 ELSE served[c]
    BY <2>2 DEF Types
  <2>5. \A c \in Backends : served[c] = served[BackendCount - 1] + (IF c < turn THEN 1 ELSE 0)
    BY DEF RoundInv
  <2>6. BackendCount - 1 \in Backends BY <2>3
  <2>7. \A c \in Backends : served'[c] = served'[BackendCount - 1] + (IF c < turn' THEN 1 ELSE 0)
    <3>1. CASE turn = BackendCount - 1 BY <2>1, <2>3, <2>4, <2>5, <2>6, <3>1
    <3>2. CASE turn # BackendCount - 1 BY <2>1, <2>3, <2>4, <2>5, <2>6, <3>2
    <3> QED BY <3>1, <3>2
  <2> QED BY <2>7 DEF RoundInv
<1>3. (Quiet => UNCHANGED <<turn, served>>) /\ (Refused => UNCHANGED served) BY DEF Quiet, Refused
<1>4. ASSUME NEW f, NEW g, Copy(f, g) PROVE UNCHANGED <<turn, served>> BY <1>4 DEF Copy
<1>5. UNCHANGED proxyVars => UNCHANGED <<turn, served>> OBVIOUS
<1> HIDE DEF proxyVars, Fds, Open
<1> QED BY <1>1, <1>2, <1>3, <1>4, <1>5, Steps10

\* In as many turns as there are backends each has had one.
LEMMA EveryTurn ==
    ASSUME NEW N \in Nat \ {0}, NEW t \in 0..N-1, NEW b \in 0..N-1
    PROVE  \E k \in 1..N : b = IF k <= t THEN t - k ELSE N + t - k
<1>1. CASE b < t
  <2>1. t - b \in 1..N /\ t - b <= t /\ b = t - (t - b) BY <1>1
  <2> QED BY <2>1
<1>2. CASE b >= t
  <2>1. N + t - b \in 1..N /\ ~(N + t - b <= t) /\ b = N + t - (N + t - b) BY <1>2
  <2> QED BY <2>1
<1> QED BY <1>1, <1>2

\* The clients labs 12 and 13 gave to dead backends in a row had the last turns.
LEMMA RefuseStep ==
    ASSUME Types, OnePlace, ForkInv, RefuseInv, [Next]_AllVars
    PROVE  RefuseInv'
<1> SUFFICES ASSUME lab # 10 PROVE RefuseInv' BY DEF RefuseInv, Next, AllVars
<1> USE ProxyAssumption
<1>1. /\ turn \in Nat /\ turn < BackendCount /\ BackendCount \in Nat \ {0} /\ misses \in Nat
      /\ (turn + 1) % BackendCount = IF turn = BackendCount - 1 THEN 0 ELSE turn + 1
  BY TurnModulus DEF Types
<1>2. lab' = lab /\ down' = down BY Steps12, Steps13 DEF Types
<1>3. UNCHANGED <<turn, misses>> => RefuseInv' BY <1>2 DEF RefuseInv, Before
<1>4. ASSUME misses' = 0 PROVE RefuseInv' BY <1>1, <1>4 DEF RefuseInv
<1>5. ASSUME turn \in down, misses' = misses + 1, turn' = (turn + 1) % BackendCount PROVE RefuseInv'
  <2>1. SUFFICES ASSUME down # Backends
                 PROVE  misses' < BackendCount /\ \A k \in 1..misses' : Before(k)' \in down
    BY <1>2 DEF RefuseInv
  <2>2. misses < BackendCount /\ \A k \in 1..misses : Before(k) \in down
    BY <2>1 DEF RefuseInv
  <2>3. \A k \in 1..misses' : Before(k)' \in down
    <3> SUFFICES ASSUME NEW k \in 1..misses' PROVE Before(k)' \in down OBVIOUS
    <3>1. CASE k = 1 BY <1>1, <1>5, <3>1 DEF Before
    <3>2. CASE k # 1
      <4>1. k - 1 \in 1..misses BY <1>1, <1>5, <3>2
      <4>2. Before(k)' = Before(k - 1) BY <1>1, <1>5, <2>2, <4>1 DEF Before
      <4> QED BY <2>2, <4>1, <4>2
    <3> QED BY <3>1, <3>2
  <2>4. misses' < BackendCount
    <3> SUFFICES ASSUME misses' = BackendCount PROVE FALSE BY <1>1, <1>5, <2>2
    <3>1. \A b \in Backends : b \in down
      <4> SUFFICES ASSUME NEW b \in Backends PROVE b \in down OBVIOUS
      <4>1. turn' \in 0..BackendCount-1
        <5>1. turn' = IF turn = BackendCount - 1 THEN 0 ELSE turn + 1 BY <1>1, <1>5
        <5> QED BY <1>1, <5>1
      <4>2. PICK k \in 1..misses' : b = IF k <= turn' THEN turn' - k ELSE BackendCount + turn' - k
        BY <4>1, EveryTurn
      <4>3. Before(k)' = b BY <4>2 DEF Before
      <4> QED BY <2>3, <4>2, <4>3
    <3> QED BY <2>1, <3>1 DEF Types
  <2> QED BY <2>3, <2>4
<1>6. Quiet => UNCHANGED <<turn, misses>> BY DEF Quiet
<1>7. UNCHANGED proxyVars => UNCHANGED <<turn, misses>> OBVIOUS
<1>8. ASSUME NEW f, NEW g, Copy(f, g) PROVE UNCHANGED <<turn, misses>> BY <1>8 DEF Copy
<1>9. CASE lab = 12
  <2> HIDE DEF proxyVars, Fds, Open
  <2> QED BY <1>3, <1>4, <1>5, <1>6, <1>7, <1>9, Steps12
<1>10. CASE lab = 13
  <2> HIDE DEF proxyVars, Fds, Open
  <2> QED BY <1>3, <1>4, <1>5, <1>6, <1>7, <1>8, <1>10, Steps13
<1> QED BY <1>9, <1>10 DEF Types

\* The bound on them follows from where the turn stands.
LEMMA Refusals ==
    ASSUME Types, RefuseInv
    PROVE  RefusalsBounded
<1> SUFFICES ASSUME lab # 10, down # Backends PROVE misses <= Cardinality(down)
  BY DEF RefusalsBounded, OncePerDead
<1> USE ProxyAssumption
<1>1. misses \in Nat /\ misses < BackendCount /\ turn \in 0..BackendCount-1 BY DEF Types, RefuseInv
<1>2. \A k \in 1..misses : Before(k) \in down BY DEF RefuseInv
<1>3. \A j, k \in 1..misses : Before(j) = Before(k) => j = k BY <1>1 DEF Before
<1> DEFINE B == [k \in 1..misses |-> Before(k)]
<1>4. B \in Injection(1..misses, down) BY <1>2, <1>3 DEF Injection, IsInjective
<1>5. IsFiniteSet(Backends) BY FS_Interval
<1>6. IsFiniteSet(down) BY <1>5, FS_Subset DEF Types
<1>7. Cardinality(1..misses) <= Cardinality(down) BY <1>4, <1>6, FS_Injection
<1>8. Cardinality(1..misses) = misses
  <2>1. Cardinality(1..misses) = IF 1 > misses THEN 0 ELSE misses - 1 + 1 BY <1>1, FS_Interval
  <2> QED BY <1>1, <2>1
<1> QED BY <1>7, <1>8

-----------------------------------------------------------------------------
\* All of it together.
IInv == /\ Types /\ OnePlace /\ Unmated /\ ForkInv /\ TcpInv /\ AsyncInv
        /\ Isolation /\ RoundInv /\ RefuseInv

\* The initial states satisfy the inductive invariant.
LEMMA InitIInv == ASSUME Init PROVE IInv
<1> USE PeersAssumption, ProxyAssumption, LoopBounds
<1>1. /\ lab \in {10, 12, 13} /\ down \in SUBSET Backends /\ turn = 0 /\ misses = 0
      /\ fds = [f \in Fds |-> None] /\ conn = [p \in Peers |-> "idle"] /\ backlog = <<>>
      /\ last = [p \in Peers |-> None] /\ mate = [p \in Peers |-> None]
      /\ served = [b \in Backends |-> 0]
  BY DEF Init, L10!Init, L12!Init, L13!Init, L10!ProxyInit, L12!ProxyInit, L13!ProxyInit,
         L10!LoopInit, L12!LoopInit, L13!LoopInit
<1>2. Types BY <1>1 DEF Types
<1>3. OnePlace /\ Unmated /\ Isolation BY <1>1 DEF OnePlace, Unmated, Isolation
<1>4. ForkInv BY <1>1 DEF ForkInv, Init, L12!Init
<1>5. TcpInv BY <1>1 DEF TcpInv, Init, L10!Init
<1>6. AsyncInv BY <1>1 DEF AsyncInv, Init, L13!Init
<1>7. RoundInv /\ RefuseInv BY <1>1 DEF RoundInv, RefuseInv
<1> QED BY <1>2, <1>3, <1>4, <1>5, <1>6, <1>7 DEF IInv

\* Every step preserves the inductive invariant.
LEMMA NextIInv == ASSUME IInv, [Next]_AllVars PROVE IInv'
  BY NetStep, TypesStep, ForkStep, TcpStep, AsyncStep, IsolationStep, RoundStep, RefuseStep DEF IInv

\* The inductive invariant holds in every reachable state of all the balancers
\* (labs 10, 12 and 13), for any number of backends, clients and descriptors.
THEOREM Invariance == Spec => []IInv
<1>1. Init => IInv BY InitIInv
<1>2. IInv /\ [Next]_AllVars => IInv' BY NextIInv
<1> QED BY <1>1, <1>2, PTL DEF Spec, AllVars

\* What a remote end receives came from the end it was paired with, in labs 10,
\* 12 and 13, whatever the order in which clients come and go and descriptors
\* are reused.
THEOREM IsolationHolds == Spec => []Isolation
  BY Invariance, PTL DEF IInv

\* connections[] of lab 13: an open descriptor's entry leads to the other end of
\* its pairing, and both entries agree, stale events or not.
THEOREM PairsStayIntact == Spec => []PairsIntact
<1>1. ASSUME IInv PROVE PairsIntact
  <2> SUFFICES ASSUME lab = 13, NEW f \in Open
               PROVE  /\ L13!Partner(f) \in Open /\ table[L13!Partner(f)] = table[f]
                      /\ fds[L13!Partner(f)] = mate[fds[f]]
    BY DEF PairsIntact, L13!PairsIntact
  <2>1. AsyncInv BY <1>1 DEF IInv
  <2>2. L13!Partner(f) = Buddy(f) /\ Buddy(f) \in Open BY <2>1, Partner13
  <2>3. Entry(Buddy(f)) = Entry(f) BY BuddyPair, LoopBounds
  <2> QED BY <2>1, <2>2, <2>3 DEF AsyncInv
<1> QED BY <1>1, Invariance, PTL

\* Round robin of lab 10: no backend is more than one connection ahead of another.
THEOREM RoundRobin == Spec => []Balanced
<1>1. ASSUME IInv PROVE Balanced
  <2> SUFFICES ASSUME lab = 10, NEW b \in Backends, NEW c \in Backends
               PROVE  served[b] <= served[c] + 1
    BY DEF Balanced, L10!Balanced
  <2>1. BackendCount - 1 \in Backends BY ProxyAssumption
  <2>2. served[BackendCount - 1] \in Nat /\ turn \in Nat BY <1>1, <2>1, ProxyAssumption DEF IInv, Types
  <2>3. \A d \in Backends : served[d] = served[BackendCount - 1] + (IF d < turn THEN 1 ELSE 0)
    BY <1>1 DEF IInv, RoundInv
  <2> QED BY <2>2, <2>3
<1> QED BY <1>1, Invariance, PTL

\* In labs 12 and 13 no more clients in a row are given to dead backends than
\* there are such, whether the refusal is seen by a blocking connect (12) or only
\* later, as an event on the pair (13).
THEOREM RefusalsAreBounded == Spec => []RefusalsBounded
<1>1. IInv => RefusalsBounded BY Refusals DEF IInv
<1> QED BY <1>1, Invariance, PTL
====
