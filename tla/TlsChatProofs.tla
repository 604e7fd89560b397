--------------------------- MODULE TlsChatProofs ---------------------------
(***************************************************************************)
(* Theorems about the TLS chat server of lab 16, for any number of         *)
(* clients, descriptors and records.                                       *)
(***************************************************************************)
EXTENDS TlsChat, SequenceTheorems, WellFoundedInduction, TLAPS

Records == Lines \cup {"hello", "finish"}

\* The types of the variables the proofs are about.
Types ==
    /\ fds \in [Fds -> Peers \cup {None}]
    /\ conn \in [Peers -> {"idle", "open", "closed", "reset", "broken", "done"}]
    /\ inq \in [Peers -> Seq(Records)]
    /\ backlog \in Seq(Peers)
    /\ ready \in SUBSET Fds /\ batch \in SUBSET (Fds \cup {Listen})
    /\ state \in [Fds -> {"none", "handshake", "established", "closed"}]

\* A peer is in one place: not connected yet, waiting to be accepted (once), or
\* behind one descriptor.
OnePlace ==
    /\ \A f \in Open : conn[fds[f]] # "idle"
    /\ \A f, g \in Open : fds[f] = fds[g] => f = g
    /\ \A i \in DOMAIN backlog :
          conn[backlog[i]] # "idle" /\ \A f \in Fds : fds[f] # backlog[i]
    /\ \A i, j \in DOMAIN backlog : i # j => backlog[i] # backlog[j]

\* Descriptors on epoll's ready list are open, and no batch is left when main
\* waits for the next or shuts down.
LoopInv == ready \subseteq Open /\ (at \in {"wait", "shutdown"} => batch = {})

IInv == Types /\ OnePlace /\ LoopInv /\ ListedIsOpen /\ NothingStranded

USE DEF Fds, Listen, Open, FdOf, Ended
USE PeersAssumption, LoopBounds

-----------------------------------------------------------------------------
\* A set of numbers has a least one.
LEMMA Least ==
    ASSUME NEW T \in SUBSET Nat, T # {}
    PROVE  \E x \in T : \A y \in T : x <= y
<1> DEFINE R == OpToRel(<, Nat)
<1>1. IsWellFoundedOn(R, Nat) BY NatLessThanWellFounded
<1>2. \A x, y \in Nat : x < y => <<x, y>> \in R BY DEF OpToRel
<1> HIDE DEF R
<1>3. \E x \in T : \A y \in T : ~ (<<y, x>> \in R) BY <1>1, WFMin
<1>4. PICK x \in T : \A y \in T : ~ (<<y, x>> \in R) BY <1>3
<1>5. \A y \in T : ~ (y < x) BY <1>2, <1>4
<1> QED BY <1>4, <1>5

\* SSL_read stops at the first record that is not data, or at the end.
LEMMA ReadsAll ==
    ASSUME NEW p \in Peers, inq[p] \in Seq(Records)
    PROVE  LET rest == SubSeq(inq[p], Reads(p) + 1, Len(inq[p]))
           IN  /\ rest \in Seq(Records)
               /\ rest = <<>> \/ Head(rest) # "data"
<1> DEFINE q == inq[p]
           n == Len(q)
           Good(k) == (\A i \in 1..k : q[i] = "data") /\ (k < n => q[k+1] # "data")
           T == {i \in 1..n : q[i] # "data"}
<1>0. n \in Nat /\ \A i \in 1..n : q[i] \in Records OBVIOUS
<1>1. \E k \in 0..n : Good(k)
  <2>1. CASE T = {}
    <3>1. \A i \in 1..n : q[i] = "data" BY <2>1
    <3>2. Good(n) /\ n \in 0..n BY <1>0, <3>1
    <3> QED BY <3>2
  <2>2. CASE T # {}
    <3>1. T \in SUBSET Nat OBVIOUS
    <3>2. PICK x \in T : \A y \in T : x <= y BY <2>2, <3>1, Least
    <3>3. x \in 1..n /\ q[x] # "data" BY <3>2
    <3>4. \A i \in 1..x-1 : q[i] = "data" BY <1>0, <3>2, <3>3
    <3>5. Good(x - 1) /\ x - 1 \in 0..n BY <1>0, <3>3, <3>4
    <3> QED BY <3>5
  <2> QED BY <2>1, <2>2
<1>2. Reads(p) = CHOOSE k \in 0..n : Good(k) BY DEF Reads
<1>3. PICK k : k = Reads(p) OBVIOUS
<1>4. k \in 0..n /\ Good(k) BY <1>1, <1>2, <1>3
<1>5. \A i \in k+1..n : q[i] \in Records BY <1>0, <1>4
<1>6. /\ SubSeq(q, k+1, n) \in Seq(Records)
      /\ Len(SubSeq(q, k+1, n)) = IF k+1 <= n THEN n-(k+1)+1 ELSE 0
      /\ \A i \in 1..n-(k+1)+1 : SubSeq(q, k+1, n)[i] = q[k+1+i-1]
  BY <1>0, <1>4, <1>5, SubSeqProperties
<1>7. CASE k = n
  <2>1. SubSeq(q, k+1, n) = <<>> BY <1>0, <1>4, <1>7, SubSeqEmpty
  <2> QED BY <1>3, <1>6, <2>1
<1>8. CASE k < n
  <2>1. q[k+1] # "data" BY <1>4, <1>8
  <2>2. k+1 \in 1..n /\ n \in k+1..n BY <1>0, <1>4, <1>8
  <2>3. Head(SubSeq(q, k+1, n)) = q[k+1] BY <2>2, HeadTailOfSubSeq
  <2> QED BY <1>3, <1>6, <2>1, <2>3
<1> QED BY <1>0, <1>4, <1>7, <1>8

\* The first of the backlog, and what is left of it.
LEMMA FirstPeer ==
    ASSUME Types, OnePlace, backlog # <<>>
    PROVE  /\ Head(backlog) \in Peers /\ Tail(backlog) \in Seq(Peers)
           /\ conn[Head(backlog)] # "idle" /\ \A f \in Fds : fds[f] # Head(backlog)
           /\ \A i \in DOMAIN Tail(backlog) :
                 /\ i \in Nat /\ i + 1 \in DOMAIN backlog /\ Tail(backlog)[i] = backlog[i + 1]
                 /\ Tail(backlog)[i] # Head(backlog)
<1> USE DEF Types, OnePlace
<1>1. 1 \in DOMAIN backlog /\ Head(backlog) = backlog[1] OBVIOUS
<1>2. \A i \in DOMAIN Tail(backlog) :
         i \in Nat /\ i + 1 \in DOMAIN backlog /\ Tail(backlog)[i] = backlog[i + 1] /\ i + 1 # 1
  OBVIOUS
<1> QED BY <1>1, <1>2

\* What a step that accepts nobody does to the peers: some descriptors, all
\* outside the batch and the ready list, are closed.
Closes(S) ==
    /\ S \subseteq Open
    /\ fds' = [g \in Fds |-> IF g \in S THEN None ELSE fds[g]]
    /\ conn' \in [Peers -> {"idle", "open", "closed", "reset", "broken", "done"}]
    /\ \A p \in Peers : conn'[p] = "idle" <=> conn[p] = "idle"
    /\ UNCHANGED backlog

\* The types and places of peers after such a step.
LEMMA ClosesKeeps ==
    ASSUME Types, OnePlace, NEW S, Closes(S)
    PROVE  /\ fds' \in [Fds -> Peers \cup {None}] /\ backlog' \in Seq(Peers) /\ OnePlace'
           /\ Open' = Open \ S /\ \A g \in Open \ S : fds'[g] = fds[g]
<1>1. \A g \in Fds : fds'[g] = IF g \in S THEN None ELSE fds[g] BY DEF Closes
<1>2. fds' \in [Fds -> Peers \cup {None}] /\ backlog' \in Seq(Peers) BY DEF Closes, Types
<1>3. Open' = Open \ S BY <1>1 DEF Closes
<1>4. \A g \in Open \ S : fds'[g] = fds[g] /\ fds[g] \in Peers BY <1>1 DEF Types
<1>5. \A i \in DOMAIN backlog : backlog[i] \in Peers BY DEF Types
<1>6. OnePlace' BY <1>1, <1>3, <1>4, <1>5 DEF OnePlace, Closes
<1> QED BY <1>2, <1>3, <1>4, <1>6

\* RemoveConnection, for a step that finds the state and the connections changed
\* without opening or closing any of them.
LEMMA RemoveCloses ==
    ASSUME Types, OnePlace, ListedIsOpen, NEW S \in SUBSET Open, NEW newState, NEW newConn,
           newState \in [Fds -> {"none", "handshake", "established", "closed"}],
           \A f \in Fds : newState[f] = "none" <=> state[f] = "none",
           newConn \in [Peers -> {"idle", "open", "closed", "reset", "broken", "done"}],
           \A p \in Peers : newConn[p] = "idle" <=> conn[p] = "idle",
           RemoveConnection(S, newState, newConn), UNCHANGED backlog
    PROVE  /\ Closes(S) /\ state' \in [Fds -> {"none", "handshake", "established", "closed"}]
           /\ Open' = {f \in Fds : state'[f] # "none"}
           /\ \A p \in Peers : (\A f \in S : fds[f] # p) => conn'[p] = newConn[p]
<1> USE DEF RemoveConnection
<1>1. \A p \in Peers : conn'[p] = IF FdOf(p) \cap S # {} THEN "done" ELSE newConn[p] OBVIOUS
<1>2. \A p \in Peers : FdOf(p) \cap S # {} => conn[p] # "idle" BY DEF OnePlace
<1>3. Closes(S) BY <1>1, <1>2 DEF Closes
<1>4. Open' = Open \ S BY <1>3, ClosesKeeps
<1>5. Open = {f \in Fds : state[f] # "none"} BY DEF ListedIsOpen
<1>6. \A f \in Fds : state'[f] = IF f \in S THEN "none" ELSE newState[f] OBVIOUS
<1>7. state' \in [Fds -> {"none", "handshake", "established", "closed"}] OBVIOUS
<1>8. Open' = {f \in Fds : state'[f] # "none"} BY <1>4, <1>5, <1>6
<1>9. \A p \in Peers : (\A f \in S : fds[f] # p) => FdOf(p) \cap S = {} OBVIOUS
<1> QED BY <1>1, <1>3, <1>7, <1>8, <1>9

\* An event of descriptor f has been worked through: f is closed, or nothing is
\* left to be read from it, or its peer is one of the early ones.
LEMMA EventKeeps ==
    ASSUME IInv, NEW f \in Open, NEW p \in Peers, p = fds[f], NEW S \in SUBSET {f}, NEW rest \in Seq(Records),
           Closes(S), batch' = batch \ {f}, at = "test", at' = "test",
           state' \in [Fds -> {"none", "handshake", "established", "closed"}],
           Open' = {g \in Fds : state'[g] # "none"},
           ready' \subseteq Open', ready \ S \subseteq ready',
           inq' = [inq EXCEPT ![p] = rest], early \subseteq early',
           proc' = "up" =>
              /\ proc = "up"
              /\ \A q \in Peers \ {p} : Ended(q)' => Ended(q)
              /\ f \in S \/ (rest = <<>> /\ ~Ended(p)') \/ p \in early'
    PROVE  IInv'
<1> USE DEF IInv
<1>1. /\ fds' \in [Fds -> Peers \cup {None}] /\ backlog' \in Seq(Peers) /\ OnePlace'
      /\ Open' = Open \ S /\ \A g \in Open \ S : fds'[g] = fds[g]
  BY ClosesKeeps
<1>3. Types'
  <2>1. inq' \in [Peers -> Seq(Records)] BY DEF Types
  <2>2. conn' \in [Peers -> {"idle", "open", "closed", "reset", "broken", "done"}] BY DEF Closes
  <2>3. ready' \in SUBSET Fds OBVIOUS
  <2>4. batch' \in SUBSET (Fds \cup {Listen}) BY DEF Types
  <2> QED BY <1>1, <2>1, <2>2, <2>3, <2>4 DEF Types
<1>4. LoopInv' BY DEF LoopInv
<1>5. ListedIsOpen' BY <1>1 DEF ListedIsOpen
<1>6. NothingStranded'
  <2> SUFFICES ASSUME proc' = "up", NEW g \in Open', Readable(g)'
               PROVE  g \in ready' \cup batch' \/ fds'[g] \in early'
    BY DEF NothingStranded
  <2>1. g \in Open \ S /\ fds'[g] = fds[g] /\ fds[g] \in Peers BY <1>1 DEF Types
  <2>2. inq'[fds[g]] # <<>> \/ conn'[fds[g]] \in {"closed", "reset", "broken"} BY <2>1 DEF Readable
  <2>3. CASE g = f
    <3>1. inq'[p] = rest BY DEF Types
    <3> QED BY <2>1, <2>2, <2>3, <3>1
  <2>4. CASE g # f
    <3>1. fds[g] # p BY <2>1, <2>4 DEF OnePlace
    <3>2. inq'[fds[g]] = inq[fds[g]] BY <2>1, <3>1 DEF Types
    <3>3. conn'[fds[g]] \in {"closed", "reset", "broken"} => Ended(fds[g]) BY <2>1, <3>1
    <3>4. Readable(g) BY <2>1, <2>2, <3>2, <3>3 DEF Readable
    <3>5. g \in ready \cup batch \/ fds[g] \in early BY <2>1, <3>4 DEF NothingStranded
    <3> QED BY <2>1, <2>4, <3>5
  <2> QED BY <2>3, <2>4
<1> QED BY <1>1, <1>3, <1>4, <1>5, <1>6

\* SSL_accept, and what it leaves unread.
LEMMA HandshakeStep ==
    ASSUME IInv, NEW f \in Fds, Handshake(f)
    PROVE  IInv'
<1>0. PICK p : p = fds[f] OBVIOUS
<1> DEFINE rest == IF Progress(p) = hs[p] THEN inq[p] ELSE Tail(inq[p])
           done == Progress(p) = "done"
           fatal == ~done /\ (rest # <<>> \/ Ended(p))
           S == IF fatal THEN {f} ELSE {}
           ns == [state EXCEPT ![f] = IF done THEN "established" ELSE @]
<1>1. /\ proc = "up" /\ at = "test" /\ at' = "test" /\ f \in batch /\ batch' = batch \ {f}
      /\ state[f] = "handshake" /\ inq' = [inq EXCEPT ![p] = rest]
      /\ early' = IF done /\ (rest # <<>> \/ Ended(p)) THEN early \cup {p} ELSE early
      /\ RemoveConnection(S, ns, conn)
      /\ ready' = IF fatal THEN ready \ {f} ELSE ready
      /\ UNCHANGED <<proc, nsent, backlog, last, running, cli, pending>>
  BY <1>0 DEF Handshake, Main, Event
<1>2. f \in Open /\ p \in Peers BY <1>0, <1>1 DEF IInv, ListedIsOpen, Types
<1>3. rest \in Seq(Records)
  <2>1. inq[p] \in Seq(Records) BY <1>2 DEF IInv, Types
  <2>2. Progress(p) # hs[p] => inq[p] # <<>> BY DEF Progress
  <2> QED BY <2>1, <2>2
<1>4. S \in SUBSET {f} /\ (fatal <=> f \in S) OBVIOUS
<1>5. ~fatal => (rest = <<>> /\ ~Ended(p)) \/ p \in early' BY <1>1
<1>6. early \subseteq early' BY <1>1
<1>7. ready' = ready \ S BY <1>1
<1>8. /\ ns \in [Fds -> {"none", "handshake", "established", "closed"}]
      /\ \A g \in Fds : ns[g] = "none" <=> state[g] = "none"
  BY <1>1 DEF IInv, Types
<1> HIDE DEF ns, S, fatal, done, rest
<1>9. conn \in [Peers -> {"idle", "open", "closed", "reset", "broken", "done"}] BY DEF IInv, Types
<1>10. S \in SUBSET Open BY <1>2, <1>4
<1>11. /\ Closes(S) /\ state' \in [Fds -> {"none", "handshake", "established", "closed"}]
       /\ Open' = {g \in Fds : state'[g] # "none"}
       /\ \A q \in Peers : (\A g \in S : fds[g] # q) => conn'[q] = conn[q]
  <2>1. Types /\ OnePlace /\ ListedIsOpen /\ UNCHANGED backlog BY <1>1 DEF IInv
  <2>2. PICK n, c, R : n = ns /\ c = conn /\ R = S OBVIOUS
  <2>3. RemoveConnection(R, n, c) BY <1>1, <2>2
  <2>4. \A q \in Peers : c[q] = "idle" <=> conn[q] = "idle" BY <2>2
  <2>5. R \in SUBSET Open BY <1>10, <2>2
  <2>6. /\ Closes(R) /\ state' \in [Fds -> {"none", "handshake", "established", "closed"}]
        /\ Open' = {g \in Fds : state'[g] # "none"}
        /\ \A q \in Peers : (\A g \in R : fds[g] # q) => conn'[q] = c[q]
    <3>1. /\ n \in [Fds -> {"none", "handshake", "established", "closed"}]
          /\ \A g \in Fds : n[g] = "none" <=> state[g] = "none"
      BY <1>8, <2>2
    <3>2. c \in [Peers -> {"idle", "open", "closed", "reset", "broken", "done"}] BY <1>9, <2>2
    <3> HIDE DEF Fds, Open
    <3> QED BY <2>1, <2>3, <2>4, <2>5, <3>1, <3>2, RemoveCloses
  <2> QED BY <2>2, <2>6
<1>12. Open' = Open \ S BY <1>11, ClosesKeeps DEF IInv
<1>13. ready' \subseteq Open' BY <1>7, <1>12 DEF IInv, LoopInv
<1>14. \A q \in Peers \ {p} : Ended(q)' => Ended(q) BY <1>0, <1>4, <1>11
<1>15. f \notin S => conn'[p] = conn[p] BY <1>2, <1>4, <1>11
<1>16. f \in S \/ (rest = <<>> /\ ~Ended(p)') \/ p \in early' BY <1>4, <1>5, <1>15
<1> QED BY <1>0, <1>1, <1>2, <1>3, <1>4, <1>6, <1>7, <1>11, <1>13, <1>14, <1>16, EventKeeps

\* SIGPIPE while f's event is worked through.
LEMMA KilledKeeps ==
    ASSUME IInv, NEW f \in Open, NEW rest \in Seq(Records), inq' = [inq EXCEPT ![fds[f]] = rest],
           batch' = batch \ {f}, at = "test", at' = "test", early' = early, proc' = "killed",
           UNCHANGED <<fds, conn, ready, state, backlog>>
    PROVE  IInv'
<1>1. PICK p : p = fds[f] OBVIOUS
<1>2. p \in Peers BY <1>1 DEF IInv, Types
<1>3. Closes({}) BY DEF Closes, IInv, Types
<1>4. /\ state' \in [Fds -> {"none", "handshake", "established", "closed"}]
      /\ Open' = {g \in Fds : state'[g] # "none"}
  BY DEF IInv, Types, ListedIsOpen
<1>5. ready' \subseteq Open' /\ ready \ {} \subseteq ready' BY DEF IInv, LoopInv
<1> QED BY <1>1, <1>2, <1>3, <1>4, <1>5, EventKeeps

\* SSL_read and the broadcast.
LEMMA EstablishedStep ==
    ASSUME IInv, NEW f \in Fds, Established(f)
    PROVE  IInv'
<1>0. PICK p : p = fds[f] OBVIOUS
<1> DEFINE k == Reads(p)
           P == {fds[g] : g \in {h \in Open \ {f} : k > 0 /\ state[h] = "established"}}
           rest == SubSeq(inq[p], k + 1, Len(inq[p]))
           over == (rest # <<>> /\ Head(rest) # "data") \/ (rest = <<>> /\ Ended(p))
<1>1. /\ proc = "up" /\ at = "test" /\ at' = "test" /\ f \in batch /\ batch' = batch \ {f}
      /\ state[f] = "established" /\ inq' = [inq EXCEPT ![p] = rest]
      /\ \/ Broadcast(f, k, P, over)
         \/ proc' = "killed" /\ UNCHANGED <<fds, conn, ready, state, pending, errors>>
      /\ UNCHANGED <<nsent, backlog, last, running, hs, cli, early>>
  BY <1>0 DEF Established, Main, Event
<1>2. f \in Open /\ p \in Peers BY <1>0, <1>1 DEF IInv, ListedIsOpen, Types
<1>3. inq[p] \in Seq(Records) BY <1>2 DEF IInv, Types
<1>4. rest \in Seq(Records) /\ (rest = <<>> \/ Head(rest) # "data") BY <1>2, <1>3, ReadsAll
<1>5. ~over => rest = <<>> /\ ~Ended(p) BY <1>4
<1>6. p \notin P /\ P \subseteq Peers /\ \A q \in P : conn[q] # "idle" BY <1>0, <1>2 DEF IInv, OnePlace, Types
<1>7. ResetBy(P) \subseteq Open \ {f} BY <1>0, <1>6 DEF ResetBy
<1> HIDE DEF k, P, rest, over
<1>8. CASE proc' = "killed" /\ UNCHANGED <<fds, conn, ready, state, pending, errors>>
  BY <1>0, <1>1, <1>2, <1>4, <1>8, KilledKeeps
<1>9. CASE ~(proc' = "killed" /\ UNCHANGED <<fds, conn, ready, state, pending, errors>>)
  <2>1. PICK C, n, c, R :
           /\ C \subseteq P /\ R \in SUBSET {f} /\ (over => f \in R)
           /\ n = [g \in Fds |-> IF fds[g] \in {q \in P : conn[q] = "reset"} \cup C THEN "closed" ELSE state[g]]
           /\ c = [q \in Peers |-> IF q \in P /\ Ended(q) THEN "broken" ELSE conn[q]]
           /\ RemoveConnection(R, n, c)
           /\ ready' = (ready \cup ResetBy(P)) \ R
           /\ UNCHANGED proc
    <3>1. PICK C \in SUBSET {q \in P \cap Slow : conn[q] = "open"}, e \in BOOLEAN :
             LET leaves == IF over \/ e THEN {f} ELSE {}
             IN  /\ RemoveConnection(leaves,
                       [g \in Fds |-> IF fds[g] \in {q \in P : conn[q] = "reset"} \cup C THEN "closed" ELSE state[g]],
                       [q \in Peers |-> IF q \in P /\ Ended(q) THEN "broken" ELSE conn[q]])
                 /\ ready' = (ready \cup ResetBy(P)) \ leaves
                 /\ UNCHANGED proc
      BY <1>1, <1>9 DEF Broadcast
    <3>2. (over => f \in IF over \/ e THEN {f} ELSE {}) /\ (IF over \/ e THEN {f} ELSE {}) \in SUBSET {f}
      OBVIOUS
    <3> QED BY <3>1, <3>2
  <2>2. /\ n \in [Fds -> {"none", "handshake", "established", "closed"}]
        /\ \A g \in Fds : n[g] = "none" <=> state[g] = "none"
    <3>1. \A g \in Fds : state[g] = "none" => fds[g] = None BY DEF IInv, ListedIsOpen
    <3>2. None \notin P BY <1>6
    <3> QED BY <2>1, <3>1, <3>2 DEF IInv, Types
  <2>3. /\ c \in [Peers -> {"idle", "open", "closed", "reset", "broken", "done"}]
        /\ \A q \in Peers : c[q] = "idle" <=> conn[q] = "idle"
    BY <2>1 DEF IInv, Types
  <2>4. R \in SUBSET Open BY <1>2, <2>1
  <2>5. /\ Closes(R) /\ state' \in [Fds -> {"none", "handshake", "established", "closed"}]
        /\ Open' = {g \in Fds : state'[g] # "none"}
        /\ \A q \in Peers : (\A g \in R : fds[g] # q) => conn'[q] = c[q]
    <3>1. Types /\ OnePlace /\ ListedIsOpen /\ UNCHANGED backlog BY <1>1 DEF IInv
    <3> HIDE DEF Fds, Open
    <3> QED BY <2>1, <2>2, <2>3, <2>4, <3>1, RemoveCloses
  <2>6. Open' = Open \ R BY <2>5, ClosesKeeps DEF IInv
  <2>7. ready' \subseteq Open' /\ ready \ R \subseteq ready' BY <1>7, <2>1, <2>6 DEF IInv, LoopInv
  <2>8. \A q \in Peers \ {p} : conn'[q] = c[q] BY <1>0, <2>1, <2>5
  <2>9. \A q \in Peers \ {p} : Ended(q)' => Ended(q) BY <2>1, <2>8
  <2>10. f \notin R => conn'[p] = conn[p] BY <1>0, <1>2, <1>6, <2>1, <2>5
  <2>11. f \in R \/ (rest = <<>> /\ ~Ended(p)') \/ p \in early' BY <1>5, <2>1, <2>10
  <2>12. R \in SUBSET {f} /\ early \subseteq early' BY <1>1, <2>1
  <2> QED BY <1>0, <1>1, <1>2, <1>4, <2>1, <2>5, <2>7, <2>9, <2>11, <2>12, EventKeeps
<1> QED BY <1>8, <1>9

\* A marked connection is cleaned up.
LEMMA CleanupStep ==
    ASSUME IInv, NEW f \in Fds, Cleanup(f)
    PROVE  IInv'
<1>0. PICK p, n, c : p = fds[f] /\ n = state /\ c = conn OBVIOUS
<1>1. /\ proc = "up" /\ at = "test" /\ at' = "test" /\ f \in batch /\ batch' = batch \ {f}
      /\ state[f] = "closed"
      /\ \/ RemoveConnection({f}, n, c) /\ ready' = ready \ {f} /\ UNCHANGED proc
         \/ proc' = "killed" /\ UNCHANGED <<fds, conn, ready, state>>
      /\ UNCHANGED <<inq, nsent, backlog, last, running, hs, cli, pending, early>>
  BY <1>0 DEF Cleanup, Main, Event
<1>2. f \in Open /\ p \in Peers BY <1>0, <1>1 DEF IInv, ListedIsOpen, Types
<1>3. inq[p] \in Seq(Records) /\ inq' = [inq EXCEPT ![p] = inq[p]] BY <1>1, <1>2 DEF IInv, Types
<1>4. CASE proc' = "killed" /\ UNCHANGED <<fds, conn, ready, state>>
  BY <1>0, <1>1, <1>2, <1>3, <1>4, KilledKeeps
<1>5. CASE RemoveConnection({f}, n, c) /\ ready' = ready \ {f} /\ UNCHANGED proc
  <2>1. /\ Closes({f}) /\ state' \in [Fds -> {"none", "handshake", "established", "closed"}]
        /\ Open' = {g \in Fds : state'[g] # "none"}
        /\ \A q \in Peers : (\A g \in {f} : fds[g] # q) => conn'[q] = c[q]
    <3>1. Types /\ OnePlace /\ ListedIsOpen /\ UNCHANGED backlog BY <1>1 DEF IInv
    <3>2. /\ n \in [Fds -> {"none", "handshake", "established", "closed"}]
          /\ \A g \in Fds : n[g] = "none" <=> state[g] = "none"
          /\ c \in [Peers -> {"idle", "open", "closed", "reset", "broken", "done"}]
          /\ \A q \in Peers : c[q] = "idle" <=> conn[q] = "idle"
      BY <1>0 DEF IInv, Types
    <3>3. {f} \in SUBSET Open BY <1>2
    <3> HIDE DEF Fds, Open
    <3> QED BY <1>5, <3>1, <3>2, <3>3, RemoveCloses
  <2>2. Open' = Open \ {f} BY <2>1, ClosesKeeps DEF IInv
  <2>3. ready' \subseteq Open' BY <1>5, <2>2 DEF IInv, LoopInv
  <2>4. \A q \in Peers \ {p} : Ended(q)' => Ended(q) BY <1>0, <2>1
  <2>5. ready \ {f} \subseteq ready' /\ early \subseteq early' /\ {f} \in SUBSET {f} /\ f \in {f}
    BY <1>1, <1>5
  <2> QED BY <1>0, <1>1, <1>2, <1>3, <1>5, <2>1, <2>3, <2>4, <2>5, EventKeeps
<1> QED BY <1>1, <1>4, <1>5

\* accept.
LEMMA AcceptStep ==
    ASSUME IInv, NEW f \in Fds, Accept(f)
    PROVE  IInv'
<1> USE DEF IInv
<1>1. PICK p : p = Head(backlog) OBVIOUS
<1>2. /\ at = "test" /\ at' = "test" /\ backlog # <<>> /\ f \notin Open
      /\ fds' = [fds EXCEPT ![f] = p] /\ backlog' = Tail(backlog)
      /\ state' = [state EXCEPT ![f] = "handshake"] /\ ready' = ready \cup {f}
      /\ UNCHANGED <<proc, conn, inq, nsent, batch, last, running, hs, cli, pending, errors, early>>
  BY <1>1 DEF Accept, Main, AcceptAs, Lowest
<1>3. /\ p \in Peers /\ Tail(backlog) \in Seq(Peers)
      /\ conn[p] # "idle" /\ \A g \in Fds : fds[g] # p
      /\ \A i \in DOMAIN Tail(backlog) :
            /\ i \in Nat /\ i + 1 \in DOMAIN backlog /\ Tail(backlog)[i] = backlog[i + 1]
            /\ Tail(backlog)[i] # p
  BY <1>1, <1>2, FirstPeer
<1>4. \A g \in Fds : fds'[g] = IF g = f THEN p ELSE fds[g] BY <1>2 DEF Types
<1>5. Open' = Open \cup {f} BY <1>3, <1>4
<1>6. Types' BY <1>2, <1>3 DEF Types
<1>7. OnePlace'
  <2>1. \A g \in Open' : conn'[fds'[g]] # "idle" BY <1>2, <1>3, <1>4, <1>5 DEF OnePlace
  <2>2. \A g, h \in Open' : fds'[g] = fds'[h] => g = h BY <1>3, <1>4, <1>5 DEF OnePlace
  <2>3. ASSUME NEW i \in DOMAIN backlog'
        PROVE  conn'[backlog'[i]] # "idle" /\ \A g \in Fds : fds'[g] # backlog'[i]
    <3>1. i + 1 \in DOMAIN backlog /\ backlog'[i] = backlog[i + 1] /\ backlog'[i] # p
      BY <1>2, <1>3, <2>3
    <3>2. conn[backlog[i + 1]] # "idle" /\ \A g \in Fds : fds[g] # backlog[i + 1] BY <3>1 DEF OnePlace
    <3> QED BY <1>2, <1>4, <3>1, <3>2
  <2>4. ASSUME NEW i \in DOMAIN backlog', NEW j \in DOMAIN backlog', i # j
        PROVE  backlog'[i] # backlog'[j]
    <3>1. i + 1 # j + 1 BY <1>2, <1>3, <2>4
    <3> QED BY <1>2, <1>3, <3>1 DEF OnePlace
  <2> QED BY <2>1, <2>2, <2>3, <2>4 DEF OnePlace
<1>8. LoopInv' BY <1>2, <1>5 DEF LoopInv
<1>9. ListedIsOpen'
  <2>1. \A g \in Fds : state'[g] = IF g = f THEN "handshake" ELSE state[g] BY <1>2 DEF Types
  <2> QED BY <1>2, <1>5, <2>1 DEF ListedIsOpen
<1>10. NothingStranded'
  <2> SUFFICES ASSUME proc' = "up", NEW g \in Open', Readable(g)', g # f
               PROVE  g \in ready' \cup batch' \/ fds'[g] \in early'
    BY <1>2 DEF NothingStranded
  <2>1. g \in Open /\ fds'[g] = fds[g] BY <1>4, <1>5
  <2>2. Readable(g) BY <1>2, <2>1 DEF Readable
  <2> QED BY <1>2, <2>1, <2>2 DEF NothingStranded
<1> QED BY <1>6, <1>7, <1>8, <1>9, <1>10

\* A peer sends, ends its connection or can be written to again: its descriptor,
\* if it has one, is on the ready list.
LEMMA ArriveStep ==
    ASSUME IInv, NEW p \in Peers,
           \/ /\ \E rec \in Records : inq' = [inq EXCEPT ![p] = Append(@, rec)]
              /\ UNCHANGED conn
           \/ /\ conn[p] = "open" /\ conn' \in {[conn EXCEPT ![p] = "closed"], [conn EXCEPT ![p] = "reset"]}
              /\ UNCHANGED inq
           \/ UNCHANGED <<conn, inq>>,
           ready' = ready \cup FdOf(p),
           UNCHANGED <<proc, fds, backlog, batch, at, state, early>>
    PROVE  IInv'
<1> USE DEF IInv
<1>1. FdOf(p) \subseteq Open OBVIOUS
<1>2. Types'
  <2>1. inq' \in [Peers -> Seq(Records)]
    <3>1. ASSUME NEW rec \in Records, inq' = [inq EXCEPT ![p] = Append(@, rec)]
          PROVE  inq' \in [Peers -> Seq(Records)]
      <4>1. Append(inq[p], rec) \in Seq(Records) BY DEF Types
      <4> QED BY <3>1, <4>1 DEF Types
    <3> QED BY <3>1 DEF Types
  <2>2. conn' \in [Peers -> {"idle", "open", "closed", "reset", "broken", "done"}] BY DEF Types
  <2> QED BY <2>1, <2>2 DEF Types
<1>3. \A q \in Peers : conn'[q] = "idle" <=> conn[q] = "idle" BY DEF Types
<1>4. OnePlace'
  <2>1. \A f \in Open : fds[f] \in Peers BY DEF Types
  <2>2. \A i \in DOMAIN backlog : backlog[i] \in Peers BY DEF Types
  <2> QED BY <1>3, <2>1, <2>2 DEF OnePlace
<1>5. LoopInv' /\ ListedIsOpen' BY <1>1 DEF LoopInv, ListedIsOpen
<1>6. NothingStranded'
  <2> SUFFICES ASSUME proc' = "up", NEW g \in Open, Readable(g)', fds[g] # p
               PROVE  g \in ready' \cup batch' \/ fds[g] \in early'
    BY DEF NothingStranded
  <2>1. fds[g] \in Peers BY DEF Types
  <2>2. inq'[fds[g]] = inq[fds[g]] /\ conn'[fds[g]] = conn[fds[g]] BY <2>1 DEF Types
  <2>3. Readable(g) BY <2>2 DEF Readable
  <2> QED BY <2>3 DEF NothingStranded
<1> QED BY <1>2, <1>4, <1>5, <1>6

\* A client connects.
LEMMA ConnectStep ==
    ASSUME IInv, NEW p \in Peers, PeerConnect(p), UNCHANGED tlsVars
    PROVE  IInv'
<1> USE DEF IInv
<1>1. /\ conn[p] = "idle" /\ conn' = [conn EXCEPT ![p] = "open"] /\ backlog' = Append(backlog, p)
      /\ UNCHANGED <<proc, fds, inq, nsent, ready, batch, last, at, running, state, hs, cli, pending, errors, early>>
  BY DEF PeerConnect, tlsVars
<1>2. \A i \in DOMAIN backlog' : IF i = Len(backlog) + 1 THEN backlog'[i] = p
                                 ELSE i \in DOMAIN backlog /\ backlog'[i] = backlog[i]
  BY <1>1 DEF Types
<1>3. Types' BY <1>1 DEF Types
<1>4. (\A f \in Fds : fds[f] # p) /\ \A i \in DOMAIN backlog : backlog[i] # p BY <1>1 DEF OnePlace
<1>5. \A q \in Peers \ {p} : conn'[q] = conn[q] BY <1>1 DEF Types
<1>6. (\A f \in Open : fds[f] \in Peers) /\ \A i \in DOMAIN backlog : backlog[i] \in Peers BY DEF Types
<1>7. OnePlace'
  <2>1. conn'[p] = "open" BY <1>1 DEF Types
  <2> QED BY <1>1, <1>2, <1>4, <1>5, <1>6, <2>1 DEF OnePlace
<1>8. LoopInv' /\ ListedIsOpen' BY <1>1 DEF LoopInv, ListedIsOpen
<1>9. NothingStranded'
  <2>1. \A f \in Open : Readable(f)' => Readable(f) BY <1>1, <1>4, <1>5, <1>6 DEF Readable
  <2> QED BY <1>1, <2>1 DEF NothingStranded
<1> QED BY <1>3, <1>7, <1>8, <1>9

\* Initially.
LEMMA InitIInv == ASSUME Init PROVE IInv
<1>1. Types BY DEF Init, LoopInit, Types
<1>2. OnePlace /\ LoopInv /\ ListedIsOpen /\ NothingStranded
  BY DEF Init, LoopInit, OnePlace, LoopInv, ListedIsOpen, NothingStranded
<1> QED BY <1>1, <1>2 DEF IInv

\* Every step keeps the invariant.
LEMMA NextIInv == ASSUME IInv, [Next]_vars PROVE IInv'
<1>1. ASSUME UNCHANGED <<fds, conn, inq, backlog, ready, state, early>>,
             batch' \subseteq batch, batch \ {Listen} \subseteq batch',
             at' \in {"wait", "shutdown"} => batch' = {},
             proc' = "up" => proc = "up"
      PROVE  IInv'
  <2>1. Types' /\ OnePlace' BY <1>1 DEF IInv, Types, OnePlace
  <2>2. LoopInv' /\ ListedIsOpen' BY <1>1 DEF IInv, LoopInv, ListedIsOpen
  <2>3. NothingStranded'
    <3>1. \A f \in Open : Readable(f)' => Readable(f) BY <1>1 DEF Readable
    <3>2. \A f \in Fds : f # Listen OBVIOUS
    <3> QED BY <1>1, <3>1, <3>2 DEF IInv, NothingStranded
  <2> QED BY <2>1, <2>2, <2>3 DEF IInv
<1>2. CASE CreateSslCtx \/ CreateListener \/ CreateEpoll \/ StartFails \/ LoopTest \/ Timeout
  BY <1>1, <1>2 DEF CreateSslCtx, CreateListener, CreateEpoll, StartFails, LoopTest, Timeout, Main, Stay, loopVars
<1>3. CASE AcceptEnd BY <1>1, <1>3 DEF AcceptEnd, Main, Event, Stay
<1>4. CASE Signal BY <1>1, <1>4 DEF Signal, loopVars, IInv, LoopInv
<1>5. CASE UNCHANGED vars BY <1>1, <1>5 DEF vars, loopVars, tlsVars, IInv, LoopInv
<1>6. CASE Wait
  <2>1. /\ at = "wait" /\ at' = "test" /\ batch' = Events /\ ready' = {}
        /\ UNCHANGED <<proc, fds, conn, inq, backlog, state, early>>
    BY <1>6 DEF Wait, Main, Stay
  <2>2. batch = {} /\ ready \subseteq batch' /\ batch' \ {Listen} \subseteq ready
    BY <2>1 DEF IInv, LoopInv, Events
  <2>3. Types' /\ OnePlace' BY <2>1, <2>2 DEF IInv, Types, OnePlace, Events
  <2>4. LoopInv' /\ ListedIsOpen' BY <2>1, <2>2 DEF IInv, LoopInv, ListedIsOpen
  <2>5. NothingStranded'
    <3>1. \A f \in Open : Readable(f)' => Readable(f) BY <2>1 DEF Readable
    <3> QED BY <2>1, <2>2, <3>1 DEF IInv, NothingStranded
  <2> QED BY <2>3, <2>4, <2>5 DEF IInv
<1>7. CASE Shutdown
  <2>1. /\ at = "shutdown" /\ at' = "end" /\ proc' # "up" /\ UNCHANGED <<inq, backlog, batch, early>>
    BY <1>7 DEF Shutdown, Main
  <2>2. batch = {} BY <2>1 DEF IInv, LoopInv
  <2>3. NothingStranded' BY <2>1 DEF NothingStranded
  <2>4. CASE UNCHANGED <<fds, conn, ready, state>> BY <1>1, <2>1, <2>2, <2>4
  <2>5. CASE CloseFds(Open) /\ state' = [f \in Fds |-> "none"]
    <3>1. Closes(Open)
      <4>1. \A p \in Peers : FdOf(p) \cap Open # {} => conn[p] # "idle" BY DEF IInv, OnePlace
      <4> QED BY <2>1, <2>5, <4>1 DEF IInv, Types, CloseFds, Closes
    <3>2. OnePlace' /\ Open' = {} /\ fds' \in [Fds -> Peers \cup {None}] /\ backlog' \in Seq(Peers)
      BY <3>1, ClosesKeeps DEF IInv
    <3>3. ready' = {} BY <2>5 DEF CloseFds, IInv, LoopInv
    <3>4. Types' BY <2>1, <2>5, <3>1, <3>2, <3>3 DEF IInv, Types, Closes
    <3>5. LoopInv' /\ ListedIsOpen' BY <2>1, <2>2, <2>5, <3>2, <3>3 DEF LoopInv, ListedIsOpen
    <3> QED BY <2>3, <3>2, <3>4, <3>5 DEF IInv
  <2> QED BY <1>7, <2>4, <2>5 DEF Shutdown
<1>8. ASSUME NEW p \in Peers, Client(p) PROVE IInv'
  <2>1. CASE PeerConnect(p) /\ UNCHANGED tlsVars BY <2>1, ConnectStep
  <2>2. CASE PeerClose(p) /\ UNCHANGED tlsVars BY <2>2, ArriveStep DEF PeerClose, tlsVars
  <2>3. CASE PeerReset(p) BY <2>3, ArriveStep DEF PeerReset, tlsVars
  <2>4. CASE Drain(p) BY <2>4, ArriveStep DEF Drain, tlsVars
  <2>5. ASSUME NEW rec \in Records, Arrive(p, rec) PROVE IInv' BY <2>5, ArriveStep DEF Arrive
  <2>6. CASE Hello(p) \/ Finish(p) BY <2>5, <2>6 DEF Hello, Finish, Records
  <2>7. ASSUME NEW rec \in Lines, Type(p, rec) PROVE IInv' BY <2>5, <2>7 DEF Type, Records
  <2> QED BY <1>8, <2>1, <2>2, <2>3, <2>4, <2>6, <2>7 DEF Client
<1>9. CASE Server
  BY <1>2, <1>3, <1>6, <1>7, <1>9, AcceptStep, HandshakeStep, EstablishedStep, CleanupStep DEF Server
<1> QED BY <1>4, <1>5, <1>8, <1>9 DEF Next

\* The inductive invariant holds throughout.
THEOREM Invariance == Spec => []IInv
<1>1. Init => IInv BY InitIInv
<1>2. IInv /\ [Next]_vars => IInv' BY NextIInv
<1> QED BY <1>1, <1>2, PTL DEF Spec

\* connections holds exactly the open descriptors, and no event of a batch is
\* about any other.
THEOREM ListIsOpen == Spec => []ListedIsOpen
  BY Invariance, PTL DEF IInv

\* What has arrived on a connection has its event coming, except what came
\* before the handshake was found complete.
THEOREM NothingIsStranded == Spec => []NothingStranded
  BY Invariance, PTL DEF IInv
=============================================================================
