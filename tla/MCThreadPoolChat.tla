-------------------------- MODULE MCThreadPoolChat --------------------------
(* ThreadPoolChat on small instances for TLC. *)
EXTENDS ThreadPoolChat, Functions, TLC

\* Workers, descriptors and peers are interchangeable (no property of a
\* symmetric run names one of them).
Symmetry == Permutations(Workers) \cup Permutations(Fds) \cup Permutations(Peers)

\* A full room: a state the server reaches once every worker has taken a
\* connection and listed it, with everyone's first unit of data, or all the
\* data of one peer, already sent.
FullRoom ==
    LET fdOf == CHOOSE g \in Bijection(Workers, Fds) : TRUE
        talker == CHOOSE f \in Fds : TRUE
        peerOf == CHOOSE g \in Bijection(Fds, Peers) : TRUE
    IN  /\ running = TRUE /\ caught = {} /\ hpc = [t \in Threads |-> "none"]
        /\ proc = "up"
        /\ jobs = <<>> /\ closed = FALSE /\ qMutex = None
        /\ clients = Fds /\ cMutex = None
        /\ pc = [t \in Threads |-> IF t = Main THEN "accept" ELSE "recv"]
        /\ cfd = [t \in Threads |-> IF t = Main THEN None ELSE fdOf[t]]
        /\ buf = [w \in Workers |-> {}]
        /\ rest = [w \in Workers |-> {}]
        /\ fds = peerOf
        /\ conn = [p \in Peers |-> "open"]
        /\ backlog = <<>>
        /\ \/ sent = [p \in Peers |-> 1]
           \/ sent = [p \in Peers |-> IF p = peerOf[talker] THEN MaxSend ELSE 0]
        /\ taken = [p \in Peers |-> 0]
        /\ out = [p \in Peers |-> <<>>]
        /\ nread = [p \in Peers |-> 0]
\* Nobody joins, but one client may leave, while the broadcasts race.
Leave(p) == PeerClose(p) /\ \A q \in Peers : conn[q] = "open"
RoomNext == \/ \E w \in Workers : Worker(w)
            \/ \E p \in Peers : PeerRead(p) \/ Leave(p)
RoomFairness == /\ \A w \in Workers : SF_vars(Worker(w))
                /\ \A p \in Peers : WF_vars(PeerRead(p))
FullRoomSpec == FullRoom /\ [][RoomNext]_vars /\ RoomFairness
=============================================================================
