------------------------ MODULE ThreadPoolChatProofs ------------------------
(***************************************************************************)
(* Theorems about ThreadPoolChat for any number of workers, peers,         *)
(* descriptors and signals.                                                *)
(***************************************************************************)
EXTENDS ThreadPoolChat, FiniteSetTheorems, TLAPS

\* A thread has a descriptor in client_fd exactly while it handles one.
HoldsWhileServing ==
    /\ \A w \in Workers : cfd[w] # None <=> pc[w] \in Serving
    /\ cfd[Main] # None <=> pc[Main] \in {"push_lock", "push"}

\* A worker walking the client list has clients_mutex.
WalkerHasMutex == \A w \in Workers : pc[w] = "send" => cMutex = w

\* No worker exists before main has created it; all have ended once joined.
Phases ==
    /\ pc[Main] = "init" => jobs = <<>> /\ \A w \in Workers : pc[w] = "unborn"
    /\ pc[Main] = "final" => \A w \in Workers : pc[w] = "done"

IInv == TypeOK /\ SoleOwner /\ ListedIsServed /\ HoldsWhileServing /\ WalkerHasMutex /\ Phases

USE DEF Threads

\* The ownership invariant holds initially.
LEMMA InitInv == Init => IInv
<1> SUFFICES ASSUME Init PROVE IInv
  OBVIOUS
<1> USE ThreadsAssumption, BoundsAssumption DEF Init
<1>1. TypeOK
  <2>1. jobs \in Seq(Fds) /\ backlog \in Seq(Peers) /\ out \in [Peers -> Seq(Message)]
    OBVIOUS
  <2>2. pc \in [Threads -> WorkerPc \cup MainPc] /\ pc[Main] \in MainPc
        /\ \A w \in Workers : pc[w] \in WorkerPc
    BY DEF WorkerPc, MainPc
  <2>3. hpc \in [Threads -> {"none", "lock", "body"}] /\ cfd \in [Threads -> Fds \cup {None}]
    OBVIOUS
  <2>4. sent \in [Peers -> 0..MaxSend] /\ taken \in [Peers -> 0..MaxSend] /\ nread \in [Peers -> Nat]
    OBVIOUS
  <2>5. buf \in [Workers -> SUBSET Message] /\ rest \in [Workers -> SUBSET Fds]
    OBVIOUS
  <2> QED BY <2>1, <2>2, <2>3, <2>4, <2>5 DEF TypeOK
<1>2. SoleOwner /\ ListedIsServed /\ HoldsWhileServing /\ WalkerHasMutex /\ Phases
  BY DEF SoleOwner, ListedIsServed, HoldsWhileServing, WalkerHasMutex, Phases, Serving, RangeOf
<1> QED BY <1>1, <1>2 DEF IInv

\* What recv returns lies within the stream.
LEMMA Span ==
    ASSUME NEW a \in 0..MaxSend, NEW b \in 0..MaxSend, NEW hi \in a + 1 .. b
    PROVE  hi \in 1..MaxSend /\ hi \in 0..MaxSend /\ a + 1 \in 1..MaxSend
BY BoundsAssumption

\* Every step keeps the types.
LEMMA TypeStep == IInv /\ [Next]_vars => TypeOK'
<1> SUFFICES ASSUME IInv, [Next]_vars PROVE TypeOK'
  OBVIOUS
<1> USE ThreadsAssumption, BoundsAssumption DEF IInv, TypeOK, WorkerPc, MainPc, Step, Runnable,
         sigVars, qVars, cVars, thVars, netVars
<1>1. CASE MainThread
  <2>1. CASE PushLock BY <2>1 DEF PushLock
  <2>2. CASE Push
    <3>1. jobs' \in Seq(Fds) BY <2>2 DEF Push, HoldsWhileServing
    <3>2. /\ pc' \in [Threads -> WorkerPc \cup MainPc]
          /\ pc'[Main] \in MainPc /\ \A w \in Workers : pc'[w] \in WorkerPc
      BY <2>2 DEF Push, SignalOne
    <3> QED BY <2>2, <3>1, <3>2 DEF Push
  <2>3. CASE Start
    <3>1. jobs' \in Seq(Fds) BY <2>3 DEF Start
    <3>2. /\ pc' \in [Threads -> WorkerPc \cup MainPc]
          /\ pc'[Main] \in MainPc /\ \A w \in Workers : pc'[w] \in WorkerPc
      BY <2>3 DEF Start
    <3> QED BY <2>3, <3>1, <3>2 DEF Start
  <2>4. CASE Listen BY <2>4 DEF Listen
  <2>5. CASE AcceptTest BY <2>5 DEF AcceptTest
  <2>6. ASSUME NEW f \in Fds, Accept(f) PROVE TypeOK'
    <3>1. Head(backlog) \in Peers /\ backlog' \in Seq(Peers) BY <2>6 DEF Accept
    <3>2. pc' = [pc EXCEPT ![Main] = "push_lock"] BY <2>6 DEF Accept
    <3> QED BY <2>6, <3>1, <3>2 DEF Accept
  <2>7. CASE AcceptFail BY <2>7 DEF AcceptFail
  <2>8. CASE CloseListen BY <2>8 DEF CloseListen
  <2>9. CASE CloseQueueLock BY <2>9 DEF CloseQueueLock
  <2>10. CASE CloseQueue BY <2>10 DEF CloseQueue, WakeAll
  <2>11. CASE Join BY <2>11 DEF Join
  <2>12. CASE Finish BY <2>12 DEF Finish
  <2> QED BY <1>1, <2>1, <2>2, <2>3, <2>4, <2>5, <2>6, <2>7, <2>8, <2>9, <2>10, <2>11, <2>12
          DEF MainThread
<1>2. CASE PushFail BY <1>2 DEF PushFail
<1>3. CASE StartFail BY <1>3 DEF StartFail
<1>4. ASSUME NEW w \in Workers, Worker(w) \/ AddFail(w) \/ SpuriousWake(w) PROVE TypeOK'
  <2>1. CASE PopLock(w) BY <2>1 DEF PopLock
  <2>2. CASE PopWait(w) BY <2>2 DEF PopWait
  <2>3. CASE PopClosed(w) BY <2>3 DEF PopClosed
  <2>4. CASE PopJob(w) BY <2>4 DEF PopJob
  <2>5. CASE LoopTest(w) BY <2>5 DEF LoopTest
  <2>6. CASE AddClient(w) BY <2>6 DEF AddClient, HoldsWhileServing, Serving
  <2>7. CASE RunTest(w) BY <2>7 DEF RunTest
  <2>8. CASE RecvData(w)
    <3> DEFINE p == fds[cfd[w]]
    <3>1. cfd[w] \in Fds /\ p \in Peers
      BY <2>8 DEF RecvData, HoldsWhileServing, Serving, SoleOwner
    <3>2. PICK hi \in taken[p] + 1 .. sent[p] :
             /\ buf' = [buf EXCEPT ![w] = {[from |-> p, lo |-> taken[p] + 1, hi |-> hi]}]
             /\ taken' = [taken EXCEPT ![p] = hi]
      BY <2>8 DEF RecvData
    <3>3. taken[p] \in 0..MaxSend /\ sent[p] \in 0..MaxSend BY <3>1
    <3>4. hi \in 1..MaxSend /\ hi \in 0..MaxSend /\ taken[p] + 1 \in 1..MaxSend
      BY ONLY <3>2, <3>3, Span
    <3>5. [from |-> p, lo |-> taken[p] + 1, hi |-> hi] \in Message BY <3>1, <3>4 DEF Message
    <3>6. buf' \in [Workers -> SUBSET Message] BY <3>2, <3>5
    <3>7. taken' \in [Peers -> 0..MaxSend] BY <3>2, <3>4
    <3> QED BY <2>8, <3>6, <3>7 DEF RecvData
  <2>9. CASE RecvEnd(w) BY <2>9 DEF RecvEnd
  <2>10. CASE BcastLock(w) BY <2>10 DEF BcastLock
  <2>11. CASE SkipSelf(w) BY <2>11 DEF SkipSelf
  <2>12. ASSUME NEW f \in Fds, SendTo(w, f) PROVE TypeOK'
    <3>1. PICK m \in Message : out' = [out EXCEPT ![fds[f]] = Append(@, m)]
      BY <2>12 DEF SendTo
    <3>2. out' \in [Peers -> Seq(Message)]
      <4>1. \A p \in Peers : Append(out[p], m) \in Seq(Message) OBVIOUS
      <4> QED BY <3>1, <4>1
    <3> QED BY <2>12, <3>2 DEF SendTo
  <2>13. ASSUME NEW f \in Fds, SendLost(w, f) PROVE TypeOK' BY <2>13 DEF SendLost
  <2>14. ASSUME NEW f \in Fds, SendPipe(w, f) PROVE TypeOK' BY <2>14 DEF SendPipe
  <2>15. CASE BcastDone(w) BY <2>15 DEF BcastDone
  <2>16. CASE RemoveClient(w) BY <2>16 DEF RemoveClient
  <2>17. CASE CloseFd(w) BY <2>17 DEF CloseFd
  <2>18. CASE AddFail(w) BY <2>18 DEF AddFail
  <2>19. CASE SpuriousWake(w) BY <2>19 DEF SpuriousWake
  <2> QED BY <1>4, <2>1, <2>2, <2>3, <2>4, <2>5, <2>6, <2>7, <2>8, <2>9, <2>10, <2>11, <2>12,
             <2>13, <2>14, <2>15, <2>16, <2>17, <2>18, <2>19 DEF Worker
<1>5. ASSUME NEW t \in Threads, Handler(t) PROVE TypeOK'
  <2>1. CASE HandlerLock(t) BY <2>1 DEF HandlerLock
  <2>2. CASE HandlerClose(t) BY <2>2 DEF HandlerClose, WakeAll
  <2> QED BY <1>5, <2>1, <2>2 DEF Handler
<1>6. ASSUME NEW t \in Threads, NEW s \in Signals, Deliver(s, t) PROVE TypeOK'
  <2>1. /\ pc' \in [Threads -> WorkerPc \cup MainPc]
        /\ pc'[Main] \in MainPc /\ \A w \in Workers : pc'[w] \in WorkerPc
    <3>1. CASE pc' = pc BY <3>1
    <3>2. CASE pc[t] = "accept" /\ pc' = [pc EXCEPT ![t] = "check"] BY <3>2
    <3>3. CASE pc[t] = "recv" /\ pc' = [pc EXCEPT ![t] = "run"] BY <3>3
    <3> QED BY <1>6, <3>1, <3>2, <3>3 DEF Deliver
  <2> QED BY <1>6, <2>1 DEF Deliver
<1>7. ASSUME NEW p \in Peers, Peer(p) PROVE TypeOK'
  <2>1. CASE PeerConnect(p) BY <2>1 DEF PeerConnect
  <2>2. CASE PeerSend(p) BY <2>2 DEF PeerSend
  <2>3. CASE PeerClose(p) BY <2>3 DEF PeerClose
  <2>4. CASE PeerRead(p)
    <3>1. nread' \in [Peers -> Nat] BY <2>4 DEF PeerRead
    <3> QED BY <2>4, <3>1 DEF PeerRead
  <2> QED BY <1>7, <2>1, <2>2, <2>3, <2>4 DEF Peer
<1>8. CASE UNCHANGED vars BY <1>8 DEF vars
<1> QED BY <1>1, <1>2, <1>3, <1>4, <1>5, <1>6, <1>7, <1>8 DEF Next

\* The steps that touch the queue, client_fd or the descriptor table.
LEMMA FdFrame ==
    ASSUME [Next]_vars
    PROVE \/ Push \/ PushFail \/ Start \/ Finish
          \/ \E f \in Fds : Accept(f)
          \/ \E w \in Workers : PopJob(w) \/ CloseFd(w)
          \/ UNCHANGED <<jobs, cfd, fds>>
<1> USE DEF sigVars, qVars, cVars, thVars, netVars
<1>1. CASE MainThread
  BY <1>1 DEF MainThread, PushLock, Listen, AcceptTest, AcceptFail, CloseListen,
              CloseQueueLock, CloseQueue, Join
<1>2. ASSUME NEW w \in Workers, Worker(w) \/ AddFail(w) \/ SpuriousWake(w)
      PROVE PopJob(w) \/ CloseFd(w) \/ UNCHANGED <<jobs, cfd, fds>>
  BY <1>2 DEF Worker, PopLock, PopWait, PopClosed, LoopTest, AddClient, RunTest, RecvData, RecvEnd,
              BcastLock, SkipSelf, SendTo, SendLost, SendPipe, BcastDone, RemoveClient,
              AddFail, SpuriousWake
<1>3. ASSUME NEW t \in Threads, Handler(t) \/ \E s \in Signals : Deliver(s, t)
      PROVE UNCHANGED <<jobs, cfd, fds>>
  BY <1>3 DEF Handler, HandlerLock, HandlerClose, Deliver
<1>4. ASSUME NEW p \in Peers, Peer(p) PROVE UNCHANGED <<jobs, cfd, fds>>
  BY <1>4 DEF Peer, PeerConnect, PeerSend, PeerClose, PeerRead
<1>5. CASE StartFail BY <1>5 DEF StartFail
<1>6. CASE UNCHANGED vars BY <1>6 DEF vars
<1> QED BY <1>1, <1>2, <1>3, <1>4, <1>5, <1>6 DEF Next

\* Every step leaves a descriptor with one owner.
LEMMA OwnerStep == IInv /\ [Next]_vars => SoleOwner'
<1> SUFFICES ASSUME IInv, [Next]_vars PROVE SoleOwner'
  OBVIOUS
<1> USE ThreadsAssumption DEF IInv, TypeOK, Step, Runnable, RangeOf
<1>1. CASE Push
  <2>1. cfd[Main] \in Fds /\ cfd[Main] \notin RangeOf(jobs) /\ fds[cfd[Main]] # None
    BY <1>1 DEF Push, HoldsWhileServing, SoleOwner
  <2>2. /\ jobs' = Append(jobs, cfd[Main]) /\ fds' = fds
        /\ cfd' = [cfd EXCEPT ![Main] = None]
    BY <1>1 DEF Push
  <2>3. \A i \in DOMAIN jobs' : IF i = Len(jobs) + 1 THEN jobs'[i] = cfd[Main]
                                ELSE i \in DOMAIN jobs /\ jobs'[i] = jobs[i]
    BY <2>1, <2>2
  <2> QED BY <2>1, <2>2, <2>3 DEF SoleOwner
<1>2. CASE PushFail BY <1>2 DEF PushFail, qVars, SoleOwner
<1>3. CASE Start BY <1>3 DEF Start, SoleOwner
<1>4. CASE Finish
  <2>1. clients = {}
    BY <1>4 DEF Finish, Phases, ListedIsServed, Serving
  <2> QED BY <1>4, <2>1 DEF Finish, SoleOwner, qVars, thVars
<1>5. ASSUME NEW f \in Fds, Accept(f) PROVE SoleOwner'
  <2>1. f \notin RangeOf(jobs) /\ \A t \in Threads : cfd[t] # f
    BY <1>5 DEF Accept, SoleOwner
  <2>2. Head(backlog) # None
    BY <1>5 DEF Accept
  <2>3. jobs' = jobs /\ cfd' = [cfd EXCEPT ![Main] = f] /\ fds' = [fds EXCEPT ![f] = Head(backlog)]
    BY <1>5 DEF Accept, qVars
  <2> QED BY <2>1, <2>2, <2>3 DEF SoleOwner
<1>6. ASSUME NEW w \in Workers, PopJob(w) PROVE SoleOwner'
  <2>1. jobs # <<>> /\ jobs' = Tail(jobs) /\ fds' = fds /\ cfd' = [cfd EXCEPT ![w] = Head(jobs)]
    BY <1>6 DEF PopJob
  <2>2. \A i \in DOMAIN jobs' : i + 1 \in DOMAIN jobs /\ jobs'[i] = jobs[i+1] /\ i + 1 # 1
    BY <2>1
  <2>3. 1 \in DOMAIN jobs /\ Head(jobs) = jobs[1]
    BY <2>1
  <2>4. /\ \A i, j \in DOMAIN jobs' : i # j => jobs'[i] # jobs'[j]
        /\ \A i \in DOMAIN jobs' : fds'[jobs'[i]] # None
        /\ Head(jobs) \notin RangeOf(jobs')
        /\ RangeOf(jobs') \subseteq RangeOf(jobs)
    BY <2>1, <2>2, <2>3 DEF SoleOwner
  <2>5. Head(jobs) \in RangeOf(jobs) /\ fds[Head(jobs)] # None
    BY <2>3 DEF SoleOwner
  <2>6. \A t \in Threads : cfd'[t] = IF t = w THEN Head(jobs) ELSE cfd[t]
    BY <2>1
  <2> QED BY <2>1, <2>4, <2>5, <2>6 DEF SoleOwner
<1>7. ASSUME NEW w \in Workers, CloseFd(w) PROVE SoleOwner'
  <2>1. cfd[w] # None
    BY <1>7 DEF CloseFd, HoldsWhileServing, Serving
  <2>2. jobs' = jobs /\ cfd' = [cfd EXCEPT ![w] = None] /\ fds' = [fds EXCEPT ![cfd[w]] = None]
    BY <1>7 DEF CloseFd, qVars
  <2> QED BY <2>1, <2>2 DEF SoleOwner
<1>8. CASE UNCHANGED <<jobs, cfd, fds>> BY <1>8 DEF SoleOwner
<1> QED BY <1>1, <1>2, <1>3, <1>4, <1>5, <1>6, <1>7, <1>8, FdFrame

\* Every step keeps what each thread knows of its own position.
LEMMA LocalStep == IInv /\ [Next]_vars => (HoldsWhileServing /\ WalkerHasMutex /\ Phases)'
<1> DEFINE Local == HoldsWhileServing /\ WalkerHasMutex /\ Phases
<1> SUFFICES ASSUME IInv, [Next]_vars PROVE Local'
  OBVIOUS
<1> USE ThreadsAssumption DEF IInv, TypeOK, WorkerPc, MainPc, Serving, Step, Runnable,
         HoldsWhileServing, WalkerHasMutex, Phases, sigVars, qVars, cVars, thVars, netVars
<1>1. CASE MainThread
  <2>1. CASE PushLock BY <2>1 DEF PushLock
  <2>2. CASE Push
    <3>1. \A w \in Workers : pc'[w] = pc[w] \/ (pc[w] = "wait" /\ pc'[w] = "pop_lock")
      BY <2>2 DEF Push, SignalOne
    <3>2. pc'[Main] = "check" BY <2>2 DEF Push, SignalOne
    <3> QED BY <2>2, <3>1, <3>2 DEF Push
  <2>3. CASE Start BY <2>3 DEF Start
  <2>4. CASE Listen BY <2>4 DEF Listen
  <2>5. CASE AcceptTest BY <2>5 DEF AcceptTest
  <2>6. ASSUME NEW f \in Fds, Accept(f) PROVE Local' BY <2>6 DEF Accept
  <2>7. CASE AcceptFail BY <2>7 DEF AcceptFail
  <2>8. CASE CloseListen BY <2>8 DEF CloseListen
  <2>9. CASE CloseQueueLock BY <2>9 DEF CloseQueueLock
  <2>10. CASE CloseQueue BY <2>10 DEF CloseQueue, WakeAll
  <2>11. CASE Join BY <2>11 DEF Join
  <2>12. CASE Finish BY <2>12 DEF Finish
  <2> QED BY <1>1, <2>1, <2>2, <2>3, <2>4, <2>5, <2>6, <2>7, <2>8, <2>9, <2>10, <2>11, <2>12 DEF MainThread
<1>2. CASE PushFail BY <1>2 DEF PushFail
<1>3. CASE StartFail BY <1>3 DEF StartFail
<1>4. ASSUME NEW w \in Workers, Worker(w) \/ AddFail(w) \/ SpuriousWake(w) PROVE Local'
  <2>1. CASE PopLock(w) BY <2>1 DEF PopLock
  <2>2. CASE PopWait(w) BY <2>2 DEF PopWait
  <2>3. CASE PopClosed(w) BY <2>3 DEF PopClosed
  <2>4. CASE PopJob(w) BY <2>4 DEF PopJob
  <2>5. CASE LoopTest(w) BY <2>5 DEF LoopTest
  <2>6. CASE AddClient(w) BY <2>6 DEF AddClient
  <2>7. CASE RunTest(w) BY <2>7 DEF RunTest
  <2>8. CASE RecvData(w) BY <2>8 DEF RecvData
  <2>9. CASE RecvEnd(w) BY <2>9 DEF RecvEnd
  <2>10. CASE BcastLock(w) BY <2>10 DEF BcastLock
  <2>11. CASE SkipSelf(w) BY <2>11 DEF SkipSelf
  <2>12. ASSUME NEW f \in Fds, SendTo(w, f) PROVE Local' BY <2>12 DEF SendTo
  <2>13. ASSUME NEW f \in Fds, SendLost(w, f) PROVE Local' BY <2>13 DEF SendLost
  <2>14. ASSUME NEW f \in Fds, SendPipe(w, f) PROVE Local' BY <2>14 DEF SendPipe
  <2>15. CASE BcastDone(w) BY <2>15 DEF BcastDone
  <2>16. CASE RemoveClient(w) BY <2>16 DEF RemoveClient
  <2>17. CASE CloseFd(w) BY <2>17 DEF CloseFd
  <2>18. CASE AddFail(w) BY <2>18 DEF AddFail
  <2>19. CASE SpuriousWake(w) BY <2>19 DEF SpuriousWake
  <2> QED BY <1>4, <2>1, <2>2, <2>3, <2>4, <2>5, <2>6, <2>7, <2>8, <2>9, <2>10, <2>11, <2>12, <2>13, <2>14, <2>15, <2>16, <2>17, <2>18, <2>19 DEF Worker
<1>5. ASSUME NEW t \in Threads, Handler(t) PROVE Local'
  <2>1. CASE HandlerLock(t) BY <2>1 DEF HandlerLock
  <2>2. CASE HandlerClose(t) BY <2>2 DEF HandlerClose, WakeAll
  <2> QED BY <1>5, <2>1, <2>2 DEF Handler
<1>6. ASSUME NEW t \in Threads, NEW s \in Signals, Deliver(s, t) PROVE Local'
  BY <1>6 DEF Deliver
<1>7. ASSUME NEW p \in Peers, Peer(p) PROVE Local'
  BY <1>7 DEF Peer, PeerConnect, PeerSend, PeerClose, PeerRead
<1>8. CASE UNCHANGED vars BY <1>8 DEF vars
<1> QED BY <1>1, <1>2, <1>3, <1>4, <1>5, <1>6, <1>7, <1>8 DEF Next

\* A step that keeps the list and only moves workers that are not listed, or
\* keeps them between add_client and remove_client, keeps ListedIsServed.
LEMMA ListedKept ==
    ASSUME IInv, clients' = clients, rest' = rest,
           \A w \in Workers : pc[w] \in Serving \ {"add", "close"} =>
               cfd'[w] = cfd[w] /\ pc'[w] \in Serving \ {"add", "close"},
           \A w \in Workers : pc'[w] = "send" => pc[w] = "send"
    PROVE  ListedIsServed'
  BY DEF IInv, ListedIsServed

\* Every step leaves the client list to served descriptors.
LEMMA ListedStep == IInv /\ [Next]_vars => ListedIsServed'
<1> SUFFICES ASSUME IInv, [Next]_vars PROVE ListedIsServed'
  OBVIOUS
<1> USE ThreadsAssumption DEF IInv, TypeOK, WorkerPc, MainPc, Serving, Step, Runnable,
         HoldsWhileServing, WalkerHasMutex, Phases, ListedIsServed, sigVars, qVars, cVars, thVars, netVars
<1>1. CASE MainThread
  <2>1. CASE PushLock BY <2>1 DEF PushLock
  <2>2. CASE Push
    <3>1. \A w \in Workers : pc'[w] = pc[w] \/ (pc[w] = "wait" /\ pc'[w] = "pop_lock")
      BY <2>2 DEF Push, SignalOne
    <3> QED BY <2>2, <3>1, ListedKept DEF Push
  <2>3. CASE Start BY <2>3 DEF Start
  <2>4. CASE Listen BY <2>4 DEF Listen
  <2>5. CASE AcceptTest BY <2>5 DEF AcceptTest
  <2>6. ASSUME NEW f \in Fds, Accept(f) PROVE ListedIsServed' BY <2>6 DEF Accept
  <2>7. CASE AcceptFail BY <2>7 DEF AcceptFail
  <2>8. CASE CloseListen BY <2>8 DEF CloseListen
  <2>9. CASE CloseQueueLock BY <2>9 DEF CloseQueueLock
  <2>10. CASE CloseQueue BY <2>10 DEF CloseQueue, WakeAll
  <2>11. CASE Join BY <2>11 DEF Join
  <2>12. CASE Finish BY <2>12 DEF Finish
  <2> QED BY <1>1, <2>1, <2>2, <2>3, <2>4, <2>5, <2>6, <2>7, <2>8, <2>9, <2>10, <2>11, <2>12 DEF MainThread
<1>2. CASE PushFail BY <1>2 DEF PushFail
<1>3. CASE StartFail BY <1>3 DEF StartFail
<1>4. ASSUME NEW w \in Workers, Worker(w) \/ AddFail(w) \/ SpuriousWake(w) PROVE ListedIsServed'
  <2>1. CASE PopLock(w) BY <2>1, ListedKept DEF PopLock
  <2>2. CASE PopWait(w) BY <2>2, ListedKept DEF PopWait
  <2>3. CASE PopClosed(w) BY <2>3, ListedKept DEF PopClosed
  <2>4. CASE PopJob(w) BY <2>4, ListedKept DEF PopJob
  <2>5. CASE LoopTest(w) BY <2>5, ListedKept DEF LoopTest
  <2>6. CASE AddClient(w) BY <2>6 DEF AddClient
  <2>7. CASE RunTest(w) BY <2>7 DEF RunTest
  <2>8. CASE RecvData(w) BY <2>8 DEF RecvData
  <2>9. CASE RecvEnd(w) BY <2>9 DEF RecvEnd
  <2>10. CASE BcastLock(w) BY <2>10 DEF BcastLock
  <2>11. CASE SkipSelf(w) BY <2>11 DEF SkipSelf
  <2>12. ASSUME NEW f \in Fds, SendTo(w, f) PROVE ListedIsServed' BY <2>12 DEF SendTo
  <2>13. ASSUME NEW f \in Fds, SendLost(w, f) PROVE ListedIsServed' BY <2>13 DEF SendLost
  <2>14. ASSUME NEW f \in Fds, SendPipe(w, f) PROVE ListedIsServed' BY <2>14 DEF SendPipe
  <2>15. CASE BcastDone(w) BY <2>15 DEF BcastDone
  <2>16. CASE RemoveClient(w) BY <2>16 DEF RemoveClient, SoleOwner
  <2>17. CASE CloseFd(w) BY <2>17 DEF CloseFd, SoleOwner
  <2>18. CASE AddFail(w) BY <2>18 DEF AddFail
  <2>19. CASE SpuriousWake(w) BY <2>19, ListedKept DEF SpuriousWake
  <2> QED BY <1>4, <2>1, <2>2, <2>3, <2>4, <2>5, <2>6, <2>7, <2>8, <2>9, <2>10, <2>11, <2>12, <2>13, <2>14, <2>15, <2>16, <2>17, <2>18, <2>19 DEF Worker
<1>5. ASSUME NEW t \in Threads, Handler(t) PROVE ListedIsServed'
  <2>1. CASE HandlerLock(t) BY <2>1 DEF HandlerLock
  <2>2. CASE HandlerClose(t) BY <2>2 DEF HandlerClose, WakeAll
  <2> QED BY <1>5, <2>1, <2>2 DEF Handler
<1>6. ASSUME NEW t \in Threads, NEW s \in Signals, Deliver(s, t) PROVE ListedIsServed'
  BY <1>6, ListedKept DEF Deliver
<1>7. ASSUME NEW p \in Peers, Peer(p) PROVE ListedIsServed'
  BY <1>7, ListedKept DEF Peer, PeerConnect, PeerSend, PeerClose, PeerRead
<1>8. CASE UNCHANGED vars BY <1>8 DEF vars
<1> QED BY <1>1, <1>2, <1>3, <1>4, <1>5, <1>6, <1>7, <1>8 DEF Next

\* The ownership invariant is inductive.
LEMMA InvStep == IInv /\ [Next]_vars => IInv'
  BY TypeStep, OwnerStep, LocalStep, ListedStep DEF IInv

\* The ownership invariant holds throughout.
LEMMA Invariant == Spec => []IInv
  BY InitInv, InvStep, PTL DEF Spec

\* Every variable keeps its type: in particular the queue and client_fd only
\* ever hold descriptors, never accept's or jobq_pop's -1.
THEOREM TypeCorrect == Spec => []TypeOK
<1>1. IInv => TypeOK BY DEF IInv
<1> QED BY <1>1, Invariant, PTL

\* A descriptor has one owner, and the owner's descriptor is open: no thread
\* uses or closes a number that accept has given to another connection.
THEOREM SoleOwnership == Spec => []SoleOwner
<1>1. IInv => SoleOwner BY DEF IInv
<1> QED BY <1>1, Invariant, PTL

\* Broadcasts only ever write to connections some worker is still serving,
\* because remove_client precedes close and the walk holds clients_mutex.
THEOREM ListedAreServed == Spec => []ListedIsServed
<1>1. IInv => ListedIsServed BY DEF IInv
<1> QED BY <1>1, Invariant, PTL

\* The close loop at the end of main finds an empty list.
THEOREM ListEmptyAtExit == Spec => []JoinEmptiesList
<1>1. IInv => JoinEmptiesList
  BY DEF IInv, JoinEmptiesList, Phases, ListedIsServed, Serving
<1> QED BY <1>1, Invariant, PTL
-----------------------------------------------------------------------------
\* The flag is cleared before the queue is closed and before main shuts down.
StopInv ==
    /\ closed => ~running
    /\ pc[Main] \in {"shut", "close_lock", "close_in", "join", "final"} => ~running
    /\ \A t \in Threads : hpc[t] # "none" => ~running

\* Every step keeps what holds of the shutdown.
LEMMA StopStep == IInv /\ StopInv /\ ClosedWakes /\ [Next]_vars => (StopInv /\ ClosedWakes)'
<1> DEFINE Stops == StopInv /\ ClosedWakes
<1> SUFFICES ASSUME IInv, Stops, [Next]_vars PROVE Stops'
  OBVIOUS
<1> USE ThreadsAssumption DEF IInv, TypeOK, WorkerPc, MainPc, Step, Runnable,
         StopInv, ClosedWakes, sigVars, qVars, cVars, thVars, netVars
<1>1. CASE MainThread
  <2>1. CASE PushLock BY <2>1 DEF PushLock
  <2>2. CASE Push
    <3>1. \A w \in Workers : pc'[w] = pc[w] \/ (pc[w] = "wait" /\ pc'[w] = "pop_lock")
      BY <2>2 DEF Push, SignalOne
    <3>2. pc'[Main] = "check" BY <2>2 DEF Push, SignalOne
    <3> QED BY <2>2, <3>1, <3>2 DEF Push
  <2>3. CASE Start BY <2>3 DEF Start
  <2>4. CASE Listen BY <2>4 DEF Listen
  <2>5. CASE AcceptTest BY <2>5 DEF AcceptTest
  <2>6. ASSUME NEW f \in Fds, Accept(f) PROVE Stops' BY <2>6 DEF Accept
  <2>7. CASE AcceptFail BY <2>7 DEF AcceptFail
  <2>8. CASE CloseListen BY <2>8 DEF CloseListen
  <2>9. CASE CloseQueueLock BY <2>9 DEF CloseQueueLock
  <2>10. CASE CloseQueue BY <2>10 DEF CloseQueue, WakeAll
  <2>11. CASE Join BY <2>11 DEF Join
  <2>12. CASE Finish BY <2>12 DEF Finish
  <2> QED BY <1>1, <2>1, <2>2, <2>3, <2>4, <2>5, <2>6, <2>7, <2>8, <2>9, <2>10, <2>11, <2>12 DEF MainThread
<1>2. CASE PushFail BY <1>2 DEF PushFail
<1>3. CASE StartFail BY <1>3 DEF StartFail
<1>4. ASSUME NEW w \in Workers, Worker(w) \/ AddFail(w) \/ SpuriousWake(w) PROVE Stops'
  <2>1. CASE PopLock(w) BY <2>1 DEF PopLock
  <2>2. CASE PopWait(w) BY <2>2 DEF PopWait
  <2>3. CASE PopClosed(w) BY <2>3 DEF PopClosed
  <2>4. CASE PopJob(w) BY <2>4 DEF PopJob
  <2>5. CASE LoopTest(w) BY <2>5 DEF LoopTest
  <2>6. CASE AddClient(w) BY <2>6 DEF AddClient
  <2>7. CASE RunTest(w) BY <2>7 DEF RunTest
  <2>8. CASE RecvData(w) BY <2>8 DEF RecvData
  <2>9. CASE RecvEnd(w) BY <2>9 DEF RecvEnd
  <2>10. CASE BcastLock(w) BY <2>10 DEF BcastLock
  <2>11. CASE SkipSelf(w) BY <2>11 DEF SkipSelf
  <2>12. ASSUME NEW f \in Fds, SendTo(w, f) PROVE Stops' BY <2>12 DEF SendTo
  <2>13. ASSUME NEW f \in Fds, SendLost(w, f) PROVE Stops' BY <2>13 DEF SendLost
  <2>14. ASSUME NEW f \in Fds, SendPipe(w, f) PROVE Stops' BY <2>14 DEF SendPipe
  <2>15. CASE BcastDone(w) BY <2>15 DEF BcastDone
  <2>16. CASE RemoveClient(w) BY <2>16 DEF RemoveClient
  <2>17. CASE CloseFd(w) BY <2>17 DEF CloseFd
  <2>18. CASE AddFail(w) BY <2>18 DEF AddFail
  <2>19. CASE SpuriousWake(w) BY <2>19 DEF SpuriousWake
  <2> QED BY <1>4, <2>1, <2>2, <2>3, <2>4, <2>5, <2>6, <2>7, <2>8, <2>9, <2>10, <2>11, <2>12, <2>13, <2>14, <2>15, <2>16, <2>17, <2>18, <2>19 DEF Worker
<1>5. ASSUME NEW t \in Threads, Handler(t) PROVE Stops'
  <2>1. CASE HandlerLock(t) BY <2>1 DEF HandlerLock
  <2>2. CASE HandlerClose(t) BY <2>2 DEF HandlerClose, WakeAll
  <2> QED BY <1>5, <2>1, <2>2 DEF Handler
<1>6. ASSUME NEW t \in Threads, NEW s \in Signals, Deliver(s, t) PROVE Stops'
  BY <1>6 DEF Deliver
<1>7. ASSUME NEW p \in Peers, Peer(p) PROVE Stops'
  BY <1>7 DEF Peer, PeerConnect, PeerSend, PeerClose, PeerRead
<1>8. CASE UNCHANGED vars BY <1>8 DEF vars
<1> QED BY <1>1, <1>2, <1>3, <1>4, <1>5, <1>6, <1>7, <1>8 DEF Next

\* What holds of the shutdown holds throughout.
LEMMA StopInvariant == Spec => [](StopInv /\ ClosedWakes)
<1>1. Init => StopInv /\ ClosedWakes
  BY ThreadsAssumption DEF Init, StopInv, ClosedWakes
<1> QED BY <1>1, Invariant, StopStep, PTL DEF Spec

\* jobq_close cannot leave a worker asleep in jobq_pop, whichever thread runs
\* it, main or a signal handler, and whenever.
THEOREM CloseWakesEveryone == Spec => []ClosedWakes
  BY StopInvariant, PTL
-----------------------------------------------------------------------------
(* The refinement of JobPool: the initial state maps to an initial state    *)
(* and every step to a step of the pool or to a stutter.                   *)

\* The initial states are those of the abstract pool.
LEMMA PoolInit == Init => Pool!PInit
  BY ThreadsAssumption DEF Init, Pool!PInit

\* Every step is a step of the abstract pool or none.
LEMMA PoolStep == IInv /\ StopInv /\ [Next]_vars => [Pool!PNext]_(Pool!pvars)
<1> SUFFICES ASSUME IInv, StopInv, [Next]_vars PROVE [Pool!PNext]_(Pool!pvars)
  OBVIOUS
<1> DEFINE Implements == [Pool!PNext]_(Pool!pvars)
           hands == [w \in Workers |-> cfd[w]]
           gone == {w \in Workers : pc[w] = "done"}
<1> USE ThreadsAssumption
<1>s. ASSUME UNCHANGED <<jobs, running>>,
             \A w \in Workers : cfd'[w] = cfd[w] /\ (pc'[w] = "done" <=> pc[w] = "done")
      PROVE  Implements
  <2>1. hands' = hands BY <1>s
  <2>2. gone' = gone BY <1>s
  <2> QED BY <1>s, <2>1, <2>2 DEF Pool!pvars
<1> USE DEF IInv, TypeOK, WorkerPc, MainPc, Step, Runnable, sigVars, qVars, cVars, thVars, netVars
<1>1. CASE MainThread
  <2>1. CASE PushLock BY <1>s, <2>1 DEF PushLock
  <2>2. CASE Push
    <3>1. cfd[Main] \in Fds /\ cfd[Main] # None BY <2>2 DEF Push, HoldsWhileServing
    <3>2. cfd[Main] \notin RangeOf(jobs) /\ \A w \in Workers : cfd[w] # cfd[Main]
      BY <3>1 DEF SoleOwner
    <3>3. /\ jobs' = Append(jobs, cfd[Main]) /\ running' = running
          /\ \A w \in Workers : cfd'[w] = cfd[w]
      BY <2>2 DEF Push
    <3>4. \A w \in Workers : pc'[w] = "done" <=> pc[w] = "done"
      BY <2>2 DEF Push, SignalOne
    <3>5. hands' = hands /\ gone' = gone BY <3>3, <3>4
    <3>6. Pool!Put(cfd[Main])
      BY <3>2, <3>3, <3>5 DEF Pool!Put, Pool!Waiting, RangeOf
    <3> QED BY <3>1, <3>6 DEF Pool!PNext
  <2>3. CASE Start BY <1>s, <2>3 DEF Start, Phases
  <2>4. CASE Listen BY <1>s, <2>4 DEF Listen
  <2>5. CASE AcceptTest BY <1>s, <2>5 DEF AcceptTest
  <2>6. ASSUME NEW f \in Fds, Accept(f) PROVE Implements BY <1>s, <2>6 DEF Accept
  <2>7. CASE AcceptFail BY <1>s, <2>7 DEF AcceptFail
  <2>8. CASE CloseListen BY <1>s, <2>8 DEF CloseListen
  <2>9. CASE CloseQueueLock BY <1>s, <2>9 DEF CloseQueueLock
  <2>10. CASE CloseQueue BY <1>s, <2>10 DEF CloseQueue, WakeAll
  <2>11. CASE Join BY <1>s, <2>11 DEF Join
  <2>12. CASE Finish BY <1>s, <2>12 DEF Finish
  <2> QED BY <1>1, <2>1, <2>2, <2>3, <2>4, <2>5, <2>6, <2>7, <2>8, <2>9, <2>10, <2>11, <2>12 DEF MainThread
<1>2. CASE PushFail BY <1>s, <1>2 DEF PushFail
<1>3. CASE StartFail BY <1>s, <1>3 DEF StartFail
<1>4. ASSUME NEW w \in Workers, Worker(w) \/ AddFail(w) \/ SpuriousWake(w) PROVE Implements
  <2>l. ASSUME UNCHANGED <<jobs, running, cfd>>, ~running, pc[w] \in {"loop", "pop"},
               pc' = [pc EXCEPT ![w] = "done"]
        PROVE  Implements
    <3>1. hands' = hands BY <2>l
    <3>2. gone' = gone \cup {w} BY <2>l
    <3>3. hands[w] = None BY <2>l DEF HoldsWhileServing, Serving
    <3>4. Pool!Leave(w) BY <2>l, <3>1, <3>2, <3>3 DEF Pool!Leave
    <3> QED BY <3>4 DEF Pool!PNext
  <2>1. CASE PopLock(w) BY <1>s, <2>1 DEF PopLock
  <2>2. CASE PopWait(w) BY <1>s, <2>2 DEF PopWait
  <2>3. CASE PopClosed(w) BY <2>l, <2>3 DEF PopClosed, StopInv
  <2>4. CASE PopJob(w)
    <3>1. pc[w] = "pop" /\ pc' = [pc EXCEPT ![w] = "add"] /\ running' = running
      BY <2>4 DEF PopJob
    <3>2. jobs # <<>> /\ jobs' = Tail(jobs) /\ cfd' = [cfd EXCEPT ![w] = Head(jobs)]
      BY <2>4 DEF PopJob
    <3>3. gone' = gone /\ w \notin gone BY <3>1
    <3>4. hands' = [hands EXCEPT ![w] = Head(jobs)] BY <3>2
    <3>5. hands[w] = None BY <3>1 DEF HoldsWhileServing, Serving
    <3>6. Pool!Take(w) BY <3>1, <3>2, <3>3, <3>4, <3>5 DEF Pool!Take
    <3> QED BY <3>6 DEF Pool!PNext
  <2>5. CASE LoopTest(w)
    <3>1. CASE running BY <1>s, <2>5, <3>1 DEF LoopTest
    <3>2. CASE ~running BY <2>l, <2>5, <3>2 DEF LoopTest
    <3> QED BY <3>1, <3>2
  <2>6. CASE AddClient(w) BY <1>s, <2>6 DEF AddClient
  <2>7. CASE RunTest(w) BY <1>s, <2>7 DEF RunTest
  <2>8. CASE RecvData(w) BY <1>s, <2>8 DEF RecvData
  <2>9. CASE RecvEnd(w) BY <1>s, <2>9 DEF RecvEnd
  <2>10. CASE BcastLock(w) BY <1>s, <2>10 DEF BcastLock
  <2>11. CASE SkipSelf(w) BY <1>s, <2>11 DEF SkipSelf
  <2>12. ASSUME NEW f \in Fds, SendTo(w, f) PROVE Implements BY <1>s, <2>12 DEF SendTo
  <2>13. ASSUME NEW f \in Fds, SendLost(w, f) PROVE Implements BY <1>s, <2>13 DEF SendLost
  <2>14. ASSUME NEW f \in Fds, SendPipe(w, f) PROVE Implements BY <1>s, <2>14 DEF SendPipe
  <2>15. CASE BcastDone(w) BY <1>s, <2>15 DEF BcastDone
  <2>16. CASE RemoveClient(w) BY <1>s, <2>16 DEF RemoveClient
  <2>17. CASE CloseFd(w)
    <3>1. pc[w] = "close" /\ pc' = [pc EXCEPT ![w] = "loop"] /\ running' = running /\ jobs' = jobs
      BY <2>17 DEF CloseFd
    <3>2. cfd' = [cfd EXCEPT ![w] = None] BY <2>17 DEF CloseFd
    <3>3. gone' = gone BY <3>1
    <3>4. hands' = [hands EXCEPT ![w] = None] BY <3>2
    <3>5. hands[w] # None BY <3>1 DEF HoldsWhileServing, Serving
    <3>6. Pool!Release(w) BY <3>1, <3>3, <3>4, <3>5 DEF Pool!Release
    <3> QED BY <3>6 DEF Pool!PNext
  <2>18. CASE AddFail(w) BY <1>s, <2>18 DEF AddFail
  <2>19. CASE SpuriousWake(w) BY <1>s, <2>19 DEF SpuriousWake
  <2> QED BY <1>4, <2>1, <2>2, <2>3, <2>4, <2>5, <2>6, <2>7, <2>8, <2>9, <2>10, <2>11, <2>12,
             <2>13, <2>14, <2>15, <2>16, <2>17, <2>18, <2>19 DEF Worker
<1>5. ASSUME NEW t \in Threads, Handler(t) PROVE Implements
  <2>1. CASE HandlerLock(t) BY <1>s, <2>1 DEF HandlerLock
  <2>2. CASE HandlerClose(t) BY <1>s, <2>2 DEF HandlerClose, WakeAll
  <2> QED BY <1>5, <2>1, <2>2 DEF Handler
<1>6. ASSUME NEW t \in Threads, NEW s \in Signals, Deliver(s, t) PROVE Implements
  <2>1. jobs' = jobs /\ cfd' = cfd /\ ~running' BY <1>6 DEF Deliver
  <2>2. \A w \in Workers : pc'[w] = "done" <=> pc[w] = "done"
    <3>1. CASE pc' = pc BY <3>1
    <3>2. CASE pc[t] = "accept" /\ pc' = [pc EXCEPT ![t] = "check"] BY <3>2
    <3>3. CASE pc[t] = "recv" /\ pc' = [pc EXCEPT ![t] = "run"] BY <3>3
    <3> QED BY <1>6, <3>1, <3>2, <3>3 DEF Deliver
  <2>3. hands' = hands BY <2>1
  <2>4. gone' = gone BY <2>2
  <2>5. Pool!Stop BY <2>1, <2>3, <2>4 DEF Pool!Stop
  <2> QED BY <2>5 DEF Pool!PNext
<1>7. ASSUME NEW p \in Peers, Peer(p) PROVE Implements
  BY <1>s, <1>7 DEF Peer, PeerConnect, PeerSend, PeerClose, PeerRead
<1>8. CASE UNCHANGED vars BY <1>s, <1>8 DEF vars
<1> QED BY <1>1, <1>2, <1>3, <1>4, <1>5, <1>6, <1>7, <1>8 DEF Next

\* The concrete queue, with its mutex, condition variable, spurious wake-ups,
\* signal handlers and failing allocations, implements the abstract pool.
THEOREM PoolRefinement == Spec => ImplementsPool
<1>1. Spec => [](IInv /\ StopInv) BY Invariant, StopInvariant, PTL
<1> QED BY <1>1, PoolInit, PoolStep, PTL DEF Spec, ImplementsPool, Pool!PSpec
-----------------------------------------------------------------------------
(* Descriptors and wake-ups are not lost.                                  *)

\* Every open descriptor is on the queue or in some thread's client_fd.
Held == \A f \in Fds : fds[f] # None => f \in RangeOf(jobs) \/ \E t \in Threads : cfd[t] = f

\* No step but a push without memory loses a descriptor.
LEMMA HeldStep == ASSUME IInv, Held, [Next]_vars, ~PushFail PROVE Held'
<1> SUFFICES ASSUME NEW f \in Fds, fds'[f] # None
             PROVE  f \in RangeOf(jobs') \/ \E t \in Threads : cfd'[t] = f
  BY DEF Held
<1>h. fds[f] # None => (\E i \in DOMAIN jobs : jobs[i] = f) \/ \E t \in Threads : cfd[t] = f
  BY DEF Held, RangeOf
<1>g. (\E i \in DOMAIN jobs' : jobs'[i] = f) => f \in RangeOf(jobs')
  BY DEF RangeOf
<1> USE ThreadsAssumption, <1>h, <1>g DEF IInv, TypeOK, Step, Runnable
<1>1. CASE Push
  <2>1. jobs' = Append(jobs, cfd[Main]) /\ fds' = fds /\ cfd' = [cfd EXCEPT ![Main] = None]
        /\ cfd[Main] \in Fds
    BY <1>1 DEF Push, HoldsWhileServing
  <2>2. /\ \A i \in DOMAIN jobs : i \in DOMAIN jobs' /\ jobs'[i] = jobs[i]
        /\ Len(jobs) + 1 \in DOMAIN jobs' /\ jobs'[Len(jobs) + 1] = cfd[Main]
    BY <2>1
  <2> QED BY <2>1, <2>2
<1>3. CASE Start BY <1>3 DEF Start, Phases
<1>4. CASE Finish BY <1>4 DEF Finish, qVars, thVars
<1>5. ASSUME NEW g \in Fds, Accept(g) PROVE f \in RangeOf(jobs') \/ \E t \in Threads : cfd'[t] = f
  <2>1. cfd[Main] = None BY <1>5 DEF Accept, HoldsWhileServing
  <2>2. /\ jobs' = jobs /\ cfd' = [cfd EXCEPT ![Main] = g]
        /\ fds' = [fds EXCEPT ![g] = Head(backlog)]
    BY <1>5 DEF Accept, qVars
  <2>3. CASE f = g BY <2>2, <2>3
  <2>4. CASE f # g BY <2>1, <2>2, <2>4
  <2> QED BY <2>3, <2>4
<1>6. ASSUME NEW w \in Workers, PopJob(w) PROVE f \in RangeOf(jobs') \/ \E t \in Threads : cfd'[t] = f
  <2>1. /\ jobs # <<>> /\ jobs' = Tail(jobs) /\ fds' = fds /\ cfd' = [cfd EXCEPT ![w] = Head(jobs)]
        /\ cfd[w] = None
    BY <1>6 DEF PopJob, HoldsWhileServing, Serving
  <2>2. \A i \in DOMAIN jobs : i = 1 \/ (i - 1 \in DOMAIN jobs' /\ jobs'[i - 1] = jobs[i])
    BY <2>1
  <2>3. CASE f = Head(jobs) BY <2>1, <2>3
  <2>4. CASE f # Head(jobs)
    <3>1. \A i \in DOMAIN jobs : jobs[i] = f => i # 1 BY <2>1, <2>4
    <3>2. \A t \in Threads : cfd[t] = f => cfd'[t] = f BY <2>1
    <3>3. (\E i \in DOMAIN jobs : jobs[i] = f) \/ \E t \in Threads : cfd[t] = f BY <2>1
    <3> QED BY ONLY <1>g, <2>2, <3>1, <3>2, <3>3
  <2> QED BY <2>3, <2>4
<1>7. ASSUME NEW w \in Workers, CloseFd(w) PROVE f \in RangeOf(jobs') \/ \E t \in Threads : cfd'[t] = f
  <2>1. jobs' = jobs /\ cfd' = [cfd EXCEPT ![w] = None] /\ fds' = [fds EXCEPT ![cfd[w]] = None]
    BY <1>7 DEF CloseFd, qVars
  <2> QED BY <2>1
<1>8. CASE UNCHANGED <<jobs, cfd, fds>> BY <1>8
<1> QED BY <1>1, <1>3, <1>4, <1>5, <1>6, <1>7, <1>8, FdFrame

\* From accept to close a descriptor is always on the queue or in some thread's
\* client_fd, through every hand-over and every early return.
THEOREM NothingLeaks == Spec => []NoLeak
<1>1. Init => NoLeak BY DEF Init, NoLeak
<1>2. IInv /\ NoLeak /\ [Next]_vars => NoLeak'
  <2>1. CASE MallocMayFail BY Zenon, <2>1 DEF NoLeak
  <2>2. CASE ~MallocMayFail
    <3>1. ~PushFail BY Zenon, <2>2 DEF PushFail
    <3>2. NoLeak => Held BY Zenon, <2>2 DEF NoLeak, Held
    <3>3. Held' => NoLeak' BY Zenon DEF NoLeak, Held
    <3> QED BY <3>1, <3>2, <3>3, HeldStep
  <2> QED BY <2>1, <2>2
<1> QED BY <1>1, <1>2, Invariant, PTL DEF Spec

\* The workers asleep in jobq_pop, and those on their way to the queue.
Asleep == {w \in Workers : pc[w] = "wait"}
Coming == {w \in Workers : pc[w] \in {"pop_lock", "pop"}}

\* What a step does to both.
LEMMA WakeFrame ==
    ASSUME IInv, [Next]_vars
    PROVE  \/ Asleep' = {}
           \/ Asleep' \subseteq Asleep /\ Coming \subseteq Coming' /\ jobs' = jobs
           \/ \E w \in Workers \ Coming : /\ w \in Asleep /\ Coming' = Coming \cup {w}
                                          /\ Len(jobs') = Len(jobs) + 1
           \/ \E w \in Coming : /\ Coming' = Coming \ {w} /\ jobs # <<>> /\ jobs' = Tail(jobs)
                                /\ Asleep' = Asleep
           \/ jobs' = <<>>
<1> DEFINE Goal ==
           \/ Asleep' = {}
           \/ Asleep' \subseteq Asleep /\ Coming \subseteq Coming' /\ jobs' = jobs
           \/ \E w \in Workers \ Coming : /\ w \in Asleep /\ Coming' = Coming \cup {w}
                                          /\ Len(jobs') = Len(jobs) + 1
           \/ \E w \in Coming : /\ Coming' = Coming \ {w} /\ jobs # <<>> /\ jobs' = Tail(jobs)
                                /\ Asleep' = Asleep
           \/ jobs' = <<>>
<1>e. ASSUME jobs' = <<>> PROVE Goal
  BY <1>e
<1>j. ASSUME NEW w \in Coming, Coming' = Coming \ {w}, jobs # <<>>, jobs' = Tail(jobs), Asleep' = Asleep
      PROVE  Goal
  BY <1>j
<1> USE ThreadsAssumption DEF IInv, TypeOK, WorkerPc, MainPc, Step, Runnable,
         sigVars, qVars, cVars, thVars, netVars
<1>q. ASSUME jobs' = jobs,
             \A w \in Workers : /\ pc'[w] = "wait" => pc[w] = "wait"
                                /\ pc[w] \in {"pop_lock", "pop"} => pc'[w] \in {"pop_lock", "pop"}
      PROVE  Goal
  BY <1>q DEF Asleep, Coming
<1>1. CASE MainThread
  <2>1. CASE PushLock BY <1>q, <2>1 DEF PushLock
  <2>2. CASE Push
    <3>1. Len(jobs') = Len(jobs) + 1 BY <2>2 DEF Push, HoldsWhileServing
    <3>2. CASE Asleep = {}
      <4>1. pc' = [pc EXCEPT ![Main] = "check"] BY <2>2, <3>2 DEF Push, SignalOne, Asleep
      <4> QED BY <3>2, <4>1 DEF Asleep
    <3>3. CASE Asleep # {}
      <4>1. PICK w \in Asleep : pc' = [[pc EXCEPT ![Main] = "check"] EXCEPT ![w] = "pop_lock"]
        BY <2>2, <3>3 DEF Push, SignalOne, Asleep
      <4>2. w \in Workers \ Coming /\ Coming' = Coming \cup {w} BY <4>1 DEF Asleep, Coming
      <4> QED BY <3>1, <4>1, <4>2
    <3> QED BY <3>2, <3>3
  <2>3. CASE Start BY <2>3 DEF Start
  <2>4. CASE Listen BY <1>q, <2>4 DEF Listen
  <2>5. CASE AcceptTest BY <1>q, <2>5 DEF AcceptTest
  <2>6. ASSUME NEW f \in Fds, Accept(f) PROVE Goal BY <1>q, <2>6 DEF Accept
  <2>7. CASE AcceptFail BY <1>q, <2>7 DEF AcceptFail
  <2>8. CASE CloseListen BY <1>q, <2>8 DEF CloseListen
  <2>9. CASE CloseQueueLock BY <1>q, <2>9 DEF CloseQueueLock
  <2>10. CASE CloseQueue BY <1>q, <2>10 DEF CloseQueue, WakeAll
  <2>11. CASE Join BY <1>q, <2>11 DEF Join
  <2>12. CASE Finish BY <1>q, <2>12 DEF Finish
  <2> QED BY <1>1, <2>1, <2>2, <2>3, <2>4, <2>5, <2>6, <2>7, <2>8, <2>9, <2>10, <2>11, <2>12 DEF MainThread
<1>2. CASE PushFail BY <1>q, <1>2 DEF PushFail
<1>3. CASE StartFail BY <1>q, <1>3 DEF StartFail
<1>4. ASSUME NEW w \in Workers, Worker(w) \/ AddFail(w) \/ SpuriousWake(w) PROVE Goal
  <2>1. CASE PopLock(w) BY <1>q, <2>1 DEF PopLock
  <2>2. CASE PopWait(w) BY <1>e, <2>2 DEF PopWait
  <2>3. CASE PopClosed(w) BY <1>e, <2>3 DEF PopClosed
  <2>4. CASE PopJob(w)
    <3>1. jobs # <<>> /\ jobs' = Tail(jobs) /\ pc[w] = "pop" /\ pc' = [pc EXCEPT ![w] = "add"]
      BY <2>4 DEF PopJob
    <3>2. w \in Coming /\ Coming' = Coming \ {w} /\ Asleep' = Asleep
      BY <3>1 DEF Asleep, Coming
    <3> QED BY <1>j, <3>1, <3>2
  <2>5. CASE LoopTest(w) BY <1>q, <2>5 DEF LoopTest
  <2>6. CASE AddClient(w) BY <1>q, <2>6 DEF AddClient
  <2>7. CASE RunTest(w) BY <1>q, <2>7 DEF RunTest
  <2>8. CASE RecvData(w) BY <1>q, <2>8 DEF RecvData
  <2>9. CASE RecvEnd(w) BY <1>q, <2>9 DEF RecvEnd
  <2>10. CASE BcastLock(w) BY <1>q, <2>10 DEF BcastLock
  <2>11. CASE SkipSelf(w) BY <1>q, <2>11 DEF SkipSelf
  <2>12. ASSUME NEW f \in Fds, SendTo(w, f) PROVE Goal BY <1>q, <2>12 DEF SendTo
  <2>13. ASSUME NEW f \in Fds, SendLost(w, f) PROVE Goal BY <1>q, <2>13 DEF SendLost
  <2>14. ASSUME NEW f \in Fds, SendPipe(w, f) PROVE Goal BY <1>q, <2>14 DEF SendPipe
  <2>15. CASE BcastDone(w) BY <1>q, <2>15 DEF BcastDone
  <2>16. CASE RemoveClient(w) BY <1>q, <2>16 DEF RemoveClient
  <2>17. CASE CloseFd(w) BY <1>q, <2>17 DEF CloseFd
  <2>18. CASE AddFail(w) BY <1>q, <2>18 DEF AddFail
  <2>19. CASE SpuriousWake(w) BY <1>q, <2>19 DEF SpuriousWake
  <2> QED BY <1>4, <2>1, <2>2, <2>3, <2>4, <2>5, <2>6, <2>7, <2>8, <2>9, <2>10, <2>11, <2>12, <2>13, <2>14, <2>15, <2>16, <2>17, <2>18, <2>19 DEF Worker
<1>5. ASSUME NEW t \in Threads, Handler(t) PROVE Goal
  <2>1. CASE HandlerLock(t) BY <1>q, <2>1 DEF HandlerLock
  <2>2. CASE HandlerClose(t) BY <1>q, <2>2 DEF HandlerClose, WakeAll
  <2> QED BY <1>5, <2>1, <2>2 DEF Handler
<1>6. ASSUME NEW t \in Threads, NEW s \in Signals, Deliver(s, t) PROVE Goal
  <2>1. jobs' = jobs BY <1>6 DEF Deliver
  <2>2. CASE pc' = pc BY <1>q, <2>1, <2>2
  <2>3. CASE pc[t] = "accept" /\ pc' = [pc EXCEPT ![t] = "check"] BY <1>q, <2>1, <2>3
  <2>4. CASE pc[t] = "recv" /\ pc' = [pc EXCEPT ![t] = "run"] BY <1>q, <2>1, <2>4
  <2> QED BY <1>6, <2>2, <2>3, <2>4 DEF Deliver
<1>7. ASSUME NEW p \in Peers, Peer(p) PROVE Goal
  BY <1>q, <1>7 DEF Peer, PeerConnect, PeerSend, PeerClose, PeerRead
<1>8. CASE UNCHANGED vars BY <1>q, <1>8 DEF vars
<1> QED BY <1>1, <1>2, <1>3, <1>4, <1>5, <1>6, <1>7, <1>8 DEF Next

\* No step leaves a sleeper and a job without a wake-up on its way.
LEMMA WakeStep == ASSUME IInv, NoLostWakeup, [Next]_vars PROVE NoLostWakeup'
<1>d. NoLostWakeup <=> (Asleep # {} => Len(jobs) <= Cardinality(Coming))
  BY DEF NoLostWakeup, Asleep, Coming
<1>e. NoLostWakeup' <=> (Asleep' # {} => Len(jobs') <= Cardinality(Coming'))
  BY DEF NoLostWakeup, Asleep, Coming
<1> SUFFICES ASSUME Asleep' # {} PROVE Len(jobs') <= Cardinality(Coming')
  BY <1>e
<1>1. IsFiniteSet(Coming) /\ IsFiniteSet(Coming') /\ jobs \in Seq(Fds)
  BY WorkersAssumption, FS_Subset DEF Coming, IInv, TypeOK
<1>2. Cardinality(Coming) \in Nat /\ Cardinality(Coming') \in Nat /\ Len(jobs) \in Nat
  BY <1>1, FS_CardinalityType
<1>3. CASE Asleep' \subseteq Asleep /\ Coming \subseteq Coming' /\ jobs' = jobs
  <2>1. Cardinality(Coming) <= Cardinality(Coming') BY <1>1, <1>3, FS_Subset
  <2> QED BY <1>2, <1>3, <1>d, <2>1
<1>4. ASSUME NEW w \in Workers \ Coming, w \in Asleep, Coming' = Coming \cup {w},
             Len(jobs') = Len(jobs) + 1
      PROVE  Len(jobs') <= Cardinality(Coming')
  <2>1. Cardinality(Coming') = Cardinality(Coming) + 1 BY <1>1, <1>4, FS_AddElement
  <2> QED BY <1>2, <1>4, <1>d, <2>1
<1>5. ASSUME NEW w \in Coming, Coming' = Coming \ {w}, jobs # <<>>, jobs' = Tail(jobs),
             Asleep' = Asleep
      PROVE  Len(jobs') <= Cardinality(Coming')
  <2>1. Cardinality(Coming') = Cardinality(Coming) - 1 BY <1>1, <1>5, FS_RemoveElement
  <2>2. Len(jobs') = Len(jobs) - 1 BY <1>1, <1>5
  <2> QED BY <1>2, <1>5, <1>d, <2>1, <2>2
<1>6. CASE jobs' = <<>> BY <1>2, <1>6
<1> QED BY <1>3, <1>4, <1>5, <1>6, WakeFrame

\* A signal is never lost between jobq_push and jobq_pop: connections wait in
\* the queue only as long as a worker is on its way to take each of them.
THEOREM NoWakeupLost == Spec => []NoLostWakeup
<1>1. Init => NoLostWakeup
  BY ThreadsAssumption DEF Init, NoLostWakeup
<1> QED BY <1>1, Invariant, WakeStep, PTL DEF Spec
-----------------------------------------------------------------------------
(* What a client receives: NoGap and SameOrder.                            *)

\* A peer is in one place: not connected yet, waiting to be accepted (once), or
\* behind one descriptor.
OnePlace ==
    /\ \A f \in Fds : fds[f] # None => conn[fds[f]] # "idle"
    /\ \A f, g \in Fds : fds[f] # None /\ fds[f] = fds[g] => f = g
    /\ \A i \in DOMAIN backlog : conn[backlog[i]] # "idle" /\ \A f \in Fds : fds[f] # backlog[i]
    /\ \A i, j \in DOMAIN backlog : i # j => backlog[i] # backlog[j]

\* A peer that add_client has not listed yet, and may still list.
Unheard(p) ==
    \/ conn[p] = "idle"
    \/ \E i \in DOMAIN backlog : backlog[i] = p
    \/ \E i \in DOMAIN jobs : fds[jobs[i]] = p
    \/ cfd[Main] # None /\ fds[cfd[Main]] = p
    \/ \E w \in Workers : pc[w] = "add" /\ fds[cfd[w]] = p

\* Such a peer has been sent nothing.
Fresh == \A p \in Peers : Unheard(p) => out[p] = <<>>

\* A broadcasting worker has the last message received from its own peer.
BufInv == \A w \in Workers : pc[w] \in {"bcast", "send"} =>
    \E m \in Message : /\ buf[w] = {m} /\ m.from = fds[cfd[w]]
                       /\ m.lo <= m.hi /\ m.hi = taken[m.from]

\* The broadcast of worker w still has to reach peer p, if p is listed.
Pending(w, p) == \/ pc[w] = "bcast"
                 \/ pc[w] = "send" /\ \E f \in rest[w] : fds[f] = p

\* What p was sent is not its own, was received, and comes before what is
\* still to be sent to p.
Earlier(p, x) ==
    /\ x.from # p
    /\ x.lo <= x.hi /\ x.hi <= taken[x.from]
    /\ \A w \in Workers : Pending(w, p) => \A m \in buf[w] : m.from = x.from => x.hi < m.lo
SeenInv == \A p \in Peers : \A i \in DOMAIN out[p] : Earlier(p, out[p][i])

\* The i-th message sent to p is the last one so far of its sender.
LastOf(p, i) == \A k \in DOMAIN out[p] : k > i => out[p][k].from # out[p][i].from
Listed(p) == \E f \in clients : fds[f] = p

\* Message x is followed at once, at p, by the one still to be sent there, if
\* there is one of x's sender, and is otherwise the last one received.
Follows(p, x) ==
    \/ \E w \in Workers : Pending(w, p) /\ \E m \in buf[w] : m.from = x.from /\ m.lo = x.hi + 1
    \/ /\ x.hi = taken[x.from]
       /\ \A w \in Workers : Pending(w, p) => \A m \in buf[w] : m.from # x.from

\* So it is with the last message a listed peer has of any sender.
GapInv == \A p \in Peers : \A i \in DOMAIN out[p] :
    LastOf(p, i) /\ conn[p] = "open" /\ Listed(p) => Follows(p, out[p][i])

\* A step that sends, receives and starts nothing, as far as broadcasts go.
Quiet ==
    /\ out' = out /\ taken' = taken
    /\ \A w \in Workers : pc'[w] = "add" => pc[w] = "add" \/ PopJob(w)
    /\ \A w \in Workers : pc'[w] \in {"bcast", "send"} =>
          pc'[w] = pc[w] /\ buf'[w] = buf[w] /\ rest'[w] = rest[w]
    /\ \A w \in Workers : pc[w] \in {"bcast", "send"} =>
          pc'[w] = pc[w] \/ (pc[w] = "send" /\ rest[w] = {})
    /\ \A f \in clients' : f \in clients \/ \E w \in Workers : pc[w] = "add" /\ cfd[w] = f
    /\ \A p \in Peers : conn'[p] = "open" => conn[p] \in {"idle", "open"}

\* Every step is one of the five that matter to broadcasts, or quiet.
LEMMA TalkFrame ==
    ASSUME IInv, [Next]_vars
    PROVE  \/ \E w \in Workers : \/ SkipSelf(w) \/ RecvData(w) \/ BcastLock(w)
                                 \/ \E f \in Fds : SendTo(w, f) \/ SendLost(w, f)
           \/ Quiet
<1> USE ThreadsAssumption DEF IInv, TypeOK, WorkerPc, MainPc, Step, Runnable,
         sigVars, qVars, cVars, thVars, netVars
<1>1. CASE MainThread
  <2>1. CASE PushLock BY <2>1 DEF PushLock, Quiet
  <2>2. CASE Push
    <3>1. \A w \in Workers : pc'[w] = pc[w] \/ (pc[w] = "wait" /\ pc'[w] = "pop_lock")
      BY <2>2 DEF Push, SignalOne
    <3> QED BY <2>2, <3>1 DEF Push, Quiet
  <2>3. CASE Start BY <2>3 DEF Start, Quiet, Phases
  <2>4. CASE Listen BY <2>4 DEF Listen, Quiet
  <2>5. CASE AcceptTest BY <2>5 DEF AcceptTest, Quiet
  <2>6. ASSUME NEW f \in Fds, Accept(f) PROVE Quiet BY <2>6 DEF Accept, Quiet
  <2>7. CASE AcceptFail BY <2>7 DEF AcceptFail, Quiet
  <2>8. CASE CloseListen BY <2>8 DEF CloseListen, Quiet
  <2>9. CASE CloseQueueLock BY <2>9 DEF CloseQueueLock, Quiet
  <2>10. CASE CloseQueue BY <2>10 DEF CloseQueue, WakeAll, Quiet
  <2>11. CASE Join BY <2>11 DEF Join, Quiet
  <2>12. CASE Finish BY <2>12 DEF Finish, Quiet
  <2> QED BY <1>1, <2>1, <2>2, <2>3, <2>4, <2>5, <2>6, <2>7, <2>8, <2>9, <2>10, <2>11, <2>12 DEF MainThread
<1>2. CASE PushFail BY <1>2 DEF PushFail, Quiet
<1>3. CASE StartFail BY <1>3 DEF StartFail, Quiet
<1>4. ASSUME NEW w \in Workers, Worker(w) \/ AddFail(w) \/ SpuriousWake(w)
      PROVE  \/ SkipSelf(w) \/ RecvData(w) \/ BcastLock(w)
             \/ \E f \in Fds : SendTo(w, f) \/ SendLost(w, f)
             \/ Quiet
  <2>1. CASE PopLock(w) BY <2>1 DEF PopLock, Quiet
  <2>2. CASE PopWait(w) BY <2>2 DEF PopWait, Quiet
  <2>3. CASE PopClosed(w) BY <2>3 DEF PopClosed, Quiet
  <2>4. CASE PopJob(w)
    <3>1. /\ pc[w] = "pop" /\ pc' = [pc EXCEPT ![w] = "add"]
          /\ UNCHANGED <<out, taken, conn, clients, buf, rest>>
      BY <2>4 DEF PopJob
    <3> QED BY <2>4, <3>1 DEF Quiet
  <2>5. CASE LoopTest(w) BY <2>5 DEF LoopTest, Quiet
  <2>6. CASE AddClient(w) BY <2>6 DEF AddClient, Quiet
  <2>7. CASE RunTest(w) BY <2>7 DEF RunTest, Quiet
  <2>9. CASE RecvEnd(w) BY <2>9 DEF RecvEnd, Quiet
  <2>14. ASSUME NEW f \in Fds, SendPipe(w, f) PROVE Quiet BY <2>14 DEF SendPipe, Quiet
  <2>15. CASE BcastDone(w) BY <2>15 DEF BcastDone, Quiet
  <2>16. CASE RemoveClient(w) BY <2>16 DEF RemoveClient, Quiet
  <2>17. CASE CloseFd(w) BY <2>17 DEF CloseFd, Quiet
  <2>18. CASE AddFail(w) BY <2>18 DEF AddFail, Quiet
  <2>19. CASE SpuriousWake(w) BY <2>19 DEF SpuriousWake, Quiet
  <2> QED BY <1>4, <2>1, <2>2, <2>3, <2>4, <2>5, <2>6, <2>7, <2>9, <2>14, <2>15, <2>16, <2>17,
             <2>18, <2>19 DEF Worker
<1>5. ASSUME NEW t \in Threads, Handler(t) PROVE Quiet
  <2>1. CASE HandlerLock(t) BY <2>1 DEF HandlerLock, Quiet
  <2>2. CASE HandlerClose(t) BY <2>2 DEF HandlerClose, WakeAll, Quiet
  <2> QED BY <1>5, <2>1, <2>2 DEF Handler
<1>6. ASSUME NEW t \in Threads, NEW s \in Signals, Deliver(s, t) PROVE Quiet
  <2>1. UNCHANGED <<out, taken, conn, clients, buf, rest>> BY <1>6 DEF Deliver
  <2>2. CASE pc' = pc BY <2>1, <2>2 DEF Quiet
  <2>3. CASE pc[t] = "accept" /\ pc' = [pc EXCEPT ![t] = "check"] BY <2>1, <2>3 DEF Quiet
  <2>4. CASE pc[t] = "recv" /\ pc' = [pc EXCEPT ![t] = "run"] BY <2>1, <2>4 DEF Quiet
  <2> QED BY <1>6, <2>2, <2>3, <2>4 DEF Deliver
<1>7. ASSUME NEW p \in Peers, Peer(p) PROVE Quiet
  BY <1>7 DEF Peer, PeerConnect, PeerSend, PeerClose, PeerRead, Quiet
<1>8. CASE UNCHANGED vars BY <1>8 DEF vars, Quiet
<1> QED BY <1>1, <1>2, <1>3, <1>4, <1>5, <1>6, <1>7, <1>8 DEF Next

\* What a step does to the connections: one is made or accepted, or some end.
LEMMA PeerFrame ==
    ASSUME IInv, OnePlace, [Next]_vars
    PROVE  \/ \E p \in Peers : PeerConnect(p)
           \/ \E f \in Fds : Accept(f)
           \/ /\ backlog' \in {backlog, <<>>}
              /\ \A p \in Peers : conn'[p] = "idle" <=> conn[p] = "idle"
              /\ \A f \in Fds : fds'[f] \in {fds[f], None}
<1> DEFINE Ends == /\ backlog' \in {backlog, <<>>}
                   /\ \A p \in Peers : conn'[p] = "idle" <=> conn[p] = "idle"
                   /\ \A f \in Fds : fds'[f] \in {fds[f], None}
<1> USE ThreadsAssumption DEF IInv, TypeOK, sigVars, qVars, cVars, thVars, netVars
<1>1. CASE MainThread
  <2>1. CASE CloseListen BY <2>1 DEF CloseListen, OnePlace, RangeOf
  <2>2. CASE Finish BY <2>2 DEF Finish
  <2> QED BY <1>1, <2>1, <2>2 DEF MainThread, PushLock, Push, Start, Listen, AcceptTest, AcceptFail,
             CloseQueueLock, CloseQueue, Join
<1>2. ASSUME NEW w \in Workers, Worker(w) \/ AddFail(w) \/ SpuriousWake(w) PROVE Ends
  <2>1. CASE CloseFd(w)
    <3>1. cfd[w] \in Fds /\ fds[cfd[w]] \in Peers
      BY <2>1 DEF CloseFd, Step, HoldsWhileServing, Serving, SoleOwner
    <3> QED BY <2>1, <3>1 DEF CloseFd, OnePlace
  <2>2. ASSUME NEW f \in Fds, SendLost(w, f) PROVE Ends BY <2>2 DEF SendLost
  <2> QED BY <1>2, <2>1, <2>2 DEF Worker, PopLock, PopWait, PopClosed, PopJob, LoopTest, AddClient,
             RunTest, RecvData, RecvEnd, BcastLock, SkipSelf, SendTo, SendPipe, BcastDone,
             RemoveClient, AddFail, SpuriousWake
<1>3. ASSUME NEW t \in Threads, Handler(t) \/ \E s \in Signals : Deliver(s, t) PROVE Ends
  BY <1>3 DEF Handler, HandlerLock, HandlerClose, Deliver
<1>4. ASSUME NEW p \in Peers, Peer(p) PROVE PeerConnect(p) \/ Ends
  BY <1>4 DEF Peer, PeerSend, PeerClose, PeerRead
<1>5. CASE StartFail \/ PushFail BY <1>5 DEF StartFail, PushFail
<1>6. CASE UNCHANGED vars BY <1>6 DEF vars
<1> QED BY <1>1, <1>2, <1>3, <1>4, <1>5, <1>6 DEF Next

\* Every step leaves a peer in one place.
LEMMA OneStep == ASSUME IInv, OnePlace, [Next]_vars PROVE OnePlace'
<1> USE ThreadsAssumption
<1>t. /\ backlog \in Seq(Peers) /\ fds \in [Fds -> Peers \cup {None}]
      /\ conn \in [Peers -> {"idle", "open", "closed", "broken", "done"}]
  BY DEF IInv, TypeOK
<1>1. ASSUME NEW p \in Peers, PeerConnect(p) PROVE OnePlace'
  <2>1. /\ conn[p] = "idle" /\ conn' = [conn EXCEPT ![p] = "open"]
        /\ backlog' = Append(backlog, p) /\ fds' = fds
    BY <1>1 DEF PeerConnect
  <2>2. \A i \in DOMAIN backlog' : IF i = Len(backlog) + 1 THEN backlog'[i] = p
                                   ELSE i \in DOMAIN backlog /\ backlog'[i] = backlog[i]
    BY <1>t, <2>1
  <2>3. \A i \in DOMAIN backlog : backlog[i] # p BY <1>t, <2>1 DEF OnePlace
  <2> QED BY <1>t, <2>1, <2>2, <2>3 DEF OnePlace
<1>2. ASSUME NEW f \in Fds, Accept(f) PROVE OnePlace'
  <2>1. /\ backlog # <<>> /\ backlog' = Tail(backlog) /\ conn' = conn
        /\ fds' = [fds EXCEPT ![f] = Head(backlog)]
    BY <1>2 DEF Accept
  <2>2. \A i \in DOMAIN backlog' : i + 1 \in DOMAIN backlog /\ backlog'[i] = backlog[i+1] /\ i + 1 # 1
    BY <1>t, <2>1
  <2>3. 1 \in DOMAIN backlog /\ Head(backlog) = backlog[1] BY <1>t, <2>1
  <2> QED BY <1>t, <2>1, <2>2, <2>3 DEF OnePlace
<1>3. ASSUME backlog' \in {backlog, <<>>}, \A p \in Peers : conn'[p] = "idle" <=> conn[p] = "idle",
             \A f \in Fds : fds'[f] \in {fds[f], None}
      PROVE  OnePlace'
  <2>1. \A i \in DOMAIN backlog' : i \in DOMAIN backlog /\ backlog'[i] = backlog[i] BY <1>3, <1>t
  <2> QED BY <1>3, <1>t, <2>1 DEF OnePlace
<1> QED BY <1>1, <1>2, <1>3, PeerFrame

\* The descriptor a worker serves stays its own and stays the same connection,
\* up to its close().
LEMMA ServedKept ==
    ASSUME IInv, [Next]_vars, NEW w \in Workers, pc[w] \in Serving \ {"close"}
    PROVE  cfd[w] \in Fds /\ cfd'[w] = cfd[w] /\ fds[cfd[w]] \in Peers /\ fds'[cfd[w]] = fds[cfd[w]]
<1> USE ThreadsAssumption
<1>t. /\ cfd \in [Threads -> Fds \cup {None}] /\ fds \in [Fds -> Peers \cup {None}]
      /\ jobs \in Seq(Fds)
  BY DEF IInv, TypeOK
<1>0. cfd[w] \in Fds /\ fds[cfd[w]] \in Peers
  BY <1>t DEF IInv, HoldsWhileServing, SoleOwner
<1>1. CASE Push \/ PushFail BY <1>0, <1>1, <1>t DEF Push, PushFail
<1>2. CASE Start BY <1>0, <1>2 DEF Start
<1>3. CASE Finish
  <2>1. clients = {} BY <1>3 DEF Finish, IInv, Phases, ListedIsServed, Serving
  <2> QED BY <1>0, <1>3, <1>t, <2>1 DEF Finish, thVars
<1>4. ASSUME NEW f \in Fds, Accept(f) PROVE cfd'[w] = cfd[w] /\ fds'[cfd[w]] = fds[cfd[w]]
  BY <1>0, <1>4, <1>t DEF Accept
<1>5. ASSUME NEW v \in Workers, PopJob(v) PROVE cfd'[w] = cfd[w] /\ fds'[cfd[w]] = fds[cfd[w]]
  BY <1>0, <1>5, <1>t DEF PopJob, Step, Serving
<1>6. ASSUME NEW v \in Workers, CloseFd(v) PROVE cfd'[w] = cfd[w] /\ fds'[cfd[w]] = fds[cfd[w]]
  BY <1>0, <1>6, <1>t DEF CloseFd, Step, IInv, SoleOwner
<1>7. CASE UNCHANGED <<jobs, cfd, fds>> BY <1>0, <1>7
<1> QED BY <1>0, <1>1, <1>2, <1>3, <1>4, <1>5, <1>6, <1>7, FdFrame

\* So does every listed descriptor.
LEMMA ListedSame ==
    ASSUME IInv, [Next]_vars
    PROVE  \A f \in clients : fds'[f] = fds[f] /\ fds[f] \in Peers
<1> SUFFICES ASSUME NEW f \in clients PROVE fds'[f] = fds[f] /\ fds[f] \in Peers
  OBVIOUS
<1>1. PICK w \in Workers : cfd[w] = f /\ pc[w] \in Serving \ {"add", "close"}
  BY DEF IInv, ListedIsServed
<1> QED BY <1>1, ServedKept

\* Nobody becomes unheard again.
LEMMA UnheardStep ==
    ASSUME IInv, OnePlace, [Next]_vars, NEW p \in Peers, Unheard(p)'
    PROVE  Unheard(p)
<1> USE ThreadsAssumption
<1>t. /\ cfd \in [Threads -> Fds \cup {None}] /\ fds \in [Fds -> Peers \cup {None}]
      /\ jobs \in Seq(Fds) /\ backlog \in Seq(Peers)
      /\ conn \in [Peers -> {"idle", "open", "closed", "broken", "done"}]
  BY DEF IInv, TypeOK
<1>1. CASE conn'[p] = "idle"
  <2>1. conn[p] = "idle"
    BY <1>1, <1>t, PeerFrame DEF PeerConnect, Accept
  <2> QED BY <2>1 DEF Unheard
<1>2. ASSUME NEW i \in DOMAIN backlog', backlog'[i] = p PROVE Unheard(p)
  <2>1. ASSUME NEW q \in Peers, PeerConnect(q) PROVE Unheard(p)
    <3>1. conn[q] = "idle" /\ backlog' = Append(backlog, q) BY <2>1 DEF PeerConnect
    <3>2. CASE i = Len(backlog) + 1 BY <1>2, <1>t, <3>1, <3>2 DEF Unheard
    <3>3. CASE i # Len(backlog) + 1
      <4>1. i \in DOMAIN backlog /\ backlog[i] = p BY <1>2, <1>t, <3>1, <3>3
      <4> QED BY <4>1 DEF Unheard
    <3> QED BY <3>2, <3>3
  <2>2. ASSUME NEW f \in Fds, Accept(f) PROVE Unheard(p)
    <3>1. backlog # <<>> /\ backlog' = Tail(backlog) BY <2>2 DEF Accept
    <3>2. i + 1 \in DOMAIN backlog /\ backlog[i + 1] = p BY <1>2, <1>t, <3>1
    <3> QED BY <3>2 DEF Unheard
  <2>3. CASE backlog' = backlog BY <1>2, <2>3 DEF Unheard
  <2>4. CASE backlog' = <<>> BY <1>2, <2>4
  <2> QED BY <2>1, <2>2, <2>3, <2>4, PeerFrame
<1>3. ASSUME NEW i \in DOMAIN jobs', fds'[jobs'[i]] = p PROVE Unheard(p)
  <2>1. CASE Push
    <3>1. /\ jobs' = Append(jobs, cfd[Main]) /\ fds' = fds /\ cfd[Main] \in Fds
      BY <2>1, <1>t DEF Push, IInv, HoldsWhileServing
    <3>2. CASE i = Len(jobs) + 1
      <4>1. fds[cfd[Main]] = p BY <1>3, <1>t, <3>1, <3>2
      <4> QED BY <3>1, <4>1 DEF Unheard
    <3>3. CASE i # Len(jobs) + 1
      <4>1. i \in DOMAIN jobs /\ fds[jobs[i]] = p BY <1>3, <1>t, <3>1, <3>3
      <4> QED BY <4>1 DEF Unheard
    <3> QED BY <3>2, <3>3
  <2>2. CASE PushFail BY <1>3, <2>2 DEF PushFail, qVars, Unheard
  <2>3. CASE Start BY <1>3, <2>3 DEF Start
  <2>4. CASE Finish
    <3>1. jobs' = jobs /\ fds'[jobs[i]] = fds[jobs[i]]
      BY <1>3, <1>t, <2>4 DEF Finish, qVars
    <3> QED BY <1>3, <3>1 DEF Unheard
  <2>5. ASSUME NEW f \in Fds, Accept(f) PROVE Unheard(p)
    <3>1. jobs' = jobs /\ fds[f] = None /\ fds' = [fds EXCEPT ![f] = Head(backlog)]
      BY <2>5 DEF Accept, qVars
    <3>2. i \in DOMAIN jobs /\ jobs[i] \in Fds /\ fds[jobs[i]] # None
      BY <1>3, <1>t, <3>1 DEF IInv, SoleOwner
    <3>3. fds[jobs[i]] = p BY <1>3, <1>t, <3>1, <3>2
    <3> QED BY <3>2, <3>3 DEF Unheard
  <2>6. ASSUME NEW w \in Workers, PopJob(w) PROVE Unheard(p)
    <3>1. jobs # <<>> /\ jobs' = Tail(jobs) /\ fds' = fds BY <2>6 DEF PopJob
    <3>2. i + 1 \in DOMAIN jobs /\ fds[jobs[i + 1]] = p BY <1>3, <1>t, <3>1
    <3> QED BY <3>2 DEF Unheard
  <2>7. ASSUME NEW w \in Workers, CloseFd(w) PROVE Unheard(p)
    <3>1. jobs' = jobs /\ fds' = [fds EXCEPT ![cfd[w]] = None] BY <2>7 DEF CloseFd, qVars
    <3>2. i \in DOMAIN jobs /\ jobs[i] \in Fds BY <1>3, <1>t, <3>1
    <3>3. fds[jobs[i]] = p BY <1>3, <1>t, <3>1, <3>2
    <3> QED BY <3>2, <3>3 DEF Unheard
  <2>8. CASE UNCHANGED <<jobs, cfd, fds>> BY <1>3, <2>8 DEF Unheard
  <2> QED BY <2>1, <2>2, <2>3, <2>4, <2>5, <2>6, <2>7, <2>8, FdFrame
<1>4. ASSUME cfd'[Main] # None, fds'[cfd'[Main]] = p PROVE Unheard(p)
  <2>1. ASSUME NEW f \in Fds, Accept(f) PROVE Unheard(p)
    <3>1. /\ backlog # <<>> /\ cfd' = [cfd EXCEPT ![Main] = f]
          /\ fds' = [fds EXCEPT ![f] = Head(backlog)]
      BY <2>1 DEF Accept
    <3>2. 1 \in DOMAIN backlog /\ backlog[1] = p BY <1>4, <1>t, <3>1
    <3> QED BY <3>2 DEF Unheard
  <2>2. CASE Push \/ PushFail BY <1>4, <1>t, <2>2 DEF Push, PushFail
  <2>3. CASE Start BY <1>4, <2>3 DEF Start, Unheard
  <2>4. CASE Finish
    <3>1. cfd' = cfd /\ fds'[cfd[Main]] = fds[cfd[Main]]
      BY <1>4, <1>t, <2>4 DEF Finish, thVars
    <3> QED BY <1>4, <3>1 DEF Unheard
  <2>5. ASSUME NEW w \in Workers, PopJob(w) PROVE Unheard(p)
    <3>1. fds' = fds /\ cfd'[Main] = cfd[Main] BY <1>t, <2>5 DEF PopJob
    <3> QED BY <1>4, <3>1 DEF Unheard
  <2>6. ASSUME NEW w \in Workers, CloseFd(w) PROVE Unheard(p)
    <3>1. /\ fds' = [fds EXCEPT ![cfd[w]] = None] /\ cfd'[Main] = cfd[Main]
      BY <1>t, <2>6 DEF CloseFd
    <3>2. fds[cfd[Main]] = p BY <1>4, <1>t, <3>1
    <3> QED BY <1>4, <3>1, <3>2 DEF Unheard
  <2>7. CASE UNCHANGED <<jobs, cfd, fds>> BY <1>4, <2>7 DEF Unheard
  <2> QED BY <2>1, <2>2, <2>3, <2>4, <2>5, <2>6, <2>7, FdFrame
<1>5. ASSUME NEW w \in Workers, pc'[w] = "add", fds'[cfd'[w]] = p PROVE Unheard(p)
  <2>1. CASE PopJob(w)
    <3>1. jobs # <<>> /\ cfd' = [cfd EXCEPT ![w] = Head(jobs)] /\ fds' = fds BY <2>1 DEF PopJob
    <3>2. 1 \in DOMAIN jobs /\ fds[jobs[1]] = p BY <1>5, <1>t, <3>1
    <3> QED BY <3>2 DEF Unheard
  <2>2. CASE pc[w] = "add"
    <3>1. fds[cfd[w]] = p BY <1>5, <2>2, ServedKept DEF Serving
    <3> QED BY <2>2, <3>1 DEF Unheard
  <2>3. pc[w] = "add" \/ PopJob(w)
    <3>0. pc \in [Threads -> WorkerPc \cup MainPc] BY DEF IInv, TypeOK
    <3>1. CASE Quiet BY <1>5, <3>1 DEF Quiet
    <3>2. ASSUME NEW v \in Workers, SkipSelf(v) \/ RecvData(v) \/ BcastLock(v) PROVE pc[w] = "add"
      BY <1>5, <3>0, <3>2 DEF SkipSelf, RecvData, BcastLock, Step
    <3>3. ASSUME NEW v \in Workers, NEW f \in Fds, SendTo(v, f) \/ SendLost(v, f) PROVE pc[w] = "add"
      BY <1>5, <3>3 DEF SendTo, SendLost
    <3> QED BY <3>1, <3>2, <3>3, TalkFrame
  <2> QED BY <2>1, <2>2, <2>3
<1>6. Unheard(p)' <=>
        \/ conn'[p] = "idle"
        \/ \E i \in DOMAIN backlog' : backlog'[i] = p
        \/ \E i \in DOMAIN jobs' : fds'[jobs'[i]] = p
        \/ cfd'[Main] # None /\ fds'[cfd'[Main]] = p
        \/ \E w \in Workers : pc'[w] = "add" /\ fds'[cfd'[w]] = p
  BY DEF Unheard
<1> QED BY <1>1, <1>2, <1>3, <1>4, <1>5, <1>6

\* A listed peer has been heard of.
LEMMA ListedHeard ==
    ASSUME IInv, OnePlace, NEW f \in clients PROVE ~Unheard(fds[f])
<1>1. PICK w \in Workers : cfd[w] = f /\ pc[w] \in Serving \ {"add", "close"}
  BY DEF IInv, ListedIsServed
<1>2. f \in Fds /\ fds[f] # None /\ \A t \in Threads : t # w => cfd[t] # f
  BY <1>1, ThreadsAssumption DEF IInv, TypeOK, SoleOwner
<1>3. \A g \in Fds : fds[g] = fds[f] => g = f BY <1>2 DEF OnePlace
<1>4. /\ conn[fds[f]] # "idle" /\ \A i \in DOMAIN backlog : backlog[i] # fds[f]
  BY <1>2 DEF OnePlace
<1>5. \A i \in DOMAIN jobs : fds[jobs[i]] # fds[f]
  <2>1. f \notin RangeOf(jobs) BY <1>1, <1>2, ThreadsAssumption DEF IInv, SoleOwner
  <2>2. \A i \in DOMAIN jobs : jobs[i] \in Fds BY DEF IInv, TypeOK
  <2> QED BY <1>3, <2>1, <2>2 DEF RangeOf
<1>6. cfd[Main] # None => fds[cfd[Main]] # fds[f]
  BY <1>2, <1>3, ThreadsAssumption DEF IInv, TypeOK
<1>7. \A v \in Workers : pc[v] = "add" => fds[cfd[v]] # fds[f]
  BY <1>1, <1>2, <1>3 DEF IInv, TypeOK, HoldsWhileServing, Serving
<1> QED BY <1>4, <1>5, <1>6, <1>7 DEF Unheard

\* One step of the walk of broadcast_message: h is taken off the list to visit.
Visit(v, h) ==
    /\ pc[v] = "send" /\ h \in rest[v]
    /\ rest' = [rest EXCEPT ![v] = @ \ {h}]
    /\ UNCHANGED <<pc, buf, fds, clients, taken, cfd>>

\* The steps of a walk are visits.
LEMMA WalkVisits ==
    ASSUME NEW v \in Workers
    PROVE  /\ SkipSelf(v) => Visit(v, cfd[v]) /\ out' = out /\ conn' = conn
           /\ \A f \in Fds : SendTo(v, f) => Visit(v, f) /\ conn' = conn
           /\ \A f \in Fds : SendLost(v, f) =>
                 Visit(v, f) /\ out' = out /\ conn' = [conn EXCEPT ![fds[f]] = "broken"]
  BY DEF SkipSelf, SendTo, SendLost, Visit, cVars, netVars

\* The walk stays on the list, and only descriptors on the list are visited.
LEMMA VisitListed ==
    ASSUME IInv, NEW v \in Workers, NEW h, h \in rest[v], pc[v] = "send"
    PROVE  h \in clients /\ h \in Fds /\ fds[h] \in Peers
<1>1. h \in clients /\ h \in Fds BY DEF IInv, ListedIsServed, TypeOK
<1>2. PICK w \in Workers : cfd[w] = h BY <1>1 DEF IInv, ListedIsServed
<1>3. fds[h] # None BY <1>1, <1>2, ThreadsAssumption DEF IInv, SoleOwner
<1> QED BY <1>1, <1>3 DEF IInv, TypeOK

\* A visit settles one pair of worker and peer and leaves the others.
LEMMA VisitPending ==
    ASSUME IInv, OnePlace, NEW v \in Workers, NEW h, Visit(v, h), NEW w \in Workers, NEW p \in Peers
    PROVE  /\ buf' = buf
           /\ Pending(w, p)' <=> Pending(w, p) /\ ~(w = v /\ p = fds[h])
<1> USE DEF Visit
<1>1. \A g \in rest[v] : fds[g] = fds[h] => g = h
  BY VisitListed, ThreadsAssumption DEF OnePlace
<1>2. rest \in [Workers -> SUBSET Fds] BY DEF IInv, TypeOK
<1>3. Pending(w, p)' <=> (pc[w] = "bcast" \/ (pc[w] = "send" /\ \E f \in rest'[w] : fds[f] = p))
  BY DEF Pending
<1>4. CASE w = v BY <1>1, <1>2, <1>3, <1>4 DEF Pending
<1>5. CASE w # v BY <1>2, <1>3, <1>5 DEF Pending
<1> QED BY <1>4, <1>5

\* A step that touches no walk leaves what is pending.
LEMMA QuietPending ==
    ASSUME IInv, [Next]_vars, Quiet, NEW w \in Workers, NEW p \in Peers
    PROVE  /\ Pending(w, p)' <=> Pending(w, p)
           /\ Pending(w, p) => buf'[w] = buf[w]
<1>1. Pending(w, p)' <=> (pc'[w] = "bcast" \/ (pc'[w] = "send" /\ \E f \in rest'[w] : fds'[f] = p))
  BY DEF Pending
<1>2. pc[w] = "send" => \A f \in rest[w] : fds'[f] = fds[f]
  BY VisitListed, ListedSame
<1> QED BY <1>1, <1>2 DEF Quiet, Pending

\* The beginning of a walk leaves what listed peers have pending.
LEMMA LockPending ==
    ASSUME IInv, NEW v \in Workers, BcastLock(v), NEW w \in Workers, NEW p \in Peers
    PROVE  /\ buf' = buf
           /\ Pending(w, p)' => Pending(w, p)
           /\ Listed(p) => (Pending(w, p)' <=> Pending(w, p))
<1>1. /\ pc \in [Threads -> WorkerPc \cup MainPc] /\ rest \in [Workers -> SUBSET Fds]
      /\ clients \subseteq Fds
  BY DEF IInv, TypeOK
<1>2. /\ pc[v] = "bcast" /\ pc' = [pc EXCEPT ![v] = "send"] /\ rest' = [rest EXCEPT ![v] = clients]
      /\ UNCHANGED <<buf, fds>>
  BY DEF BcastLock, Step
<1>3. Pending(w, p)' <=> (pc'[w] = "bcast" \/ (pc'[w] = "send" /\ \E f \in rest'[w] : fds[f] = p))
  BY <1>2 DEF Pending
<1>4. CASE w = v BY <1>1, <1>2, <1>3, <1>4 DEF Pending, Listed
<1>5. CASE w # v BY <1>1, <1>2, <1>3, <1>5 DEF Pending
<1> QED BY <1>2, <1>4, <1>5

\* Two workers serve two peers.
LEMMA OtherPeer ==
    ASSUME IInv, OnePlace, NEW v \in Workers, NEW w \in Workers, v # w,
           pc[v] \in Serving, pc[w] \in Serving
    PROVE  fds[cfd[v]] # fds[cfd[w]]
<1>1. cfd[v] \in Fds /\ cfd[w] \in Fds /\ cfd[v] # cfd[w] /\ fds[cfd[v]] # None
  BY ThreadsAssumption DEF IInv, TypeOK, HoldsWhileServing, SoleOwner
<1> QED BY <1>1 DEF OnePlace

\* What recv does: worker v has the next part hi of its peer q's stream.
LEMMA Received ==
    ASSUME IInv, NEW v \in Workers, RecvData(v), NEW q, q = fds[cfd[v]]
    PROVE  /\ pc[v] = "recv" /\ pc' = [pc EXCEPT ![v] = "bcast"] /\ q \in Peers /\ taken[q] \in Nat
           /\ \E m \in Message :
                 /\ m.from = q /\ m.lo = taken[q] + 1 /\ m.lo <= m.hi
                 /\ buf' = [buf EXCEPT ![v] = {m}] /\ taken' = [taken EXCEPT ![q] = m.hi]
           /\ UNCHANGED <<out, conn, clients, fds, rest, cfd>>
<1>1. cfd[v] \in Fds /\ q \in Peers /\ pc[v] = "recv"
  BY ThreadsAssumption DEF RecvData, Step, IInv, TypeOK, HoldsWhileServing, Serving, SoleOwner
<1>2. PICK hi \in taken[q] + 1 .. sent[q] :
         /\ buf' = [buf EXCEPT ![v] = {[from |-> q, lo |-> taken[q] + 1, hi |-> hi]}]
         /\ taken' = [taken EXCEPT ![q] = hi]
  BY DEF RecvData
<1>3. taken[q] \in 0..MaxSend /\ sent[q] \in 0..MaxSend BY <1>1 DEF IInv, TypeOK
<1>4. hi \in 1..MaxSend /\ taken[q] + 1 \in 1..MaxSend /\ taken[q] + 1 <= hi /\ taken[q] \in Nat
  BY ONLY <1>2, <1>3, Span, BoundsAssumption
<1>5. PICK m : m = [from |-> q, lo |-> taken[q] + 1, hi |-> hi] OBVIOUS
<1>6. m \in Message /\ m.from = q /\ m.lo = taken[q] + 1 /\ m.hi = hi
  BY <1>1, <1>4, <1>5 DEF Message
<1>7. pc' = [pc EXCEPT ![v] = "bcast"] /\ UNCHANGED <<out, conn, clients, fds, rest, cfd>>
  BY DEF RecvData, Step, cVars
<1> QED BY <1>1, <1>2, <1>4, <1>5, <1>6, <1>7

\* What a send does.
LEMMA Sent ==
    ASSUME IInv, OnePlace, BufInv, NEW v \in Workers, NEW f \in Fds, SendTo(v, f)
    PROVE  \E m \in Message :
              /\ buf[v] = {m} /\ m.from = fds[cfd[v]] /\ m.from # fds[f]
              /\ m.lo <= m.hi /\ m.hi = taken[m.from]
              /\ f \in clients /\ fds[f] \in Peers /\ conn[fds[f]] = "open" /\ Pending(v, fds[f])
              /\ out' = [out EXCEPT ![fds[f]] = Append(@, m)]
<1>1. pc[v] = "send" /\ f \in rest[v] /\ f # cfd[v] /\ conn[fds[f]] = "open"
  BY DEF SendTo
<1>2. PICK m \in Message : /\ buf[v] = {m} /\ m.from = fds[cfd[v]]
                           /\ m.lo <= m.hi /\ m.hi = taken[m.from]
  BY <1>1 DEF BufInv
<1>3. out' = [out EXCEPT ![fds[f]] = Append(@, m)] BY <1>2 DEF SendTo
<1>4. f \in clients /\ fds[f] \in Peers BY <1>1, VisitListed
<1>5. cfd[v] \in Fds /\ fds[cfd[v]] # None
  BY <1>1, ThreadsAssumption DEF IInv, TypeOK, HoldsWhileServing, Serving, SoleOwner
<1>6. m.from # fds[f] BY <1>1, <1>2, <1>5 DEF OnePlace
<1>7. Pending(v, fds[f]) BY <1>1 DEF Pending
<1> QED BY <1>1, <1>2, <1>3, <1>4, <1>6, <1>7

\* Every step keeps that a peer not yet listed has been sent nothing.
LEMMA FreshStep == ASSUME IInv, OnePlace, BufInv, Fresh, [Next]_vars PROVE Fresh'
<1> SUFFICES ASSUME NEW p \in Peers, Unheard(p)' PROVE out'[p] = <<>>
  BY DEF Fresh
<1>1. Unheard(p) /\ out[p] = <<>> BY UnheardStep DEF Fresh
<1>2. ASSUME NEW v \in Workers, NEW f \in Fds, SendTo(v, f) PROVE out'[p] = out[p]
  <2>1. f \in clients /\ \E m \in Message : out' = [out EXCEPT ![fds[f]] = Append(@, m)]
    BY <1>2, Sent
  <2>2. p # fds[f] BY <1>1, <2>1, ListedHeard
  <2> QED BY <2>1, <2>2 DEF IInv, TypeOK
<1>3. ASSUME NEW v \in Workers, SkipSelf(v) \/ RecvData(v) \/ BcastLock(v) PROVE out' = out
  BY <1>3 DEF SkipSelf, RecvData, BcastLock, netVars
<1>4. ASSUME NEW v \in Workers, NEW f \in Fds, SendLost(v, f) PROVE out' = out
  BY <1>4 DEF SendLost
<1>5. CASE Quiet BY <1>1, <1>5 DEF Quiet
<1> QED BY <1>1, <1>2, <1>3, <1>4, <1>5, TalkFrame

\* Every step keeps a buffer the piece last received from its client.
LEMMA BufStep == ASSUME IInv, OnePlace, BufInv, [Next]_vars PROVE BufInv'
<1> SUFFICES ASSUME NEW w \in Workers, pc'[w] \in {"bcast", "send"}
             PROVE  \E m \in Message : /\ buf'[w] = {m} /\ m.from = fds'[cfd'[w]]
                                       /\ m.lo <= m.hi /\ m.hi = taken'[m.from]
  BY DEF BufInv
<1>0. /\ pc \in [Threads -> WorkerPc \cup MainPc] /\ buf \in [Workers -> SUBSET Message]
      /\ taken \in [Peers -> 0..MaxSend] /\ w \in Threads
  BY DEF IInv, TypeOK
<1>k. ASSUME pc[w] \in {"bcast", "send"}, buf'[w] = buf[w],
             \A p \in Peers : p = fds[cfd[w]] => taken'[p] = taken[p]
      PROVE  \E m \in Message : /\ buf'[w] = {m} /\ m.from = fds'[cfd'[w]]
                                /\ m.lo <= m.hi /\ m.hi = taken'[m.from]
  <2>1. PICK m \in Message : /\ buf[w] = {m} /\ m.from = fds[cfd[w]]
                             /\ m.lo <= m.hi /\ m.hi = taken[m.from]
    BY <1>k DEF BufInv
  <2>2. fds'[cfd'[w]] = fds[cfd[w]] /\ fds[cfd[w]] \in Peers
    BY <1>k, ServedKept DEF Serving
  <2> QED BY <1>k, <2>1, <2>2
<1>1. ASSUME NEW v \in Workers, RecvData(v)
      PROVE  \E m \in Message : /\ buf'[w] = {m} /\ m.from = fds'[cfd'[w]]
                                /\ m.lo <= m.hi /\ m.hi = taken'[m.from]
  <2>q. PICK q : q = fds[cfd[v]] OBVIOUS
  <2>1. pc[v] = "recv" /\ pc' = [pc EXCEPT ![v] = "bcast"] /\ q \in Peers /\ UNCHANGED <<fds, cfd>>
    BY <1>1, <2>q, Received
  <2>2. PICK m \in Message : /\ m.from = q /\ m.lo <= m.hi
                             /\ buf' = [buf EXCEPT ![v] = {m}] /\ taken' = [taken EXCEPT ![q] = m.hi]
    BY <1>1, <2>q, Received
  <2>3. CASE w = v BY <1>0, <2>q, <2>1, <2>2, <2>3
  <2>4. CASE w # v
    <3>1. pc[w] \in {"bcast", "send"} /\ buf'[w] = buf[w] BY <1>0, <2>1, <2>2, <2>4
    <3>2. fds[cfd[w]] # q BY <2>q, <2>1, <2>4, <3>1, OtherPeer DEF Serving
    <3>3. \A p \in Peers : p = fds[cfd[w]] => taken'[p] = taken[p] BY <1>0, <2>2, <3>2
    <3> QED BY <1>k, <3>1, <3>3
  <2> QED BY <2>3, <2>4
<1>2. ASSUME NEW v \in Workers, NEW h, Visit(v, h)
      PROVE  \E m \in Message : /\ buf'[w] = {m} /\ m.from = fds'[cfd'[w]]
                                /\ m.lo <= m.hi /\ m.hi = taken'[m.from]
  BY <1>k, <1>2 DEF Visit
<1>3. ASSUME NEW v \in Workers, BcastLock(v)
      PROVE  \E m \in Message : /\ buf'[w] = {m} /\ m.from = fds'[cfd'[w]]
                                /\ m.lo <= m.hi /\ m.hi = taken'[m.from]
  <2>1. buf' = buf /\ taken' = taken /\ pc[v] = "bcast" /\ pc' = [pc EXCEPT ![v] = "send"]
    BY <1>3 DEF BcastLock, Step, netVars
  <2> QED BY <1>0, <1>k, <2>1
<1>4. CASE Quiet BY <1>k, <1>4 DEF Quiet
<1> QED BY <1>1, <1>2, <1>3, <1>4, WalkVisits, TalkFrame

\* Every step keeps that receivers have seen only what was received before.
LEMMA SeenStep == ASSUME IInv, OnePlace, BufInv, SeenInv, [Next]_vars PROVE SeenInv'
<1> SUFFICES ASSUME NEW p \in Peers, NEW i \in DOMAIN out'[p] PROVE Earlier(p, out[p][i])'
  BY DEF SeenInv
<1>0. /\ out \in [Peers -> Seq(Message)] /\ taken \in [Peers -> 0..MaxSend]
      /\ pc \in [Threads -> WorkerPc \cup MainPc] /\ buf \in [Workers -> SUBSET Message]
  BY DEF IInv, TypeOK
<1>x. PICK x : x = out'[p][i] OBVIOUS
<1>e. Earlier(p, out[p][i])' <=>
        /\ x.from # p
        /\ x.lo <= x.hi /\ x.hi <= taken'[x.from]
        /\ \A w \in Workers : Pending(w, p)' => \A m \in buf'[w] : m.from = x.from => x.hi < m.lo
  BY <1>x DEF Earlier
<1>k. ASSUME i \in DOMAIN out[p], x = out[p][i], taken' = taken,
             \A w \in Workers : Pending(w, p)' => Pending(w, p) /\ buf'[w] = buf[w]
      PROVE  Earlier(p, out[p][i])'
  <2>1. Earlier(p, x) BY <1>k DEF SeenInv
  <2> QED BY <1>e, <1>k, <2>1 DEF Earlier
<1>1. ASSUME NEW v \in Workers, RecvData(v) PROVE Earlier(p, out[p][i])'
  <2>q. PICK q : q = fds[cfd[v]] OBVIOUS
  <2>1. /\ pc[v] = "recv" /\ pc' = [pc EXCEPT ![v] = "bcast"] /\ q \in Peers /\ taken[q] \in Nat
        /\ UNCHANGED <<out, rest, fds>>
    BY <1>1, <2>q, Received
  <2>2. PICK m \in Message : /\ m.from = q /\ m.lo = taken[q] + 1 /\ m.lo <= m.hi
                             /\ buf' = [buf EXCEPT ![v] = {m}] /\ taken' = [taken EXCEPT ![q] = m.hi]
    BY <1>1, <2>q, Received
  <2>3. Earlier(p, x) /\ x \in Message BY <1>0, <1>x, <2>1 DEF SeenInv
  <2>4. x.hi \in Nat /\ x.from \in Peers /\ taken[x.from] \in Nat /\ m.hi \in Nat /\ m.lo \in Nat
    BY <1>0, <2>3, <2>2 DEF Message
  <2>5. x.hi <= taken'[x.from]
    <3>1. CASE x.from = q BY <1>0, <2>1, <2>2, <2>3, <2>4, <3>1 DEF Earlier
    <3>2. CASE x.from # q BY <1>0, <2>2, <2>3, <2>4, <3>2 DEF Earlier
    <3> QED BY <3>1, <3>2
  <2>6. ASSUME NEW w \in Workers, Pending(w, p)', NEW k \in buf'[w], k.from = x.from
        PROVE  x.hi < k.lo
    <3>1. CASE w = v
      <4>1. k = m BY <1>0, <2>2, <2>6, <3>1
      <4>2. x.hi <= taken[q] BY <2>2, <2>3, <2>6, <4>1 DEF Earlier
      <4> QED BY <2>1, <2>2, <2>4, <4>1, <4>2
    <3>2. CASE w # v
      <4>1. Pending(w, p) /\ buf'[w] = buf[w] BY <1>0, <2>1, <2>2, <2>6, <3>2 DEF Pending
      <4> QED BY <2>3, <2>6, <4>1 DEF Earlier
    <3> QED BY <3>1, <3>2
  <2> QED BY <1>e, <2>3, <2>5, <2>6 DEF Earlier
<1>2. ASSUME NEW v \in Workers, NEW h, Visit(v, h), out' = out PROVE Earlier(p, out[p][i])'
  <2>1. \A w \in Workers : Pending(w, p)' => Pending(w, p) /\ buf'[w] = buf[w]
    BY <1>2, VisitPending
  <2> QED BY <1>k, <1>2, <1>x, <2>1 DEF Visit
<1>3. ASSUME NEW v \in Workers, NEW f \in Fds, SendTo(v, f) PROVE Earlier(p, out[p][i])'
  <2>1. Visit(v, f) BY <1>3, WalkVisits
  <2>2. \A w \in Workers : /\ Pending(w, p)' => Pending(w, p) /\ buf'[w] = buf[w]
                           /\ Pending(w, p)' => ~(w = v /\ p = fds[f])
    BY <2>1, VisitPending
  <2>3. PICK m \in Message :
              /\ buf[v] = {m} /\ m.from = fds[cfd[v]] /\ m.from # fds[f]
              /\ m.lo <= m.hi /\ m.hi = taken[m.from] /\ fds[f] \in Peers
              /\ out' = [out EXCEPT ![fds[f]] = Append(@, m)]
    BY <1>3, Sent
  <2>4. taken' = taken BY <2>1 DEF Visit
  <2>5. CASE p = fds[f] /\ i = Len(out[p]) + 1
    <3>1. x = m BY <1>0, <1>x, <2>3, <2>5
    <3>2. m.hi <= taken'[m.from] BY <2>3, <2>4 DEF Message
    <3>3. ASSUME NEW w \in Workers, Pending(w, p)', NEW k \in buf'[w] PROVE k.from # m.from
      <4>1. w # v /\ Pending(w, p) /\ k \in buf[w] BY <2>2, <2>5, <3>3
      <4>2. pc[w] \in {"bcast", "send"} /\ pc[v] = "send" BY <2>1, <4>1 DEF Pending, Visit
      <4>3. k.from = fds[cfd[w]] BY <4>1, <4>2 DEF BufInv
      <4> QED BY <2>3, <4>1, <4>2, <4>3, OtherPeer DEF Serving
    <3> QED BY <1>e, <2>3, <2>5, <3>1, <3>2, <3>3
  <2>6. CASE ~(p = fds[f] /\ i = Len(out[p]) + 1)
    <3>1. i \in DOMAIN out[p] /\ x = out[p][i] BY <1>0, <1>x, <2>3, <2>6
    <3> QED BY <1>k, <2>2, <2>4, <3>1
  <2> QED BY <2>5, <2>6
<1>4. ASSUME NEW v \in Workers, BcastLock(v) PROVE Earlier(p, out[p][i])'
  <2>1. \A w \in Workers : Pending(w, p)' => Pending(w, p) /\ buf'[w] = buf[w]
    BY <1>4, LockPending
  <2>2. out' = out /\ taken' = taken BY <1>4 DEF BcastLock, netVars
  <2> QED BY <1>k, <1>x, <2>1, <2>2
<1>5. CASE Quiet
  <2>1. \A w \in Workers : Pending(w, p)' => Pending(w, p) /\ buf'[w] = buf[w]
    BY <1>5, QuietPending
  <2>2. out' = out /\ taken' = taken BY <1>5 DEF Quiet
  <2> QED BY <1>k, <1>x, <2>1, <2>2
<1>6. ASSUME NEW v \in Workers, SkipSelf(v) PROVE Earlier(p, out[p][i])' BY <1>2, <1>6, WalkVisits
<1>7. ASSUME NEW v \in Workers, NEW f \in Fds, SendLost(v, f) PROVE Earlier(p, out[p][i])'
  BY <1>2, <1>7, WalkVisits
<1> QED BY <1>1, <1>3, <1>4, <1>5, <1>6, <1>7, TalkFrame

\* What follows x at p stays so while the broadcasts of x's sender, as far as p
\* is concerned, stay where they are.
LEMMA FollowsKept ==
    ASSUME NEW p \in Peers, NEW x, Follows(p, x), taken' = taken,
           \A w \in Workers : \A m : m.from = x.from =>
               (Pending(w, p)' /\ m \in buf'[w] <=> Pending(w, p) /\ m \in buf[w])
    PROVE  Follows(p, x)'
<1>1. Follows(p, x)' <=>
        \/ \E w \in Workers : Pending(w, p)' /\ \E m \in buf'[w] : m.from = x.from /\ m.lo = x.hi + 1
        \/ /\ x.hi = taken'[x.from]
           /\ \A w \in Workers : Pending(w, p)' => \A m \in buf'[w] : m.from # x.from
  BY DEF Follows
<1>2. CASE \E w \in Workers : Pending(w, p) /\ \E m \in buf[w] : m.from = x.from /\ m.lo = x.hi + 1
  BY <1>1, <1>2
<1>3. CASE /\ x.hi = taken[x.from]
           /\ \A w \in Workers : Pending(w, p) => \A m \in buf[w] : m.from # x.from
  BY <1>1, <1>3
<1> QED BY <1>2, <1>3 DEF Follows

\* Every step keeps that what a receiver has next follows what it had.
LEMMA GapStep ==
    ASSUME IInv, OnePlace, Fresh, BufInv, SeenInv, GapInv, [Next]_vars PROVE GapInv'
<1> SUFFICES ASSUME NEW p \in Peers, NEW i \in DOMAIN out'[p],
                    LastOf(p, i)', conn'[p] = "open", Listed(p)'
             PROVE  Follows(p, out[p][i])'
  BY DEF GapInv
<1>0. /\ out \in [Peers -> Seq(Message)] /\ taken \in [Peers -> 0..MaxSend]
      /\ pc \in [Threads -> WorkerPc \cup MainPc] /\ buf \in [Workers -> SUBSET Message]
      /\ conn \in [Peers -> {"idle", "open", "closed", "broken", "done"}] /\ clients \subseteq Fds
  BY DEF IInv, TypeOK
<1>x. PICK x : x = out'[p][i] OBVIOUS
<1>e. Follows(p, out[p][i])' <=> Follows(p, x)' BY <1>x DEF Follows
<1>o. ASSUME out' = out PROVE i \in DOMAIN out[p] /\ x = out[p][i] /\ LastOf(p, i)
  BY <1>o, <1>x DEF LastOf
<1>1. ASSUME NEW v \in Workers, RecvData(v) PROVE Follows(p, x)'
  <2>q. PICK q : q = fds[cfd[v]] OBVIOUS
  <2>1. /\ pc[v] = "recv" /\ pc' = [pc EXCEPT ![v] = "bcast"] /\ q \in Peers /\ taken[q] \in Nat
        /\ UNCHANGED <<out, conn, clients, fds, rest, cfd>>
    BY <1>1, <2>q, Received
  <2>2. PICK m \in Message : /\ m.from = q /\ m.lo = taken[q] + 1
                             /\ buf' = [buf EXCEPT ![v] = {m}] /\ taken' = [taken EXCEPT ![q] = m.hi]
    BY <1>1, <2>q, Received
  <2>3. Listed(p) BY <2>1 DEF Listed
  <2>4. Follows(p, x) /\ x \in Message BY <1>0, <1>o, <2>1, <2>3 DEF GapInv
  <2>5. /\ \A w \in Workers \ {v} : (Pending(w, p)' <=> Pending(w, p)) /\ buf'[w] = buf[w]
        /\ Pending(v, p)' /\ ~Pending(v, p) /\ buf'[v] = {m}
    BY <1>0, <2>1, <2>2, ThreadsAssumption DEF Pending
  <2>6. CASE x.from = q
    <3>1. ASSUME NEW w \in Workers, Pending(w, p), NEW k \in buf[w] PROVE k.from # q
      <4>1. w # v /\ pc[w] \in {"bcast", "send"} BY <2>1, <3>1 DEF Pending
      <4>2. k.from = fds[cfd[w]] BY <3>1, <4>1 DEF BufInv
      <4> QED BY <2>q, <2>1, <4>1, <4>2, OtherPeer DEF Serving
    <3>2. x.hi = taken[q] BY <2>4, <2>6, <3>1 DEF Follows
    <3>3. m.from = x.from /\ m.lo = x.hi + 1 BY <2>2, <2>6, <3>2
    <3> QED BY <2>5, <3>3 DEF Follows
  <2>7. CASE x.from # q
    <3>1. \A w \in Workers : \A k : k.from = x.from =>
             (Pending(w, p)' /\ k \in buf'[w] <=> Pending(w, p) /\ k \in buf[w])
      BY <2>2, <2>5, <2>7
    <3>2. taken'[x.from] = taken[x.from] BY <1>0, <2>2, <2>4, <2>7 DEF Message
    <3>3. Follows(p, x)' <=>
        \/ \E w \in Workers : Pending(w, p)' /\ \E k \in buf'[w] : k.from = x.from /\ k.lo = x.hi + 1
        \/ /\ x.hi = taken'[x.from]
           /\ \A w \in Workers : Pending(w, p)' => \A k \in buf'[w] : k.from # x.from
      BY DEF Follows
    <3>4. CASE \E w \in Workers : Pending(w, p) /\ \E k \in buf[w] : k.from = x.from /\ k.lo = x.hi + 1
      BY <3>1, <3>3, <3>4
    <3>5. CASE /\ x.hi = taken[x.from]
               /\ \A w \in Workers : Pending(w, p) => \A k \in buf[w] : k.from # x.from
      BY <3>1, <3>2, <3>3, <3>5
    <3> QED BY <2>4, <3>4, <3>5 DEF Follows
  <2> QED BY <2>6, <2>7
<1>2. ASSUME NEW v \in Workers, NEW f \in Fds, SendTo(v, f) PROVE Follows(p, x)'
  <2>1. Visit(v, f) /\ conn' = conn BY <1>2, WalkVisits
  <2>2. \A w \in Workers : /\ buf'[w] = buf[w]
                           /\ Pending(w, p)' <=> Pending(w, p) /\ ~(w = v /\ p = fds[f])
    BY <2>1, VisitPending
  <2>3. PICK m \in Message :
              /\ buf[v] = {m} /\ m.from = fds[cfd[v]] /\ m.from # fds[f]
              /\ m.lo <= m.hi /\ m.hi = taken[m.from] /\ fds[f] \in Peers
              /\ out' = [out EXCEPT ![fds[f]] = Append(@, m)]
    BY <1>2, Sent
  <2>4. taken' = taken /\ Listed(p) BY <2>1 DEF Visit, Listed
  <2>5. CASE p = fds[f] /\ i = Len(out[p]) + 1
    <3>1. x = m BY <1>0, <1>x, <2>3, <2>5
    <3>2. ASSUME NEW w \in Workers, Pending(w, p)', NEW k \in buf'[w] PROVE k.from # m.from
      <4>1. w # v /\ Pending(w, p) /\ k \in buf[w] BY <2>2, <2>5, <3>2
      <4>2. pc[w] \in {"bcast", "send"} /\ pc[v] = "send" BY <2>1, <4>1 DEF Pending, Visit
      <4>3. k.from = fds[cfd[w]] BY <4>1, <4>2 DEF BufInv
      <4> QED BY <2>3, <4>1, <4>2, <4>3, OtherPeer DEF Serving
    <3> QED BY <2>3, <2>4, <3>1, <3>2 DEF Follows
  <2>6. CASE ~(p = fds[f] /\ i = Len(out[p]) + 1)
    <3>1. i \in DOMAIN out[p] /\ x = out[p][i] BY <1>0, <1>x, <2>3, <2>6
    <3>2. \A k \in DOMAIN out[p] : k \in DOMAIN out'[p] /\ out'[p][k] = out[p][k]
      BY <1>0, <2>3
    <3>3. LastOf(p, i) BY <3>1, <3>2, <1>x DEF LastOf
    <3>4. Follows(p, x) BY <2>1, <2>4, <3>1, <3>3 DEF GapInv
    <3>5. p = fds[f] => x.from # m.from
      <4> SUFFICES ASSUME p = fds[f] PROVE x.from # m.from OBVIOUS
      <4>1. PICK n : n = Len(out[p]) + 1 OBVIOUS
      <4>2. n \in DOMAIN out'[p] /\ out'[p][n] = m /\ n > i BY <1>0, <2>3, <3>1, <4>1
      <4> QED BY <1>x, <4>2 DEF LastOf
    <3>6. \A w \in Workers : \A k : k.from = x.from =>
             (Pending(w, p)' /\ k \in buf'[w] <=> Pending(w, p) /\ k \in buf[w])
      BY <2>2, <2>3, <3>5
    <3> QED BY <2>4, <3>4, <3>6, FollowsKept
  <2> QED BY <2>5, <2>6
<1>3. ASSUME NEW v \in Workers, SkipSelf(v) PROVE Follows(p, x)'
  <2>1. Visit(v, cfd[v]) /\ out' = out /\ conn' = conn BY <1>3, WalkVisits
  <2>2. \A w \in Workers : /\ buf'[w] = buf[w]
                           /\ Pending(w, p)' <=> Pending(w, p) /\ ~(w = v /\ p = fds[cfd[v]])
    BY <2>1, VisitPending
  <2>3. taken' = taken /\ Listed(p) BY <2>1 DEF Visit, Listed
  <2>4. Follows(p, x) /\ Earlier(p, x) BY <1>o, <2>1, <2>3 DEF GapInv, SeenInv
  <2>5. \A k \in buf[v] : k.from = fds[cfd[v]] BY <2>1 DEF Visit, BufInv
  <2>6. \A w \in Workers : \A k : k.from = x.from =>
           (Pending(w, p)' /\ k \in buf'[w] <=> Pending(w, p) /\ k \in buf[w])
    BY <2>2, <2>4, <2>5 DEF Earlier
  <2> QED BY <2>3, <2>4, <2>6, FollowsKept
<1>4. ASSUME NEW v \in Workers, NEW f \in Fds, SendLost(v, f) PROVE Follows(p, x)'
  <2>1. Visit(v, f) /\ out' = out /\ conn' = [conn EXCEPT ![fds[f]] = "broken"] BY <1>4, WalkVisits
  <2>2. p # fds[f] /\ conn[p] = "open" BY <1>0, <2>1
  <2>3. taken' = taken /\ Listed(p) BY <2>1 DEF Visit, Listed
  <2>4. Follows(p, x) BY <1>o, <2>1, <2>2, <2>3 DEF GapInv
  <2>5. \A w \in Workers : buf'[w] = buf[w] /\ (Pending(w, p)' <=> Pending(w, p))
    BY <2>1, <2>2, VisitPending
  <2> QED BY <2>3, <2>4, <2>5, FollowsKept
<1>5. ASSUME NEW v \in Workers, BcastLock(v) PROVE Follows(p, x)'
  <2>1. UNCHANGED <<out, conn, clients, fds, taken>> BY <1>5 DEF BcastLock, netVars
  <2>2. Listed(p) BY <2>1 DEF Listed
  <2>3. \A w \in Workers : buf'[w] = buf[w] /\ (Pending(w, p)' <=> Pending(w, p))
    BY <1>5, <2>2, LockPending
  <2>4. Follows(p, x) BY <1>o, <2>1, <2>2 DEF GapInv
  <2> QED BY <2>1, <2>3, <2>4, FollowsKept
<1>6. CASE Quiet
  <2>1. out' = out /\ taken' = taken BY <1>6 DEF Quiet
  <2>2. ~Unheard(p) BY <1>0, <1>o, <2>1 DEF Fresh
  <2>3. conn[p] = "open" BY <1>6, <2>2 DEF Quiet, Unheard
  <2>4. Listed(p)
    <3>1. PICK f \in clients' : fds'[f] = p BY DEF Listed
    <3>2. CASE f \in clients BY <3>1, <3>2, ListedSame DEF Listed
    <3>3. ASSUME NEW w \in Workers, pc[w] = "add", cfd[w] = f PROVE FALSE
      <4>1. fds[cfd[w]] = p BY <3>1, <3>3, ServedKept DEF Serving
      <4> QED BY <2>2, <3>3, <4>1 DEF Unheard
    <3> QED BY <1>6, <3>2, <3>3 DEF Quiet
  <2>5. Follows(p, x) BY <1>o, <2>1, <2>3, <2>4 DEF GapInv
  <2>6. \A w \in Workers : (Pending(w, p)' <=> Pending(w, p)) /\ (Pending(w, p) => buf'[w] = buf[w])
    BY <1>6, QuietPending
  <2>7. \A w \in Workers : \A k : k.from = x.from =>
           (Pending(w, p)' /\ k \in buf'[w] <=> Pending(w, p) /\ k \in buf[w])
    BY ONLY <2>6
  <2> QED BY <1>e, <2>1, <2>5, <2>7, FollowsKept
<1> QED BY <1>e, <1>1, <1>2, <1>3, <1>4, <1>5, <1>6, TalkFrame

\* No step delivers a piece with a gap before it.
LEMMA NoGapStep ==
    ASSUME IInv, OnePlace, BufInv, SeenInv, GapInv, NoGap, [Next]_vars PROVE NoGap'
<1>0. out \in [Peers -> Seq(Message)] BY DEF IInv, TypeOK
<1>1. ASSUME out' = out PROVE NoGap' BY <1>1 DEF NoGap
<1>2. ASSUME NEW v \in Workers, NEW f \in Fds, SendTo(v, f) PROVE NoGap'
  <2>1. PICK m \in Message :
              /\ buf[v] = {m} /\ fds[f] \in Peers /\ f \in clients /\ conn[fds[f]] = "open"
              /\ m.from = fds[cfd[v]] /\ Pending(v, fds[f])
              /\ out' = [out EXCEPT ![fds[f]] = Append(@, m)]
    BY <1>2, Sent
  <2> SUFFICES ASSUME NEW p \in Peers, NEW i \in DOMAIN out'[p], NEW j \in DOMAIN out'[p], i < j,
                      out'[p][i].from = out'[p][j].from,
                      \A k \in i+1 .. j-1 : out'[p][k].from # out'[p][i].from
               PROVE  out'[p][j].lo = out'[p][i].hi + 1
    BY DEF NoGap
  <2>2. CASE p # fds[f] BY <1>0, <2>1, <2>2 DEF NoGap
  <2>3. CASE p = fds[f]
    <3>1. \A k \in DOMAIN out[p] : k \in DOMAIN out'[p] /\ out'[p][k] = out[p][k]
      BY <1>0, <2>1, <2>3
    <3>2. DOMAIN out[p] = 1..Len(out[p]) /\ DOMAIN out'[p] = 1..Len(out[p]) + 1 /\ Len(out[p]) \in Nat
          /\ out'[p][Len(out[p]) + 1] = m
      BY <1>0, <2>1, <2>3
    <3>3. CASE j \in DOMAIN out[p]
      <4>1. i \in DOMAIN out[p] /\ \A k \in i+1 .. j-1 : k \in DOMAIN out[p] BY <3>2, <3>3
      <4>2. /\ out[p][i].from = out[p][j].from
            /\ \A k \in i+1 .. j-1 : out[p][k].from # out[p][i].from
            /\ out'[p][i] = out[p][i] /\ out'[p][j] = out[p][j]
        BY <3>1, <3>3, <4>1
      <4> QED BY <3>3, <4>1, <4>2 DEF NoGap
    <3>4. CASE j \notin DOMAIN out[p]
      <4>1. j = Len(out[p]) + 1 /\ i \in DOMAIN out[p] /\ out'[p][j] = m /\ out'[p][i] = out[p][i]
        BY <3>1, <3>2, <3>4
      <4>2. \A k \in DOMAIN out[p] : k > i => out[p][k].from # out[p][i].from
        BY <3>1, <3>2, <4>1
      <4>3. LastOf(p, i) /\ Listed(p) BY <2>1, <2>3, <4>2 DEF LastOf, Listed
      <4>4. Follows(p, out[p][i]) BY <2>1, <2>3, <4>1, <4>3 DEF GapInv
      <4>5. PICK x : x = out[p][i] OBVIOUS
      <4>6. PICK w \in Workers : Pending(w, p) /\ \E k \in buf[w] : k.from = x.from /\ k.lo = x.hi + 1
        BY <2>1, <2>3, <4>1, <4>4, <4>5 DEF Follows
      <4>7. PICK k \in buf[w] : k.from = x.from /\ k.lo = x.hi + 1 BY <4>6
      <4>8. w = v
        <5>1. pc[w] \in Serving /\ k.from = fds[cfd[w]] BY <4>6, <4>7 DEF Pending, BufInv, Serving
        <5>2. pc[v] \in Serving BY <2>1 DEF Pending, Serving
        <5>3. k.from = fds[cfd[v]] BY <2>1, <4>1, <4>5, <4>7
        <5> QED BY <5>1, <5>2, <5>3, OtherPeer
      <4> QED BY <2>1, <4>1, <4>5, <4>7, <4>8
    <3> QED BY <3>3, <3>4
  <2> QED BY <2>2, <2>3
<1>3. ASSUME NEW v \in Workers, SkipSelf(v) \/ RecvData(v) \/ BcastLock(v) PROVE out' = out
  BY <1>3 DEF SkipSelf, RecvData, BcastLock, netVars
<1>4. ASSUME NEW v \in Workers, NEW f \in Fds, SendLost(v, f) PROVE out' = out
  BY <1>4 DEF SendLost
<1>5. Quiet => out' = out BY DEF Quiet
<1> QED BY <1>1, <1>2, <1>3, <1>4, <1>5, TalkFrame

\* All messages sent so far, and what makes a numbering of them an order that
\* every receiver agrees with.
Messages == UNION {RangeOf(out[p]) : p \in Peers}
Agrees(at) ==
    \A p \in Peers : \A i, j \in DOMAIN out[p] : i < j => at[out[p][i]] < at[out[p][j]]

\* There is such an order with the message now being broadcast as the last.
OrderInv ==
    /\ IsFiniteSet(Messages)
    /\ \E at \in [Messages -> 1 .. Cardinality(Messages)] :
          /\ Agrees(at)
          /\ \A w \in Workers : pc[w] = "send" =>
                \A m \in buf[w] \cap Messages : \A k \in Messages \ {m} : at[k] < at[m]

\* No step delivers two pieces in different orders to two receivers.
LEMMA OrderStep ==
    ASSUME IInv, OnePlace, BufInv, SeenInv, OrderInv, [Next]_vars PROVE OrderInv'
<1>0. /\ out \in [Peers -> Seq(Message)] /\ pc \in [Threads -> WorkerPc \cup MainPc]
      /\ buf \in [Workers -> SUBSET Message]
  BY DEF IInv, TypeOK
<1>1. PICK at \in [Messages -> 1 .. Cardinality(Messages)] :
          /\ Agrees(at)
          /\ \A w \in Workers : pc[w] = "send" =>
                \A m \in buf[w] \cap Messages : \A k \in Messages \ {m} : at[k] < at[m]
  BY DEF OrderInv
<1>m. \A p \in Peers : \A i \in DOMAIN out[p] : out[p][i] \in Messages
  BY DEF Messages, RangeOf
<1>k. ASSUME out' = out,
             \A w \in Workers : pc'[w] = "send" =>
                 \/ pc[w] = "send" /\ buf'[w] = buf[w]
                 \/ \A m \in buf'[w] : m \notin Messages
      PROVE  OrderInv'
  <2>1. Messages' = Messages BY <1>k DEF Messages
  <2>2. Agrees(at)' BY <1>1, <1>k DEF Agrees
  <2>3. \A w \in Workers : pc'[w] = "send" =>
            \A m \in buf'[w] \cap Messages : \A k \in Messages \ {m} : at[k] < at[m]
    BY <1>1, <1>k
  <2> QED BY <1>1, <2>1, <2>2, <2>3 DEF OrderInv
<1>2. ASSUME NEW v \in Workers, BcastLock(v) PROVE OrderInv'
  <2>1. /\ pc[v] = "bcast" /\ pc' = [pc EXCEPT ![v] = "send"] /\ UNCHANGED <<out, buf>>
    BY <1>2 DEF BcastLock, Step, netVars
  <2>2. ASSUME NEW m \in buf[v], m \in Messages PROVE FALSE
    <3>0. PICK p \in Peers : \E i \in DOMAIN out[p] : m = out[p][i] BY <2>2 DEF Messages, RangeOf
    <3>1. PICK i \in DOMAIN out[p] : m = out[p][i] BY <3>0
    <3>2. Earlier(p, m) BY <3>1 DEF SeenInv
    <3>3. Pending(v, p) BY <2>1 DEF Pending
    <3>4. m.hi < m.lo /\ m.lo <= m.hi /\ m \in Message BY <1>0, <2>2, <3>2, <3>3 DEF Earlier
    <3> QED BY <3>4, BoundsAssumption DEF Message
  <2> QED BY <1>0, <1>k, <2>1, <2>2
<1>3. ASSUME NEW v \in Workers, SkipSelf(v) PROVE OrderInv'
  BY <1>k, <1>3, WalkVisits DEF Visit
<1>4. ASSUME NEW v \in Workers, NEW f \in Fds, SendLost(v, f) PROVE OrderInv'
  BY <1>k, <1>4, WalkVisits DEF Visit
<1>5. ASSUME NEW v \in Workers, RecvData(v) PROVE OrderInv'
  <2>1. pc[v] = "recv" /\ pc' = [pc EXCEPT ![v] = "bcast"] /\ out' = out
        /\ \E m \in Message : buf' = [buf EXCEPT ![v] = {m}]
    BY <1>5, Received
  <2> QED BY <1>0, <1>k, <2>1
<1>6. CASE Quiet BY <1>k, <1>6 DEF Quiet
<1>7. ASSUME NEW v \in Workers, NEW f \in Fds, SendTo(v, f) PROVE OrderInv'
  <2>1. PICK m \in Message :
              /\ buf[v] = {m} /\ fds[f] \in Peers /\ Pending(v, fds[f]) /\ m.lo <= m.hi
              /\ out' = [out EXCEPT ![fds[f]] = Append(@, m)]
    BY <1>7, Sent
  <2>q. PICK q \in Peers : q = fds[f] BY <2>1
  <2>2. pc[v] = "send" /\ pc' = pc /\ buf' = buf BY <1>7, WalkVisits DEF Visit
  <2>3. \A p \in Peers : \A i \in DOMAIN out'[p] :
           \/ i \in DOMAIN out[p] /\ out'[p][i] = out[p][i]
           \/ p = q /\ i = Len(out[p]) + 1 /\ out'[p][i] = m
    BY <1>0, <2>1, <2>q
  <2>4. /\ \A p \in Peers : \A i \in DOMAIN out[p] : i \in DOMAIN out'[p] /\ out'[p][i] = out[p][i]
        /\ Len(out[q]) + 1 \in DOMAIN out'[q] /\ out'[q][Len(out[q]) + 1] = m
    BY <1>0, <2>1, <2>q
  <2>5. Messages' = Messages \cup {m}
    <3>1. ASSUME NEW k \in Messages' PROVE k \in Messages \cup {m}
      <4>1. \E p \in Peers : \E i \in DOMAIN out'[p] : k = out'[p][i] BY <3>1 DEF Messages, RangeOf
      <4> QED BY <1>m, <2>3, <4>1
    <3>2. ASSUME NEW p \in Peers, NEW i \in DOMAIN out'[p] PROVE out'[p][i] \in Messages'
      BY <3>2 DEF Messages, RangeOf
    <3>3. ASSUME NEW k \in Messages PROVE k \in Messages'
      <4>1. \E p \in Peers : \E i \in DOMAIN out[p] : k = out[p][i] BY <3>3 DEF Messages, RangeOf
      <4> QED BY <2>4, <3>2, <4>1
    <3>4. m \in Messages' BY <2>4, <3>2
    <3> QED BY <3>1, <3>3, <3>4
  <2>6. \A i \in DOMAIN out[q] : out[q][i] # m
    <3> SUFFICES ASSUME NEW i \in DOMAIN out[q], out[q][i] = m PROVE FALSE OBVIOUS
    <3>1. Earlier(q, m) BY DEF SeenInv
    <3>2. m.hi < m.lo /\ m.lo <= m.hi BY <2>1, <2>q, <3>1 DEF Earlier
    <3> QED BY <3>2, BoundsAssumption DEF Message
  <2>7. \A w \in Workers : pc[w] = "send" => w = v
    BY <2>2 DEF IInv, WalkerHasMutex
  <2>n. ASSUME NEW a \in [Messages \cup {m} -> 1 .. Cardinality(Messages \cup {m})],
               \A k \in Messages \ {m} : a[k] = at[k] /\ a[k] < a[m],
               m \in Messages => a[m] = at[m], IsFiniteSet(Messages \cup {m})
        PROVE  OrderInv'
    <3>1. \A k \in Messages : a[k] = at[k] BY <2>n
    <3>2. ASSUME NEW p \in Peers, NEW i \in DOMAIN out'[p], NEW j \in DOMAIN out'[p], i < j
          PROVE  a[out'[p][i]] < a[out'[p][j]]
      <4>1. CASE j \in DOMAIN out[p] /\ out'[p][j] = out[p][j]
        <5>1. i \in DOMAIN out[p] /\ out'[p][i] = out[p][i]
          BY <1>0, <2>3, <3>2, <4>1
        <5> QED BY <1>1, <1>m, <3>1, <3>2, <4>1, <5>1 DEF Agrees
      <4>2. CASE p = q /\ j = Len(out[p]) + 1 /\ out'[p][j] = m
        <5>1. i \in DOMAIN out[q] /\ out'[p][i] = out[q][i]
          BY <1>0, <2>3, <3>2, <4>2
        <5> QED BY <1>m, <2>6, <2>n, <4>2, <5>1
      <4> QED BY <2>3, <4>1, <4>2
    <3>3. Agrees(a)' BY <3>2 DEF Agrees
    <3>4. \A w \in Workers : pc'[w] = "send" =>
             \A l \in buf'[w] \cap Messages' : \A k \in Messages' \ {l} : a[k] < a[l]
      BY <2>1, <2>2, <2>5, <2>7, <2>n
    <3> QED BY <2>5, <2>n, <3>3, <3>4 DEF OrderInv
  <2>8. CASE m \in Messages
    <3>1. Messages \cup {m} = Messages BY <2>8
    <3>2. \A k \in Messages \ {m} : at[k] < at[m] BY <1>1, <2>1, <2>2, <2>8
    <3> QED BY <2>n, <3>1, <3>2 DEF OrderInv
  <2>9. CASE m \notin Messages
    <3> DEFINE N == Cardinality(Messages)
               a == [k \in Messages \cup {m} |-> IF k = m THEN N + 1 ELSE at[k]]
    <3>1. /\ IsFiniteSet(Messages) /\ N \in Nat /\ IsFiniteSet(Messages \cup {m})
          /\ Cardinality(Messages \cup {m}) = N + 1
      BY <2>9, FS_AddElement, FS_CardinalityType DEF OrderInv
    <3>2. \A k \in Messages : at[k] \in 1..N OBVIOUS
    <3> HIDE DEF N
    <3>3. a \in [Messages \cup {m} -> 1 .. N + 1] BY <2>9, <3>1, <3>2
    <3>4. \A k \in Messages \ {m} : a[k] = at[k] /\ a[k] < a[m] BY <2>9, <3>1, <3>2
    <3> HIDE DEF a
    <3> QED BY <2>9, <2>n, <3>1, <3>3, <3>4
  <2> QED BY <2>8, <2>9
<1> QED BY <1>2, <1>3, <1>4, <1>5, <1>6, <1>7, TalkFrame

\* What holds of the conversation, all together.
TalkInv == OnePlace /\ Fresh /\ BufInv /\ SeenInv /\ GapInv /\ NoGap /\ OrderInv

\* What holds of the conversation holds initially.
LEMMA TalkInit == Init => TalkInv
<1> SUFFICES ASSUME Init PROVE TalkInv
  OBVIOUS
<1>1. OnePlace /\ Fresh /\ SeenInv /\ GapInv /\ NoGap
  BY DEF Init, OnePlace, Fresh, SeenInv, GapInv, NoGap
<1>2. BufInv BY ThreadsAssumption DEF Init, BufInv
<1>3. Messages = {} BY DEF Init, Messages, RangeOf
<1>4. OrderInv
  <2>1. IsFiniteSet({}) /\ Cardinality({}) = 0 BY FS_EmptySet
  <2>2. [k \in {} |-> 0] \in [Messages -> 1 .. Cardinality(Messages)] BY <1>3
  <2>3. Agrees([k \in {} |-> 0]) BY DEF Init, Agrees
  <2> QED BY <1>3, <2>1, <2>2, <2>3 DEF OrderInv
<1> QED BY <1>1, <1>2, <1>4 DEF TalkInv

\* What is known of broadcasts, in every reachable state.
THEOREM Talk == Spec => []TalkInv
<1>1. IInv /\ TalkInv /\ [Next]_vars => TalkInv'
  BY OneStep, FreshStep, BufStep, SeenStep, GapStep, NoGapStep, OrderStep DEF TalkInv
<1> QED BY <1>1, TalkInit, Invariant, PTL DEF Spec

\* Each receiver has each sender's stream without gap, repetition or
\* reordering, from the first message it gets of that sender.
THEOREM StreamsHaveNoGap == Spec => []NoGap
<1>1. TalkInv => NoGap BY DEF TalkInv
<1> QED BY <1>1, Talk, PTL

\* All receivers see the messages they share in one order, because a broadcast
\* holds clients_mutex for its whole walk.
THEOREM OneOrderForAll == Spec => []SameOrder
<1>1. OrderInv => SameOrder BY DEF OrderInv, SameOrder, Messages, Agrees
<1>2. TalkInv => SameOrder BY <1>1 DEF TalkInv
<1> QED BY <1>2, Talk, PTL
=============================================================================
