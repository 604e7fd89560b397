--------------------------- MODULE ThreadPoolChat ---------------------------
(***************************************************************************)
(* The thread-pool chat server of 03_networking/lab_15 (server.c): a main  *)
(* thread accepts connections and queues their descriptors, a pool of      *)
(* workers takes one connection each, serves it until it ends, and sends   *)
(* what it receives to every other listed client.  SIGINT and SIGTERM run  *)
(* handle_signal on whichever thread the kernel picks.                     *)
(*                                                                         *)
(* One step is one blocking call, one critical section or one loop test.   *)
(* The queue's critical sections take two steps (lock, then body and       *)
(* unlock) because the signal handler may interrupt their owner and lock   *)
(* the same mutex.  clients_mutex is held over several steps only by       *)
(* broadcast_message, whose sends block.                                   *)
(***************************************************************************)
EXTENDS Naturals, Sequences, FiniteSets

CONSTANTS Workers,       \* the threads running worker_main
          Main,          \* the thread running main
          Peers,         \* remote clients; each opens one connection
          Fds,           \* descriptors the process may hold for clients
          Signals,       \* signals the process is sent, each at most once
          None,          \* no thread, no descriptor, no peer
          MaxSend,       \* bound: units of data each peer sends
          Window,        \* units a peer's socket buffers before send blocks
          MallocMayFail  \* whether malloc may return NULL

Threads == Workers \cup {Main}

ASSUME ThreadsAssumption ==
    /\ Main \notin Workers
    /\ None \notin Threads \cup Fds \cup Peers
ASSUME WorkersAssumption == IsFiniteSet(Workers)  \* WORKER_COUNT of them
ASSUME BoundsAssumption == MaxSend \in Nat /\ Window \in Nat \ {0}
ASSUME MallocAssumption == MallocMayFail \in BOOLEAN

VARIABLES
    running, caught, hpc,          \* the flag; signals taken; the handler's pc on each thread
    proc,                          \* "up", "exited" or "killed" (by SIGPIPE)
    jobs, closed, qMutex,          \* job_queue_t: the list, the flag, the mutex owner
    clients, cMutex,               \* the client list (its descriptors) and its mutex owner
    pc, cfd, buf, rest,            \* per thread: where it is, client_fd, message, list still to visit
    fds,                           \* kernel table: the peer behind each descriptor
    conn, backlog,                 \* per peer: the connection; connections not yet accepted
    sent, taken,                   \* per peer: units it has sent, units recv has returned
    out, nread                     \* per peer: messages sent to it, how many it has read

sigVars == <<running, caught, hpc>>
qVars   == <<jobs, closed, qMutex>>
cVars   == <<clients, cMutex>>
thVars  == <<pc, cfd, buf, rest>>
netVars == <<conn, backlog, sent, taken, out, nread>>
vars == <<sigVars, proc, qVars, cVars, thVars, fds, netVars>>

WorkerPc == {"unborn", "loop", "pop_lock", "pop", "wait", "add", "run",
             "recv", "bcast", "send", "rm", "close", "done"}
MainPc == {"init", "listen", "check", "accept", "push_lock", "push", "shut",
           "close_lock", "close_in", "join", "final"}

\* [from, lo, hi]: the units lo..hi of the stream received from peer `from`.
Message == [from : Peers, lo : 1..MaxSend, hi : 1..MaxSend]

\* Program counters between worker_main's add_client and its close().
Serving == {"add", "run", "recv", "bcast", "send", "rm", "close"}

RangeOf(s) == {s[i] : i \in DOMAIN s}

\* A thread executes its own code only while no handler runs on its stack.
Runnable(t) == proc = "up" /\ hpc[t] = "none"

Step(t, from, to) == /\ Runnable(t)
                     /\ pc[t] = from
                     /\ pc' = [pc EXCEPT ![t] = to]

Init == /\ running = TRUE /\ caught = {} /\ hpc = [t \in Threads |-> "none"]
        /\ proc = "up"
        /\ jobs = <<>> /\ closed = FALSE /\ qMutex = None
        /\ clients = {} /\ cMutex = None
        /\ pc = [t \in Threads |-> IF t = Main THEN "init" ELSE "unborn"]
        /\ cfd = [t \in Threads |-> None]
        /\ buf = [w \in Workers |-> {}]
        /\ rest = [w \in Workers |-> {}]
        /\ fds = [f \in Fds |-> None]
        /\ conn = [p \in Peers |-> "idle"]
        /\ backlog = <<>>
        /\ sent = [p \in Peers |-> 0]
        /\ taken = [p \in Peers |-> 0]
        /\ out = [p \in Peers |-> <<>>]
        /\ nread = [p \in Peers |-> 0]
-----------------------------------------------------------------------------
(* The remote peers (client.c is one) and the network between.             *)

Listening == pc[Main] \in {"check", "accept", "push_lock", "push", "shut"}

PeerConnect(p) ==
    /\ proc = "up" /\ Listening
    /\ conn[p] = "idle"
    /\ conn' = [conn EXCEPT ![p] = "open"]
    /\ backlog' = Append(backlog, p)
    /\ UNCHANGED <<sigVars, proc, qVars, cVars, thVars, fds, sent, taken, out, nread>>

PeerSend(p) ==
    /\ proc = "up"
    /\ conn[p] = "open" /\ sent[p] < MaxSend
    /\ sent' = [sent EXCEPT ![p] = @ + 1]
    /\ UNCHANGED <<sigVars, proc, qVars, cVars, thVars, fds, conn, backlog, taken, out, nread>>

\* The peer ends the connection, in order (FIN) or not (RST): recv returns what
\* had arrived and then 0 or an error, and the server does the same for both.
PeerClose(p) ==
    /\ proc = "up"
    /\ conn[p] = "open"
    /\ conn' = [conn EXCEPT ![p] = "closed"]
    /\ UNCHANGED <<sigVars, proc, qVars, cVars, thVars, fds, backlog, sent, taken, out, nread>>

PeerRead(p) ==
    /\ proc = "up"
    /\ conn[p] = "open" /\ nread[p] < Len(out[p])
    /\ nread' = [nread EXCEPT ![p] = @ + 1]
    /\ UNCHANGED <<sigVars, proc, qVars, cVars, thVars, fds, conn, backlog, sent, taken, out>>
-----------------------------------------------------------------------------
(* The job queue.                                                          *)

\* Mutant: signals only when the queue was empty.
MutSignalWhenEmpty(pcNext) ==
    LET waiting == {w \in Workers : pc[w] = "wait"}
    IN  IF waiting = {} \/ jobs # <<>> THEN pc' = pcNext
        ELSE \E w \in waiting : pc' = [pcNext EXCEPT ![w] = "pop_lock"]

\* cond_signal wakes one waiting worker, if any.
SignalOne(pcNext) ==
    LET waiting == {w \in Workers : pc[w] = "wait"}
    IN  IF waiting = {} THEN pc' = pcNext
        ELSE \E w \in waiting : pc' = [pcNext EXCEPT ![w] = "pop_lock"]

\* Mutant: jobq_close signals one waiter instead of all.
MutWakeOne(pcNext) ==
    LET waiting == {w \in Workers : pc[w] = "wait"}
    IN  IF waiting = {} THEN pcNext
        ELSE [pcNext EXCEPT ![CHOOSE w \in waiting : TRUE] = "pop_lock"]

\* cond_broadcast wakes every waiting worker.
WakeAll(pcNext) == [t \in Threads |-> IF pc[t] = "wait" THEN "pop_lock" ELSE pcNext[t]]

\* jobq_push: main queues the accepted descriptor and wakes one worker.
PushLock ==
    /\ qMutex = None /\ qMutex' = Main
    /\ Step(Main, "push_lock", "push")
    /\ UNCHANGED <<sigVars, proc, jobs, closed, cVars, cfd, buf, rest, fds, netVars>>

Push ==
    /\ Runnable(Main) /\ pc[Main] = "push"
    /\ jobs' = Append(jobs, cfd[Main])
    /\ SignalOne([pc EXCEPT ![Main] = "check"])
    /\ qMutex' = None
    /\ cfd' = [cfd EXCEPT ![Main] = None]
    /\ UNCHANGED <<sigVars, proc, closed, cVars, buf, rest, fds, netVars>>

\* malloc fails in jobq_push: the descriptor is neither queued nor closed.
PushFail ==
    /\ MallocMayFail
    /\ Step(Main, "push_lock", "check")
    /\ cfd' = [cfd EXCEPT ![Main] = None]
    /\ UNCHANGED <<sigVars, proc, qVars, cVars, buf, rest, fds, netVars>>

PopLock(w) ==
    /\ qMutex = None /\ qMutex' = w
    /\ Step(w, "pop_lock", "pop")
    /\ UNCHANGED <<sigVars, proc, jobs, closed, cVars, cfd, buf, rest, fds, netVars>>

\* Nothing queued and not closed: pthread_cond_wait releases the mutex.
PopWait(w) ==
    /\ jobs = <<>> /\ ~closed
    /\ Step(w, "pop", "wait")
    /\ qMutex' = None
    /\ UNCHANGED <<sigVars, proc, jobs, closed, cVars, cfd, buf, rest, fds, netVars>>

\* pthread_cond_wait may return without a signal; the while loop tests again.
SpuriousWake(w) ==
    /\ Step(w, "wait", "pop_lock")
    /\ UNCHANGED <<sigVars, proc, qVars, cVars, cfd, buf, rest, fds, netVars>>

\* Mutant: the early return of jobq_pop forgets to unlock.
MutPopClosedLocked(w) ==
    /\ jobs = <<>> /\ closed
    /\ Step(w, "pop", "done")
    /\ UNCHANGED <<sigVars, proc, qVars, cVars, cfd, buf, rest, fds, netVars>>

\* Nothing queued and closed: jobq_pop returns -1 and the worker returns.
PopClosed(w) ==
    /\ jobs = <<>> /\ closed
    /\ Step(w, "pop", "done")
    /\ qMutex' = None
    /\ UNCHANGED <<sigVars, proc, jobs, closed, cVars, cfd, buf, rest, fds, netVars>>

\* Mutant: the job is read but not unlinked.
MutPopPeek(w) ==
    /\ jobs # <<>>
    /\ Step(w, "pop", "add")
    /\ cfd' = [cfd EXCEPT ![w] = Head(jobs)]
    /\ qMutex' = None
    /\ UNCHANGED <<sigVars, proc, jobs, closed, cVars, buf, rest, fds, netVars>>

\* Mutant: takes the newest job first.
MutPopNewest(w) ==
    /\ jobs # <<>>
    /\ Step(w, "pop", "add")
    /\ cfd' = [cfd EXCEPT ![w] = jobs[Len(jobs)]]
    /\ jobs' = SubSeq(jobs, 1, Len(jobs) - 1)
    /\ qMutex' = None
    /\ UNCHANGED <<sigVars, proc, closed, cVars, buf, rest, fds, netVars>>

PopJob(w) ==
    /\ jobs # <<>>
    /\ Step(w, "pop", "add")
    /\ cfd' = [cfd EXCEPT ![w] = Head(jobs)]
    /\ jobs' = Tail(jobs)
    /\ qMutex' = None
    /\ UNCHANGED <<sigVars, proc, closed, cVars, buf, rest, fds, netVars>>
-----------------------------------------------------------------------------
(* worker_main                                                             *)

LoopTest(w) ==
    /\ Step(w, "loop", IF running THEN "pop_lock" ELSE "done")
    /\ UNCHANGED <<sigVars, proc, qVars, cVars, cfd, buf, rest, fds, netVars>>

AddClient(w) ==
    /\ cMutex = None
    /\ Step(w, "add", "run")
    /\ clients' = clients \cup {cfd[w]}
    /\ UNCHANGED <<sigVars, proc, qVars, cMutex, cfd, buf, rest, fds, netVars>>

\* malloc fails in add_client: the connection is served but not listed.
AddFail(w) ==
    /\ MallocMayFail
    /\ Step(w, "add", "run")
    /\ UNCHANGED <<sigVars, proc, qVars, cVars, cfd, buf, rest, fds, netVars>>

\* Mutant: a stopped worker returns without its cleanup.
MutRunReturn(w) ==
    /\ Step(w, "run", IF running THEN "recv" ELSE "done")
    /\ UNCHANGED <<sigVars, proc, qVars, cVars, cfd, buf, rest, fds, netVars>>

RunTest(w) ==
    /\ Step(w, "run", IF running THEN "recv" ELSE "rm")
    /\ UNCHANGED <<sigVars, proc, qVars, cVars, cfd, buf, rest, fds, netVars>>

\* recv returns any nonempty part of what has arrived, in stream order.
RecvData(w) ==
    LET p == fds[cfd[w]]
    IN  /\ Step(w, "recv", "bcast")
        /\ \E hi \in taken[p] + 1 .. sent[p] :
              /\ buf' = [buf EXCEPT ![w] = {[from |-> p, lo |-> taken[p] + 1, hi |-> hi]}]
              /\ taken' = [taken EXCEPT ![p] = hi]
        /\ UNCHANGED <<sigVars, proc, qVars, cVars, cfd, rest, fds, conn, backlog, sent, out, nread>>

\* recv returns 0 or an error once the data before it has been read.
RecvEnd(w) ==
    LET p == fds[cfd[w]]
    IN  /\ Step(w, "recv", "rm")
        /\ taken[p] = sent[p] /\ conn[p] \in {"closed", "broken"}
        /\ UNCHANGED <<sigVars, proc, qVars, cVars, cfd, buf, rest, fds, netVars>>

\* Mutant: broadcast_message does not wait for the mutex.
MutBcastNoLock(w) ==
    /\ cMutex' = w
    /\ Step(w, "bcast", "send")
    /\ rest' = [rest EXCEPT ![w] = clients]
    /\ UNCHANGED <<sigVars, proc, qVars, clients, cfd, buf, fds, netVars>>

\* broadcast_message takes clients_mutex for the whole walk over the list.
BcastLock(w) ==
    /\ cMutex = None /\ cMutex' = w
    /\ Step(w, "bcast", "send")
    /\ rest' = [rest EXCEPT ![w] = clients]
    /\ UNCHANGED <<sigVars, proc, qVars, clients, cfd, buf, fds, netVars>>

\* The walk skips the sender's own descriptor.
SkipSelf(w) ==
    /\ Runnable(w) /\ pc[w] = "send"
    /\ cfd[w] \in rest[w]
    /\ rest' = [rest EXCEPT ![w] = @ \ {cfd[w]}]
    /\ UNCHANGED <<sigVars, proc, qVars, cVars, pc, cfd, buf, fds, netVars>>

\* Mutant: after a partial write send_all starts over from the beginning.
MutSendTwice(w, f) ==
    LET p == fds[f]
    IN  /\ Runnable(w) /\ pc[w] = "send"
        /\ f \in rest[w] \ {cfd[w]}
        /\ conn[p] = "open" /\ Len(out[p]) < nread[p] + Window
        /\ \E m \in buf[w] : out' = [out EXCEPT ![p] = @ \o <<m, m>>]
        /\ rest' = [rest EXCEPT ![w] = @ \ {f}]
        /\ UNCHANGED <<sigVars, proc, qVars, cVars, pc, cfd, buf, fds, conn, backlog, sent, taken, nread>>

\* send_all blocks while the receiver's buffer is full.
SendTo(w, f) ==
    LET p == fds[f]
    IN  /\ Runnable(w) /\ pc[w] = "send"
        /\ f \in rest[w] \ {cfd[w]}
        /\ conn[p] = "open" /\ Len(out[p]) < nread[p] + Window
        /\ \E m \in buf[w] : out' = [out EXCEPT ![p] = Append(@, m)]
        /\ rest' = [rest EXCEPT ![w] = @ \ {f}]
        /\ UNCHANGED <<sigVars, proc, qVars, cVars, pc, cfd, buf, fds, conn, backlog, sent, taken, nread>>

\* The receiver is gone: the first send is lost or reports an error, which
\* broadcast_message ignores; from then on the socket is broken.
SendLost(w, f) ==
    LET p == fds[f]
    IN  /\ Runnable(w) /\ pc[w] = "send"
        /\ f \in rest[w] \ {cfd[w]}
        /\ conn[p] = "closed"
        /\ conn' = [conn EXCEPT ![p] = "broken"]
        /\ rest' = [rest EXCEPT ![w] = @ \ {f}]
        /\ UNCHANGED <<sigVars, proc, qVars, cVars, pc, cfd, buf, fds, backlog, sent, taken, out, nread>>

\* A send on a broken socket raises SIGPIPE, whose disposition is default.
SendPipe(w, f) ==
    /\ Runnable(w) /\ pc[w] = "send"
    /\ f \in rest[w] \ {cfd[w]}
    /\ conn[fds[f]] = "broken"
    /\ proc' = "killed"
    /\ UNCHANGED <<sigVars, qVars, cVars, thVars, fds, netVars>>

\* Mutant: broadcast_message returns with the mutex held.
MutBcastKeepsLock(w) ==
    /\ rest[w] = {}
    /\ Step(w, "send", "run")
    /\ buf' = [buf EXCEPT ![w] = {}]
    /\ UNCHANGED <<sigVars, proc, qVars, cVars, cfd, rest, fds, netVars>>

BcastDone(w) ==
    /\ rest[w] = {}
    /\ Step(w, "send", "run")
    /\ cMutex' = None
    /\ buf' = [buf EXCEPT ![w] = {}]
    /\ UNCHANGED <<sigVars, proc, qVars, clients, cfd, rest, fds, netVars>>

\* Mutant: remove_client does not unlink the node.
MutRemoveNothing(w) ==
    /\ cMutex = None
    /\ Step(w, "rm", "close")
    /\ UNCHANGED <<sigVars, proc, qVars, cVars, cfd, buf, rest, fds, netVars>>

RemoveClient(w) ==
    /\ cMutex = None
    /\ Step(w, "rm", "close")
    /\ clients' = clients \ {cfd[w]}
    /\ UNCHANGED <<sigVars, proc, qVars, cMutex, cfd, buf, rest, fds, netVars>>

\* Mutant: the worker forgets to close the descriptor.
MutNoClose(w) ==
    /\ Step(w, "close", "loop")
    /\ cfd' = [cfd EXCEPT ![w] = None]
    /\ UNCHANGED <<sigVars, proc, qVars, cVars, buf, rest, fds, netVars>>

CloseFd(w) ==
    /\ Step(w, "close", "loop")
    /\ fds' = [fds EXCEPT ![cfd[w]] = None]
    /\ conn' = [conn EXCEPT ![fds[cfd[w]]] = "done"]
    /\ cfd' = [cfd EXCEPT ![w] = None]
    /\ UNCHANGED <<sigVars, proc, qVars, cVars, buf, rest, backlog, sent, taken, out, nread>>

Worker(w) ==
    \/ PopLock(w) \/ PopWait(w) \/ PopClosed(w) \/ PopJob(w)
    \/ LoopTest(w) \/ AddClient(w) \/ RunTest(w)
    \/ RecvData(w) \/ RecvEnd(w) \/ BcastLock(w) \/ SkipSelf(w)
    \/ \E f \in Fds : SendTo(w, f) \/ SendLost(w, f) \/ SendPipe(w, f)
    \/ BcastDone(w) \/ RemoveClient(w) \/ CloseFd(w)
-----------------------------------------------------------------------------
(* main                                                                    *)

\* jobq_init and the thread creation.
Start ==
    /\ Runnable(Main) /\ pc[Main] = "init"
    /\ pc' = [t \in Threads |-> IF t = Main THEN "listen" ELSE "loop"]
    /\ jobs' = <<>> /\ closed' = FALSE /\ qMutex' = None
    /\ UNCHANGED <<sigVars, proc, cVars, cfd, buf, rest, fds, netVars>>

Listen ==
    /\ Step(Main, "listen", "check")
    /\ UNCHANGED <<sigVars, proc, qVars, cVars, cfd, buf, rest, fds, netVars>>

\* pthread_create, socket, bind or listen failed: exit(EXIT_FAILURE).
StartFail ==
    /\ Runnable(Main) /\ pc[Main] \in {"init", "listen"}
    /\ proc' = "exited"
    /\ UNCHANGED <<sigVars, qVars, cVars, thVars, fds, netVars>>

AcceptTest ==
    /\ Step(Main, "check", IF running THEN "accept" ELSE "shut")
    /\ UNCHANGED <<sigVars, proc, qVars, cVars, cfd, buf, rest, fds, netVars>>

Accept(f) ==
    /\ backlog # <<>> /\ fds[f] = None
    /\ Step(Main, "accept", "push_lock")
    /\ fds' = [fds EXCEPT ![f] = Head(backlog)]
    /\ backlog' = Tail(backlog)
    /\ cfd' = [cfd EXCEPT ![Main] = f]
    /\ UNCHANGED <<sigVars, proc, qVars, cVars, buf, rest, conn, sent, taken, out, nread>>

\* Mutant: the result of a failed accept is queued unchecked.
MutAcceptUnchecked ==
    /\ \A f \in Fds : fds[f] # None
    /\ Step(Main, "accept", "push_lock")
    /\ UNCHANGED <<sigVars, proc, qVars, cVars, cfd, buf, rest, fds, netVars>>

\* No descriptor is free: accept fails with EMFILE.
AcceptFail ==
    /\ \A f \in Fds : fds[f] # None
    /\ Step(Main, "accept", IF running THEN "check" ELSE "shut")
    /\ UNCHANGED <<sigVars, proc, qVars, cVars, cfd, buf, rest, fds, netVars>>

\* close(listen_fd) resets the connections nobody accepted.
CloseListen ==
    /\ Step(Main, "shut", "close_lock")
    /\ conn' = [p \in Peers |-> IF p \in RangeOf(backlog) THEN "done" ELSE conn[p]]
    /\ backlog' = <<>>
    /\ UNCHANGED <<sigVars, proc, qVars, cVars, cfd, buf, rest, fds, sent, taken, out, nread>>

CloseQueueLock ==
    /\ qMutex = None /\ qMutex' = Main
    /\ Step(Main, "close_lock", "close_in")
    /\ UNCHANGED <<sigVars, proc, jobs, closed, cVars, cfd, buf, rest, fds, netVars>>

CloseQueue ==
    /\ Runnable(Main) /\ pc[Main] = "close_in"
    /\ closed' = TRUE
    /\ pc' = WakeAll([pc EXCEPT ![Main] = "join"])
    /\ qMutex' = None
    /\ UNCHANGED <<sigVars, proc, jobs, cVars, cfd, buf, rest, fds, netVars>>

Join ==
    /\ \A w \in Workers : pc[w] = "done"
    /\ Step(Main, "join", "final")
    /\ UNCHANGED <<sigVars, proc, qVars, cVars, cfd, buf, rest, fds, netVars>>

\* Close the descriptors still listed and return from main.
Finish ==
    /\ cMutex = None
    /\ Runnable(Main) /\ pc[Main] = "final"
    /\ fds' = [f \in Fds |-> IF f \in clients THEN None ELSE fds[f]]
    /\ proc' = "exited"
    /\ UNCHANGED <<sigVars, qVars, cVars, thVars, netVars>>

MainThread ==
    \/ PushLock \/ Push \/ Start \/ Listen \/ AcceptTest
    \/ \E f \in Fds : Accept(f)
    \/ AcceptFail \/ CloseListen \/ CloseQueueLock \/ CloseQueue \/ Join \/ Finish
-----------------------------------------------------------------------------
(* handle_signal, on top of whatever thread t was doing.                   *)

\* signal() has System V semantics here (_POSIX_C_SOURCE): a blocking accept
\* or recv returns EINTR.  A thread that has tested `running` but not yet
\* entered the call is not interrupted and will block in it.
Deliver(s, t) ==
    /\ Runnable(t) /\ pc[t] \notin {"unborn", "done"}
    /\ s \notin caught
    /\ caught' = caught \cup {s}
    /\ running' = FALSE
    /\ hpc' = [hpc EXCEPT ![t] = "lock"]
    /\ \/ pc' = pc
       \/ pc[t] = "accept" /\ pc' = [pc EXCEPT ![t] = "check"]
       \/ pc[t] = "recv" /\ pc' = [pc EXCEPT ![t] = "run"]
    /\ UNCHANGED <<proc, qVars, cVars, cfd, buf, rest, fds, netVars>>

HandlerLock(t) ==
    /\ proc = "up" /\ hpc[t] = "lock"
    /\ qMutex = None /\ qMutex' = t
    /\ hpc' = [hpc EXCEPT ![t] = "body"]
    /\ UNCHANGED <<running, caught, proc, jobs, closed, cVars, thVars, fds, netVars>>

\* Mutant: the handler only clears running.
MutHandlerClose(t) ==
    /\ proc = "up" /\ hpc[t] = "body"
    /\ qMutex' = None
    /\ hpc' = [hpc EXCEPT ![t] = "none"]
    /\ UNCHANGED <<running, caught, proc, jobs, closed, cVars, thVars, fds, netVars>>

HandlerClose(t) ==
    /\ proc = "up" /\ hpc[t] = "body"
    /\ closed' = TRUE
    /\ pc' = WakeAll(pc)
    /\ qMutex' = None
    /\ hpc' = [hpc EXCEPT ![t] = "none"]
    /\ UNCHANGED <<running, caught, proc, jobs, cVars, cfd, buf, rest, fds, netVars>>

Handler(t) == HandlerLock(t) \/ HandlerClose(t)
-----------------------------------------------------------------------------
Peer(p) == PeerConnect(p) \/ PeerSend(p) \/ PeerClose(p) \/ PeerRead(p)

Next == \/ MainThread \/ PushFail \/ StartFail
        \/ \E w \in Workers : Worker(w) \/ AddFail(w) \/ SpuriousWake(w)
        \/ \E t \in Threads : Handler(t) \/ \E s \in Signals : Deliver(s, t)
        \/ \E p \in Peers : Peer(p)

Spec == Init /\ [][Next]_vars

\* Every thread, with the handler on top of it, keeps running when it can, and
\* obtains a mutex that is free again and again (hence strong fairness); a peer
\* reads what arrives, as the receiving thread of client.c does.  Nothing is
\* assumed of when peers connect, send or close, nor of malloc, signals or
\* spurious wake-ups.
Fairness ==
    /\ SF_vars(MainThread \/ Handler(Main))
    /\ \A w \in Workers : SF_vars(Worker(w) \/ Handler(w))
    /\ \A p \in Peers : WF_vars(PeerRead(p))

FairSpec == Spec /\ Fairness
-----------------------------------------------------------------------------
(* Properties.                                                             *)

\* The types of the variables.
TypeOK ==
    /\ running \in BOOLEAN /\ caught \subseteq Signals
    /\ hpc \in [Threads -> {"none", "lock", "body"}]
    /\ proc \in {"up", "exited", "killed"}
    /\ jobs \in Seq(Fds) /\ closed \in BOOLEAN /\ qMutex \in Threads \cup {None}
    /\ clients \subseteq Fds /\ cMutex \in Workers \cup {None}
    /\ pc \in [Threads -> WorkerPc \cup MainPc]
    /\ pc[Main] \in MainPc /\ \A w \in Workers : pc[w] \in WorkerPc
    /\ cfd \in [Threads -> Fds \cup {None}]
    /\ buf \in [Workers -> SUBSET Message]
    /\ rest \in [Workers -> SUBSET Fds]
    /\ fds \in [Fds -> Peers \cup {None}]
    /\ conn \in [Peers -> {"idle", "open", "closed", "broken", "done"}]
    /\ backlog \in Seq(Peers)
    /\ sent \in [Peers -> 0..MaxSend] /\ taken \in [Peers -> 0..MaxSend]
    /\ out \in [Peers -> Seq(Message)] /\ nread \in [Peers -> Nat]

\* Every descriptor is in one place only: on the queue (once), in main's or in
\* one worker's hands.  Each of those is open, so no thread closes, reads or
\* writes a descriptor that another connection has meanwhile been given.
SoleOwner ==
    /\ \A i, j \in DOMAIN jobs : i # j => jobs[i] # jobs[j]
    /\ \A t, u \in Threads : t # u /\ cfd[t] # None => cfd[t] # cfd[u]
    /\ \A t \in Threads : cfd[t] # None => fds[cfd[t]] # None /\ cfd[t] \notin RangeOf(jobs)
    /\ \A i \in DOMAIN jobs : fds[jobs[i]] # None

\* A listed descriptor is being served by a worker that has not reached its
\* close(): remove_client comes first, so broadcast_message never sends on a
\* descriptor that was closed or reused for a later connection.
ListedIsServed ==
    /\ \A f \in clients : \E w \in Workers :
          cfd[w] = f /\ pc[w] \in Serving \ {"add", "close"}
    /\ \A w \in Workers : pc[w] = "send" => rest[w] \subseteq clients

\* No lost wake-up: while some worker sleeps in jobq_pop, there are at least
\* as many workers on their way to the queue as there are queued connections.
NoLostWakeup ==
    (\E w \in Workers : pc[w] = "wait") =>
        Len(jobs) <= Cardinality({w \in Workers : pc[w] \in {"pop_lock", "pop"}})

\* Once jobq_close has run, no worker sleeps in jobq_pop or will.
ClosedWakes == closed => \A w \in Workers : pc[w] # "wait"

\* clients_mutex makes broadcasts atomic: all messages can be put in one order
\* with which the order of arrival at every receiver agrees, though no receiver
\* sees all of them.
SameOrder ==
    LET messages == UNION {RangeOf(out[p]) : p \in Peers}
    IN  \E at \in [messages -> 1 .. Cardinality(messages)] :
            \A p \in Peers : \A i, j \in DOMAIN out[p] :
                i < j => at[out[p][i]] < at[out[p][j]]

\* From the first message a receiver gets of a sender, it gets the sender's
\* stream without gap, repetition or reordering.
NoGap ==
    \A p \in Peers : \A i, j \in DOMAIN out[p] :
        /\ i < j /\ out[p][i].from = out[p][j].from
        /\ \A k \in i+1 .. j-1 : out[p][k].from # out[p][i].from
        => out[p][j].lo = out[p][i].hi + 1

\* While malloc succeeds, no open descriptor is forgotten: it is queued or a
\* thread holds it.
NoLeak == ~MallocMayFail =>
    \A f \in Fds : fds[f] # None => f \in RangeOf(jobs) \/ \E t \in Threads : cfd[t] = f

\* When main has joined the workers, the client list is already empty.
JoinEmptiesList == pc[Main] = "final" => clients = {}

\* The queue with its mutex, condition variable and signal handler implements
\* the abstract pool: hand-over in order, to one worker, none leaving early.
Pool == INSTANCE JobPool WITH
            queue <- jobs,
            hands <- [w \in Workers |-> cfd[w]],
            gone <- {w \in Workers : pc[w] = "done"},
            stopping <- ~running
ImplementsPool == Pool!PSpec

\* A message a worker has received is sent to all listed clients, with
\* clients_mutex released, however the other threads interleave.
BroadcastEnds ==
    \A w \in Workers : pc[w] = "bcast" ~> pc[w] \notin {"bcast", "send"} \/ proc # "up"

\* A handler that interrupted a thread with the queue's mutex locked waits for
\* itself in jobq_close, for ever.
Stuck == \E t \in Threads : hpc[t] = "lock" /\ qMutex = t

\* The shutdown completes: once main waits in pthread_join and the clients have
\* hung up (a worker in recv is not interrupted), every worker returns and so
\* does main, unless a signal handler is stuck.
JoinEnds ==
    pc[Main] = "join" /\ (\A p \in Peers : conn[p] # "open") ~> proc # "up" \/ Stuck

\* README: on SIGINT/SIGTERM the server "signals worker threads to exit".  It
\* does, on whichever thread the signal is handled, unless the handler is stuck.
SignalClosesQueue == ~running ~> closed \/ proc # "up" \/ Stuck
=============================================================================
