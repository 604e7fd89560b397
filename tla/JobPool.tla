------------------------------ MODULE JobPool ------------------------------
(***************************************************************************)
(* What the job queue of the thread-pool chat server promises, without     *)
(* mutexes, condition variables, threads' program counters or signals:     *)
(* every accepted connection is handed to at most one worker, in the order *)
(* of arrival, is nobody else's while that worker has it, and no worker    *)
(* leaves the pool before the server has been told to stop.                *)
(***************************************************************************)
EXTENDS Naturals, Sequences

CONSTANTS Workers, Fds, None

VARIABLES queue,     \* connections waiting for a worker, oldest first
          hands,     \* the connection each worker has, or None
          gone,      \* workers that have left the pool
          stopping   \* whether the server has been told to stop

pvars == <<queue, hands, gone, stopping>>

Waiting == {queue[i] : i \in DOMAIN queue}

PInit == /\ queue = <<>>
         /\ hands = [w \in Workers |-> None]
         /\ gone = {}
         /\ stopping = FALSE

\* A connection that nobody has joins the end of the queue.
Put(f) == /\ f \notin Waiting
          /\ \A w \in Workers : hands[w] # f
          /\ queue' = Append(queue, f)
          /\ UNCHANGED <<hands, gone, stopping>>

\* A free worker takes the oldest connection.
Take(w) == /\ w \notin gone
           /\ hands[w] = None
           /\ queue # <<>>
           /\ hands' = [hands EXCEPT ![w] = Head(queue)]
           /\ queue' = Tail(queue)
           /\ UNCHANGED <<gone, stopping>>

Release(w) == /\ hands[w] # None
              /\ hands' = [hands EXCEPT ![w] = None]
              /\ UNCHANGED <<queue, gone, stopping>>

Stop == /\ stopping' = TRUE
        /\ UNCHANGED <<queue, hands, gone>>

Leave(w) == /\ stopping
            /\ hands[w] = None
            /\ gone' = gone \cup {w}
            /\ UNCHANGED <<queue, hands, stopping>>

PNext == \/ \E f \in Fds : Put(f)
         \/ \E w \in Workers : Take(w) \/ Release(w) \/ Leave(w)
         \/ Stop

PSpec == PInit /\ [][PNext]_pvars
=============================================================================
