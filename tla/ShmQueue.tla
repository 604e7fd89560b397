------------------------------ MODULE ShmQueue ------------------------------
(***************************************************************************)
(* 02_ipc/lab_04: the same exchange without semaphores.  The child polls   *)
(* the id of the next slot and then reads the slot; the parent stores the  *)
(* id before the text.                                                     *)
(***************************************************************************)
EXTENDS Naturals, Sequences

CONSTANT QueueLength    \* QUEUE_LENGTH

VARIABLES shm,        \* the slots: id, and whose text is stored (0: none)
          ppc, pi,    \* the parent's position and loop index
          cpc, ci,    \* the child's
          got         \* what the child has printed

vars == <<shm, ppc, pi, cpc, ci, got>>

Init == /\ shm = [k \in 1..QueueLength |-> [id |-> 0, text |-> 0]]
        /\ ppc = "id" /\ pi = 1
        /\ cpc = "poll" /\ ci = 1
        /\ got = <<>>

WriteId == /\ ppc = "id"
           /\ shm' = [shm EXCEPT ![pi].id = pi]
           /\ ppc' = "text"
           /\ UNCHANGED <<pi, cpc, ci, got>>

WriteText == /\ ppc = "text"
             /\ shm' = [shm EXCEPT ![pi].text = pi]
             /\ pi' = pi + 1
             /\ ppc' = IF pi = QueueLength THEN "wait" ELSE "id"
             /\ UNCHANGED <<cpc, ci, got>>

Reap == /\ ppc = "wait" /\ cpc = "done"
        /\ ppc' = "done"
        /\ UNCHANGED <<shm, pi, cpc, ci, got>>

\* while (shm[i].id == 0) usleep(1000);
Poll == /\ cpc = "poll" /\ shm[ci].id # 0
        /\ cpc' = "read"
        /\ UNCHANGED <<shm, ppc, pi, ci, got>>

ReadSlot == /\ cpc = "read"
            /\ got' = Append(got, shm[ci])
            /\ ci' = ci + 1
            /\ cpc' = IF ci = QueueLength THEN "done" ELSE "poll"
            /\ UNCHANGED <<shm, ppc, pi>>

Parent == WriteId \/ WriteText \/ Reap
Child == Poll \/ ReadSlot
Finished == ppc = "done" /\ cpc = "done" /\ UNCHANGED vars

Next == Parent \/ Child \/ Finished

\* Both processes are scheduled.
Spec == Init /\ [][Next]_vars /\ WF_vars(Parent) /\ WF_vars(Child)

\* README: "Synchronize simply by checking `id != 0`", with the expected output
\* "[CHILD] Read message 1: Hello Child via shared memory 1": the text read is
\* the text of the message.
TextIsWhole == \A k \in DOMAIN got : got[k].text = k
=============================================================================
