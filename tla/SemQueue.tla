------------------------------ MODULE SemQueue ------------------------------
(***************************************************************************)
(* 02_ipc/lab_05: a parent writes QUEUE_LENGTH messages into shared memory *)
(* and a forked child reads them, synchronised by the unnamed semaphores   *)
(* mutex, empty and full.  One step is one semaphore call or one access to *)
(* the shared slots.                                                       *)
(***************************************************************************)
EXTENDS Naturals, Sequences

CONSTANT QueueLength    \* QUEUE_LENGTH, the slots and the messages

ASSUME LengthAssumption == QueueLength \in Nat \ {0}

VARIABLES mutex, empty, full,   \* the semaphores' values
          messages,             \* the slots: id, and whose text is stored (0: none)
          ppc, pi,              \* the parent's position and loop index
          cpc, ci,              \* the child's
          got                   \* what the child has printed

vars == <<mutex, empty, full, messages, ppc, pi, cpc, ci, got>>

Init == /\ mutex = 1 /\ empty = QueueLength /\ full = 0
        /\ messages = [k \in 1..QueueLength |-> [id |-> 0, text |-> 0]]
        /\ ppc = "empty" /\ pi = 1
        /\ cpc = "full" /\ ci = 1
        /\ got = <<>>
-----------------------------------------------------------------------------
(* The parent: producer *)

WaitEmpty == /\ ppc = "empty" /\ empty > 0
             /\ empty' = empty - 1
             /\ ppc' = "lock"
             /\ UNCHANGED <<mutex, full, messages, pi, cpc, ci, got>>

LockP == /\ ppc = "lock" /\ mutex > 0
         /\ mutex' = mutex - 1
         /\ ppc' = "id"
         /\ UNCHANGED <<empty, full, messages, pi, cpc, ci, got>>

WriteId == /\ ppc = "id"
           /\ messages' = [messages EXCEPT ![pi].id = pi]
           /\ ppc' = "text"
           /\ UNCHANGED <<mutex, empty, full, pi, cpc, ci, got>>

WriteText == /\ ppc = "text"
             /\ messages' = [messages EXCEPT ![pi].text = pi]
             /\ ppc' = "unlock"
             /\ UNCHANGED <<mutex, empty, full, pi, cpc, ci, got>>

\* Mutant: the slot is announced before the mutex is given back and never unlocked.
MutUnlockP == /\ ppc = "unlock"
              /\ ppc' = "full"
              /\ UNCHANGED <<mutex, empty, full, messages, pi, cpc, ci, got>>

UnlockP == /\ ppc = "unlock"
           /\ mutex' = mutex + 1
           /\ ppc' = "full"
           /\ UNCHANGED <<empty, full, messages, pi, cpc, ci, got>>

\* sem_post(full), and on to the next message or to wait(NULL).
PostFull == /\ ppc = "full"
            /\ full' = full + 1
            /\ pi' = pi + 1
            /\ ppc' = IF pi = QueueLength THEN "wait" ELSE "empty"
            /\ UNCHANGED <<mutex, empty, messages, cpc, ci, got>>

\* wait(NULL) returns when the child has exited; then the semaphores go.
Reap == /\ ppc = "wait" /\ cpc = "done"
        /\ ppc' = "done"
        /\ UNCHANGED <<mutex, empty, full, messages, pi, cpc, ci, got>>
-----------------------------------------------------------------------------
(* The child: consumer *)

\* Mutant: the child waits on empty where it should wait on full.
MutWaitFull == /\ cpc = "full" /\ empty > 0
               /\ empty' = empty - 1
               /\ cpc' = "lock"
               /\ UNCHANGED <<mutex, full, messages, ppc, pi, ci, got>>

WaitFull == /\ cpc = "full" /\ full > 0
            /\ full' = full - 1
            /\ cpc' = "lock"
            /\ UNCHANGED <<mutex, empty, messages, ppc, pi, ci, got>>

\* Mutant: the child does not wait for the mutex.
MutLockC == /\ cpc = "lock"
            /\ cpc' = "read"
            /\ UNCHANGED <<mutex, empty, full, messages, ppc, pi, ci, got>>

LockC == /\ cpc = "lock" /\ mutex > 0
         /\ mutex' = mutex - 1
         /\ cpc' = "read"
         /\ UNCHANGED <<empty, full, messages, ppc, pi, ci, got>>

ReadSlot == /\ cpc = "read"
            /\ got' = Append(got, messages[ci])
            /\ cpc' = "clear"
            /\ UNCHANGED <<mutex, empty, full, messages, ppc, pi, ci>>

ClearSlot == /\ cpc = "clear"
             /\ messages' = [messages EXCEPT ![ci].id = 0]
             /\ cpc' = "unlock"
             /\ UNCHANGED <<mutex, empty, full, ppc, pi, ci, got>>

UnlockC == /\ cpc = "unlock"
           /\ mutex' = mutex + 1
           /\ cpc' = "post"
           /\ UNCHANGED <<empty, full, messages, ppc, pi, ci, got>>

PostEmpty == /\ cpc = "post"
             /\ empty' = empty + 1
             /\ ci' = ci + 1
             /\ cpc' = IF ci = QueueLength THEN "done" ELSE "full"
             /\ UNCHANGED <<mutex, full, messages, ppc, pi, got>>
-----------------------------------------------------------------------------
Parent == WaitEmpty \/ LockP \/ WriteId \/ WriteText \/ UnlockP \/ PostFull \/ Reap
Child == WaitFull \/ LockC \/ ReadSlot \/ ClearSlot \/ UnlockC \/ PostEmpty
Finished == ppc = "done" /\ cpc = "done" /\ UNCHANGED vars

Next == Parent \/ Child \/ Finished

\* Both processes are scheduled; a semaphore posted again and again is obtained.
Spec == Init /\ [][Next]_vars
FairSpec == Spec /\ SF_vars(Parent) /\ SF_vars(Child)

ParentPc == {"empty", "lock", "id", "text", "unlock", "full", "wait", "done"}
ChildPc == {"full", "lock", "read", "clear", "unlock", "post", "done"}
Slot == [id : 0..QueueLength, text : 0..QueueLength]

\* The types of the variables; no semaphore ever exceeds its start or the queue.
TypeOK == /\ mutex \in 0..1 /\ empty \in 0..QueueLength /\ full \in 0..QueueLength
          /\ messages \in [1..QueueLength -> Slot]
          /\ ppc \in ParentPc /\ pi \in 1..QueueLength+1
          /\ cpc \in ChildPc /\ ci \in 1..QueueLength+1
          /\ got \in Seq(Slot)

\* The two never touch the slots at the same time.
Exclusion == ~(ppc \in {"id", "text", "unlock"} /\ cpc \in {"read", "clear", "unlock"})

\* The semaphore protocol delivers every message whole, in order and not
\* before it was announced by sem_post(full).
H == INSTANCE Handoff WITH N <- QueueLength, written <- pi - 1, read <- got
Delivers == H!HSpec

\* Neither process is left waiting for the other: both end.
BothEnd == <>(ppc = "done" /\ cpc = "done")
=============================================================================
