--------------------------- MODULE SemQueueProofs ---------------------------
(* Theorems about SemQueue for every queue length. *)
EXTENDS SemQueue, TLAPS

InP == ppc \in {"id", "text", "unlock"}
InC == cpc \in {"read", "clear", "unlock"}

\* The mutex is taken exactly by the process in its critical section.
MutexInv == (mutex = 0 <=> InP \/ InC) /\ ~(InP /\ InC)

\* Loop indices run past the queue exactly when the loops are over.
IndexInv == /\ ppc \in {"wait", "done"} <=> pi = QueueLength + 1
            /\ cpc = "done" <=> ci = QueueLength + 1

\* What the counting semaphores count: slots announced and not yet claimed by
\* the child; slots not claimed by the parent plus those the child gave back.
Taken == IF cpc \in {"full", "done"} THEN ci - 1 ELSE ci
Claimed == IF ppc \in {"empty", "wait", "done"} THEN pi - 1 ELSE pi
CountInv == /\ full + Taken = pi - 1
            /\ empty + Claimed = QueueLength + (ci - 1)

GotInv == Len(got) = IF cpc \in {"clear", "unlock", "post"} THEN ci ELSE ci - 1

\* Every announced slot not yet read is whole, and the slot being written is
\* whole once the text is stored.
SlotInv == /\ \A k \in 1..QueueLength : Len(got) < k /\ k < pi => messages[k] = H!Whole(k)
           /\ ppc \in {"text", "unlock", "full"} => messages[pi].id = pi
           /\ ppc \in {"unlock", "full"} => messages[pi].text = pi

IInv == TypeOK /\ MutexInv /\ IndexInv /\ CountInv /\ GotInv /\ SlotInv

\* The invariant holds initially.
LEMMA InitInv == Init => IInv
<1> SUFFICES ASSUME Init PROVE IInv
  OBVIOUS
<1> USE LengthAssumption DEF Init
<1>1. TypeOK
  <2>1. messages \in [1..QueueLength -> Slot] BY DEF Slot
  <2> QED BY <2>1 DEF TypeOK, ParentPc, ChildPc
<1>2. MutexInv /\ IndexInv /\ CountInv /\ GotInv
  BY DEF MutexInv, IndexInv, CountInv, GotInv, InP, InC, Taken, Claimed
<1>3. SlotInv BY DEF SlotInv
<1> QED BY <1>1, <1>2, <1>3 DEF IInv

\* The parent's index is a slot while it writes, the child's while it reads,
\* and the child only reads slots that have been announced.
LEMMA Indices ==
    ASSUME IInv
    PROVE /\ ppc \in {"empty", "lock", "id", "text", "unlock", "full"} => pi \in 1..QueueLength
          /\ cpc # "done" => ci \in 1..QueueLength
          /\ cpc \in {"lock", "read", "clear", "unlock", "post"} => ci < pi
  BY LengthAssumption DEF IInv, TypeOK, ParentPc, ChildPc, IndexInv, CountInv, Taken

\* Every step keeps what the semaphores count.
LEMMA CounterStep == IInv /\ [Next]_vars => (MutexInv /\ IndexInv /\ CountInv)'
<1> SUFFICES ASSUME IInv, [Next]_vars PROVE (MutexInv /\ IndexInv /\ CountInv)'
  OBVIOUS
<1> USE LengthAssumption, Indices
    DEF IInv, TypeOK, ParentPc, ChildPc, MutexInv, InP, InC, IndexInv, CountInv, Taken, Claimed
<1>1. CASE WaitEmpty BY <1>1 DEF WaitEmpty
<1>2. CASE LockP BY <1>2 DEF LockP
<1>3. CASE WriteId BY <1>3 DEF WriteId
<1>4. CASE WriteText BY <1>4 DEF WriteText
<1>5. CASE UnlockP BY <1>5 DEF UnlockP
<1>6. CASE PostFull BY <1>6 DEF PostFull
<1>7. CASE Reap BY <1>7 DEF Reap
<1>8. CASE WaitFull BY <1>8 DEF WaitFull
<1>9. CASE LockC BY <1>9 DEF LockC
<1>10. CASE ReadSlot BY <1>10 DEF ReadSlot
<1>11. CASE ClearSlot BY <1>11 DEF ClearSlot
<1>12. CASE UnlockC BY <1>12 DEF UnlockC
<1>13. CASE PostEmpty BY <1>13 DEF PostEmpty
<1>14. CASE UNCHANGED vars BY <1>14 DEF vars
<1> QED BY <1>1, <1>2, <1>3, <1>4, <1>5, <1>6, <1>7, <1>8, <1>9, <1>10, <1>11, <1>12, <1>13, <1>14
        DEF Next, Parent, Child, Finished

\* Storing a message number in one field of a slot leaves a slot.
LEMMA SlotUpdate ==
    ASSUME NEW s \in Slot, NEW v \in 0..QueueLength
    PROVE  [s EXCEPT !.id = v] \in Slot /\ [s EXCEPT !.text = v] \in Slot
  BY DEF Slot

\* Every step keeps the semaphores within their bounds.
LEMMA TypeStep == IInv /\ [Next]_vars => TypeOK'
<1> SUFFICES ASSUME IInv, [Next]_vars PROVE TypeOK'
  OBVIOUS
<1>0. CountInv' BY CounterStep
<1> USE LengthAssumption, Indices DEF IInv, TypeOK, ParentPc, ChildPc
<1>1. CASE WaitEmpty BY <1>1 DEF WaitEmpty
<1>2. CASE LockP BY <1>2 DEF LockP
<1>3. CASE WriteId
  <2>1. messages' = [messages EXCEPT ![pi] = [messages[pi] EXCEPT !.id = pi]]
        /\ pi \in 1..QueueLength
    BY <1>3 DEF WriteId
  <2>2. messages[pi] \in Slot /\ pi \in 0..QueueLength BY <2>1
  <2>3. [messages[pi] EXCEPT !.id = pi] \in Slot BY <2>2, SlotUpdate
  <2>4. messages' \in [1..QueueLength -> Slot] BY <2>1, <2>3
  <2> QED BY <1>3, <2>4 DEF WriteId
<1>4. CASE WriteText
  <2>1. messages' = [messages EXCEPT ![pi] = [messages[pi] EXCEPT !.text = pi]]
        /\ pi \in 1..QueueLength
    BY <1>4 DEF WriteText
  <2>2. messages[pi] \in Slot /\ pi \in 0..QueueLength BY <2>1
  <2>3. [messages[pi] EXCEPT !.text = pi] \in Slot BY <2>2, SlotUpdate
  <2>4. messages' \in [1..QueueLength -> Slot] BY <2>1, <2>3
  <2> QED BY <1>4, <2>4 DEF WriteText
<1>5. CASE UnlockP BY <1>5 DEF UnlockP, MutexInv, InP
<1>6. CASE PostFull BY <1>6, <1>0 DEF PostFull, CountInv, Taken
<1>7. CASE Reap BY <1>7 DEF Reap
<1>8. CASE WaitFull BY <1>8 DEF WaitFull
<1>9. CASE LockC BY <1>9 DEF LockC
<1>10. CASE ReadSlot
  <2>1. messages[ci] \in Slot BY <1>10 DEF ReadSlot
  <2>2. got' \in Seq(Slot) BY <1>10, <2>1 DEF ReadSlot
  <2> QED BY <1>10, <2>2 DEF ReadSlot
<1>11. CASE ClearSlot
  <2>1. messages' = [messages EXCEPT ![ci] = [messages[ci] EXCEPT !.id = 0]]
        /\ ci \in 1..QueueLength
    BY <1>11 DEF ClearSlot
  <2>2. messages[ci] \in Slot /\ 0 \in 0..QueueLength BY <2>1
  <2>3. [messages[ci] EXCEPT !.id = 0] \in Slot BY <2>2, SlotUpdate
  <2>4. messages' \in [1..QueueLength -> Slot] BY <2>1, <2>3
  <2> QED BY <1>11, <2>4 DEF ClearSlot
<1>12. CASE UnlockC BY <1>12 DEF UnlockC, MutexInv, InC
<1>13. CASE PostEmpty BY <1>13, <1>0 DEF PostEmpty, CountInv, Claimed
<1>14. CASE UNCHANGED vars BY <1>14 DEF vars
<1> QED BY <1>1, <1>2, <1>3, <1>4, <1>5, <1>6, <1>7, <1>8, <1>9, <1>10, <1>11, <1>12, <1>13, <1>14
        DEF Next, Parent, Child, Finished

\* Every step keeps announced slots whole and what was got in order.
LEMMA SlotStep == IInv /\ [Next]_vars => (GotInv /\ SlotInv)'
<1> SUFFICES ASSUME IInv, [Next]_vars PROVE (GotInv /\ SlotInv)'
  OBVIOUS
<1> USE LengthAssumption, Indices DEF IInv, TypeOK, ParentPc, ChildPc, GotInv, SlotInv, H!Whole
<1>1. CASE WaitEmpty BY <1>1 DEF WaitEmpty
<1>2. CASE LockP BY <1>2 DEF LockP
<1>3. CASE WriteId BY <1>3 DEF WriteId
<1>4. CASE WriteText BY <1>4 DEF WriteText
<1>5. CASE UnlockP BY <1>5 DEF UnlockP
<1>6. CASE PostFull
  <2>1. messages[pi] \in Slot /\ messages[pi].id = pi /\ messages[pi].text = pi
    BY <1>6 DEF PostFull
  <2>2. messages[pi] = H!Whole(pi) BY <2>1 DEF Slot
  <2> QED BY <1>6, <2>2 DEF PostFull
<1>7. CASE Reap BY <1>7 DEF Reap
<1>8. CASE WaitFull BY <1>8 DEF WaitFull
<1>9. CASE LockC BY <1>9 DEF LockC
<1>10. CASE ReadSlot
  <2>1. Len(got') = Len(got) + 1 /\ UNCHANGED <<messages, pi, ppc, ci>> BY <1>10 DEF ReadSlot
  <2> QED BY <1>10, <2>1 DEF ReadSlot
<1>11. CASE ClearSlot
  <2>1. \A k \in 1..QueueLength : k # ci => messages'[k] = messages[k] BY <1>11 DEF ClearSlot
  <2>2. Len(got) = ci /\ ci < pi BY <1>11 DEF ClearSlot
  <2> QED BY <1>11, <2>1, <2>2 DEF ClearSlot
<1>12. CASE UnlockC BY <1>12 DEF UnlockC
<1>13. CASE PostEmpty BY <1>13 DEF PostEmpty
<1>14. CASE UNCHANGED vars BY <1>14 DEF vars
<1> QED BY <1>1, <1>2, <1>3, <1>4, <1>5, <1>6, <1>7, <1>8, <1>9, <1>10, <1>11, <1>12, <1>13, <1>14
        DEF Next, Parent, Child, Finished

\* The invariant holds throughout.
LEMMA Invariant == Spec => []IInv
<1>1. IInv /\ [Next]_vars => IInv' BY CounterStep, TypeStep, SlotStep DEF IInv
<1> QED BY <1>1, InitInv, PTL DEF Spec

\* The semaphores stay within their bounds, whatever the queue's length.
THEOREM TypeCorrect == Spec => []TypeOK
<1>1. IInv => TypeOK BY DEF IInv
<1> QED BY <1>1, Invariant, PTL

\* Parent and child exclude each other from the slots.
THEOREM MutualExclusion == Spec => []Exclusion
<1>1. IInv => Exclusion BY DEF IInv, MutexInv, InP, InC, Exclusion
<1> QED BY <1>1, Invariant, PTL

\* The exchange implements Handoff: whole messages, in order, none early.
THEOREM DeliversTheorem == Spec => Delivers
<1>1. Init => H!HInit BY DEF Init, H!HInit
<1>2. IInv /\ [Next]_vars => [H!Write \/ H!Read]_(H!hvars)
  <2> SUFFICES ASSUME IInv, [Next]_vars PROVE [H!Write \/ H!Read]_(H!hvars)
    OBVIOUS
  <2> USE LengthAssumption, Indices DEF IInv, TypeOK, ParentPc, ChildPc, H!hvars
  <2>1. CASE PostFull
    <3>1. H!Write BY <2>1 DEF PostFull, H!Write
    <3> QED BY <3>1
  <2>2. CASE ReadSlot
    <3>1. Len(got) = ci - 1 /\ ci < pi /\ ci \in 1..QueueLength BY <2>2 DEF ReadSlot, GotInv
    <3>2. messages[ci] = H!Whole(ci) BY <3>1 DEF SlotInv
    <3>3. H!Read BY <2>2, <3>1, <3>2 DEF ReadSlot, H!Read
    <3> QED BY <3>3
  <2>3. CASE WaitEmpty \/ LockP \/ WriteId \/ WriteText \/ UnlockP \/ Reap
    BY <2>3 DEF WaitEmpty, LockP, WriteId, WriteText, UnlockP, Reap
  <2>4. CASE WaitFull \/ LockC \/ ClearSlot \/ UnlockC \/ PostEmpty
    BY <2>4 DEF WaitFull, LockC, ClearSlot, UnlockC, PostEmpty
  <2>5. CASE UNCHANGED vars BY <2>5 DEF vars
  <2> QED BY <2>1, <2>2, <2>3, <2>4, <2>5 DEF Next, Parent, Child, Finished
<1> QED BY <1>1, <1>2, Invariant, PTL DEF Spec, Delivers, H!HSpec
=============================================================================
