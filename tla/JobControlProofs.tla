-------------------------- MODULE JobControlProofs --------------------------
(***************************************************************************)
(* Theorems about the job-control shell of lab 11, for any number of       *)
(* processes and any size of the job table.                                *)
(***************************************************************************)
EXTENDS JobControl, TLAPS

\* What main knows of the process and of the entry it works on.
MainInv ==
    /\ pc \in {"add", "give", "wait", "take", "fg", "fgcont", "fgmark", "bg", "bgmark"} => cur \in Pids
    /\ pc \in {"fg", "fgcont", "fgmark", "bg", "bgmark"} =>
          idx \in DOMAIN jobs /\ jobs[idx].pid = cur

\* The entry of a process has its pid.
EntryInv ==
    \A p \in Pids : entry[p] # 0 => entry[p] \in DOMAIN jobs /\ jobs[entry[p]].pid = p

IInv == TypeOK /\ MainInv /\ EntryInv /\ PromptHasTty /\ DoneIsDead /\ ChangeSignalled

\* A step that changes states of entries only.
Restated ==
    /\ jobs' \in Seq([pid : Pids, state : State]) /\ DOMAIN jobs' = DOMAIN jobs /\ Len(jobs') = Len(jobs)
    /\ \A i \in DOMAIN jobs : jobs'[i].pid = jobs[i].pid

\* The type of an entry.
LEMMA JobTypes ==
    ASSUME TypeOK
    PROVE  \A i \in DOMAIN jobs : jobs[i] \in [pid : Pids, state : State] /\ jobs[i].pid \in Pids
<1> DEFINE R == [pid : Pids, state : State]
<1>1. jobs \in Seq(R) BY DEF TypeOK
<1>2. \A i \in DOMAIN jobs : jobs[i] \in R
  <2> HIDE DEF R
  <2> QED BY <1>1
<1> QED BY <1>2

\* The handler's update keeps the pids; it marks entries of processes that have
\* ended DONE, and no others.
LEMMA UpdateKeeps ==
    ASSUME TypeOK, NEW C \in SUBSET Pids, jobs' = Update(C)
    PROVE  /\ Restated
           /\ \A i \in DOMAIN jobs : jobs'[i].state = "DONE" =>
                 jobs[i].state = "DONE" \/ ps[jobs[i].pid] = "zombie"
<1> DEFINE R == [pid : Pids, state : State]
<1>0. jobs \in Seq(R) BY DEF TypeOK
<1>1. \A i \in DOMAIN jobs : jobs[i] \in R BY JobTypes
<1>2. \A p \in Pids : NewState(p) \in State /\ (NewState(p) = "DONE" => ps[p] = "zombie")
  BY DEF NewState, State
<1>3. jobs' = [i \in DOMAIN jobs |->
                  IF \E p \in C : First(p, i)
                  THEN [jobs[i] EXCEPT !.state = NewState(jobs[i].pid)] ELSE jobs[i]]
  BY DEF Update
<1>4. \A i \in DOMAIN jobs : /\ jobs'[i] \in [pid : Pids, state : State] /\ jobs'[i].pid = jobs[i].pid
                             /\ jobs'[i].state \in {jobs[i].state, NewState(jobs[i].pid)}
  BY <1>1, <1>2, <1>3
<1>5. DOMAIN jobs' = 1..Len(jobs) /\ DOMAIN jobs = 1..Len(jobs) /\ Len(jobs) \in Nat
  BY <1>0, <1>3
<1>6. jobs' \in Seq(R) /\ Len(jobs') = Len(jobs)
  <2>1. jobs' = [i \in 1..Len(jobs) |-> jobs'[i]] BY <1>3, <1>5
  <2>2. \A i \in 1..Len(jobs) : jobs'[i] \in R BY <1>4, <1>5
  <2> HIDE DEF R
  <2> QED BY <1>5, <2>1, <2>2
<1> QED BY <1>1, <1>2, <1>3, <1>4, <1>6 DEF Restated

\* Initially.
LEMMA InitIInv == ASSUME Init PROVE IInv
<1> USE IdsAssumption, MaxJobsAssumption DEF Init
<1>1. jobs \in Seq([pid : Pids, state : State]) /\ Len(jobs) = 0 OBVIOUS
<1>2. TypeOK
  <2>1. wantsTty \in [Pids -> BOOLEAN] /\ entry \in [Pids -> 0..MaxJobs] OBVIOUS
  <2>2. pending \in BOOLEAN /\ stopped \in BOOLEAN /\ bg \in BOOLEAN OBVIOUS
  <2>3. idx \in 0..MaxJobs /\ 0 <= MaxJobs OBVIOUS
  <2>4. ps \in [Pids -> {"free", "fresh", "run", "stop", "zombie"}] OBVIOUS
  <2>5. report \in [Pids -> {"none", "stopped", "continued"}] OBVIOUS
  <2> QED BY <1>1, <2>1, <2>2, <2>3, <2>4, <2>5 DEF TypeOK
<1>3. MainInv /\ EntryInv /\ PromptHasTty /\ DoneIsDead /\ ChangeSignalled
  BY DEF MainInv, EntryInv, PromptHasTty, DoneIsDead, ChangeSignalled
<1> QED BY <1>2, <1>3 DEF IInv

\* Every step keeps the invariant.
LEMMA NextIInv == ASSUME IInv, [Next]_vars PROVE IInv'
<1> USE IdsAssumption, MaxJobsAssumption DEF IInv
<1>1. ASSUME NEW p \in Pids, Child(p) \/ CtrlZ(p) PROVE IInv'
  <2>1. /\ UNCHANGED <<jobs, entry, tty, stopped, pc, cur, idx, bg>>
        /\ ps[p] # "free" /\ \E v \in {"run", "stop", "zombie"} : ps' = [ps EXCEPT ![p] = v]
        /\ \/ report' = [report EXCEPT ![p] = "stopped"] /\ pending' = TRUE
           \/ report' = [report EXCEPT ![p] = "none"] /\ pending' = TRUE
           \/ UNCHANGED <<report, pending>> /\ ps' = [ps EXCEPT ![p] = "run"]
        /\ wantsTty' \in [Pids -> BOOLEAN]
    BY <1>1 DEF Child, ChildStart, ChildExit, CtrlZ, TypeOK
  <2>2. TypeOK' BY <2>1 DEF TypeOK
  <2>3. MainInv' /\ EntryInv' /\ PromptHasTty' BY <2>1 DEF MainInv, EntryInv, PromptHasTty
  <2>4. DoneIsDead' BY <2>1 DEF DoneIsDead, TypeOK
  <2>5. ChangeSignalled' BY <2>1 DEF ChangeSignalled, TypeOK
  <2> QED BY <2>2, <2>3, <2>4, <2>5
<1>2. CASE SigchldHandler
  <2> DEFINE C == {p \in Pids : ps[p] = "zombie" \/ report[p] # "none"}
  <2>1. /\ pending' = FALSE /\ jobs' = Update(C)
        /\ ps' = [p \in Pids |-> IF ps[p] = "zombie" THEN "free" ELSE ps[p]]
        /\ report' = [p \in Pids |-> "none"]
        /\ UNCHANGED <<wantsTty, entry, tty, stopped, pc, cur, idx, bg>>
    BY <1>2 DEF SigchldHandler
  <2>2. /\ Restated
        /\ \A i \in DOMAIN jobs : jobs'[i].state = "DONE" =>
              jobs[i].state = "DONE" \/ ps[jobs[i].pid] = "zombie"
    BY <2>1, UpdateKeeps
  <2>3. TypeOK' BY <2>1, <2>2 DEF TypeOK, Restated
  <2>4. MainInv' /\ EntryInv' BY <2>1, <2>2 DEF MainInv, EntryInv, Restated
  <2>5. PromptHasTty' /\ ChangeSignalled' BY <2>1 DEF PromptHasTty, ChangeSignalled
  <2>6. DoneIsDead' BY <2>1, <2>2 DEF DoneIsDead, EntryInv, TypeOK
  <2> QED BY <2>3, <2>4, <2>5, <2>6
<1>3. ASSUME NEW p \in Pids, NEW background \in BOOLEAN, Fork(p, background) PROVE IInv'
  <2>1. TypeOK' /\ MainInv' BY <1>3 DEF Fork, At, TypeOK, MainInv
  <2>2. EntryInv' /\ PromptHasTty' BY <1>3 DEF Fork, At, TypeOK, EntryInv, PromptHasTty
  <2>3. DoneIsDead' /\ ChangeSignalled' BY <1>3 DEF Fork, At, TypeOK, DoneIsDead, ChangeSignalled
  <2> QED BY <2>1, <2>2, <2>3
<1>4. CASE AddJob
  <2>1. pc = "add" /\ cur \in Pids BY <1>4 DEF AddJob, At, MainInv
  <2>2. CASE Len(jobs) < MaxJobs
    <3>1. /\ jobs' = Append(jobs, [pid |-> cur, state |-> "RUNNING"])
          /\ entry' = [entry EXCEPT ![cur] = Len(jobs) + 1]
          /\ pc' \in {"prompt", "give"}
          /\ UNCHANGED <<ps, report, wantsTty, pending, tty, stopped, cur, idx, bg>>
      BY <1>4, <2>2 DEF AddJob, At
    <3>2. TypeOK' BY <2>1, <2>2, <3>1 DEF TypeOK, State
    <3>3. /\ jobs'[Len(jobs) + 1] = [pid |-> cur, state |-> "RUNNING"]
          /\ Len(jobs) + 1 \in DOMAIN jobs'
          /\ \A i \in DOMAIN jobs : i \in DOMAIN jobs' /\ jobs'[i] = jobs[i]
      BY <3>1 DEF TypeOK
    <3>4. MainInv' /\ PromptHasTty' /\ ChangeSignalled'
      BY <2>1, <3>1 DEF MainInv, PromptHasTty, ChangeSignalled
    <3>5. EntryInv' BY <2>1, <3>1, <3>3 DEF EntryInv, TypeOK
    <3>6. DoneIsDead' BY <2>1, <3>1, <3>3 DEF DoneIsDead, EntryInv, TypeOK
    <3> QED BY <3>2, <3>4, <3>5, <3>6
  <2>3. CASE ~(Len(jobs) < MaxJobs)
    BY <1>4, <2>1, <2>3 DEF AddJob, At, TypeOK, MainInv, EntryInv, PromptHasTty, DoneIsDead, ChangeSignalled
  <2> QED BY <2>2, <2>3
<1>5. CASE Give("give", "wait") \/ Give("fg", "fgcont")
  BY <1>5 DEF Give, At, procVars, TypeOK, MainInv, EntryInv, PromptHasTty, DoneIsDead, ChangeSignalled
<1>6. CASE Wait
  <2>1. cur \in Pids BY <1>6 DEF Wait, At, MainInv
  <2> QED BY <1>6, <2>1 DEF Wait, At, TypeOK, MainInv, EntryInv, PromptHasTty, DoneIsDead, ChangeSignalled
<1>7. CASE Take \/ Exit \/ OuterFg
  BY <1>7 DEF Take, Exit, OuterFg, At, procVars, TypeOK, MainInv, EntryInv, PromptHasTty, DoneIsDead, ChangeSignalled
<1>8. ASSUME NEW i \in 1..MaxJobs, Builtin(i, "fg") \/ Builtin(i, "bg") PROVE IInv'
  <2>1. /\ i \in DOMAIN jobs /\ idx' = i /\ cur' = jobs[i].pid /\ pc = "prompt" /\ pc' \in {"fg", "bg"}
        /\ UNCHANGED <<jobs, procVars, pending, tty, stopped, bg>>
    BY <1>8 DEF Builtin, At
  <2>2. jobs[i].pid \in Pids BY <2>1, JobTypes
  <2>3. TypeOK' BY <2>1, <2>2 DEF TypeOK, procVars
  <2>4. MainInv' /\ PromptHasTty' BY <2>1, <2>2 DEF MainInv, PromptHasTty
  <2>5. EntryInv' /\ DoneIsDead' /\ ChangeSignalled'
    BY <2>1 DEF EntryInv, DoneIsDead, ChangeSignalled, procVars
  <2> QED BY <2>3, <2>4, <2>5
<1>9. CASE Continue("fgcont", "fgmark") \/ Continue("bg", "bgmark")
  <2>1. cur \in Pids BY <1>9 DEF Continue, At, MainInv
  <2>2. TypeOK' BY <1>9, <2>1 DEF Continue, At, TypeOK
  <2>3. MainInv' /\ EntryInv' /\ PromptHasTty' BY <1>9 DEF Continue, At, MainInv, EntryInv, PromptHasTty
  <2>4. DoneIsDead' BY <1>9, <2>1 DEF Continue, At, TypeOK, DoneIsDead
  <2>5. ChangeSignalled' BY <1>9, <2>1 DEF Continue, At, TypeOK, ChangeSignalled
  <2> QED BY <2>2, <2>3, <2>4, <2>5
<1>10. CASE MarkRunning("fgmark", "wait") \/ MarkRunning("bgmark", "prompt")
  <2>1. /\ idx \in DOMAIN jobs /\ jobs[idx].pid = cur /\ cur \in Pids
        /\ jobs' = [jobs EXCEPT ![idx].state = "RUNNING"]
        /\ UNCHANGED <<procVars, pending, tty, stopped, cur, idx, bg>>
        /\ \/ pc = "fgmark" /\ pc' = "wait"
           \/ pc = "bgmark" /\ pc' = "prompt"
    BY <1>10 DEF MarkRunning, At, MainInv
  <2>2. Restated /\ \A i \in DOMAIN jobs : jobs'[i].state \in {jobs[i].state, "RUNNING"}
    <3> DEFINE R == [pid : Pids, state : State]
    <3>1. jobs \in Seq(R) BY DEF TypeOK
    <3>2. jobs[idx] \in R BY <2>1, JobTypes
    <3>3. PICK r \in R : /\ r.pid = jobs[idx].pid /\ r.state = "RUNNING"
                         /\ jobs' = [jobs EXCEPT ![idx] = r]
      <4>1. jobs' = [jobs EXCEPT ![idx] = [jobs[idx] EXCEPT !.state = "RUNNING"]] BY <2>1
      <4>2. [jobs[idx] EXCEPT !.state = "RUNNING"] \in R BY <3>2 DEF State
      <4>3. /\ [jobs[idx] EXCEPT !.state = "RUNNING"].pid = jobs[idx].pid
            /\ [jobs[idx] EXCEPT !.state = "RUNNING"].state = "RUNNING"
        BY <3>2
      <4> QED BY <4>1, <4>2, <4>3
    <3> HIDE DEF R
    <3>4. /\ jobs' \in Seq(R) /\ DOMAIN jobs' = DOMAIN jobs /\ Len(jobs') = Len(jobs)
          /\ \A i \in DOMAIN jobs : jobs'[i] = IF i = idx THEN r ELSE jobs[i]
      BY <2>1, <3>1, <3>3
    <3> QED BY <3>3, <3>4 DEF Restated, R
  <2>3. TypeOK' BY <2>1, <2>2 DEF TypeOK, Restated, procVars
  <2>4. MainInv' /\ EntryInv' BY <2>1, <2>2 DEF MainInv, EntryInv, Restated, procVars
  <2>5. PromptHasTty' /\ ChangeSignalled' BY <2>1 DEF PromptHasTty, ChangeSignalled, procVars
  <2>6. DoneIsDead' BY <2>1, <2>2 DEF DoneIsDead, EntryInv, procVars
  <2> QED BY <2>3, <2>4, <2>5, <2>6
<1>11. CASE UNCHANGED vars
  BY <1>11 DEF vars, procVars, TypeOK, MainInv, EntryInv, PromptHasTty, DoneIsDead, ChangeSignalled
<1> QED BY <1>1, <1>2, <1>3, <1>4, <1>5, <1>6, <1>7, <1>8, <1>9, <1>10, <1>11
        DEF Next, Main, User, BringToForeground, ContinueInBackground

\* The inductive invariant holds throughout.
THEOREM Invariance == Spec => []IInv
<1>1. Init => IInv BY InitIInv
<1>2. IInv /\ [Next]_vars => IInv' BY NextIInv
<1> QED BY <1>1, <1>2, PTL DEF Spec

\* Every variable keeps its type, and the job table never outgrows MAX_JOBS.
THEOREM TypeCorrect == Spec => []TypeOK
  BY Invariance, PTL DEF IInv

\* Whenever the shell reads a command, forks or runs bg, the terminal is its own.
THEOREM TerminalReturns == Spec => []PromptHasTty
  BY Invariance, PTL DEF IInv

\* The entry of a process that has not ended is not marked DONE, although the
\* handler looks for it by pid and pids are reused.
THEOREM DoneMeansEnded == Spec => []DoneIsDead
  BY Invariance, PTL DEF IInv

\* No status change is left without a SIGCHLD to collect it.
THEOREM ChangesAreSignalled == Spec => []ChangeSignalled
  BY Invariance, PTL DEF IInv
=============================================================================
