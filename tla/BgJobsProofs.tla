---------------------------- MODULE BgJobsProofs ----------------------------
(* Theorems about BgJobs for any table size and any set of pids. *)
EXTENDS BgJobs, TLAPS

\* add_job works on a slot that is inactive, and has stored its own pid there
\* before it sets the flag; the child it records is the one fork returned.
AddJobInv == /\ pc \in {"setpid", "setactive"} => ~jobs[slot].active
             /\ pc = "setactive" => jobs[slot].pid = cur
             /\ pc \in {"scan", "setpid", "setactive", "waitfg"} => cur \in Pids

IInv == TypeOK /\ AddJobInv /\ RunningIsListed

\* The invariant holds initially.
LEMMA InitInv == Init => IInv
<1> SUFFICES ASSUME Init PROVE IInv
  OBVIOUS
<1>1. 1 \in Slots BY MaxJobsAssumption DEF Slots
<1>2. jobs \in [Slots -> [pid : Pids \cup {NoPid}, active : BOOLEAN]] BY DEF Init
<1> QED BY <1>1, <1>2 DEF Init, IInv, TypeOK, AddJobInv, RunningIsListed

\* Every step preserves the invariant.
LEMMA InvStep == IInv /\ [Next]_vars => IInv'
<1> SUFFICES ASSUME IInv, [Next]_vars PROVE IInv'
  OBVIOUS
<1> USE PidsAssumption, MaxJobsAssumption DEF IInv, TypeOK, AddJobInv, RunningIsListed
<1>1. ASSUME NEW p \in Pids, NEW kind \in {"bg", "fg"}, Fork(p, kind) PROVE IInv'
  BY <1>1 DEF Fork
<1>2. CASE Exit BY <1>2 DEF Exit
<1>3. CASE Scan BY <1>3 DEF Scan, FirstFree
<1>4. CASE SetPid BY <1>4 DEF SetPid
<1>5. CASE SetActive
  <2>1. jobs' \in [Slots -> [pid : Pids \cup {NoPid}, active : BOOLEAN]]
    <3>1. jobs' = [jobs EXCEPT ![slot] = [jobs[slot] EXCEPT !.active = TRUE]]
      BY <1>5 DEF SetActive
    <3>2. jobs[slot] \in [pid : Pids \cup {NoPid}, active : BOOLEAN] OBVIOUS
    <3>3. \A r \in [pid : Pids \cup {NoPid}, active : BOOLEAN] :
             [r EXCEPT !.active = TRUE] \in [pid : Pids \cup {NoPid}, active : BOOLEAN]
      OBVIOUS
    <3> QED BY <3>1, <3>2, <3>3
  <2>2. \A i \in Slots : /\ jobs'[i].pid = jobs[i].pid
                         /\ jobs[i].active => jobs'[i].active
    BY <1>5 DEF SetActive
  <2>3. jobs'[slot].active /\ jobs'[slot].pid = cur BY <1>5 DEF SetActive
  <2> QED BY <1>5, <2>1, <2>2, <2>3 DEF SetActive
<1>6. CASE WaitFg BY <1>6 DEF WaitFg
<1>7. ASSUME NEW p \in Pids, ChildExit(p) PROVE IInv' BY <1>7 DEF ChildExit
<1>8. CASE SigchldHandler
  <2>1. \A i \in Slots : /\ jobs'[i] \in [pid : Pids \cup {NoPid}, active : BOOLEAN]
                         /\ jobs'[i].pid = jobs[i].pid
                         /\ jobs'[i].active => jobs[i].active
                         /\ ps[jobs[i].pid] # "zombie" => jobs'[i] = jobs[i]
    <3> SUFFICES ASSUME NEW i \in Slots
                 PROVE  /\ jobs'[i] \in [pid : Pids \cup {NoPid}, active : BOOLEAN]
                        /\ jobs'[i].pid = jobs[i].pid
                        /\ jobs'[i].active => jobs[i].active
                        /\ ps[jobs[i].pid] # "zombie" => jobs'[i] = jobs[i]
      OBVIOUS
    <3>1. jobs'[i] = jobs[i] \/ (jobs'[i] = [jobs[i] EXCEPT !.active = FALSE]
                                 /\ ps[jobs[i].pid] = "zombie")
      BY <1>8 DEF SigchldHandler, ClearFirst
    <3>2. jobs[i] \in [pid : Pids \cup {NoPid}, active : BOOLEAN] OBVIOUS
    <3> QED BY <3>1, <3>2
  <2>2. jobs' \in [Slots -> [pid : Pids \cup {NoPid}, active : BOOLEAN]]
    BY <1>8, <2>1 DEF SigchldHandler, ClearFirst
  <2>3. /\ ps' \in [Pids -> {"free", "bg", "fg", "zombie"}]
        /\ \A p \in Pids : ps'[p] = "bg" => ps[p] = "bg"
        /\ UNCHANGED <<pc, cur, slot, refused>> /\ pending' \in BOOLEAN
    BY <1>8 DEF SigchldHandler
  <2> QED BY <2>1, <2>2, <2>3
<1>9. CASE UNCHANGED vars BY <1>9 DEF vars
<1> QED BY <1>1, <1>2, <1>3, <1>4, <1>5, <1>6, <1>7, <1>8, <1>9 DEF Next, Main

\* The invariant holds throughout.
LEMMA Invariant == Spec => []IInv
  BY InitInv, InvStep, PTL DEF Spec

\* Whatever the interleaving of add_job with the handler and however pids are
\* reused, a running background child that was accepted stays on the list.
THEOREM RunningStaysListed == Spec => []RunningIsListed
<1>1. IInv => RunningIsListed BY DEF IInv
<1> QED BY <1>1, Invariant, PTL

\* A zombie always has a SIGCHLD pending that will reap it.
THEOREM ZombiesAreSignalled == Spec => []ZombieSignalled
<1>1. Init => ZombieSignalled BY DEF Init, ZombieSignalled
<1>2. ASSUME IInv, ZombieSignalled, [Next]_vars PROVE ZombieSignalled'
  <2> USE <1>2 DEF IInv, TypeOK, ZombieSignalled
  <2>1. CASE SigchldHandler
    <3>1. \A p \in Pids : ps'[p] # "zombie" BY <2>1 DEF SigchldHandler
    <3> QED BY <3>1
  <2>2. ASSUME NEW p \in Pids, ChildExit(p) PROVE ZombieSignalled' BY <2>2 DEF ChildExit
  <2>3. ASSUME NEW p \in Pids, NEW kind \in {"bg", "fg"}, Fork(p, kind) PROVE ZombieSignalled'
    BY <2>3 DEF Fork
  <2>4. CASE Exit BY <2>4 DEF Exit
  <2>5. CASE Main BY <2>5 DEF Main, Scan, SetPid, SetActive, WaitFg
  <2>6. CASE UNCHANGED vars BY <2>6 DEF vars
  <2> QED BY <1>2, <2>1, <2>2, <2>3, <2>4, <2>5, <2>6 DEF Next
<1> QED BY <1>1, <1>2, Invariant, PTL DEF Spec
=============================================================================
