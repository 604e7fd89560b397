------------------------------- MODULE BgJobs -------------------------------
(***************************************************************************)
(* The background-job shell of 01_processes/lab07: a fixed job table that  *)
(* main fills in add_job and the SIGCHLD handler clears, the handler       *)
(* running between any two statements of main.                             *)
(***************************************************************************)
EXTENDS Naturals

CONSTANTS Pids,     \* process ids the kernel hands out, and reuses once reaped
          NoPid,    \* the pid of a slot never used (0 in the code)
          MaxJobs   \* MAX_JOBS

ASSUME PidsAssumption == NoPid \notin Pids
ASSUME MaxJobsAssumption == MaxJobs \in Nat \ {0}

Slots == 1..MaxJobs

VARIABLES jobs,    \* the table: pid and active flag of each slot
          ps,      \* kernel state of each pid: "free", "bg", "fg" or "zombie"
          pending, \* whether SIGCHLD is pending for the shell
          pc,      \* where main is
          cur,     \* the pid fork returned last
          slot,    \* the slot add_job is filling
          refused  \* children that found the table full

vars == <<jobs, ps, pending, pc, cur, slot, refused>>

Init == /\ jobs = [i \in Slots |-> [pid |-> NoPid, active |-> FALSE]]
        /\ ps = [p \in Pids |-> "free"]
        /\ pending = FALSE
        /\ pc = "prompt"
        /\ cur = NoPid
        /\ slot = 1
        /\ refused = {}

\* A command line: fork a foreground or a background ("&") child.
Fork(p, kind) ==
    /\ pc = "prompt" /\ ps[p] = "free"
    /\ ps' = [ps EXCEPT ![p] = kind]
    /\ cur' = p
    /\ refused' = refused \ {p}
    /\ pc' = IF kind = "bg" THEN "scan" ELSE "waitfg"
    /\ UNCHANGED <<jobs, pending, slot>>

Exit == /\ pc = "prompt"
        /\ pc' = "exited"
        /\ UNCHANGED <<jobs, ps, pending, cur, slot, refused>>

FirstFree(i) == ~jobs[i].active /\ \A j \in 1..i-1 : jobs[j].active

\* Mutant: a full table makes add_job overwrite its last slot.
MutScanOverwrites ==
    /\ pc = "scan" /\ pc' = "setpid"
    /\ \E i \in Slots : /\ FirstFree(i) \/ (i = MaxJobs /\ \A j \in Slots : jobs[j].active)
                        /\ slot' = i
    /\ UNCHANGED <<jobs, ps, pending, cur, refused>>

\* add_job looks for the first inactive slot; if there is none the job is not
\* recorded ("Job list full!").
Scan ==
    /\ pc = "scan"
    /\ \/ /\ \E i \in Slots : FirstFree(i) /\ slot' = i
          /\ pc' = "setpid"
          /\ UNCHANGED refused
       \/ /\ \A i \in Slots : jobs[i].active
          /\ refused' = refused \cup {cur}
          /\ pc' = "prompt"
          /\ UNCHANGED slot
    /\ UNCHANGED <<jobs, ps, pending, cur>>

\* ... then stores the pid, then sets the flag.
SetPid == /\ pc = "setpid"
          /\ jobs' = [jobs EXCEPT ![slot].pid = cur]
          /\ pc' = "setactive"
          /\ UNCHANGED <<ps, pending, cur, slot, refused>>

SetActive == /\ pc = "setactive"
             /\ jobs' = [jobs EXCEPT ![slot].active = TRUE]
             /\ pc' = "prompt"
             /\ UNCHANGED <<ps, pending, cur, slot, refused>>

\* waitpid on the foreground child: it reaps it, or fails with ECHILD when the
\* handler was faster.
WaitFg == /\ pc = "waitfg" /\ ps[cur] \in {"zombie", "free"}
          /\ ps' = [ps EXCEPT ![cur] = "free"]
          /\ pc' = "prompt"
          /\ UNCHANGED <<jobs, pending, cur, slot, refused>>

ChildExit(p) == /\ ps[p] \in {"bg", "fg"}
                /\ ps' = [ps EXCEPT ![p] = "zombie"]
                /\ pending' = TRUE
                /\ UNCHANGED <<jobs, pc, cur, slot, refused>>

\* The table after the handler has reaped Z: the first slot with each pid,
\* active or not, is cleared.
ClearFirst(Z) ==
    [i \in Slots |->
        IF jobs[i].pid \in Z /\ \A j \in 1..i-1 : jobs[j].pid # jobs[i].pid
        THEN [jobs[i] EXCEPT !.active = FALSE]
        ELSE jobs[i]]

\* Mutant: the handler calls waitpid once per signal.
MutReapOne ==
    /\ pending /\ pc # "exited"
    /\ pending' = FALSE
    /\ \E z \in {p \in Pids : ps[p] = "zombie"} :
          ps' = [ps EXCEPT ![z] = "free"] /\ jobs' = ClearFirst({z})
    /\ UNCHANGED <<pc, cur, slot, refused>>

\* sigchld_handler reaps every zombie.  It runs to completion on main's stack.
SigchldHandler ==
    LET Z == {p \in Pids : ps[p] = "zombie"}
    IN  /\ pending /\ pc # "exited"
        /\ pending' = FALSE
        /\ ps' = [p \in Pids |-> IF p \in Z THEN "free" ELSE ps[p]]
        /\ jobs' = ClearFirst(Z)
        /\ UNCHANGED <<pc, cur, slot, refused>>

Main == Scan \/ SetPid \/ SetActive \/ WaitFg

Next == \/ \E p \in Pids : ChildExit(p) \/ \E kind \in {"bg", "fg"} : Fork(p, kind)
        \/ Exit \/ Main \/ SigchldHandler

Spec == Init /\ [][Next]_vars

\* main runs, and a pending signal is eventually delivered to a live process.
FairSpec == Spec /\ WF_vars(Main) /\ WF_vars(SigchldHandler)
-----------------------------------------------------------------------------
\* The types of the variables.
TypeOK == /\ jobs \in [Slots -> [pid : Pids \cup {NoPid}, active : BOOLEAN]]
          /\ ps \in [Pids -> {"free", "bg", "fg", "zombie"}]
          /\ pending \in BOOLEAN
          /\ pc \in {"prompt", "scan", "setpid", "setactive", "waitfg", "exited"}
          /\ cur \in Pids \cup {NoPid}
          /\ slot \in Slots
          /\ refused \subseteq Pids

\* Signals coalesce, yet no finished child is overlooked: while there is a
\* zombie, a SIGCHLD that will reap it is pending.
ZombieSignalled == \A p \in Pids : ps[p] = "zombie" => pending

\* A background child that runs and that add_job accepted is on the list, even
\* when its pid was used before and an old slot still carries it.
RunningIsListed ==
    \A p \in Pids : ps[p] = "bg" /\ p \notin refused
                    /\ ~(p = cur /\ pc \in {"scan", "setpid", "setactive"})
        => \E i \in Slots : jobs[i].pid = p /\ jobs[i].active

\* Every child that ends is reaped while the shell lives.
ChildrenReaped == \A p \in Pids : ps[p] = "zombie" ~> ps[p] # "zombie" \/ pc = "exited"
=============================================================================
