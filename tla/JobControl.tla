----------------------------- MODULE JobControl -----------------------------
(***************************************************************************)
(* The job-control shell of 01_processes/lab11: every child leads its own  *)
(* process group, the terminal is handed to the foreground group with      *)
(* tcsetpgrp, and both main's waitpid and the SIGCHLD handler collect the  *)
(* children's status changes.  The shell does not ignore SIGTTOU, so a     *)
(* tcsetpgrp from a background group stops the caller.                     *)
(***************************************************************************)
EXTENDS Naturals, Sequences

CONSTANTS Pids,     \* process ids, reused once reaped; a pid is also its group
          Shell,    \* shell_pgid
          NoPid,
          MaxJobs   \* MAX_JOBS

ASSUME IdsAssumption == Shell \notin Pids /\ NoPid \notin Pids /\ Shell # NoPid
ASSUME MaxJobsAssumption == MaxJobs \in Nat \ {0}

VARIABLES
    jobs,     \* the table: a sequence of [pid, state], never shortened
    ps,       \* "free", "fresh" (before exec), "run", "stop" or "zombie"
    report,   \* the status change waitpid has not returned yet
    wantsTty, \* started in the foreground and its tcsetpgrp not yet done
    entry,    \* history: the table index of a pid's present process, or 0
    pending,  \* whether SIGCHLD is pending for the shell
    tty,      \* the terminal's foreground process group
    stopped,  \* whether the shell itself is stopped
    pc, cur, idx, bg   \* main: position, pid, table index, background flag

procVars == <<ps, report, wantsTty, entry>>
vars == <<jobs, procVars, pending, tty, stopped, pc, cur, idx, bg>>

Init == /\ jobs = <<>>
        /\ ps = [p \in Pids |-> "free"]
        /\ report = [p \in Pids |-> "none"]
        /\ wantsTty = [p \in Pids |-> FALSE]
        /\ entry = [p \in Pids |-> 0]
        /\ pending = FALSE
        /\ tty = Shell
        /\ stopped = FALSE
        /\ pc = "prompt" /\ cur = NoPid /\ idx = 0 /\ bg = FALSE
-----------------------------------------------------------------------------
(* The children and the terminal. *)

\* A child before exec: a foreground one calls tcsetpgrp for itself, and is
\* stopped by SIGTTOU if the parent has not given it the terminal yet.
ChildStart(p) ==
    /\ ps[p] = "fresh"
    /\ IF wantsTty[p] /\ tty # p
       THEN /\ ps' = [ps EXCEPT ![p] = "stop"]
            /\ report' = [report EXCEPT ![p] = "stopped"]
            /\ pending' = TRUE
            /\ UNCHANGED wantsTty
       ELSE /\ ps' = [ps EXCEPT ![p] = "run"]
            /\ wantsTty' = [wantsTty EXCEPT ![p] = FALSE]
            /\ UNCHANGED <<report, pending>>
    /\ UNCHANGED <<jobs, entry, tty, stopped, pc, cur, idx, bg>>

ChildExit(p) ==
    /\ ps[p] = "run"
    /\ ps' = [ps EXCEPT ![p] = "zombie"]
    /\ report' = [report EXCEPT ![p] = "none"]
    /\ pending' = TRUE
    /\ UNCHANGED <<jobs, wantsTty, entry, tty, stopped, pc, cur, idx, bg>>

\* Ctrl-Z stops the foreground group.
CtrlZ(p) ==
    /\ tty = p /\ ps[p] = "run"
    /\ ps' = [ps EXCEPT ![p] = "stop"]
    /\ report' = [report EXCEPT ![p] = "stopped"]
    /\ pending' = TRUE
    /\ UNCHANGED <<jobs, wantsTty, entry, tty, stopped, pc, cur, idx, bg>>

\* The outer shell continues this shell in the foreground.
OuterFg ==
    /\ stopped
    /\ stopped' = FALSE
    /\ tty' = Shell
    /\ UNCHANGED <<jobs, procVars, pending, pc, cur, idx, bg>>
-----------------------------------------------------------------------------
(* sigchld_handler: collect every status change; find_job returns the      *)
(* first entry with the pid.                                               *)

First(p, i) == i \in DOMAIN jobs /\ jobs[i].pid = p /\ \A j \in 1..i-1 : jobs[j].pid # p

NewState(p) == IF ps[p] = "zombie" THEN "DONE"
               ELSE IF report[p] = "stopped" THEN "STOPPED" ELSE "RUNNING"

\* Mutant: any status that is not a continuation is taken for the end.
MutUpdate(C) ==
    [i \in DOMAIN jobs |->
        IF \E p \in C : First(p, i)
        THEN [jobs[i] EXCEPT !.state = IF report[jobs[i].pid] = "continued" THEN "RUNNING" ELSE "DONE"]
        ELSE jobs[i]]

\* The table after the changes of the processes in C.
Update(C) ==
    [i \in DOMAIN jobs |->
        IF \E p \in C : First(p, i)
        THEN [jobs[i] EXCEPT !.state = NewState(jobs[i].pid)]
        ELSE jobs[i]]

\* Mutant: without WUNTRACED and WCONTINUED only exits are collected.
MutHandlerExitsOnly ==
    LET C == {p \in Pids : ps[p] = "zombie"}
    IN  /\ pending /\ ~stopped /\ pc # "exited"
        /\ pending' = FALSE
        /\ jobs' = Update(C)
        /\ ps' = [p \in Pids |-> IF p \in C THEN "free" ELSE ps[p]]
        /\ UNCHANGED <<report, wantsTty, entry, tty, stopped, pc, cur, idx, bg>>

SigchldHandler ==
    LET C == {p \in Pids : ps[p] = "zombie" \/ report[p] # "none"}
    IN  /\ pending /\ ~stopped /\ pc # "exited"
        /\ pending' = FALSE
        /\ jobs' = Update(C)
        /\ ps' = [p \in Pids |-> IF ps[p] = "zombie" THEN "free" ELSE ps[p]]
        /\ report' = [p \in Pids |-> "none"]
        /\ UNCHANGED <<wantsTty, entry, tty, stopped, pc, cur, idx, bg>>
-----------------------------------------------------------------------------
(* main *)

At(from, to) == ~stopped /\ pc = from /\ pc' = to

Fork(p, background) ==
    /\ At("prompt", "add")
    /\ ps[p] = "free"
    /\ ps' = [ps EXCEPT ![p] = "fresh"]
    /\ wantsTty' = [wantsTty EXCEPT ![p] = ~background]
    /\ entry' = [entry EXCEPT ![p] = 0]
    /\ cur' = p /\ bg' = background
    /\ UNCHANGED <<jobs, report, pending, tty, stopped, idx>>

\* Mutant: add_job does not test for a full table.
MutAddUnbounded ==
    /\ At("add", IF bg THEN "prompt" ELSE "give")
    /\ jobs' = Append(jobs, [pid |-> cur, state |-> "RUNNING"])
    /\ entry' = [entry EXCEPT ![cur] = Len(jobs) + 1]
    /\ UNCHANGED <<ps, report, wantsTty, pending, tty, stopped, cur, idx, bg>>

\* add_job: a full table leaves the child unrecorded.
AddJob ==
    /\ At("add", IF bg THEN "prompt" ELSE "give")
    /\ IF Len(jobs) < MaxJobs
       THEN /\ jobs' = Append(jobs, [pid |-> cur, state |-> "RUNNING"])
            /\ entry' = [entry EXCEPT ![cur] = Len(jobs) + 1]
       ELSE UNCHANGED <<jobs, entry>>
    /\ UNCHANGED <<ps, report, wantsTty, pending, tty, stopped, cur, idx, bg>>

\* tcsetpgrp(pid) by the foreground shell; it fails if the group is gone.
Give(from, to) ==
    /\ At(from, to)
    /\ tty' = IF ps[cur] = "free" THEN tty ELSE cur
    /\ UNCHANGED <<jobs, procVars, pending, stopped, cur, idx, bg>>

\* waitpid(pid, WUNTRACED): the child ended or stopped, or is no child any
\* more.  The table is not updated.
Wait ==
    /\ At("wait", "take")
    /\ \/ ps[cur] \in {"zombie", "free"} /\ ps' = [ps EXCEPT ![cur] = "free"] /\ UNCHANGED report
       \/ report[cur] = "stopped" /\ report' = [report EXCEPT ![cur] = "none"] /\ UNCHANGED ps
    /\ UNCHANGED <<jobs, wantsTty, entry, pending, tty, stopped, cur, idx, bg>>

\* Mutant: the shell does not take the terminal back.
MutTakeForgotten ==
    /\ At("take", "prompt")
    /\ UNCHANGED <<jobs, procVars, pending, tty, stopped, cur, idx, bg>>

\* tcsetpgrp(shell_pgid): from the background it stops the shell instead, and
\* is restarted when the shell is continued.
Take ==
    /\ IF tty = Shell THEN At("take", "prompt") /\ UNCHANGED stopped
       ELSE ~stopped /\ pc = "take" /\ stopped' = TRUE /\ UNCHANGED pc
    /\ UNCHANGED <<jobs, procVars, pending, tty, cur, idx, bg>>

\* fg and bg with a valid id; a DONE job is refused.
Builtin(i, to) ==
    /\ At("prompt", to)
    /\ i \in DOMAIN jobs /\ jobs[i].state # "DONE"
    /\ idx' = i /\ cur' = jobs[i].pid
    /\ UNCHANGED <<jobs, procVars, pending, tty, stopped, bg>>

\* kill(-pid, SIGCONT)
Continue(from, to) ==
    /\ At(from, to)
    /\ IF ps[cur] = "stop"
       THEN /\ ps' = [ps EXCEPT ![cur] = IF wantsTty[cur] THEN "fresh" ELSE "run"]
            /\ report' = [report EXCEPT ![cur] = "continued"]
            /\ pending' = TRUE
       ELSE UNCHANGED <<ps, report, pending>>
    /\ UNCHANGED <<jobs, wantsTty, entry, tty, stopped, cur, idx, bg>>

\* jobs[idx].state = RUNNING, a statement after the kill.
MarkRunning(from, to) ==
    /\ At(from, to)
    /\ jobs' = [jobs EXCEPT ![idx].state = "RUNNING"]
    /\ UNCHANGED <<procVars, pending, tty, stopped, cur, idx, bg>>

Exit == /\ At("prompt", "exited")
        /\ UNCHANGED <<jobs, procVars, pending, tty, stopped, cur, idx, bg>>

\* bring_to_foreground and continue_in_background, after the state check.
BringToForeground ==
    Give("fg", "fgcont") \/ Continue("fgcont", "fgmark") \/ MarkRunning("fgmark", "wait")
ContinueInBackground == Continue("bg", "bgmark") \/ MarkRunning("bgmark", "prompt")

Main == \/ AddJob \/ Give("give", "wait") \/ Wait \/ Take
        \/ BringToForeground \/ ContinueInBackground

User == \/ \E p \in Pids : CtrlZ(p) \/ \E background \in BOOLEAN : Fork(p, background)
        \/ \E i \in 1..MaxJobs : Builtin(i, "fg") \/ Builtin(i, "bg")
        \/ Exit \/ OuterFg

Child(p) == ChildStart(p) \/ ChildExit(p)

Next == Main \/ User \/ SigchldHandler \/ \E p \in Pids : Child(p)

Spec == Init /\ [][Next]_vars
-----------------------------------------------------------------------------
State == {"RUNNING", "STOPPED", "DONE"}

\* The types of the variables.
TypeOK ==
    /\ jobs \in Seq([pid : Pids, state : State]) /\ Len(jobs) <= MaxJobs
    /\ ps \in [Pids -> {"free", "fresh", "run", "stop", "zombie"}]
    /\ report \in [Pids -> {"none", "stopped", "continued"}]
    /\ wantsTty \in [Pids -> BOOLEAN]
    /\ entry \in [Pids -> 0..MaxJobs]
    /\ pending \in BOOLEAN /\ stopped \in BOOLEAN /\ bg \in BOOLEAN
    /\ tty \in Pids \cup {Shell}
    /\ pc \in {"prompt", "add", "give", "wait", "take", "fg", "fgcont", "fgmark",
               "bg", "bgmark", "exited"}
    /\ cur \in Pids \cup {NoPid} /\ idx \in 0..MaxJobs

\* The shell only reads commands, forks and runs bg while the terminal is its
\* own: however children stop, race for the terminal or end, it has come back.
PromptHasTty ==
    pc \in {"prompt", "add", "give", "fg", "bg", "bgmark"} => tty = Shell

\* An entry is DONE only when its process has ended, whoever reaped it and
\* whichever process has its pid now.
DoneIsDead ==
    \A p \in Pids : ps[p] # "free" /\ entry[p] # 0 => jobs[entry[p]].state # "DONE"

\* A status change nobody has collected has its SIGCHLD pending.
ChangeSignalled ==
    \A p \in Pids : ps[p] = "zombie" \/ report[p] # "none" => pending
=============================================================================
