--------------------------- MODULE PipelineShell ---------------------------
(***************************************************************************)
(* The pipeline shell of 01_processes/lab12: a pipeline is a process group *)
(* and a job.  Every stage is put in the group by itself and by the shell, *)
(* whichever comes first; a foreground job is given the terminal and       *)
(* waited for with one waitpid on the group.  The shell does not ignore    *)
(* SIGTTOU.  A stage after the first reads what the one before it writes.  *)
(***************************************************************************)
EXTENDS Naturals, Sequences

CONSTANTS Pids,     \* process ids, reused once reaped; also group ids
          Shell,    \* shell_pgid
          NoPid,    \* the pgid 0
          MaxJobs,  \* MAX_JOBS
          MaxCmds   \* bound: pipelines the user starts

ASSUME ShellAssumption == Shell \notin Pids /\ NoPid \notin Pids /\ Shell # NoPid
ASSUME ShellBounds == MaxJobs \in Nat \ {0} /\ MaxCmds \in Nat

VARIABLES
    jobs,      \* the table: a sequence of [pgid, state], never shortened
    proc,      \* the processes, see Free
    pending,   \* whether SIGCHLD is pending for the shell
    tty,       \* the terminal's foreground group
    stopped,   \* whether the shell itself is stopped
    pc,
    todo,      \* stages not forked yet: "first" or "reader"
    bg, pgid, pid, idx,  \* locals of execute_pipeline and the built-ins
    open,      \* readers whose pipe the shell has open
    ncmds,     \* how many pipelines were started
    lost       \* history: stages of the newest pipeline whose group was gone

locals == <<todo, bg, pgid, pid, idx, lost>>
vars == <<jobs, proc, pending, tty, stopped, pc, locals, open, ncmds>>

\* st: "free", "fresh" (forked), "joined" (after its setpgid), "run" (after
\* exec), "stop" or "zombie"; then: what a stopped process continues as;
\* report: the change waitpid has not returned yet; wants: it will call
\* tcsetpgrp; reads: the stage it reads from, or "eof" once that has ended.
Free == [st |-> "free", grp |-> Shell, then |-> "run", report |-> "none",
         wants |-> FALSE, reads |-> "none"]

NoLocals == /\ todo' = <<>> /\ bg' = FALSE /\ pgid' = NoPid /\ pid' = NoPid
            /\ idx' = 0 /\ lost' = {}

Init == /\ jobs = <<>>
        /\ proc = [p \in Pids |-> Free]
        /\ pending = FALSE /\ tty = Shell /\ stopped = FALSE
        /\ pc = "prompt" /\ todo = <<>> /\ bg = FALSE /\ pgid = NoPid /\ pid = NoPid
        /\ idx = 0 /\ open = {} /\ ncmds = 0 /\ lost = {}

Members(g) == {p \in Pids : proc[p].st # "free" /\ proc[p].grp = g}
Exists(g) == g = Shell \/ Members(g) # {}

\* Linux lets tcsetpgrp name a group of the session, or just a process of it:
\* the terminal's group then has no member.
Settable(g) == Exists(g) \/ (g \in Pids /\ proc[g].st # "free")
-----------------------------------------------------------------------------
(* The children and the terminal. *)

\* A stop signal to the group g, which may be the shell's own.
StopGroup(g) ==
    LET S == {p \in Members(g) : proc[p].st \in {"fresh", "joined", "run"}}
    IN  /\ proc' = [p \in Pids |-> IF p \in S
                      THEN [proc[p] EXCEPT !.st = "stop", !.then = proc[p].st, !.report = "stopped"]
                      ELSE proc[p]]
        /\ pending' = (pending \/ S # {})
        /\ stopped' = (stopped \/ g = Shell)

\* SIGCONT to the group g.
ContGroup(g) ==
    LET S == {p \in Members(g) : proc[p].st = "stop"}
    IN  /\ proc' = [p \in Pids |-> IF p \in S
                      THEN [proc[p] EXCEPT !.st = proc[p].then, !.then = "run", !.report = "continued"]
                      ELSE proc[p]]
        /\ pending' = (pending \/ S # {})

\* setpgid(0, pgid) in a child: it fails if the group is gone.  The first
\* stage's group is its own.  Once the shell has gone on, its own setpgid has
\* been made with the same arguments.
ChildJoin(p) ==
    /\ proc[p].st = "fresh"
    /\ proc' = [proc EXCEPT ![p].st = "joined",
                            ![p].grp = IF p = pid /\ (pgid = p \/ Exists(pgid)) THEN pgid ELSE @]
    /\ UNCHANGED <<jobs, pending, tty, stopped, pc, locals, open, ncmds>>

\* tcsetpgrp of a foreground stage, from a background group: SIGTTOU.
ChildTtou(p) ==
    /\ proc[p].st = "joined" /\ proc[p].wants /\ tty # proc[p].grp
    /\ StopGroup(proc[p].grp)
    /\ UNCHANGED <<jobs, tty, pc, locals, open, ncmds>>

\* In the foreground group tcsetpgrp(getpid()) succeeds.  For the first stage
\* that is the group the terminal has; a later one takes it away from the
\* pipeline, to a group of its own id that nobody is in.  Then the pipe ends
\* are closed, and exec.
ChildExec(p) ==
    /\ proc[p].st = "joined" /\ (proc[p].wants => tty = proc[p].grp)
    /\ proc' = [proc EXCEPT ![p].st = "run", ![p].wants = FALSE]
    /\ tty' = IF proc[p].wants THEN p ELSE tty
    /\ UNCHANGED <<jobs, pending, stopped, pc, locals, open, ncmds>>

\* A command ends; the stage that reads from it has no writer left.
End(p) ==
    /\ proc[p].st = "run"
    /\ proc' = [q \in Pids |-> IF q = p THEN [proc[q] EXCEPT !.st = "zombie", !.report = "none"]
                               ELSE IF proc[q].reads = p THEN [proc[q] EXCEPT !.reads = "eof"]
                               ELSE proc[q]]
    /\ pending' = TRUE
    /\ UNCHANGED <<jobs, tty, stopped, pc, locals, open, ncmds>>

\* A reader comes to the end of its input when nobody has the pipe open for
\* writing: neither the stage before it nor the shell.
ReaderEnd(p) == proc[p].reads = "eof" /\ p \notin open /\ End(p)

CtrlZ == /\ tty # Shell /\ StopGroup(tty)
         /\ UNCHANGED <<jobs, tty, pc, locals, open, ncmds>>

\* The outer shell continues this shell in the foreground, with the members of
\* its group.
OuterFg == /\ stopped /\ ContGroup(Shell)
           /\ stopped' = FALSE /\ tty' = Shell
           /\ UNCHANGED <<jobs, pc, locals, open, ncmds>>
-----------------------------------------------------------------------------
(* sigchld_handler *)

FirstJob(g, i) == i \in DOMAIN jobs /\ jobs[i].pgid = g /\ \A j \in 1..i-1 : jobs[j].pgid # g

Word == [stopped |-> "STOPPED", continued |-> "RUNNING"]

Changed == {p \in Pids : proc[p].st = "zombie" \/ proc[p].report # "none"}

\* Mutant: one status change per signal.
MutCollected == {CHOOSE p \in Pids : Changed = {} \/ p \in Changed}

\* waitpid(-1, WNOHANG | WUNTRACED | WCONTINUED) until there is nothing left.
Collected == Changed

\* A stop or continuation is entered in the job of the process's group, in the
\* order waitpid returns them; getpgid of a process just reaped fails, so an
\* end is entered nowhere.
SigchldHandler ==
    LET Of(i) == {Word[proc[p].report] : p \in {q \in Collected : proc[q].report # "none"
                                                                  /\ FirstJob(proc[q].grp, i)}}
    IN  /\ pending /\ ~stopped /\ pc # "exited"
        /\ pending' = FALSE
        /\ \E last \in [DOMAIN jobs -> {"RUNNING", "STOPPED", "same"}] :
              /\ \A i \in DOMAIN jobs : last[i] \in IF Of(i) = {} THEN {"same"} ELSE Of(i)
              /\ jobs' = [i \in DOMAIN jobs |->
                            IF last[i] = "same" THEN jobs[i] ELSE [jobs[i] EXCEPT !.state = last[i]]]
        /\ proc' = [p \in Pids |-> IF p \notin Collected THEN proc[p]
                                   ELSE IF proc[p].st = "zombie" THEN Free
                                   ELSE [proc[p] EXCEPT !.report = "none"]]
        /\ UNCHANGED <<tty, stopped, pc, locals, open, ncmds>>
-----------------------------------------------------------------------------
(* execute_pipeline and the built-ins *)

At(from, to) == ~stopped /\ pc = from /\ pc' = to

\* parse_pipeline and pipe().
Pipeline(stages, background) ==
    /\ At("prompt", "fork") /\ ncmds < MaxCmds
    /\ todo' = stages /\ bg' = background
    /\ ncmds' = ncmds + 1
    /\ UNCHANGED <<jobs, proc, pending, tty, stopped, open, pgid, pid, idx, lost>>

\* fork: the child starts in the shell's group; its id is that of no process
\* and no group.  A terminal left with that number still has the dead group.
Fork(p) ==
    /\ At("fork", "group") /\ proc[p] = Free /\ ~Exists(p)
    /\ LET reader == Head(todo) = "reader"
           writing == pid # NoPid /\ proc[pid].st \notin {"free", "zombie"}
       IN  /\ proc' = [proc EXCEPT ![p].st = "fresh", ![p].wants = ~bg,
                                   ![p].reads = CASE ~reader -> "none"
                                                  [] reader /\ writing -> pid
                                                  [] OTHER -> "eof"]
           /\ open' = IF reader THEN open \cup {p} ELSE open
    /\ todo' = Tail(todo)
    /\ pid' = p /\ pgid' = IF pgid = NoPid THEN p ELSE pgid
    /\ tty' = IF tty = p THEN NoPid ELSE tty
    /\ UNCHANGED <<jobs, pending, stopped, bg, idx, ncmds, lost>>

\* fork fails when no id is left: the stage is missing, and if no stage was
\* started pgid stays 0.
ForkFails ==
    /\ At("fork", IF Len(todo) > 1 THEN "fork" ELSE "close")
    /\ \A p \in Pids : proc[p] # Free \/ Exists(p)
    /\ todo' = Tail(todo)
    /\ UNCHANGED <<jobs, proc, pending, tty, stopped, bg, pgid, pid, idx, open, ncmds, lost>>

\* Mutant: the shell leaves it to the child.
MutGroup ==
    /\ At("group", IF todo # <<>> THEN "fork" ELSE "close")
    /\ UNCHANGED <<jobs, proc, pending, tty, stopped, locals, open, ncmds>>

\* setpgid(pid, pgid): not possible after the child's exec, nor when the group
\* is gone because the first stage has ended and was reaped.
Group ==
    LET forked == {proc[pid].st, proc[pid].then} \cap {"fresh", "joined"} # {}
    IN  /\ At("group", IF todo # <<>> THEN "fork" ELSE "close")
        /\ IF pgid = pid \/ Exists(pgid)
           THEN proc' = [proc EXCEPT ![pid].grp = IF forked THEN pgid ELSE @] /\ UNCHANGED lost
           ELSE lost' = lost \cup {pid} /\ UNCHANGED proc
        /\ UNCHANGED <<jobs, pending, tty, stopped, todo, bg, pgid, pid, idx, open, ncmds>>

\* Mutant: the shell keeps its ends of the pipe.
MutClosePipes ==
    /\ At("close", "add")
    /\ UNCHANGED <<jobs, proc, pending, tty, stopped, locals, open, ncmds>>

ClosePipes ==
    /\ At("close", "add")
    /\ open' = {}
    /\ UNCHANGED <<jobs, proc, pending, tty, stopped, locals, ncmds>>

\* add_job: a full table leaves the pipeline unrecorded.
AddJob ==
    /\ jobs' = IF Len(jobs) < MaxJobs THEN Append(jobs, [pgid |-> pgid, state |-> "RUNNING"]) ELSE jobs
    /\ IF bg THEN At("add", "prompt") /\ NoLocals ELSE At("add", "give") /\ UNCHANGED locals
    /\ UNCHANGED <<proc, pending, tty, stopped, open, ncmds>>

\* tcsetpgrp(pgid); it fails if the number is that of no group and no process.
\* From the background it would stop the shell.
Give(from, to) ==
    /\ IF tty = Shell THEN At(from, to) /\ tty' = (IF Settable(pgid) THEN pgid ELSE tty)
                           /\ UNCHANGED <<stopped, proc, pending>>
       ELSE ~stopped /\ pc = from /\ StopGroup(Shell) /\ UNCHANGED <<pc, tty>>
    /\ UNCHANGED <<jobs, locals, open, ncmds>>

\* The group waitpid and kill mean by -pgid: for 0 it is the caller's own.
Target == IF pgid = NoPid THEN Shell ELSE pgid

\* waitpid(-pgid, WUNTRACED): one child of the group has ended or stopped, or
\* there is none.
WaitGroup ==
    /\ At("wait", "take")
    /\ \/ \E p \in Members(Target) : proc[p].st = "zombie" /\ proc' = [proc EXCEPT ![p] = Free]
       \/ \E p \in Members(Target) : proc[p].report = "stopped"
                                     /\ proc' = [proc EXCEPT ![p].report = "none"]
       \/ Members(Target) = {} /\ UNCHANGED proc
    /\ UNCHANGED <<jobs, pending, tty, stopped, locals, open, ncmds>>

\* Mutant: only after a job that ended.
MutTake ==
    /\ At("take", "prompt") /\ NoLocals
    /\ tty' = IF Members(pgid) = {} THEN Shell ELSE tty
    /\ UNCHANGED <<jobs, proc, pending, stopped, open, ncmds>>

\* tcsetpgrp(shell_pgid): from the background it stops the shell instead, and
\* is restarted when the shell is continued.
Take ==
    /\ IF tty = Shell THEN At("take", "prompt") /\ NoLocals /\ UNCHANGED <<stopped, proc, pending>>
       ELSE ~stopped /\ pc = "take" /\ StopGroup(Shell) /\ UNCHANGED <<pc, locals>>
    /\ UNCHANGED <<jobs, tty, open, ncmds>>

\* fg and bg with a valid id.  (A job is never DONE, so none is refused.)
Builtin(i, to) ==
    /\ At("prompt", to) /\ i \in DOMAIN jobs
    /\ idx' = i /\ pgid' = jobs[i].pgid
    /\ UNCHANGED <<jobs, proc, pending, tty, stopped, todo, bg, pid, open, ncmds, lost>>

\* kill(-pgid, SIGCONT).
Continue(from, to) ==
    /\ At(from, to) /\ ContGroup(Target)
    /\ UNCHANGED <<jobs, tty, stopped, locals, open, ncmds>>

MarkRunning(from, to) ==
    /\ At(from, to)
    /\ jobs' = [jobs EXCEPT ![idx].state = "RUNNING"]
    /\ IF to = "prompt" THEN NoLocals ELSE UNCHANGED locals
    /\ UNCHANGED <<proc, pending, tty, stopped, open, ncmds>>

BringToForeground ==
    Give("fg", "fgcont") \/ Continue("fgcont", "fgmark") \/ MarkRunning("fgmark", "wait")
ContinueInBackground == Continue("bg", "bgmark") \/ MarkRunning("bgmark", "prompt")

Exit == /\ At("prompt", "exited")
        /\ UNCHANGED <<jobs, proc, pending, tty, stopped, locals, open, ncmds>>

ExecutePipeline == \/ \E p \in Pids : Fork(p)
                   \/ ForkFails \/ Group \/ ClosePipes \/ AddJob
                   \/ Give("give", "wait") \/ WaitGroup \/ Take

Main == ExecutePipeline \/ BringToForeground \/ ContinueInBackground

User == \/ \E stages \in {<<"first">>, <<"first", "reader">>}, background \in BOOLEAN :
              Pipeline(stages, background)
        \/ \E i \in 1..MaxJobs : Builtin(i, "fg") \/ Builtin(i, "bg")
        \/ Exit \/ CtrlZ \/ OuterFg

Child(p) == ChildJoin(p) \/ ChildTtou(p) \/ ChildExec(p)

Next == Main \/ User \/ SigchldHandler \/ \E p \in Pids : Child(p) \/ End(p)

\* The shell and its children run, a pending signal is delivered, and a command
\* that reads its input to the end ends there; nothing is assumed of the user
\* or of when a first stage ends.
Spec == /\ Init /\ [][Next]_vars
        /\ WF_vars(Main) /\ WF_vars(SigchldHandler)
        /\ \A p \in Pids : WF_vars(Child(p)) /\ WF_vars(ReaderEnd(p))
-----------------------------------------------------------------------------
\* The shell only prompts and starts or continues jobs while the terminal is
\* its own: a stage takes it only from its own pipeline, never from the shell,
\* and the shell has it back however stages stop, race for it or end.
PromptHasTty ==
    pc \in {"prompt", "fork", "group", "close", "add", "give", "fg", "bg", "bgmark"} => tty = Shell

\* "All processes in a pipeline share one PGID": when the shell gives the group
\* the terminal and waits for it, the newest stage is a member, unless the
\* group was gone before the stage was started.
GroupComplete ==
    pc \in {"close", "add", "give", "wait"} /\ pid # NoPid =>
        proc[pid].st = "free" \/ pid \in lost \/ proc[pid].grp = pgid

\* A status change nobody has collected has its SIGCHLD pending.
ChangeSignalled == Changed # {} => pending

\* The end of the first stage reaches the second: a reader that is running
\* then ends (or is stopped), because no process is left with the pipe open.
ReaderDrains ==
    \A p \in Pids : proc[p].reads = "eof" /\ proc[p].st = "run" ~> proc[p].st # "run"
=============================================================================
