------------------------ MODULE PipelineShellProofs ------------------------
(***************************************************************************)
(* Theorems about the pipeline shell of lab 12, for any number of process  *)
(* ids, jobs and pipelines.                                                *)
(***************************************************************************)
EXTENDS PipelineShell, TLAPS

Procs == [st : {"free", "fresh", "joined", "run", "stop", "zombie"},
          grp : Pids \cup {Shell, NoPid}, then : {"fresh", "joined", "run"},
          report : {"none", "stopped", "continued"},
          wants : BOOLEAN, reads : Pids \cup {"none", "eof"}]

JobsType == jobs \in Seq([pgid : Pids \cup {NoPid}, state : {"RUNNING", "STOPPED"}])

\* The types of the variables the proofs are about.  A process that is not
\* stopped continues as nothing but "run".
Types ==
    /\ proc \in [Pids -> Procs]
    /\ \A p \in Pids : proc[p].st # "stop" => proc[p].then = "run"
    /\ pgid \in Pids \cup {NoPid} /\ pid \in Pids \cup {NoPid}
    /\ JobsType
    /\ pending \in BOOLEAN

\* Before the child's own setpgid.
Unjoined(p) == proc[p].st = "fresh" \/ (proc[p].st = "stop" /\ proc[p].then = "fresh")

\* Where main has a newest stage, and where it has none.
StageInv ==
    /\ pc = "group" => pid \in Pids
    /\ pc \in {"prompt", "fg", "bg", "fgcont", "fgmark", "bgmark"} => pid = NoPid
    /\ pc \in {"fg", "bg", "fgcont", "fgmark", "bgmark"} => idx \in DOMAIN jobs
    /\ pc = "prompt" => pgid = NoPid

\* Between fork and the shell's setpgid: once the child has made its own, it is
\* in the group, or the group was gone and stays so.
JoinInv == pc = "group" =>
    Unjoined(pid) \/ proc[pid].st = "free" \/ proc[pid].grp = pgid \/ (pgid # pid /\ ~Exists(pgid))

\* After the shell's setpgid, also while the next stage is forked.
GroupInv == pc \in {"fork", "close", "add", "give", "wait"} /\ pid # NoPid =>
    proc[pid].st = "free" \/ pid \in lost \/ proc[pid].grp = pgid

\* Before exec.
Early(p) == proc[p].st \in {"fresh", "joined"} \/ (proc[p].st = "stop" /\ proc[p].then \in {"fresh", "joined"})

\* A stage that will ask for the terminal is in a group other than the shell's
\* when it does.
WantInv == \A p \in Pids : proc[p].wants =>
    Early(p) /\ (proc[p].grp # Shell \/ (pc = "group" /\ p = pid /\ Unjoined(p)))

\* Why its group is there to be joined: while a foreground pipeline is being
\* started the first stage cannot have come past its tcsetpgrp, because the
\* terminal is still the shell's.
LeadInv ==
    /\ pc = "group" => pgid \in Pids /\ (proc[pid].wants => ~bg)
    /\ pc \in {"fork", "group"} /\ pgid # NoPid /\ ~bg =>
          proc[pgid].wants /\ (proc[pgid].grp = pgid \/ (pc = "group" /\ pid = pgid))

IInv == /\ Types /\ StageInv /\ JoinInv /\ GroupInv /\ WantInv /\ LeadInv
        /\ PromptHasTty /\ ChangeSignalled

\* What a step does to a process that it neither starts nor puts in a group: it
\* may end it or reap it, stop or continue it.
Same(p) ==
    /\ proc'[p] \in Procs
    /\ proc'[p].st # "stop" => proc'[p].then = "run"
    /\ \/ proc'[p].st = "free"
       \/ /\ proc'[p].grp = proc[p].grp /\ proc[p].st # "free" /\ (Unjoined(p)' => Unjoined(p))
          /\ (Unjoined(p) => Unjoined(p)')

\* A step that starts no process and puts none in a group.
ProcKept == proc' \in [Pids -> Procs] /\ \A p \in Pids : Same(p)

\* A step that makes no stage ask for the terminal, and one after which every
\* stage that was to ask still is.
WantsLess == \A p \in Pids : proc'[p].wants => proc[p].wants /\ (Early(p) => Early(p)')
WantsKept == \A p \in Pids : proc[p].wants => proc'[p].wants

\* A process remains one when what it does changes.
LEMMA ProcUpdate ==
    ASSUME NEW r \in Procs, NEW s \in {"fresh", "joined", "run", "stop"},
           NEW t \in {"fresh", "joined", "run"}, NEW x \in {"none", "stopped", "continued"}
    PROVE  [r EXCEPT !.st = s, !.then = t, !.report = x] \in Procs
  BY DEF Procs

\* A stop signal leaves the groups as they are and is reported.
LEMMA StopShape ==
    ASSUME Types, ChangeSignalled, NEW g, StopGroup(g)
    PROVE  /\ ProcKept
           /\ WantsLess /\ WantsKept
           /\ pending' \in BOOLEAN /\ ChangeSignalled'
<1> DEFINE S == {p \in Members(g) : proc[p].st \in {"fresh", "joined", "run"}}
<1>1. /\ proc' = [p \in Pids |-> IF p \in S
                    THEN [proc[p] EXCEPT !.st = "stop", !.then = proc[p].st, !.report = "stopped"]
                    ELSE proc[p]]
      /\ pending' = (pending \/ S # {})
  BY DEF StopGroup
<1>2. \A p \in S : p \in Pids /\ proc[p].st \in {"fresh", "joined", "run"} BY DEF Members
<1>3. \A p \in Pids : proc'[p] \in Procs 
  <2>1. \A p \in Pids : proc[p] \in Procs BY DEF Types
  <2>2. \A p \in S : [proc[p] EXCEPT !.st = "stop", !.then = proc[p].st, !.report = "stopped"] \in Procs
    BY <1>2, <2>1, ProcUpdate
  <2> QED BY <1>1, <2>1, <2>2
<1>4. \A p \in Pids : p \in S => /\ proc'[p].st = "stop" /\ proc'[p].then = proc[p].st
                                 /\ proc'[p].grp = proc[p].grp /\ proc'[p].wants = proc[p].wants
  BY <1>1, <1>2 DEF Types, Procs
<1>5. \A p \in Pids : p \notin S => proc'[p] = proc[p] BY <1>1
<1>6. \A p \in Pids : Same(p)
  BY <1>2, <1>3, <1>4, <1>5 DEF Same, Types, Unjoined
<1>7. ChangeSignalled'
  <2>1. CASE S = {} BY <1>1, <1>5, <2>1 DEF ChangeSignalled, Changed
  <2>2. CASE S # {} BY <1>1, <2>2 DEF ChangeSignalled
  <2> QED BY <2>1, <2>2
<1>8. pending' \in BOOLEAN BY <1>1
<1>9. WantsLess /\ WantsKept BY <1>2, <1>4, <1>5 DEF WantsLess, WantsKept, Early
<1> QED BY <1>1, <1>3, <1>6, <1>7, <1>8, <1>9 DEF ProcKept

\* So does SIGCONT.
LEMMA ContShape ==
    ASSUME Types, ChangeSignalled, NEW g, ContGroup(g)
    PROVE  /\ ProcKept
           /\ WantsLess /\ WantsKept
           /\ pending' \in BOOLEAN /\ ChangeSignalled'
<1> DEFINE S == {p \in Members(g) : proc[p].st = "stop"}
<1>1. /\ proc' = [p \in Pids |-> IF p \in S
                    THEN [proc[p] EXCEPT !.st = proc[p].then, !.then = "run", !.report = "continued"]
                    ELSE proc[p]]
      /\ pending' = (pending \/ S # {})
  BY DEF ContGroup
<1>2. \A p \in S : p \in Pids /\ proc[p].st = "stop" BY DEF Members
<1>3. \A p \in Pids : proc'[p] \in Procs 
  <2>1. \A p \in Pids : proc[p] \in Procs /\ proc[p].then \in {"fresh", "joined", "run"} BY DEF Types, Procs
  <2>2. \A p \in S : [proc[p] EXCEPT !.st = proc[p].then, !.then = "run", !.report = "continued"] \in Procs
    BY <1>2, <2>1, ProcUpdate
  <2> QED BY <1>1, <2>1, <2>2
<1>4. \A p \in Pids : p \in S => /\ proc'[p].st = proc[p].then /\ proc'[p].then = "run"
                                 /\ proc[p].then \in {"fresh", "joined", "run"}
                                 /\ proc'[p].grp = proc[p].grp /\ proc'[p].wants = proc[p].wants
  BY <1>1, <1>2 DEF Types, Procs
<1>5. \A p \in Pids : p \notin S => proc'[p] = proc[p] BY <1>1
<1>6. \A p \in Pids : Same(p)
  BY <1>2, <1>3, <1>4, <1>5 DEF Same, Types, Unjoined
<1>7. ChangeSignalled'
  <2>1. CASE S = {} BY <1>1, <1>5, <2>1 DEF ChangeSignalled, Changed
  <2>2. CASE S # {} BY <1>1, <2>2 DEF ChangeSignalled
  <2> QED BY <2>1, <2>2
<1>8. pending' \in BOOLEAN BY <1>1
<1>9. WantsLess /\ WantsKept BY <1>2, <1>4, <1>5 DEF WantsLess, WantsKept, Early
<1> QED BY <1>1, <1>3, <1>6, <1>7, <1>8, <1>9 DEF ProcKept

\* Steps that leave the processes alone.
LEMMA Alone == ASSUME Types, UNCHANGED proc PROVE ProcKept /\ WantsLess /\ WantsKept
  BY DEF Types, ProcKept, Same, Unjoined, WantsLess, WantsKept, Early

\* Such a step keeps the newest stage in its group, and a group that is gone
\* stays so.
LEMMA StageKept ==
    ASSUME ShellAssumption, Types, ProcKept, UNCHANGED <<pid, pgid>>, pid \in Pids
    PROVE  /\ Unjoined(pid) \/ proc[pid].st = "free" \/ proc[pid].grp = pgid \/ (pgid # pid /\ ~Exists(pgid))
              => \/ Unjoined(pid)' \/ proc'[pid].st = "free" \/ proc'[pid].grp = pgid
                 \/ (pgid # pid /\ ~Exists(pgid))'
           /\ proc[pid].st = "free" \/ proc[pid].grp = pgid => proc'[pid].st = "free" \/ proc'[pid].grp = pgid
<1>1. Same(pid) BY DEF ProcKept
<1>2. ~Exists(pgid) => ~Exists(pgid)'
  BY DEF ProcKept, Same, Exists, Members
<1>3. Unjoined(pid)' <=> proc'[pid].st = "fresh" \/ (proc'[pid].st = "stop" /\ proc'[pid].then = "fresh")
  BY DEF Unjoined
<1> QED BY <1>1, <1>2, <1>3 DEF Same, Unjoined

\* The whole invariant, for a step of the children, the terminal or the handler
\* that starts no process and puts none in a group.
LEMMA OutsideKeeps ==
    ASSUME IInv, ProcKept, WantsLess, UNCHANGED <<pc, locals>>,
           \/ WantsKept /\ tty' \in {tty, Shell}
           \/ pc \notin {"prompt", "fork", "group", "close", "add", "give", "fg", "bg", "bgmark"},
           JobsType', DOMAIN jobs' = DOMAIN jobs, pending' \in BOOLEAN, ChangeSignalled'
    PROVE  IInv'
<1> USE ShellAssumption DEF IInv, locals
<1>1. Types' BY DEF Types, ProcKept, Same
<1>2. StageInv' /\ PromptHasTty' BY DEF StageInv, PromptHasTty
<1>3. JoinInv' BY StageKept DEF JoinInv, StageInv, Types
<1>4. GroupInv' BY StageKept DEF GroupInv, Types
<1>5. \A q \in Pids : proc'[q].wants => Early(q)' /\ proc'[q].grp = proc[q].grp /\ (Unjoined(q) => Unjoined(q)')
  BY DEF WantInv, WantsLess, ProcKept, Same, Early
<1>6. WantInv' BY <1>5 DEF WantInv, WantsLess
<1>7. LeadInv' BY <1>5 DEF LeadInv, WantsLess, WantsKept, StageInv, Types
<1> QED BY <1>1, <1>2, <1>3, <1>4, <1>6, <1>7

\* The children, Ctrl-Z and the outer shell.
LEMMA ChildStep ==
    ASSUME IInv, NEW p \in Pids, Child(p) \/ End(p)
    PROVE  IInv'
<1> USE ShellAssumption DEF IInv
<1>1. proc[p] \in Procs BY DEF Types
<1>2. CASE ChildJoin(p)
  <2>1. PICK g : /\ proc' = [proc EXCEPT ![p] = [proc[p] EXCEPT !.st = "joined", !.grp = g]]
                 /\ g = IF p = pid /\ (pgid = p \/ Exists(pgid)) THEN pgid ELSE proc[p].grp
                 /\ proc[p].st = "fresh" /\ UNCHANGED <<jobs, pending, tty, stopped, pc, locals, open, ncmds>>
    BY <1>2 DEF ChildJoin, Types
  <2>2. g \in Pids \cup {Shell, NoPid} BY <1>1, <2>1 DEF Types, Procs
  <2>3. /\ proc'[p] \in Procs /\ proc'[p].st = "joined" /\ proc'[p].grp = g
        /\ proc'[p].then = proc[p].then /\ proc'[p].report = proc[p].report /\ proc'[p].wants = proc[p].wants
    BY <1>1, <2>1, <2>2 DEF Types, Procs
  <2>4. \A q \in Pids \ {p} : proc'[q] = proc[q] BY <2>1 DEF Types
  <2>5. Types' BY <2>1, <2>2, <2>3, <2>4 DEF Types, locals, JobsType
  <2>6. StageInv' /\ PromptHasTty' BY <2>1 DEF StageInv, PromptHasTty, locals
  <2>7. ChangeSignalled' BY <2>1, <2>3, <2>4 DEF ChangeSignalled, Changed
  <2>8. ASSUME pid \in Pids, ~Exists(pgid), pgid # pid PROVE ~Exists(pgid)'
    BY <2>1, <2>3, <2>4, <2>8 DEF Exists, Members, locals, Types
  <2>9. JoinInv'
    <3> SUFFICES ASSUME pc = "group"
                 PROVE proc'[pid].grp = pgid \/ (pgid # pid /\ ~Exists(pgid)') \/ Unjoined(pid)' \/ proc'[pid].st = "free"
      BY <2>1 DEF JoinInv, locals
    <3>1. CASE p = pid BY <2>1, <2>3, <2>8, <3>1 DEF StageInv
    <3>2. CASE p # pid BY <2>1, <2>4, <2>8, <3>2 DEF JoinInv, StageInv, Unjoined, locals
    <3> QED BY <3>1, <3>2
  <2>10. GroupInv' BY <2>1, <2>3, <2>4 DEF GroupInv, locals, Types
  <2>11. ASSUME proc[p].wants, p = pid, pc = "group" PROVE g = pgid /\ pgid \in Pids
    BY <2>1, <2>11 DEF LeadInv, WantInv, Exists, Members, Early, Types
  <2>12. WantInv'
    <3>1. Early(p)' BY <2>3 DEF Early
    <3>2. proc[p].wants => g # Shell BY <2>1, <2>11 DEF WantInv, locals, Types
    <3>3. \A q \in Pids \ {p} : (Early(q) <=> Early(q)') /\ (Unjoined(q) <=> Unjoined(q)')
      BY <2>4 DEF Early, Unjoined
    <3> QED BY <2>1, <2>3, <2>4, <3>1, <3>2, <3>3 DEF WantInv, locals
  <2>13. LeadInv' BY <2>1, <2>3, <2>4, <2>11 DEF LeadInv, locals, StageInv, Types
  <2> QED BY <2>5, <2>6, <2>7, <2>9, <2>10, <2>12, <2>13
<1>3. CASE ChildTtou(p)
  <2>1. ProcKept /\ WantsLess /\ WantsKept /\ pending' \in BOOLEAN /\ ChangeSignalled'
    BY <1>3, StopShape DEF ChildTtou
  <2> QED BY <1>3, <2>1, OutsideKeeps DEF ChildTtou, Types, JobsType
<1>4. CASE ChildExec(p)
  <2>1. /\ proc' = [proc EXCEPT ![p] = [proc[p] EXCEPT !.st = "run", !.wants = FALSE]]
        /\ proc[p].st = "joined" /\ UNCHANGED <<jobs, pending, stopped, pc, locals, open, ncmds>>
        /\ (proc[p].wants => tty = proc[p].grp) /\ (~proc[p].wants => tty' = tty)
    BY <1>4 DEF ChildExec, Types
  <2>2. /\ proc'[p] \in Procs /\ proc'[p].st = "run" /\ proc'[p].grp = proc[p].grp /\ ~proc'[p].wants
        /\ proc'[p].then = proc[p].then /\ proc'[p].report = proc[p].report
    BY <1>1, <2>1 DEF Types, Procs
  <2>3. \A q \in Pids \ {p} : proc'[q] = proc[q] BY <2>1 DEF Types
  <2>4. ProcKept BY <2>1, <2>2, <2>3 DEF ProcKept, Same, Types, Unjoined
  <2>5. ChangeSignalled' BY <2>1, <2>2, <2>3 DEF ChangeSignalled, Changed
  <2>6. WantsLess BY <2>2, <2>3 DEF WantsLess, Early
  \* Only a stage that has its group's terminal comes here, never the shell's.
  <2>7. CASE proc[p].wants
    <3>1. tty # Shell BY <2>1, <2>7 DEF WantInv, Unjoined
    <3>2. pc \notin {"prompt", "fork", "group", "close", "add", "give", "fg", "bg", "bgmark"}
      BY <3>1 DEF PromptHasTty
    <3> QED BY <2>1, <2>4, <2>5, <2>6, <3>2, OutsideKeeps DEF Types, JobsType
  <2>8. CASE ~proc[p].wants
    <3>1. WantsKept BY <2>3, <2>8 DEF WantsKept
    <3> QED BY <2>1, <2>4, <2>5, <2>6, <2>8, <3>1, OutsideKeeps DEF Types, JobsType
  <2> QED BY <2>7, <2>8
<1>5. CASE End(p)
  <2>1. /\ proc' = [q \in Pids |-> IF q = p THEN [proc[q] EXCEPT !.st = "zombie", !.report = "none"]
                                   ELSE IF proc[q].reads = p THEN [proc[q] EXCEPT !.reads = "eof"]
                                   ELSE proc[q]]
        /\ proc[p].st = "run" /\ pending' = TRUE
        /\ UNCHANGED <<jobs, tty, stopped, pc, locals, open, ncmds>>
    BY <1>5 DEF End
  <2>2. /\ proc'[p] \in Procs /\ proc'[p].st = "zombie" /\ proc'[p].grp = proc[p].grp
        /\ proc'[p].then = proc[p].then /\ proc'[p].wants = proc[p].wants
    BY <1>1, <2>1 DEF Procs
  <2>3. \A q \in Pids \ {p} : /\ proc'[q] \in Procs /\ proc'[q].st = proc[q].st
                              /\ proc'[q].grp = proc[q].grp /\ proc'[q].then = proc[q].then
                              /\ proc'[q].wants = proc[q].wants
    <3>1. \A q \in Pids \ {p} : proc[q] \in Procs /\ proc'[q] \in {proc[q], [proc[q] EXCEPT !.reads = "eof"]}
      BY <2>1 DEF Types
    <3>2. \A r \in Procs : LET r2 == [r EXCEPT !.reads = "eof"]
                           IN  /\ r2 \in Procs /\ r2.st = r.st /\ r2.grp = r.grp /\ r2.then = r.then
                               /\ r2.wants = r.wants
      BY DEF Procs
    <3> SUFFICES ASSUME NEW q \in Pids \ {p}
                 PROVE  /\ proc'[q] \in Procs /\ proc'[q].st = proc[q].st
                        /\ proc'[q].grp = proc[q].grp /\ proc'[q].then = proc[q].then
                        /\ proc'[q].wants = proc[q].wants
      OBVIOUS
    <3>3. CASE proc'[q] = proc[q] BY <3>1, <3>3
    <3>4. CASE proc'[q] = [proc[q] EXCEPT !.reads = "eof"] BY <3>1, <3>2, <3>4
    <3> QED BY <3>1, <3>3, <3>4
  <2>4. ProcKept BY <2>1, <2>2, <2>3 DEF ProcKept, Same, Types, Unjoined
  <2>5. ChangeSignalled' BY <2>1 DEF ChangeSignalled
  <2>6. ~proc[p].wants BY <2>1 DEF WantInv, Early
  <2>7. WantsLess /\ WantsKept BY <2>2, <2>3, <2>6 DEF WantsLess, WantsKept, Early
  <2> QED BY <2>1, <2>4, <2>5, <2>7, OutsideKeeps DEF Types, JobsType
<1> QED BY <1>2, <1>3, <1>4, <1>5 DEF Child

\* The handler collects every change and puts no process in a group.
LEMMA HandlerStep ==
    ASSUME IInv, SigchldHandler
    PROVE  IInv'
<1> USE ShellAssumption DEF IInv
<1>1. /\ pending' = FALSE /\ UNCHANGED <<tty, stopped, pc, locals, open, ncmds>>
      /\ proc' = [p \in Pids |-> IF p \notin Changed THEN proc[p]
                                 ELSE IF proc[p].st = "zombie" THEN Free
                                 ELSE [proc[p] EXCEPT !.report = "none"]]
  BY DEF SigchldHandler, Collected
<1>2. Free \in Procs /\ Free.st = "free" /\ Free.then = "run" /\ Free.report = "none" /\ ~Free.wants
  BY DEF Free, Procs
<1>3. \A r \in Procs : LET r2 == [r EXCEPT !.report = "none"]
                       IN  /\ r2 \in Procs /\ r2.st = r.st /\ r2.grp = r.grp /\ r2.then = r.then
                           /\ r2.report = "none" /\ r2.wants = r.wants
  BY DEF Procs
<1>4. \A p \in Pids : proc[p] \in Procs BY DEF Types
<1>5. \A p \in Pids : /\ proc'[p] \in Procs /\ proc'[p].report = "none" /\ proc'[p].st # "zombie"
                      /\ \/ /\ proc'[p].st = "free" /\ proc'[p].then = "run" /\ ~proc'[p].wants /\ proc[p].st = "zombie"
                         \/ /\ proc'[p].st = proc[p].st /\ proc'[p].grp = proc[p].grp
                            /\ proc'[p].then = proc[p].then /\ proc'[p].wants = proc[p].wants
  <2> SUFFICES ASSUME NEW p \in Pids
               PROVE  /\ proc'[p] \in Procs /\ proc'[p].report = "none" /\ proc'[p].st # "zombie"
                      /\ \/ /\ proc'[p].st = "free" /\ proc'[p].then = "run" /\ ~proc'[p].wants /\ proc[p].st = "zombie"
                         \/ /\ proc'[p].st = proc[p].st /\ proc'[p].grp = proc[p].grp
                            /\ proc'[p].then = proc[p].then /\ proc'[p].wants = proc[p].wants
    OBVIOUS
  <2>1. CASE p \notin Changed
    <3>1. proc'[p] = proc[p] BY <1>1, <2>1
    <3>2. proc[p].report = "none" /\ proc[p].st # "zombie" BY <2>1 DEF Changed
    <3> QED BY <1>4, <3>1, <3>2
  <2>2. CASE p \in Changed /\ proc[p].st = "zombie" BY <1>1, <1>2, <2>2
  <2>3. CASE p \in Changed /\ proc[p].st # "zombie" BY <1>1, <1>3, <1>4, <2>3
  <2> QED BY <2>1, <2>2, <2>3
<1>6. ProcKept BY <1>1, <1>5 DEF ProcKept, Same, Types, Unjoined
<1>7. ChangeSignalled' BY <1>5 DEF ChangeSignalled, Changed
<1>8. WantsLess /\ WantsKept BY <1>5 DEF WantsLess, WantsKept, Early, WantInv
<1>9. JobsType' /\ DOMAIN jobs' = DOMAIN jobs
  <2> DEFINE J == [pgid : Pids \cup {NoPid}, state : {"RUNNING", "STOPPED"}]
  <2>1. PICK new \in [DOMAIN jobs -> {"RUNNING", "STOPPED", "same"}] :
           jobs' = [i \in DOMAIN jobs |->
                       IF new[i] = "same" THEN jobs[i] ELSE [jobs[i] EXCEPT !.state = new[i]]]
    BY DEF SigchldHandler
  <2>2. jobs \in Seq(J) BY DEF Types, JobsType
  <2>3. \A i \in DOMAIN jobs : jobs[i] \in J
    <3> HIDE DEF J
    <3> QED BY <2>2
  <2>4. \A i \in DOMAIN jobs : jobs'[i] \in J BY <2>1, <2>3
  <2>5. DOMAIN jobs = 1..Len(jobs) /\ Len(jobs) \in Nat /\ DOMAIN jobs' = DOMAIN jobs BY <2>1, <2>2
  <2>6. jobs' = [i \in 1..Len(jobs) |-> jobs'[i]] BY <2>1, <2>5
  <2>7. jobs' \in Seq(J)
    <3> HIDE DEF J
    <3> QED BY <2>4, <2>5, <2>6
  <2> QED BY <2>5, <2>7 DEF JobsType
<1> QED BY <1>1, <1>6, <1>7, <1>8, <1>9, OutsideKeeps

\* fork puts a fresh child in the shell's group.
LEMMA ForkStep ==
    ASSUME IInv, NEW p \in Pids, Fork(p)
    PROVE  IInv'
<1> USE ShellAssumption DEF IInv
<1>1. /\ pc = "fork" /\ pc' = "group" /\ proc[p] = Free
      /\ pid' = p /\ pgid' = IF pgid = NoPid THEN p ELSE pgid
      /\ tty' = IF tty = p THEN NoPid ELSE tty
      /\ UNCHANGED <<jobs, pending, stopped, bg, idx, ncmds, lost>>
  BY DEF Fork, At
<1>2. PICK w \in BOOLEAN, r \in Pids \cup {"none", "eof"} :
         /\ proc' = [proc EXCEPT ![p] = [Free EXCEPT !.st = "fresh", !.wants = w, !.reads = r]]
         /\ w = ~bg
  <2> DEFINE r == CASE ~(Head(todo) = "reader") -> "none"
                    [] Head(todo) = "reader" /\ (pid # NoPid /\ proc[pid].st \notin {"free", "zombie"}) -> pid
                    [] OTHER -> "eof"
  <2>1. proc' = [proc EXCEPT ![p] = [Free EXCEPT !.st = "fresh", !.wants = ~bg, !.reads = r]]
    BY <1>1 DEF Fork, Types
  <2>2. r \in Pids \cup {"none", "eof"} BY DEF Types
  <2> HIDE DEF r
  <2> QED BY <2>1, <2>2
<1>3. /\ proc'[p] \in Procs /\ proc'[p].st = "fresh" /\ proc'[p].then = "run" /\ proc'[p].report = "none"
      /\ proc'[p].grp = Shell /\ proc'[p].wants = ~bg
  BY <1>2 DEF Free, Procs, Types
<1>4. \A q \in Pids \ {p} : proc'[q] = proc[q] BY <1>2 DEF Types
<1>5. Types' BY <1>1, <1>2, <1>3, <1>4 DEF Types, JobsType
<1>6. StageInv' /\ JoinInv' /\ GroupInv' BY <1>1, <1>3 DEF StageInv, JoinInv, GroupInv, Unjoined
<1>7. PromptHasTty' BY <1>1 DEF PromptHasTty
<1>8. ChangeSignalled' BY <1>1, <1>3, <1>4 DEF ChangeSignalled, Changed
<1>9. WantInv'
  <2>1. Early(p)' /\ Unjoined(p)' BY <1>3 DEF Early, Unjoined
  <2>2. \A q \in Pids \ {p} : Early(q) => Early(q)' BY <1>4 DEF Early
  <2> QED BY <1>1, <1>4, <2>1, <2>2 DEF WantInv
<1>10. ~proc[p].wants BY <1>1 DEF Free
<1>11. LeadInv' BY <1>1, <1>3, <1>4, <1>10 DEF LeadInv, Types
<1> QED BY <1>5, <1>6, <1>7, <1>8, <1>9, <1>11

\* The shell's setpgid: the child is in the group, or is lost.
LEMMA GroupStep ==
    ASSUME IInv, Group
    PROVE  IInv'
<1> USE ShellAssumption DEF IInv
<1> DEFINE forked == {proc[pid].st, proc[pid].then} \cap {"fresh", "joined"} # {}
<1>1. /\ pc = "group" /\ pc' \in {"fork", "close"} /\ pid \in Pids
      /\ UNCHANGED <<jobs, pending, tty, stopped, todo, bg, pgid, pid, idx, open, ncmds>>
  BY DEF Group, At, StageInv
<1>2. proc[pid] \in Procs BY <1>1 DEF Types
<1>3. StageInv' /\ PromptHasTty' /\ JoinInv' BY <1>1 DEF StageInv, PromptHasTty, JoinInv
<1>4. CASE pgid = pid \/ Exists(pgid)
  <2>1. proc' = [proc EXCEPT ![pid].grp = IF forked THEN pgid ELSE @] BY <1>4 DEF Group
  <2>2. PICK g : /\ proc' = [proc EXCEPT ![pid] = [proc[pid] EXCEPT !.grp = g]]
                 /\ g = IF forked THEN pgid ELSE proc[pid].grp
    BY <1>1, <2>1 DEF Types
  <2>3. g \in Pids \cup {Shell, NoPid} BY <1>2, <2>2 DEF Types, Procs
  <2>4. /\ proc'[pid] \in Procs /\ proc'[pid].st = proc[pid].st /\ proc'[pid].grp = g
        /\ proc'[pid].then = proc[pid].then /\ proc'[pid].report = proc[pid].report
        /\ proc'[pid].wants = proc[pid].wants
    BY <1>1, <1>2, <2>2, <2>3 DEF Types, Procs
  <2>5. \A q \in Pids \ {pid} : proc'[q] = proc[q] BY <2>2 DEF Types
  <2>6. Types' BY <1>1, <2>2, <2>4, <2>5 DEF Types, JobsType
  <2>7. ChangeSignalled' BY <1>1, <2>4, <2>5 DEF ChangeSignalled, Changed
  <2>8. forked \/ proc[pid].st = "free" \/ proc[pid].grp = pgid
    BY <1>1, <1>4 DEF JoinInv, Unjoined
  <2>9. GroupInv' BY <1>1, <2>2, <2>4, <2>8 DEF GroupInv
  <2>10. proc[pid].wants => g = pgid /\ pgid \in Pids BY <1>1, <2>2 DEF WantInv, Early, LeadInv
  <2>11. WantInv'
    <3>1. \A q \in Pids : Early(q) => Early(q)' BY <1>1, <2>4, <2>5 DEF Early
    <3> QED BY <1>1, <2>4, <2>5, <2>10, <3>1 DEF WantInv
  <2>12. LeadInv' BY <1>1, <2>4, <2>5, <2>10 DEF LeadInv, Types
  <2> QED BY <1>3, <2>6, <2>7, <2>9, <2>11, <2>12
<1>5. CASE ~(pgid = pid \/ Exists(pgid))
  <2>1. lost' = lost \cup {pid} /\ UNCHANGED proc BY <1>5 DEF Group
  <2>2. bg /\ ~proc[pid].wants
    BY <1>1, <1>5 DEF LeadInv, WantInv, Exists, Members, Early, Types
  <2>3. WantInv' /\ LeadInv' BY <1>1, <2>1, <2>2 DEF WantInv, LeadInv, Early
  <2> QED BY <1>1, <1>3, <2>1, <2>3 DEF Types, JobsType, GroupInv, ChangeSignalled, Changed
<1> QED BY <1>4, <1>5

\* The shell's other steps: where there is a newest stage it stays in its group,
\* and the terminal is the shell's at every step that needs it.
LEMMA MainStep ==
    ASSUME IInv, NEW from, NEW to,
           \/ Give(from, to) /\ <<from, to>> \in {<<"give", "wait">>, <<"fg", "fgcont">>}
           \/ Continue(from, to) /\ <<from, to>> \in {<<"fgcont", "fgmark">>, <<"bg", "bgmark">>}
           \/ MarkRunning(from, to) /\ <<from, to>> \in {<<"fgmark", "wait">>, <<"bgmark", "prompt">>}
           \/ ForkFails \/ ClosePipes \/ AddJob \/ WaitGroup \/ Take \/ Exit
           \/ \E stages \in {<<"first">>, <<"first", "reader">>}, background \in BOOLEAN :
                 Pipeline(stages, background)
           \/ \E i \in 1..MaxJobs : Builtin(i, "fg") \/ Builtin(i, "bg")
    PROVE  IInv'
<1> USE ShellAssumption DEF IInv
\* Steps that only move main along.
<1>1. ASSUME UNCHANGED proc, UNCHANGED pending, UNCHANGED jobs, UNCHANGED tty, UNCHANGED <<pid, pgid, lost>>,
             \/ pc = "fork" /\ pc' \in {"fork", "close"}
             \/ pc = "close" /\ pc' = "add"
             \/ pc = "add" /\ pc' = "give"
             \/ pc = "prompt" /\ pc' \in {"fork", "exited"}
             \/ pc' = pc /\ UNCHANGED <<idx, bg>>,
             pc = "fork" => UNCHANGED bg
      PROVE  IInv'
  <2>1. Types' /\ ChangeSignalled' BY <1>1 DEF Types, JobsType, ChangeSignalled, Changed
  <2>2. StageInv' /\ JoinInv' /\ GroupInv'
    BY <1>1, Alone, StageKept DEF StageInv, JoinInv, GroupInv, Types
  <2>3. PromptHasTty' BY <1>1 DEF PromptHasTty
  <2>4. WantInv' /\ LeadInv' BY <1>1 DEF WantInv, LeadInv, StageInv, Early, Unjoined
  <2> QED BY <2>1, <2>2, <2>3, <2>4
\* Returns to the prompt.
<1>2. ASSUME UNCHANGED proc, UNCHANGED pending, JobsType', UNCHANGED tty, NoLocals, tty = Shell,
             pc # "group", pc' = "prompt"
      PROVE  IInv'
  <2>1. Types' /\ ChangeSignalled' BY <1>2 DEF Types, NoLocals, ChangeSignalled, Changed
  <2>2. StageInv' /\ JoinInv' /\ GroupInv' /\ PromptHasTty'
    BY <1>2 DEF NoLocals, StageInv, JoinInv, GroupInv, PromptHasTty
  <2>3. WantInv' /\ LeadInv' BY <1>2 DEF WantInv, LeadInv, Early
  <2> QED BY <2>1, <2>2, <2>3
<1>3. CASE ForkFails \/ ClosePipes \/ Exit
  BY <1>1, <1>3 DEF ForkFails, ClosePipes, Exit, At, locals
<1>4. ASSUME NEW stages, NEW background, Pipeline(stages, background) PROVE IInv'
  BY <1>1, <1>4 DEF Pipeline, At
<1>5. CASE AddJob
  <2> DEFINE J == [pgid : Pids \cup {NoPid}, state : {"RUNNING", "STOPPED"}]
  <2>1. JobsType'
    <3>1. [pgid |-> pgid, state |-> "RUNNING"] \in J BY DEF Types
    <3>2. jobs \in Seq(J) BY DEF Types, JobsType
    <3>3. jobs' \in {jobs, Append(jobs, [pgid |-> pgid, state |-> "RUNNING"])} BY <1>5 DEF AddJob
    <3> HIDE DEF J
    <3>4. jobs' \in Seq(J) BY <3>1, <3>2, <3>3
    <3> QED BY <3>4 DEF JobsType, J
  <2>2. pc = "add" /\ UNCHANGED <<proc, pending, tty, stopped, open, ncmds>> BY <1>5 DEF AddJob, At
  <2>3. CASE bg BY <1>2, <1>5, <2>1, <2>2, <2>3 DEF AddJob, At, PromptHasTty
  <2>4. CASE ~bg
    <3>1. pc' = "give" /\ UNCHANGED locals BY <1>5, <2>4 DEF AddJob, At
    <3>2. Types' /\ ChangeSignalled' BY <2>1, <2>2, <3>1 DEF Types, ChangeSignalled, Changed, locals
    <3>3. StageInv' /\ JoinInv' /\ GroupInv' /\ PromptHasTty'
      BY <2>2, <3>1 DEF StageInv, JoinInv, GroupInv, PromptHasTty, locals
    <3>4. WantInv' /\ LeadInv' BY <2>2, <3>1 DEF WantInv, LeadInv, Early
    <3> QED BY <3>2, <3>3, <3>4
  <2> QED BY <2>3, <2>4
<1>6. CASE Give(from, to) /\ <<from, to>> \in {<<"give", "wait">>, <<"fg", "fgcont">>}
  <2>1. /\ (pc = "give" /\ pc' = "wait") \/ (pc = "fg" /\ pc' = "fgcont")
        /\ UNCHANGED <<jobs, proc, pending, stopped, locals, open, ncmds>>
    <3>1. tty = Shell BY <1>6 DEF Give, At, PromptHasTty
    <3> QED BY <1>6, <3>1 DEF Give, At
  <2>2. Types' /\ ChangeSignalled' BY <2>1 DEF Types, JobsType, ChangeSignalled, Changed, locals
  <2>3. StageInv' /\ JoinInv' /\ GroupInv' /\ PromptHasTty'
    BY <2>1 DEF StageInv, JoinInv, GroupInv, PromptHasTty, locals
  <2>4. WantInv' /\ LeadInv' BY <2>1 DEF WantInv, LeadInv, Early
  <2> QED BY <2>2, <2>3, <2>4
<1>7. CASE Continue(from, to) /\ <<from, to>> \in {<<"fgcont", "fgmark">>, <<"bg", "bgmark">>}
  <2>1. /\ (pc = "fgcont" /\ pc' = "fgmark") \/ (pc = "bg" /\ pc' = "bgmark")
        /\ UNCHANGED <<jobs, tty, stopped, locals, open, ncmds>> /\ ContGroup(Target)
    BY <1>7 DEF Continue, At
  <2>2. ProcKept /\ WantsLess /\ WantsKept /\ pending' \in BOOLEAN /\ ChangeSignalled' BY <2>1, ContShape
  <2>3. Types' BY <2>1, <2>2 DEF Types, JobsType, locals, ProcKept, Same
  <2>4. StageInv' /\ JoinInv' /\ GroupInv' /\ PromptHasTty'
    BY <2>1 DEF StageInv, JoinInv, GroupInv, PromptHasTty, locals
  <2>5. WantInv' BY <2>1, <2>2 DEF WantInv, WantsLess, ProcKept, Same, Early
  <2>6. LeadInv' BY <2>1 DEF LeadInv
  <2> QED BY <2>2, <2>3, <2>4, <2>5, <2>6
<1>8. CASE MarkRunning(from, to) /\ <<from, to>> \in {<<"fgmark", "wait">>, <<"bgmark", "prompt">>}
  <2> DEFINE J == [pgid : Pids \cup {NoPid}, state : {"RUNNING", "STOPPED"}]
  <2>1. /\ \/ pc = "fgmark" /\ pc' = "wait" /\ UNCHANGED locals
           \/ pc = "bgmark" /\ pc' = "prompt" /\ NoLocals
        /\ jobs' = [jobs EXCEPT ![idx].state = "RUNNING"]
        /\ UNCHANGED <<proc, pending, tty, stopped, open, ncmds>>
    BY <1>8 DEF MarkRunning, At
  <2>2. JobsType'
    <3>1. jobs \in Seq(J) /\ idx \in DOMAIN jobs BY <2>1 DEF Types, JobsType, StageInv
    <3>2. jobs[idx] \in J
      <4> HIDE DEF J
      <4> QED BY <3>1
    <3>3. [jobs[idx] EXCEPT !.state = "RUNNING"] \in J BY <3>2
    <3>4. jobs' = [jobs EXCEPT ![idx] = [jobs[idx] EXCEPT !.state = "RUNNING"]] BY <2>1, <3>1
    <3>5. PICK r \in J : jobs' = [jobs EXCEPT ![idx] = r] BY <3>3, <3>4
    <3> HIDE DEF J
    <3>6. jobs' \in Seq(J) BY <3>1, <3>5
    <3> QED BY <3>6 DEF JobsType, J
  <2>3. CASE pc = "bgmark" BY <1>2, <2>1, <2>2, <2>3 DEF PromptHasTty
  <2>4. CASE pc = "fgmark"
    <3>1. Types' /\ ChangeSignalled' BY <2>1, <2>2, <2>4 DEF Types, ChangeSignalled, Changed, locals
    <3>2. StageInv' /\ JoinInv' /\ GroupInv' /\ PromptHasTty'
      BY <2>1, <2>4 DEF StageInv, JoinInv, GroupInv, PromptHasTty, locals
    <3>3. WantInv' /\ LeadInv' BY <2>1, <2>4 DEF WantInv, LeadInv, Early
    <3> QED BY <3>1, <3>2, <3>3
  <2> QED BY <2>1, <2>3, <2>4
<1>9. CASE WaitGroup
  <2>1. pc = "wait" /\ pc' = "take" /\ UNCHANGED <<jobs, pending, tty, stopped, locals, open, ncmds>>
    BY <1>9 DEF WaitGroup, At
  <2> DEFINE Wants(p) == proc'[p].wants => /\ proc[p].wants /\ proc'[p].grp = proc[p].grp
                                           /\ proc'[p].st = proc[p].st /\ proc'[p].then = proc[p].then
  <2>2. /\ proc' \in [Pids -> Procs] /\ Changed' \subseteq Changed
        /\ \A p \in Pids : (proc'[p].st # "stop" => proc'[p].then = "run") /\ Wants(p)
    <3>1. Free \in Procs /\ Free.st = "free" /\ Free.then = "run" /\ Free.report = "none" /\ ~Free.wants
      BY DEF Free, Procs
    <3>2. ASSUME NEW p \in Pids, proc' = [proc EXCEPT ![p] = Free]
          PROVE  /\ proc' \in [Pids -> Procs] /\ Changed' \subseteq Changed
                 /\ \A q \in Pids : (proc'[q].st # "stop" => proc'[q].then = "run") /\ Wants(q)
      BY <3>1, <3>2 DEF Types, Changed
    <3>3. ASSUME NEW p \in Pids, proc' = [proc EXCEPT ![p].report = "none"]
          PROVE  /\ proc' \in [Pids -> Procs] /\ Changed' \subseteq Changed
                 /\ \A q \in Pids : (proc'[q].st # "stop" => proc'[q].then = "run") /\ Wants(q)
      <4>1. proc[p] \in Procs BY DEF Types
      <4>2. /\ proc'[p] \in Procs /\ proc'[p].st = proc[p].st /\ proc'[p].then = proc[p].then
            /\ proc'[p].report = "none" /\ proc'[p].wants = proc[p].wants /\ proc'[p].grp = proc[p].grp
        BY <3>3, <4>1 DEF Types, Procs
      <4>3. \A q \in Pids \ {p} : proc'[q] = proc[q] BY <3>3 DEF Types
      <4>4. proc' \in [Pids -> Procs] BY <3>3, <4>2, <4>3 DEF Types
      <4> QED BY <4>2, <4>3, <4>4 DEF Types, Changed
    <3>4. CASE UNCHANGED proc BY <3>4 DEF Types, Changed
    <3> QED BY <1>9, <3>2, <3>3, <3>4 DEF WaitGroup, Members
  <2>3. Types' /\ ChangeSignalled' BY <2>1, <2>2 DEF Types, JobsType, ChangeSignalled, locals
  <2>4. StageInv' /\ JoinInv' /\ GroupInv' /\ PromptHasTty'
    BY <2>1 DEF StageInv, JoinInv, GroupInv, PromptHasTty
  <2>5. WantInv' /\ LeadInv' BY <2>1, <2>2 DEF WantInv, LeadInv, Early
  <2> QED BY <2>3, <2>4, <2>5
<1>10. CASE Take
  <2>1. CASE tty = Shell BY <1>2, <1>10, <2>1 DEF Take, At, Types, JobsType
  <2>2. CASE tty # Shell
    <3>1. StopGroup(Shell) /\ UNCHANGED <<pc, locals, jobs, tty>> BY <1>10, <2>2 DEF Take
    <3>2. ProcKept /\ WantsLess /\ WantsKept /\ pending' \in BOOLEAN /\ ChangeSignalled' BY <3>1, StopShape
    <3> QED BY <3>1, <3>2, OutsideKeeps DEF Types, JobsType
  <2> QED BY <2>1, <2>2
<1>11. ASSUME NEW i \in 1..MaxJobs, Builtin(i, "fg") \/ Builtin(i, "bg") PROVE IInv'
  <2>1. /\ pc = "prompt" /\ pc' \in {"fg", "bg"} /\ i \in DOMAIN jobs
        /\ idx' = i /\ pgid' = jobs[i].pgid
        /\ UNCHANGED <<jobs, proc, pending, tty, stopped, todo, bg, pid, open, ncmds, lost>>
    BY <1>11 DEF Builtin, At
  <2> DEFINE J == [pgid : Pids \cup {NoPid}, state : {"RUNNING", "STOPPED"}]
  <2>2. jobs \in Seq(J) BY DEF Types, JobsType
  <2>3. jobs[i] \in J
    <3> HIDE DEF J
    <3> QED BY <2>1, <2>2
  <2>4. Types' /\ ChangeSignalled' BY <2>1, <2>3 DEF Types, JobsType, ChangeSignalled, Changed
  <2>5. StageInv' /\ JoinInv' /\ GroupInv' /\ PromptHasTty'
    BY <2>1 DEF StageInv, JoinInv, GroupInv, PromptHasTty
  <2>6. WantInv' /\ LeadInv' BY <2>1 DEF WantInv, LeadInv, Early
  <2> QED BY <2>4, <2>5, <2>6
<1> QED BY <1>3, <1>4, <1>5, <1>6, <1>7, <1>8, <1>9, <1>10, <1>11

\* Initially.
LEMMA InitIInv == ASSUME Init PROVE IInv
<1> USE ShellAssumption, ShellBounds
<1>1. Free \in Procs /\ Free.st = "free" /\ Free.then = "run" /\ Free.report = "none" /\ ~Free.wants
  BY DEF Free, Procs
<1>2. \A p \in Pids : proc[p] = Free BY DEF Init
<1>3. Types
  <2>1. JobsType BY DEF Init, JobsType
  <2>2. proc \in [Pids -> Procs] BY <1>1 DEF Init
  <2> QED BY <1>1, <1>2, <2>1, <2>2 DEF Init, Types
<1>4. ChangeSignalled BY <1>1, <1>2 DEF ChangeSignalled, Changed
<1>5. StageInv /\ JoinInv /\ GroupInv /\ PromptHasTty BY DEF Init, StageInv, JoinInv, GroupInv, PromptHasTty
<1>6. WantInv /\ LeadInv BY <1>1, <1>2 DEF WantInv, LeadInv, Init
<1> QED BY <1>3, <1>4, <1>5, <1>6 DEF IInv

\* Every step keeps the invariant.
LEMMA NextIInv == ASSUME IInv, [Next]_vars PROVE IInv'
<1>1. CASE CtrlZ
  <2>1. ProcKept /\ WantsLess /\ WantsKept /\ pending' \in BOOLEAN /\ ChangeSignalled'
    BY <1>1, StopShape DEF CtrlZ, IInv
  <2> QED BY <1>1, <2>1, OutsideKeeps DEF CtrlZ, IInv, Types, JobsType
<1>2. CASE OuterFg
  <2>1. ProcKept /\ WantsLess /\ WantsKept /\ pending' \in BOOLEAN /\ ChangeSignalled'
    BY <1>2, ContShape DEF OuterFg, IInv
  <2> QED BY <1>2, <2>1, OutsideKeeps DEF OuterFg, IInv, Types, JobsType
<1>3. CASE UNCHANGED vars
  <2>1. ProcKept /\ WantsLess /\ WantsKept /\ UNCHANGED <<pc, locals, jobs, tty, pending>>
    BY <1>3, Alone DEF vars, IInv
  <2>2. ChangeSignalled' BY <1>3 DEF IInv, vars, ChangeSignalled, Changed
  <2> QED BY <2>1, <2>2, OutsideKeeps DEF IInv, Types, JobsType
<1>4. CASE Main
  BY <1>4, ForkStep, GroupStep, MainStep DEF Main, ExecutePipeline, BringToForeground, ContinueInBackground
<1>5. CASE User BY <1>1, <1>2, <1>5, MainStep DEF User
<1>6. CASE SigchldHandler BY <1>6, HandlerStep
<1>7. ASSUME NEW p \in Pids, Child(p) \/ End(p) PROVE IInv' BY <1>7, ChildStep
<1> QED BY <1>3, <1>4, <1>5, <1>6, <1>7 DEF Next

\* The inductive invariant holds throughout.
THEOREM Invariance == Spec => []IInv
<1>1. Init => IInv BY InitIInv
<1>2. IInv /\ [Next]_vars => IInv' BY NextIInv
<1> QED BY <1>1, <1>2, PTL DEF Spec

\* The shell prompts and starts or continues jobs only while the terminal is its
\* own: the stages that call tcsetpgrp with their own pid, and may leave the
\* terminal with a group that has no member, take it from their pipeline only.
THEOREM TerminalReturns == Spec => []PromptHasTty
  BY Invariance, PTL DEF IInv

\* When the shell hands over the terminal and waits, the newest stage is in the
\* pipeline's group, whichever of the two setpgid calls came first, unless the
\* group was gone.
THEOREM GroupIsComplete == Spec => []GroupComplete
<1>1. IInv => GroupComplete BY DEF IInv, GroupInv, GroupComplete
<1> QED BY <1>1, Invariance, PTL

\* No status change is left without a SIGCHLD to collect it.
THEOREM ChangesAreSignalled == Spec => []ChangeSignalled
  BY Invariance, PTL DEF IInv
=============================================================================
