# Linux Labs: a TLA+ verification of the concurrent labs

The repository is a course: some thirty C programs in three groups, each lab a
program of its own. Many are straight-line demonstrations of a system call. The
ones with state, concurrency and failure are three job-control shells, two
producer/consumer programs, six chat servers, a logger and four load balancers,
and they are what this project models. Labs share no code, so every program has a
module of its own. Programs that grew out of each other share what they have in
common: the single-threaded servers the kernel, the remote peers and the event
loop (`EpollLoop`), three of the chat servers their client array (`ClientArray`),
the balancers the pairing of clients with backends (`Proxy`). Two programs are
compared with an abstract specification of what they promise (`JobPool`,
`Handoff`).

## 1. Inventory

### 01_processes

| lab | state | operations | hard behaviour |
|---|---|---|---|
| 07 `bg_jobs` | `jobs[MAX_JOBS]` of pid and active flag | fork in fore- or background, `add_job`, `sigchld_handler`, `waitpid` | handler between any two statements of `main`; one pending SIGCHLD for several children; reused pids; full table |
| 11 `advanced_job_control` | table of pid and RUNNING/STOPPED/DONE that never shrinks; the terminal's foreground group | fork, `tcsetpgrp`, `fg`, `bg`, Ctrl-Z, handler, `waitpid` | two collectors of the same status; terminal handed over by parent and child; SIGTTOU |
| 12 `pipelines` | as 11, a job is a process group; the pipes of the pipeline being started | as 11, with `pipe` and `setpgid` from shell and stage | stages that end before the next is forked, pipe ends left open, one wait for several stages, group lookups after a reap |
| 10 `mini_shell`, 09 `process_groups`, 08 `signal_control` | a foreground pid or group | fork, `setpgid`, `kill` | setpgid/kill races |
| 01-06 | none | fork, exec, dup2 | none (sequential) |

### 02_ipc

| lab | state | operations | hard behaviour |
|---|---|---|---|
| 05 `synchronization` | shared slots, semaphores mutex/empty/full | sem_wait, sem_post, slot access | deadlock, lost or torn message |
| 04 `shared_memory` | shared slots with an id | poll the id, store, read | order of the stores |
| 02 `pipes` | a FIFO | mkfifo, open, read, write | child opens before the parent creates |
| 01, 03 | none worth a model | signals, one struct over a pipe | none |

### 03_networking

| lab | state | operations | hard behaviour |
|---|---|---|---|
| 15 `threaded_chat_server` | job queue with mutex, condition variable and closed flag; client list with mutex; `running`; one `client_fd` per worker | accept, push, pop, add/remove client, broadcast, close, join, signal handler | all of threads, signals, blocking sends under a mutex, shutdown |
| 14 `epoll_chat_server`, 17 `command_chat_server`, 18 `room_chat_server` | array of clients; nickname in 17, nickname and room in 18 | accept, recv, commands, broadcast, remove | edge-triggered events, batches, entries that move, reused descriptors |
| 04 `epoll_chat_server` | a flag per descriptor number | accept, read, write to all others | as 14 |
| 05 `tcp_logger` | fixed slots over `select`; a log file | accept into a slot, read, append | full table |
| 16 `tls_epoll_chat` | list of TLS clients with a handshake state, `running` | SSL_accept, SSL_read, SSL_write, clean-up, signal | want-read/want-write under edge triggering, abandoned writes, a shared error queue, the signal before `epoll_wait` |
| 13 `async_load_balancer` | `connections[fd]`, `next_backend` | accept and connect, forward, close both | stale events of a batch, connects that fail after the pair was entered |
| 10 `tcp_load_balancer`, 11 (kqueue) | append-only table of pairs, `current_backend` | accept and connect, forward | dead backends, ends of stream, descriptors running out |
| 12 `load_balancer` | `next_backend`; a child per connection | accept, connect, fork, relay one request and one answer | failing fork, a backend that resets |
| 09 UDP balancer; 03, 06-08 loggers | next backend; a log file | recvfrom, append | lost and foreign datagrams, signals in a blocking call |
| 01, 02 | none | echo, multicast | none |

Components do not call each other; inside a program they interact through shared
memory (threads of lab 15, processes of the IPC labs), signals (the shells and
lab 15), the terminal (labs 11 and 12), pipes (lab 12) and sockets (the servers and their clients).

## 2. Modules

| module | models | role |
|---|---|---|
| `ThreadPoolChat` | lab 15 `server.c`, and `client.c` as the remote peer | detailed specification |
| `JobPool` | what lab 15's queue promises | abstract specification |
| `MCThreadPoolChat` | symmetry, and the full-room initial states | instance for TLC |
| `ThreadPoolChatProofs` | theorems about `ThreadPoolChat` | TLAPS |
| `BgJobs`, `BgJobsProofs` | lab 07 | specification, TLAPS |
| `JobControl`, `JobControlProofs` | lab 11 | specification, TLAPS |
| `SemQueue`, `Handoff`, `SemQueueProofs` | IPC lab 05, what it promises | specification, abstraction, TLAPS |
| `ShmQueue` | IPC lab 04 | specification |
| `PipelineShell`, `PipelineShellProofs` | process lab 12 | specification, TLAPS |
| `EpollLoop` | peers, sockets, descriptors, `epoll_wait` and its batches of networking labs 04, 05, 10-14, 16-18 | extended by all below |
| `ClientArray` | the client array of labs 14, 17 and 18 | extended by the next three |
| `EpollChat`, `CommandChat`, `RoomChat` | labs 14, 17, 18 | specifications |
| `FlagChat`, `TcpLogger` | labs 04 and 05 | specifications |
| `MCChatServers`, `ChatServersProofs` | the five servers above before the same peers | instance for TLC, TLAPS |
| `Proxy` | clients, backends and pairs of labs 10-13 | extended by the next three |
| `TcpLB`, `ForkLB`, `AsyncLB` | labs 10 (and 11), 12, 13 | specifications |
| `MCLoadBalancers`, `LoadBalancersProofs` | the three balancers before the same clients and backends | instance for TLC, TLAPS |
| `TlsChat`, `TlsChatProofs` | lab 16 | specification, TLAPS |

Definitions whose names begin with `Mut` are variants of the definition that
follows, each with a plausible bug. They are not used by any specification: they
show that the property they are named with in `PROJECT.json` fails when the code
is wrong in that way.

### ThreadPoolChat (lab 15)

A step is one blocking call, one critical section or one loop test. The queue's
critical sections are two steps, lock and body, because `handle_signal` may
interrupt their owner and call `jobq_close`, which locks the same (non-recursive)
mutex. `clients_mutex` is a variable because `broadcast_message` holds it over
blocking sends; `add_client` and `remove_client` hold it for one step.

| code | model |
|---|---|
| `jobq` (lines 31-55) | `jobs` (descriptors, oldest first), `closed`, `qMutex` |
| `clients`, `clients_mutex` | `clients` (a set: the list order shows in no property), `cMutex` |
| `running`, the handler | `running`, `hpc` (the handler's position on each thread's stack), `caught` |
| `client_fd`, `buf`, the walk in `broadcast_message` | `cfd`, `buf`, `rest` |
| the kernel | `fds` (what a descriptor is), `conn`, `backlog`, `sent`/`taken` (stream positions), `out`/`nread` |

Data received is a piece `[from, lo, hi]` of the sender's stream, so that order,
gaps and repetitions can be told apart while the bytes are not modelled. `recv`
returns any nonempty part of what has arrived. `send_all` to one client is one
step, enabled while the receiver's window is not full: the retry loop around a
partial write ends in the same state. A peer that has gone turns the first send
into an error and the second into SIGPIPE, whose default action ends the process.
`signal()` with `_POSIX_C_SOURCE` gives System V semantics: a blocking `accept` or
`recv` returns EINTR, and a thread that has tested `running` but not yet entered
the call is not interrupted (`Deliver` leaves both possible). malloc failures are
the actions `PushFail` and `AddFail`, switched on by `MallocMayFail`.

Left out: a second signal interrupting the handler on the same thread; `accept`
errors other than EMFILE; the texts.

### BgJobs (lab 07) and JobControl (lab 11)

`BgJobs` splits `add_job` at its stores (find the slot, pid, flag) since the
handler may run between them; the handler itself is one step because SIGCHLD is
blocked in it and `main` does not run meanwhile. A pid is free again once reaped.
`JobControl` does the same for lab 11 and adds the terminal: `tty` is the
foreground group, `tcsetpgrp` from a background group stops the caller with
SIGTTOU (child: `ChildStart`; shell: `Take`, continued by `OuterFg`), and a status
is collected once, by `Wait` in `main` or by `SigchldHandler`. `entry` is a history
variable, the table entry of a pid's present process.

### SemQueue (IPC lab 05) and ShmQueue (IPC lab 04)

One step per semaphore call or slot access. A slot is an id and the number of the
message whose text it holds, so a slot read between the two stores is visible.
`Handoff` is the abstract exchange: messages 1..N, in order, whole, none before
it is announced.

### PipelineShell (process lab 12)

A process is a record `proc[p]`: its state (forked, after `setpgid`, after exec,
stopped, zombie), its group, what `waitpid` has not reported yet, whether it will
call `tcsetpgrp`, and the stage it reads from. `execute_pipeline` is one action per
system call: `Fork`, `Group` (the shell's `setpgid`), `ClosePipes`, `AddJob`, `Give`,
`WaitGroup`, `Take`; the stages run `ChildJoin`, `ChildTtou` or `ChildExec` in between.
`setpgid` fails for a group that no longer exists and after the stage's exec;
`lost` records the stages for which that happened. A failed fork leaves the stage
out, and if it was the first one the pgid stays 0, which `waitpid` and `kill` take
for the caller's own group (`Target`). The readers whose pipe the shell still has
open are in `open`. Locals are reset at the prompt, where they are out of scope.

Every foreground stage calls `tcsetpgrp` with its own pid. Linux accepts the id of
any process of the session (`Settable`), also one that leads no group. In a background
group the call stops the stage (`ChildTtou`). In the foreground group it succeeds
(`ChildExec`): the first stage gives the terminal to the group that has it, a later
one to a group without members. Assumed: no stage is killed from elsewhere before
its exec.

### EpollLoop, ClientArray and the chat servers (labs 04, 14, 17, 18), TcpLogger (lab 05)

`EpollLoop` has the peers, the kernel and the loop: `ready` is epoll's ready list,
`batch` the events of the current `epoll_wait` not yet handled, taken in any
order. Clients are edge-triggered and every event is answered by one `recv`
that returns at most `BufLines` lines. `accept` returns the lowest free
descriptor, which matters for lab 13. Sends are non-blocking and unchecked: a
full buffer loses the message (`Slow` peers only), a connection that has ended
resets and then raises SIGPIPE.

`ClientArray` adds the array with its swap-removal. One `recv` is one command or
one text, whatever it holds, as in the code. A word that is longer than its array
is stored shortened (`Stored`). `mine` (the name and the room a connection set last)
is a history for the properties, and so is `left` of `MCChatServers`: the peers of
which the last `recv` took something and left something, lines or the end, and from
which nothing has arrived since. `CommandChat` and `RoomChat` have one action per command. `FlagChat` keeps lab 04's flags instead. `TcpLogger` is
lab 05's `select` loop: level-triggered, the listening socket first, then the slots.

### Proxy, TcpLB (labs 10, 11), ForkLB (lab 12), AsyncLB (lab 13)

`Proxy` pairs an accepted client with an end of the backend whose turn it is;
`down` is the set of backends that refuse. The histories: `mate`, the end a remote end
was paired with; `misses`, how many clients in a row were given to a dead backend
(labs 12 and 13); `served`, the connections made to each backend (lab 10).

`AsyncLB` makes its socket non-blocking before `connect`, so that it always gets a
connection in progress: the pair is entered and registered, and a dead backend shows
by an event on its descriptor, which closes both, or first by a failing write of what
the client has sent. Only a `socket` or `connect` that fails for a reason of this host
closes the client at once (`AcceptRefused`). In `TcpLB` and `ForkLB` `connect` blocks and
is refused. `AsyncLB` closes both descriptors of an entry; `TcpLB` never closes any and
waits level-triggered; when `accept` took its last one, the connection fails (`LastFd`).
Lab 11 makes lab 10's steps over kqueue. In `ForkLB` the parent keeps no descriptor and
a child per client relays one request and one answer with blocking calls; a failed
fork goes unnoticed, and a backend that resets ends the child by SIGPIPE.

### TlsChat (lab 16)

What arrives is a sequence of TLS records: the client's hello, its finish, data,
and bye (a close_notify or garbage). `SSL_accept` consumes the handshake's records
and leaves the rest; `SSL_read` is called until it would block, so that an
established connection is drained at every event. A write that would block is
abandoned (`pending`); OpenSSL may refuse the next message as a retry with other
data, which marks the connection, and marked connections are freed at their own
next event. `errors` says whether the thread's error queue, which only `SSL_accept`
empties, holds an error: `SSL_get_error` then takes every read and write that would
only block for a failure, of whatever connection. Which failures leave an error
there depends on the failure and on OpenSSL's version, and is left open, but for a
refused retry, which always does. `SSL_shutdown` may raise SIGPIPE. `at` is main's position, so that a
signal can come between the test of `running` and `epoll_wait`. `early` is a history
variable: the peers from whom something was left unread when their handshake ended.

Left out in all servers: array overruns (`clients[]`, `conn_table[]`,
`connections[128]`, the `/list` buffer), which are undefined behaviour: `MaxFd` stays
below the arrays' sizes.

## 3. Runs

Deadlock checking is off in all runs but `SemQueue` and `ShmQueueTorn`: the servers
and shells may stop (exit, SIGPIPE) and the peers of the models need not act.

| run | properties | what it shows |
|---|---|---|
| `ChatServe` | `TypeOK` `SoleOwner` `ListedIsServed` `NoLostWakeup` `NoLeak` `ImplementsPool` | a connection goes from accept over the queue to one worker and its close; nobody else uses, closes or lists it too long; wake-ups suffice; the queue implements `JobPool` |
| `ChatStop` | `ClosedWakes` `JoinEmptiesList` `JoinEnds` `SignalClosesQueue` | shutdown with two signals on any threads and failing malloc: the queue is closed and the join ends, unless a handler is caught in the queue's mutex (`Stuck`) |
| `ChatRoom` | `SameOrder` `NoGap` `BroadcastEnds` | racing broadcasts in a full room that a client may leave |
| `BgJobs` | `ZombieSignalled` `RunningIsListed` `ChildrenReaped` | coalesced signals, reused pids, a full table |
| `JobControl` | `TypeOK` `PromptHasTty` `DoneIsDead` `ChangeSignalled` | terminal races, two collectors of a status |
| `PipelineShell` | `PromptHasTty` `GroupComplete` `ChangeSignalled` `ReaderDrains` | stages share a group whoever sets it first; the shell has the terminal back although the stages take it from each other; the end of a stage reaches its reader because no pipe end stays open |
| `SemQueue` | `TypeOK` `Exclusion` `Delivers` `BothEnd` | the semaphore protocol implements `Handoff` and ends |
| `ChatServers` | `TableIsOpen` `EdgeSeen` `EntryIsOwn` `TextStaysInRoom` `PrivateToNamed` | the tables of five servers through removals and reuse; what is unread has its event, unless a `recv` on this connection left it behind; names and rooms stay with their connection, and a text or a private message is received in its room or under its name only |
| `LoadBalancers` | `PairsIntact` `Isolation` `Balanced` `RefusalsBounded` | stale events and reused descriptors never mix two clients' data; backends are used in turn (lab 10); one client in a row per dead backend is given to one (labs 12, 13) |
| `TlsChat` | `ListedIsOpen` `NothingStranded` `SignalEnds` | the list is that of the open connections; what arrives after the handshake has its event; the signal always ends the server |
| `ShmQueueTorn` | `TextIsWhole` (violated) | section 5 |
| `AsyncLBKill` | `LivePairKept` (violated) | section 5 |

### Bounds

- `ChatServe`: 2 workers, 2 peers, 2 descriptors, 1 signal, 1 unit of data each. Two of
  each let jobs queue while both workers sleep, descriptors be reused, a pool be
  full, `accept` run out of descriptors and a broadcast have a receiver. Workers,
  descriptors and peers are interchangeable (symmetry). About 134 000 states.
- `ChatStop`: 2 workers, 1 peer, 1 descriptor, 2 signals, malloc may fail; no symmetry
  because of the liveness property. About 87 000 states.
- `ChatRoom`: 3 workers with one listed client each, which is a reachable state of the
  server; either each client has sent one unit, or one has sent three; one client
  may leave. Three is the least number for which receivers that each miss their
  own message can disagree in a cycle. About 99 000 states.
- `BgJobs`: 3 pids and 2 slots: a full table with a third child, and pids reused while
  an old slot carries them. `JobControl`: 2 pids, 3 entries.
- `SemQueue`, `ShmQueueTorn`: the queue length of the code, 5.
- `PipelineShell`: 2 pids, 2 table entries, 2 pipelines of one or two stages, so that fork
  fails, the table fills with fg and bg still working on old groups, and pids and
  group ids are reused. About 106 000 states.
- `ChatServers`: 3 peers over 2 descriptors (reuse, swap-removal, no descriptor left).
  Three lines in all, two of which one `recv` returns: lines and ends are left
  behind, and in lab 18 two clients join a room, in which a text is then delivered,
  while others are in another room. Two short words and a long one that is stored
  as one of them. To keep the run short, at most the first two lines are commands
  (`MaxCommands`), those that are only answered come first or not at all, and lab 17,
  where two lines deliver a private message, has no third. One slot for the logger,
  so that its table is full. About 1.9 million states.
- `LoadBalancers`: 4 clients, 3 backend ends, 6 descriptors: three pairs, so that with 2
  backends the turn passes both and comes back to the first, descriptors are reused
  within a batch, and the fourth client finds none left. Backend 1 is down or none
  is, for every lab. Two of the clients (`Late`) come after the others and only take
  descriptors and turns, which is what they are there for. An odd number of
  descriptors, for which `LastFd` holds, is covered by the proofs only. About 444 000
  states. `AsyncLBKill`: 2 clients and 1 backend.
- `TlsChat`: 2 peers, one of them slow, 2 records besides the handshakes. About 468 000
  states; a live connection dropped for an error of the other occurs.

### Fairness

- `ThreadPoolChat!Fairness`: every thread, with the handler on its stack, keeps running
  when it can, strongly fair because a mutex that is free again and again is
  obtained in the end; peers read what arrives, as `client.c`'s receiving thread
  does. Nothing is assumed of when peers connect, send or hang up, of malloc, of
  signals or of spurious wake-ups. `RoomFairness` is its part for workers and readers.
  `JoinEnds` and `SignalClosesQueue` therefore have their conditions in the formula:
  no connection is open, and no handler is caught (`Stuck`).
- `BgJobs`: `main` runs, and a pending signal is delivered while the shell lives.
- `PipelineShell`: the shell and its children run, a pending signal is delivered, and a
  command that reads to the end of its input ends there. Nothing is assumed of the
  user or of when a first stage ends.
- `SemQueue`: both processes are scheduled, strongly fair for the semaphores. `ShmQueue`:
  weak fairness of both processes.
- `TlsChat`: the server process runs (weakly fair); `epoll_wait` has a timeout, which is
  what `SignalEnds` rests on. Nothing is assumed of the clients.

## 4. Proofs

Every safety property and refinement that a passing run checks is also proved, for
arbitrary constants satisfying the modules' ASSUMEs: the special values are not among
the sets they mark, bounds are natural numbers (positive where the code has at least
one), there are finitely many workers (`WORKER_COUNT`), and the beginning of a long
word is not empty (`strtok` returns no empty word). TLAPS checks every leaf; nothing
else is assumed. TLC checked the inductive invariants on the runs' instances before
they were proved.

### ThreadPoolChatProofs

- **Ownership.** `SoleOwner` and `ListedIsServed` are not inductive: that a popped
  descriptor is nobody else's needs that a worker at `jobq_pop` holds none, and that
  the walk of a broadcast stays within the list needs that nobody removes a client
  meanwhile. `IInv` adds `HoldsWhileServing` (a thread has a descriptor exactly while it
  is between taking and closing it), `WalkerHasMutex` (a walking worker owns
  `clients_mutex`) and `Phases` (no worker before `Start`, all done after the join). It
  gives `TypeCorrect`, `SoleOwnership`, `ListedAreServed` and `ListEmptyAtExit`.
- **Shutdown and refinement.** `StopInv` (the queue is closed, main shuts down and a
  handler runs only after `running` was cleared) gives `CloseWakesEveryone`. Both
  together map every step to a step or a stutter of `JobPool`: `PoolRefinement`.
- **Nothing is lost.** `NothingLeaks`: on top of `IInv`, only `PushFail` lets go of an open
  descriptor. `NoWakeupLost`: every step is sorted by what it does to the sleepers,
  the workers on their way and the queue (`WakeFrame`); a push adds one job and wakes
  one sleeper, a pop takes one job and one worker, a worker only falls asleep when
  the queue is empty. The count needs the set of workers to be finite.
- **The conversation.** `TalkInv` gives `StreamsHaveNoGap` and `OneOrderForAll`. Its parts:
  a peer is in one place (`OnePlace`); a peer not yet listed has been sent nothing
  (`Fresh`), which is why a receiver may miss the beginning of a stream but nothing
  after it; a broadcasting worker carries the latest piece of its own client's stream
  (`BufInv`); what a receiver has comes before what is still on its way to it
  (`SeenInv`), and immediately before it if it is the last of its sender (`GapInv`). For
  the order, `OrderInv` numbers the messages so that every receiver's order agrees and
  the one being broadcast under `clients_mutex` is the last.

### BgJobsProofs, JobControlProofs, PipelineShellProofs

- **Lab 07.** `RunningStaysListed` needs `AddJobInv`: the slot being filled is inactive and
  has its own pid before its flag. The handler clears the first slot with a pid, and
  it is the pid of a zombie only, so a running child keeps its slot even if an older
  slot has the same pid. `ZombiesAreSignalled` is inductive.
- **Lab 11.** `DoneMeansEnded` needs `EntryInv` (the entry of a process has its pid), `MainInv`
  what `fg` and `bg` remember between their steps: the entry at `idx` still has pid
  `cur`, since the table never shrinks. With these the four invariants are
  inductive together: `TypeCorrect`, `TerminalReturns`, `DoneMeansEnded`,
  `ChangesAreSignalled`.
- **Process lab 12.** `GroupIsComplete` rests on `JoinInv`, what is known between fork and the
  shell's `setpgid`: the stage has not made its own call, or is in the group, or is
  gone, or the group was gone when it tried, and a group without members stays gone
  because nobody else creates it. `GroupInv` is what remains of it after the shell's
  call. `TerminalReturns` must show that no stage takes the terminal from the shell.
  `WantInv`: a stage that will call `tcsetpgrp` is, by then, in a group other than the
  shell's, so that with the shell in the foreground it stops. That the group was there
  to be joined is `LeadInv`: while a foreground pipeline is being started its first
  stage is still before its `tcsetpgrp`, since the terminal is the shell's.
  `ChangesAreSignalled` follows from the types and `StageInv`.

### SemQueueProofs

`MutexInv`, `IndexInv` and `CountInv` (what the semaphores count in terms of the loop
indices) give `MutualExclusion` and the bounds in `TypeCorrect`; `GotInv` and `SlotInv`
(every announced slot not yet read is whole) give `DeliversTheorem`: for every queue
length the protocol implements `Handoff`.

### ChatServersProofs, TlsChatProofs

- **Labs 04, 05, 14, 17, 18.** The steps of all five servers are reduced to a few effects
  (`NewClient`, `Handled`, `Gone`, `Waits`, `Sets`), so that the network is reasoned about
  once. `OnePlace` (a peer is idle, in the backlog once, or behind one descriptor) makes
  descriptors tell connections apart. `TablesAreOpen` then is a fact about each table;
  for the arrays it rests on `WithoutFacts`: swap-removal keeps every other entry, once.
  `EdgesAreSeen`: a `recv` that does not empty its connection puts it in `left`, and
  every arrival makes its descriptor ready. `EntriesAreOwn` needs `Fresh` (who is not yet
  accepted has set nothing), as a new entry starts empty, and `Own`: an entry has what
  its connection set last. `TextsStayInRoom` and `PrivateMessages` are about steps: a
  step that delivers to a peer found it by an entry with that room or name, which by
  `Own` is the peer's own (`ScopeStep`).
- **Lab 16.** `ListIsOpen` and `NothingIsStranded` need `OnePlace` and `LoopInv` (ready
  descriptors are open; no batch is left when main waits).

### LoadBalancersProofs

- `IsolationHolds` follows from a pairing invariant per balancer. Lab 12 (`ForkInv`): a
  child has the two ends of one pairing. Lab 10 (`TcpInv`): every open descriptor is in
  exactly one entry. Lab 13 (`AsyncInv`): since descriptors are taken lowest first and
  in twos and closed in twos, 1 goes with 2, 3 with 4, and so on; an entry is empty or
  names these two, so that a stale event finds the new pair's own entry. This is
  also `PairsStayIntact`.
- `RoundRobin`: the backends before the one whose turn it is are one connection ahead
  (`RoundInv`). `RefusalsAreBounded`: the backends that had the last turns are all
  down (`RefuseInv`), so at most as many clients in a row are given to dead ones as
  backends are down.

### Only model-checked

The liveness properties (`JoinEnds`, `SignalClosesQueue`, `BroadcastEnds`, `ChildrenReaped`,
`ReaderDrains`, `BothEnd`, `SignalEnds`): fairness and ENABLED are out of the prover's reach.

## 5. Where the code differs from its documentation

Shown by a run:

- IPC lab 04, `ShmQueueTorn`: the id is stored before the text, so a reader that
  "synchronizes simply by checking `id != 0`" may print a message without its text.
- Lab 13, `AsyncLBKill`: an event of the batch for a descriptor that an earlier event
  closed, and that an accept of the same batch reused, reads EAGAIN, which is taken
  for the end: the new pair is closed. (`PairsIntact` and `Isolation` hold all the
  same: descriptors are allocated lowest first and in pairs, so the entry found is
  the new pair's own.)

Behaviours the models contain and no property excludes:

- Lab 15: `handle_signal` calls `jobq_close`; on a thread interrupted inside `jobq_push`
  or `jobq_pop` it waits for the mutex that thread holds (`Stuck`), and the workers
  are not told, where the README has the signal make them exit.
- Lab 15: a signal between the test of `running` and `accept`, or on another thread,
  leaves main in `accept`; a worker in `recv` on a silent client keeps main in the
  join (hence the condition of `JoinEnds`); connections still queued at exit are
  closed only by the kernel; with more clients than workers the rest are not listed;
  a client that is gone may end the server by SIGPIPE (`SendPipe`).
- Lab 07: a child that ends before `add_job` sets its flag stays listed for ever.
- Lab 11: a status collected by `main`'s `waitpid` does not reach the table; taking
  the terminal back stops the shell, since it does not ignore SIGTTOU.
- Process lab 12: the handler asks `getpgid` for a process it has just reaped, which
  fails, so no job is ever DONE. If the first stage has ended and was reaped before
  the second is put in its group, the second stays in the shell's group (`lost`),
  against "all processes in a pipeline share one PGID". A foreground pipeline is
  waited for with one `waitpid`, so the prompt returns after its first status. As
  in lab 11 taking the terminal back stops the shell. A later stage that calls
  `tcsetpgrp` in the foreground group moves the terminal to a group without members:
  Ctrl-Z then reaches nobody, and a first stage that comes to its own call after that
  is stopped by SIGTTOU.
- Labs 04, 14, 17, 18: with edge triggering and one `recv` per event, a client whose
  last data and end arrive together is not removed, though lab 14's README says
  "Removes dead file descriptors dynamically", and lines that one `recv` does not take
  wait for the next arrival. `EdgeSeen` says that nothing else waits.
- Lab 16: data or an end that came with the last record of the handshake gets no
  further event (`early`); a slow peer may be dropped for a refused retry, and a live
  one for an error that another connection left on OpenSSL's queue; a marked
  peer is freed only at its own next event; `SSL_shutdown` may end the server by
  SIGPIPE.
- Labs 10, 11: `current_backend` stays when a connection fails, so a dead backend
  refuses every client from then on; descriptors are never closed, and after an end
  of stream `epoll_wait` returns again and again. Network lab 12: children are never
  reaped, a failed fork loses the client.
- Lab 05: with all slots taken an accepted descriptor is stored nowhere.
- Lab 17: of several clients with one name the first gets the private messages; a
  long name is announced in full and stored shortened.
- Lab 18: a room name longer than `ROOM_LEN - 1` is stored shortened and announced in
  full, so its members are not told; changing rooms, `/quit` and a disconnect leave
  a room without a notice.

## 6. Not modelled, and the plan

- Sequential demonstrations without state that several steps or actors share: process
  labs 01-06 (the pipe of lab 05 is that of lab 12), networking 01 and 02, IPC 01
  and 03.
- Process lab 10 (mini shell): a subset of the job-control shell of lab 11. Labs 08 and 09:
  `sleep` decides the order of their steps.
- IPC lab 02: one message through a FIFO; its one race, the open before the mkfifo, is
  listed as a hazard.
- Networking 09 (UDP balancer) and the loggers 03, 06, 07, 08: receive-and-forward or
  receive-and-append loops without state between two rounds. The UDP balancer's hazard,
  a lost or foreign reply, is listed; in lab 08 SIGTERM restarts the blocking receive,
  so that the daemon ends only after another datagram.

The proofs cover every safety property of section 3. What may be added: the safety
arguments the liveness properties rest on, as invariants of their own (who holds
which mutex while main joins the workers in lab 15; which pipe ends are open while
a stage reads in process lab 12).
