# cometServer: models, checks and proofs

TLA+ models of cometServer, a push server over HTTP (libevent, MySQL): an
administrator publishes messages to numbered channels, clients read them with
`/sub` or wait for them with `/pool` (long polling). Paths below are those of
the repository.

## 1. The system

| Part | State | Operations | Interacts with |
|---|---|---|---|
| Server and channels (`server.h`, `channel.*`, `subscriber.*`) | `_clientNum`; per channel `_subscriber`, `_msg`, `_msgcount`, `_freeStart` | `Server::init`, `delSubscriber` | shared by all threads under `_global_mutex` |
| Request handlers (`server.cpp`) | the request in hand | pub, broadcast, clear (admin port); sub, pool, read, generic (front port) | mutex, channels, database, HTTP library |
| Timer sweep (`operation::timer_cb`) | position, one evbuffer | every `polling` seconds: deliver, time out | mutex, channels, HTTP library |
| Message store (table `message`) | rows (channel, seq, time, content), key (channel, seq) | insert, delete, select, MAX(seq), a connection each | handlers, `Server::init` |
| Process control (`main.cpp`, `operation::run`, `kill_process`, signal handlers) | running or not, pid file, listening sockets | start, stop, restart, daemonize, exit on SIGINT, SIGTERM or `err_sys` | other invocations, through the pid file, the addresses and signals |
| Configuration (`split`, `parserinfo`, `conf.info`) | `_conf` | parsed once before the start | all read it |
| Rotating log (`log.cpp`) | stream, bytes written, files | `open`, `logv`, `rotate` | its own mutex, the clock, `localtime` |
| Errors (`error.cpp`) | none | print and end the process | all |
| HTTP library (libevent) | connections | callbacks, reply start, chunk, end | external |
| `DBHelp/cometserver_db.cpp` | none | earlier copy of the SQL functions | not in the Makefile |

Each worker thread has an event loop of its own and runs one handler at a time.
The dispatcher (main) thread has the timer. A request is answered by its handler,
except a pool request that finds no message: its handler *parks* it (leaves it in
`_subscriber`, says "not message read", returns), and only a later sweep answers
it: with the messages of `_msg`, or with "channel was destroy" on a timeout.

What makes it hard: the mutex is taken and released by hand in every handler,
with early returns on both sides of it; pool releases it before it has finished;
every SQL statement can be cut off by a crash or fail; each message lives in two
places (`_msg` for parked requests, the table for all others) with a counter in
memory; subscribers carry ids that are not unique; clients leave; one evbuffer
serves a whole sweep. Around the server, invocations of the program meet in a pid
file that outlives its process, the parser may stop half-way, and a log rotation
names files by the second.

What makes each part correct:
* mutex: no two threads in their sections; no path leaves it locked; released in the end;
* counters and table: `_msgcount` and the rows agree across crashes and restarts;
  numbers of a channel only grow; an acknowledged message is stored; rows stay;
* parking: no lost wakeup; the lists hold only waiting requests; messages go
  before timeouts; the sweep takes nobody off unanswered; each waiting request is answered;
* isolation: a client receives only what was published to its channel, and what
  strays was meant for a client that has gone;
* all of these together: the server is a set of message logs (`MessageService`);
* process control: a daemon is the one its pid file names; a pid is used once; a
  stop ends the server; a server with workers has the configuration of its file;
* log: files stay small; no line is lost by a rotation;
* `split`: the fields between separators, in order.

## 2. Modules

| Module | Models |
|---|---|
| `MessageTable` | the table as a set of rows, and each SQL statement as an operator |
| `CometState` | constants, assumptions and variables; the end of the process (`Die`) |
| `RequestHandlers` | the seven handlers, cut into steps |
| `TimerSweep` | `timer_cb`, one action per subscriber served, evicted, expired or spared |
| `CometServer` | both on one state, with the start of the process and the environment; all properties of the server |
| `MessageService` | the abstract specification: what the clients are promised, without threads, lists and SQL |
| `Configuration` | `parserinfo` and `split` as operators, with a reference definition of `split` |
| `ProcessControl` | invocations of the program around pid files, addresses and signals |
| `FileLog` | threads that write and rotate one log |
| `MCCometServer`, `MCProcessControl`, `MCFileLog` | the instances: what clients may send, files and command lines, lines; symmetry |
| `CometServerProofs` | types, mutual exclusion, and that no path leaves the mutex locked |
| `NumberingProofs` | numbering of the messages across crashes |
| `WaitingProofs` | what the subscriber lists hold, and who may be taken off them |
| `StorageProofs` | queue and table, acknowledgements, wakeups, isolation, order of messages and timeouts, with and without hangups |
| `ServiceProofs` | `CometServer` implements `MessageService` |
| `FileLogProofs` | all properties of `FileLog` |
| `ConfigurationProofs` | `split` against its reference, for every text |
| `ControlProofs` | types, the two properties of pid files, the configuration of the workers |

### The server

`pc[t]` says what thread t does next. A worker goes `idle -> lock -> run -> ... ->
unlock -> idle` (pub, broadcast and clear through `ok` after their unlock); between them `insert` and `reset` are the points after the first
of two effects of pub, broadcast and clear, `query` and `del` those of pool, and
`load`, `store`, `release` the steps pool makes *without* the mutex. Steps end
where another actor can act: at lock and unlock, at each access to `_clientNum`
outside the mutex, at each SQL statement (where a crash or an outage can fall),
at each turn of a loop. Within the mutex other threads are excluded, but steps
stay separate, so that handlers that overlap (which bad requests make possible)
interleave as the code does.

* `mutex` names the thread that locked last, or `Free`. Unlocking does not check
  the owner, like a default pthread mutex: `ReleaseUnheld` is the unlock of a
  pool request with a bad cid (`server.cpp:449`).
* `subs[c]` is the list of records of id, request and age. Ages replace
  `_freeStart`: `Tick` ages all of them up to the timeout; the uninitialised
  `_freeStart` of a new subscriber is any age. `chanAge[c] = Never` while the
  channel's `_freeStart` is 0, which every timeout has passed.
* `msg[c]` is the set of contents of `_msg` (the code never removes any).
* `table` has no time column: a request's time filter matches all or none of the
  rows of its channel. `sub` and `pool` with parameters for which the code builds
  no statement (`UnsetSql`) send an uninitialised buffer: the answer is that of
  any earlier statement, or of none.
* `conn[r]` follows a request: `idle`, `open`, `ended`, `gone` (the client closed
  while parked: `req->evcon` is NULL), `reset` (the server died).
* `buf` is what the sweep's evbuffer still holds: `evhttp_send_reply_chunk` on a
  request without a connection returns before it empties the buffer.
* `DelErase` erases from the front only, because the loop of `delSubscriber` does
  not advance. `Spinning(t)` is the state in which it turns for ever; `Hung` that
  some thread does.
* `NullChannel`, `Crash`, `RaceCrash`, `TouchFreed` end the process with `Die`.
  The table and what clients have received survive.

The configuration modelled is `_nthreads > 1` (`conf.info` has 8).

### The service it implements

`MessageService` keeps, per channel, a log of messages, and per request whether
it is open and what it has received. `CometServer` implements it with the
refinement mapping `log[c] <- ` the contents of the rows of c by their numbers
(`Log`) and `done[r] <- ` the channels whose log an open request has changed so far,
told by the point its worker has reached (`Done`); `input`, `conn` and `got` are
shared. Steps correspond like this:

| Server | Service |
|---|---|
| `Accept` | `Take`, or `Refuse` when there is nothing to do |
| insert of a row (push, one channel of a broadcast) | `Publish` |
| delete of clear | `Empty` |
| "ok" of pub, broadcast and clear (`SendOk`) | `Acknowledge`: each channel was written to, exactly once |
| answer of sub or pool | `Reply` |
| pool finds nothing | `Wait` |
| sweep delivers | `Notify`: at least all that is due |
| sweep evicts (channel timeout) or expires (its own) | `GiveUp`: nothing was due |
| read, generic | `SendFile` |
| any end of the process | `Down`: open requests are cut, logs stay |
| locks and unlocks, counters, lists, ticks, the start | no step |

Pub, broadcast and clear send their "ok" after the unlock (`server.cpp:762` and 773):
other publishers and clears run in between, so that an "ok" says that the message was
stored, and not that it is the last one or still there.

What the code leaves out of the promise is stated in the abstract specification
where it applies, so that it is not hidden in the mapping: a broadcast wakes
nobody (`Due` takes `Broadcasts` away; README.md:29 of the repository lets users of pool
receive it at once), a sub of an empty channel is answered with nothing (README.md:41
expects a notice), a cleared message may still be delivered
to a waiting request (`Notify`), and queries for which the code builds no
statement may get any earlier answer (`Undefined`). It needs a database that answers and
parked clients that do not hang up: with an outage "ok" is no promise, and with a hangup
`DocStray` happens.

### Process control and configuration

In `ProcessControl` a process is one invocation of the program with an operation,
`-d` or not, and a configuration file; its pid is the process itself. `proc[p].at`
is the point it has reached: `daemonize`, `run`, then `read`, `probe`, `kill`,
`remove`, `await` of `kill_process`, and `admin`, `front`, `threads`, `open`,
`put`, `serve` of the start of a server. The steps end where another process can
come between: at each system call on the pid file, the sockets or another process.

* `files` holds the pid file of each place, `Absent`, `Empty` (after the `fopen`
  of `write_pid`) or a pid. A relative name is looked up in the working
  directory, which `daemonize` moves to the directory *named like the program*.
* `proc[p].bound` are the listening sockets; the end of a process closes them and
  leaves the pid file, whatever ended it. `Crash` ends any process at any point, a stop
  or restart between two of its system calls included; what has ended keeps the pid it
  had read and the point at which it crashed (`pid`, `crashed`).
* `signalled` are processes with a SIGTERM under way, `hung` those whose loop
  does not turn and so does not take it. `recycled` are pids of ended processes
  that the system has given to a foreign process, of the same user (a `kill`
  works and is remembered in `hit`) or of another one.
* `serial` is chosen at the start: either the operators wait for each command to
  return, or the first `Overlap` commands run at the same time.

In `Configuration` a file is a function from the keys it has. `Parse` follows the
order in which `parserinfo` reads them: the first key that is missing throws, the
exception is printed, and all later keys stay zero. `Turn` is one turn of the loop
of `operation::split` with its two indices, `Split` as many of them as the text has
characters; `Fields` is the reference, by maximal intervals without a separator.

### The log

In `FileLog` a line is an identity with a length and a level. `pc[t]` follows one
`log_write`: `idle -> format` (level filter, `gettimeofday`) `-> lock` (`localtime`,
outside the mutex) `-> write -> unlock`, or through `close -> name -> rename ->
reopen` when the line makes the file longer than `rotate_size`. `tm` is the one
buffer that `localtime` returns to all threads; `stamp[t]` what thread t has read
from the clock, `path[t]` the second that its `sprintf` found in `tm`. `archive`
holds the renamed files by the second of their names; a rename to an existing
name replaces it. `fp` may be left closed or NULL by a failed rename or open:
the next line goes to it, and either the process dies (`BadStream`) or the line is
`dropped`. The call of `log_open` in `run` (`operation.cpp:407`) is commented out in
the repository: the model is of a process that opens the log as this call does.

## 3. Runs

| Run | Question | Faults | Properties |
|---|---|---|---|
| `Core` | publish, park, sweep | crash | `TypeOK`, `MutualExclusion`, `ListedAreWaiting`, `NoLostWakeup`, `QueueIsStored`, `MessagesBeforeTimeout`, `OwnChannelOnly`, `ImplementsService` |
| `Storage` | four writers and readers of the table | crash | `CounterMatchesTable`, `AckedIsStored`, `SeqGrows`, `ImplementsService` |
| `Wait` | liveness | disconnect | `QueuedReachesParked`, `RequestIsAnswered`, `LockIsReleased`, `SubscriberLeaves` |
| `Misuse` | bad requests, failed allocations, clients that hang up on either channel | alloc, crash, disconnect | `MutualExclusion`, `ListedAreWaiting`, `AckedIsStored`, `StrayFromGone`, `AnsweredBeforeRemoved`, `TimeoutWithMessages` |
| `Outage` | a database that comes and goes, overlapping handlers | crash, db | `HeldBySection`, `RowsAreKept` |
| `Control` | start, stop and restart around pid files | failed chdir, fork, threads and starts, crash of any process, hang, recycled pids | `ControlTypeOK`, `NamedByFile`, `ForeignNeedsCrash`, `AnswersAsConfigured`, `SplitIsFields`, `StopEndsServer` |
| `FileLog` | writes and rotations | crash, failed rename, failed open | `LogTypeOK`, `SizeBounded`, `OwnLineKept`, `LinesStay` |

Each of these finishes with no error, in a few minutes at most on two cores.

**Bounds of the server.** Two workers and the timer: a race of three threads. Three requests
(four in `Storage`, of which at most one reads and two broadcast), each of any kind of
the run's set, so that every pair of handlers meets with a third before, between or after; in `Wait` a publisher and two
subscribers of the last channel of the sweep, where a skipped channel shows. Two channels: a broadcast
has a middle at which it can be cut short, the sweep has a next channel, isolation
can fail. Channel timeout 2 and subscriber timeout 1 tick: a subscriber can
outlive its own timeout or its channel's (`conf.info`: 30 and 5). `WrapShort`=2
and `WrapLong`=3 stand for 50000 and 500000, so that `_clientNum` wraps and ids
repeat. Two contents. `Misuse` has subscribers of
both channels, so that a client can go with a message or a timeout in the buffer
while another waits on the same channel or on the next one. Crashes and outages are not bounded in number: the requests
are, each is sent at most once. Requests and workers are symmetric in the safety
runs; `Wait` uses no symmetry.

**Bounds of `Control`.** Three invocations: a server, a command that meets it, and
one that meets what these two leave behind. Two of them overlap in the runs that
are not serial. The files: a complete one, one with a second server beside it,
one that gives both sides the same port, and three that lack a key, early, in the
middle and last. `split` is compared with its reference on every text of at most
six characters over a separator and two others: separators at both ends, in a
row, alone, and up to three fields.

**Bounds of `FileLog`.** Two threads, `RotateSize` 2, three short lines (1), two
long ones (2) and one that the level filters; a clock of four seconds and two
starts of the process. So a file can be rotated by one line or by three, twice in
a second, by both threads, and be found too long by a second process.

**Fairness** (`Wait`). A thread that can run does (WF of `Handle`, `Sweep`,
`TimerFire`): threads are preemptive, and the steps contain no wait but the mutex.
A thread blocked on the mutex gets it if it is free again and again (SF of `Lock`
and `TimerLock`): sections are short, the timer sleeps between sweeps and a
worker's next request comes from outside, so that a waiter is overtaken a few
times only; pthread mutexes do not promise more. Time passes (SF of `Tick`, which
the model stops during a sweep because the sweep reads the clock once). Clients
need not send anything, the process need not start, faults need not happen.
In `Control` processes run (WF of `Command`) and a signal is taken by a process
whose loop turns (WF of `Terminate`); nobody has to give another command.

### Runs that show a disagreement

| Run | Property violated | What happens |
|---|---|---|
| `DocDelete` | `DeleteReturns` | `delSubscriber` spins for ever with the mutex held |
| `DocForget` | `WaitingAreListed` | two parked requests share an id, one is erased with the other and never answered |
| `DocUnheld` | `MutualExclusion` | a pool request with a bad cid unlocks the mutex another thread holds |
| `DocStray` | `OwnChannelOnly` | content for a client that has gone goes to the next subscriber served, of any channel |
| `DocRestart` | `RestartServes` | the new server cannot bind because the old one still listens, then the old one ends |

The counterexamples of the first two are worth reading: `DocDelete` needs only one
client that parks and one that does not, because the parked one increments
`_clientNum` (`server.cpp:641`) between the other's join (503) and its removal
(662). They are also why the liveness properties are stated with "or `Hung`" (a
thread spins in `delSubscriber`), `QueuedReachesParked` and `RequestIsAnswered`
with "or `SharesId`" (two subscribers of a channel got the same id), and why
`WaitingAreListed` is not among the passing properties.

Other disagreements met while modelling, each visible in one definition:
* `NullChannel`: pub or clear with a bad cid dereferences a null channel;
* `BroadcastCount`: a broadcast is stored and not queued, so that parked
  requests are not woken by it, although README.md:29 and the comment at
  `server.cpp:782` let users of pool receive it at once;
* `ClearDelete`: a clear leaves the queue of the channel, which is still delivered;
* `SubNotFound`: sub with a bad cid starts a 404 and never ends it
  (`server.cpp:229`; README.md:74 says that it closes at once);
* `DropUnparsed`: every handler but pool leaves an unparsable request unanswered;
* `SubAnswer`: sub on an empty channel sends nothing (README.md:41 expects a notice);
* `Insert`: a statement that fails is printed and ignored, the publisher still gets
  its "ok" (`operation.cpp:917`; README.md:127), so `AckedIsStored` holds only of a
  database that answers;
* `UnsetSql`: pool without seq and time, the form README.md:26 tests with, sends an
  uninitialised statement (`server.cpp:593`); sub's branch for seq and time can
  never be taken (`server.cpp:342` repeats the condition of 334);
* `FileAllocFail`: read and generic return with the mutex locked when
  `evbuffer_new` fails (`server.cpp:111`, `server.cpp:1012`);
* `Daemonize`: `daemonize(argv[0])` changes to a directory named like the program;
  where there is none the daemon ends without a message;
* `Parse`: a missing key is printed and the program goes on with zeros, for
  example with no worker thread; a failed `pthread_create` is not noticed (`Threads`);
* `Kill`: when the signal cannot be sent, `err_quit` is given the pid where its
  format wants a string;
* `Rename`: a second rotation in the same second (more than 20 KB of log in it)
  replaces the file of the first one; `Format`, `Name`: `localtime`'s buffer is
  shared although log.cpp:69 and operation.cpp:407 speak of thread safety;
* `max_per_channel` of `conf.info` is parsed and never enforced;
* `admin_allow_ip` is split and stored (`operation.cpp:188`) and no handler reads it,
  although operation.h:132 and conf.info:33 say that it lists the addresses the
  administrator may use: every address may publish, broadcast and clear;
* README.md gives the table the key (seq), `create_table.sql` has (channel, seq),
  which is the one modelled.

## 4. Proofs

For any number of threads, channels, requests, lines and seconds, any inputs,
timeouts and wraps. The assumptions on the constants are the `ASSUME`s of `CometState`
(`ThreadsAssumption`, ...), `FileLog`, `Configuration` (`TextsAssumption`: texts are sequences)
and `ProcessControl` (among them `AllowAssumption`: the list of addresses is a text), which TLC
evaluates in every run; further hypotheses are in the statement of each theorem:

* `WellFormedPools`: every pool request parses and names a channel;
* the database answers: `"db" \notin Faults`;
* parked clients do not hang up: `"disconnect" \notin Faults`;
* no failed allocation: `"alloc" \notin Faults`;
* `DefinedQueries`: no request has parameters for which no statement is built.

| Theorem | Property | Hypotheses |
|---|---|---|
| `TypeCorrect` | `TypeOK` | none |
| `SectionsExclude` | `MutualExclusion` | pools |
| `LockIsNotLeaked` | `HeldBySection` | no failed allocation |
| `RowsStay` | `RowsAreKept` | none |
| `NumberingHolds`, `NumbersGrow` | `CounterMatchesTable`, `SeqGrows` | pools, database |
| `ListsHoldWaiting`, `SweepAnswersFirst` | `ListedAreWaiting`, `AnsweredBeforeRemoved` | pools |
| `QueueHoldsStored`, `AcknowledgedStays`, `WakeupsKept` | `QueueIsStored`, `AckedIsStored`, `NoLostWakeup` | pools, database |
| `StrayIsCarried` | `StrayFromGone` | pools, defined queries |
| `TimeoutsBringMessages` | `TimeoutWithMessages` | pools |
| `MessagesGoFirst` | `MessagesBeforeTimeout` | pools, no hangup |
| `OwnChannel` | `OwnChannelOnly` | pools, no hangup, defined queries |
| `ServerImplements` | `ImplementsService` | pools, database, no hangup |
| `LogTypes`, `FileStaysSmall`, `OwnLineStays`, `LinesAreKept` | `LogTypeOK`, `SizeBounded`, `OwnLineKept`, `LinesStay` | none |
| `ControlTyped`, `ForeignKillsNeedCrash` | `ControlTypeOK`, `ForeignNeedsCrash` | none |
| `SplitCorrect` | (an identity of operators) | none: any sequence |
| `TextsSplitToFields`, `WorkersAreConfigured` | `SplitIsFields`, `AnswersAsConfigured` | none |
| `DaemonsAreNamed` | `NamedByFile` | `PortsGiven`: a configuration with both addresses has both ports |

The hypotheses are needed. Without well-formed pools a mutex is unlocked under
its holder (`DocUnheld`) and everything it guards may go wrong; with hangups the
sweep's buffer carries content over (`DocStray`); without its database the
server says "ok" to what it has not stored; after a failed allocation `read` and
generic return with the mutex locked (`FileAllocFail`). What remains true of clients
that hang up is `StrayIsCarried` and `TimeoutsBringMessages`.

How they go:

* **Types.** `TypeOK` alone is not inductive: that a handler indexes an existing
  channel (`subs[In(t).cid]`, `count[local[t]]`) depends on what it checked
  before the lock. `RequestInv` says what a worker knows of its request at each
  control point; `TypeInv` is both. One step per action; the list actions rest on
  lemmas about maps, sub-sequences and concatenations of sequences.
* **Mutual exclusion.** `LockInv`: a thread in its section is the one in `mutex`,
  and a thread that bumps `_clientNum` outside the mutex has parked its request
  and will not unlock. Without well-formed pools that fails, but `HeldBySection` is
  inductive with the types alone: `mutex` names the last thread that locked, its own unlock
  (or anybody's) frees it, and nothing moves it out of its section otherwise
  (`HeldByOthers`, `WorkerHeld`, `TimerHeld`).
* **Numbering.** `NumberingInv` adds the two points at which counter and rows
  differ (between the count and the insert of a push or of one channel of a
  broadcast; between the delete and the reset of a clear) and the state while
  the process is down (rows 1..n for some n, which is what makes MAX(seq) the
  right counter), and needs `LockInv`: only one thread is at such a point.
* **Lists.** A listed request is one a pool handler put there (`HandledInv`,
  `Place`), is open until the sweep or its handler ends it (`OpenInv`), and is
  listed once (`Once`). Between the answer and the erasure a served request is
  still listed: `Unanswered` leaves out what the sweep has passed (`SweptPast`)
  and what `delSubscriber` is about to erase (`Deleting`). `PassedAnswered` is the
  other half: all that the sweep has passed in a list it clears have been answered
  or have gone, so that clearing it loses nobody (`AnsweredBeforeRemoved`).
* **Storage.** The invariants: `QueueInv` (a queued content is stored, or its
  push is between the two), `AckInv` (an acknowledged message has its row),
  `PushedInv` and `WakeInv` (whatever is in the table and not in the queue was
  there when a parked request's query ran, or was broadcast),
  `EmptyBufInv` with `ServedFirst` (without hangups the buffer is empty between
  subscribers, and a timeout comes after an empty queue), `SourceInv` (each content in queue
  and table has a publisher to that channel), `CarryInv` and `OwnInv` (with hangups each
  content in the buffer and in the hands of a client has a publisher to the
  channel of that client, or of one that has gone; who has gone stays so, `GoneStays`).
  `OwnChannel` follows from `StrayIsCarried` and `EmptyBufInv`.
* **Refinement.** `ServiceInv` joins what the above establish with `KeyInv` (a
  channel's numbers are 1..n, so that its log is a sequence), `SubInv` and `ToldInv`
  (what a request has received tells whether it waits). That `Done` follows the
  steps rests on `HandledInv` (a request is in the hands of one worker at most):
  `DoneIs` reads it off that worker, `DoneBy` changes it there, and `SilentDone`,
  `OthersDone` say which steps leave it alone. `ServiceStep` has one
  lemma per group of actions, each of which names the action of
  `MessageService` it is, or shows that it changes none of its variables (`HiddenSteps`).
* **Log.** `LogInv`: only the holder of the mutex is in the section, `w_curr` is
  the size of the open file, and a line written is in the file or under the name
  of its rotation until the thread unlocks.
* **Pid files.** `ControlTypes` keeps with each process what its point tells of it
  (`ProcRecords`). `Listening`: what a process has bound, by its point, and that no
  two have an address in common but for port 0. While operators wait,
  `SerialInv` says that one command runs at a time (`OneBusy`), that the file still holds
  the pid it has read (`ReadInv`), that a pid stands in one file and belongs to a
  server that serves, was signalled or crashed while it served (`WrittenInv`), and that a
  signalled pid stands in no file but the one about to be removed, or left by a command
  that crashed before it removed it (`SignalInv`, `KillInv`). Then a pid that has gone to
  a foreign process is signalled only after one of these crashes (`HitInv`), and the file of a serving daemon can be overwritten only by one that
  shares its addresses, which cannot have bound them (`NotShared`).
* **Split.** After n turns the fields found are those of the intervals before the
  position reached, and the turn takes the next one; that every turn keeps this is
  an induction, done without the induction theorems: the least n at which it
  fails would have a predecessor at which it holds. The same way the recursive
  function exists (by its prefixes), and the number an interval has in the order of
  their starts is the number of the turn that finds it.
* **Workers.** `WorkersInv`: workers exist only from `open` on and only if the parser
  reached `nthreads`, so that it read all keys before it (`ThreadsReadLate`); the
  sockets are those of `Listening`, and the stored list `admin_allow_ip` is that of
  `SplitCorrect` (what is proved is how it is stored: no handler consults it).

Only model-checked: liveness (the properties of `Wait`, and `StopEndsServer`), which
the prover does not reach. Every other property of a passing run is stated by a theorem.

## 5. What is not modelled

* `_nthreads` = 1, where sub, pool, read and `timer_cb` skip the mutex although
  the timer runs in the dispatcher thread: both change the same vectors without
  synchronisation. The behaviour of the program is undefined from the first
  overlap on, so that a model would have to allow everything.
* libevent: its calls are atomic and thread-safe. The sweep ends replies on
  connections owned by other threads' event loops; races inside the library are
  out of the model. `Disconnect` may come whenever no worker holds the request,
  which includes moments at which that worker's loop is busy with another one.
* A statement fails only while the database is down as a whole (`dbUp`; at the
  start each query of `Server::init` may meet an outage of its own); a connection
  is made for each one.
* `_msg` as a set: order and repetition of equal contents are not told apart;
  nor is its growth, which nothing bounds in the code.
* Integer overflow of `_msgcount` (a 32-bit counter of messages stored).
* The SIGTERM handler frees the event bases of threads that still run: modelled as the end
  of the process at any later step.
* A recycled pid belongs to a process outside the model, not to another
  invocation of the program, and is recycled once. `NamedByFile` and `ForeignNeedsCrash` are about operators who wait for a
  command to return; two starts at once may interleave at the pid file.
* A torn `struct tm`: a race in `localtime` leaves one of the seconds read, not a mixture.
* The syntax of `conf.info` (boost's parser) and values of the wrong type; each
  failing call of a start is one fault (`StartFails`).
* Wording and headers of the replies; contents of served files; texts of log
  lines and errors; log4cplus; socket options.
* `DBHelp`, which is not built, and the assets of `doc_root`.

## 6. What is left

Two theorems with weaker hypotheses would say more: `ListsHoldWaiting` for pool
requests with a bad cid while no other thread is in its section, and
`ServerImplements` with hangups, for a service that lets what a gone client was sent
reach others. A one-thread module becomes worthwhile when the code takes the
mutex there too.
