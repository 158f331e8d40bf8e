# TLA+ models of upodman

upodman puts a podman engine on ubus: it polls the engine over its REST socket,
keeps what it learned in memory, answers ubus calls from memory and passes
start, stop and restart commands on. This directory holds TLA+ modules of the
daemon, the TLC configurations that check them, and theorems that TLAPS proves.
All paths below are relative to the repository's `src/`.

## The program

### Components

| Component | Code | State | Operations |
|---|---|---|---|
| Command scheduler | `podman/podman_scheduler.cpp`, `podman/podman_cmds.cpp` | deque `cmds`, `next_task` | `run()` (loop thread), `addCmd()` (handlers) |
| View of the engine | `podman/podman_t.cpp`, `podman_container.cpp`, `podman_pod.cpp`, `podman_stats.cpp`, `podman_logs.cpp`, `podman_network.cpp`, the two parsers | `status`, `pods` (with containers, stats, logs, busy marks), `networks`, `hash`, `state` | the `update_*()` functions, `setContainerBusyState()`, `containerNameForID()` |
| Busy marks | `podman/include/podman_busystat.hpp`, `podman_busystat.cpp` | `value` and `count` of each container | assignment, `cycle()` |
| HTTP client | `podman/podman_socket.cpp`, `podman_query.*` | a response while it arrives | `execute()`, `receiveCallback()`, `parseJson()`, `hash()` |
| Loop thread | `loop.cpp`, `podman/podman.cpp` | exit flag, running flag | `Loop::run`, `Podman::init` |
| ubus handlers | `ubus/ubus_podman.cpp` | none between calls | `exec`; `status`, `info`, `networks`, `list`, `logs`, `running` |
| Command line | `shared/app.cpp` | log level, delay, socket | `parse_cmdline()` |
| Start and shutdown | `main.cpp`, `signal.cpp`, `shared/mutex.cpp`, `ubus/ubus.cpp` | the shared objects | construction, TERM handler, join, release |
| Log store | `shared/log.cpp` | bounded list of entries, last line printed | streams, `process_entry` |
| Text helpers | `shared/common.cpp` | none | `memToStr()`, `round()`, string functions |
| Error texts, example | `podman_error.hpp`, `podman/example/` | none | a table, a dump program |

### How they interact

Two threads run. The **loop thread** calls `Podman::init` until the engine has
answered once and then `Scheduler::run()` every 650 ms; each call executes one
queued command or, with an empty queue, the next of six periodic tasks. The
**main thread** runs `uloop` and one ubus handler at a time. They share

* the queue, under the mutex `podman_sched`, which `run()` keeps *over* its engine
  call,
* the view, under the mutex `podman`, which `update_containers()` keeps over its
  engine call, the other functions do not,
* two flags: `main()` sets the exit flag after `uloop` has ended, the loop thread
  clears the running flag; then `main()` joins it and releases what both used,
* the log store, under no lock.

A **signal** may interrupt either thread; its handler ends `uloop` and logs. The
**engine** is another process and changes whenever it likes; libcurl hands its answers
over in pieces, from which the client builds an array for two of the queries.

### What is hard

* **Interleaving.** Three functions copy something out of the view, work without
  the mutex and write back. Handlers set marks in between.
* **Mutexes over I/O.** A handler may wait for the engine without calling it.
* **Hashes.** An answer whose sum of characters equals the recorded one is skipped.
  What is recorded must be the sum of what is shown.
* **Exactly once.** A command is popped after it has been executed; a request may be
  dropped as a duplicate. Neither may lose a command or repeat one.
* **Failure.** Every engine call may time out, return nothing, or something else than
  a list, at any time; half of what it returns may be usable.
* **Change between polls.** Containers and pods are polled one after the other and
  need not agree.
* **Pieces.** The boundaries of what libcurl hands over need not be those of what the
  engine wrote.
* **Shutdown.** A TERM may come anywhere, each step of the start can fail, and the
  shared objects must outlive both threads' use of them.
* **Numbers.** Units of time and memory at their boundaries, numbers of 16 bits, bytes
  with and without a sign.

`PROJECT.json` lists these hazards line by line, with the properties that cover them.

### What makes each component correct

* *Scheduler*: each accepted command is sent once, in order; no request is absorbed
  by a command already sent; no command waits for ever, and each task recurs.
* *View*: what is written back is current but for marks; the recorded hash is that of
  what is shown; once the engine is at rest the view is right.
* *Busy marks*: only a command starts or prolongs one; the countdown does not run
  while the command waits; each ends.
* *Handlers*: they return; a request to the engine has the group, the action and the name
  of the call behind it, the name of the container if the call gave an id; the uptime and
  the memory they print are those of the view, memory up to 2 GiB.
* *HTTP client, logs, stats*: a log line is one the engine sent; stats come from a whole
  second report; figures and pids shown are each those of the last report that has them
  (and may be of two).
* *Loop thread, start and shutdown*: the scheduler runs only with a running engine;
  nothing is used before it is made or after it is released; nothing is released twice,
  and all but uloop is on every way out; the first answer about the system decides for
  good; a TERM ends the daemon after one more call at most.
* *Command line*: the level is that of the most verbose option, whatever the order.
* *Log store*: bounded; repetitions are merged and counted; once the level is set, no
  message is suppressed that was not seen.

## The modules

| Module | What it models |
|---|---|
| `CommandService` | abstract: accepted commands are performed once and in order |
| `Scheduler` | `Podman::Scheduler` |
| `BusyStat` | `Podman::BusyStat` as operators |
| `Podman` | `Podman::podman_t`, the mutex `podman` and, as its environment, the engine |
| `Upodman` | the daemon while it serves: both threads over `Scheduler` and `Podman` |
| `CommandLine` | `parse_cmdline()` |
| `Lifecycle` | `main()`, the signal handler and the loop thread from start to end, over `CommandLine` |
| `Socket` | the collector of an answer's pieces |
| `ContainerLogs`, `ContainerStats` | what becomes of an answer with logs, with stats, and of the stats in a reply; both over `Socket` |
| `EngineAnswers` | the loop thread's updates over these three |
| `LogStore` | `log::_private::process_entry()` |
| `SchedulerProofs`, `PodmanProofs`, `UpodmanProofs`, `LifecycleProofs`, `StatsProofs`, `AnswersProofs`, `LogStoreProofs` | theorems about these |
| `FoldLemmas` | lemmas about recursion, induction and concatenation that the proofs share |
| `MCScheduler`, `MCPodman`, `MCUpodman`, `MCLifecycle`, `MCAnswers`, `MCLogStore` | small instances for TLC |

There are three views of the same loop thread, which meet at named places: `Upodman`
has its mutexes and what it does with the view, with each answer taken as a whole;
`EngineAnswers` has how two of these answers arrive and are taken apart, and no mutex,
since nothing of it is shared before it is written back (that is `LogsPublish` and
`UpdateStats` of `Podman`); `Lifecycle` has when it begins and ends.

### Scheduler

`cmds`, `next_task` and `podman_sched` are the variables of the code. `run()` is two
actions around its engine call, `RunBegin` and `RunEnd`, and `call` says which call
is in progress. `AddCmd` is `addCmd()`; it needs the mutex unless the command has no
name. `accepted`, `issued` and `asked` are history. A request counts as sent when its
call begins, since the code ignores the result. With `Pending` (the queue without the
command in execution) and `issued`, `Scheduler` implements `CommandService`.

### Podman

A container or a pod is its id. `NameOf`, a parameter, gives a container's name: `exec`
marks and commands by name, and `ContainerNameForID` looks an id up among the known
containers as the code does. Two containers that exist at once have different names; a
later one may have the name of one that is gone (no run has such a pair, the theorems
cover it); renaming is not modelled. The vector of pods with their containers is the two
functions `ctrs` and `podst`; which pod a container is in never changes. Of a container the model keeps whether it runs,
whether it has load figures, what its log shows, and its mark. Of an answer it keeps
the elements and the sum of their characters (`Bytes`, a parameter: the runs choose
sums that are distinct, or equal on purpose).

Each `update_*()` function is cut where it releases the mutex with work left, and
where it keeps it over the engine call:

| Function | Actions |
|---|---|
| `update_system`, `update_networks` | `UpdateSystem`, `UpdateNetworks` |
| `update_containers` | `ContainersLock`, `ContainersReply`, one `ContainersCopy` per element, `ContainersPublish` |
| `update_pods` | `PodsPoll`, `PodsPublish` |
| `update_stats` | `UpdateStats` |
| `update_logs` | `LogsSnapshot`, `LogsPublish` |
| `update_busy_cycles` | `BusyCycles` |
| `setContainerBusyState` | `SetBusy` |

`draft` is the local variables of the function in progress. `Replies` says how engine
calls may end: `"ok"`, `"fails"` (`execute()` returns false) and `"odd"` (an answer of
another form). Writing `pods[-1]` for an unknown pod is undefined: the model lets the
process die (`at = "crashed"`) or go on.

`nets` maps each known network to the number of its subnets that the view knows: the loop
over them ends with the number of networks in the list (`podman_network.cpp:84`), so it is
the smaller of the two. `Subnets`, a parameter, is how many there are.

`update_networks` is one action though it takes its mutex twice, because between the
two only this thread writes what it reads; the same goes for `update_stats`.

### Upodman

`EXTENDS` both and adds the loop thread (`InitNext`, `LoopInit`, `LoopRun`,
`LoopReturn`, `Refresh`) and the handler in progress (`ExecReceive`, `ExecLookup`,
`ExecBusy`, `ExecAdd`, `Reply`; `ReadReceive` and `Reply` for the six handlers that
only read). Each step of `exec` is between two uses of a mutex, so the loop thread can
take any number of steps between two of them. `NameFor` is what becomes of the name and
the id of a call: a name is taken as it is, an id is looked up, whatever the group. `KeepsToScheduler` and `KeepsToPodman`
say that the composition does nothing its components do not allow.

### Lifecycle

`main` is the place in `main()`, `thr` that in `Loop::run`, and each step is one access
to something the other thread or the signal handler also uses: a flag, an object, the
join. `Term` may come before any step until the process is left. `obj` says of view,
scheduler, connection and uloop whether they have been made and given back; that
`freedata()` calls `free()` on what `new` has made counts as giving the storage back, and
what the destructors would have done is left out. A turn of the loop thread is one call of
`Podman::init` or of `Scheduler::run()`, each of which may be several calls of the engine;
only `UpdateSystem` of it is looked into: whether the two parts of the system information
are there, and complete, decides whether `Podman::init` goes on, and the first part to
come makes the status RUNNING, after which none is read and `Podman::init` is not called. `UloopForgets`
says whether `uloop_run()` forgets a `uloop_end()` that came before it; uloop is a
library, and the run takes the worse case.

`CommandLine` reads one argument per step. An option that raises the level is recognised
only while the level is lower, so that its guard and that of `Unknown` depend on the
options before it.

### EngineAnswers

The answer is a sequence of units as the engine writes them: a log frame is its bytes, a
report of stats two numbers of 256 or more, the halves of its text, so that a piece can
end inside it. `Receive(n)` is one callback with the next `n` of them. `IsArray` is what
the JSON parser accepts of the body so built. `ParseFrame` is one round of the loop over
the log, `StatsTaken` and `StatsRefused` what follows a call for stats, and `Relist` the
part of `update_containers()` that touches the same fields. The CPU share taken from a
report is the number of the report; its two amounts of memory are integers, which
`ReadInt` reads as `json_object_get_int()` does: any that does not fit 32 bits (`Huge`)
becomes the largest that does. `news` is history: the reports and lists since the
container was last found stopped. `Units` and `MemToStr` are the arithmetic of the replies.
An empty body has no last byte; reading it is undefined, and the model drops nothing
there, as the library does.

### LogStore

`ProcessEntry` is `process_entry()` with all it calls: an entry equal to the last one
replaces it, one equal to the last of its type is counted there, any other is appended,
and the oldest are dropped; `Echo` decides what is printed. `OutputLevel` and
`TypeShouldEcho` are what `parse_cmdline()` makes of the level, which is set by
`ParseCmdLine` only: `Register`, the message that the constructor of the global mutex logs
before `main()`, and those of a signal handler until then are judged at level 0. `told`,
`dropped`, `shown` and `early` are history.

## The checks

Deadlock is checked in the scheduler's runs only: in the others the modelled process
can die or end, the messages and updates of a behaviour are used up, and clients and
the engine may stop.

| Run | Instance | Shows |
|---|---|---|
| `scheduler` | 2 names, 2 command types, 3 commands | `InOrder`, `RequestsHonoured`, `HeldDuringCall`, `ImplementsService`, `ServiceIsLive` |
| `podman` | 3 containers, one of them skipped by the parser, a pod, 1 change, all failures | `SnapshotCurrent`, `ContainersCoherent`, `OnlyExecArms` |
| `daemon` | a container, a pod, a network, 2 exec calls of 9 kinds, all failures | `CountdownOnlyWhenIdle`, `SentAsRead`, `KeepsToScheduler`, `KeepsToPodman` |
| `daemon_live` | 2 exec calls, failing engine | `HandlersReturn`, `CommandsIssued`, `BusyEnds`, `TasksRecur` |
| `daemon_converge` | 2 containers, a pod and 2 networks that come and go, one network with 2 subnets, 3 changes | `Converges` |
| `lifecycle` | 29 command lines, every failure of the start, 2 signals | `NoUseAfterFree`, `GivenBack`, `AtMostOneTurn`, `FirstAnswerDecides`, `LevelAsAsked`, `TermEnds` |
| `answers` | 4 logs and 13 answers with stats, in up to 3 pieces, lost anywhere; 12 clocks; chars with and without a sign | `FramesDecoded`, `StatsAligned`, `FiguresOfLatest`, `UptimeShown`, `MemShown` |
| `logstore` | 4 types, 3 texts, a store of 3, 7 messages, 5 levels | `NoRepeats`, `CountsRight`, `NothingUnseen` |
| `scheduler_duplicates`, `pod_id`, `unknown_pod`, `networks_compared` | as small as they go | *violated*: one property each, see below |

**Bounds.** `MaxRequests`, `MaxCalls`, `MaxEvents`, `MaxTerms` and `MaxMessages` limit
commands, exec calls, changes of the engine, signals and log messages in a behaviour;
`MaxCallbacks` the pieces of an answer that is not cut short, and `Plans` the updates of
`EngineAnswers`. Nothing else is cut off. Three commands of two
names are enough for one in execution, one behind it and one that repeats either. A
countdown of two is the shortest in which a cycle shortens a mark without ending it
(the code's is four). One change at the engine falls at every point of every refresh;
three are enough for a container that goes, comes back and changes before the view has
followed. The daemon's run keeps the engine still and lets its calls fail instead, which
resets the hash and brings every branch of a refresh about. The containers differ in what
the code distinguishes: an infra container in a pod, one outside of any pod, one without
a name. Two signals let the first be lost. Three pieces put a boundary inside a frame, at
its end and behind two of them. Two updates of stats with a new list in between are enough for
figures, pids and uptime of three sources to meet. Seven messages fill a store of three
twice; the amounts of memory are those on both sides of each unit, and the clock those of
each unit of time.

**What the passing runs say that is easy to get wrong.**

* `RequestsHonoured` rests on `run()` keeping `podman_sched` over the engine call: without
  it a repeated request would be dropped because of a command already sent.
* `SnapshotCurrent` says how much the two write-backs can lose: marks, nothing else.
* `ContainersCoherent` holds because the hash published with a view is that of the answer
  it was made from, and because a failing call resets the hash *and* the state.
* `Converges` allows three things to stay wrong: the last network to go, as an empty list is
  taken for an error; subnets beyond the number of networks; and a pod that left the view
  and came back, which keeps the status `unknown` until the engine's list of pods differs
  from the recorded one, which may be never.
* `NoUseAfterFree` does not rest on the poll of the running flag, which may find it unset
  because the thread has not begun, but on the join behind it.
* `StatsAligned` holds although the array is closed by a count of pieces: if these are not
  the reports, what is built does not parse, and the update is skipped.
* `FiguresOfLatest` says what is left of a report that is accepted by half: its load and
  memory, beside the pids of an earlier one.
* `SentAsRead` holds although the view is refreshed between the lookup of an id, the mark
  and the queue: the name is looked up once and carried.
* `GivenBack` and `FirstAnswerDecides` state what the code does, with the two omissions
  below: an exit that leaves uloop, and information that is never completed.
* `AtMostOneTurn` is about one call of `Podman::init` or `Scheduler::run()`, not about one
  timeout of the engine: such a call may wait for several.

**What the code gets wrong without a word against it.** The properties are stated so
that they leave these out:

* two log frames that libcurl hands over in one piece, or one in two, garble the lines
  behind (`podman_logs.cpp:51`), and an empty frame ends the log (`:69`);
* where `char` has a sign, a frame with a length byte of 128 or more swallows what
  follows (`podman_logs.cpp:64`);
* a list of PIDs is always refused (`podman_parser_stats.cpp:111`), as are no PIDs at all,
  after the figures have been written: these are shown beside the pids of an earlier
  report; the pid shown is written from two sources (`:97`);
* memory that the engine sends as an integer is read as one of 32 bits
  (`podman_parser_stats.cpp:46`, `:64`): from 2 GiB on it is shown as 2.00gb;
* an answer with half of the system information makes the status RUNNING
  (`podman_t.cpp:250`); the other half stays empty, and the scheduler polls without it;
* with group `pod`, `exec` takes the id of a container and asks the engine for the pod of
  that container's name (`ubus_podman.cpp:274`);
* `uloop_init()` is not undone when the start fails (`main.cpp:28-32`, `:39-43`);
* of a network, no more subnets are kept than there are networks (`podman_network.cpp:84`):
  the second subnet of the only network is never shown;
* free memory and swap are renewed only if the engine sends floating point numbers
  (`podman_t.cpp:233`), and the status never leaves RUNNING (`loop.cpp:64`);
* the uptime is negative, and wraps, when the clock was set back;
* in a full log store the place of the entry to be counted is stale (`log.cpp:75`);
* the first entry of the store is from before the level is set (`mutex.cpp:9`): with
  `--debug` it is there without having been printed; a second TERM may be announced as a
  duplicate of one that came before the level was set and was not printed;
* a TERM before `uloop_run()` may be lost.

**Findings.** Four runs end in a violation of something the repository says:

1. `podman_scheduler.cpp:115`, "No duplicates": only the last entry is compared.
2. `README.md:57`, ids of pods: `exec` looks every id up among the containers.
3. `podman_pod.cpp:77`, a warning about an unknown pod: the code then writes `pods[-1]`.
4. `podman_network.cpp:35`, comparison by names: sums of characters are compared.

One more thing the models show: `exec` queues its command in the background, but the
handler still waits in `addCmd()` while the engine executes another client's command.
`HandlersReturn` says that the wait ends.

**Fairness.** `WF(Loop)`: the loop thread is never blocked for good; its sleeps end and
curl has a timeout on every call. `SF(Handler)`: a handler that waits for a mutex gets
it if the mutex is free again and again; weak fairness would not do, since the loop
thread keeps taking both. It is what the sleep of 650 ms between two calls of `run()`,
with both mutexes free, gives in practice. Nothing is assumed of clients or of the
engine. In `Scheduler` alone, `SF(RunBegin(TRUE))` stands for the loop thread once the
status is RUNNING. `CommandsIssued`, `BusyEnds`, `TasksRecur` and `Converges` are
stated for behaviours in which the engine answers at some point and the process lives;
`TasksRecur` moreover needs clients that stop, as commands go first. `Lifecycle` has
`WF(Main)` and `WF(Thread)`: both threads go on; no signal needs to come.

## The proofs

Every invariant and every action or refinement property of the passing runs is also a
theorem, which holds for all constants that satisfy the named assumptions. A proof module
has an inductive invariant (or a few, one on top of the other), one lemma per action or
group of actions, and the theorems that follow.

**Recursion and induction** (`FoldLemmas`). The models add up and concatenate with the
folds of the community modules, and the theorems about induction take a predicate, which
these provers cannot instantiate. The lemmas take the set of the good ones in its place:
`NumberInduction` and `SubsetInduction` follow from `<` being well founded, and
`NumberRecursion` and `SubsetRecursion` say by them that a function given by recursion
exists. `FlattenType`, `FlattenAppend` and `FlattenPairs` are what the proofs need of
`FlattenSeq`, `ConcatPlaces` where things are in a concatenation.

**Scheduler** (`SchedulerAssumption`). `SchedInv` is the conjunction of `SchedTypeOK`,
`HeldDuringCall`, `InOrder` and `RequestsHonoured`. `HeldDuringCall` makes it
inductive: `InOrder` alone does not survive `RunEnd`, which pops the front of the deque,
unless the front is the command that was sent; and `RequestsHonoured` does not survive
`AddCmd`, which may drop a request, unless the last entry of the deque is still pending.
`NextRefines` maps each step to one of `CommandService` or to a stutter:
`SchedImplementsService`.

**Podman** (`PodmanAssumption`, `BusyAssumption`). `PodmanInv` adds to `PodmanTypeOK` and
`SnapshotCurrent` the types of the engine and of the drafts, and that a draft is never
ahead of the view (`DraftNotAhead`), without which a write-back could prolong a mark.
`PodmanOnlyExecArms` follows step by step: `ProlongedByExec`. `ContainersCoherent` has an
invariant of its own, `CoherentInv`, since the answer being taken apart must be described
by its own hash (`ContainersReply` to `ContainersPublish`). It is proved under
`HashesNotZero`: no list of containers has characters that add up to nothing.
`PodmanHashesNotZero` shows this of finitely many containers if no character counts as
negative (`PlainText`), since the brackets of a list alone add up to more than nothing.
It is not true of every text: `Response::hash()` adds up values of type `char`, and where
that has a sign the bytes beyond ASCII are taken off.

**The daemon** (`UpodmanAssumption` and the two above). `DaemonInv` puts `SchedInv` and
`PodmanInv` beside `TypeOK` and three conjuncts: when the loop thread does what (`Places`),
what `exec` carries (`Carried`), and which request is behind each command (`Behind`). Under
it every step is a step of `Scheduler` or leaves its variables alone (`StepOfScheduler`),
and the same for `Podman` (`StepOfPodman`). This proves `KeepsToScheduler` and
`KeepsToPodman`, and carries the theorems over: in the daemon with both threads, any
requests and any engine, commands are sent once and in order (`DaemonCommands`),
write-backs lose marks only, only `exec` starts a countdown, the hash is that of what is
shown. `DaemonCountdownOnlyWhenIdle` needs `Places` (a task implies an empty queue, until
`run()` returns), `DaemonSentAsRead` needs `Behind` and `InOrder` together, and
before these `Carried`: the name `exec` carries is the one the call means, and an id it
has resolved is a container's, whatever has become of the view since.

**Lifecycle** (`LifecycleAssumption`, `CommandLineAssumption`). `LifeInv` says for each
place of `main()` what is live (`ObjPlace`) and whether the loop thread exists
(`ThreadPlace`), that a turn after the exit flag is the only one (`TurnPlace`), and that
`update_system()` is called by `Podman::init` only before the status is RUNNING
(`InfoPlace`). `LifecycleTypeOK` is a part of it. `LifecycleGivenBack` reads off
`ObjPlace` which way out was taken, and `LifecycleFirstAnswerDecides` is an invariant and
an action property, as the formula is. `LevelAsAsked` is inductive by itself.

**Stats**. `StatsMemAccurate` states of every amount that the text `memToStr()` makes of it
is `Accurate`, and `UnitsMakeUp` of every uptime that its units add up to it: arithmetic,
for the two theorems about replies below.

**Answers** (`SocketAssumption`, `LogsAssumption`, `StatsAssumption`). What is assumed is
the form of what the engine sends: a frame has a header of 8 bytes, the last four of which
are the length of its text, and a report is two halves. How it is cut into pieces, where it
is lost, what the texts, lengths and numbers are, is free. Four invariants build on each
other:

* `SocketInv`: the pieces received and what is left are together what the engine sent, and
  the body has these pieces with a mark before each.
* `StatsInv`: of an answer with stats at most one piece is there before the last, and the
  body is what the array is made of, mark by mark (`StatsPlace`); the container's fields have
  their types; and the report used is the second of an answer that begins with two
  (`Aligned`). The step that takes a report rests on `ArrayOfTwo` and `ArrayAligned`: an
  array of two elements that parse is two pieces of two halves each, and these, of a stream
  that is a concatenation of pairs (`FlattenPairs`), are the first two reports.
  That the memory kept is that of the report the load is from (`RamOfLoad`) is the part of
  it that `AnswersMemShown` adds `StatsMemAccurate` to; `AnswersUptimeShown` adds
  `UnitsMakeUp` to the type of the uptime. `AnswersFiguresOfLatest` is inductive with the
  type of `news`: `LatestAppended` says what the last of a set of places is when one is
  appended.
* `LogsInv`: the log and the lines of the loop are trimmed text (`TrimType`); with
  `SocketInv` this is `AnswersTypeCorrect`.
* `FramesInv`: how far the loop of `update_logs()` is (`Progress`). `FramesDecoded` speaks of
  the end of the loop only. To be inductive, it needs what holds between two rounds: if the
  first n frames came in a callback each, the lines so far are exactly those of the first k
  frames and what is left of the body begins at the mark before the next one (`Tails`), or
  all n are taken and the lines begin with theirs. `FrameRead` is one round at such a frame.
  Induction over the rounds is not needed, as each round is a step of the model.

`StatsAligned` is about the last answer only if that was one with stats: which report was used
is remembered beyond an answer with logs, whose pieces say nothing about it.

**Log store** (`LogAssumption`). `LogInv` is `LogTypeOK`, `NothingUnseen` and `EarlyPlace`:
until the level is set, all entries are early. Later a message printed as a repetition
equals an entry of the store that is enabled, and so was shown or came early. `LogNoRepeats` says for each way a message is taken what the
store is afterwards (`StoreAfter`), and that the entry looked at before one is appended is
the last of its type (`LastPlace`): the greatest of a set of places exists because `<` is
well founded on the numbers. `LogCountsRight` adds an invariant about the counts: `Total`, a
sum over a function with a finite domain, changes by what one of the values changes by, and
so do the sums over the store when an entry is appended, counted up, taken out or dropped.
It assumes finitely many types and messages (`LogAssumption`), without which there is no
such sum.

Only model-checked: all liveness (`ServiceIsLive`, `HandlersReturn`, `CommandsIssued`,
`BusyEnds`, `TasksRecur`, `Converges`, `TermEnds`), which needs fairness and ENABLED, and the
four violations, each of which is one behaviour of one instance.

## Not modelled

* The fields of `info` and of containers that are only shown, the drivers of networks, `infraId`, and
  the JSON of the replies other than uptime and memory: copied, never decided upon.
* The building of URLs, the error codes of libcurl and the error texts: logged only.
* The table of ubus methods and uloop's own event queue: the library's.
* What two threads do to the log store and to the string stream of a message, neither of
  which has a lock: a data race on a `std::list` has no outcomes to enumerate. The store's
  operations for single entries, details and file streams are not used by the daemon.
* The trimming, splitting and joining of strings in `common.cpp`, except `Trim` of a log line.
* `podman/example/`: a single-threaded dump program, not part of the daemon.
* Time: sleeps and timeouts end, how long they take is not said.

## Plan

1. `infraId` of a pod, which `Podman` leaves out, and a run of `Upodman` in which a container
   takes over the name of one that is gone, as the theorems already allow.
2. For each of the four findings, the condition under which the documented behaviour is
   had: as a property of a run where it is about liveness (sums of characters that are
   distinct, for `NetworksCompared`), as a theorem where it is about safety (no pod that
   comes between two polls, for `UnknownPodOnlyWarns`).
