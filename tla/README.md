# A TLA+ verification of beam-init

beam-init is the init process of a container. It starts a *bootstrap* service,
offers a REST API on a Unix socket to create, stop, restart, freeze, thaw, signal and
attach to further services, restarts the ones whose liveness probe fails, keeps their
logs, and ends them all when the container runtime sends SIGTERM. `beamctl` is its command
line client. This directory models both, checks them with TLC and proves with TLAPS that
every safety property the passing runs check holds for every value of the constants.

## 1. The system

| Part | State | Operations | Talks to |
|---|---|---|---|
| service manager (`services.rs`) | the table of services: status, configuration, restart attempts, handles of the probe task and of the pending kill | create, start, terminate (stop, prune, restart), freeze, thaw, send_signal, attach, detach, force_kill, reap, shutdown | called by the event loop; starts probe and timer tasks; signals processes |
| event loop (`main.rs`) | the channel (10 slots), the shutdown token | recv, dispatch, exit | all tasks send to it |
| signal stream (`signal_stream.rs`) | signalfd | read a signal, send it | kernel, event loop |
| REST handlers (`api_impl.rs`) | none | one task per request: send a command with the peer's credentials, wait for the answer | event loop |
| liveness probe (`services.rs`) | failure count | probe, log, report, give up | event loop, log |
| grace-period timer (`services.rs`) | token | sleep, send ForceKillService | event loop |
| log store (`logs.rs`) | ring buffer, mutex, Notify, writer task | push, follow, copy, replace the writer, drop | services (pipe), probes, clients, event loop |
| spawning and pty monitor (`spawn.rs`) | five pipes, three processes | fork, fork, exec; monitor commands | service manager, kernel |
| status broadcast (`services.rs`, `api_impl.rs`) | latest status, broadcast channel of 32 | publish, subscribe, wait | service manager, clients |
| pty store (`ptystore.rs`) | none | hand out a duplicate of a pty's master | event loop, beamctl |
| beamctl (`bin/`) and client library (`beam-init-client`) | the command, the list it fetched, the user's terminal, the signal mask | match a prefix or a selector, one request per service, attach: relay and signals | REST handlers, pty store, the user |
| environment files, command line | | | |

The runtime is tokio's `current_thread`: tasks interleave at awaits only, so a handler of
the event loop is atomic with respect to other tasks, with two exceptions: `logs` without
`--follow` awaits the mutex of the log (`copy_logs`), and so does the line that is pushed to
the log when an automatic restart fails (main.rs:182-187). And a handler that starts a
service may not return at all, in `spawn_service` (spawn.rs:337). So the loop *can* block,
and nothing is served then, SIGTERM included; `ServiceManager` has these states, and its
liveness properties say that they are the only ones. Processes and the kernel run at any
time.

What is hard here: signals coalesce; events sit in the channel while the state they are
about changes (a probe report, a timer's kill, a request that races shutdown); pids are
reused as soon as `waitpid` has returned them; statuses are moved out of the table with
`mem::replace`; a mutex guard lives across a `yield`; processes wait for the end of pipes
whose write ends several processes hold; beamctl acts on a list that is stale when it uses
it, its requests may be executed after it has given up, and the names in them go through a
URL without being encoded. PROJECT.json lists these hazards
line by line.

## 2. Modules

| Module | Models |
|---|---|
| `ServiceManager` | service manager, event loop, channel, signal stream, requests, probes (when they run and report), timers, and the kernel's process table |
| `MCServiceManager` | small instances: request sets, symmetry |
| `ServiceManagerProofs` | the theorems about `ServiceManager` |
| `Lifecycle` | the life of one service as clients see it (abstract); `ServiceManager` implements it |
| `StatusBroadcast` | the publisher of statuses and `wait` |
| `LivenessProbe` | the counting of the probe task |
| `WatchedService`, `MCWatchedService` | composes the two with the life of a service |
| `WatchedServiceProofs` | the theorems about these three |
| `Beamctl` | one run of beamctl and its client, against a changing table |
| `Attach`, `MCBeamctl` | `beamctl attach`: pty store, terminal, relay; extends `Beamctl` |
| `AttachProofs` | the theorems about these two |
| `LogStream` | what a log promises a follower (abstract) |
| `Logs`, `MCLogs` | the log store; implements `LogStream` |
| `LogsProofs` | the theorems about it, the refinement included |
| `Spawn`, `MCSpawn` | one start of one service, and the monitor's life |
| `SpawnProofs` | the theorems about it |

### ServiceManager

`status[n]` is `services[n].state.status`, `Absent` when the map has no `n`; `config`,
`attempts`, `probe` and `timers` are the other fields and the tasks that hang on them.
A status keeps the pid only (`ServiceProcess`); a `PendingKill` is its token. `probe[n]`
distinguishes a task the service still holds the AbortHandle of from one nobody can
abort. `proc[p]` is the kernel's view: free, running, stopped, sent SIGKILL, zombie.

`main` is the program counter of the loop: in `recv`, in the `waitpid` loop, in
`stop_all_services`, waiting for the mutex of a log, at the tail, exited, or hung in a start.
Each event has one action that takes it from the channel and runs its whole handler. Two
handlers are split because processes may die during them: the `waitpid` loop (`BeginReap`,
`Reap`, `EndReap`) and `stop_all_services` (`BeginShutdown`, `StopNext`, `EndStopAll`).
`terminate_service_inner` is one action per status it matches. `Spawn` is `start_service`
behind its shutdown check: it fails (`Error`) or yields a free pid. When it refuses because of
shutdown, the status stays what it is at that point: `Dummy` after `mem::replace`, or
`Stopping` with a dead pid in reap. That these cases are unreachable is one of the results.

`RestartFailed` says when an automatic restart fails: the service is there, and the restart is
refused or its start fails. `AutomaticRestart` and `CopyLogs` then leave the loop waiting
("log") until `LogTurn`, the turn of the mutex; the other tasks go on meanwhile. Nobody owes
the loop that turn: who holds the mutex, and for how long, is `Logs`' matter. `StartHangs` is
every handler that starts a service, when the start does not return; the whole program is
blocked then, so what the handler had done before is never seen.

Abstractions: time (a timer or probe may fire whenever it exists); what SIGTERM does (the
process may exit at any moment or never); process groups (one process per service; for a
pty service it stands for the monitor and the service behind it); SIGINT (like SIGTERM);
requests that only read (show, list, follow, version, wait, get_pty: in the other modules);
of `logs` only that the loop waits. Requests go on after
shutdown has begun although axum then finishes only what is in flight: the model allows
more. `CreateService` may be refused for any reason (environment, name, configuration).

*Refinement.* `ApiStatus` is the conversion to the status of the API, with the pid, the pty
and the exit status left out and `after_stop` reduced to `prune` and `will_restart`.
`Life(n)` is `INSTANCE Lifecycle WITH view <- ApiStatus(status[n])`, and
`ImplementsLifecycle` says that every step of `ServiceManager` is, for every service, a step
of `Lifecycle` or none.

### StatusBroadcast, LivenessProbe, WatchedService

`view` is the status of one service and moves as `Lifecycle` allows. `latest` is the
publisher's; a subscription is `current` and `rx`, what a receiver has not read yet with the
marks "lagged" and "closed". `Subscribe` is the main loop's part of a wait, `Poll` one poll of
the waiting task: its loop looks at everything that is there before it can be suspended.
`met` and `behind` are history variables. Statuses are compared as a wait can tell them
apart: two errors with different texts are one status. The channel of 32 is a constant; the
run uses 2 so that lagging does happen. In the program it hardly can: the main loop yields
after at most the ten events its channel holds, each publishes at most two statuses of one
service, and a woken waiter is then polled before the loop goes on unless very many tasks are
ready.

The task of `LivenessProbe` is at an await or between two: asking (or sleeping), logging a
failure, about to report (waiting for room in the channel), about to give up. Numbers are as
in the code; sleeps are left out. `answers` is a history variable, long enough for the
reference definition `Streak`. `WatchedService` composes both: `ProbeFollows` is what every
handler that changes the status does to the probe, and `HandleReport` is what a `ProbeFailed`
does, which carries only the name: it hits whatever has that name when it is handled.

### Beamctl, Attach

`table` is what beam-init knows; `gen` counts the services that had the name, `run` the starts
of one. beamctl is a program counter (`pc`, `req`) over its blocking requests. Names are
sequences of numbers, so that `split_off` and `take_while` are modelled by what they compute;
keys of labels are numbers, so that `KeysMatch` compares, like `Iterator::eq`, as many values
at the same `Position` in the order of the keys. Other clients create, prune and restart at any
moment (`MaxChanges`, `MaxRuns`); a request may time out, and is then dropped or executed late.
The model does not say more about beam-init than `ServiceManager` does: a request is executed
or refused in one step.

*Names and URLs.* `service_path` puts the name into a URL as it is (blocking.rs:228-234). What
becomes of it is computed, from the code on the client's side (`PathText`, `Segments`,
`Normalised`, which the url crate does: it drops tabs and line ends anywhere and spaces and
control characters at the end, cuts off a query or fragment, resolves dot segments, encoded
ones too) and on the server's (`Routed`: the routes of `bind_api_socket`, by path, method and
body; `Decode`: axum decodes the part that is the name). `Asked[op][n]` is the request that
arrives when op is asked for on n, none if no route takes it; it may be one for another
service, or another operation (`restart` of "x/stop?"). Characters that a URL does something
with are the constants `Query` ('?', '#'), `Slash`, `Dot`, `Blank`, `Space` and the domain of
`Decoded`, in which a sequence %hh is one number; so a prefix that ends inside %hh, a %hh that
is not UTF-8, and names that a client writes percent-encoded because they are not ASCII
(they arrive as they were) are left out. A name is `Plain` when nothing of this touches it;
`PlainNamesArrive` (MCBeamctl) checks that the computation agrees. `NamesAssumption` says that
`Names` has room for what `start` can create under another name. The pty store gets the name
as it is, through its own socket: a session is modelled for plain names only (`ServePty`), as
the requests of another one would go to another service.

`Attach` adds the pty store, the terminal (`tty`), the blocked signals (`masked`, `sigs`) and
the pty's readiness: mio reports edges, so `output` and `hangup` remember which edges have
been consumed. A copy ends at WouldBlock of either side; when it is the terminal that blocks,
what was read is lost and the edge with it (`dropped`). SIGQUIT goes like SIGINT, SIGWINCH
only repeats `sync`; SIGTERM and SIGKILL, which beamctl does not handle, are left out. The
bytes are left out. When `manage` fails, `Fail` is one step for the two drops: a SIGINT that is
pending, or that arrives between them, ends beamctl there.

### Logs

Tasks wait for tokio's mutex in one FIFO queue (it is fair). A task that owns the mutex
runs to its next await, so only a stream at its `yield` *holds* it (`holder`). `notified`
is the set of completed `notified()` futures: `notify_waiters` completes all that exist,
polled or not, which is why the two-step wait loses nothing. A task that is dropped leaves
the queue (`Left`). `log` is a history variable.
The main loop takes part twice: `CopyLogs` and, when a restart fails, `RestartFails` and
`MainPush`. Lines are identified by the incarnation that wrote them, those of probes and of the
loop by 0. Text and `sanitize` are left out.

### Spawn

beam-init, the middle process (the monitor when there is a pty) and the service, and for each
of the five pipes who holds its write end. `Failures` says which steps may fail: the first
fork, a step of the middle process before the second fork, a step of the service before exec,
exec itself, and "leave", a service that moves to another process group, so that the monitor's
killpg fails and the monitor ends. One start of one service is modelled: a monitor forked later
inherits beam-init's ends of earlier command pipes, so a hang-up may reach monitors one after
the other instead of at once. `Ser` and `De` encode a command as the code does: a signal
number, or -1 and -2, cast to a byte and back.

## 3. Runs

| Run | Question | Result |
|---|---|---|
| ServiceLifecycle | a probed service with a grace period, any order of events | 9 properties hold, among them the refinement of `Lifecycle`; 1.4M states |
| ServiceAccess | two users and root, a pty, signals, stale ForceKillService, channel of 3 | ownership and grace periods hold, 1.5M states |
| ServiceProgress | termination and shutdown end, with stops, restarts and `logs` requests in a channel of 1 | both hold under FairSpec, unless the loop is blocked for good |
| WatchedService | wait and the probe over the life of a service | 5 properties hold, 0.2M states |
| Beamctl | one command, or attach, in a changing world, with names that a URL changes | 6 properties hold, 0.6M states |
| LogsFollow | ring buffer, wake-ups, writers, refinement of `LogStream`, progress when clients read | all hold, 0.2M states |
| SpawnHandshake | the handshake and the monitor with failures | all hold |
| ProbeAfterUser | a probe report handled after the user's stop or freeze | violated |
| FrozenAttach | a Frozen service is paused | violated |
| LogsStalledClient | the main loop goes on when a follower stalls | violated |
| SpawnMidFails | `spawn_service` returns when the middle process fails early | violated |
| UrlNames | a command on a name touches the service meant | violated |

The five violations are disagreements between the code and what its comments or documents
say; PROJECT.json quotes them under `findings`:

* **LogsStalledClient.** `match queue.entries.lock().await.get(..)` keeps the guard alive
  through `yield`. A follower that stops reading locks the log; the next `logs` request, or
  the next automatic restart that fails, blocks the event loop, and SIGTERM with it. Binding the entry before the
  match ends it.
* **ProbeAfterUser.** Aborting the probe does not recall a `ProbeFailed` in the channel.
* **SpawnMidFails.** `pid_tx` is not dropped in the parent before `pid_rx` is read.
* **UrlNames.** The name is put into the URL unencoded. `stop --prune 's?x'` prunes `s`; the
  shortest counterexample needs no odd argument but a listed name that holds a `%hh`: asked for by
  its beginning, it decodes to the name of another service. `OnlyMeantServices` restates what
  the help texts say of a name. Encoding the name in `service_path` ends it.
* **FrozenAttach.** Attaching continues a frozen service without changing its status.

Two results hold with an exception the code makes necessary, which the property names:

* **TerminalRestored.** When `manage` fails, its values are dropped in reverse order and the
  signal mask is restored before the terminal. A SIGINT that is pending then, or comes in
  between, ends beamctl in raw mode (`exit = "killed"`). The property does not hold of this
  window, and does not claim to.
* **RelayEnds.** A terminal that is too slow makes `io::copy` stop with WouldBlock; the edge of
  a hang-up may be consumed with it and attach waits for a key (`dropped`).

And four properties carry a condition, because of the findings above:

* **StopCompletes, ShutdownCompletes.** `LoopBlocked` says that the loop waits for ever for the
  mutex of a log or for a start. LogsStalledClient and SpawnMidFails show that both happen, so
  that beam-init does *not* exit whatever clients send. What the properties say is that nothing
  else keeps a termination or a shutdown from ending: no merge, no full channel, no stale event,
  no handler, and no wait for a log that ends.
* **HitsAreIntended, SelectionIsComplete.** Of any name: one request is made about it, it is one
  the user can have meant, and bootstrap is never touched. That the service of this name is the
  one touched, with the operation and the labels asked for, is said of `Plain` names only;
  UrlNames shows why.

Also worth knowing: README.md:9 of the repository says that the container exits with
bootstrap's status, but a signal that beam-init blocks for its signalfd (SIGTERM, SIGINT,
SIGCHLD) stays pending when it is raised, and `abort` makes it SIGABRT (`ExitWith`); a failed
request ends a selector command at once (`SelectionIsComplete` says exactly which services have
then been touched); it also fails when a listed service is pruned by someone else before it is
shown.

Bounds. Two names suffice for "another service" (one of them the protected bootstrap);
pids number at least one more than services that run, so that a pid is reused while
another is a zombie; a channel of 2 (3 for ServiceAccess, 1 for ServiceProgress) already
fills up and reorders what matters, because handlers look at one event and one service.
Tokens are as many as can be in use plus one (`EnoughTokens`). `MaxAttempts` is 1 so that
the saturation is reached. Logs: retention 2, three lines, two readers, two incarnations:
eviction, gaps and a restart all occur. WatchedService: one waiter (waiters do not see each
other), a channel of 2, and pairs of limits with zeros and with the threshold below, at and
above the retries. Beamctl: three names, a service, one with a %hh that decodes to it, and the
bootstrap service, whose name begins with the first; as arguments the empty prefix, beginnings
of one name and of two, a full name that is a prefix, and the name with a query, a route of its
own, dot segments and a space in it; a selector with two keys and services that have both, one
or none right; two changes by others, enough to prune a listed service and to put another in its
place; Prune and Restart (Stop, Freeze and Thaw leave the entry where it is and go the same way). Pids and tokens are symmetric;
symmetry is used in safety runs only.

Deadlock is checked except in the Logs runs, where the bounded number of lines, or a pruned
service without readers, really is the end, and in Beamctl, where the command ends.
ServiceManager ends in `Exit` and Spawn in `Quiet`.

Fairness. `ServiceManager!Fairness`: the event loop does its own steps (weak), but nothing
makes it get the mutex of a log (`LogTurn`) or a start return; a task that waits for the loop
or a slot of the channel gets its turn (strong: the channel's semaphore is FIFO, and tokio
polls woken tasks in turn); the kernel completes a SIGKILL. Clients, probes and services owe
nothing. `WorldSettles` adds that orphans do not die and SIGTERMs do not arrive without end;
the code's `waitpid` loop and the signal order of signalfd need it. `Logs!Fairness`: ready
tasks are polled; clients owe nothing unless the run says `ReadingClients`.
`WatchedService!FairSpec`: tasks that can go on are polled and the main loop handles what is in
its channel, which presumes that it is not blocked (above); users, services and clients owe
nothing. `Attach!FairSpec`: beamctl takes its next step and its timeouts expire (weak); CopyOut
is strong because everything one `poll` reports is handled before the next, so signals cannot
overtake the pty for ever; beam-init owes nothing, which is why attach, whose pty socket has no
timeout, is exempt from CommandEnds. `Spawn!Fairness`: every process takes its next step; a
service that was killed or failed to exec ends; a running one need not.

## 4. Proofs

Five modules hold the theorems. Together they state every invariant, every action property
and both refinements that the passing runs check; only liveness stays with TLC. All theorems
are about the specifications without fairness, and rest on the ASSUMEs of the modules alone,
which TLC evaluates in every run.

### The service manager

`ServiceManagerProofs` proves every safety and action property of `ServiceManager` that the
runs check, for every set of names, users, pids, tokens and requests, every channel capacity
and every saturation point. The only assumption is `ConstantsAssumption`: `Bootstrap` is a
name and `Root` a user, the requests are well formed and a created service belongs to the
user who asked (its credentials are those of the socket's peer), blocked signals are exit statuses,
the capacity is positive.

| theorem | property |
|---|---|
| TypeCorrect | TypeOK |
| SafetyInvariant | IInv, inductive |
| ProcessAccounting | ProcessesAccountedFor |
| NoZombieForgotten | ZombieWillBeReaped |
| ProbeDiscipline | ProbesFollowRunning |
| DummyUnreachable | NoDummyStatus |
| TimerDiscipline | TimersFollowStopping |
| ShutdownIsFinal | ShutdownStopsAll |
| OutcomesHonoured | PendingOutcomeHonoured |
| OwnershipHolds | OwnershipRespected |
| TokensIdentify | TokenInv, inductive |
| GraceHolds | GraceRespected |
| LifecycleRefinement | ImplementsLifecycle |

*Types.* `TypeOK` is inductive by itself. It is split into `SvcTypeOK` (the table) and
`LoopTypeOK` (channel and loop), because an action touches one half and leaves the other.

*The invariant.* None of the other properties is inductive alone. `IInv` is `TypeOK`,
`SvcInv` (ProcessesAccountedFor, and `ServiceConsistent` for each service),
ZombieWillBeReaped, and `TodoInv` (todo is empty outside stop_all_services). The parts need
each other:
- a start must not meet a held probe handle, or the old task would be leaked: a service
  without a process has no probe;
- start_service must never refuse inside terminate_service_inner (Dummy would stay) or inside
  the waitpid loop (Stopping would keep a reaped pid, and the accounting would break): during
  a shutdown nothing Stopping is to be restarted;
- that shutdown fact holds of a service only once stop_all_services has passed it, hence the
  exemption for todo and `TodoInv`;
- a freeze or a thaw must not bring a service back during a shutdown: by the same fact and
  `TodoInv` it cannot meet a Running or Frozen one.

The accounting argument goes through `OthersAccountedFor(n, procs)`: while a handler ends or
starts n, accounting holds of the other services and of the process table made so far.
`SpawnSafe`, `IdleSafe`, `StatusSafe`, `SignalSafe` and `RefusedSafe` say once what a start,
an end, a change of status, a signal and a refusal preserve; `TerminateSafe`, `ReapSafe` and
the lemmas of the handlers are built from them. NoNewZombie and the two facts about `Head`
and `Tail`, `Append` carry ZombieWillBeReaped: only a dying process makes a zombie, and it
makes SIGCHLD pending with the same step.

*Action properties.* PendingOutcomeHonoured needs the types only. OwnershipRespected and
GraceRespected need the accounting: a signal to one service's process, or the start of one on
a free pid, is not another's. GraceRespected needs `TokenInv` as well: a timer that still
counts has a token no event in the channel carries, so the escalation that is handled is
never the one of the termination whose grace period runs.

*Refinement.* LifecycleRefinement uses `IInv` in both states of a step: that no service shows
the placeholder status excludes `Dummy`, `OutcomeSteps` (the lemma behind OutcomesHonoured)
gives the steps of a service that is stopping, and `KindFlows` says what the handlers may do
with the kind of every other one. `FlowIsLife` maps both to the actions of `Lifecycle`.

### The log store

`LogsProofs` assumes `LogsAssumption` only: the retention is a positive number (the code's
`NonZeroUsize`), the bounds are naturals.

| theorem | property |
|---|---|
| LogsInvariant | LogsInv, inductive |
| LogsTypes | TypeOK |
| RingBufferIsTail | RingIsTail |
| WakeupsAreKept | NoLostWakeup |
| WritersDoNotMix | SingleWriter |
| LogsIsStream | StreamSpec, the refinement of `LogStream` |

`LogsInv` adds to the three properties what they need of the mutex: a task is in its queue
exactly once and exactly when it waits for the lock (`QueueInv`), a reader holds the lock
exactly while it is at its yield (`MutexInv`), and only the last writer lives, no line is of a
later incarnation (`WriterInv`). NoLostWakeup holds because a reader that found nothing had the
lock, so a line is pushed after its future existed; SingleWriter because an aborted writer
leaves the queue in the same step, `LeftFacts`. RingBufferIsTail separates the push below the
retention from the one that evicts. The refinement maps each action to at most one of
`LogStream`: a yield to `Deliver` or `Skip`, where RingIsTail says which line it is and how
many are lost.

### Spawning and the monitor

`SpawnProofs` assumes `SpawnAssumption`: any set of the steps may fail.

| theorem | property |
|---|---|
| CommandRoundTrip | De(Ser(c)) = c |
| SpawnInvariant | SpawnInv, inductive |
| SpawnTypes | TypeOK |
| SpawnResult | ResultIsTrue |
| CommandsAreOver | CommandsComplete |
| BarrierIsPassed | BarrierHolds |
| MonitorOutlives | MonitorOutlivesService |

The key is `EndsFollowCode`: who holds the write end of each pipe is a function of where the
three processes are in their code. An end of file then *means* something, that every holder
has passed the point where it closes, and the other parts draw the conclusions:
`StepsOrdered` (who can be where when another is there), `ExecIsOver` (parent past the error
pipe means exec happened or failed), `PidIsRight`, `OneCommand` (at most one of command and
acknowledgement is under way), `FailureIsKnown` (a service that failed has told).

### Statuses, waits and the probe

`WatchedServiceProofs` assumes `BroadcastAssumption` and `ProbeAssumption`: a channel of any
positive size, any set of kinds to wait for, any limits of the probe, zeros included, and any
number of waiters.

| theorem | property |
|---|---|
| WatchedInvariant | WatchedInv, inductive |
| WatchedTypes | WatchedTypeOK |
| WaitAnswersAreExact | WaitIsExact |
| ProbeVerdicts | VerdictIsRight |

A wait that is still waiting owes its exactness to what it has not read: `WaiterInv` says that
its condition was met only if a status that meets it is among the unread ones (`Unseen`) or was
overwritten, that overwriting means more statuses than the channel holds, and that while the
channel is open the service exists and its present status has been counted. `FailuresCounted`
says that `failures` is the length of the last run of failures in `answers`, and `ProbeInv`
relates it at each await to `threshold` and `retries`: in particular the two comparisons of
different strictness cannot both be passed over.

### beamctl and attach

`AttachProofs` assumes `BeamctlAssumption`: names and arguments are strings (sequences of
numbers), of which finitely many are names; a selector has finitely many keys; a service may
have no labels; what can be started is a name, under whatever name it arrives
(`NamesAssumption`). Names, what a URL makes of them, labels, selectors, the commands of the
other clients and their number are arbitrary. CommandHitsWhatWasMeant so covers every name a
user can type: of one that a URL changes it says that one request is made on its account,
that it was listed or typed and that bootstrap is not what is hit, and no more.

| theorem | property |
|---|---|
| AttachInvariant | AttachInv, inductive |
| AttachTypes | AttachTypeOK |
| CommandHitsWhatWasMeant | HitsAreIntended |
| SelectionIsWorkedThrough | SelectionIsComplete |
| TerminalIsRestored | TerminalRestored |
| KeysMatchIsSelected | KeysMatch is Selected |
| PrefixMatchIsUnique | what PrefixMatch returns |

`AttachTypeOK` and TerminalRestored are inductive together; `CommandInv` is inductive with the
types. Its parts: `ControlInv` (which phases a command of each form goes through, and that a
request that came too late is the command's last), `TargetInv` (the service in hand has not
been touched on its own account, was shown, and matches), `LateInv` (what may be executed late
is what the request in hand arrived as), `GensInv` (no service is older than when the list was
made). `AskedFacts` and `ArrivedFacts` say what a request arrives as: itself when the name is
plain, and else something that is a `start` only if a `start` was sent. What others do is one
fact, `TableEvolves`: generations only grow, and a service of the same generation keeps its
labels. That is why a label seen in `show` still says something about the service that is hit:
either it is the one shown, or it is newer, which HitsAreIntended tells apart.

PrefixMatchIsUnique needs the order of strings: `FirstDifference`, that `Before` is a total
order (`BeforeTotal`, `BeforeTransitive`), that a finite set of names has a first (`FirstIs`),
and `PrefixOrder`: the names with a prefix follow each other directly after the prefix, so
that `take_while` stops at the right place. Least elements come from the well-foundedness of
strict inclusion on finite sets (`Smallest`), as induction is not available. KeysMatchIsSelected
shows that comparing two lists of values suffices: with a label missing one list is shorter,
with none missing each value stands at the `Position` of its own key.

### Left to TLC

Liveness (StopCompletes, ShutdownCompletes, ReadersCatchUp, LoopGoesOn,
ForkedSpawnReturns, SendReturns, NoServiceLeftBehind, WaitAnswered, UnhealthyDoesNotRun,
CommandEnds, RelayEnds), since TLAPS here has no fairness or ENABLED reasoning; and that the
five violations are violations, which a run shows and a proof need not.

## 5. Not modelled

Environment files and command line (text in, values out; a failure is one of the refusals of
`CreateService`); JSON, HTTP framing and all texts that are printed or logged; beamctl's
commands that only print; the bytes a terminal relay carries and the window size; exhaustion
of file descriptors other than as a refusal of the pty store; several clients attached to one
pty; `sanitize` of the log.

## 6. Plan

1. Done: `ServiceManager`, `Logs` with `LogStream`, `Spawn`; their runs; the proofs of
   section 4.
2. Done: `Lifecycle` and its refinement, `StatusBroadcast`, `LivenessProbe`, `WatchedService`,
   `Beamctl`, `Attach`; a service that leaves its group.
3. Done: the invariants of `Logs`, `Spawn`, `StatusBroadcast`, `LivenessProbe`, `Beamctl` and
   `Attach` with the inductive invariants they need, and the refinement of `LogStream`.
4. Next: that a `ServiceManager` handler does to a service and its probe only what
   `WatchedService` lets its environment do (`ProbeFollows` for every name), so that the
   theorems of both compose; the safety half of the liveness properties (what must hold in a
   state in which a wait, a stop or a shutdown is not over, for its next step to be enabled).
