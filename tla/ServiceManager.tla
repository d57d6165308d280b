--------------------------- MODULE ServiceManager ---------------------------
(***************************************************************************)
(* The core of beam-init: the table of services (services.rs), the main    *)
(* event loop that owns it (main.rs), the bounded event channel in front   *)
(* of the loop, and the actors that feed the channel: the signal reader    *)
(* (signal_stream.rs), the REST handlers (api_impl.rs), the liveness       *)
(* probes and the graceful-termination timers.  The kernel's side of a     *)
(* service (its process, SIGCHLD, waitpid) is part of the model too.       *)
(*                                                                         *)
(* The runtime is tokio's current_thread flavour: a handler of the main    *)
(* loop runs to its next await without any other task running, so tasks    *)
(* step only while the loop waits: in recv (main = "recv"), or for the     *)
(* mutex of a log (main = "log"), which a client may hold as long as it    *)
(* likes.  Processes and signals are the kernel's and step at any time.    *)
(***************************************************************************)
EXTENDS Naturals, Sequences, FiniteSets

CONSTANTS
    Names,             \* service names that clients use, Bootstrap included
    Bootstrap,         \* BOOTSTRAP_NAME
    Users, Root,       \* uids; Root is uid 0
    Pids,              \* process ids the kernel hands out
    Tokens,            \* identities of the TerminationTokens (an Arc address)
    Requests,          \* the API requests clients may send, any number of times
    BootstrapGraceful, \* bootstrap_graceful_termination_period # 0
    ExitStatuses,      \* wait statuses of processes: exit codes and signals
    BlockedSignals,    \* the wait statuses that are signals beam-init blocks
    Capacity,          \* of the event channel (10 in main.rs)
    MaxAttempts        \* where automatic_restart_attempts saturates (u32::MAX)

VARIABLES
    status,   \* services[n].state.status; Absent: n is not in the map
    config,   \* services[n].config
    attempts, \* services[n].state.automatic_restart_attempts
    probe,    \* running probe tasks of n: "held" (by its AbortHandle), "leaked"
    proc,     \* what the kernel knows of a process of beam-init's
    pending,  \* signals pending on the signalfd
    inhand,   \* the signal the reader task has read and is sending
    queue,    \* the event channel
    timers,   \* graceful-termination tasks that have not sent their event
    shutdown, \* the CancellationToken
    main,     \* where the main loop is
    todo,     \* names stop_all_services still has to visit
    exit      \* beam-init's own exit status

svcVars == <<status, config, attempts, probe, proc, timers>>
loopVars == <<main, todo, shutdown, exit>>
chanVars == <<queue, pending, inhand>>
vars == <<status, config, attempts, probe, proc, pending, inhand, queue,
          timers, shutdown, main, todo, exit>>

-----------------------------------------------------------------------------
(* Data.                                                                   *)

AfterStop == {"Stop", "Prune", "RestartUser", "RestartAuto"}
Restarts == {"RestartUser", "RestartAuto"}

Absent  == [kind |-> "Absent"]
Stopped == [kind |-> "Stopped"]
Error   == [kind |-> "Error"]
Dummy   == [kind |-> "Dummy"]
Running(p) == [kind |-> "Running", pid |-> p]
Frozen(p)  == [kind |-> "Frozen", pid |-> p]
\* pending_kill is a set of at most one token: None is {}.
Stopping(p, a, k) == [kind |-> "Stopping", pid |-> p, after |-> a, kill |-> k]
Exited(e) == [kind |-> "Exited", exit |-> e]

ServiceStatus ==
    [kind : {"Absent", "Stopped", "Error", "Dummy"}]
      \cup [kind : {"Running", "Frozen"}, pid : Pids]
      \cup [kind : {"Stopping"}, pid : Pids, after : AfterStop, kill : SUBSET Tokens]
      \cup [kind : {"Exited"}, exit : ExitStatuses]

HasProcess(s) == s.kind \in {"Running", "Frozen", "Stopping"}
\* Mutant of NoProcess: a frozen service counts as one without a process.
NoRunningProcess(s) == s.kind \in {"Stopped", "Exited", "Error", "Frozen"}
NoProcess(s) == s.kind \in {"Stopped", "Exited", "Error"}

\* graceful: graceful_termination_period # 0.
ServiceConfig == [owner : Users, liveness : BOOLEAN, pty : BOOLEAN, graceful : BOOLEAN]
BlankConfig == [owner |-> Root, liveness |-> FALSE, pty |-> FALSE, graceful |-> FALSE]

\* SIGRTMIN stands for every number send_signal refuses.
UserSignals == {"SIGKILL", "SIGSTOP", "SIGCONT", "SIGTERM", "SIGRTMIN"}

Request ==
    [op : {"Create"}, name : Names, uid : Users, cfg : ServiceConfig]
      \cup [op : {"Stop", "Prune", "RestartUser", "Freeze", "Thaw", "Attach", "Detach",
                  "Logs"}, name : Names, uid : Users]
      \cup [op : {"SendSignal"}, name : Names, uid : Users, sig : UserSignals]

BootstrapRequest ==
    [op |-> "Create", name |-> Bootstrap, uid |-> Root,
     cfg |-> [BlankConfig EXCEPT !.graceful = BootstrapGraceful]]

\* SIGTERM stands for SIGINT as well: handle_signal treats them alike.
Signals == {"SIGCHLD", "SIGTERM"}
Signal(s) == [type |-> "Signal", sig |-> s]
Command(r) == [type |-> "Command", req |-> r]
ProbeFailed(n) == [type |-> "ProbeFailed", name |-> n]
ForceKill(n, t) == [type |-> "ForceKill", name |-> n, token |-> t]

Event ==
    [type : {"Signal"}, sig : Signals]
      \cup [type : {"Command"}, req : Requests \cup {BootstrapRequest}]
      \cup [type : {"ProbeFailed"}, name : Names]
      \cup [type : {"ForceKill"}, name : Names, token : Tokens]

\* A child of beam-init's: "dying" has been sent SIGKILL, "zombie" is not yet
\* waited for.
ProcState == {"free", "running", "stopped", "dying", "zombie"}
Alive == {"running", "stopped", "dying"}

ASSUME ConstantsAssumption ==
    /\ Bootstrap \in Names
    /\ Root \in Users
    /\ Requests \subseteq Request
    /\ \A r \in Requests : r.op = "Create" => r.cfg.owner = r.uid
    /\ BootstrapGraceful \in BOOLEAN
    /\ BlockedSignals \subseteq ExitStatuses
    /\ Capacity \in Nat \ {0}
    /\ MaxAttempts \in Nat

\* From<&services::ServiceStatus> for beam_init_api::ServiceStatus, without the pid,
\* the pty and the exit status.
ApiStatus(s) ==
    IF s.kind = "Stopping"
    THEN [kind |-> "Stopping", after |-> IF s.after \in Restarts THEN "Restart" ELSE s.after]
    ELSE [kind |-> s.kind]

Life(n) == INSTANCE Lifecycle WITH view <- ApiStatus(status[n])

InQueue(e) == \E i \in 1..Len(queue) : queue[i] = e

TypeOK ==
    /\ status \in [Names -> ServiceStatus]
    /\ config \in [Names -> ServiceConfig]
    /\ attempts \in [Names -> 0..MaxAttempts]
    /\ probe \in [Names -> SUBSET {"held", "leaked"}]
    /\ proc \in [Pids -> ProcState]
    /\ pending \in SUBSET Signals
    /\ inhand \in {{}} \cup {{s} : s \in Signals}
    /\ queue \in Seq(Event)
    /\ Len(queue) <= Capacity
    /\ timers \in SUBSET [name : Names, token : Tokens]
    /\ shutdown \in BOOLEAN
    /\ main \in {"recv", "reap", "stopall", "log", "check", "exited", "hung"}
    /\ todo \in SUBSET Names
    /\ exit \in ExitStatuses \cup {"none", "code0", "SIGABRT"}

-----------------------------------------------------------------------------
(* Helpers of the handlers.                                                *)

\* Mutant of Permitted: no credentials check.
AnyonePermitted(n, uid) == status[n] # Absent

\* Service::check_credentials, behind get_service.
Permitted(n, uid) ==
    /\ status[n] # Absent
    /\ uid \in {Root, config[n].owner}

\* get_service_mut protects the bootstrap service on top.
PermittedMut(n, uid) ==
    /\ n # Bootstrap
    /\ Permitted(n, uid)

\* Mutants of Merge: the last request wins; a stop does not cancel a restart.
MergeLastWins(current, requested) == requested
MergeFirstWins(current, requested) ==
    IF "Prune" \in {current, requested} THEN "Prune" ELSE current

Merge(current, requested) ==
    IF "Prune" \in {current, requested} THEN "Prune"
    ELSE IF requested = "RestartAuto" THEN current
    ELSE requested

\* The effect of a signal on the process table.  What SIGTERM does is up to the
\* process: Die may follow or not.
Signalled(procs, p, sig) ==
    CASE sig = "SIGKILL" /\ procs[p] \in Alive -> [procs EXCEPT ![p] = "dying"]
      [] sig = "SIGSTOP" /\ procs[p] = "running" -> [procs EXCEPT ![p] = "stopped"]
      [] sig = "SIGCONT" /\ procs[p] = "stopped" -> [procs EXCEPT ![p] = "running"]
      [] OTHER -> procs

\* Mutant of AbortProbe: the task is left running.
KeepProbe(probes, n) == probes

AbortProbe(probes, n) == [probes EXCEPT ![n] = @ \ {"held"}]

\* spawn_liveness_probe overwrites the handle: a task it still held runs on.
SpawnProbe(probes, n, cfg) ==
    IF cfg.liveness
    THEN [probes EXCEPT ![n] = (IF "held" \in @ THEN {"leaked"} ELSE @) \cup {"held"}]
    ELSE probes

\* Dropping a service drops its AbortHandle without aborting the task.
DropProbe(probes, n) == [probes EXCEPT ![n] = IF @ = {} THEN {} ELSE {"leaked"}]

\* Mutant of AbortKill: the handle is dropped, the task runs on.
KeepKill(kill) == timers

\* PendingKill::abort_handle.abort(): the task is gone unless it already sent.
AbortKill(kill) == {t \in timers : t.token \notin kill}

UsedTokens ==
    {t.token : t \in timers}
      \cup (UNION {status[n].kill : n \in {m \in Names : status[m].kind = "Stopping"}})
      \cup {t \in Tokens : \E n \in Names : InQueue(ForceKill(n, t))}

\* Mutant of SaturatingAdd.
PlainAdd(k) == k + 1

SaturatingAdd(k) == IF k < MaxAttempts THEN k + 1 ELSE k

\* start_service past its checks.  procs and probes are the tables after what the
\* handler did before it called start_service.
Spawn(n, cfg, reason, procs, probes) ==
    /\ attempts' = [attempts EXCEPT ![n] =
                      IF reason = "RestartAuto" THEN SaturatingAdd(@) ELSE 0]
    /\ \/ /\ status' = [status EXCEPT ![n] = Error]
          /\ proc' = procs
          /\ probe' = probes
       \/ \E p \in {q \in Pids : procs[q] = "free"} :
            /\ status' = [status EXCEPT ![n] = Running(p)]
            /\ proc' = [procs EXCEPT ![p] = "running"]
            /\ probe' = SpawnProbe(probes, n, cfg)

\* self.services.remove(name)
Remove(n) ==
    /\ status' = [status EXCEPT ![n] = Absent]
    /\ config' = [config EXCEPT ![n] = BlankConfig]
    /\ attempts' = [attempts EXCEPT ![n] = 0]

-----------------------------------------------------------------------------
(* terminate_service_inner, one action per status it matches.              *)

\* mem::replace has put Dummy in place: when start_service refuses to start, it
\* stays there.
TerminateIdle(n, a) ==
    /\ NoProcess(status[n])
    /\ UNCHANGED timers
    /\ \/ a = "Stop" /\ UNCHANGED svcVars
       \/ /\ a = "Prune"
          /\ Remove(n)
          /\ probe' = DropProbe(probe, n)
          /\ UNCHANGED proc
       \/ /\ a \in Restarts
          /\ UNCHANGED config
          /\ IF shutdown
             THEN /\ status' = [status EXCEPT ![n] = Dummy]
                  /\ UNCHANGED <<attempts, proc, probe>>
             ELSE Spawn(n, config[n], a, proc, probe)

\* Mutant of TerminateStopping: a second request cancels the pending kill.
TerminateStoppingAnew(n, a) ==
    /\ status[n].kind = "Stopping"
    /\ status' = [status EXCEPT ![n] = Stopping(@.pid, Merge(@.after, a), {})]
    /\ timers' = AbortKill(status[n].kill)
    /\ UNCHANGED <<config, attempts, probe, proc>>

TerminateStopping(n, a) ==
    /\ status[n].kind = "Stopping"
    /\ status' = [status EXCEPT ![n] = Stopping(@.pid, Merge(@.after, a), @.kill)]
    /\ UNCHANGED <<config, attempts, probe, proc, timers>>

TerminateFrozen(n, a) ==
    /\ status[n].kind = "Frozen"
    /\ proc' = Signalled(proc, status[n].pid, "SIGKILL")
    /\ status' = [status EXCEPT ![n] = Stopping(@.pid, a, {})]
    /\ UNCHANGED <<config, attempts, probe, timers>>

TerminateRunning(n, a) ==
    /\ status[n].kind = "Running"
    /\ probe' = AbortProbe(probe, n)
    /\ UNCHANGED <<config, attempts>>
    /\ \/ /\ ~config[n].graceful
          /\ proc' = Signalled(proc, status[n].pid, "SIGKILL")
          /\ status' = [status EXCEPT ![n] = Stopping(@.pid, a, {})]
          /\ UNCHANGED timers
       \/ /\ config[n].graceful
          /\ \E t \in Tokens \ UsedTokens :
               /\ status' = [status EXCEPT ![n] = Stopping(@.pid, a, {t})]
               /\ timers' = timers \cup {[name |-> n, token |-> t]}
          /\ UNCHANGED proc

TerminateInner(n, a) ==
    \/ TerminateIdle(n, a)
    \/ TerminateStopping(n, a)
    \/ TerminateFrozen(n, a)
    \/ TerminateRunning(n, a)

\* Mutant of MayTerminate: a restart is accepted during shutdown.
MayTerminateAlways(n, uid, a) == PermittedMut(n, uid)

\* The checks of stop_service_cmd and terminate_service.
MayTerminate(n, uid, a) ==
    /\ PermittedMut(n, uid)
    /\ ~(shutdown /\ a \in Restarts)

StopServiceCmd(n, uid, a) ==
    \/ MayTerminate(n, uid, a) /\ TerminateInner(n, a)
    \/ ~MayTerminate(n, uid, a) /\ UNCHANGED svcVars

-----------------------------------------------------------------------------
(* The main loop.                                                          *)

\* The loop takes e from the channel, handles it and goes on to its tail.
Receive(e, next) ==
    /\ main = "recv"
    /\ queue # <<>>
    /\ e = Head(queue)
    /\ queue' = Tail(queue)
    /\ main' = next
    /\ UNCHANGED <<pending, inhand, exit>>

HandleCommand(r) == Receive(Command(r), "check") /\ UNCHANGED <<shutdown, todo>>

\* The environment, the name or the configuration may be refused as well.
CreateService(r) ==
    /\ r.op = "Create"
    /\ HandleCommand(r)
    /\ UNCHANGED timers
    /\ \/ UNCHANGED svcVars
       \/ /\ ~shutdown
          /\ status[r.name] = Absent
          /\ config' = [config EXCEPT ![r.name] = r.cfg]
          /\ Spawn(r.name, r.cfg, "RestartUser", proc, probe)

StopService(r) ==
    /\ r.op \in {"Stop", "Prune", "RestartUser"}
    /\ HandleCommand(r)
    /\ StopServiceCmd(r.name, r.uid, r.op)

FreezeService(r) ==
    /\ r.op = "Freeze"
    /\ HandleCommand(r)
    /\ UNCHANGED <<config, attempts, timers>>
    /\ IF PermittedMut(r.name, r.uid) /\ status[r.name].kind = "Running"
       THEN /\ probe' = AbortProbe(probe, r.name)
            /\ proc' = Signalled(proc, status[r.name].pid, "SIGSTOP")
            /\ status' = [status EXCEPT ![r.name] = Frozen(@.pid)]
       ELSE UNCHANGED <<status, probe, proc>>

ThawService(r) ==
    /\ r.op = "Thaw"
    /\ HandleCommand(r)
    /\ UNCHANGED <<config, attempts, timers>>
    /\ IF PermittedMut(r.name, r.uid) /\ status[r.name].kind = "Frozen"
       THEN /\ proc' = Signalled(proc, status[r.name].pid, "SIGCONT")
            /\ status' = [status EXCEPT ![r.name] = Running(@.pid)]
            /\ probe' = SpawnProbe(probe, r.name, config[r.name])
       ELSE UNCHANGED <<status, probe, proc>>

SendSignal(r) ==
    /\ r.op = "SendSignal"
    /\ HandleCommand(r)
    /\ UNCHANGED <<status, config, attempts, probe, timers>>
    /\ proc' = IF /\ PermittedMut(r.name, r.uid)
                  /\ r.sig # "SIGRTMIN"
                  /\ HasProcess(status[r.name])
               THEN Signalled(proc, status[r.name].pid, r.sig)
               ELSE proc

\* The monitor of a service with a pty moves it to the foreground with SIGCONT,
\* and to the background with SIGTSTP, which the service may ignore.
NotifyPty(r) ==
    /\ r.op \in {"Attach", "Detach"}
    /\ HandleCommand(r)
    /\ UNCHANGED <<status, config, attempts, probe, timers>>
    /\ IF /\ PermittedMut(r.name, r.uid)
          /\ status[r.name].kind \in {"Running", "Frozen"}
          /\ config[r.name].pty
       THEN \/ proc' = Signalled(proc, status[r.name].pid,
                                 IF r.op = "Attach" THEN "SIGCONT" ELSE "SIGSTOP")
            \/ r.op = "Detach" /\ UNCHANGED proc
       ELSE UNCHANGED proc

\* Mutant of KillIsDue: the token is not compared.
KillIsDueAnyToken(n, t) == status[n].kind = "Stopping"

\* force_kill_service acts on the termination that owns the token only.
KillIsDue(n, t) == status[n].kind = "Stopping" /\ t \in status[n].kill

ForceKillService ==
    \E n \in Names, t \in Tokens :
        /\ Receive(ForceKill(n, t), "check")
        /\ UNCHANGED <<shutdown, todo, status, config, attempts, probe, timers>>
        /\ proc' = IF KillIsDue(n, t)
                   THEN Signalled(proc, status[n].pid, "SIGKILL")
                   ELSE proc

\* stop_service_cmd returned an error and the service is there to log it.
RestartFailed(n) ==
    /\ status[n] # Absent
    /\ ~MayTerminate(n, Root, "RestartAuto") \/ status'[n] = Error

\* The event names the service only; it acts with root's credentials.  A failure is
\* pushed to the log of the service, and the loop waits for the mutex of the log.
AutomaticRestart ==
    \E n \in Names :
        /\ StopServiceCmd(n, Root, "RestartAuto")
        /\ Receive(ProbeFailed(n), IF RestartFailed(n) THEN "log" ELSE "check")
        /\ UNCHANGED <<shutdown, todo>>

\* `logs` without --follow: copy_logs, for which the loop waits too.
CopyLogs ==
    \E r \in Requests :
        /\ r.op = "Logs"
        /\ Receive(Command(r), IF Permitted(r.name, r.uid) THEN "log" ELSE "check")
        /\ UNCHANGED <<svcVars, shutdown, todo>>

\* The loop gets the mutex of the log and returns it.
LogTurn ==
    /\ main = "log"
    /\ main' = "check"
    /\ UNCHANGED <<svcVars, chanVars, shutdown, todo, exit>>

\* The request makes its handler start a service.
Starts(r) ==
    \/ r.op = "Create" /\ status[r.name] = Absent
    \/ /\ r.op = "RestartUser"
       /\ MayTerminate(r.name, r.uid, "RestartUser")
       /\ NoProcess(status[r.name])

\* A handler starts a service and spawn_service never returns (Spawn has the cause).
\* The only thread is blocked, so what the handler did before is never seen.
StartHangs ==
    /\ ~shutdown
    /\ UNCHANGED <<svcVars, shutdown, todo>>
    /\ \/ \E r \in Requests \cup {BootstrapRequest} :
            Starts(r) /\ Receive(Command(r), "hung")
       \/ \E n \in Names :
            /\ MayTerminate(n, Root, "RestartAuto")
            /\ NoProcess(status[n])
            /\ Receive(ProbeFailed(n), "hung")
       \/ /\ main = "reap"
          /\ \E n \in Names :
               /\ status[n].kind = "Stopping"
               /\ status[n].after \in Restarts
               /\ proc[status[n].pid] = "zombie"
          /\ main' = "hung"
          /\ UNCHANGED <<chanVars, exit>>

BeginReap ==
    /\ Receive(Signal("SIGCHLD"), "reap")
    /\ UNCHANGED <<svcVars, shutdown, todo>>

\* One iteration of the waitpid loop of handle_signal.
Reap(p) ==
    /\ main = "reap"
    /\ proc[p] = "zombie"
    /\ UNCHANGED <<chanVars, loopVars>>
    /\ LET freed == [proc EXCEPT ![p] = "free"] IN
       \/ /\ \A n \in Names : ~(HasProcess(status[n]) /\ status[n].pid = p)
          /\ proc' = freed
          /\ UNCHANGED <<status, config, attempts, probe, timers>>
       \/ \E n \in Names :
            /\ status[n].kind \in {"Running", "Frozen"}
            /\ status[n].pid = p
            /\ \E e \in ExitStatuses : status' = [status EXCEPT ![n] = Exited(e)]
            /\ probe' = AbortProbe(probe, n)
            /\ proc' = freed
            /\ UNCHANGED <<config, attempts, timers>>
       \/ \E n \in Names :
            /\ status[n].kind = "Stopping"
            /\ status[n].pid = p
            /\ timers' = AbortKill(status[n].kill)
            /\ LET probes == AbortProbe(probe, n) IN
               \/ /\ status[n].after = "Stop"
                  /\ status' = [status EXCEPT ![n] = Stopped]
                  /\ proc' = freed
                  /\ probe' = probes
                  /\ UNCHANGED <<config, attempts>>
               \/ /\ status[n].after = "Prune"
                  /\ Remove(n)
                  /\ proc' = freed
                  /\ probe' = DropProbe(probes, n)
               \/ /\ status[n].after \in Restarts
                  /\ UNCHANGED config
                  /\ IF shutdown
                     THEN /\ proc' = freed
                          /\ probe' = probes
                          /\ status' = [status EXCEPT ![n] = Stopping(@.pid, @.after, {})]
                          /\ UNCHANGED attempts
                     ELSE Spawn(n, config[n], status[n].after, freed, probes)

\* Mutant of EndReap: one child per SIGCHLD.
EndReapEarly ==
    /\ main = "reap"
    /\ main' = "check"
    /\ UNCHANGED <<svcVars, chanVars, shutdown, todo, exit>>

\* waitpid has nothing more to report.
EndReap ==
    /\ main = "reap"
    /\ \A p \in Pids : proc[p] # "zombie"
    /\ main' = "check"
    /\ UNCHANGED <<svcVars, chanVars, shutdown, todo, exit>>

\* SIGTERM or SIGINT: begin_shutdown, which only the first one enters.
BeginShutdown ==
    /\ Receive(Signal("SIGTERM"), IF shutdown THEN "check" ELSE "stopall")
    /\ shutdown' = TRUE
    /\ todo' = IF shutdown THEN {} ELSE {n \in Names : status[n] # Absent}
    /\ UNCHANGED svcVars

\* stop_all_services, one service after the other.
StopNext ==
    /\ main = "stopall"
    /\ \E n \in todo :
         /\ TerminateInner(n, "Stop")
         /\ todo' = todo \ {n}
    /\ UNCHANGED <<chanVars, main, shutdown, exit>>

EndStopAll ==
    /\ main = "stopall"
    /\ todo = {}
    /\ main' = "check"
    /\ UNCHANGED <<svcVars, chanVars, shutdown, todo, exit>>

ShutdownComplete ==
    /\ shutdown
    /\ \A n \in Names : status[n] = Absent \/ NoProcess(status[n])

\* raise() of a blocked signal stays pending, and abort() follows.
ExitWith(e) == IF e \in BlockedSignals THEN "SIGABRT" ELSE e

\* The tail of the loop: leave, or wait for the next event.
LoopTail ==
    /\ main = "check"
    /\ LET b == status[Bootstrap]
           leave == ShutdownComplete \/ (~shutdown /\ b.kind \in {"Exited", "Stopped"})
       IN /\ main' = IF leave THEN "exited" ELSE "recv"
          /\ exit' = IF ~leave THEN "none"
                     ELSE IF ~shutdown /\ b.kind = "Exited" THEN ExitWith(b.exit)
                     ELSE "code0"
    /\ UNCHANGED <<svcVars, chanVars, shutdown, todo>>

-----------------------------------------------------------------------------
(* The other tasks of the runtime.                                         *)

\* The loop is at an await.
Awaiting == main \in {"recv", "log"}

TaskMaySend == Awaiting /\ Len(queue) < Capacity

\* The kernel hands out the pending signal with the lowest number.
NextSignal == IF "SIGTERM" \in pending THEN "SIGTERM" ELSE "SIGCHLD"

ReadSignal ==
    /\ Awaiting
    /\ inhand = {}
    /\ pending # {}
    /\ inhand' = {NextSignal}
    /\ pending' = pending \ {NextSignal}
    /\ UNCHANGED <<svcVars, loopVars, queue>>

ForwardSignal ==
    /\ TaskMaySend
    /\ \E s \in inhand : queue' = Append(queue, Signal(s))
    /\ inhand' = {}
    /\ UNCHANGED <<svcVars, loopVars, pending>>

SendRequest ==
    /\ TaskMaySend
    /\ \E r \in Requests : queue' = Append(queue, Command(r))
    /\ UNCHANGED <<svcVars, loopVars, pending, inhand>>

\* A probe task reaches failure_threshold, reports and returns.
ProbeFails(n) ==
    /\ TaskMaySend
    /\ queue' = Append(queue, ProbeFailed(n))
    /\ \E t \in probe[n] : probe' = [probe EXCEPT ![n] = @ \ {t}]
    /\ UNCHANGED <<status, config, attempts, proc, timers, loopVars, pending, inhand>>

\* A probe task exceeds max_retries and returns without a report.
ProbeGivesUp(n) ==
    /\ Awaiting
    /\ \E t \in probe[n] : probe' = [probe EXCEPT ![n] = @ \ {t}]
    /\ UNCHANGED <<status, config, attempts, proc, timers, loopVars, chanVars>>

\* The graceful-termination period of n is over.
TimerFires(n) ==
    /\ TaskMaySend
    /\ \E t \in timers :
         /\ t.name = n
         /\ timers' = timers \ {t}
         /\ queue' = Append(queue, ForceKill(n, t.token))
    /\ UNCHANGED <<status, config, attempts, probe, proc, loopVars, pending, inhand>>

-----------------------------------------------------------------------------
(* The kernel and the world outside.                                       *)

\* beam-init has exited, or it hangs and does nothing more.
Halted == main \in {"exited", "hung"}

\* A process exits, on its own or by a signal; SIGCHLD becomes pending (once).
Die(p) ==
    /\ ~Halted
    /\ proc[p] \in Alive
    /\ proc' = [proc EXCEPT ![p] = "zombie"]
    /\ pending' = pending \cup {"SIGCHLD"}
    /\ UNCHANGED <<status, config, attempts, probe, timers, loopVars, queue, inhand>>

\* A descendant beam-init does not know (an orphan it adopted as subreaper, an
\* intermediate of a double fork) exits.
OrphanDies(p) ==
    /\ ~Halted
    /\ proc[p] = "free"
    /\ proc' = [proc EXCEPT ![p] = "zombie"]
    /\ pending' = pending \cup {"SIGCHLD"}
    /\ UNCHANGED <<status, config, attempts, probe, timers, loopVars, queue, inhand>>

\* The container runtime asks beam-init to stop.
StopContainer ==
    /\ ~Halted
    /\ pending' = pending \cup {"SIGTERM"}
    /\ UNCHANGED <<svcVars, loopVars, queue, inhand>>

Exit == Halted /\ UNCHANGED vars

-----------------------------------------------------------------------------
Init ==
    /\ status = [n \in Names |-> Absent]
    /\ config = [n \in Names |-> BlankConfig]
    /\ attempts = [n \in Names |-> 0]
    /\ probe = [n \in Names |-> {}]
    /\ proc = [p \in Pids |-> "free"]
    /\ pending = {}
    /\ inhand = {}
    /\ queue = <<Command(BootstrapRequest)>>
    /\ timers = {}
    /\ shutdown = FALSE
    /\ main = "recv"
    /\ todo = {}
    /\ exit = "none"

HandleRequest ==
    \E r \in Requests \cup {BootstrapRequest} :
        \/ CreateService(r)
        \/ StopService(r)
        \/ FreezeService(r)
        \/ ThawService(r)
        \/ SendSignal(r)
        \/ NotifyPty(r)

MainLoop ==
    \/ HandleRequest
    \/ ForceKillService
    \/ AutomaticRestart
    \/ CopyLogs
    \/ BeginReap
    \/ \E p \in Pids : Reap(p)
    \/ EndReap
    \/ BeginShutdown
    \/ StopNext
    \/ EndStopAll
    \/ LoopTail

Tasks ==
    \/ ReadSignal
    \/ ForwardSignal
    \/ SendRequest
    \/ \E n \in Names : ProbeFails(n) \/ ProbeGivesUp(n) \/ TimerFires(n)

Kernel ==
    \/ \E p \in Pids : Die(p) \/ OrphanDies(p)
    \/ StopContainer

Next == MainLoop \/ LogTurn \/ StartHangs \/ Tasks \/ Kernel \/ Exit

Spec == Init /\ [][Next]_vars

\* The loop goes on with what is its to do, but nobody owes it the mutex of a log
\* (LogTurn) or a start that returns.  A task that waits for the loop, or for a slot of
\* the channel, gets its turn: the runtime polls woken tasks in turn and the channel's
\* semaphore serves its waiters first come, first served.  The kernel completes a
\* SIGKILL.  Clients, probes and processes owe nothing.
Fairness ==
    /\ WF_vars(MainLoop)
    /\ SF_vars(ReadSignal)
    /\ SF_vars(ForwardSignal)
    /\ \A n \in Names : SF_vars(TimerFires(n))
    /\ \A p \in Pids : WF_vars(proc[p] = "dying" /\ Die(p))

\* An endless stream of dying orphans could keep the waitpid loop from ending, and
\* an endless stream of SIGTERMs could keep SIGCHLD, which has the higher number,
\* from being read.  The outside world sends finitely many of each.
WorldSettles == <>[][~StopContainer /\ \A p \in Pids : ~OrphanDies(p)]_vars

FairSpec == Spec /\ Fairness /\ WorldSettles

-----------------------------------------------------------------------------
(* Properties.                                                             *)

\* A service that names a process names one the kernel still has (running, or a
\* zombie waitpid has not returned), no two services name the same one, and every
\* live process is some service's.  Hence kill_process_group never hits a reused
\* pid nor the "process to exist" panic of ServiceProcess::send_signal, and no
\* service is forgotten while its main process runs.
ProcessesAccountedFor ==
    /\ \A n \in Names : HasProcess(status[n]) => proc[status[n].pid] # "free"
    /\ \A m, n \in Names :
          HasProcess(status[m]) /\ HasProcess(status[n]) /\ m # n
            => status[m].pid # status[n].pid
    /\ \A p \in Pids :
          proc[p] \in Alive
            => \E n \in Names : HasProcess(status[n]) /\ status[n].pid = p

\* A zombie is never forgotten although pending SIGCHLDs coalesce into one: while
\* there is one, a SIGCHLD is pending, in the reader's hand or in the channel, or
\* the waitpid loop of handle_signal is still running.
ZombieWillBeReaped ==
    (\E p \in Pids : proc[p] = "zombie")
      => \/ "SIGCHLD" \in pending \cup inhand
         \/ InQueue(Signal("SIGCHLD"))
         \/ main \in {"reap", "hung"}

\* At most one probe task per service, held by its AbortHandle, and only while a
\* service configured with a probe is Running: freeze, stop, exit, prune and restart
\* all end it, thaw and start never leave a second one behind.
ProbesFollowRunning ==
    \A n \in Names :
        /\ "leaked" \notin probe[n]
        /\ probe[n] # {} => status[n].kind = "Running" /\ config[n].liveness

\* The placeholder mem::replace leaves behind never outlives a handler: every other
\* handler would panic on it (the unreachable!() of services.rs).
NoDummyStatus == \A n \in Names : status[n].kind # "Dummy"

\* A graceful-termination task that has not fired belongs to the termination its
\* service is in: one that is reaped, pruned or restarted leaves no task behind.
TimersFollowStopping ==
    \A t \in timers :
        /\ status[t.name].kind = "Stopping"
        /\ status[t.name].kill = {t.token}

\* Once stop_all_services has passed a service, it is idle or stopping for good: no
\* request or probe that is still in the channel brings a process back or schedules
\* a restart, which start_service would refuse and shutdown_complete wait for.
ShutdownStopsAll ==
    shutdown =>
        \A n \in Names \ todo :
            /\ status[n].kind \notin {"Running", "Frozen"}
            /\ status[n].kind = "Stopping" => status[n].after \notin Restarts

\* A handled event: the loop has taken e from the channel in this step.
Handled(e) ==
    /\ main = "recv"
    /\ main' # "recv"
    /\ e = Head(queue)

\* force_kill_service never cuts a grace period short: a ForceKillService that was
\* already in the channel when its process died does not kill the next incarnation
\* of the service while that one's own timer runs.
GraceRespected ==
    [][ \A n \in Names, k \in Tokens : Handled(ForceKill(n, k)) =>
          \A t \in timers :
             HasProcess(status[t.name]) =>
               proc'[status[t.name].pid] = proc[status[t.name].pid] ]_vars

\* What was asked of a stopping service is what happens to it: it stays in this
\* termination of this process until it is reaped, a prune is final, a failed probe
\* does not turn a stop into a restart, and it ends as its after_stop says.
PendingOutcomeHonoured ==
    [][ \A n \in Names : status[n].kind = "Stopping" =>
          LET s == status[n]
              t == status'[n]
          IN \/ /\ t.kind = "Stopping"
                /\ t.pid = s.pid
                /\ s.after = "Prune" => t.after = "Prune"
                /\ t.after = "RestartAuto" => s.after = "RestartAuto"
             \/ s.after = "Stop" /\ t.kind = "Stopped"
             \/ s.after = "Prune" /\ t.kind = "Absent"
             \/ s.after \in Restarts /\ t.kind \in {"Running", "Error"} ]_vars

\* Clients see every service go through the life cycle of Lifecycle and nothing else,
\* whatever order events are handled in: every handler's changes of status are steps
\* of it, so that no one sees a pruned service stop, a stopped one exit, or the
\* placeholder of mem::replace.
ImplementsLifecycle ==
    /\ \A n \in Names : Life(n)!Init
    /\ [][\A n \in Names : [Life(n)!Next]_(ApiStatus(status[n]))]_vars

\* A request changes neither the bootstrap service nor another user's: not its entry
\* in the table, not its configuration, not its process.
OwnershipRespected ==
    [][ \A r \in Requests : Handled(Command(r)) =>
          \A n \in Names :
             status[n] # Absent /\ (n = Bootstrap \/ r.uid \notin {Root, config[n].owner})
               => /\ status'[n] = status[n]
                  /\ config'[n] = config[n]
                  /\ HasProcess(status[n]) =>
                       proc'[status[n].pid] = proc[status[n].pid] ]_vars

\* The loop stops for good: for the mutex of a log, which a client that follows the log
\* and does not read keeps locked, or in a start that does not return.
LoopBlocked == <>[](main \in {"log", "hung"})

\* A termination ends: the process is reaped whatever it does with SIGTERM, because
\* the escalation to SIGKILL survives merges, a full channel, stale events and the
\* loop's waiting for logs, unless the loop is blocked for good.
StopCompletes ==
    LoopBlocked
      \/ \A n \in Names :
            status[n].kind = "Stopping" ~> (status[n].kind # "Stopping" \/ main = "exited")

\* Once the container runtime has asked, beam-init exits, whatever requests clients
\* send and whatever services do, unless the loop is blocked for good.
ShutdownCompletes == LoopBlocked \/ (("SIGTERM" \in pending) ~> (main = "exited"))

\* Automatic restarts yield to the user (the rule AfterStop::merge states): a failed
\* probe does not start a service the user stopped, nor kill one the user froze.
AutomaticRestartYields ==
    [][ \A n \in Names : 
          Handled(ProbeFailed(n)) /\ status[n].kind \in {"Stopped", "Frozen"}
            => status'[n] = status[n] ]_vars

\* A Frozen service is paused (beam-init-api's ServiceStatus).
FrozenIsPaused ==
    \A n \in Names :
        status[n].kind = "Frozen" => proc[status[n].pid] # "running"
=============================================================================
