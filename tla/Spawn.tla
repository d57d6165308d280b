------------------------------- MODULE Spawn --------------------------------
(***************************************************************************)
(* How one service is started and, when it has a pty, signalled (spawn.rs):*)
(* beam-init forks a middle process, which forks the service.  Without a   *)
(* pty the middle process reports the service's pid and exits; with one it *)
(* stays as the monitor that takes commands from beam-init.  They speak    *)
(* through pipes: the exec error, the pid, monitor commands and their      *)
(* acknowledgements, and a barrier.  A read of a pipe returns end of file  *)
(* only when every process that holds its write end has closed it, so the  *)
(* model keeps who holds which end.                                        *)
(***************************************************************************)
EXTENDS Integers, FiniteSets

CONSTANT Failures \* which steps may fail: "fork", "mid", "svc", "exec", and "leave": the
                  \* service leaves the process group it was given

VARIABLES
    pty,     \* the service has a pty, so that a monitor is used
    parent,  \* beam-init, in spawn_service and in MonitorCommandSender::send
    mid,     \* the middle process
    svc,     \* the service
    writers, \* writers[f]: the processes that hold the write end of pipe f
    errno,   \* the exec error is in its pipe
    pid,     \* the pid in its pipe, as a set
    cmd,     \* the command byte in its pipe, as a set
    ack,     \* the acknowledgement is in its pipe
    child    \* the pid spawn_service returned

vars == <<pty, parent, mid, svc, writers, errno, pid, cmd, ack, child>>

ASSUME SpawnAssumption == Failures \subseteq {"fork", "mid", "svc", "exec", "leave"}

Pipes == {"err", "pid", "cmd", "ack", "pgid"}
Processes == {"parent", "mid", "svc"}

Commands == {"SIGSTOP", "SIGCONT", "SIGTERM", "SIGKILL", "Foreground", "Background"}

\* Mutant of Ser: -1 is not narrowed to a byte.
SerWide(c) == IF c = "Foreground" THEN 65535 ELSE 15

\* MonitorCommand on the wire: a signal is its number, the others are -1 and -2 as
\* a byte, which the monitor reads as a signed one.
Number == [SIGSTOP |-> 19, SIGCONT |-> 18, SIGTERM |-> 15, SIGKILL |-> 9]
Ser(c) ==
    LET i == CASE c = "Foreground" -> -1 [] c = "Background" -> -2 [] OTHER -> Number[c]
    IN  IF i < 0 THEN i + 256 ELSE i
De(b) ==
    LET signed == IF b < 128 THEN b ELSE b - 256
    IN  CASE signed = -1 -> "Foreground"
          [] signed = -2 -> "Background"
          [] OTHER -> CHOOSE c \in DOMAIN Number : Number[c] = signed

TypeOK ==
    /\ pty \in BOOLEAN
    /\ parent \in {"fork", "readErr", "readPid", "ok", "ack", "failed", "dead"}
    /\ mid \in {"none", "setup", "forked", "barrier", "poll", "dead"}
    /\ svc \in {"none", "setup", "grouped", "execFailed", "running", "stopped", "away", "dying", "dead"}
    /\ writers \in [Pipes -> SUBSET Processes]
    /\ errno \in BOOLEAN
    /\ pid \in SUBSET {"mid", "svc"}
    /\ cmd \in SUBSET (0..255)
    /\ ack \in BOOLEAN
    /\ child \in {"none", "mid", "svc"}

\* The write ends left when process p dies or closes its own.
Without(p) == [f \in Pipes |-> writers[f] \ {p}]

-----------------------------------------------------------------------------
(* beam-init.                                                              *)

\* Who holds the write ends once the parent has dropped err_tx and monitor_sync_tx
\* and the middle process monitor_tx.  The parent keeps pid_tx and the barrier's.
AfterFork(f) == CASE f = "err" -> {"mid"}
                  [] f = "pid" -> {"parent", "mid"}
                  [] f = "cmd" -> {"parent"}
                  [] f = "ack" -> {"mid"}
                  [] f = "pgid" -> {"parent", "mid"}

Fork ==
    /\ parent = "fork"
    /\ parent' = "readErr"
    /\ mid' = "setup"
    /\ writers' = [f \in Pipes |-> AfterFork(f)]
    /\ UNCHANGED <<pty, svc, errno, pid, cmd, ack, child>>

\* spawn_service returns an error, and drops what it holds.
SpawnFails ==
    /\ \/ parent = "fork" /\ "fork" \in Failures
       \/ parent = "readErr" /\ errno
       \/ parent = "readPid" /\ pid = {} /\ writers["pid"] = {}
    /\ parent' = "failed"
    /\ writers' = Without("parent")
    /\ UNCHANGED <<pty, mid, svc, errno, pid, cmd, ack, child>>

\* Mutant of ErrPipeClosed: the pid is read without waiting for the exec.
ErrPipeNotAwaited ==
    /\ parent = "readErr"
    /\ ~errno
    /\ parent' = "readPid"
    /\ UNCHANGED <<pty, mid, svc, writers, errno, pid, cmd, ack, child>>

ErrPipeClosed ==
    /\ parent = "readErr"
    /\ ~errno
    /\ writers["err"] = {}
    /\ parent' = "readPid"
    /\ UNCHANGED <<pty, mid, svc, writers, errno, pid, cmd, ack, child>>

\* It returns Ok; the command pipe is kept only for a monitor.
SpawnReturnsOk ==
    /\ parent = "readPid"
    /\ \E p \in pid : child' = p
    /\ pid' = {}
    /\ parent' = "ok"
    /\ writers' = [Without("parent") EXCEPT !["cmd"] = IF pty THEN {"parent"} ELSE {}]
    /\ UNCHANGED <<pty, mid, svc, errno, cmd, ack>>

\* MonitorCommandSender::send: the write fails when no reader is left, which counts
\* as success.  A process that has not reached exec still has the read end.
SendCommand(c) ==
    /\ pty
    /\ parent = "ok"
    /\ mid # "dead"
    /\ cmd' = {Ser(c)}
    /\ parent' = "ack"
    /\ UNCHANGED <<pty, mid, svc, writers, errno, pid, ack, child>>

\* Then it waits for the acknowledgement, or for the end of the monitor.
Acknowledged ==
    /\ parent = "ack"
    /\ ack \/ writers["ack"] = {}
    /\ ack' = FALSE
    /\ parent' = "ok"
    /\ UNCHANGED <<pty, mid, svc, writers, errno, pid, cmd, child>>

ParentDies ==
    /\ parent \notin {"fork", "failed", "dead"}
    /\ parent' = "dead"
    /\ writers' = Without("parent")
    /\ UNCHANGED <<pty, mid, svc, errno, pid, cmd, ack, child>>

-----------------------------------------------------------------------------
(* The middle process.                                                     *)

\* One of the steps up to its fork fails (setsid, the pty, signalfd, fork): _exit(101).
MidFails ==
    /\ mid = "setup"
    /\ "mid" \in Failures
    /\ mid' = "dead"
    /\ writers' = Without("mid")
    /\ UNCHANGED <<pty, parent, svc, errno, pid, cmd, ack, child>>

\* The service inherits every end; the middle process then drops err_tx and
\* pgid_sync_tx.
MidForks ==
    /\ mid = "setup"
    /\ mid' = "forked"
    /\ svc' = "setup"
    /\ writers' = [f \in Pipes |->
                     (IF "mid" \in writers[f] THEN writers[f] \cup {"svc"} ELSE writers[f])
                       \ (IF f \in {"err", "pgid"} THEN {"mid"} ELSE {})]
    /\ UNCHANGED <<pty, parent, errno, pid, cmd, ack, child>>

\* Mutant of MidMayReport: the pid is written behind the barrier.
MidMayReportLate == mid = "forked" /\ (pty => writers["pgid"] = {})

MidMayReport == mid = "forked"

\* Without a pty the service's pid, and _exit(0); with one the monitor's own.
MidReports ==
    /\ MidMayReport
    /\ pid' = {IF pty THEN "mid" ELSE "svc"}
    /\ mid' = IF pty THEN "barrier" ELSE "dead"
    /\ writers' = IF pty THEN writers ELSE Without("mid")
    /\ UNCHANGED <<pty, parent, svc, errno, cmd, ack, child>>

\* Mutant of PassBarrier: no barrier.
SkipBarrier ==
    /\ mid = "barrier"
    /\ mid' = "poll"
    /\ UNCHANGED <<pty, parent, svc, writers, errno, pid, cmd, ack, child>>

\* ipc_barrier: wait() returns when all writers are gone.
PassBarrier ==
    /\ mid = "barrier"
    /\ writers["pgid"] = {}
    /\ mid' = "poll"
    /\ UNCHANGED <<pty, parent, svc, writers, errno, pid, cmd, ack, child>>

\* The states killpg(service_pid, sig) can leave the service in; a zombie still
\* counts as its group.
Delivered(c) ==
    CASE c = "SIGKILL" /\ svc \in {"running", "stopped"} -> {"dying"}
      [] c = "SIGSTOP" /\ svc = "running" -> {"stopped"}
      [] c = "Background" /\ svc = "running" -> {"stopped", "running"}
      [] c \in {"SIGCONT", "Foreground"} /\ svc = "stopped" -> {"running"}
      [] OTHER -> {svc}

\* Mutant of MonitorFails: the error is ignored together with the acknowledgement.
MonitorFailsSilently ==
    /\ mid = "poll"
    /\ svc = "away"
    /\ cmd # {}
    /\ cmd' = {}
    /\ UNCHANGED <<pty, parent, mid, svc, writers, errno, pid, ack, child>>

\* killpg finds nobody: every command needs it and expect_no_panic ends the monitor
\* with _exit(101), which closes the acknowledgements.
MonitorFails ==
    /\ mid = "poll"
    /\ svc = "away"
    /\ cmd # {}
    /\ cmd' = {}
    /\ mid' = "dead"
    /\ writers' = Without("mid")
    /\ UNCHANGED <<pty, parent, svc, errno, pid, ack, child>>

\* Mutants of MonitorExecutes: no acknowledgement; one before the command is executed.
MonitorNeverAcks ==
    /\ mid = "poll"
    /\ \E b \in cmd : svc' \in Delivered(De(b))
    /\ cmd' = {}
    /\ UNCHANGED <<pty, parent, mid, writers, errno, pid, ack, child>>
MonitorAcksFirst ==
    /\ mid = "poll"
    /\ cmd # {}
    /\ \/ ~ack /\ ack' = TRUE /\ UNCHANGED <<pty, cmd, svc>>
       \/ ack /\ cmd' = {} /\ (\E b \in cmd : svc' \in Delivered(De(b))) /\ UNCHANGED ack
    /\ UNCHANGED <<pty, parent, mid, writers, errno, pid, child>>

MonitorExecutes ==
    /\ mid = "poll"
    /\ svc # "away"
    /\ \E b \in cmd : svc' \in Delivered(De(b))
    /\ cmd' = {}
    /\ ack' = TRUE
    /\ UNCHANGED <<pty, parent, mid, writers, errno, pid, child>>

\* beam-init died while it waited for the acknowledgement: the write of it fails when
\* nobody holds the read end any more (a later monitor may have inherited it), and
\* the monitor is gone with _exit(101) before it looks at POLLHUP.
MonitorAckFails ==
    /\ mid = "poll"
    /\ svc # "away"
    /\ parent = "dead"
    /\ \E b \in cmd : svc' \in Delivered(De(b))
    /\ cmd' = {}
    /\ mid' = "dead"
    /\ writers' = Without("mid")
    /\ UNCHANGED <<pty, parent, errno, pid, ack, child>>

\* Mutants of MonitorHup: POLLHUP is ignored; the monitor exits on it.
MonitorIgnoresHup == FALSE /\ UNCHANGED vars
MonitorQuits ==
    /\ mid = "poll"
    /\ writers["cmd"] = {}
    /\ mid' = "dead"
    /\ writers' = Without("mid")
    /\ UNCHANGED <<pty, parent, svc, errno, pid, cmd, ack, child>>

\* Nobody can send commands any more: beam-init is gone, or gave up on the service.
\* Here an error of killpg is ignored.
MonitorHup ==
    /\ mid = "poll"
    /\ writers["cmd"] = {}
    /\ svc' \in Delivered("SIGKILL")
    /\ UNCHANGED <<pty, parent, mid, writers, errno, pid, cmd, ack, child>>

\* SIGCHLD for the service: the monitor exits as the service did.
MonitorExits ==
    /\ mid = "poll"
    /\ svc = "dead"
    /\ mid' = "dead"
    /\ writers' = Without("mid")
    /\ UNCHANGED <<pty, parent, svc, errno, pid, cmd, ack, child>>

-----------------------------------------------------------------------------
(* The service.                                                            *)

\* setpgid is done, and the barrier's end dropped.
JoinGroup ==
    /\ svc = "setup"
    /\ svc' = "grouped"
    /\ writers' = [writers EXCEPT !["pgid"] = @ \ {"svc"}]
    /\ UNCHANGED <<pty, parent, mid, errno, pid, cmd, ack, child>>

\* setpgid, the limits or the credentials fail: _exit(101) without an errno.
SvcFails ==
    /\ svc \in {"setup", "grouped"}
    /\ "svc" \in Failures
    /\ svc' = "dead"
    /\ writers' = Without("svc")
    /\ UNCHANGED <<pty, parent, mid, errno, pid, cmd, ack, child>>

\* Every end is closed on exec.
Exec ==
    /\ svc = "grouped"
    /\ svc' = "running"
    /\ writers' = Without("svc")
    /\ UNCHANGED <<pty, parent, mid, errno, pid, cmd, ack, child>>

ExecFails ==
    /\ svc = "grouped"
    /\ "exec" \in Failures
    /\ svc' = "execFailed"
    /\ errno' = TRUE
    /\ UNCHANGED <<pty, parent, mid, writers, pid, cmd, ack, child>>

\* The service moves to a group of its own.
SvcLeaves ==
    /\ svc = "running"
    /\ "leave" \in Failures
    /\ svc' = "away"
    /\ UNCHANGED <<pty, parent, mid, writers, errno, pid, cmd, ack, child>>

SvcExits ==
    /\ svc \in {"execFailed", "running", "stopped", "away", "dying"}
    /\ svc' = "dead"
    /\ writers' = Without("svc")
    /\ UNCHANGED <<pty, parent, mid, errno, pid, cmd, ack, child>>

Quiet ==
    /\ parent \in {"failed", "dead", "ok"}
    /\ mid \in {"none", "dead"}
    /\ UNCHANGED vars

-----------------------------------------------------------------------------
Init ==
    /\ pty \in BOOLEAN
    /\ parent = "fork"
    /\ mid = "none"
    /\ svc = "none"
    /\ writers = [f \in Pipes |-> {"parent"}]
    /\ errno = FALSE
    /\ pid = {}
    /\ cmd = {}
    /\ ack = FALSE
    /\ child = "none"

ParentSteps == Fork \/ SpawnFails \/ ErrPipeClosed \/ SpawnReturnsOk \/ Acknowledged
MidSteps ==
    \/ MidFails \/ MidForks \/ MidReports \/ PassBarrier
    \/ MonitorExecutes \/ MonitorFails \/ MonitorAckFails \/ MonitorExits
SvcSteps == JoinGroup \/ SvcFails \/ Exec \/ ExecFails

Next ==
    \/ ParentSteps
    \/ \E c \in Commands : SendCommand(c)
    \/ ParentDies
    \/ MidSteps
    \/ MonitorHup
    \/ SvcSteps
    \/ SvcLeaves
    \/ SvcExits
    \/ Quiet

Spec == Init /\ [][Next]_vars

\* Every process runs.  A service may run for ever, unless it failed to exec or was
\* killed.
Fairness ==
    /\ WF_vars(ParentSteps)
    /\ WF_vars(MidSteps)
    /\ WF_vars(MonitorHup)
    /\ WF_vars(SvcSteps)
    /\ WF_vars(svc \in {"execFailed", "dying"} /\ SvcExits)

FairSpec == Spec /\ Fairness

-----------------------------------------------------------------------------
(* Properties.                                                             *)

\* start_service trusts the result: Ok means the program was executed, or died on
\* the way to it, and the pid is one beam-init will get SIGCHLD for; an error means
\* that no program runs that nobody knows about.
ResultIsTrue ==
    /\ parent \in {"ok", "ack"} =>
         /\ svc \in {"running", "stopped", "away", "dying", "dead"}
         /\ child = IF pty THEN "mid" ELSE "svc"
    /\ parent = "failed" => svc \in {"none", "execFailed", "dead"}

\* A command is over when send returns ("Wait for command completion"): it is not
\* executed later, nor is its acknowledgement left for the next one to take.
CommandsComplete ==
    parent = "ok" /\ mid # "dead" => cmd = {} /\ ~ack

\* The monitor handles commands only when the group they are for exists.
BarrierHolds == mid = "poll" => svc # "setup"

\* The monitor, whose exit beam-init reports as the service's, outlives the service
\* as long as there is a beam-init to report it, unless the service left its group.
MonitorOutlivesService ==
    pty /\ mid = "dead" /\ parent # "dead" => svc \in {"none", "away", "dead"}

Spawned == parent \notin {"fork", "readErr", "readPid"}

\* spawn_service returns: it runs on the main loop, so nothing else would run.
SpawnReturns == <>Spawned

\* It returns once the service is forked, whichever step of the service fails: nobody
\* waits for a pipe end the waiter's peer, or the waiter, holds.
ForkedSpawnReturns == (mid = "forked") ~> Spawned

\* send returns, for the same reason, whatever happens to monitor and service.
SendReturns == (parent = "ack") ~> (parent # "ack")

\* When beam-init dies or gives up, the monitor takes the service down with it, unless
\* it was in the middle of a command (MonitorAckFails) or the service left its group.
NoServiceLeftBehind ==
    (pty /\ parent \in {"failed", "dead"} /\ mid # "dead" /\ cmd = {})
      ~> \/ mid \in {"none", "dead"} /\ svc \in {"none", "dead"}
         \/ svc = "away"
=============================================================================
