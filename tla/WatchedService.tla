--------------------------- MODULE WatchedService ---------------------------
(***************************************************************************)
(* One service with a liveness probe and clients that wait for it: the     *)
(* status decides when the probe runs, the probe's report changes the      *)
(* status, and every change is published (StatusBroadcast, LivenessProbe). *)
(***************************************************************************)
EXTENDS StatusBroadcast, LivenessProbe

VARIABLE healthy \* what the service's endpoint answers

watchedVars == <<broadcastVars, probeVars, healthy>>

WatchedTypeOK ==
    /\ BroadcastTypeOK
    /\ ProbeTypeOK
    /\ healthy \in BOOLEAN
    /\ task # "none" => view.kind = "Running"

\* Mutants of ProbeFollows: the probe outlives the process; a thawed service is no
\* longer probed.
ProbeFollowsNoAbort(s) ==
    IF s.kind = "Running" /\ view.kind # "Running" THEN StartProbe
    ELSE UNCHANGED <<task, failures, answers>>
ProbeFollowsStart(s) ==
    CASE s.kind = "Running" /\ view.kind \notin {"Running", "Frozen"} -> StartProbe
      [] s.kind # "Running" /\ view.kind = "Running" -> AbortTask
      [] OTHER -> UNCHANGED <<task, failures, answers>>

\* start_service and thaw_service start the probe; freeze_service, handle_signal and
\* terminate_service_inner abort it.
ProbeFollows(s) ==
    CASE s.kind = "Running" /\ view.kind # "Running" -> StartProbe
      [] s.kind # "Running" /\ view.kind = "Running" -> AbortTask
      [] OTHER -> UNCHANGED <<task, failures, answers>>

\* A handler of the main loop that changes the status: requests, timers, signals.
ChangeStatus(s) ==
    /\ SetStatus(s)
    /\ ProbeFollows(s)
    /\ UNCHANGED <<liveness, reports, healthy>>

CreateService(s) ==
    /\ Create(s)
    /\ ProbeFollows(s)
    /\ liveness' \in Probes
    /\ UNCHANGED <<reports, healthy>>

PruneService ==
    /\ Prune
    /\ UNCHANGED <<probeVars, healthy>>

\* The main loop handles ProbeFailed: stop_service_cmd with Restart(Automatic).  Only
\* the name is known: the service may have ended or even have been pruned since.
HandleReport ==
    /\ reports > 0
    /\ reports' = reports - 1
    /\ UNCHANGED <<liveness, healthy>>
    /\ \/ /\ view.kind \in {"Running", "Frozen"}
          /\ SetStatus(StoppingTo("Restart"))
          /\ ProbeFollows(StoppingTo("Restart"))
       \/ /\ view.kind = "Stopping"
          /\ SetStatus(view)
          /\ ProbeFollows(view)
       \/ /\ view \in Idle
          /\ \E s \in Started : SetStatus(s) /\ ProbeFollows(s)
       \/ /\ view = Absent
          /\ UNCHANGED <<broadcastVars, task, failures, answers>>

\* The service gets better or worse.
EndpointChanges ==
    /\ healthy' = ~healthy
    /\ UNCHANGED <<broadcastVars, probeVars>>

ProbeStep == (Ask(healthy) \/ Judge \/ Report \/ GiveUp) /\ UNCHANGED <<broadcastVars, healthy>>
WaitStep(w) == (RequestWait(w) \/ Subscribe(w) \/ Refuse(w) \/ Poll(w) \/ Leave(w))
                 /\ UNCHANGED <<probeVars, healthy>>

WatchedInit == BroadcastInit /\ ProbeInit /\ healthy = TRUE

WatchedNext ==
    \/ \E s \in Views : ChangeStatus(s) \/ CreateService(s)
    \/ PruneService
    \/ HandleReport
    \/ EndpointChanges
    \/ ProbeStep
    \/ \E w \in Waiters : WaitStep(w)

WatchedSpec == WatchedInit /\ [][WatchedNext]_watchedVars

\* Tasks that can go on are polled and the main loop handles what is in its channel, so
\* what follows from it is said of a program in which neither waits for ever for the mutex
\* of a log (Logs) or for a start (Spawn).  Users, services and clients owe nothing.
FairSpec ==
    /\ WatchedSpec
    /\ WF_watchedVars(HandleReport)
    /\ WF_watchedVars(ProbeStep)
    /\ \A w \in Waiters : WF_watchedVars(Poll(w) /\ UNCHANGED <<probeVars, healthy>>)
    /\ \A w \in Waiters : WF_watchedVars(Subscribe(w) /\ UNCHANGED <<probeVars, healthy>>)

-----------------------------------------------------------------------------
(* Properties.                                                             *)

\* A service that fails its probes for ever does not stay Running for ever, however it is
\* frozen, thawed and restarted in between, provided max_retries lets the probe see
\* failure_threshold failures.
UnhealthyDoesNotRun ==
    ~<>[](view.kind = "Running" /\ ~healthy /\ Required <= liveness.retries)
=============================================================================
