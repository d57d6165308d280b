----------------------------- MODULE Lifecycle ------------------------------
(***************************************************************************)
(* What show, list and wait tell a client about one service over time: the *)
(* life cycle behind beam-init-api's ServiceStatus.  ServiceManager, with  *)
(* its processes, signals, timers and queued events, is shown to implement *)
(* it for every service; StatusBroadcast is driven by it.                  *)
(***************************************************************************)

VARIABLE view \* the status a client would be told now

Outcomes == {"Stop", "Prune", "Restart"} \* Stopping's prune and will_restart
Kinds == {"Stopped", "Running", "Frozen", "Stopping", "Exited", "Error"}

Plain(k) == [kind |-> k]
StoppingTo(o) == [kind |-> "Stopping", after |-> o]
Absent == Plain("Absent") \* the service is not in the table

Views == {Plain(k) : k \in (Kinds \ {"Stopping"}) \cup {"Absent"}}
           \cup {StoppingTo(o) : o \in Outcomes}

Started == {Plain("Running"), Plain("Error")}
Idle == {Plain("Stopped"), Plain("Exited"), Plain("Error")}

\* The statuses that may follow s.
Follow(s) ==
    CASE s = Absent -> Started
      [] s = Plain("Running") ->
           {Plain("Frozen"), Plain("Exited")} \cup {StoppingTo(o) : o \in Outcomes}
      [] s = Plain("Frozen") ->
           {Plain("Running"), Plain("Exited")} \cup {StoppingTo(o) : o \in Outcomes}
      [] s \in Idle -> Started \cup {Absent}
      [] s = StoppingTo("Stop") -> {StoppingTo("Restart"), StoppingTo("Prune"), Plain("Stopped")}
      [] s = StoppingTo("Restart") -> {StoppingTo("Stop"), StoppingTo("Prune")} \cup Started
      [] s = StoppingTo("Prune") -> {Absent}

Init == view = Absent
Next == view' \in Follow(view)

Spec == Init /\ [][Next]_view
=============================================================================
