--------------------------- MODULE LivenessProbe ----------------------------
(***************************************************************************)
(* run_liveness_probe of services.rs: the task that asks a service's       *)
(* endpoint, counts consecutive failures and requests a restart or gives   *)
(* up.  It can be aborted at every await: while it sleeps or asks, while   *)
(* it logs and while it waits for room in the channel of the main loop.    *)
(***************************************************************************)
EXTENDS Naturals, Sequences, SequencesExt, FiniteSetsExt

CONSTANTS
    Probes,     \* the Probe configurations: failure_threshold and max_retries
    QueueSize   \* reports the channel of the main loop has room for

ASSUME ProbeAssumption ==
    /\ Probes \subseteq [threshold : Nat, retries : Nat]
    /\ QueueSize \in Nat \ {0}

VARIABLES
    liveness, \* ServiceConfig::liveness
    task,     \* where the task is
    failures, \* consecutive_failures
    reports,  \* ProbeFailed events in the channel
    answers   \* the task's last max_retries + 1 answers (history)

probeVars == <<liveness, task, failures, reports, answers>>

ProbeTypeOK ==
    /\ liveness \in Probes
    /\ task \in {"none", "asking", "failed", "exhausted", "exceeded"}
    /\ failures \in 0..liveness.retries + 1
    /\ reports \in 0..QueueSize
    /\ answers \in Seq(BOOLEAN)
    /\ Len(answers) <= liveness.retries + 1

\* spawn_liveness_probe: a new task counts from zero.
StartProbe ==
    /\ task' = "asking"
    /\ failures' = 0
    /\ answers' = <<>>

\* abort_liveness_probe: what the task has not sent yet is never sent.
AbortTask ==
    /\ task' = "none"
    /\ failures' = 0
    /\ answers' = <<>>

Remember(h) ==
    answers' = IF Len(answers) <= liveness.retries THEN Append(answers, h)
               ELSE Append(Tail(answers), h)

\* Mutant of Ask: failures are counted, not consecutive ones.
AskNoReset(h) ==
    /\ task = "asking"
    /\ Remember(h)
    /\ IF h THEN UNCHANGED <<task, failures>>
       ELSE /\ failures' = failures + 1
            /\ task' = "failed"
    /\ UNCHANGED <<liveness, reports>>

\* A sleep (initial_delay or period) and a request; no answer in time is a failure.
Ask(h) ==
    /\ task = "asking"
    /\ Remember(h)
    /\ IF h THEN failures' = 0 /\ UNCHANGED task
       ELSE /\ failures' = failures + 1
            /\ task' = "failed"
    /\ UNCHANGED <<liveness, reports>>

\* Mutant of Judge: one failure more than the threshold.
JudgeLate ==
    /\ task = "failed"
    /\ task' = CASE failures > liveness.retries -> "exceeded"
                 [] failures <= liveness.retries /\ failures > liveness.threshold -> "exhausted"
                 [] OTHER -> "asking"
    /\ UNCHANGED <<liveness, failures, reports, answers>>

\* The failure is logged; max_retries is compared before failure_threshold.
Judge ==
    /\ task = "failed"
    /\ task' = CASE failures > liveness.retries -> "exceeded"
                 [] failures <= liveness.retries /\ failures >= liveness.threshold -> "exhausted"
                 [] OTHER -> "asking"
    /\ UNCHANGED <<liveness, failures, reports, answers>>

\* The restart is logged, ProbeFailed is sent, the task returns.
Report ==
    /\ task = "exhausted"
    /\ reports < QueueSize
    /\ reports' = reports + 1
    /\ AbortTask
    /\ UNCHANGED liveness

\* The task logs and returns without a report.
GiveUp ==
    /\ task = "exceeded"
    /\ AbortTask
    /\ UNCHANGED <<liveness, reports>>

ProbeInit ==
    /\ liveness \in Probes
    /\ task = "none"
    /\ failures = 0
    /\ reports = 0
    /\ answers = <<>>

-----------------------------------------------------------------------------
(* Properties.                                                             *)

\* The number of failed answers the task has had in a row.
Streak == Max({k \in 0..Len(answers) :
                 \A i \in Len(answers) - k + 1..Len(answers) : ~answers[i]})

\* A threshold of zero asks for a failure all the same.
Required == Max({1, liveness.threshold})

\* The task requests a restart on the failure_threshold-th failure in a row, neither
\* before nor after, and it stops without a request exactly when max_retries lets it not
\* see that many: for every pair of the two numbers, zeros included (services.rs 988, 998).
VerdictIsRight ==
    /\ task = "exhausted" => Streak = Required
    /\ task = "exceeded" => Streak = liveness.retries + 1 /\ Required > liveness.retries
    /\ task = "asking" => Streak < Required /\ Streak <= liveness.retries
=============================================================================
