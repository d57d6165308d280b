---------------------------- MODULE SpawnProofs -----------------------------
(***************************************************************************)
(* Proofs, for every set of failures, of the type invariant and the safety *)
(* properties of Spawn.  They rest on one observation about the pipes: who *)
(* holds a write end follows from where each process is in its code, so    *)
(* that an end of file tells the reader how far the others have come.      *)
(***************************************************************************)
EXTENDS Spawn, TLAPS

-----------------------------------------------------------------------------
(* The inductive invariant.                                                *)

\* The write ends each process holds, by where it is.
ParentEnds ==
    CASE parent = "fork" -> Pipes
      [] parent \in {"readErr", "readPid"} -> {"pid", "cmd", "pgid"}
      [] parent \in {"ok", "ack"} -> IF pty THEN {"cmd"} ELSE {}
      [] OTHER -> {}
MidEnds ==
    CASE mid = "setup" -> {"err", "pid", "ack", "pgid"}
      [] mid \in {"forked", "barrier", "poll"} -> {"pid", "ack"}
      [] OTHER -> {}
SvcEnds ==
    CASE svc = "setup" -> {"err", "pid", "ack", "pgid"}
      [] svc \in {"grouped", "execFailed"} -> {"err", "pid", "ack"}
      [] OTHER -> {}

\* A write end is open in exactly the processes that have not come to close it.
EndsFollowCode ==
    \A f \in Pipes :
        /\ "parent" \in writers[f] <=> f \in ParentEnds
        /\ "mid" \in writers[f] <=> f \in MidEnds
        /\ "svc" \in writers[f] <=> f \in SvcEnds

\* Which steps of one process come after which steps of another.
StepsOrdered ==
    /\ parent = "fork" => mid = "none"
    /\ mid = "none" => parent \in {"fork", "failed"}
    /\ mid \in {"none", "setup"} => svc = "none"
    /\ mid \in {"forked", "barrier", "poll"} => svc # "none"
    /\ mid \in {"barrier", "poll"} => pty
    /\ mid = "poll" => svc # "setup"
    /\ errno => svc \in {"execFailed", "dead"}
    /\ svc = "execFailed" => errno

\* What beam-init knows once it has read the end of the error pipe.
ExecIsOver ==
    parent \in {"readPid", "ok", "ack"} =>
        /\ ~errno
        /\ mid # "setup"
        /\ svc \notin {"setup", "grouped", "execFailed"}

\* The pid that is reported is the one of the process beam-init will have to wait for.
PidIsRight ==
    /\ pid # {} => /\ pid = {IF pty THEN "mid" ELSE "svc"}
                   /\ mid \in {"barrier", "poll", "dead"}
                   /\ svc # "none"
    /\ parent \in {"ok", "ack"} => /\ svc # "none"
                                   /\ child = IF pty THEN "mid" ELSE "svc"

\* A command is in its pipe, or its acknowledgement is, or neither and nobody waits.
OneCommand ==
    /\ parent \in {"fork", "readErr", "readPid", "failed"} => cmd = {} /\ ~ack
    /\ parent = "ok" /\ mid # "dead" => cmd = {} /\ ~ack
    /\ parent = "ack" => pty
    /\ parent = "ack" /\ mid # "dead" => (ack <=> cmd = {})

\* An error is returned before anything is forked, or because the service has failed.
FailureIsKnown ==
    parent = "failed" => mid # "setup" /\ svc \in {"none", "execFailed", "dead"}

SpawnInv ==
    /\ TypeOK
    /\ EndsFollowCode
    /\ StepsOrdered
    /\ ExecIsOver
    /\ PidIsRight
    /\ OneCommand
    /\ FailureIsKnown
    /\ MonitorOutlivesService

-----------------------------------------------------------------------------
(* Facts about the operators.                                              *)

\* A command is one byte.
LEMMA SerFacts == \A c \in Commands : Ser(c) \in 0..255
  BY DEF Commands, Ser, Number

\* The monitor decodes the command that beam-init encoded: no two commands share a byte,
\* the -1 and -2 of Foreground and Background and the signal numbers included
\* (MonitorCommand::ser and de).
THEOREM CommandRoundTrip == \A c \in Commands : De(Ser(c)) = c
  <1>1. /\ Ser("Foreground") = 255 /\ Ser("Background") = 254
        /\ Ser("SIGSTOP") = 19 /\ Ser("SIGCONT") = 18
        /\ Ser("SIGTERM") = 15 /\ Ser("SIGKILL") = 9
    BY DEF Ser, Number
  <1>2. DOMAIN Number = {"SIGSTOP", "SIGCONT", "SIGTERM", "SIGKILL"}
    BY DEF Number
  <1>3. \A c, d \in DOMAIN Number : Number[c] = Number[d] => c = d
    BY <1>2 DEF Number
  <1>4. \A c \in DOMAIN Number : De(Number[c]) = c
    BY <1>2, <1>3 DEF De, Number
  <1>5. De(255) = "Foreground" /\ De(254) = "Background"
    BY DEF De
  <1>6. QED
    BY <1>1, <1>2, <1>4, <1>5 DEF Commands, Number

\* A signal reaches a service that runs; nothing else happens to it.
LEMMA DeliveredFacts ==
    ASSUME NEW c, svc' \in Delivered(c)
    PROVE  \/ svc' = svc
           \/ svc \in {"running", "stopped"} /\ svc' \in {"running", "stopped", "dying"}
  BY DEF Delivered

\* A process that closes its ends leaves those of the others alone.
LEMMA WithoutFacts ==
    ASSUME TypeOK, NEW p \in Processes
    PROVE  /\ Without(p) \in [Pipes -> SUBSET Processes]
           /\ \A f \in Pipes, q \in Processes :
                q \in Without(p)[f] <=> q \in writers[f] /\ q # p
  BY DEF Without, TypeOK

-----------------------------------------------------------------------------
(* Every step preserves the invariant.                                     *)

\* Types: the command written is a byte, a pipe is held by processes.
LEMMA TypeStep ==
    ASSUME TypeOK, [Next]_vars
    PROVE  TypeOK'
  <1>1. CASE Fork
    BY <1>1 DEF Fork, AfterFork, TypeOK, Processes, Pipes
  <1>2. CASE SpawnFails
    BY <1>2, WithoutFacts DEF SpawnFails, TypeOK, Processes
  <1>3. CASE ErrPipeClosed
    BY <1>3 DEF ErrPipeClosed, TypeOK, Processes
  <1>4. CASE SpawnReturnsOk
    BY <1>4, WithoutFacts, ZenonT(60) DEF SpawnReturnsOk, TypeOK, Processes
  <1>5. CASE Acknowledged
    BY <1>5, ZenonT(60) DEF Acknowledged, TypeOK, Processes
  <1>6. CASE ParentDies
    BY <1>6, WithoutFacts DEF ParentDies, TypeOK, Processes
  <1>7. ASSUME NEW c \in Commands, SendCommand(c) PROVE TypeOK'
    BY <1>7, SerFacts DEF SendCommand, TypeOK, Processes
  <1>8. CASE MidFails
    BY <1>8, WithoutFacts DEF MidFails, TypeOK, Processes
  <1>9. CASE MidForks
    BY <1>9 DEF MidForks, TypeOK, Processes
  <1>10. CASE MidReports
    BY <1>10, WithoutFacts DEF MidReports, MidMayReport, TypeOK, Processes
  <1>11. CASE PassBarrier
    BY <1>11 DEF PassBarrier, TypeOK, Processes
  <1>12. CASE MonitorExecutes
    BY <1>12, DeliveredFacts DEF MonitorExecutes, TypeOK, Processes
  <1>13. CASE MonitorFails
    BY <1>13, WithoutFacts DEF MonitorFails, TypeOK, Processes
  <1>14. CASE MonitorAckFails
    BY <1>14, WithoutFacts, DeliveredFacts DEF MonitorAckFails, TypeOK, Processes
  <1>15. CASE MonitorHup
    BY <1>15, DeliveredFacts DEF MonitorHup, TypeOK, Processes
  <1>16. CASE MonitorExits
    BY <1>16, WithoutFacts DEF MonitorExits, TypeOK, Processes
  <1>17. CASE JoinGroup
    BY <1>17, ZenonT(60) DEF JoinGroup, TypeOK, Processes
  <1>18. CASE SvcFails
    BY <1>18, WithoutFacts DEF SvcFails, TypeOK, Processes
  <1>19. CASE Exec
    BY <1>19, WithoutFacts DEF Exec, TypeOK, Processes
  <1>20. CASE ExecFails
    BY <1>20 DEF ExecFails, TypeOK, Processes
  <1>21. CASE SvcLeaves
    BY <1>21 DEF SvcLeaves, TypeOK, Processes
  <1>22. CASE SvcExits
    BY <1>22, WithoutFacts DEF SvcExits, TypeOK, Processes
  <1>23. CASE UNCHANGED vars
    BY <1>23 DEF vars, TypeOK, Processes
  <1>24. QED
    BY <1>1, <1>2, <1>3, <1>4, <1>5, <1>6, <1>7, <1>8, <1>9, <1>10, <1>11,
       <1>12, <1>13, <1>14, <1>15, <1>16, <1>17, <1>18, <1>19, <1>20, <1>21, <1>22, <1>23
    DEF Next, ParentSteps, MidSteps, SvcSteps, Quiet

\* A step that moves a process on in its code closes the ends it closes there.
LEMMA EndsStep ==
    ASSUME SpawnInv, [Next]_vars
    PROVE  EndsFollowCode'
  <1> USE DEF SpawnInv, EndsFollowCode, ParentEnds, MidEnds, SvcEnds, Pipes, Processes
  <1>1. CASE Fork
    <2>1. /\ parent' = "readErr" /\ mid' = "setup" /\ svc' = "none"
          /\ \A f \in Pipes : writers'[f] = AfterFork(f)
      BY <1>1 DEF Fork, StepsOrdered
    <2>2. QED
      BY <2>1 DEF AfterFork
  <1>2. CASE SpawnFails
    BY <1>2, WithoutFacts DEF SpawnFails, TypeOK
  <1>3. CASE ErrPipeClosed
    BY <1>3 DEF ErrPipeClosed, TypeOK
  <1>4. CASE SpawnReturnsOk
    BY <1>4, WithoutFacts DEF SpawnReturnsOk, TypeOK
  <1>5. CASE Acknowledged
    BY <1>5 DEF Acknowledged, TypeOK
  <1>6. CASE ParentDies
    BY <1>6, WithoutFacts DEF ParentDies, TypeOK
  <1>7. ASSUME NEW c \in Commands, SendCommand(c) PROVE EndsFollowCode'
    BY <1>7, SerFacts DEF SendCommand, TypeOK
  <1>8. CASE MidFails
    BY <1>8, WithoutFacts DEF MidFails, TypeOK
  <1>9. CASE MidForks
    BY <1>9 DEF MidForks, TypeOK
  <1>10. CASE MidReports
    BY <1>10, WithoutFacts DEF MidReports, MidMayReport, TypeOK
  <1>11. CASE PassBarrier
    BY <1>11 DEF PassBarrier, TypeOK
  <1>12. CASE MonitorExecutes
    BY <1>12, DeliveredFacts DEF MonitorExecutes, TypeOK
  <1>13. CASE MonitorFails
    BY <1>13, WithoutFacts DEF MonitorFails, TypeOK
  <1>14. CASE MonitorAckFails
    BY <1>14, WithoutFacts, DeliveredFacts DEF MonitorAckFails, TypeOK
  <1>15. CASE MonitorHup
    BY <1>15, DeliveredFacts DEF MonitorHup, TypeOK
  <1>16. CASE MonitorExits
    BY <1>16, WithoutFacts DEF MonitorExits, TypeOK
  <1>17. CASE JoinGroup
    <2>1. /\ svc = "setup" /\ svc' = "grouped" /\ UNCHANGED <<pty, parent, mid>>
          /\ \A f \in Pipes : writers'[f] = IF f = "pgid" THEN writers[f] \ {"svc"} ELSE writers[f]
      BY <1>17 DEF JoinGroup, TypeOK
    <2>2. QED
      BY <2>1, ZenonT(60)
  <1>18. CASE SvcFails
    BY <1>18, WithoutFacts DEF SvcFails, TypeOK
  <1>19. CASE Exec
    BY <1>19, WithoutFacts DEF Exec, TypeOK
  <1>20. CASE ExecFails
    BY <1>20 DEF ExecFails, TypeOK
  <1>21. CASE SvcLeaves
    BY <1>21 DEF SvcLeaves, TypeOK
  <1>22. CASE SvcExits
    BY <1>22, WithoutFacts DEF SvcExits, TypeOK
  <1>23. CASE UNCHANGED vars
    BY <1>23 DEF vars, TypeOK
  <1>24. QED
    BY <1>1, <1>2, <1>3, <1>4, <1>5, <1>6, <1>7, <1>8, <1>9, <1>10, <1>11,
       <1>12, <1>13, <1>14, <1>15, <1>16, <1>17, <1>18, <1>19, <1>20, <1>21, <1>22, <1>23
    DEF Next, ParentSteps, MidSteps, SvcSteps, Quiet

\* The error pipe ends only when middle process and service have both closed it, and the
\* barrier only when the service has: EndsFollowCode turns the guards of ErrPipeClosed and
\* PassBarrier into facts about where the others are.
LEMMA OrderStep ==
    ASSUME SpawnInv, [Next]_vars
    PROVE  /\ StepsOrdered'
           /\ ExecIsOver'
           /\ FailureIsKnown'
  <1> USE DEF SpawnInv, EndsFollowCode, ParentEnds, MidEnds, SvcEnds, Pipes, StepsOrdered,
              ExecIsOver, FailureIsKnown, PidIsRight
  <1>1. CASE Fork
    BY <1>1 DEF Fork, AfterFork, TypeOK
  <1>2. CASE SpawnFails
    BY <1>2 DEF SpawnFails, TypeOK
  <1>3. CASE ErrPipeClosed
    BY <1>3 DEF ErrPipeClosed, TypeOK
  <1>4. CASE SpawnReturnsOk
    BY <1>4 DEF SpawnReturnsOk, TypeOK
  <1>5. CASE Acknowledged
    BY <1>5 DEF Acknowledged, TypeOK
  <1>6. CASE ParentDies
    BY <1>6 DEF ParentDies, TypeOK
  <1>7. ASSUME NEW c \in Commands, SendCommand(c)
                PROVE  StepsOrdered' /\ ExecIsOver' /\ FailureIsKnown'
    BY <1>7, SerFacts DEF SendCommand, TypeOK
  <1>8. CASE MidFails
    BY <1>8 DEF MidFails, TypeOK
  <1>9. CASE MidForks
    BY <1>9 DEF MidForks, TypeOK
  <1>10. CASE MidReports
    BY <1>10 DEF MidReports, MidMayReport, TypeOK
  <1>11. CASE PassBarrier
    BY <1>11 DEF PassBarrier, TypeOK
  <1>12. CASE MonitorExecutes
    BY <1>12, DeliveredFacts DEF MonitorExecutes, TypeOK
  <1>13. CASE MonitorFails
    BY <1>13 DEF MonitorFails, TypeOK
  <1>14. CASE MonitorAckFails
    BY <1>14, DeliveredFacts DEF MonitorAckFails, TypeOK
  <1>15. CASE MonitorHup
    BY <1>15, DeliveredFacts DEF MonitorHup, TypeOK
  <1>16. CASE MonitorExits
    BY <1>16 DEF MonitorExits, TypeOK
  <1>17. CASE JoinGroup
    BY <1>17 DEF JoinGroup, TypeOK
  <1>18. CASE SvcFails
    BY <1>18 DEF SvcFails, TypeOK
  <1>19. CASE Exec
    BY <1>19 DEF Exec, TypeOK
  <1>20. CASE ExecFails
    BY <1>20 DEF ExecFails, TypeOK
  <1>21. CASE SvcLeaves
    BY <1>21 DEF SvcLeaves, TypeOK
  <1>22. CASE SvcExits
    BY <1>22 DEF SvcExits, TypeOK
  <1>23. CASE UNCHANGED vars
    BY <1>23 DEF vars, TypeOK
  <1>24. QED
    BY <1>1, <1>2, <1>3, <1>4, <1>5, <1>6, <1>7, <1>8, <1>9, <1>10, <1>11,
       <1>12, <1>13, <1>14, <1>15, <1>16, <1>17, <1>18, <1>19, <1>20, <1>21, <1>22, <1>23
    DEF Next, ParentSteps, MidSteps, SvcSteps, Quiet

\* The pid is written once the service is forked, and read after the exec; the monitor
\* exits when the service has.
LEMMA ResultStep ==
    ASSUME SpawnInv, [Next]_vars
    PROVE  PidIsRight' /\ MonitorOutlivesService'
  <1> USE DEF SpawnInv, StepsOrdered, PidIsRight, MonitorOutlivesService
  <1>1. CASE Fork
    BY <1>1 DEF Fork, TypeOK
  <1>2. CASE SpawnFails
    BY <1>2 DEF SpawnFails, TypeOK
  <1>3. CASE ErrPipeClosed
    BY <1>3 DEF ErrPipeClosed, TypeOK
  <1>4. CASE SpawnReturnsOk
    BY <1>4 DEF SpawnReturnsOk, TypeOK
  <1>5. CASE Acknowledged
    BY <1>5 DEF Acknowledged, TypeOK
  <1>6. CASE ParentDies
    BY <1>6 DEF ParentDies, TypeOK
  <1>7. ASSUME NEW c \in Commands, SendCommand(c) PROVE PidIsRight' /\ MonitorOutlivesService'
    BY <1>7 DEF SendCommand, TypeOK
  <1>8. CASE MidFails
    BY <1>8 DEF MidFails, TypeOK
  <1>9. CASE MidForks
    BY <1>9 DEF MidForks, TypeOK
  <1>10. CASE MidReports
    BY <1>10 DEF MidReports, MidMayReport, TypeOK
  <1>11. CASE PassBarrier
    BY <1>11 DEF PassBarrier, TypeOK
  <1>12. CASE MonitorExecutes
    BY <1>12, DeliveredFacts DEF MonitorExecutes, TypeOK
  <1>13. CASE MonitorFails
    BY <1>13 DEF MonitorFails, TypeOK
  <1>14. CASE MonitorAckFails
    BY <1>14, DeliveredFacts DEF MonitorAckFails, TypeOK
  <1>15. CASE MonitorHup
    BY <1>15, DeliveredFacts DEF MonitorHup, TypeOK
  <1>16. CASE MonitorExits
    BY <1>16 DEF MonitorExits, TypeOK
  <1>17. CASE JoinGroup
    BY <1>17 DEF JoinGroup, TypeOK
  <1>18. CASE SvcFails
    BY <1>18 DEF SvcFails, TypeOK
  <1>19. CASE Exec
    BY <1>19 DEF Exec, TypeOK
  <1>20. CASE ExecFails
    BY <1>20 DEF ExecFails, TypeOK
  <1>21. CASE SvcLeaves
    BY <1>21 DEF SvcLeaves, TypeOK
  <1>22. CASE SvcExits
    BY <1>22 DEF SvcExits, TypeOK
  <1>23. CASE UNCHANGED vars
    BY <1>23 DEF vars, TypeOK
  <1>24. QED
    BY <1>1, <1>2, <1>3, <1>4, <1>5, <1>6, <1>7, <1>8, <1>9, <1>10, <1>11,
       <1>12, <1>13, <1>14, <1>15, <1>16, <1>17, <1>18, <1>19, <1>20, <1>21, <1>22, <1>23
    DEF Next, ParentSteps, MidSteps, SvcSteps, Quiet

\* Only send writes a command, only the monitor takes it, and send takes every
\* acknowledgement before it returns; without one it waits for the monitor's end of the pipe.
LEMMA CommandStep ==
    ASSUME SpawnInv, [Next]_vars
    PROVE  OneCommand'
  <1> USE DEF SpawnInv, EndsFollowCode, MidEnds, Pipes, StepsOrdered, OneCommand
  <1>1. CASE Fork
    BY <1>1 DEF Fork, TypeOK
  <1>2. CASE SpawnFails
    BY <1>2 DEF SpawnFails, TypeOK
  <1>3. CASE ErrPipeClosed
    BY <1>3 DEF ErrPipeClosed, TypeOK
  <1>4. CASE SpawnReturnsOk
    BY <1>4 DEF SpawnReturnsOk, TypeOK
  <1>5. CASE Acknowledged
    BY <1>5 DEF Acknowledged, TypeOK
  <1>6. CASE ParentDies
    BY <1>6 DEF ParentDies, TypeOK
  <1>7. ASSUME NEW c \in Commands, SendCommand(c) PROVE OneCommand'
    BY <1>7 DEF SendCommand, TypeOK
  <1>8. CASE MidFails
    BY <1>8 DEF MidFails, TypeOK
  <1>9. CASE MidForks
    BY <1>9 DEF MidForks, TypeOK
  <1>10. CASE MidReports
    BY <1>10 DEF MidReports, MidMayReport, TypeOK
  <1>11. CASE PassBarrier
    BY <1>11 DEF PassBarrier, TypeOK
  <1>12. CASE MonitorExecutes
    BY <1>12, DeliveredFacts DEF MonitorExecutes, TypeOK
  <1>13. CASE MonitorFails
    BY <1>13 DEF MonitorFails, TypeOK
  <1>14. CASE MonitorAckFails
    BY <1>14, DeliveredFacts DEF MonitorAckFails, TypeOK
  <1>15. CASE MonitorHup
    BY <1>15, DeliveredFacts DEF MonitorHup, TypeOK
  <1>16. CASE MonitorExits
    BY <1>16 DEF MonitorExits, TypeOK
  <1>17. CASE JoinGroup
    BY <1>17 DEF JoinGroup, TypeOK
  <1>18. CASE SvcFails
    BY <1>18 DEF SvcFails, TypeOK
  <1>19. CASE Exec
    BY <1>19 DEF Exec, TypeOK
  <1>20. CASE ExecFails
    BY <1>20 DEF ExecFails, TypeOK
  <1>21. CASE SvcLeaves
    BY <1>21 DEF SvcLeaves, TypeOK
  <1>22. CASE SvcExits
    BY <1>22 DEF SvcExits, TypeOK
  <1>23. CASE UNCHANGED vars
    BY <1>23 DEF vars, TypeOK
  <1>24. QED
    BY <1>1, <1>2, <1>3, <1>4, <1>5, <1>6, <1>7, <1>8, <1>9, <1>10, <1>11,
       <1>12, <1>13, <1>14, <1>15, <1>16, <1>17, <1>18, <1>19, <1>20, <1>21, <1>22, <1>23
    DEF Next, ParentSteps, MidSteps, SvcSteps, Quiet

-----------------------------------------------------------------------------
(* Theorems.                                                               *)

\* SpawnInv is an invariant: the write ends of the pipes are held by exactly the
\* processes that have not come to close them, and what beam-init, the middle process
\* and the service have done follows from what was read (spawn_service).
THEOREM SpawnInvariant == Spec => []SpawnInv
  <1>1. Init => SpawnInv
    <2> SUFFICES ASSUME Init PROVE SpawnInv
      OBVIOUS
    <2>1. TypeOK
      BY DEF Init, TypeOK, Processes
    <2>2. EndsFollowCode
      BY DEF Init, EndsFollowCode, ParentEnds, MidEnds, SvcEnds
    <2>3. StepsOrdered /\ ExecIsOver /\ PidIsRight /\ OneCommand /\ FailureIsKnown
      BY DEF Init, StepsOrdered, ExecIsOver, PidIsRight, OneCommand, FailureIsKnown
    <2>4. MonitorOutlivesService
      BY DEF Init, MonitorOutlivesService
    <2>5. QED
      BY <2>1, <2>2, <2>3, <2>4 DEF SpawnInv
  <1>2. SpawnInv /\ [Next]_vars => SpawnInv'
    BY TypeStep, EndsStep, OrderStep, ResultStep, CommandStep DEF SpawnInv
  <1>3. QED
    BY <1>1, <1>2, PTL DEF Spec

\* The variables of Spawn keep their types, the command in the pipe a byte.
THEOREM SpawnTypes == Spec => []TypeOK
  BY SpawnInvariant, PTL DEF SpawnInv

\* What spawn_service returns is true: after Ok the program was executed or has died and
\* the pid is right, after an error nothing runs.
THEOREM SpawnResult == Spec => []ResultIsTrue
  <1>1. SpawnInv => ResultIsTrue
    BY DEF SpawnInv, TypeOK, ExecIsOver, PidIsRight, FailureIsKnown, ResultIsTrue
  <1>2. QED
    BY <1>1, SpawnInvariant, PTL

\* When MonitorCommandSender::send has returned, no command and no acknowledgement is left
\* for a monitor that lives.
THEOREM CommandsAreOver == Spec => []CommandsComplete
  <1>1. SpawnInv => CommandsComplete
    BY DEF SpawnInv, OneCommand, CommandsComplete
  <1>2. QED
    BY <1>1, SpawnInvariant, PTL

\* The monitor reads commands only after the service has joined its group (ipc_barrier).
THEOREM BarrierIsPassed == Spec => []BarrierHolds
  <1>1. SpawnInv => BarrierHolds
    BY DEF SpawnInv, StepsOrdered, BarrierHolds
  <1>2. QED
    BY <1>1, SpawnInvariant, PTL

\* The monitor does not exit before the service, unless beam-init is dead or the service
\* has left its group.
THEOREM MonitorOutlives == Spec => []MonitorOutlivesService
  BY SpawnInvariant, PTL DEF SpawnInv
=============================================================================
