----------------------- MODULE ServiceManagerProofs -------------------------
(***************************************************************************)
(* Proofs, for every set of names, users, processes, tokens and requests   *)
(* and every capacity, of the type invariant and the safety properties of  *)
(* ServiceManager.                                                         *)
(***************************************************************************)
EXTENDS ServiceManager, TLAPS

-----------------------------------------------------------------------------
(* Facts about the data.                                                   *)

\* Every constructor of ServiceStatus builds a status with the fields it is given.
LEMMA Constructors ==
    /\ Absent \in ServiceStatus /\ Absent.kind = "Absent"
    /\ Stopped \in ServiceStatus /\ Stopped.kind = "Stopped"
    /\ Error \in ServiceStatus /\ Error.kind = "Error"
    /\ Dummy \in ServiceStatus /\ Dummy.kind = "Dummy"
    /\ \A p \in Pids :
         /\ Running(p) \in ServiceStatus
         /\ Running(p).kind = "Running" /\ Running(p).pid = p
         /\ Frozen(p) \in ServiceStatus
         /\ Frozen(p).kind = "Frozen" /\ Frozen(p).pid = p
    /\ \A p \in Pids, a \in AfterStop, k \in SUBSET Tokens :
         /\ Stopping(p, a, k) \in ServiceStatus
         /\ Stopping(p, a, k).kind = "Stopping"
         /\ Stopping(p, a, k).pid = p
         /\ Stopping(p, a, k).after = a
         /\ Stopping(p, a, k).kill = k
    /\ \A e \in ExitStatuses :
         Exited(e) \in ServiceStatus /\ Exited(e).kind = "Exited" /\ Exited(e).exit = e
  BY DEF ServiceStatus, Absent, Stopped, Error, Dummy, Running, Frozen, Stopping, Exited

\* The fields a status has, by its kind.
LEMMA StatusFields ==
    ASSUME NEW s \in ServiceStatus
    PROVE  /\ s.kind \in {"Absent", "Stopped", "Error", "Dummy", "Running", "Frozen",
                          "Stopping", "Exited"}
           /\ s.kind \in {"Running", "Frozen", "Stopping"} => s.pid \in Pids
           /\ s.kind = "Stopping" => s.after \in AfterStop /\ s.kill \in SUBSET Tokens
           /\ s.kind = "Exited" => s.exit \in ExitStatuses
           /\ s.kind = "Absent" => s = Absent
  BY DEF ServiceStatus, Absent

\* A signal changes one process only, and neither creates, ends nor reaps it.
LEMMA SignalledFacts ==
    ASSUME NEW procs \in [Pids -> ProcState], NEW p \in Pids, NEW sig
    PROVE  /\ Signalled(procs, p, sig) \in [Pids -> ProcState]
           /\ \A q \in Pids :
                /\ q # p => Signalled(procs, p, sig)[q] = procs[q]
                /\ Signalled(procs, p, sig)[q] = "free" <=> procs[q] = "free"
                /\ Signalled(procs, p, sig)[q] = "zombie" <=> procs[q] = "zombie"
                /\ Signalled(procs, p, sig)[q] \in Alive <=> procs[q] \in Alive
  BY DEF Signalled, ProcState, Alive

\* The requests the loop handles are well formed.
LEMMA RequestFacts ==
    ASSUME NEW r \in Requests \cup {BootstrapRequest}
    PROVE  /\ r.name \in Names
           /\ r.op = "Create" => r.cfg \in ServiceConfig
           /\ r.op \in {"Stop", "Prune", "RestartUser"} => r.op \in AfterStop
  <1>1. CASE r \in Requests
    <2>1. r \in Request
      BY <1>1, ConstantsAssumption
    <2>2. QED
      BY <2>1 DEF Request, AfterStop
  <1>2. CASE r = BootstrapRequest
    <2>1. [BlankConfig EXCEPT !.graceful = BootstrapGraceful] \in ServiceConfig
      BY ConstantsAssumption DEF BlankConfig, ServiceConfig
    <2>2. /\ r.name = Bootstrap
          /\ r.op = "Create"
          /\ r.cfg = [BlankConfig EXCEPT !.graceful = BootstrapGraceful]
      BY <1>2 DEF BootstrapRequest
    <2>3. QED
      BY <2>1, <2>2, ConstantsAssumption
  <1>3. QED
    BY <1>1, <1>2

\* An event stays in the channel unless it is the one taken.
LEMMA QueueTail ==
    ASSUME NEW q \in Seq(Event), q # <<>>
    PROVE  /\ Head(q) \in Event
           /\ Tail(q) \in Seq(Event)
           /\ Len(Tail(q)) = Len(q) - 1
           /\ \A i \in 1..Len(q) : q[i] = Head(q) \/ \E j \in 1..Len(Tail(q)) : Tail(q)[j] = q[i]
           /\ \A j \in 1..Len(Tail(q)) : \E i \in 1..Len(q) : Tail(q)[j] = q[i]
  <1>1. /\ Head(q) \in Event
        /\ Tail(q) \in Seq(Event)
        /\ Len(Tail(q)) = Len(q) - 1
        /\ Len(q) \in Nat
        /\ Head(q) = q[1]
        /\ \A j \in 1..Len(q) - 1 : Tail(q)[j] = q[j + 1]
    OBVIOUS
  <1>2. ASSUME NEW i \in 1..Len(q)
        PROVE  q[i] = Head(q) \/ \E j \in 1..Len(Tail(q)) : Tail(q)[j] = q[i]
    <2>1. CASE i = 1
      BY <1>1, <2>1
    <2>2. CASE i # 1
      <3>1. i - 1 \in 1..Len(q) - 1 /\ Tail(q)[i - 1] = q[i]
        BY <1>1, <2>2
      <3>2. QED
        BY <1>1, <3>1
    <2>3. QED
      BY <2>1, <2>2
  <1>3. ASSUME NEW j \in 1..Len(Tail(q))
        PROVE  \E i \in 1..Len(q) : Tail(q)[j] = q[i]
    <2>1. j + 1 \in 1..Len(q) /\ Tail(q)[j] = q[j + 1]
      BY <1>1
    <2>2. QED
      BY <2>1
  <1>4. QED
    BY <1>1, <1>2, <1>3

\* Sending adds one event and keeps the others.
LEMMA QueueAppend ==
    ASSUME NEW q \in Seq(Event), NEW e \in Event
    PROVE  /\ Append(q, e) \in Seq(Event)
           /\ Len(Append(q, e)) = Len(q) + 1
           /\ \E j \in 1..Len(Append(q, e)) : Append(q, e)[j] = e
           /\ \A i \in 1..Len(q) : \E j \in 1..Len(Append(q, e)) : Append(q, e)[j] = q[i]
           /\ \A j \in 1..Len(Append(q, e)) :
                Append(q, e)[j] = e \/ \E i \in 1..Len(q) : Append(q, e)[j] = q[i]
  <1>1. /\ Append(q, e) \in Seq(Event)
        /\ Len(q) \in Nat
        /\ Len(Append(q, e)) = Len(q) + 1
        /\ Append(q, e)[Len(q) + 1] = e
        /\ \A i \in 1..Len(q) : Append(q, e)[i] = q[i]
    OBVIOUS
  <1>2. Len(q) + 1 \in 1..Len(Append(q, e))
    BY <1>1
  <1>3. ASSUME NEW i \in 1..Len(q)
        PROVE  \E j \in 1..Len(Append(q, e)) : Append(q, e)[j] = q[i]
    <2>1. i \in 1..Len(Append(q, e))
      BY <1>1
    <2>2. QED
      BY <1>1, <2>1
  <1>4. ASSUME NEW j \in 1..Len(Append(q, e))
        PROVE  Append(q, e)[j] = e \/ \E i \in 1..Len(q) : Append(q, e)[j] = q[i]
    <2>1. j = Len(q) + 1 \/ j \in 1..Len(q)
      BY <1>1
    <2>2. QED
      BY <1>1, <2>1
  <1>5. QED
    BY <1>1, <1>2, <1>3, <1>4

\* The events the tasks send are events.
LEMMA EventFacts ==
    /\ \A sig \in Signals : Signal(sig) \in Event
    /\ \A r \in Requests \cup {BootstrapRequest} : Command(r) \in Event
    /\ \A n \in Names : ProbeFailed(n) \in Event
    /\ \A n \in Names, t \in Tokens : ForceKill(n, t) \in Event
  BY DEF Event, Signal, Command, ProbeFailed, ForceKill

-----------------------------------------------------------------------------
(* Type correctness.                                                       *)

\* The part of TypeOK about the table of services and what belongs to it.
SvcTypeOK ==
    /\ status \in [Names -> ServiceStatus]
    /\ config \in [Names -> ServiceConfig]
    /\ attempts \in [Names -> 0..MaxAttempts]
    /\ probe \in [Names -> SUBSET {"held", "leaked"}]
    /\ proc \in [Pids -> ProcState]
    /\ timers \in SUBSET [name : Names, token : Tokens]

\* The part about the channel and the loop.
LoopTypeOK ==
    /\ pending \in SUBSET Signals
    /\ inhand \in {{}} \cup {{s} : s \in Signals}
    /\ queue \in Seq(Event)
    /\ Len(queue) <= Capacity
    /\ shutdown \in BOOLEAN
    /\ main \in {"recv", "reap", "stopall", "log", "check", "exited", "hung"}
    /\ todo \in SUBSET Names
    /\ exit \in ExitStatuses \cup {"none", "code0", "SIGABRT"}

\* The two parts make up TypeOK.
LEMMA TypeSplit == TypeOK <=> SvcTypeOK /\ LoopTypeOK
  BY DEF TypeOK, SvcTypeOK, LoopTypeOK

\* Probe tables stay probe tables.
LEMMA ProbeTypes ==
    ASSUME NEW probes \in [Names -> SUBSET {"held", "leaked"}], NEW n \in Names, NEW cfg
    PROVE  /\ AbortProbe(probes, n) \in [Names -> SUBSET {"held", "leaked"}]
           /\ SpawnProbe(probes, n, cfg) \in [Names -> SUBSET {"held", "leaked"}]
           /\ DropProbe(probes, n) \in [Names -> SUBSET {"held", "leaked"}]
  BY DEF AbortProbe, SpawnProbe, DropProbe

\* start_service keeps the types, whether the spawn succeeds or fails.
LEMMA SpawnType ==
    ASSUME SvcTypeOK, NEW n \in Names, NEW cfg, NEW reason,
           NEW procs \in [Pids -> ProcState],
           NEW probes \in [Names -> SUBSET {"held", "leaked"}],
           Spawn(n, cfg, reason, procs, probes)
    PROVE  /\ status' \in [Names -> ServiceStatus]
           /\ attempts' \in [Names -> 0..MaxAttempts]
           /\ probe' \in [Names -> SUBSET {"held", "leaked"}]
           /\ proc' \in [Pids -> ProcState]
  <1>1. attempts' \in [Names -> 0..MaxAttempts]
    BY ConstantsAssumption DEF SvcTypeOK, Spawn, SaturatingAdd
  <1>2. CASE /\ status' = [status EXCEPT ![n] = Error]
             /\ proc' = procs
             /\ probe' = probes
    BY <1>1, <1>2, Constructors DEF SvcTypeOK
  <1>3. CASE \E p \in {q \in Pids : procs[q] = "free"} :
                /\ status' = [status EXCEPT ![n] = Running(p)]
                /\ proc' = [procs EXCEPT ![p] = "running"]
                /\ probe' = SpawnProbe(probes, n, cfg)
    <2>1. PICK p \in Pids :
                /\ status' = [status EXCEPT ![n] = Running(p)]
                /\ proc' = [procs EXCEPT ![p] = "running"]
                /\ probe' = SpawnProbe(probes, n, cfg)
      BY <1>3
    <2>2. QED
      BY <1>1, <2>1, Constructors, ProbeTypes DEF SvcTypeOK, ProcState
  <1>4. QED
    BY <1>2, <1>3 DEF Spawn

\* Removing a service keeps the types.
LEMMA RemoveType ==
    ASSUME SvcTypeOK, NEW n \in Names, Remove(n)
    PROVE  /\ status' \in [Names -> ServiceStatus]
           /\ config' \in [Names -> ServiceConfig]
           /\ attempts' \in [Names -> 0..MaxAttempts]
  <1>1. BlankConfig \in ServiceConfig
    BY ConstantsAssumption DEF BlankConfig, ServiceConfig
  <1>2. 0 \in 0..MaxAttempts
    BY ConstantsAssumption
  <1>3. QED
    BY <1>1, <1>2, Constructors DEF SvcTypeOK, Remove

\* terminate_service_inner keeps the types, whatever status it finds.
LEMMA TerminateType ==
    ASSUME SvcTypeOK, NEW n \in Names, NEW a \in AfterStop, TerminateInner(n, a)
    PROVE  SvcTypeOK'
  <1>1. status[n] \in ServiceStatus
    BY DEF SvcTypeOK
  <1>2. CASE TerminateIdle(n, a)
    <2>1. CASE a = "Stop" /\ UNCHANGED svcVars
      BY <2>1 DEF svcVars, SvcTypeOK
    <2>2. CASE a = "Prune" /\ Remove(n) /\ probe' = DropProbe(probe, n) /\ UNCHANGED proc
      BY <1>2, <2>2, RemoveType, ProbeTypes DEF SvcTypeOK, TerminateIdle
    <2>3. CASE UNCHANGED config /\ status' = [status EXCEPT ![n] = Dummy]
                 /\ UNCHANGED <<attempts, proc, probe>>
      BY <1>2, <2>3, Constructors DEF SvcTypeOK, TerminateIdle
    <2>4. CASE UNCHANGED config /\ Spawn(n, config[n], a, proc, probe)
      BY <1>2, <2>4, SpawnType DEF SvcTypeOK, TerminateIdle
    <2>5. QED
      BY <1>2, <2>1, <2>2, <2>3, <2>4 DEF TerminateIdle
  <1>3. CASE TerminateStopping(n, a)
    <2>1. Merge(status[n].after, a) \in AfterStop
      BY <1>1, <1>3, StatusFields DEF TerminateStopping, Merge, AfterStop
    <2>2. QED
      BY <1>1, <1>3, <2>1, StatusFields, Constructors DEF TerminateStopping, SvcTypeOK
  <1>4. CASE TerminateFrozen(n, a)
    BY <1>1, <1>4, StatusFields, Constructors, SignalledFacts DEF TerminateFrozen, SvcTypeOK
  <1>5. CASE TerminateRunning(n, a)
    <2>1. /\ status[n].pid \in Pids
          /\ probe' \in [Names -> SUBSET {"held", "leaked"}]
          /\ UNCHANGED <<config, attempts>>
      BY <1>1, <1>5, StatusFields, ProbeTypes DEF TerminateRunning, SvcTypeOK
    <2>2. CASE /\ proc' = Signalled(proc, status[n].pid, "SIGKILL")
               /\ status' = [status EXCEPT ![n] = Stopping(@.pid, a, {})]
               /\ UNCHANGED timers
      BY <2>1, <2>2, Constructors, SignalledFacts DEF SvcTypeOK
    <2>3. CASE /\ \E t \in Tokens \ UsedTokens :
                    /\ status' = [status EXCEPT ![n] = Stopping(@.pid, a, {t})]
                    /\ timers' = timers \cup {[name |-> n, token |-> t]}
               /\ UNCHANGED proc
      <3>1. PICK t \in Tokens :
                    /\ status' = [status EXCEPT ![n] = Stopping(@.pid, a, {t})]
                    /\ timers' = timers \cup {[name |-> n, token |-> t]}
        BY <2>3
      <3>2. Stopping(status[n].pid, a, {t}) \in ServiceStatus
        BY <2>1, Constructors
      <3>3. QED
        BY <2>1, <2>3, <3>1, <3>2 DEF SvcTypeOK
    <2>4. QED
      BY <1>5, <2>2, <2>3 DEF TerminateRunning
  <1>6. QED
    BY <1>2, <1>3, <1>4, <1>5 DEF TerminateInner

\* So does stop_service_cmd, which may refuse.
LEMMA StopCmdType ==
    ASSUME SvcTypeOK, NEW n \in Names, NEW uid, NEW a \in AfterStop, StopServiceCmd(n, uid, a)
    PROVE  SvcTypeOK'
  <1>1. CASE TerminateInner(n, a)
    BY <1>1, TerminateType
  <1>2. CASE UNCHANGED svcVars
    BY <1>2 DEF svcVars, SvcTypeOK
  <1>3. QED
    BY <1>1, <1>2 DEF StopServiceCmd

\* Taking an event from the channel keeps the types of the channel and of the loop.
LEMMA ReceiveType ==
    ASSUME LoopTypeOK, NEW e, NEW next \in {"check", "reap", "stopall", "log", "hung"},
           Receive(e, next)
    PROVE  /\ pending' \in SUBSET Signals
           /\ inhand' \in {{}} \cup {{s} : s \in Signals}
           /\ queue' \in Seq(Event)
           /\ Len(queue') <= Capacity
           /\ main' \in {"recv", "reap", "stopall", "log", "check", "exited", "hung"}
           /\ exit' \in ExitStatuses \cup {"none", "code0", "SIGABRT"}
  <1>1. /\ queue' \in Seq(Event)
        /\ Len(queue') = Len(queue) - 1
        /\ Len(queue) \in Nat
    BY QueueTail DEF LoopTypeOK, Receive
  <1>2. Len(queue') <= Capacity
    BY <1>1, ConstantsAssumption DEF LoopTypeOK
  <1>3. QED
    BY <1>1, <1>2 DEF LoopTypeOK, Receive

\* One iteration of the waitpid loop keeps the types, in each of its branches.
LEMMA ReapType ==
    ASSUME SvcTypeOK, NEW p \in Pids, Reap(p)
    PROVE  SvcTypeOK'
  <1> DEFINE freed == [proc EXCEPT ![p] = "free"]
  <1>1. freed \in [Pids -> ProcState]
    BY DEF SvcTypeOK, ProcState
  <1>2. CASE proc' = freed /\ UNCHANGED <<status, config, attempts, probe, timers>>
    BY <1>1, <1>2 DEF SvcTypeOK
  <1>3. ASSUME NEW n \in Names,
               \E e \in ExitStatuses : status' = [status EXCEPT ![n] = Exited(e)],
               probe' = AbortProbe(probe, n), proc' = freed,
               UNCHANGED <<config, attempts, timers>>
        PROVE  SvcTypeOK'
    <2>1. PICK e \in ExitStatuses : status' = [status EXCEPT ![n] = Exited(e)]
      BY <1>3
    <2>2. status' \in [Names -> ServiceStatus]
      BY <2>1, Constructors DEF SvcTypeOK
    <2>3. probe' \in [Names -> SUBSET {"held", "leaked"}]
      BY <1>3, ProbeTypes DEF SvcTypeOK
    <2>4. QED
      BY <1>1, <1>3, <2>2, <2>3 DEF SvcTypeOK
  <1>4. ASSUME NEW n \in Names,
               status[n].kind = "Stopping",
               timers' = AbortKill(status[n].kill),
               \/ /\ status[n].after = "Stop"
                  /\ status' = [status EXCEPT ![n] = Stopped]
                  /\ proc' = freed
                  /\ probe' = AbortProbe(probe, n)
                  /\ UNCHANGED <<config, attempts>>
               \/ /\ status[n].after = "Prune"
                  /\ Remove(n)
                  /\ proc' = freed
                  /\ probe' = DropProbe(AbortProbe(probe, n), n)
               \/ /\ status[n].after \in Restarts
                  /\ UNCHANGED config
                  /\ IF shutdown
                     THEN /\ proc' = freed
                          /\ probe' = AbortProbe(probe, n)
                          /\ status' = [status EXCEPT ![n] = Stopping(@.pid, @.after, {})]
                          /\ UNCHANGED attempts
                     ELSE Spawn(n, config[n], status[n].after, freed, AbortProbe(probe, n))
        PROVE  SvcTypeOK'
    <2>1. timers' \in SUBSET [name : Names, token : Tokens]
      BY <1>4 DEF AbortKill, SvcTypeOK
    <2>2. AbortProbe(probe, n) \in [Names -> SUBSET {"held", "leaked"}]
      BY ProbeTypes DEF SvcTypeOK
    <2>3. CASE /\ status' = [status EXCEPT ![n] = Stopped]
               /\ proc' = freed
               /\ probe' = AbortProbe(probe, n)
               /\ UNCHANGED <<config, attempts>>
      BY <1>1, <2>1, <2>2, <2>3, Constructors DEF SvcTypeOK
    <2>4. CASE /\ Remove(n)
               /\ proc' = freed
               /\ probe' = DropProbe(AbortProbe(probe, n), n)
      <3>1. probe' \in [Names -> SUBSET {"held", "leaked"}]
        BY <2>2, <2>4, ProbeTypes
      <3>2. QED
        BY <1>1, <2>1, <2>4, <3>1, RemoveType DEF SvcTypeOK
    <2>5. CASE /\ UNCHANGED config
               /\ proc' = freed
               /\ probe' = AbortProbe(probe, n)
               /\ status' = [status EXCEPT ![n] = Stopping(@.pid, @.after, {})]
               /\ UNCHANGED attempts
      <3>1. Stopping(status[n].pid, status[n].after, {}) \in ServiceStatus
        BY <1>4, StatusFields, Constructors DEF SvcTypeOK
      <3>2. QED
        BY <1>1, <2>1, <2>2, <2>5, <3>1 DEF SvcTypeOK
    <2>6. CASE /\ UNCHANGED config
               /\ Spawn(n, config[n], status[n].after, freed, AbortProbe(probe, n))
      BY <1>1, <2>1, <2>2, <2>6, SpawnType DEF SvcTypeOK
    <2>7. QED
      BY <1>4, <2>3, <2>4, <2>5, <2>6
  <1>5. QED
    BY <1>2, <1>3, <1>4 DEF Reap

\* The loop waits for the mutex of a log, gets it, or hangs in a start: no service
\* changes, and the event it took, if it took one, is no signal.
LEMMA WaitingFrame ==
    ASSUME CopyLogs \/ LogTurn \/ StartHangs
    PROVE  /\ UNCHANGED <<status, config, attempts, probe, proc, timers>>
           /\ UNCHANGED <<shutdown, todo, exit, pending, inhand>>
           /\ main' \in {"log", "check", "hung"}
           /\ \/ main \in {"log", "reap"} /\ UNCHANGED queue
              \/ \E r \in Requests \cup {BootstrapRequest} : Receive(Command(r), main')
              \/ \E n \in Names : Receive(ProbeFailed(n), main')
           /\ main = "reap" => main' = "hung"
  BY DEF CopyLogs, LogTurn, StartHangs, Receive, svcVars, chanVars

\* Initially, and after every step of the loop, a task or the kernel, every variable
\* holds a value of its type; the channel in particular never exceeds its capacity.
THEOREM TypeCorrect == Spec => []TypeOK
  <1>1. Init => TypeOK
    <2> SUFFICES ASSUME Init PROVE TypeOK
      OBVIOUS
    <2>1. BlankConfig \in ServiceConfig
      BY ConstantsAssumption DEF BlankConfig, ServiceConfig
    <2>2. SvcTypeOK
      BY <2>1, Constructors, ConstantsAssumption DEF Init, SvcTypeOK, ProcState
    <2>3. queue \in Seq(Event) /\ Len(queue) = 1
      BY EventFacts DEF Init
    <2>4. Len(queue) <= Capacity
      BY <2>3, ConstantsAssumption
    <2>5. LoopTypeOK
      BY <2>3, <2>4 DEF Init, LoopTypeOK
    <2>6. QED
      BY <2>2, <2>5, TypeSplit
  <1>2. TypeOK /\ [Next]_vars => TypeOK'
    <2> SUFFICES ASSUME SvcTypeOK, LoopTypeOK, [Next]_vars
                 PROVE  SvcTypeOK' /\ LoopTypeOK'
      BY TypeSplit DEF TypeOK, SvcTypeOK, LoopTypeOK
    <2>1. ASSUME NEW r \in Requests \cup {BootstrapRequest}, HandleCommand(r)
          PROVE  LoopTypeOK'
      BY <2>1, ReceiveType DEF HandleCommand, LoopTypeOK
    <2>2. ASSUME NEW r \in Requests \cup {BootstrapRequest}, CreateService(r)
          PROVE  SvcTypeOK'
      <3>1. CASE UNCHANGED svcVars
        BY <3>1 DEF svcVars, SvcTypeOK
      <3>2. CASE /\ config' = [config EXCEPT ![r.name] = r.cfg]
                 /\ Spawn(r.name, r.cfg, "RestartUser", proc, probe)
        BY <2>2, <3>2, RequestFacts, SpawnType DEF CreateService, SvcTypeOK
      <3>3. QED
        BY <2>2, <3>1, <3>2 DEF CreateService
    <2>3. ASSUME NEW r \in Requests \cup {BootstrapRequest}, StopService(r)
          PROVE  SvcTypeOK'
      BY <2>3, RequestFacts, StopCmdType DEF StopService
    <2>4. ASSUME NEW r \in Requests \cup {BootstrapRequest}, FreezeService(r)
          PROVE  SvcTypeOK'
      <3>1. r.name \in Names /\ status[r.name] \in ServiceStatus
        BY RequestFacts DEF SvcTypeOK
      <3>2. CASE /\ status[r.name].kind = "Running"
                 /\ probe' = AbortProbe(probe, r.name)
                 /\ proc' = Signalled(proc, status[r.name].pid, "SIGSTOP")
                 /\ status' = [status EXCEPT ![r.name] = Frozen(@.pid)]
        <4>1. status[r.name].pid \in Pids
          BY <3>1, <3>2, StatusFields
        <4>2. /\ probe' \in [Names -> SUBSET {"held", "leaked"}]
              /\ proc' \in [Pids -> ProcState]
          BY <3>1, <3>2, <4>1, ProbeTypes, SignalledFacts DEF SvcTypeOK
        <4>3. status' \in [Names -> ServiceStatus]
          BY <3>1, <3>2, <4>1, Constructors DEF SvcTypeOK
        <4>4. QED
          BY <2>4, <4>2, <4>3 DEF FreezeService, SvcTypeOK
      <3>3. CASE UNCHANGED <<status, probe, proc>>
        BY <2>4, <3>3 DEF FreezeService, SvcTypeOK
      <3>4. QED
        BY <2>4, <3>2, <3>3 DEF FreezeService
    <2>5. ASSUME NEW r \in Requests \cup {BootstrapRequest}, ThawService(r)
          PROVE  SvcTypeOK'
      <3>1. r.name \in Names /\ status[r.name] \in ServiceStatus
        BY RequestFacts DEF SvcTypeOK
      <3>2. CASE /\ status[r.name].kind = "Frozen"
                 /\ proc' = Signalled(proc, status[r.name].pid, "SIGCONT")
                 /\ status' = [status EXCEPT ![r.name] = Running(@.pid)]
                 /\ probe' = SpawnProbe(probe, r.name, config[r.name])
        BY <2>5, <3>1, <3>2, StatusFields, Constructors, ProbeTypes, SignalledFacts
        DEF ThawService, SvcTypeOK
      <3>3. CASE UNCHANGED <<status, probe, proc>>
        BY <2>5, <3>3 DEF ThawService, SvcTypeOK
      <3>4. QED
        BY <2>5, <3>2, <3>3 DEF ThawService
    <2>6. ASSUME NEW r \in Requests \cup {BootstrapRequest}, SendSignal(r)
          PROVE  SvcTypeOK'
      BY <2>6, RequestFacts, StatusFields, SignalledFacts
      DEF SendSignal, SvcTypeOK, HasProcess
    <2>7. ASSUME NEW r \in Requests \cup {BootstrapRequest}, NotifyPty(r)
          PROVE  SvcTypeOK'
      BY <2>7, RequestFacts, StatusFields, SignalledFacts DEF NotifyPty, SvcTypeOK
    <2>8. CASE HandleRequest
      BY <2>1, <2>2, <2>3, <2>4, <2>5, <2>6, <2>7, <2>8
      DEF HandleRequest, CreateService, StopService, FreezeService, ThawService, SendSignal,
          NotifyPty
    <2>9. CASE ForceKillService
      <3>1. PICK n \in Names, t \in Tokens :
              /\ Receive(ForceKill(n, t), "check")
              /\ UNCHANGED <<shutdown, todo, status, config, attempts, probe, timers>>
              /\ proc' = IF KillIsDue(n, t)
                         THEN Signalled(proc, status[n].pid, "SIGKILL") ELSE proc
        BY <2>9 DEF ForceKillService
      <3>2. SvcTypeOK'
        BY <3>1, StatusFields, SignalledFacts DEF SvcTypeOK, KillIsDue
      <3>3. LoopTypeOK'
        BY <3>1, ReceiveType DEF LoopTypeOK
      <3>4. QED
        BY <3>2, <3>3
    <2>10. CASE AutomaticRestart
      <3>1. PICK n \in Names, next \in {"log", "check"} :
              /\ Receive(ProbeFailed(n), next)
              /\ UNCHANGED <<shutdown, todo>>
              /\ StopServiceCmd(n, Root, "RestartAuto")
        BY <2>10 DEF AutomaticRestart
      <3>2. SvcTypeOK'
        BY <3>1, StopCmdType DEF AfterStop
      <3>3. LoopTypeOK'
        BY <3>1, ReceiveType DEF LoopTypeOK
      <3>4. QED
        BY <3>2, <3>3
    <2>11. CASE BeginReap
      <3>1. LoopTypeOK'
        BY <2>11, ReceiveType DEF BeginReap, LoopTypeOK
      <3>2. QED
        BY <2>11, <3>1 DEF BeginReap, svcVars, SvcTypeOK
    <2>12. ASSUME NEW p \in Pids, Reap(p)
           PROVE  SvcTypeOK' /\ LoopTypeOK'
      BY <2>12, ReapType DEF Reap, chanVars, loopVars, LoopTypeOK
    <2>13. CASE EndReap \/ EndStopAll
      BY <2>13 DEF EndReap, EndStopAll, svcVars, chanVars, SvcTypeOK, LoopTypeOK
    <2>14. CASE BeginShutdown
      <3>1. LoopTypeOK'
        BY <2>14, ReceiveType DEF BeginShutdown, LoopTypeOK
      <3>2. QED
        BY <2>14, <3>1 DEF BeginShutdown, svcVars, SvcTypeOK
    <2>15. CASE StopNext
      <3>1. PICK n \in todo : TerminateInner(n, "Stop") /\ todo' = todo \ {n}
        BY <2>15 DEF StopNext
      <3>2. n \in Names /\ "Stop" \in AfterStop
        BY DEF LoopTypeOK, AfterStop
      <3>3. SvcTypeOK'
        BY <3>1, <3>2, TerminateType
      <3>4. QED
        BY <2>15, <3>1, <3>3 DEF StopNext, chanVars, LoopTypeOK
    <2>16. CASE LoopTail
      <3>1. exit' \in ExitStatuses \cup {"none", "code0", "SIGABRT"}
        BY <2>16, StatusFields, ConstantsAssumption DEF LoopTail, ExitWith, SvcTypeOK
      <3>2. QED
        BY <2>16, <3>1 DEF LoopTail, svcVars, chanVars, SvcTypeOK, LoopTypeOK
    <2>17. CASE ReadSignal
      BY <2>17 DEF ReadSignal, NextSignal, Signals, svcVars, loopVars, SvcTypeOK, LoopTypeOK
    <2>18. ASSUME TaskMaySend, NEW e \in Event, queue' = Append(queue, e)
           PROVE  queue' \in Seq(Event) /\ Len(queue') <= Capacity
      BY <2>18, QueueAppend, ConstantsAssumption DEF TaskMaySend, LoopTypeOK
    <2>19. CASE ForwardSignal
      <3>1. PICK s \in Signals : queue' = Append(queue, Signal(s))
        BY <2>19 DEF ForwardSignal, LoopTypeOK
      <3>2. queue' \in Seq(Event) /\ Len(queue') <= Capacity
        BY <2>18, <2>19, <3>1, EventFacts DEF ForwardSignal
      <3>3. QED
        BY <2>19, <3>2 DEF ForwardSignal, svcVars, loopVars, SvcTypeOK, LoopTypeOK
    <2>20. CASE SendRequest
      <3>1. queue' \in Seq(Event) /\ Len(queue') <= Capacity
        BY <2>18, <2>20, EventFacts DEF SendRequest
      <3>2. QED
        BY <2>20, <3>1 DEF SendRequest, svcVars, loopVars, SvcTypeOK, LoopTypeOK
    <2>21. ASSUME NEW n \in Names, ProbeFails(n)
           PROVE  SvcTypeOK' /\ LoopTypeOK'
      <3>1. queue' \in Seq(Event) /\ Len(queue') <= Capacity
        BY <2>18, <2>21, EventFacts DEF ProbeFails
      <3>2. QED
        BY <2>21, <3>1 DEF ProbeFails, loopVars, SvcTypeOK, LoopTypeOK
    <2>22. ASSUME NEW n \in Names, ProbeGivesUp(n)
           PROVE  SvcTypeOK' /\ LoopTypeOK'
      BY <2>22 DEF ProbeGivesUp, loopVars, chanVars, SvcTypeOK, LoopTypeOK
    <2>23. ASSUME NEW n \in Names, TimerFires(n)
           PROVE  SvcTypeOK' /\ LoopTypeOK'
      <3>1. PICK t \in timers : timers' = timers \ {t} /\ queue' = Append(queue, ForceKill(n, t.token))
        BY <2>23 DEF TimerFires
      <3>2. t.token \in Tokens
        BY DEF SvcTypeOK
      <3>3. queue' \in Seq(Event) /\ Len(queue') <= Capacity
        BY <2>18, <2>23, <3>1, <3>2, EventFacts DEF TimerFires
      <3>4. QED
        BY <2>23, <3>1, <3>3 DEF TimerFires, loopVars, SvcTypeOK, LoopTypeOK
    <2>24. ASSUME NEW p \in Pids, Die(p) \/ OrphanDies(p)
           PROVE  SvcTypeOK' /\ LoopTypeOK'
      BY <2>24 DEF Die, OrphanDies, loopVars, SvcTypeOK, LoopTypeOK, ProcState, Signals
    <2>25. CASE StopContainer
      BY <2>25 DEF StopContainer, svcVars, loopVars, SvcTypeOK, LoopTypeOK, Signals
    <2>26. CASE UNCHANGED vars
      BY <2>26 DEF vars, SvcTypeOK, LoopTypeOK
    <2>27. CASE CopyLogs \/ LogTurn \/ StartHangs
      <3>1. SvcTypeOK'
        BY <2>27, WaitingFrame DEF SvcTypeOK
      <3>2. /\ UNCHANGED <<shutdown, todo, exit, pending, inhand>>
            /\ main' \in {"log", "check", "hung"}
        BY <2>27, WaitingFrame
      <3>3. queue' \in Seq(Event) /\ Len(queue') <= Capacity
        <4>1. CASE UNCHANGED queue
          BY <4>1 DEF LoopTypeOK
        <4>2. ASSUME NEW e, Receive(e, main')
              PROVE  queue' \in Seq(Event) /\ Len(queue') <= Capacity
          BY <3>2, <4>2, ReceiveType
        <4>3. QED
          BY <2>27, <4>1, <4>2, WaitingFrame
      <3>4. QED
        BY <3>1, <3>2, <3>3 DEF LoopTypeOK
    <2>28. QED
      BY <2>8, <2>9, <2>10, <2>11, <2>12, <2>13, <2>14, <2>15, <2>16, <2>17, <2>19, <2>20,
         <2>21, <2>22, <2>23, <2>24, <2>25, <2>26, <2>27
      DEF Next, MainLoop, Tasks, Kernel, Exit
  <1>3. QED
    BY <1>1, <1>2, PTL DEF Spec

-----------------------------------------------------------------------------
(* Processes are accounted for.  While a handler starts, ends or drops the *)
(* service n, the property holds of the other services and of the process  *)
(* table the handler has made so far.                                      *)

OthersAccountedFor(n, procs) ==
    /\ \A m \in Names \ {n} : HasProcess(status[m]) => procs[status[m].pid] # "free"
    /\ \A m, k \in Names \ {n} :
         HasProcess(status[m]) /\ HasProcess(status[k]) /\ m # k
           => status[m].pid # status[k].pid
    /\ \A p \in Pids :
         procs[p] \in Alive
           => \E m \in Names \ {n} : HasProcess(status[m]) /\ status[m].pid = p

\* A service without a process can be left out.
LEMMA OthersOfIdle ==
    ASSUME SvcTypeOK, ProcessesAccountedFor, NEW n \in Names, ~HasProcess(status[n])
    PROVE  OthersAccountedFor(n, proc)
  BY DEF ProcessesAccountedFor, OthersAccountedFor

\* So can the one whose process waitpid has just returned.
LEMMA OthersOfReaped ==
    ASSUME SvcTypeOK, ProcessesAccountedFor, NEW n \in Names, NEW p \in Pids,
           HasProcess(status[n]), status[n].pid = p, proc[p] = "zombie"
    PROVE  OthersAccountedFor(n, [proc EXCEPT ![p] = "free"])
  <1> DEFINE freed == [proc EXCEPT ![p] = "free"]
  <1>1. /\ freed[p] = "free"
        /\ \A q \in Pids : q # p => freed[q] = proc[q]
    BY DEF SvcTypeOK
  <1>2. \A m \in Names : HasProcess(status[m]) => status[m].pid \in Pids
    BY StatusFields DEF SvcTypeOK, HasProcess
  <1>3. ASSUME NEW q \in Pids, freed[q] \in Alive
        PROVE  \E m \in Names \ {n} : HasProcess(status[m]) /\ status[m].pid = q
    <2>1. q # p /\ proc[q] \in Alive
      BY <1>1, <1>3 DEF Alive
    <2>2. QED
      BY <2>1 DEF ProcessesAccountedFor
  <1>4. QED
    BY <1>1, <1>2, <1>3 DEF ProcessesAccountedFor, OthersAccountedFor

\* n is dropped, or left without a process.
LEMMA AccountIdle ==
    ASSUME SvcTypeOK, NEW n \in Names, NEW procs, OthersAccountedFor(n, procs),
           NEW s, ~HasProcess(s),
           status' = [status EXCEPT ![n] = s], proc' = procs
    PROVE  ProcessesAccountedFor'
  <1>1. /\ status'[n] = s
        /\ \A m \in Names \ {n} : status'[m] = status[m]
    BY DEF SvcTypeOK
  <1>2. \A m \in Names : HasProcess(status'[m]) => m # n
    BY <1>1
  <1>3. QED
    BY <1>1, <1>2 DEF OthersAccountedFor, ProcessesAccountedFor, HasProcess

\* n gets a process the kernel had free.
LEMMA AccountStarted ==
    ASSUME SvcTypeOK, NEW n \in Names, NEW procs \in [Pids -> ProcState],
           OthersAccountedFor(n, procs), NEW p \in Pids, procs[p] = "free",
           status' = [status EXCEPT ![n] = Running(p)],
           proc' = [procs EXCEPT ![p] = "running"]
    PROVE  ProcessesAccountedFor'
  <1>1. /\ status'[n] = Running(p)
        /\ HasProcess(status'[n])
        /\ status'[n].pid = p
        /\ \A m \in Names \ {n} : status'[m] = status[m]
    BY Constructors DEF SvcTypeOK, HasProcess
  <1>2. /\ proc'[p] = "running"
        /\ \A q \in Pids : q # p => proc'[q] = procs[q]
    OBVIOUS
  <1>3. \A m \in Names \ {n} :
          HasProcess(status[m]) => status[m].pid \in Pids /\ status[m].pid # p
    BY StatusFields DEF OthersAccountedFor, SvcTypeOK, HasProcess
  <1>4. ASSUME NEW m \in Names, HasProcess(status'[m])
        PROVE  proc'[status'[m].pid] # "free"
    BY <1>1, <1>2, <1>3, <1>4 DEF OthersAccountedFor
  <1>5. ASSUME NEW m \in Names, NEW k \in Names,
               HasProcess(status'[m]), HasProcess(status'[k]), m # k
        PROVE  status'[m].pid # status'[k].pid
    BY <1>1, <1>3, <1>5 DEF OthersAccountedFor
  <1>6. ASSUME NEW q \in Pids, proc'[q] \in Alive
        PROVE  \E m \in Names : HasProcess(status'[m]) /\ status'[m].pid = q
    <2>1. CASE q = p
      BY <1>1, <2>1
    <2>2. CASE q # p
      BY <1>1, <1>2, <1>6, <2>2 DEF OthersAccountedFor
    <2>3. QED
      BY <2>1, <2>2
  <1>7. QED
    BY <1>4, <1>5, <1>6 DEF ProcessesAccountedFor, HasProcess

\* Every service keeps the process it has.
LEMMA AccountSame ==
    ASSUME SvcTypeOK, ProcessesAccountedFor,
           \A m \in Names : /\ HasProcess(status'[m]) <=> HasProcess(status[m])
                            /\ HasProcess(status[m]) => status'[m].pid = status[m].pid,
           \A q \in Pids : /\ proc'[q] = "free" => proc[q] = "free"
                           /\ proc'[q] \in Alive => proc[q] \in Alive
    PROVE  ProcessesAccountedFor'
  <1>1. \A m \in Names : HasProcess(status[m]) => status[m].pid \in Pids
    BY StatusFields DEF SvcTypeOK, HasProcess
  <1>2. QED
    BY <1>1 DEF ProcessesAccountedFor, HasProcess

-----------------------------------------------------------------------------
(* The invariant.  Each service is consistent with the tasks that belong   *)
(* to it and with the shutdown.                                            *)

ServiceConsistent(n) ==
    /\ status[n].kind # "Dummy"
    /\ "leaked" \notin probe[n]
    /\ probe[n] # {} => status[n].kind = "Running" /\ config[n].liveness
    /\ \A t \in timers :
         t.name = n => status[n].kind = "Stopping" /\ status[n].kill = {t.token}
    /\ shutdown /\ n \notin todo =>
         /\ status[n].kind \notin {"Running", "Frozen"}
         /\ status[n].kind = "Stopping" => status[n].after \notin Restarts

SvcInv ==
    /\ ProcessesAccountedFor
    /\ \A n \in Names : ServiceConsistent(n)

\* todo is only used while stop_all_services runs.
TodoInv == main # "stopall" => todo = {}

IInv ==
    /\ TypeOK
    /\ SvcInv
    /\ ZombieWillBeReaped
    /\ TodoInv

\* No child has become a zombie in this step.
NoNewZombie == \A q \in Pids : proc'[q] = "zombie" => proc[q] = "zombie"

\* The shutdown has not come closer to n, nor passed it, in this step.
ShutdownKept(n) == shutdown' /\ n \notin todo' => shutdown /\ n \notin todo

\* A service that a step does not touch stays consistent.
LEMMA ConsistentFrame ==
    ASSUME NEW n \in Names, ServiceConsistent(n), ShutdownKept(n),
           status'[n] = status[n], probe'[n] = probe[n], config'[n] = config[n],
           \A t \in timers' : t.name = n => t \in timers
    PROVE  ServiceConsistent(n)'
  BY DEF ServiceConsistent, ShutdownKept, Restarts

\* The probe tables of the helpers, service by service.
LEMMA ProbeValues ==
    ASSUME NEW probes \in [Names -> SUBSET {"held", "leaked"}], NEW n \in Names
    PROVE  /\ "leaked" \notin probes[n] => AbortProbe(probes, n)[n] = {}
           /\ probes[n] = {} => DropProbe(probes, n)[n] = {}
           /\ \A m \in Names \ {n} :
                /\ AbortProbe(probes, n)[m] = probes[m]
                /\ DropProbe(probes, n)[m] = probes[m]
  BY DEF AbortProbe, DropProbe

\* spawn_liveness_probe starts a task for a service with a probe only, and replaces no
\* handle when there was none.
LEMMA SpawnProbeValues ==
    ASSUME NEW probes \in [Names -> SUBSET {"held", "leaked"}], NEW n \in Names,
           NEW cfg \in ServiceConfig, probes[n] = {}
    PROVE  /\ "leaked" \notin SpawnProbe(probes, n, cfg)[n]
           /\ SpawnProbe(probes, n, cfg)[n] # {} => cfg.liveness
           /\ \A m \in Names \ {n} : SpawnProbe(probes, n, cfg)[m] = probes[m]
  <1>1. "leaked" \notin SpawnProbe(probes, n, cfg)[n]
    BY DEF SpawnProbe
  <1>2. SpawnProbe(probes, n, cfg)[n] # {} => cfg.liveness
    BY Zenon DEF SpawnProbe
  <1>3. \A m \in Names \ {n} : SpawnProbe(probes, n, cfg)[m] = probes[m]
    BY DEF SpawnProbe
  <1>4. QED
    BY <1>1, <1>2, <1>3

\* start_service, called for a service whose process, probe and timer are gone while no
\* shutdown is under way, keeps the invariant.
LEMMA SpawnSafe ==
    ASSUME SvcTypeOK, \A m \in Names : ServiceConsistent(m),
           NEW n \in Names, NEW cfg \in ServiceConfig, NEW reason \in Restarts,
           NEW procs \in [Pids -> ProcState],
           NEW probes \in [Names -> SUBSET {"held", "leaked"}],
           OthersAccountedFor(n, procs),
           probes[n] = {}, \A m \in Names \ {n} : probes[m] = probe[m],
           \A q \in Pids : procs[q] = "zombie" => proc[q] = "zombie",
           config'[n] = cfg, \A m \in Names \ {n} : config'[m] = config[m],
           timers' \subseteq timers, \A t \in timers' : t.name # n,
           ~shutdown, shutdown' = shutdown,
           Spawn(n, cfg, reason, procs, probes)
    PROVE  SvcInv' /\ NoNewZombie
  <1>1. CASE /\ status' = [status EXCEPT ![n] = Error]
             /\ proc' = procs
             /\ probe' = probes
    <2>1. ProcessesAccountedFor'
      BY <1>1, AccountIdle, Constructors DEF HasProcess
    <2>2. /\ status'[n] = Error
          /\ \A m \in Names \ {n} : status'[m] = status[m]
      BY <1>1 DEF SvcTypeOK
    <2>3. ASSUME NEW m \in Names
          PROVE  ServiceConsistent(m)'
      <3>1. CASE m = n
        BY <1>1, <2>2, <3>1, Constructors DEF ServiceConsistent
      <3>2. CASE m # n
        BY <1>1, <2>2, <3>2, ConsistentFrame DEF ShutdownKept
      <3>3. QED
        BY <3>1, <3>2
    <2>4. QED
      BY <1>1, <2>1, <2>3 DEF SvcInv, NoNewZombie
  <1>2. ASSUME NEW p \in Pids, procs[p] = "free",
               status' = [status EXCEPT ![n] = Running(p)],
               proc' = [procs EXCEPT ![p] = "running"],
               probe' = SpawnProbe(probes, n, cfg)
        PROVE  SvcInv' /\ NoNewZombie
    <2>1. ProcessesAccountedFor'
      BY <1>2, AccountStarted
    <2>2. /\ status'[n] = Running(p)
          /\ \A m \in Names \ {n} : status'[m] = status[m]
      BY <1>2 DEF SvcTypeOK
    <2>3. /\ "leaked" \notin probe'[n]
          /\ probe'[n] # {} => cfg.liveness
          /\ \A m \in Names \ {n} : probe'[m] = probe[m]
      <3>1. /\ "leaked" \notin SpawnProbe(probes, n, cfg)[n]
            /\ SpawnProbe(probes, n, cfg)[n] # {} => cfg.liveness
            /\ \A m \in Names \ {n} : SpawnProbe(probes, n, cfg)[m] = probes[m]
        BY SpawnProbeValues
      <3>2. QED
        BY <1>2, <3>1, Zenon
    <2>4. ASSUME NEW m \in Names
          PROVE  ServiceConsistent(m)'
      <3>1. CASE m = n
        BY <2>2, <2>3, <3>1, Constructors DEF ServiceConsistent
      <3>2. CASE m # n
        BY <2>2, <2>3, <3>2, ConsistentFrame DEF ShutdownKept
      <3>3. QED
        BY <3>1, <3>2
    <2>5. NoNewZombie
      BY <1>2 DEF NoNewZombie
    <2>6. QED
      BY <2>1, <2>4, <2>5 DEF SvcInv
  <1>3. QED
    BY <1>1, <1>2 DEF Spawn

\* A service keeps its process and everything else is left alone.
LEMMA SignalSafe ==
    ASSUME SvcTypeOK, SvcInv, NEW p \in Pids, NEW sig,
           UNCHANGED <<status, config, probe, timers, shutdown, todo>>,
           proc' = Signalled(proc, p, sig) \/ proc' = proc
    PROVE  SvcInv' /\ NoNewZombie
  <1>1. \A q \in Pids : /\ proc'[q] = "free" => proc[q] = "free"
                        /\ proc'[q] \in Alive => proc[q] \in Alive
                        /\ proc'[q] = "zombie" => proc[q] = "zombie"
    BY SignalledFacts DEF SvcTypeOK
  <1>2. ProcessesAccountedFor'
    BY <1>1, AccountSame DEF SvcInv
  <1>3. \A n \in Names : ServiceConsistent(n)'
    BY ConsistentFrame DEF SvcInv, ShutdownKept
  <1>4. QED
    BY <1>1, <1>2, <1>3 DEF SvcInv, NoNewZombie

\* One service changes its status and keeps its process; the others are left alone.
LEMMA StatusSafe ==
    ASSUME SvcTypeOK, SvcInv, NEW n \in Names, NEW s \in ServiceStatus,
           HasProcess(status[n]), HasProcess(s), s.pid = status[n].pid,
           status' = [status EXCEPT ![n] = s],
           \A q \in Pids : /\ proc'[q] = "free" => proc[q] = "free"
                           /\ proc'[q] \in Alive => proc[q] \in Alive
                           /\ proc'[q] = "zombie" => proc[q] = "zombie",
           config' = config,
           \A m \in Names \ {n} : probe'[m] = probe[m] /\ ShutdownKept(m),
           \A t \in timers' : t.name = n \/ t \in timers,
           ServiceConsistent(n)'
    PROVE  SvcInv' /\ NoNewZombie
  <1>1. status'[n] = s /\ \A m \in Names \ {n} : status'[m] = status[m]
    BY DEF SvcTypeOK
  <1>2. ProcessesAccountedFor'
    BY <1>1, AccountSame DEF SvcInv
  <1>3. ASSUME NEW m \in Names
        PROVE  ServiceConsistent(m)'
    <2>1. CASE m # n
      BY <1>1, <2>1, ConsistentFrame DEF SvcInv
    <2>2. QED
      BY <2>1
  <1>4. QED
    BY <1>2, <1>3 DEF SvcInv, NoNewZombie

\* One service loses its process, or had none; the others are left alone.
LEMMA IdleSafe ==
    ASSUME SvcTypeOK, \A m \in Names : ServiceConsistent(m),
           NEW n \in Names, NEW s \in ServiceStatus,
           NEW procs \in [Pids -> ProcState],
           s.kind \in {"Absent", "Stopped", "Exited", "Error"},
           OthersAccountedFor(n, procs),
           \A q \in Pids : procs[q] = "zombie" => proc[q] = "zombie",
           status' = [status EXCEPT ![n] = s], proc' = procs,
           probe'[n] = {}, \A m \in Names \ {n} : probe'[m] = probe[m],
           \A m \in Names \ {n} : config'[m] = config[m] /\ ShutdownKept(m),
           timers' \subseteq timers, \A t \in timers' : t.name # n
    PROVE  SvcInv' /\ NoNewZombie
  <1>1. status'[n] = s /\ \A m \in Names \ {n} : status'[m] = status[m]
    BY DEF SvcTypeOK
  <1>2. ProcessesAccountedFor'
    BY AccountIdle DEF HasProcess
  <1>3. ASSUME NEW m \in Names
        PROVE  ServiceConsistent(m)'
    <2>1. CASE m = n
      BY <1>1, <2>1 DEF ServiceConsistent
    <2>2. CASE m # n
      BY <1>1, <2>2, ConsistentFrame
    <2>3. QED
      BY <2>1, <2>2
  <1>4. QED
    BY <1>2, <1>3 DEF SvcInv, NoNewZombie

\* terminate_service_inner keeps the invariant, called for a request or, with Stop, by
\* stop_all_services: during a shutdown it is never asked for a restart.
LEMMA TerminateSafe ==
    ASSUME SvcTypeOK, SvcInv, NEW n \in Names, NEW a \in AfterStop, TerminateInner(n, a),
           shutdown => a \notin Restarts,
           shutdown' = shutdown, todo' = todo \/ todo' = todo \ {n}
    PROVE  SvcInv' /\ NoNewZombie
  <1>1. status[n] \in ServiceStatus /\ ServiceConsistent(n)
    BY DEF SvcTypeOK, SvcInv
  <1>2. \A m \in Names \ {n} : ShutdownKept(m)
    BY DEF ShutdownKept
  <1>3. \A m \in Names : ServiceConsistent(m)
    BY DEF SvcInv
  <1>4. CASE TerminateIdle(n, a)
    <2>1. /\ status[n].kind \in {"Stopped", "Exited", "Error"}
          /\ timers' = timers
          /\ \A t \in timers' : t.name # n
          /\ probe[n] = {}
      BY <1>1, <1>4 DEF TerminateIdle, NoProcess, ServiceConsistent
    <2>2. OthersAccountedFor(n, proc)
      BY <2>1, OthersOfIdle DEF SvcInv, HasProcess
    <2>3. CASE a = "Stop" /\ UNCHANGED svcVars
      <3>1. /\ status' = [status EXCEPT ![n] = status[n]]
            /\ proc' = proc /\ probe' = probe /\ config' = config
        BY <2>3 DEF svcVars, SvcTypeOK
      <3>2. QED
        BY <1>1, <1>2, <1>3, <2>1, <2>2, <3>1, IdleSafe DEF SvcTypeOK
    <2>4. CASE a = "Prune" /\ Remove(n) /\ probe' = DropProbe(probe, n) /\ UNCHANGED proc
      <3>1. probe'[n] = {} /\ \A m \in Names \ {n} : probe'[m] = probe[m]
        BY <2>1, <2>4, ProbeValues DEF SvcTypeOK
      <3>2. /\ status' = [status EXCEPT ![n] = Absent]
            /\ proc' = proc
            /\ \A m \in Names \ {n} : config'[m] = config[m]
        BY <2>4 DEF Remove, SvcTypeOK
      <3>3. Absent \in ServiceStatus /\ Absent.kind = "Absent"
        BY Constructors
      <3>4. timers' \subseteq timers /\ proc \in [Pids -> ProcState]
        BY <2>1 DEF SvcTypeOK
      <3>5. QED
        BY <1>2, <1>3, <2>1, <2>2, <3>1, <3>2, <3>3, <3>4, IdleSafe
    <2>5. CASE a \in Restarts /\ UNCHANGED config /\ Spawn(n, config[n], a, proc, probe)
      BY <1>3, <2>1, <2>2, <2>5, SpawnSafe DEF SvcTypeOK
    <2>6. QED
      BY <1>4, <2>3, <2>4, <2>5 DEF TerminateIdle
  <1>5. CASE TerminateStopping(n, a)
    <2> DEFINE s == Stopping(status[n].pid, Merge(status[n].after, a), status[n].kill)
    <2>1. /\ status[n].kind = "Stopping" /\ status[n].pid \in Pids
          /\ status[n].after \in AfterStop /\ status[n].kill \in SUBSET Tokens
          /\ status' = [status EXCEPT ![n] = s]
          /\ UNCHANGED <<config, attempts, probe, proc, timers>>
      BY <1>1, <1>5, StatusFields DEF TerminateStopping
    <2>2. Merge(status[n].after, a) \in AfterStop
      BY <2>1 DEF Merge, AfterStop
    <2>3. /\ s \in ServiceStatus /\ s.kind = "Stopping" /\ s.pid = status[n].pid
          /\ s.after = Merge(status[n].after, a) /\ s.kill = status[n].kill
      BY <2>1, <2>2, Constructors
    <2>4. status'[n] = s
      BY <2>1 DEF SvcTypeOK
    <2>5. shutdown => Merge(status[n].after, a) \notin Restarts \/ n \in todo'
      <3>1. CASE a \in {"Stop", "Prune"}
        BY <2>1, <3>1 DEF Merge, Restarts
      <3>2. CASE ~shutdown
        BY <3>2
      <3>3. QED
        BY <3>1, <3>2 DEF AfterStop, Restarts
    <2>6. ServiceConsistent(n)'
      BY <1>1, <2>1, <2>3, <2>4, <2>5 DEF ServiceConsistent, Restarts
    <2>7. QED
      BY <1>2, <2>1, <2>3, <2>6, StatusSafe DEF HasProcess
  <1>6. CASE TerminateFrozen(n, a)
    <2> DEFINE s == Stopping(status[n].pid, a, {})
    <2>1. /\ status[n].kind = "Frozen" /\ status[n].pid \in Pids
          /\ status' = [status EXCEPT ![n] = s]
          /\ proc' = Signalled(proc, status[n].pid, "SIGKILL")
          /\ UNCHANGED <<config, attempts, probe, timers>>
      BY <1>1, <1>6, StatusFields DEF TerminateFrozen
    <2>2. /\ s \in ServiceStatus /\ s.kind = "Stopping" /\ s.pid = status[n].pid
          /\ s.after = a
      BY <2>1, Constructors
    <2>3. status'[n] = s
      BY <2>1 DEF SvcTypeOK
    <2>4. ServiceConsistent(n)'
      BY <1>1, <2>1, <2>2, <2>3 DEF ServiceConsistent, Restarts
    <2>5. \A q \in Pids : /\ proc'[q] = "free" => proc[q] = "free"
                          /\ proc'[q] \in Alive => proc[q] \in Alive
                          /\ proc'[q] = "zombie" => proc[q] = "zombie"
      BY <2>1, SignalledFacts DEF SvcTypeOK
    <2>6. QED
      BY <1>2, <2>1, <2>2, <2>4, <2>5, StatusSafe DEF HasProcess
  <1>7. CASE TerminateRunning(n, a)
    <2>1. /\ status[n].kind = "Running" /\ status[n].pid \in Pids
          /\ probe'[n] = {} /\ \A m \in Names \ {n} : probe'[m] = probe[m]
          /\ UNCHANGED <<config, attempts>>
      BY <1>1, <1>7, StatusFields, ProbeValues DEF TerminateRunning, ServiceConsistent, SvcTypeOK
    <2>2. \A t \in timers : t.name # n
      BY <1>1, <2>1 DEF ServiceConsistent
    <2>3. ASSUME NEW k \in SUBSET Tokens,
                 status' = [status EXCEPT ![n] = Stopping(@.pid, a, k)],
                 \A t \in timers' : t \in timers \/ (t.name = n /\ k = {t.token}),
                 \A q \in Pids : /\ proc'[q] = "free" => proc[q] = "free"
                                 /\ proc'[q] \in Alive => proc[q] \in Alive
                                 /\ proc'[q] = "zombie" => proc[q] = "zombie"
          PROVE  SvcInv' /\ NoNewZombie
      <3> DEFINE s == Stopping(status[n].pid, a, k)
      <3>1. /\ s \in ServiceStatus /\ s.kind = "Stopping" /\ s.pid = status[n].pid
            /\ s.after = a /\ s.kill = k
        BY <2>1, Constructors
      <3>2. status' = [status EXCEPT ![n] = s] /\ status'[n] = s
        BY <2>3 DEF SvcTypeOK
      <3>3. ServiceConsistent(n)'
        BY <2>1, <2>2, <2>3, <3>1, <3>2 DEF ServiceConsistent, Restarts
      <3>4. QED
        BY <1>2, <2>1, <2>3, <3>1, <3>2, <3>3, StatusSafe DEF HasProcess
    <2>4. CASE /\ proc' = Signalled(proc, status[n].pid, "SIGKILL")
               /\ status' = [status EXCEPT ![n] = Stopping(@.pid, a, {})]
               /\ UNCHANGED timers
      <3>1. \A q \in Pids : /\ proc'[q] = "free" => proc[q] = "free"
                            /\ proc'[q] \in Alive => proc[q] \in Alive
                            /\ proc'[q] = "zombie" => proc[q] = "zombie"
        BY <2>1, <2>4, SignalledFacts DEF SvcTypeOK
      <3>2. {} \in SUBSET Tokens /\ \A t \in timers' : t \in timers
        BY <2>4
      <3>3. QED
        BY <2>3, <2>4, <3>1, <3>2
    <2>5. CASE /\ \E t \in Tokens \ UsedTokens :
                    /\ status' = [status EXCEPT ![n] = Stopping(@.pid, a, {t})]
                    /\ timers' = timers \cup {[name |-> n, token |-> t]}
               /\ UNCHANGED proc
      <3>1. PICK t \in Tokens :
                    /\ status' = [status EXCEPT ![n] = Stopping(@.pid, a, {t})]
                    /\ timers' = timers \cup {[name |-> n, token |-> t]}
        BY <2>5
      <3>2. \A u \in timers' : u \in timers \/ (u.name = n /\ {t} = {u.token})
        BY <3>1
      <3>3. QED
        BY <2>3, <2>5, <3>1, <3>2
    <2>6. QED
      BY <1>7, <2>4, <2>5 DEF TerminateRunning
  <1>8. QED
    BY <1>4, <1>5, <1>6, <1>7 DEF TerminateInner

\* One iteration of the waitpid loop keeps the invariant.  A restart that start_service
\* would refuse does not occur: no service that is stopping during a shutdown is to be
\* restarted.
LEMMA ReapSafe ==
    ASSUME SvcTypeOK, SvcInv, NEW p \in Pids, Reap(p), todo = {}
    PROVE  SvcInv' /\ NoNewZombie
  <1> DEFINE freed == [proc EXCEPT ![p] = "free"]
  <1>1. /\ freed \in [Pids -> ProcState]
        /\ freed[p] = "free"
        /\ \A q \in Pids : q # p => freed[q] = proc[q]
        /\ \A q \in Pids : freed[q] = "zombie" => proc[q] = "zombie"
    BY DEF SvcTypeOK, ProcState
  <1>2. /\ proc[p] = "zombie"
        /\ shutdown' = shutdown
        /\ \A m \in Names : ShutdownKept(m)
    BY DEF Reap, loopVars, ShutdownKept
  <1>3. \A m \in Names : ServiceConsistent(m)
    BY DEF SvcInv
  <1>4. CASE /\ \A n \in Names : ~(HasProcess(status[n]) /\ status[n].pid = p)
             /\ proc' = freed
             /\ UNCHANGED <<status, config, attempts, probe, timers>>
    <2>1. \A m \in Names : HasProcess(status[m]) => status[m].pid \in Pids
      BY StatusFields DEF SvcTypeOK, HasProcess
    <2>2. ProcessesAccountedFor'
      <3>1. \A q \in Pids : proc'[q] \in Alive => proc[q] \in Alive
        BY <1>1, <1>4 DEF Alive
      <3>2. \A n \in Names : HasProcess(status[n]) => proc'[status[n].pid] # "free"
        BY <1>1, <1>4, <2>1 DEF SvcInv, ProcessesAccountedFor
      <3>3. QED
        BY <1>4, <3>1, <3>2 DEF SvcInv, ProcessesAccountedFor, HasProcess
    <2>3. \A n \in Names : ServiceConsistent(n)'
      BY <1>2, <1>3, <1>4, ConsistentFrame
    <2>4. QED
      BY <1>1, <1>4, <2>2, <2>3 DEF SvcInv, NoNewZombie
  <1>5. ASSUME NEW n \in Names, HasProcess(status[n]), status[n].pid = p
        PROVE  OthersAccountedFor(n, freed)
    BY <1>2, <1>5, OthersOfReaped DEF SvcInv
  <1> HIDE DEF freed
  <1>6. ASSUME NEW n \in Names
        PROVE  /\ AbortProbe(probe, n) \in [Names -> SUBSET {"held", "leaked"}]
               /\ AbortProbe(probe, n)[n] = {}
               /\ \A m \in Names \ {n} : AbortProbe(probe, n)[m] = probe[m]
    <2>1. "leaked" \notin probe[n]
      BY <1>3 DEF ServiceConsistent
    <2>2. AbortProbe(probe, n) \in [Names -> SUBSET {"held", "leaked"}]
      BY DEF AbortProbe, SvcTypeOK
    <2>3. QED
      BY <2>1, <2>2, ProbeValues DEF SvcTypeOK
  <1>7. ASSUME NEW n \in Names, HasProcess(status[n]), status[n].pid = p,
               NEW s \in ServiceStatus,
               s.kind \in {"Absent", "Stopped", "Exited", "Error"},
               status' = [status EXCEPT ![n] = s],
               probe'[n] = {}, \A m \in Names \ {n} : probe'[m] = probe[m],
               proc' = freed,
               \A m \in Names \ {n} : config'[m] = config[m],
               timers' \subseteq timers, \A t \in timers' : t.name # n
        PROVE  SvcInv' /\ NoNewZombie
    <2>1. OthersAccountedFor(n, freed)
      BY <1>5, <1>7
    <2>2. \A m \in Names \ {n} : config'[m] = config[m] /\ ShutdownKept(m)
      BY <1>2, <1>7
    <2>3. QED
      BY <1>1, <1>3, <1>7, <2>1, <2>2, IdleSafe
  <1>8. ASSUME NEW n \in Names,
               status[n].kind \in {"Running", "Frozen"}, status[n].pid = p,
               NEW e \in ExitStatuses, status' = [status EXCEPT ![n] = Exited(e)],
               probe' = AbortProbe(probe, n), proc' = freed,
               UNCHANGED <<config, attempts, timers>>
        PROVE  SvcInv' /\ NoNewZombie
    <2>1. Exited(e) \in ServiceStatus /\ Exited(e).kind = "Exited"
      BY Constructors
    <2>2. timers' \subseteq timers /\ \A t \in timers' : t.name # n
      BY <1>3, <1>8 DEF ServiceConsistent
    <2>3. HasProcess(status[n])
      BY <1>8 DEF HasProcess
    <2>4. probe'[n] = {} /\ \A m \in Names \ {n} : probe'[m] = probe[m]
      BY <1>6, <1>8
    <2>5. QED
      BY <1>7, <1>8, <2>1, <2>2, <2>3, <2>4
  <1>9. ASSUME NEW n \in Names,
               status[n].kind = "Stopping", status[n].pid = p,
               timers' = AbortKill(status[n].kill),
               \/ /\ status[n].after = "Stop"
                  /\ status' = [status EXCEPT ![n] = Stopped]
                  /\ proc' = freed
                  /\ probe' = AbortProbe(probe, n)
                  /\ UNCHANGED <<config, attempts>>
               \/ /\ status[n].after = "Prune"
                  /\ Remove(n)
                  /\ proc' = freed
                  /\ probe' = DropProbe(AbortProbe(probe, n), n)
               \/ /\ status[n].after \in Restarts
                  /\ UNCHANGED config
                  /\ IF shutdown
                     THEN /\ proc' = freed
                          /\ probe' = AbortProbe(probe, n)
                          /\ status' = [status EXCEPT ![n] = Stopping(@.pid, @.after, {})]
                          /\ UNCHANGED attempts
                     ELSE Spawn(n, config[n], status[n].after, freed, AbortProbe(probe, n))
        PROVE  SvcInv' /\ NoNewZombie
    <2>1. HasProcess(status[n])
      BY <1>9 DEF HasProcess
    <2>2. timers' \subseteq timers /\ \A t \in timers' : t.name # n
      BY <1>3, <1>9 DEF AbortKill, ServiceConsistent
    <2>3. ~(shutdown /\ status[n].after \in Restarts)
      BY <1>3, <1>9 DEF ServiceConsistent
    <2>4. CASE /\ status' = [status EXCEPT ![n] = Stopped]
               /\ proc' = freed
               /\ probe' = AbortProbe(probe, n)
               /\ UNCHANGED config
      <3>1. Stopped \in ServiceStatus /\ Stopped.kind = "Stopped"
        BY Constructors
      <3>2. probe'[n] = {} /\ \A m \in Names \ {n} : probe'[m] = probe[m]
        BY <1>6, <2>4
      <3>3. QED
        BY <1>7, <1>9, <2>1, <2>2, <2>4, <3>1, <3>2
    <2>5. CASE /\ Remove(n)
               /\ proc' = freed
               /\ probe' = DropProbe(AbortProbe(probe, n), n)
      <3>1. Absent \in ServiceStatus /\ Absent.kind = "Absent"
        BY Constructors
      <3>2. probe'[n] = {} /\ \A m \in Names \ {n} : probe'[m] = probe[m]
        BY <1>6, <2>5, ProbeValues
      <3>3. /\ status' = [status EXCEPT ![n] = Absent]
            /\ \A m \in Names \ {n} : config'[m] = config[m]
        BY <2>5 DEF Remove, SvcTypeOK
      <3>4. QED
        BY <1>7, <1>9, <2>1, <2>2, <2>5, <3>1, <3>2, <3>3
    <2>6. CASE /\ status[n].after \in Restarts
               /\ ~shutdown
               /\ UNCHANGED config
               /\ Spawn(n, config[n], status[n].after, freed, AbortProbe(probe, n))
      <3>1. /\ config[n] \in ServiceConfig /\ config'[n] = config[n]
            /\ \A m \in Names \ {n} : config'[m] = config[m]
        BY <2>6 DEF SvcTypeOK
      <3>2. OthersAccountedFor(n, freed)
        BY <1>5, <1>9, <2>1
      <3>3. /\ AbortProbe(probe, n) \in [Names -> SUBSET {"held", "leaked"}]
            /\ AbortProbe(probe, n)[n] = {}
            /\ \A m \in Names \ {n} : AbortProbe(probe, n)[m] = probe[m]
        BY <1>6
      <3>4. shutdown' = shutdown /\ ~shutdown
        BY <1>2, <2>6
      <3>5. QED
        BY <1>1, <1>3, <2>2, <2>6, <3>1, <3>2, <3>3, <3>4, SpawnSafe
    <2>7. QED
      BY <1>9, <2>3, <2>4, <2>5, <2>6
  <1>10. QED
    BY <1>4, <1>8, <1>9 DEF Reap, freed
-----------------------------------------------------------------------------
(* The handlers of the requests, the probes and the timers.                *)

\* Outside stop_all_services no service is exempt from the shutdown.
LEMMA NotStartedInShutdown ==
    ASSUME SvcInv, todo = {}, NEW n \in Names, shutdown
    PROVE  status[n].kind \notin {"Running", "Frozen"}
  BY DEF SvcInv, ServiceConsistent

\* A handler that refuses leaves the services alone.
LEMMA RefusedSafe ==
    ASSUME SvcTypeOK, SvcInv,
           UNCHANGED <<status, config, probe, proc, timers>>,
           \A m \in Names : ShutdownKept(m)
    PROVE  SvcInv' /\ NoNewZombie
  <1>1. ProcessesAccountedFor'
    BY AccountSame DEF SvcInv
  <1>2. \A n \in Names : ServiceConsistent(n)'
    BY ConsistentFrame DEF SvcInv
  <1>3. QED
    BY <1>1, <1>2 DEF SvcInv, NoNewZombie

\* A new service is started with a process of its own, or refused.
LEMMA CreateSafe ==
    ASSUME SvcTypeOK, SvcInv, NEW r \in Requests \cup {BootstrapRequest}, CreateService(r)
    PROVE  SvcInv' /\ NoNewZombie
  <1>1. /\ UNCHANGED <<shutdown, todo, timers>>
        /\ \A m \in Names : ShutdownKept(m)
    BY DEF CreateService, HandleCommand, ShutdownKept
  <1>2. CASE UNCHANGED svcVars
    BY <1>1, <1>2, RefusedSafe DEF svcVars
  <1>3. CASE /\ ~shutdown
             /\ status[r.name] = Absent
             /\ config' = [config EXCEPT ![r.name] = r.cfg]
             /\ Spawn(r.name, r.cfg, "RestartUser", proc, probe)
    <2>1. r.name \in Names /\ r.cfg \in ServiceConfig /\ "RestartUser" \in Restarts
      BY RequestFacts DEF CreateService, Restarts
    <2>2. /\ config'[r.name] = r.cfg
          /\ \A m \in Names \ {r.name} : config'[m] = config[m]
      BY <1>3, <2>1 DEF SvcTypeOK
    <2>3. status[r.name].kind = "Absent"
      BY <1>3, Constructors
    <2>4. OthersAccountedFor(r.name, proc)
      BY <2>1, <2>3, OthersOfIdle DEF SvcInv, HasProcess
    <2>5. \A m \in Names : ServiceConsistent(m)
      BY DEF SvcInv
    <2>6. /\ probe[r.name] = {}
          /\ timers' \subseteq timers /\ \A t \in timers' : t.name # r.name
      BY <1>1, <2>1, <2>3, <2>5 DEF ServiceConsistent
    <2>7. /\ proc \in [Pids -> ProcState]
          /\ probe \in [Names -> SUBSET {"held", "leaked"}]
      BY DEF SvcTypeOK
    <2>8. QED
      BY <1>1, <1>3, <2>1, <2>2, <2>4, <2>5, <2>6, <2>7, SpawnSafe
  <1>4. QED
    BY <1>2, <1>3 DEF CreateService

\* A stop, a prune, a restart by the user or by a failed probe, or its refusal.
LEMMA StopCmdSafe ==
    ASSUME SvcTypeOK, SvcInv, NEW n \in Names, NEW uid, NEW a \in AfterStop,
           StopServiceCmd(n, uid, a), UNCHANGED <<shutdown, todo>>
    PROVE  SvcInv' /\ NoNewZombie
  <1>1. CASE MayTerminate(n, uid, a) /\ TerminateInner(n, a)
    <2>1. shutdown => a \notin Restarts
      BY <1>1 DEF MayTerminate
    <2>2. QED
      BY <1>1, <2>1, TerminateSafe
  <1>2. CASE UNCHANGED svcVars
    BY <1>2, RefusedSafe DEF svcVars, ShutdownKept
  <1>3. QED
    BY <1>1, <1>2 DEF StopServiceCmd

\* A freeze ends the probe with the same step that stops the process.
LEMMA FreezeSafe ==
    ASSUME SvcTypeOK, SvcInv, todo = {}, NEW r \in Requests \cup {BootstrapRequest},
           FreezeService(r)
    PROVE  SvcInv' /\ NoNewZombie
  <1>1. /\ UNCHANGED <<shutdown, todo, config, timers>>
        /\ \A m \in Names : ShutdownKept(m)
    BY DEF FreezeService, HandleCommand, ShutdownKept
  <1>2. CASE UNCHANGED <<status, probe, proc>>
    BY <1>1, <1>2, RefusedSafe
  <1>3. CASE /\ status[r.name].kind = "Running"
             /\ probe' = AbortProbe(probe, r.name)
             /\ proc' = Signalled(proc, status[r.name].pid, "SIGSTOP")
             /\ status' = [status EXCEPT ![r.name] = Frozen(@.pid)]
    <2> DEFINE n == r.name
               s == Frozen(status[n].pid)
    <2>1. n \in Names /\ status[n] \in ServiceStatus /\ ServiceConsistent(n)
      BY RequestFacts DEF SvcTypeOK, SvcInv
    <2>2. status[n].pid \in Pids
      BY <1>3, <2>1, StatusFields
    <2>3. /\ s \in ServiceStatus /\ s.kind = "Frozen" /\ s.pid = status[n].pid
          /\ status' = [status EXCEPT ![n] = s] /\ status'[n] = s
      BY <1>3, <2>1, <2>2, Constructors DEF SvcTypeOK
    <2>4. probe'[n] = {} /\ \A m \in Names \ {n} : probe'[m] = probe[m]
      BY <1>3, <2>1, ProbeValues DEF SvcTypeOK, ServiceConsistent
    <2>5. \A q \in Pids : /\ proc'[q] = "free" => proc[q] = "free"
                          /\ proc'[q] \in Alive => proc[q] \in Alive
                          /\ proc'[q] = "zombie" => proc[q] = "zombie"
      BY <1>3, <2>2, SignalledFacts DEF SvcTypeOK
    <2>6. ~shutdown
      BY <1>3, <2>1, NotStartedInShutdown
    <2> HIDE DEF n, s
    <2>7. ServiceConsistent(n)'
      BY <1>1, <1>3, <2>1, <2>3, <2>4, <2>6 DEF ServiceConsistent, n
    <2>8. HasProcess(status[n]) /\ HasProcess(s)
      BY <1>3, <2>3 DEF HasProcess, n
    <2>9. QED
      BY <1>1, <2>1, <2>3, <2>4, <2>5, <2>7, <2>8, StatusSafe
  <1>4. QED
    BY <1>2, <1>3 DEF FreezeService

\* A thaw starts the only probe of the service: the freeze has ended the one before.
LEMMA ThawSafe ==
    ASSUME SvcTypeOK, SvcInv, todo = {}, NEW r \in Requests \cup {BootstrapRequest},
           ThawService(r)
    PROVE  SvcInv' /\ NoNewZombie
  <1>1. /\ UNCHANGED <<shutdown, todo, config, timers>>
        /\ \A m \in Names : ShutdownKept(m)
    BY DEF ThawService, HandleCommand, ShutdownKept
  <1>2. CASE UNCHANGED <<status, probe, proc>>
    BY <1>1, <1>2, RefusedSafe
  <1>3. CASE /\ status[r.name].kind = "Frozen"
             /\ proc' = Signalled(proc, status[r.name].pid, "SIGCONT")
             /\ status' = [status EXCEPT ![r.name] = Running(@.pid)]
             /\ probe' = SpawnProbe(probe, r.name, config[r.name])
    <2> DEFINE n == r.name
               s == Running(status[n].pid)
    <2>1. n \in Names /\ status[n] \in ServiceStatus /\ ServiceConsistent(n)
      BY RequestFacts DEF SvcTypeOK, SvcInv
    <2>2. status[n].pid \in Pids
      BY <1>3, <2>1, StatusFields
    <2>3. /\ s \in ServiceStatus /\ s.kind = "Running" /\ s.pid = status[n].pid
          /\ status' = [status EXCEPT ![n] = s] /\ status'[n] = s
      BY <1>3, <2>1, <2>2, Constructors DEF SvcTypeOK
    <2>4. /\ "leaked" \notin probe'[n]
          /\ probe'[n] # {} => config[n].liveness
          /\ \A m \in Names \ {n} : probe'[m] = probe[m]
      <3>1. probe[n] = {}
        BY <1>3, <2>1 DEF ServiceConsistent
      <3>2. config[n] \in ServiceConfig /\ probe \in [Names -> SUBSET {"held", "leaked"}]
        BY <2>1 DEF SvcTypeOK
      <3>3. /\ "leaked" \notin SpawnProbe(probe, n, config[n])[n]
            /\ SpawnProbe(probe, n, config[n])[n] # {} => config[n].liveness
            /\ \A m \in Names \ {n} : SpawnProbe(probe, n, config[n])[m] = probe[m]
        BY <2>1, <3>1, <3>2, SpawnProbeValues
      <3>4. QED
        BY <1>3, <3>3, Zenon
    <2>5. \A q \in Pids : /\ proc'[q] = "free" => proc[q] = "free"
                          /\ proc'[q] \in Alive => proc[q] \in Alive
                          /\ proc'[q] = "zombie" => proc[q] = "zombie"
      BY <1>3, <2>2, SignalledFacts DEF SvcTypeOK
    <2>6. ~shutdown
      BY <1>3, <2>1, NotStartedInShutdown
    <2> HIDE DEF n, s
    <2>7. ServiceConsistent(n)'
      BY <1>1, <1>3, <2>1, <2>3, <2>4, <2>6 DEF ServiceConsistent, n
    <2>8. HasProcess(status[n]) /\ HasProcess(s)
      BY <1>3, <2>3 DEF HasProcess, n
    <2>9. QED
      BY <1>1, <2>1, <2>3, <2>4, <2>5, <2>7, <2>8, StatusSafe
  <1>4. QED
    BY <1>2, <1>3 DEF ThawService

\* A signal reaches the group of the process that the service has.
LEMMA SendSignalSafe ==
    ASSUME SvcTypeOK, SvcInv, NEW r \in Requests \cup {BootstrapRequest},
           SendSignal(r) \/ NotifyPty(r)
    PROVE  SvcInv' /\ NoNewZombie
  <1>1. /\ UNCHANGED <<status, config, probe, timers, shutdown, todo>>
        /\ \A m \in Names : ShutdownKept(m)
    BY DEF SendSignal, NotifyPty, HandleCommand, ShutdownKept
  <1>2. CASE proc' = proc
    BY <1>1, <1>2, RefusedSafe
  <1>3. CASE /\ HasProcess(status[r.name])
             /\ \E sig \in UserSignals : proc' = Signalled(proc, status[r.name].pid, sig)
    <2>1. status[r.name].pid \in Pids
      BY <1>3, RequestFacts, StatusFields DEF SvcTypeOK, HasProcess
    <2>2. QED
      BY <1>1, <1>3, <2>1, SignalSafe
  <1>4. CASE SendSignal(r)
    <2>1. r.sig \in UserSignals
      <3>1. r \in Requests
        BY <1>4 DEF SendSignal, BootstrapRequest
      <3>2. r \in Request /\ r.op = "SendSignal"
        BY <1>4, <3>1, ConstantsAssumption DEF SendSignal
      <3>3. QED
        BY <3>2 DEF Request
    <2>2. QED
      BY <1>2, <1>3, <1>4, <2>1 DEF SendSignal
  <1>5. CASE NotifyPty(r)
    BY <1>2, <1>3, <1>5 DEF NotifyPty, HasProcess, UserSignals
  <1>6. QED
    BY <1>4, <1>5

\* The escalation to SIGKILL, or a stale one.
LEMMA ForceKillSafe ==
    ASSUME SvcTypeOK, SvcInv, ForceKillService
    PROVE  SvcInv' /\ NoNewZombie
  <1>1. PICK n \in Names, t \in Tokens :
          /\ UNCHANGED <<shutdown, todo, status, config, attempts, probe, timers>>
          /\ proc' = IF KillIsDue(n, t)
                     THEN Signalled(proc, status[n].pid, "SIGKILL") ELSE proc
    BY DEF ForceKillService
  <1>2. CASE KillIsDue(n, t)
    <2>1. status[n].pid \in Pids
      BY <1>2, StatusFields DEF KillIsDue, SvcTypeOK
    <2>2. QED
      BY <1>1, <1>2, <2>1, SignalSafe
  <1>3. CASE ~KillIsDue(n, t)
    BY <1>1, <1>3, RefusedSafe DEF ShutdownKept
  <1>4. QED
    BY <1>2, <1>3

\* The first SIGTERM makes every service one that stop_all_services has yet to visit; a
\* later one changes nothing.
LEMMA BeginShutdownSafe ==
    ASSUME SvcTypeOK, SvcInv, todo = {}, BeginShutdown
    PROVE  SvcInv' /\ NoNewZombie
  <1>1. /\ UNCHANGED <<status, config, probe, proc, timers>>
        /\ shutdown' = TRUE
        /\ todo' = IF shutdown THEN {} ELSE {n \in Names : status[n] # Absent}
    BY DEF BeginShutdown, svcVars
  <1>2. CASE shutdown
    BY <1>1, <1>2, RefusedSafe DEF ShutdownKept
  <1>3. CASE ~shutdown
    <2>1. ProcessesAccountedFor'
      BY <1>1, AccountSame DEF SvcInv
    <2>2. ASSUME NEW n \in Names
          PROVE  ServiceConsistent(n)'
      <3>1. CASE n \in todo'
        BY <1>1, <2>2, <3>1 DEF SvcInv, ServiceConsistent
      <3>2. CASE n \notin todo'
        <4>1. status'[n].kind = "Absent"
          BY <1>1, <1>3, <3>2, Constructors
        <4>2. QED
          BY <1>1, <4>1 DEF SvcInv, ServiceConsistent
      <3>3. QED
        BY <3>1, <3>2
    <2>3. QED
      BY <1>1, <2>1, <2>2 DEF SvcInv, NoNewZombie
  <1>4. QED
    BY <1>2, <1>3

\* A probe task ends by itself.
LEMMA ProbeEndSafe ==
    ASSUME SvcTypeOK, SvcInv, NEW n \in Names, NEW t,
           probe' = [probe EXCEPT ![n] = @ \ {t}],
           UNCHANGED <<status, config, proc, timers, shutdown, todo>>
    PROVE  SvcInv' /\ NoNewZombie
  <1>1. probe'[n] = probe[n] \ {t} /\ \A m \in Names \ {n} : probe'[m] = probe[m]
    BY DEF SvcTypeOK
  <1>2. ProcessesAccountedFor'
    BY AccountSame DEF SvcInv
  <1>3. ASSUME NEW m \in Names
        PROVE  ServiceConsistent(m)'
    <2>1. CASE m = n
      BY <1>1, <2>1 DEF SvcInv, ServiceConsistent
    <2>2. CASE m # n
      BY <1>1, <2>2, ConsistentFrame DEF SvcInv, ShutdownKept
    <2>3. QED
      BY <2>1, <2>2
  <1>4. QED
    BY <1>2, <1>3 DEF SvcInv, NoNewZombie

\* A process becomes a zombie, or a child that belongs to no service appears as one.
LEMMA DeathSafe ==
    ASSUME SvcTypeOK, SvcInv, NEW p \in Pids, Die(p) \/ OrphanDies(p)
    PROVE  SvcInv'
  <1>1. /\ proc' = [proc EXCEPT ![p] = "zombie"]
        /\ UNCHANGED <<status, config, attempts, probe, timers, shutdown, todo>>
    BY DEF Die, OrphanDies, loopVars
  <1>2. \A q \in Pids : /\ proc'[q] = "free" => proc[q] = "free"
                        /\ proc'[q] \in Alive => proc[q] \in Alive
    BY <1>1 DEF SvcTypeOK, Alive
  <1>3. ProcessesAccountedFor'
    BY <1>1, <1>2, AccountSame DEF SvcInv
  <1>4. \A n \in Names : ServiceConsistent(n)'
    BY <1>1, ConsistentFrame DEF SvcInv, ShutdownKept
  <1>5. QED
    BY <1>3, <1>4 DEF SvcInv

-----------------------------------------------------------------------------
(* No zombie is forgotten.                                                 *)

\* A step that makes no zombie and loses no SIGCHLD, taken outside the waitpid loop.
LEMMA ZombieKept ==
    ASSUME ZombieWillBeReaped, NoNewZombie,
           "SIGCHLD" \in pending \cup inhand
             => "SIGCHLD" \in pending' \cup inhand' \/ InQueue(Signal("SIGCHLD"))',
           InQueue(Signal("SIGCHLD")) => InQueue(Signal("SIGCHLD"))',
           main \in {"reap", "hung"} => main' \in {"reap", "hung"}
    PROVE  ZombieWillBeReaped'
  BY DEF ZombieWillBeReaped, NoNewZombie

\* The handler of any other event leaves SIGCHLD in the channel.
LEMMA ZombieReceive ==
    ASSUME LoopTypeOK, ZombieWillBeReaped, NoNewZombie, NEW e, NEW next, Receive(e, next),
           e # Signal("SIGCHLD")
    PROVE  ZombieWillBeReaped'
  <1>1. /\ main = "recv" /\ UNCHANGED <<pending, inhand>>
        /\ queue # <<>> /\ e = Head(queue) /\ queue' = Tail(queue)
    BY DEF Receive
  <1>2. InQueue(Signal("SIGCHLD")) => InQueue(Signal("SIGCHLD"))'
    BY <1>1, QueueTail DEF InQueue, LoopTypeOK
  <1>3. QED
    BY <1>1, <1>2, ZombieKept

\* A task that sends an event leaves SIGCHLD where it is, or is the one that sends it.
LEMMA ZombieSend ==
    ASSUME LoopTypeOK, ZombieWillBeReaped, NoNewZombie, NEW e \in Event,
           queue' = Append(queue, e), Awaiting,
           "SIGCHLD" \in pending \cup inhand
             => "SIGCHLD" \in pending' \cup inhand' \/ e = Signal("SIGCHLD")
    PROVE  ZombieWillBeReaped'
  <1>1. /\ InQueue(Signal("SIGCHLD")) => InQueue(Signal("SIGCHLD"))'
        /\ e = Signal("SIGCHLD") => InQueue(Signal("SIGCHLD"))'
    BY QueueAppend DEF InQueue, LoopTypeOK
  <1>2. QED
    BY <1>1, ZombieKept DEF Awaiting

\* The events that are not SIGCHLD.
LEMMA OtherEvents ==
    /\ \A r : Command(r) # Signal("SIGCHLD")
    /\ \A n : ProbeFailed(n) # Signal("SIGCHLD")
    /\ \A n, t : ForceKill(n, t) # Signal("SIGCHLD")
    /\ Signal("SIGTERM") # Signal("SIGCHLD")
  BY DEF Command, ProbeFailed, ForceKill, Signal

-----------------------------------------------------------------------------
(* The safety theorems.                                                    *)

\* IInv is an inductive invariant of the loop, its tasks and the kernel.  The types are
\* TypeCorrect's.
THEOREM SafetyInvariant == Spec => []IInv
  <1>1. Init => SvcInv /\ ZombieWillBeReaped /\ TodoInv
    <2> SUFFICES ASSUME Init PROVE SvcInv /\ ZombieWillBeReaped /\ TodoInv
      OBVIOUS
    <2>1. \A n \in Names : status[n].kind = "Absent"
      BY Constructors DEF Init
    <2>2. ProcessesAccountedFor
      BY <2>1 DEF Init, ProcessesAccountedFor, HasProcess, Alive
    <2>3. \A n \in Names : ServiceConsistent(n)
      BY <2>1 DEF Init, ServiceConsistent
    <2>4. QED
      BY <2>2, <2>3 DEF Init, SvcInv, ZombieWillBeReaped, TodoInv
  <1>2. TypeOK /\ SvcInv /\ ZombieWillBeReaped /\ TodoInv /\ [Next]_vars
          => (SvcInv /\ ZombieWillBeReaped /\ TodoInv)'
    <2> SUFFICES ASSUME SvcTypeOK, LoopTypeOK, SvcInv, ZombieWillBeReaped, TodoInv,
                        [Next]_vars
                 PROVE  SvcInv' /\ ZombieWillBeReaped' /\ TodoInv'
      BY TypeSplit
    <2>1. ASSUME NEW e, NEW next \in {"check", "log", "hung"}, Receive(e, next),
                 e # Signal("SIGCHLD"), UNCHANGED <<shutdown, todo>>, SvcInv', NoNewZombie
          PROVE  SvcInv' /\ ZombieWillBeReaped' /\ TodoInv'
      BY <2>1, ZombieReceive DEF Receive, TodoInv
    <2>2. main = "recv" => todo = {}
      BY DEF TodoInv
    <2>3. CASE HandleRequest
      <3>1. PICK r \in Requests \cup {BootstrapRequest} :
              \/ CreateService(r) \/ StopService(r) \/ FreezeService(r)
              \/ ThawService(r) \/ SendSignal(r) \/ NotifyPty(r)
        BY <2>3 DEF HandleRequest
      <3>2. Receive(Command(r), "check") /\ UNCHANGED <<shutdown, todo>>
        BY <3>1 DEF CreateService, StopService, FreezeService, ThawService, SendSignal,
                    NotifyPty, HandleCommand
      <3>3. todo = {}
        BY <2>2, <3>2 DEF Receive
      <3>4. CASE StopService(r)
        <4>1. /\ r.name \in Names /\ r.op \in AfterStop
              /\ StopServiceCmd(r.name, r.uid, r.op)
          BY <3>4, RequestFacts DEF StopService
        <4>2. QED
          BY <2>1, <3>2, <4>1, OtherEvents, StopCmdSafe
      <3>5. CASE ~StopService(r)
        <4>1. SvcInv' /\ NoNewZombie
          BY <3>1, <3>3, <3>5, CreateSafe, FreezeSafe, ThawSafe, SendSignalSafe
        <4>2. QED
          BY <2>1, <3>2, <4>1, OtherEvents
      <3>6. QED
        BY <3>4, <3>5
    <2>4. CASE ForceKillService
      <3>1. PICK n \in Names, t \in Tokens :
              Receive(ForceKill(n, t), "check") /\ UNCHANGED <<shutdown, todo>>
        BY <2>4 DEF ForceKillService
      <3>2. SvcInv' /\ NoNewZombie
        BY <2>4, ForceKillSafe
      <3>3. QED
        BY <2>1, <3>1, <3>2, OtherEvents
    <2>5. CASE AutomaticRestart
      <3>1. PICK n \in Names, next \in {"log", "check"} :
              /\ Receive(ProbeFailed(n), next)
              /\ UNCHANGED <<shutdown, todo>>
              /\ StopServiceCmd(n, Root, "RestartAuto")
        BY <2>5 DEF AutomaticRestart
      <3>2. SvcInv' /\ NoNewZombie
        BY <3>1, StopCmdSafe DEF AfterStop
      <3>3. QED
        BY <2>1, <3>1, <3>2, OtherEvents
    <2>6. CASE BeginReap
      <3>1. SvcInv'
        BY <2>6, RefusedSafe DEF BeginReap, svcVars, ShutdownKept
      <3>2. ZombieWillBeReaped' /\ TodoInv'
        BY <2>2, <2>6 DEF BeginReap, Receive, ZombieWillBeReaped, TodoInv
      <3>3. QED
        BY <3>1, <3>2
    <2>7. ASSUME NEW p \in Pids, Reap(p)
          PROVE  SvcInv' /\ ZombieWillBeReaped' /\ TodoInv'
      <3>1. /\ todo = {} /\ main = "reap"
            /\ UNCHANGED <<main, todo>>
        BY <2>7 DEF Reap, TodoInv, loopVars
      <3>2. QED
        BY <2>7, <3>1, ReapSafe DEF ZombieWillBeReaped, TodoInv
    <2>8. CASE EndReap \/ EndStopAll
      <3>1. SvcInv' /\ NoNewZombie
        BY <2>8, RefusedSafe DEF EndReap, EndStopAll, svcVars, ShutdownKept
      <3>2. TodoInv'
        BY <2>8 DEF EndReap, EndStopAll, TodoInv
      <3>3. CASE EndReap
        BY <3>1, <3>2, <3>3 DEF EndReap, svcVars, ZombieWillBeReaped
      <3>4. CASE EndStopAll
        <4>1. ZombieWillBeReaped'
          BY <3>1, <3>4, ZombieKept DEF EndStopAll, chanVars, InQueue
        <4>2. QED
          BY <3>1, <3>2, <4>1
      <3>5. QED
        BY <2>8, <3>3, <3>4
    <2>9. CASE BeginShutdown
      <3>1. Receive(Signal("SIGTERM"), IF shutdown THEN "check" ELSE "stopall")
        BY <2>9 DEF BeginShutdown
      <3>2. todo = {}
        BY <2>2, <3>1 DEF Receive
      <3>3. SvcInv' /\ NoNewZombie
        BY <2>9, <3>2, BeginShutdownSafe
      <3>4. ZombieWillBeReaped'
        BY <3>1, <3>3, OtherEvents, ZombieReceive
      <3>5. TodoInv'
        BY <2>9 DEF BeginShutdown, Receive, TodoInv
      <3>6. QED
        BY <3>3, <3>4, <3>5
    <2>10. CASE StopNext
      <3>1. PICK n \in todo : TerminateInner(n, "Stop") /\ todo' = todo \ {n}
        BY <2>10 DEF StopNext
      <3>2. /\ n \in Names
            /\ "Stop" \in AfterStop /\ "Stop" \notin Restarts
            /\ UNCHANGED <<chanVars, main, shutdown>>
            /\ main = "stopall"
        BY <2>10 DEF StopNext, LoopTypeOK, AfterStop, Restarts
      <3>3. SvcInv' /\ NoNewZombie
        BY <3>1, <3>2, TerminateSafe
      <3>4. ZombieWillBeReaped'
        BY <3>2, <3>3, ZombieKept DEF chanVars, InQueue
      <3>5. QED
        BY <3>2, <3>3, <3>4 DEF TodoInv
    <2>11. CASE LoopTail \/ StopContainer \/ ReadSignal
      <3>1. SvcInv' /\ NoNewZombie
        BY <2>11, RefusedSafe DEF LoopTail, StopContainer, ReadSignal, svcVars, loopVars,
                                  ShutdownKept
      <3>2. TodoInv'
        BY <2>11 DEF LoopTail, StopContainer, ReadSignal, loopVars, TodoInv
      <3>3. ZombieWillBeReaped'
        BY <2>11, <3>1, ZombieKept
        DEF LoopTail, StopContainer, ReadSignal, NextSignal, loopVars, chanVars, InQueue
      <3>4. QED
        BY <3>1, <3>2, <3>3
    <2>12. CASE ForwardSignal
      <3>1. PICK s \in Signals : s \in inhand /\ queue' = Append(queue, Signal(s))
        BY <2>12 DEF ForwardSignal, LoopTypeOK
      <3>2. SvcInv' /\ NoNewZombie
        BY <2>12, RefusedSafe DEF ForwardSignal, svcVars, loopVars, ShutdownKept
      <3>3. "SIGCHLD" \in inhand => Signal(s) = Signal("SIGCHLD")
        BY <3>1 DEF LoopTypeOK
      <3>4. ZombieWillBeReaped'
        BY <2>12, <3>1, <3>2, <3>3, EventFacts, ZombieSend DEF ForwardSignal, TaskMaySend
      <3>5. QED
        BY <2>12, <3>2, <3>4 DEF ForwardSignal, loopVars, TodoInv
    <2>13. CASE SendRequest
      <3>1. SvcInv' /\ NoNewZombie
        BY <2>13, RefusedSafe DEF SendRequest, svcVars, loopVars, ShutdownKept
      <3>2. ZombieWillBeReaped'
        BY <2>13, <3>1, EventFacts, ZombieSend DEF SendRequest, TaskMaySend
      <3>3. QED
        BY <2>13, <3>1, <3>2 DEF SendRequest, loopVars, TodoInv
    <2>14. ASSUME NEW n \in Names, ProbeFails(n)
           PROVE  SvcInv' /\ ZombieWillBeReaped' /\ TodoInv'
      <3>1. SvcInv' /\ NoNewZombie
        BY <2>14, ProbeEndSafe DEF ProbeFails, loopVars
      <3>2. ZombieWillBeReaped'
        BY <2>14, <3>1, EventFacts, ZombieSend DEF ProbeFails, TaskMaySend
      <3>3. QED
        BY <2>14, <3>1, <3>2 DEF ProbeFails, loopVars, TodoInv
    <2>15. ASSUME NEW n \in Names, ProbeGivesUp(n)
           PROVE  SvcInv' /\ ZombieWillBeReaped' /\ TodoInv'
      <3>1. SvcInv' /\ NoNewZombie
        BY <2>15, ProbeEndSafe DEF ProbeGivesUp, loopVars
      <3>2. ZombieWillBeReaped'
        BY <2>15, <3>1, ZombieKept DEF ProbeGivesUp, loopVars, chanVars, InQueue
      <3>3. QED
        BY <2>15, <3>1, <3>2 DEF ProbeGivesUp, loopVars, TodoInv
    <2>16. ASSUME NEW n \in Names, TimerFires(n)
           PROVE  SvcInv' /\ ZombieWillBeReaped' /\ TodoInv'
      <3>1. PICK t \in timers :
              timers' = timers \ {t} /\ queue' = Append(queue, ForceKill(n, t.token))
        BY <2>16 DEF TimerFires
      <3>2. t.token \in Tokens
        BY DEF SvcTypeOK
      <3>3. /\ UNCHANGED <<status, config, probe, proc, pending, inhand>>
            /\ UNCHANGED <<main, shutdown, todo>>
            /\ Awaiting
        BY <2>16 DEF TimerFires, loopVars, TaskMaySend
      <3>4. ProcessesAccountedFor' /\ NoNewZombie
        BY <3>3, AccountSame DEF SvcInv, NoNewZombie
      <3>5. \A m \in Names : ServiceConsistent(m)'
        BY <3>1, <3>3, ConsistentFrame DEF SvcInv, ShutdownKept
      <3>6. ZombieWillBeReaped'
        BY <3>1, <3>2, <3>3, <3>4, EventFacts, ZombieSend
      <3>7. QED
        BY <3>3, <3>4, <3>5, <3>6 DEF SvcInv, TodoInv
    <2>17. ASSUME NEW p \in Pids, Die(p) \/ OrphanDies(p)
           PROVE  SvcInv' /\ ZombieWillBeReaped' /\ TodoInv'
      <3>1. "SIGCHLD" \in pending' /\ UNCHANGED <<main, todo>>
        BY <2>17 DEF Die, OrphanDies, loopVars
      <3>2. QED
        BY <2>17, <3>1, DeathSafe DEF ZombieWillBeReaped, TodoInv
    <2>18. CASE UNCHANGED vars
      <3>1. SvcInv' /\ NoNewZombie
        BY <2>18, RefusedSafe DEF vars, ShutdownKept
      <3>2. ZombieWillBeReaped'
        BY <2>18, <3>1, ZombieKept DEF vars, InQueue
      <3>3. QED
        BY <2>18, <3>1, <3>2 DEF vars, TodoInv
    <2>19. CASE CopyLogs \/ LogTurn \/ StartHangs
      <3>1. SvcInv' /\ NoNewZombie
        BY <2>19, WaitingFrame, RefusedSafe DEF ShutdownKept
      <3>2. CASE main \in {"log", "reap"} /\ UNCHANGED queue
        <4>1. ZombieWillBeReaped'
          BY <2>19, <3>1, <3>2, WaitingFrame, ZombieKept DEF InQueue
        <4>2. TodoInv'
          BY <2>19, <3>2, WaitingFrame DEF TodoInv
        <4>3. QED
          BY <3>1, <4>1, <4>2
      <3>3. CASE \E r \in Requests \cup {BootstrapRequest} : Receive(Command(r), main')
        BY <2>1, <2>19, <3>1, <3>3, WaitingFrame, OtherEvents
      <3>4. CASE \E n \in Names : Receive(ProbeFailed(n), main')
        BY <2>1, <2>19, <3>1, <3>4, WaitingFrame, OtherEvents
      <3>5. QED
        BY <2>19, <3>2, <3>3, <3>4, WaitingFrame
    <2>20. QED
      BY <2>3, <2>4, <2>5, <2>6, <2>7, <2>8, <2>9, <2>10, <2>11, <2>12, <2>13, <2>14, <2>15,
         <2>16, <2>17, <2>18, <2>19
      DEF Next, MainLoop, Tasks, Kernel, Exit
  <1>3. QED
    BY <1>1, <1>2, TypeCorrect, PTL DEF Spec, IInv

\* Whatever clients, probes, timers and the kernel do, and in whatever order, a service
\* that names a process names one the kernel still has, no two name the same one, and no
\* live process is out of the API's reach.
THEOREM ProcessAccounting == Spec => []ProcessesAccountedFor
  <1>1. IInv => ProcessesAccountedFor
    BY DEF IInv, SvcInv
  <1>2. QED
    BY <1>1, SafetyInvariant, PTL

\* However many SIGCHLDs coalesce in the signalfd, every zombie has one on its way to the
\* waitpid loop.
THEOREM NoZombieForgotten == Spec => []ZombieWillBeReaped
  <1>1. IInv => ZombieWillBeReaped
    BY DEF IInv
  <1>2. QED
    BY <1>1, SafetyInvariant, PTL

\* A probe task never outlives the running process it watches, nor has a twin.
THEOREM ProbeDiscipline == Spec => []ProbesFollowRunning
  <1>1. IInv => ProbesFollowRunning
    BY DEF IInv, SvcInv, ServiceConsistent, ProbesFollowRunning
  <1>2. QED
    BY <1>1, SafetyInvariant, PTL

\* The branches of terminate_service_inner that leave Dummy behind are never reached.
THEOREM DummyUnreachable == Spec => []NoDummyStatus
  <1>1. IInv => NoDummyStatus
    BY DEF IInv, SvcInv, ServiceConsistent, NoDummyStatus
  <1>2. QED
    BY <1>1, SafetyInvariant, PTL

\* A graceful-termination task never outlives the termination that started it.
THEOREM TimerDiscipline == Spec => []TimersFollowStopping
  <1>1. IInv => TimersFollowStopping
    <2> SUFFICES ASSUME IInv, NEW t \in timers
                 PROVE  status[t.name].kind = "Stopping" /\ status[t.name].kill = {t.token}
      BY DEF TimersFollowStopping
    <2>1. t.name \in Names
      BY DEF IInv, TypeOK
    <2>2. QED
      BY <2>1 DEF IInv, SvcInv, ServiceConsistent
  <1>2. QED
    BY <1>1, SafetyInvariant, PTL

\* No request or probe failure that was in the channel when the shutdown began brings a
\* service back.
THEOREM ShutdownIsFinal == Spec => []ShutdownStopsAll
  <1>1. IInv => ShutdownStopsAll
    BY DEF IInv, SvcInv, ServiceConsistent, ShutdownStopsAll
  <1>2. QED
    BY <1>1, SafetyInvariant, PTL

-----------------------------------------------------------------------------
(* What a step may do to a service that is stopping.                       *)

\* What PendingOutcomeHonoured says of one service.
OutcomeHonoured(n) ==
    status[n].kind = "Stopping" =>
      \/ /\ status'[n].kind = "Stopping"
         /\ status'[n].pid = status[n].pid
         /\ status[n].after = "Prune" => status'[n].after = "Prune"
         /\ status'[n].after = "RestartAuto" => status[n].after = "RestartAuto"
      \/ status[n].after = "Stop" /\ status'[n].kind = "Stopped"
      \/ status[n].after = "Prune" /\ status'[n].kind = "Absent"
      \/ status[n].after \in Restarts /\ status'[n].kind \in {"Running", "Error"}

\* Starting one service leaves the others' statuses alone.
LEMMA SpawnStatus ==
    ASSUME SvcTypeOK, NEW n \in Names, NEW cfg, NEW reason, NEW procs, NEW probes,
           Spawn(n, cfg, reason, procs, probes)
    PROVE  /\ status'[n].kind \in {"Running", "Error"}
           /\ \A m \in Names \ {n} : status'[m] = status[m]
  <1>1. CASE status' = [status EXCEPT ![n] = Error]
    BY <1>1, Constructors DEF SvcTypeOK
  <1>2. CASE \E p \in Pids : status' = [status EXCEPT ![n] = Running(p)]
    BY <1>2, Constructors DEF SvcTypeOK
  <1>3. QED
    BY <1>1, <1>2 DEF Spawn

\* terminate_service_inner touches one service, and of one that is stopping it changes
\* what comes after at most, as AfterStop::merge says.
LEMMA TerminateOutcome ==
    ASSUME SvcTypeOK, NEW n \in Names, NEW a \in AfterStop, TerminateInner(n, a)
    PROVE  \A m \in Names : OutcomeHonoured(m)
  <1>1. status[n] \in ServiceStatus
    BY DEF SvcTypeOK
  <1>2. \A m \in Names \ {n} : status'[m] = status[m]
    <2>1. CASE TerminateIdle(n, a)
      BY <2>1, SpawnStatus DEF TerminateIdle, Remove, svcVars, SvcTypeOK
    <2>2. CASE TerminateStopping(n, a) \/ TerminateFrozen(n, a) \/ TerminateRunning(n, a)
      BY <2>2 DEF TerminateStopping, TerminateFrozen, TerminateRunning, SvcTypeOK
    <2>3. QED
      BY <2>1, <2>2 DEF TerminateInner
  <1>3. ASSUME status[n].kind = "Stopping"
        PROVE  OutcomeHonoured(n)
    <2>1. TerminateStopping(n, a)
      BY <1>3 DEF TerminateInner, TerminateIdle, TerminateFrozen, TerminateRunning, NoProcess
    <2>2. /\ status[n].pid \in Pids /\ status[n].after \in AfterStop
          /\ status[n].kill \in SUBSET Tokens
      BY <1>1, <1>3, StatusFields
    <2>3. Merge(status[n].after, a) \in AfterStop
      BY <2>2 DEF Merge, AfterStop
    <2>4. status'[n] = Stopping(status[n].pid, Merge(status[n].after, a), status[n].kill)
      BY <2>1 DEF TerminateStopping, SvcTypeOK
    <2>5. /\ status'[n].kind = "Stopping" /\ status'[n].pid = status[n].pid
          /\ status'[n].after = Merge(status[n].after, a)
      BY <2>2, <2>3, <2>4, Constructors
    <2>6. QED
      BY <2>5 DEF OutcomeHonoured, Merge
  <1>4. QED
    BY <1>2, <1>3 DEF OutcomeHonoured

\* A step that leaves a status alone honours it.
LEMMA SameOutcome ==
    ASSUME NEW n \in Names, status[n].kind = "Stopping" => status'[n] = status[n]
    PROVE  OutcomeHonoured(n)
  BY DEF OutcomeHonoured

\* The waitpid loop ends the termination of the service whose process it returned as its
\* after_stop says.
LEMMA ReapOutcome ==
    ASSUME SvcTypeOK, NEW p \in Pids, Reap(p)
    PROVE  \A m \in Names : OutcomeHonoured(m)
  <1>1. CASE status' = status
    BY <1>1, SameOutcome
  <1>2. ASSUME NEW n \in Names, status[n].kind \in {"Running", "Frozen"}, NEW s,
               status' = [status EXCEPT ![n] = s]
        PROVE  \A m \in Names : OutcomeHonoured(m)
    BY <1>2, SameOutcome DEF SvcTypeOK
  <1>3. ASSUME NEW n \in Names, status[n].kind = "Stopping",
               \/ /\ status[n].after = "Stop"
                  /\ status' = [status EXCEPT ![n] = Stopped]
               \/ /\ status[n].after = "Prune"
                  /\ Remove(n)
               \/ /\ status[n].after \in Restarts
                  /\ \/ status' = [status EXCEPT ![n] = Stopping(@.pid, @.after, {})]
                     \/ Spawn(n, config[n], status[n].after, [proc EXCEPT ![p] = "free"],
                              AbortProbe(probe, n))
        PROVE  \A m \in Names : OutcomeHonoured(m)
    <2>1. /\ status[n] \in ServiceStatus /\ status[n].pid \in Pids
          /\ status[n].after \in AfterStop
      BY <1>3, StatusFields DEF SvcTypeOK
    <2>2. \A m \in Names \ {n} : status'[m] = status[m]
      BY <1>3, SpawnStatus DEF Remove, SvcTypeOK
    <2>3. CASE status[n].after = "Stop" /\ status' = [status EXCEPT ![n] = Stopped]
      BY <2>2, <2>3, Constructors DEF OutcomeHonoured, SvcTypeOK
    <2>4. CASE status[n].after = "Prune" /\ Remove(n)
      BY <2>2, <2>4, Constructors DEF OutcomeHonoured, Remove, SvcTypeOK
    <2>5. CASE /\ status[n].after \in Restarts
               /\ status' = [status EXCEPT ![n] = Stopping(@.pid, @.after, {})]
      <3>1. /\ status'[n] = Stopping(status[n].pid, status[n].after, {})
            /\ {} \in SUBSET Tokens
        BY <2>5 DEF SvcTypeOK
      <3>2. /\ status'[n].kind = "Stopping" /\ status'[n].pid = status[n].pid
            /\ status'[n].after = status[n].after
        BY <2>1, <3>1, Constructors
      <3>3. QED
        BY <2>2, <3>2 DEF OutcomeHonoured
    <2>6. CASE /\ status[n].after \in Restarts
               /\ Spawn(n, config[n], status[n].after, [proc EXCEPT ![p] = "free"],
                        AbortProbe(probe, n))
      <3>1. status'[n].kind \in {"Running", "Error"}
        BY <2>6, SpawnStatus
      <3>2. QED
        BY <2>2, <2>6, <3>1 DEF OutcomeHonoured
    <2>7. QED
      BY <1>3, <2>3, <2>4, <2>5, <2>6
  <1>4. QED
    BY <1>1, <1>2, <1>3 DEF Reap

\* The handlers of the other requests do not touch a service that is stopping.
LEMMA RequestOutcome ==
    ASSUME SvcTypeOK, NEW r \in Requests \cup {BootstrapRequest},
           \/ CreateService(r) \/ StopService(r) \/ FreezeService(r)
           \/ ThawService(r) \/ SendSignal(r) \/ NotifyPty(r)
    PROVE  \A m \in Names : OutcomeHonoured(m)
  <1>1. r.name \in Names
    BY RequestFacts
  <1>2. CASE status' = status
    BY <1>2, SameOutcome
  <1>3. CASE CreateService(r)
    <2>1. CASE /\ status[r.name] = Absent
               /\ Spawn(r.name, r.cfg, "RestartUser", proc, probe)
      <3>1. \A m \in Names \ {r.name} : status'[m] = status[m]
        BY <1>1, <2>1, SpawnStatus
      <3>2. status[r.name].kind = "Absent"
        BY <2>1, Constructors
      <3>3. QED
        BY <3>1, <3>2, SameOutcome
    <2>2. QED
      BY <1>2, <1>3, <2>1 DEF CreateService, svcVars
  <1>4. CASE StopService(r)
    <2>1. r.op \in AfterStop
      BY <1>4, RequestFacts DEF StopService
    <2>2. QED
      BY <1>1, <1>2, <1>4, <2>1, TerminateOutcome DEF StopService, StopServiceCmd, svcVars
  <1>5. ASSUME NEW s, status[r.name].kind # "Stopping",
               status' = [status EXCEPT ![r.name] = s]
        PROVE  \A m \in Names : OutcomeHonoured(m)
    BY <1>1, <1>5, SameOutcome DEF SvcTypeOK
  <1>6. CASE FreezeService(r)
    BY <1>2, <1>5, <1>6 DEF FreezeService
  <1>7. CASE ThawService(r)
    BY <1>2, <1>5, <1>7 DEF ThawService
  <1>8. CASE SendSignal(r) \/ NotifyPty(r)
    BY <1>2, <1>8 DEF SendSignal, NotifyPty
  <1>9. QED
    BY <1>3, <1>4, <1>6, <1>7, <1>8

\* So it is for every step.
LEMMA OutcomeSteps ==
    TypeOK /\ [Next]_vars => [\A n \in Names : OutcomeHonoured(n)]_vars
  <1> SUFFICES ASSUME SvcTypeOK, LoopTypeOK, Next
               PROVE  \A n \in Names : OutcomeHonoured(n)
    BY TypeSplit
  <1>1. CASE HandleRequest
    BY <1>1, RequestOutcome DEF HandleRequest
  <1>2. CASE AutomaticRestart
    <2>1. PICK n \in Names : StopServiceCmd(n, Root, "RestartAuto")
      BY <1>2 DEF AutomaticRestart
    <2>2. CASE TerminateInner(n, "RestartAuto")
      BY <2>2, TerminateOutcome DEF AfterStop
    <2>3. CASE UNCHANGED svcVars
      BY <2>3, SameOutcome DEF svcVars
    <2>4. QED
      BY <2>1, <2>2, <2>3 DEF StopServiceCmd
  <1>3. ASSUME NEW p \in Pids, Reap(p)
        PROVE  \A n \in Names : OutcomeHonoured(n)
    BY <1>3, ReapOutcome
  <1>4. CASE StopNext
    BY <1>4, TerminateOutcome DEF StopNext, AfterStop, LoopTypeOK
  <1>5. CASE status' = status
    BY <1>5, SameOutcome
  <1>6. CASE \/ ForceKillService \/ BeginReap \/ EndReap \/ BeginShutdown \/ EndStopAll
             \/ LoopTail \/ Kernel \/ Exit
    BY <1>5, <1>6 DEF ForceKillService, BeginReap, EndReap, BeginShutdown, EndStopAll,
                      LoopTail, Kernel, Die, OrphanDies, StopContainer, Exit, svcVars, vars
  <1>7. CASE Tasks
    BY <1>5, <1>7 DEF Tasks, ReadSignal, ForwardSignal, SendRequest, ProbeFails,
                      ProbeGivesUp, TimerFires, svcVars
  <1>8. CASE CopyLogs \/ LogTurn \/ StartHangs
    BY <1>5, <1>8, WaitingFrame
  <1>9. QED
    BY <1>1, <1>2, <1>3, <1>4, <1>6, <1>7, <1>8 DEF Next, MainLoop

\* Whatever is asked of a stopping service, and however often, it stays in the
\* termination of the process it has until waitpid returns it, and then ends as the
\* strongest of the requests says.
THEOREM OutcomesHonoured == Spec => PendingOutcomeHonoured
  <1>1. [\A n \in Names : OutcomeHonoured(n)]_vars =>
          [ \A n \in Names : status[n].kind = "Stopping" =>
          LET s == status[n]
              t == status'[n]
          IN \/ /\ t.kind = "Stopping"
                /\ t.pid = s.pid
                /\ s.after = "Prune" => t.after = "Prune"
                /\ t.after = "RestartAuto" => s.after = "RestartAuto"
             \/ s.after = "Stop" /\ t.kind = "Stopped"
             \/ s.after = "Prune" /\ t.kind = "Absent"
             \/ s.after \in Restarts /\ t.kind \in {"Running", "Error"} ]_vars
    BY DEF OutcomeHonoured
  <1>2. QED
    BY OutcomeSteps, <1>1, TypeCorrect, PTL DEF Spec, PendingOutcomeHonoured

-----------------------------------------------------------------------------
(* What a client may see of a step.                                        *)

\* What a step does to the kind of a service that is not stopping.
KindFlows(n) ==
    \/ status'[n] = status[n]
    \/ status[n].kind = "Stopping"
    \/ status[n].kind = "Absent" /\ status'[n].kind \in {"Running", "Error"}
    \/ /\ status[n].kind \in {"Running", "Frozen"}
       /\ status'[n].kind \in {"Running", "Frozen", "Exited", "Stopping"}
    \/ NoProcess(status[n]) /\ status'[n].kind \in {"Running", "Error", "Absent"}

\* terminate_service_inner, as long as it does not leave the placeholder behind.
LEMMA TerminateFlows ==
    ASSUME SvcTypeOK, NEW n \in Names, NEW a \in AfterStop, TerminateInner(n, a),
           \A m \in Names : status'[m].kind # "Dummy"
    PROVE  \A m \in Names : KindFlows(m)
  <1>1. \A m \in Names \ {n} : status'[m] = status[m]
    <2>1. CASE TerminateIdle(n, a)
      BY <2>1, SpawnStatus DEF TerminateIdle, Remove, svcVars, SvcTypeOK
    <2>2. CASE TerminateStopping(n, a) \/ TerminateFrozen(n, a) \/ TerminateRunning(n, a)
      BY <2>2 DEF TerminateStopping, TerminateFrozen, TerminateRunning, SvcTypeOK
    <2>3. QED
      BY <2>1, <2>2 DEF TerminateInner
  <1>2. status[n] \in ServiceStatus
    BY DEF SvcTypeOK
  <1>3. CASE TerminateIdle(n, a)
    <2>1. NoProcess(status[n])
      BY <1>3 DEF TerminateIdle
    <2>2. CASE status'[n] = Dummy
      BY <2>2, Constructors
    <2>3. CASE \E cfg, reason, procs, probes : Spawn(n, cfg, reason, procs, probes)
      BY <2>1, <2>3, <1>1, SpawnStatus DEF KindFlows
    <2>4. CASE Remove(n)
      BY <2>1, <2>4, <1>1, Constructors DEF Remove, KindFlows, SvcTypeOK
    <2>5. CASE UNCHANGED svcVars
      BY <2>5 DEF svcVars, KindFlows
    <2>6. QED
      BY <1>3, <2>2, <2>3, <2>4, <2>5 DEF TerminateIdle, SvcTypeOK
  <1>4. CASE TerminateStopping(n, a)
    BY <1>1, <1>4 DEF TerminateStopping, KindFlows
  <1>5. CASE TerminateFrozen(n, a) \/ TerminateRunning(n, a)
    <2>1. /\ status[n].kind \in {"Running", "Frozen"}
          /\ \E k \in SUBSET Tokens : status'[n] = Stopping(status[n].pid, a, k)
      BY <1>5 DEF TerminateFrozen, TerminateRunning, SvcTypeOK
    <2>2. status'[n].kind = "Stopping"
      BY <1>2, <2>1, StatusFields, Constructors
    <2>3. QED
      BY <1>1, <2>1, <2>2 DEF KindFlows
  <1>6. QED
    BY <1>3, <1>4, <1>5 DEF TerminateInner

\* The waitpid loop: a process that was not being terminated has exited.
LEMMA ReapFlows ==
    ASSUME SvcTypeOK, NEW p \in Pids, Reap(p)
    PROVE  \A m \in Names : KindFlows(m)
  <1>1. CASE status' = status
    BY <1>1 DEF KindFlows
  <1>2. ASSUME NEW n \in Names, status[n].kind \in {"Running", "Frozen"},
               NEW e \in ExitStatuses, status' = [status EXCEPT ![n] = Exited(e)]
        PROVE  \A m \in Names : KindFlows(m)
    BY <1>2, Constructors DEF KindFlows, SvcTypeOK
  <1>3. ASSUME NEW n \in Names, status[n].kind = "Stopping",
               \/ \E s : status' = [status EXCEPT ![n] = s]
               \/ \E cfg, reason, procs, probes : Spawn(n, cfg, reason, procs, probes)
        PROVE  \A m \in Names : KindFlows(m)
    BY <1>3, SpawnStatus DEF KindFlows, SvcTypeOK
  <1>4. QED
    BY <1>1, <1>2, <1>3 DEF Reap, Remove

\* The handlers of requests.
LEMMA RequestFlows ==
    ASSUME SvcTypeOK, NEW r \in Requests \cup {BootstrapRequest},
           \A m \in Names : status'[m].kind # "Dummy",
           \/ CreateService(r) \/ StopService(r) \/ FreezeService(r)
           \/ ThawService(r) \/ SendSignal(r) \/ NotifyPty(r)
    PROVE  \A m \in Names : KindFlows(m)
  <1>1. r.name \in Names /\ status[r.name] \in ServiceStatus
    BY RequestFacts DEF SvcTypeOK
  <1>2. CASE status' = status
    BY <1>2 DEF KindFlows
  <1>3. CASE CreateService(r)
    <2>1. CASE /\ status[r.name] = Absent
               /\ Spawn(r.name, r.cfg, "RestartUser", proc, probe)
      BY <1>1, <2>1, SpawnStatus, Constructors DEF KindFlows
    <2>2. QED
      BY <1>2, <1>3, <2>1 DEF CreateService, svcVars
  <1>4. CASE StopService(r)
    <2>1. r.op \in AfterStop
      BY <1>4, RequestFacts DEF StopService
    <2>2. QED
      BY <1>1, <1>2, <1>4, <2>1, TerminateFlows DEF StopService, StopServiceCmd, svcVars
  <1>5. ASSUME NEW s, status[r.name].kind \in {"Running", "Frozen"},
               s \in {Running(status[r.name].pid), Frozen(status[r.name].pid)},
               status' = [status EXCEPT ![r.name] = s]
        PROVE  \A m \in Names : KindFlows(m)
    <2>1. s.kind \in {"Running", "Frozen"}
      BY <1>1, <1>5, StatusFields, Constructors
    <2>2. QED
      BY <1>1, <1>5, <2>1 DEF KindFlows, SvcTypeOK
  <1>6. CASE FreezeService(r)
    BY <1>2, <1>5, <1>6 DEF FreezeService
  <1>7. CASE ThawService(r)
    BY <1>2, <1>5, <1>7 DEF ThawService
  <1>8. CASE SendSignal(r) \/ NotifyPty(r)
    BY <1>2, <1>8 DEF SendSignal, NotifyPty
  <1>9. QED
    BY <1>3, <1>4, <1>6, <1>7, <1>8

\* A change of status that flows, and ends a termination as it should, is a step of the
\* life cycle.
LEMMA FlowIsLife ==
    ASSUME NEW n \in Names, status[n] \in ServiceStatus, status'[n] \in ServiceStatus,
           KindFlows(n), OutcomeHonoured(n)
    PROVE  [Life(n)!Next]_(ApiStatus(status[n]))
  <1> DEFINE s == status[n]
             t == status'[n]
  <1>1. CASE t = s
    BY <1>1
  <1>2. CASE s.kind = "Stopping"
    <2>1. s.after \in AfterStop
      BY <1>2, StatusFields
    <2>2. CASE t.kind = "Stopping"
      <3>1. t.after \in AfterStop
        BY <2>2, StatusFields
      <3>2. s.after = "Prune" => t.after = "Prune"
        BY <1>2, <2>2 DEF OutcomeHonoured
      <3>3. QED
        BY <1>2, <2>1, <2>2, <3>1, <3>2
           DEF ApiStatus, AfterStop, Restarts, Life!Next, Life!Follow, Life!StoppingTo,
               Life!Plain, Life!Absent, Life!Started, Life!Idle, Life!Outcomes
    <2>3. CASE t.kind # "Stopping"
      BY <1>2, <2>1, <2>3
         DEF OutcomeHonoured, ApiStatus, AfterStop, Restarts, Life!Next, Life!Follow,
             Life!StoppingTo, Life!Plain, Life!Absent, Life!Started, Life!Idle
    <2>4. QED
      BY <2>2, <2>3
  <1>3. CASE s.kind = "Absent" /\ t.kind \in {"Running", "Error"}
    BY <1>3 DEF ApiStatus, Life!Next, Life!Follow, Life!Plain, Life!Absent, Life!Started,
                Life!Idle, Life!StoppingTo
  <1>4. CASE /\ s.kind \in {"Running", "Frozen"}
             /\ t.kind \in {"Running", "Frozen", "Exited", "Stopping"}
    <2>1. t.kind = "Stopping" => t.after \in AfterStop
      BY StatusFields
    <2>2. QED
      BY <1>4, <2>1
         DEF ApiStatus, AfterStop, Restarts, Life!Next, Life!Follow, Life!StoppingTo,
             Life!Plain, Life!Absent, Life!Started, Life!Idle, Life!Outcomes
  <1>5. CASE NoProcess(s) /\ t.kind \in {"Running", "Error", "Absent"}
    BY <1>5 DEF NoProcess, ApiStatus, Life!Next, Life!Follow, Life!Plain, Life!Absent,
                Life!Started, Life!Idle, Life!StoppingTo
  <1>6. QED
    BY <1>1, <1>2, <1>3, <1>4, <1>5 DEF KindFlows

\* ServiceManager implements Lifecycle for every service: whatever the order of requests,
\* reports, timers and exits, what a client is told changes as Lifecycle says.
THEOREM LifecycleRefinement == Spec => ImplementsLifecycle
  <1>1. Init => \A n \in Names : Life(n)!Init
    BY DEF Init, Life!Init, Life!Absent, Life!Plain, ApiStatus, Absent
  <1>2. IInv /\ IInv' /\ [Next]_vars /\ [\A n \in Names : OutcomeHonoured(n)]_vars
          => [\A n \in Names : [Life(n)!Next]_(ApiStatus(status[n]))]_vars
    <2> SUFFICES ASSUME IInv, IInv', Next, \A n \in Names : OutcomeHonoured(n)
                 PROVE  \A n \in Names : [Life(n)!Next]_(ApiStatus(status[n]))
      OBVIOUS
    <2>1. /\ SvcTypeOK /\ LoopTypeOK
          /\ \A n \in Names : status'[n] \in ServiceStatus
          /\ \A n \in Names : status'[n].kind # "Dummy"
      <3>1. SvcTypeOK /\ LoopTypeOK
        BY TypeSplit DEF IInv
      <3>2. \A n \in Names : status'[n] \in ServiceStatus
        BY DEF IInv, TypeOK
      <3>3. \A n \in Names : status'[n].kind # "Dummy"
        BY DEF IInv, SvcInv, ServiceConsistent
      <3>4. QED
        BY <3>1, <3>2, <3>3
    <2>2. \A n \in Names : KindFlows(n)
      <3>1. CASE HandleRequest
        BY <2>1, <3>1, RequestFlows DEF HandleRequest
      <3>2. CASE AutomaticRestart
        <4>1. PICK n \in Names : StopServiceCmd(n, Root, "RestartAuto")
          BY <3>2 DEF AutomaticRestart
        <4>2. CASE TerminateInner(n, "RestartAuto")
          BY <2>1, <4>2, TerminateFlows DEF AfterStop
        <4>3. CASE UNCHANGED svcVars
          BY <4>3 DEF svcVars, KindFlows
        <4>4. QED
          BY <4>1, <4>2, <4>3 DEF StopServiceCmd
      <3>3. ASSUME NEW p \in Pids, Reap(p)
            PROVE  \A n \in Names : KindFlows(n)
        BY <2>1, <3>3, ReapFlows
      <3>4. CASE StopNext
        BY <2>1, <3>4, TerminateFlows DEF StopNext, AfterStop, LoopTypeOK
      <3>5. CASE status' = status
        BY <3>5 DEF KindFlows
      <3>6. CASE \/ ForceKillService \/ BeginReap \/ EndReap \/ BeginShutdown \/ EndStopAll
                 \/ LoopTail \/ Kernel \/ Exit
        BY <3>5, <3>6 DEF ForceKillService, BeginReap, EndReap, BeginShutdown, EndStopAll,
                          LoopTail, Kernel, Die, OrphanDies, StopContainer, Exit, svcVars, vars
      <3>7. CASE Tasks
        BY <3>5, <3>7 DEF Tasks, ReadSignal, ForwardSignal, SendRequest, ProbeFails,
                          ProbeGivesUp, TimerFires, svcVars
      <3>8. CASE CopyLogs \/ LogTurn \/ StartHangs
        BY <3>5, <3>8, WaitingFrame
      <3>9. QED
        BY <3>1, <3>2, <3>3, <3>4, <3>6, <3>7, <3>8 DEF Next, MainLoop
    <2>3. QED
      BY <2>1, <2>2, FlowIsLife DEF SvcTypeOK
  <1>3. Spec => [][\A n \in Names : OutcomeHonoured(n)]_vars
    BY OutcomeSteps, TypeCorrect, PTL DEF Spec
  <1>4. QED
    BY <1>1, <1>2, <1>3, SafetyInvariant, PTL DEF Spec, ImplementsLifecycle

-----------------------------------------------------------------------------
(* What a request may do to a service that is not its user's.              *)

\* The step changes neither the entry, the configuration nor the process of n.
Untouched(n) ==
    /\ status'[n] = status[n]
    /\ config'[n] = config[n]
    /\ HasProcess(status[n]) => proc'[status[n].pid] = proc[status[n].pid]

\* A signal to the process of one service does not reach another's.
LEMMA SignalUntouched ==
    ASSUME SvcTypeOK, ProcessesAccountedFor, NEW k \in Names, HasProcess(status[k]), NEW sig,
           proc' = Signalled(proc, status[k].pid, sig),
           NEW n \in Names \ {k}, HasProcess(status[n])
    PROVE  proc'[status[n].pid] = proc[status[n].pid]
  <1>1. /\ status[k].pid \in Pids /\ status[n].pid \in Pids
        /\ status[n].pid # status[k].pid
    BY StatusFields DEF SvcTypeOK, HasProcess, ProcessesAccountedFor
  <1>2. QED
    BY <1>1, SignalledFacts DEF SvcTypeOK

\* A process that is started is not the one of another service.
LEMMA SpawnUntouched ==
    ASSUME SvcTypeOK, ProcessesAccountedFor, NEW k \in Names, NEW cfg, NEW reason,
           Spawn(k, cfg, reason, proc, probe), NEW n \in Names \ {k}
    PROVE  /\ status'[n] = status[n]
           /\ HasProcess(status[n]) => proc'[status[n].pid] = proc[status[n].pid]
  <1>1. status'[n] = status[n]
    BY SpawnStatus
  <1>2. ASSUME HasProcess(status[n])
        PROVE  proc'[status[n].pid] = proc[status[n].pid]
    <2>1. status[n].pid \in Pids /\ proc[status[n].pid] # "free"
      BY <1>2, StatusFields DEF SvcTypeOK, HasProcess, ProcessesAccountedFor
    <2>2. CASE proc' = proc
      BY <2>2
    <2>3. CASE \E p \in Pids : proc[p] = "free" /\ proc' = [proc EXCEPT ![p] = "running"]
      BY <2>1, <2>3 DEF SvcTypeOK
    <2>4. QED
      BY <2>2, <2>3 DEF Spawn
  <1>3. QED
    BY <1>1, <1>2

\* terminate_service_inner touches the service it is called for only.
LEMMA TerminateUntouched ==
    ASSUME SvcTypeOK, ProcessesAccountedFor, NEW k \in Names, NEW a \in AfterStop,
           TerminateInner(k, a), NEW n \in Names \ {k}
    PROVE  Untouched(n)
  <1>1. CASE TerminateIdle(k, a)
    <2>1. CASE Spawn(k, config[k], a, proc, probe) /\ UNCHANGED config
      BY <2>1, SpawnUntouched DEF Untouched
    <2>2. CASE UNCHANGED svcVars
      BY <2>2 DEF Untouched, svcVars
    <2>3. CASE Remove(k) /\ UNCHANGED proc
      BY <2>3 DEF Untouched, Remove, SvcTypeOK
    <2>4. CASE status' = [status EXCEPT ![k] = Dummy] /\ UNCHANGED <<config, proc>>
      BY <2>4 DEF Untouched, SvcTypeOK
    <2>5. QED
      BY <1>1, <2>1, <2>2, <2>3, <2>4 DEF TerminateIdle
  <1>2. CASE TerminateStopping(k, a)
    BY <1>2 DEF TerminateStopping, Untouched, SvcTypeOK
  <1>3. CASE TerminateFrozen(k, a)
    <2>1. HasProcess(status[k])
      BY <1>3 DEF TerminateFrozen, HasProcess
    <2>2. HasProcess(status[n]) => proc'[status[n].pid] = proc[status[n].pid]
      BY <1>3, <2>1, SignalUntouched DEF TerminateFrozen
    <2>3. QED
      BY <1>3, <2>2 DEF TerminateFrozen, Untouched, SvcTypeOK
  <1>4. CASE TerminateRunning(k, a)
    <2>1. HasProcess(status[k])
      BY <1>4 DEF TerminateRunning, HasProcess
    <2>2. HasProcess(status[n]) => proc'[status[n].pid] = proc[status[n].pid]
      <3>1. CASE proc' = proc
        BY <3>1
      <3>2. CASE proc' = Signalled(proc, status[k].pid, "SIGKILL")
        BY <2>1, <3>2, SignalUntouched
      <3>3. QED
        BY <1>4, <3>1, <3>2 DEF TerminateRunning
    <2>3. status'[n] = status[n] /\ config'[n] = config[n]
      BY <1>4 DEF TerminateRunning, SvcTypeOK
    <2>4. QED
      BY <2>2, <2>3 DEF Untouched
  <1>5. QED
    BY <1>1, <1>2, <1>3, <1>4 DEF TerminateInner

\* A request touches one service at most, and none without the credentials for it.
LEMMA RequestUntouched ==
    ASSUME SvcTypeOK, ProcessesAccountedFor, NEW r \in Requests \cup {BootstrapRequest},
           \/ CreateService(r) \/ StopService(r) \/ FreezeService(r)
           \/ ThawService(r) \/ SendSignal(r) \/ NotifyPty(r),
           NEW n \in Names, status[n] # Absent,
           n = Bootstrap \/ r.uid \notin {Root, config[n].owner}
    PROVE  Untouched(n)
  <1>1. r.name \in Names
    BY RequestFacts
  <1>2. PermittedMut(r.name, r.uid) => n # r.name
    BY DEF PermittedMut, Permitted
  <1>3. CASE UNCHANGED <<status, config, proc>>
    BY <1>3 DEF Untouched
  <1>4. CASE CreateService(r)
    <2>1. CASE /\ status[r.name] = Absent
               /\ config' = [config EXCEPT ![r.name] = r.cfg]
               /\ Spawn(r.name, r.cfg, "RestartUser", proc, probe)
      <3>1. n # r.name
        BY <2>1
      <3>2. config'[n] = config[n]
        BY <1>1, <2>1, <3>1 DEF SvcTypeOK
      <3>3. QED
        BY <1>1, <2>1, <3>1, <3>2, SpawnUntouched DEF Untouched
    <2>2. QED
      BY <1>3, <1>4, <2>1 DEF CreateService, svcVars
  <1>5. CASE StopService(r)
    <2>1. r.op \in AfterStop
      BY <1>5, RequestFacts DEF StopService
    <2>2. CASE PermittedMut(r.name, r.uid) /\ TerminateInner(r.name, r.op)
      BY <1>1, <1>2, <2>1, <2>2, TerminateUntouched
    <2>3. QED
      BY <1>3, <1>5, <2>2 DEF StopService, StopServiceCmd, MayTerminate, svcVars
  <1>6. ASSUME PermittedMut(r.name, r.uid), HasProcess(status[r.name]), NEW sig,
               proc' = Signalled(proc, status[r.name].pid, sig), UNCHANGED config,
               \/ UNCHANGED status
               \/ \E s \in {Running(status[r.name].pid), Frozen(status[r.name].pid)} :
                    status' = [status EXCEPT ![r.name] = s]
        PROVE  Untouched(n)
    <2>1. n # r.name
      BY <1>2, <1>6
    <2>2. HasProcess(status[n]) => proc'[status[n].pid] = proc[status[n].pid]
      BY <1>1, <1>6, <2>1, SignalUntouched
    <2>3. QED
      BY <1>1, <1>6, <2>1, <2>2 DEF Untouched, SvcTypeOK
  <1>7. CASE FreezeService(r)
    BY <1>3, <1>6, <1>7 DEF FreezeService, HasProcess
  <1>8. CASE ThawService(r)
    BY <1>3, <1>6, <1>8 DEF ThawService, HasProcess
  <1>9. CASE SendSignal(r)
    BY <1>3, <1>6, <1>9 DEF SendSignal
  <1>10. CASE NotifyPty(r)
    BY <1>3, <1>6, <1>10 DEF NotifyPty, HasProcess
  <1>11. QED
    BY <1>4, <1>5, <1>7, <1>8, <1>9, <1>10

\* Only the handler of e takes e from the channel.
LEMMA HandledRequest ==
    ASSUME Next, NEW r \in Requests \cup {BootstrapRequest}, Handled(Command(r))
    PROVE  \/ CreateService(r) \/ StopService(r) \/ FreezeService(r)
           \/ ThawService(r) \/ SendSignal(r) \/ NotifyPty(r)
           \/ CopyLogs \/ StartHangs
  <1>1. main = "recv" /\ main' # "recv" /\ Head(queue) = Command(r)
    BY DEF Handled
  <1>2. HandleRequest \/ CopyLogs \/ StartHangs
    <2>1. \A e, next : Receive(e, next) => e = Command(r)
      BY <1>1 DEF Receive
    <2>2. ~(ForceKillService \/ AutomaticRestart \/ BeginReap \/ BeginShutdown)
      BY <2>1 DEF ForceKillService, AutomaticRestart, BeginReap, BeginShutdown, Command,
                  ForceKill, ProbeFailed, Signal
    <2>3. /\ \A p \in Pids : ~Reap(p)
          /\ ~(EndReap \/ StopNext \/ EndStopAll \/ LoopTail \/ LogTurn)
      BY <1>1 DEF Reap, EndReap, StopNext, EndStopAll, LoopTail, LogTurn
    <2>4. ~Tasks
      BY <1>1 DEF Tasks, ReadSignal, ForwardSignal, SendRequest, ProbeFails, ProbeGivesUp,
                  TimerFires, loopVars
    <2>5. ~Kernel /\ ~Exit
      BY <1>1 DEF Kernel, Die, OrphanDies, StopContainer, Exit, loopVars, vars
    <2>6. QED
      BY <2>2, <2>3, <2>4, <2>5 DEF Next, MainLoop
  <1>3. SUFFICES ASSUME HandleRequest
                 PROVE  \/ CreateService(r) \/ StopService(r) \/ FreezeService(r)
                        \/ ThawService(r) \/ SendSignal(r) \/ NotifyPty(r)
    BY <1>2
  <1>4. PICK s \in Requests \cup {BootstrapRequest} :
          \/ CreateService(s) \/ StopService(s) \/ FreezeService(s)
          \/ ThawService(s) \/ SendSignal(s) \/ NotifyPty(s)
    BY <1>3 DEF HandleRequest
  <1>5. Command(s) = Command(r)
    BY <1>1, <1>4 DEF CreateService, StopService, FreezeService, ThawService, SendSignal,
                      NotifyPty, HandleCommand, Receive
  <1>6. s = r
    BY <1>5 DEF Command
  <1>7. QED
    BY <1>4, <1>6

\* No request of any client, in any state of the services, touches bootstrap or another
\* user's service, its process included.
THEOREM OwnershipHolds == Spec => OwnershipRespected
  <1>1. IInv /\ [Next]_vars =>
          [ \A r \in Requests : Handled(Command(r)) =>
              \A n \in Names :
                 status[n] # Absent /\ (n = Bootstrap \/ r.uid \notin {Root, config[n].owner})
                   => Untouched(n) ]_vars
    <2> SUFFICES ASSUME SvcTypeOK, ProcessesAccountedFor, Next,
                        NEW r \in Requests, Handled(Command(r)),
                        NEW n \in Names, status[n] # Absent,
                        n = Bootstrap \/ r.uid \notin {Root, config[n].owner}
                 PROVE  Untouched(n)
      BY TypeSplit DEF IInv, SvcInv
    <2>1. \/ CreateService(r) \/ StopService(r) \/ FreezeService(r)
          \/ ThawService(r) \/ SendSignal(r) \/ NotifyPty(r)
          \/ CopyLogs \/ StartHangs
      BY HandledRequest
    <2>2. CASE CopyLogs \/ StartHangs
      BY <2>2, WaitingFrame DEF Untouched
    <2>3. QED
      BY <2>1, <2>2, RequestUntouched
  <1>2. QED
    BY <1>1, SafetyInvariant, PTL DEF Spec, OwnershipRespected, Untouched

-----------------------------------------------------------------------------
(* The tokens of the terminations.                                         *)

\* A token is fresh: no two tasks have the same one, and none has one whose event is
\* still in the channel.
TokenInv ==
    /\ \A t, u \in timers : t.token = u.token => t = u
    /\ \A t \in timers, n \in Names : ~InQueue(ForceKill(n, t.token))

\* No ForceKillService has entered the channel in this step.
NoNewKill == \A n \in Names, k \in Tokens : InQueue(ForceKill(n, k))' => InQueue(ForceKill(n, k))

\* Two ForceKillService events with one token are events of one termination's.
LEMMA KillEvents ==
    /\ \A m, n, k, l : ForceKill(m, k) = ForceKill(n, l) => m = n /\ k = l
    /\ \A n, k, r : ForceKill(n, k) # Command(r)
    /\ \A n, k, m : ForceKill(n, k) # ProbeFailed(m)
    /\ \A n, k, s : ForceKill(n, k) # Signal(s)
  BY DEF ForceKill, Command, ProbeFailed, Signal

\* Tasks that end take their tokens with them.
LEMMA TokensKept ==
    ASSUME SvcTypeOK, TokenInv, timers' \subseteq timers, NoNewKill
    PROVE  TokenInv'
  <1>1. \A t \in timers : t.token \in Tokens
    BY DEF SvcTypeOK
  <1>2. ASSUME NEW t \in timers', NEW n \in Names, InQueue(ForceKill(n, t.token))'
        PROVE  FALSE
    BY <1>1, <1>2 DEF TokenInv, NoNewKill
  <1>3. QED
    BY <1>2 DEF TokenInv

\* A task that starts has a token no task and no event has.
LEMMA TokensFresh ==
    ASSUME SvcTypeOK, TokenInv, NEW n \in Names, NEW k \in Tokens \ UsedTokens,
           timers' = timers \cup {[name |-> n, token |-> k]}, NoNewKill
    PROVE  TokenInv'
  <1>1. /\ \A t \in timers : t.token \in Tokens /\ t.token # k
        /\ \A m \in Names : ~InQueue(ForceKill(m, k))
    <2>1. k \notin {t.token : t \in timers}
      BY Zenon DEF UsedTokens
    <2>2. k \notin {t \in Tokens : \E m \in Names : InQueue(ForceKill(m, t))}
      BY Zenon DEF UsedTokens
    <2>3. \A t \in timers : t.token \in Tokens /\ t.token # k
      BY <2>1 DEF SvcTypeOK
    <2>4. \A m \in Names : ~InQueue(ForceKill(m, k))
      BY <2>2
    <2>5. QED
      BY <2>3, <2>4
  <1>2. \A t \in timers' : t \in timers \/ (t = [name |-> n, token |-> k] /\ t.token = k)
    OBVIOUS
  <1>3. ASSUME NEW t \in timers', NEW u \in timers', t.token = u.token
        PROVE  t = u
    BY <1>1, <1>2, <1>3 DEF TokenInv
  <1>4. ASSUME NEW t \in timers', NEW m \in Names, InQueue(ForceKill(m, t.token))'
        PROVE  FALSE
    <2>1. InQueue(ForceKill(m, t.token))
      BY <1>1, <1>2, <1>4 DEF NoNewKill
    <2>2. QED
      BY <1>1, <1>2, <2>1 DEF TokenInv
  <1>5. QED
    BY <1>3, <1>4 DEF TokenInv

\* terminate_service_inner starts one task at most.
LEMMA TerminateTokens ==
    ASSUME SvcTypeOK, TokenInv, NEW n \in Names, NEW a \in AfterStop, TerminateInner(n, a),
           NoNewKill
    PROVE  TokenInv'
  <1>1. CASE timers' = timers
    BY <1>1, TokensKept
  <1>2. CASE \E k \in Tokens \ UsedTokens : timers' = timers \cup {[name |-> n, token |-> k]}
    BY <1>2, TokensFresh
  <1>3. QED
    BY <1>1, <1>2 DEF TerminateInner, TerminateIdle, TerminateStopping, TerminateFrozen,
                      TerminateRunning

\* The loop takes events from the channel and adds none.
LEMMA ReceiveNoKill ==
    ASSUME LoopTypeOK, NEW e, NEW next, Receive(e, next)
    PROVE  NoNewKill
  BY QueueTail DEF Receive, NoNewKill, InQueue, LoopTypeOK

\* Another event that enters the channel is not a ForceKillService.
LEMMA AppendNoKill ==
    ASSUME LoopTypeOK, NEW e \in Event, queue' = Append(queue, e),
           \A n \in Names, k \in Tokens : e # ForceKill(n, k)
    PROVE  NoNewKill
  BY QueueAppend DEF NoNewKill, InQueue, LoopTypeOK

\* A token identifies its termination as long as its task or its event exists.
THEOREM TokensIdentify == Spec => []TokenInv
  <1>1. Init => TokenInv
    BY DEF Init, TokenInv
  <1>2. TypeOK /\ TokenInv /\ [Next]_vars => TokenInv'
    <2> SUFFICES ASSUME SvcTypeOK, LoopTypeOK, TokenInv, [Next]_vars
                 PROVE  TokenInv'
      BY TypeSplit
    <2>1. UNCHANGED queue => NoNewKill
      BY DEF NoNewKill, InQueue
    <2>2. CASE UNCHANGED <<timers, queue>>
      BY <2>1, <2>2, TokensKept
    <2>3. CASE HandleRequest
      <3>1. PICK r \in Requests \cup {BootstrapRequest} :
              \/ CreateService(r) \/ StopService(r) \/ FreezeService(r)
              \/ ThawService(r) \/ SendSignal(r) \/ NotifyPty(r)
        BY <2>3 DEF HandleRequest
      <3>2. NoNewKill
        BY <3>1, ReceiveNoKill DEF CreateService, StopService, FreezeService, ThawService,
                                   SendSignal, NotifyPty, HandleCommand
      <3>3. CASE UNCHANGED timers
        BY <3>2, <3>3, TokensKept
      <3>4. CASE StopService(r)
        <4>1. r.name \in Names /\ r.op \in AfterStop
          BY <3>4, RequestFacts DEF StopService
        <4>2. QED
          BY <3>2, <3>3, <3>4, <4>1, TerminateTokens DEF StopService, StopServiceCmd, svcVars
      <3>5. QED
        BY <3>1, <3>3, <3>4 DEF CreateService, FreezeService, ThawService, SendSignal,
                                NotifyPty
    <2>4. CASE ForceKillService \/ BeginReap \/ BeginShutdown
      <3>1. NoNewKill
        BY <2>4, ReceiveNoKill DEF ForceKillService, BeginReap, BeginShutdown
      <3>2. UNCHANGED timers
        BY <2>4 DEF ForceKillService, BeginReap, BeginShutdown, svcVars
      <3>3. QED
        BY <3>1, <3>2, TokensKept
    <2>5. CASE AutomaticRestart
      <3>1. PICK n \in Names, next \in {"log", "check"} :
              Receive(ProbeFailed(n), next) /\ StopServiceCmd(n, Root, "RestartAuto")
        BY <2>5 DEF AutomaticRestart
      <3>2. NoNewKill
        BY <3>1, ReceiveNoKill
      <3>3. CASE TerminateInner(n, "RestartAuto")
        BY <3>2, <3>3, TerminateTokens DEF AfterStop
      <3>4. CASE UNCHANGED timers
        BY <3>2, <3>4, TokensKept
      <3>5. QED
        BY <3>1, <3>3, <3>4 DEF StopServiceCmd, svcVars
    <2>6. ASSUME NEW p \in Pids, Reap(p)
          PROVE  TokenInv'
      <3>1. timers' \subseteq timers
        BY <2>6 DEF Reap, AbortKill
      <3>2. QED
        BY <2>1, <2>6, <3>1, TokensKept DEF Reap, chanVars
    <2>7. CASE StopNext
      <3>1. PICK n \in Names : TerminateInner(n, "Stop")
        BY <2>7 DEF StopNext, LoopTypeOK
      <3>2. NoNewKill
        BY <2>1, <2>7 DEF StopNext, chanVars
      <3>3. QED
        BY <3>1, <3>2, TerminateTokens DEF AfterStop
    <2>8. CASE EndReap \/ EndStopAll \/ LoopTail \/ ReadSignal \/ Kernel \/ UNCHANGED vars
      BY <2>2, <2>8 DEF EndReap, EndStopAll, LoopTail, ReadSignal, Kernel, Die, OrphanDies,
                        StopContainer, svcVars, chanVars, vars
    <2>9. ASSUME NEW e \in Event, queue' = Append(queue, e),
                 \A n \in Names, k \in Tokens : e # ForceKill(n, k), UNCHANGED timers
          PROVE  TokenInv'
      BY <2>9, AppendNoKill, TokensKept
    <2>10. CASE ForwardSignal
      <3>1. PICK s \in Signals : queue' = Append(queue, Signal(s))
        BY <2>10 DEF ForwardSignal, LoopTypeOK
      <3>2. QED
        BY <2>9, <2>10, <3>1, EventFacts, KillEvents DEF ForwardSignal, svcVars
    <2>11. CASE SendRequest
      <3>1. PICK r \in Requests : queue' = Append(queue, Command(r))
        BY <2>11 DEF SendRequest
      <3>2. QED
        BY <2>9, <2>11, <3>1, EventFacts, KillEvents DEF SendRequest, svcVars
    <2>12. ASSUME NEW n \in Names, ProbeFails(n)
           PROVE  TokenInv'
      BY <2>9, <2>12, EventFacts, KillEvents DEF ProbeFails
    <2>13. ASSUME NEW n \in Names, ProbeGivesUp(n)
           PROVE  TokenInv'
      BY <2>2, <2>13 DEF ProbeGivesUp, chanVars
    <2>14. ASSUME NEW n \in Names, TimerFires(n)
           PROVE  TokenInv'
      <3>1. PICK t \in timers :
              timers' = timers \ {t} /\ queue' = Append(queue, ForceKill(n, t.token))
        BY <2>14 DEF TimerFires
      <3>2. \A u \in timers : u.token \in Tokens
        BY DEF SvcTypeOK
      <3>3. ASSUME NEW u \in timers', NEW m \in Names, InQueue(ForceKill(m, u.token))'
            PROVE  FALSE
        <4>1. u \in timers /\ u # t
          BY <3>1
        <4>2. u.token # t.token
          BY <4>1 DEF TokenInv
        <4>3. ForceKill(m, u.token) # ForceKill(n, t.token)
          BY <4>2, KillEvents
        <4>4. InQueue(ForceKill(m, u.token))
          <5>1. ForceKill(n, t.token) \in Event
            BY <3>2, EventFacts
          <5>2. PICK j \in 1..Len(queue') : queue'[j] = ForceKill(m, u.token)
            BY <3>3 DEF InQueue
          <5>3. \E i \in 1..Len(queue) : queue'[j] = queue[i]
            BY <3>1, <4>3, <5>1, <5>2, QueueAppend DEF LoopTypeOK
          <5>4. QED
            BY <5>2, <5>3 DEF InQueue
        <4>5. QED
          BY <4>1, <4>4 DEF TokenInv
      <3>4. \A u, v \in timers' : u.token = v.token => u = v
        BY <3>1 DEF TokenInv
      <3>5. QED
        BY <3>3, <3>4 DEF TokenInv
    <2>15. CASE CopyLogs \/ LogTurn \/ StartHangs
      <3>1. NoNewKill
        BY <2>1, <2>15, WaitingFrame, ReceiveNoKill
      <3>2. QED
        BY <2>15, <3>1, WaitingFrame, TokensKept
    <2>16. QED
      BY <2>3, <2>4, <2>5, <2>6, <2>7, <2>8, <2>10, <2>11, <2>12, <2>13, <2>14, <2>15
      DEF Next, MainLoop, Tasks, Exit
  <1>3. QED
    BY <1>1, <1>2, TypeCorrect, PTL DEF Spec

\* A ForceKillService that is handled comes from ForceKillService's handler.
LEMMA HandledKill ==
    ASSUME Next, NEW n \in Names, NEW k \in Tokens, Handled(ForceKill(n, k))
    PROVE  /\ queue # <<>>
           /\ proc' = IF KillIsDue(n, k)
                      THEN Signalled(proc, status[n].pid, "SIGKILL") ELSE proc
  <1>1. main = "recv" /\ main' # "recv" /\ Head(queue) = ForceKill(n, k)
    BY DEF Handled
  <1>2. \A e, next : Receive(e, next) => e = ForceKill(n, k)
    BY <1>1 DEF Receive
  <1>3. ForceKillService
    <2>1. ~(AutomaticRestart \/ BeginReap \/ BeginShutdown \/ CopyLogs \/ StartHangs)
      BY <1>1, <1>2, KillEvents DEF AutomaticRestart, BeginReap, BeginShutdown, CopyLogs,
                                    StartHangs
    <2>2. ~HandleRequest
      BY <1>2, KillEvents DEF HandleRequest, CreateService, StopService, FreezeService,
                              ThawService, SendSignal, NotifyPty, HandleCommand
    <2>3. /\ \A p \in Pids : ~Reap(p)
          /\ ~(EndReap \/ StopNext \/ EndStopAll \/ LoopTail \/ LogTurn)
      BY <1>1 DEF Reap, EndReap, StopNext, EndStopAll, LoopTail, LogTurn
    <2>4. ~Tasks
      BY <1>1 DEF Tasks, ReadSignal, ForwardSignal, SendRequest, ProbeFails, ProbeGivesUp,
                  TimerFires, loopVars
    <2>5. ~Kernel /\ ~Exit
      BY <1>1 DEF Kernel, Die, OrphanDies, StopContainer, Exit, loopVars, vars
    <2>6. QED
      BY <2>1, <2>2, <2>3, <2>4, <2>5 DEF Next, MainLoop
  <1>4. PICK m \in Names, l \in Tokens :
          /\ Receive(ForceKill(m, l), "check")
          /\ proc' = IF KillIsDue(m, l)
                     THEN Signalled(proc, status[m].pid, "SIGKILL") ELSE proc
    BY <1>3 DEF ForceKillService
  <1>5. m = n /\ l = k
    BY <1>2, <1>4, KillEvents
  <1>6. QED
    BY <1>4, <1>5 DEF Receive

\* A grace period that is running is never cut short by an escalation: the one that is
\* handled belongs to another process, or to none any more.
THEOREM GraceHolds == Spec => GraceRespected
  <1>1. IInv /\ TokenInv /\ [Next]_vars =>
          [ \A n \in Names, k \in Tokens : Handled(ForceKill(n, k)) =>
              \A t \in timers :
                 HasProcess(status[t.name]) =>
                   proc'[status[t.name].pid] = proc[status[t.name].pid] ]_vars
    <2> SUFFICES ASSUME SvcTypeOK, LoopTypeOK, SvcInv, TokenInv, Next,
                        NEW n \in Names, NEW k \in Tokens, Handled(ForceKill(n, k)),
                        NEW t \in timers, HasProcess(status[t.name])
                 PROVE  proc'[status[t.name].pid] = proc[status[t.name].pid]
      BY TypeSplit DEF IInv
    <2>1. proc' = IF KillIsDue(n, k) THEN Signalled(proc, status[n].pid, "SIGKILL") ELSE proc
      BY HandledKill
    <2>2. CASE ~KillIsDue(n, k)
      BY <2>1, <2>2
    <2>3. CASE KillIsDue(n, k)
      <3>1. t.name \in Names
        BY DEF SvcTypeOK
      <3>2. InQueue(ForceKill(n, k))
        <4>1. queue # <<>>
          BY HandledKill
        <4>2. QED
          BY <4>1 DEF Handled, InQueue, LoopTypeOK
      <3>3. t.name # n
        <4>1. SUFFICES ASSUME t.name = n PROVE FALSE
          OBVIOUS
        <4>2. status[n].kill = {t.token}
          BY <4>1 DEF SvcInv, ServiceConsistent
        <4>3. t.token = k
          BY <2>3, <4>2 DEF KillIsDue
        <4>4. QED
          BY <3>2, <4>3 DEF TokenInv
      <3>4. HasProcess(status[n])
        BY <2>3 DEF KillIsDue, HasProcess
      <3>5. QED
        BY <2>1, <2>3, <3>1, <3>3, <3>4, SignalUntouched DEF SvcInv
    <2>4. QED
      BY <2>2, <2>3
  <1>2. QED
    BY <1>1, SafetyInvariant, TokensIdentify, PTL DEF Spec, GraceRespected
=============================================================================
