-------------------------- MODULE MCServiceManager --------------------------
(***************************************************************************)
(* Small instances of ServiceManager for TLC: the bootstrap service and    *)
(* one or two services of the user's, and the sets of requests the runs    *)
(* choose from.                                                            *)
(***************************************************************************)
EXTENDS ServiceManager, TLC

Cfg(u, live, pty, graceful) ==
    [owner |-> u, liveness |-> live, pty |-> pty, graceful |-> graceful]
Create(n, u, live, pty, graceful) ==
    [op |-> "Create", name |-> n, uid |-> u, cfg |-> Cfg(u, live, pty, graceful)]
Ask(ops, n, u) == [op : ops, name : {n}, uid : {u}]
Kill(sigs, n, u) == [op : {"SendSignal"}, name : {n}, uid : {u}, sig : sigs]

\* One probed service with a grace period, everything its owner can do to it.
LifecycleRequests ==
    {Create("svc", "alice", TRUE, FALSE, TRUE)}
      \cup Ask({"Stop", "Prune", "RestartUser", "Freeze", "Thaw"}, "svc", "alice")

\* A service with a pty that may ignore SIGTERM, restarted again while the events of
\* its last termination are queued; another user, and root at the bootstrap service.
AccessRequests ==
    {Create("svc", "alice", FALSE, TRUE, TRUE)}
      \cup Ask({"RestartUser", "Detach"}, "svc", "alice")
      \cup Ask({"Attach"}, "svc", "bob")
      \cup Kill({"SIGSTOP"}, "svc", "alice")
      \cup Ask({"RestartUser"}, "bootstrap", "root")

\* A service that may ignore SIGTERM, stopped and restarted while beam-init stops and
\* while clients ask for its log.
ProgressRequests ==
    {Create("svc", "alice", FALSE, FALSE, TRUE)}
      \cup Ask({"Stop", "RestartUser", "Logs"}, "svc", "alice")

\* A probed service that its owner stops or freezes.
ProbeRequests ==
    {Create("svc", "alice", TRUE, FALSE, TRUE)} \cup Ask({"Stop", "Freeze"}, "svc", "alice")

\* A service with a pty that its owner freezes and attaches to.
AttachRequests ==
    {Create("svc", "alice", FALSE, TRUE, TRUE)}
      \cup Ask({"Freeze", "Thaw", "Attach", "Detach"}, "svc", "alice")

\* A fresh token exists whenever a handler needs one: those in use are at most one
\* per other service and one per event left in the channel.
ASSUME EnoughTokens == Cardinality(Tokens) >= Cardinality(Names) + Capacity - 1

Symm == Permutations(Pids) \cup Permutations(Tokens)
=============================================================================
