SPECIFICATION Spec
CONSTANTS
    Names = {"bootstrap", "svc"}
    Bootstrap = "bootstrap"
    Users = {"root", "alice", "bob"}
    Root = "root"
    Pids = {p1, p2, p3}
    Tokens = {t1, t2, t3}
    Requests <- LifecycleRequests
    BootstrapGraceful = TRUE
    ExitStatuses = {"code1"}
    BlockedSignals = {}
    Capacity = 2
    MaxAttempts = 1
SYMMETRY Symm
INVARIANTS
    TypeOK
    ProcessesAccountedFor
    ZombieWillBeReaped
    ProbesFollowRunning
    NoDummyStatus
    TimersFollowStopping
    ShutdownStopsAll
PROPERTIES
    PendingOutcomeHonoured
    ImplementsLifecycle
