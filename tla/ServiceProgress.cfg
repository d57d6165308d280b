SPECIFICATION FairSpec
CONSTANTS
    Names = {"bootstrap", "svc"}
    Bootstrap = "bootstrap"
    Users = {"root", "alice", "bob"}
    Root = "root"
    Pids = {p1, p2}
    Tokens = {t1, t2}
    Requests <- ProgressRequests
    BootstrapGraceful = TRUE
    ExitStatuses = {"code1"}
    BlockedSignals = {}
    Capacity = 1
    MaxAttempts = 1
PROPERTIES
    StopCompletes
    ShutdownCompletes
