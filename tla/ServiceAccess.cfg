SPECIFICATION Spec
CONSTANTS
    Names = {"bootstrap", "svc"}
    Bootstrap = "bootstrap"
    Users = {"root", "alice", "bob"}
    Root = "root"
    Pids = {p1, p2}
    Tokens = {t1, t2, t3, t4}
    Requests <- AccessRequests
    BootstrapGraceful = FALSE
    ExitStatuses = {"code1"}
    BlockedSignals = {}
    Capacity = 3
    MaxAttempts = 1
SYMMETRY Symm
PROPERTIES
    OwnershipRespected
    GraceRespected
