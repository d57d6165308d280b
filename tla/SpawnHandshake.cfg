SPECIFICATION FairSpec
CONSTANT Failures = {"fork", "mid", "svc", "exec", "leave"}
INVARIANTS
    TypeOK
    ResultIsTrue
    CommandsComplete
    BarrierHolds
    MonitorOutlivesService
PROPERTIES
    ForkedSpawnReturns
    SendReturns
    NoServiceLeftBehind
