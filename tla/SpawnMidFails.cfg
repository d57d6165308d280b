SPECIFICATION FairSpec
CONSTANT Failures = {"fork", "mid", "svc", "exec"}
PROPERTIES
    SpawnReturns
