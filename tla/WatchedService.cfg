CONSTANTS
    Waiters = {w1}
    WantedKinds = {"Running", "Error"}
    ChannelSize = 2
    Probes <- SmallProbes
    QueueSize = 1
SPECIFICATION FairSpec
INVARIANTS WatchedTypeOK WaitIsExact VerdictIsRight
PROPERTIES WaitAnswered UnhealthyDoesNotRun
