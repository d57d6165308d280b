SPECIFICATION ReadingClients
CONSTANTS
    Readers = {r1, r2}
    Loggers = {probe}
    RetentionLines = 2
    MaxLines = 3
    MaxWriters = 2
INVARIANTS
    TypeOK
    RingIsTail
    NoLostWakeup
    SingleWriter
PROPERTIES
    StreamSpec
    ReadersCatchUp
    LoopGoesOn
CHECK_DEADLOCK FALSE
