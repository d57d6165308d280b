SPECIFICATION FairSpec
CONSTANTS
    Readers = {r1}
    Loggers = {probe}
    RetentionLines = 2
    MaxLines = 3
    MaxWriters = 1
PROPERTIES
    LoopGoesOn
CHECK_DEADLOCK FALSE
