CONSTANTS
    Names <- SmallNames
    Bootstrap <- BO
    Arguments <- SmallArguments
    NewNames <- SmallNew
    Selectors <- SmallSelectors
    LabelSets <- SmallLabels
    Ops = {"Prune", "Restart"}
    Query = 10
    Slash = 11
    Dot = 12
    Blank = 13
    Space = 14
    Decoded <- SmallDecoded
    Words <- SmallWords
    MaxChanges = 2
    MaxRuns = 2
SPECIFICATION Spec
INVARIANTS OnlyMeantServices
CHECK_DEADLOCK FALSE
