CONSTANTS
    Names <- SmallNames
    Bootstrap <- BO
    Arguments <- SmallArguments
    NewNames <- SmallNew
    Selectors <- SmallSelectors
    LabelSets <- SmallLabels
    Ops = {"Prune", "Restart"}
    Query = 10
    Slash = 11
    Dot = 12
    Blank = 13
    Space = 14
    Decoded <- SmallDecoded
    Words <- SmallWords
    MaxChanges = 2
    MaxRuns = 2
SPECIFICATION FairSpec
INVARIANTS AttachTypeOK HitsAreIntended SelectionIsComplete TerminalRestored
PROPERTIES CommandEnds RelayEnds
CHECK_DEADLOCK FALSE
