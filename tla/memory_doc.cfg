SPECIFICATION FairSpec
CONSTANTS
    NoFile = NoFile
    Plans <- TwoPlans
    MaxEntities = 2
    MaxEdits = 1
    MaxRuns = 2
    MaxUserEdits = 1
CHECK_DEADLOCK FALSE
INVARIANT TypeOK
INVARIANT SeenWasOffered
INVARIANT UndoReturnsToStart
PROPERTY DocumentIsFreed
