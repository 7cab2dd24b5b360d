SPECIFICATION FairSpec
CONSTANTS
    r1 = r1
    Requests = {r1}
    Worker = Worker
    Absent = Absent
    PlanSize = 1
    MaxBlocks = 2
    MaxChapters = 2
    MaxPages = 2
    MaxEdits = 1
CHECK_DEADLOCK FALSE
INVARIANT TypeOK
INVARIANT QueueIsServed
INVARIANT NotStranded
PROPERTY BackgroundNeverResurrects
PROPERTY QueuedPagesAreServed
