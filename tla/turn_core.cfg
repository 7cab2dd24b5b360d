SPECIFICATION Spec
CONSTANTS
    c1 = c1  c2 = c2  m1 = m1  m2 = m2
    Clients = {c1, c2}
    Managers = {m1}
    Sessions = {s1}
    Turns = {t1, t2}
    ManagerOf <- OneManager
    MaxOutput = 1
    Budget <- CoreBudget
SYMMETRY AnyCaller
CHECK_DEADLOCK FALSE
INVARIANT TypeOK
INVARIANT OneRunningTurn
INVARIANT OneWorkingTurn
INVARIANT InterruptedMeansNoRunner
INVARIANT EndedTurnIsTerminal
INVARIANT CompletedTurnIsWhole
INVARIANT DoneIsDurable
INVARIANT OutputIsKept
PROPERTY RefusedOnlyIfLive
PROPERTY RefinesLease
