SPECIFICATION FairStreamSpec
CONSTANTS
    c1 = c1  m1 = m1
    Clients = {c1}
    Managers = {m1}
    Sessions = {s1}
    Turns = {t1}
    ManagerOf <- OneManager
    MaxOutput = 2
    Budget <- StreamBudget
    Subs = {b1}
    SubManager = m1
CHECK_DEADLOCK FALSE
INVARIANT StreamTypeOK
INVARIANT NoGapNoDuplicate
INVARIANT OneDoneThenMeta
INVARIANT OverMeansDone
INVARIANT NoFalseSuccess
PROPERTY SubscriptionEnds
