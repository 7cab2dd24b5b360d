SPECIFICATION Spec
CONSTANTS
    c1 = c1  c2 = c2  m1 = m1  m2 = m2
    Clients = {c1, c2}
    Managers = {m1, m2}
    Sessions = {s1}
    Turns = {t1, t2}
    ManagerOf <- TwoManagers
    MaxOutput = 1
    Budget <- NoBudget
CHECK_DEADLOCK FALSE
INVARIANT OrphanMeansRestart
