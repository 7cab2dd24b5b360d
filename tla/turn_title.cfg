SPECIFICATION Spec
CONSTANTS
    c1 = c1  c2 = c2  m1 = m1  m2 = m2
    Clients = {c1, c2}
    Managers = {m1}
    Sessions = {s1}
    Turns = {t1, t2}
    ManagerOf <- OneManager
    MaxOutput = 1
    Budget <- TitleBudget
CHECK_DEADLOCK FALSE
PROPERTY ManualTitleStays
