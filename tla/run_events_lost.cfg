SPECIFICATION Spec
CONSTANTS
    k1 = k1  k2 = k2  f1 = f1  g1 = g1
    Keys = {k1}
    Replayers = {f1}
    Legacy = {}
    MaxRuns = 1
    MaxEmits = 3
    MaxEvents = 9
    MaxHistory = 1
CHECK_DEADLOCK FALSE
INVARIANT FollowerHasAll
