SPECIFICATION FairSpec
CONSTANTS
    k1 = k1  k2 = k2  f1 = f1  g1 = g1
    Keys = {k1, k2}
    Replayers = {f1}
    Legacy = {g1}
    MaxRuns = 2
    MaxEmits = 2
    MaxEvents = 3
    MaxHistory = 1
CHECK_DEADLOCK FALSE
INVARIANT OneActiveRun
INVARIANT LegacyHasPrefix
INVARIANT NoRepeat
PROPERTY FollowersAreReleased
