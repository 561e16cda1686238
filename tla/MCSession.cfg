CONSTANTS
    s1 = s1
    s2 = s2
    Sp <- MCSp
    Lists <- MCLists
    Bs = Bs
    Nil = Nil
    MaxBsError = 1
    MaxJoinOvTry = 1
    MaxSame = 1
    MaxPipe = 1
SPECIFICATION Spec
INVARIANTS TypeOK OneCrew JoinUnderWay
CHECK_DEADLOCK FALSE
PROPERTIES StopReturns SilenceNoticed
