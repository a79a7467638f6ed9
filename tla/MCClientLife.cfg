CONSTANTS
    k1 = k1  k2 = k2
    Proc = {1, 2, 3}
    Check = {k1, k2}
SPECIFICATION FairSpec
INVARIANTS EndsOnlyAsRepeat OneSuccessor OneServes
PROPERTIES NoticedLossIsRepaired
CHECK_DEADLOCK FALSE
