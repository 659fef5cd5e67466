SPECIFICATION FairSpec
CONSTANTS
    Layers = {0, 1, 2}
    Experts = {0, 1}
    Described <- MCDescribed
    BlockBytes <- MCBytes
    Capacity = 2
    Threads = {t1, t2}
    NoThread = NoThread
    MaxLeases = 3
INVARIANTS HeldIsResident LeaseCountsHolders BudgetKept UseAccounting
PROPERTIES RefusedOnlyOverBudget ImplementsLeaseStore CriticalSectionEnds
CHECK_DEADLOCK FALSE
