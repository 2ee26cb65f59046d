CONSTANTS
    idle = idle
    low = low
    mid = mid
    high = high
    null = null
    m1 = m1
    m2 = m2
    Thread = {idle, low, mid, high}
    Idle = idle
    Main = low
    Queue = {m1}
    RT_THREAD_PRIORITY_MAX = 16
    init_priority <- MCPriority
    RT_NULL = null
    HoldModulus = 256
    MaxHold = 2
SPECIFICATION FairSpec
INVARIANTS
    Consistent
    MutualExclusion
    NoWaiterWhileFree
    OwnerInherits
    PriorityRestored
PROPERTIES
    UrgentTakeReturns
