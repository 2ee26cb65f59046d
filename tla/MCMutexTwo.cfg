CONSTANTS
    idle = idle
    low = low
    mid = mid
    high = high
    null = null
    m1 = m1
    m2 = m2
    Thread = {idle, low, high}
    Idle = idle
    Main = low
    Queue = {m1, m2}
    RT_THREAD_PRIORITY_MAX = 16
    init_priority <- MCPriority
    RT_NULL = null
    HoldModulus = 256
    MaxHold = 2
SPECIFICATION Spec
INVARIANTS
    HoldCountsTakes
