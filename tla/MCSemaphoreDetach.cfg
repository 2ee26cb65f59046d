CONSTANTS
    idle = idle
    main = main
    a = a
    b = b
    s1 = s1
    Thread <- MCThread
    Idle = idle
    Main = main
    Queue = {s1}
    RT_THREAD_PRIORITY_MAX = 16
    init_priority <- MCPriority
    InitValue = {0, 1}
    ResetValue = {0, 2}
    ValueModulus = 65536
    MaxValue = 2
SPECIFICATION Spec
INVARIANTS
    AssertionsHold
