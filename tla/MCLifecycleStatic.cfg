CONSTANTS
    idle = idle
    main = main
    a = a
    b = b
    c = c
    d = d
    defunct = defunct
    Thread = {idle, main, c, d}
    Idle = idle
    Main = main
    Queue = {defunct}
    RT_THREAD_PRIORITY_MAX = 16
    init_priority <- MCPriority
    rt_thread_defunct = defunct
    Static = {idle, c, d}
    Cleanup = {c}
    Manager = {main}
    Sleeper = {main}
    Exiter = {c, d}
    Controlled = {}
    Victim = {c, d}
    NewPriority = {}
    MaxLock = 2
SPECIFICATION FairSpec
INVARIANTS
    DefunctExact
    IdleNeverInCritical
PROPERTIES
    SleepReturns
