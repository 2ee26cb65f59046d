CONSTANTS
    idle = idle
    main = main
    a = a
    b = b
    c = c
    d = d
    defunct = defunct
    Thread = {idle, main, a, b}
    Idle = idle
    Main = main
    Queue = {defunct}
    RT_THREAD_PRIORITY_MAX = 16
    init_priority <- MCPriority
    rt_thread_defunct = defunct
    Static = {idle}
    Cleanup = {}
    Manager = {main}
    Sleeper = {main, a}
    Exiter = {b}
    Controlled = {a}
    Victim = {b}
    NewPriority = {9}
    MaxLock = 2
SPECIFICATION Spec
INVARIANTS
    ListsConsistent
    DefunctExact
    NoCorruption
PROPERTIES
    DeadStaysDead
