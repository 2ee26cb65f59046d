CONSTANTS
    idle = idle
    main = main
    a = a
    b = b
    c = c
    d = d
    defunct = defunct
    Thread = {idle, main, c}
    Idle = idle
    Main = main
    Queue = {defunct}
    RT_THREAD_PRIORITY_MAX = 16
    init_priority <- MCPriority
    rt_thread_defunct = defunct
    Static = {idle}
    Cleanup = {}
    Manager = {main}
    Sleeper = {main, c}
    Exiter = {}
    Controlled = {}
    Victim = {c}
    NewPriority = {}
    MaxLock = 0
SPECIFICATION Spec
INVARIANTS
    DeletedLeavesQueues
