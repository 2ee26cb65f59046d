CONSTANTS
    idle = idle
    main = main
    a = a
    worker = worker
    cmp = cmp
    dpop = dpop
    dpush = dpush
    wsem = wsem
    plock = plock
    rng = rng
    blks = blks
    Thread <- MCThread
    Idle = idle
    Main = main
    Queue = {cmp, dpop, dpush, wsem, plock}
    RT_THREAD_PRIORITY_MAX = 16
    init_priority <- MCPriority
    ipc_flag <- MCFlag
    Created <- MCCreated
    completion = cmp
    Waiter = a
    dq_pop = dpop
    dq_push = dpush
    dq_size = 2
    lwm = 1
    Item = {"x", "y"}
    MaxIndex = 4
    wq_sem = wsem
    Worker = worker
    Work = {"v", "w"}
    ring = rng
    buffer_size = 4
    pipe_lock = plock
    Reader = main
    Writer = a
    Count = {0, 1, 5, 12}
    LengthModulus = 8
    rbb = blks
    buf_size = 5
    blk_max_num = 3
    BlkSize = {1, 3, 6}
    SizeModulus = 32
    MaxEnd = 12
SPECIFICATION Spec
INVARIANTS
    NoMissedWakeup
    PipeIsStream
    RingHoldsNewest
    BlocksDisjoint
PROPERTIES
    DataQueueIsQueue
