CONSTANTS
    idle = idle
    main = main
    a = a
    ev = ev
    box = box
    sender = sender
    queue = queue
    pool = pool
    Thread <- MCThread
    Idle = idle
    Main = main
    Queue = {ev, box, sender, queue, pool}
    RT_THREAD_PRIORITY_MAX = 16
    init_priority <- MCPriority
    ipc_flag <- MCFlag
    Created <- MCCreated
    event = ev
    Bit = {1, 2}
    mb = box
    mb_sender = sender
    mb_size = 2
    Mail = {"x", "y"}
    mq = queue
    max_msgs = 3
    Message = {"x", "y"}
    mq_static = FALSE
    mp = pool
    Block = {1, 2}
    MaxSuspended = 3
SPECIFICATION Spec
INVARIANTS
    Consistent
    NoMissedWakeup
    FlagsConserved
    NodesConserved
    PoolCounts
PROPERTIES
    MailboxIsQueue
    MessageQueueIsQueue
