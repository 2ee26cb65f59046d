---------------------------- MODULE MessageQueue ----------------------------
(***************************************************************************)
(* A message queue (kernel/src/ipc.c).  Messages are copied into and out   *)
(* of nodes of a fixed pool with interrupts enabled: between taking a node *)
(* off the free list and linking it into the queue, and between unlinking  *)
(* it and giving it back, the node is in the hands of one thread.  No call *)
(* of this version suspends on the list of senders.                        *)
(***************************************************************************)
EXTENDS IpcWait

CONSTANTS mq,          \* the object, by the list of its receivers
          max_msgs,    \* mq->max_msgs
          Message,     \* contents of a message; None is none
          mq_static    \* initialised by rt_mq_init, not made by rt_mq_create

ASSUME MessageQueueAssumption ==
    /\ max_msgs \in Nat \ {0}
    /\ None \notin Message
    /\ mq_static \in BOOLEAN

Node == 1 .. max_msgs
NULL == 0

VARIABLES next, body,      \* the nodes
          msg_queue_head, msg_queue_tail, msg_queue_free, mq_entry,
          msg,             \* node a thread has in its hands
          request          \* arguments of a send on its way

nodes == <<next, body, msg_queue_head, msg_queue_tail, msg_queue_free, mq_entry>>
mqvars == <<nodes, msg, request>>

NoRequest == [body |-> None, urgent |-> FALSE]

\* rt_mq_init links the nodes into the free list, the last one first.
MessageQueueInit ==
    /\ next = [n \in Node |-> n - 1]
    /\ body = [n \in Node |-> None]
    /\ msg_queue_head = NULL /\ msg_queue_tail = NULL
    /\ msg_queue_free = max_msgs
    /\ mq_entry = 0
    /\ msg = [t \in Thread |-> NULL]
    /\ request = [t \in Thread |-> NoRequest]

\* The nodes of a list, first one first, at most max_msgs of them.
Chain(first) ==
    LET nth[i \in Node] == IF i = 1 THEN first
                           ELSE IF nth[i - 1] = NULL THEN NULL ELSE next[nth[i - 1]]
    IN  [i \in 1 .. Cardinality({j \in Node : nth[j] # NULL}) |-> nth[i]]

-----------------------------------------------------------------------------
(* Linking a node, by rt_mq_send at the end and rt_mq_urgent at the front. *)

\* Slip: the message is not copied into the node.
LinkLastUnfilled(n, b) ==
    /\ next' = [m \in Node |-> IF m = n THEN NULL
                               ELSE IF m = msg_queue_tail THEN n ELSE next[m]]
    /\ msg_queue_tail' = n
    /\ msg_queue_head' = IF msg_queue_head = NULL THEN n ELSE msg_queue_head
    /\ mq_entry' = mq_entry + 1
    /\ UNCHANGED body

LinkLast(n, b) ==
    /\ body' = [body EXCEPT ![n] = b]
    /\ next' = [m \in Node |-> IF m = n THEN NULL
                               ELSE IF m = msg_queue_tail THEN n ELSE next[m]]
    /\ msg_queue_tail' = n
    /\ msg_queue_head' = IF msg_queue_head = NULL THEN n ELSE msg_queue_head
    /\ mq_entry' = mq_entry + 1

LinkFirst(n, b) ==
    /\ body' = [body EXCEPT ![n] = b]
    /\ next' = [next EXCEPT ![n] = msg_queue_head]
    /\ msg_queue_head' = n
    /\ msg_queue_tail' = IF msg_queue_tail = NULL THEN n ELSE msg_queue_tail
    /\ mq_entry' = mq_entry + 1

Link(n, b, urgent) == IF urgent THEN LinkFirst(n, b) ELSE LinkLast(n, b)

\* rt_mq_send and rt_mq_urgent take a free node, or return -RT_EFULL ...
rt_mq_send(t, b, urgent) ==
    /\ CallsOn(t, mq)
    /\ IF msg_queue_free = NULL
         THEN UNCHANGED <<kvars, mqvars>>
         ELSE /\ msg_queue_free' = next[msg_queue_free]
              /\ msg' = [msg EXCEPT ![t] = msg_queue_free]
              /\ request' = [request EXCEPT ![t] = [body |-> b, urgent |-> urgent]]
              /\ Goto(t, "mq_fill")
              /\ UNCHANGED <<k, next, body, msg_queue_head, msg_queue_tail, mq_entry>>
    /\ UNCHANGED <<alive, on, fault, timeout>>

\* ... fill it, link it and resume a receiver.
MqLink(t) ==
    /\ At(t, "mq_fill")
    /\ Link(msg[t], request[t].body, request[t].urgent)
    /\ Wake(t, mq)
    /\ msg' = [msg EXCEPT ![t] = NULL]
    /\ request' = [request EXCEPT ![t] = NoRequest]
    /\ UNCHANGED <<msg_queue_free, alive, on, fault, timeout>>

\* The same call from an interrupt handler, in one step.
MqSendIsr(b, urgent) ==
    /\ mq \in alive /\ msg_queue_free # NULL
    /\ msg_queue_free' = next[msg_queue_free]
    /\ Link(msg_queue_free, b, urgent)
    /\ WakeIsr(mq)
    /\ UNCHANGED <<msg, request, alive, on, fault, timeout>>

-----------------------------------------------------------------------------
(* rt_mq_recv.                                                             *)

\* Slip: the node goes back to the free list before the message is copied out.
UnlinkAndFree(t) ==
    /\ mq_entry # 0
    /\ msg' = [msg EXCEPT ![t] = msg_queue_head]
    /\ msg_queue_head' = next[msg_queue_head]
    /\ next' = [next EXCEPT ![msg_queue_head] = msg_queue_free]
    /\ msg_queue_free' = msg_queue_head
    /\ msg_queue_tail' = IF msg_queue_tail = msg_queue_head THEN NULL ELSE msg_queue_tail
    /\ mq_entry' = mq_entry - 1
    /\ UNCHANGED <<body, request>>

Unlink(t) ==
    /\ mq_entry # 0
    /\ msg' = [msg EXCEPT ![t] = msg_queue_head]
    /\ msg_queue_head' = next[msg_queue_head]
    /\ msg_queue_tail' = IF msg_queue_tail = msg_queue_head THEN NULL ELSE msg_queue_tail
    /\ mq_entry' = mq_entry - 1
    /\ UNCHANGED <<next, body, msg_queue_free, request>>

Leaves(t) == timeout' = [timeout EXCEPT ![t] = 0]

MqRecvRound(t, time, again) ==
    \/ Unlink(t) /\ Goto(t, "mq_copy") /\ Leaves(t) /\ UNCHANGED <<k, on>>
    \/ /\ mq_entry = 0 /\ time = 0
       /\ k' = IF again THEN [k EXCEPT !.error[t] = "ETIMEOUT"] ELSE k
       /\ Goto(t, "run") /\ Leaves(t)
       /\ UNCHANGED <<on, mqvars>>
    \/ /\ mq_entry = 0 /\ time # 0
       /\ k' = SuspendOn(k, mq, t, time)
       /\ on' = [on EXCEPT ![t] = mq]
       /\ timeout' = [timeout EXCEPT ![t] = time]
       /\ Goto(t, "block")
       /\ UNCHANGED mqvars

rt_mq_recv(t, time) ==
    /\ CallsOn(t, mq)
    /\ MqRecvRound(t, time, FALSE)
    /\ UNCHANGED <<alive, fault>>

\* rt_mq_recv after its rt_schedule.
MqRecvResumed(t) ==
    /\ At(t, "woken") /\ on[t] = mq
    /\ IF k.error[t] # "EOK"
         THEN Goto(t, "run") /\ Leaves(t) /\ UNCHANGED <<k, on, mqvars>>
         ELSE \E left \in TimeLeft(timeout[t]) : MqRecvRound(t, left, TRUE)
    /\ UNCHANGED <<alive, fault>>

\* The message has been copied out, its node goes back to the free list.  The
\* contents of a free node are dead; the model empties them.
MqGiveBack(t) ==
    /\ At(t, "mq_copy")
    /\ body' = [body EXCEPT ![msg[t]] = None]
    /\ next' = [next EXCEPT ![msg[t]] = msg_queue_free]
    /\ msg_queue_free' = msg[t]
    /\ msg' = [msg EXCEPT ![t] = NULL]
    /\ Goto(t, "run")
    /\ UNCHANGED <<k, msg_queue_head, msg_queue_tail, mq_entry, request,
                   alive, on, fault, timeout>>

-----------------------------------------------------------------------------
\* rt_mq_control(RT_IPC_CMD_RESET): resumes everyone and pushes the queue's
\* nodes, first one first, onto the free list.
MqReset(t) ==
    /\ CallsOn(t, mq)
    /\ k' = ResumeAllMasked(k, mq)
    /\ LET s == Chain(msg_queue_head)
       IN  /\ next' = [n \in Node |-> IF n \notin ToSet(s) THEN next[n]
                                      ELSE IF n = s[1] THEN msg_queue_free
                                      ELSE CHOOSE m \in Node : next[m] = n /\ m \in ToSet(s)]
           /\ body' = [n \in Node |-> IF n \in ToSet(s) THEN None ELSE body[n]]
           /\ msg_queue_free' = IF s = << >> THEN msg_queue_free ELSE Last(s)
           /\ msg_queue_tail' = IF msg_queue_tail \in ToSet(s) THEN NULL ELSE msg_queue_tail
    /\ msg_queue_head' = NULL /\ mq_entry' = 0
    /\ Goto(t, "resched")
    /\ UNCHANGED <<msg, request, alive, on, fault, timeout>>

\* rt_mq_delete resumes the receivers; rt_mq_detach of a static queue only
\* goes through the list of senders, on which nobody is.
MqDetach(t) ==
    /\ NoneReturning(mq) /\ \A u \in Thread : pc[u] \notin {"mq_fill", "mq_copy"}
    /\ IF mq_static
         THEN /\ CallsOn(t, mq)
              /\ alive' = alive \ {mq}
              /\ UNCHANGED <<kvars, on, fault>>
         ELSE ResumeAll(t, mq)
    /\ UNCHANGED <<mqvars, timeout>>

-----------------------------------------------------------------------------
MessageQueueCall(t) ==
    \/ \E b \in Message, urgent \in BOOLEAN : rt_mq_send(t, b, urgent)
    \/ \E time \in Time : rt_mq_recv(t, time)
    \/ MqReset(t)
    \/ MqDetach(t)

MessageQueueStep(t) == MqLink(t) \/ MqRecvResumed(t) \/ MqGiveBack(t)

MessageQueueIsr == \E b \in Message, urgent \in BOOLEAN : MqSendIsr(b, urgent)
-----------------------------------------------------------------------------
(* Properties.                                                             *)

MessageQueueTypeOK ==
    /\ next \in [Node -> Node \cup {NULL}]
    /\ body \in [Node -> Message \cup {None}]
    /\ {msg_queue_head, msg_queue_tail, msg_queue_free} \subseteq Node \cup {NULL}
    /\ mq_entry \in 0 .. max_msgs
    /\ msg \in [Thread -> Node \cup {NULL}]
    /\ request \in [Thread -> [body : Message \cup {None}, urgent : BOOLEAN]]

\* Every node of the pool is in exactly one place: in the queue, in the free
\* list or in the hands of one thread that fills or empties it with interrupts
\* enabled.  The count and the tail agree with the queue.
NodesConserved ==
    LET queued == Chain(msg_queue_head)
        free   == Chain(msg_queue_free)
        held   == {t \in Thread : msg[t] # NULL}
    IN  /\ Len(queued) = mq_entry
        /\ msg_queue_tail = IF queued = << >> THEN NULL ELSE Last(queued)
        /\ Len(queued) + Len(free) + Cardinality(held) = max_msgs
        /\ ToSet(queued) \cup ToSet(free) \cup {msg[t] : t \in held} = Node

MessageOrder == INSTANCE BoundedQueue
    WITH Client <- Thread, Capacity <- max_msgs,
         q <- [i \in 1 .. mq_entry |-> body[Chain(msg_queue_head)[i]]],
         hand <- [t \in Thread |-> IF pc[t] = "mq_copy" THEN body[msg[t]] ELSE None]

\* The linked nodes are a bounded queue, and what a receiver copies out with
\* interrupts enabled stays the message that was first when it took it.
MessageQueueIsQueue == MessageOrder!Spec

\* No wake-up is lost: while a receiver sleeps, every message in the queue is
\* matched by a receiver already resumed.
MessageWakeups ==
    k.wait[mq] # << >> => mq_entry <= Cardinality(Resumed(mq))
=============================================================================
