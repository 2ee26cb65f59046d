----------------------------- MODULE DataQueue -----------------------------
(***************************************************************************)
(* A data queue (kernel/utilities/dataqueue.c): a ring of items between    *)
(* two 16-bit indices that only grow, and a low-water mark: a pop wakes a  *)
(* pusher only when it leaves no more than lwm items.                      *)
(***************************************************************************)
EXTENDS IpcWait

CONSTANTS dq_pop, dq_push,   \* suspended_pop_list, suspended_push_list
          dq_size, lwm,
          Item,
          MaxIndex           \* bound of the model: pushes followed

IndexModulus == 65536   \* put_index and get_index are rt_uint16_t

ASSUME DataQueueAssumption ==
    /\ dq_size \in Nat \ {0}
    /\ lwm \in Nat
    /\ dq_pop # dq_push
    /\ None \notin Item
    /\ MaxIndex \in 1 .. IndexModulus - 1

VARIABLES items, put_index, get_index,
          item,       \* argument of rt_data_queue_push
          popped      \* item a client has popped and not yet used

dqvars == <<items, put_index, get_index, item, popped>>

DataQueueInit ==
    /\ items = [i \in 0 .. dq_size - 1 |-> None]
    /\ put_index = 0 /\ get_index = 0
    /\ item = [t \in Thread |-> None]
    /\ popped = [t \in Thread |-> None]

\* Arguments of a call, dead once it has returned.
Passes(t, v, time) ==
    /\ item' = [item EXCEPT ![t] = v]
    /\ timeout' = [timeout EXCEPT ![t] = time]

WaitsOn(t, q, v, time) ==
    /\ k' = SuspendAtTail(k, q, t, time)
    /\ on' = [on EXCEPT ![t] = q]
    /\ Goto(t, "block")
    /\ Passes(t, v, time)
    /\ UNCHANGED <<items, put_index, get_index, popped>>

GivesUp(t) ==
    /\ Goto(t, "run") /\ Passes(t, None, 0)
    /\ UNCHANGED <<k, on, items, put_index, get_index, popped>>

-----------------------------------------------------------------------------
\* put_index - get_index == size; the subtraction is one of ints.
Full  == put_index - get_index = dq_size
Empty == put_index = get_index

Push(v) ==
    /\ put_index < MaxIndex
    /\ items' = [items EXCEPT ![put_index % dq_size] = v]
    /\ put_index' = (put_index + 1) % IndexModulus
    /\ UNCHANGED <<get_index, popped>>

\* Slip: a waiting pusher does not look at the queue again.
PushRoundOnce(t, v, time) ==
    \/ /\ ~Full \/ pc[t] = "woken"
       /\ Push(v) /\ Wake(t, dq_pop) /\ Passes(t, None, 0) /\ UNCHANGED on
    \/ Full /\ time = 0 /\ GivesUp(t)
    \/ Full /\ time # 0 /\ pc[t] # "woken" /\ WaitsOn(t, dq_push, v, time)

\* One round of the loop of rt_data_queue_push with interrupts disabled.
PushRound(t, v, time) ==
    \/ ~Full /\ Push(v) /\ Wake(t, dq_pop) /\ Passes(t, None, 0) /\ UNCHANGED on
    \/ Full /\ time = 0 /\ GivesUp(t)
    \/ Full /\ time # 0 /\ WaitsOn(t, dq_push, v, time)

\* A client uses the item it has popped before it calls again.
DqCalls(t) == CallsOn(t, dq_pop) /\ popped[t] = None

rt_data_queue_push(t, v, time) ==
    /\ DqCalls(t)
    /\ PushRound(t, v, time)
    /\ UNCHANGED <<alive, fault>>

\* After the rt_schedule; a thread that waits again does so for the full time.
PushResumed(t) ==
    /\ At(t, "woken") /\ on[t] = dq_push
    /\ IF k.error[t] # "EOK" THEN GivesUp(t) ELSE PushRound(t, item[t], timeout[t])
    /\ UNCHANGED <<alive, fault>>

\* rt_data_queue_push from an interrupt handler, with timeout 0.
PushIsr(v) ==
    /\ dq_pop \in alive /\ ~Full
    /\ Push(v) /\ WakeIsr(dq_pop)
    /\ UNCHANGED <<item, timeout, alive, on, fault>>

-----------------------------------------------------------------------------
Pop(t) ==
    /\ popped' = [popped EXCEPT ![t] = items[get_index % dq_size]]
    /\ items' = [items EXCEPT ![get_index % dq_size] = None]
    /\ get_index' = (get_index + 1) % IndexModulus
    /\ UNCHANGED put_index

WakePusher(t) ==
    IF put_index - get_index' <= lwm THEN Wake(t, dq_push) ELSE Goto(t, "run") /\ UNCHANGED k

PopRound(t, time) ==
    \/ ~Empty /\ Pop(t) /\ WakePusher(t) /\ Passes(t, None, 0) /\ UNCHANGED on
    \/ Empty /\ time = 0 /\ GivesUp(t)
    \/ Empty /\ time # 0 /\ WaitsOn(t, dq_pop, None, time)

rt_data_queue_pop(t, time) ==
    /\ DqCalls(t)
    /\ PopRound(t, time)
    /\ UNCHANGED <<alive, fault>>

PopResumed(t) ==
    /\ At(t, "woken") /\ on[t] = dq_pop
    /\ IF k.error[t] # "EOK" THEN GivesUp(t) ELSE PopRound(t, timeout[t])
    /\ UNCHANGED <<alive, fault>>

UseItem(t) ==
    /\ Calls(t) /\ popped[t] # None
    /\ popped' = [popped EXCEPT ![t] = None]
    /\ UNCHANGED <<kvars, alive, on, fault, timeout, items, put_index, get_index, item>>

-----------------------------------------------------------------------------
(* rt_data_queue_reset: resumes the poppers, then the pushers, with the    *)
(* scheduler locked; the test of a list and the resume of its head are two *)
(* steps.  The items stay.                                                 *)
rt_data_queue_reset(t) ==
    /\ DqCalls(t)
    /\ k' = rt_enter_critical(k)
    /\ on' = [on EXCEPT ![t] = dq_pop]
    /\ Goto(t, "dq_test")
    /\ UNCHANGED <<alive, fault, timeout, dqvars>>

DqResetTest(t) ==
    /\ At(t, "dq_test")
    /\ \/ /\ k.wait[on[t]] # << >>
          /\ Goto(t, "dq_resume") /\ UNCHANGED <<k, on>>
       \/ /\ k.wait[on[t]] = << >> /\ on[t] = dq_pop
          /\ on' = [on EXCEPT ![t] = dq_push] /\ UNCHANGED kvars
       \/ /\ k.wait[on[t]] = << >> /\ on[t] = dq_push
          /\ k' = rt_exit_critical(k) /\ Goto(t, "resched") /\ UNCHANGED on
    /\ UNCHANGED <<alive, fault, timeout, dqvars>>

\* As in rt_ipc_list_resume_all the list may have become empty.
DqResetResume(t) ==
    /\ At(t, "dq_resume")
    /\ IF k.wait[on[t]] = << >>
         THEN fault' = TRUE /\ UNCHANGED k
         ELSE k' = ResumeWithError(k, on[t]) /\ UNCHANGED fault
    /\ Goto(t, "dq_test")
    /\ UNCHANGED <<alive, on, timeout, dqvars>>

-----------------------------------------------------------------------------
DataQueueCall(t) ==
    \/ \E v \in Item, time \in Time : rt_data_queue_push(t, v, time)
    \/ \E time \in Time : rt_data_queue_pop(t, time)
    \/ UseItem(t)
    \/ rt_data_queue_reset(t)

DataQueueStep(t) ==
    PushResumed(t) \/ PopResumed(t) \/ DqResetTest(t) \/ DqResetResume(t)

DataQueueIsr == \E v \in Item : PushIsr(v)
-----------------------------------------------------------------------------
(* Properties.                                                             *)

DataQueueTypeOK ==
    /\ items \in [0 .. dq_size - 1 -> Item \cup {None}]
    /\ {put_index, get_index} \subseteq 0 .. IndexModulus - 1
    /\ item \in [Thread -> Item \cup {None}]
    /\ popped \in [Thread -> Item \cup {None}]

DataOrder == INSTANCE BoundedQueue
    WITH Message <- Item, Client <- Thread, Capacity <- dq_size,
         q <- [i \in 1 .. put_index - get_index |-> items[(get_index + i - 1) % dq_size]],
         hand <- popped

\* Until the indices reach 65535 the two indices over a ring are a bounded
\* queue, whoever waits, times out or is woken by a reset in between.
DataQueueIsQueue == DataOrder!Spec

\* A pop wakes a pusher when it leaves less than this; the mark may be higher
\* than the queue is long.
WakeLevel == IF lwm < dq_size THEN lwm + 1 ELSE dq_size

\* No wake-up is lost: while a popper sleeps, every item is matched by a
\* resumed popper; while a pusher sleeps, every place below the water mark by a
\* resumed pusher.
DataWakeups ==
    /\ k.wait[dq_pop] # << >> =>
          put_index - get_index <= Cardinality(Resumed(dq_pop))
    /\ k.wait[dq_push] # << >> =>
          WakeLevel - (put_index - get_index) <= Cardinality(Resumed(dq_push))
=============================================================================
