-------------------------- MODULE DeviceIpcProofs --------------------------
(***************************************************************************)
(* Theorems about module DeviceIpc: the data queue is a bounded queue, the *)
(* ring buffer and the fifo of a pipe hold the bytes they should, the      *)
(* blocks of a ring block buffer do not overlap, and nobody sleeps for     *)
(* what has happened, for any sizes and any number of threads.             *)
(***************************************************************************)
EXTENDS DeviceIpc, IpcProofs, FiniteSetTheorems

-----------------------------------------------------------------------------
(* The data queue.                                                         *)

\* t waits, or has waited and not yet looked again, on the list q.
InWait(t, q) == pc[t] \in {"block", "woken"} /\ on[t] = q

\* The indices only grow, by at most the size of the queue from one another.
DqRingOK ==
    /\ items \in [0 .. dq_size - 1 -> Item \cup {None}]
    /\ put_index \in Nat /\ get_index \in Nat
    /\ get_index <= put_index /\ put_index <= MaxIndex
    /\ put_index - get_index <= dq_size

\* A waiting popper holds no item, a waiting pusher still has the one it wants
\* to push.
DqClientsOK ==
    /\ pc \in [Thread -> Pcs]
    /\ on \in [Thread -> Queue \cup {None}]
    /\ item \in [Thread -> Item \cup {None}]
    /\ popped \in [Thread -> Item \cup {None}]
    /\ \A t \in Thread : InWait(t, dq_pop) => popped[t] = None
    /\ \A t \in Thread : InWait(t, dq_push) => item[t] \in Item

\* The inductive invariant of the data queue.
DqInv == DqRingOK /\ DqClientsOK

\* The items in the queue, oldest first.
Items == RingSeq(items, dq_size, get_index, put_index - get_index)

\* A step of the queue, or none.
QueueStep == DataOrder!Next \/ UNCHANGED <<Items, popped>>

\* A step that leaves the data queue alone and lets nobody begin to wait there.
Elsewhere ==
    /\ UNCHANGED dqvars
    /\ pc' \in [Thread -> Pcs]
    /\ on' \in [Thread -> Queue \cup {None}]
    /\ \A t \in Thread, q \in {dq_pop, dq_push} : InWait(t, q)' => InWait(t, q)

\* Such a step keeps the invariant, the queue and what the clients hold.
LEMMA ElsewhereKeeps == DqInv /\ Elsewhere => DqInv' /\ QueueStep
<1> SUFFICES ASSUME DqInv, Elsewhere PROVE DqInv' /\ QueueStep
  OBVIOUS
<1>1. UNCHANGED <<items, put_index, get_index, item, popped>>
  BY DEF Elsewhere, dqvars
<1>2. DqRingOK'
  BY <1>1 DEF DqInv, DqRingOK
<1>3. /\ \A t \in Thread : InWait(t, dq_pop)' => popped'[t] = None
      /\ \A t \in Thread : InWait(t, dq_push)' => item'[t] \in Item
  BY <1>1 DEF DqInv, DqClientsOK, Elsewhere
<1>4. Items' = Items
  BY <1>1 DEF Items
<1> QED BY <1>1, <1>2, <1>3, <1>4 DEF DqInv, DqClientsOK, Elsewhere, QueueStep

\* A step of thread t that does not take it into a wait on the data queue.
LEMMA GoesElsewhere ==
    ASSUME DqInv, UNCHANGED dqvars, NEW t \in Thread, NEW c \in Pcs, Goto(t, c),
           \/ c \notin {"block", "woken"}
                 /\ (on' = on \/ \E q \in Queue \cup {None} : on' = [on EXCEPT ![t] = q])
           \/ c = "woken" /\ pc[t] = "block" /\ on' = on
           \/ \E q \in (Queue \cup {None}) \ {dq_pop, dq_push} : on' = [on EXCEPT ![t] = q]
    PROVE  Elsewhere
<1>1. pc' \in [Thread -> Pcs] /\ on' \in [Thread -> Queue \cup {None}]
  BY DEF DqInv, DqClientsOK, Goto
<1>2. pc'[t] = c /\ \A u \in Thread : u # t => pc'[u] = pc[u] /\ on'[u] = on[u]
  BY DEF DqInv, DqClientsOK, Goto
<1>3. ASSUME NEW q \in {dq_pop, dq_push}, InWait(t, q)' PROVE InWait(t, q)
  <2>1. c \in {"block", "woken"} /\ on'[t] = q
    BY <1>2, <1>3 DEF InWait
  <2>2. CASE c = "woken" /\ pc[t] = "block" /\ on' = on
    BY <2>1, <2>2 DEF InWait
  <2>3. CASE \E r \in (Queue \cup {None}) \ {dq_pop, dq_push} : on' = [on EXCEPT ![t] = r]
    BY <2>1, <2>3 DEF DqInv, DqClientsOK
  <2> QED BY <2>1, <2>2, <2>3
<1>4. \A u \in Thread, q \in {dq_pop, dq_push} : InWait(u, q)' => InWait(u, q)
  BY <1>2, <1>3 DEF InWait
<1> QED BY <1>1, <1>4 DEF Elsewhere

\* A step in which no thread moves.
LEMMA StaysElsewhere ==
    ASSUME DqInv, UNCHANGED <<dqvars, pc, on>>
    PROVE  Elsewhere
BY DEF DqInv, DqClientsOK, Elsewhere, InWait

-----------------------------------------------------------------------------
(* Steps on the other objects.                                             *)

\* Startup, sleeps, the ends of calls and of blocking, timers and time slices.
LEMMA KernelElsewhere ==
    ASSUME DqInv,
           \/ \E t, u \in Thread : Starts(t, u)
           \/ \E t \in Thread : rt_thread_sleep(t) \/ SleepReturn(t)
           \/ \E t \in Thread : (Reschedule(t) \/ Timeout(t)) /\ UNCHANGED on /\ OnObjects
           \/ SliceExpired /\ UNCHANGED on /\ OnObjects
    PROVE  Elsewhere
<1>0. UNCHANGED dqvars /\ None \in (Queue \cup {None}) \ {dq_pop, dq_push}
  BY ListsAssumption DEF Starts, rt_thread_sleep, SleepReturn, OnObjects
<1>1. CASE \E t, u \in Thread : Starts(t, u)
  <2>1. PICK t \in Thread : Goto(t, "resched") /\ on' = on
    BY <1>1 DEF Starts, Startup
  <2> QED BY <1>0, <2>1, GoesElsewhere DEF Pcs
<1>2. CASE \E t \in Thread : rt_thread_sleep(t)
  <2>1. PICK t \in Thread : Goto(t, "block") /\ on' = [on EXCEPT ![t] = None]
    BY <1>2 DEF rt_thread_sleep
  <2> QED BY <1>0, <2>1, GoesElsewhere DEF Pcs
<1>3. CASE \E t \in Thread : SleepReturn(t)
  <2>1. PICK t \in Thread : Goto(t, "run") /\ on' = on
    BY <1>3 DEF SleepReturn
  <2> QED BY <1>0, <2>1, GoesElsewhere DEF Pcs
<1>4. CASE \E t \in Thread : Reschedule(t) /\ UNCHANGED on /\ OnObjects
  <2>1. PICK t \in Thread : Reschedule(t) /\ on' = on
    BY <1>4
  <2>2. CASE pc[t] = "block"
    <3>1. Goto(t, "woken")
      BY <2>1, <2>2 DEF Reschedule
    <3> QED BY <1>0, <2>1, <2>2, <3>1, GoesElsewhere DEF Pcs
  <2>3. CASE pc[t] # "block"
    <3>1. Goto(t, "run")
      BY <2>1, <2>3 DEF Reschedule
    <3> QED BY <1>0, <2>1, <3>1, GoesElsewhere DEF Pcs
  <2> QED BY <2>2, <2>3
<1>5. CASE (\E t \in Thread : Timeout(t) /\ UNCHANGED on) \/ (SliceExpired /\ UNCHANGED on)
  BY <1>0, <1>5, StaysElsewhere DEF Timeout, SliceExpired
<1> QED BY <1>1, <1>2, <1>3, <1>4, <1>5

\* A step on the completion.
LEMMA CompletionElsewhere ==
    ASSUME DqInv, OnCompletion,
           \/ \E t \in Thread : CompletionCall(t) \/ CompletionStep(t)
           \/ DoneIsr
    PROVE  Elsewhere
<1>0. UNCHANGED dqvars /\ completion \in (Queue \cup {None}) \ {dq_pop, dq_push}
  BY ListsAssumption DEF OnCompletion
<1>1. CASE DoneIsr
  <2>1. UNCHANGED <<pc, on>>
    BY <1>1 DEF DoneIsr, WakeIsr
  <2> QED BY <1>0, <2>1, StaysElsewhere
<1>2. ASSUME NEW t \in Thread, CompletionCall(t) PROVE Elsewhere
  <2>1. \/ UNCHANGED <<pc, on>>
        \/ Goto(t, "block") /\ on' = [on EXCEPT ![t] = completion]
        \/ Goto(t, "cmp_done") /\ on' = on
    BY <1>2 DEF CompletionCall, rt_completion_wait, rt_completion_done
  <2>2. CASE UNCHANGED <<pc, on>>
    BY <1>0, <2>2, StaysElsewhere
  <2> QED BY <1>0, <2>1, <2>2, GoesElsewhere DEF Pcs
<1>3. ASSUME NEW t \in Thread, CompletionStep(t) PROVE Elsewhere
  <2>1. /\ Goto(t, "cmp_clear") \/ Goto(t, "run") \/ Goto(t, "resched")
        /\ on' = on
    BY <1>3 DEF CompletionStep, WaitResult, WaitClear, Done, Wake
  <2> QED BY <1>0, <2>1, GoesElsewhere DEF Pcs
<1> QED BY <1>1, <1>2, <1>3

\* A step on the work queue.
LEMMA WorkQueueElsewhere ==
    ASSUME DqInv, OnWorkQueue, NEW t \in Thread, WorkQueueCall(t) \/ WorkQueueStep(t)
    PROVE  Elsewhere
<1>0. /\ UNCHANGED dqvars
      /\ {wq_sem, None} \subseteq (Queue \cup {None}) \ {dq_pop, dq_push}
  BY ListsAssumption DEF OnWorkQueue
<1>1. CASE WorkQueueCall(t)
  <2>1. \/ UNCHANGED <<pc, on>>
        \/ Goto(t, "wq_resume") /\ on' = on
        \/ Goto(t, "block") /\ on' = [on EXCEPT ![t] = wq_sem]
    BY <1>1 DEF WorkQueueCall, rt_workqueue_dowork, rt_workqueue_cancel_work, Removed,
                rt_workqueue_cancel_work_sync, rt_workqueue_cancel_all_work, kvars
  <2>2. CASE UNCHANGED <<pc, on>>
    BY <1>0, <2>2, StaysElsewhere
  <2> QED BY <1>0, <2>1, <2>2, GoesElsewhere DEF Pcs
<1>2. CASE WorkQueueStep(t)
  <2>1. \/ UNCHANGED <<pc, on>>
        \/ /\ \/ Goto(t, "wq_suspend") \/ Goto(t, "wq_take") \/ Goto(t, "wq_do")
              \/ Goto(t, "wq_ack") \/ Goto(t, "run") \/ Goto(t, "resched")
           /\ on' = on
        \/ Goto(t, "block") /\ on' = [on EXCEPT ![t] = None]
    BY <1>2 DEF WorkQueueStep, WorkerTest, WorkerSuspend, WorkerTake, WorkerClean, WorkerAck,
                ResumeWorker, CancelSyncReturn
  <2>2. CASE UNCHANGED <<pc, on>>
    BY <1>0, <2>2, StaysElsewhere
  <2> QED BY <1>0, <2>1, <2>2, GoesElsewhere DEF Pcs
<1> QED BY <1>1, <1>2

\* A step on the pipe.
LEMMA PipeElsewhere ==
    ASSUME DqInv, OnPipe, NEW t \in Thread, PipeCall(t) \/ PipeStep(t)
    PROVE  Elsewhere
<1>0. /\ UNCHANGED dqvars
      /\ {pipe_lock, None} \subseteq (Queue \cup {None}) \ {dq_pop, dq_push}
  BY ListsAssumption DEF OnPipe
<1>1. CASE PipeCall(t)
  <2>1. UNCHANGED <<pc, on>>
    BY <1>1 DEF PipeCall, pipe_fops_open, pipe_fops_close, pipe_fops_read, pipe_fops_write,
                PipeCallOnly, kvars
  <2> QED BY <1>0, <2>1, StaysElsewhere
<1>2. CASE Take(t)
  <2>1. UNCHANGED <<pc, on>> \/ (Goto(t, "block") /\ on' = [on EXCEPT ![t] = pipe_lock])
    BY <1>2 DEF Take, kvars
  <2>2. CASE UNCHANGED <<pc, on>>
    BY <1>0, <2>2, StaysElsewhere
  <2> QED BY <1>0, <2>1, <2>2, GoesElsewhere DEF Pcs
<1>3. CASE TakeReturns(t)
  <2>1. Goto(t, "run") /\ on' = [on EXCEPT ![t] = None]
    BY <1>3 DEF TakeReturns
  <2> QED BY <1>0, <2>1, GoesElsewhere DEF Pcs
<1>4. CASE Release(t)
  <2>1. (UNCHANGED pc \/ Goto(t, "resched")) /\ on' = on
    BY <1>4 DEF Release
  <2>2. CASE UNCHANGED pc
    BY <1>0, <2>1, <2>2, StaysElsewhere
  <2> QED BY <1>0, <2>1, <2>2, GoesElsewhere DEF Pcs
<1>5. ASSUME NEW p, NEW q, rt_wqueue_wakeup(t, p, q) PROVE Elsewhere
  <2>1. (UNCHANGED pc \/ Goto(t, "resched")) /\ on' = on
    BY <1>5 DEF rt_wqueue_wakeup, kvars
  <2>2. CASE UNCHANGED pc
    BY <1>0, <2>1, <2>2, StaysElsewhere
  <2> QED BY <1>0, <2>1, <2>2, GoesElsewhere DEF Pcs
<1>6. CASE rt_wqueue_wait(t)
  <2>1. /\ on' = [on EXCEPT ![t] = None]
        /\ (pc' = pc /\ pc[t] = "run") \/ Goto(t, "block")
    BY <1>6 DEF rt_wqueue_wait, Executes, At, kvars
  <2>2. CASE pc' = pc /\ pc[t] = "run"
    <3>1. Goto(t, "run")
      BY <2>2 DEF Goto, DqInv, DqClientsOK
    <3> QED BY <1>0, <2>1, <3>1, GoesElsewhere DEF Pcs
  <2> QED BY <1>0, <2>1, <2>2, GoesElsewhere DEF Pcs
<1>7. CASE WaitReturns(t)
  <2>1. Goto(t, "run") /\ on' = on
    BY <1>7 DEF WaitReturns
  <2> QED BY <1>0, <2>1, GoesElsewhere DEF Pcs
<1>8. CASE Open(t) \/ Close(t) \/ Unref(t) \/ ReadBody(t) \/ WriteBody(t)
  <2>1. UNCHANGED <<pc, on>>
    BY <1>8 DEF Open, Close, Unref, ReadBody, WriteBody, kvars
  <2> QED BY <1>0, <2>1, StaysElsewhere
<1> QED BY <1>1, <1>2, <1>3, <1>4, <1>5, <1>6, <1>7, <1>8 DEF PipeStep

\* A step on the ring buffer or the ring block buffer.
LEMMA RingsElsewhere ==
    ASSUME DqInv, NEW t \in Thread,
           (RingCall(t) /\ OnRing) \/ (RingBlockCall(t) /\ OnRingBlock)
    PROVE  Elsewhere
<1>1. CASE RingCall(t) /\ OnRing
  <2>1. UNCHANGED <<dqvars, pc, on>>
    BY <1>1 DEF RingCall, RingPut, RingPutForce, RingGet, RingPutcharForce,
                rt_ringbuffer_reset, RingCalls, kvars, OnRing
  <2> QED BY <2>1, StaysElsewhere
<1>2. CASE RingBlockCall(t) /\ OnRingBlock
  <2>1. UNCHANGED <<dqvars, pc, on>>
    BY <1>2 DEF RingBlockCall, rt_rbb_blk_alloc, rt_rbb_blk_put, rt_rbb_blk_free,
                rt_rbb_blk_get, rt_rbb_blk_queue_get, rt_rbb_blk_queue_free, RbbCalls, kvars,
                OnRingBlock
  <2> QED BY <2>1, StaysElsewhere
<1> QED BY <1>1, <1>2

-----------------------------------------------------------------------------
(* Steps on the data queue.                                                *)

\* What is assumed of the constants, but for the width of the indices.
LEMMA DqConstants ==
    /\ dq_size \in Nat \ {0} /\ MaxIndex \in Nat
    /\ dq_pop # dq_push /\ None \notin Item
BY DataQueueAssumption

\* Below the bound an index of 16 bits does not wrap.
LEMMA NoIndexWrap ==
    ASSUME NEW x \in Nat, x < MaxIndex
    PROVE  (x + 1) % IndexModulus = x + 1
<1>1. IndexModulus \in Nat
  BY SMT DEF IndexModulus
<1>2. MaxIndex \in 1 .. IndexModulus - 1
  BY DataQueueAssumption
<1>3. PICK y : y = x + 1
  OBVIOUS
<1>4. IndexModulus \in Nat \ {0} /\ y \in Nat /\ y < IndexModulus
  BY ONLY x \in Nat, x < MaxIndex, <1>1, <1>2, <1>3
<1>5. y % IndexModulus = y
  BY ONLY <1>4, RingPosition
<1> QED BY <1>3, <1>5

\* The queue has as many items as the indices are apart.
LEMMA ItemsLength ==
    DqRingOK => Len(Items) = put_index - get_index /\ (Items = << >> <=> put_index = get_index)
<1> SUFFICES ASSUME DqRingOK
             PROVE  Len(Items) = put_index - get_index /\ (Items = << >> <=> put_index = get_index)
  OBVIOUS
<1> DEFINE e == put_index - get_index
<1>0. dq_size \in Nat \ {0} /\ e \in Nat /\ get_index \in Nat /\ put_index \in Nat
  BY DqConstants DEF DqRingOK
<1>1. \A i \in 1 .. e : items[(get_index + i - 1) % dq_size] \in Item \cup {None}
  <2> TAKE i \in 1 .. e
  <2>1. (get_index + i - 1) % dq_size \in 0 .. dq_size - 1
    BY <1>0
  <2> QED BY <2>1 DEF DqRingOK
<1>2. Items = [i \in 1 .. e |-> items[(get_index + i - 1) % dq_size]]
  BY DEF Items, RingSeq
<1> HIDE DEF e
<1>3. Items \in Seq(Item \cup {None}) /\ Len(Items) = e
  BY <1>0, <1>1, <1>2
<1>4. Items = << >> <=> e = 0
  BY <1>0, <1>3
<1> QED BY <1>0, <1>3, <1>4 DEF e

\* The abstract queue is the sequence of items.
LEMMA ItemsAreQueue ==
    /\ Items = [i \in 1 .. put_index - get_index |-> items[(get_index + i - 1) % dq_size]]
    /\ Items' = [i \in 1 .. put_index' - get_index' |-> items'[(get_index' + i - 1) % dq_size]]
BY DEF Items, RingSeq

\* Storing at put_index is a put: below the bound the index does not wrap.
LEMMA PushIsPut ==
    ASSUME DqRingOK, NEW v \in Item, ~Full, Push(v)
    PROVE  DqRingOK' /\ DataOrder!Put(v)
<1> DEFINE e == put_index - get_index
<1>0. /\ dq_size \in Nat \ {0} /\ e \in 0 .. dq_size - 1
      /\ put_index \in Nat /\ get_index \in Nat /\ put_index < MaxIndex /\ MaxIndex \in Nat
      /\ put_index = get_index + e
  BY DqConstants DEF DqRingOK, Full, Push
<1>1. /\ items' = [items EXCEPT ![(get_index + e) % dq_size] = v]
      /\ put_index' = put_index + 1 /\ get_index' = get_index /\ popped' = popped
  <2>1. (put_index + 1) % IndexModulus = put_index + 1
    BY <1>0, NoIndexWrap
  <2> QED BY <1>0, <2>1 DEF Push
<1>2. (get_index + e) % dq_size \in 0 .. dq_size - 1
  BY <1>0
<1>3. /\ items \in [0 .. dq_size - 1 -> Item \cup {None}]
      /\ items' \in [0 .. dq_size - 1 -> Item \cup {None}]
      /\ \A j \in 0 .. dq_size - 1 :
            items'[j] = IF j = (get_index + e) % dq_size THEN v ELSE items[j]
      /\ v \in Item \cup {None}
  BY <1>1, <1>2 DEF DqRingOK
<1>4. DqRingOK'
  BY <1>0, <1>1, <1>3 DEF DqRingOK
<1>5. put_index' - get_index' = e + 1
  BY <1>0, <1>1
<1> HIDE DEF e
<1>6. AddsLast(RingSeq(items', dq_size, get_index, e + 1),
               RingSeq(items, dq_size, get_index, e), v)
  BY ONLY <1>0, <1>3, RingAppend
<1>7. Items' = RingSeq(items', dq_size, get_index, e + 1)
  BY <1>1, <1>5 DEF Items
<1>8. Items = RingSeq(items, dq_size, get_index, e)
  BY DEF Items, e
<1>9. Items' = Append(Items, v)
  BY <1>6, <1>7, <1>8 DEF AddsLast
<1>10. Len(Items) < dq_size
  BY <1>0, ItemsLength DEF e
<1> QED BY <1>1, <1>4, <1>9, <1>10, ItemsAreQueue DEF DataOrder!Put

\* Fetching at get_index is a get, by a client that holds no item.
LEMMA PopIsGet ==
    ASSUME DqRingOK, NEW t \in Thread, popped[t] = None, ~Empty, Pop(t)
    PROVE  DqRingOK' /\ DataOrder!Get(t) /\ items[get_index % dq_size] \in Item \cup {None}
<1> DEFINE e == put_index - get_index
<1>0. /\ dq_size \in Nat \ {0} /\ e \in 1 .. dq_size
      /\ put_index \in Nat /\ get_index \in Nat /\ get_index < put_index
      /\ put_index <= MaxIndex
  BY DqConstants DEF DqRingOK, Empty
<1>1. /\ items' = [items EXCEPT ![get_index % dq_size] = None]
      /\ put_index' = put_index /\ get_index' = get_index + 1
      /\ popped' = [popped EXCEPT ![t] = items[get_index % dq_size]]
  <2>1. (get_index + 1) % IndexModulus = get_index + 1
    <3>1. get_index < MaxIndex
      BY <1>0, DqConstants
    <3> QED BY <1>0, <3>1, NoIndexWrap
  <2> QED BY <1>0, <2>1 DEF Pop
<1>2. get_index % dq_size \in 0 .. dq_size - 1
  BY <1>0
<1>3. /\ items \in [0 .. dq_size - 1 -> Item \cup {None}]
      /\ items' \in [0 .. dq_size - 1 -> Item \cup {None}]
      /\ \A j \in 0 .. dq_size - 1 : j # get_index % dq_size => items'[j] = items[j]
      /\ items[get_index % dq_size] \in Item \cup {None}
  BY <1>1, <1>2 DEF DqRingOK
<1>4. DqRingOK'
  BY <1>0, <1>1, <1>3 DEF DqRingOK
<1>5. put_index' - get_index' = e - 1
  BY <1>0, <1>1
<1> HIDE DEF e
<1>6. TakesFirst(RingSeq(items', dq_size, get_index + 1, e - 1),
                 RingSeq(items, dq_size, get_index, e), items[get_index % dq_size])
  BY ONLY <1>0, <1>3, RingTailCleared
<1>7. Items' = RingSeq(items', dq_size, get_index + 1, e - 1)
  BY <1>1, <1>5 DEF Items
<1>8. Items = RingSeq(items, dq_size, get_index, e)
  BY DEF Items, e
<1>9. Items # << >> /\ Items' = Tail(Items) /\ Head(Items) = items[get_index % dq_size]
  BY <1>6, <1>7, <1>8 DEF TakesFirst
<1> QED BY <1>1, <1>3, <1>4, <1>9, ItemsAreQueue DEF DataOrder!Get

\* What a step in which only thread t moves has to leave right.
LEMMA ClientMoves ==
    ASSUME DqClientsOK, NEW t \in Thread, NEW c \in Pcs, Goto(t, c),
           on' \in [Thread -> Queue \cup {None}], item' \in [Thread -> Item \cup {None}],
           popped' \in [Thread -> Item \cup {None}],
           \A u \in Thread \ {t} : on'[u] = on[u] /\ item'[u] = item[u]
                                                  /\ popped'[u] = popped[u],
           c \in {"block", "woken"} => /\ on'[t] = dq_pop => popped'[t] = None
                                       /\ on'[t] = dq_push => item'[t] \in Item
    PROVE  DqClientsOK'
<1>1. /\ pc' \in [Thread -> Pcs] /\ pc'[t] = c
      /\ \A u \in Thread \ {t} : pc'[u] = pc[u]
  BY DEF DqClientsOK, Goto
<1>2. ASSUME NEW u \in Thread, InWait(u, dq_pop)' PROVE popped'[u] = None
  <2>1. CASE u = t BY <1>1, <1>2, <2>1 DEF InWait
  <2>2. CASE u # t
    <3>1. InWait(u, dq_pop) /\ popped'[u] = popped[u]
      BY <1>1, <1>2, <2>2 DEF InWait
    <3> QED BY <3>1 DEF DqClientsOK
  <2> QED BY <2>1, <2>2
<1>3. ASSUME NEW u \in Thread, InWait(u, dq_push)' PROVE item'[u] \in Item
  <2>1. CASE u = t BY <1>1, <1>3, <2>1 DEF InWait
  <2>2. CASE u # t
    <3>1. InWait(u, dq_push) /\ item'[u] = item[u]
      BY <1>1, <1>3, <2>2 DEF InWait
    <3> QED BY <3>1 DEF DqClientsOK
  <2> QED BY <2>1, <2>2
<1> QED BY <1>1, <1>2, <1>3 DEF DqClientsOK

\* A thread that ends its call without touching the ring.
LEMMA GivesUpStep ==
    ASSUME DqInv, NEW t \in Thread, GivesUp(t)
    PROVE  DqInv' /\ QueueStep
<1>1. /\ UNCHANGED <<on, items, put_index, get_index, popped>> /\ Goto(t, "run")
      /\ item' = [item EXCEPT ![t] = None]
  BY DEF GivesUp, Passes
<1>2. DqRingOK' /\ Items' = Items
  BY <1>1 DEF DqInv, DqRingOK, Items
<1>3. /\ DqClientsOK /\ on' \in [Thread -> Queue \cup {None}]
      /\ popped' \in [Thread -> Item \cup {None}]
      /\ item' \in [Thread -> Item \cup {None}]
      /\ \A u \in Thread \ {t} : on'[u] = on[u] /\ item'[u] = item[u] /\ popped'[u] = popped[u]
  BY <1>1 DEF DqInv, DqClientsOK
<1>4. DqClientsOK'
  BY <1>1, <1>3, ClientMoves DEF Pcs
<1> QED BY <1>1, <1>2, <1>4 DEF QueueStep, DqInv

\* A thread that begins to wait, or waits again.
LEMMA WaitsOnStep ==
    ASSUME DqInv, NEW t \in Thread, NEW q \in {dq_pop, dq_push},
           NEW v \in Item \cup {None}, NEW time, WaitsOn(t, q, v, time),
           q = dq_pop => popped[t] = None, q = dq_push => v \in Item
    PROVE  DqInv' /\ QueueStep
<1>1. /\ UNCHANGED <<items, put_index, get_index, popped>> /\ Goto(t, "block")
      /\ item' = [item EXCEPT ![t] = v] /\ on' = [on EXCEPT ![t] = q] /\ q \in Queue
  BY ListsAssumption DEF WaitsOn, Passes
<1>2. DqRingOK' /\ Items' = Items
  BY <1>1 DEF DqInv, DqRingOK, Items
<1>3. /\ DqClientsOK /\ on' \in [Thread -> Queue \cup {None}]
      /\ popped' \in [Thread -> Item \cup {None}]
      /\ item' \in [Thread -> Item \cup {None}]
      /\ on'[t] = q /\ item'[t] = v /\ popped'[t] = popped[t]
      /\ \A u \in Thread \ {t} : on'[u] = on[u] /\ item'[u] = item[u] /\ popped'[u] = popped[u]
  BY <1>1 DEF DqInv, DqClientsOK
<1>4. DqClientsOK'
  BY <1>1, <1>3, ClientMoves, DqConstants DEF Pcs
<1> QED BY <1>1, <1>2, <1>4 DEF QueueStep, DqInv

\* A round of rt_data_queue_push puts the item, gives up or waits with it.
LEMMA PushRoundStep ==
    ASSUME DqInv, NEW t \in Thread, NEW v \in Item, NEW time, PushRound(t, v, time)
    PROVE  DqInv' /\ QueueStep
<1>1. CASE ~Full /\ Push(v) /\ Wake(t, dq_pop) /\ Passes(t, None, 0) /\ UNCHANGED on
  <2>1. DqRingOK' /\ DataOrder!Put(v)
    BY <1>1, PushIsPut DEF DqInv
  <2>2. PICK c \in {"run", "resched"} : Goto(t, c)
    BY <1>1 DEF Wake
  <2>3. /\ DqClientsOK /\ on' \in [Thread -> Queue \cup {None}]
        /\ popped' \in [Thread -> Item \cup {None}]
        /\ item' \in [Thread -> Item \cup {None}]
        /\ \A u \in Thread \ {t} : on'[u] = on[u] /\ item'[u] = item[u] /\ popped'[u] = popped[u]
    BY <1>1 DEF DqInv, DqClientsOK, Passes, Push
  <2>4. DqClientsOK'
    BY <2>2, <2>3, ClientMoves DEF Pcs
  <2> QED BY <2>1, <2>4 DEF DqInv, QueueStep, DataOrder!Next
<1>2. CASE Full /\ time = 0 /\ GivesUp(t)
  BY <1>2, GivesUpStep
<1>3. CASE Full /\ time # 0 /\ WaitsOn(t, dq_push, v, time)
  BY <1>3, WaitsOnStep, DqConstants
<1> QED BY <1>1, <1>2, <1>3 DEF PushRound

\* A round of rt_data_queue_pop gets an item, gives up or waits.
LEMMA PopRoundStep ==
    ASSUME DqInv, NEW t \in Thread, popped[t] = None, NEW time, PopRound(t, time)
    PROVE  DqInv' /\ QueueStep
<1>1. CASE ~Empty /\ Pop(t) /\ WakePusher(t) /\ Passes(t, None, 0) /\ UNCHANGED on
  <2>1. DqRingOK' /\ DataOrder!Get(t) /\ items[get_index % dq_size] \in Item \cup {None}
    BY <1>1, PopIsGet DEF DqInv
  <2>2. PICK c \in {"run", "resched"} : Goto(t, c)
    BY <1>1 DEF WakePusher, Wake
  <2>3. /\ DqClientsOK /\ on' \in [Thread -> Queue \cup {None}]
        /\ item' \in [Thread -> Item \cup {None}]
        /\ \A u \in Thread \ {t} : on'[u] = on[u] /\ item'[u] = item[u]
    BY <1>1 DEF DqInv, DqClientsOK, Passes
  <2>4. /\ popped' \in [Thread -> Item \cup {None}]
        /\ \A u \in Thread \ {t} : popped'[u] = popped[u]
    BY <1>1, <2>1 DEF DqInv, DqClientsOK, Pop
  <2>5. DqClientsOK'
    BY <2>2, <2>3, <2>4, ClientMoves DEF Pcs
  <2> QED BY <2>1, <2>5 DEF DqInv, QueueStep, DataOrder!Next
<1>2. CASE Empty /\ time = 0 /\ GivesUp(t)
  BY <1>2, GivesUpStep
<1>3. CASE Empty /\ time # 0 /\ WaitsOn(t, dq_pop, None, time)
  BY <1>3, WaitsOnStep, DqConstants
<1> QED BY <1>1, <1>2, <1>3 DEF PopRound

\* The calls of a thread on the data queue.
LEMMA DataQueueCallStep ==
    ASSUME DqInv, NEW t \in Thread, DataQueueCall(t)
    PROVE  DqInv' /\ QueueStep
<1>1. ASSUME NEW v \in Item, NEW time \in Time, rt_data_queue_push(t, v, time)
      PROVE  DqInv' /\ QueueStep
  BY <1>1, PushRoundStep DEF rt_data_queue_push
<1>2. ASSUME NEW time \in Time, rt_data_queue_pop(t, time) PROVE DqInv' /\ QueueStep
  BY <1>2, PopRoundStep DEF rt_data_queue_pop, DqCalls
<1>3. CASE UseItem(t)
  <2>1. /\ UNCHANGED <<items, put_index, get_index, item, pc, on>>
        /\ popped' = [popped EXCEPT ![t] = None] /\ popped[t] # None
    BY <1>3 DEF UseItem, kvars
  <2>2. DqRingOK' /\ Items' = Items
    BY <2>1 DEF DqInv, DqRingOK, Items
  <2>3. DataOrder!Use(t)
    BY <2>1, <2>2, ItemsAreQueue DEF DataOrder!Use
  <2>4. /\ popped' \in [Thread -> Item \cup {None}]
        /\ \A u \in Thread : popped'[u] = None \/ popped'[u] = popped[u]
    BY <2>1 DEF DqInv, DqClientsOK
  <2>5. DqClientsOK'
    BY <2>1, <2>4 DEF DqInv, DqClientsOK, InWait
  <2> QED BY <2>2, <2>3, <2>5 DEF DqInv, QueueStep, DataOrder!Next
<1>4. CASE rt_data_queue_reset(t)
  <2>1. /\ UNCHANGED dqvars /\ Goto(t, "dq_test") /\ dq_pop \in Queue
        /\ on' = [on EXCEPT ![t] = dq_pop]
    BY <1>4, ListsAssumption DEF rt_data_queue_reset
  <2>2. Elsewhere
    BY <2>1, GoesElsewhere DEF Pcs
  <2> QED BY <2>2, ElsewhereKeeps
<1> QED BY <1>1, <1>2, <1>3, <1>4 DEF DataQueueCall

\* What a thread does on the data queue once resumed, and the loop of the reset.
LEMMA DataQueueStepStep ==
    ASSUME DqInv, NEW t \in Thread, DataQueueStep(t)
    PROVE  DqInv' /\ QueueStep
<1>0. dq_push \in Queue
  BY ListsAssumption
<1>1. CASE PushResumed(t)
  <2>1. CASE k.error[t] # "EOK"
    BY <1>1, <2>1, GivesUpStep DEF PushResumed
  <2>2. CASE k.error[t] = "EOK"
    <3>1. item[t] \in Item
      BY <1>1 DEF PushResumed, At, DqInv, DqClientsOK, InWait
    <3>2. PushRound(t, item[t], timeout[t])
      BY <1>1, <2>2 DEF PushResumed
    <3> QED BY <3>1, <3>2, PushRoundStep
  <2> QED BY <2>1, <2>2
<1>2. CASE PopResumed(t)
  <2>1. CASE k.error[t] # "EOK"
    BY <1>2, <2>1, GivesUpStep DEF PopResumed
  <2>2. CASE k.error[t] = "EOK"
    <3>1. popped[t] = None
      BY <1>2 DEF PopResumed, At, DqInv, DqClientsOK, InWait
    <3>2. PopRound(t, timeout[t])
      BY <1>2, <2>2 DEF PopResumed
    <3> QED BY <3>1, <3>2, PopRoundStep
  <2> QED BY <2>1, <2>2
<1>3. CASE DqResetTest(t)
  <2>1. /\ UNCHANGED dqvars
        /\ \/ (Goto(t, "dq_resume") \/ Goto(t, "resched")) /\ on' = on
           \/ pc' = pc /\ pc[t] = "dq_test" /\ on' = [on EXCEPT ![t] = dq_push]
    BY <1>3 DEF DqResetTest, At, kvars
  <2>2. CASE pc' = pc /\ pc[t] = "dq_test" /\ on' = [on EXCEPT ![t] = dq_push]
    <3>1. Goto(t, "dq_test")
      BY <2>2 DEF Goto, DqInv, DqClientsOK
    <3>2. Elsewhere
      BY <1>0, <2>1, <2>2, <3>1, GoesElsewhere DEF Pcs
    <3> QED BY <3>2, ElsewhereKeeps
  <2>3. CASE (Goto(t, "dq_resume") \/ Goto(t, "resched")) /\ on' = on
    <3>1. Elsewhere
      BY <2>1, <2>3, GoesElsewhere DEF Pcs
    <3> QED BY <3>1, ElsewhereKeeps
  <2> QED BY <2>1, <2>2, <2>3
<1>4. CASE DqResetResume(t)
  <2>1. UNCHANGED dqvars /\ Goto(t, "dq_test") /\ on' = on
    BY <1>4 DEF DqResetResume
  <2>2. Elsewhere
    BY <2>1, GoesElsewhere DEF Pcs
  <2> QED BY <2>2, ElsewhereKeeps
<1> QED BY <1>1, <1>2, <1>3, <1>4 DEF DataQueueStep

\* Pushes from interrupt handlers.
LEMMA DataQueueIsrStep ==
    ASSUME DqInv, DataQueueIsr
    PROVE  DqInv' /\ QueueStep
<1>1. PICK v \in Item : PushIsr(v)
  BY DEF DataQueueIsr
<1>2. UNCHANGED <<pc, on, item, popped>> /\ ~Full /\ Push(v)
  BY <1>1 DEF PushIsr, WakeIsr, Push
<1>3. DqRingOK' /\ DataOrder!Put(v)
  BY <1>2, PushIsPut DEF DqInv
<1>4. DqClientsOK'
  BY <1>2 DEF DqInv, DqClientsOK, InWait
<1> QED BY <1>3, <1>4 DEF DqInv, QueueStep, DataOrder!Next

\* At start-up the data queue is an empty queue and nobody waits on it.
LEMMA DqInitially == Init => DqInv /\ DataOrder!Init
<1> SUFFICES ASSUME Init PROVE DqInv /\ DataOrder!Init
  OBVIOUS
<1>1. DataQueueInit /\ ThreadsInit /\ on = [t \in Thread |-> None]
  BY DEF Init
<1>2. DqRingOK
  BY <1>1, DqConstants DEF DataQueueInit, DqRingOK
<1>3. pc = [t \in Thread |-> "run"]
  BY <1>1 DEF ThreadsInit
<1>4. DqClientsOK
  BY <1>1, <1>3 DEF DqClientsOK, InWait, Pcs, DataQueueInit
<1>5. put_index - get_index = 0
  BY <1>1 DEF DataQueueInit
<1>6. Items = << >>
  BY <1>2, <1>5, ItemsLength DEF DqRingOK
<1>7. DataOrder!Init
  BY <1>1, <1>6, ItemsAreQueue DEF DataOrder!Init, DataQueueInit
<1> QED BY <1>2, <1>4, <1>7 DEF DqInv

\* Every step of the system is a step of the queue or leaves it as it is.
LEMMA DqStep == DqInv /\ [Next]_vars => DqInv' /\ QueueStep
<1> SUFFICES ASSUME DqInv, [Next]_vars PROVE DqInv' /\ QueueStep
  OBVIOUS
<1>1. CASE UNCHANGED vars
  BY <1>1, StaysElsewhere, ElsewhereKeeps DEF vars, kvars
<1>2. ASSUME NEW t \in Thread, ThreadCall(t) PROVE DqInv' /\ QueueStep
  <2>1. CASE (\E u \in Thread : Starts(t, u)) \/ rt_thread_sleep(t)
    BY <2>1, KernelElsewhere, ElsewhereKeeps
  <2>2. CASE CompletionCall(t) /\ OnCompletion
    BY <2>2, CompletionElsewhere, ElsewhereKeeps
  <2>3. CASE DataQueueCall(t) /\ OnDataQueue
    BY <2>3, DataQueueCallStep
  <2>4. CASE WorkQueueCall(t) /\ OnWorkQueue
    BY <2>4, WorkQueueElsewhere, ElsewhereKeeps
  <2>5. CASE PipeCall(t) /\ OnPipe
    BY <2>5, PipeElsewhere, ElsewhereKeeps
  <2>6. CASE (RingCall(t) /\ OnRing) \/ (RingBlockCall(t) /\ OnRingBlock)
    BY <2>6, RingsElsewhere, ElsewhereKeeps
  <2> QED BY <1>2, <2>1, <2>2, <2>3, <2>4, <2>5, <2>6 DEF ThreadCall
<1>3. ASSUME NEW t \in Thread, ThreadStep(t) PROVE DqInv' /\ QueueStep
  <2>1. CASE (Reschedule(t) /\ UNCHANGED on /\ OnObjects) \/ SleepReturn(t)
    BY <2>1, KernelElsewhere, ElsewhereKeeps
  <2>2. CASE CompletionStep(t) /\ OnCompletion
    BY <2>2, CompletionElsewhere, ElsewhereKeeps
  <2>3. CASE DataQueueStep(t) /\ OnDataQueue
    BY <2>3, DataQueueStepStep
  <2>4. CASE WorkQueueStep(t) /\ OnWorkQueue
    BY <2>4, WorkQueueElsewhere, ElsewhereKeeps
  <2>5. CASE PipeStep(t) /\ OnPipe
    BY <2>5, PipeElsewhere, ElsewhereKeeps
  <2> QED BY <1>3, <2>1, <2>2, <2>3, <2>4, <2>5 DEF ThreadStep
<1>4. CASE Interrupt
  <2>1. CASE \/ \E t \in Thread : Timeout(t) /\ UNCHANGED on /\ OnObjects
             \/ SliceExpired /\ UNCHANGED on /\ OnObjects
    BY <2>1, KernelElsewhere, ElsewhereKeeps
  <2>2. CASE DoneIsr /\ OnCompletion
    BY <2>2, CompletionElsewhere, ElsewhereKeeps
  <2>3. CASE DataQueueIsr /\ OnDataQueue
    BY <2>3, DataQueueIsrStep
  <2> QED BY <1>4, <2>1, <2>2, <2>3 DEF Interrupt
<1> QED BY <1>1, <1>2, <1>3, <1>4 DEF Next, Halted

\* Until its indices reach 65535 the data queue, whoever waits, times out or is
\* woken by a reset in between, is a bounded queue (dataqueue.c).
THEOREM DataQueueRefinesQueue == Spec => DataQueueIsQueue
<1>1. Init => DqInv /\ DataOrder!Init
  BY DqInitially
<1>2. DqInv /\ [Next]_vars
        => DqInv' /\ [DataOrder!Next]_<<[i \in 1 .. put_index - get_index |->
                                           items[(get_index + i - 1) % dq_size]], popped>>
  BY DqStep, ItemsAreQueue DEF QueueStep
<1> QED BY <1>1, <1>2, PTL DEF Spec, DataQueueIsQueue, DataOrder!Spec
-----------------------------------------------------------------------------
(* The ring buffer.                                                        *)

\* A position at most one turn outside 0 .. n - 1, brought back.
Turn(z, n) == IF z < 0 THEN z + n ELSE IF z < n THEN z ELSE z - n

\* The last m bytes before the write index are the last m of a stream of bytes
\* that goes up to f.
Back(r, f, m) ==
    \A d \in 1 .. m :
       r.buf[Turn(r.write_index - d, buffer_size)] = Turn(f - d, 2 * buffer_size)

\* The write index is ahead in the same mirror or behind in the other one.
MirrorOK(r) ==
    /\ r.write_index > r.read_index => r.write_mirror = r.read_mirror
    /\ r.write_index < r.read_index => r.write_mirror # r.read_mirror

\* A ring that holds the newest bytes of the stream up to f.
HoldsNewest(r, f) ==
    /\ r \in RingRecord /\ f \in Byte
    /\ MirrorOK(r)
    /\ Back(r, f, rt_ringbuffer_data_len(r))

\* The remainder of a division, within a turn.
LEMMA Remainder ==
    ASSUME NEW n \in Nat \ {0}, NEW z \in Int, -n <= z, z < 2 * n
    PROVE  z % n = Turn(z, n)
<1>1. CASE z < 0
  <2>1. z + n \in 0 .. n - 1 /\ z = n * (-1) + (z + n)
    BY <1>1
  <2>2. z % n = z + n
    BY <2>1
  <2> QED BY <1>1, <2>2 DEF Turn
<1>2. CASE 0 <= z /\ z < n
  <2>1. z % n = z
    BY <1>2
  <2> QED BY <1>2, <2>1 DEF Turn
<1>3. CASE n <= z
  <2>1. z - n \in 0 .. n - 1 /\ z = n * 1 + (z - n)
    BY <1>3
  <2>2. z % n = z - n
    BY <2>1
  <2> QED BY <1>3, <2>2 DEF Turn
<1> QED BY <1>1, <1>2, <1>3

\* The size of the buffer.
LEMMA RingSize == buffer_size \in Nat \ {0}
BY RingAssumption

\* Places in the buffer and bytes of the stream, by Turn.
LEMMA Positions ==
    /\ \A z \in -buffer_size .. 2 * buffer_size - 1 : z % buffer_size = Turn(z, buffer_size)
    /\ \A z \in -2 * buffer_size .. 4 * buffer_size - 1 :
          z % (2 * buffer_size) = Turn(z, 2 * buffer_size)
<1>1. ASSUME NEW z \in -buffer_size .. 2 * buffer_size - 1
      PROVE  z % buffer_size = Turn(z, buffer_size)
  <2>1. z \in Int /\ -buffer_size <= z /\ z < 2 * buffer_size
    BY <1>1, RingSize
  <2> QED BY <2>1, RingSize, Remainder
<1>2. ASSUME NEW z \in -2 * buffer_size .. 4 * buffer_size - 1
      PROVE  z % (2 * buffer_size) = Turn(z, 2 * buffer_size)
  <2> DEFINE n == 2 * buffer_size
  <2>1. n \in Nat \ {0} /\ z \in Int /\ -n <= z /\ z < 2 * n
    BY <1>2, RingSize
  <2> HIDE DEF n
  <2>2. z % n = Turn(z, n)
    BY <2>1, Remainder
  <2> QED BY <2>2 DEF n
<1> QED BY <1>1, <1>2

\* What data_len returns.
LEMMA DataLen ==
    ASSUME NEW r \in RingRecord
    PROVE  /\ rt_ringbuffer_data_len(r) \in 0 .. buffer_size
           /\ r.write_index > r.read_index =>
                 rt_ringbuffer_data_len(r) = r.write_index - r.read_index
           /\ r.write_index < r.read_index =>
                 rt_ringbuffer_data_len(r) = buffer_size - (r.read_index - r.write_index)
           /\ r.write_index = r.read_index =>
                 rt_ringbuffer_data_len(r)
                    = IF r.read_mirror = r.write_mirror THEN 0 ELSE buffer_size
BY RingSize DEF rt_ringbuffer_data_len, rt_ringbuffer_status, RingRecord, Index

\* The bytes of the stream.
LEMMA StreamBytes ==
    ASSUME NEW f \in Byte, NEW n \in Nat
    PROVE  /\ Stream(f, n) \in Seq(Byte) /\ Len(Stream(f, n)) = n
           /\ \A i \in 1 .. n :
                 i <= buffer_size + 1 => Stream(f, n)[i] = Turn(f + i - 1, 2 * buffer_size)
<1> DEFINE N == 2 * buffer_size
           s == [i \in 1 .. n |-> (f + i - 1) % N]
<1>1. N \in Nat \ {0} /\ Byte = 0 .. N - 1 /\ s = Stream(f, n)
  BY RingSize DEF Byte, Stream
<1>2. ASSUME NEW i \in 1 .. n, i <= buffer_size + 1
      PROVE  s[i] = Turn(f + i - 1, 2 * buffer_size)
  <2>1. f + i - 1 \in -2 * buffer_size .. 4 * buffer_size - 1
    BY <1>2, RingSize DEF Byte
  <2> QED BY <2>1, Positions
<1> HIDE DEF N
<1>3. \A i \in 1 .. n : (f + i - 1) % N \in Byte
  BY <1>1
<1>4. s \in Seq(Byte) /\ Len(s) = n
  BY <1>3
<1> QED BY <1>1, <1>2, <1>4

\* What Write does to each field.
LEMMA WriteFields ==
    ASSUME NEW r \in RingRecord, NEW data \in Seq(Byte), Len(data) <= buffer_size
    PROVE  /\ Write(r, data) \in RingRecord
           /\ Write(r, data).read_index = r.read_index
           /\ Write(r, data).read_mirror = r.read_mirror
           /\ Write(r, data).write_index = Turn(r.write_index + Len(data), buffer_size)
           /\ Write(r, data).write_mirror
                 = IF r.write_index + Len(data) < buffer_size THEN r.write_mirror
                                                              ELSE 1 - r.write_mirror
           /\ \A i \in Index :
                 Write(r, data).buf[i]
                    = LET j == 1 + Turn(i - r.write_index, buffer_size)
                      IN  IF j <= Len(data) THEN data[j] ELSE r.buf[i]
<1> DEFINE m == Len(data)
<1>0. m \in Nat /\ m <= buffer_size /\ r.write_index \in Index /\ buffer_size \in Nat \ {0}
  BY RingSize DEF RingRecord
<1>1. \A i \in Index : (i - r.write_index) % buffer_size = Turn(i - r.write_index, buffer_size)
  <2> TAKE i \in Index
  <2>1. i - r.write_index \in -buffer_size .. 2 * buffer_size - 1
    BY <1>0 DEF Index
  <2> QED BY <2>1, Positions
<1>2. \A i \in Index : Turn(i - r.write_index, buffer_size) \in Index
  BY <1>0 DEF Turn, Index
<1>3. CopyIn(r, data) \in [Index -> Byte]
  <2>1. ASSUME NEW i \in Index
        PROVE  (IF 1 + Turn(i - r.write_index, buffer_size) <= m
                  THEN data[1 + Turn(i - r.write_index, buffer_size)] ELSE r.buf[i]) \in Byte
    <3> DEFINE j == 1 + Turn(i - r.write_index, buffer_size)
    <3>1. j \in Nat \ {0}
      <4>1. Turn(i - r.write_index, buffer_size) \in Index
        BY <1>2
      <4> QED BY <1>0, <4>1 DEF Index
    <3>2. r.buf[i] \in Byte
      BY DEF RingRecord
    <3> HIDE DEF j
    <3>3. (IF j <= m THEN data[j] ELSE r.buf[i]) \in Byte
      BY <1>0, <3>1, <3>2
    <3> QED BY <3>3 DEF j
  <2>2. CopyIn(r, data) = [i \in Index |->
            IF 1 + Turn(i - r.write_index, buffer_size) <= m
              THEN data[1 + Turn(i - r.write_index, buffer_size)] ELSE r.buf[i]]
    BY <1>1 DEF CopyIn, Index
  <2> QED BY <2>1, <2>2
<1>4. \A i \in Index :
         CopyIn(r, data)[i] = LET j == 1 + Turn(i - r.write_index, buffer_size)
                              IN  IF j <= m THEN data[j] ELSE r.buf[i]
  BY <1>1 DEF CopyIn, Index
<1>5. Moved(r.write_index, m) = Turn(r.write_index + m, buffer_size)
  BY <1>0 DEF Moved, Wraps, Turn, Index
<1>6. Turn(r.write_index + m, buffer_size) \in Index
  BY <1>0 DEF Turn, Index
<1>7. Mirror(r.write_mirror, r.write_index, m)
         = IF r.write_index + m < buffer_size THEN r.write_mirror ELSE 1 - r.write_mirror
  BY <1>0 DEF Mirror, Wraps, Index
<1>8. (IF r.write_index + m < buffer_size THEN r.write_mirror ELSE 1 - r.write_mirror) \in {0, 1}
  BY DEF RingRecord
<1> HIDE DEF m
<1>9. /\ Write(r, data).read_index = r.read_index
      /\ Write(r, data).read_mirror = r.read_mirror
      /\ Write(r, data).write_mirror = Mirror(r.write_mirror, r.write_index, m)
      /\ Write(r, data).write_index = Moved(r.write_index, m)
      /\ Write(r, data).buf = CopyIn(r, data)
  BY DEF Write, RingRecord, m
<1>10. Write(r, data) \in RingRecord
  <2>1. \A b \in {0, 1}, w \in Index, c \in [Index -> Byte] :
           [r EXCEPT !.buf = c, !.write_mirror = b, !.write_index = w] \in RingRecord
    BY DEF RingRecord
  <2> QED BY <1>3, <1>5, <1>6, <1>7, <1>8, <2>1 DEF Write, m
<1> QED BY <1>4, <1>5, <1>7, <1>9, <1>10 DEF m

\* d places back from where a write of m bytes at w ends: within the bytes written,
\* or before w.
LEMMA TurnBack ==
    ASSUME NEW n \in Nat \ {0}, NEW w \in 0 .. n - 1, NEW m \in 0 .. n, NEW d \in 1 .. n
    PROVE  LET i == Turn(Turn(w + m, n) - d, n) IN
           /\ i \in 0 .. n - 1
           /\ d <= m => 1 + Turn(i - w, n) = m - d + 1
           /\ d > m => 1 + Turn(i - w, n) > m /\ i = Turn(w - (d - m), n)
<1> DEFINE a == Turn(w + m, n)
           i == Turn(a - d, n)
<1>1. a = IF w + m < n THEN w + m ELSE w + m - n
  BY DEF Turn
<1>2. a \in 0 .. n - 1
  BY <1>1
<1> HIDE DEF a
<1>3. i = IF a < d THEN a - d + n ELSE a - d
  BY <1>2 DEF Turn
<1>4. i \in 0 .. n - 1
  BY <1>2, <1>3
<1> HIDE DEF i
<1>5. Turn(i - w, n) = IF i < w THEN i - w + n ELSE i - w
  BY <1>4 DEF Turn
<1>6. ASSUME d <= m PROVE 1 + Turn(i - w, n) = m - d + 1
  BY <1>1, <1>2, <1>3, <1>4, <1>5, <1>6
<1>7. ASSUME d > m PROVE 1 + Turn(i - w, n) > m
  BY <1>1, <1>2, <1>3, <1>4, <1>5, <1>7
<1>8. ASSUME d > m PROVE i = Turn(w - (d - m), n)
  <2>1. Turn(w - (d - m), n) = IF w < d - m THEN w - (d - m) + n ELSE w - (d - m)
    BY <1>8 DEF Turn
  <2> QED BY <1>1, <1>2, <1>3, <1>8, <2>1
<1> QED BY <1>4, <1>6, <1>7, <1>8 DEF i, a

\* The bytes of data are the last ones of the stream up to g.
EndsAt(data, g) ==
    \A j \in 1 .. Len(data) : data[j] = Turn(g - (Len(data) - j + 1), 2 * buffer_size)

\* After a write the last bytes are the new ones and before them the old ones.
LEMMA WriteBack ==
    ASSUME NEW r \in RingRecord, NEW data \in Seq(Byte), Len(data) <= buffer_size,
           NEW f \in Byte, NEW g \in Byte, NEW e \in Nat, Back(r, f, e),
           EndsAt(data, g),
           Len(data) < buffer_size => g = Turn(f + Len(data), 2 * buffer_size),
           NEW h \in 0 .. buffer_size, h <= e + Len(data)
    PROVE  Back(Write(r, data), g, h)
<1> DEFINE m == Len(data)
           w == r.write_index
           wr == Write(r, data)
<1>0. m \in Nat /\ m <= buffer_size /\ w \in Index /\ buffer_size \in Nat \ {0}
  BY RingSize DEF RingRecord
<1>1. /\ wr.write_index = Turn(w + m, buffer_size)
      /\ \A i \in Index : LET j == 1 + Turn(i - w, buffer_size)
                          IN  wr.buf[i] = IF j <= m THEN data[j] ELSE r.buf[i]
  BY WriteFields
<1>2. /\ \A j \in 1 .. m : data[j] = Turn(g - (m - j + 1), 2 * buffer_size)
      /\ m < buffer_size => g = Turn(f + m, 2 * buffer_size)
      /\ h <= e + m
  BY DEF EndsAt
<1>3. \A d \in 1 .. e : r.buf[Turn(w - d, buffer_size)] = Turn(f - d, 2 * buffer_size)
  BY DEF Back
<1> HIDE DEF m, w, wr
<1>4. ASSUME NEW d \in 1 .. h
      PROVE  wr.buf[Turn(wr.write_index - d, buffer_size)] = Turn(g - d, 2 * buffer_size)
  <2> DEFINE i == Turn(wr.write_index - d, buffer_size)
  <2>0. /\ i \in 0 .. buffer_size - 1
        /\ d <= m => 1 + Turn(i - w, buffer_size) = m - d + 1
        /\ d > m => /\ 1 + Turn(i - w, buffer_size) > m
                    /\ i = Turn(w - (d - m), buffer_size)
    <3>1. w \in 0 .. buffer_size - 1 /\ m \in 0 .. buffer_size /\ d \in 1 .. buffer_size
      BY <1>0 DEF Index
    <3>2. i = Turn(Turn(w + m, buffer_size) - d, buffer_size)
      BY <1>1
    <3> HIDE DEF i
    <3>3. LET j == Turn(Turn(w + m, buffer_size) - d, buffer_size) IN
          /\ j \in 0 .. buffer_size - 1
          /\ d <= m => 1 + Turn(j - w, buffer_size) = m - d + 1
          /\ d > m => /\ 1 + Turn(j - w, buffer_size) > m
                      /\ j = Turn(w - (d - m), buffer_size)
      BY ONLY <1>0, <3>1, TurnBack
    <3> QED BY <3>2, <3>3
  <2>1. i \in Index
    BY <2>0 DEF Index
  <2>2. CASE d <= m
    <3>1. 1 + Turn(i - w, buffer_size) = m - d + 1
      BY <2>0, <2>2
    <3>2. wr.buf[i] = data[m - d + 1]
      <4> HIDE DEF i
      <4>1. m - d + 1 <= m
        BY <1>0, <2>2
      <4> QED BY <1>1, <2>1, <3>1, <4>1
    <3>3. m - d + 1 \in 1 .. m /\ m - (m - d + 1) + 1 = d
      BY <1>0, <2>2
    <3> QED BY <1>2, <3>2, <3>3
  <2>3. CASE d > m
    <3>1. 1 + Turn(i - w, buffer_size) > m
      BY <2>0, <2>3
    <3>2. i = Turn(w - (d - m), buffer_size)
      BY <2>0, <2>3
    <3>3. 1 + Turn(i - w, buffer_size) \in Int
      <4> HIDE DEF i
      <4>1. i \in Int /\ w \in Int /\ buffer_size \in Int
        BY ONLY <1>0, <2>1 DEF Index
      <4> QED BY ONLY <4>1 DEF Turn
    <3>4. wr.buf[i] = r.buf[i]
      <4> DEFINE j == 1 + Turn(i - w, buffer_size)
      <4>1. wr.buf[i] = IF j <= m THEN data[j] ELSE r.buf[i]
        BY <1>1, <2>1
      <4>2. ~(j <= m)
        <5> HIDE DEF j
        <5>1. j > m /\ j \in Int
          BY ONLY <3>1, <3>3 DEF j
        <5> QED BY ONLY <1>0, <5>1
      <4> QED BY <4>1, <4>2
    <3>5. d - m \in 1 .. e /\ m < buffer_size
      BY <1>0, <1>2, <2>3
    <3>6. r.buf[i] = Turn(f - (d - m), 2 * buffer_size)
      BY <1>3, <3>2, <3>5
    <3>7. Turn(f - (d - m), 2 * buffer_size) = Turn(g - d, 2 * buffer_size)
      BY <1>0, <1>2, <2>3, <3>5 DEF Turn, Byte
    <3> QED BY <3>4, <3>6, <3>7
  <2> QED BY <1>0, <2>2, <2>3
<1> QED BY <1>4 DEF Back, wr

\* A write that fits adds its bytes.
LEMMA WriteFits ==
    ASSUME NEW r \in RingRecord, MirrorOK(r), NEW data \in Seq(Byte), Len(data) <= SpaceLen(r)
    PROVE  /\ MirrorOK(Write(r, data))
           /\ rt_ringbuffer_data_len(Write(r, data)) = rt_ringbuffer_data_len(r) + Len(data)
<1> DEFINE m == Len(data)
           wr == Write(r, data)
<1>0. m \in Nat /\ m <= buffer_size - rt_ringbuffer_data_len(r) /\ buffer_size \in Nat \ {0}
  BY RingSize DEF SpaceLen
<1>1. m <= buffer_size
  BY <1>0, DataLen
<1>2. /\ wr \in RingRecord
      /\ wr.read_index = r.read_index /\ wr.read_mirror = r.read_mirror
      /\ wr.write_index = Turn(r.write_index + m, buffer_size)
      /\ wr.write_mirror = IF r.write_index + m < buffer_size THEN r.write_mirror
                                                              ELSE 1 - r.write_mirror
  BY <1>1, WriteFields
<1>3. /\ r.read_index \in Index /\ r.write_index \in Index
      /\ r.read_mirror \in {0, 1} /\ r.write_mirror \in {0, 1}
  BY DEF RingRecord
<1> HIDE DEF m, wr
<1>4. MirrorOK(wr)
  BY <1>0, <1>2, <1>3, DataLen, SMTT(60) DEF MirrorOK, Turn, Index
<1>5. rt_ringbuffer_data_len(wr) = rt_ringbuffer_data_len(r) + m
  <2> DEFINE l == rt_ringbuffer_data_len(wr)
             e == rt_ringbuffer_data_len(r)
  <2>1. /\ l \in 0 .. buffer_size
        /\ wr.write_index > wr.read_index => l = wr.write_index - wr.read_index
        /\ wr.write_index < wr.read_index => l = buffer_size - (wr.read_index - wr.write_index)
        /\ wr.write_index = wr.read_index =>
              l = IF wr.read_mirror = wr.write_mirror THEN 0 ELSE buffer_size
    BY ONLY <1>2, DataLen
  <2>2. /\ e \in 0 .. buffer_size
        /\ r.write_index > r.read_index => e = r.write_index - r.read_index
        /\ r.write_index < r.read_index => e = buffer_size - (r.read_index - r.write_index)
        /\ r.write_index = r.read_index =>
              e = IF r.read_mirror = r.write_mirror THEN 0 ELSE buffer_size
    BY DataLen
  <2>3. m <= buffer_size - e
    BY <1>0
  <2> HIDE DEF l, e
  <2> QED
    <3>1. l = e + m
      <4>0. MirrorOK(r)
        OBVIOUS
      <4>1. CASE r.write_index + m < buffer_size
        <5>1. wr.write_index = r.write_index + m /\ wr.write_mirror = r.write_mirror
          BY ONLY <1>0, <1>2, <1>3, <4>1 DEF Turn, Index
        <5>2. CASE r.write_index > r.read_index
          BY ONLY <1>0, <1>2, <1>3, <2>1, <2>2, <5>1, <5>2 DEF Index
        <5>3. CASE r.write_index < r.read_index
          BY ONLY <1>0, <1>2, <1>3, <2>1, <2>2, <2>3, <4>0, <5>1, <5>3, SMTT(60) DEF MirrorOK, Index
        <5>4. CASE r.write_index = r.read_index
          BY ONLY <1>0, <1>2, <1>3, <2>1, <2>2, <2>3, <5>1, <5>4 DEF Index
        <5> QED BY ONLY <1>3, <5>2, <5>3, <5>4 DEF Index
      <4>2. CASE ~(r.write_index + m < buffer_size)
        <5>1. /\ wr.write_index = r.write_index + m - buffer_size
              /\ wr.write_mirror = 1 - r.write_mirror
          BY ONLY <1>0, <1>2, <1>3, <4>2 DEF Turn, Index
        <5>2. CASE r.write_index > r.read_index
          <6>1. /\ r.write_index \in Int /\ r.read_index \in Int /\ m \in Int
                /\ buffer_size \in Int /\ wr.read_index = r.read_index
            BY ONLY <1>0, <1>2, <1>3 DEF Index
          <6>2. e = r.write_index - r.read_index
            BY ONLY <2>2, <5>2
          <6>3. wr.write_index <= r.read_index
            BY ONLY <2>3, <5>1, <6>1, <6>2
          <6>4. CASE wr.write_index < r.read_index
            <7>1. l = buffer_size - (r.read_index - wr.write_index)
              BY ONLY <2>1, <6>1, <6>4
            <7> QED BY ONLY <5>1, <6>1, <6>2, <7>1
          <6>5. CASE wr.write_index = r.read_index
            <7>1. wr.read_mirror # wr.write_mirror
              <8>1. r.write_mirror = r.read_mirror /\ wr.read_mirror = r.read_mirror
                BY ONLY <1>2, <4>0, <5>2 DEF MirrorOK
              <8> QED BY ONLY <1>3, <5>1, <8>1
            <7>2. l = buffer_size
              BY ONLY <2>1, <6>1, <6>5, <7>1
            <7> QED BY ONLY <5>1, <6>1, <6>2, <6>5, <7>2
          <6>6. wr.write_index \in Int
            BY ONLY <5>1, <6>1
          <6> QED BY ONLY <6>1, <6>3, <6>4, <6>5, <6>6
        <5>3. CASE r.write_index < r.read_index
          BY ONLY <1>0, <1>2, <1>3, <2>1, <2>2, <2>3, <4>2, <5>1, <5>3, SMTT(60) DEF Index
        <5>4. CASE r.write_index = r.read_index
          BY ONLY <1>0, <1>2, <1>3, <2>1, <2>2, <2>3, <4>2, <5>1, <5>4 DEF Index
        <5> QED BY ONLY <1>3, <5>2, <5>3, <5>4 DEF Index
      <4> QED BY <4>1, <4>2
    <3> QED BY <3>1 DEF l, e
<1> QED BY <1>4, <1>5 DEF wr, m

\* A read takes the oldest bytes.
LEMMA ReadTakes ==
    ASSUME NEW r \in RingRecord, MirrorOK(r), NEW n \in Nat, n <= rt_ringbuffer_data_len(r)
    PROVE  /\ Read(r, n) \in RingRecord /\ MirrorOK(Read(r, n))
           /\ Read(r, n).write_index = r.write_index /\ Read(r, n).buf = r.buf
           /\ rt_ringbuffer_data_len(Read(r, n)) = rt_ringbuffer_data_len(r) - n
<1> DEFINE rd == Read(r, n)
<1>0. buffer_size \in Nat \ {0}
  BY RingSize
<1>1. /\ r.read_index \in Index /\ r.write_index \in Index
      /\ r.read_mirror \in {0, 1} /\ r.write_mirror \in {0, 1}
  BY DEF RingRecord
<1>2. n <= buffer_size
  <2>1. rt_ringbuffer_data_len(r) \in 0 .. buffer_size
    BY DataLen
  <2> QED BY <1>0, <2>1
<1>3. /\ rd.write_index = r.write_index /\ rd.write_mirror = r.write_mirror /\ rd.buf = r.buf
      /\ rd.read_index = Moved(r.read_index, n)
      /\ rd.read_mirror = Mirror(r.read_mirror, r.read_index, n)
  BY DEF Read, RingRecord
<1>4. Moved(r.read_index, n) = Turn(r.read_index + n, buffer_size)
  BY <1>0, <1>1, <1>2 DEF Moved, Wraps, Turn, Index
<1>5. Mirror(r.read_mirror, r.read_index, n)
         = IF r.read_index + n < buffer_size THEN r.read_mirror ELSE 1 - r.read_mirror
  BY <1>0, <1>1, <1>2 DEF Mirror, Wraps, Index
<1>6. rd \in RingRecord
  <2>1. \A b \in {0, 1}, i \in Index :
           [r EXCEPT !.read_mirror = b, !.read_index = i] \in RingRecord
    BY DEF RingRecord
  <2>2. Moved(r.read_index, n) \in Index
    BY <1>0, <1>1, <1>2, <1>4 DEF Turn, Index
  <2>3. Mirror(r.read_mirror, r.read_index, n) \in {0, 1}
    BY <1>1, <1>5
  <2> QED BY <2>1, <2>2, <2>3 DEF Read
<1> HIDE DEF rd
<1>7. MirrorOK(rd)
  BY <1>0, <1>1, <1>2, <1>3, <1>4, <1>5, DataLen DEF MirrorOK, Turn, Index
<1>8. rt_ringbuffer_data_len(rd) = rt_ringbuffer_data_len(r) - n
  <2> DEFINE l == rt_ringbuffer_data_len(rd)
             e == rt_ringbuffer_data_len(r)
  <2>1. /\ l \in 0 .. buffer_size
        /\ rd.write_index > rd.read_index => l = rd.write_index - rd.read_index
        /\ rd.write_index < rd.read_index => l = buffer_size - (rd.read_index - rd.write_index)
        /\ rd.write_index = rd.read_index =>
              l = IF rd.read_mirror = rd.write_mirror THEN 0 ELSE buffer_size
    BY ONLY <1>6, DataLen
  <2>2. /\ e \in 0 .. buffer_size
        /\ r.write_index > r.read_index => e = r.write_index - r.read_index
        /\ r.write_index < r.read_index => e = buffer_size - (r.read_index - r.write_index)
        /\ r.write_index = r.read_index =>
              e = IF r.read_mirror = r.write_mirror THEN 0 ELSE buffer_size
    BY DataLen
  <2>3. n <= e
    OBVIOUS
  <2> HIDE DEF l, e
  <2> QED
    <3>1. l = e - n
      BY <1>0, <1>1, <1>3, <1>4, <1>5, <2>1, <2>2, <2>3 DEF MirrorOK, Turn, Index
    <3> QED BY <3>1 DEF l, e
<1> QED BY <1>3, <1>6, <1>7, <1>8 DEF rd

\* A part of the stream.
LEMMA StreamPart ==
    ASSUME NEW f \in Byte, NEW n \in Nat, NEW a \in 1 .. n + 1, NEW b \in 0 .. n,
           a <= b + 1, b <= buffer_size + 1
    PROVE  /\ SubSeq(Stream(f, n), a, b) \in Seq(Byte)
           /\ Len(SubSeq(Stream(f, n), a, b)) = b - a + 1
           /\ EndsAt(SubSeq(Stream(f, n), a, b), Turn(f + b, 2 * buffer_size))
<1> DEFINE s == Stream(f, n)
           p == SubSeq(s, a, b)
           g == Turn(f + b, 2 * buffer_size)
<1>0. /\ s \in Seq(Byte) /\ Len(s) = n
      /\ \A i \in 1 .. n : i <= buffer_size + 1 => s[i] = Turn(f + i - 1, 2 * buffer_size)
  BY StreamBytes
<1> HIDE DEF s
<1>1. p \in Seq(Byte) /\ Len(p) = b - a + 1
  BY <1>0
<1>2. ASSUME NEW j \in 1 .. b - a + 1
      PROVE  p[j] = Turn(g - (b - a + 1 - j + 1), 2 * buffer_size)
  <2>1. a + j - 1 \in 1 .. n /\ a + j - 1 <= buffer_size + 1
    BY RingSize
  <2>2. p[j] = s[a + j - 1]
    BY <1>0
  <2>3. s[a + j - 1] = Turn(f + (a + j - 1) - 1, 2 * buffer_size)
    BY <1>0, <2>1
  <2>4. Turn(f + (a + j - 1) - 1, 2 * buffer_size)
           = Turn(g - (b - a + 1 - j + 1), 2 * buffer_size)
    BY RingSize DEF Turn, Byte
  <2> QED BY <2>2, <2>3, <2>4
<1>3. EndsAt(p, g)
  BY <1>1, <1>2 DEF EndsAt
<1> QED BY <1>1, <1>3 DEF s

\* The end of the stream after n more bytes, and the bytes before it.
LEMMA StreamGoesOn ==
    ASSUME NEW f \in Byte, NEW n \in 0 .. buffer_size + 1
    PROVE  /\ Turn(f + n, 2 * buffer_size) \in Byte
           /\ (f + n) % (2 * buffer_size) = Turn(f + n, 2 * buffer_size)
<1>1. f + n \in -2 * buffer_size .. 4 * buffer_size - 1
  BY RingSize DEF Byte
<1>2. Turn(f + n, 2 * buffer_size) \in Byte
  BY RingSize DEF Byte, Turn
<1> QED BY <1>1, <1>2, Positions

\* rt_ringbuffer_put keeps the order of the stream and adds what fits.
LEMMA PutKeeps ==
    ASSUME NEW r, NEW f, HoldsNewest(r, f), NEW n \in Nat
    PROVE  LET m == AtMost(n, SpaceLen(r))
               p == rt_ringbuffer_put(r, Stream(f, n))
           IN  /\ m \in 0 .. buffer_size /\ m <= n
               /\ HoldsNewest(p, (f + m) % (2 * buffer_size))
               /\ rt_ringbuffer_data_len(p) = rt_ringbuffer_data_len(r) + m
<1> DEFINE e == rt_ringbuffer_data_len(r)
           m == AtMost(n, SpaceLen(r))
           p == rt_ringbuffer_put(r, Stream(f, n))
           data == SubSeq(Stream(f, n), 1, m)
           g == Turn(f + m, 2 * buffer_size)
<1>0. r \in RingRecord /\ f \in Byte /\ MirrorOK(r) /\ Back(r, f, e)
  BY DEF HoldsNewest
<1>1. e \in 0 .. buffer_size /\ buffer_size \in Nat \ {0}
  BY <1>0, DataLen, RingSize
<1>2. m \in 0 .. buffer_size /\ m <= n /\ m <= buffer_size - e
  BY <1>1 DEF AtMost, SpaceLen
<1>3. g \in Byte /\ (f + m) % (2 * buffer_size) = g
  <2>1. m \in 0 .. buffer_size + 1
    BY <1>1, <1>2
  <2> HIDE DEF m
  <2> QED BY <1>0, <2>1, StreamGoesOn
<1>4. Len(Stream(f, n)) = n
  BY <1>0, StreamBytes
<1>5. CASE m = 0
  <2>1. p = r
    BY <1>4, <1>5 DEF rt_ringbuffer_put
  <2>2. g = f
    BY <1>0, <1>1, <1>5 DEF Turn, Byte
  <2> QED BY <1>1, <1>2, <1>3, <1>5, <2>1, <2>2
<1>6. CASE m # 0
  <2>1. p = Write(r, data)
    BY <1>4, <1>6 DEF rt_ringbuffer_put
  <2>2. data \in Seq(Byte) /\ Len(data) = m /\ EndsAt(data, g)
    <3>1. /\ 1 \in 1 .. n + 1 /\ m \in 0 .. n /\ 1 <= m + 1 /\ m - 1 + 1 = m
          /\ m <= buffer_size + 1
      BY <1>1, <1>2
    <3> HIDE DEF m
    <3> QED BY <1>0, <3>1, StreamPart
  <2> HIDE DEF data, p, m, e
  <2>4. p \in RingRecord
    BY <1>0, <1>1, <1>2, <2>1, <2>2, WriteFields
  <2>5. m <= SpaceLen(r)
    BY <1>2 DEF SpaceLen, e
  <2>6. MirrorOK(p) /\ rt_ringbuffer_data_len(p) = e + m
    BY <1>0, <2>1, <2>2, <2>5, WriteFits DEF e
  <2>7. e + m \in 0 .. buffer_size /\ e \in Nat /\ e + m <= e + m
    BY <1>1, <1>2
  <2> HIDE DEF g
  <2>8. Back(p, g, e + m)
    <3>1. Len(data) <= buffer_size /\ e + m <= e + Len(data)
      BY <1>1, <1>2, <2>2
    <3>2. Len(data) < buffer_size => g = Turn(f + Len(data), 2 * buffer_size)
      BY <2>2 DEF g
    <3> QED BY ONLY <1>0, <1>3, <2>1, <2>2, <2>7, <3>1, <3>2, WriteBack
  <2>9. HoldsNewest(p, g)
    BY <1>3, <2>4, <2>6, <2>8 DEF HoldsNewest
  <2> QED BY <1>2, <1>3, <2>6, <2>9 DEF p, m, e
<1> QED BY <1>5, <1>6

\* rt_ringbuffer_get takes the oldest bytes, as many as there are.
LEMMA GetKeeps ==
    ASSUME NEW r, NEW f, HoldsNewest(r, f), NEW n \in Nat
    PROVE  LET m == AtMost(n, rt_ringbuffer_data_len(r))
               p == rt_ringbuffer_get(r, n)
           IN  /\ m \in 0 .. rt_ringbuffer_data_len(r)
               /\ HoldsNewest(p, f)
               /\ rt_ringbuffer_data_len(p) = rt_ringbuffer_data_len(r) - m
<1> DEFINE e == rt_ringbuffer_data_len(r)
           m == AtMost(n, e)
           p == rt_ringbuffer_get(r, n)
<1>0. r \in RingRecord /\ f \in Byte /\ MirrorOK(r) /\ Back(r, f, e)
  BY DEF HoldsNewest
<1>1. e \in 0 .. buffer_size /\ buffer_size \in Nat \ {0}
  BY <1>0, DataLen, RingSize
<1>2. m \in Nat /\ m <= n /\ m <= e
  BY <1>1 DEF AtMost
<1>3. CASE m = 0
  BY <1>1, <1>3 DEF rt_ringbuffer_get
<1>4. CASE m # 0
  <2>1. p = Read(r, m)
    BY <1>4 DEF rt_ringbuffer_get
  <2> HIDE DEF p, m
  <2>2. /\ p \in RingRecord /\ MirrorOK(p)
        /\ p.write_index = r.write_index /\ p.buf = r.buf
        /\ rt_ringbuffer_data_len(p) = e - m
    BY <1>0, <1>2, <2>1, ReadTakes
  <2> HIDE DEF e
  <2>3. Back(p, f, e - m)
    BY <1>0, <1>1, <1>2, <2>2 DEF Back
  <2>4. HoldsNewest(p, f)
    BY <1>0, <2>2, <2>3 DEF HoldsNewest
  <2> QED BY <1>1, <1>2, <2>2, <2>4 DEF e, m, p
<1> QED BY <1>3, <1>4

\* A forced write keeps the newest bytes, and all of them or none when it
\* overwrites old ones.
LEMMA ForcedKeeps ==
    ASSUME NEW r, NEW f, HoldsNewest(r, f), NEW g \in Byte,
           NEW data \in Seq(Byte), Len(data) \in 1 .. buffer_size, EndsAt(data, g),
           Len(data) < buffer_size => g = Turn(f + Len(data), 2 * buffer_size),
           NEW p,
           IF Len(data) <= SpaceLen(r) THEN p = Write(r, data)
           ELSE \E b \in {0, 1} :
                   p = [Write(r, data) EXCEPT !.read_index = Write(r, data).write_index,
                                              !.read_mirror = b]
    PROVE  HoldsNewest(p, g)
<1> DEFINE e == rt_ringbuffer_data_len(r)
           m == Len(data)
           w == Write(r, data)
<1>0. r \in RingRecord /\ f \in Byte /\ MirrorOK(r) /\ Back(r, f, e) /\ g \in Byte
  BY DEF HoldsNewest
<1>1. e \in 0 .. buffer_size /\ buffer_size \in Nat \ {0} /\ m \in 1 .. buffer_size
  BY <1>0, DataLen, RingSize
<1>2. w \in RingRecord
  BY <1>0, <1>1, WriteFields
<1>3. \A h \in 0 .. buffer_size : h <= e + m => Back(w, g, h)
  <2> TAKE h \in 0 .. buffer_size
  <2> HAVE h <= e + m
  <2>1. m <= buffer_size /\ e \in Nat
    BY <1>1
  <2> HIDE DEF e
  <2> QED BY <1>0, <2>1, WriteBack
<1>4. CASE m <= SpaceLen(r)
  <2>1. MirrorOK(w) /\ rt_ringbuffer_data_len(w) = e + m
    BY <1>0, <1>4, WriteFits
  <2>2. e + m \in 0 .. buffer_size /\ e + m <= e + m
    BY <1>1, <1>4 DEF SpaceLen
  <2>3. Back(w, g, rt_ringbuffer_data_len(w))
    BY <1>3, <2>1, <2>2
  <2> QED BY <1>0, <1>2, <1>4, <2>1, <2>3 DEF HoldsNewest
<1>5. CASE ~(m <= SpaceLen(r))
  <2>1. PICK b \in {0, 1} : p = [w EXCEPT !.read_index = w.write_index, !.read_mirror = b]
    BY <1>5
  <2> HIDE DEF w
  <2>2. p \in RingRecord
    <3>1. \A i \in Index : [w EXCEPT !.read_index = i, !.read_mirror = b] \in RingRecord
      BY <1>2 DEF RingRecord
    <3>2. w.write_index \in Index
      BY <1>2 DEF RingRecord
    <3> QED BY <2>1, <3>1, <3>2
  <2>3. /\ p.write_index = w.write_index /\ p.read_index = w.write_index
        /\ p.buf = w.buf /\ w.write_index \in Int
    BY <1>2, <2>1, RingSize DEF RingRecord, Index
  <2>4. MirrorOK(p)
    BY <2>3 DEF MirrorOK
  <2>5. rt_ringbuffer_data_len(p) \in 0 .. buffer_size
    BY <2>2, DataLen
  <2>6. buffer_size <= e + m
    BY <1>1, <1>5 DEF SpaceLen
  <2>7. Back(w, g, rt_ringbuffer_data_len(p))
    <3>1. rt_ringbuffer_data_len(p) <= e + m
      BY <1>1, <2>5, <2>6
    <3> QED BY <1>3, <2>5, <3>1
  <2>8. Back(p, g, rt_ringbuffer_data_len(p))
    BY <2>3, <2>7 DEF Back
  <2> QED BY <1>0, <2>2, <2>4, <2>8 DEF HoldsNewest
<1> QED BY <1>4, <1>5

\* rt_ringbuffer_put_force.
LEMMA PutForceKeeps ==
    ASSUME NEW r, NEW f, HoldsNewest(r, f), NEW n \in 1 .. buffer_size + 1
    PROVE  HoldsNewest(rt_ringbuffer_put_force(r, Stream(f, n)), (f + n) % (2 * buffer_size))
<1> DEFINE m == AtMost(n, buffer_size)
           data == SubSeq(Stream(f, n), n - m + 1, n)
           g == Turn(f + n, 2 * buffer_size)
           p == rt_ringbuffer_put_force(r, Stream(f, n))
<1>0. r \in RingRecord /\ f \in Byte /\ buffer_size \in Nat \ {0}
  BY RingSize DEF HoldsNewest
<1>1. g \in Byte /\ (f + n) % (2 * buffer_size) = g
  <2>1. n \in 0 .. buffer_size + 1
    BY <1>0
  <2> QED BY <1>0, <2>1, StreamGoesOn
<1>2. m \in 1 .. buffer_size /\ m <= n /\ (m < buffer_size => m = n)
  BY <1>0 DEF AtMost
<1>3. Len(Stream(f, n)) = n
  <2>1. n \in 0 .. buffer_size + 1
    BY <1>0
  <2> QED BY <1>0, <2>1, StreamBytes
<1>4. data \in Seq(Byte) /\ Len(data) = m /\ EndsAt(data, g)
  <2> DEFINE a == n - m + 1
  <2>1. /\ n \in 0 .. buffer_size + 1 /\ a \in 1 .. n + 1 /\ n \in 0 .. n /\ a <= n + 1
        /\ n - a + 1 = m
    BY <1>0, <1>2
  <2> HIDE DEF m, a
  <2>2. /\ SubSeq(Stream(f, n), a, n) \in Seq(Byte)
        /\ Len(SubSeq(Stream(f, n), a, n)) = m
        /\ EndsAt(SubSeq(Stream(f, n), a, n), g)
    BY <1>0, <2>1, StreamPart
  <2> QED BY <2>2 DEF a
<1>5. IF m <= SpaceLen(r) THEN p = Write(r, data)
      ELSE \E b \in {0, 1} :
              p = [Write(r, data) EXCEPT !.read_index = Write(r, data).write_index,
                                         !.read_mirror = b]
  <2> DEFINE w == Write(r, data)
             b == IF Wraps(r.write_index, m) THEN 1 - w.read_mirror ELSE w.read_mirror
  <2>1. p = IF m <= SpaceLen(r) THEN w
            ELSE [w EXCEPT !.read_index = w.write_index, !.read_mirror = b]
    BY <1>3 DEF rt_ringbuffer_put_force
  <2>2. w.read_mirror \in {0, 1}
    <3>1. Len(data) <= buffer_size
      BY <1>0, <1>2, <1>4
    <3>2. w \in RingRecord
      BY <1>0, <1>4, <3>1, WriteFields
    <3> HIDE DEF w
    <3> QED BY <3>2 DEF RingRecord
  <2> HIDE DEF w
  <2>3. b \in {0, 1}
    BY <2>2
  <2> HIDE DEF b, m
  <2> QED BY <2>1, <2>3 DEF w
<1> HIDE DEF m, data, p
<1>6. Len(data) < buffer_size => g = Turn(f + Len(data), 2 * buffer_size)
  BY <1>2, <1>4
<1> HIDE DEF g
<1>7. HoldsNewest(p, g)
  BY <1>1, <1>2, <1>4, <1>5, <1>6, ForcedKeeps
<1> QED BY <1>1, <1>7 DEF p

\* rt_ringbuffer_putchar_force.
LEMMA PutcharForceKeeps ==
    ASSUME NEW r, NEW f, HoldsNewest(r, f)
    PROVE  HoldsNewest(rt_ringbuffer_putchar_force(r, f), (f + 1) % (2 * buffer_size))
<1> DEFINE data == <<f>>
           g == Turn(f + 1, 2 * buffer_size)
           w == Write(r, data)
           p == rt_ringbuffer_putchar_force(r, f)
<1>0. r \in RingRecord /\ f \in Byte /\ buffer_size \in Nat \ {0}
  BY RingSize DEF HoldsNewest
<1>1. g \in Byte /\ (f + 1) % (2 * buffer_size) = g
  <2>1. 1 \in 0 .. buffer_size + 1
    BY <1>0
  <2> QED BY <1>0, <2>1, StreamGoesOn
<1>2. data \in Seq(Byte) /\ Len(data) = 1 /\ 1 \in 1 .. buffer_size /\ data[1] = f
  BY <1>0
<1>3. EndsAt(data, g)
  BY <1>0, <1>2 DEF EndsAt, Turn, Byte
<1>4. (1 <= SpaceLen(r)) <=> rt_ringbuffer_status(r) # "FULL"
  BY <1>0 DEF SpaceLen, rt_ringbuffer_data_len, rt_ringbuffer_status, RingRecord, Index
<1>5. IF Len(data) <= SpaceLen(r) THEN p = w
      ELSE \E b \in {0, 1} : p = [w EXCEPT !.read_index = w.write_index, !.read_mirror = b]
  <2> DEFINE b == IF Wraps(r.write_index, 1) THEN 1 - w.read_mirror ELSE w.read_mirror
  <2>1. p = IF rt_ringbuffer_status(r) # "FULL" THEN w
            ELSE [w EXCEPT !.read_index = w.write_index, !.read_mirror = b]
    BY DEF rt_ringbuffer_putchar_force
  <2>2. w.read_mirror \in {0, 1}
    <3>1. Len(data) <= buffer_size
      BY <1>0, <1>2
    <3>2. w \in RingRecord
      BY <1>0, <1>2, <3>1, WriteFields
    <3> HIDE DEF w
    <3> QED BY <3>2 DEF RingRecord
  <2> HIDE DEF w, data
  <2>3. b \in {0, 1}
    BY <2>2
  <2> HIDE DEF b
  <2> QED BY <1>2, <1>4, <2>1, <2>3
<1> HIDE DEF data, p
<1>6. Len(data) < buffer_size => g = Turn(f + Len(data), 2 * buffer_size)
  BY <1>2
<1>7. Len(data) \in 1 .. buffer_size
  BY <1>2
<1> HIDE DEF g
<1>8. HoldsNewest(p, g)
  BY <1>1, <1>2, <1>3, <1>5, <1>6, <1>7, ForcedKeeps
<1> QED BY <1>1, <1>8 DEF p

\* A ring that holds the newest bytes holds the stream from its oldest byte on.
LEMMA ContentsAreStream ==
    ASSUME NEW r, NEW f, HoldsNewest(r, f)
    PROVE  LET e == rt_ringbuffer_data_len(r)
           IN  /\ Contents(r) = Stream(f - e, e)
               /\ Contents(r) = Stream((f - e) % (2 * buffer_size), e)
               /\ (((f - e) % (2 * buffer_size)) + e) % (2 * buffer_size) = f
<1> DEFINE e == rt_ringbuffer_data_len(r)
           N == 2 * buffer_size
           b == (f - e) % N
<1>0. /\ r \in RingRecord /\ f \in Byte /\ buffer_size \in Nat \ {0}
      /\ r.write_index \in Index /\ r.read_index \in Index
  BY RingSize DEF HoldsNewest, RingRecord
<1>1. e \in 0 .. buffer_size
  BY <1>0, DataLen
<1>2. b = Turn(f - e, N) /\ b \in Byte
  <2>1. f - e \in -2 * buffer_size .. 4 * buffer_size - 1
    BY <1>0, <1>1 DEF Byte
  <2>2. b = Turn(f - e, N)
    BY <2>1, Positions
  <2>3. Turn(f - e, N) \in Byte
    BY <1>0, <1>1 DEF Byte, Turn
  <2> QED BY <2>2, <2>3
<1>3. ASSUME NEW i \in 1 .. e
      PROVE  /\ r.buf[(r.read_index + i - 1) % buffer_size] = Turn(f - (e - i + 1), N)
             /\ (f - e + i - 1) % N = Turn(f - (e - i + 1), N)
             /\ (b + i - 1) % N = Turn(f - (e - i + 1), N)
  <2> DEFINE d == e - i + 1
  <2>0. d \in 1 .. e /\ i \in 1 .. buffer_size
    BY <1>0, <1>1
  <2>1. (r.read_index + i - 1) % buffer_size = Turn(r.read_index + i - 1, buffer_size)
    <3>1. r.read_index + i - 1 \in -buffer_size .. 2 * buffer_size - 1
      BY <1>0, <2>0 DEF Index
    <3> QED BY <3>1, Positions
  <2>2. Turn(r.read_index + i - 1, buffer_size) = Turn(r.write_index - d, buffer_size)
    <3>1. /\ r.write_index > r.read_index => e = r.write_index - r.read_index
          /\ r.write_index < r.read_index => e = buffer_size - (r.read_index - r.write_index)
          /\ r.write_index = r.read_index => e \in {0, buffer_size}
      BY <1>0, DataLen
    <3> HIDE DEF e
    <3> QED BY <1>0, <1>1, <2>0, <3>1 DEF Turn, Index
  <2>3. r.buf[Turn(r.write_index - d, buffer_size)] = Turn(f - d, N)
    BY <2>0 DEF HoldsNewest, Back
  <2>4. (f - e + i - 1) % N = Turn(f - e + i - 1, N)
    <3>1. f - e + i - 1 \in -2 * buffer_size .. 4 * buffer_size - 1
      BY <1>0, <1>1, <2>0 DEF Byte
    <3> QED BY <3>1, Positions
  <2>5. (b + i - 1) % N = Turn(b + i - 1, N)
    <3> HIDE DEF b
    <3>1. b + i - 1 \in -2 * buffer_size .. 4 * buffer_size - 1
      BY <1>0, <1>1, <1>2, <2>0 DEF Byte
    <3> QED BY <3>1, Positions
  <2>6. f - e + i - 1 = f - d
    BY <1>0, <1>1, <2>0 DEF Byte
  <2>7. Turn(b + i - 1, N) = Turn(f - d, N)
    <3> HIDE DEF b, e
    <3> QED BY <1>0, <1>1, <1>2, <2>0 DEF Turn, Byte
  <2> HIDE DEF b, e, N
  <2> QED BY <2>1, <2>2, <2>3, <2>4, <2>5, <2>6, <2>7
<1>4. (b + e) % N = f
  <2> HIDE DEF b
  <2>1. b + e \in -2 * buffer_size .. 4 * buffer_size - 1
    BY <1>0, <1>1, <1>2 DEF Byte
  <2>2. (b + e) % N = Turn(b + e, N)
    BY <2>1, Positions
  <2>3. Turn(b + e, N) = f
    BY <1>0, <1>1, <1>2 DEF Turn, Byte
  <2> QED BY <2>2, <2>3
<1> HIDE DEF b, e, N
<1>5. /\ Contents(r) = [i \in 1 .. e |-> r.buf[(r.read_index + i - 1) % buffer_size]]
      /\ Stream(f - e, e) = [i \in 1 .. e |-> (f - e + i - 1) % N]
      /\ Stream(b, e) = [i \in 1 .. e |-> (b + i - 1) % N]
  BY DEF Contents, Stream, e, N
<1>6. \A i \in 1 .. e :
         /\ r.buf[(r.read_index + i - 1) % buffer_size] = (f - e + i - 1) % N
         /\ r.buf[(r.read_index + i - 1) % buffer_size] = (b + i - 1) % N
  BY <1>3
<1>7. Contents(r) = Stream(f - e, e)
  BY ONLY <1>5, <1>6
<1>8. Contents(r) = Stream(b, e)
  BY ONLY <1>5, <1>6
<1> QED BY <1>4, <1>7, <1>8 DEF b, e, N

\* An empty ring, as created or as reset, holds the newest none of any stream.
LEMMA EmptyHolds ==
    ASSUME NEW f \in Byte, NEW r \in RingRecord,
           r.read_index = r.write_index, r.read_mirror = r.write_mirror
    PROVE  HoldsNewest(r, f) /\ rt_ringbuffer_data_len(r) = 0
<1>1. r.read_index \in Int
  BY RingSize DEF RingRecord, Index
<1>2. rt_ringbuffer_data_len(r) = 0
  BY DEF rt_ringbuffer_data_len, rt_ringbuffer_status
<1>3. MirrorOK(r) /\ Back(r, f, 0)
  BY <1>1 DEF MirrorOK, Back
<1> QED BY <1>2, <1>3 DEF HoldsNewest

\* The ring as it is created.
LEMMA EmptyRingRecord ==
    /\ 0 \in Byte /\ EmptyRing \in RingRecord
    /\ EmptyRing.read_index = EmptyRing.write_index
    /\ EmptyRing.read_mirror = EmptyRing.write_mirror
BY RingSize DEF EmptyRing, RingRecord, Index, Byte

\* A call on the ring.
LEMMA RingCallKeeps ==
    ASSUME HoldsNewest(rb, fed), NEW t \in Thread, RingCall(t)
    PROVE  HoldsNewest(rb', fed')
<1>0. rb \in RingRecord /\ fed \in Byte /\ buffer_size \in Nat \ {0}
  BY RingSize DEF HoldsNewest
<1>1. ASSUME NEW n \in 1 .. buffer_size + 1, RingPut(t, n) PROVE HoldsNewest(rb', fed')
  <2>1. n \in 0 .. buffer_size + 1
    BY <1>0
  <2>2. /\ rb' = rt_ringbuffer_put(rb, Stream(fed, n))
        /\ fed' = (fed + AtMost(n, SpaceLen(rb))) % (2 * buffer_size)
    BY <1>1 DEF RingPut, Offered
  <2> QED BY <2>1, <2>2, PutKeeps
<1>2. ASSUME NEW n \in 1 .. buffer_size + 1, RingPutForce(t, n) PROVE HoldsNewest(rb', fed')
  BY <1>2, PutForceKeeps DEF RingPutForce, Offered
<1>3. ASSUME NEW n \in 1 .. buffer_size + 1, RingGet(t, n) PROVE HoldsNewest(rb', fed')
  <2>1. n \in Nat
    BY <1>0
  <2> QED BY <1>3, <2>1, GetKeeps DEF RingGet
<1>4. CASE RingPutcharForce(t)
  BY <1>4, PutcharForceKeeps DEF RingPutcharForce, Offered
<1>5. CASE rt_ringbuffer_reset(t)
  <2>1. fed' = fed /\ rb' = [rb EXCEPT !.read_mirror = 0, !.read_index = 0,
                                       !.write_mirror = 0, !.write_index = 0]
    BY <1>5 DEF rt_ringbuffer_reset
  <2>2. /\ rb' \in RingRecord
        /\ rb'.read_index = rb'.write_index /\ rb'.read_mirror = rb'.write_mirror
    <3>1. 0 \in Index
      BY <1>0 DEF Index
    <3>2. rb' \in RingRecord
      BY <1>0, <2>1, <3>1 DEF RingRecord
    <3> QED BY <1>0, <2>1, <3>2 DEF RingRecord
  <2> QED BY <1>0, <2>1, <2>2, EmptyHolds
<1> QED BY <1>1, <1>2, <1>3, <1>4, <1>5 DEF RingCall

\* Every other step leaves the ring alone.
LEMMA RingStep == HoldsNewest(rb, fed) /\ [Next]_vars => HoldsNewest(rb, fed)'
<1> SUFFICES ASSUME HoldsNewest(rb, fed), [Next]_vars PROVE HoldsNewest(rb', fed')
  OBVIOUS
<1>1. ASSUME UNCHANGED rbvars PROVE HoldsNewest(rb', fed')
  BY <1>1 DEF rbvars
<1>2. CASE UNCHANGED vars
  BY <1>1, <1>2 DEF vars
<1>3. ASSUME NEW t \in Thread, ThreadCall(t) PROVE HoldsNewest(rb', fed')
  <2>1. UNCHANGED rbvars \/ RingCall(t)
    BY <1>3 DEF ThreadCall, OnCompletion, OnDataQueue, OnWorkQueue, OnPipe, OnRingBlock,
                OnObjects, Starts, rt_thread_sleep
  <2> QED BY <1>1, <2>1, RingCallKeeps
<1>4. ASSUME NEW t \in Thread, ThreadStep(t) PROVE HoldsNewest(rb', fed')
  <2>1. UNCHANGED rbvars
    BY <1>4 DEF ThreadStep, OnCompletion, OnDataQueue, OnWorkQueue, OnPipe, OnObjects,
                SleepReturn
  <2> QED BY <1>1, <2>1
<1>5. CASE Interrupt
  BY <1>1, <1>5 DEF Interrupt, OnCompletion, OnDataQueue, OnObjects
<1> QED BY <1>2, <1>3, <1>4, <1>5 DEF Next, Halted

\* The ring starts empty.
LEMMA RingInitially == Init => HoldsNewest(rb, fed)
<1> SUFFICES ASSUME Init PROVE HoldsNewest(rb, fed)
  OBVIOUS
<1>1. rb = EmptyRing /\ fed = 0
  BY DEF Init, RingInit
<1> QED BY <1>1, EmptyRingRecord, EmptyHolds

\* For a ring of any size, after any calls of any threads, what the ring holds
\* are the newest bytes in the order they were offered (ringbuffer.c): the two
\* memcpy around the end, the mirror bits, and the move of the read index by a
\* forced put agree with one another.
THEOREM RingAlwaysHoldsNewest == Spec => []RingHoldsNewest
<1>1. Init => HoldsNewest(rb, fed)
  BY RingInitially
<1>2. HoldsNewest(rb, fed) => RingHoldsNewest
  <2> SUFFICES ASSUME HoldsNewest(rb, fed) PROVE RingHoldsNewest
    OBVIOUS
  <2>1. Contents(rb) = Stream(fed - rt_ringbuffer_data_len(rb), rt_ringbuffer_data_len(rb))
    BY ContentsAreStream
  <2> QED BY <2>1 DEF RingHoldsNewest, Newest
<1> QED BY <1>1, <1>2, RingStep, PTL DEF Spec
-----------------------------------------------------------------------------
(* The pipe.                                                               *)

\* What is left of a call: of an open, of a close up to and from the release of
\* the end, of a read or write while it uses the fifo, and of any call at its end.
Opening == {<<"take", "open", "release">>, <<"open", "release">>}
Closing == {<<"take", "close">>, <<"close">>}
Leaving == {<<"wake_reader", "wake_writer", "unref", "release">>,
            <<"wake_reader", "unref", "release">>, <<"wake_writer", "unref", "release">>,
            <<"unref", "release">>}
Using == {<<"take", "body">>, <<"body">>,
          <<"release", "wake_reader", "wait", "take", "again">>,
          <<"release", "wake_writer", "wait", "take", "again">>,
          <<"wake_reader", "wait", "take", "again">>, <<"wake_writer", "wait", "take", "again">>,
          <<"wait", "take", "again">>, <<"take", "again">>, <<"again">>}
Ending == {<< >>, <<"release">>, <<"wake_reader">>, <<"wake_writer">>,
           <<"wake_reader", "release">>, <<"wake_writer", "release">>,
           <<"release", "wake_reader">>, <<"release", "wake_writer">>}
Shape == Opening \cup Closing \cup Leaving \cup Using \cup Ending

\* Primitives that change nothing of the fifo.
Neutral == {"take", "release", "wake_reader", "wake_writer", "wait"}

\* The phases differ, and only Ending contains the end.
LEMMA Phases ==
    /\ Opening \cap (Closing \cup Leaving \cup Using \cup Ending) = {}
    /\ Closing \cap (Leaving \cup Using \cup Ending) = {}
    /\ Leaving \cap (Using \cup Ending) = {}
    /\ Using \cap Ending = {}
BY DEF Opening, Closing, Leaving, Using, Ending

\* An open takes the mutex, opens and is at its end.
LEMMA OpeningSteps ==
    \A s \in Opening :
       /\ Head(s) \in {"take", "open"}
       /\ Head(s) = "open" => Tail(s) \in Ending
       /\ Head(s) \in Neutral => Tail(s) \in Opening
<1>1. /\ Head(<<"take", "open", "release">>) = "take"
      /\ Head(<<"open", "release">>) = "open"
  OBVIOUS
<1>2. /\ Tail(<<"take", "open", "release">>) = <<"open", "release">>
      /\ Tail(<<"open", "release">>) = <<"release">>
  OBVIOUS
<1> QED BY <1>1, <1>2 DEF Opening, Neutral, Ending

\* A close takes the mutex and closes.
LEMMA ClosingSteps ==
    \A s \in Closing :
       /\ Head(s) \in {"take", "close"}
       /\ Head(s) \in Neutral => Tail(s) \in Closing
<1>1. /\ Head(<<"take", "close">>) = "take"
      /\ Head(<<"close">>) = "close"
  OBVIOUS
<1>2. /\ Tail(<<"take", "close">>) = <<"close">>
      /\ Tail(<<"close">>) = << >>
  OBVIOUS
<1> QED BY <1>1, <1>2 DEF Closing, Neutral, Ending

\* A thread that has closed its end wakes the other side, then drops its reference.
LEMMA LeavingSteps ==
    \A s \in Leaving :
       /\ Head(s) \in {"wake_reader", "wake_writer", "unref"}
       /\ Head(s) = "unref" => Tail(s) \in Ending
       /\ Head(s) \in Neutral => Tail(s) \in Leaving
<1>1. /\ Head(<<"wake_reader", "wake_writer", "unref", "release">>) = "wake_reader"
      /\ Head(<<"wake_reader", "unref", "release">>) = "wake_reader"
      /\ Head(<<"wake_writer", "unref", "release">>) = "wake_writer"
      /\ Head(<<"unref", "release">>) = "unref"
  OBVIOUS
<1>2. /\ Tail(<<"wake_reader", "wake_writer", "unref", "release">>) = <<"wake_writer", "unref", "release">>
      /\ Tail(<<"wake_reader", "unref", "release">>) = <<"unref", "release">>
      /\ Tail(<<"wake_writer", "unref", "release">>) = <<"unref", "release">>
      /\ Tail(<<"unref", "release">>) = <<"release">>
  OBVIOUS
<1> QED BY <1>1, <1>2 DEF Leaving, Neutral, Ending

\* A read or write goes on using the fifo until its body says it is over.
LEMMA UsingSteps ==
    \A s \in Using :
       /\ Head(s) \in {"body", "again"} \cup Neutral
       /\ Head(s) \in Neutral => Tail(s) \in Using
<1>1. /\ Head(<<"take", "body">>) = "take"
      /\ Head(<<"body">>) = "body"
      /\ Head(<<"release", "wake_reader", "wait", "take", "again">>) = "release"
      /\ Head(<<"release", "wake_writer", "wait", "take", "again">>) = "release"
      /\ Head(<<"wake_reader", "wait", "take", "again">>) = "wake_reader"
      /\ Head(<<"wake_writer", "wait", "take", "again">>) = "wake_writer"
      /\ Head(<<"wait", "take", "again">>) = "wait"
      /\ Head(<<"take", "again">>) = "take"
      /\ Head(<<"again">>) = "again"
  OBVIOUS
<1>2. /\ Tail(<<"take", "body">>) = <<"body">>
      /\ Tail(<<"body">>) = << >>
      /\ Tail(<<"release", "wake_reader", "wait", "take", "again">>) = <<"wake_reader", "wait", "take", "again">>
      /\ Tail(<<"release", "wake_writer", "wait", "take", "again">>) = <<"wake_writer", "wait", "take", "again">>
      /\ Tail(<<"wake_reader", "wait", "take", "again">>) = <<"wait", "take", "again">>
      /\ Tail(<<"wake_writer", "wait", "take", "again">>) = <<"wait", "take", "again">>
      /\ Tail(<<"wait", "take", "again">>) = <<"take", "again">>
      /\ Tail(<<"take", "again">>) = <<"again">>
      /\ Tail(<<"again">>) = << >>
  OBVIOUS
<1> QED BY <1>1, <1>2 DEF Using, Neutral

\* The end of a call.
LEMMA EndingSteps ==
    \A s \in Ending \ {<< >>} :
       /\ Head(s) \in Neutral
       /\ Head(s) \in Neutral => Tail(s) \in Ending
<1>1. /\ Head(<<"release">>) = "release"
      /\ Head(<<"wake_reader">>) = "wake_reader"
      /\ Head(<<"wake_writer">>) = "wake_writer"
      /\ Head(<<"wake_reader", "release">>) = "wake_reader"
      /\ Head(<<"wake_writer", "release">>) = "wake_writer"
      /\ Head(<<"release", "wake_reader">>) = "release"
      /\ Head(<<"release", "wake_writer">>) = "release"
  OBVIOUS
<1>2. /\ Tail(<<"release">>) = << >>
      /\ Tail(<<"wake_reader">>) = << >>
      /\ Tail(<<"wake_writer">>) = << >>
      /\ Tail(<<"wake_reader", "release">>) = <<"release">>
      /\ Tail(<<"wake_writer", "release">>) = <<"release">>
      /\ Tail(<<"release", "wake_reader">>) = <<"wake_reader">>
      /\ Tail(<<"release", "wake_writer">>) = <<"wake_writer">>
  OBVIOUS
<1> QED BY <1>1, <1>2 DEF Ending, Neutral

\* The primitive a thread executes next tells the phase it is in; a neutral one
\* leaves it there.
LEMMA NextPrimitive ==
    ASSUME NEW s \in Shape, s # << >>
    PROVE  /\ Head(s) = "open"  => s \in Opening /\ Tail(s) \in Ending
           /\ Head(s) = "close" => s \in Closing
           /\ Head(s) = "unref" => s \in Leaving /\ Tail(s) \in Ending
           /\ Head(s) \in {"body", "again"} => s \in Using
           /\ Head(s) \in Neutral =>
                 \/ s \in Opening /\ Tail(s) \in Opening
                 \/ s \in Closing /\ Tail(s) \in Closing
                 \/ s \in Leaving /\ Tail(s) \in Leaving
                 \/ s \in Using   /\ Tail(s) \in Using
                 \/ s \in Ending  /\ Tail(s) \in Ending
<1>1. CASE s \in Opening
  BY <1>1, OpeningSteps DEF Neutral
<1>2. CASE s \in Closing
  BY <1>2, ClosingSteps DEF Neutral
<1>3. CASE s \in Leaving
  BY <1>3, LeavingSteps DEF Neutral
<1>4. CASE s \in Using
  BY <1>4, UsingSteps DEF Neutral
<1>5. CASE s \in Ending
  BY <1>5, EndingSteps DEF Neutral
<1> QED BY <1>1, <1>2, <1>3, <1>4, <1>5 DEF Shape

\* Whether thread t has its end open, and the references it has to the fifo: it
\* keeps one from its open until the unref of its close.
End(t)  == IF t = Reader THEN readers ELSE writers
Refs(t) == IF End(t) = 1 \/ todo[t] \in Leaving THEN 1 ELSE 0

EndOK(t) ==
    /\ End(t) \in {0, 1}
    /\ todo[t] \in Opening \cup Leaving => End(t) = 0
    /\ todo[t] \in Using \cup Closing => End(t) = 1

\* Only the reader and the writer are in calls, and the fifo exists as long as
\* one of them has a reference.
PipeEnds ==
    /\ todo \in [Thread -> Shape]
    /\ \A t \in Thread \ {Reader, Writer} : todo[t] = << >>
    /\ EndOK(Reader) /\ EndOK(Writer)
    /\ ref_count = Refs(Reader) + Refs(Writer)

\* The fifo holds the last bytes sent; the others have been got.
PipeFifo ==
    /\ HoldsNewest(fifo, sent)
    /\ got = (sent - rt_ringbuffer_data_len(fifo)) % (2 * buffer_size)
    /\ ref_count = 0 => rt_ringbuffer_data_len(fifo) = 0

\* The inductive invariant of the pipe.
PipeInv == PipeEnds /\ PipeFifo /\ count \in [Thread -> Nat]

\* A step of one end from what is left of its call to s.
LEMMA EndStep ==
    ASSUME PipeEnds, NEW t \in {Reader, Writer}, NEW s \in Shape, Then(t, s),
           t = Reader => writers' = writers, t = Writer => readers' = readers,
           EndOK(t)', ref_count' = ref_count - Refs(t) + Refs(t)'
    PROVE  PipeEnds'
<1>0. Reader \in Thread /\ Writer \in Thread /\ Reader # Writer
  BY PipeAssumption
<1>1. /\ todo' \in [Thread -> Shape] /\ todo'[t] = s
      /\ \A u \in Thread : u # t => todo'[u] = todo[u]
  BY <1>0 DEF PipeEnds, Then
<1>2. \A u \in Thread \ {Reader, Writer} : todo'[u] = << >>
  BY <1>0, <1>1 DEF PipeEnds
<1>3. CASE t = Reader
  <2>1. End(Writer)' = End(Writer) /\ todo'[Writer] = todo[Writer]
    BY <1>0, <1>1, <1>3 DEF End
  <2>2. EndOK(Writer)' /\ Refs(Writer)' = Refs(Writer)
    BY <2>1 DEF PipeEnds, EndOK, Refs
  <2>3. Refs(Reader) \in {0, 1} /\ Refs(Writer) \in {0, 1} /\ Refs(Reader)' \in {0, 1}
    BY DEF Refs
  <2>4. ref_count' = Refs(Reader)' + Refs(Writer)'
    BY <1>3, <2>2, <2>3 DEF PipeEnds
  <2> QED BY <1>1, <1>2, <1>3, <2>2, <2>4 DEF PipeEnds
<1>4. CASE t = Writer
  <2>1. End(Reader)' = End(Reader) /\ todo'[Reader] = todo[Reader]
    BY <1>0, <1>1, <1>4 DEF End
  <2>2. EndOK(Reader)' /\ Refs(Reader)' = Refs(Reader)
    BY <2>1 DEF PipeEnds, EndOK, Refs
  <2>3. Refs(Reader) \in {0, 1} /\ Refs(Writer) \in {0, 1} /\ Refs(Writer)' \in {0, 1}
    BY DEF Refs
  <2>4. ref_count' = Refs(Reader)' + Refs(Writer)'
    BY <1>4, <2>2, <2>3 DEF PipeEnds
  <2> QED BY <1>1, <1>2, <1>4, <2>2, <2>4 DEF PipeEnds
<1> QED BY <1>3, <1>4

\* A step that opens and closes nothing.
LEMMA SameEnd ==
    ASSUME PipeEnds, NEW t \in {Reader, Writer}, NEW s \in Shape, Then(t, s),
           UNCHANGED <<readers, writers, ref_count>>,
           s \in Opening => ~Opened(t),
           s \in Using \cup Closing => Opened(t),
           s \in Leaving <=> todo[t] \in Leaving
    PROVE  PipeEnds'
<1>0. Reader \in Thread /\ Writer \in Thread /\ Reader # Writer
  BY PipeAssumption
<1>1. todo'[t] = s
  BY <1>0 DEF PipeEnds, Then
<1>2. End(t)' = End(t) /\ EndOK(t) /\ (Opened(t) <=> End(t) = 1)
  BY <1>0 DEF End, PipeEnds, EndOK, Opened
<1>3. EndOK(t)'
  BY <1>1, <1>2 DEF EndOK
<1>4. Refs(t)' = Refs(t) /\ Refs(t) \in {0, 1}
  BY <1>1, <1>2 DEF Refs
<1>5. ref_count' = ref_count - Refs(t) + Refs(t)'
  <2>1. Refs(Reader) \in {0, 1} /\ Refs(Writer) \in {0, 1}
    BY DEF Refs
  <2> QED BY <1>4, <2>1 DEF PipeEnds
<1> QED BY <1>3, <1>5, EndStep

\* A thread with a primitive to execute is the reader or the writer.
LEMMA InCall ==
    ASSUME PipeEnds, NEW t \in Thread, todo[t] # << >>
    PROVE  t \in {Reader, Writer} /\ todo[t] \in Shape
BY DEF PipeEnds

\* A primitive that is neutral.
LEMMA NeutralStep ==
    ASSUME PipeEnds, NEW t \in Thread, todo[t] # << >>, Head(todo[t]) \in Neutral,
           Proceeds(t), UNCHANGED <<readers, writers, ref_count>>
    PROVE  PipeEnds'
<1> DEFINE s == Tail(todo[t])
<1>1. t \in {Reader, Writer} /\ todo[t] \in Shape
  BY InCall
<1>2. \/ todo[t] \in Opening /\ s \in Opening
      \/ todo[t] \in Closing /\ s \in Closing
      \/ todo[t] \in Leaving /\ s \in Leaving
      \/ todo[t] \in Using   /\ s \in Using
      \/ todo[t] \in Ending  /\ s \in Ending
  BY <1>1, NextPrimitive
<1>3. Then(t, s)
  BY DEF Proceeds
<1> HIDE DEF s
<1>4. s \in Shape
  BY <1>2 DEF Shape
<1>5. EndOK(t) /\ (Opened(t) <=> End(t) = 1)
  BY <1>1, PipeAssumption DEF PipeEnds, EndOK, Opened, End
<1>6. s \in Opening => ~Opened(t)
  BY <1>2, <1>5, Phases DEF EndOK
<1>7. s \in Using \cup Closing => Opened(t)
  BY <1>2, <1>5, Phases DEF EndOK
<1>8. s \in Leaving <=> todo[t] \in Leaving
  BY <1>2, Phases
<1> QED BY <1>1, <1>3, <1>4, <1>6, <1>7, <1>8, SameEnd

\* A step that leaves the fifo and its history alone.
LEMMA FifoSame ==
    ASSUME PipeInv, PipeEnds', UNCHANGED <<fifo, sent, got, ref_count>>,
           count' \in [Thread -> Nat]
    PROVE  PipeInv'
BY DEF PipeInv, PipeFifo

\* Calls.
LEMMA PipeCallKeeps ==
    ASSUME PipeInv, NEW t \in Thread, PipeCall(t)
    PROVE  PipeInv'
<1>0. /\ t \in {Reader, Writer} /\ todo[t] = << >> /\ PipeEnds
      /\ UNCHANGED <<fifo, sent, got, readers, writers, ref_count>>
  BY DEF PipeCall, pipe_fops_open, pipe_fops_close, pipe_fops_read, pipe_fops_write,
         PipeCalls, PipeCallOnly, PipeInv
<1>1. todo[t] \notin Leaving
  BY <1>0, Phases DEF Ending
<1>2. count' \in [Thread -> Nat]
  <2>1. count \in [Thread -> Nat]
    BY DEF PipeInv
  <2>2. count' = count \/ \E n \in Count : count' = [count EXCEPT ![t] = n]
    BY DEF PipeCall, pipe_fops_open, pipe_fops_close, pipe_fops_read, pipe_fops_write, Asks
  <2> QED BY <2>1, <2>2, CountAssumption
<1>3. CASE pipe_fops_open(t)
  <2>1. Then(t, <<"take", "open", "release">>) /\ ~Opened(t)
    BY <1>3 DEF pipe_fops_open
  <2> DEFINE s == <<"take", "open", "release">>
  <2>2. s \in Opening
    BY DEF Opening
  <2>3. Then(t, s)
    BY <2>1
  <2> HIDE DEF s
  <2>4. s \in Shape /\ s \notin Using \cup Closing \cup Leaving
    BY <2>2, Phases DEF Shape
  <2>5. PipeEnds'
    BY <1>0, <1>1, <2>1, <2>3, <2>4, SameEnd
  <2> QED BY <1>0, <1>2, <2>5, FifoSame
<1>4. ASSUME NEW s \in Using \cup Closing, Then(t, s), Opened(t)
      PROVE  PipeInv'
  <2>1. s \in Shape /\ s \notin Opening \cup Leaving
    BY <1>4, Phases DEF Shape
  <2>2. PipeEnds'
    BY <1>0, <1>1, <1>4, <2>1, SameEnd
  <2> QED BY <1>0, <1>2, <2>2, FifoSame
<1>5. CASE ~pipe_fops_open(t)
  <2>1. /\ Opened(t)
        /\ Then(t, <<"take", "close">>) \/ Then(t, <<"take", "body">>)
    BY <1>5 DEF PipeCall, pipe_fops_close, pipe_fops_read, pipe_fops_write
  <2>2. <<"take", "close">> \in Using \cup Closing /\ <<"take", "body">> \in Using \cup Closing
    BY DEF Using, Closing
  <2> QED BY <1>4, <2>1, <2>2
<1> QED BY <1>3, <1>5

\* What Close has left to do: the wake-ups it owes, the unref and the release.
LEMMA CloseLeaves ==
    ASSUME NEW a \in {<<"wake_reader">>, << >>}, NEW b \in {<<"wake_writer">>, << >>}
    PROVE  a \o b \o <<"unref", "release">> \in Leaving
<1> DEFINE P == {"wake_reader", "wake_writer", "unref", "release"}
           u == <<"unref", "release">>
           wu == <<"wake_writer", "unref", "release">>
           ru == <<"wake_reader", "unref", "release">>
           rwu == <<"wake_reader", "wake_writer", "unref", "release">>
<1>1. /\ u \in Seq(P) /\ wu \in Seq(P) /\ ru \in Seq(P) /\ rwu \in Seq(P)
      /\ <<"wake_reader">> \in Seq(P) /\ <<"wake_writer">> \in Seq(P) /\ << >> \in Seq(P)
  OBVIOUS
<1>2. <<"wake_writer">> \o u = wu
  <2>1. /\ Len(<<"wake_writer">> \o u) = 3 /\ <<"wake_writer">> \o u \in Seq(P)
        /\ \A i \in 1 .. 3 : (<<"wake_writer">> \o u)[i] = wu[i]
    OBVIOUS
  <2>2. Len(wu) = 3
    OBVIOUS
  <2> QED BY <1>1, <2>1, <2>2, SeqEqual
<1>3. <<"wake_reader">> \o u = ru
  <2>1. /\ Len(<<"wake_reader">> \o u) = 3 /\ <<"wake_reader">> \o u \in Seq(P)
        /\ \A i \in 1 .. 3 : (<<"wake_reader">> \o u)[i] = ru[i]
    OBVIOUS
  <2>2. Len(ru) = 3
    OBVIOUS
  <2> QED BY <1>1, <2>1, <2>2, SeqEqual
<1>4. <<"wake_reader">> \o wu = rwu
  <2>1. /\ Len(<<"wake_reader">> \o wu) = 4 /\ <<"wake_reader">> \o wu \in Seq(P)
        /\ \A i \in 1 .. 4 : (<<"wake_reader">> \o wu)[i] = rwu[i]
    OBVIOUS
  <2>2. Len(rwu) = 4
    OBVIOUS
  <2> QED BY <1>1, <2>1, <2>2, SeqEqual
<1>5. a \in Seq(P) /\ b \in Seq(P)
  BY <1>1
<1>6. (a \o b) \o u = a \o (b \o u)
  BY <1>1, <1>5, ConcatAssociative
<1>7. << >> \o u = u /\ << >> \o wu = wu
  BY <1>1, ConcatEmptySeq
<1>8. u \in Leaving /\ wu \in Leaving /\ ru \in Leaving /\ rwu \in Leaving
  BY DEF Leaving
<1> HIDE DEF u, wu, ru, rwu
<1>9. a \o (b \o u) \in Leaving
  BY <1>2, <1>3, <1>4, <1>7, <1>8
<1> QED BY <1>6, <1>9 DEF u

\* The first open makes a fifo, a later one finds it.
LEMMA OpenKeeps ==
    ASSUME PipeInv, NEW t \in Thread, Open(t)
    PROVE  PipeInv'
<1> DEFINE s == Tail(todo[t])
<1>0. Reader \in Thread /\ Writer \in Thread /\ Reader # Writer
  BY PipeAssumption
<1>1. PipeEnds /\ todo[t] # << >> /\ Head(todo[t]) = "open" /\ Then(t, s)
  BY DEF PipeInv, Open, Executes, Proceeds
<1>2. t \in {Reader, Writer} /\ todo[t] \in Opening /\ s \in Ending
  BY <1>1, InCall, NextPrimitive
<1> HIDE DEF s
<1>3. End(t) = 0
  BY <1>1, <1>2 DEF PipeEnds, EndOK
<1>4. /\ End(t)' = 1 /\ (t = Reader => writers' = writers) /\ (t = Writer => readers' = readers)
  BY <1>0, <1>2, <1>3 DEF End, Open
<1>5. todo'[t] = s
  BY <1>0, <1>1, <1>2 DEF PipeEnds, Then
<1>6. EndOK(t)' /\ Refs(t)' = 1
  BY <1>2, <1>4, <1>5, Phases DEF EndOK, Refs
<1>7. Refs(t) = 0
  BY <1>2, <1>3, Phases DEF Refs
<1>8. ref_count' = ref_count + 1 /\ ref_count \in Nat
  BY <1>1 DEF Open, PipeEnds, Refs
<1>9. PipeEnds'
  <2>1. ref_count' = ref_count - Refs(t) + Refs(t)'
    BY <1>6, <1>7, <1>8
  <2>2. s \in Shape
    BY <1>2 DEF Shape
  <2> QED BY <1>1, <1>2, <1>4, <1>6, <2>1, <2>2, EndStep
<1>10. PipeFifo'
  <2>1. /\ UNCHANGED <<sent, got>> /\ PipeFifo
        /\ fifo' = IF ref_count = 0 THEN EmptyRing ELSE fifo
    BY DEF Open, PipeInv
  <2>2. CASE ref_count # 0
    BY <1>8, <2>1, <2>2 DEF PipeFifo
  <2>3. CASE ref_count = 0
    <3>1. HoldsNewest(fifo', sent) /\ rt_ringbuffer_data_len(fifo') = 0
      BY <2>1, <2>3, EmptyRingRecord, EmptyHolds DEF PipeFifo, HoldsNewest
    <3> QED BY <1>8, <2>1, <2>3, <3>1 DEF PipeFifo
  <2> QED BY <2>2, <2>3
<1> QED BY <1>9, <1>10 DEF PipeInv, Open

\* Closing an end keeps the reference.
LEMMA CloseKeeps ==
    ASSUME PipeInv, NEW t \in Thread, Close(t)
    PROVE  PipeInv'
<1> DEFINE a == IF writers' = 0 THEN <<"wake_reader">> ELSE << >>
           b == IF readers' = 0 THEN <<"wake_writer">> ELSE << >>
           s == a \o b \o <<"unref", "release">>
<1>0. Reader \in Thread /\ Writer \in Thread /\ Reader # Writer
  BY PipeAssumption
<1>1. PipeEnds /\ todo[t] # << >> /\ Head(todo[t]) = "close" /\ Then(t, s)
  BY DEF PipeInv, Close, Executes
<1>2. t \in {Reader, Writer} /\ todo[t] \in Closing
  BY <1>1, InCall, NextPrimitive
<1>3. s \in Leaving
  BY CloseLeaves
<1> HIDE DEF s
<1>4. End(t) = 1
  BY <1>1, <1>2 DEF PipeEnds, EndOK
<1>5. /\ End(t)' = 0 /\ (t = Reader => writers' = writers) /\ (t = Writer => readers' = readers)
  BY <1>0, <1>2, <1>4 DEF End, Close
<1>6. todo'[t] = s
  BY <1>0, <1>1, <1>2 DEF PipeEnds, Then
<1>7. EndOK(t)' /\ Refs(t)' = 1 /\ Refs(t) = 1
  BY <1>3, <1>4, <1>5, <1>6, Phases DEF EndOK, Refs
<1>8. ref_count' = ref_count /\ ref_count \in Nat
  BY <1>1 DEF Close, PipeEnds, Refs
<1>9. PipeEnds'
  <2>1. ref_count' = ref_count - Refs(t) + Refs(t)'
    BY <1>7, <1>8
  <2>2. s \in Shape
    BY <1>3 DEF Shape
  <2> QED BY <1>1, <1>2, <1>5, <1>7, <2>1, <2>2, EndStep
<1>10. UNCHANGED <<fifo, sent, got, count>>
  BY DEF Close
<1> QED BY <1>8, <1>9, <1>10, FifoSame DEF PipeInv

\* The last unref destroys the fifo.
LEMMA UnrefKeeps ==
    ASSUME PipeInv, NEW t \in Thread, Unref(t)
    PROVE  PipeInv'
<1> DEFINE s == Tail(todo[t])
<1>0. Reader \in Thread /\ Writer \in Thread /\ Reader # Writer
  BY PipeAssumption
<1>1. PipeEnds /\ todo[t] # << >> /\ Head(todo[t]) = "unref" /\ Then(t, s)
  BY DEF PipeInv, Unref, Executes, Proceeds
<1>2. t \in {Reader, Writer} /\ todo[t] \in Leaving /\ s \in Ending
  BY <1>1, InCall, NextPrimitive
<1> HIDE DEF s
<1>3. End(t) = 0 /\ UNCHANGED <<readers, writers>>
  BY <1>1, <1>2 DEF PipeEnds, EndOK, Unref
<1>4. End(t)' = 0
  BY <1>3 DEF End
<1>5. todo'[t] = s
  BY <1>0, <1>1, <1>2 DEF PipeEnds, Then
<1>6. EndOK(t)' /\ Refs(t)' = 0 /\ Refs(t) = 1
  BY <1>2, <1>4, <1>5, Phases DEF EndOK, Refs
<1>7. ref_count' = ref_count - 1 /\ ref_count \in {1, 2}
  BY <1>1, <1>2, <1>6 DEF Unref, PipeEnds, Refs
<1>8. PipeEnds'
  <2>1. ref_count' = ref_count - Refs(t) + Refs(t)'
    BY <1>6, <1>7
  <2>2. s \in Shape
    BY <1>2 DEF Shape
  <2> QED BY <1>1, <1>2, <1>3, <1>6, <2>1, <2>2, EndStep
<1>9. PipeFifo'
  <2>1. CASE ref_count = 1
    <3>1. fifo' = EmptyRing /\ sent' = 0 /\ got' = 0
      BY <2>1 DEF Unref
    <3>2. HoldsNewest(fifo', sent') /\ rt_ringbuffer_data_len(fifo') = 0
      BY <3>1, EmptyRingRecord, EmptyHolds
    <3>3. 0 % (2 * buffer_size) = 0
      BY RingSize
    <3> QED BY <3>1, <3>2, <3>3 DEF PipeFifo
  <2>2. CASE ref_count # 1
    <3>1. UNCHANGED <<fifo, sent, got>>
      BY <2>2 DEF Unref
    <3> QED BY <1>7, <2>2, <3>1 DEF PipeInv, PipeFifo
  <2> QED BY <2>1, <2>2
<1> QED BY <1>8, <1>9 DEF PipeInv, Unref

\* Positions in the stream when bytes are got or sent.
LEMMA StreamMoves ==
    ASSUME NEW f \in Byte, NEW e \in 0 .. buffer_size, NEW n \in Nat
    PROVE  /\ n <= e => (((f - e) % (2 * buffer_size)) + n) % (2 * buffer_size)
                           = (f - (e - n)) % (2 * buffer_size)
           /\ n <= buffer_size - e =>
                 (((f + n) % (2 * buffer_size)) - (e + n)) % (2 * buffer_size)
                    = (f - e) % (2 * buffer_size)
<1> DEFINE N == 2 * buffer_size
           b == (f - e) % N
           g == (f + n) % N
<1>0. buffer_size \in Nat \ {0} /\ f \in 0 .. 2 * buffer_size - 1
  BY RingSize DEF Byte
<1>1. b = Turn(f - e, N)
  <2>1. f - e \in -2 * buffer_size .. 4 * buffer_size - 1
    BY <1>0
  <2> QED BY <2>1, Positions
<1>2. ASSUME n <= e PROVE (b + n) % N = (f - (e - n)) % N
  <2>1. b + n \in -2 * buffer_size .. 4 * buffer_size - 1
    <3> HIDE DEF b
    <3> QED BY <1>0, <1>1, <1>2 DEF Turn
  <2>2. f - (e - n) \in -2 * buffer_size .. 4 * buffer_size - 1
    BY <1>0, <1>2
  <2>3. (b + n) % N = Turn(b + n, N) /\ (f - (e - n)) % N = Turn(f - (e - n), N)
    <3> HIDE DEF b
    <3> QED BY <2>1, <2>2, Positions
  <2>4. Turn(b + n, N) = Turn(f - (e - n), N)
    <3> HIDE DEF b
    <3> QED BY <1>0, <1>1, <1>2 DEF Turn
  <2> HIDE DEF b, N
  <2> QED BY <2>3, <2>4
<1>3. ASSUME n <= buffer_size - e PROVE (g - (e + n)) % N = b
  <2>1. f + n \in -2 * buffer_size .. 4 * buffer_size - 1
    BY <1>0, <1>3
  <2>2. g = Turn(f + n, N)
    BY <2>1, Positions
  <2> HIDE DEF b, g
  <2>3. g - (e + n) \in -2 * buffer_size .. 4 * buffer_size - 1
    BY <1>0, <1>3, <2>2 DEF Turn
  <2>4. (g - (e + n)) % N = Turn(g - (e + n), N)
    BY <2>3, Positions
  <2>5. Turn(g - (e + n), N) = Turn(f - e, N)
    BY <1>0, <1>3, <2>2 DEF Turn
  <2> HIDE DEF N
  <2> QED BY <1>1, <2>4, <2>5
<1> QED BY <1>2, <1>3

\* A thread in the body of a read or a write goes on using the fifo or is at the
\* end of its call; its end is open.
LEMMA BodyEnds ==
    ASSUME PipeEnds, NEW t \in Thread, Body(t), NEW s \in Using \cup Ending, Then(t, s),
           UNCHANGED <<readers, writers, ref_count>>
    PROVE  PipeEnds' /\ ref_count \in Nat \ {0}
<1>1. todo[t] # << >> /\ Head(todo[t]) \in {"body", "again"}
  BY DEF Body, Executes
<1>2. t \in {Reader, Writer} /\ todo[t] \in Using
  BY <1>1, InCall, NextPrimitive
<1>3. End(t) = 1 /\ Opened(t)
  BY <1>2, PipeAssumption DEF PipeEnds, EndOK, End, Opened
<1>4. s \in Shape /\ s \notin Opening \cup Leaving /\ todo[t] \notin Leaving
  BY <1>2, Phases DEF Shape
<1>5. PipeEnds'
  BY <1>2, <1>3, <1>4, SameEnd
<1>6. Refs(t) = 1
  BY <1>3 DEF Refs
<1>7. ref_count \in Nat \ {0}
  BY <1>2, <1>6 DEF PipeEnds, Refs
<1> QED BY <1>5, <1>7

\* What a body leaves to do.
LEMMA BodyLeaves ==
    {<<"release">>, <<"wake_writer", "release">>, <<"release", "wake_reader">>,
     SleepAndRetry("wake_writer"), SleepAndRetry("wake_reader")} \subseteq Using \cup Ending
BY DEF Using, Ending, SleepAndRetry

\* What is left of a count, and what is left of it when that much is done.
LEMMA LengthFacts ==
    ASSUME NEW c \in Nat
    PROVE  Length(c) \in 0 .. c /\ Length(c - Length(c)) = 0
<1> DEFINE M == LengthModulus
           q == c \div M
           l == c % M
<1>1. M \in Nat \ {0}
  BY LengthAssumption, RingSize
<1> HIDE DEF M
<1>2. c = M * q + l /\ l \in 0 .. M - 1 /\ q \in Nat
  BY <1>1
<1>3. M * q \in Nat /\ (M * q) % M = 0
  BY <1>1, <1>2
<1> HIDE DEF q, l
<1>4. c - l = M * q /\ l \in 0 .. c
  BY <1>1, <1>2, <1>3
<1>5. (c - l) % M = 0
  BY <1>3, <1>4
<1> QED BY <1>4, <1>5 DEF Length, M, l

\* A read takes the oldest bytes of the fifo.
LEMMA ReadBodyKeeps ==
    ASSUME PipeInv, NEW t \in Thread, ReadBody(t)
    PROVE  PipeInv'
<1> DEFINE e == rt_ringbuffer_data_len(fifo)
           c == Length(count[t])
           n == AtMost(c, e)
<1>0. /\ PipeEnds /\ PipeFifo /\ count \in [Thread -> Nat]
      /\ Body(t) /\ UNCHANGED <<readers, writers, ref_count, sent>>
  BY DEF PipeInv, ReadBody
<1>1. PICK s \in Using \cup Ending : Then(t, s)
  BY BodyLeaves DEF ReadBody
<1>2. PipeEnds' /\ ref_count \in Nat \ {0}
  BY <1>0, <1>1, BodyEnds
<1>3. count' \in [Thread -> Nat]
  <2>1. count' = count \/ count' = [count EXCEPT ![t] = 0]
    BY DEF ReadBody, Over
  <2> QED BY <1>0, <2>1
<1>4. CASE UNCHANGED <<fifo, got>>
  BY <1>0, <1>2, <1>3, <1>4, FifoSame
<1>5. CASE /\ fifo' = rt_ringbuffer_get(fifo, c)
           /\ got' = (got + n) % (2 * buffer_size)
  <2>1. HoldsNewest(fifo, sent) /\ c \in Nat /\ sent \in Byte
    BY <1>0, LengthFacts DEF PipeFifo, HoldsNewest
  <2>2. e \in 0 .. buffer_size
    BY <2>1, DataLen DEF HoldsNewest
  <2>3. /\ n \in 0 .. e /\ HoldsNewest(fifo', sent)
        /\ rt_ringbuffer_data_len(fifo') = e - n
    BY <1>5, <2>1, GetKeeps
  <2>4. got = (sent - e) % (2 * buffer_size)
    BY <1>0 DEF PipeFifo
  <2> HIDE DEF e, n
  <2>5. n \in Nat /\ n <= e
    BY <2>2, <2>3
  <2>6. got' = (sent - (e - n)) % (2 * buffer_size)
    BY <1>5, <2>1, <2>2, <2>4, <2>5, StreamMoves
  <2>7. PipeFifo'
    BY <1>0, <1>2, <2>3, <2>6 DEF PipeFifo
  <2> QED BY <1>2, <1>3, <2>7 DEF PipeInv
<1> QED BY <1>4, <1>5 DEF ReadBody

\* A write adds what fits.
LEMMA WriteBodyKeeps ==
    ASSUME PipeInv, NEW t \in Thread, WriteBody(t)
    PROVE  PipeInv'
<1> DEFINE e == rt_ringbuffer_data_len(fifo)
           c == Length(count[t])
           n == AtMost(c, SpaceLen(fifo))
<1>0. /\ PipeEnds /\ PipeFifo /\ count \in [Thread -> Nat]
      /\ Body(t) /\ UNCHANGED <<readers, writers, ref_count, got>>
  BY DEF PipeInv, WriteBody
<1>1. PICK s \in Using \cup Ending : Then(t, s)
  BY BodyLeaves DEF WriteBody
<1>2. PipeEnds' /\ ref_count \in Nat \ {0}
  BY <1>0, <1>1, BodyEnds
<1>3. /\ HoldsNewest(fifo, sent) /\ sent \in Byte
      /\ count[t] \in Nat /\ c \in Nat /\ c <= count[t]
  BY <1>0, LengthFacts DEF PipeFifo, HoldsNewest
<1>4. e \in 0 .. buffer_size
  BY <1>3, DataLen DEF HoldsNewest
<1>5. n \in 0 .. buffer_size /\ n <= c /\ n <= buffer_size - e
  BY <1>3, <1>4, RingSize DEF AtMost, SpaceLen
<1>6. count' \in [Thread -> Nat]
  <2>1. \/ count' = [count EXCEPT ![t] = 0]
        \/ count' = [count EXCEPT ![t] = count[t] - n]
    BY DEF WriteBody, Over
  <2>2. count[t] - n \in Nat
    BY <1>3, <1>5
  <2> HIDE DEF n
  <2> QED BY <1>0, <2>1, <2>2
<1>7. CASE UNCHANGED <<fifo, sent>>
  BY <1>0, <1>2, <1>6, <1>7, FifoSame
<1>8. CASE /\ fifo' = rt_ringbuffer_put(fifo, Stream(sent, c))
           /\ sent' = (sent + n) % (2 * buffer_size)
  <2>1. /\ HoldsNewest(fifo', sent')
        /\ rt_ringbuffer_data_len(fifo') = e + n
    BY <1>3, <1>8, PutKeeps
  <2>2. got = (sent - e) % (2 * buffer_size)
    BY <1>0 DEF PipeFifo
  <2> HIDE DEF e, n
  <2>3. n \in Nat /\ n <= buffer_size - e
    BY <1>5
  <2>4. (sent' - (e + n)) % (2 * buffer_size) = got
    BY <1>3, <1>4, <1>8, <2>2, <2>3, StreamMoves
  <2>5. PipeFifo'
    BY <1>0, <1>2, <2>1, <2>4 DEF PipeFifo
  <2> QED BY <1>2, <1>6, <2>5 DEF PipeInv
<1> QED BY <1>7, <1>8 DEF WriteBody

\* Steps of a call.
LEMMA PipeStepKeeps ==
    ASSUME PipeInv, NEW t \in Thread, PipeStep(t)
    PROVE  PipeInv'
<1>1. CASE Open(t)
  BY <1>1, OpenKeeps
<1>2. CASE Close(t)
  BY <1>2, CloseKeeps
<1>3. CASE Unref(t)
  BY <1>3, UnrefKeeps
<1>4. CASE ReadBody(t)
  BY <1>4, ReadBodyKeeps
<1>5. CASE WriteBody(t)
  BY <1>5, WriteBodyKeeps
<1>6. CASE \/ Take(t) \/ Release(t) \/ WaitReturns(t)
           \/ rt_wqueue_wakeup(t, "wake_reader", "reader_queue")
           \/ rt_wqueue_wakeup(t, "wake_writer", "writer_queue")
           \/ rt_wqueue_wait(t) /\ Proceeds(t)
  <2>1. /\ UNCHANGED fifovars /\ Proceeds(t)
        /\ todo[t] # << >> /\ Head(todo[t]) \in Neutral
    BY <1>6 DEF Take, Release, WaitReturns, rt_wqueue_wakeup, rt_wqueue_wait, Executes, Neutral
  <2>2. PipeEnds'
    BY <2>1, NeutralStep DEF fifovars, PipeInv
  <2> QED BY <2>1, <2>2, FifoSame DEF fifovars, PipeInv
<1>7. CASE TakeReturns(t) \/ (rt_wqueue_wait(t) /\ UNCHANGED todo)
  <2>1. UNCHANGED <<fifo, sent, got, readers, writers, ref_count, count, todo>>
    BY <1>7 DEF TakeReturns, rt_wqueue_wait, pipevars, fifovars
  <2> QED BY <2>1 DEF PipeInv, PipeEnds, PipeFifo, EndOK, End, Refs
<1>8. rt_wqueue_wait(t) => Proceeds(t) \/ UNCHANGED todo
  BY DEF rt_wqueue_wait
<1> QED BY <1>1, <1>2, <1>3, <1>4, <1>5, <1>6, <1>7, <1>8 DEF PipeStep

\* Every step keeps the invariant of the pipe.
LEMMA PipeNext == PipeInv /\ [Next]_vars => PipeInv'
<1> SUFFICES ASSUME PipeInv, [Next]_vars PROVE PipeInv'
  OBVIOUS
<1>1. ASSUME UNCHANGED pipevars PROVE PipeInv'
  BY <1>1 DEF pipevars, PipeInv, PipeEnds, PipeFifo, EndOK, End, Refs
<1>2. CASE UNCHANGED vars
  BY <1>1, <1>2 DEF vars
<1>3. ASSUME NEW t \in Thread, ThreadCall(t) PROVE PipeInv'
  <2>1. UNCHANGED pipevars \/ PipeCall(t)
    BY <1>3 DEF ThreadCall, OnCompletion, OnDataQueue, OnWorkQueue, OnRing, OnRingBlock,
                OnObjects, Starts, rt_thread_sleep
  <2> QED BY <1>1, <2>1, PipeCallKeeps
<1>4. ASSUME NEW t \in Thread, ThreadStep(t) PROVE PipeInv'
  <2>1. UNCHANGED pipevars \/ PipeStep(t)
    BY <1>4 DEF ThreadStep, OnCompletion, OnDataQueue, OnWorkQueue, OnObjects, SleepReturn
  <2> QED BY <1>1, <2>1, PipeStepKeeps
<1>5. CASE Interrupt
  BY <1>1, <1>5 DEF Interrupt, OnCompletion, OnDataQueue, OnObjects
<1> QED BY <1>2, <1>3, <1>4, <1>5 DEF Next, Halted

\* The pipe starts closed and idle.
LEMMA PipeInitially == Init => PipeInv
<1> SUFFICES ASSUME Init PROVE PipeInv
  OBVIOUS
<1>1. PipeInit
  BY DEF Init
<1>2. HoldsNewest(fifo, sent) /\ rt_ringbuffer_data_len(fifo) = 0
  BY <1>1, EmptyRingRecord, EmptyHolds DEF PipeInit
<1>3. 0 % (2 * buffer_size) = 0
  BY RingSize
<1>4. PipeFifo
  BY <1>1, <1>2, <1>3 DEF PipeInit, PipeFifo
<1>5. << >> \in Ending
  BY DEF Ending
<1>6. << >> \in Shape /\ << >> \notin Opening \cup Leaving \cup Using \cup Closing
  BY <1>5, Phases DEF Shape
<1>7. PipeEnds
  BY <1>1, <1>6, PipeAssumption DEF PipeInit, PipeEnds, EndOK, End, Refs
<1> QED BY <1>1, <1>3, <1>4, <1>7 DEF PipeInv, PipeInit

\* For a fifo of any size and however reads, partial writes, sleeps, opens and
\* closes interleave, the fifo of the pipe holds exactly the bytes written and
\* not yet read, in order (pipe.c): no byte is lost, doubled or left over from
\* an earlier life of the fifo.
THEOREM PipeAlwaysStream == Spec => []PipeIsStream
<1>1. Init => PipeInv
  BY PipeInitially
<1>2. PipeInv => PipeIsStream
  <2> SUFFICES ASSUME PipeInv PROVE PipeIsStream
    OBVIOUS
  <2>1. HoldsNewest(fifo, sent) /\ got = (sent - rt_ringbuffer_data_len(fifo)) % (2 * buffer_size)
    BY DEF PipeInv, PipeFifo
  <2>2. /\ Contents(fifo) = Stream(got, rt_ringbuffer_data_len(fifo))
        /\ (got + rt_ringbuffer_data_len(fifo)) % (2 * buffer_size) = sent
    BY <2>1, ContentsAreStream
  <2> QED BY <2>2 DEF PipeIsStream
<1> QED BY <1>1, <1>2, PipeNext, PTL DEF Spec
-----------------------------------------------------------------------------
(* The ring block buffer.                                                  *)

BlkRecord == [status : {"UNUSED", "INITED", "PUT", "GET"}, buf : Nat, size : Nat]

\* Positions in the list, and the blocks there.
Pos == 1 .. Len(blk_list)
BufAt(i) == blk[blk_list[i]].buf
EndAt(i) == After(blk_list[i])

\* The block at j lies behind the one at i.
Above(i, j) == EndAt(i) <= BufAt(j)

\* Going through the list one goes once around the buffer.
InRingOrder ==
    /\ \A i, j \in Pos : i < j => Above(i, j) \/ Above(j, i)
    /\ \A i, j, n \in Pos : i < j /\ j < n =>
          \/ Above(i, j) /\ Above(j, n)
          \/ Above(n, i) /\ Above(i, j)
          \/ Above(j, n) /\ Above(n, i)

\* The blocks in the list are different ones, in use and not empty, and inside the
\* buffer unless it has been outgrown.
BlocksInUse ==
    /\ blk \in [Blk -> BlkRecord]
    /\ blk_list \in Seq(Blk)
    /\ \A i, j \in Pos : i < j => blk_list[i] # blk_list[j]
    /\ \A i \in Pos : /\ blk[blk_list[i]].status # "UNUSED" /\ blk[blk_list[i]].size > 0
                      /\ EndAt(i) <= MaxEnd /\ (outgrown \/ EndAt(i) <= buf_size)
    /\ outgrown \in BOOLEAN

\* Once the buffer is outgrown every block ends outside and the list never wraps.
Outside ==
    outgrown => /\ \A i \in Pos : EndAt(i) > buf_size
                /\ \A i, j \in Pos : i < j => Above(i, j)

\* The inductive invariant of the ring block buffer.
BlocksInv == BlocksInUse /\ InRingOrder /\ Outside

\* The constants.
LEMMA BlkConstants ==
    /\ buf_size \in Nat \ {0} /\ blk_max_num \in Nat \ {0}
    /\ MaxEnd \in Nat /\ buf_size <= MaxEnd
    /\ SizeModulus \in Nat \ {0} /\ 2 * MaxEnd <= SizeModulus
    /\ BlkSize \subseteq Nat \ {0}
BY RingBlockAssumption, MaxEndAssumption, BlkSizeAssumption

\* The difference of two addresses.
LEMMA GapIs ==
    ASSUME NEW x \in 0 .. MaxEnd, NEW y \in 0 .. MaxEnd
    PROVE  Gap(x, y) = IF x <= y THEN y - x ELSE y - x + SizeModulus
<1> DEFINE M == SizeModulus
           z == y - x
<1>1. /\ M \in Nat \ {0} /\ z \in Int /\ -M <= z /\ z < M /\ z < 2 * M
      /\ z < 0 <=> ~(x <= y)
  BY BlkConstants
<1>2. Gap(x, y) = z % M
  BY DEF Gap
<1> HIDE DEF M, z
<1>3. z % M = Turn(z, M)
  BY <1>1, Remainder
<1>4. z % M = IF x <= y THEN z ELSE z + M
  BY <1>1, <1>3 DEF Turn
<1> QED BY <1>2, <1>4 DEF z, M

\* What is known of a block in the list.
LEMMA BlockFacts ==
    ASSUME BlocksInUse, NEW i \in Pos
    PROVE  /\ blk_list[i] \in Blk /\ BufAt(i) \in Nat
           /\ EndAt(i) = BufAt(i) + blk[blk_list[i]].size
           /\ EndAt(i) \in Nat /\ BufAt(i) < EndAt(i) /\ EndAt(i) <= MaxEnd
           /\ outgrown \/ EndAt(i) <= buf_size
<1>1. blk_list[i] \in Blk
  BY DEF BlocksInUse, Pos
<1>2. blk[blk_list[i]] \in BlkRecord
  BY <1>1 DEF BlocksInUse
<1>3. blk[blk_list[i]].buf \in Nat /\ blk[blk_list[i]].size \in Nat /\ blk[blk_list[i]].size > 0
  BY <1>2 DEF BlkRecord, BlocksInUse
<1> QED BY <1>1, <1>3 DEF BlocksInUse, BufAt, EndAt, After

\* A step after which the list holds some of the blocks it held before, where
\* they were and in the same order.
LEMMA SomeStay ==
    ASSUME BlocksInv, blk' \in [Blk -> BlkRecord], blk_list' \in Seq(Blk),
           outgrown' = outgrown, NEW h,
           \A x \in 1 .. Len(blk_list') :
              /\ h[x] \in Pos /\ blk_list'[x] = blk_list[h[x]]
              /\ blk'[blk_list'[x]].status # "UNUSED"
              /\ blk'[blk_list'[x]].buf = blk[blk_list'[x]].buf
              /\ blk'[blk_list'[x]].size = blk[blk_list'[x]].size,
           \A x, y \in 1 .. Len(blk_list') : x < y => h[x] < h[y]
    PROVE  BlocksInv'
<1> DEFINE Q == 1 .. Len(blk_list')
<1>1. \A x \in Q : /\ h[x] \in Pos /\ BufAt(x)' = BufAt(h[x]) /\ EndAt(x)' = EndAt(h[x])
                   /\ blk_list'[x] = blk_list[h[x]]
  BY DEF BufAt, EndAt, After
<1>2. \A x, y \in Q : Above(x, y)' <=> Above(h[x], h[y])
  BY <1>1 DEF Above
<1>3. BlocksInUse'
  <2>1. \A x, y \in Q : x < y => blk_list'[x] # blk_list'[y]
    BY <1>1 DEF BlocksInv, BlocksInUse
  <2>2. \A x \in Q : /\ blk'[blk_list'[x]].status # "UNUSED" /\ blk'[blk_list'[x]].size > 0
                     /\ EndAt(x)' <= MaxEnd /\ (outgrown' \/ EndAt(x)' <= buf_size)
    BY <1>1 DEF BlocksInv, BlocksInUse
  <2>3. outgrown' \in BOOLEAN
    BY DEF BlocksInv, BlocksInUse
  <2> QED BY <2>1, <2>2, <2>3 DEF BlocksInUse, Pos
<1>4. InRingOrder'
  <2>1. \A x, y \in Q : x < y => Above(x, y)' \/ Above(y, x)'
    BY <1>1, <1>2 DEF BlocksInv, InRingOrder
  <2>2. ASSUME NEW x \in Q, NEW y \in Q, NEW z \in Q, x < y, y < z
        PROVE  \/ Above(x, y)' /\ Above(y, z)'
               \/ Above(z, x)' /\ Above(x, y)'
               \/ Above(y, z)' /\ Above(z, x)'
    <3>1. h[x] \in Pos /\ h[y] \in Pos /\ h[z] \in Pos /\ h[x] < h[y] /\ h[y] < h[z]
      BY <1>1, <2>2
    <3>2. \/ Above(h[x], h[y]) /\ Above(h[y], h[z])
          \/ Above(h[z], h[x]) /\ Above(h[x], h[y])
          \/ Above(h[y], h[z]) /\ Above(h[z], h[x])
      BY <3>1 DEF BlocksInv, InRingOrder
    <3> QED BY <1>2, <2>2, <3>2
  <2> QED BY <2>1, <2>2 DEF InRingOrder, Pos
<1>5. Outside'
  <2>1. ASSUME outgrown
        PROVE  /\ \A x \in Q : EndAt(x)' > buf_size
               /\ \A x, y \in Q : x < y => Above(x, y)'
    BY <1>1, <1>2, <2>1 DEF BlocksInv, Outside
  <2> QED BY <2>1 DEF Outside, Pos
<1> QED BY <1>3, <1>4, <1>5 DEF BlocksInv

\* Steps that only change the status of a block, and not to unused.
LEMMA StatusStep ==
    ASSUME BlocksInv, blk_list' = blk_list, blk' \in [Blk -> BlkRecord], outgrown' = outgrown,
           \A b \in Blk : /\ blk'[b].buf = blk[b].buf /\ blk'[b].size = blk[b].size
                          /\ blk'[b].status = "UNUSED" => blk[b].status = "UNUSED"
    PROVE  BlocksInv'
<1> DEFINE h == [x \in Pos |-> x]
<1>1. blk_list' \in Seq(Blk)
  BY DEF BlocksInv, BlocksInUse
<1>2. ASSUME NEW x \in 1 .. Len(blk_list')
      PROVE  /\ h[x] \in Pos /\ blk_list'[x] = blk_list[h[x]]
             /\ blk'[blk_list'[x]].status # "UNUSED"
             /\ blk'[blk_list'[x]].buf = blk[blk_list'[x]].buf
             /\ blk'[blk_list'[x]].size = blk[blk_list'[x]].size
  <2>1. x \in Pos /\ h[x] = x
    BY <1>2 DEF Pos
  <2>2. blk_list[x] \in Blk /\ blk[blk_list[x]].status # "UNUSED"
    BY <2>1, BlockFacts DEF BlocksInv, BlocksInUse
  <2> QED BY <2>1, <2>2
<1>3. \A x, y \in 1 .. Len(blk_list') : x < y => h[x] < h[y]
  BY DEF Pos
<1> HIDE DEF h
<1> QED BY <1>1, <1>2, <1>3, SomeStay

\* The positions from i to j of a sequence are cut out.
Cut(s, i, j) == SubSeq(s, 1, i - 1) \o SubSeq(s, j + 1, Len(s))

\* The others stay in order.
LEMMA CutElements ==
    ASSUME NEW S, NEW s \in Seq(S), NEW i \in 1 .. Len(s), NEW j \in i .. Len(s)
    PROVE  /\ Cut(s, i, j) \in Seq(S)
           /\ Len(Cut(s, i, j)) = Len(s) - (j - i + 1)
           /\ \A x \in 1 .. Len(s) - (j - i + 1) :
                 Cut(s, i, j)[x] = s[IF x < i THEN x ELSE x + (j - i + 1)]
<1> DEFINE a == SubSeq(s, 1, i - 1)
           b == SubSeq(s, j + 1, Len(s))
<1>1. a \in Seq(S) /\ Len(a) = i - 1
  OBVIOUS
<1>2. \A x \in 1 .. i - 1 : a[x] = s[x]
  OBVIOUS
<1>3. b \in Seq(S) /\ Len(b) = Len(s) - j
  OBVIOUS
<1>4. \A x \in 1 .. Len(s) - j : b[x] = s[j + x]
  OBVIOUS
<1> HIDE DEF a, b
<1>5. a \o b \in Seq(S) /\ Len(a \o b) = Len(a) + Len(b)
  BY <1>1, <1>3, ConcatProperties
<1>6. \A x \in 1 .. Len(a) + Len(b) :
         (a \o b)[x] = IF x <= Len(a) THEN a[x] ELSE b[x - Len(a)]
  BY <1>1, <1>3, ConcatProperties
<1>7. Len(a) + Len(b) = Len(s) - (j - i + 1)
  BY <1>1, <1>3
<1>8. ASSUME NEW x \in 1 .. Len(s) - (j - i + 1)
      PROVE  (a \o b)[x] = s[IF x < i THEN x ELSE x + (j - i + 1)]
  <2>1. CASE x < i
    <3>1. x \in 1 .. i - 1 /\ x <= Len(a) /\ x \in 1 .. Len(a) + Len(b)
      BY <1>1, <1>7, <2>1
    <3> QED BY <1>2, <1>6, <2>1, <3>1
  <2>2. CASE ~(x < i)
    <3>1. /\ ~(x <= Len(a)) /\ x \in 1 .. Len(a) + Len(b)
          /\ x - Len(a) \in 1 .. Len(s) - j /\ j + (x - Len(a)) = x + (j - i + 1)
      BY <1>1, <1>7, <2>2
    <3> QED BY <1>4, <1>6, <2>2, <3>1
  <2> QED BY <2>1, <2>2
<1> QED BY <1>5, <1>7, <1>8 DEF Cut, a, b

\* Steps that cut blocks out of the list and leave the others as they are.
LEMMA CutStep ==
    ASSUME BlocksInv, NEW i \in Pos, NEW j \in i .. Len(blk_list),
           blk_list' = Cut(blk_list, i, j), blk' \in [Blk -> BlkRecord], outgrown' = outgrown,
           \A b \in Blk : (\A n \in i .. j : b # blk_list[n]) => blk'[b] = blk[b]
    PROVE  BlocksInv'
<1> DEFINE m == j - i + 1
           h == [x \in 1 .. Len(blk_list) - m |-> IF x < i THEN x ELSE x + m]
<1>0. blk_list \in Seq(Blk) /\ Len(blk_list) \in Nat /\ i \in 1 .. Len(blk_list) /\ m \in Nat
  BY DEF BlocksInv, BlocksInUse, Pos
<1>1. /\ blk_list' \in Seq(Blk) /\ Len(blk_list') = Len(blk_list) - m
      /\ \A x \in 1 .. Len(blk_list) - m :
            blk_list'[x] = blk_list[IF x < i THEN x ELSE x + m]
  BY <1>0, CutElements, ZenonT(60)
<1>2. ASSUME NEW x \in 1 .. Len(blk_list')
      PROVE  /\ h[x] \in Pos /\ blk_list'[x] = blk_list[h[x]]
             /\ blk'[blk_list'[x]].status # "UNUSED"
             /\ blk'[blk_list'[x]].buf = blk[blk_list'[x]].buf
             /\ blk'[blk_list'[x]].size = blk[blk_list'[x]].size
  <2>1. x \in 1 .. Len(blk_list) - m /\ h[x] = IF x < i THEN x ELSE x + m
    BY <1>1
  <2>2. h[x] \in Pos /\ h[x] \notin i .. j
    BY <1>0, <2>1 DEF Pos
  <2>3. blk_list'[x] = blk_list[h[x]]
    BY <1>1, <2>1
  <2> HIDE DEF h, m
  <2> DEFINE p == h[x]
  <2>4. p \in Pos /\ p \notin i .. j /\ blk_list'[x] = blk_list[p]
    BY <2>2, <2>3
  <2> HIDE DEF p
  <2>5. blk_list[p] \in Blk /\ blk[blk_list[p]].status # "UNUSED"
    BY <2>4, BlockFacts DEF BlocksInv, BlocksInUse
  <2>6. \A n \in i .. j : blk_list[p] # blk_list[n]
    <3> TAKE n \in i .. j
    <3>1. n \in Pos /\ p \in Int /\ n \in Int /\ (p < n \/ n < p)
      BY <1>0, <2>4 DEF Pos
    <3> QED BY <2>4, <3>1 DEF BlocksInv, BlocksInUse
  <2>7. blk'[blk_list[p]] = blk[blk_list[p]]
    BY <2>5, <2>6
  <2> QED BY <2>4, <2>5, <2>7 DEF p
<1>3. \A x, y \in 1 .. Len(blk_list') : x < y => h[x] < h[y]
  BY <1>0, <1>1
<1> HIDE DEF h
<1> QED BY <1>1, <1>2, <1>3, SomeStay

\* A place for a block that goes on around the buffer from the last one.
GoesAround(at, size) ==
    /\ \A i \in Pos : EndAt(i) <= at \/ at + size <= BufAt(i)
    /\ \A i, j \in Pos : i < j =>
          \/ Above(i, j) /\ EndAt(j) <= at
          \/ at + size <= BufAt(i) /\ Above(i, j)
          \/ EndAt(j) <= at /\ at + size <= BufAt(i)

\* Inside the buffer, unless it is outgrown, then or already: behind all blocks,
\* with its end outside.
Fits(at, size) ==
    /\ at \in Nat /\ size \in Nat \ {0} /\ at + size <= MaxEnd
    /\ GoesAround(at, size)
    /\ IF Grows(size)
         THEN /\ Pos = {} \/ outgrown
              /\ at + size > buf_size /\ \A i \in Pos : EndAt(i) <= at
         ELSE /\ Pos = {} \/ ~outgrown
              /\ at + size <= buf_size

\* The places rt_rbb_blk_alloc chooses are of that kind: behind the last block
\* when there is room up to the end of the buffer, or up to the first block once
\* the blocks wrap, and otherwise at the start when there is room up to the
\* first block; behind the last block in any case once that ends outside.
LEMMA PlacesFit ==
    ASSUME BlocksInv, NEW size \in Nat \ {0}, NEW at \in Places(size), at + size <= MaxEnd
    PROVE  Fits(at, size)
<1> DEFINE n == Len(blk_list)
<1>0. /\ n \in Nat /\ blk_list \in Seq(Blk) /\ Pos = 1 .. n
      /\ buf_size \in Nat \ {0} /\ MaxEnd \in Nat /\ buf_size <= MaxEnd
      /\ SizeModulus \in Nat /\ 2 * MaxEnd <= SizeModulus /\ outgrown \in BOOLEAN
  BY BlkConstants DEF BlocksInv, BlocksInUse, Pos
<1>1. CASE blk_list = << >>
  <2>1. at = 0 /\ Pos = {}
    BY <1>0, <1>1 DEF Places
  <2> QED BY <1>0, <1>1, <2>1 DEF Fits, GoesAround, Grows
<1>a. ASSUME blk_list # << >>
      PROVE  /\ n \in Nat \ {0} /\ 1 \in Pos /\ n \in Pos
             /\ \/ /\ BufAt(1) <= BufAt(n)
                   /\ \/ Gap(EndAt(n), buf_size) >= size /\ at = EndAt(n)
                      \/ ~(Gap(EndAt(n), buf_size) >= size) /\ BufAt(1) >= size /\ at = 0
                \/ /\ ~(BufAt(1) <= BufAt(n))
                   /\ Gap(EndAt(n), BufAt(1)) >= size /\ at = EndAt(n)
  <2>1. /\ n \in Nat \ {0} /\ 1 \in Pos /\ n \in Pos
        /\ Head(blk_list) = blk_list[1] /\ Last(blk_list) = blk_list[n]
    BY <1>0, <1>a DEF Last
  <2> QED BY <1>a, <2>1 DEF Places, BufAt, EndAt
<1>b. \A i \in Pos : /\ BufAt(i) \in Nat /\ EndAt(i) \in Nat
                     /\ BufAt(i) < EndAt(i) /\ EndAt(i) <= MaxEnd
                     /\ outgrown \/ EndAt(i) <= buf_size
  BY BlockFacts DEF BlocksInv
<1>c. \A i, j \in Pos : i < j => Above(i, j) \/ Above(j, i)
  BY DEF BlocksInv, InRingOrder
<1>3. CASE blk_list # << >> /\ outgrown
  <2>1. n \in Nat \ {0} /\ 1 \in Pos /\ n \in Pos
    BY <1>a, <1>3
  <2>2. /\ \A i \in Pos : EndAt(i) > buf_size
        /\ \A i, j \in Pos : i < j => EndAt(i) <= BufAt(j)
    BY <1>3 DEF BlocksInv, Outside, Above
  <2>3. \A i \in Pos : i \in Int /\ (i = n \/ i < n)
    BY <1>0
  <2> HIDE DEF n
  <2>4. \A i \in Pos : EndAt(i) <= EndAt(n)
    BY <1>b, <2>1, <2>2, <2>3
  <2>5. BufAt(1) <= BufAt(n)
    BY <1>b, <2>1, <2>2, <2>3
  <2>6. Gap(EndAt(n), buf_size) = buf_size - EndAt(n) + SizeModulus
    <3>1. EndAt(n) \in 0 .. MaxEnd /\ buf_size \in 0 .. MaxEnd /\ ~(EndAt(n) <= buf_size)
      BY <1>0, <1>b, <2>1, <2>2
    <3> QED BY <3>1, GapIs
  <2>7. size <= MaxEnd
    BY <1>0, <1>a, <1>b, <1>3, <2>1
  <2>8. Gap(EndAt(n), buf_size) >= size
    BY <1>0, <1>b, <2>1, <2>6, <2>7
  <2>9. at = EndAt(n) /\ at \in Nat
    BY <1>a, <1>b, <1>3, <2>1, <2>5, <2>8
  <2>10. GoesAround(at, size)
    BY <2>2, <2>4, <2>9 DEF GoesAround, Above
  <2>11. Grows(size) /\ at + size > buf_size
    BY <1>0, <1>3, <2>1, <2>2, <2>9 DEF Grows
  <2> QED BY <1>3, <2>4, <2>9, <2>10, <2>11 DEF Fits
<1>2. CASE blk_list # << >> /\ ~outgrown
  <2>1. n \in Nat \ {0} /\ 1 \in Pos /\ n \in Pos
    BY <1>a, <1>2
  <2>3. \A i \in Pos : /\ BufAt(i) \in Nat /\ EndAt(i) \in Nat
                       /\ BufAt(i) < EndAt(i) /\ EndAt(i) <= buf_size
    BY <1>b, <1>2
  <2>4. \A i, j \in Pos : i < j => Above(i, j) \/ Above(j, i)
    BY <1>c
  <2>2. \/ /\ BufAt(1) <= BufAt(n)
           /\ \/ buf_size - EndAt(n) >= size /\ at = EndAt(n)
              \/ BufAt(1) >= size /\ at = 0
        \/ /\ ~(BufAt(1) <= BufAt(n))
           /\ BufAt(1) - EndAt(n) >= size /\ at = EndAt(n)
    <3> HIDE DEF n
    <3>0. n = 1 \/ 1 < n
      BY <2>1
    <3>1. EndAt(n) \in 0 .. MaxEnd /\ buf_size \in 0 .. MaxEnd /\ EndAt(n) <= buf_size
      <4>1. EndAt(n) \in Nat /\ EndAt(n) <= MaxEnd /\ EndAt(n) <= buf_size
        BY <1>b, <2>1, <2>3
      <4>2. buf_size \in Nat /\ MaxEnd \in Nat /\ buf_size <= MaxEnd
        BY <1>0
      <4> QED BY <4>1, <4>2
    <3>2. Gap(EndAt(n), buf_size) = buf_size - EndAt(n)
      BY <3>1, GapIs
    <3>3. CASE BufAt(1) <= BufAt(n)
      BY <1>a, <1>2, <3>2, <3>3
    <3>4. CASE ~(BufAt(1) <= BufAt(n))
      <4>1. EndAt(n) <= BufAt(1)
        BY <2>1, <2>3, <2>4, <3>0, <3>4 DEF Above
      <4>2. BufAt(1) \in 0 .. MaxEnd
        BY <1>0, <2>1, <2>3
      <4>3. Gap(EndAt(n), BufAt(1)) = BufAt(1) - EndAt(n)
        BY <3>1, <4>1, <4>2, GapIs
      <4> QED BY <1>a, <1>2, <3>4, <4>3
    <3> QED BY <3>3, <3>4
  <2>5. \A i, j, l \in Pos : i < j /\ j < l =>
          \/ Above(i, j) /\ Above(j, l)
          \/ Above(l, i) /\ Above(i, j)
          \/ Above(j, l) /\ Above(l, i)
    BY DEF BlocksInv, InRingOrder
  <2>6. \A i \in Pos : i \in Int /\ 1 <= i /\ i <= n
    BY <1>0
  <2>9. ASSUME at \in Nat, at + size <= buf_size, GoesAround(at, size) PROVE Fits(at, size)
    <3>1. ~Grows(size)
      BY <1>0, <1>2, <2>9 DEF Grows
    <3> QED BY <1>2, <2>9, <3>1 DEF Fits
  <2> HIDE DEF n
  <2>7. CASE BufAt(1) <= BufAt(n)
    <3>1. \A i \in Pos : BufAt(1) <= BufAt(i) /\ EndAt(i) <= EndAt(n)
      <4> TAKE i \in Pos
      <4>1. CASE i = 1 \/ i = n
        <5>1. BufAt(1) <= BufAt(1) /\ EndAt(n) <= EndAt(n)
          BY <2>1, <2>3
        <5>2. n = 1 \/ Above(1, n)
          BY <2>1, <2>3, <2>4, <2>6, <2>7 DEF Above
        <5> QED BY <2>1, <2>3, <2>7, <4>1, <5>1, <5>2 DEF Above
      <4>2. CASE 1 < i /\ i < n
        BY <2>1, <2>3, <2>5, <2>7, <4>2 DEF Above
      <4> QED BY <2>1, <2>6, <4>1, <4>2
    <3>2. \A i, j \in Pos : i < j => Above(i, j)
      <4> SUFFICES ASSUME NEW i \in Pos, NEW j \in Pos, i < j PROVE Above(i, j)
        OBVIOUS
      <4>1. CASE j = n /\ i = 1
        BY <2>1, <2>3, <2>4, <2>7, <4>1 DEF Above
      <4>2. CASE j = n /\ 1 < i
        BY <2>1, <2>3, <2>5, <2>7, <4>2 DEF Above
      <4>3. CASE j < n
        <5>1. Above(i, j) \/ (Above(j, n) /\ Above(n, i))
          BY <2>1, <2>5, <4>3
        <5>2. ~Above(n, i)
          BY <2>1, <2>3, <3>1 DEF Above
        <5> QED BY <5>1, <5>2
      <4> QED BY <2>1, <2>6, <4>1, <4>2, <4>3
    <3>3. CASE buf_size - EndAt(n) >= size /\ at = EndAt(n)
      <4>1. at \in Nat /\ at + size <= buf_size
        BY <1>0, <2>1, <2>3, <3>3
      <4>2. GoesAround(at, size)
        BY <3>1, <3>2, <3>3 DEF GoesAround
      <4> QED BY <2>9, <4>1, <4>2
    <3>4. CASE BufAt(1) >= size /\ at = 0
      <4>1. \A i \in Pos : at + size <= BufAt(i)
        BY <1>0, <2>1, <2>3, <3>1, <3>4
      <4>2. GoesAround(at, size)
        BY <3>2, <4>1 DEF GoesAround
      <4>3. at \in Nat /\ at + size <= buf_size
        BY <1>0, <2>1, <2>3, <3>4
      <4> QED BY <2>9, <4>2, <4>3
    <3> QED BY <2>2, <2>7, <3>3, <3>4
  <2>8. CASE ~(BufAt(1) <= BufAt(n))
    <3>0. /\ at \in Nat /\ at = EndAt(n) /\ at + size <= BufAt(1) /\ at + size <= buf_size
          /\ n # 1
      BY <1>0, <2>1, <2>2, <2>3, <2>8
    <3>1. \A i \in Pos : \/ BufAt(1) <= BufAt(i)
                         \/ EndAt(i) <= EndAt(n) /\ EndAt(i) <= BufAt(1)
      <4> TAKE i \in Pos
      <4>1. CASE i = 1
        BY <2>1, <2>3, <4>1
      <4>2. CASE i = n
        BY <1>0, <2>1, <2>3, <3>0, <4>2
      <4>3. CASE 1 < i /\ i < n
        BY <2>1, <2>3, <2>5, <2>8, <4>3 DEF Above
      <4> QED BY <2>1, <2>6, <4>1, <4>2, <4>3
    <3>2. \A i \in Pos : EndAt(i) <= at \/ at + size <= BufAt(i)
      BY <1>0, <2>1, <2>3, <3>0, <3>1
    <3>3. ASSUME NEW i \in Pos, NEW j \in Pos, i < j
          PROVE  \/ Above(i, j) /\ EndAt(j) <= at
                 \/ at + size <= BufAt(i) /\ Above(i, j)
                 \/ EndAt(j) <= at /\ at + size <= BufAt(i)
      <4>0. /\ BufAt(1) \in Nat /\ BufAt(i) \in Nat /\ BufAt(j) \in Nat
            /\ EndAt(1) \in Nat /\ EndAt(i) \in Nat /\ EndAt(j) \in Nat
            /\ BufAt(1) < EndAt(1) /\ BufAt(i) < EndAt(i) /\ BufAt(j) < EndAt(j)
        BY <2>1, <2>3
      <4>1. /\ BufAt(1) <= BufAt(i) \/ (EndAt(i) <= at /\ EndAt(i) <= BufAt(1))
            /\ BufAt(1) <= BufAt(j) \/ (EndAt(j) <= at /\ EndAt(j) <= BufAt(1))
        BY <3>0, <3>1
      <4>2. CASE i = 1
        <5>1. Above(1, j) \/ Above(j, 1)
          BY <2>1, <2>4, <3>3, <4>2
        <5> QED BY ONLY <1>0, <3>0, <4>0, <4>1, <4>2, <5>1 DEF Above
      <4>3. CASE 1 < i
        <5>1. \/ Above(1, i) /\ Above(i, j)
              \/ Above(j, 1) /\ Above(1, i)
              \/ Above(i, j) /\ Above(j, 1)
          BY <2>1, <2>5, <3>3, <4>3
        <5> QED BY ONLY <1>0, <3>0, <4>0, <4>1, <5>1, SMTT(60) DEF Above
      <4> QED BY <2>6, <4>2, <4>3
    <3>4. GoesAround(at, size)
      BY <3>2, <3>3 DEF GoesAround
    <3> QED BY <2>9, <3>0, <3>4
  <2> QED BY <2>7, <2>8
<1> QED BY <1>0, <1>1, <1>2, <1>3

\* A block that fits may be appended.
LEMMA AppendStep ==
    ASSUME BlocksInv, NEW b \in Blk, NEW at, NEW size, Fits(at, size),
           \A i \in Pos : b # blk_list[i],
           blk' = [blk EXCEPT ![b] = [status |-> "INITED", buf |-> at, size |-> size]],
           blk_list' = Append(blk_list, b), outgrown' = Grows(size)
    PROVE  BlocksInv'
<1>a. PICK new \in Nat : new = Len(blk_list) + 1
  BY DEF BlocksInv, BlocksInUse
<1>0. /\ Len(blk_list) \in Nat /\ new = Len(blk_list) + 1
      /\ blk_list \in Seq(Blk) /\ blk \in [Blk -> BlkRecord] /\ Pos = 1 .. new - 1
      /\ at \in Nat /\ size \in Nat \ {0} /\ at + size <= MaxEnd
  BY <1>a DEF BlocksInv, BlocksInUse, Pos, Fits
<1>1. /\ blk_list' \in Seq(Blk) /\ Len(blk_list') = new /\ blk_list'[new] = b
      /\ \A i \in Pos : blk_list'[i] = blk_list[i]
  BY <1>0
<1>2. blk' \in [Blk -> BlkRecord]
  BY <1>0 DEF BlkRecord
<1>3. /\ BufAt(new)' = at /\ EndAt(new)' = at + size
      /\ blk'[b].status # "UNUSED" /\ blk'[b].size = size
  BY <1>0, <1>1 DEF BufAt, EndAt, After
<1>4. \A i \in Pos : /\ BufAt(i)' = BufAt(i) /\ EndAt(i)' = EndAt(i)
                     /\ blk'[blk_list'[i]] = blk[blk_list[i]]
  <2> TAKE i \in Pos
  <2>1. blk_list[i] \in Blk /\ blk_list[i] # b
    BY BlockFacts DEF BlocksInv
  <2>2. blk'[blk_list'[i]] = blk[blk_list[i]]
    BY <1>0, <1>1, <2>1
  <2> QED BY <2>2 DEF BufAt, EndAt, After
<1>5. Pos' = Pos \cup {new} /\ \A i \in Pos : i \in Int /\ i < new /\ ~(new < i)
  BY <1>0, <1>1 DEF Pos
<1>6. BlocksInUse'
  <2>1. \A i, j \in Pos' : i < j => blk_list'[i] # blk_list'[j]
    <3>1. ~(new < new)
      BY <1>0
    <3>2. \A i, j \in Pos : i < j => blk_list'[i] # blk_list'[j]
      BY <1>1, ZenonT(60) DEF BlocksInv, BlocksInUse
    <3>3. \A i \in Pos : blk_list'[i] # blk_list'[new]
      BY <1>1
    <3> QED BY <1>5, <3>1, <3>2, <3>3
  <2>2. \A i \in Pos' : /\ blk'[blk_list'[i]].status # "UNUSED" /\ blk'[blk_list'[i]].size > 0
                        /\ EndAt(i)' <= MaxEnd
    BY <1>0, <1>1, <1>3, <1>4, <1>5 DEF BlocksInv, BlocksInUse
  <2>3. \A i \in Pos' : outgrown' \/ EndAt(i)' <= buf_size
    BY <1>3, <1>4, <1>5 DEF BlocksInv, BlocksInUse, Fits
  <2>4. outgrown' \in BOOLEAN
    BY DEF Grows
  <2> QED BY <1>1, <1>2, <2>1, <2>2, <2>3, <2>4 DEF BlocksInUse
<1>7. ~(new < new)
  BY <1>0
<1>8. \A i, j \in Pos : Above(i, j)' <=> Above(i, j)
  BY <1>4 DEF Above
<1>9. \A i \in Pos : /\ Above(i, new)' <=> EndAt(i) <= at
                     /\ Above(new, i)' <=> at + size <= BufAt(i)
  BY <1>3, <1>4 DEF Above
<1>10. \A i, j \in Pos' : i < j => Above(i, j)' \/ Above(j, i)'
  <2>1. \A i, j \in Pos : i < j => Above(i, j)' \/ Above(j, i)'
    BY <1>8 DEF BlocksInv, InRingOrder
  <2>2. \A i \in Pos : Above(i, new)' \/ Above(new, i)'
    BY <1>9 DEF Fits, GoesAround
  <2> QED BY <1>5, <1>7, <2>1, <2>2
<1>11. ASSUME NEW i \in Pos', NEW j \in Pos', NEW l \in Pos', i < j, j < l
       PROVE  \/ Above(i, j)' /\ Above(j, l)'
              \/ Above(l, i)' /\ Above(i, j)'
              \/ Above(j, l)' /\ Above(l, i)'
  <2>1. i \in Pos /\ j \in Pos
    <3>1. new \in Int /\ l \in Int /\ l <= new
      BY <1>0, <1>5
    <3> QED BY <1>5, <1>11, <3>1
  <2>2. CASE l \in Pos
    <3>1. \/ Above(i, j) /\ Above(j, l)
          \/ Above(l, i) /\ Above(i, j)
          \/ Above(j, l) /\ Above(l, i)
      BY <1>11, <2>1, <2>2 DEF BlocksInv, InRingOrder
    <3> QED BY <1>8, <2>1, <2>2, <3>1
  <2>3. CASE l = new
    <3>1. \/ Above(i, j) /\ EndAt(j) <= at
          \/ at + size <= BufAt(i) /\ Above(i, j)
          \/ EndAt(j) <= at /\ at + size <= BufAt(i)
      BY <1>11, <2>1 DEF Fits, GoesAround
    <3> QED BY <1>8, <1>9, <2>1, <2>3, <3>1
  <2> QED BY <1>5, <2>2, <2>3
<1>12. InRingOrder'
  BY <1>10, <1>11 DEF InRingOrder
<1>13. Outside'
  <2> SUFFICES ASSUME Grows(size)
               PROVE  /\ \A i \in Pos' : EndAt(i)' > buf_size
                      /\ \A i, j \in Pos' : i < j => Above(i, j)'
    BY DEF Outside
  <2>1. /\ \A i \in Pos : EndAt(i) > buf_size
        /\ \A i, j \in Pos : i < j => Above(i, j)
        /\ at + size > buf_size /\ \A i \in Pos : EndAt(i) <= at
    BY DEF BlocksInv, Outside, Fits
  <2>2. \A i \in Pos' : EndAt(i)' > buf_size
    BY <1>3, <1>4, <1>5, <2>1
  <2>3. \A i, j \in Pos' : i < j => Above(i, j)'
    BY <1>5, <1>7, <1>8, <1>9, <2>1
  <2> QED BY <2>2, <2>3
<1> QED BY <1>6, <1>12, <1>13 DEF BlocksInv

\* Freeing a block takes it out of the list if it is there.
LEMMA FreeStep ==
    ASSUME BlocksInv, NEW b \in Blk, blk' = [blk EXCEPT ![b] = UnusedBlk],
           blk_list' = RemoveFirst(blk_list, b), outgrown' = outgrown
    PROVE  BlocksInv'
<1>0. blk_list \in Seq(Blk) /\ blk \in [Blk -> BlkRecord] /\ Pos = 1 .. Len(blk_list)
  BY DEF BlocksInv, BlocksInUse, Pos
<1>1. UnusedBlk \in BlkRecord
  BY DEF UnusedBlk, BlkRecord
<1>2. blk' \in [Blk -> BlkRecord] /\ \A c \in Blk : c # b => blk'[c] = blk[c]
  BY <1>0, <1>1
<1>3. IsInjective(blk_list)
  <2>1. \A i, j \in Pos : i # j => blk_list[i] # blk_list[j]
    <3> SUFFICES ASSUME NEW i \in Pos, NEW j \in Pos, i # j PROVE blk_list[i] # blk_list[j]
      OBVIOUS
    <3>1. i < j \/ j < i
      BY <1>0
    <3> QED BY <3>1 DEF BlocksInv, BlocksInUse
  <2> QED BY <1>0, <2>1 DEF IsInjective
<1>4. CASE \E i \in Pos : blk_list[i] = b
  <2>1. PICK i \in Pos : blk_list[i] = b
    BY <1>4
  <2>2. blk_list' = RemoveAt(blk_list, i)
    BY <1>0, <1>3, <2>1, ListRemove
  <2>3. blk_list' = Cut(blk_list, i, i) /\ i \in i .. Len(blk_list)
    BY <1>0, <2>2 DEF RemoveAt, Cut
  <2>4. \A c \in Blk : (\A n \in i .. i : c # blk_list[n]) => blk'[c] = blk[c]
    BY <1>0, <1>2, <2>1
  <2> QED BY <1>2, <2>3, <2>4, CutStep
<1>5. CASE \A i \in Pos : blk_list[i] # b
  <2>1. b \notin ToSet(blk_list)
    BY <1>0, <1>5 DEF ToSet
  <2>2. blk_list' = blk_list
    BY <1>0, <1>3, <2>1, ListRemove
  <2> DEFINE h == [x \in Pos |-> x]
  <2>3. ASSUME NEW x \in 1 .. Len(blk_list')
        PROVE  /\ h[x] \in Pos /\ blk_list'[x] = blk_list[h[x]]
               /\ blk'[blk_list'[x]].status # "UNUSED"
               /\ blk'[blk_list'[x]].buf = blk[blk_list'[x]].buf
               /\ blk'[blk_list'[x]].size = blk[blk_list'[x]].size
    <3>1. x \in Pos /\ h[x] = x /\ blk_list'[x] = blk_list[x]
      BY <1>0, <2>2
    <3>2. blk_list[x] \in Blk /\ blk_list[x] # b /\ blk[blk_list[x]].status # "UNUSED"
      BY <1>5, <3>1, BlockFacts DEF BlocksInv, BlocksInUse
    <3> QED BY <1>2, <3>1, <3>2
  <2>4. \A x, y \in 1 .. Len(blk_list') : x < y => h[x] < h[y]
    BY <1>0, <2>2
  <2> HIDE DEF h
  <2> QED BY <1>0, <1>2, <2>2, <2>3, <2>4, SomeStay
<1> QED BY <1>4, <1>5

\* The first block that is put.
LEMMA FirstPutAt ==
    ASSUME BlocksInv, PutAt # {}
    PROVE  FirstPut \in Pos /\ blk[blk_list[FirstPut]].status = "PUT"
<1>1. PutAt \subseteq Nat /\ PutAt \subseteq Pos
  BY DEF PutAt, Pos, BlocksInv, BlocksInUse
<1>2. \E i \in PutAt : \A j \in PutAt : i <= j
  BY <1>1, MinNat
<1>3. FirstPut \in PutAt
  BY <1>2 DEF FirstPut
<1> QED BY <1>1, <1>3 DEF PutAt

\* The queue ends inside the list.
LEMMA QueueEndIn ==
    ASSUME BlocksInv, NEW i \in Pos, NEW length
    PROVE  QueueEnd(i, length) \in i .. Len(blk_list)
<1> DEFINE n == Len(blk_list)
           Stops == {j \in i .. n : j < n => ~Continues(i, j + 1, length)}
<1>0. n \in Nat /\ i \in 1 .. n
  BY DEF BlocksInv, BlocksInUse, Pos
<1>1. n \in Stops /\ Stops \subseteq Nat
  BY <1>0
<1>2. PICK j \in Stops : \A x \in Stops : j <= x
  BY <1>1, MinNat
<1>3. \A x \in i + 1 .. j : Continues(i, x, length)
  <2> TAKE x \in i + 1 .. j
  <2>1. x - 1 \in i .. n /\ x - 1 < n /\ ~(j <= x - 1) /\ (x - 1) + 1 = x
    BY <1>0, <1>2
  <2>2. x - 1 \notin Stops
    BY <1>2, <2>1
  <2> QED BY <2>1, <2>2
<1>4. \E y \in i .. n : /\ \A x \in i + 1 .. y : Continues(i, x, length)
                        /\ y < n => ~Continues(i, y + 1, length)
  BY <1>2, <1>3
<1> QED BY <1>4 DEF QueueEnd

\* Calls on the ring block buffer.
LEMMA RingBlockCallKeeps ==
    ASSUME BlocksInv, NEW t \in Thread, RingBlockCall(t)
    PROVE  BlocksInv'
<1>0. blk_list \in Seq(Blk) /\ blk \in [Blk -> BlkRecord] /\ Pos = 1 .. Len(blk_list)
  BY DEF BlocksInv, BlocksInUse, Pos
<1>1. ASSUME NEW size \in BlkSize, rt_rbb_blk_alloc(t, size) PROVE BlocksInv'
  <2> DEFINE b == find_empty_blk_in_set
  <2>1. b \in Unused
    <3>1. Unused \subseteq Nat /\ Unused # {}
      BY <1>1, BlkConstants DEF Unused, Blk, rt_rbb_blk_alloc
    <3>2. \E x \in Unused : \A y \in Unused : x <= y
      BY <3>1, MinNat
    <3> QED BY <3>2 DEF find_empty_blk_in_set
  <2>2. PICK at \in Places(size) :
          /\ at + size <= MaxEnd
          /\ blk' = [blk EXCEPT ![b] = [status |-> "INITED", buf |-> at, size |-> size]]
          /\ blk_list' = Append(blk_list, b) /\ outgrown' = Grows(size)
    BY <1>1 DEF rt_rbb_blk_alloc
  <2>3. Fits(at, size)
    BY <2>2, BlkConstants, PlacesFit
  <2> HIDE DEF b
  <2>4. b \in Blk /\ \A i \in Pos : b # blk_list[i]
    BY <2>1 DEF Unused, BlocksInv, BlocksInUse
  <2> QED BY <2>2, <2>3, <2>4, AppendStep
<1>2. ASSUME NEW b \in Blk, rt_rbb_blk_put(t, b) PROVE BlocksInv'
  <2>1. /\ blk' = [blk EXCEPT ![b].status = "PUT"] /\ blk_list' = blk_list
        /\ outgrown' = outgrown
    BY <1>2 DEF rt_rbb_blk_put
  <2>2. blk' \in [Blk -> BlkRecord]
    BY <1>0, <2>1 DEF BlkRecord
  <2>3. \A c \in Blk : /\ blk'[c].buf = blk[c].buf /\ blk'[c].size = blk[c].size
                       /\ blk'[c].status = "UNUSED" => blk[c].status = "UNUSED"
    BY <1>0, <2>1 DEF BlkRecord
  <2> QED BY <2>1, <2>2, <2>3, StatusStep
<1>3. ASSUME NEW b \in Blk, rt_rbb_blk_free(t, b) PROVE BlocksInv'
  BY <1>3, FreeStep DEF rt_rbb_blk_free
<1>4. CASE rt_rbb_blk_get(t)
  <2> DEFINE b == blk_list[FirstPut]
  <2>1. /\ blk' = [blk EXCEPT ![b].status = "GET"] /\ blk_list' = blk_list /\ PutAt # {}
        /\ outgrown' = outgrown
    BY <1>4 DEF rt_rbb_blk_get
  <2>2. b \in Blk
    BY <1>0, <2>1, FirstPutAt
  <2> HIDE DEF b
  <2>3. blk' \in [Blk -> BlkRecord]
    BY <1>0, <2>1, <2>2 DEF BlkRecord
  <2>4. \A c \in Blk : /\ blk'[c].buf = blk[c].buf /\ blk'[c].size = blk[c].size
                       /\ blk'[c].status = "UNUSED" => blk[c].status = "UNUSED"
    BY <1>0, <2>1, <2>2 DEF BlkRecord
  <2> QED BY <2>1, <2>3, <2>4, StatusStep
<1>5. ASSUME NEW length, rt_rbb_blk_queue_get(t, length) PROVE BlocksInv'
  <2>0. PutAt # {}
    BY <1>5 DEF rt_rbb_blk_queue_get
  <2> DEFINE i == FirstPut
             j == QueueEnd(i, length)
             took == {blk_list[n] : n \in i .. j}
  <2>1. i \in Pos /\ j \in i .. Len(blk_list)
    BY <2>0, FirstPutAt, QueueEndIn
  <2>2. /\ blk' = [b \in Blk |-> IF b \in took THEN [blk[b] EXCEPT !.status = "GET"]
                                               ELSE blk[b]]
        /\ blk_list' = Cut(blk_list, i, j) /\ outgrown' = outgrown
    BY <1>5 DEF rt_rbb_blk_queue_get, Cut
  <2> HIDE DEF i, j
  <2>3. blk' \in [Blk -> BlkRecord]
    <3>1. \A b \in Blk : [blk[b] EXCEPT !.status = "GET"] \in BlkRecord
      BY <1>0 DEF BlkRecord
    <3> QED BY <1>0, <2>2, <3>1
  <2>4. \A b \in Blk : (\A n \in i .. j : b # blk_list[n]) => blk'[b] = blk[b]
    BY <2>2
  <2> QED BY <2>1, <2>2, <2>3, <2>4, CutStep
<1>6. CASE rt_rbb_blk_queue_free(t)
  <2> DEFINE b == blk_queue.blocks
  <2>1. \/ UNCHANGED rbbvars
        \/ /\ b \in Blk /\ blk' = [blk EXCEPT ![b] = UnusedBlk]
           /\ blk_list' = RemoveFirst(blk_list, b) /\ outgrown' = outgrown
    BY <1>6 DEF rt_rbb_blk_queue_free
  <2>2. CASE UNCHANGED rbbvars
    <3>1. blk' = blk /\ blk_list' = blk_list /\ outgrown' = outgrown
      BY <2>2 DEF rbbvars
    <3> QED BY <1>0, <3>1, StatusStep
  <2> QED BY <2>1, <2>2, FreeStep
<1> QED BY <1>1, <1>2, <1>3, <1>4, <1>5, <1>6 DEF RingBlockCall

\* Every step keeps the invariant of the ring block buffer.
LEMMA BlocksNext == BlocksInv /\ [Next]_vars => BlocksInv'
<1> SUFFICES ASSUME BlocksInv, [Next]_vars PROVE BlocksInv'
  OBVIOUS
<1>1. ASSUME UNCHANGED rbbvars PROVE BlocksInv'
  <2>1. blk' = blk /\ blk_list' = blk_list /\ outgrown' = outgrown
    BY <1>1 DEF rbbvars
  <2>2. blk \in [Blk -> BlkRecord]
    BY DEF BlocksInv, BlocksInUse
  <2> QED BY <2>1, <2>2, StatusStep
<1>2. CASE UNCHANGED vars
  BY <1>1, <1>2 DEF vars
<1>3. ASSUME NEW t \in Thread, ThreadCall(t) PROVE BlocksInv'
  <2>1. UNCHANGED rbbvars \/ RingBlockCall(t)
    BY <1>3 DEF ThreadCall, OnCompletion, OnDataQueue, OnWorkQueue, OnPipe, OnRing,
                OnObjects, Starts, rt_thread_sleep
  <2> QED BY <1>1, <2>1, RingBlockCallKeeps
<1>4. ASSUME NEW t \in Thread, ThreadStep(t) PROVE BlocksInv'
  <2>1. UNCHANGED rbbvars
    BY <1>4 DEF ThreadStep, OnCompletion, OnDataQueue, OnWorkQueue, OnPipe, OnObjects,
                SleepReturn
  <2> QED BY <1>1, <2>1
<1>5. CASE Interrupt
  BY <1>1, <1>5 DEF Interrupt, OnCompletion, OnDataQueue, OnObjects
<1> QED BY <1>2, <1>3, <1>4, <1>5 DEF Next, Halted

\* No block is in use at the start.
LEMMA BlocksInitially == Init => BlocksInv
<1> SUFFICES ASSUME Init PROVE BlocksInv
  OBVIOUS
<1>1. /\ blk_list = << >> /\ outgrown = FALSE
      /\ blk = [b \in Blk |-> [status |-> "UNUSED", buf |-> 0, size |-> 0]]
  BY DEF Init, rt_rbb_init
<1>2. Pos = {} /\ blk_list \in Seq(Blk)
  BY <1>1 DEF Pos
<1>3. blk \in [Blk -> BlkRecord]
  BY <1>1 DEF BlkRecord
<1> QED BY <1>1, <1>2, <1>3 DEF BlocksInv, BlocksInUse, InRingOrder, Outside

\* For a buffer of any size, any number of descriptors and blocks of any size that
\* rt_rbb_blk_alloc accepts, blocks in the list do not overlap, and lie inside the
\* buffer unless one larger than the buffer was granted since the list was last
\* empty (ringblk_buf.c): looking at the first and the last block only is enough
\* to find room, whatever was freed in between or taken out as a queue.
THEOREM BlocksStayDisjoint == Spec => []BlocksDisjoint
<1>1. Init => BlocksInv
  BY BlocksInitially
<1>2. BlocksInv => BlocksDisjoint
  BY DEF BlocksInv, BlocksInUse, InRingOrder, BlocksDisjoint, Pos, Above, EndAt, BufAt
<1> QED BY <1>1, <1>2, BlocksNext, PTL DEF Spec
-----------------------------------------------------------------------------
(* Wake-ups.                                                               *)

\* Points of rt_data_queue_reset, which runs with the scheduler locked.
Resetting == {"dq_test", "dq_resume"}

LockOK == k.lock = 0 \/ (k.lock = 1 /\ pc[k.cur] \in Resetting)

\* A thread is suspended only inside a call; a list holds the threads that are in
\* a call on it, those of the data queue with their error field still RT_EOK.
DevWaiting ==
    /\ \A t \in Thread :
          /\ k.stat[t] = "INIT" => pc[t] = "run"
          /\ k.stat[t] = "SUSPEND" => /\ pc[t] \in {"block", "woken"}
                                      /\ on[t] # None => t \in ToSet(k.wait[on[t]])
    /\ \A q \in Queue : \A t \in ToSet(k.wait[q]) : on[t] = q
    /\ \A q \in {dq_pop, dq_push} : \A t \in ToSet(k.wait[q]) : k.error[t] = "EOK"

\* What is said of the threads and of the kernel.
DevThreads ==
    /\ KernelOK(k)
    /\ pc \in [Thread -> Pcs] /\ on \in [Thread -> Queue \cup {None}]
    /\ pc[Idle] = "run"
    /\ DevWaiting
    /\ CurRunnable
    /\ LockOK
    /\ \A t \in Thread : pc[t] \in Resetting => on[t] \in {dq_pop, dq_push}

\* The kernel core wakes the threads in H, with error e unless that is RT_EOK; the
\* threads in T, the running one or none, stay ready when J is empty, else they
\* suspend themselves on the list in J, or on none; only those in A start timers.
DTurn(T, H, e, J, A) ==
    /\ KernelOK(k')
    /\ k'.cur = k.cur \/ (k'.stat[k'.cur] = "READY" /\ k'.lock = 0)
    /\ H \subseteq Thread /\ H \cap T = {} /\ A \subseteq T
    /\ \A u \in H : /\ k.stat[u] = "SUSPEND" /\ k'.stat[u] = "READY"
                    /\ k'.error[u] = IF e = "EOK" THEN k.error[u] ELSE e
    /\ \A u \in Thread \ (H \cup T) :
          /\ k'.error[u] = k.error[u]
          /\ k'.stat[u] = k.stat[u] \/ (k.stat[u] = "INIT" /\ k'.stat[u] = "READY")
    /\ \A u \in T : /\ k'.stat[u] = IF J = {} THEN k.stat[u] ELSE "SUSPEND"
                    /\ J \cap {dq_pop, dq_push} # {} => k'.error[u] = "EOK"
    /\ \A q \in Queue :
          ToSet(k'.wait[q]) = (ToSet(k.wait[q]) \ H) \cup (IF q \in J THEN T ELSE {})
    /\ k'.timer \subseteq k.timer \cup A
    /\ J # {} => \A u \in T : u \in k'.timer => u \in A

\* The threads in T run.
Run(T) ==
    /\ T \subseteq {k.cur} \ {Idle}
    /\ \A u \in T : k.stat[u] = "READY" /\ pc[u] # "block"

\* They go on to places they may be in.
Go(T, J) ==
    /\ Moves(T) /\ Arrive(T, J)
    /\ on' \in [Thread -> Queue \cup {None}] /\ pc' \in [Thread -> Pcs]
    /\ \A u \in T : pc'[u] \in Resetting => on'[u] \in {dq_pop, dq_push}
    /\ J = {} \/ J = {None} \/ \E q \in Queue : J = {q}

DStep(T, H, e, J, A) == DTurn(T, H, e, J, A) /\ Run(T) /\ Go(T, J) /\ LockOK'

\* Such a step keeps what is said of the threads and of the kernel.
LEMMA DStepThreads ==
    ASSUME DevThreads, NEW T, NEW H, NEW e, NEW J, NEW A, DStep(T, H, e, J, A)
    PROVE  DevThreads'
<1>0. /\ None \notin Queue /\ {dq_pop, dq_push} \subseteq Queue
      /\ Idle \in Thread
  BY ListsAssumption, ThreadAssumption
<1>1. /\ KernelOK(k) /\ k.stat \in [Thread -> Stat] /\ k.cur \in Thread
      /\ on \in [Thread -> Queue \cup {None}] /\ DevWaiting /\ CurRunnable
      /\ \A q \in Queue : \A u \in ToSet(k.wait[q]) : k.stat[u] = "SUSPEND" /\ u \in Thread
  <2>1. KernelOK(k)
    BY DEF DevThreads
  <2>2. \A q \in Queue : k.wait[q] \in Seq(Thread)
    BY <2>1 DEF KernelOK, KernelState
  <2>3. \A q \in Queue : ToSet(k.wait[q]) \subseteq Thread
    BY <2>2 DEF ToSet
  <2> QED BY <2>1, <2>3 DEF DevThreads, KernelOK, KernelState, KernelInv, WaitersSuspended
<1>2. /\ T \subseteq Thread /\ Idle \notin T /\ T \subseteq {k.cur}
      /\ \A u \in T : k.stat[u] = "READY"
  BY <1>1 DEF DStep, Run
<1>3. ASSUME NEW v \in Thread
      PROVE  /\ k'.stat[v] = "INIT" => pc'[v] = "run"
             /\ k'.stat[v] = "SUSPEND" => /\ pc'[v] \in {"block", "woken"}
                                          /\ on'[v] # None => v \in ToSet(k'.wait[on'[v]])
  <2>1. CASE v \in H
    BY <2>1 DEF DStep, DTurn
  <2>2. CASE v \in T /\ J = {}
    BY <1>2, <2>2 DEF DStep, DTurn
  <2>3. CASE v \in T /\ J # {}
    <3>1. k'.stat[v] = "SUSPEND" /\ pc'[v] = "block" /\ on'[v] \in J
      BY <2>3 DEF DStep, DTurn, Go, Arrive
    <3>2. on'[v] # None => on'[v] \in Queue
      BY <1>3 DEF DStep, Go
    <3>3. on'[v] # None => v \in ToSet(k'.wait[on'[v]])
      BY <2>3, <3>1, <3>2 DEF DStep, DTurn
    <3> QED BY <3>1, <3>3
  <2>4. CASE v \in Thread \ (H \cup T)
    <3>1. /\ pc'[v] = pc[v] /\ on'[v] = on[v]
          /\ k'.stat[v] = k.stat[v] \/ k'.stat[v] = "READY"
      BY <2>4 DEF DStep, DTurn, Go, Moves
    <3>2. on[v] # None => on[v] \in Queue
      BY <1>1
    <3>3. on[v] # None => ToSet(k.wait[on[v]]) \ H \subseteq ToSet(k'.wait[on[v]])
      BY <3>2 DEF DStep, DTurn
    <3> QED BY <1>1, <2>4, <3>1, <3>3 DEF DevWaiting
  <2> QED BY <2>1, <2>2, <2>3, <2>4
<1>4. ASSUME NEW q \in Queue, NEW v \in ToSet(k'.wait[q])
      PROVE  on'[v] = q /\ (q \in {dq_pop, dq_push} => k'.error[v] = "EOK")
  <2>1. CASE v \in T /\ q \in J
    <3>1. J = {q}
      BY <1>0, <2>1 DEF DStep, Go
    <3> QED BY <2>1, <3>1 DEF DStep, DTurn, Go, Arrive
  <2>2. CASE ~(v \in T /\ q \in J)
    <3>1. v \in ToSet(k.wait[q]) /\ v \notin H
      BY <2>2 DEF DStep, DTurn
    <3>2. v \in Thread \ (H \cup T) /\ on[v] = q
      BY <1>1, <1>2, <3>1 DEF DevWaiting
    <3> QED BY <1>1, <3>1, <3>2 DEF DStep, DTurn, Go, Moves, DevWaiting
  <2> QED BY <2>1, <2>2
<1>5. DevWaiting'
  BY <1>0, <1>3, <1>4 DEF DevWaiting
<1>6. CurRunnable'
  <2>1. CASE k'.cur # k.cur
    BY <2>1 DEF DStep, DTurn, CurRunnable
  <2>2. CASE k'.cur = k.cur /\ k.cur \in H
    BY <2>2 DEF DStep, DTurn, CurRunnable
  <2>3. CASE k'.cur = k.cur /\ k.cur \in T
    BY <1>2, <2>3 DEF DStep, DTurn, Go, Arrive, CurRunnable
  <2>4. CASE k'.cur = k.cur /\ k.cur \notin H \cup T
    BY <1>1, <2>4 DEF DStep, DTurn, Go, Moves, CurRunnable
  <2> QED BY <2>1, <2>2, <2>3, <2>4
<1>7. pc'[Idle] = "run"
  BY <1>0, <1>2 DEF DStep, Go, Moves, DevThreads
<1>8. \A t \in Thread : pc'[t] \in Resetting => on'[t] \in {dq_pop, dq_push}
  <2>1. \A t \in Thread \ T : pc'[t] = pc[t] /\ on'[t] = on[t]
    BY DEF DStep, Go, Moves
  <2> QED BY <2>1 DEF DStep, Go, DevThreads
<1> QED BY <1>5, <1>6, <1>7, <1>8 DEF DevThreads, DStep, DTurn, Go

\* Who waits on which list, and who is on the way out of it, after such a step.
LEMMA DStepOut ==
    ASSUME DevThreads, NEW T, NEW H, NEW e, NEW J, NEW A, DStep(T, H, e, J, A),
           NEW q \in {dq_pop, dq_push}
    PROVE  /\ ToSet(k'.wait[q]) = (ToSet(k.wait[q]) \ H) \cup (IF q \in J THEN T ELSE {})
           /\ Out(q, "EOK")' = (Out(q, "EOK") \ T) \cup {u \in H : on[u] = q /\ e = "EOK"}
<1>0. q \in Queue /\ q # None
  BY ListsAssumption
<1>1. H \subseteq Thread /\ H \cap T = {} /\ DevWaiting
  BY DEF DStep, DTurn, DevThreads
<1> SUFFICES ASSUME NEW v
             PROVE  v \in Out(q, "EOK")' <=>
                       \/ v \in Out(q, "EOK") /\ v \notin T
                       \/ v \in H /\ on[v] = q /\ e = "EOK"
  BY <1>0 DEF DStep, DTurn
<1>2. v \in Out(q, "EOK")' <=> /\ v \in Thread /\ pc'[v] \in {"block", "woken"} /\ on'[v] = q
                              /\ k'.stat[v] = "READY" /\ k'.error[v] = "EOK"
  BY DEF Out
<1>3. v \in Out(q, "EOK") <=> /\ v \in Thread /\ pc[v] \in {"block", "woken"} /\ on[v] = q
                             /\ k.stat[v] = "READY" /\ k.error[v] = "EOK"
  BY DEF Out
<1>4. CASE v \in H
  <2>1. /\ k.stat[v] = "SUSPEND" /\ k'.stat[v] = "READY" /\ v \in Thread \ T
        /\ k'.error[v] = IF e = "EOK" THEN k.error[v] ELSE e
    BY <1>1, <1>4 DEF DStep, DTurn
  <2>2. pc[v] \in {"block", "woken"} /\ pc'[v] = pc[v] /\ on'[v] = on[v]
    BY <1>1, <2>1 DEF DevWaiting, DStep, Go, Moves
  <2>3. on[v] = q => k.error[v] = "EOK"
    BY <1>0, <1>1, <2>1 DEF DevWaiting
  <2> QED BY <1>2, <1>3, <1>4, <2>1, <2>2, <2>3
<1>5. CASE v \in T
  <2>1. pc'[v] \in {"block", "woken"} => k'.stat[v] = "SUSPEND"
    BY <1>5 DEF DStep, DTurn, Go, Arrive
  <2> QED BY <1>1, <1>2, <1>5, <2>1
<1>6. CASE v \in Thread \ (H \cup T)
  <2>1. /\ k'.error[v] = k.error[v] /\ pc'[v] = pc[v] /\ on'[v] = on[v]
        /\ k'.stat[v] = k.stat[v] \/ (k.stat[v] = "INIT" /\ k'.stat[v] = "READY")
    BY <1>6 DEF DStep, DTurn, Go, Moves
  <2>2. k.stat[v] = "INIT" => pc[v] = "run"
    BY <1>1, <1>6 DEF DevWaiting
  <2> QED BY <1>2, <1>3, <1>6, <2>1, <2>2
<1> QED BY <1>1, <1>2, <1>3, <1>4, <1>5, <1>6

-----------------------------------------------------------------------------
(* The calls into the kernel core as such turns.                           *)

\* c differs from k in priorities and error fields only.
PlacesKept(c) == SamePlaces(c) /\ c.timer = k.timer

\* The kernel is left alone, or priorities, or the error field of t, change.
LEMMA SameTurns ==
    ASSUME DevThreads, NEW T, PlacesKept(k'), \A u \in Thread \ T : k'.error[u] = k.error[u]
    PROVE  DTurn(T, {}, "EOK", {}, {})
BY DEF DTurn, PlacesKept, SamePlaces

\* Nothing changes.
LEMMA StutterTurns ==
    ASSUME DevThreads, NEW T, k' = k
    PROVE  DTurn(T, {}, "EOK", {}, {})
<1>1. PlacesKept(k')
  BY DEF PlacesKept, SamePlaces, DevThreads
<1> QED BY <1>1, SameTurns

\* rt_schedule changes the running thread only, and that to one that is ready.
LEMMA ScheduleTurns ==
    ASSUME DevThreads, NEW T, k' = rt_schedule(k)
    PROVE  DTurn(T, {}, "EOK", {}, {}) /\ k'.lock = k.lock /\ (k.lock # 0 => k'.cur = k.cur)
<1>1. KernelOK(k)
  BY DEF DevThreads
<1>2. /\ KernelOK(k')
      /\ k'.stat = k.stat /\ k'.prio = k.prio /\ k'.error = k.error
      /\ k'.wait = k.wait /\ k'.timer = k.timer /\ k'.lock = k.lock
      /\ k'.cur # k.cur => k.lock = 0
      /\ k.lock = 0 => CurIsHighest(k')
  BY <1>1, ScheduleOK
<1> QED BY <1>2 DEF DTurn, CurIsHighest

\* From k to r, one thread has been resumed and perhaps another one now runs.
LEMMA ResumesTurn ==
    ASSUME DevThreads, NEW T, NEW c, PlacesKept(c), NEW h, NEW f, NEW e,
           Resumes(c, k', h, f), h \notin T,
           k'.cur = c.cur \/ c.lock = 0,
           f[h] = IF e = "EOK" THEN k.error[h] ELSE e,
           \A u \in Thread \ {h} : u \notin T => f[u] = k.error[u]
    PROVE  DTurn(T, {h}, e, {}, {})
<1>1. /\ KernelOK(k') /\ h \in Thread \ {Idle} /\ k.stat[h] = "SUSPEND"
      /\ k'.stat = [k.stat EXCEPT ![h] = "READY"]
      /\ k'.timer = k.timer \ {h} /\ k'.error = f
      /\ \A q \in Queue : ToSet(k'.wait[q]) = ToSet(k.wait[q]) \ {h}
      /\ k'.lock = k.lock /\ c.lock = k.lock /\ c.cur = k.cur
      /\ k'.cur = k.cur \/ k'.stat[k'.cur] = "READY"
  BY DEF PlacesKept, SamePlaces, Resumes, CurIsHighest
<1>2. k.stat \in [Thread -> Stat]
  BY DEF DevThreads, KernelOK, KernelState
<1>3. k'.stat[h] = "READY" /\ \A u : u # h => k'.stat[u] = k.stat[u]
  BY <1>1, <1>2
<1> QED BY <1>1, <1>3 DEF DTurn

\* The first waiter of a list is resumed, by a thread or an interrupt handler.
LEMMA ListResumeTurns ==
    ASSUME DevThreads, NEW T, NEW c, PlacesKept(c), c.error = k.error,
           NEW q \in Queue, k.wait[q] # << >>, Head(k.wait[q]) \notin T,
           \/ k' = rt_ipc_list_resume(c, q)
           \/ k' = rt_schedule(rt_ipc_list_resume(c, q))
    PROVE  /\ DTurn(T, {Head(k.wait[q])}, "EOK", {}, {})
           /\ Head(k.wait[q]) \in ToSet(k.wait[q])
           /\ k'.lock = k.lock /\ (k.lock # 0 => k'.cur = k.cur)
<1> DEFINE h == Head(k.wait[q])
           r == rt_ipc_list_resume(c, q)
<1>1. KernelOK(c) /\ c.wait[q] = k.wait[q] /\ c.cur = k.cur /\ c.lock = k.lock
  BY DEF PlacesKept, SamePlaces
<1>2. Resumes(c, r, h, c.error) /\ h \in ToSet(k.wait[q])
  BY <1>1, ListResumeOK, WaitHead
<1>3. r.cur = c.cur
  <2>1. c.stat[Head(c.wait[q])] = "SUSPEND" /\ Head(c.wait[q]) \in Thread
    BY <1>1, WaitHead
  <2>2. rt_thread_resume(c, Head(c.wait[q])).cur = c.cur
    BY <1>1, <2>1, ResumeOK
  <2> QED BY <2>2 DEF rt_ipc_list_resume
<1>4. k' = r \/ k' = rt_schedule(r)
  OBVIOUS
<1> SUFFICES /\ DTurn(T, {h}, "EOK", {}, {})
             /\ k'.lock = k.lock /\ (k.lock # 0 => k'.cur = k.cur)
  BY <1>2
<1>5. h \notin T
  OBVIOUS
<1> HIDE DEF h, r
<1>6. Resumes(c, k', h, c.error) /\ (k'.cur = c.cur \/ c.lock = 0) /\ k'.lock = k.lock
  <2>1. CASE k' = r
    BY <1>1, <1>2, <1>3, <2>1 DEF Resumes
  <2>2. CASE k' = rt_schedule(r)
    <3>1. KernelOK(r) /\ r.lock = c.lock
      BY <1>2 DEF Resumes
    <3>2. /\ KernelOK(k') /\ k'.stat = r.stat /\ k'.error = r.error /\ k'.wait = r.wait
          /\ k'.lock = r.lock /\ k'.prio = r.prio /\ k'.timer = r.timer
          /\ k'.cur # r.cur => r.lock = 0
          /\ r.lock = 0 => CurIsHighest(k')
      BY <2>2, <3>1, ScheduleOK
    <3> QED BY <1>1, <1>2, <1>3, <3>1, <3>2 DEF Resumes
  <2> QED BY <1>4, <2>1, <2>2
<1>7. DTurn(T, {h}, "EOK", {}, {})
  BY <1>5, <1>6, ResumesTurn
<1> QED BY <1>1, <1>6, <1>7

\* From c to r, u is resumed.
ReadyNow(c, r, u) ==
    /\ KernelOK(r)
    /\ r.stat[u] = "READY" /\ \A v : v # u => r.stat[v] = c.stat[v]
    /\ r.timer = c.timer \ {u}
    /\ \A q \in Queue : ToSet(r.wait[q]) = ToSet(c.wait[q]) \ {u}
    /\ r.error = c.error /\ r.cur = c.cur /\ r.lock = c.lock

\* rt_thread_resume of a suspended thread, by what it returns.
LEMMA ResumeFields ==
    ASSUME NEW c, KernelOK(c), NEW u \in Thread, c.stat[u] = "SUSPEND",
           NEW r, r = rt_thread_resume(c, u)
    PROVE  ReadyNow(c, r, u)
<1>1. LET x == rt_thread_resume(c, u) IN
      /\ KernelOK(x)
      /\ x.stat = [c.stat EXCEPT ![u] = "READY"]
      /\ x.timer = c.timer \ {u}
      /\ \A q \in Queue : ToSet(x.wait[q]) = ToSet(c.wait[q]) \ {u}
      /\ \A q \in Queue : u \notin ToSet(c.wait[q]) => x.wait[q] = c.wait[q]
      /\ \A q \in Queue : SortedBy(c.wait[q], c.prio) => SortedBy(x.wait[q], c.prio)
      /\ x.prio = c.prio /\ x.error = c.error
      /\ x.cur = c.cur /\ x.lock = c.lock
  <2>1. KernelOK(c) /\ u \in Thread /\ c.stat[u] = "SUSPEND"
    OBVIOUS
  <2> QED BY ONLY <2>1, ResumeOK, ZenonT(60)
<1>2. r = rt_thread_resume(c, u)
  OBVIOUS
<1>3. c.stat \in [Thread -> Stat]
  BY DEF KernelOK, KernelState
<1>4. r.stat = [c.stat EXCEPT ![u] = "READY"]
  BY ONLY <1>1, <1>2, Zenon
<1>5. r.stat[u] = "READY" /\ \A v : v # u => r.stat[v] = c.stat[v]
  BY <1>3, <1>4
<1> QED BY ONLY <1>1, <1>2, <1>5, Zenon DEF ReadyNow

\* A thread is resumed, from whatever list it is on, if it is suspended.
LEMMA ResumeTurns ==
    ASSUME DevThreads, NEW T, NEW u \in Thread, u \notin T, k' = rt_thread_resume(k, u)
    PROVE  /\ \/ DTurn(T, {u}, "EOK", {}, {})
              \/ DTurn(T, {}, "EOK", {}, {})
           /\ k'.lock = k.lock /\ k'.cur = k.cur
<1>0. KernelOK(k) /\ Idle \in Thread /\ k.stat[Idle] = "READY" /\ k.stat \in [Thread -> Stat]
  BY ThreadAssumption DEF DevThreads, KernelOK, KernelInv, IdleReady, KernelState
<1>1. CASE k.stat[u] # "SUSPEND"
  BY <1>0, <1>1, StutterTurns DEF rt_thread_resume
<1>2. CASE k.stat[u] = "SUSPEND"
  <2>1. ReadyNow(k, k', u)
    BY <1>0, <1>2, ResumeFields
  <2>3. DTurn(T, {u}, "EOK", {}, {})
    BY <1>2, <2>1 DEF DTurn, ReadyNow
  <2> QED BY <2>1, <2>3 DEF ReadyNow
<1> QED BY <1>1, <1>2

\* A round of a reset.
LEMMA ErrorTurns ==
    ASSUME DevThreads, NEW T, NEW q \in Queue, k.wait[q] # << >>, Head(k.wait[q]) \notin T,
           k' = ResumeWithError(k, q)
    PROVE  /\ DTurn(T, {Head(k.wait[q])}, "ERROR", {}, {})
           /\ Head(k.wait[q]) \in ToSet(k.wait[q])
           /\ k'.lock = k.lock /\ k'.cur = k.cur
<1> DEFINE h == Head(k.wait[q])
           c == [k EXCEPT !.error[h] = "ERROR"]
<1>1. KernelOK(k) /\ PlacesKept(k) /\ k.error \in [Thread -> Error]
  BY DEF DevThreads, PlacesKept, SamePlaces, KernelOK, KernelState
<1>2. /\ h \in Thread \ {Idle} /\ h \in ToSet(k.wait[q]) /\ k.stat[h] = "SUSPEND"
      /\ Resumes(k, k', h, [k.error EXCEPT ![h] = "ERROR"])
  BY <1>1, WaitHead, ResumeWithErrorOK
<1>3. KernelOK(c) /\ c.stat = k.stat /\ c.cur = k.cur /\ c.lock = k.lock
  BY <1>1, <1>2, SetErrorOK DEF Error
<1>4. k' = rt_thread_resume(c, h)
  BY DEF ResumeWithError
<1> SUFFICES DTurn(T, {h}, "ERROR", {}, {}) /\ k'.lock = k.lock /\ k'.cur = k.cur
  BY <1>2
<1>5. h \notin T
  OBVIOUS
<1> HIDE DEF h, c
<1>6. k'.cur = k.cur /\ k'.lock = k.lock
  <2>1. ReadyNow(c, k', h)
    BY <1>2, <1>3, <1>4, ResumeFields
  <2> QED BY <1>3, <2>1 DEF ReadyNow
<1>7. DTurn(T, {h}, "ERROR", {}, {})
  <2> DEFINE f == [k.error EXCEPT ![h] = "ERROR"]
  <2>1. f[h] = "ERROR" /\ \A u \in Thread \ {h} : f[u] = k.error[u]
    BY <1>1, <1>2
  <2>2. Resumes(k, k', h, f)
    BY <1>2
  <2> HIDE DEF f
  <2> QED BY <1>1, <1>5, <1>6, <2>1, <2>2, ResumesTurn
<1> QED BY <1>6, <1>7

\* A thread timer expires.
LEMMA TimeoutTurns ==
    ASSUME DevThreads, NEW t \in Thread, Timeout(t)
    PROVE  /\ DTurn({}, {t}, "ETIMEOUT", {}, {}) /\ t \in k.timer
           /\ k'.lock = k.lock /\ (k.lock # 0 => k'.cur = k.cur)
<1>1. KernelOK(k) /\ PlacesKept(k) /\ k.error \in [Thread -> Error] /\ t \in k.timer
      /\ k' = rt_thread_timeout(k, t)
  BY DEF DevThreads, PlacesKept, SamePlaces, KernelOK, KernelState, Timeout
<1> DEFINE f == [k.error EXCEPT ![t] = "ETIMEOUT"]
           b == rt_schedule_insert_thread(
                   rt_list_remove([k EXCEPT !.timer = @ \ {t}, !.error[t] = "ETIMEOUT"], t), t)
<1>2. Resumes(k, k', t, f)
  BY <1>1, TimeoutOK
<1>3. f[t] = "ETIMEOUT" /\ \A u \in Thread \ {t} : f[u] = k.error[u]
  BY <1>1
<1>4. k'.lock = k.lock
  BY <1>2 DEF Resumes
<1>5. k.lock # 0 => k'.cur = k.cur
  <2>1. k' = rt_schedule(b)
    BY <1>1 DEF rt_thread_timeout
  <2>2. b.lock = k.lock /\ b.cur = k.cur
    BY <1>1 DEF rt_schedule_insert_thread, rt_list_remove, KernelOK, KernelState
  <2> HIDE DEF b
  <2> QED BY <2>1, <2>2 DEF rt_schedule
<1> HIDE DEF f
<1> QED BY <1>1, <1>2, <1>3, <1>4, <1>5, ResumesTurn

\* A thread is started.
LEMMA StartTurns ==
    ASSUME DevThreads, NEW t \in Thread, NEW u \in Thread, Startup(t, u), t # u
    PROVE  DTurn({t}, {}, "EOK", {}, {}) /\ k'.lock = k.lock /\ k'.cur = k.cur
<1>1. KernelOK(k) /\ k.stat[u] = "INIT" /\ k' = StartThread(k, u) /\ k.stat \in [Thread -> Stat]
  BY DEF DevThreads, Startup, KernelOK, KernelState
<1>2. StartsUp(k, k', u)
  BY <1>1, StartThreadOK
<1>3. k'.stat[u] = "READY" /\ \A v : v # u => k'.stat[v] = k.stat[v]
  BY <1>1, <1>2 DEF StartsUp
<1> QED BY <1>1, <1>2, <1>3 DEF StartsUp, DTurn

\* s is k with the running thread t suspended, on the list q or on none.
Joined(s, t, q) ==
    /\ KernelOK(s)
    /\ s.stat = [k.stat EXCEPT ![t] = "SUSPEND"]
    /\ s.timer = k.timer \ {t}
    /\ \A o \in Queue : ToSet(s.wait[o]) = ToSet(k.wait[o]) \cup (IF o = q THEN {t} ELSE {})
    /\ \A u \in Thread \ {t} : s.error[u] = k.error[u]
    /\ q \in {dq_pop, dq_push} => s.error[t] = "EOK"
    /\ s.cur = k.cur /\ s.lock = k.lock

\* A thread suspends itself, without and with its timer.
LEMMA JoinedTurns ==
    ASSUME DevThreads, NEW t \in Thread, NEW q, NEW s, Joined(s, t, q)
    PROVE  /\ k' = s => DTurn({t}, {}, "EOK", {q}, {})
           /\ k' = StartThreadTimer(s, t) => DTurn({t}, {}, "EOK", {q}, {t})
           /\ k' = s \/ k' = StartThreadTimer(s, t) => k'.lock = k.lock /\ k'.cur = k.cur
<1>1. k.stat \in [Thread -> Stat]
  BY DEF DevThreads, KernelOK, KernelState
<1>2. s.stat[t] = "SUSPEND" /\ \A u \in Thread \ {t} : s.stat[u] = k.stat[u]
  BY <1>1 DEF Joined
<1>3. ASSUME NEW A \in SUBSET {t}, KernelOK(k'), k'.stat = s.stat, k'.error = s.error,
             k'.wait = s.wait, k'.timer = s.timer \cup A, k'.cur = s.cur
      PROVE  DTurn({t}, {}, "EOK", {q}, A)
  <2>1. \A u \in {t} : /\ k'.stat[u] = IF {q} = {} THEN k.stat[u] ELSE "SUSPEND"
                       /\ {q} \cap {dq_pop, dq_push} # {} => k'.error[u] = "EOK"
    BY <1>2, <1>3 DEF Joined
  <2>2. \A u \in Thread \ ({} \cup {t}) : k'.error[u] = k.error[u] /\ k'.stat[u] = k.stat[u]
    BY <1>2, <1>3 DEF Joined
  <2>3. \A o \in Queue :
           ToSet(k'.wait[o]) = (ToSet(k.wait[o]) \ {}) \cup (IF o \in {q} THEN {t} ELSE {})
    BY <1>3 DEF Joined
  <2>4. /\ k'.timer \subseteq k.timer \cup A
        /\ \A u \in {t} : u \in k'.timer => u \in A
    BY <1>3 DEF Joined
  <2> QED BY <1>3, <2>1, <2>2, <2>3, <2>4 DEF DTurn, Joined
<1>4. ASSUME k' = s PROVE DTurn({t}, {}, "EOK", {q}, {}) /\ k'.lock = k.lock /\ k'.cur = k.cur
  <2>1. KernelOK(k') /\ k'.timer = s.timer \cup {}
    BY <1>4 DEF Joined
  <2> QED BY <1>3, <1>4, <2>1 DEF Joined
<1>5. ASSUME k' = StartThreadTimer(s, t)
      PROVE  DTurn({t}, {}, "EOK", {q}, {t}) /\ k'.lock = k.lock /\ k'.cur = k.cur
  <2>1. KernelOK(s) /\ s.stat[t] = "SUSPEND"
    BY <1>2 DEF Joined
  <2>2. /\ KernelOK(k') /\ k'.timer = s.timer \cup {t} /\ k'.error = s.error
        /\ k'.stat = s.stat /\ k'.wait = s.wait /\ k'.cur = s.cur /\ k'.lock = s.lock
    BY <1>5, <2>1, StartTimerOK
  <2> QED BY <1>3, <2>2 DEF Joined
<1> QED BY <1>4, <1>5

\* rt_thread_suspend on the running thread.
LEMMA SuspendJoins ==
    ASSUME NEW c, PlacesKept(c), NEW t \in Thread \ {Idle}, k.stat[t] = "READY",
           \A u \in Thread \ {t} : c.error[u] = k.error[u]
    PROVE  Joined(rt_thread_suspend(c, t), t, None)
<1> DEFINE s == rt_thread_suspend(c, t)
<1>1. /\ KernelOK(c) /\ c.stat = k.stat /\ c.wait = k.wait /\ c.cur = k.cur /\ c.lock = k.lock
      /\ c.timer = k.timer
  BY DEF PlacesKept, SamePlaces
<1>2. /\ KernelOK(s)
      /\ s.stat = [c.stat EXCEPT ![t] = "SUSPEND"]
      /\ s.timer = c.timer \ {t}
      /\ s.wait = c.wait /\ s.error = c.error
      /\ s.cur = c.cur /\ s.lock = c.lock
  BY <1>1, SuspendOK
<1>3. None \notin Queue /\ None \notin {dq_pop, dq_push}
  BY ListsAssumption
<1> HIDE DEF s
<1>4. Joined(s, t, None)
  BY <1>1, <1>2, <1>3 DEF Joined
<1> QED BY <1>4 DEF s

\* rt_ipc_list_suspend on the running thread.
LEMMA ListSuspendJoins ==
    ASSUME NEW c, PlacesKept(c), NEW t \in Thread \ {Idle}, k.stat[t] = "READY",
           \A u \in Thread \ {t} : c.error[u] = k.error[u], NEW q \in Queue,
           q \notin {dq_pop, dq_push}, NEW flag
    PROVE  Joined(rt_ipc_list_suspend(c, q, t, flag), t, q)
<1> DEFINE s == rt_ipc_list_suspend(c, q, t, flag)
<1>1. /\ KernelOK(c) /\ c.stat = k.stat /\ c.wait = k.wait /\ c.cur = k.cur /\ c.lock = k.lock
      /\ c.timer = k.timer
  BY DEF PlacesKept, SamePlaces
<1>2. /\ KernelOK(s)
      /\ s.stat = [c.stat EXCEPT ![t] = "SUSPEND"]
      /\ s.timer = c.timer \ {t}
      /\ ToSet(s.wait[q]) = ToSet(c.wait[q]) \cup {t}
      /\ \A o \in Queue \ {q} : s.wait[o] = c.wait[o]
      /\ s.error = c.error /\ s.cur = c.cur /\ s.lock = c.lock
  <2>1. LET r == rt_ipc_list_suspend(c, q, t, flag) IN
        /\ KernelOK(r)
        /\ r.stat = [c.stat EXCEPT ![t] = "SUSPEND"]
        /\ r.timer = c.timer \ {t}
        /\ ToSet(r.wait[q]) = ToSet(c.wait[q]) \cup {t}
        /\ \A o \in Queue \ {q} : r.wait[o] = c.wait[o]
        /\ flag = "PRIO" /\ SortedBy(c.wait[q], c.prio) => SortedBy(r.wait[q], c.prio)
        /\ r.prio = c.prio /\ r.error = c.error
        /\ r.cur = c.cur /\ r.lock = c.lock
    <3>1. KernelOK(c) /\ t \in Thread \ {Idle} /\ c.stat[t] = "READY" /\ q \in Queue
      BY <1>1
    <3> HIDE DEF s
    <3> QED BY ONLY <3>1, ListSuspendOK, SMTT(60)
  <2> QED BY <2>1
<1> HIDE DEF s
<1>3. \A o \in Queue : ToSet(s.wait[o]) = ToSet(k.wait[o]) \cup (IF o = q THEN {t} ELSE {})
  BY <1>1, <1>2
<1>4. Joined(s, t, q)
  BY <1>1, <1>2, <1>3 DEF Joined
<1> QED BY <1>4 DEF s

\* The running thread puts itself at the end of a list.
LEMMA TailJoins ==
    ASSUME NEW c, PlacesKept(c), NEW t \in Thread \ {Idle}, k.stat[t] = "READY",
           \A u \in Thread \ {t} : c.error[u] = k.error[u], c.error[t] = "EOK", NEW q \in Queue,
           NEW s, s = rt_thread_suspend(c, t),
           NEW w, w = [s EXCEPT !.wait[q] = Append(@, t)]
    PROVE  Joined(w, t, q)
<1>1. /\ KernelOK(c) /\ c.stat = k.stat /\ c.wait = k.wait /\ c.cur = k.cur /\ c.lock = k.lock
      /\ c.timer = k.timer /\ c.stat[t] = "READY"
  BY DEF PlacesKept, SamePlaces
<1>2. /\ KernelOK(s)
      /\ s.stat = [c.stat EXCEPT ![t] = "SUSPEND"]
      /\ s.timer = c.timer \ {t}
      /\ s.wait = c.wait /\ s.error = c.error /\ s.cur = c.cur /\ s.lock = c.lock
      /\ \A o \in Queue : t \notin ToSet(s.wait[o])
  BY <1>1, SuspendOK
<1>3. /\ s.wait[q] \in Seq(Thread) /\ IsInjective(s.wait[q]) /\ s.stat[t] = "SUSPEND"
  BY <1>1, <1>2 DEF KernelOK, KernelState, KernelInv, NoDuplicates
<1> DEFINE l == Append(s.wait[q], t)
<1>4. l \in Seq(Thread) /\ IsInjective(l) /\ ToSet(l) = ToSet(s.wait[q]) \cup {t}
  <2>1. t \in Thread /\ t \notin ToSet(s.wait[q])
    BY <1>2
  <2> DEFINE z == s.wait[q]
  <2>2. z \in Seq(Thread) /\ IsInjective(z) /\ t \notin ToSet(z)
    BY <1>3, <2>1
  <2> HIDE DEF z
  <2>3. /\ Append(z, t) \in Seq(Thread) /\ IsInjective(Append(z, t))
        /\ ToSet(Append(z, t)) = ToSet(z) \cup {t}
    BY ONLY <2>1, <2>2, ListAppend
  <2> QED BY <2>3 DEF z
<1>5. w = [s EXCEPT !.wait[q] = l]
  OBVIOUS
<1> HIDE DEF l
<1>6. /\ KernelOK(w)
      /\ w.wait[q] = l /\ \A o \in Queue \ {q} : w.wait[o] = s.wait[o]
      /\ w.stat = s.stat /\ w.error = s.error /\ w.cur = s.cur /\ w.lock = s.lock
      /\ w.timer = s.timer
  <2>1. LET r == [s EXCEPT !.wait[q] = l] IN
        /\ KernelOK(r)
        /\ r.wait[q] = l /\ \A o \in Queue \ {q} : r.wait[o] = s.wait[o]
        /\ r.stat = s.stat /\ r.prio = s.prio /\ r.error = s.error /\ r.timer = s.timer
        /\ r.cur = s.cur /\ r.lock = s.lock
    <3>1. /\ KernelOK(s) /\ t \in Thread /\ s.stat[t] = "SUSPEND" /\ q \in Queue
          /\ \A o \in Queue : t \notin ToSet(s.wait[o])
      BY <1>2, <1>3
    <3> QED BY ONLY <3>1, <1>4, JoinListOK
  <2> QED BY <1>5, <2>1
<1>7. \A o \in Queue : ToSet(w.wait[o]) = ToSet(k.wait[o]) \cup (IF o = q THEN {t} ELSE {})
  <2> SUFFICES ASSUME NEW o \in Queue
               PROVE  ToSet(w.wait[o]) = ToSet(k.wait[o]) \cup (IF o = q THEN {t} ELSE {})
    OBVIOUS
  <2>1. s.wait = k.wait
    BY ONLY <1>1, <1>2
  <2>2. CASE o = q
    <3>1. ToSet(w.wait[q]) = ToSet(k.wait[q]) \cup {t}
      BY ONLY <1>4, <1>6, <2>1
    <3> QED BY ONLY <2>2, <3>1
  <2>3. CASE o # q
    <3>1. w.wait[o] = k.wait[o]
      BY ONLY <1>6, <2>1, <2>3, o \in Queue
    <3> QED BY ONLY <2>3, <3>1
  <2> QED BY <2>2, <2>3
<1>8. \A u \in Thread \ {t} : c.error[u] = k.error[u]
  OBVIOUS
<1>9. c.error[t] = "EOK"
  OBVIOUS
<1> QED BY ONLY <1>1, <1>2, <1>6, <1>7, <1>8, <1>9 DEF Joined

\* The error field of t is set.
ErrorSet(t, e) == [k EXCEPT !.error[t] = e]

\* The running thread clears its error field.
LEMMA ClearedError ==
    ASSUME DevThreads, NEW t \in Thread, NEW e \in Error, NEW c, c = ErrorSet(t, e)
    PROVE  /\ PlacesKept(c) /\ c.error[t] = e
           /\ \A u \in Thread \ {t} : c.error[u] = k.error[u]
<1>1. KernelOK(k) /\ k.error \in [Thread -> Error]
  BY DEF DevThreads, KernelOK, KernelState
<1>2. /\ KernelOK(c)
      /\ c.error = [k.error EXCEPT ![t] = e]
      /\ c.stat = k.stat /\ c.wait = k.wait
      /\ c.timer = k.timer /\ c.cur = k.cur /\ c.lock = k.lock
  BY <1>1, SetErrorOK DEF ErrorSet
<1> QED BY <1>1, <1>2 DEF PlacesKept, SamePlaces

\* A call waits on a list in the order of arrival, or as its flag says.
LEMMA WaitTurns ==
    ASSUME DevThreads, NEW t \in Thread \ {Idle}, k.stat[t] = "READY", NEW q \in Queue, NEW time,
           \/ k' = SuspendAtTail(k, q, t, time)
           \/ k' = SuspendOn(k, q, t, time) /\ q \notin {dq_pop, dq_push}
    PROVE  /\ \E A : DTurn({t}, {}, "EOK", {q}, A)
           /\ k'.lock = k.lock /\ k'.cur = k.cur
<1> DEFINE c == [k EXCEPT !.error[t] = "EOK"]
<1>1. /\ PlacesKept(c) /\ c.error[t] = "EOK"
      /\ \A u \in Thread \ {t} : c.error[u] = k.error[u]
  <2>1. "EOK" \in Error
    BY DEF Error
  <2>2. c = ErrorSet(t, "EOK")
    BY DEF ErrorSet
  <2> HIDE DEF c
  <2> QED BY <2>1, <2>2, ClearedError
<1> DEFINE a == [rt_thread_suspend(c, t) EXCEPT !.wait[q] = Append(@, t)]
           b == rt_ipc_list_suspend(c, q, t, ipc_flag[q])
<1>2. k' = SuspendAtTail(k, q, t, time) => k' = ArmTimer(a, t, time)
  BY DEF SuspendAtTail
<1>3. k' = SuspendOn(k, q, t, time) => k' = ArmTimer(b, t, time)
  BY DEF SuspendOn
<1> HIDE DEF c
<1>4. Joined(a, t, q)
  BY <1>1, TailJoins
<1>5. q \notin {dq_pop, dq_push} => Joined(b, t, q)
  BY <1>1, ListSuspendJoins
<1> HIDE DEF a, b
<1>6. \E s : Joined(s, t, q) /\ (k' = s \/ k' = StartThreadTimer(s, t))
  BY <1>2, <1>3, <1>4, <1>5 DEF ArmTimer
<1> QED BY <1>6, JoinedTurns

-----------------------------------------------------------------------------
(* _workqueue_work_completion: everyone on the list is resumed.            *)

AckAll(c, q) ==
    LET after[n \in 0 .. Len(c.wait[q])] ==
            IF n = 0 THEN c ELSE rt_ipc_list_resume(after[n - 1], q)
    IN  after[Len(c.wait[q])]

\* The states after the rounds.
LEMMA AckRounds ==
    ASSUME NEW c, NEW q, NEW N \in Nat, N = Len(c.wait[q])
    PROVE  \E g : /\ g[0] = c
                  /\ \A n \in 1 .. N : g[n] = rt_ipc_list_resume(g[n - 1], q)
                  /\ AckAll(c, q) = g[N]
<1> DEFINE Good(n, g) == g = [i \in 0 .. n |-> IF i = 0 THEN c ELSE rt_ipc_list_resume(g[i - 1], q)]
           S == {n \in 0 .. N : \E g : Good(n, g)}
<1>1. 0 \in S
  <2> DEFINE g == [i \in 0 .. 0 |-> c]
  <2>1. \A i \in 0 .. 0 : c = IF i = 0 THEN c ELSE rt_ipc_list_resume(g[i - 1], q)
    OBVIOUS
  <2>2. Good(0, g)
    BY <2>1, Zenon
  <2>3. 0 \in 0 .. N
    OBVIOUS
  <2> HIDE DEF g, Good
  <2> QED BY <2>2, <2>3
<1>2. ASSUME NEW n \in 0 .. N - 1, n \in S PROVE n + 1 \in S
  <2>1. PICK g : Good(n, g)
    BY <1>2
  <2> DEFINE h == [i \in 0 .. n + 1 |-> IF i <= n THEN g[i] ELSE rt_ipc_list_resume(g[n], q)]
  <2>2. \A i \in 0 .. n + 1 : h[i] = IF i = 0 THEN c ELSE rt_ipc_list_resume(h[i - 1], q)
    <3> SUFFICES ASSUME NEW i \in 0 .. n + 1
                 PROVE  h[i] = IF i = 0 THEN c ELSE rt_ipc_list_resume(h[i - 1], q)
      OBVIOUS
    <3>1. CASE i = 0
      BY <2>1, <3>1
    <3>2. CASE i \in 1 .. n
      <4>1. h[i] = g[i] /\ h[i - 1] = g[i - 1]
        BY <3>2
      <4>2. g[i] = rt_ipc_list_resume(g[i - 1], q)
        BY <2>1, <3>2
      <4> QED BY <3>2, <4>1, <4>2
    <3>3. CASE i = n + 1
      BY <3>3
    <3> QED BY <3>1, <3>2, <3>3
  <2>3. Good(n + 1, h)
    <3> DEFINE f == [i \in 0 .. n + 1 |-> IF i = 0 THEN c ELSE rt_ipc_list_resume(h[i - 1], q)]
    <3>1. DOMAIN h = 0 .. n + 1 /\ h = [i \in 0 .. n + 1 |-> h[i]]
      BY Zenon
    <3>2. h = f
      <4> HIDE DEF h
      <4> QED BY <2>2, <3>1, Zenon
    <3> QED BY <3>2, Zenon
  <2>4. n + 1 \in 0 .. N
    OBVIOUS
  <2> HIDE DEF h, Good
  <2> QED BY <2>3, <2>4
<1>3. N \in S
  <2> HIDE DEF S
  <2>1. \A n \in 0 .. N : n \in S
    BY <1>1, <1>2, UpTo
  <2> QED BY <2>1
<1>4. \E g : Good(N, g)
  BY <1>3
<1>5. AckAll(c, q) = (CHOOSE g : Good(N, g))[N]
  BY DEF AckAll
<1>6. PICK g : Good(N, g) /\ AckAll(c, q) = g[N]
  BY <1>4, <1>5
<1>7. g[0] = c /\ \A n \in 1 .. N : g[n] = rt_ipc_list_resume(g[n - 1], q)
  BY <1>6
<1> QED BY <1>6, <1>7

\* One round: the first of the list becomes ready and the rest move up.
LEMMA AckRound ==
    ASSUME NEW c, KernelOK(c), NEW q \in Queue, c.wait[q] # << >>
    PROVE  LET r == rt_ipc_list_resume(c, q)
               h == Head(c.wait[q]) IN
           /\ KernelOK(r) /\ h \in Thread /\ h \in ToSet(c.wait[q])
           /\ r.stat = [c.stat EXCEPT ![h] = "READY"]
           /\ r.error = c.error
           /\ r.timer = c.timer \ {h} /\ r.lock = c.lock /\ r.cur = c.cur
           /\ \A o \in Queue : ToSet(r.wait[o]) = ToSet(c.wait[o]) \ {h}
           /\ Len(r.wait[q]) = Len(c.wait[q]) - 1
<1> DEFINE h == Head(c.wait[q])
           r == rt_thread_resume(c, h)
<1>1. Resumes(c, rt_ipc_list_resume(c, q), h, c.error)
  BY ListResumeOK
<1>2. /\ h \in Thread \ {Idle} /\ c.stat[h] = "SUSPEND" /\ h \in ToSet(c.wait[q])
  BY WaitHead
<1>3. rt_ipc_list_resume(c, q) = r
  BY DEF rt_ipc_list_resume
<1>4. c.wait[q] \in Seq(Thread) /\ IsInjective(c.wait[q]) /\ c \in KernelState
  BY DEF KernelOK, KernelState, KernelInv, NoDuplicates
<1>5. RemoveFirst(c.wait[q], h) = RemoveAt(c.wait[q], 1) /\ 1 \in 1 .. Len(c.wait[q])
  <2>1. 1 \in 1 .. Len(c.wait[q]) /\ c.wait[q][1] = h
    BY <1>4
  <2> QED BY <1>4, <2>1, ListRemove
<1>6. Len(RemoveFirst(c.wait[q], h)) = Len(c.wait[q]) - 1
  BY <1>4, <1>5, ListRemoveAt
<1> HIDE DEF h
<1>7. r.wait[q] = RemoveFirst(c.wait[q], h) /\ r.cur = c.cur
  <2>1. r = ResumeNow(c, h)
    BY <1>2 DEF rt_thread_resume
  <2> DEFINE l == [rt_list_remove(c, h) EXCEPT !.timer = @ \ {h}]
  <2>2. l.wait = [o \in Queue |-> RemoveFirst(c.wait[o], h)] /\ l.cur = c.cur
    BY <1>4 DEF rt_list_remove, KernelState
  <2>3. r = rt_schedule_insert_thread(l, h)
    BY <2>1 DEF ResumeNow
  <2> HIDE DEF l, r
  <2>4. r.wait = l.wait /\ r.cur = l.cur
    BY <2>3 DEF rt_schedule_insert_thread
  <2> QED BY <2>2, <2>4
<1> QED BY <1>1, <1>2, <1>3, <1>6, <1>7 DEF Resumes, h

\* The kernel state d after some rounds on the list q of c: those no longer on
\* the list are ready.
AckSoFar(c, d, q) ==
    LET H == ToSet(c.wait[q]) \ ToSet(d.wait[q])
    IN  /\ KernelOK(d) /\ d.lock = c.lock /\ d.cur = c.cur /\ d.timer \subseteq c.timer
        /\ \A u \in H : u \in Thread /\ d.stat[u] = "READY"
        /\ d.error = c.error /\ \A u \in Thread \ H : d.stat[u] = c.stat[u]
        /\ \A o \in Queue : ToSet(d.wait[o]) = ToSet(c.wait[o]) \ H

\* One more round.
LEMMA AckOneMore ==
    ASSUME NEW c, NEW d, NEW q \in Queue, AckSoFar(c, d, q), d.wait[q] # << >>
    PROVE  AckSoFar(c, rt_ipc_list_resume(d, q), q)
<1> DEFINE H == ToSet(c.wait[q]) \ ToSet(d.wait[q])
           h == Head(d.wait[q])
           r == rt_ipc_list_resume(d, q)
           G == ToSet(c.wait[q]) \ ToSet(r.wait[q])
<1>1. /\ KernelOK(d) /\ d.lock = c.lock /\ d.cur = c.cur /\ d.timer \subseteq c.timer
      /\ \A u \in H : u \in Thread /\ d.stat[u] = "READY"
      /\ d.error = c.error /\ \A u \in Thread \ H : d.stat[u] = c.stat[u]
      /\ \A o \in Queue : ToSet(d.wait[o]) = ToSet(c.wait[o]) \ H
  BY DEF AckSoFar
<1>2. /\ KernelOK(r) /\ h \in Thread /\ h \in ToSet(d.wait[q])
      /\ r.stat = [d.stat EXCEPT ![h] = "READY"]
      /\ r.error = d.error
      /\ r.timer = d.timer \ {h} /\ r.lock = d.lock /\ r.cur = d.cur
      /\ \A o \in Queue : ToSet(r.wait[o]) = ToSet(d.wait[o]) \ {h}
  <2>1. KernelOK(d) /\ q \in Queue /\ d.wait[q] # << >>
    BY <1>1
  <2>2. LET x == rt_ipc_list_resume(d, q)
            y == Head(d.wait[q]) IN
        /\ KernelOK(x) /\ y \in Thread /\ y \in ToSet(d.wait[q])
        /\ x.stat = [d.stat EXCEPT ![y] = "READY"]
        /\ x.error = d.error
        /\ x.timer = d.timer \ {y} /\ x.lock = d.lock /\ x.cur = d.cur
        /\ \A o \in Queue : ToSet(x.wait[o]) = ToSet(d.wait[o]) \ {y}
        /\ Len(x.wait[q]) = Len(d.wait[q]) - 1
    <3> HIDE DEF H, h, r, G
    <3> QED BY ONLY <2>1, AckRound, ZenonT(60)
  <2> QED BY <2>2, Zenon
<1>3. d.stat \in [Thread -> Stat]
  BY <1>1 DEF KernelOK, KernelState
<1> HIDE DEF r, h
<1>4. /\ r.stat[h] = "READY"
      /\ \A u \in Thread \ {h} : r.stat[u] = d.stat[u]
  BY <1>2, <1>3
<1>5. G = H \cup {h}
  BY <1>1, <1>2
<1> HIDE DEF H
<1>6. \A u \in G : u \in Thread /\ r.stat[u] = "READY"
  BY <1>1, <1>2, <1>4, <1>5
<1>7. r.error = c.error /\ \A u \in Thread \ G : r.stat[u] = c.stat[u]
  BY <1>1, <1>2, <1>4, <1>5
<1>8. \A o \in Queue : ToSet(r.wait[o]) = ToSet(c.wait[o]) \ G
  BY <1>1, <1>2, <1>5, SMTT(60)
<1> QED BY <1>1, <1>2, <1>6, <1>7, <1>8 DEF AckSoFar, r

\* The loop wakes everyone on the list and nobody else.
LEMMA AckedAll ==
    ASSUME NEW c, KernelOK(c), NEW q \in Queue
    PROVE  /\ AckSoFar(c, AckAll(c, q), q)
           /\ AckAll(c, q).wait[q] = << >>
<1> DEFINE N == Len(c.wait[q])
<1>1. c.wait[q] \in Seq(Thread) /\ N \in Nat
  BY DEF KernelOK, KernelState
<1>2. PICK g : /\ g[0] = c
               /\ \A n \in 1 .. N : g[n] = rt_ipc_list_resume(g[n - 1], q)
               /\ AckAll(c, q) = g[N]
  BY <1>1, AckRounds
<1> DEFINE S == {n \in 0 .. N : AckSoFar(c, g[n], q) /\ Len(g[n].wait[q]) = N - n}
<1>3. 0 \in S
  <2>1. AckSoFar(c, c, q)
    BY DEF AckSoFar
  <2> QED BY <1>1, <1>2, <2>1
<1>4. ASSUME NEW n \in 0 .. N - 1, n \in S PROVE n + 1 \in S
  <2>1. AckSoFar(c, g[n], q) /\ Len(g[n].wait[q]) = N - n
    BY <1>4
  <2>2. KernelOK(g[n]) /\ g[n].wait[q] \in Seq(Thread) /\ g[n].wait[q] # << >>
    <3>1. KernelOK(g[n])
      BY <2>1 DEF AckSoFar
    <3>2. g[n].wait[q] \in Seq(Thread)
      BY <3>1 DEF KernelOK, KernelState
    <3> QED BY <1>1, <2>1, <3>1, <3>2
  <2>3. AckSoFar(c, rt_ipc_list_resume(g[n], q), q)
    BY <2>1, <2>2, AckOneMore
  <2>4. Len(rt_ipc_list_resume(g[n], q).wait[q]) = Len(g[n].wait[q]) - 1
    BY <2>2, AckRound, ZenonT(60)
  <2>5. g[n + 1] = rt_ipc_list_resume(g[n], q)
    <3>1. n + 1 \in 1 .. N /\ (n + 1) - 1 = n
      BY <1>1
    <3> QED BY <1>2, <3>1
  <2>6. n + 1 \in 0 .. N /\ N - n - 1 = N - (n + 1)
    BY <1>1
  <2> QED BY <2>1, <2>3, <2>4, <2>5, <2>6
<1>5. N \in S
  <2> HIDE DEF S
  <2>1. \A n \in 0 .. N : n \in S
    BY <1>1, <1>3, <1>4, UpTo
  <2> QED BY <1>1, <2>1
<1>6. AckSoFar(c, g[N], q) /\ Len(g[N].wait[q]) = 0
  BY <1>1, <1>5
<1>7. g[N].wait[q] \in Seq(Thread)
  BY <1>6 DEF AckSoFar, KernelOK, KernelState
<1>8. g[N].wait[q] = << >>
  BY <1>6, <1>7
<1> QED BY <1>2, <1>6, <1>8

\* Everyone on a list is resumed, then rt_schedule called.
LEMMA AckTurns ==
    ASSUME DevThreads, NEW T \in SUBSET Thread, NEW q \in Queue, ToSet(k.wait[q]) \cap T = {},
           k' = rt_schedule(AckAll(k, q))
    PROVE  /\ DTurn(T, ToSet(k.wait[q]), "EOK", {}, {})
           /\ k'.lock = k.lock /\ (k.lock # 0 => k'.cur = k.cur)
<1> DEFINE d == AckAll(k, q)
           H == ToSet(k.wait[q])
<1>1. KernelOK(k) /\ k.wait[q] \in Seq(Thread)
  BY DEF DevThreads, KernelOK, KernelState
<1>2. AckSoFar(k, d, q) /\ d.wait[q] = << >>
  BY <1>1, AckedAll
<1>3. H \ ToSet(d.wait[q]) = H
  BY <1>2 DEF ToSet
<1>4. /\ KernelOK(d) /\ d.lock = k.lock /\ d.cur = k.cur /\ d.timer \subseteq k.timer
      /\ \A u \in H : u \in Thread /\ d.stat[u] = "READY"
      /\ d.error = k.error /\ \A u \in Thread \ H : d.stat[u] = k.stat[u]
      /\ \A o \in Queue : ToSet(d.wait[o]) = ToSet(k.wait[o]) \ H
  BY <1>2, <1>3 DEF AckSoFar
<1>5. k' = rt_schedule(d)
  OBVIOUS
<1> HIDE DEF d
<1>6. /\ KernelOK(k')
      /\ k'.stat = d.stat /\ k'.error = d.error
      /\ k'.wait = d.wait /\ k'.timer = d.timer /\ k'.lock = d.lock
      /\ k'.cur # d.cur => d.lock = 0
      /\ d.lock = 0 => CurIsHighest(k')
  BY <1>4, <1>5, ScheduleOK
<1>7. \A u \in H : k.stat[u] = "SUSPEND"
  BY <1>1 DEF KernelOK, KernelInv, WaitersSuspended
<1>8. H \cap T = {}
  OBVIOUS
<1> SUFFICES DTurn(T, H, "EOK", {}, {}) /\ k'.lock = k.lock /\ (k.lock # 0 => k'.cur = k.cur)
  OBVIOUS
<1> HIDE DEF H
<1>9. /\ \A u \in H : k'.stat[u] = "READY" /\ k'.error[u] = k.error[u] /\ u \in Thread
      /\ \A u \in Thread \ (H \cup T) : k'.error[u] = k.error[u] /\ k'.stat[u] = k.stat[u]
      /\ \A u \in T : k'.stat[u] = k.stat[u]
  BY <1>4, <1>6, <1>8
<1> QED BY <1>4, <1>6, <1>7, <1>8, <1>9 DEF DTurn, CurIsHighest

-----------------------------------------------------------------------------
(* Steps of a thread and of an interrupt handler.                          *)

\* Thread t executes, and is neither inside rt_schedule nor in a reset.
Executing(t) == t \in Thread \ {Idle} /\ k.cur = t /\ pc[t] \notin Resetting \cup {"block"}

\* on may change for thread t.
OnMoves(t) ==
    /\ on' \in [Thread -> Queue \cup {None}]
    /\ \A u \in Thread \ {t} : on'[u] = on[u]

\* The lock is free while such a thread executes.
LEMMA ExecutingFacts ==
    ASSUME DevThreads, NEW t, Executing(t)
    PROVE  k.lock = 0 /\ k.stat[t] = "READY" /\ t \in Thread \ {Idle} /\ Run({t})
BY DEF DevThreads, Executing, LockOK, CurRunnable, Run

\* on is left alone or is set for t.
LEMMA OnMovesHere ==
    ASSUME DevThreads, NEW t \in Thread,
           on' = on \/ \E q \in Queue \cup {None} : on' = [on EXCEPT ![t] = q]
    PROVE  OnMoves(t)
BY DEF DevThreads, OnMoves

\* The thread goes on, with no suspension.
LEMMA GoesOn ==
    ASSUME DevThreads, NEW t, Executing(t), NEW H, NEW e, DTurn({t}, H, e, {}, {}),
           k'.lock = k.lock, NEW c \in Pcs \ (Resetting \cup {"block", "woken"}),
           pc' = [pc EXCEPT ![t] = c], OnMoves(t)
    PROVE  DStep({t}, H, e, {}, {})
<1>1. k.lock = 0 /\ t \in Thread /\ Run({t})
  BY ExecutingFacts
<1>2. pc' \in [Thread -> Pcs] /\ pc'[t] = c /\ \A u \in Thread \ {t} : pc'[u] = pc[u]
  BY <1>1 DEF DevThreads
<1>3. Go({t}, {})
  BY <1>1, <1>2 DEF Go, Moves, Arrive, OnMoves
<1> QED BY <1>1, <1>3 DEF DStep, LockOK

\* The thread goes to sleep on a list, or on none.
LEMMA GoesToSleep ==
    ASSUME DevThreads, NEW t, Executing(t), NEW q \in Queue \cup {None}, NEW A,
           DTurn({t}, {}, "EOK", {q}, A), k'.lock = k.lock,
           Goto(t, "block"), on' = [on EXCEPT ![t] = q]
    PROVE  DStep({t}, {}, "EOK", {q}, A)
<1>1. k.lock = 0 /\ t \in Thread /\ Run({t})
  BY ExecutingFacts
<1>2. pc' \in [Thread -> Pcs] /\ pc'[t] = "block" /\ \A u \in Thread \ {t} : pc'[u] = pc[u]
  BY <1>1 DEF DevThreads, Goto, Pcs
<1>3. /\ on' \in [Thread -> Queue \cup {None}] /\ on'[t] = q
      /\ \A u \in Thread \ {t} : on'[u] = on[u]
  BY <1>1 DEF DevThreads
<1>4. Go({t}, {q})
  BY <1>1, <1>2, <1>3 DEF Go, Moves, Arrive, Resetting
<1> QED BY <1>1, <1>4 DEF DStep, LockOK

\* No thread moves.
LEMMA NobodyMoves ==
    ASSUME DevThreads, NEW H, NEW e, DTurn({}, H, e, {}, {}), pc' = pc, on' = on,
           k'.lock = k.lock, k.lock # 0 => k'.cur = k.cur
    PROVE  DStep({}, H, e, {}, {})
<1>1. Run({})
  BY DEF Run
<1>2. Go({}, {})
  BY DEF Go, Moves, Arrive, DevThreads
<1>3. LockOK'
  BY DEF DevThreads, LockOK
<1> QED BY <1>1, <1>2, <1>3 DEF DStep

-----------------------------------------------------------------------------
(* The completion.                                                         *)

\* One thread at most waits, and nobody does once the flag is set.
CmpInv ==
    /\ completed \in BOOLEAN
    /\ ToSet(k.wait[completion]) \subseteq {Waiter}
    /\ ToSet(k.wait[completion]) # {} => ~completed

\* Steps on other objects.
LEMMA CmpKept ==
    ASSUME CmpInv, NEW T, NEW H, NEW e, NEW J, NEW A, DStep(T, H, e, J, A),
           completed' = completed, completion \notin J
    PROVE  CmpInv'
<1>1. completion \in Queue
  BY ListsAssumption
<1>2. ToSet(k'.wait[completion]) \subseteq ToSet(k.wait[completion])
  BY <1>1 DEF DStep, DTurn
<1> QED BY <1>2 DEF CmpInv

-----------------------------------------------------------------------------
(* The data queue.                                                         *)

\* Of n things to have, each is for one who has been resumed from q.
Covered(q, n) == ToSet(k.wait[q]) # {} => n <= Cardinality(Out(q, "EOK"))

\* The same after a step.
CoveredNext(q, n) == ToSet(k'.wait[q]) # {} => n <= Cardinality(Out(q, "EOK")')

DqWake ==
    /\ Covered(dq_pop, put_index - get_index)
    /\ Covered(dq_push, WakeLevel - (put_index - get_index))

\* Threads on their way out of a list can be counted.
LEMMA OutFinite ==
    ASSUME NEW q
    PROVE  /\ IsFiniteSet(Out(q, "EOK")) /\ Cardinality(Out(q, "EOK")) \in Nat
           /\ IsFiniteSet(Out(q, "EOK")') /\ Cardinality(Out(q, "EOK")') \in Nat
<1>1. Out(q, "EOK") \subseteq Thread /\ Out(q, "EOK")' \subseteq Thread
  BY DEF Out
<1>2. IsFiniteSet(Out(q, "EOK")) /\ IsFiniteSet(Out(q, "EOK")')
  BY <1>1, FiniteAssumption, FS_Subset
<1> QED BY <1>2, FS_CardinalityType

\* None of the threads in T has been resumed from q.
Away(T, q) == \A u \in T : u \notin Out(q, "EOK")

\* Others go or are resumed: there is as much to have.
LEMMA CoverSame ==
    ASSUME DevThreads, NEW T, NEW H, NEW e, NEW J, NEW A, DStep(T, H, e, J, A),
           NEW q \in {dq_pop, dq_push}, q \notin J, Away(T, q), NEW n \in Int, Covered(q, n)
    PROVE  CoveredNext(q, n)
<1> DEFINE O == Out(q, "EOK")
           P == Out(q, "EOK")'
<1>1. ToSet(k'.wait[q]) \subseteq ToSet(k.wait[q]) /\ O \ T \subseteq P
  BY DStepOut
<1>2. O \subseteq P
  BY <1>1 DEF Away
<1>3. /\ IsFiniteSet(O) /\ Cardinality(O) \in Nat
      /\ IsFiniteSet(P) /\ Cardinality(P) \in Nat
  BY OutFinite
<1>4. ToSet(k.wait[q]) # {} => n <= Cardinality(O)
  BY DEF Covered
<1> SUFFICES ToSet(k'.wait[q]) # {} => n <= Cardinality(P)
  BY DEF CoveredNext
<1> HIDE DEF O, P
<1>5. Cardinality(O) <= Cardinality(P)
  BY <1>2, <1>3, FS_Subset
<1> QED BY <1>1, <1>3, <1>4, <1>5

\* One who was resumed takes one.
LEMMA CoverLess ==
    ASSUME DevThreads, NEW T, NEW H, NEW e, NEW J, NEW A, DStep(T, H, e, J, A),
           NEW q \in {dq_pop, dq_push}, q \notin J, NEW n \in Int, Covered(q, n)
    PROVE  CoveredNext(q, n - 1)
<1> DEFINE O == Out(q, "EOK")
           P == Out(q, "EOK")'
<1>1. ToSet(k'.wait[q]) \subseteq ToSet(k.wait[q]) /\ O \ T \subseteq P
  BY DStepOut
<1>2. T \subseteq {k.cur}
  BY DEF DStep, Run
<1>3. /\ IsFiniteSet(O) /\ Cardinality(O) \in Nat
      /\ IsFiniteSet(P) /\ Cardinality(P) \in Nat
  BY OutFinite
<1>4. ToSet(k.wait[q]) # {} => n <= Cardinality(O)
  BY DEF Covered
<1> SUFFICES ToSet(k'.wait[q]) # {} => n - 1 <= Cardinality(P)
  BY DEF CoveredNext
<1> HIDE DEF O, P
<1>5. O \ {k.cur} \subseteq P
  BY <1>1, <1>2
<1>6. /\ IsFiniteSet(O \ {k.cur})
      /\ Cardinality(O \ {k.cur}) = IF k.cur \in O THEN Cardinality(O) - 1 ELSE Cardinality(O)
  BY <1>3, FS_RemoveElement
<1>7. Cardinality(O \ {k.cur}) <= Cardinality(P)
  BY <1>3, <1>5, FS_Subset
<1> QED BY <1>1, <1>3, <1>4, <1>6, <1>7

\* There is one more to have and one waiter is resumed, if there is any.
LEMMA CoverMore ==
    ASSUME DevThreads, NEW T, NEW H, NEW A, DStep(T, H, "EOK", {}, A),
           NEW q \in {dq_pop, dq_push}, Away(T, q), NEW n \in Int, Covered(q, n),
           ToSet(k.wait[q]) # {} => H \cap ToSet(k.wait[q]) # {}
    PROVE  CoveredNext(q, n + 1)
<1> DEFINE O == Out(q, "EOK")
           P == Out(q, "EOK")'
<1>0. q \in Queue
  BY ListsAssumption
<1>1. /\ ToSet(k'.wait[q]) \subseteq ToSet(k.wait[q])
      /\ P = (O \ T) \cup {u \in H : on[u] = q /\ "EOK" = "EOK"}
  BY DStepOut
<1>2. CASE ToSet(k.wait[q]) = {}
  BY <1>1, <1>2 DEF CoveredNext
<1>3. CASE ToSet(k.wait[q]) # {}
  <2>1. PICK h \in H : h \in ToSet(k.wait[q])
    BY <1>3
  <2>2. on[h] = q /\ k.stat[h] = "SUSPEND"
    BY <1>0, <2>1 DEF DevThreads, DevWaiting, DStep, DTurn
  <2>3. h \notin O
    BY <2>2 DEF Out
  <2>4. O \cup {h} \subseteq P
    BY <1>1, <2>1, <2>2 DEF Away
  <2>5. /\ IsFiniteSet(O) /\ Cardinality(O) \in Nat
        /\ IsFiniteSet(P) /\ Cardinality(P) \in Nat
    BY OutFinite
  <2>6. n <= Cardinality(O)
    BY <1>3 DEF Covered
  <2> SUFFICES n + 1 <= Cardinality(P)
    BY DEF CoveredNext
  <2> HIDE DEF O, P
  <2>7. Cardinality(O \cup {h}) = Cardinality(O) + 1
    BY <2>3, <2>5, FS_AddElement
  <2>8. Cardinality(O \cup {h}) <= Cardinality(P)
    BY <2>4, <2>5, FS_Subset
  <2> QED BY <2>5, <2>6, <2>7, <2>8
<1> QED BY <1>2, <1>3

\* There is nothing to have.
LEMMA CoverNone ==
    ASSUME NEW q, NEW n \in Int, n <= 0
    PROVE  CoveredNext(q, n)
<1>1. Cardinality(Out(q, "EOK")') \in Nat
  BY OutFinite
<1> QED BY <1>1 DEF CoveredNext

\* What the indices say is there.
LEMMA DqCounts ==
    ASSUME DqInv
    PROVE  /\ put_index - get_index \in 0 .. dq_size /\ WakeLevel \in 1 .. dq_size
           /\ WakeLevel <= lwm + 1 /\ lwm \in Nat /\ dq_size \in Nat
           /\ lwm < dq_size => WakeLevel = lwm + 1
BY DqConstants, DataQueueAssumption DEF DqInv, DqRingOK, WakeLevel

\* Steps on other objects.
LEMMA DqKept ==
    ASSUME DevThreads, DqInv, DqWake, NEW T, NEW H, NEW e, NEW J, NEW A, DStep(T, H, e, J, A),
           put_index' = put_index, get_index' = get_index, J \cap {dq_pop, dq_push} = {},
           \A u \in T : pc[u] \in {"block", "woken"} => on[u] \notin {dq_pop, dq_push}
    PROVE  DqWake'
<1> DEFINE n == put_index - get_index
<1>1. n \in Int /\ WakeLevel - n \in Int /\ n' = n
  BY DqCounts
<1>2. Covered(dq_pop, n) /\ Covered(dq_push, WakeLevel - n)
  BY DEF DqWake
<1>3. Away(T, dq_pop) /\ Away(T, dq_push)
  BY DEF Away, Out
<1>4. CoveredNext(dq_pop, n)
  BY <1>1, <1>2, <1>3, CoverSame
<1>5. CoveredNext(dq_push, WakeLevel - n)
  BY <1>1, <1>2, <1>3, CoverSame
<1> QED BY <1>1, <1>4, <1>5 DEF DqWake, Covered, CoveredNext

-----------------------------------------------------------------------------
(* The work queue.                                                         *)

\* Where the worker can be.
WorkerPcs == {"run", "block", "woken", "wq_suspend", "wq_take", "wq_do", "wq_ack"}

\* A work is listed once; it is being done when the worker says so, and whoever
\* waits for the end of one has the worker still to come to its announcement.
WqInv ==
    /\ WorkQueueTypeOK /\ IsInjective(work_list)
    /\ on[Worker] = None /\ pc[Worker] \in WorkerPcs
    /\ work_current # None => pc[Worker] = "wq_do"
    /\ ToSet(k.wait[wq_sem]) # {} => pc[Worker] \in {"wq_do", "wq_ack"}

\* Steps of others that do not touch it.
LEMMA WqKept ==
    ASSUME WqInv, NEW T, NEW H, NEW e, NEW J, NEW A, DStep(T, H, e, J, A),
           UNCHANGED wqvars, Worker \notin T, wq_sem \notin J
    PROVE  WqInv'
<1>1. wq_sem \in Queue /\ Worker \in Thread
  BY ListsAssumption, WorkQueueAssumption
<1>2. ToSet(k'.wait[wq_sem]) \subseteq ToSet(k.wait[wq_sem])
  BY <1>1 DEF DStep, DTurn
<1>3. pc'[Worker] = pc[Worker] /\ on'[Worker] = on[Worker]
  BY <1>1 DEF DStep, Go, Moves
<1> QED BY <1>2, <1>3 DEF WqInv, wqvars, WorkQueueTypeOK

-----------------------------------------------------------------------------
(* The pipe.                                                               *)

\* There is nothing for r, the reader or the writer, to go on with.
Dry(r) ==
    IF r = Reader THEN ~CanRead /\ writers > 0 ELSE ~CanWrite /\ readers > 0

WakeCall(r) == IF r = Reader THEN "wake_reader" ELSE "wake_writer"

\* r may sleep: there is nothing for it, or somebody will wake it.
Hushed(r) == Dry(r) \/ WillWake(WakeCall(r))

\* A thread with its node in a wait queue is suspended for ever, in its wait.
AsleepOK(r) ==
    /\ k.stat[r] = "SUSPEND" /\ r \notin k.timer
    /\ pc[r] \in {"block", "woken"} /\ on[r] = None
    /\ todo[r] # << >> /\ Head(todo[r]) = "wait"

\* A side sleeps, or is on its way to sleep, only when it may, or when the flag
\* of its wait queue will keep it from sleeping.
SideOK(r) ==
    /\ waiting_list[OwnQueue(r)] \in {<< >>, <<r>>}
    /\ waiting_list[OwnQueue(r)] = <<r>> => AsleepOK(r) /\ Hushed(r)
    /\ "wait" \in ToSet(todo[r]) /\ pc[r] \notin {"block", "woken"} =>
          Hushed(r) \/ OwnQueue(r) \in wakeup

\* Where a thread in a call on the pipe can be.
InPipe(t) ==
    todo[t] # << >> =>
       /\ t \notin {Idle, Worker}
       /\ \/ pc[t] \in {"run", "resched"}
          \/ /\ pc[t] \in {"block", "woken"}
             /\ \/ on[t] = pipe_lock /\ "wait" \notin ToSet(todo[t])
                \/ on[t] = None /\ Head(todo[t]) = "wait"

PipeTyped ==
    /\ waiting_list \in [WaitQueue -> Seq(Thread)]
    /\ wakeup \subseteq WaitQueue /\ nonblock \subseteq Thread
    /\ holder \in (Thread \ {Idle}) \cup {None}

PipeWaits ==
    /\ PipeTyped
    /\ \A t \in Thread : InPipe(t)
    /\ SideOK(Reader) /\ SideOK(Writer)

\* The side r is not the one that moves and is not resumed.
LEMMA SideKept ==
    ASSUME NEW r \in {Reader, Writer}, SideOK(r), NEW T, NEW H, NEW e, NEW J, NEW A,
           DStep(T, H, e, J, A), r \notin T, AsleepOK(r) => r \notin H,
           waiting_list'[OwnQueue(r)] = waiting_list[OwnQueue(r)], todo'[r] = todo[r],
           "wait" \in ToSet(todo[r]) \/ AsleepOK(r) => (Hushed(r) => Hushed(r)'),
           OwnQueue(r) \in wakeup => OwnQueue(r) \in wakeup'
    PROVE  SideOK(r)'
<1>0. r \in Thread
  BY PipeAssumption
<1>1. pc'[r] = pc[r] /\ on'[r] = on[r]
  BY <1>0 DEF DStep, Go, Moves
<1>2. OwnQueue(r)' = OwnQueue(r)
  BY DEF OwnQueue
<1>3. ASSUME AsleepOK(r) PROVE AsleepOK(r)'
  <2>1. r \notin H /\ k.stat[r] = "SUSPEND" /\ r \notin k.timer
    BY <1>3 DEF AsleepOK
  <2>2. k'.stat[r] = "SUSPEND" /\ r \notin k'.timer
    BY <1>0, <2>1 DEF DStep, DTurn
  <2> QED BY <1>1, <1>3, <2>2 DEF AsleepOK
<1>4. waiting_list'[OwnQueue(r)] \in {<< >>, <<r>>}
  BY DEF SideOK
<1>5. ASSUME waiting_list'[OwnQueue(r)] = <<r>> PROVE AsleepOK(r)' /\ Hushed(r)'
  <2>1. AsleepOK(r) /\ Hushed(r)
    BY <1>5 DEF SideOK
  <2> QED BY <1>3, <2>1
<1>6. ASSUME "wait" \in ToSet(todo'[r]), pc'[r] \notin {"block", "woken"}
      PROVE  Hushed(r)' \/ OwnQueue(r) \in wakeup'
  <2>1. Hushed(r) \/ OwnQueue(r) \in wakeup
    BY <1>1, <1>6 DEF SideOK
  <2> QED BY <1>6, <2>1
<1> QED BY <1>2, <1>4, <1>5, <1>6 DEF SideOK

\* Steps on other objects.
LEMMA PipeKept ==
    ASSUME PipeWaits, NEW T, NEW H, NEW e, NEW J, NEW A, DStep(T, H, e, J, A),
           UNCHANGED pipevars, \A u \in T : todo[u] = << >>,
           \A u \in H : on[u] # None \/ u \in k.timer \/ todo[u] = << >>
    PROVE  PipeWaits'
<1>1. /\ UNCHANGED <<fifo, readers, writers, holder, wakeup, waiting_list, todo, count, nonblock>>
  BY DEF pipevars
<1>2. PipeTyped'
  BY <1>1 DEF PipeWaits, PipeTyped
<1>3. \A t \in Thread : InPipe(t)'
  <2> SUFFICES ASSUME NEW t \in Thread, todo[t] # << >> PROVE InPipe(t)'
    BY <1>1 DEF InPipe
  <2>1. pc'[t] = pc[t] /\ on'[t] = on[t]
    BY DEF DStep, Go, Moves
  <2> QED BY <1>1, <2>1 DEF PipeWaits, InPipe
<1>4. \A r : Hushed(r)' = Hushed(r)
  BY <1>1 DEF Hushed, Dry, CanRead, CanWrite, WillWake, WakeCall
<1>5. ASSUME NEW r \in {Reader, Writer}, SideOK(r) PROVE SideOK(r)'
  <2>1. CASE r \in T
    <3>1. todo[r] = << >> /\ todo'[r] = << >>
      BY <1>1, <2>1
    <3>2. ToSet(todo'[r]) = {}
      BY <3>1 DEF ToSet
    <3>3. ~AsleepOK(r)
      BY <3>1 DEF AsleepOK
    <3>4. waiting_list'[OwnQueue(r)] = << >> /\ waiting_list'[OwnQueue(r)] # <<r>>
      BY <1>1, <1>5, <3>3 DEF SideOK
    <3> QED BY <3>2, <3>4 DEF SideOK, OwnQueue
  <2>2. CASE r \notin T
    <3>1. AsleepOK(r) => r \notin H
      BY DEF AsleepOK
    <3> QED BY <1>1, <1>4, <1>5, <2>2, <3>1, SideKept
  <2> QED BY <2>1, <2>2
<1> QED BY <1>2, <1>3, <1>5 DEF PipeWaits

-----------------------------------------------------------------------------
(* Steps of the kernel.                                                    *)

\* The inductive invariant of the wake-ups.
WakeInv == DevThreads /\ CmpInv /\ DqWake /\ WqInv /\ PipeWaits

\* A step that leaves the objects alone.
LEMMA WakeKept ==
    ASSUME WakeInv, DqInv, NEW T, NEW H, NEW e, NEW J, NEW A, DStep(T, H, e, J, A),
           UNCHANGED <<completed, dqvars, wqvars, pipevars>>,
           J \cap {completion, dq_pop, dq_push, wq_sem} = {},
           \A u \in T : /\ todo[u] = << >> /\ u # Worker
                        /\ pc[u] \in {"block", "woken"} => on[u] \notin {dq_pop, dq_push},
           \A u \in H : on[u] # None \/ u \in k.timer \/ todo[u] = << >>
    PROVE  WakeInv'
<1>1. /\ DevThreads /\ CmpInv /\ DqWake /\ WqInv /\ PipeWaits
  BY DEF WakeInv
<1>2. /\ completed' = completed /\ put_index' = put_index /\ get_index' = get_index
      /\ UNCHANGED wqvars /\ UNCHANGED pipevars
  BY DEF dqvars
<1>3. DevThreads'
  BY <1>1, DStepThreads
<1>4. CmpInv'
  BY <1>1, <1>2, CmpKept
<1>5. DqWake'
  BY <1>1, <1>2, DqKept
<1>6. WqInv'
  BY <1>1, <1>2, WqKept
<1>7. PipeWaits'
  BY <1>1, <1>2, PipeKept
<1> QED BY <1>3, <1>4, <1>5, <1>6, <1>7 DEF WakeInv

\* The threads that move, those resumed and the list joined are of other objects.
Aside(T, H, J) ==
    /\ J \cap {completion, dq_pop, dq_push, wq_sem} = {}
    /\ \A u \in T : /\ todo[u] = << >> /\ u # Worker
                    /\ pc[u] \in {"block", "woken"} => on[u] \notin {dq_pop, dq_push}
    /\ \A u \in H : on[u] # None \/ u \in k.timer \/ todo[u] = << >>

\* The same in one hypothesis.
LEMMA WakeKeptAside ==
    ASSUME WakeInv, DqInv, NEW T, NEW H, NEW e, NEW J, NEW A, DStep(T, H, e, J, A), Aside(T, H, J),
           UNCHANGED <<completed, dqvars, wqvars, pipevars>>
    PROVE  WakeInv'
BY WakeKept DEF Aside

\* A thread at one of these points executes.
LEMMA AtExecutes ==
    ASSUME DevThreads, NEW t \in Thread, NEW c, At(t, c), c \notin Resetting \cup {"block"},
           c = "run" => t # Idle
    PROVE  /\ Executing(t) /\ pc[t] = c /\ k.stat[t] = "READY" /\ t \in Thread \ {Idle}
           /\ k.cur = t /\ Run({t}) /\ k.lock = 0
<1>1. Executing(t) /\ pc[t] = c /\ k.cur = t
  BY DEF At, Executing, DevThreads
<1> QED BY <1>1, ExecutingFacts

\* No object exists where a thread would be on its way out of two.
LEMMA ListsDiffer ==
    /\ None \notin {completion, dq_pop, dq_push, wq_sem, pipe_lock}
    /\ {completion, dq_pop, dq_push, wq_sem, pipe_lock} \subseteq Queue
    /\ completion \notin {dq_pop, dq_push, wq_sem, pipe_lock}
    /\ wq_sem \notin {completion, dq_pop, dq_push, pipe_lock}
    /\ pipe_lock \notin {completion, dq_pop, dq_push, wq_sem}
    /\ dq_pop # dq_push
BY ListsAssumption, DataQueueAssumption

\* A thread starts another one.
LEMMA StartsWake ==
    ASSUME WakeInv, DqInv, NEW t \in Thread, NEW u \in Thread, Starts(t, u), todo[t] = << >>,
           t # Worker
    PROVE  WakeInv'
<1>1. DevThreads /\ Startup(t, u) /\ on' = on /\ OnObjects /\ Calls(t)
  BY DEF WakeInv, Starts, Free
<1>2. Executing(t) /\ pc[t] = "run" /\ k.stat[t] = "READY"
  BY <1>1, AtExecutes DEF Calls, Resetting
<1>3. t # u /\ pc' = [pc EXCEPT ![t] = "resched"]
  BY <1>1, <1>2 DEF Startup, Goto
<1>4. DTurn({t}, {}, "EOK", {}, {}) /\ k'.lock = k.lock
  BY <1>1, <1>3, StartTurns
<1>5. OnMoves(t)
  BY <1>1, OnMovesHere
<1>6. "resched" \in Pcs \ (Resetting \cup {"block", "woken"})
  BY DEF Pcs, Resetting
<1>7. DStep({t}, {}, "EOK", {}, {})
  BY <1>1, <1>2, <1>3, <1>4, <1>5, <1>6, GoesOn
<1>8. UNCHANGED <<completed, dqvars, wqvars, pipevars>>
  BY <1>1 DEF OnObjects
<1> QED BY <1>2, <1>7, <1>8, WakeKept

\* A thread sleeps.
LEMMA SleepWake ==
    ASSUME WakeInv, DqInv, NEW t \in Thread, rt_thread_sleep(t), todo[t] = << >>, t # Worker
    PROVE  WakeInv'
<1>1. /\ DevThreads /\ Calls(t) /\ k' = StartThreadTimer(rt_thread_suspend(k, t), t)
      /\ on' = [on EXCEPT ![t] = None] /\ Goto(t, "block") /\ OnObjects
  BY DEF WakeInv, rt_thread_sleep, Free
<1>2. Executing(t) /\ pc[t] = "run" /\ k.stat[t] = "READY" /\ t \in Thread \ {Idle}
  BY <1>1, AtExecutes DEF Calls, Resetting
<1>3. PlacesKept(k)
  BY <1>1 DEF DevThreads, PlacesKept, SamePlaces
<1>4. Joined(rt_thread_suspend(k, t), t, None)
  BY <1>2, <1>3, SuspendJoins
<1>5. DTurn({t}, {}, "EOK", {None}, {t}) /\ k'.lock = k.lock
  BY <1>1, <1>4, JoinedTurns
<1>6. DStep({t}, {}, "EOK", {None}, {t})
  BY <1>1, <1>2, <1>5, GoesToSleep
<1>7. UNCHANGED <<completed, dqvars, wqvars, pipevars>>
  BY <1>1 DEF OnObjects
<1>8. {None} \cap {completion, dq_pop, dq_push, wq_sem} = {}
  BY ListsDiffer
<1>9. Aside({t}, {}, {None})
  BY <1>2, <1>8 DEF Aside
<1> QED BY <1>6, <1>7, <1>9, WakeKeptAside

\* A sleep is over.
LEMMA SleepReturnWake ==
    ASSUME WakeInv, DqInv, NEW t \in Thread, SleepReturn(t)
    PROVE  WakeInv'
<1>1. /\ DevThreads /\ At(t, "woken") /\ on[t] = None /\ todo[t] = << >> /\ t # Worker
      /\ k' = [k EXCEPT !.error[t] = IF @ = "ETIMEOUT" THEN "EOK" ELSE @]
      /\ pc' = [pc EXCEPT ![t] = "run"] /\ on' = on /\ OnObjects
  BY DEF WakeInv, SleepReturn, Goto
<1>2. Executing(t) /\ pc[t] = "woken" /\ k.stat[t] = "READY" /\ t \in Thread \ {Idle}
  BY <1>1, AtExecutes DEF Resetting
<1> DEFINE e == IF k.error[t] = "ETIMEOUT" THEN "EOK" ELSE k.error[t]
<1>3. e \in Error /\ k' = ErrorSet(t, e)
  <2>1. k.error \in [Thread -> Error] /\ k \in KernelState
    BY <1>1 DEF DevThreads, KernelOK, KernelState
  <2> QED BY <1>1, <2>1 DEF Error, ErrorSet, KernelState
<1> HIDE DEF e
<1>4. PlacesKept(k') /\ \A u \in Thread \ {t} : k'.error[u] = k.error[u]
  BY <1>1, <1>3, ClearedError
<1>5. DTurn({t}, {}, "EOK", {}, {}) /\ k'.lock = k.lock
  BY <1>1, <1>4, SameTurns DEF PlacesKept, SamePlaces
<1>6. OnMoves(t)
  BY <1>1, OnMovesHere
<1>7. "run" \in Pcs \ (Resetting \cup {"block", "woken"})
  BY DEF Pcs, Resetting
<1>8. DStep({t}, {}, "EOK", {}, {})
  BY <1>1, <1>2, <1>5, <1>6, <1>7, GoesOn
<1>9. UNCHANGED <<completed, dqvars, wqvars, pipevars>> /\ on[t] \notin {dq_pop, dq_push}
  BY <1>1, ListsDiffer DEF OnObjects
<1> QED BY <1>1, <1>8, <1>9, WakeKept

\* A thread timer or a time slice expires.
LEMMA TickWake ==
    ASSUME WakeInv, DqInv, (\E t \in Thread : Timeout(t)) \/ SliceExpired, on' = on, OnObjects
    PROVE  WakeInv'
<1>1. DevThreads /\ UNCHANGED <<completed, dqvars, wqvars, pipevars>>
  BY DEF WakeInv, OnObjects
<1>2. ASSUME NEW t \in Thread, Timeout(t) PROVE WakeInv'
  <2>1. /\ DTurn({}, {t}, "ETIMEOUT", {}, {}) /\ t \in k.timer
        /\ k'.lock = k.lock /\ (k.lock # 0 => k'.cur = k.cur)
    BY <1>1, <1>2, TimeoutTurns
  <2>2. pc' = pc
    BY <1>2 DEF Timeout
  <2>3. DStep({}, {t}, "ETIMEOUT", {}, {})
    BY <1>1, <2>1, <2>2, NobodyMoves
  <2> QED BY <1>1, <2>1, <2>3, WakeKept
<1>3. ASSUME SliceExpired PROVE WakeInv'
  <2>1. /\ DTurn({}, {}, "EOK", {}, {})
        /\ k'.lock = k.lock /\ (k.lock # 0 => k'.cur = k.cur)
    BY <1>1, <1>3, ScheduleTurns DEF SliceExpired
  <2>2. pc' = pc
    BY <1>3 DEF SliceExpired
  <2>3. DStep({}, {}, "EOK", {}, {})
    BY <1>1, <2>1, <2>2, NobodyMoves
  <2> QED BY <1>1, <2>3, WakeKept
<1> QED BY <1>2, <1>3

\* The rt_schedule at the end of a call, or that a thread blocks in.
LEMMA RescheduleWake ==
    ASSUME WakeInv, NEW t \in Thread, Reschedule(t), on' = on, OnObjects
    PROVE  WakeInv'
<1> DEFINE c == IF pc[t] = "block" THEN "woken" ELSE "run"
<1>1. /\ DevThreads /\ k.cur = t /\ pc[t] \in {"resched", "block"} /\ k' = rt_schedule(k)
      /\ pc' = [pc EXCEPT ![t] = c] /\ t # Idle
  BY DEF WakeInv, DevThreads, Reschedule, At, Goto
<1>2. /\ UNCHANGED <<completed, dqvars, wqvars, pipevars>>
      /\ k.lock = 0 /\ KernelOK(k) /\ pc \in [Thread -> Pcs] /\ DevWaiting
  BY <1>1 DEF OnObjects, DevThreads, LockOK, Resetting
<1>3. /\ KernelOK(k')
      /\ k'.stat = k.stat /\ k'.error = k.error
      /\ k'.wait = k.wait /\ k'.timer = k.timer /\ k'.lock = 0
      /\ k'.stat[k'.cur] = "READY"
  BY <1>1, <1>2, ScheduleOK DEF CurIsHighest
<1>4. /\ pc' \in [Thread -> Pcs] /\ pc'[t] = c /\ \A u \in Thread \ {t} : pc'[u] = pc[u]
      /\ c \in {"woken", "run"} /\ (c = "woken" <=> pc[t] = "block")
      /\ c = "run" <=> pc[t] = "resched"
  BY <1>1, <1>2 DEF Pcs
<1> HIDE DEF c
<1>5. \A u \in Thread : /\ pc'[u] \in {"block", "woken"} <=> pc[u] \in {"block", "woken"}
                        /\ pc'[u] \in Resetting <=> pc[u] \in Resetting
                        /\ pc'[u] = "run" \/ pc'[u] = "woken" \/ pc'[u] = pc[u]
                        /\ pc[u] = "run" => pc'[u] = "run"
  BY <1>1, <1>4 DEF Resetting
<1>6. DevThreads'
  <2>1. DevWaiting'
    <3>1. \A u \in Thread : k.stat[u] # "INIT" \/ pc[u] = "run"
      BY <1>2 DEF DevWaiting
    <3> QED BY <1>2, <1>3, <1>5, <3>1 DEF DevWaiting
  <2>2. CurRunnable' /\ LockOK'
    BY <1>3 DEF CurRunnable, LockOK
  <2>3. pc'[Idle] = "run"
    BY <1>1, <1>4, ThreadAssumption DEF DevThreads
  <2> QED BY <1>1, <1>3, <1>4, <1>5, <2>1, <2>2, <2>3 DEF DevThreads
<1>7. CmpInv'
  BY <1>2, <1>3 DEF WakeInv, CmpInv
<1>8. DqWake'
  <2>1. ASSUME NEW q PROVE Out(q, "EOK")' = Out(q, "EOK")
    BY <1>3, <1>5 DEF Out
  <2>2. put_index' = put_index /\ get_index' = get_index
    BY <1>2 DEF dqvars
  <2> QED BY <1>3, <2>1, <2>2 DEF WakeInv, DqWake, Covered
<1>9. WqInv'
  <2>1. Worker \in Thread
    BY WorkQueueAssumption
  <2>2. pc[Worker] \in WorkerPcs => pc'[Worker] \in WorkerPcs
    BY <1>5, <2>1 DEF WorkerPcs
  <2>3. \A p \in {"wq_do", "wq_ack"} : pc[Worker] = p => pc'[Worker] = p
    BY <1>1, <1>4, <2>1
  <2> QED BY <1>2, <1>3, <2>2, <2>3 DEF WakeInv, WqInv, WorkQueueTypeOK, wqvars
<1>10. PipeWaits'
  <2>1. /\ UNCHANGED <<fifo, readers, writers, holder, wakeup, waiting_list, todo, count, nonblock>>
        /\ PipeWaits
    BY <1>2 DEF pipevars, WakeInv
  <2>2. PipeTyped'
    BY <2>1 DEF PipeWaits, PipeTyped
  <2>3. \A u \in Thread : InPipe(u)'
    BY <1>4, <1>5, <2>1 DEF PipeWaits, InPipe
  <2>4. \A r : Hushed(r)' = Hushed(r) /\ OwnQueue(r)' = OwnQueue(r)
    BY <2>1 DEF Hushed, Dry, CanRead, CanWrite, WillWake, WakeCall, OwnQueue
  <2>5. ASSUME NEW r \in Thread, SideOK(r) PROVE SideOK(r)'
    BY <1>3, <1>5, <2>1, <2>4, <2>5 DEF SideOK, AsleepOK
  <2> QED BY <2>1, <2>2, <2>3, <2>5, PipeAssumption DEF PipeWaits
<1> QED BY <1>6, <1>7, <1>8, <1>9, <1>10 DEF WakeInv

-----------------------------------------------------------------------------
(* Steps on the completion.                                                *)

\* Steps that leave the other objects alone.
LEMMA OthersOfCmp ==
    ASSUME WakeInv, DqInv, NEW T, NEW H, NEW e, NEW J, NEW A, DStep(T, H, e, J, A),
           OnCompletion, J \cap {dq_pop, dq_push, wq_sem} = {},
           \A u \in T : /\ todo[u] = << >> /\ u # Worker
                        /\ pc[u] \in {"block", "woken"} => on[u] \notin {dq_pop, dq_push},
           \A u \in H : on[u] # None
    PROVE  DevThreads' /\ DqWake' /\ WqInv' /\ PipeWaits'
<1>1. /\ DevThreads /\ DqWake /\ WqInv /\ PipeWaits
  BY DEF WakeInv
<1>2. /\ put_index' = put_index /\ get_index' = get_index
      /\ UNCHANGED wqvars /\ UNCHANGED pipevars
  BY DEF OnCompletion, dqvars
<1>3. DevThreads'
  BY <1>1, DStepThreads
<1>4. DqWake'
  BY <1>1, <1>2, DqKept
<1>5. WqInv'
  BY <1>1, <1>2, WqKept
<1>6. PipeWaits'
  BY <1>1, <1>2, PipeKept
<1> QED BY <1>3, <1>4, <1>5, <1>6

\* A thread resumes the first of a list, if there is one.
LEMMA WakeSteps ==
    ASSUME DevThreads, NEW t, Executing(t), NEW q \in Queue, Wake(t, q), on' = on
    PROVE  \E H : /\ DStep({t}, H, "EOK", {}, {}) /\ H \subseteq ToSet(k.wait[q])
                  /\ ToSet(k.wait[q]) # {} => H \cap ToSet(k.wait[q]) # {}
<1>1. /\ t \in Thread \ {Idle} /\ k.stat[t] = "READY" /\ KernelOK(k) /\ k.wait[q] \in Seq(Thread)
  BY ExecutingFacts DEF DevThreads, KernelOK, KernelState
<1>2. OnMoves(t)
  BY <1>1, OnMovesHere
<1>3. {"run", "resched"} \subseteq Pcs \ (Resetting \cup {"block", "woken"})
  BY DEF Pcs, Resetting
<1>4. PlacesKept(k)
  BY <1>1 DEF PlacesKept, SamePlaces
<1>5. CASE k.wait[q] # << >>
  <2>1. k' = rt_ipc_list_resume(k, q) /\ pc' = [pc EXCEPT ![t] = "resched"]
    BY <1>5 DEF Wake, Goto
  <2> DEFINE h == Head(k.wait[q])
  <2>2. h \notin {t}
    BY <1>1, <1>5, WaitHead
  <2>3. DTurn({t}, {h}, "EOK", {}, {}) /\ h \in ToSet(k.wait[q]) /\ k'.lock = k.lock
    BY <1>4, <1>5, <2>1, <2>2, ListResumeTurns
  <2> HIDE DEF h
  <2>4. DStep({t}, {h}, "EOK", {}, {})
    BY <1>2, <1>3, <2>1, <2>3, GoesOn
  <2> QED BY <2>3, <2>4
<1>6. CASE k.wait[q] = << >>
  <2>1. k' = k /\ pc' = [pc EXCEPT ![t] = "run"]
    BY <1>6 DEF Wake, Goto
  <2>2. DTurn({t}, {}, "EOK", {}, {}) /\ k'.lock = k.lock
    BY <2>1, StutterTurns
  <2>3. DStep({t}, {}, "EOK", {}, {})
    BY <1>2, <1>3, <2>1, <2>2, GoesOn
  <2>4. ToSet(k.wait[q]) = {}
    BY <1>6 DEF ToSet
  <2> QED BY <2>3, <2>4
<1> QED BY <1>5, <1>6

\* So does an interrupt handler.
LEMMA WakeIsrSteps ==
    ASSUME DevThreads, NEW q \in Queue, WakeIsr(q), on' = on
    PROVE  \E H : /\ DStep({}, H, "EOK", {}, {}) /\ H \subseteq ToSet(k.wait[q])
                  /\ ToSet(k.wait[q]) # {} => H \cap ToSet(k.wait[q]) # {}
<1>1. PlacesKept(k) /\ pc' = pc
  BY DEF DevThreads, PlacesKept, SamePlaces, WakeIsr
<1>2. CASE k.wait[q] # << >>
  <2>1. k' = rt_schedule(rt_ipc_list_resume(k, q))
    BY <1>2 DEF WakeIsr
  <2> DEFINE h == Head(k.wait[q])
  <2>2. /\ DTurn({}, {h}, "EOK", {}, {}) /\ h \in ToSet(k.wait[q])
        /\ k'.lock = k.lock /\ (k.lock # 0 => k'.cur = k.cur)
    <3>1. DevThreads /\ PlacesKept(k) /\ k.error = k.error /\ q \in Queue /\ k.wait[q] # << >>
      BY <1>1, <1>2
    <3>2. Head(k.wait[q]) \notin {}
      OBVIOUS
    <3> QED BY ONLY <2>1, <3>1, <3>2, ListResumeTurns, ZenonT(60)
  <2> HIDE DEF h
  <2>3. DStep({}, {h}, "EOK", {}, {})
    BY <1>1, <2>2, NobodyMoves
  <2> QED BY <2>2, <2>3
<1>3. CASE k.wait[q] = << >>
  <2>1. k' = k
    BY <1>3 DEF WakeIsr
  <2>2. DTurn({}, {}, "EOK", {}, {})
    BY <2>1, StutterTurns
  <2>3. DStep({}, {}, "EOK", {}, {})
    BY <1>1, <2>1, <2>2, NobodyMoves
  <2>4. ToSet(k.wait[q]) = {}
    BY <1>3 DEF ToSet
  <2> QED BY <2>3, <2>4
<1> QED BY <1>2, <1>3

\* Nothing happens.
LEMMA StutterSteps ==
    ASSUME DevThreads, k' = k, pc' = pc, on' = on
    PROVE  DStep({}, {}, "EOK", {}, {})
BY StutterTurns, NobodyMoves

\* A thread moves on, the kernel is left alone.
LEMMA MoveSteps ==
    ASSUME DevThreads, NEW t, Executing(t), k' = k, NEW c, Goto(t, c), OnMoves(t),
           c \in Pcs \ (Resetting \cup {"block", "woken"})
    PROVE  DStep({t}, {}, "EOK", {}, {})
<1>1. DTurn({t}, {}, "EOK", {}, {}) /\ k'.lock = k.lock /\ pc' = [pc EXCEPT ![t] = c]
  BY StutterTurns DEF Goto
<1> QED BY <1>1, GoesOn

\* Waiters are in a call on the list.
LEMMA WaitersOn ==
    ASSUME DevThreads, NEW q \in Queue, NEW H, H \subseteq ToSet(k.wait[q])
    PROVE  \A u \in H : on[u] = q /\ on[u] # None
BY ListsAssumption DEF DevThreads, DevWaiting

\* A thread that stands where no call on the pipe and no work of the worker leads.
LEMMA Stranger ==
    ASSUME WakeInv, NEW t \in Thread,
           \/ pc[t] \in {"cmp_clear", "cmp_done", "dq_test", "dq_resume", "wq_resume"}
           \/ pc[t] = "woken" /\ on[t] \notin {None, pipe_lock}
    PROVE  todo[t] = << >> /\ t # Worker
BY DEF WakeInv, WqInv, WorkerPcs, PipeWaits, InPipe

\* Setting the flag wakes the waiter.
LEMMA DoneKeeps ==
    ASSUME CmpInv, NEW T, NEW H, DStep(T, H, "EOK", {}, {}), completed' = TRUE,
           H \subseteq ToSet(k.wait[completion]),
           ToSet(k.wait[completion]) # {} => H \cap ToSet(k.wait[completion]) # {}
    PROVE  CmpInv'
<1>1. completion \in Queue
  BY ListsAssumption
<1>2. ToSet(k'.wait[completion]) = ToSet(k.wait[completion]) \ H
  BY <1>1 DEF DStep, DTurn
<1>3. ToSet(k'.wait[completion]) = {}
  BY <1>2 DEF CmpInv
<1> QED BY <1>3 DEF CmpInv

\* Calls on the completion.
LEMMA CompletionCallWake ==
    ASSUME WakeInv, DqInv, OnCompletion, NEW t \in Thread, CompletionCall(t), todo[t] = << >>,
           t # Worker
    PROVE  WakeInv'
<1>1. DevThreads /\ CmpInv /\ Calls(t)
  BY DEF WakeInv, CompletionCall, rt_completion_wait, rt_completion_done, CallsOn
<1>2. Executing(t) /\ pc[t] = "run" /\ k.stat[t] = "READY" /\ t \in Thread \ {Idle}
  BY <1>1, AtExecutes DEF Calls, Resetting
<1>3. completion \in Queue /\ completion \notin {dq_pop, dq_push, wq_sem}
  BY ListsDiffer
<1>4. ASSUME NEW J, NEW A, DStep({t}, {}, "EOK", J, A), J \cap {dq_pop, dq_push, wq_sem} = {},
             CmpInv'
      PROVE  WakeInv'
  BY <1>2, <1>4, OthersOfCmp DEF WakeInv
<1>5. ASSUME DStep({}, {}, "EOK", {}, {}), CmpInv' PROVE WakeInv'
  BY <1>5, OthersOfCmp DEF WakeInv
<1>6. ASSUME NEW time, rt_completion_wait(t, time) PROVE WakeInv'
  <2>1. CASE completed /\ completed' = FALSE /\ UNCHANGED <<k, pc, on>>
    <3>1. DStep({}, {}, "EOK", {}, {})
      BY <1>1, <2>1, StutterSteps
    <3>2. CmpInv'
      BY <1>1, <2>1 DEF CmpInv
    <3> QED BY <1>5, <3>1, <3>2
  <2>2. CASE UNCHANGED <<k, pc, on, completed>>
    <3>1. DStep({}, {}, "EOK", {}, {})
      BY <1>1, <2>2, StutterSteps
    <3>2. CmpInv'
      BY <1>1, <2>2 DEF CmpInv
    <3> QED BY <1>5, <3>1, <3>2
  <2>3. CASE /\ ~completed
             /\ k' = SuspendAtTail(k, completion, t, time)
             /\ on' = [on EXCEPT ![t] = completion]
             /\ Goto(t, "block")
             /\ UNCHANGED completed
    <3>1. PICK A : DTurn({t}, {}, "EOK", {completion}, A) /\ k'.lock = k.lock
      BY <1>1, <1>2, <1>3, <2>3, WaitTurns
    <3>2. DStep({t}, {}, "EOK", {completion}, A)
      BY <1>1, <1>2, <1>3, <2>3, <3>1, GoesToSleep
    <3>3. ToSet(k'.wait[completion]) = ToSet(k.wait[completion]) \cup {t}
      BY <1>3, <3>1 DEF DTurn
    <3>4. CmpInv'
      BY <1>1, <1>6, <2>3, <3>3 DEF CmpInv, rt_completion_wait
    <3> QED BY <1>3, <1>4, <3>2, <3>4
  <2> QED BY <1>6, <2>1, <2>2, <2>3 DEF rt_completion_wait
<1>7. ASSUME rt_completion_done(t) PROVE WakeInv'
  <2>0. k' = k /\ on' = on /\ completed' = completed
    BY <1>7 DEF rt_completion_done
  <2>1. CASE pc' = pc
    <3>1. DStep({}, {}, "EOK", {}, {})
      BY <1>1, <2>0, <2>1, StutterSteps
    <3>2. CmpInv'
      BY <1>1, <2>0 DEF CmpInv
    <3> QED BY <1>5, <3>1, <3>2
  <2>2. CASE Goto(t, "cmp_done")
    <3>1. OnMoves(t) /\ "cmp_done" \in Pcs \ (Resetting \cup {"block", "woken"})
      BY <1>1, <2>0, OnMovesHere DEF Pcs, Resetting
    <3>2. DStep({t}, {}, "EOK", {}, {})
      BY <1>1, <1>2, <2>0, <2>2, <3>1, MoveSteps
    <3>3. CmpInv'
      BY <1>1, <2>0 DEF CmpInv
    <3> QED BY <1>4, <3>2, <3>3
  <2> QED BY <1>7, <2>1, <2>2 DEF rt_completion_done
<1> QED BY <1>6, <1>7 DEF CompletionCall

\* The steps of a thread in such a call.
LEMMA CompletionStepWake ==
    ASSUME WakeInv, DqInv, OnCompletion, NEW t \in Thread, CompletionStep(t)
    PROVE  WakeInv'
<1>1. /\ DevThreads /\ CmpInv
      /\ completion \in Queue /\ completion \notin {None, dq_pop, dq_push, pipe_lock}
  BY ListsDiffer DEF WakeInv
<1>2. ASSUME NEW H, DStep({t}, H, "EOK", {}, {}), \A u \in H : on[u] # None, CmpInv',
             todo[t] = << >>, t # Worker,
             pc[t] \in {"block", "woken"} => on[t] \notin {dq_pop, dq_push}
      PROVE  WakeInv'
  BY <1>2, OthersOfCmp DEF WakeInv
<1>3. ASSUME WaitResult(t) PROVE WakeInv'
  <2>1. /\ At(t, "woken") /\ on[t] = completion /\ Goto(t, "cmp_clear")
        /\ k' = k /\ on' = on /\ completed' = completed
    BY <1>3 DEF WaitResult
  <2>2. Executing(t) /\ pc[t] = "woken"
    BY <1>1, <2>1, AtExecutes DEF Resetting
  <2>3. OnMoves(t) /\ "cmp_clear" \in Pcs \ (Resetting \cup {"block", "woken"})
    BY <1>1, <2>1, OnMovesHere DEF Pcs, Resetting
  <2>4. DStep({t}, {}, "EOK", {}, {})
    BY <1>1, <2>1, <2>2, <2>3, MoveSteps
  <2>5. CmpInv'
    BY <1>1, <2>1 DEF CmpInv
  <2>6. todo[t] = << >> /\ t # Worker
    BY <1>1, <2>1, <2>2, Stranger
  <2> QED BY <1>1, <1>2, <2>1, <2>4, <2>5, <2>6
<1>4. ASSUME WaitClear(t) PROVE WakeInv'
  <2>1. /\ At(t, "cmp_clear") /\ Goto(t, "run")
        /\ k' = k /\ on' = on /\ completed' = FALSE
    BY <1>4 DEF WaitClear
  <2>2. Executing(t) /\ pc[t] = "cmp_clear"
    BY <1>1, <2>1, AtExecutes DEF Resetting
  <2>3. OnMoves(t) /\ "run" \in Pcs \ (Resetting \cup {"block", "woken"})
    BY <1>1, <2>1, OnMovesHere DEF Pcs, Resetting
  <2>4. DStep({t}, {}, "EOK", {}, {})
    BY <1>1, <2>1, <2>2, <2>3, MoveSteps
  <2>5. CmpInv'
    BY <1>1, <2>1 DEF CmpInv
  <2>6. todo[t] = << >> /\ t # Worker
    BY <2>2, Stranger
  <2> QED BY <1>2, <2>2, <2>4, <2>5, <2>6
<1>5. ASSUME Done(t) PROVE WakeInv'
  <2>1. At(t, "cmp_done") /\ completed' = TRUE /\ Wake(t, completion) /\ on' = on
    BY <1>5 DEF Done
  <2>2. Executing(t) /\ pc[t] = "cmp_done"
    BY <1>1, <2>1, AtExecutes DEF Resetting
  <2>3. PICK H : /\ DStep({t}, H, "EOK", {}, {}) /\ H \subseteq ToSet(k.wait[completion])
                 /\ ToSet(k.wait[completion]) # {} => H \cap ToSet(k.wait[completion]) # {}
    BY <1>1, <2>1, <2>2, WakeSteps
  <2>4. CmpInv'
    BY <1>1, <2>1, <2>3, DoneKeeps
  <2>5. \A u \in H : on[u] # None
    BY <1>1, <2>3, WaitersOn
  <2>6. todo[t] = << >> /\ t # Worker
    BY <2>2, Stranger
  <2> QED BY <1>2, <2>2, <2>3, <2>4, <2>5, <2>6
<1> QED BY <1>3, <1>4, <1>5 DEF CompletionStep

\* rt_completion_done from an interrupt handler.
LEMMA DoneIsrWake ==
    ASSUME WakeInv, DqInv, OnCompletion, DoneIsr
    PROVE  WakeInv'
<1>1. /\ DevThreads /\ CmpInv /\ completion \in Queue
      /\ completed' = TRUE /\ WakeIsr(completion) /\ on' = on
  BY ListsDiffer DEF WakeInv, DoneIsr
<1>2. PICK H : /\ DStep({}, H, "EOK", {}, {}) /\ H \subseteq ToSet(k.wait[completion])
               /\ ToSet(k.wait[completion]) # {} => H \cap ToSet(k.wait[completion]) # {}
  BY <1>1, WakeIsrSteps
<1>3. CmpInv'
  BY <1>1, <1>2, DoneKeeps
<1>4. \A u \in H : on[u] # None
  BY <1>1, <1>2, WaitersOn
<1> QED BY <1>2, <1>3, <1>4, OthersOfCmp DEF WakeInv

-----------------------------------------------------------------------------
(* Steps on the data queue.                                                *)

\* Who moves is in no other call, who is resumed was on a list of the queue.
DqAside(T, H, J) ==
    /\ J \cap {completion, wq_sem} = {}
    /\ \A u \in T : todo[u] = << >> /\ u # Worker
    /\ \A u \in H : on[u] # None

\* Steps that leave the other objects alone.
LEMMA OthersOfDq ==
    ASSUME WakeInv, NEW T, NEW H, NEW e, NEW J, NEW A, DStep(T, H, e, J, A), OnDataQueue,
           DqAside(T, H, J), DqWake'
    PROVE  WakeInv'
<1>1. /\ DevThreads /\ CmpInv /\ WqInv /\ PipeWaits
  BY DEF WakeInv
<1>2. /\ completed' = completed /\ UNCHANGED wqvars /\ UNCHANGED pipevars
  BY DEF OnDataQueue
<1>3. DevThreads'
  BY <1>1, DStepThreads
<1>4. CmpInv'
  BY <1>1, <1>2, CmpKept DEF DqAside
<1>5. WqInv'
  BY <1>1, <1>2, WqKept DEF DqAside
<1>6. PipeWaits'
  BY <1>1, <1>2, PipeKept DEF DqAside
<1> QED BY <1>3, <1>4, <1>5, <1>6 DEF WakeInv

\* What there is to have after the step.
LEMMA DqNow ==
    ASSUME NEW n, n = put_index' - get_index', CoveredNext(dq_pop, n),
           CoveredNext(dq_push, WakeLevel - n)
    PROVE  DqWake'
BY DEF DqWake, Covered, CoveredNext, WakeLevel

\* A push: one item more, one place less.
LEMMA PushWakes ==
    ASSUME DevThreads, DqInv, DqWake, NEW v, ~Full, Push(v), NEW T, NEW H,
           DStep(T, H, "EOK", {}, {}), Away(T, dq_pop),
           ToSet(k.wait[dq_pop]) # {} => H \cap ToSet(k.wait[dq_pop]) # {}
    PROVE  DqWake'
<1> DEFINE n == put_index - get_index
<1>1. put_index \in Nat /\ get_index \in Nat /\ n \in Int /\ WakeLevel \in Int
  BY DqCounts DEF DqInv, DqRingOK
<1>2. put_index' = put_index + 1 /\ get_index' = get_index
  BY <1>1, NoIndexWrap DEF Push
<1>3. Covered(dq_pop, n) /\ Covered(dq_push, WakeLevel - n) /\ WakeLevel - n \in Int
  BY <1>1 DEF DqWake
<1>4. CoveredNext(dq_pop, n + 1)
  BY <1>1, <1>3, CoverMore
<1>5. CoveredNext(dq_push, (WakeLevel - n) - 1)
  BY <1>3, CoverLess
<1>6. n + 1 = put_index' - get_index' /\ (WakeLevel - n) - 1 = WakeLevel - (n + 1)
  BY <1>1, <1>2
<1> QED BY <1>4, <1>5, <1>6, DqNow

\* A pop: one item less, one place more; a pusher is resumed when it leaves no
\* more than lwm items.
LEMMA PopWakes ==
    ASSUME DevThreads, DqInv, DqWake, NEW t, ~Empty, Pop(t), NEW T, NEW H,
           DStep(T, H, "EOK", {}, {}), Away(T, dq_push),
           put_index - get_index' <= lwm =>
              (ToSet(k.wait[dq_push]) # {} => H \cap ToSet(k.wait[dq_push]) # {})
    PROVE  DqWake'
<1> DEFINE n == put_index - get_index
<1>1. /\ put_index \in Nat /\ get_index \in Nat /\ n \in Int /\ WakeLevel \in Int
      /\ get_index < MaxIndex /\ lwm \in Nat /\ WakeLevel <= lwm + 1
  BY DqCounts, DqConstants DEF DqInv, DqRingOK, Empty
<1>2. put_index' = put_index /\ get_index' = get_index + 1
  BY <1>1, NoIndexWrap DEF Pop
<1>3. Covered(dq_pop, n) /\ Covered(dq_push, WakeLevel - n) /\ WakeLevel - n \in Int
  BY <1>1 DEF DqWake
<1>4. CoveredNext(dq_pop, n - 1)
  BY <1>1, <1>3, CoverLess
<1>5. n - 1 = put_index' - get_index' /\ (WakeLevel - n) + 1 = WakeLevel - (n - 1)
  BY <1>1, <1>2
<1>6. CoveredNext(dq_push, WakeLevel - (n - 1))
  <2>1. CASE n - 1 <= lwm
    <3>1. put_index - get_index' <= lwm
      BY <1>2, <1>5, <2>1
    <3>2. CoveredNext(dq_push, (WakeLevel - n) + 1)
      BY <1>3, <3>1, CoverMore
    <3> QED BY <1>5, <3>2
  <2>2. CASE ~(n - 1 <= lwm)
    <3>1. WakeLevel - (n - 1) \in Int /\ WakeLevel - (n - 1) <= 0
      BY <1>1, <2>2
    <3> QED BY <3>1, CoverNone
  <2> QED BY <2>1, <2>2
<1> QED BY <1>4, <1>5, <1>6, DqNow

\* Nothing is put or got: a thread that leaves a list, or joins one, finds nothing.
LEMMA DqIdle ==
    ASSUME DevThreads, DqInv, DqWake, NEW T, NEW H, NEW e, NEW J, NEW A, DStep(T, H, e, J, A),
           put_index' = put_index, get_index' = get_index,
           (Away(T, dq_pop) /\ dq_pop \notin J) \/ Empty,
           (Away(T, dq_push) /\ dq_push \notin J) \/ Full
    PROVE  DqWake'
<1> DEFINE n == put_index - get_index
<1>1. /\ put_index \in Nat /\ get_index \in Nat /\ n \in Int /\ WakeLevel \in Int
      /\ WakeLevel <= dq_size /\ dq_size \in Nat /\ WakeLevel - n \in Int
  BY DqCounts DEF DqInv, DqRingOK
<1>2. Covered(dq_pop, n) /\ Covered(dq_push, WakeLevel - n)
  BY DEF DqWake
<1>3. CoveredNext(dq_pop, n)
  <2>1. CASE Away(T, dq_pop) /\ dq_pop \notin J
    BY <1>1, <1>2, <2>1, CoverSame
  <2>2. CASE Empty
    <3>1. n <= 0
      BY <1>1, <2>2 DEF Empty
    <3> QED BY <1>1, <3>1, CoverNone
  <2> QED BY <2>1, <2>2
<1>4. CoveredNext(dq_push, WakeLevel - n)
  <2>1. CASE Away(T, dq_push) /\ dq_push \notin J
    BY <1>1, <1>2, <2>1, CoverSame
  <2>2. CASE Full
    <3>1. WakeLevel - n <= 0
      BY <1>1, <2>2 DEF Full
    <3> QED BY <1>1, <3>1, CoverNone
  <2> QED BY <2>1, <2>2
<1>5. n = put_index' - get_index'
  OBVIOUS
<1> HIDE DEF n
<1> QED BY <1>3, <1>4, <1>5, DqNow

\* A thread that ends a call on the data queue without touching the ring.
LEMMA GivesUpWake ==
    ASSUME WakeInv, DqInv, OnDataQueue, NEW t, Executing(t), GivesUp(t), todo[t] = << >>,
           t # Worker, Away({t}, dq_pop) \/ Empty, Away({t}, dq_push) \/ Full
    PROVE  WakeInv'
<1>1. /\ DevThreads /\ DqWake /\ t \in Thread
      /\ k' = k /\ on' = on /\ Goto(t, "run") /\ put_index' = put_index /\ get_index' = get_index
  BY DEF WakeInv, Executing, GivesUp
<1>2. OnMoves(t) /\ "run" \in Pcs \ (Resetting \cup {"block", "woken"})
  BY <1>1, OnMovesHere DEF Pcs, Resetting
<1>3. DStep({t}, {}, "EOK", {}, {})
  BY <1>1, <1>2, MoveSteps
<1>4. (Away({t}, dq_pop) /\ dq_pop \notin {}) \/ Empty
  OBVIOUS
<1>5. (Away({t}, dq_push) /\ dq_push \notin {}) \/ Full
  OBVIOUS
<1>6. DqWake'
  BY <1>1, <1>3, <1>4, <1>5, DqIdle
<1>7. DqAside({t}, {}, {})
  BY DEF DqAside
<1> QED BY <1>3, <1>6, <1>7, OthersOfDq

\* A thread that begins to wait, or waits again.
LEMMA WaitsOnWake ==
    ASSUME WakeInv, DqInv, OnDataQueue, NEW t, Executing(t), NEW q \in {dq_pop, dq_push}, NEW v,
           NEW time, WaitsOn(t, q, v, time), todo[t] = << >>, t # Worker,
           IF q = dq_pop THEN Empty /\ Away({t}, dq_push) ELSE Full /\ Away({t}, dq_pop)
    PROVE  WakeInv'
<1>1. /\ DevThreads /\ DqWake /\ t \in Thread \ {Idle} /\ k.stat[t] = "READY"
      /\ k' = SuspendAtTail(k, q, t, time) /\ on' = [on EXCEPT ![t] = q] /\ Goto(t, "block")
      /\ put_index' = put_index /\ get_index' = get_index
  BY ExecutingFacts DEF WakeInv, WaitsOn
<1>2. q \in Queue /\ q \notin {completion, wq_sem} /\ dq_pop # dq_push
  BY ListsDiffer
<1>3. PICK A : DTurn({t}, {}, "EOK", {q}, A) /\ k'.lock = k.lock
  BY <1>1, <1>2, WaitTurns
<1>4. DStep({t}, {}, "EOK", {q}, A)
  BY <1>1, <1>2, <1>3, GoesToSleep
<1>5. (Away({t}, dq_pop) /\ dq_pop \notin {q}) \/ Empty
  BY <1>2
<1>6. (Away({t}, dq_push) /\ dq_push \notin {q}) \/ Full
  BY <1>2
<1>7. DqWake'
  BY <1>1, <1>4, <1>5, <1>6, DqIdle
<1>8. DqAside({t}, {}, {q})
  BY <1>2 DEF DqAside
<1> QED BY <1>4, <1>7, <1>8, OthersOfDq

\* A round of rt_data_queue_push.
LEMMA PushRoundWake ==
    ASSUME WakeInv, DqInv, OnDataQueue, NEW t, Executing(t), NEW v, NEW time,
           PushRound(t, v, time), todo[t] = << >>, t # Worker, Away({t}, dq_pop)
    PROVE  WakeInv'
<1>0. dq_pop \in Queue /\ dq_pop # dq_push /\ DevThreads /\ DqWake
  BY ListsDiffer DEF WakeInv
<1>1. CASE ~Full /\ Push(v) /\ Wake(t, dq_pop) /\ Passes(t, None, 0) /\ UNCHANGED on
  <2>1. PICK H : /\ DStep({t}, H, "EOK", {}, {}) /\ H \subseteq ToSet(k.wait[dq_pop])
                 /\ ToSet(k.wait[dq_pop]) # {} => H \cap ToSet(k.wait[dq_pop]) # {}
    BY <1>0, <1>1, WakeSteps
  <2>2. DqWake'
    BY <1>0, <1>1, <2>1, PushWakes
  <2>3. \A u \in H : on[u] # None
    BY <1>0, <2>1, WaitersOn
  <2>4. DqAside({t}, H, {})
    BY <2>3 DEF DqAside
  <2> QED BY <2>1, <2>2, <2>4, OthersOfDq
<1>2. CASE Full /\ GivesUp(t)
  BY <1>2, GivesUpWake
<1>3. CASE Full /\ WaitsOn(t, dq_push, v, time)
  BY <1>0, <1>3, WaitsOnWake
<1> QED BY <1>1, <1>2, <1>3 DEF PushRound

\* A round of rt_data_queue_pop.
LEMMA PopRoundWake ==
    ASSUME WakeInv, DqInv, OnDataQueue, NEW t, Executing(t), NEW time,
           PopRound(t, time), todo[t] = << >>, t # Worker, Away({t}, dq_push)
    PROVE  WakeInv'
<1>0. dq_push \in Queue /\ dq_pop # dq_push /\ DevThreads /\ DqWake /\ t \in Thread
  BY ListsDiffer DEF WakeInv, Executing
<1>1. CASE ~Empty /\ Pop(t) /\ WakePusher(t) /\ Passes(t, None, 0) /\ UNCHANGED on
  <2>1. CASE put_index - get_index' <= lwm /\ Wake(t, dq_push)
    <3>1. PICK H : /\ DStep({t}, H, "EOK", {}, {}) /\ H \subseteq ToSet(k.wait[dq_push])
                   /\ ToSet(k.wait[dq_push]) # {} => H \cap ToSet(k.wait[dq_push]) # {}
      BY <1>0, <1>1, <2>1, WakeSteps
    <3>2. DqWake'
      BY <1>0, <1>1, <3>1, PopWakes
    <3>3. \A u \in H : on[u] # None
      BY <1>0, <3>1, WaitersOn
    <3>4. DqAside({t}, H, {})
      BY <3>3 DEF DqAside
    <3> QED BY <3>1, <3>2, <3>4, OthersOfDq
  <2>2. CASE ~(put_index - get_index' <= lwm) /\ Goto(t, "run") /\ UNCHANGED k
    <3>1. OnMoves(t) /\ "run" \in Pcs \ (Resetting \cup {"block", "woken"})
      BY <1>0, <1>1, OnMovesHere DEF Pcs, Resetting
    <3>2. DStep({t}, {}, "EOK", {}, {})
      BY <1>0, <2>2, <3>1, MoveSteps
    <3>3. DqWake'
      BY <1>0, <1>1, <2>2, <3>2, PopWakes
    <3>4. DqAside({t}, {}, {})
      BY DEF DqAside
    <3> QED BY <3>2, <3>3, <3>4, OthersOfDq
  <2> QED BY <1>1, <2>1, <2>2 DEF WakePusher
<1>2. CASE Empty /\ GivesUp(t)
  BY <1>2, GivesUpWake
<1>3. CASE Empty /\ WaitsOn(t, dq_pop, None, time)
  BY <1>0, <1>3, WaitsOnWake
<1> QED BY <1>1, <1>2, <1>3 DEF PopRound

-----------------------------------------------------------------------------
(* rt_data_queue_reset.                                                    *)

\* The lock count of the scheduler is set.
Locked(c, n) == [c EXCEPT !.lock = n]

\* Nothing else changes.
LEMMA LockedOK ==
    ASSUME NEW c, KernelOK(c), NEW n \in Nat, NEW r, r = Locked(c, n)
    PROVE  /\ KernelOK(r) /\ r.stat = c.stat /\ r.wait = c.wait /\ r.timer = c.timer
           /\ r.error = c.error /\ r.cur = c.cur /\ r.lock = n
<1>1. c \in KernelState /\ KernelInv(c)
  BY DEF KernelOK
<1>2. /\ r \in KernelState
      /\ r.stat = c.stat /\ r.prio = c.prio /\ r.number = c.number
      /\ r.number_mask = c.number_mask /\ r.high_mask = c.high_mask
      /\ r.ready = c.ready /\ r.table = c.table /\ r.group = c.group /\ r.wait = c.wait
      /\ r.timer = c.timer /\ r.error = c.error /\ r.cur = c.cur /\ r.lock = n
  BY <1>1 DEF Locked, KernelState
<1>3. \A u \in r.timer : c.stat[u] = "SUSPEND"
  BY <1>1, <1>2 DEF KernelInv, WaitersSuspended
<1>4. KernelOK(r)
  BY <1>2, <1>3, SetTimerErrorOK
<1> QED BY <1>2, <1>4

\* A thread in a reset runs.
LEMMA ResetRuns ==
    ASSUME DevThreads, NEW t \in Thread, NEW c \in Resetting, At(t, c)
    PROVE  /\ Run({t}) /\ k.stat[t] = "READY" /\ t # Idle /\ k.cur = t /\ pc[t] = c
           /\ on[t] \in {dq_pop, dq_push} /\ k.lock \in {0, 1}
BY DEF DevThreads, CurRunnable, Run, At, Resetting, LockOK

\* It goes on inside the reset.
LEMMA ResetGoesOn ==
    ASSUME DevThreads, NEW t \in Thread, NEW c \in Resetting, At(t, c), NEW H, NEW e,
           DTurn({t}, H, e, {}, {}), k'.lock = k.lock, k'.cur = k.cur, NEW d \in Resetting,
           pc' = [pc EXCEPT ![t] = d], on' = on \/ on' = [on EXCEPT ![t] = dq_push]
    PROVE  DStep({t}, H, e, {}, {})
<1>1. Run({t}) /\ k.cur = t /\ on[t] \in {dq_pop, dq_push}
  BY ResetRuns
<1>2. /\ pc \in [Thread -> Pcs] /\ on \in [Thread -> Queue \cup {None}] /\ LockOK
      /\ {dq_pop, dq_push} \subseteq Queue /\ d \in Pcs
  BY ListsDiffer DEF DevThreads, Resetting, Pcs
<1>3. /\ pc' \in [Thread -> Pcs] /\ pc'[t] = d /\ \A u \in Thread \ {t} : pc'[u] = pc[u]
      /\ on' \in [Thread -> Queue \cup {None}] /\ on'[t] \in {dq_pop, dq_push}
      /\ \A u \in Thread \ {t} : on'[u] = on[u]
  BY <1>1, <1>2
<1>4. Go({t}, {})
  BY <1>3 DEF Go, Moves, Arrive, Resetting
<1>5. LockOK'
  BY <1>1, <1>2, <1>3 DEF LockOK
<1> QED BY <1>1, <1>4, <1>5 DEF DStep

\* Such a step leaves alone what there is to have.
LEMMA ResetKeeps ==
    ASSUME WakeInv, DqInv, OnDataQueue, NEW t \in Thread, NEW H, NEW e, UNCHANGED dqvars,
           DStep({t}, H, e, {}, {}), pc[t] \notin {"block", "woken"}, \A u \in H : on[u] # None,
           todo[t] = << >>, t # Worker
    PROVE  WakeInv'
<1>1. DevThreads /\ DqWake /\ put_index' = put_index /\ get_index' = get_index
  BY DEF WakeInv, dqvars
<1>2. /\ (Away({t}, dq_pop) /\ dq_pop \notin {}) \/ Empty
      /\ (Away({t}, dq_push) /\ dq_push \notin {}) \/ Full
  BY DEF Away, Out
<1>3. DqWake'
  BY <1>1, <1>2, DqIdle
<1>4. DqAside({t}, H, {})
  BY DEF DqAside
<1> QED BY <1>3, <1>4, OthersOfDq

\* The scheduler is locked.
LEMMA ResetCallWake ==
    ASSUME WakeInv, DqInv, OnDataQueue, NEW t \in Thread, rt_data_queue_reset(t), todo[t] = << >>,
           t # Worker
    PROVE  WakeInv'
<1>1. /\ DevThreads /\ Calls(t) /\ k' = rt_enter_critical(k) /\ on' = [on EXCEPT ![t] = dq_pop]
      /\ pc' = [pc EXCEPT ![t] = "dq_test"] /\ UNCHANGED dqvars
  BY DEF WakeInv, rt_data_queue_reset, DqCalls, CallsOn, Goto
<1>2. Executing(t) /\ pc[t] = "run" /\ k.cur = t /\ Run({t}) /\ k.lock = 0
  BY <1>1, AtExecutes DEF Calls, Resetting
<1>3. KernelOK(k) /\ k \in KernelState /\ dq_pop \in Queue
  BY <1>1, ListsDiffer DEF DevThreads, KernelOK
<1>4. k' = Locked(k, 1)
  BY <1>1, <1>2, <1>3 DEF rt_enter_critical, Locked, KernelState
<1>5. /\ KernelOK(k') /\ k'.stat = k.stat /\ k'.wait = k.wait /\ k'.timer = k.timer
      /\ k'.error = k.error /\ k'.cur = k.cur /\ k'.lock = 1
  <2>1. 1 \in Nat
    OBVIOUS
  <2> QED BY <1>3, <1>4, <2>1, LockedOK
<1>6. DTurn({t}, {}, "EOK", {}, {})
  BY <1>5 DEF DTurn
<1>7. /\ pc' \in [Thread -> Pcs] /\ pc'[t] = "dq_test" /\ \A u \in Thread \ {t} : pc'[u] = pc[u]
      /\ on' \in [Thread -> Queue \cup {None}] /\ on'[t] = dq_pop
      /\ \A u \in Thread \ {t} : on'[u] = on[u]
  BY <1>1, <1>3 DEF DevThreads, Pcs
<1>8. Go({t}, {}) /\ LockOK'
  BY <1>2, <1>5, <1>7 DEF Go, Moves, Arrive, LockOK, Resetting
<1>9. DStep({t}, {}, "EOK", {}, {})
  BY <1>2, <1>6, <1>8 DEF DStep
<1> QED BY <1>1, <1>2, <1>9, ResetKeeps

\* The test of a list; the scheduler is unlocked when both are empty.
LEMMA ResetTestWake ==
    ASSUME WakeInv, DqInv, OnDataQueue, NEW t \in Thread, DqResetTest(t)
    PROVE  WakeInv'
<1>1. DevThreads /\ At(t, "dq_test") /\ UNCHANGED dqvars /\ {"dq_test", "dq_resume"} = Resetting
  BY DEF WakeInv, DqResetTest, Resetting
<1>2. /\ Run({t}) /\ k.cur = t /\ pc[t] = "dq_test" /\ on[t] \in {dq_pop, dq_push}
      /\ k.lock \in {0, 1}
  BY <1>1, ResetRuns
<1>3. pc[t] \notin {"block", "woken"} /\ todo[t] = << >> /\ t # Worker
  BY <1>2, Stranger
<1>4. ASSUME DStep({t}, {}, "EOK", {}, {}) PROVE WakeInv'
  BY <1>1, <1>3, <1>4, ResetKeeps
<1>5. CASE Goto(t, "dq_resume") /\ UNCHANGED <<k, on>>
  <2>1. DTurn({t}, {}, "EOK", {}, {}) /\ k'.lock = k.lock /\ k'.cur = k.cur
    BY <1>1, <1>5, StutterTurns
  <2>2. DStep({t}, {}, "EOK", {}, {})
    BY <1>1, <1>5, <2>1, ResetGoesOn DEF Goto
  <2> QED BY <1>4, <2>2
<1>6. CASE on' = [on EXCEPT ![t] = dq_push] /\ UNCHANGED kvars
  <2>1. DTurn({t}, {}, "EOK", {}, {}) /\ k'.lock = k.lock /\ k'.cur = k.cur
    BY <1>1, <1>6, StutterTurns DEF kvars
  <2>2. pc' = [pc EXCEPT ![t] = "dq_test"]
    BY <1>1, <1>2, <1>6 DEF kvars, DevThreads
  <2>3. DStep({t}, {}, "EOK", {}, {})
    BY <1>1, <1>6, <2>1, <2>2, ResetGoesOn
  <2> QED BY <1>4, <2>3
<1>7. CASE k' = rt_exit_critical(k) /\ Goto(t, "resched") /\ UNCHANGED on
  <2> DEFINE c == Locked(k, 0)
  <2>1. k' = rt_schedule(c)
    BY <1>2, <1>7 DEF rt_exit_critical, Locked
  <2>2. KernelOK(k)
    BY <1>1 DEF DevThreads
  <2>3. /\ KernelOK(c) /\ c.stat = k.stat /\ c.wait = k.wait /\ c.timer = k.timer
        /\ c.error = k.error /\ c.cur = k.cur /\ c.lock = 0
    <3>1. 0 \in Nat
      OBVIOUS
    <3> HIDE DEF c
    <3>2. c = Locked(k, 0)
      BY DEF c
    <3> QED BY <2>2, <3>1, <3>2, LockedOK
  <2> HIDE DEF c
  <2>4. /\ KernelOK(k') /\ k'.stat = c.stat /\ k'.error = c.error
        /\ k'.wait = c.wait /\ k'.timer = c.timer /\ k'.lock = 0
        /\ k'.stat[k'.cur] = "READY"
    BY <2>1, <2>3, ScheduleOK DEF CurIsHighest
  <2>5. DTurn({t}, {}, "EOK", {}, {})
    BY <2>3, <2>4 DEF DTurn
  <2>6. /\ pc' \in [Thread -> Pcs] /\ pc'[t] = "resched"
        /\ \A u \in Thread \ {t} : pc'[u] = pc[u]
        /\ on' \in [Thread -> Queue \cup {None}] /\ on' = on
    BY <1>1, <1>7 DEF DevThreads, Pcs, Goto
  <2>7. Go({t}, {}) /\ LockOK'
    BY <2>4, <2>6 DEF Go, Moves, Arrive, LockOK, Resetting
  <2>8. DStep({t}, {}, "EOK", {}, {})
    BY <1>2, <2>5, <2>7 DEF DStep
  <2> QED BY <1>4, <2>8
<1> QED BY <1>5, <1>6, <1>7 DEF DqResetTest

\* The first of the list is resumed with RT_ERROR.
LEMMA ResetResumeWake ==
    ASSUME WakeInv, DqInv, OnDataQueue, NEW t \in Thread, DqResetResume(t)
    PROVE  WakeInv'
<1>1. /\ DevThreads /\ At(t, "dq_resume") /\ UNCHANGED dqvars /\ on' = on
      /\ pc' = [pc EXCEPT ![t] = "dq_test"] /\ {"dq_test", "dq_resume"} = Resetting
  BY DEF WakeInv, DqResetResume, Resetting, Goto
<1>2. /\ Run({t}) /\ k.cur = t /\ pc[t] = "dq_resume" /\ on[t] \in {dq_pop, dq_push}
      /\ k.stat[t] = "READY"
  BY <1>1, ResetRuns
<1>3. pc[t] \notin {"block", "woken"} /\ todo[t] = << >> /\ t # Worker
  BY <1>2, Stranger
<1>4. on[t] \in Queue /\ KernelOK(k)
  BY <1>1, <1>2, ListsDiffer DEF DevThreads
<1>5. CASE k' = k
  <2>1. DTurn({t}, {}, "EOK", {}, {}) /\ k'.lock = k.lock /\ k'.cur = k.cur
    BY <1>1, <1>5, StutterTurns
  <2>2. DStep({t}, {}, "EOK", {}, {})
    BY <1>1, <2>1, ResetGoesOn
  <2> QED BY <1>1, <1>3, <2>2, ResetKeeps
<1>6. CASE k.wait[on[t]] # << >> /\ k' = ResumeWithError(k, on[t])
  <2> DEFINE h == Head(k.wait[on[t]])
  <2>1. h \notin {t}
    BY <1>2, <1>4, <1>6, WaitHead
  <2>2. /\ DTurn({t}, {h}, "ERROR", {}, {}) /\ h \in ToSet(k.wait[on[t]])
        /\ k'.lock = k.lock /\ k'.cur = k.cur
    BY <1>1, <1>4, <1>6, <2>1, ErrorTurns
  <2> HIDE DEF h
  <2>3. DStep({t}, {h}, "ERROR", {}, {})
    BY <1>1, <2>2, ResetGoesOn
  <2>4. \A u \in {h} : on[u] # None
    BY <1>1, <1>4, <2>2, WaitersOn
  <2> QED BY <1>1, <1>3, <2>3, <2>4, ResetKeeps
<1> QED BY <1>5, <1>6 DEF DqResetResume

\* Calls on the data queue.
LEMMA DataQueueCallWake ==
    ASSUME WakeInv, DqInv, OnDataQueue, NEW t \in Thread, DataQueueCall(t), todo[t] = << >>,
           t # Worker
    PROVE  WakeInv'
<1>1. DevThreads /\ DqWake /\ Calls(t)
  BY DEF WakeInv, DataQueueCall, rt_data_queue_push, rt_data_queue_pop, UseItem,
         rt_data_queue_reset, DqCalls, CallsOn
<1>2. Executing(t) /\ pc[t] = "run"
  BY <1>1, AtExecutes DEF Calls, Resetting
<1>3. Away({t}, dq_pop) /\ Away({t}, dq_push)
  BY <1>2 DEF Away, Out
<1>4. ASSUME NEW v \in Item, NEW time, rt_data_queue_push(t, v, time) PROVE WakeInv'
  BY <1>2, <1>3, <1>4, PushRoundWake DEF rt_data_queue_push
<1>5. ASSUME NEW time, rt_data_queue_pop(t, time) PROVE WakeInv'
  BY <1>2, <1>3, <1>5, PopRoundWake DEF rt_data_queue_pop
<1>6. ASSUME UseItem(t) PROVE WakeInv'
  <2>1. k' = k /\ pc' = pc /\ on' = on /\ put_index' = put_index /\ get_index' = get_index
    BY <1>6 DEF UseItem, kvars
  <2>2. DStep({}, {}, "EOK", {}, {})
    BY <1>1, <2>1, StutterSteps
  <2>3. /\ (Away({}, dq_pop) /\ dq_pop \notin {}) \/ Empty
        /\ (Away({}, dq_push) /\ dq_push \notin {}) \/ Full
    BY DEF Away
  <2>4. DqWake'
    BY <1>1, <2>1, <2>2, <2>3, DqIdle
  <2>5. DqAside({}, {}, {})
    BY DEF DqAside
  <2> QED BY <2>2, <2>4, <2>5, OthersOfDq
<1> QED BY <1>4, <1>5, <1>6, ResetCallWake DEF DataQueueCall

\* The steps of a thread in such a call.
LEMMA DataQueueStepWake ==
    ASSUME WakeInv, DqInv, OnDataQueue, NEW t \in Thread, DataQueueStep(t)
    PROVE  WakeInv'
<1>0. DevThreads /\ {dq_pop, dq_push} \cap {None, pipe_lock} = {} /\ dq_pop # dq_push
  BY ListsDiffer DEF WakeInv
<1>1. ASSUME At(t, "woken"), on[t] \in {dq_pop, dq_push}
      PROVE  Executing(t) /\ pc[t] = "woken" /\ todo[t] = << >> /\ t # Worker
  <2>1. Executing(t) /\ pc[t] = "woken"
    BY <1>0, <1>1, AtExecutes DEF Resetting
  <2>2. on[t] \notin {None, pipe_lock}
    BY <1>0, <1>1
  <2> QED BY <2>1, <2>2, Stranger
<1>2. ASSUME PushResumed(t) PROVE WakeInv'
  <2>1. Executing(t) /\ pc[t] = "woken" /\ on[t] = dq_push /\ todo[t] = << >> /\ t # Worker
    BY <1>1, <1>2 DEF PushResumed
  <2>2. Away({t}, dq_pop)
    BY <1>0, <2>1 DEF Away, Out
  <2>3. CASE k.error[t] # "EOK" /\ GivesUp(t)
    <3>1. Away({t}, dq_push)
      BY <2>3 DEF Away, Out
    <3> QED BY <2>1, <2>2, <2>3, <3>1, GivesUpWake
  <2>4. CASE PushRound(t, item[t], timeout[t])
    BY <2>1, <2>2, <2>4, PushRoundWake
  <2> QED BY <1>2, <2>3, <2>4 DEF PushResumed
<1>3. ASSUME PopResumed(t) PROVE WakeInv'
  <2>1. Executing(t) /\ pc[t] = "woken" /\ on[t] = dq_pop /\ todo[t] = << >> /\ t # Worker
    BY <1>1, <1>3 DEF PopResumed
  <2>2. Away({t}, dq_push)
    BY <1>0, <2>1 DEF Away, Out
  <2>3. CASE k.error[t] # "EOK" /\ GivesUp(t)
    <3>1. Away({t}, dq_pop)
      BY <2>3 DEF Away, Out
    <3> QED BY <2>1, <2>2, <2>3, <3>1, GivesUpWake
  <2>4. CASE PopRound(t, timeout[t])
    BY <2>1, <2>2, <2>4, PopRoundWake
  <2> QED BY <1>3, <2>3, <2>4 DEF PopResumed
<1> QED BY <1>2, <1>3, ResetTestWake, ResetResumeWake DEF DataQueueStep

\* rt_data_queue_push from an interrupt handler.
LEMMA DataQueueIsrWake ==
    ASSUME WakeInv, DqInv, OnDataQueue, DataQueueIsr
    PROVE  WakeInv'
<1>1. PICK v \in Item : PushIsr(v)
  BY DEF DataQueueIsr
<1>2. /\ DevThreads /\ DqWake /\ dq_pop \in Queue
      /\ ~Full /\ Push(v) /\ WakeIsr(dq_pop) /\ on' = on
  BY <1>1, ListsDiffer DEF WakeInv, PushIsr
<1>3. PICK H : /\ DStep({}, H, "EOK", {}, {}) /\ H \subseteq ToSet(k.wait[dq_pop])
               /\ ToSet(k.wait[dq_pop]) # {} => H \cap ToSet(k.wait[dq_pop]) # {}
  BY <1>2, WakeIsrSteps
<1>4. Away({}, dq_pop)
  BY DEF Away
<1>5. DqWake'
  BY <1>2, <1>3, <1>4, PushWakes
<1>6. \A u \in H : on[u] # None
  BY <1>2, <1>3, WaitersOn
<1>7. DqAside({}, H, {})
  BY <1>6 DEF DqAside
<1> QED BY <1>3, <1>5, <1>7, OthersOfDq

-----------------------------------------------------------------------------
(* Steps on the work queue.                                                *)

\* Who moves is in no other call; who is resumed sleeps in none on the pipe.
WqAside(T, H, J) ==
    /\ J \cap {completion, dq_pop, dq_push} = {}
    /\ \A u \in T : /\ todo[u] = << >>
                    /\ pc[u] \in {"block", "woken"} => on[u] \notin {dq_pop, dq_push}
    /\ \A u \in H : on[u] # None \/ u \in k.timer \/ todo[u] = << >>

\* Steps that leave the other objects alone.
LEMMA OthersOfWq ==
    ASSUME WakeInv, DqInv, NEW T, NEW H, NEW e, NEW J, NEW A, DStep(T, H, e, J, A), OnWorkQueue,
           WqAside(T, H, J), WqInv'
    PROVE  WakeInv'
<1>1. /\ DevThreads /\ CmpInv /\ DqWake /\ PipeWaits
  BY DEF WakeInv
<1>2. /\ completed' = completed /\ put_index' = put_index /\ get_index' = get_index
      /\ UNCHANGED pipevars
  BY DEF OnWorkQueue, dqvars
<1>3. DevThreads'
  BY <1>1, DStepThreads
<1>4. CmpInv'
  BY <1>1, <1>2, CmpKept DEF WqAside
<1>5. DqWake'
  <2>1. /\ J \cap {dq_pop, dq_push} = {}
        /\ \A u \in T : pc[u] \in {"block", "woken"} => on[u] \notin {dq_pop, dq_push}
    BY DEF WqAside
  <2> QED BY <1>1, <1>2, <2>1, DqKept
<1>6. PipeWaits'
  BY <1>1, <1>2, PipeKept DEF WqAside
<1> QED BY <1>3, <1>4, <1>5, <1>6 DEF WakeInv

\* The worker is in no call on the pipe.
LEMMA WorkerFree ==
    ASSUME WakeInv
    PROVE  /\ todo[Worker] = << >> /\ on[Worker] = None /\ Worker \in Thread \ {Idle}
           /\ wq_sem \in Queue /\ wq_sem \notin {completion, dq_pop, dq_push, None}
           /\ None \notin {dq_pop, dq_push, completion} /\ None \notin Work
<1>1. Worker \in Thread \ {Idle} /\ None \notin Work
  BY WorkQueueAssumption
<1>2. InPipe(Worker)
  BY <1>1 DEF WakeInv, PipeWaits
<1> QED BY <1>1, <1>2, ListsDiffer DEF InPipe, WakeInv, WqInv

\* A step of another thread.
LEMMA WqOther ==
    ASSUME WqInv, NEW T, NEW H, NEW e, NEW J, NEW A, DStep(T, H, e, J, A), Worker \notin T,
           work_list' \in Seq(Work), IsInjective(work_list)', work_current' = work_current,
           wq_sem \in J => work_current # None
    PROVE  WqInv'
<1>1. wq_sem \in Queue /\ Worker \in Thread
  BY ListsAssumption, WorkQueueAssumption
<1>2. wq_sem \notin J => ToSet(k'.wait[wq_sem]) \subseteq ToSet(k.wait[wq_sem])
  BY <1>1 DEF DStep, DTurn
<1>3. pc'[Worker] = pc[Worker] /\ on'[Worker] = on[Worker]
  BY <1>1 DEF DStep, Go, Moves
<1> QED BY <1>2, <1>3 DEF WqInv, WorkQueueTypeOK

\* A step of the worker.
LEMMA WqOwn ==
    ASSUME WqInv, NEW H, NEW J, NEW A, DStep({Worker}, H, "EOK", J, A), wq_sem \notin J,
           work_list' \in Seq(Work), IsInjective(work_list)', work_current' \in Work \cup {None},
           on'[Worker] = None, pc'[Worker] \in WorkerPcs,
           work_current' # None => pc'[Worker] = "wq_do",
           \/ pc'[Worker] \in {"wq_do", "wq_ack"}
           \/ pc[Worker] \notin {"wq_do", "wq_ack"}
           \/ H = ToSet(k.wait[wq_sem])
    PROVE  WqInv'
<1>1. wq_sem \in Queue /\ Worker \in Thread
  BY ListsAssumption, WorkQueueAssumption
<1>2. ToSet(k'.wait[wq_sem]) = ToSet(k.wait[wq_sem]) \ H
  BY <1>1 DEF DStep, DTurn
<1>3. ToSet(k'.wait[wq_sem]) # {} => pc'[Worker] \in {"wq_do", "wq_ack"}
  BY <1>2 DEF WqInv
<1> QED BY <1>3 DEF WqInv, WorkQueueTypeOK

\* The first work is taken off the list.
LEMMA TakesWork ==
    ASSUME NEW s \in Seq(Work), IsInjective(s), s # << >>
    PROVE  Head(s) \in Work /\ Tail(s) \in Seq(Work) /\ IsInjective(Tail(s))
<1>1. Head(s) \in Work /\ Tail(s) \in Seq(Work) /\ Len(Tail(s)) = Len(s) - 1
      /\ \A i \in 1 .. Len(s) - 1 : Tail(s)[i] = s[i + 1]
  OBVIOUS
<1>2. \A a, b \in 1 .. Len(s) : s[a] = s[b] => a = b
  BY ListIndex
<1>3. \A a, b \in 1 .. Len(Tail(s)) : Tail(s)[a] = Tail(s)[b] => a = b
  BY <1>1, <1>2
<1>4. IsInjective(Tail(s))
  <2> DEFINE z == Tail(s)
  <2>1. z \in Seq(Work) /\ \A a, b \in 1 .. Len(z) : z[a] = z[b] => a = b
    BY <1>1, <1>3
  <2> HIDE DEF z
  <2>2. IsInjective(z)
    BY <2>1, ListIndex
  <2> QED BY <2>2 DEF z
<1> QED BY <1>1, <1>4

\* A work goes to the end of the list, or out of it.
LEMMA ListsWork ==
    ASSUME NEW s \in Seq(Work), IsInjective(s), NEW w \in Work
    PROVE  /\ RemoveFirst(s, w) \in Seq(Work) /\ IsInjective(RemoveFirst(s, w))
           /\ Append(RemoveFirst(s, w), w) \in Seq(Work)
           /\ IsInjective(Append(RemoveFirst(s, w), w))
<1> DEFINE r == RemoveFirst(s, w)
<1>1. r \in Seq(Work) /\ ToSet(r) = ToSet(s) \ {w} /\ IsInjective(r)
  BY ListRemove
<1>2. w \notin ToSet(r)
  BY <1>1
<1> HIDE DEF r
<1>3. Append(r, w) \in Seq(Work) /\ IsInjective(Append(r, w))
  BY <1>1, <1>2, ListAppend
<1> QED BY <1>1, <1>3 DEF r

\* The loop of the worker.
LEMMA WorkerWake ==
    ASSUME WakeInv, DqInv, OnWorkQueue,
           WorkerTest \/ WorkerSuspend \/ WorkerTake \/ WorkerClean \/ WorkerAck
    PROVE  WakeInv'
<1>0. /\ DevThreads /\ WqInv /\ todo[Worker] = << >> /\ on[Worker] = None
      /\ Worker \in Thread \ {Idle} /\ wq_sem \in Queue
      /\ wq_sem \notin {completion, dq_pop, dq_push, None}
      /\ None \notin {dq_pop, dq_push, completion} /\ None \notin Work
  BY WorkerFree DEF WakeInv
<1>1. /\ work_list \in Seq(Work) /\ IsInjective(work_list) /\ work_current \in Work \cup {None}
      /\ work_current # None => pc[Worker] = "wq_do"
      /\ pc \in [Thread -> Pcs] /\ on \in [Thread -> Queue \cup {None}]
  BY <1>0 DEF WqInv, WorkQueueTypeOK, DevThreads
<1>2. WqAside({Worker}, {}, {}) /\ WqAside({Worker}, {}, {None}) /\ WqAside({}, {}, {})
  BY <1>0 DEF WqAside
<1>3. ASSUME NEW c, At(Worker, c), c \in {"run", "woken", "wq_take", "wq_do", "wq_ack"}
      PROVE  Executing(Worker) /\ pc[Worker] = c /\ k.stat[Worker] = "READY"
  BY <1>0, <1>3, AtExecutes DEF Resetting
<1>4. ASSUME NEW c, NEW d, At(Worker, c), c \in {"run", "woken", "wq_take", "wq_do"},
             k' = k, on' = on, Goto(Worker, d),
             d \in {"wq_suspend", "wq_take", "wq_do", "wq_ack"},
             c = "wq_do" => d = "wq_ack",
             work_list' \in Seq(Work), IsInjective(work_list)', work_current' \in Work \cup {None},
             work_current' # None => d = "wq_do"
      PROVE  WakeInv'
  <2>1. Executing(Worker) /\ pc[Worker] = c
    BY <1>3, <1>4
  <2>2. OnMoves(Worker) /\ d \in Pcs \ (Resetting \cup {"block", "woken"})
    BY <1>0, <1>4, OnMovesHere DEF Pcs, Resetting
  <2>3. DStep({Worker}, {}, "EOK", {}, {})
    BY <1>0, <1>4, <2>1, <2>2, MoveSteps
  <2>4. pc'[Worker] = d /\ d \in WorkerPcs /\ on'[Worker] = None
    BY <1>0, <1>1, <1>4 DEF Goto, WorkerPcs
  <2>5. d \in {"wq_do", "wq_ack"} \/ c \notin {"wq_do", "wq_ack"}
    BY <1>4
  <2>6. WqInv'
    BY <1>0, <1>4, <2>1, <2>3, <2>4, <2>5, WqOwn
  <2> QED BY <1>2, <2>3, <2>6, OthersOfWq
<1>5. ASSUME WorkerTest PROVE WakeInv'
  <2> DEFINE d == IF work_list = << >> THEN "wq_suspend" ELSE "wq_take"
  <2>1. /\ At(Worker, "run") /\ Goto(Worker, d) /\ k' = k /\ on' = on
        /\ work_list' = work_list /\ work_current' = work_current
    BY <1>5 DEF WorkerTest, wqvars
  <2>2. pc[Worker] = "run" /\ work_current = None
    BY <1>1, <2>1 DEF At
  <2>3. d \in {"wq_suspend", "wq_take", "wq_do", "wq_ack"}
    OBVIOUS
  <2> HIDE DEF d
  <2> QED BY <1>1, <1>4, <2>1, <2>2, <2>3
<1>6. ASSUME WorkerSuspend PROVE WakeInv'
  <2>1. /\ At(Worker, "wq_suspend") /\ k' = rt_thread_suspend(k, Worker)
        /\ on' = [on EXCEPT ![Worker] = None] /\ Goto(Worker, "block")
        /\ work_list' = work_list /\ work_current' = work_current
    BY <1>6 DEF WorkerSuspend, wqvars
  <2>2. Executing(Worker) /\ pc[Worker] = "wq_suspend" /\ k.stat[Worker] = "READY"
    BY <1>0, <2>1, AtExecutes DEF Resetting
  <2>3. PlacesKept(k)
    BY <1>0 DEF DevThreads, PlacesKept, SamePlaces
  <2>4. Joined(rt_thread_suspend(k, Worker), Worker, None)
    BY <1>0, <2>2, <2>3, SuspendJoins
  <2>5. DTurn({Worker}, {}, "EOK", {None}, {}) /\ k'.lock = k.lock
    BY <1>0, <2>1, <2>4, JoinedTurns
  <2>6. DStep({Worker}, {}, "EOK", {None}, {})
    BY <1>0, <2>1, <2>2, <2>5, GoesToSleep
  <2>7. pc'[Worker] = "block" /\ pc'[Worker] \in WorkerPcs /\ on'[Worker] = None
    BY <1>0, <1>1, <2>1 DEF Goto, WorkerPcs
  <2>8. pc[Worker] \notin {"wq_do", "wq_ack"} /\ work_current = None /\ wq_sem \notin {None}
    BY <1>0, <1>1, <2>2
  <2>9. WqInv'
    BY <1>0, <1>1, <2>1, <2>6, <2>7, <2>8, WqOwn
  <2> QED BY <1>2, <2>6, <2>9, OthersOfWq
<1>7. ASSUME WorkerTake PROVE WakeInv'
  <2>1. (At(Worker, "wq_take") \/ At(Worker, "woken")) /\ k' = k /\ on' = on
    BY <1>7 DEF WorkerTake
  <2>2. CASE work_list = << >>
    <3>1. pc' = pc /\ work_list' = work_list /\ work_current' = work_current
      BY <1>7, <2>2 DEF WorkerTake, wqvars
    <3>2. DStep({}, {}, "EOK", {}, {})
      BY <1>0, <2>1, <3>1, StutterSteps
    <3>3. WqInv'
      BY <1>0, <2>1, <3>1 DEF WqInv, WorkQueueTypeOK
    <3> QED BY <1>2, <3>2, <3>3, OthersOfWq
  <2>3. CASE work_list # << >>
    <3>1. work_current' = Head(work_list) /\ work_list' = Tail(work_list) /\ Goto(Worker, "wq_do")
      BY <1>7, <2>3 DEF WorkerTake
    <3>2. Head(work_list) \in Work /\ Tail(work_list) \in Seq(Work) /\ IsInjective(Tail(work_list))
      BY <1>1, <2>3, TakesWork
    <3>3. work_list' \in Seq(Work) /\ IsInjective(work_list)' /\ work_current' \in Work \cup {None}
      BY <3>1, <3>2
    <3> QED BY <1>4, <2>1, <3>1, <3>3
  <2> QED BY <2>2, <2>3
<1>8. ASSUME WorkerClean PROVE WakeInv'
  <2>1. /\ At(Worker, "wq_do") /\ Goto(Worker, "wq_ack") /\ k' = k /\ on' = on
        /\ work_list' = work_list /\ work_current' = None
    BY <1>8 DEF WorkerClean
  <2> QED BY <1>1, <1>4, <2>1
<1>9. ASSUME WorkerAck PROVE WakeInv'
  <2> DEFINE H == ToSet(k.wait[wq_sem])
  <2>1. /\ At(Worker, "wq_ack") /\ k' = rt_schedule(AckAll(k, wq_sem))
        /\ pc' = [pc EXCEPT ![Worker] = "run"] /\ on' = on
        /\ work_list' = work_list /\ work_current' = work_current
    BY <1>9 DEF WorkerAck, AckAll, wqvars, Goto
  <2>2. Executing(Worker) /\ pc[Worker] = "wq_ack" /\ k.stat[Worker] = "READY"
    BY <1>3, <2>1
  <2>3. H \cap {Worker} = {}
    BY <1>0, <2>2 DEF DevThreads, KernelOK, KernelInv, WaitersSuspended
  <2>4. {Worker} \in SUBSET Thread
    BY <1>0
  <2>5. DTurn({Worker}, H, "EOK", {}, {}) /\ k'.lock = k.lock
    BY <1>0, <2>1, <2>3, <2>4, AckTurns
  <2>6. OnMoves(Worker) /\ "run" \in Pcs \ (Resetting \cup {"block", "woken"})
    BY <1>0, <2>1, OnMovesHere DEF Pcs, Resetting
  <2>7. \A u \in H : on[u] = wq_sem
    BY <1>0 DEF DevThreads, DevWaiting
  <2>8. H = ToSet(k.wait[wq_sem])
    OBVIOUS
  <2> HIDE DEF H
  <2>9. DStep({Worker}, H, "EOK", {}, {})
    BY <1>0, <2>1, <2>2, <2>5, <2>6, GoesOn
  <2>10. pc'[Worker] = "run" /\ pc'[Worker] \in WorkerPcs /\ on'[Worker] = None
    BY <1>0, <1>1, <2>1 DEF WorkerPcs
  <2>11. work_current = None
    BY <1>1, <2>2
  <2>12. WqInv'
    BY <1>0, <1>1, <2>1, <2>8, <2>9, <2>10, <2>11, WqOwn
  <2>13. WqAside({Worker}, H, {})
    BY <1>0, <2>7 DEF WqAside
  <2> QED BY <2>9, <2>12, <2>13, OthersOfWq
<1> QED BY <1>5, <1>6, <1>7, <1>8, <1>9

\* Calls on the work queue.
LEMMA WorkQueueCallWake ==
    ASSUME WakeInv, DqInv, OnWorkQueue, NEW t \in Thread, WorkQueueCall(t), todo[t] = << >>,
           t # Worker
    PROVE  WakeInv'
<1>0. /\ DevThreads /\ WqInv /\ wq_sem \in Queue /\ Calls(t)
      /\ wq_sem \notin {completion, dq_pop, dq_push, None} /\ None \notin Work
  BY WorkerFree DEF WakeInv, WorkQueueCall, rt_workqueue_dowork, rt_workqueue_cancel_work,
     rt_workqueue_cancel_work_sync, rt_workqueue_cancel_all_work, WqCalls, CallsOn
<1>1. work_list \in Seq(Work) /\ IsInjective(work_list) /\ work_current \in Work \cup {None}
  BY <1>0 DEF WqInv, WorkQueueTypeOK
<1>2. Executing(t) /\ pc[t] = "run" /\ k.stat[t] = "READY" /\ t \in Thread \ {Idle}
  BY <1>0, AtExecutes DEF Calls, Resetting
<1>3. WqAside({}, {}, {}) /\ WqAside({t}, {}, {}) /\ WqAside({t}, {}, {wq_sem})
  BY <1>0, <1>2 DEF WqAside
<1>4. ASSUME k' = k, pc' = pc, on' = on, work_list' \in Seq(Work), IsInjective(work_list)',
             work_current' = work_current
      PROVE  WakeInv'
  <2>1. DStep({}, {}, "EOK", {}, {})
    BY <1>0, <1>4, StutterSteps
  <2>2. WqInv'
    BY <1>0, <1>4, <2>1, WqOther
  <2> QED BY <1>3, <2>1, <2>2, OthersOfWq
<1>5. ASSUME NEW w \in Work, rt_workqueue_dowork(t, w) PROVE WakeInv'
  <2>1. /\ k' = k /\ on' = on /\ work_current' = work_current
        /\ work_list' = Append(RemoveFirst(work_list, w), w)
        /\ pc' = pc \/ Goto(t, "wq_resume")
    BY <1>5 DEF rt_workqueue_dowork
  <2>2. work_list' \in Seq(Work) /\ IsInjective(work_list)'
    BY <1>1, <2>1, ListsWork
  <2>3. CASE pc' = pc
    BY <1>4, <2>1, <2>2, <2>3
  <2>4. CASE Goto(t, "wq_resume")
    <3>1. OnMoves(t) /\ "wq_resume" \in Pcs \ (Resetting \cup {"block", "woken"})
      BY <1>0, <2>1, OnMovesHere DEF Pcs, Resetting
    <3>2. DStep({t}, {}, "EOK", {}, {})
      BY <1>0, <1>2, <2>1, <2>4, <3>1, MoveSteps
    <3>3. WqInv'
      BY <1>0, <2>1, <2>2, <3>2, WqOther
    <3> QED BY <1>3, <3>2, <3>3, OthersOfWq
  <2> QED BY <2>1, <2>3, <2>4
<1>6. ASSUME NEW w \in Work, Removed(t, w) PROVE WakeInv'
  <2>1. /\ k' = k /\ pc' = pc /\ on' = on /\ work_current' = work_current
        /\ work_list' = RemoveFirst(work_list, w)
    BY <1>6 DEF Removed, kvars
  <2>2. work_list' \in Seq(Work) /\ IsInjective(work_list)'
    BY <1>1, <2>1, ListsWork
  <2> QED BY <1>4, <2>1, <2>2
<1>7. ASSUME NEW w \in Work, rt_workqueue_cancel_work_sync(t, w) PROVE WakeInv'
  <2>1. CASE Removed(t, w)
    BY <1>6, <2>1
  <2>2. CASE /\ work_current = w /\ k' = SuspendOn(k, wq_sem, t, -1)
             /\ on' = [on EXCEPT ![t] = wq_sem] /\ Goto(t, "block") /\ UNCHANGED wqvars
    <3>1. PICK A : DTurn({t}, {}, "EOK", {wq_sem}, A) /\ k'.lock = k.lock
      BY <1>0, <1>2, <2>2, WaitTurns
    <3>2. DStep({t}, {}, "EOK", {wq_sem}, A)
      BY <1>0, <1>2, <2>2, <3>1, GoesToSleep
    <3>3. /\ work_list' \in Seq(Work) /\ IsInjective(work_list)' /\ work_current' = work_current
          /\ work_current # None
      BY <1>0, <1>1, <2>2 DEF wqvars
    <3>4. WqInv'
      BY <1>0, <3>2, <3>3, WqOther
    <3> QED BY <1>3, <3>2, <3>4, OthersOfWq
  <2> QED BY <1>7, <2>1, <2>2 DEF rt_workqueue_cancel_work_sync
<1>8. ASSUME rt_workqueue_cancel_all_work(t) PROVE WakeInv'
  <2>1. /\ k' = k /\ pc' = pc /\ on' = on /\ work_current' = work_current /\ work_list' = << >>
    BY <1>8 DEF rt_workqueue_cancel_all_work, kvars
  <2>2. work_list' \in Seq(Work) /\ IsInjective(work_list)'
    BY <2>1 DEF IsInjective
  <2> QED BY <1>4, <2>1, <2>2
<1> QED BY <1>5, <1>6, <1>7, <1>8 DEF WorkQueueCall, rt_workqueue_cancel_work

\* The worker's steps, and those of a thread in a call on the queue.
LEMMA WorkQueueStepWake ==
    ASSUME WakeInv, DqInv, OnWorkQueue, NEW t \in Thread, WorkQueueStep(t)
    PROVE  WakeInv'
<1>0. /\ DevThreads /\ WqInv /\ wq_sem \in Queue /\ todo[Worker] = << >>
      /\ wq_sem \notin {completion, dq_pop, dq_push, None, pipe_lock} /\ Worker \in Thread
  BY WorkerFree, ListsDiffer DEF WakeInv
<1>1. work_list \in Seq(Work) /\ IsInjective(work_list) /\ work_current \in Work \cup {None}
  BY <1>0 DEF WqInv, WorkQueueTypeOK
<1>2. ASSUME ResumeWorker(t) PROVE WakeInv'
  <2>1. /\ At(t, "wq_resume") /\ k' = rt_thread_resume(k, Worker)
        /\ pc' = [pc EXCEPT ![t] = "resched"] /\ on' = on
        /\ work_list' = work_list /\ work_current' = work_current
    BY <1>2 DEF ResumeWorker, Goto, wqvars
  <2>2. Executing(t) /\ pc[t] = "wq_resume"
    BY <1>0, <2>1, AtExecutes DEF Resetting
  <2>3. todo[t] = << >> /\ t # Worker
    BY <2>2, Stranger
  <2>4. PICK H \in {{Worker}, {}} : DTurn({t}, H, "EOK", {}, {}) /\ k'.lock = k.lock
    <3>1. Worker \notin {t}
      BY <2>3
    <3> QED BY <1>0, <2>1, <3>1, ResumeTurns
  <2>5. OnMoves(t) /\ "resched" \in Pcs \ (Resetting \cup {"block", "woken"})
    BY <1>0, <2>1, OnMovesHere DEF Pcs, Resetting
  <2>6. DStep({t}, H, "EOK", {}, {})
    BY <1>0, <2>1, <2>2, <2>4, <2>5, GoesOn
  <2>7. WqInv'
    <3>1. Worker \notin {t} /\ wq_sem \notin {}
      BY <2>3
    <3> QED BY <1>0, <1>1, <2>1, <2>6, <3>1, WqOther
  <2>8. WqAside({t}, H, {})
    BY <1>0, <2>2, <2>3, <2>4 DEF WqAside
  <2> QED BY <2>6, <2>7, <2>8, OthersOfWq
<1>3. ASSUME CancelSyncReturn(t) PROVE WakeInv'
  <2>1. /\ At(t, "woken") /\ on[t] = wq_sem /\ t # Worker /\ Goto(t, "run")
        /\ k' = k /\ on' = on /\ work_list' = work_list /\ work_current' = work_current
    BY <1>3 DEF CancelSyncReturn, wqvars
  <2>2. Executing(t) /\ pc[t] = "woken"
    BY <1>0, <2>1, AtExecutes DEF Resetting
  <2>3. todo[t] = << >>
    BY <1>0, <2>1, <2>2, Stranger
  <2>4. OnMoves(t) /\ "run" \in Pcs \ (Resetting \cup {"block", "woken"})
    BY <1>0, <2>1, OnMovesHere DEF Pcs, Resetting
  <2>5. DStep({t}, {}, "EOK", {}, {})
    BY <1>0, <2>1, <2>2, <2>4, MoveSteps
  <2>6. WqInv'
    <3>1. Worker \notin {t} /\ wq_sem \notin {}
      BY <2>1
    <3> QED BY <1>0, <1>1, <2>1, <2>5, <3>1, WqOther
  <2>7. WqAside({t}, {}, {})
    BY <1>0, <2>1, <2>3 DEF WqAside
  <2> QED BY <2>5, <2>6, <2>7, OthersOfWq
<1> QED BY <1>2, <1>3, WorkerWake DEF WorkQueueStep

-----------------------------------------------------------------------------
(* What is left of a call on the pipe.                                     *)

\* The members of a sequence are its head and those of its tail.
LEMMA HeadAndTail ==
    ASSUME NEW S, NEW s \in Seq(S), s # << >>
    PROVE  ToSet(s) = {Head(s)} \cup ToSet(Tail(s)) /\ Tail(s) \in Seq(S)
<1>1. /\ Len(s) \in Nat \ {0} /\ Head(s) = s[1] /\ Tail(s) \in Seq(S) /\ Len(Tail(s)) = Len(s) - 1
      /\ \A i \in 1 .. Len(s) - 1 : Tail(s)[i] = s[i + 1]
  OBVIOUS
<1>2. /\ \A x : x \in ToSet(s) <=> \E j \in 1 .. Len(s) : s[j] = x
      /\ \A x : x \in ToSet(Tail(s)) <=> \E j \in 1 .. Len(Tail(s)) : Tail(s)[j] = x
  <2>1. \A x : x \in ToSet(s) <=> \E j \in 1 .. Len(s) : s[j] = x
    BY ListIndex
  <2> DEFINE z == Tail(s)
  <2>2. z \in Seq(S)
    BY <1>1
  <2> HIDE DEF z
  <2>3. \A x : x \in ToSet(z) <=> \E j \in 1 .. Len(z) : z[j] = x
    BY <2>2, ListIndex
  <2> QED BY ONLY <2>1, <2>3 DEF z
<1>3. ASSUME NEW x, x \in ToSet(s) PROVE x = Head(s) \/ x \in ToSet(Tail(s))
  <2>1. PICK j \in 1 .. Len(s) : s[j] = x
    BY <1>2, <1>3
  <2>2. CASE j = 1
    BY <1>1, <2>1, <2>2
  <2>3. CASE j # 1
    <3>1. j - 1 \in 1 .. Len(s) - 1 /\ (j - 1) + 1 = j
      BY <1>1, <2>3
    <3>2. Tail(s)[j - 1] = x
      BY <1>1, <2>1, <3>1
    <3> QED BY <1>1, <1>2, <3>1, <3>2
  <2> QED BY <2>2, <2>3
<1>4. ASSUME NEW x, x \in ToSet(Tail(s)) PROVE x \in ToSet(s)
  <2>1. PICK j \in 1 .. Len(s) - 1 : Tail(s)[j] = x
    BY <1>1, <1>2, <1>4
  <2>2. j + 1 \in 1 .. Len(s) /\ s[j + 1] = x
    BY <1>1, <2>1
  <2> QED BY <1>2, <2>2
<1>5. Head(s) \in ToSet(s)
  <2>1. 1 \in 1 .. Len(s) /\ s[1] = Head(s)
    BY <1>1
  <2> QED BY <1>2, <2>1
<1> QED BY <1>1, <1>3, <1>4, <1>5

\* The members of short sequences.
LEMMA NoneSet == ToSet(<< >>) = {}
BY DEF ToSet

\* Of one.
LEMMA OneSet ==
    ASSUME NEW a PROVE ToSet(<<a>>) = {a}
BY DEF ToSet

\* Of two.
LEMMA TwoSet ==
    ASSUME NEW a, NEW b PROVE ToSet(<<a, b>>) = {a, b}
BY DEF ToSet

\* Of three.
LEMMA ThreeSet ==
    ASSUME NEW a, NEW b, NEW c PROVE ToSet(<<a, b, c>>) = {a, b, c}
BY DEF ToSet

\* What is left is a sequence of primitives.
LEMMA ShapeTyped == Shape \subseteq Seq(Primitive)
BY DEF Shape, Opening, Closing, Leaving, Using, Ending, Primitive

\* Which primitives are left in each phase.
LEMMA PhaseSets ==
    /\ \A s \in Opening \cup Closing \cup Leaving \cup Ending :
          ToSet(s) \cap {"wait", "body", "again"} = {}
    /\ \A s \in Using : ToSet(s) \cap {"open", "close", "unref"} = {}
<1>1. \A s \in Opening : ToSet(s) \cap {"wait", "body", "again"} = {}
  <2>1. /\ ToSet(<<"take", "open", "release">>) = {"take", "open", "release"}
       /\ ToSet(<<"open", "release">>) = {"open", "release"}
    <3>1. ToSet(<<"take", "open", "release">>) = {"take", "open", "release"}
      BY ONLY ThreeSet, Zenon
    <3>2. ToSet(<<"open", "release">>) = {"open", "release"}
      BY ONLY TwoSet, Zenon
    <3> QED BY ONLY <3>1, <3>2
  <2> QED BY <2>1 DEF Opening
<1>2. \A s \in Closing : ToSet(s) \cap {"wait", "body", "again"} = {}
  <2>1. /\ ToSet(<<"take", "close">>) = {"take", "close"}
       /\ ToSet(<<"close">>) = {"close"}
    <3>1. ToSet(<<"take", "close">>) = {"take", "close"}
      BY ONLY TwoSet, Zenon
    <3>2. ToSet(<<"close">>) = {"close"}
      BY ONLY OneSet, Zenon
    <3> QED BY ONLY <3>1, <3>2
  <2> QED BY <2>1 DEF Closing
<1>3. \A s \in Leaving : ToSet(s) \cap {"wait", "body", "again"} = {}
  <2>1. /\ ToSet(<<"wake_reader", "wake_writer", "unref", "release">>)
             = {"wake_reader", "wake_writer", "unref", "release"}
       /\ ToSet(<<"wake_reader", "unref", "release">>) = {"wake_reader", "unref", "release"}
       /\ ToSet(<<"wake_writer", "unref", "release">>) = {"wake_writer", "unref", "release"}
       /\ ToSet(<<"unref", "release">>) = {"unref", "release"}
    <3>1. ToSet(<<"wake_reader", "wake_writer", "unref", "release">>)
            = {"wake_reader", "wake_writer", "unref", "release"}
      BY DEF ToSet
    <3>2. ToSet(<<"wake_reader", "unref", "release">>) = {"wake_reader", "unref", "release"}
      BY ONLY ThreeSet, Zenon
    <3>3. ToSet(<<"wake_writer", "unref", "release">>) = {"wake_writer", "unref", "release"}
      BY ONLY ThreeSet, Zenon
    <3>4. ToSet(<<"unref", "release">>) = {"unref", "release"}
      BY ONLY TwoSet, Zenon
    <3> QED BY ONLY <3>1, <3>2, <3>3, <3>4
  <2> QED BY <2>1 DEF Leaving
<1>4. \A s \in Ending : ToSet(s) \cap {"wait", "body", "again"} = {}
  <2>1. /\ ToSet(<< >>) = {}
       /\ ToSet(<<"release">>) = {"release"}
       /\ ToSet(<<"wake_reader">>) = {"wake_reader"}
       /\ ToSet(<<"wake_writer">>) = {"wake_writer"}
       /\ ToSet(<<"wake_reader", "release">>) = {"wake_reader", "release"}
       /\ ToSet(<<"wake_writer", "release">>) = {"wake_writer", "release"}
       /\ ToSet(<<"release", "wake_reader">>) = {"release", "wake_reader"}
       /\ ToSet(<<"release", "wake_writer">>) = {"release", "wake_writer"}
    <3>1. ToSet(<< >>) = {}
      BY ONLY NoneSet, Zenon
    <3>2. ToSet(<<"release">>) = {"release"}
      BY ONLY OneSet, Zenon
    <3>3. ToSet(<<"wake_reader">>) = {"wake_reader"}
      BY ONLY OneSet, Zenon
    <3>4. ToSet(<<"wake_writer">>) = {"wake_writer"}
      BY ONLY OneSet, Zenon
    <3>5. ToSet(<<"wake_reader", "release">>) = {"wake_reader", "release"}
      BY ONLY TwoSet, Zenon
    <3>6. ToSet(<<"wake_writer", "release">>) = {"wake_writer", "release"}
      BY ONLY TwoSet, Zenon
    <3>7. ToSet(<<"release", "wake_reader">>) = {"release", "wake_reader"}
      BY ONLY TwoSet, Zenon
    <3>8. ToSet(<<"release", "wake_writer">>) = {"release", "wake_writer"}
      BY ONLY TwoSet, Zenon
    <3> QED BY ONLY <3>1, <3>2, <3>3, <3>4, <3>5, <3>6, <3>7, <3>8
  <2> QED BY <2>1 DEF Ending
<1>5. \A s \in Using : ToSet(s) \cap {"open", "close", "unref"} = {}
  <2>1. /\ ToSet(<<"take", "body">>) = {"take", "body"}
       /\ ToSet(<<"body">>) = {"body"}
       /\ ToSet(<<"release", "wake_reader", "wait", "take", "again">>)
            = {"release", "wake_reader", "wait", "take", "again"}
       /\ ToSet(<<"release", "wake_writer", "wait", "take", "again">>)
            = {"release", "wake_writer", "wait", "take", "again"}
       /\ ToSet(<<"wake_reader", "wait", "take", "again">>)
            = {"wake_reader", "wait", "take", "again"}
       /\ ToSet(<<"wake_writer", "wait", "take", "again">>)
            = {"wake_writer", "wait", "take", "again"}
       /\ ToSet(<<"wait", "take", "again">>) = {"wait", "take", "again"}
       /\ ToSet(<<"take", "again">>) = {"take", "again"}
       /\ ToSet(<<"again">>) = {"again"}
    <3>1. ToSet(<<"take", "body">>) = {"take", "body"}
      BY ONLY TwoSet, Zenon
    <3>2. ToSet(<<"body">>) = {"body"}
      BY ONLY OneSet, Zenon
    <3>3. ToSet(<<"release", "wake_reader", "wait", "take", "again">>)
            = {"release", "wake_reader", "wait", "take", "again"}
      BY DEF ToSet
    <3>4. ToSet(<<"release", "wake_writer", "wait", "take", "again">>)
            = {"release", "wake_writer", "wait", "take", "again"}
      BY DEF ToSet
    <3>5. ToSet(<<"wake_reader", "wait", "take", "again">>)
            = {"wake_reader", "wait", "take", "again"}
      BY DEF ToSet
    <3>6. ToSet(<<"wake_writer", "wait", "take", "again">>)
            = {"wake_writer", "wait", "take", "again"}
      BY DEF ToSet
    <3>7. ToSet(<<"wait", "take", "again">>) = {"wait", "take", "again"}
      BY ONLY ThreeSet, Zenon
    <3>8. ToSet(<<"take", "again">>) = {"take", "again"}
      BY ONLY TwoSet, Zenon
    <3>9. ToSet(<<"again">>) = {"again"}
      BY ONLY OneSet, Zenon
    <3> QED BY ONLY <3>1, <3>2, <3>3, <3>4, <3>5, <3>6, <3>7, <3>8, <3>9
  <2> QED BY <2>1 DEF Using
<1> QED BY <1>1, <1>2, <1>3, <1>4, <1>5

\* After a take or a wait there is no wait left; a body is the last primitive.
LEMMA UsingSets ==
    \A s \in Using : /\ Head(s) \in {"take", "wait"} => "wait" \notin ToSet(Tail(s))
                     /\ Head(s) \in {"body", "again"} => ToSet(s) = {Head(s)}
<1>1. /\ ToSet(<<"body">>) = {"body"}
     /\ ToSet(<<"again">>) = {"again"}
     /\ ToSet(<<"take", "again">>) = {"take", "again"}
  <2>1. ToSet(<<"body">>) = {"body"}
    BY ONLY OneSet, Zenon
  <2>2. ToSet(<<"again">>) = {"again"}
    BY ONLY OneSet, Zenon
  <2>3. ToSet(<<"take", "again">>) = {"take", "again"}
    BY ONLY TwoSet, Zenon
  <2> QED BY ONLY <2>1, <2>2, <2>3
<1>2. /\ Head(<<"take", "body">>) = "take" /\ Tail(<<"take", "body">>) = <<"body">>
      /\ Head(<<"body">>) = "body" /\ Head(<<"again">>) = "again"
      /\ Head(<<"release", "wake_reader", "wait", "take", "again">>) = "release"
      /\ Head(<<"release", "wake_writer", "wait", "take", "again">>) = "release"
      /\ Head(<<"wake_reader", "wait", "take", "again">>) = "wake_reader"
      /\ Head(<<"wake_writer", "wait", "take", "again">>) = "wake_writer"
  OBVIOUS
<1>3. /\ Head(<<"wait", "take", "again">>) = "wait"
      /\ Tail(<<"wait", "take", "again">>) = <<"take", "again">>
      /\ Head(<<"take", "again">>) = "take" /\ Tail(<<"take", "again">>) = <<"again">>
  OBVIOUS
<1> QED BY <1>1, <1>2, <1>3 DEF Using

\* The same by the primitive a thread executes.
LEMMA ShapeSets ==
    ASSUME NEW s \in Shape
    PROVE  /\ "wait" \in ToSet(s) => s \in Using
           /\ ToSet(s) \cap {"body", "again"} # {} => s \in Using
           /\ s # << >> => ToSet(s) = {Head(s)} \cup ToSet(Tail(s))
           /\ s # << >> /\ Head(s) \in {"take", "wait", "open", "unref", "close"} =>
                 "wait" \notin ToSet(Tail(s))
           /\ s # << >> /\ Head(s) \in {"body", "again"} => ToSet(s) = {Head(s)}
<1>1. s \in Seq(Primitive)
  BY ShapeTyped
<1>2. s # << >> => ToSet(s) = {Head(s)} \cup ToSet(Tail(s))
  BY <1>1, HeadAndTail
<1>3. CASE s \in Using
  <2>1. s # << >> => Head(s) \notin {"open", "unref", "close"}
    BY <1>2, <1>3, PhaseSets
  <2> QED BY <1>2, <1>3, <2>1, UsingSets
<1>4. CASE s \notin Using
  <2>1. ToSet(s) \cap {"wait", "body", "again"} = {}
    BY <1>4, PhaseSets DEF Shape
  <2> QED BY <1>2, <2>1
<1> QED BY <1>3, <1>4

-----------------------------------------------------------------------------
(* Steps on the pipe.                                                      *)

\* t is in a call on the pipe and p is the next primitive.
PipeAt(t, p) ==
    /\ t \in {Reader, Writer} /\ t \in Thread \ {Idle, Worker}
    /\ todo[t] \in Shape /\ todo[t] # << >> /\ Head(todo[t]) = p
    /\ ToSet(todo[t]) = {p} \cup ToSet(Tail(todo[t]))
    /\ waiting_list[OwnQueue(t)] = << >> /\ ~AsleepOK(t)
    /\ SideOK(Reader) /\ SideOK(Writer)

\* A thread that is ready, in a call on the pipe.
LEMMA ReadyAt ==
    ASSUME WakeInv, PipeInv, NEW t \in Thread, todo[t] # << >>, k.stat[t] = "READY"
    PROVE  PipeAt(t, Head(todo[t])) /\ InPipe(t)
<1>1. t \in {Reader, Writer} /\ todo[t] \in Shape
  BY InCall DEF PipeInv
<1>2. SideOK(Reader) /\ SideOK(Writer) /\ InPipe(t)
  BY DEF WakeInv, PipeWaits
<1>3. t \notin {Idle, Worker}
  BY <1>2 DEF InPipe
<1>4. ~AsleepOK(t)
  BY DEF AsleepOK
<1>5. waiting_list[OwnQueue(t)] = << >>
  BY <1>1, <1>2, <1>4 DEF SideOK
<1>6. ToSet(todo[t]) = {Head(todo[t])} \cup ToSet(Tail(todo[t]))
  BY <1>1, ShapeSets
<1> QED BY <1>1, <1>2, <1>3, <1>4, <1>5, <1>6 DEF PipeAt

\* A thread that executes a primitive.
LEMMA ExecutesAt ==
    ASSUME WakeInv, PipeInv, NEW t \in Thread, NEW p, Executes(t, p)
    PROVE  PipeAt(t, p) /\ Executing(t) /\ pc[t] = "run" /\ k.stat[t] = "READY"
<1>1. At(t, "run") /\ todo[t] # << >> /\ Head(todo[t]) = p
  BY DEF Executes
<1>2. t # Idle
  BY <1>1 DEF WakeInv, PipeWaits, InPipe
<1>3. Executing(t) /\ pc[t] = "run" /\ k.stat[t] = "READY"
  BY <1>1, <1>2, AtExecutes DEF WakeInv, Resetting
<1> QED BY <1>1, <1>3, ReadyAt

\* The list joined, the thread that moves and those resumed.
PipeRest(t, H, J) ==
    /\ J \cap {completion, dq_pop, dq_push, wq_sem} = {}
    /\ t \in {Reader, Writer} /\ t # Worker
    /\ pc[t] \in {"block", "woken"} => on[t] \notin {dq_pop, dq_push}
    /\ waiting_list[OwnQueue(t)] = << >>
    /\ \A u \in H : ~AsleepOK(u)

\* A step of t on the pipe leaves the other objects alone.
LEMMA OthersOfPipe ==
    ASSUME WakeInv, DqInv, OnPipe, NEW t, NEW H, NEW e, NEW J, NEW A, DStep({t}, H, e, J, A),
           J \cap {completion, dq_pop, dq_push, wq_sem} = {}, t # Worker,
           pc[t] \in {"block", "woken"} => on[t] \notin {dq_pop, dq_push}, PipeWaits'
    PROVE  WakeInv'
<1>1. /\ DevThreads /\ CmpInv /\ DqWake /\ WqInv
  BY DEF WakeInv
<1>2. /\ completed' = completed /\ put_index' = put_index /\ get_index' = get_index
      /\ UNCHANGED wqvars
  BY DEF OnPipe, dqvars
<1>3. DevThreads'
  BY <1>1, DStepThreads
<1>4. CmpInv'
  BY <1>1, <1>2, CmpKept
<1>5. DqWake'
  BY <1>1, <1>2, DqKept
<1>6. WqInv'
  BY <1>1, <1>2, WqKept
<1> QED BY <1>3, <1>4, <1>5, <1>6 DEF WakeInv

\* What a step of t that leaves the wait queues alone has to see to: its own way
\* to a wait, and the sleep of the other side.
PipeGoes(t) ==
    /\ waiting_list' = waiting_list
    /\ \A u \in Thread \ {t} : todo'[u] = todo[u]
    /\ PipeTyped' /\ InPipe(t)'
    /\ "wait" \in ToSet(todo'[t]) /\ pc'[t] \notin {"block", "woken"} =>
          Hushed(t)' \/ OwnQueue(t) \in wakeup'
    /\ \A r \in {Reader, Writer} \ {t} :
          /\ "wait" \in ToSet(todo[r]) \/ AsleepOK(r) => (Hushed(r) => Hushed(r)')
          /\ OwnQueue(r) \in wakeup => OwnQueue(r) \in wakeup'

\* Such a step keeps the invariant.
LEMMA PipeMoves ==
    ASSUME WakeInv, DqInv, OnPipe, NEW t, NEW H, NEW e, NEW J, NEW A, DStep({t}, H, e, J, A),
           PipeRest(t, H, J), PipeGoes(t)
    PROVE  WakeInv'
<1>0. /\ t \in {Reader, Writer} /\ Reader \in Thread /\ Writer \in Thread
      /\ SideOK(Reader) /\ SideOK(Writer) /\ \A u \in Thread : InPipe(u)
  BY PipeAssumption DEF PipeRest, WakeInv, PipeWaits
<1>1. ASSUME NEW u \in Thread PROVE InPipe(u)'
  <2>1. CASE u = t
    BY <2>1 DEF PipeGoes
  <2>2. CASE u # t
    <3>1. pc'[u] = pc[u] /\ on'[u] = on[u] /\ todo'[u] = todo[u]
      BY <2>2 DEF DStep, Go, Moves, PipeGoes
    <3> QED BY <1>0, <3>1 DEF InPipe
  <2> QED BY <2>1, <2>2
<1>2. SideOK(t)'
  <2>1. OwnQueue(t)' = OwnQueue(t) /\ waiting_list'[OwnQueue(t)] = << >> /\ <<t>> # << >>
    BY DEF PipeRest, PipeGoes, OwnQueue
  <2> QED BY <2>1 DEF SideOK, PipeGoes
<1>3. ASSUME NEW r \in {Reader, Writer}, r # t PROVE SideOK(r)'
  <2>1. SideOK(r) /\ r \notin {t} /\ (AsleepOK(r) => r \notin H)
    BY <1>0, <1>3 DEF PipeRest
  <2>2. /\ waiting_list'[OwnQueue(r)] = waiting_list[OwnQueue(r)] /\ todo'[r] = todo[r]
        /\ "wait" \in ToSet(todo[r]) \/ AsleepOK(r) => (Hushed(r) => Hushed(r)')
        /\ OwnQueue(r) \in wakeup => OwnQueue(r) \in wakeup'
    BY <1>0, <1>3 DEF PipeGoes
  <2> QED BY ONLY <1>3, <2>1, <2>2, DStep({t}, H, e, J, A), SideKept
<1>4. PipeWaits'
  BY <1>0, <1>1, <1>2, <1>3 DEF PipeWaits, PipeGoes
<1> QED BY <1>4, OthersOfPipe DEF PipeRest

\* What is there for r is as before, and so is who will wake it.
LEMMA HushedKept ==
    ASSUME NEW r, Dry(r) => Dry(r)',
           \A u \in Thread : WakeCall(r) \in ToSet(todo[u]) => WakeCall(r) \in ToSet(todo'[u])
    PROVE  Hushed(r) => Hushed(r)'
BY DEF Hushed, WillWake, WakeCall

\* What is left after the next primitive.
LEMMA ProceedsTodo ==
    ASSUME PipeInv, NEW t, NEW p, PipeAt(t, p), Proceeds(t)
    PROVE  /\ todo'[t] = Tail(todo[t]) /\ \A u \in Thread \ {t} : todo'[u] = todo[u]
           /\ ToSet(todo[t]) = {p} \cup ToSet(todo'[t])
<1>1. todo \in [Thread -> Shape] /\ t \in Thread
  BY DEF PipeInv, PipeEnds, PipeAt
<1> QED BY <1>1 DEF PipeAt, Proceeds, Then

\* A primitive that touches nothing of the fifo: who may sleep may still do so.
LEMMA ProceedsHushed ==
    ASSUME PipeInv, NEW t, NEW p, PipeAt(t, p), Proceeds(t),
           UNCHANGED <<fifo, readers, writers, count>>,
           NEW r, p # WakeCall(r)
    PROVE  Hushed(r) => Hushed(r)'
<1>1. /\ \A u \in Thread \ {t} : todo'[u] = todo[u]
      /\ ToSet(todo[t]) = {p} \cup ToSet(todo'[t])
  BY ProceedsTodo
<1>2. \A u \in Thread : WakeCall(r) \in ToSet(todo[u]) => WakeCall(r) \in ToSet(todo'[u])
  BY <1>1
<1>3. Dry(r) => Dry(r)'
  BY DEF Dry, CanRead, CanWrite
<1> QED BY <1>2, <1>3, HushedKept

\* Where t is after a take, a release or a wait.
NeutralTo(t, p) ==
    /\ holder' \in (Thread \ {Idle}) \cup {None}
    /\ p = "release" => pc[t] = "run" /\ wakeup' = wakeup
    /\ wakeup' = wakeup \/ wakeup' = wakeup \ {OwnQueue(t)}
    /\ \/ pc'[t] \in {"run", "resched"}
       \/ pc'[t] = "block" /\ on'[t] = pipe_lock /\ p = "take"

\* The two sides have a wait queue each.
LEMMA QueuesDiffer ==
    ASSUME NEW t \in {Reader, Writer}, NEW r \in {Reader, Writer}, r # t
    PROVE  OwnQueue(r) # OwnQueue(t) /\ WakeCall(r) # WakeCall(t)
BY PipeAssumption DEF OwnQueue, WakeCall

\* Such a primitive keeps what the two sides rest on.
LEMMA NeutralGoes ==
    ASSUME WakeInv, PipeInv, NEW t, NEW p \in {"take", "release", "wait"}, PipeAt(t, p),
           Proceeds(t), waiting_list' = waiting_list, UNCHANGED fifovars, NeutralTo(t, p)
    PROVE  PipeGoes(t)
<1>0. /\ t \in {Reader, Writer} /\ t \in Thread \ {Idle, Worker} /\ PipeTyped
      /\ SideOK(Reader) /\ SideOK(Writer)
      /\ UNCHANGED <<fifo, readers, writers, count, nonblock>>
  BY DEF PipeAt, WakeInv, PipeWaits, fifovars
<1>1. /\ todo'[t] = Tail(todo[t]) /\ \A u \in Thread \ {t} : todo'[u] = todo[u]
      /\ ToSet(todo[t]) = {p} \cup ToSet(todo'[t])
  BY ProceedsTodo
<1>2. p \in {"take", "wait"} => "wait" \notin ToSet(todo'[t])
  BY <1>1, ShapeSets DEF PipeAt
<1>3. \A r : p # WakeCall(r)
  BY DEF WakeCall
<1>4. \A r : Hushed(r) => Hushed(r)'
  BY <1>0, <1>3, ProceedsHushed
<1>5. PipeTyped'
  BY <1>0 DEF PipeTyped, NeutralTo
<1>6. InPipe(t)'
  BY <1>0, <1>2 DEF InPipe, NeutralTo
<1>7. "wait" \in ToSet(todo'[t]) => Hushed(t)' \/ OwnQueue(t) \in wakeup'
  <2>1. SUFFICES ASSUME "wait" \in ToSet(todo'[t]) PROVE Hushed(t)' \/ OwnQueue(t) \in wakeup'
    OBVIOUS
  <2>2. p = "release" /\ pc[t] = "run" /\ wakeup' = wakeup /\ "wait" \in ToSet(todo[t])
    BY <1>1, <1>2, <2>1 DEF NeutralTo
  <2>3. Hushed(t) \/ OwnQueue(t) \in wakeup
    BY <1>0, <2>2 DEF SideOK
  <2> QED BY <1>4, <2>2, <2>3
<1>8. \A r \in {Reader, Writer} \ {t} : OwnQueue(r) \in wakeup => OwnQueue(r) \in wakeup'
  BY <1>0, QueuesDiffer DEF NeutralTo
<1> QED BY <1>1, <1>4, <1>5, <1>6, <1>7, <1>8 DEF PipeGoes

\* A change of priority leaves everybody where they are.
LEMMA RePrio ==
    ASSUME DevThreads, NEW t \in Thread \ {Idle}, NEW p \in Prio, NEW c, c = ChangePriority(k, t, p)
    PROVE  PlacesKept(c) /\ c.error = k.error
<1>1. KernelOK(k)
  BY DEF DevThreads
<1>2. LET r == ChangePriority(k, t, p) IN
      /\ KernelOK(r)
      /\ r.prio = [k.prio EXCEPT ![t] = p]
      /\ r.stat = k.stat /\ r.wait = k.wait /\ r.error = k.error
      /\ r.timer = k.timer /\ r.cur = k.cur /\ r.lock = k.lock
  BY ONLY <1>1, t \in Thread \ {Idle}, p \in Prio, ChangePriorityOK
<1> QED BY <1>2 DEF PlacesKept, SamePlaces

\* A thread goes on in a call on the pipe with the kernel as it was.
LEMMA PipeRuns ==
    ASSUME DevThreads, NEW t, Executing(t), pc[t] = "run", k' = k, pc' = pc,
           on' = on \/ on' = [on EXCEPT ![t] = None]
    PROVE  DStep({t}, {}, "EOK", {}, {})
<1>1. Goto(t, "run") /\ t \in Thread
  BY DEF Goto, Executing, DevThreads
<1>2. OnMoves(t) /\ "run" \in Pcs \ (Resetting \cup {"block", "woken"})
  BY <1>1, OnMovesHere DEF Pcs, Resetting
<1> QED BY <1>1, <1>2, MoveSteps

\* rt_mutex_take.
LEMMA TakeWake ==
    ASSUME WakeInv, DqInv, PipeInv, OnPipe, NEW t \in Thread, Take(t)
    PROVE  WakeInv'
<1>1. /\ Executes(t, "take") /\ Proceeds(t) /\ UNCHANGED fifovars
      /\ wakeup' = wakeup /\ waiting_list' = waiting_list
  BY DEF Take
<1>2. PipeAt(t, "take") /\ Executing(t) /\ pc[t] = "run" /\ k.stat[t] = "READY"
  BY <1>1, ExecutesAt
<1>3. DevThreads /\ PipeTyped /\ t \in Thread \ {Idle, Worker} /\ t \in {Reader, Writer}
  BY <1>2 DEF WakeInv, PipeWaits, PipeAt
<1>4. CASE holder = None
  <2>1. holder' = t /\ k' = k /\ pc' = pc /\ on' = on
    BY <1>4 DEF Take, kvars
  <2>2. DStep({t}, {}, "EOK", {}, {})
    BY <1>2, <1>3, <2>1, PipeRuns
  <2>3. NeutralTo(t, "take")
    BY <1>1, <1>2, <1>3, <2>1 DEF NeutralTo
  <2>4. PipeGoes(t)
    BY <1>1, <1>2, <2>3, NeutralGoes
  <2>5. PipeRest(t, {}, {})
    BY <1>2, <1>3 DEF PipeRest, PipeAt
  <2> QED BY <2>2, <2>4, <2>5, PipeMoves
<1>5. CASE holder # None
  <2> DEFINE c == IF k.prio[t] < k.prio[holder] THEN ChangePriority(k, holder, k.prio[t]) ELSE k
             s == rt_ipc_list_suspend(c, pipe_lock, t, "PRIO")
  <2>1. /\ k' = s /\ on' = [on EXCEPT ![t] = pipe_lock] /\ Goto(t, "block") /\ holder' = holder
    BY <1>5 DEF Take
  <2>2. PlacesKept(c) /\ c.error = k.error
    <3>1. holder \in Thread \ {Idle} /\ k.prio[t] \in Prio /\ KernelOK(k)
      BY <1>3, <1>5 DEF PipeTyped, DevThreads, KernelOK, KernelState
    <3>2. PlacesKept(ChangePriority(k, holder, k.prio[t]))
          /\ ChangePriority(k, holder, k.prio[t]).error = k.error
      BY <1>3, <3>1, RePrio
    <3>3. PlacesKept(k)
      BY <3>1 DEF PlacesKept, SamePlaces
    <3> QED BY <3>2, <3>3
  <2> HIDE DEF c
  <2>3. pipe_lock \in Queue /\ pipe_lock \notin {completion, dq_pop, dq_push, wq_sem}
    BY ListsDiffer
  <2>4. Joined(s, t, pipe_lock)
    BY <1>2, <1>3, <2>2, <2>3, ListSuspendJoins
  <2> HIDE DEF s
  <2>5. DTurn({t}, {}, "EOK", {pipe_lock}, {}) /\ k'.lock = k.lock
    BY <1>3, <2>1, <2>4, JoinedTurns
  <2>6. DStep({t}, {}, "EOK", {pipe_lock}, {})
    BY <1>2, <1>3, <2>1, <2>3, <2>5, GoesToSleep
  <2>7. pc'[t] = "block" /\ on'[t] = pipe_lock
    BY <1>3, <2>1 DEF Goto, DevThreads
  <2>8. NeutralTo(t, "take")
    BY <1>1, <1>3, <2>1, <2>7 DEF NeutralTo, PipeTyped
  <2>9. PipeGoes(t)
    BY <1>1, <1>2, <2>8, NeutralGoes
  <2>10. PipeRest(t, {}, {pipe_lock})
    BY <1>2, <1>3, <2>3 DEF PipeRest, PipeAt
  <2> QED BY <2>6, <2>9, <2>10, PipeMoves
<1> QED BY <1>4, <1>5

\* The thread has been handed the mutex.
LEMMA TakeReturnsWake ==
    ASSUME WakeInv, DqInv, PipeInv, OnPipe, NEW t \in Thread, TakeReturns(t)
    PROVE  WakeInv'
<1>1. /\ At(t, "woken") /\ on[t] = pipe_lock /\ on' = [on EXCEPT ![t] = None]
      /\ Goto(t, "run") /\ k' = k /\ UNCHANGED pipevars
  BY DEF TakeReturns
<1>2. Executing(t) /\ pc[t] = "woken" /\ k.stat[t] = "READY" /\ t \in Thread \ {Idle}
  BY <1>1, AtExecutes DEF WakeInv, Resetting
<1>3. OnMoves(t) /\ "run" \in Pcs \ (Resetting \cup {"block", "woken"})
  BY <1>1, OnMovesHere DEF Pcs, Resetting, WakeInv
<1>4. DStep({t}, {}, "EOK", {}, {})
  BY <1>1, <1>2, <1>3, MoveSteps DEF WakeInv
<1>5. on[t] \notin {dq_pop, dq_push, None} /\ on[Worker] = None
  BY <1>1, ListsDiffer DEF WakeInv, WqInv
<1>6. CASE todo[t] = << >>
  <2>1. Aside({t}, {}, {})
    BY <1>5, <1>6 DEF Aside
  <2>2. UNCHANGED <<completed, dqvars, wqvars, pipevars>>
    BY <1>1 DEF OnPipe
  <2> QED BY <1>4, <2>1, <2>2, WakeKeptAside
<1>7. CASE todo[t] # << >>
  <2>1. PipeAt(t, Head(todo[t])) /\ InPipe(t)
    BY <1>2, <1>7, ReadyAt
  <2>2. "wait" \notin ToSet(todo[t])
    BY <1>2, <1>5, <1>7, <2>1 DEF InPipe
  <2>3. UNCHANGED <<fifo, readers, writers, holder, wakeup, waiting_list, todo, count, nonblock>>
    BY <1>1 DEF pipevars
  <2>4. PipeTyped' /\ \A r : Hushed(r) = Hushed(r)'
    BY <2>3 DEF WakeInv, PipeWaits, PipeTyped, Hushed, Dry, CanRead, CanWrite, WillWake,
            WakeCall
  <2>5. pc'[t] = "run"
    BY <1>1 DEF Goto, WakeInv, DevThreads
  <2>6. InPipe(t)'
    BY <2>1, <2>5 DEF InPipe, PipeAt
  <2>7. PipeGoes(t)
    BY <2>2, <2>3, <2>4, <2>6 DEF PipeGoes
  <2>8. PipeRest(t, {}, {})
    BY <1>5, <2>1 DEF PipeRest, PipeAt
  <2> QED BY <1>4, <2>7, <2>8, PipeMoves
<1> QED BY <1>6, <1>7

\* rt_mutex_release: the mutex goes to the first waiter, who did not sleep in a
\* wait queue.
LEMMA ReleaseWake ==
    ASSUME WakeInv, DqInv, PipeInv, OnPipe, NEW t \in Thread, Release(t)
    PROVE  WakeInv'
<1> DEFINE c == IF k.prio[t] # init_priority[t] THEN ChangePriority(k, t, init_priority[t]) ELSE k
<1>1. /\ Executes(t, "release") /\ Proceeds(t) /\ UNCHANGED fifovars /\ on' = on
      /\ wakeup' = wakeup /\ waiting_list' = waiting_list
      /\ IF c.wait[pipe_lock] # << >>
           THEN /\ holder' = Head(c.wait[pipe_lock]) /\ k' = rt_ipc_list_resume(c, pipe_lock)
                /\ Goto(t, "resched")
           ELSE holder' = None /\ k' = c /\ pc' = pc
  BY DEF Release
<1>2. PipeAt(t, "release") /\ Executing(t) /\ pc[t] = "run" /\ k.stat[t] = "READY"
  BY <1>1, ExecutesAt
<1>3. DevThreads /\ t \in Thread \ {Idle, Worker} /\ t \in {Reader, Writer} /\ KernelOK(k)
  BY <1>2 DEF WakeInv, PipeAt, DevThreads
<1>4. PlacesKept(c) /\ c.error = k.error
  <2>1. init_priority[t] \in Prio
    BY ThreadAssumption
  <2>2. PlacesKept(ChangePriority(k, t, init_priority[t]))
        /\ ChangePriority(k, t, init_priority[t]).error = k.error
    BY <1>3, <2>1, RePrio
  <2>3. PlacesKept(k)
    BY <1>3 DEF PlacesKept, SamePlaces
  <2> QED BY <2>2, <2>3
<1> HIDE DEF c
<1>5. c.wait = k.wait /\ pipe_lock \in Queue /\ pipe_lock # None
  BY <1>4, ListsDiffer DEF PlacesKept, SamePlaces
<1>6. CASE k.wait[pipe_lock] # << >>
  <2> DEFINE h == Head(k.wait[pipe_lock])
  <2>1. holder' = h /\ k' = rt_ipc_list_resume(c, pipe_lock) /\ Goto(t, "resched")
    BY <1>1, <1>5, <1>6
  <2>2. h \in Thread \ {Idle} /\ k.stat[h] = "SUSPEND" /\ h \in ToSet(k.wait[pipe_lock])
    BY <1>3, <1>5, <1>6, WaitHead
  <2>3. h \notin {t} /\ on[h] = pipe_lock
    BY <1>2, <1>3, <1>5, <2>2 DEF DevThreads, DevWaiting
  <2>4. ~AsleepOK(h)
    BY <1>5, <2>3 DEF AsleepOK
  <2>5. DTurn({t}, {h}, "EOK", {}, {}) /\ k'.lock = k.lock
    BY <1>3, <1>4, <1>5, <1>6, <2>1, <2>3, ListResumeTurns
  <2>6. OnMoves(t) /\ "resched" \in Pcs \ (Resetting \cup {"block", "woken"})
    BY <1>1, <1>3, OnMovesHere DEF Pcs, Resetting
  <2>7. DStep({t}, {h}, "EOK", {}, {})
    BY <1>2, <1>3, <2>1, <2>5, <2>6, GoesOn DEF Goto
  <2>8. pc'[t] = "resched"
    BY <1>3, <2>1 DEF Goto, DevThreads
  <2>9. NeutralTo(t, "release")
    BY <1>1, <1>2, <2>1, <2>2, <2>8 DEF NeutralTo
  <2>10. PipeGoes(t)
    BY <1>1, <1>2, <2>9, NeutralGoes
  <2>11. PipeRest(t, {h}, {})
    BY <1>2, <1>3, <2>4 DEF PipeRest, PipeAt
  <2> QED BY <2>7, <2>10, <2>11, PipeMoves
<1>7. CASE k.wait[pipe_lock] = << >>
  <2>1. holder' = None /\ k' = c /\ pc' = pc
    BY <1>1, <1>5, <1>7
  <2>2. DTurn({t}, {}, "EOK", {}, {}) /\ k'.lock = k.lock
    BY <1>3, <1>4, <2>1, SameTurns DEF PlacesKept, SamePlaces
  <2>3. OnMoves(t) /\ "run" \in Pcs \ (Resetting \cup {"block", "woken"})
    BY <1>1, <1>3, OnMovesHere DEF Pcs, Resetting
  <2>4. pc' = [pc EXCEPT ![t] = "run"]
    BY <1>2, <1>3, <2>1 DEF DevThreads
  <2>5. DStep({t}, {}, "EOK", {}, {})
    BY <1>2, <1>3, <2>2, <2>3, <2>4, GoesOn
  <2>6. NeutralTo(t, "release")
    BY <1>1, <1>2, <2>1 DEF NeutralTo
  <2>7. PipeGoes(t)
    BY <1>1, <1>2, <2>6, NeutralGoes
  <2>8. PipeRest(t, {}, {})
    BY <1>2, <1>3 DEF PipeRest, PipeAt
  <2> QED BY <2>5, <2>7, <2>8, PipeMoves
<1> QED BY <1>6, <1>7

\* The two sides one by one, in a step of t.
LEMMA PipeSides ==
    ASSUME WakeInv, DqInv, OnPipe, NEW t, NEW H, NEW e, NEW J, NEW A, DStep({t}, H, e, J, A),
           J \cap {completion, dq_pop, dq_push, wq_sem} = {}, t \in Thread \ {Idle, Worker},
           pc[t] = "run", \A u \in Thread \ {t} : todo'[u] = todo[u],
           PipeTyped', InPipe(t)', SideOK(Reader)', SideOK(Writer)'
    PROVE  WakeInv'
<1>1. ASSUME NEW u \in Thread PROVE InPipe(u)'
  <2>1. CASE u # t
    <3>1. pc'[u] = pc[u] /\ on'[u] = on[u] /\ todo'[u] = todo[u] /\ InPipe(u)
      BY <2>1 DEF DStep, Go, Moves, WakeInv, PipeWaits
    <3> QED BY <3>1 DEF InPipe
  <2> QED BY <2>1
<1>2. PipeWaits'
  BY <1>1 DEF PipeWaits
<1> QED BY <1>2, OthersOfPipe

\* What rt_wqueue_wakeup does to the wait queue of r.
Wakes(t, r, H) ==
    /\ DStep({t}, H, "EOK", {}, {}) /\ H \subseteq {r} /\ (H # {} => r # t)
    /\ waiting_list' \in [WaitQueue -> Seq(Thread)]
    /\ waiting_list'[OwnQueue(r)] = << >>
    /\ \A s \in {Reader, Writer} \ {r} : waiting_list'[OwnQueue(s)] = waiting_list[OwnQueue(s)]
    /\ wakeup' = wakeup \cup {OwnQueue(r)}
    /\ pc'[t] \in {"run", "resched"}

\* It resumes the thread in the wait queue, if there is one.
LEMMA WakeupSteps ==
    ASSUME WakeInv, PipeInv, NEW t \in Thread, NEW r \in {Reader, Writer},
           rt_wqueue_wakeup(t, WakeCall(r), OwnQueue(r))
    PROVE  \E H : Wakes(t, r, H)
<1> DEFINE q == OwnQueue(r)
<1>1. /\ Executes(t, WakeCall(r)) /\ wakeup' = wakeup \cup {q} /\ on' = on
      /\ IF waiting_list[q] # << >>
           THEN /\ k' = rt_thread_resume(k, Head(waiting_list[q]))
                /\ waiting_list' = [waiting_list EXCEPT ![q] = Tail(@)]
                /\ Goto(t, "resched")
           ELSE k' = k /\ pc' = pc /\ waiting_list' = waiting_list
  BY DEF rt_wqueue_wakeup, kvars
<1>2. PipeAt(t, WakeCall(r)) /\ Executing(t) /\ pc[t] = "run" /\ k.stat[t] = "READY"
  BY <1>1, ExecutesAt
<1>3. /\ DevThreads /\ waiting_list \in [WaitQueue -> Seq(Thread)] /\ SideOK(r) /\ r \in Thread
      /\ q \in WaitQueue
  BY <1>2, PipeAssumption DEF WakeInv, PipeWaits, PipeTyped, PipeAt, OwnQueue, WaitQueue
<1>4. \A s \in {Reader, Writer} \ {r} : OwnQueue(s) # q
  BY QueuesDiffer
<1> HIDE DEF q
<1>5. CASE waiting_list[q] = << >>
  <2>1. k' = k /\ pc' = pc /\ waiting_list' = waiting_list
    BY <1>1, <1>5
  <2>2. DStep({t}, {}, "EOK", {}, {})
    BY <1>1, <1>2, <1>3, <2>1, PipeRuns
  <2>3. Wakes(t, r, {})
    BY <1>1, <1>2, <1>3, <1>5, <2>1, <2>2 DEF Wakes, q
  <2> QED BY <2>3
<1>6. CASE waiting_list[q] # << >>
  <2>1. waiting_list[q] = <<r>> /\ AsleepOK(r)
    BY <1>3, <1>6 DEF SideOK, q
  <2>2. Head(waiting_list[q]) = r /\ Tail(waiting_list[q]) = << >>
    BY <2>1
  <2>3. /\ k' = rt_thread_resume(k, r) /\ waiting_list' = [waiting_list EXCEPT ![q] = << >>]
        /\ Goto(t, "resched")
    BY <1>1, <1>6, <2>2
  <2>4. r # t
    BY <1>2, <2>1 DEF AsleepOK
  <2>5. /\ \/ DTurn({t}, {r}, "EOK", {}, {})
           \/ DTurn({t}, {}, "EOK", {}, {})
        /\ k'.lock = k.lock
    <3>1. DevThreads /\ r \in Thread /\ r \notin {t} /\ k' = rt_thread_resume(k, r)
      BY <1>3, <2>3, <2>4
    <3> QED BY ONLY <3>1, ResumeTurns, ZenonT(60)
  <2>6. OnMoves(t) /\ "resched" \in Pcs \ (Resetting \cup {"block", "woken"})
    BY <1>1, <1>3, OnMovesHere DEF Pcs, Resetting
  <2>7. DStep({t}, {r}, "EOK", {}, {}) \/ DStep({t}, {}, "EOK", {}, {})
    BY <1>2, <1>3, <2>3, <2>5, <2>6, GoesOn DEF Goto
  <2>8. pc'[t] = "resched"
    BY <1>3, <2>3 DEF Goto, DevThreads
  <2>9. /\ waiting_list' \in [WaitQueue -> Seq(Thread)] /\ waiting_list'[q] = << >>
        /\ \A s \in {Reader, Writer} \ {r} : waiting_list'[OwnQueue(s)] = waiting_list[OwnQueue(s)]
    <3>1. << >> \in Seq(Thread)
      OBVIOUS
    <3>2. \A s : OwnQueue(s) \in WaitQueue
      BY DEF OwnQueue, WaitQueue
    <3> QED BY <1>3, <1>4, <2>3, <3>1, <3>2
  <2>10. Wakes(t, r, {r}) \/ Wakes(t, r, {})
    BY <1>1, <2>4, <2>7, <2>8, <2>9 DEF Wakes, q
  <2> QED BY <2>10
<1> QED BY <1>5, <1>6

\* rt_wqueue_wakeup: the side woken has its flag set, the other may sleep as before.
LEMMA WakeupWake ==
    ASSUME WakeInv, DqInv, PipeInv, OnPipe, NEW t \in Thread, NEW r \in {Reader, Writer},
           rt_wqueue_wakeup(t, WakeCall(r), OwnQueue(r))
    PROVE  WakeInv'
<1>1. /\ Executes(t, WakeCall(r)) /\ Proceeds(t) /\ UNCHANGED fifovars /\ holder' = holder
  BY DEF rt_wqueue_wakeup
<1>2. PipeAt(t, WakeCall(r)) /\ pc[t] = "run"
  BY <1>1, ExecutesAt
<1>3. PICK H : Wakes(t, r, H)
  BY WakeupSteps
<1>4. /\ UNCHANGED <<fifo, readers, writers, count, nonblock>> /\ PipeTyped
      /\ t \in Thread \ {Idle, Worker} /\ t \in {Reader, Writer}
      /\ SideOK(Reader) /\ SideOK(Writer) /\ waiting_list[OwnQueue(t)] = << >>
  BY <1>1, <1>2 DEF fifovars, WakeInv, PipeWaits, PipeAt
<1>5. /\ \A u \in Thread \ {t} : todo'[u] = todo[u]
      /\ ToSet(todo[t]) = {WakeCall(r)} \cup ToSet(todo'[t])
  BY <1>1, <1>2, ProceedsTodo
<1>6. PipeTyped'
  <2>1. wakeup' \subseteq WaitQueue
    BY <1>3, <1>4 DEF PipeTyped, Wakes, OwnQueue, WaitQueue
  <2> QED BY <1>1, <1>3, <1>4, <2>1 DEF PipeTyped, Wakes
<1>7. InPipe(t)'
  BY <1>3, <1>4 DEF InPipe, Wakes
<1>8. SideOK(r)'
  <2>1. OwnQueue(r)' = OwnQueue(r) /\ << >> # <<r>>
    BY DEF OwnQueue
  <2> QED BY <1>3, <2>1 DEF SideOK, Wakes
<1>9. ASSUME NEW s \in {Reader, Writer}, s # r PROVE SideOK(s)'
  <2>1. Hushed(s) => Hushed(s)'
    BY <1>1, <1>2, <1>4, <1>9, QueuesDiffer, ProceedsHushed
  <2>2. waiting_list'[OwnQueue(s)] = waiting_list[OwnQueue(s)] /\ wakeup \subseteq wakeup'
    BY <1>3, <1>9 DEF Wakes
  <2>3. CASE s = t
    <3>1. OwnQueue(s)' = OwnQueue(s) /\ << >> # <<s>>
      BY DEF OwnQueue
    <3>2. "wait" \in ToSet(todo'[s]) => Hushed(s)' \/ OwnQueue(s) \in wakeup'
      BY <1>2, <1>4, <1>5, <2>1, <2>2, <2>3 DEF SideOK
    <3> QED BY <1>4, <2>2, <2>3, <3>1, <3>2 DEF SideOK
  <2>4. CASE s # t
    <3>1. /\ SideOK(s) /\ s \notin {t} /\ (AsleepOK(s) => s \notin H) /\ todo'[s] = todo[s]
          /\ "wait" \in ToSet(todo[s]) \/ AsleepOK(s) => (Hushed(s) => Hushed(s)')
          /\ OwnQueue(s) \in wakeup => OwnQueue(s) \in wakeup'
          /\ DStep({t}, H, "EOK", {}, {})
      BY <1>3, <1>4, <1>5, <1>9, <2>1, <2>2, <2>4, PipeAssumption DEF Wakes
    <3> QED BY ONLY <1>9, <2>2, <3>1, SideKept
  <2> QED BY <2>3, <2>4
<1>10. SideOK(Reader)' /\ SideOK(Writer)' /\ DStep({t}, H, "EOK", {}, {})
  BY <1>3, <1>8, <1>9 DEF Wakes
<1> QED BY <1>2, <1>4, <1>5, <1>6, <1>7, <1>10, PipeSides

\* rt_wqueue_wait: a flag that is set is used up, else the thread sleeps and may.
LEMMA WaitWake ==
    ASSUME WakeInv, DqInv, PipeInv, OnPipe, NEW t \in Thread, rt_wqueue_wait(t)
    PROVE  WakeInv'
<1> DEFINE q == OwnQueue(t)
<1>1. /\ Executes(t, "wait") /\ on' = [on EXCEPT ![t] = None] /\ UNCHANGED fifovars
      /\ holder' = holder
      /\ IF q \in wakeup
           THEN /\ wakeup' = wakeup \ {q} /\ Proceeds(t)
                /\ k' = k /\ pc' = pc /\ waiting_list' = waiting_list
           ELSE /\ waiting_list' = [waiting_list EXCEPT ![q] = Append(@, t)]
                /\ k' = rt_thread_suspend(k, t) /\ Goto(t, "block")
                /\ wakeup' = wakeup /\ todo' = todo
  BY DEF rt_wqueue_wait, kvars
<1>2. PipeAt(t, "wait") /\ Executing(t) /\ pc[t] = "run" /\ k.stat[t] = "READY"
  BY <1>1, ExecutesAt
<1>3. /\ DevThreads /\ PipeTyped /\ t \in Thread \ {Idle, Worker} /\ t \in {Reader, Writer}
      /\ SideOK(Reader) /\ SideOK(Writer) /\ waiting_list[q] = << >>
  BY <1>2 DEF WakeInv, PipeWaits, PipeAt
<1>4. CASE q \in wakeup
  <2>1. /\ wakeup' = wakeup \ {OwnQueue(t)} /\ Proceeds(t)
        /\ k' = k /\ pc' = pc /\ waiting_list' = waiting_list
    BY <1>1, <1>4
  <2>2. DStep({t}, {}, "EOK", {}, {})
    BY <1>1, <1>2, <1>3, <2>1, PipeRuns
  <2>3. NeutralTo(t, "wait")
    BY <1>1, <1>2, <1>3, <2>1 DEF NeutralTo, PipeTyped
  <2>4. PipeGoes(t)
    BY <1>1, <1>2, <2>1, <2>3, NeutralGoes
  <2>5. PipeRest(t, {}, {})
    BY <1>2, <1>3 DEF PipeRest, PipeAt
  <2> QED BY <2>2, <2>4, <2>5, PipeMoves
<1>5. CASE q \notin wakeup
  <2>1. /\ waiting_list' = [waiting_list EXCEPT ![q] = Append(@, t)]
        /\ k' = rt_thread_suspend(k, t) /\ Goto(t, "block") /\ wakeup' = wakeup /\ todo' = todo
    BY <1>1, <1>5
  <2>2. q \in WaitQueue /\ waiting_list \in [WaitQueue -> Seq(Thread)]
    BY <1>3 DEF OwnQueue, WaitQueue, PipeTyped
  <2>3. /\ waiting_list'[q] = <<t>> /\ waiting_list' \in [WaitQueue -> Seq(Thread)]
        /\ \A s \in {Reader, Writer} \ {t} : waiting_list'[OwnQueue(s)] = waiting_list[OwnQueue(s)]
    <3>1. Append(waiting_list[q], t) = <<t>> /\ <<t>> \in Seq(Thread)
      BY <1>3
    <3>2. \A s \in {Reader, Writer} \ {t} : OwnQueue(s) # q /\ OwnQueue(s) \in WaitQueue
      BY <1>3, QueuesDiffer DEF OwnQueue, WaitQueue
    <3> HIDE DEF q
    <3> QED BY <2>1, <2>2, <3>1, <3>2
  <2>4. PlacesKept(k)
    BY <1>3 DEF PlacesKept, SamePlaces, DevThreads
  <2>5. Joined(rt_thread_suspend(k, t), t, None)
    BY <1>2, <1>3, <2>4, SuspendJoins
  <2>6. DTurn({t}, {}, "EOK", {None}, {}) /\ k'.lock = k.lock
    BY <1>3, <2>1, <2>5, JoinedTurns
  <2>7. DStep({t}, {}, "EOK", {None}, {})
    BY <1>1, <1>2, <1>3, <2>1, <2>6, GoesToSleep
  <2>8. pc'[t] = "block" /\ on'[t] = None
    BY <1>1, <1>3, <2>1 DEF Goto, DevThreads
  <2>9. k'.stat[t] = "SUSPEND" /\ t \notin k'.timer
    BY <2>6 DEF DTurn
  <2>10. todo[t] # << >> /\ Head(todo[t]) = "wait" /\ "wait" \in ToSet(todo[t])
    BY <1>2 DEF PipeAt
  <2>11. \A s : Hushed(s)' = Hushed(s)
    BY <1>1, <2>1 DEF fifovars, Hushed, Dry, CanRead, CanWrite, WillWake, WakeCall
  <2>12. Hushed(t)
    BY <1>2, <1>3, <1>5, <2>10 DEF SideOK
  <2>13. SideOK(t)'
    <3>1. AsleepOK(t)'
      BY <2>1, <2>8, <2>9, <2>10 DEF AsleepOK
    <3>2. OwnQueue(t)' = OwnQueue(t)
      BY DEF OwnQueue
    <3> QED BY <2>3, <2>8, <2>11, <2>12, <3>1, <3>2 DEF SideOK
  <2>14. ASSUME NEW s \in {Reader, Writer}, s # t PROVE SideOK(s)'
    <3>1. /\ SideOK(s) /\ s \notin {t} /\ (AsleepOK(s) => s \notin {}) /\ todo'[s] = todo[s]
          /\ "wait" \in ToSet(todo[s]) \/ AsleepOK(s) => (Hushed(s) => Hushed(s)')
          /\ OwnQueue(s) \in wakeup => OwnQueue(s) \in wakeup'
          /\ waiting_list'[OwnQueue(s)] = waiting_list[OwnQueue(s)]
      BY <1>3, <2>1, <2>3, <2>11, <2>14
    <3> QED BY ONLY <2>7, <2>14, <3>1, SideKept
  <2>15. PipeTyped'
    BY <1>1, <1>3, <2>1, <2>3 DEF PipeTyped, fifovars
  <2>16. InPipe(t)'
    BY <1>3, <2>1, <2>8, <2>10 DEF InPipe
  <2>17. SideOK(Reader)' /\ SideOK(Writer)' /\ \A u \in Thread \ {t} : todo'[u] = todo[u]
    BY <1>3, <2>1, <2>13, <2>14
  <2>18. {None} \cap {completion, dq_pop, dq_push, wq_sem} = {}
    BY ListsDiffer
  <2> QED BY <1>2, <1>3, <2>7, <2>15, <2>16, <2>17, <2>18, PipeSides
<1> QED BY <1>4, <1>5

\* The wait is over.
LEMMA WaitReturnsWake ==
    ASSUME WakeInv, DqInv, PipeInv, OnPipe, NEW t \in Thread, WaitReturns(t)
    PROVE  WakeInv'
<1>1. /\ At(t, "woken") /\ todo[t] # << >> /\ Head(todo[t]) = "wait" /\ Goto(t, "run")
      /\ wakeup' = wakeup \ {OwnQueue(t)} /\ Proceeds(t) /\ k' = k /\ on' = on
      /\ UNCHANGED fifovars /\ holder' = holder /\ waiting_list' = waiting_list
  BY DEF WaitReturns
<1>2. Executing(t) /\ pc[t] = "woken" /\ k.stat[t] = "READY" /\ t \in Thread \ {Idle}
  BY <1>1, AtExecutes DEF WakeInv, Resetting
<1>3. PipeAt(t, "wait") /\ InPipe(t) /\ DevThreads /\ PipeTyped
  BY <1>1, <1>2, ReadyAt DEF WakeInv, PipeWaits
<1>4. OnMoves(t) /\ "run" \in Pcs \ (Resetting \cup {"block", "woken"})
  BY <1>1, <1>3, OnMovesHere DEF Pcs, Resetting
<1>5. DStep({t}, {}, "EOK", {}, {})
  BY <1>1, <1>2, <1>3, <1>4, MoveSteps
<1>6. on[t] \notin {dq_pop, dq_push}
  BY <1>1, <1>2, <1>3, ListsDiffer DEF InPipe
<1>7. pc'[t] = "run"
  BY <1>1, <1>3 DEF Goto, DevThreads
<1>8. NeutralTo(t, "wait")
  BY <1>1, <1>3, <1>7 DEF NeutralTo, PipeTyped
<1>9. PipeGoes(t)
  BY <1>1, <1>3, <1>8, NeutralGoes
<1>10. PipeRest(t, {}, {})
  BY <1>3, <1>6 DEF PipeRest, PipeAt
<1> QED BY <1>5, <1>9, <1>10, PipeMoves

\* What a step of t that leaves kernel, mutex and wait queues alone has to see to.
FifoTo(t) ==
    /\ UNCHANGED <<k, pc, on, holder, wakeup, waiting_list>>
    /\ \A u \in Thread \ {t} : todo'[u] = todo[u]
    /\ nonblock' \subseteq Thread
    /\ "wait" \in ToSet(todo'[t]) => Hushed(t)'
    /\ \A r \in {Reader, Writer} \ {t} :
          "wait" \in ToSet(todo[r]) \/ AsleepOK(r) => (Hushed(r) => Hushed(r)')

\* Such a step keeps the invariant.
LEMMA FifoWake ==
    ASSUME WakeInv, DqInv, OnPipe, NEW t, Executing(t), pc[t] = "run", t \in {Reader, Writer},
           t # Worker, waiting_list[OwnQueue(t)] = << >>, FifoTo(t)
    PROVE  WakeInv'
<1>1. k' = k /\ pc' = pc /\ on' = on /\ DevThreads /\ t \in Thread \ {Idle} /\ PipeTyped
  BY DEF FifoTo, WakeInv, Executing, PipeWaits
<1>2. DStep({t}, {}, "EOK", {}, {})
  BY <1>1, PipeRuns
<1>3. PipeTyped' /\ InPipe(t)'
  BY <1>1 DEF FifoTo, PipeTyped, InPipe
<1>4. PipeGoes(t)
  BY <1>3 DEF FifoTo, PipeGoes
<1>5. PipeRest(t, {}, {})
  BY DEF PipeRest
<1> QED BY <1>2, <1>4, <1>5, PipeMoves

\* A side that sleeps, or is on its way to, has its end open.
LEMMA SleeperUses ==
    ASSUME PipeInv, NEW r \in {Reader, Writer}, "wait" \in ToSet(todo[r]) \/ AsleepOK(r)
    PROVE  todo[r] \in Using /\ End(r) = 1 /\ Refs(r) = 1
<1>1. todo[r] \in Shape /\ EndOK(r)
  BY PipeAssumption DEF PipeInv, PipeEnds
<1>2. AsleepOK(r) => "wait" \in ToSet(todo[r])
  BY <1>1, ShapeSets DEF AsleepOK
<1>3. todo[r] \in Using
  BY <1>1, <1>2, ShapeSets
<1> QED BY <1>1, <1>3 DEF EndOK, Refs

\* The first part of a step that executes a primitive on the fifo.
LEMMA FifoStarts ==
    ASSUME WakeInv, PipeInv, NEW t \in Thread, NEW p, Executes(t, p)
    PROVE  /\ Executing(t) /\ pc[t] = "run" /\ t \in {Reader, Writer} /\ t # Worker
           /\ waiting_list[OwnQueue(t)] = << >> /\ PipeAt(t, p) /\ PipeTyped
BY ExecutesAt DEF PipeAt, WakeInv, PipeWaits

\* pipe_fops_open and the end of pipe_fops_close: the fifo stays as long as the
\* other side uses it.
LEMMA OpenUnrefWake ==
    ASSUME WakeInv, DqInv, PipeInv, OnPipe, NEW t \in Thread, Open(t) \/ Unref(t)
    PROVE  WakeInv'
<1>0. PICK p \in {"open", "unref"} : Executes(t, p) /\ (p = "open" <=> Open(t))
  BY DEF Open, Unref, Executes
<1>1. /\ Proceeds(t) /\ k' = k /\ pc' = pc /\ on' = on /\ holder' = holder
      /\ wakeup' = wakeup /\ waiting_list' = waiting_list /\ count' = count
      /\ nonblock' = nonblock
  BY DEF Open, Unref, kvars
<1>2. /\ Executing(t) /\ pc[t] = "run" /\ t \in {Reader, Writer} /\ t # Worker
      /\ waiting_list[OwnQueue(t)] = << >> /\ PipeAt(t, p) /\ PipeTyped
  BY <1>0, FifoStarts
<1>3. /\ todo'[t] = Tail(todo[t]) /\ \A u \in Thread \ {t} : todo'[u] = todo[u]
      /\ ToSet(todo[t]) = {p} \cup ToSet(todo'[t])
  BY <1>1, <1>2, ProceedsTodo
<1>4. "wait" \notin ToSet(todo'[t])
  BY <1>2, <1>3, ShapeSets DEF PipeAt
<1>5. ASSUME NEW r \in {Reader, Writer}, r # t, "wait" \in ToSet(todo[r]) \/ AsleepOK(r)
      PROVE  Hushed(r) => Hushed(r)'
  <2>1. Refs(r) = 1
    BY <1>5, SleeperUses
  <2>2. /\ ref_count = Refs(Reader) + Refs(Writer) /\ readers \in {0, 1} /\ writers \in {0, 1}
        /\ EndOK(t)
    BY <1>2, PipeAssumption DEF PipeInv, PipeEnds, EndOK, End
  <2>3. Refs(t) = IF p = "open" THEN 0 ELSE 1
    <3>1. IF p = "open" THEN todo[t] \in Opening ELSE todo[t] \in Leaving
      BY <1>2, NextPrimitive DEF PipeAt
    <3>2. todo[t] \in Opening => todo[t] \notin Leaving
      BY Phases
    <3> QED BY <2>2, <3>1, <3>2 DEF Refs, EndOK
  <2>4. ref_count = IF p = "open" THEN 1 ELSE 2
    BY <1>2, <1>5, <2>1, <2>2, <2>3
  <2>5. fifo' = fifo
    BY <1>0, <2>4 DEF Open, Unref
  <2>6. readers' >= readers /\ writers' >= writers
    BY <1>0, <2>2 DEF Open, Unref
  <2>7. Dry(r) => Dry(r)'
    <3>1. readers' \in Int /\ writers' \in Int
      BY <2>2 DEF Open, Unref
    <3> QED BY <1>1, <2>2, <2>5, <2>6, <3>1 DEF Dry, CanRead, CanWrite
  <2>8. \A u \in Thread : WakeCall(r) \in ToSet(todo[u]) => WakeCall(r) \in ToSet(todo'[u])
    <3>1. p # WakeCall(r)
      BY DEF WakeCall
    <3> QED BY <1>3, <3>1
  <2> QED BY <2>7, <2>8, HushedKept
<1>6. FifoTo(t)
  BY <1>1, <1>2, <1>3, <1>4, <1>5 DEF FifoTo, PipeTyped
<1> QED BY <1>2, <1>6, FifoWake

\* The wake-ups a close has left to do.
LEMMA CloseWakes ==
    ASSUME NEW a \in {<<"wake_reader">>, << >>}, NEW b \in {<<"wake_writer">>, << >>},
           NEW s, s = a \o b \o <<"unref", "release">>
    PROVE  /\ s \in Leaving
           /\ a # << >> => "wake_reader" \in ToSet(s)
           /\ b # << >> => "wake_writer" \in ToSet(s)
<1>1. s \in Leaving
  BY CloseLeaves
<1>2. s \in Seq(Primitive)
  BY <1>1, ShapeTyped DEF Shape
<1>3. a # << >> => Len(s) >= 1 /\ s[1] = "wake_reader"
  <2>1. CASE a = <<"wake_reader">> /\ b = << >>
    BY <2>1
  <2>2. CASE a = <<"wake_reader">> /\ b = <<"wake_writer">>
    BY <2>2
  <2> QED BY <2>1, <2>2
<1>4. b # << >> => \E i \in 1 .. Len(s) : s[i] = "wake_writer"
  <2>1. CASE a = << >> /\ b = <<"wake_writer">>
    <3>1. Len(s) = 3 /\ s[1] = "wake_writer"
      BY <2>1
    <3> QED BY <3>1
  <2>2. CASE a = <<"wake_reader">> /\ b = <<"wake_writer">>
    <3>1. Len(s) = 4 /\ s[2] = "wake_writer"
      BY <2>2
    <3> QED BY <3>1
  <2> QED BY <2>1, <2>2
<1>5. \A x : x \in ToSet(s) <=> \E j \in 1 .. Len(s) : s[j] = x
  BY ONLY <1>2, ListIndex
<1> QED BY <1>1, <1>2, <1>3, <1>4, <1>5

\* pipe_fops_close: the other side will be woken.
LEMMA CloseWake ==
    ASSUME WakeInv, DqInv, PipeInv, OnPipe, NEW t \in Thread, Close(t)
    PROVE  WakeInv'
<1> DEFINE a == IF writers' = 0 THEN <<"wake_reader">> ELSE << >>
           b == IF readers' = 0 THEN <<"wake_writer">> ELSE << >>
           s == a \o b \o <<"unref", "release">>
<1>1. /\ Executes(t, "close") /\ Then(t, s) /\ UNCHANGED <<kvars, on, holder, wakeup, waiting_list>>
      /\ nonblock' = nonblock /\ readers' = (IF t = Reader THEN readers - 1 ELSE readers)
      /\ writers' = IF t = Writer THEN writers - 1 ELSE writers
  BY DEF Close
<1>2. /\ Executing(t) /\ pc[t] = "run" /\ t \in {Reader, Writer} /\ t # Worker
      /\ waiting_list[OwnQueue(t)] = << >> /\ PipeAt(t, "close") /\ PipeTyped
  BY <1>1, FifoStarts
<1>3. /\ s \in Leaving /\ (a # << >> => "wake_reader" \in ToSet(s))
      /\ b # << >> => "wake_writer" \in ToSet(s)
  <2>1. a \in {<<"wake_reader">>, << >>} /\ b \in {<<"wake_writer">>, << >>}
    OBVIOUS
  <2> HIDE DEF a, b
  <2>2. s = a \o b \o <<"unref", "release">>
    OBVIOUS
  <2> HIDE DEF s
  <2> QED BY <2>1, <2>2, CloseWakes
<1>4. End(t) = 1
  <2>1. todo[t] \in Closing
    BY <1>2, NextPrimitive DEF PipeAt
  <2> QED BY <1>2, <2>1 DEF PipeInv, PipeEnds, EndOK
<1>5. /\ t = Reader => b # << >>
      /\ t = Writer => a # << >>
  BY <1>1, <1>4, PipeAssumption DEF End
<1> HIDE DEF a, b, s
<1>6. todo'[t] = s /\ \A u \in Thread \ {t} : todo'[u] = todo[u]
  BY <1>1 DEF Then, PipeInv, PipeEnds
<1>7. ToSet(s) \cap {"wait", "body", "again"} = {}
  BY <1>3, PhaseSets
<1>8. ASSUME NEW r \in {Reader, Writer}, r # t PROVE Hushed(r)'
  BY <1>2, <1>3, <1>5, <1>6, <1>8, PipeAssumption DEF Hushed, WillWake, WakeCall
<1>9. FifoTo(t)
  BY <1>1, <1>2, <1>6, <1>7, <1>8 DEF FifoTo, PipeTyped, kvars
<1> QED BY <1>2, <1>9, FifoWake

\* pipe_fops_read: it sleeps when it can read nothing and a writer is left; when it
\* has made space it will wake the writer.
LEMMA ReadBodyWake ==
    ASSUME WakeInv, DqInv, PipeInv, OnPipe, NEW t \in Thread, ReadBody(t)
    PROVE  WakeInv'
<1> DEFINE n == AtMost(Length(count[t]), rt_ringbuffer_data_len(fifo))
           z == SleepAndRetry("wake_writer")
<1>1. /\ t = Reader /\ UNCHANGED <<kvars, on, holder, wakeup, waiting_list>>
      /\ readers' = readers /\ writers' = writers
      /\ \/ writers = 0 /\ Then(t, <<"release">>) /\ Over(t) /\ fifo' = fifo
         \/ writers # 0 /\ n > 0 /\ Then(t, <<"wake_writer", "release">>) /\ Over(t)
         \/ writers # 0 /\ n = 0 /\ Then(t, <<"release">>) /\ Over(t) /\ fifo' = fifo
         \/ /\ writers # 0 /\ n = 0 /\ Then(t, z) /\ fifo' = fifo
            /\ count' = count /\ nonblock' = nonblock
  BY DEF ReadBody
<1>2. PICK p \in {"body", "again"} : Executes(t, p)
  BY DEF ReadBody, Body
<1>3. /\ Executing(t) /\ pc[t] = "run" /\ t \in {Reader, Writer} /\ t # Worker
      /\ waiting_list[OwnQueue(t)] = << >> /\ PipeAt(t, p) /\ PipeTyped
  BY <1>2, FifoStarts
<1>4. ToSet(todo[t]) = {p}
  BY <1>3, ShapeSets DEF PipeAt
<1>5. /\ todo \in [Thread -> Shape] /\ count \in [Thread -> Nat]
      /\ writers \in {0, 1} /\ Reader \in Thread /\ Writer \in Thread /\ Reader # Writer
  BY PipeAssumption DEF PipeInv, PipeEnds, EndOK, End
<1>6. Length(count[t]) \in Nat
  BY <1>5, LengthFacts
<1>7. rt_ringbuffer_data_len(fifo) \in 0 .. buffer_size
  BY DataLen DEF PipeInv, PipeFifo, HoldsNewest
<1>8. n = 0 => ~CanRead
  BY <1>1, <1>6, <1>7, RingSize DEF AtMost, CanRead
<1>9. /\ ToSet(<<"release">>) = {"release"}
      /\ ToSet(<<"wake_writer", "release">>) = {"wake_writer", "release"}
      /\ ToSet(z) = {"release", "wake_writer", "wait", "take", "again"}
  BY DEF ToSet, SleepAndRetry
<1> HIDE DEF n, z
<1>10. PICK s : Then(t, s)
  BY <1>1
<1>11. todo'[t] = s /\ \A u \in Thread \ {t} : todo'[u] = todo[u]
  BY <1>5, <1>10 DEF Then
<1>12. "wait" \in ToSet(todo'[t]) => Hushed(t)'
  <2>1. SUFFICES ASSUME "wait" \in ToSet(todo'[t]) PROVE Dry(t)'
    BY DEF Hushed
  <2>2. writers # 0 /\ n = 0 /\ fifo' = fifo /\ count' = count
    BY <1>1, <1>5, <1>9, <2>1 DEF Then
  <2> QED BY <1>1, <1>5, <1>8, <2>2 DEF Dry, CanRead
<1>13. "wake_writer" \in ToSet(todo'[t]) \/ fifo' = fifo
  BY <1>1, <1>5, <1>9 DEF Then
<1>14. Hushed(Writer) => Hushed(Writer)'
  <2>1. CASE "wake_writer" \in ToSet(todo'[t])
    BY <1>5, <2>1 DEF Hushed, WillWake, WakeCall
  <2>2. CASE fifo' = fifo
    <3>1. count'[Writer] = count[Writer]
      BY <1>1, <1>5 DEF Over
    <3>2. Dry(Writer) => Dry(Writer)'
      BY <1>1, <1>5, <2>2, <3>1 DEF Dry, CanWrite
    <3>3. \A u \in Thread :
             WakeCall(Writer) \in ToSet(todo[u]) => WakeCall(Writer) \in ToSet(todo'[u])
      BY <1>4, <1>11 DEF WakeCall
    <3> QED BY <3>2, <3>3, HushedKept
  <2> QED BY <1>13, <2>1, <2>2
<1>15. nonblock' \subseteq Thread
  BY <1>1, <1>3 DEF Over, PipeTyped
<1>16. FifoTo(t)
  BY <1>1, <1>11, <1>12, <1>14, <1>15 DEF FifoTo, kvars
<1> QED BY <1>3, <1>16, FifoWake

\* pipe_fops_write: it sleeps when it has filled the fifo, or has left what narrows
\* to nothing, and a reader is left; when it has put something it will wake the reader.
LEMMA WriteBodyWake ==
    ASSUME WakeInv, DqInv, PipeInv, OnPipe, NEW t \in Thread, WriteBody(t)
    PROVE  WakeInv'
<1> DEFINE l == Length(count[t])
           n == AtMost(l, SpaceLen(fifo))
           z == SleepAndRetry("wake_reader")
           w == <<"release", "wake_reader">>
           f == rt_ringbuffer_put(fifo, Stream(sent, l))
<1>1. /\ t = Writer /\ UNCHANGED <<kvars, on, holder, wakeup, waiting_list>>
      /\ readers' = readers /\ writers' = writers
      /\ \/ readers = 0 /\ (Then(t, w) \/ Then(t, <<"release">>)) /\ Over(t) /\ fifo' = fifo
         \/ readers # 0 /\ Then(t, w) /\ Over(t)
         \/ /\ readers # 0 /\ Then(t, z) /\ n # count[t] /\ fifo' = f
            /\ count' = [count EXCEPT ![t] = @ - n] /\ nonblock' = nonblock
  BY DEF WriteBody
<1>2. PICK p \in {"body", "again"} : Executes(t, p)
  BY DEF WriteBody, Body
<1>3. /\ Executing(t) /\ pc[t] = "run" /\ t \in {Reader, Writer} /\ t # Worker
      /\ waiting_list[OwnQueue(t)] = << >> /\ PipeAt(t, p) /\ PipeTyped
  BY <1>2, FifoStarts
<1>4. ToSet(todo[t]) = {p}
  BY <1>3, ShapeSets DEF PipeAt
<1>5. /\ todo \in [Thread -> Shape] /\ count \in [Thread -> Nat]
      /\ readers \in {0, 1} /\ Reader \in Thread /\ Writer \in Thread /\ Reader # Writer
  BY PipeAssumption DEF PipeInv, PipeEnds, EndOK, End
<1>6. HoldsNewest(fifo, sent) /\ l \in Nat /\ Length(count[t] - l) = 0
  BY <1>5, LengthFacts DEF PipeInv, PipeFifo
<1>7. rt_ringbuffer_data_len(fifo) \in 0 .. buffer_size
  BY <1>6, DataLen DEF HoldsNewest
<1>8. rt_ringbuffer_data_len(f) = rt_ringbuffer_data_len(fifo) + n
  BY <1>6, PutKeeps
<1>9. SpaceLen(f) = 0 \/ Length(count[t] - n) = 0
  <2>1. n = l \/ n = buffer_size - rt_ringbuffer_data_len(fifo)
    BY <1>6, <1>7 DEF AtMost, SpaceLen
  <2> HIDE DEF n, f, l
  <2> QED BY <1>6, <1>7, <1>8, <2>1, RingSize DEF SpaceLen
<1>10. /\ ToSet(<<"release">>) = {"release"} /\ ToSet(w) = {"release", "wake_reader"}
       /\ ToSet(z) = {"release", "wake_reader", "wait", "take", "again"}
  BY DEF ToSet, SleepAndRetry
<1> HIDE DEF n, z, w, f, l
<1>11. PICK s : Then(t, s)
  BY <1>1
<1>12. todo'[t] = s /\ \A u \in Thread \ {t} : todo'[u] = todo[u]
  BY <1>5, <1>11 DEF Then
<1>13. "wait" \in ToSet(todo'[t]) => Hushed(t)'
  <2>1. SUFFICES ASSUME "wait" \in ToSet(todo'[t]) PROVE Dry(t)'
    BY DEF Hushed
  <2>2. readers # 0 /\ fifo' = f /\ count'[t] = count[t] - n
    BY <1>1, <1>5, <1>10, <2>1 DEF Then
  <2> QED BY <1>1, <1>5, <1>9, <2>2 DEF Dry, CanWrite
<1>14. "wake_reader" \in ToSet(todo'[t]) \/ fifo' = fifo
  BY <1>1, <1>5, <1>10 DEF Then
<1>15. Hushed(Reader) => Hushed(Reader)'
  <2>1. CASE "wake_reader" \in ToSet(todo'[t])
    BY <1>5, <2>1 DEF Hushed, WillWake, WakeCall
  <2>2. CASE fifo' = fifo
    <3>1. count'[Reader] = count[Reader]
      BY <1>1, <1>5 DEF Over
    <3>2. Dry(Reader) => Dry(Reader)'
      BY <1>1, <2>2, <3>1 DEF Dry, CanRead
    <3>3. \A u \in Thread :
             WakeCall(Reader) \in ToSet(todo[u]) => WakeCall(Reader) \in ToSet(todo'[u])
      BY <1>4, <1>12 DEF WakeCall
    <3> QED BY <3>2, <3>3, HushedKept
  <2> QED BY <1>14, <2>1, <2>2
<1>16. nonblock' \subseteq Thread
  BY <1>1, <1>3 DEF Over, PipeTyped
<1>17. FifoTo(t)
  BY <1>1, <1>12, <1>13, <1>15, <1>16 DEF FifoTo, kvars
<1> QED BY <1>3, <1>17, FifoWake

\* The start of a call: nothing has happened yet.
LEMMA PipeCallWake ==
    ASSUME WakeInv, DqInv, PipeInv, OnPipe, NEW t \in Thread, PipeCall(t), t # Worker
    PROVE  WakeInv'
<1> DEFINE o == <<"take", "open", "release">>
           c == <<"take", "close">>
           b == <<"take", "body">>
<1>1. /\ PipeCalls(t) /\ PipeCallOnly
      /\ \/ (Then(t, o) \/ Then(t, c)) /\ count' = count /\ nonblock' = nonblock
         \/ Then(t, b) /\ \E n \in Count, nb \in BOOLEAN : Asks(t, n, nb)
  BY DEF PipeCall, pipe_fops_open, pipe_fops_close, pipe_fops_read, pipe_fops_write
<1>2. t \in {Reader, Writer} /\ todo[t] = << >> /\ At(t, "run") /\ t # Idle
  BY <1>1 DEF PipeCalls, CallsOn, Calls
<1>3. Executing(t) /\ pc[t] = "run"
  BY <1>2, AtExecutes DEF WakeInv, Resetting
<1>4. waiting_list[OwnQueue(t)] = << >>
  BY <1>2 DEF WakeInv, PipeWaits, SideOK, AsleepOK
<1>5. /\ todo \in [Thread -> Shape] /\ count \in [Thread -> Nat] /\ PipeTyped
      /\ Reader \in Thread /\ Writer \in Thread /\ Reader # Writer
  BY PipeAssumption DEF PipeInv, PipeEnds, WakeInv, PipeWaits
<1>6. /\ ToSet(o) = {"take", "open", "release"} /\ ToSet(c) = {"take", "close"}
      /\ ToSet(b) = {"take", "body"} /\ ToSet(<< >>) = {}
  BY DEF ToSet
<1> HIDE DEF o, c, b
<1>7. PICK s \in {o, c, b} : Then(t, s)
  BY <1>1
<1>8. todo'[t] = s /\ \A u \in Thread \ {t} : todo'[u] = todo[u]
  BY <1>5, <1>7 DEF Then
<1>9. "wait" \notin ToSet(todo'[t])
  BY <1>6, <1>7, <1>8
<1>10. \A r \in {Reader, Writer} \ {t} : Hushed(r) => Hushed(r)'
  <2> TAKE r \in {Reader, Writer} \ {t}
  <2>0. count'[r] = count[r]
    BY <1>1, <1>5 DEF Asks
  <2>1. Dry(r) => Dry(r)'
    BY <1>1, <1>5, <2>0 DEF Dry, CanRead, CanWrite, PipeCallOnly
  <2>2. \A u \in Thread : WakeCall(r) \in ToSet(todo[u]) => WakeCall(r) \in ToSet(todo'[u])
    BY <1>2, <1>6, <1>8
  <2> QED BY <2>1, <2>2, HushedKept
<1>11. nonblock' \subseteq Thread
  BY <1>1, <1>5 DEF Asks, PipeTyped
<1>12. FifoTo(t)
  BY <1>1, <1>8, <1>9, <1>10, <1>11 DEF FifoTo, PipeCallOnly, kvars
<1> QED BY <1>2, <1>3, <1>4, <1>12, FifoWake

\* The steps of a thread in a call on the pipe.
LEMMA PipeStepWake ==
    ASSUME WakeInv, DqInv, PipeInv, OnPipe, NEW t \in Thread, PipeStep(t)
    PROVE  WakeInv'
<1>1. CASE rt_wqueue_wakeup(t, "wake_reader", "reader_queue")
  <2>1. WakeCall(Reader) = "wake_reader" /\ OwnQueue(Reader) = "reader_queue"
    BY DEF WakeCall, OwnQueue
  <2> QED BY <1>1, <2>1, WakeupWake
<1>2. CASE rt_wqueue_wakeup(t, "wake_writer", "writer_queue")
  <2>1. WakeCall(Writer) = "wake_writer" /\ OwnQueue(Writer) = "writer_queue"
    BY PipeAssumption DEF WakeCall, OwnQueue
  <2> QED BY <1>2, <2>1, WakeupWake
<1> QED BY <1>1, <1>2, TakeWake, TakeReturnsWake, ReleaseWake, WaitWake, WaitReturnsWake,
          OpenUnrefWake, CloseWake, ReadBodyWake, WriteBodyWake DEF PipeStep

-----------------------------------------------------------------------------
(* Every step.                                                             *)

\* A ring is nobody's to wait for.
LEMMA RingsWake ==
    ASSUME WakeInv, DqInv, NEW t \in Thread,
           (RingCall(t) /\ OnRing) \/ (RingBlockCall(t) /\ OnRingBlock)
    PROVE  WakeInv'
<1>1. k' = k /\ pc' = pc /\ on' = on
  BY DEF RingCall, RingPut, RingPutForce, RingGet, RingPutcharForce, rt_ringbuffer_reset,
         RingCalls, RingBlockCall, rt_rbb_blk_alloc, rt_rbb_blk_put, rt_rbb_blk_free,
         rt_rbb_blk_get, rt_rbb_blk_queue_get, rt_rbb_blk_queue_free, RbbCalls, kvars
<1>2. DStep({}, {}, "EOK", {}, {})
  BY <1>1, StutterSteps DEF WakeInv
<1>3. Aside({}, {}, {}) /\ UNCHANGED <<completed, dqvars, wqvars, pipevars>>
  BY DEF Aside, OnRing, OnRingBlock
<1> QED BY <1>2, <1>3, WakeKeptAside

\* Nothing has happened.
LEMMA NothingWake ==
    ASSUME WakeInv, DqInv, UNCHANGED vars
    PROVE  WakeInv'
<1>1. k' = k /\ pc' = pc /\ on' = on /\ UNCHANGED <<completed, dqvars, wqvars, pipevars>>
  BY DEF vars, kvars
<1>2. DStep({}, {}, "EOK", {}, {})
  BY <1>1, StutterSteps DEF WakeInv
<1>3. Aside({}, {}, {})
  BY DEF Aside
<1> QED BY <1>1, <1>2, <1>3, WakeKeptAside

\* At the start nobody waits.
LEMMA WakeInitially == Init => WakeInv
<1> SUFFICES ASSUME Init PROVE WakeInv
  OBVIOUS
<1>0. /\ completion \in Queue /\ dq_pop \in Queue /\ dq_push \in Queue /\ wq_sem \in Queue
      /\ Worker \in Thread /\ Idle \in Thread /\ Main \in Thread
      /\ Reader \in Thread /\ Writer \in Thread
  BY ListsDiffer, WorkQueueAssumption, ThreadAssumption, MainAssumption, PipeAssumption
<1>1. KernelOK(k) /\ k = BootState /\ pc = [t \in Thread |-> "run"]
      /\ on = [t \in Thread |-> None]
  BY BootStateOK DEF Init, ThreadsInit
<1>2. /\ k.stat = [t \in Thread |-> IF t \in {Idle, Main} THEN "READY" ELSE "INIT"]
      /\ k.cur = Main /\ k.lock = 0 /\ k.wait = [q \in Queue |-> << >>]
  BY <1>1 DEF BootState
<1>3. \A q \in Queue : k.wait[q] = << >> /\ ToSet(k.wait[q]) = {}
  BY <1>2, NoneSet
<1>4. \A t \in Thread : k.stat[t] \in {"READY", "INIT"} /\ pc[t] = "run" /\ on[t] = None
  BY <1>1, <1>2
<1>5. DevThreads
  <2>1. DevWaiting
    BY <1>0, <1>3, <1>4 DEF DevWaiting
  <2>2. CurRunnable /\ LockOK
    BY <1>0, <1>2, <1>4 DEF CurRunnable, LockOK
  <2>3. pc \in [Thread -> Pcs] /\ on \in [Thread -> Queue \cup {None}]
    BY <1>1 DEF Pcs
  <2> QED BY <1>0, <1>1, <1>4, <2>1, <2>2, <2>3 DEF DevThreads, Resetting
<1>6. CmpInv
  BY <1>0, <1>3 DEF Init, CompletionInit, CmpInv
<1>7. DqWake
  BY <1>0, <1>3 DEF DqWake, Covered
<1>8. WqInv
  <2>1. work_list = << >> /\ work_current = None
    BY DEF Init, WorkQueueInit
  <2>2. << >> \in Seq(Work) /\ IsInjective(<< >>)
    BY DEF IsInjective
  <2> QED BY <1>0, <1>3, <1>4, <2>1, <2>2 DEF WqInv, WorkQueueTypeOK, WorkerPcs
<1>9. PipeWaits
  <2>1. /\ holder = None /\ wakeup = {} /\ waiting_list = [q \in WaitQueue |-> << >>]
        /\ todo = [t \in Thread |-> << >>] /\ nonblock = {}
    BY DEF Init, PipeInit
  <2>2. \A t \in Thread : todo[t] = << >> /\ ToSet(todo[t]) = {}
    BY <2>1, NoneSet
  <2>3. PipeTyped
    BY <1>0, <2>1, <2>2 DEF PipeTyped
  <2>4. \A t \in Thread : InPipe(t)
    BY <2>2 DEF InPipe
  <2>5. \A r \in {Reader, Writer} : SideOK(r)
    <3>1. \A r : OwnQueue(r) \in WaitQueue
      BY DEF OwnQueue, WaitQueue
    <3>2. \A r \in {Reader, Writer} : waiting_list[OwnQueue(r)] = << >> /\ << >> # <<r>>
      BY <2>1, <3>1
    <3> QED BY <1>0, <2>2, <3>2 DEF SideOK
  <2> QED BY <2>3, <2>4, <2>5 DEF PipeWaits
<1> QED BY <1>5, <1>6, <1>7, <1>8, <1>9 DEF WakeInv

\* Every step keeps the invariant of the wake-ups.
LEMMA WakeNext == WakeInv /\ DqInv /\ PipeInv /\ [Next]_vars => WakeInv'
<1> SUFFICES ASSUME WakeInv, DqInv, PipeInv, [Next]_vars PROVE WakeInv'
  OBVIOUS
<1>1. CASE UNCHANGED vars
  BY <1>1, NothingWake
<1>2. ASSUME NEW t \in Thread, ThreadCall(t) PROVE WakeInv'
  <2>0. todo[t] = << >> /\ t # Worker
    BY <1>2 DEF ThreadCall
  <2>1. CASE \E u \in Thread : Starts(t, u)
    BY <2>0, <2>1, StartsWake
  <2>2. CASE rt_thread_sleep(t)
    BY <2>0, <2>2, SleepWake
  <2>3. CASE CompletionCall(t) /\ OnCompletion
    BY <2>0, <2>3, CompletionCallWake
  <2>4. CASE DataQueueCall(t) /\ OnDataQueue
    BY <2>0, <2>4, DataQueueCallWake
  <2>5. CASE WorkQueueCall(t) /\ OnWorkQueue
    BY <2>0, <2>5, WorkQueueCallWake
  <2>6. CASE PipeCall(t) /\ OnPipe
    BY <2>0, <2>6, PipeCallWake
  <2>7. CASE (RingCall(t) /\ OnRing) \/ (RingBlockCall(t) /\ OnRingBlock)
    BY <2>7, RingsWake
  <2> QED BY <1>2, <2>1, <2>2, <2>3, <2>4, <2>5, <2>6, <2>7 DEF ThreadCall
<1>3. ASSUME NEW t \in Thread, ThreadStep(t) PROVE WakeInv'
  <2>1. CASE Reschedule(t) /\ UNCHANGED on /\ OnObjects
    BY <2>1, RescheduleWake
  <2>2. CASE SleepReturn(t)
    BY <2>2, SleepReturnWake
  <2>3. CASE CompletionStep(t) /\ OnCompletion
    BY <2>3, CompletionStepWake
  <2>4. CASE DataQueueStep(t) /\ OnDataQueue
    BY <2>4, DataQueueStepWake
  <2>5. CASE WorkQueueStep(t) /\ OnWorkQueue
    BY <2>5, WorkQueueStepWake
  <2>6. CASE PipeStep(t) /\ OnPipe
    BY <2>6, PipeStepWake
  <2> QED BY <1>3, <2>1, <2>2, <2>3, <2>4, <2>5, <2>6 DEF ThreadStep
<1>4. CASE Interrupt
  <2>1. CASE \/ \E t \in Thread : Timeout(t) /\ UNCHANGED on /\ OnObjects
             \/ SliceExpired /\ UNCHANGED on /\ OnObjects
    <3>1. /\ (\E t \in Thread : Timeout(t)) \/ SliceExpired
          /\ on' = on /\ OnObjects
      BY <2>1
    <3> QED BY <3>1, TickWake
  <2>2. CASE DoneIsr /\ OnCompletion
    BY <2>2, DoneIsrWake
  <2>3. CASE DataQueueIsr /\ OnDataQueue
    BY <2>3, DataQueueIsrWake
  <2> QED BY <1>4, <2>1, <2>2, <2>3 DEF Interrupt
<1> QED BY <1>1, <1>2, <1>3, <1>4 DEF Next, Halted
-----------------------------------------------------------------------------
(* The types of what no proof above speaks of.                             *)

\* A step leaves the flags of the run and the timeouts as they are, but for an
\* assertion that fails and the timeout one call passes on.
FlagsKept ==
    /\ alive' = alive
    /\ fault' \in {fault, TRUE}
    /\ \/ timeout' = timeout
       \/ \E t \in Thread, time \in Time : timeout' = [timeout EXCEPT ![t] = time]

FlagsTyped == alive \in Created /\ fault \in BOOLEAN /\ timeout \in [Thread -> Time]

\* Steps on the data queue.
LEMMA DataQueueFlags ==
    ASSUME FlagsTyped
    PROVE  /\ \A t \in Thread : DataQueueCall(t) \/ DataQueueStep(t) => FlagsKept
           /\ DataQueueIsr => FlagsKept
<1>0. \A t \in Thread : timeout[t] \in Time /\ 0 \in Time
  BY DEF FlagsTyped, Time
<1>1. ASSUME NEW t \in Thread, NEW time \in Time, NEW v,
             PushRound(t, v, time) \/ PopRound(t, time) \/ GivesUp(t)
      PROVE  \E z \in Time : timeout' = [timeout EXCEPT ![t] = z]
  BY <1>0, <1>1 DEF PushRound, PopRound, GivesUp, WaitsOn, Passes
<1>2. ASSUME NEW t \in Thread, DataQueueCall(t) PROVE FlagsKept
  <2>1. CASE \E v \in Item, time \in Time : rt_data_queue_push(t, v, time)
    BY <1>1, <2>1 DEF rt_data_queue_push, FlagsKept
  <2>2. CASE \E time \in Time : rt_data_queue_pop(t, time)
    BY <1>1, <2>2 DEF rt_data_queue_pop, FlagsKept
  <2>3. CASE UseItem(t) \/ rt_data_queue_reset(t)
    BY <2>3 DEF UseItem, rt_data_queue_reset, FlagsKept
  <2> QED BY <1>2, <2>1, <2>2, <2>3 DEF DataQueueCall
<1>3. ASSUME NEW t \in Thread, DataQueueStep(t) PROVE FlagsKept
  <2>1. CASE PushResumed(t)
    BY <1>0, <1>1, <2>1 DEF PushResumed, FlagsKept
  <2>2. CASE PopResumed(t)
    BY <1>0, <1>1, <2>2 DEF PopResumed, FlagsKept
  <2>3. CASE DqResetTest(t) \/ DqResetResume(t)
    BY <2>3 DEF DqResetTest, DqResetResume, FlagsKept
  <2> QED BY <1>3, <2>1, <2>2, <2>3 DEF DataQueueStep
<1>4. ASSUME DataQueueIsr PROVE FlagsKept
  BY <1>4 DEF DataQueueIsr, PushIsr, FlagsKept
<1> QED BY <1>2, <1>3, <1>4

\* Steps on the other objects.
LEMMA OtherFlags ==
    /\ \A t \in Thread : CompletionCall(t) \/ CompletionStep(t) \/ DoneIsr => FlagsKept
    /\ \A t \in Thread : WorkQueueCall(t) \/ WorkQueueStep(t) => FlagsKept
    /\ \A t \in Thread : RingCall(t) => FlagsKept
    /\ \A t \in Thread : RingBlockCall(t) => FlagsKept
<1>1. \A t \in Thread : CompletionCall(t) \/ CompletionStep(t) \/ DoneIsr => FlagsKept
  BY DEF CompletionCall, CompletionStep, rt_completion_wait, rt_completion_done, WaitResult,
         WaitClear, Done, DoneIsr, FlagsKept
<1>2. \A t \in Thread : WorkQueueCall(t) \/ WorkQueueStep(t) => FlagsKept
  BY DEF WorkQueueCall, WorkQueueStep, WorkerTest, WorkerSuspend, WorkerTake, WorkerClean,
         WorkerAck, rt_workqueue_dowork, ResumeWorker, rt_workqueue_cancel_work,
         rt_workqueue_cancel_work_sync, CancelSyncReturn, rt_workqueue_cancel_all_work,
         FlagsKept
<1>3. \A t \in Thread : RingCall(t) => FlagsKept
  BY DEF RingCall, RingPut, RingPutForce, RingGet, RingPutcharForce, rt_ringbuffer_reset,
         RingCalls, FlagsKept
<1>4. \A t \in Thread : RingBlockCall(t) => FlagsKept
  BY DEF RingBlockCall, rt_rbb_blk_alloc, rt_rbb_blk_put, rt_rbb_blk_free, rt_rbb_blk_get,
         rt_rbb_blk_queue_get, rt_rbb_blk_queue_free, RbbCalls, FlagsKept
<1> QED BY <1>1, <1>2, <1>3, <1>4

\* Every step.
LEMMA FlagsNext == FlagsTyped /\ [Next]_vars => FlagsTyped'
<1> SUFFICES ASSUME FlagsTyped, [Next]_vars PROVE FlagsTyped'
  OBVIOUS
<1>0. ASSUME UNCHANGED <<alive, fault, timeout>> PROVE FlagsKept
  BY <1>0 DEF FlagsKept
<1>1. CASE UNCHANGED vars
  BY <1>0, <1>1 DEF vars, FlagsTyped
<1>2. ASSUME NEW t \in Thread, ThreadCall(t) PROVE FlagsKept
  <2>1. UNCHANGED <<alive, fault, timeout>> \/ CompletionCall(t) \/ DataQueueCall(t)
           \/ WorkQueueCall(t) \/ RingCall(t) \/ RingBlockCall(t)
    BY <1>2 DEF ThreadCall, OnPipe, OnObjects, Starts, rt_thread_sleep
  <2> QED BY <1>0, <2>1, DataQueueFlags, OtherFlags
<1>3. ASSUME NEW t \in Thread, ThreadStep(t) PROVE FlagsKept
  <2>1. UNCHANGED <<alive, fault, timeout>> \/ CompletionStep(t) \/ DataQueueStep(t)
           \/ WorkQueueStep(t)
    BY <1>3 DEF ThreadStep, OnPipe, OnObjects, SleepReturn
  <2> QED BY <1>0, <2>1, DataQueueFlags, OtherFlags
<1>4. ASSUME Interrupt PROVE FlagsKept
  <2>1. UNCHANGED <<alive, fault, timeout>> \/ DoneIsr \/ DataQueueIsr
    BY <1>4 DEF Interrupt, OnObjects
  <2>2. Idle \in Thread
    BY ThreadAssumption
  <2> QED BY <1>0, <2>1, <2>2, DataQueueFlags, OtherFlags
<1>5. ASSUME FlagsKept PROVE FlagsTyped'
  BY <1>5 DEF FlagsKept, FlagsTyped
<1> QED BY <1>1, <1>2, <1>3, <1>4, <1>5 DEF Next, Halted

\* What a queue that drops its oldest bytes would hold, at most what fits.
LEMMA PromisedNext ==
    HoldsNewest(rb, fed) /\ promised \in 0 .. buffer_size /\ [Next]_vars
      => promised' \in 0 .. buffer_size
<1> SUFFICES ASSUME HoldsNewest(rb, fed), promised \in 0 .. buffer_size, [Next]_vars
             PROVE  promised' \in 0 .. buffer_size
  OBVIOUS
<1>0. buffer_size \in Nat \ {0} /\ rt_ringbuffer_data_len(rb) \in 0 .. buffer_size
  BY RingSize, DataLen DEF HoldsNewest
<1>1. ASSUME NEW t \in Thread, RingCall(t) PROVE promised' \in 0 .. buffer_size
  BY <1>0, <1>1 DEF RingCall, RingPut, RingPutForce, RingGet, RingPutcharForce,
                    rt_ringbuffer_reset, AtMost, SpaceLen
<1>2. CASE UNCHANGED vars
  BY <1>2 DEF vars, rbvars
<1>3. ASSUME NEW t \in Thread, ThreadCall(t) PROVE UNCHANGED rbvars \/ RingCall(t)
  BY <1>3 DEF ThreadCall, OnCompletion, OnDataQueue, OnWorkQueue, OnPipe, OnRingBlock,
              OnObjects, Starts, rt_thread_sleep
<1>4. ASSUME NEW t \in Thread, ThreadStep(t) PROVE UNCHANGED rbvars
  BY <1>4 DEF ThreadStep, OnCompletion, OnDataQueue, OnWorkQueue, OnPipe, OnObjects,
              SleepReturn
<1>5. ASSUME Interrupt PROVE UNCHANGED rbvars
  BY <1>5 DEF Interrupt, OnCompletion, OnDataQueue, OnObjects
<1> QED BY <1>1, <1>2, <1>3, <1>4, <1>5 DEF Next, Halted, rbvars

\* Sizes and counts of the ring block buffer.
BlkBounds ==
    /\ \A b \in Blk : blk[b].buf <= MaxEnd /\ blk[b].size <= MaxEnd
    /\ Len(blk_list) <= blk_max_num
    /\ blk_queue \in [blocks : 0 .. blk_max_num, blk_num : 0 .. blk_max_num]

\* A block that is freed may leave the list.
LEMMA FreedLen ==
    ASSUME BlocksInv, NEW b
    PROVE  Len(RemoveFirst(blk_list, b)) \in 0 .. Len(blk_list)
<1>0. blk_list \in Seq(Blk) /\ Pos = 1 .. Len(blk_list) /\ Len(blk_list) \in Nat
  BY DEF BlocksInv, BlocksInUse, Pos
<1>1. IsInjective(blk_list)
  <2>1. \A i, j \in Pos : i # j => blk_list[i] # blk_list[j]
    <3> SUFFICES ASSUME NEW i \in Pos, NEW j \in Pos, i # j PROVE blk_list[i] # blk_list[j]
      OBVIOUS
    <3>1. i < j \/ j < i
      BY <1>0
    <3> QED BY <3>1 DEF BlocksInv, BlocksInUse
  <2> QED BY <1>0, <2>1 DEF IsInjective
<1>2. CASE \E i \in Pos : blk_list[i] = b
  <2>1. PICK i \in 1 .. Len(blk_list) : blk_list[i] = b
    BY <1>0, <1>2
  <2>2. RemoveFirst(blk_list, b) = RemoveAt(blk_list, i)
    BY <1>0, <1>1, <2>1, ListRemove
  <2>3. Len(RemoveAt(blk_list, i)) = Len(blk_list) - 1
    BY <1>0, ListRemoveAt
  <2> QED BY <1>0, <2>2, <2>3
<1>3. CASE \A i \in Pos : blk_list[i] # b
  <2>1. b \notin ToSet(blk_list)
    BY <1>0, <1>3 DEF ToSet
  <2>2. RemoveFirst(blk_list, b) = blk_list
    BY <1>0, <1>1, <2>1, ListRemove
  <2> QED BY <1>0, <2>2
<1> QED BY <1>2, <1>3

\* Calls on the ring block buffer.
LEMMA RingBlockCallBounds ==
    ASSUME BlocksInv, BlkBounds, NEW t \in Thread, RingBlockCall(t)
    PROVE  BlkBounds'
<1>0. /\ blk_list \in Seq(Blk) /\ blk \in [Blk -> BlkRecord] /\ Len(blk_list) \in Nat
      /\ Pos = 1 .. Len(blk_list)
      /\ MaxEnd \in Nat /\ blk_max_num \in Nat \ {0} /\ Blk = 0 .. blk_max_num - 1
  BY BlkConstants DEF BlocksInv, BlocksInUse, Pos, Blk
<1>1. ASSUME NEW size \in BlkSize, rt_rbb_blk_alloc(t, size) PROVE BlkBounds'
  <2> DEFINE b == find_empty_blk_in_set
  <2>1. PICK at \in Places(size) :
          /\ at + size <= MaxEnd
          /\ blk' = [blk EXCEPT ![b] = [status |-> "INITED", buf |-> at, size |-> size]]
          /\ blk_list' = Append(blk_list, b)
          /\ Len(blk_list) < blk_max_num /\ blk_queue' = blk_queue
    BY <1>1 DEF rt_rbb_blk_alloc
  <2>2. at \in Nat /\ size \in Nat /\ at + size <= MaxEnd
    BY <2>1, BlkConstants, PlacesFit DEF Fits
  <2> HIDE DEF b
  <2>3. at <= MaxEnd /\ size <= MaxEnd
    BY <1>0, <2>2
  <2>4. Len(blk_list') <= blk_max_num
    BY <1>0, <2>1
  <2>5. \A c \in Blk : /\ c # b => blk'[c] = blk[c]
                       /\ c = b => blk'[c].buf = at /\ blk'[c].size = size
    BY <1>0, <2>1
  <2> QED BY <2>1, <2>3, <2>4, <2>5 DEF BlkBounds
<1>2. ASSUME NEW b \in Blk, blk' = [blk EXCEPT ![b] = UnusedBlk],
             blk_list' = RemoveFirst(blk_list, b),
             blk_queue' \in [blocks : 0 .. blk_max_num, blk_num : 0 .. blk_max_num]
      PROVE  BlkBounds'
  <2>1. Len(blk_list') <= blk_max_num
    <3>1. Len(RemoveFirst(blk_list, b)) \in 0 .. Len(blk_list)
      BY FreedLen
    <3> QED BY <1>0, <1>2, <3>1 DEF BlkBounds
  <2>2. \A c \in Blk : /\ c # b => blk'[c] = blk[c]
                       /\ c = b => blk'[c].buf = 0 /\ blk'[c].size = 0
    BY <1>0, <1>2 DEF UnusedBlk
  <2> QED BY <1>0, <1>2, <2>1, <2>2 DEF BlkBounds
<1>3. ASSUME NEW b \in Blk, rt_rbb_blk_put(t, b) PROVE BlkBounds'
  <2>1. /\ blk' = [blk EXCEPT ![b].status = "PUT"] /\ blk_list' = blk_list
        /\ blk_queue' = blk_queue
    BY <1>3 DEF rt_rbb_blk_put
  <2>2. \A c \in Blk : blk'[c].buf = blk[c].buf /\ blk'[c].size = blk[c].size
    BY <1>0, <2>1 DEF BlkRecord
  <2> QED BY <2>1, <2>2 DEF BlkBounds
<1>4. ASSUME NEW b \in Blk, rt_rbb_blk_free(t, b) PROVE BlkBounds'
  BY <1>2, <1>4 DEF rt_rbb_blk_free, BlkBounds
<1>5. CASE rt_rbb_blk_get(t)
  <2> DEFINE b == blk_list[FirstPut]
  <2>1. /\ blk' = [blk EXCEPT ![b].status = "GET"] /\ blk_list' = blk_list
        /\ blk_queue' = blk_queue /\ PutAt # {}
    BY <1>5 DEF rt_rbb_blk_get
  <2>2. b \in Blk
    BY <1>0, <2>1, FirstPutAt
  <2> HIDE DEF b
  <2>3. \A c \in Blk : blk'[c].buf = blk[c].buf /\ blk'[c].size = blk[c].size
    BY <1>0, <2>1, <2>2 DEF BlkRecord
  <2> QED BY <2>1, <2>3 DEF BlkBounds
<1>6. ASSUME NEW length, rt_rbb_blk_queue_get(t, length) PROVE BlkBounds'
  <2>0. PutAt # {}
    BY <1>6 DEF rt_rbb_blk_queue_get
  <2> DEFINE i == FirstPut
             j == QueueEnd(i, length)
             took == {blk_list[n] : n \in i .. j}
  <2>1. i \in Pos /\ j \in i .. Len(blk_list)
    BY <2>0, FirstPutAt, QueueEndIn
  <2>2. /\ blk' = [b \in Blk |-> IF b \in took THEN [blk[b] EXCEPT !.status = "GET"]
                                               ELSE blk[b]]
        /\ blk_list' = Cut(blk_list, i, j)
        /\ blk_queue' = [blocks |-> blk_list[i], blk_num |-> j - i + 1]
    BY <1>6 DEF rt_rbb_blk_queue_get, Cut
  <2> HIDE DEF i, j, took
  <2>3. \A b \in Blk : blk'[b].buf = blk[b].buf /\ blk'[b].size = blk[b].size
    <3>1. \A b \in Blk : LET r == [blk[b] EXCEPT !.status = "GET"]
                         IN  r.buf = blk[b].buf /\ r.size = blk[b].size
      BY <1>0 DEF BlkRecord
    <3> QED BY <2>2, <3>1
  <2>4. Len(blk_list') = Len(blk_list) - (j - i + 1)
    BY <1>0, <2>1, <2>2, CutElements
  <2>5. blk_list[i] \in 0 .. blk_max_num /\ j - i + 1 \in 1 .. Len(blk_list)
    BY <1>0, <2>1
  <2>6. Len(blk_list') <= blk_max_num /\ j - i + 1 \in 0 .. blk_max_num
    BY <1>0, <2>4, <2>5 DEF BlkBounds
  <2>7. blk_queue' \in [blocks : 0 .. blk_max_num, blk_num : 0 .. blk_max_num]
    BY <2>2, <2>5, <2>6
  <2> QED BY <2>3, <2>6, <2>7 DEF BlkBounds
<1>7. CASE rt_rbb_blk_queue_free(t)
  <2> DEFINE b == blk_queue.blocks
  <2>1. /\ b \in 0 .. blk_max_num /\ blk_queue.blk_num \in 0 .. blk_max_num
        /\ blk_queue.blk_num > 0
    BY <1>7 DEF BlkBounds, rt_rbb_blk_queue_free
  <2>2. \/ UNCHANGED rbbvars
        \/ /\ b \in Blk /\ blk' = [blk EXCEPT ![b] = UnusedBlk]
           /\ blk_list' = RemoveFirst(blk_list, b)
           /\ blk_queue' = IF blk_queue.blk_num = 1 THEN NoQueue
                           ELSE [blocks |-> b + 1, blk_num |-> blk_queue.blk_num - 1]
    BY <1>7 DEF rt_rbb_blk_queue_free
  <2>3. CASE UNCHANGED rbbvars
    BY <2>3 DEF rbbvars, BlkBounds
  <2>4. CASE b \in Blk
    <3>1. b + 1 \in 0 .. blk_max_num /\ blk_queue.blk_num - 1 \in 0 .. blk_max_num
          /\ 0 \in 0 .. blk_max_num
      BY <1>0, <2>1, <2>4
    <3>2. /\ NoQueue \in [blocks : 0 .. blk_max_num, blk_num : 0 .. blk_max_num]
          /\ [blocks |-> b + 1, blk_num |-> blk_queue.blk_num - 1]
                \in [blocks : 0 .. blk_max_num, blk_num : 0 .. blk_max_num]
      BY <3>1 DEF NoQueue
    <3> HIDE DEF b
    <3> QED BY <1>2, <2>2, <2>3, <2>4, <3>2
  <2> QED BY <2>2, <2>3, <2>4
<1> QED BY <1>1, <1>3, <1>4, <1>5, <1>6, <1>7 DEF RingBlockCall

\* Every step.
LEMMA BoundsNext == BlocksInv /\ BlkBounds /\ [Next]_vars => BlkBounds'
<1> SUFFICES ASSUME BlocksInv, BlkBounds, [Next]_vars PROVE BlkBounds'
  OBVIOUS
<1>1. ASSUME UNCHANGED rbbvars PROVE BlkBounds'
  BY <1>1 DEF rbbvars, BlkBounds
<1>2. CASE UNCHANGED vars
  BY <1>1, <1>2 DEF vars
<1>3. ASSUME NEW t \in Thread, ThreadCall(t) PROVE BlkBounds'
  <2>1. UNCHANGED rbbvars \/ RingBlockCall(t)
    BY <1>3 DEF ThreadCall, OnCompletion, OnDataQueue, OnWorkQueue, OnPipe, OnRing,
                OnObjects, Starts, rt_thread_sleep
  <2> QED BY <1>1, <2>1, RingBlockCallBounds
<1>4. ASSUME NEW t \in Thread, ThreadStep(t) PROVE BlkBounds'
  <2>1. UNCHANGED rbbvars
    BY <1>4 DEF ThreadStep, OnCompletion, OnDataQueue, OnWorkQueue, OnPipe, OnObjects,
                SleepReturn
  <2> QED BY <1>1, <2>1
<1>5. CASE Interrupt
  BY <1>1, <1>5 DEF Interrupt, OnCompletion, OnDataQueue, OnObjects
<1> QED BY <1>2, <1>3, <1>4, <1>5 DEF Next, Halted

-----------------------------------------------------------------------------
(* No wake-up is missed.                                                   *)

\* Everything the proof rests on.
WholeInv ==
    /\ WakeInv /\ DqInv /\ PipeInv /\ HoldsNewest(rb, fed) /\ BlocksInv
    /\ FlagsTyped /\ promised \in 0 .. buffer_size /\ BlkBounds

\* It holds at the start.
LEMMA WholeInitially == Init => WholeInv
<1> SUFFICES ASSUME Init PROVE WholeInv
  OBVIOUS
<1>1. /\ WakeInv /\ DqInv /\ PipeInv /\ HoldsNewest(rb, fed) /\ BlocksInv
  BY WakeInitially, DqInitially, PipeInitially, RingInitially, BlocksInitially
<1>2. FlagsTyped
  BY DEF Init, FlagsTyped, Time
<1>3. promised \in 0 .. buffer_size
  BY RingSize DEF Init, RingInit
<1>4. BlkBounds
  BY BlkConstants DEF Init, rt_rbb_init, NoQueue, BlkBounds
<1> QED BY <1>1, <1>2, <1>3, <1>4 DEF WholeInv

\* Every step keeps it.
LEMMA WholeNext == WholeInv /\ [Next]_vars => WholeInv'
<1> SUFFICES ASSUME WholeInv, [Next]_vars PROVE WholeInv'
  OBVIOUS
<1>1. WakeInv' /\ DqInv' /\ PipeInv'
  BY WakeNext, DqStep, PipeNext DEF WholeInv
<1>2. HoldsNewest(rb, fed)' /\ promised' \in 0 .. buffer_size
  BY RingStep, PromisedNext DEF WholeInv
<1>3. BlocksInv' /\ BlkBounds'
  BY BlocksNext, BoundsNext DEF WholeInv
<1>4. FlagsTyped'
  BY FlagsNext DEF WholeInv
<1> QED BY <1>1, <1>2, <1>3, <1>4 DEF WholeInv

\* The types of the variables.
LEMMA WholeTypes == WholeInv => TypeOK
<1> SUFFICES ASSUME WholeInv PROVE TypeOK
  OBVIOUS
<1>1. /\ k \in KernelState /\ pc \in [Thread -> Pcs] /\ on \in [Thread -> Queue \cup {None}]
      /\ completed \in BOOLEAN /\ WorkQueueTypeOK
  BY DEF WholeInv, WakeInv, DevThreads, KernelOK, CmpInv, WqInv
<1>2. alive \in Created /\ fault \in BOOLEAN /\ timeout \in [Thread -> Time]
  BY DEF WholeInv, FlagsTyped
<1>3. DataQueueTypeOK
  <2>1. /\ put_index \in Nat /\ get_index \in Nat /\ get_index <= put_index
        /\ put_index <= MaxIndex /\ MaxIndex \in 1 .. IndexModulus - 1
    BY DataQueueAssumption DEF WholeInv, DqInv, DqRingOK
  <2>2. put_index \in 0 .. IndexModulus - 1 /\ get_index \in 0 .. IndexModulus - 1
    <3> DEFINE n == IndexModulus - 1
    <3>1. n \in Int
      BY DEF IndexModulus
    <3> HIDE DEF n
    <3>2. MaxIndex \in 1 .. n
      BY <2>1 DEF n
    <3>3. put_index \in 0 .. n /\ get_index \in 0 .. n
      BY <2>1, <3>1, <3>2
    <3> QED BY <3>3 DEF n
  <2> QED BY <2>2 DEF WholeInv, DqInv, DqRingOK, DqClientsOK, DataQueueTypeOK
<1>4. RingTypeOK
  BY DEF WholeInv, HoldsNewest, RingTypeOK
<1>5. PipeTypeOK
  <2>1. fifo \in RingRecord /\ sent \in Byte
    BY DEF WholeInv, PipeInv, PipeFifo, HoldsNewest
  <2>2. got \in Byte
    <3>1. rt_ringbuffer_data_len(fifo) \in Int /\ sent \in Int /\ 2 * buffer_size \in Nat \ {0}
      BY <2>1, DataLen, RingSize DEF Byte
    <3>2. got = (sent - rt_ringbuffer_data_len(fifo)) % (2 * buffer_size)
      BY DEF WholeInv, PipeInv, PipeFifo
    <3> QED BY <3>1, <3>2 DEF Byte
  <2>3. readers \in {0, 1} /\ writers \in {0, 1} /\ ref_count \in 0 .. 2
    <3>1. /\ End(Reader) \in {0, 1} /\ End(Writer) \in {0, 1}
          /\ ref_count = Refs(Reader) + Refs(Writer)
      BY DEF WholeInv, PipeInv, PipeEnds, EndOK
    <3>2. Refs(Reader) \in {0, 1} /\ Refs(Writer) \in {0, 1}
      BY DEF Refs
    <3> QED BY <3>1, <3>2, PipeAssumption DEF End
  <2>4. todo \in [Thread -> Seq(Primitive)]
    BY ShapeTyped DEF WholeInv, PipeInv, PipeEnds
  <2>5. count \in [Thread -> Nat]
    BY DEF WholeInv, PipeInv
  <2>6. PipeTyped
    BY DEF WholeInv, WakeInv, PipeWaits
  <2> QED BY <2>1, <2>2, <2>3, <2>4, <2>5, <2>6 DEF PipeTyped, PipeTypeOK
<1>6. RingBlockTypeOK
  <2>1. /\ blk \in [Blk -> BlkRecord] /\ blk_list \in Seq(Blk)
        /\ MaxEnd \in Nat /\ outgrown \in BOOLEAN /\ BlkBounds
    BY BlkConstants DEF WholeInv, BlocksInv, BlocksInUse
  <2>2. \A b \in Blk : blk[b] \in [status : {"UNUSED", "INITED", "PUT", "GET"},
                                   buf : 0 .. MaxEnd, size : 0 .. MaxEnd]
    <3> TAKE b \in Blk
    <3>1. /\ blk[b] \in BlkRecord
          /\ blk[b].buf <= MaxEnd /\ blk[b].size <= MaxEnd
      BY <2>1 DEF BlkBounds
    <3> QED BY <2>1, <3>1 DEF BlkRecord
  <2> QED BY <2>1, <2>2 DEF BlkBounds, RingBlockTypeOK
<1> QED BY <1>1, <1>2, <1>3, <1>4, <1>5, <1>6 DEF TypeOK

\* A side of the pipe that sleeps may.
LEMMA SideSleeps ==
    ASSUME WholeInv, NEW r \in {Reader, Writer}, waiting_list[OwnQueue(r)] # << >>
    PROVE  Dry(r) \/ WillWake(WakeCall(r))
BY DEF WholeInv, WakeInv, PipeWaits, SideOK, Hushed

\* The invariant says what is to be shown.
LEMMA WholeWakes == WholeInv => NoMissedWakeup
<1> SUFFICES ASSUME WholeInv PROVE NoMissedWakeup
  OBVIOUS
<1>0. /\ k.wait \in [Queue -> Seq(Thread)]
      /\ {completion, dq_pop, dq_push, wq_sem} \subseteq Queue
  BY ListsDiffer DEF WholeInv, WakeInv, DevThreads, KernelOK, KernelState
<1>1. ASSUME NEW q \in Queue, k.wait[q] # << >> PROVE ToSet(k.wait[q]) # {}
  <2> DEFINE s == k.wait[q]
  <2>1. s \in Seq(Thread) /\ s # << >>
    BY <1>0, <1>1
  <2> HIDE DEF s
  <2>2. ToSet(s) # {}
    BY <2>1, ListEmpty
  <2> QED BY <2>2 DEF s
<1>2. NoWaiterWhenDone
  BY <1>0, <1>1 DEF WholeInv, WakeInv, CmpInv, NoWaiterWhenDone
<1>3. DataWakeups
  <2>1. \A q : Resumed(q) = Out(q, "EOK")
    BY DEF Resumed, Out
  <2>2. Covered(dq_pop, put_index - get_index)
        /\ Covered(dq_push, WakeLevel - (put_index - get_index))
    BY DEF WholeInv, WakeInv, DqWake
  <2> QED BY <1>0, <1>1, <2>1, <2>2 DEF Covered, DataWakeups
<1>4. SyncCancelWakes
  BY <1>0, <1>1 DEF WholeInv, WakeInv, WqInv, SyncCancelWakes
<1>5. PipeWakeups
  <2>1. waiting_list["reader_queue"] # << >> =>
           (~CanRead /\ writers > 0) \/ WillWake("wake_reader")
    <3>1. OwnQueue(Reader) = "reader_queue" /\ WakeCall(Reader) = "wake_reader"
      BY DEF OwnQueue, WakeCall
    <3> QED BY <3>1, SideSleeps DEF Dry
  <2>2. waiting_list["writer_queue"] # << >> =>
           (~CanWrite /\ readers > 0) \/ WillWake("wake_writer")
    <3>1. OwnQueue(Writer) = "writer_queue" /\ WakeCall(Writer) = "wake_writer"
          /\ Writer # Reader
      BY PipeAssumption DEF OwnQueue, WakeCall
    <3> QED BY <3>1, SideSleeps DEF Dry
  <2> QED BY <2>1, <2>2 DEF PipeWakeups
<1> QED BY <1>2, <1>3, <1>4, <1>5, WholeTypes DEF NoMissedWakeup

\* For any number of threads, sizes of the objects and interleaving with
\* interrupts, time-outs and resets, nobody sleeps for what has happened: on a
\* completion that is done (completion.c), on a data queue with an item or with
\* room below its mark (dataqueue.c), in a synchronous cancel of a work that has
\* ended (workqueue.c), or in a pipe with data, space or a closed other end
\* (pipe.c, waitqueue.c), unless one already resumed or on its way will see to it,
\* or the length a pipe call passes to the ring has narrowed to 0.
THEOREM NoWakeupIsMissed == Spec => []NoMissedWakeup
BY WholeInitially, WholeNext, WholeWakes, PTL DEF Spec
=============================================================================
