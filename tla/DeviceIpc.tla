----------------------------- MODULE DeviceIpc -----------------------------
(***************************************************************************)
(* Threads and interrupt handlers that use what drivers communicate with   *)
(* (kernel/utilities): a completion, a data queue, a work queue, a pipe, a *)
(* ring buffer and a ring block buffer of one kernel.                      *)
(***************************************************************************)
EXTENDS Completion, DataQueue, WorkQueue, Pipe, RingBlock

CONSTANT Created      \* sets of objects that may exist at the start

ASSUME CreatedAssumption == Created \subseteq SUBSET (Queue \cup {ring, rbb})

\* Every object has lists of its own; a sleep is on none.
ASSUME ListsAssumption ==
    /\ {completion, dq_pop, dq_push, wq_sem, pipe_lock} \subseteq Queue
    /\ completion \notin {dq_pop, dq_push, wq_sem, pipe_lock}
    /\ {dq_pop, dq_push} \cap {wq_sem, pipe_lock} = {}
    /\ wq_sem # pipe_lock
    /\ None \notin Queue

vars == <<kvars, alive, on, fault, timeout, completed, dqvars, wqvars, rbvars, pipevars, rbbvars>>

Init ==
    /\ ThreadsInit
    /\ alive \in Created
    /\ on = [t \in Thread |-> None]
    /\ fault = FALSE
    /\ timeout = [t \in Thread |-> 0]
    /\ CompletionInit /\ DataQueueInit /\ WorkQueueInit /\ RingInit /\ PipeInit /\ rt_rbb_init

\* Which variables a step leaves alone, by the object it is on.
OnCompletion == UNCHANGED <<dqvars, wqvars, rbvars, pipevars, rbbvars>>
OnDataQueue  == UNCHANGED <<completed, wqvars, rbvars, pipevars, rbbvars>>
OnWorkQueue  == UNCHANGED <<completed, dqvars, rbvars, pipevars, rbbvars>>
OnPipe       == UNCHANGED <<alive, fault, timeout, completed, dqvars, wqvars, rbvars, rbbvars>>
OnRing       == UNCHANGED <<completed, dqvars, wqvars, pipevars, rbbvars>>
OnRingBlock  == UNCHANGED <<completed, dqvars, wqvars, rbvars, pipevars>>
OnObjects    == UNCHANGED <<alive, fault, timeout, completed, dqvars, wqvars, rbvars, pipevars,
                            rbbvars>>

\* A thread between two calls, on an object threads wait for: the calls on a
\* ring are atomic and main stands for every thread that makes them.
Free(t) == Calls(t) /\ alive \cap Queue # {}

\* The worker is started by rt_workqueue_create.
Starts(t, u) ==
    /\ Free(t) /\ Startup(t, u)
    /\ u = Worker => wq_sem \in alive
    /\ UNCHANGED on /\ OnObjects

\* rt_thread_sleep: a thread may sleep between its calls, and its timer may fire
\* while any other thread stands anywhere.
rt_thread_sleep(t) ==
    /\ Free(t)
    /\ k' = StartThreadTimer(rt_thread_suspend(k, t), t)
    /\ on' = [on EXCEPT ![t] = None]
    /\ Goto(t, "block")
    /\ OnObjects

SleepReturn(t) ==
    /\ At(t, "woken") /\ on[t] = None /\ todo[t] = << >> /\ t # Worker
    /\ k' = [k EXCEPT !.error[t] = IF @ = "ETIMEOUT" THEN "EOK" ELSE @]
    /\ Goto(t, "run")
    /\ UNCHANGED on /\ OnObjects

\* A thread makes a call when its last one is over; the worker thread only runs
\* its own loop.
ThreadCall(t) ==
    /\ todo[t] = << >> /\ t # Worker
    /\ \/ \E u \in Thread : Starts(t, u)
       \/ rt_thread_sleep(t)
       \/ CompletionCall(t) /\ OnCompletion
       \/ DataQueueCall(t) /\ OnDataQueue
       \/ WorkQueueCall(t) /\ OnWorkQueue
       \/ PipeCall(t) /\ OnPipe
       \/ RingCall(t) /\ OnRing
       \/ RingBlockCall(t) /\ OnRingBlock

ThreadStep(t) ==
    \/ Reschedule(t) /\ UNCHANGED on /\ OnObjects
    \/ SleepReturn(t)
    \/ CompletionStep(t) /\ OnCompletion
    \/ DataQueueStep(t) /\ OnDataQueue
    \/ WorkQueueStep(t) /\ OnWorkQueue
    \/ PipeStep(t) /\ OnPipe

Interrupt ==
    \/ \E t \in Thread : Timeout(t) /\ UNCHANGED on /\ OnObjects
    \/ SliceExpired /\ UNCHANGED on /\ OnObjects
    \/ DoneIsr /\ OnCompletion
    \/ DataQueueIsr /\ OnDataQueue

\* An assertion has failed or the worker has called a work that is none: the
\* model follows the system no further.
Halted == fault /\ UNCHANGED vars

Next ==
    \/ ~fault /\ ((\E t \in Thread : ThreadCall(t) \/ ThreadStep(t)) \/ Interrupt)
    \/ Halted

Spec == Init /\ [][Next]_vars
-----------------------------------------------------------------------------
Pcs == {"run", "block", "woken", "resched", "cmp_clear", "cmp_done", "dq_test", "dq_resume",
        "wq_suspend", "wq_take", "wq_do", "wq_ack", "wq_resume"}

TypeOK ==
    /\ k \in KernelState
    /\ pc \in [Thread -> Pcs]
    /\ alive \in Created
    /\ on \in [Thread -> Queue \cup {None}]
    /\ fault \in BOOLEAN
    /\ timeout \in [Thread -> Time]
    /\ completed \in BOOLEAN
    /\ DataQueueTypeOK /\ WorkQueueTypeOK /\ RingTypeOK /\ PipeTypeOK /\ RingBlockTypeOK

\* Nobody sleeps for what has happened: on a completion that is done, on a data
\* queue with an item or with room below its water mark, for a work that has
\* ended, or on a pipe with data, space or a closed other end, unless a thread
\* already resumed or already on its way will see to it.  (The types, on which
\* all this rests, are checked with it.)
NoMissedWakeup ==
    TypeOK /\ NoWaiterWhenDone /\ DataWakeups /\ SyncCancelWakes /\ PipeWakeups
=============================================================================
