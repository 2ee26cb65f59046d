----------------------------- MODULE WorkQueue -----------------------------
(***************************************************************************)
(* A work queue (kernel/utilities/workqueue.c): threads hand works to one  *)
(* worker thread, cancel them, and wait on a semaphore of the queue for    *)
(* the end of a work that is being done.  The worker tests its list and    *)
(* suspends itself with interrupts enabled in between.                     *)
(*                                                                         *)
(* The value of the semaphore is 0 whenever the scheduler is unlocked, so  *)
(* it is not kept.  Work functions do not call on their own queue.         *)
(***************************************************************************)
EXTENDS IpcWait

CONSTANTS wq_sem,       \* queue->sem, by its suspend list
          Worker,       \* queue->work_thread
          Work

ASSUME WorkQueueAssumption == Worker \in Thread \ {Idle, Main} /\ None \notin Work

VARIABLES work_list, work_current

wqvars == <<work_list, work_current>>

WorkQueueInit == work_list = << >> /\ work_current = None

WqCalls(t) == CallsOn(t, wq_sem) /\ t # Worker

-----------------------------------------------------------------------------
(* _workqueue_thread_entry.                                                *)

\* The list is tested ...
WorkerTest ==
    /\ wq_sem \in alive /\ At(Worker, "run")
    /\ Goto(Worker, IF work_list = << >> THEN "wq_suspend" ELSE "wq_take")
    /\ UNCHANGED <<k, alive, on, fault, timeout, wqvars>>

\* ... and the worker suspends itself, whatever the list holds by then.
WorkerSuspend ==
    /\ At(Worker, "wq_suspend")
    /\ k' = rt_thread_suspend(k, Worker)
    /\ on' = [on EXCEPT ![Worker] = None]
    /\ Goto(Worker, "block")
    /\ UNCHANGED <<alive, fault, timeout, wqvars>>

\* On an empty list the "work" is the list head, and the function called is
\* whatever lies behind it.
WorkerTake ==
    /\ At(Worker, "wq_take") \/ At(Worker, "woken")
    /\ IF work_list = << >>
         THEN fault' = TRUE /\ UNCHANGED <<pc, wqvars>>
         ELSE /\ work_current' = Head(work_list)
              /\ work_list' = Tail(work_list)
              /\ Goto(Worker, "wq_do")
              /\ UNCHANGED fault
    /\ UNCHANGED <<k, alive, on, timeout>>

\* The work function has returned.
WorkerClean ==
    /\ At(Worker, "wq_do")
    /\ work_current' = None
    /\ Goto(Worker, "wq_ack")
    /\ UNCHANGED <<k, alive, on, fault, timeout, work_list>>

\* _workqueue_work_completion, with the scheduler locked: the semaphore is
\* released until a take succeeds, that is once for every waiter and once more.
WorkerAck ==
    /\ At(Worker, "wq_ack")
    /\ LET after[n \in 0 .. Len(k.wait[wq_sem])] ==
              IF n = 0 THEN k ELSE rt_ipc_list_resume(after[n - 1], wq_sem)
       IN  k' = rt_schedule(after[Len(k.wait[wq_sem])])
    /\ Goto(Worker, "run")
    /\ UNCHANGED <<alive, on, fault, timeout, wqvars>>

-----------------------------------------------------------------------------
\* rt_workqueue_dowork and rt_workqueue_critical_work, the same code: a work
\* that is listed goes to the end, one that is being done is refused.
rt_workqueue_dowork(t, w) ==
    /\ WqCalls(t) /\ k.stat[Worker] # "INIT"
    /\ work_current # w
    /\ work_list' = Append(RemoveFirst(work_list, w), w)
    /\ IF work_current = None THEN Goto(t, "wq_resume") ELSE UNCHANGED pc
    /\ UNCHANGED <<k, alive, on, fault, timeout, work_current>>

\* Interrupts were enabled before the worker is resumed.
ResumeWorker(t) ==
    /\ At(t, "wq_resume")
    /\ k' = rt_thread_resume(k, Worker)
    /\ Goto(t, "resched")
    /\ UNCHANGED <<alive, on, fault, timeout, wqvars>>

Removed(t, w) ==
    /\ work_list' = RemoveFirst(work_list, w)
    /\ UNCHANGED <<kvars, on, work_current>>

rt_workqueue_cancel_work(t, w) ==
    /\ WqCalls(t)
    /\ work_current # w /\ Removed(t, w)
    /\ UNCHANGED <<alive, fault, timeout>>

\* The test and the rt_sem_take are under one interrupt lock.
rt_workqueue_cancel_work_sync(t, w) ==
    /\ WqCalls(t)
    /\ \/ work_current # w /\ Removed(t, w)
       \/ /\ work_current = w
          /\ k' = SuspendOn(k, wq_sem, t, -1)
          /\ on' = [on EXCEPT ![t] = wq_sem]
          /\ Goto(t, "block")
          /\ UNCHANGED wqvars
    /\ UNCHANGED <<alive, fault, timeout>>

CancelSyncReturn(t) ==
    /\ At(t, "woken") /\ on[t] = wq_sem /\ t # Worker
    /\ Goto(t, "run")
    /\ UNCHANGED <<k, alive, on, fault, timeout, wqvars>>

\* The loop runs with the scheduler locked.
rt_workqueue_cancel_all_work(t) ==
    /\ WqCalls(t)
    /\ work_list' = << >>
    /\ UNCHANGED <<kvars, alive, on, fault, timeout, work_current>>

-----------------------------------------------------------------------------
WorkQueueCall(t) ==
    \/ \E w \in Work : \/ rt_workqueue_dowork(t, w)
                       \/ rt_workqueue_cancel_work(t, w)
                       \/ rt_workqueue_cancel_work_sync(t, w)
    \/ rt_workqueue_cancel_all_work(t)

WorkQueueStep(t) ==
    \/ t = Worker /\ (\/ WorkerTest \/ WorkerSuspend \/ WorkerTake
                      \/ WorkerClean \/ WorkerAck)
    \/ ResumeWorker(t) \/ CancelSyncReturn(t)
-----------------------------------------------------------------------------
(* Properties.                                                             *)

WorkQueueTypeOK == work_list \in Seq(Work) /\ work_current \in Work \cup {None}

\* A thread asleep in rt_workqueue_cancel_work_sync waits for a work that is
\* being done, or whose worker has its completion still to announce: however
\* many wait and whoever preempts the worker, nobody sleeps past the end of it.
SyncCancelWakes ==
    k.wait[wq_sem] # << >> => pc[Worker] \in {"wq_do", "wq_ack"}
=============================================================================
