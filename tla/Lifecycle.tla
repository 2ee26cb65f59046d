----------------------------- MODULE Lifecycle -----------------------------
(***************************************************************************)
(* The life of threads (kernel/src/thread.c, idle.c): creation, start-up,  *)
(* sleeping, suspension and resumption by another thread, change of        *)
(* priority, scheduler lock, exit, deletion by another thread, and the     *)
(* idle thread that frees what is left of the dead.                        *)
(*                                                                         *)
(* A dead thread is linked by its node tlist into rt_thread_defunct, the   *)
(* one element of Queue.  Many calls here work with interrupts enabled in  *)
(* between; each such point is a value of pc.  on[t] is the thread a call  *)
(* of t works on.  Which threads sleep, exit, and are managed in which way *)
(* are parameters: the races between these roles are what the runs vary.   *)
(* Clients keep to three rules: a thread blocks or exits only with the     *)
(* scheduler unlocked, nobody manages a thread whose deletion has begun,   *)
(* and a thread does not delete itself.  The semaphore thread->lock each   *)
(* thread owns for the network stack is left out: it is taken away before  *)
(* the steps modelled here and nobody else waits on it.                    *)
(***************************************************************************)
EXTENDS Threads

CONSTANTS
    rt_thread_defunct,  \* the list of dead threads
    Static,             \* threads of rt_thread_init (the others: rt_thread_create)
    Cleanup,            \* threads with a cleanup function
    Manager,            \* threads that manage others
    Sleeper, Exiter,    \* threads that may sleep, that may return from their entry
    Controlled, Victim, \* threads managed by suspend and resume, by delete
    NewPriority,        \* priorities rt_thread_control may set
    MaxLock             \* bound of the model: nested rt_enter_critical

ASSUME LifecycleAssumption ==
    /\ Queue = {rt_thread_defunct}
    /\ Static \cup Cleanup \cup Manager \cup Sleeper \cup Exiter \subseteq Thread
    /\ Controlled \cup Victim \subseteq Thread \ {Idle}
    /\ NewPriority \subseteq Prio /\ MaxLock \in Nat

VARIABLES exists,  \* thread objects not freed or detached
          on,      \* thread the call of a thread is about
          fault    \* a freed object was used, a linked node linked again,
                   \* or an RT_ASSERT failed; the model goes no further

lvars == <<exists, on, fault>>
vars == <<kvars, lvars>>

Init ==
    /\ ThreadsInit
    /\ exists = Thread
    /\ on = [t \in Thread |-> t]
    /\ fault = FALSE

Defunct == k.wait[rt_thread_defunct]

DeletePoint == {"delete_remove", "delete_timer", "delete_stat", "delete_end"}

BeingDeleted(u) == \E v \in Thread : pc[v] \in DeletePoint /\ on[v] = u

\* t makes a managing call about u.
Manages(t, u) == t \in Manager /\ Calls(t) /\ u \in exists /\ ~BeingDeleted(u)

\* The memory of a static thread stays when its object is detached.
Freed(u) == u \notin exists \cup Static

\* A step of t on the object on[t]: K gives the new kernel state from it.
OnTarget(t, K(_, _)) ==
    IF Freed(on[t]) THEN fault' = TRUE /\ UNCHANGED k
                    ELSE k' = K(k, on[t]) /\ UNCHANGED fault

-----------------------------------------------------------------------------
(* rt_thread_create / rt_thread_init and rt_thread_startup.                *)
Create(t, u) ==
    /\ t \in Manager /\ Calls(t) /\ u \notin exists /\ ~BeingDeleted(u)
    /\ exists' = exists \cup {u}
    /\ k' = [k EXCEPT !.stat[u] = "INIT", !.prio[u] = init_priority[u],
                      !.number[u] = 0, !.number_mask[u] = {}, !.high_mask[u] = {},
                      !.error[u] = "EOK"]
    /\ pc' = [pc EXCEPT ![u] = "run"]
    /\ UNCHANGED <<on, fault>>

StartupStep(t, u) == Manages(t, u) /\ Startup(t, u) /\ UNCHANGED lvars

-----------------------------------------------------------------------------
(* rt_thread_sleep, rt_thread_delay_until, rt_thread_yield.                *)
Sleep(t, c) ==
    /\ t \in Sleeper /\ Calls(t) /\ k.lock = 0
    /\ k' = StartThreadTimer(rt_thread_suspend(k, t), t)
    /\ Goto(t, c)
    /\ UNCHANGED lvars

rt_thread_sleep(t) == Sleep(t, "block")

\* The error left by the timer is cleared.
SleepReturn(t) ==
    /\ At(t, "woken")
    /\ k' = [k EXCEPT !.error[t] = IF @ = "ETIMEOUT" THEN "EOK" ELSE @]
    /\ Goto(t, "run")
    /\ UNCHANGED lvars

\* The case cur_tick - *tick < inc_tick; the other one returns at once.
rt_thread_delay_until(t) == Sleep(t, "until_block")

\* After rt_schedule the error is compared with -RT_ETIMEOUT, which it never
\* is, and stays.
DelayUntilReturn(t) ==
    /\ At(t, "until_block")
    /\ k' = rt_schedule(k)
    /\ Goto(t, "run")
    /\ UNCHANGED lvars

rt_thread_yield(t) ==
    /\ Calls(t)
    /\ k' = rt_schedule(k)
    /\ UNCHANGED <<pc, lvars>>

-----------------------------------------------------------------------------
(* rt_thread_suspend and rt_thread_resume called on any thread: the state  *)
(* is tested first, interrupts are disabled after the test.  A thread that *)
(* suspends itself calls rt_schedule next; one that resumed another may.   *)
SuspendTest(t, u) ==
    /\ Manages(t, u) /\ u \in Controlled /\ k.stat[u] = "READY"
    /\ u = t => k.lock = 0
    /\ on' = [on EXCEPT ![t] = u]
    /\ Goto(t, "suspend")
    /\ UNCHANGED <<k, exists, fault>>

Suspend(t) ==
    /\ At(t, "suspend")
    /\ OnTarget(t, SuspendNow)
    /\ Goto(t, IF on[t] = t THEN "resched" ELSE "run")
    /\ UNCHANGED <<exists, on>>

ResumeTest(t, u) ==
    /\ Manages(t, u) /\ u \in Controlled /\ k.stat[u] = "SUSPEND"
    /\ on' = [on EXCEPT ![t] = u]
    /\ Goto(t, "resume")
    /\ UNCHANGED <<k, exists, fault>>

Resume(t) ==
    /\ At(t, "resume")
    /\ OnTarget(t, ResumeNow)
    /\ Goto(t, "run") \/ Goto(t, "resched")
    /\ UNCHANGED <<exists, on>>

\* rt_thread_control(RT_THREAD_CTRL_CHANGE_PRIORITY)
Control(t, u, p) ==
    /\ Manages(t, u) /\ u # Idle
    /\ k' = ChangePriority(k, u, p)
    /\ UNCHANGED <<pc, lvars>>

-----------------------------------------------------------------------------
(* The scheduler lock.                                                     *)
EnterCritical(t) ==
    /\ Calls(t) /\ k.lock < MaxLock
    /\ k' = rt_enter_critical(k)
    /\ UNCHANGED <<pc, lvars>>

\* The last unlock enables interrupts before it calls rt_schedule.
ExitCritical(t) ==
    /\ Calls(t) /\ k.lock > 0
    /\ k' = [k EXCEPT !.lock = @ - 1]
    /\ Goto(t, IF k.lock = 1 THEN "resched" ELSE "run")
    /\ UNCHANGED lvars

-----------------------------------------------------------------------------
(* Death.  A static thread without cleanup function is detached at once,   *)
(* the others go to the front of rt_thread_defunct.                        *)
DetachedAtOnce(u) == u \in Static /\ u \notin Cleanup

Linked(s, u) == (\E p \in Prio : u \in ToSet(s.ready[p])) \/ u \in ToSet(s.wait[rt_thread_defunct])

rt_thread_defunct_enqueue(s, u) ==
    [s EXCEPT !.wait[rt_thread_defunct] = <<u>> \o @]

\* Slip: "or" for "and" in the test for a static thread without cleanup.
BuryOr(s, u) ==
    IF u \in Static \/ u \notin Cleanup THEN s ELSE rt_thread_defunct_enqueue(s, u)

Bury(s, u) == IF DetachedAtOnce(u) THEN s ELSE rt_thread_defunct_enqueue(s, u)

\* One step: interrupts stay disabled until rt_exit_critical has switched to
\* the next thread.
rt_thread_exit(t) ==
    /\ t \in Exiter /\ Calls(t) /\ k.lock = 0
    /\ LET dead == [rt_schedule_remove_thread(rt_enter_critical(k), t)
                        EXCEPT !.stat[t] = "CLOSE", !.timer = @ \ {t}]
       IN  k' = rt_exit_critical(Bury(dead, t))
    /\ exists' = IF DetachedAtOnce(t) THEN exists \ {t} ELSE exists
    /\ Goto(t, "dead")
    /\ UNCHANGED <<on, fault>>

\* rt_thread_delete, and rt_thread_detach for a static thread.  Interrupts
\* are enabled between its parts.
Delete(t, u) ==
    /\ Manages(t, u) /\ u \in Victim \ {t} /\ k.stat[u] # "CLOSE"
    /\ on' = [on EXCEPT ![t] = u]
    /\ Goto(t, IF k.stat[u] = "INIT" THEN "delete_timer" ELSE "delete_remove")
    /\ UNCHANGED <<k, exists, fault>>

\* Slip: the thread is not removed from the lists.
DeleteRemoveNothing(t) ==
    /\ At(t, "delete_remove")
    /\ Goto(t, "delete_timer")
    /\ UNCHANGED <<k, lvars>>

DeleteRemove(t) ==
    /\ At(t, "delete_remove")
    /\ OnTarget(t, rt_schedule_remove_thread)
    /\ Goto(t, "delete_timer")
    /\ UNCHANGED <<exists, on>>

DetachTimer(s, u) == [s EXCEPT !.timer = @ \ {u}]

DeleteTimer(t) ==
    /\ At(t, "delete_timer")
    /\ OnTarget(t, DetachTimer)
    /\ Goto(t, "delete_stat")
    /\ UNCHANGED <<exists, on>>

Close(s, u) == [s EXCEPT !.stat[u] = "CLOSE"]

DeleteStat(t) ==
    /\ At(t, "delete_stat")
    /\ OnTarget(t, Close)
    /\ Goto(t, "delete_end")
    /\ UNCHANGED <<exists, on>>

\* RT_THREAD_CTRL_CLOSE reschedules after the deletion, rt_thread_delete does
\* not.
DeleteEnd(t) ==
    /\ At(t, "delete_end")
    /\ IF Freed(on[t]) \/ (Linked(k, on[t]) /\ ~DetachedAtOnce(on[t]))
         THEN fault' = TRUE /\ UNCHANGED <<k, exists>>
         ELSE /\ k' = Bury(k, on[t])
              /\ exists' = IF DetachedAtOnce(on[t]) THEN exists \ {on[t]} ELSE exists
              /\ UNCHANGED fault
    /\ Goto(t, "run") \/ Goto(t, "resched")
    /\ UNCHANGED on

-----------------------------------------------------------------------------
(* rt_defunct_execute, run by the idle thread.  For a static thread it     *)
(* ends a critical section that was never begun.                           *)
ReapStatic ==
    /\ At(Idle, "run") /\ Defunct # << >> /\ Head(Defunct) \in Static
    /\ exists' = exists \ {Head(Defunct)}
    /\ k' = rt_exit_critical(rt_list_remove(k, Head(Defunct)))
    /\ UNCHANGED <<pc, on, fault>>

ReapDynamic ==
    /\ At(Idle, "run") /\ Defunct # << >> /\ Head(Defunct) \notin Static
    /\ on' = [on EXCEPT ![Idle] = Head(Defunct)]
    /\ k' = rt_list_remove(k, Head(Defunct))
    /\ Goto(Idle, "free")
    /\ UNCHANGED <<exists, fault>>

\* Stack and thread object are freed with interrupts enabled.
ReapFree ==
    /\ At(Idle, "free")
    /\ exists' = exists \ {on[Idle]}
    /\ Goto(Idle, "run")
    /\ UNCHANGED <<k, on, fault>>

-----------------------------------------------------------------------------
StepReschedule(t) == Reschedule(t) /\ UNCHANGED lvars

ThreadStep(t) ==
    \/ StepReschedule(t)
    \/ SleepReturn(t)
    \/ DelayUntilReturn(t)
    \/ Suspend(t)
    \/ Resume(t)
    \/ DeleteRemove(t)
    \/ DeleteTimer(t)
    \/ DeleteStat(t)
    \/ DeleteEnd(t)

IdleStep == ReapStatic \/ ReapDynamic \/ ReapFree

ThreadCall(t) ==
    \/ rt_thread_sleep(t)
    \/ rt_thread_delay_until(t)
    \/ rt_thread_yield(t)
    \/ EnterCritical(t)
    \/ ExitCritical(t)
    \/ rt_thread_exit(t)
    \/ \E u \in Thread :
          \/ Create(t, u)
          \/ StartupStep(t, u)
          \/ SuspendTest(t, u)
          \/ ResumeTest(t, u)
          \/ Delete(t, u)
          \/ \E p \in NewPriority : Control(t, u, p)

\* rt_thread_timeout asserts that the thread is suspended.
TimeoutStep(t) ==
    /\ IF t \in k.timer /\ k.stat[t] # "SUSPEND"
         THEN fault' = TRUE /\ UNCHANGED kvars
         ELSE Timeout(t) /\ UNCHANGED fault
    /\ UNCHANGED <<exists, on>>

TickStep == SliceExpired /\ UNCHANGED lvars

Next ==
    /\ ~fault
    /\ \/ \E t \in Thread : ThreadStep(t) \/ ThreadCall(t) \/ TimeoutStep(t)
       \/ IdleStep
       \/ TickStep

\* The processor keeps executing the current thread, ticks keep coming, and a
\* thread that has locked the scheduler, however deep, unlocks it some time.
Fairness ==
    /\ \A t \in Thread : /\ WF_vars(~fault /\ ThreadStep(t))
                         /\ WF_vars(~fault /\ TimeoutStep(t))
                         /\ \A n \in 1 .. MaxLock :
                               SF_vars(~fault /\ k.lock = n /\ ExitCritical(t))
    /\ WF_vars(~fault /\ TickStep)

Spec == Init /\ [][Next]_vars
FairSpec == Spec /\ Fairness
-----------------------------------------------------------------------------
(* Properties.                                                             *)

Pcs == {"run", "block", "woken", "resched", "until_block", "suspend", "resume",
        "free", "dead"} \cup DeletePoint

TypeOK ==
    /\ k \in KernelState
    /\ pc \in [Thread -> Pcs]
    /\ exists \subseteq Thread
    /\ on \in [Thread -> Thread]
    /\ fault \in BOOLEAN

\* rt_thread_delete has taken the thread off the lists.
TakenOff(u) == \E v \in Thread : pc[v] \in DeletePoint \ {"delete_remove"} /\ on[v] = u

\* Ready lists, bitmap, masks and timers agree with the states of the threads
\* through every window of suspend, resume, delete and exit.
ListsConsistent ==
    /\ TypeOK
    /\ IdleReady(k) /\ NoDuplicates(k) /\ BitmapExact(k) /\ MasksCurrent(k)
    /\ \A t \in k.timer : k.stat[t] = "SUSPEND"
    /\ \A t \in Thread, p \in Prio :
          t \in ToSet(k.ready[p]) <=> k.stat[t] = "READY" /\ k.prio[t] = p /\ ~TakenOff(t)

\* Nothing leaks and nothing is freed twice: a dead thread whose memory is
\* still held is on rt_thread_defunct, or about to be put there or freed.
DefunctExact ==
    \A t \in Thread :
        t \in ToSet(Defunct) <=>
            /\ k.stat[t] = "CLOSE" /\ t \in exists /\ ~TakenOff(t)
            /\ ~(pc[Idle] = "free" /\ on[Idle] = t)

\* The critical section the idle thread ends without having begun it is never
\* that of another thread: the scheduler is unlocked whenever it runs.
IdleNeverInCritical == k.cur = Idle => k.lock = 0

\* A closed thread is never made ready or suspended again; its object can
\* only be initialised anew.
DeadStaysDead ==
    [][\A t \in Thread : k.stat[t] = "CLOSE" => k'.stat[t] \in {"CLOSE", "INIT"}]_vars

\* No step uses a freed thread object, links a linked node again or fails an
\* assertion, and the processor never runs on the stack of a thread that is
\* dead or freed.
NoCorruption == ~fault /\ k.cur \in exists /\ k.stat[k.cur] # "CLOSE"

\* rt_thread_delete removes the thread from the queue it is on.
DeletedLeavesQueues ==
    \A t \in Thread : k.stat[t] = "CLOSE" => \A p \in Prio : t \notin ToSet(k.ready[p])

\* The most urgent thread returns from rt_thread_sleep, whoever holds the
\* scheduler lock when its timer expires.
SleepReturns ==
    \A t \in Thread \ (Controlled \cup Victim) :
        (\A u \in Thread \ {t} : init_priority[t] < init_priority[u]) =>
            (pc[t] = "block") ~> (pc[t] = "run" \/ fault)
=============================================================================
