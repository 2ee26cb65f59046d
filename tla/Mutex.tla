------------------------------- MODULE Mutex -------------------------------
(***************************************************************************)
(* Recursive mutexes with priority inheritance (kernel/src/ipc.c): take    *)
(* with and without a timeout, release, detach/delete, among preemptive    *)
(* threads.  Interrupt handlers may not use a mutex.  Clients do not       *)
(* change priorities with rt_thread_control themselves.                    *)
(***************************************************************************)
EXTENDS Ipc

Mutex == Queue

CONSTANTS
    RT_NULL,       \* no thread
    HoldModulus,   \* hold is a rt_uint8_t: 2^8
    MaxHold        \* bound of the model: holds a thread accumulates

ASSUME MutexAssumption ==
    /\ RT_NULL \notin Thread
    /\ HoldModulus \in Nat \ {0, 1}
    /\ MaxHold \in Nat

VARIABLES value, owner, original_priority, hold,
          held     \* history: takes that returned RT_EOK, minus releases
                   \* that did, of each mutex by each thread

mvars == <<value, owner, original_priority, hold>>
ivars == <<alive, on, fault>>
vars == <<kvars, ivars, mvars, held>>

Init ==
    /\ IpcInit
    /\ value = [m \in Mutex |-> 1]
    /\ owner = [m \in Mutex |-> RT_NULL]
    /\ original_priority = [m \in Mutex |-> 255]
    /\ hold = [m \in Mutex |-> 0]
    /\ held = [m \in Mutex |-> [t \in Thread |-> 0]]

-----------------------------------------------------------------------------
(* rt_mutex_take, up to its call of rt_schedule.  thread->error is reset   *)
(* on entry.                                                               *)
SetError(t, e) == [k EXCEPT !.error[t] = e]

Obtained(t, m) == held' = [held EXCEPT ![m][t] = @ + 1]

HoldMore(m) == hold' = [hold EXCEPT ![m] = (@ + 1) % HoldModulus]

TakeOwned(t, m) ==
    /\ owner[m] = t /\ held[m][t] < MaxHold
    /\ HoldMore(m)
    /\ Obtained(t, m)
    /\ k' = SetError(t, "EOK")
    /\ UNCHANGED <<pc, on, value, owner, original_priority>>

\* Slip: the mutex is not marked as taken.
TakeFreeNotMarked(t, m) ==
    /\ owner[m] # t /\ value[m] > 0
    /\ owner' = [owner EXCEPT ![m] = t]
    /\ original_priority' = [original_priority EXCEPT ![m] = k.prio[t]]
    /\ HoldMore(m)
    /\ Obtained(t, m)
    /\ k' = SetError(t, "EOK")
    /\ UNCHANGED <<pc, on, value>>

TakeFree(t, m) ==
    /\ owner[m] # t /\ value[m] > 0
    /\ value' = [value EXCEPT ![m] = @ - 1]
    /\ owner' = [owner EXCEPT ![m] = t]
    /\ original_priority' = [original_priority EXCEPT ![m] = k.prio[t]]
    /\ HoldMore(m)
    /\ Obtained(t, m)
    /\ k' = SetError(t, "EOK")
    /\ UNCHANGED <<pc, on>>

\* No waiting asked for, or the "fatal error" of a taken mutex with no owner.
TakeFails(t, m, time) ==
    /\ owner[m] # t /\ value[m] = 0
    /\ time = 0 \/ owner[m] = RT_NULL
    /\ k' = SetError(t, IF time = 0 THEN "ETIMEOUT" ELSE "EOK")
    /\ UNCHANGED <<pc, on, mvars, held>>

\* Slip: the owner inherits no priority.
BoostNone(s, t, m) == s

\* The owner inherits the priority of a more urgent taker.
Boost(s, t, m) ==
    IF s.prio[t] < s.prio[owner[m]] THEN ChangePriority(s, owner[m], s.prio[t]) ELSE s

TakeWait(t, m, time) ==
    /\ owner[m] \notin {t, RT_NULL} /\ value[m] = 0 /\ time # 0
    /\ LET w == rt_ipc_list_suspend(Boost(SetError(t, "EOK"), t, m), m, t, "PRIO")
       IN  k' = IF time > 0 THEN StartThreadTimer(w, t) ELSE w
    /\ on' = [on EXCEPT ![t] = m]
    /\ Goto(t, "block")
    /\ UNCHANGED <<mvars, held>>

rt_mutex_take(t, m, time) ==
    /\ CallsOn(t, m)
    /\ \/ TakeOwned(t, m)
       \/ TakeFree(t, m)
       \/ TakeFails(t, m, time)
       \/ TakeWait(t, m, time)
    /\ UNCHANGED <<alive, fault>>

\* The check of thread->error that ends rt_mutex_take.
TakeReturn(t) ==
    /\ At(t, "woken")
    /\ IF k.error[t] = "EOK" THEN Obtained(t, on[t]) ELSE UNCHANGED held
    /\ Goto(t, "run")
    /\ UNCHANGED <<k, ivars, mvars>>

-----------------------------------------------------------------------------
(* rt_mutex_release.                                                       *)
Returned(t, m) == held' = [held EXCEPT ![m][t] = @ - 1]

ReleaseRefused(t, m) ==
    /\ owner[m] # t
    /\ k' = SetError(t, "ERROR")
    /\ UNCHANGED <<pc, mvars, held>>

HoldLess(m) == (hold[m] - 1) % HoldModulus

ReleaseInner(t, m) ==
    /\ owner[m] = t /\ HoldLess(m) # 0
    /\ hold' = [hold EXCEPT ![m] = HoldLess(m)]
    /\ Returned(t, m)
    /\ UNCHANGED <<kvars, value, owner, original_priority>>

\* The priority inherited through the mutex is given back.
Restore(t, m) ==
    IF original_priority[m] # k.prio[t]
      THEN ChangePriority(k, t, original_priority[m]) ELSE k

\* Slip: the priority of the releasing thread is recorded for the new owner.
HandOverOldPriority(t, m) ==
    LET s == Restore(t, m)
    IN  /\ owner[m] = t /\ HoldLess(m) = 0 /\ s.wait[m] # << >>
        /\ owner' = [owner EXCEPT ![m] = Head(s.wait[m])]
        /\ original_priority' = [original_priority EXCEPT ![m] = s.prio[t]]
        /\ hold' = [hold EXCEPT ![m] = 1]
        /\ k' = rt_ipc_list_resume(s, m)
        /\ Returned(t, m)
        /\ Goto(t, "resched")
        /\ UNCHANGED value

\* The mutex passes to the first waiter without becoming free.
HandOver(t, m) ==
    LET s == Restore(t, m)
        u == Head(s.wait[m])
    IN  /\ owner[m] = t /\ HoldLess(m) = 0 /\ s.wait[m] # << >>
        /\ owner' = [owner EXCEPT ![m] = u]
        /\ original_priority' = [original_priority EXCEPT ![m] = s.prio[u]]
        /\ hold' = [hold EXCEPT ![m] = 1]
        /\ k' = rt_ipc_list_resume(s, m)
        /\ Returned(t, m)
        /\ Goto(t, "resched")
        /\ UNCHANGED value

\* Slip: the owner is not cleared.
FreeKeepsOwner(t, m) ==
    /\ owner[m] = t /\ HoldLess(m) = 0 /\ k.wait[m] = << >>
    /\ value' = [value EXCEPT ![m] = @ + 1]
    /\ hold' = [hold EXCEPT ![m] = 0]
    /\ k' = Restore(t, m)
    /\ Returned(t, m)
    /\ UNCHANGED <<pc, owner, original_priority>>

\* Slip: the mutex becomes free although threads wait.
FreeAlways(t, m) ==
    /\ owner[m] = t /\ HoldLess(m) = 0
    /\ value' = [value EXCEPT ![m] = @ + 1]
    /\ owner' = [owner EXCEPT ![m] = RT_NULL]
    /\ original_priority' = [original_priority EXCEPT ![m] = 255]
    /\ hold' = [hold EXCEPT ![m] = 0]
    /\ k' = Restore(t, m)
    /\ Returned(t, m)
    /\ UNCHANGED pc

\* No waiter: the mutex becomes free.  The code does not reschedule here,
\* even when the restored priority is lower than that of a ready thread.
Free(t, m) ==
    /\ owner[m] = t /\ HoldLess(m) = 0 /\ k.wait[m] = << >>
    /\ value' = [value EXCEPT ![m] = @ + 1]
    /\ owner' = [owner EXCEPT ![m] = RT_NULL]
    /\ original_priority' = [original_priority EXCEPT ![m] = 255]
    /\ hold' = [hold EXCEPT ![m] = 0]
    /\ k' = Restore(t, m)
    /\ Returned(t, m)
    /\ UNCHANGED pc

rt_mutex_release(t, m) ==
    /\ CallsOn(t, m)
    /\ \/ ReleaseRefused(t, m)
       \/ ReleaseInner(t, m)
       \/ HandOver(t, m)
       \/ Free(t, m)
    /\ UNCHANGED ivars

-----------------------------------------------------------------------------
(* rt_mutex_detach / rt_mutex_delete: the owner, if any, is not told.      *)
Detach(t, m)    == ResumeAll(t, m)  /\ UNCHANGED <<mvars, held>>
DetachTest(t)   == ResumeAllTest(t) /\ UNCHANGED <<mvars, held>>
DetachResume(t) == ResumeAllOne(t)  /\ UNCHANGED <<mvars, held>>

-----------------------------------------------------------------------------
StepReschedule(t) == Reschedule(t) /\ UNCHANGED <<ivars, mvars, held>>

StartupStep(t, u) == Startup(t, u) /\ UNCHANGED <<ivars, mvars, held>>

ThreadStep(t) ==
    \/ StepReschedule(t)
    \/ TakeReturn(t)
    \/ DetachTest(t)
    \/ DetachResume(t)

ThreadCall(t) ==
    \/ \E u \in Thread : StartupStep(t, u)
    \/ \E m \in Mutex :
          \/ \E time \in {-1, 0, 1} : rt_mutex_take(t, m, time)
          \/ rt_mutex_release(t, m)
          \/ Detach(t, m)

TimeoutStep(t) == Timeout(t) /\ UNCHANGED <<ivars, mvars, held>>

TickStep == SliceExpired /\ UNCHANGED <<ivars, mvars, held>>

\* rt_assert_handler does not return; the model follows the system no further.
Halted == fault /\ UNCHANGED vars

Next ==
    \/ /\ ~fault
       /\ \/ \E t \in Thread : ThreadStep(t) \/ ThreadCall(t) \/ TimeoutStep(t)
          \/ TickStep
    \/ Halted

\* The processor keeps executing the current thread, ticks keep coming, and
\* a thread that holds a mutex, however often, and runs again and again
\* releases it some time.
Fairness ==
    /\ \A t \in Thread :
          /\ WF_vars(~fault /\ ThreadStep(t))
          /\ WF_vars(~fault /\ TimeoutStep(t))
          /\ \A m \in Mutex, n \in 1 .. MaxHold :
                SF_vars(~fault /\ held[m][t] = n /\ rt_mutex_release(t, m))
    /\ WF_vars(~fault /\ TickStep)

Spec == Init /\ [][Next]_vars
FairSpec == Spec /\ Fairness
-----------------------------------------------------------------------------
(* Properties.                                                             *)

Pcs == {"run", "block", "woken", "resched", "detach_test", "detach_resume"}

TypeOK ==
    /\ k \in KernelState
    /\ pc \in [Thread -> Pcs]
    /\ alive \subseteq Mutex
    /\ on \in [Thread -> Mutex]
    /\ fault \in BOOLEAN
    /\ value \in [Mutex -> 0 .. 1]
    /\ owner \in [Mutex -> Thread \cup {RT_NULL}]
    /\ original_priority \in [Mutex -> Prio \cup {255}]
    /\ hold \in [Mutex -> 0 .. HoldModulus - 1]
    /\ held \in [Mutex -> [Thread -> Int]]

\* What every call and every interrupt relies on: types, kernel lists, bitmap,
\* masks and timers agree after any change of priority by inheritance, and a
\* suspended thread is on the list of its mutex, but for a mutex that is gone.
Consistent == TypeOK /\ KernelConsistent /\ NoLostThread /\ DetachLeavesNoWaiter

\* No two threads hold a mutex at once, going by what their calls of
\* rt_mutex_take and rt_mutex_release returned: a hand-over racing the
\* waiter's timeout or a detach never lets two of them in.
MutualExclusion ==
    \A m \in Mutex, t, u \in Thread : held[m][t] > 0 /\ held[m][u] > 0 => t = u

\* Threads handed the mutex whose rt_mutex_take has not returned yet.
Granted(m, t) ==
    /\ pc[t] \in {"block", "woken"} /\ on[t] = m
    /\ k.stat[t] = "READY" /\ k.error[t] = "EOK"

\* owner and hold agree with the calls that returned RT_EOK: a mutex is
\* free exactly when nobody holds it or is about to, and hold counts the
\* owner's takes.
HoldCountsTakes ==
    \A m \in Mutex :
        /\ owner[m] = RT_NULL <=> value[m] > 0
        /\ owner[m] = RT_NULL => hold[m] = 0
        /\ \A t \in Thread :
              /\ owner[m] = t => hold[m] = held[m][t] + (IF Granted(m, t) THEN 1 ELSE 0)
              /\ owner[m] # t => held[m][t] = 0 /\ ~Granted(m, t)

\* No thread sleeps on a free mutex.
NoWaiterWhileFree ==
    \A m \in Mutex : owner[m] = RT_NULL => k.wait[m] = << >>

\* The owner of a mutex runs at least at the priority of every thread that
\* waits for it.
OwnerInherits ==
    \A m \in Mutex : \A w \in ToSet(k.wait[m]) : k.prio[owner[m]] <= k.prio[w]

\* A thread that owns no mutex is back at the priority it was created with.
PriorityRestored ==
    \A t \in Thread : (\A m \in Mutex : owner[m] # t) => k.prio[t] = init_priority[t]

\* The most urgent thread obtains the mutex it waits for although threads of
\* middle priority never give up the processor: inheritance lets the owner
\* run until it releases.  A detach of the mutex frees the owner from this.
UrgentTakeReturns ==
    \A t \in Thread :
        (\A u \in Thread \ {t} : init_priority[t] < init_priority[u]) =>
            (pc[t] = "block") ~> (pc[t] = "run" \/ fault \/ on[t] \notin alive)
=============================================================================
