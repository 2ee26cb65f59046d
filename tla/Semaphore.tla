----------------------------- MODULE Semaphore -----------------------------
(***************************************************************************)
(* Counting semaphores (kernel/src/ipc.c) among preemptive threads and     *)
(* interrupt handlers: take with and without a timeout, release from       *)
(* threads and from interrupts, reset by rt_sem_control, detach/delete.    *)
(***************************************************************************)
EXTENDS Ipc, FiniteSets

Sem == Queue

CONSTANTS
    InitValue,     \* values a semaphore may be initialised with
    ResetValue,    \* values rt_sem_control may set
    ValueModulus,  \* value is a rt_uint16_t: 2^16
    MaxValue       \* bound of the model: no release at or above this value

ASSUME SemAssumption ==
    /\ ValueModulus \in Nat \ {0}
    /\ InitValue \subseteq 0 .. ValueModulus - 1
    /\ ResetValue \subseteq 0 .. ValueModulus - 1
    /\ MaxValue \in Nat
    /\ IsFiniteSet(Thread)

VARIABLES value,   \* sem->value
          flag,    \* sem->parent.parent.flag
          tokens   \* history: tokens put into each semaphore, by its
                   \* initial value, releases and resets, and not yet
                   \* obtained by a take that returned RT_EOK

svars == <<value, flag, alive, on, fault>>
vars == <<kvars, svars, tokens>>

Init ==
    /\ IpcInit
    /\ value \in [Sem -> InitValue]
    /\ flag \in [Sem -> {"FIFO", "PRIO"}]
    /\ tokens = value

\* The interrupted code has interrupts disabled: the loop of rt_sem_control.
Masked == pc[k.cur] = "reset"

-----------------------------------------------------------------------------
(* rt_sem_take, up to its call of rt_schedule.  time is 0, positive, or    *)
(* negative for ever.                                                      *)
Obtained(s) == tokens' = [tokens EXCEPT ![s] = @ - 1]
Issued(s)   == tokens' = [tokens EXCEPT ![s] = @ + 1]

\* Slip: the value is not checked before it is decremented.
TakeUnchecked(t, s) ==
    /\ value' = [value EXCEPT ![s] = @ - 1]
    /\ Obtained(s)
    /\ UNCHANGED <<kvars, on>>

TakeAvailable(t, s) ==
    /\ value[s] > 0
    /\ value' = [value EXCEPT ![s] = @ - 1]
    /\ Obtained(s)
    /\ UNCHANGED <<kvars, on>>

TakeNoWait(s, time) ==
    /\ value[s] = 0 /\ time = 0
    /\ UNCHANGED <<kvars, value, on, tokens>>

\* Slip: thread->error is not reset before waiting.
TakeWaitStaleError(t, s, time) ==
    /\ value[s] = 0 /\ time # 0
    /\ LET w == rt_ipc_list_suspend(k, s, t, flag[s])
       IN  k' = IF time > 0 THEN StartThreadTimer(w, t) ELSE w
    /\ on' = [on EXCEPT ![t] = s]
    /\ Goto(t, "block")
    /\ UNCHANGED <<value, tokens>>

TakeWait(t, s, time) ==
    /\ value[s] = 0 /\ time # 0
    /\ LET w == rt_ipc_list_suspend([k EXCEPT !.error[t] = "EOK"], s, t, flag[s])
       IN  k' = IF time > 0 THEN StartThreadTimer(w, t) ELSE w
    /\ on' = [on EXCEPT ![t] = s]
    /\ Goto(t, "block")
    /\ UNCHANGED <<value, tokens>>

rt_sem_take(t, s, time) ==
    /\ CallsOn(t, s)
    /\ TakeAvailable(t, s) \/ TakeNoWait(s, time) \/ TakeWait(t, s, time)
    /\ UNCHANGED <<flag, alive, fault>>

\* The check of thread->error that ends rt_sem_take.
TakeReturn(t) ==
    /\ At(t, "woken")
    /\ IF k.error[t] = "EOK" THEN Obtained(on[t]) ELSE UNCHANGED tokens
    /\ Goto(t, "run")
    /\ UNCHANGED <<k, svars>>

-----------------------------------------------------------------------------
(* rt_sem_release.                                                         *)
Put(s) == value' = [value EXCEPT ![s] = (@ + 1) % ValueModulus]

Release(t, s) ==
    /\ CallsOn(t, s) /\ value[s] < MaxValue
    /\ Issued(s)
    /\ IF k.wait[s] # << >>
         THEN /\ k' = rt_ipc_list_resume(k, s)
              /\ Goto(t, "resched")
              /\ UNCHANGED value
         ELSE Put(s) /\ UNCHANGED kvars
    /\ UNCHANGED <<flag, alive, on, fault>>

\* Slip: the value is increased although threads wait.
IsrReleaseNoResume(s) ==
    /\ s \in alive /\ value[s] < MaxValue
    /\ Issued(s)
    /\ Put(s)
    /\ UNCHANGED <<kvars, flag, alive, on, fault>>

\* The same call from an interrupt handler.
ReleaseFromIsr(s) ==
    /\ s \in alive /\ value[s] < MaxValue
    /\ Issued(s)
    /\ IF k.wait[s] # << >>
         THEN k' = rt_schedule(rt_ipc_list_resume(k, s)) /\ UNCHANGED value
         ELSE Put(s) /\ UNCHANGED k
    /\ UNCHANGED <<pc, flag, alive, on, fault>>

-----------------------------------------------------------------------------
(* rt_sem_control(RT_IPC_CMD_RESET): with interrupts disabled, every waiter *)
(* is resumed with an error, then the value is set; rt_schedule follows.   *)
Control(t, s) ==
    /\ CallsOn(t, s)
    /\ on' = [on EXCEPT ![t] = s]
    /\ Goto(t, "reset")
    /\ UNCHANGED <<k, value, flag, alive, fault, tokens>>

ResetOne(t) ==
    /\ At(t, "reset") /\ k.wait[on[t]] # << >>
    /\ k' = ResumeWithError(k, on[t])
    /\ UNCHANGED <<pc, svars, tokens>>

ResetValueTo(t, v) ==
    /\ At(t, "reset") /\ k.wait[on[t]] = << >>
    /\ value' = [value EXCEPT ![on[t]] = v]
    /\ tokens' = [tokens EXCEPT ![on[t]] = @ - value[on[t]] + v]
    /\ Goto(t, "resched")
    /\ UNCHANGED <<k, flag, alive, on, fault>>

-----------------------------------------------------------------------------
(* rt_sem_detach / rt_sem_delete.                                          *)
Detach(t, s)    == ResumeAll(t, s)  /\ UNCHANGED <<value, flag, tokens>>
DetachTest(t)   == ResumeAllTest(t) /\ UNCHANGED <<value, flag, tokens>>
DetachResume(t) == ResumeAllOne(t)  /\ UNCHANGED <<value, flag, tokens>>

-----------------------------------------------------------------------------
StepReschedule(t) == Reschedule(t) /\ UNCHANGED <<svars, tokens>>

StartupStep(t, u) == Startup(t, u) /\ UNCHANGED <<svars, tokens>>

ThreadStep(t) ==
    \/ StepReschedule(t)
    \/ TakeReturn(t)
    \/ ResetOne(t)
    \/ \E v \in ResetValue : ResetValueTo(t, v)
    \/ DetachTest(t)
    \/ DetachResume(t)

ThreadCall(t) ==
    \/ \E u \in Thread : StartupStep(t, u)
    \/ \E s \in Sem :
          \/ \E time \in {-1, 0, 1} : rt_sem_take(t, s, time)
          \/ Release(t, s)
          \/ Control(t, s)
          \/ Detach(t, s)

TimeoutStep(t) == ~Masked /\ Timeout(t) /\ UNCHANGED <<svars, tokens>>

TickStep == ~Masked /\ SliceExpired /\ UNCHANGED <<svars, tokens>>

IsrRelease(s) == ~Masked /\ ReleaseFromIsr(s)

\* rt_assert_handler does not return; the model follows the system no further.
Halted == fault /\ UNCHANGED vars

Next ==
    \/ /\ ~fault
       /\ \/ \E t \in Thread : ThreadStep(t) \/ ThreadCall(t) \/ TimeoutStep(t)
          \/ TickStep
          \/ \E s \in Sem : IsrRelease(s)
    \/ Halted

\* The processor keeps executing the current thread, and the tick interrupt
\* keeps coming: it expires thread timers and time slices.
Fairness ==
    /\ \A t \in Thread : /\ WF_vars(~fault /\ ThreadStep(t))
                         /\ WF_vars(~fault /\ TimeoutStep(t))
    /\ WF_vars(~fault /\ TickStep)

Spec == Init /\ [][Next]_vars
FairSpec == Spec /\ Fairness
-----------------------------------------------------------------------------
(* Properties.                                                             *)

Pcs == {"run", "block", "woken", "resched", "reset", "detach_test", "detach_resume"}

TypeOK ==
    /\ k \in KernelState
    /\ pc \in [Thread -> Pcs]
    /\ value \in [Sem -> 0 .. ValueModulus - 1]
    /\ flag \in [Sem -> {"FIFO", "PRIO"}]
    /\ alive \subseteq Sem
    /\ on \in [Thread -> Sem]
    /\ fault \in BOOLEAN
    /\ tokens \in [Sem -> Int]

\* Threads inside rt_sem_take on s that have been handed a token: resumed by
\* a release, neither timed out nor woken by a reset or a detach.
Granted(s) ==
    {t \in Thread : /\ pc[t] \in {"block", "woken"} /\ on[t] = s
                    /\ k.stat[t] = "READY" /\ k.error[t] = "EOK"}

\* Tokens are neither lost nor made up, whatever order releases, timeouts,
\* resets and the windows of rt_sem_take are interleaved in: each is in
\* sem->value or in the hands of exactly one thread on its way out of
\* rt_sem_take.
TokensConserved ==
    \A s \in Sem : tokens[s] = value[s] + Cardinality(Granted(s))

\* No thread sleeps on a semaphore that has tokens.
NoWaiterWhileAvailable ==
    \A s \in Sem : value[s] > 0 => k.wait[s] = << >>

\* A semaphore created with RT_IPC_FLAG_PRIO keeps its waiters sorted by
\* priority, most urgent first.
WaitersSorted ==
    \A s \in Sem : flag[s] = "PRIO" =>
        \A i, j \in 1 .. Len(k.wait[s]) :
            i < j => k.prio[k.wait[s][i]] <= k.prio[k.wait[s][j]]

\* rt_schedule always switches to a ready thread of the highest priority.
SwitchToHighest == [][k'.cur # k.cur => CurIsHighest(k')]_vars

\* The most urgent thread, blocked in a take with a timeout, returns.
TimedTakeReturns ==
    \A t \in Thread :
        (\A u \in Thread \ {t} : init_priority[t] < init_priority[u]) =>
            (pc[t] = "block" /\ t \in k.timer) ~> (pc[t] = "run" \/ fault)
=============================================================================
