------------------------------ MODULE IpcWait ------------------------------
(***************************************************************************)
(* How a thread waits on a list of an object, shared by the objects that   *)
(* came after semaphores and mutexes: it resets thread->error, suspends,   *)
(* links itself into the list and arms its timer, all with interrupts      *)
(* disabled; rt_schedule follows.  time is 0, positive, or negative for    *)
(* ever.                                                                   *)
(*                                                                         *)
(* Several calls wait in a loop and recompute what is left of their        *)
(* timeout with rt_tick_get when they are resumed and have to wait again.  *)
(* Ticks are not counted here: what is left is any of the values the       *)
(* subtraction and the clamp at zero can give.                             *)
(***************************************************************************)
EXTENDS Ipc, FiniteSets

CONSTANT ipc_flag     \* parent.flag of the object each list belongs to

ASSUME FlagAssumption == ipc_flag \in [Queue -> {"FIFO", "PRIO"}]

\* Threads are objects in memory.
ASSUME FiniteAssumption == IsFiniteSet(Thread)

VARIABLE timeout      \* what is left of the timeout of a thread's waiting call;
                      \* 0 outside such a call

Time == {-1, 0, 1}

None == "none"        \* no message

\* What is left of a timeout after a wait: nothing or something of a positive
\* one; "for ever" stays as it is.
TimeLeft(time) == IF time > 0 THEN {0, time} ELSE {time}

ArmTimer(c, t, time) == IF time > 0 THEN StartThreadTimer(c, t) ELSE c

\* thread->error = RT_EOK; rt_ipc_list_suspend; timer.
SuspendOn(c, q, t, time) ==
    ArmTimer(rt_ipc_list_suspend([c EXCEPT !.error[t] = "EOK"], q, t, ipc_flag[q]),
             t, time)

\* The same with rt_thread_suspend and rt_list_insert_before / _after.
SuspendAtTail(c, q, t, time) ==
    LET s == rt_thread_suspend([c EXCEPT !.error[t] = "EOK"], t)
    IN  ArmTimer([s EXCEPT !.wait[q] = Append(@, t)], t, time)

SuspendAtHead(c, q, t, time) ==
    LET s == rt_thread_suspend([c EXCEPT !.error[t] = "EOK"], t)
    IN  ArmTimer([s EXCEPT !.wait[q] = <<t>> \o @], t, time)

\* rt_ipc_list_resume of list q if anyone waits there, rt_schedule next.
Wake(t, q) ==
    IF k.wait[q] # << >>
      THEN k' = rt_ipc_list_resume(k, q) /\ Goto(t, "resched")
      ELSE UNCHANGED k /\ Goto(t, "run")

\* The same from an interrupt handler.
WakeIsr(q) ==
    /\ k' = IF k.wait[q] # << >> THEN rt_schedule(rt_ipc_list_resume(k, q)) ELSE k
    /\ UNCHANGED pc

\* rt_ipc_list_resume_all where the caller has disabled interrupts: the state
\* after each round of the loop.
ResumeAllMasked(c, q) ==
    LET after[n \in 0 .. Len(c.wait[q])] ==
            IF n = 0 THEN c ELSE ResumeWithError(after[n - 1], q)
    IN  after[Len(c.wait[q])]

\* A detach that has begun on one list goes on with the list r.
ResumeAllThen(t, q, r) ==
    /\ At(t, "detach_test") /\ on[t] = q /\ k.wait[q] = << >>
    /\ on' = [on EXCEPT ![t] = r]
    /\ alive' = alive \ {r}
    /\ UNCHANGED <<kvars, fault>>

\* Threads resumed from list q that have not yet looked at the object again.
Resumed(q) ==
    {t \in Thread : /\ pc[t] \in {"block", "woken"} /\ on[t] = q
                    /\ k.stat[t] = "READY" /\ k.error[t] = "EOK"}

\* A client detaches an object only when no thread that was resumed from list q
\* is about to look at the object again, and perhaps to wait on it again.
NoneReturning(q) == Resumed(q) = {}
=============================================================================
