----------------------------- MODULE Completion -----------------------------
(***************************************************************************)
(* A completion (kernel/utilities/completion.c): a flag one side sets and  *)
(* the other waits for and clears.  One thread waits; the code asserts so. *)
(***************************************************************************)
EXTENDS IpcWait

CONSTANTS completion,   \* the object, by its suspended_list
          Waiter        \* the thread that waits on it

VARIABLE completed      \* completion->flag

CompletionInit == completed = FALSE

-----------------------------------------------------------------------------
\* rt_completion_wait up to its rt_schedule.
rt_completion_wait(t, time) ==
    /\ CallsOn(t, completion) /\ t = Waiter
    /\ \/ completed /\ completed' = FALSE /\ UNCHANGED <<k, pc, on>>
       \/ ~completed /\ time = 0 /\ UNCHANGED <<k, pc, on, completed>>
       \/ /\ ~completed /\ time # 0
          /\ k' = SuspendAtTail(k, completion, t, time)
          /\ on' = [on EXCEPT ![t] = completion]
          /\ Goto(t, "block")
          /\ UNCHANGED completed
    /\ UNCHANGED <<alive, fault, timeout>>

\* result = -thread->error, read with interrupts enabled ...
WaitResult(t) ==
    /\ At(t, "woken") /\ on[t] = completion
    /\ Goto(t, "cmp_clear")
    /\ UNCHANGED <<k, alive, on, fault, timeout, completed>>

\* ... and the flag cleared, whatever the result was.
WaitClear(t) ==
    /\ At(t, "cmp_clear")
    /\ completed' = FALSE
    /\ Goto(t, "run")
    /\ UNCHANGED <<k, alive, on, fault, timeout>>

-----------------------------------------------------------------------------
\* rt_completion_done tests the flag with interrupts enabled ...
rt_completion_done(t) ==
    /\ CallsOn(t, completion)
    /\ IF completed THEN UNCHANGED pc ELSE Goto(t, "cmp_done")
    /\ UNCHANGED <<k, alive, on, fault, timeout, completed>>

\* ... then sets it and resumes the waiter.
Done(t) ==
    /\ At(t, "cmp_done")
    /\ completed' = TRUE
    /\ Wake(t, completion)
    /\ UNCHANGED <<alive, on, fault, timeout>>

\* The same call from an interrupt handler.
DoneIsr ==
    /\ completion \in alive /\ ~completed
    /\ completed' = TRUE
    /\ WakeIsr(completion)
    /\ UNCHANGED <<alive, on, fault, timeout>>

-----------------------------------------------------------------------------
CompletionCall(t) ==
    \/ \E time \in Time : rt_completion_wait(t, time)
    \/ rt_completion_done(t)

CompletionStep(t) == WaitResult(t) \/ WaitClear(t) \/ Done(t)
-----------------------------------------------------------------------------
\* Nobody sleeps on a completion that is done: a done that finds the flag set
\* and returns at once, or comes from an interrupt between the steps of another
\* done or of a wait, leaves no waiter behind.
NoWaiterWhenDone == k.wait[completion] # << >> => ~completed
=============================================================================
