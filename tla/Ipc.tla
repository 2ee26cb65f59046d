-------------------------------- MODULE Ipc --------------------------------
(***************************************************************************)
(* What the IPC objects of kernel/src/ipc.c share: a suspend list each     *)
(* (the elements of Queue), and the loop rt_ipc_list_resume_all by which   *)
(* detach and delete wake every waiter with RT_ERROR.                      *)
(*                                                                         *)
(* Clients keep to two rules of the API: nobody calls on an object again   *)
(* once its detach has begun, and a thread blocks only with the scheduler  *)
(* unlocked.  When an RT_ASSERT fails, fault becomes TRUE and the model    *)
(* stops: memory outside any thread has been written by then.              *)
(***************************************************************************)
EXTENDS Threads

ASSUME QueueAssumption == Queue # {}

VARIABLES alive,   \* objects whose detach has not begun
          on,      \* object of the call a thread is in
          fault    \* an RT_ASSERT has failed

IpcInit ==
    /\ ThreadsInit
    /\ alive = Queue
    /\ on = [t \in Thread |-> CHOOSE q \in Queue : TRUE]
    /\ fault = FALSE

\* t makes a call on the object q.
CallsOn(t, q) == Calls(t) /\ q \in alive

-----------------------------------------------------------------------------
(* rt_ipc_list_resume_all tests the list with interrupts enabled and takes *)
(* its head after disabling them.                                          *)
ResumeAll(t, q) ==
    /\ CallsOn(t, q)
    /\ alive' = alive \ {q}
    /\ on' = [on EXCEPT ![t] = q]
    /\ Goto(t, "detach_test")
    /\ UNCHANGED <<k, fault>>

ResumeAllTest(t) ==
    /\ At(t, "detach_test")
    /\ Goto(t, IF k.wait[on[t]] = << >> THEN "run" ELSE "detach_resume")
    /\ UNCHANGED <<k, alive, on, fault>>

\* Slip: "if" instead of "while", only the first waiter is resumed.
ResumeAllFirst(t) ==
    /\ At(t, "detach_resume")
    /\ k' = IF k.wait[on[t]] = << >> THEN k ELSE ResumeWithError(k, on[t])
    /\ Goto(t, "run")
    /\ UNCHANGED <<alive, on, fault>>

\* On an empty list the "thread" is the list head itself: an error code is
\* stored through it, outside any thread, and the assertion of rt_thread_resume
\* on the object type fails.
ResumeAllOne(t) ==
    /\ At(t, "detach_resume")
    /\ IF k.wait[on[t]] = << >>
         THEN fault' = TRUE /\ UNCHANGED k
         ELSE k' = ResumeWithError(k, on[t]) /\ UNCHANGED fault
    /\ Goto(t, "detach_test")
    /\ UNCHANGED <<alive, on>>

-----------------------------------------------------------------------------
(* Properties every IPC object shares.                                     *)

\* The kernel lists, states, bitmap and thread timers stay consistent.
KernelConsistent == KernelInv(k)

\* Every suspended thread is in the suspend list of the object its blocking
\* call is on, so that a release, reset or detach can still reach it.
NoLostThread ==
    \A t \in Thread : k.stat[t] = "SUSPEND" =>
        /\ pc[t] \in {"block", "woken"}
        /\ t \in ToSet(k.wait[on[t]])

\* A detached or deleted object leaves no thread on its suspend list.
DetachLeavesNoWaiter ==
    \A q \in Queue \ alive :
        \/ k.wait[q] = << >>
        \/ \E t \in Thread : on[t] = q /\ pc[t] \in {"detach_test", "detach_resume"}

\* rt_thread_resume's assertion that its argument is a thread holds for the
\* list heads rt_ipc_list_resume_all passes to it.
AssertionsHold == ~fault
=============================================================================
