----------------------------- MODULE IpcObjects -----------------------------
(***************************************************************************)
(* Threads and interrupt handlers that use an event, a mailbox, a message  *)
(* queue and a memory pool of one kernel.                                  *)
(***************************************************************************)
EXTENDS Event, Mailbox, MessageQueue, MemPool

CONSTANT Created      \* sets of lists whose objects may exist at the start

\* The two lists of a mailbox exist together.
ASSUME CreatedAssumption ==
    /\ Created \subseteq SUBSET Queue
    /\ \A c \in Created : mb \in c <=> mb_sender \in c

\* Every object has lists of its own.
ASSUME ListsAssumption ==
    /\ {event, mb, mb_sender, mq, mp} \subseteq Queue
    /\ event \notin {mb, mb_sender, mq, mp}
    /\ {mb, mb_sender} \cap {mq, mp} = {}
    /\ mq # mp

vars == <<kvars, alive, on, fault, timeout, evvars, mbvars, mqvars, mpvars>>

Init ==
    /\ ThreadsInit
    /\ alive \in Created
    /\ on = [t \in Thread |-> CHOOSE q \in Queue : TRUE]
    /\ fault = FALSE
    /\ timeout = [t \in Thread |-> 0]
    /\ EventInit /\ MailboxInit /\ MessageQueueInit /\ MemPoolInit

\* Which variables a step leaves alone, by the object it is on.
OnEvent  == UNCHANGED <<timeout, mbvars, mqvars, mpvars>>
OnMb     == UNCHANGED <<evvars, mqvars, mpvars>>
OnMq     == UNCHANGED <<evvars, mbvars, mpvars>>
OnMp     == UNCHANGED <<evvars, mbvars, mqvars>>
OnKernel == UNCHANGED <<alive, on, fault, timeout, evvars, mbvars, mqvars, mpvars>>

ThreadCall(t) ==
    \/ \E u \in Thread : Startup(t, u) /\ OnKernel
    \/ EventCall(t) /\ OnEvent
    \/ MailboxCall(t) /\ OnMb
    \/ MessageQueueCall(t) /\ OnMq
    \/ MemPoolCall(t) /\ OnMp

\* The loop of rt_ipc_list_resume_all on a list it was called for last.
LastList(t) == on[t] \in {event, mb_sender, mq}
AnyList(t)  == on[t] # mp

DetachTest(t)   == /\ LastList(t) \/ k.wait[on[t]] # << >>
                   /\ AnyList(t) /\ ResumeAllTest(t)
                   /\ UNCHANGED <<timeout, evvars, mbvars, mqvars, mpvars>>
DetachResume(t) == /\ AnyList(t) /\ ResumeAllOne(t)
                   /\ UNCHANGED <<timeout, evvars, mbvars, mqvars, mpvars>>

ThreadStep(t) ==
    \/ Reschedule(t) /\ OnKernel
    \/ EventReturn(t) /\ OnEvent
    \/ MailboxStep(t) /\ OnMb
    \/ MessageQueueStep(t) /\ OnMq
    \/ MemPoolStep(t) /\ OnMp
    \/ DetachTest(t)
    \/ DetachResume(t)

Interrupt ==
    \/ \E t \in Thread : Timeout(t) /\ OnKernel
    \/ SliceExpired /\ OnKernel
    \/ EventIsr /\ OnEvent
    \/ MailboxIsr /\ OnMb
    \/ MessageQueueIsr /\ OnMq
    \/ MemPoolIsr /\ OnMp

\* rt_assert_handler does not return; the model follows the system no further.
Halted == fault /\ UNCHANGED vars

Next ==
    \/ ~fault /\ ((\E t \in Thread : ThreadCall(t) \/ ThreadStep(t)) \/ Interrupt)
    \/ Halted

Spec == Init /\ [][Next]_vars
-----------------------------------------------------------------------------
Pcs == {"run", "block", "woken", "resched", "detach_test", "detach_resume",
        "mq_fill", "mq_copy"}

TypeOK ==
    /\ k \in KernelState
    /\ pc \in [Thread -> Pcs]
    /\ alive \subseteq Queue
    /\ on \in [Thread -> Queue]
    /\ fault \in BOOLEAN
    /\ timeout \in [Thread -> Time]
    /\ EventTypeOK /\ MailboxTypeOK /\ MessageQueueTypeOK /\ MemPoolTypeOK

\* What every call and every interrupt relies on: types, kernel lists, bitmap,
\* masks and timers agree, a suspended thread is on a list of the object its
\* call is on, and detach leaves nobody on either list of an object.
Consistent == TypeOK /\ KernelConsistent /\ NoLostThread /\ DetachLeavesNoWaiter

\* Nobody sleeps for what is there, at whatever point of a retry, a timeout or a
\* reset the threads involved were switched: no flags that satisfy a waiter, and
\* no mail, message, free place or free block beyond those that threads already
\* resumed will come for.
NoMissedWakeup == NoWaiterSatisfied /\ MailWakeups /\ MessageWakeups /\ BlockWakeups
=============================================================================
