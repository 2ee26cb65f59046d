------------------------------- MODULE Event -------------------------------
(***************************************************************************)
(* An event object (kernel/src/ipc.c): a set of flags that threads wait    *)
(* for, all of them (RT_EVENT_FLAG_AND) or any (RT_EVENT_FLAG_OR), and may *)
(* consume (RT_EVENT_FLAG_CLEAR).                                          *)
(***************************************************************************)
EXTENDS IpcWait

CONSTANTS event,   \* the object, by its suspend list
          Bit      \* flags in use

Option == [all : BOOLEAN, clear : BOOLEAN]

VARIABLES set,         \* event->set
          event_set,   \* thread->event_set
          event_info,  \* thread->event_info
          owed         \* history: how often each flag was raised and has
                       \* neither been consumed by a receiver nor reset

evvars == <<set, event_set, event_info, owed>>

EventInit ==
    /\ set = {}
    /\ event_set = [t \in Thread |-> {}]
    /\ event_info = [t \in Thread |-> [all |-> FALSE, clear |-> FALSE]]
    /\ owed = [b \in Bit |-> 0]

Matches(have, want, option) ==
    IF option.all THEN want \subseteq have ELSE want \cap have # {}

\* owed once the flags in bits are consumed, and once they are raised.
Consumed(bits) == [b \in Bit |-> owed[b] - IF b \in bits THEN 1 ELSE 0]
Raised(bits)   == [b \in Bit |-> owed[b] + IF b \in bits THEN 1 ELSE 0]

-----------------------------------------------------------------------------
(* rt_event_send: the flags are raised, then the waiters are walked in     *)
(* list order; each that is satisfied is resumed and may clear flags a     *)
(* later one waits for.                                                    *)

\* Slip: the flags a satisfied waiter consumes are not cleared.
WalkKeep(w, t) ==
    IF ~Matches(w.set, event_set[t], event_info[t]) THEN w
    ELSE [w EXCEPT !.k = rt_thread_resume(@, t),
                   !.got[t] = IF event_info[t].all THEN @ ELSE @ \cap w.set,
                   !.woken = TRUE]

WalkWaiter(w, t) ==
    IF ~Matches(w.set, event_set[t], event_info[t]) THEN w
    ELSE LET got == IF event_info[t].all THEN event_set[t]
                                         ELSE event_set[t] \cap w.set
         IN  [k     |-> rt_thread_resume(w.k, t),
              set   |-> IF event_info[t].clear THEN w.set \ got ELSE w.set,
              got   |-> [w.got EXCEPT ![t] = got],
              woken |-> TRUE]

\* Where the walk begins.
WalkStart(bits) == [k |-> k, set |-> set \cup bits, got |-> event_set, woken |-> FALSE]

\* Slip: the walk stops at the first waiter it can satisfy.
SendWalkFirst(bits) ==
    LET walk[n \in 0 .. Len(k.wait[event])] ==
            IF n = 0 THEN WalkStart(bits)
            ELSE IF walk[n - 1].woken THEN walk[n - 1]
            ELSE WalkWaiter(walk[n - 1], k.wait[event][n])
    IN  walk[Len(k.wait[event])]

\* The walk after each waiter, and at its end.
SendWalk(bits) ==
    LET walk[n \in 0 .. Len(k.wait[event])] ==
            IF n = 0 THEN WalkStart(bits)
                     ELSE WalkWaiter(walk[n - 1], k.wait[event][n])
    IN  walk[Len(k.wait[event])]

Send(bits, w) ==
    /\ set' = w.set
    /\ event_set' = w.got
    /\ owed' = Raised(bits \ set)
    /\ UNCHANGED <<event_info, alive, on, fault>>

rt_event_send(t, bits) ==
    /\ CallsOn(t, event)
    /\ LET w == SendWalk(bits)
       IN  /\ k' = w.k
           /\ IF w.woken THEN Goto(t, "resched") ELSE UNCHANGED pc
           /\ Send(bits, w)

EventSendIsr(bits) ==
    /\ event \in alive
    /\ LET w == SendWalk(bits)
       IN  /\ k' = IF w.woken THEN rt_schedule(w.k) ELSE w.k
           /\ Send(bits, w)
    /\ UNCHANGED pc

-----------------------------------------------------------------------------
(* rt_event_recv.                                                          *)
RecvNow(t, want, option) ==
    /\ Matches(set, want, option)
    /\ LET used == IF option.clear THEN want \cap set ELSE {}
       IN  set' = set \ used /\ owed' = Consumed(used)
    /\ k' = [k EXCEPT !.error[t] = "EOK"]
    /\ UNCHANGED <<pc, on, event_set, event_info>>

RecvNoWait(t, want, option, time) ==
    /\ ~Matches(set, want, option) /\ time = 0
    /\ k' = [k EXCEPT !.error[t] = "ETIMEOUT"]
    /\ UNCHANGED <<pc, on, evvars>>

RecvWait(t, want, option, time) ==
    /\ ~Matches(set, want, option) /\ time # 0
    /\ event_set' = [event_set EXCEPT ![t] = want]
    /\ event_info' = [event_info EXCEPT ![t] = option]
    /\ k' = SuspendOn(k, event, t, time)
    /\ on' = [on EXCEPT ![t] = event]
    /\ Goto(t, "block")
    /\ UNCHANGED <<set, owed>>

rt_event_recv(t, want, option, time) ==
    /\ CallsOn(t, event)
    /\ \/ RecvNow(t, want, option)
       \/ RecvNoWait(t, want, option, time)
       \/ RecvWait(t, want, option, time)
    /\ UNCHANGED <<alive, fault>>

\* What a waiter that was resumed without an error has consumed.
Taken(t) == IF event_info[t].clear THEN event_set[t] ELSE {}

\* The error check that ends a wait.  event_set is dead once the call has
\* returned; the model empties it.
EventReturn(t) ==
    /\ At(t, "woken") /\ on[t] = event
    /\ owed' = Consumed(IF k.error[t] = "EOK" THEN Taken(t) ELSE {})
    /\ event_set' = [event_set EXCEPT ![t] = {}]
    /\ event_info' = [event_info EXCEPT ![t] = [all |-> FALSE, clear |-> FALSE]]
    /\ Goto(t, "run")
    /\ UNCHANGED <<k, set, alive, on, fault>>

-----------------------------------------------------------------------------
\* rt_event_control(RT_IPC_CMD_RESET), up to its rt_schedule.
EventReset(t) ==
    /\ CallsOn(t, event)
    /\ k' = ResumeAllMasked(k, event)
    /\ set' = {}
    /\ owed' = Consumed(set)
    /\ Goto(t, "resched")
    /\ UNCHANGED <<event_set, event_info, alive, on, fault>>

\* rt_event_detach, rt_event_delete.
EventDetach(t) == ResumeAll(t, event) /\ UNCHANGED evvars

-----------------------------------------------------------------------------
EventCall(t) ==
    \/ \E bits \in SUBSET Bit \ {{}} : rt_event_send(t, bits)
    \/ \E want \in SUBSET Bit \ {{}}, option \in Option, time \in Time :
          rt_event_recv(t, want, option, time)
    \/ EventReset(t)
    \/ EventDetach(t)

EventIsr == \E bits \in SUBSET Bit \ {{}} : EventSendIsr(bits)
-----------------------------------------------------------------------------
(* Properties.                                                             *)

EventTypeOK ==
    /\ set \subseteq Bit
    /\ event_set \in [Thread -> SUBSET Bit]
    /\ event_info \in [Thread -> Option]
    /\ owed \in [Bit -> Int]

\* No thread sleeps in rt_event_recv while the flags it waits for are up:
\* the walk of rt_event_send leaves none behind although earlier waiters
\* clear flags as it goes.
NoWaiterSatisfied ==
    \A t \in ToSet(k.wait[event]) : ~Matches(set, event_set[t], event_info[t])

\* A flag raised is up, or has gone to exactly one thread on its way out of
\* rt_event_recv that asked to clear it, or was reset: it is never cleared
\* for a thread that then reports an error, nor given to two.
FlagsConserved ==
    \A b \in Bit :
        owed[b] = (IF b \in set THEN 1 ELSE 0)
                  + Cardinality({t \in Resumed(event) : b \in Taken(t)})
=============================================================================
