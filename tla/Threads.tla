------------------------------ MODULE Threads ------------------------------
(***************************************************************************)
(* The machine the kernel's clients run on: one processor, preemptive      *)
(* threads, interrupts.  The IPC specifications extend this module and add *)
(* the state and the calls of their object.                                *)
(*                                                                         *)
(* A thread executes only while it is rt_current_thread.  pc[t] is where   *)
(* it stands between two stretches of code that no interrupt can split:    *)
(*   "run"      outside the kernel, free to make a call;                   *)
(*   "block"    suspended itself, interrupts on again, rt_schedule is next *)
(*   "woken"    returned from that rt_schedule, the error check is next;   *)
(*   "resched"  made a thread ready, rt_schedule is the call's last act.   *)
(* Modules that extend this one add points of their own.  An interrupt     *)
(* service routine runs to its end between two such points; rt_schedule    *)
(* called from it moves rt_current_thread at once and the context switch   *)
(* follows when the routine returns, so a routine is one step.  A tick     *)
(* expires any number of timers and at most one time slice: each is a step *)
(* of its own here, which allows more orders than the code has.            *)
(***************************************************************************)
EXTENDS RtKernel

CONSTANT Main        \* the thread main() runs in (components.c)

ASSUME MainAssumption == Main \in Thread \ {Idle}

VARIABLES k,         \* the kernel core (see RtKernel)
          pc         \* where each thread stands

kvars == <<k, pc>>

\* rt_system_scheduler_start: idle and main are ready, main is chosen; the
\* other threads are created and not yet started.
BootState ==
    LET started == {Idle, Main}
        p(t)    == init_priority[t]
    IN  [ stat        |-> [t \in Thread |-> IF t \in started THEN "READY" ELSE "INIT"],
          prio        |-> init_priority,
          number      |-> [t \in Thread |-> IF t \in started THEN NumberOf(p(t)) ELSE 0],
          number_mask |-> [t \in Thread |-> IF t \in started THEN {NumberOf(p(t))} ELSE {}],
          high_mask   |-> [t \in Thread |-> IF t \in started THEN {HighOf(p(t))} ELSE {}],
          error       |-> [t \in Thread |-> "EOK"],
          ready       |-> [r \in Prio |-> IF r = p(Main) THEN <<Main>>
                                          ELSE IF r = p(Idle) THEN <<Idle>> ELSE << >>],
          table       |-> [n \in Number |-> {HighOf(p(t)) : t \in {u \in started : NumberOf(p(u)) = n}}],
          group       |-> {NumberOf(p(t)) : t \in started},
          wait        |-> [q \in Queue |-> << >>],
          timer       |-> {},
          cur         |-> Main,
          lock        |-> 0 ]

ThreadsInit ==
    /\ k = BootState
    /\ pc = [t \in Thread |-> "run"]

\* t is executing and stands at point c.
At(t, c) == k.cur = t /\ pc[t] = c

Goto(t, c) == pc' = [pc EXCEPT ![t] = c]

\* Calls are made by threads outside the kernel; the idle thread makes none.
Calls(t) == t # Idle /\ At(t, "run")

\* rt_thread_startup: t starts u, then reschedules.  It fills in u's fields
\* with interrupts enabled; nobody else touches a thread in state INIT.
Startup(t, u) ==
    /\ Calls(t)
    /\ k.stat[u] = "INIT"
    /\ k' = StartThread(k, u)
    /\ Goto(t, "resched")

\* The rt_schedule a call ends with, or blocks in.  It returns at once when
\* the thread is still the one to run, otherwise when it is switched to again.
Reschedule(t) ==
    /\ At(t, "resched") \/ At(t, "block")
    /\ k' = rt_schedule(k)
    /\ Goto(t, IF pc[t] = "block" THEN "woken" ELSE "run")

\* Tick interrupt, expired thread timer (rt_tick_increase, rt_timer_check).
Timeout(t) ==
    /\ t \in k.timer
    /\ k' = rt_thread_timeout(k, t)
    /\ UNCHANGED pc

\* Tick interrupt, the time slice of the current thread is used up: the yield
\* flag is set and rt_schedule called (rt_tick_increase).
SliceExpired ==
    /\ k' = rt_schedule(k)
    /\ UNCHANGED pc
=============================================================================
