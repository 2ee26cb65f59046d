------------------------------ MODULE RtKernel ------------------------------
(***************************************************************************)
(* The scheduler core every part of the kernel calls into: thread control  *)
(* blocks, the priority table with its two-level bitmap, the suspend lists *)
(* of IPC objects and the thread timers (kernel/src/scheduler.c, thread.c  *)
(* and the list helpers of ipc.c, uniprocessor build, more than 32         *)
(* priorities).                                                            *)
(*                                                                         *)
(* The module has no variables.  The state of the core is a record k, and  *)
(* each C function that runs with interrupts disabled is an operator from  *)
(* records to records.  The specifications keep k in a variable and        *)
(* compose these operators in their actions: one action per stretch of     *)
(* code between two points where an interrupt can be taken.                *)
(*                                                                         *)
(* A bit mask is the set of the positions of its bits.  A thread is linked *)
(* through its single node tlist, so it is in at most one list; the lists  *)
(* are sequences, head first.  The flag RT_THREAD_STAT_YIELD is not kept:  *)
(* only the SMP scheduler reads it.  Timers are exact in module Timer; here *)
(* an armed thread timer is a member of a set and may fire at any time.    *)
(***************************************************************************)
EXTENDS Integers, Sequences, SequencesExt

CONSTANTS
    Thread,                   \* thread objects, the idle thread included
    Idle,                     \* the idle thread (idle.c)
    Queue,                    \* suspend lists of IPC objects, or other lists
                              \* threads are linked into by their node tlist
    RT_THREAD_PRIORITY_MAX,   \* priorities are 0 .. RT_THREAD_PRIORITY_MAX-1
    init_priority             \* priority each thread is created with

Prio == 0 .. RT_THREAD_PRIORITY_MAX - 1

ASSUME PrioAssumption == RT_THREAD_PRIORITY_MAX \in Nat \ {0}

\* The idle thread alone has the lowest priority (rt_thread_idle_init).
ASSUME ThreadAssumption ==
    /\ Idle \in Thread
    /\ init_priority \in [Thread -> Prio]
    /\ \A t \in Thread : init_priority[t] = RT_THREAD_PRIORITY_MAX - 1 <=> t = Idle

\* Thread states.  RUNNING is only ever set by the SMP scheduler: on one
\* processor the running thread is READY and stays in its ready list.
Stat == {"INIT", "READY", "SUSPEND", "CLOSE"}

\* thread->error
Error == {"EOK", "ETIMEOUT", "ERROR"}

\* thread->number, number_mask and high_mask of a priority.
NumberOf(p) == p \div 8
HighOf(p)   == p % 8

Number == {NumberOf(p) : p \in Prio}

KernelState ==
    [ stat        : [Thread -> Stat],
      prio        : [Thread -> Prio],          \* current_priority
      number      : [Thread -> Number],
      number_mask : [Thread -> SUBSET Number],
      high_mask   : [Thread -> SUBSET (0 .. 7)],
      error       : [Thread -> Error],
      ready       : [Prio -> Seq(Thread)],     \* rt_thread_priority_table
      table       : [Number -> SUBSET (0 .. 7)], \* rt_thread_ready_table
      group       : SUBSET Number,             \* rt_thread_ready_priority_group
      wait        : [Queue -> Seq(Thread)],    \* suspend_thread of IPC objects
      timer       : SUBSET Thread,             \* active thread timers
      cur         : Thread,                    \* rt_current_thread
      lock        : Nat ]                      \* rt_scheduler_lock_nest

-----------------------------------------------------------------------------
(* Doubly linked lists (rtservice.h).                                      *)

\* rt_list_remove(&thread->tlist): out of whichever list holds it.
rt_list_remove(k, t) ==
    [k EXCEPT !.ready = [p \in Prio  |-> RemoveFirst(k.ready[p], t)],
              !.wait  = [q \in Queue |-> RemoveFirst(k.wait[q], t)]]

-----------------------------------------------------------------------------
(* scheduler.c                                                             *)

\* Slip: the bit of the priority group is not set.
InsertThreadNoGroup(k, t) ==
    [k EXCEPT !.stat[t] = "READY",
              !.ready[k.prio[t]] = Append(@, t),
              !.table[k.number[t]] = @ \cup k.high_mask[t]]

rt_schedule_insert_thread(k, t) ==
    [k EXCEPT !.stat[t] = "READY",
              !.ready[k.prio[t]] = Append(@, t),
              !.table[k.number[t]] = @ \cup k.high_mask[t],
              !.group = @ \cup k.number_mask[t]]

\* Clears the bit of the thread's priority when its ready list is empty,
\* then the bit of the group when the group's byte is.
ClearReadyBit(k, t) ==
    LET table == [k.table EXCEPT ![k.number[t]] = @ \ k.high_mask[t]]
    IN  [k EXCEPT !.table = table,
                  !.group = IF table[k.number[t]] = {}
                              THEN @ \ k.number_mask[t] ELSE @]

rt_schedule_remove_thread(k, t) ==
    LET k1 == rt_list_remove(k, t)
    IN  IF k1.ready[k.prio[t]] = << >> THEN ClearReadyBit(k1, t) ELSE k1

\* __rt_ffs(mask) - 1: the position of the lowest set bit.
LowestBit(mask) == CHOOSE b \in mask : \A c \in mask : b <= c

HighestReady(k) ==
    LET number == LowestBit(k.group)
    IN  number * 8 + LowestBit(k.table[number])

rt_schedule(k) ==
    IF k.lock = 0 THEN [k EXCEPT !.cur = Head(k.ready[HighestReady(k)])]
                  ELSE k

\* Slip: the nesting count is not kept from going below zero.
ExitCriticalNoFloor(k) ==
    IF k.lock - 1 <= 0 THEN rt_schedule([k EXCEPT !.lock = @ - 1])
                       ELSE [k EXCEPT !.lock = @ - 1]

rt_enter_critical(k) == [k EXCEPT !.lock = @ + 1]

\* Called with interrupts disabled: the last unlock reschedules at once.
rt_exit_critical(k) ==
    IF k.lock - 1 <= 0 THEN rt_schedule([k EXCEPT !.lock = 0])
                       ELSE [k EXCEPT !.lock = @ - 1]

-----------------------------------------------------------------------------
(* thread.c                                                                *)

\* "calculate priority attribute" of startup and of change-priority.
SetPriority(k, t, p) ==
    [k EXCEPT !.prio[t] = p,
              !.number[t] = NumberOf(p),
              !.number_mask[t] = {NumberOf(p)},
              !.high_mask[t] = {HighOf(p)}]

\* What rt_thread_suspend and rt_thread_resume do once they have tested the
\* state of the thread and disabled interrupts.
SuspendNow(k, t) ==
    [rt_schedule_remove_thread(k, t) EXCEPT !.stat[t] = "SUSPEND",
                                            !.timer = @ \ {t}]

\* Slip: the thread timer is left running.
ResumeNowTimerLeft(k, t) == rt_schedule_insert_thread(rt_list_remove(k, t), t)

ResumeNow(k, t) ==
    rt_schedule_insert_thread([rt_list_remove(k, t) EXCEPT !.timer = @ \ {t}], t)

\* The calls return -RT_ERROR and change nothing when the thread is not in
\* the state they expect.
rt_thread_suspend(k, t) ==
    IF k.stat[t] # "READY" THEN k ELSE SuspendNow(k, t)

rt_thread_resume(k, t) ==
    IF k.stat[t] # "SUSPEND" THEN k ELSE ResumeNow(k, t)

\* rt_timer_control(SET_TIME) and rt_timer_start on the thread's own timer.
StartThreadTimer(k, t) == [k EXCEPT !.timer = @ \cup {t}]

\* Slip: a ready thread stays in the ready list of its old priority.
ChangePriorityInPlace(k, t, p) == SetPriority(k, t, p)

\* Slip: the state is not tested, the thread is queued whatever it is.
ChangePriorityQueued(k, t, p) ==
    rt_schedule_insert_thread(SetPriority(rt_schedule_remove_thread(k, t), t, p), t)

\* rt_thread_control(RT_THREAD_CTRL_CHANGE_PRIORITY): no rescheduling.
ChangePriority(k, t, p) ==
    IF k.stat[t] = "READY"
      THEN rt_schedule_insert_thread(
              SetPriority(rt_schedule_remove_thread(k, t), t, p), t)
      ELSE SetPriority(k, t, p)

\* rt_thread_startup up to its call of rt_schedule.
StartThread(k, t) ==
    rt_thread_resume(
        [SetPriority(k, t, init_priority[t]) EXCEPT !.stat[t] = "SUSPEND"], t)

\* Slip: the thread is taken off the suspend list and not made ready.
TimeoutNoInsert(k, t) ==
    rt_schedule(rt_list_remove([k EXCEPT !.timer = @ \ {t},
                                         !.error[t] = "ETIMEOUT"], t))

\* rt_timer_check takes the expired timer off its list and calls
\* rt_thread_timeout, which ends in rt_schedule.
rt_thread_timeout(k, t) ==
    rt_schedule(rt_schedule_insert_thread(
        rt_list_remove([k EXCEPT !.timer = @ \ {t}, !.error[t] = "ETIMEOUT"], t), t))

-----------------------------------------------------------------------------
(* Suspend lists of IPC objects (ipc.c).                                   *)

\* Slip: the comparison of the priorities is inverted.
PrioPositionInverted(k, q, t) ==
    LET ahead == {i \in 1 .. Len(k.wait[q]) : k.prio[t] > k.prio[k.wait[q][i]]}
    IN  IF ahead = {} THEN Len(k.wait[q]) + 1
        ELSE CHOOSE i \in ahead : \A j \in ahead : i <= j

\* RT_IPC_FLAG_PRIO: before the first waiter of lower urgency.
PrioPosition(k, q, t) ==
    LET behind == {i \in 1 .. Len(k.wait[q]) : k.prio[t] < k.prio[k.wait[q][i]]}
    IN  IF behind = {} THEN Len(k.wait[q]) + 1
        ELSE CHOOSE i \in behind : \A j \in behind : i <= j

\* Slip: "not found a suitable position" does not append.
ListSuspendNoAppend(k, q, t, flag) ==
    LET s == rt_thread_suspend(k, t)
    IN  IF flag = "PRIO" /\ PrioPosition(s, q, t) > Len(s.wait[q]) THEN s
        ELSE [s EXCEPT !.wait[q] = Append(@, t)]

rt_ipc_list_suspend(k, q, t, flag) ==
    LET s == rt_thread_suspend(k, t)
    IN  [s EXCEPT !.wait[q] =
            IF flag = "FIFO" THEN Append(@, t)
                             ELSE InsertAt(@, PrioPosition(s, q, t), t)]

\* Callers check that the list is not empty.
rt_ipc_list_resume(k, q) == rt_thread_resume(k, Head(k.wait[q]))

\* One round of the loop of rt_ipc_list_resume_all, on a list not empty.
ResumeWithError(k, q) ==
    rt_thread_resume([k EXCEPT !.error[Head(k.wait[q])] = "ERROR"],
                     Head(k.wait[q]))

-----------------------------------------------------------------------------
(* What the scheduler relies on, as named parts.                           *)

\* Every list holds a thread at most once.
NoDuplicates(k) ==
    /\ \A p \in Prio : IsInjective(k.ready[p])
    /\ \A q \in Queue : IsInjective(k.wait[q])

\* The READY threads are exactly those in the ready list of their priority.
ReadyIffListed(k) ==
    \A t \in Thread, p \in Prio :
        t \in ToSet(k.ready[p]) <=> k.stat[t] = "READY" /\ k.prio[t] = p

\* A waiter is suspended and waits on one object; only a suspended thread
\* has its timer running, which is what rt_thread_timeout asserts.
WaitersSuspended(k) ==
    /\ \A q \in Queue : \A t \in ToSet(k.wait[q]) :
          /\ k.stat[t] = "SUSPEND"
          /\ \A r \in Queue : t \in ToSet(k.wait[r]) => r = q
    /\ \A t \in k.timer : k.stat[t] = "SUSPEND"

\* The two-level bitmap says which ready lists are not empty.
BitmapExact(k) ==
    /\ \A p \in Prio : HighOf(p) \in k.table[NumberOf(p)] <=> k.ready[p] # << >>
    /\ \A n \in Number : \A b \in k.table[n] : n * 8 + b \in Prio
    /\ \A n \in Number : n \in k.group <=> k.table[n] # {}

\* The cached masks of a living thread are those of its current priority.
MasksCurrent(k) ==
    \A t \in Thread : k.stat[t] \in {"READY", "SUSPEND"} =>
        /\ k.number[t] = NumberOf(k.prio[t])
        /\ k.number_mask[t] = {NumberOf(k.prio[t])}
        /\ k.high_mask[t] = {HighOf(k.prio[t])}

\* The idle thread is always ready, so the bitmap is never empty.
IdleReady(k) == k.stat[Idle] = "READY"

KernelInv(k) ==
    /\ IdleReady(k)
    /\ NoDuplicates(k)
    /\ ReadyIffListed(k)
    /\ WaitersSuspended(k)
    /\ BitmapExact(k)
    /\ MasksCurrent(k)

\* No ready thread is more urgent than the current one.
CurIsHighest(k) ==
    /\ k.stat[k.cur] = "READY"
    /\ \A u \in Thread : k.stat[u] = "READY" => k.prio[k.cur] <= k.prio[u]
=============================================================================
