------------------------------- MODULE Timer -------------------------------
(***************************************************************************)
(* The timers of kernel/src/timer.c: hard timers, whose functions the tick *)
(* interrupt calls, and soft timers, whose functions the timer thread      *)
(* calls.  Ticks are counted modulo RT_TICK_MAX + 1 and compared over half *)
(* of that range; each list is sorted by timeout tick (one level, the skip *)
(* list's default).                                                        *)
(*                                                                         *)
(* As in RtKernel, the lists and what they link are one record w, and code *)
(* that runs with interrupts disabled is an operator on it.  Threads call  *)
(* in steps: Client stands for every thread that uses timers, TimerThread  *)
(* for the functions of soft timers.  Functions of hard timers run in the  *)
(* interrupt, in which a call is one step.  What the scheduler adds is     *)
(* whether the timer thread is ready: Client may be of any priority, so    *)
(* the two interleave freely.                                              *)
(*                                                                         *)
(* Two calls on the same timer never overlap (the code has no protection   *)
(* against that) and the time of a timer is not zero.                      *)
(***************************************************************************)
EXTENDS Integers, Sequences, SequencesExt, FiniteSets

CONSTANTS
    Hard, Soft,      \* timers, by RT_TIMER_FLAG_SOFT_TIMER
    Delay,           \* the thread timer of the timer thread, a hard timer
    RT_TICK_MAX,
    Settings,        \* times and modes clients give each timer
    Created,         \* sets of timers that may exist
    MaxLag           \* bound of the model: ticks by which a timer is overdue,
                     \* or a tick that was read is old, before time stops

Timer == Hard \cup Soft
Half  == RT_TICK_MAX \div 2
Tick  == 0 .. RT_TICK_MAX

NoTimer == "no timer"      \* also the list head, for the iterator of a list

ASSUME TimerAssumption ==
    /\ RT_TICK_MAX \in Nat
    /\ Delay \in Hard /\ Hard \cap Soft = {} /\ NoTimer \notin Timer
    /\ MaxLag \in Nat
    /\ Created \subseteq SUBSET (Timer \ {Delay})
    /\ \A t \in Timer : /\ Settings[t] # {}
                       /\ Settings[t] \subseteq [time : 1 .. Half - MaxLag - 1, periodic : BOOLEAN]

VARIABLES tick,        \* rt_tick
          w,           \* the lists and the timers in them
          set,         \* init_tick and RT_TIMER_FLAG_PERIODIC
          isr,         \* the tick interrupt: [pc, t], t the timer served
          call,        \* the call a thread is in: [pc, t]
          tt,          \* the timer thread
          exist,       \* timers initialised at the start
          stopped      \* history: timers stopped or detached since their last
                       \* start

tvars == <<tick, w, set, isr, call, tt, exist, stopped>>

Client      == "client"
TimerThread == "timer"
Caller      == {Client, TimerThread}

Plus(m, n)  == (m + n) % (RT_TICK_MAX + 1)
Minus(m, n) == (m - n) % (RT_TICK_MAX + 1)

Idling  == [pc |-> "none", t |-> NoTimer]
AtStart == [pc |-> "next", stat |-> "READY", ticks |-> 0, n |-> NoTimer, t |-> NoTimer]

Init ==
    /\ tick = 0
    /\ w = [list         |-> [l \in {"hard", "soft"} |-> << >>],
            timeout_tick |-> [t \in Timer |-> 0],
            activated    |-> [t \in Timer |-> FALSE],
            due          |-> [t \in Timer |-> 0]]
    /\ exist \in Created
    /\ set = [t \in Timer |-> CHOOSE o \in Settings[t] : TRUE]
    /\ isr = Idling
    /\ call = [c \in Caller |-> Idling]
    /\ tt = AtStart
    /\ stopped = {}

-----------------------------------------------------------------------------
(* The lists.  due, a history variable, counts the ticks a timer in a list *)
(* has left in an integer that does not wrap.                              *)

ListOf(t) == IF t \in Soft THEN "soft" ELSE "hard"

Listed(x, t) == t \in ToSet(x.list[ListOf(t)])

\* _rt_timer_remove.  The node of a timer in no list is linked to itself.  The
\* timeout tick is dead then, except for an iterator that stands on the timer.
_rt_timer_remove(x, t) ==
    [x EXCEPT !.list[ListOf(t)] = RemoveFirst(@, t),
              !.due[t] = 0,
              !.timeout_tick[t] = IF tt.n = t THEN @ ELSE 0]

\* n->next of the soft timer list.
NextNode(x, n) ==
    LET s == x.list["soft"]
    IN  IF ~Listed(x, n) THEN n
        ELSE IF n = Last(s) THEN NoTimer
        ELSE s[SelectInSeq(s, LAMBDA m : m = n) + 1]

\* Slip: the plain comparison of two ticks.
PositionNoWrap(x, t) ==
    LET s == x.list[ListOf(t)]
        later == {i \in 1 .. Len(s) : x.timeout_tick[s[i]] > x.timeout_tick[t]}
    IN  IF later = {} THEN Len(s) + 1 ELSE CHOOSE i \in later : \A j \in later : i <= j

\* Before the first timer that is later by less than half the range.
Position(x, t) ==
    LET s == x.list[ListOf(t)]
        later == {i \in 1 .. Len(s) :
                     Minus(x.timeout_tick[s[i]], x.timeout_tick[t]) \in 1 .. Half - 1}
    IN  IF later = {} THEN Len(s) + 1 ELSE CHOOSE i \in later : \A j \in later : i <= j

\* The three parts of rt_timer_start.
Unlink(x, t)     == [_rt_timer_remove(x, t) EXCEPT !.activated[t] = FALSE]
SetTimeout(x, t) == [x EXCEPT !.timeout_tick[t] = Plus(tick, set[t].time),
                              !.due[t] = set[t].time]
Insert(x, t)     == [x EXCEPT !.list[ListOf(t)] = InsertAt(@, Position(x, t), t),
                              !.activated[t] = TRUE]

\* All of it, with interrupts disabled.
StartNow(x, t) == Insert(SetTimeout(Unlink(x, t), t), t)

\* rt_timer_stop with interrupts disabled.
StopNow(x, t) == IF x.activated[t] THEN Unlink(x, t) ELSE x

\* Slip: exactly on time is not expired.
ExpiredAfter(x, now, t) == Minus(now, x.timeout_tick[t]) \in 1 .. Half - 1

\* Slip: the operands are swapped.
ExpiredSwapped(x, now, t) == Minus(x.timeout_tick[t], now) < Half

Expired(x, now, t) == Minus(now, x.timeout_tick[t]) < Half

\* After a timer's function has returned.
Restart(x, t) ==
    IF set[t].periodic /\ x.activated[t] THEN StartNow(x, t)
                                     ELSE [x EXCEPT !.activated[t] = FALSE]

-----------------------------------------------------------------------------
(* The timer thread sleeps and is resumed.                                 *)

\* rt_thread_resume(&timer_thread) unless it is ready.
ResumeTimerThread(x) ==
    IF tt.stat = "READY" THEN w' = x /\ UNCHANGED tt
    ELSE w' = StopNow(x, Delay) /\ tt' = [tt EXCEPT !.stat = "READY"]

\* What rt_timer_start does at its end.
WakeFor(x, t) ==
    IF t \in Soft THEN ResumeTimerThread(x) ELSE w' = x /\ UNCHANGED tt

-----------------------------------------------------------------------------
(* rt_tick_increase and rt_timer_check, in the tick interrupt.  Its time   *)
(* slice part is in module Threads.                                        *)

Counting == {t \in Timer : Listed(w, t)} \cup
            {call[c].t : c \in {d \in Caller : call[d].pc = "insert"}}

rt_tick_increase ==
    /\ isr = Idling
    /\ \A t \in Counting : w.due[t] > -MaxLag
    /\ tt.pc \in {"scan", "restart"} => Minus(tick, tt.ticks) < MaxLag
    /\ tt.pc = "decide" => Minus(tick, tt.ticks) # MaxLag
    /\ tick' = Plus(tick, 1)
    /\ w' = [w EXCEPT !.due = [t \in Timer |-> IF t \in Counting THEN @[t] - 1 ELSE @[t]]]
    /\ isr' = [isr EXCEPT !.pc = "check"]
    /\ UNCHANGED <<set, exist, call, tt, stopped>>

\* One test of the loop of rt_timer_check.
rt_timer_check ==
    LET s == w.list["hard"]
    IN  /\ isr.pc = "check"
        /\ IF s # << >> /\ Expired(w, tick, Head(s))
             THEN w' = _rt_timer_remove(w, Head(s)) /\ isr' = [pc |-> "call", t |-> Head(s)]
             ELSE isr' = Idling /\ UNCHANGED w
        /\ UNCHANGED <<tick, set, exist, call, tt, stopped>>

\* Slip: the thread is not made ready.
ThreadTimeoutLost ==
    /\ isr.pc = "call" /\ isr.t = Delay
    /\ w' = Restart(w, Delay)
    /\ isr' = [pc |-> "check", t |-> NoTimer]
    /\ UNCHANGED <<tick, set, exist, call, tt, stopped>>

\* rt_thread_timeout makes the timer thread ready.
ThreadTimeout ==
    /\ isr.pc = "call" /\ isr.t = Delay
    /\ tt' = [tt EXCEPT !.stat = "READY"]
    /\ w' = Restart(w, Delay)
    /\ isr' = [pc |-> "check", t |-> NoTimer]
    /\ UNCHANGED <<tick, set, exist, call, stopped>>

\* A user's function may start and stop timers, its own too, on which no
\* thread is in a call ...
Quiet(t) == t \in exist /\ \A c \in Caller : call[c].t # t

InFunction == isr.pc = "call" /\ isr.t # Delay

FunctionStarts(t) ==
    /\ InFunction /\ Quiet(t)
    /\ WakeFor(StartNow(w, t), t)
    /\ stopped' = stopped \ {t}
    /\ UNCHANGED <<tick, set, exist, isr, call>>

FunctionStops(t) ==
    /\ InFunction /\ Quiet(t) /\ w.activated[t]
    /\ w' = StopNow(w, t)
    /\ stopped' = stopped \cup {t}
    /\ UNCHANGED <<tick, set, exist, isr, call, tt>>

\* Slip: a periodic timer its function has stopped is started again.
FunctionReturnsAlways ==
    /\ InFunction
    /\ w' = IF set[isr.t].periodic THEN StartNow(w, isr.t)
                               ELSE [w EXCEPT !.activated[isr.t] = FALSE]
    /\ isr' = [pc |-> "check", t |-> NoTimer]
    /\ UNCHANGED <<tick, set, exist, call, tt, stopped>>

\* ... and returns.
FunctionReturns ==
    /\ InFunction
    /\ w' = Restart(w, isr.t)
    /\ isr' = [pc |-> "check", t |-> NoTimer]
    /\ UNCHANGED <<tick, set, exist, call, tt, stopped>>

-----------------------------------------------------------------------------
(* Calls of threads.  The functions of soft timers run in the timer thread *)
(* with interrupts enabled.                                                *)

Runs(c) ==
    /\ isr = Idling
    /\ c = TimerThread => tt.pc = "call" /\ tt.stat = "READY"

Begins(c, t) == Runs(c) /\ call[c] = Idling /\ Quiet(t)

InCall(c, p) == Runs(c) /\ call[c].pc = p

Step(c, p) == call' = [call EXCEPT ![c].pc = p]
Return(c)  == call' = [call EXCEPT ![c] = Idling]

\* rt_timer_start takes the timer out of its list ...
rt_timer_start(c, t) ==
    /\ Begins(c, t)
    /\ w' = Unlink(w, t)
    /\ stopped' = stopped \ {t}
    /\ call' = [call EXCEPT ![c] = [pc |-> "timeout", t |-> t]]
    /\ UNCHANGED <<tick, set, exist, isr, tt>>

\* ... computes the timeout tick with interrupts enabled ...
StartTimeout(c) ==
    /\ InCall(c, "timeout")
    /\ w' = SetTimeout(w, call[c].t)
    /\ Step(c, "insert")
    /\ UNCHANGED <<tick, set, exist, isr, tt, stopped>>

\* ... inserts the timer ...
StartInsert(c) ==
    /\ InCall(c, "insert")
    /\ w' = Insert(w, call[c].t)
    /\ Step(c, "wake")
    /\ UNCHANGED <<tick, set, exist, isr, tt, stopped>>

\* ... and resumes the timer thread for a soft one.
StartWake(c) ==
    /\ InCall(c, "wake")
    /\ WakeFor(w, call[c].t)
    /\ Return(c)
    /\ UNCHANGED <<tick, set, exist, isr, stopped>>

\* rt_timer_stop tests the flag, takes the timer out of its list with
\* interrupts disabled and clears the flag with interrupts enabled.
rt_timer_stop(c, t) ==
    /\ Begins(c, t) /\ w.activated[t]
    /\ call' = [call EXCEPT ![c] = [pc |-> "remove", t |-> t]]
    /\ UNCHANGED <<tick, w, set, exist, isr, tt, stopped>>

StopRemove(c) ==
    /\ InCall(c, "remove")
    /\ w' = _rt_timer_remove(w, call[c].t)
    /\ Step(c, "clear")
    /\ UNCHANGED <<tick, set, exist, isr, tt, stopped>>

StopClear(c) ==
    /\ InCall(c, "clear")
    /\ w' = [w EXCEPT !.activated[call[c].t] = FALSE]
    /\ stopped' = stopped \cup {call[c].t}
    /\ Return(c)
    /\ UNCHANGED <<tick, set, exist, isr, tt>>

\* rt_timer_detach; the timer may be initialised and started again.
rt_timer_detach(c, t) ==
    /\ Begins(c, t)
    /\ w' = Unlink(w, t)
    /\ stopped' = stopped \cup {t}
    /\ UNCHANGED <<tick, set, exist, isr, call, tt>>

\* rt_timer_control: SET_TIME and SET_ONESHOT or SET_PERIODIC.
rt_timer_control(c, t, o) ==
    /\ Begins(c, t)
    /\ set' = [set EXCEPT ![t] = o]
    /\ UNCHANGED <<tick, w, exist, isr, call, tt, stopped>>

-----------------------------------------------------------------------------
(* rt_thread_timer_entry and rt_soft_timer_check.                          *)

TimerThreadAt(p) == isr = Idling /\ tt.stat = "READY" /\ tt.pc = p

\* rt_timer_list_next_timeout.
NextTimeout ==
    LET s == w.list["soft"]
    IN  /\ TimerThreadAt("next")
        /\ tt' = [tt EXCEPT !.pc = "decide",
                            !.ticks = IF s = << >> THEN RT_TICK_MAX
                                      ELSE w.timeout_tick[Head(s)]]
        /\ UNCHANGED <<tick, w, set, exist, isr, call, stopped>>

\* No timer: the thread suspends itself; the call stops its own timer.
SuspendSelf ==
    /\ TimerThreadAt("decide") /\ tt.ticks = RT_TICK_MAX
    /\ tt' = [tt EXCEPT !.pc = "read", !.ticks = 0, !.stat = "SUSPEND"]
    /\ w' = StopNow(w, Delay)
    /\ UNCHANGED <<tick, set, exist, isr, call, stopped>>

\* A timer: the time to wait, if it is still to come.
TimeToWait ==
    /\ TimerThreadAt("decide") /\ tt.ticks # RT_TICK_MAX
    /\ LET delta == Minus(tt.ticks, tick)
       IN  tt' = IF delta < Half THEN [tt EXCEPT !.pc = "delay", !.ticks = delta]
                                 ELSE [tt EXCEPT !.pc = "read", !.ticks = 0]
    /\ UNCHANGED <<tick, w, set, exist, isr, call, stopped>>

\* rt_thread_delay: suspend and start the thread timer.
rt_thread_delay ==
    /\ TimerThreadAt("delay")
    /\ tt' = [tt EXCEPT !.pc = "read", !.ticks = 0, !.stat = "SUSPEND"]
    /\ w' = LET x == [StopNow(w, Delay) EXCEPT !.timeout_tick[Delay] = Plus(tick, tt.ticks),
                                               !.due[Delay] = tt.ticks]
            IN  Insert(x, Delay)
    /\ UNCHANGED <<tick, set, exist, isr, call, stopped>>

\* current_tick = rt_tick_get(), with interrupts enabled.
ReadTick ==
    /\ TimerThreadAt("read")
    /\ tt' = [tt EXCEPT !.pc = "scan", !.ticks = tick]
    /\ UNCHANGED <<tick, w, set, exist, isr, call, stopped>>

\* One round of the loop of rt_soft_timer_check, on the node n: the timer is
\* taken out of the list and its function called, or the loop ends.
Serve(x, n) ==
    IF n # NoTimer /\ Expired(x, tt.ticks, n)
      THEN /\ tt' = [tt EXCEPT !.pc = "call", !.ticks = 0, !.t = n, !.n = NextNode(x, n)]
           /\ w' = IF Listed(x, n)
                     THEN [x EXCEPT !.list["soft"] = RemoveFirst(@, n),
                                    !.due[n] = 0, !.timeout_tick[n] = 0]
                     ELSE x
      ELSE /\ tt' = AtStart
           /\ w' = IF n # NoTimer /\ ~Listed(x, n)
                        /\ call[Client] # [pc |-> "insert", t |-> n]
                     THEN [x EXCEPT !.timeout_tick[n] = 0] ELSE x

FirstNode == IF w.list["soft"] = << >> THEN NoTimer ELSE Head(w.list["soft"])

rt_soft_timer_check ==
    /\ TimerThreadAt("scan")
    /\ Serve(w, FirstNode)
    /\ UNCHANGED <<tick, set, exist, isr, call, stopped>>

\* The function has returned; current_tick is read again.
SoftReturns ==
    /\ TimerThreadAt("call") /\ call[TimerThread] = Idling
    /\ tt' = [tt EXCEPT !.pc = "restart", !.ticks = tick]
    /\ UNCHANGED <<tick, w, set, exist, isr, call, stopped>>

SoftRestart ==
    /\ TimerThreadAt("restart")
    /\ Serve(Restart(w, tt.t), tt.n)
    /\ UNCHANGED <<tick, set, exist, isr, call, stopped>>

-----------------------------------------------------------------------------
Interrupt ==
    \/ rt_timer_check
    \/ ThreadTimeout
    \/ \E t \in Timer : FunctionStarts(t) \/ FunctionStops(t)
    \/ FunctionReturns

CallStep(c) ==
    \/ StartTimeout(c) \/ StartInsert(c) \/ StartWake(c)
    \/ StopRemove(c) \/ StopClear(c)

Calls(c) ==
    \E t \in Timer :
        \/ rt_timer_start(c, t)
        \/ rt_timer_stop(c, t)
        \/ rt_timer_detach(c, t)
        \/ \E o \in Settings[t] : rt_timer_control(c, t, o)

TimerThreadStep ==
    \/ NextTimeout \/ SuspendSelf \/ TimeToWait \/ rt_thread_delay
    \/ ReadTick \/ rt_soft_timer_check \/ SoftReturns \/ SoftRestart

Next ==
    \/ rt_tick_increase
    \/ Interrupt
    \/ \E c \in Caller : Calls(c) \/ CallStep(c)
    \/ TimerThreadStep

\* Ticks go on, and an interrupt handler runs to its end: a function it calls
\* returns.
Fairness ==
    /\ WF_tvars(rt_tick_increase)
    /\ WF_tvars(rt_timer_check \/ ThreadTimeout \/ FunctionReturns)

Spec == Init /\ [][Next]_tvars /\ Fairness
-----------------------------------------------------------------------------
(* Properties.                                                             *)

TypeOK ==
    /\ tick \in Tick
    /\ w \in [list         : [{"hard", "soft"} -> Seq(Timer)],
              timeout_tick : [Timer -> Tick],
              activated    : [Timer -> BOOLEAN],
              due          : [Timer -> -MaxLag .. Half]]
    /\ \A t \in Timer : set[t] \in Settings[t]
    /\ isr \in [pc : {"none", "check", "call"}, t : Timer \cup {NoTimer}]
    /\ call \in [Caller -> [pc : {"none", "timeout", "insert", "wake", "remove", "clear"},
                            t : Timer \cup {NoTimer}]]
    /\ tt \in [pc : {"next", "decide", "delay", "read", "scan", "call", "restart"},
               stat : {"READY", "SUSPEND"}, ticks : Tick,
               n : Soft \cup {NoTimer}, t : Soft \cup {NoTimer}]
    /\ stopped \subseteq Timer

\* Each list holds a timer once and stays sorted by the time that is really
\* left, although the ticks it is sorted by wrap around.
ListsSorted ==
    \A l \in {"hard", "soft"} :
        LET s == w.list[l]
        IN  /\ IsInjective(s)
            /\ \A i, j \in 1 .. Len(s) : i < j => w.due[s[i]] <= w.due[s[j]]

\* A timer's function is being called in this step.
CallsFunction(t) ==
    \/ isr.pc = "check" /\ isr'.pc = "call" /\ isr'.t = t
    \/ tt.pc \in {"scan", "restart"} /\ tt'.pc = "call" /\ tt'.t = t

\* No function is called before the timer's time has passed.
NeverEarly == [][\A t \in Timer : CallsFunction(t) /\ Listed(w, t) => w.due[t] <= 0]_tvars

\* A tick leaves no hard timer behind whose time has come: rt_timer_check stops
\* at the first timer that is not due.
TickServesAllDue ==
    [][isr # Idling /\ isr' = Idling =>
          \A t \in Hard : Listed(w, t) => w.due[t] > 0]_tvars

\* A hard timer that was stopped or detached is not called until it is started
\* again.
HardStopHolds == [][\A t \in Hard : CallsFunction(t) => t \notin stopped]_tvars

\* A timer whose state is reported as running is in its list, or its function
\* is being called, or a call on it is about to change the flag.
RunningIsArmed ==
    \A t \in Timer : w.activated[t] =>
        \/ Listed(w, t)
        \/ isr.t = t \/ tt.t = t
        \/ \E c \in Caller : call[c].t = t

\* The timers at any moment between two steps: types, sorted lists and flags.
TimersConsistent == TypeOK /\ ListsSorted /\ RunningIsArmed

\* The timer thread wakes up from rt_thread_delay.
DelayEnds ==
    tt.stat = "SUSPEND" /\ w.activated[Delay] ~>
        tt.stat = "READY" \/ \E t \in Timer : w.due[t] = -MaxLag

\* The same as HardStopHolds for the soft timers: rt_soft_timer_check keeps an
\* iterator, and does not look at the state of the timer it calls, while other
\* threads and the function it has called stop timers.
SoftStopHolds == [][\A t \in Soft : CallsFunction(t) => t \notin stopped]_tvars
=============================================================================
