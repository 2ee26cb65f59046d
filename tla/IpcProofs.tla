----------------------------- MODULE IpcProofs -----------------------------
(***************************************************************************)
(* What the specifications of IPC objects share in their proofs: the part  *)
(* of the inductive invariant that concerns threads and suspend lists, the *)
(* kinds of steps the kernel core can make, and which of them preserve it. *)
(***************************************************************************)
EXTENDS Ipc, KernelProofs

\* A thread is suspended only inside a blocking call, on the list of the
\* object the call is on, with its error field still RT_EOK.
Waiting ==
    \A t \in Thread :
        /\ k.stat[t] # "CLOSE"
        /\ k.stat[t] = "INIT" => pc[t] = "run"
        /\ k.stat[t] = "SUSPEND" => /\ pc[t] \in {"block", "woken"}
                                    /\ t \in ToSet(k.wait[on[t]])
                                    /\ k.error[t] = "EOK"

\* The current thread is ready unless it stands before the rt_schedule of its
\* blocking call.
CurRunnable ==
    \/ k.stat[k.cur] = "READY"
    \/ k.stat[k.cur] = "SUSPEND" /\ pc[k.cur] = "block"

IpcCore ==
    /\ KernelOK(k)
    /\ k.lock = 0
    /\ on \in [Thread -> Queue]
    /\ Waiting
    /\ CurRunnable

-----------------------------------------------------------------------------
(* The boot state.                                                         *)

\* What rt_system_scheduler_start finds is a consistent kernel.
LEMMA BootStateOK == KernelOK(BootState)
BY MainAssumption, BootOK DEF BootState

\* Nobody waits, and main runs, when the threads of the system are created.
LEMMA IpcInitCore == IpcInit => IpcCore /\ DetachLeavesNoWaiter
<1> SUFFICES ASSUME IpcInit PROVE IpcCore /\ DetachLeavesNoWaiter
  OBVIOUS
<1>1. KernelOK(k) /\ k = BootState
  BY BootStateOK DEF IpcInit, ThreadsInit
<1>2. /\ k.stat = [t \in Thread |-> IF t \in {Idle, Main} THEN "READY" ELSE "INIT"]
      /\ k.cur = Main /\ k.lock = 0
  BY <1>1 DEF BootState
<1>3. \A t \in Thread : k.stat[t] \in {"READY", "INIT"} /\ pc[t] = "run"
  BY <1>2 DEF IpcInit, ThreadsInit
<1>4. Waiting /\ CurRunnable
  BY <1>2, <1>3, MainAssumption DEF Waiting, CurRunnable
<1>5. on \in [Thread -> Queue]
  <2>1. (CHOOSE q \in Queue : TRUE) \in Queue
    BY QueueAssumption
  <2> QED BY <2>1 DEF IpcInit
<1>6. DetachLeavesNoWaiter
  BY DEF DetachLeavesNoWaiter, IpcInit
<1> QED BY <1>1, <1>2, <1>4, <1>5, <1>6 DEF IpcCore

-----------------------------------------------------------------------------
(* The kinds of steps the kernel core makes.                               *)

\* Nothing but rt_current_thread and the priorities change.
Kept ==
    /\ KernelOK(k') /\ k'.lock = 0
    /\ k'.stat = k.stat /\ k'.error = k.error
    /\ \A q \in Queue : k'.wait[q] = k.wait[q]
    /\ k'.cur = k.cur \/ k'.stat[k'.cur] = "READY"

\* The running thread t sets its error field.
Marked(t, e) ==
    /\ KernelOK(k') /\ k'.lock = 0
    /\ k.stat[t] = "READY"
    /\ k'.stat = k.stat /\ k'.error = [k.error EXCEPT ![t] = e]
    /\ \A q \in Queue : k'.wait[q] = k.wait[q]
    /\ k'.cur = k.cur

\* h leaves the suspend list of s and becomes ready, with error e.
Woken(h, s, e) ==
    /\ KernelOK(k') /\ k'.lock = 0
    /\ h \in Thread /\ k.stat[h] = "SUSPEND" /\ h \in ToSet(k.wait[s])
    /\ k'.stat = [k.stat EXCEPT ![h] = "READY"]
    /\ k'.error = [k.error EXCEPT ![h] = e]
    /\ \A q \in Queue : ToSet(k'.wait[q]) = ToSet(k.wait[q]) \ {h}
    /\ k'.cur = k.cur \/ k'.stat[k'.cur] = "READY"

\* t, the current thread, puts itself on the suspend list of s.
Suspended(t, s) ==
    /\ KernelOK(k') /\ k'.lock = 0
    /\ k'.stat = [k.stat EXCEPT ![t] = "SUSPEND"]
    /\ k'.error = [k.error EXCEPT ![t] = "EOK"]
    /\ ToSet(k'.wait[s]) = ToSet(k.wait[s]) \cup {t}
    /\ \A q \in Queue \ {s} : k'.wait[q] = k.wait[q]
    /\ k'.cur = k.cur

\* u is started.
Started(u) ==
    /\ KernelOK(k') /\ k'.lock = 0
    /\ k.stat[u] = "INIT"
    /\ k'.stat = [k.stat EXCEPT ![u] = "READY"]
    /\ k'.error = k.error
    /\ k'.prio = [k.prio EXCEPT ![u] = init_priority[u]]
    /\ \A q \in Queue : k'.wait[q] = k.wait[q]
    /\ k'.cur = k.cur

\* The priorities become p, and lists sorted by them stay sorted.
KeepsSorted(p) ==
    /\ k'.prio = p
    /\ \A q \in Queue : SortedBy(k.wait[q], p) => SortedBy(k'.wait[q], p)

\* c differs from k in priorities only.
SamePlaces(c) ==
    /\ KernelOK(c) /\ c.stat = k.stat /\ c.wait = k.wait
    /\ c.cur = k.cur /\ c.lock = k.lock

\* A thread outside the kernel that is executing is ready.
LEMMA CallerReady ==
    ASSUME IpcCore, NEW t \in Thread, k.cur = t, pc[t] # "block"
    PROVE  k.stat[t] = "READY"
BY DEF IpcCore, CurRunnable

\* A step that leaves k alone, or changes priorities only, keeps it
\* consistent.
LEMMA SameKept ==
    ASSUME IpcCore, SamePlaces(k'), k'.error = k.error
    PROVE  Kept /\ KeepsSorted(k'.prio)
BY DEF IpcCore, Kept, KeepsSorted, SamePlaces

\* So does one that leaves k alone.
LEMMA UnchangedKept ==
    ASSUME IpcCore, k' = k
    PROVE  Kept /\ KeepsSorted(k.prio)
BY DEF IpcCore, Kept, KeepsSorted

\* rt_schedule, from a thread or from the tick interrupt.
LEMMA ScheduleKept ==
    ASSUME IpcCore, k' = rt_schedule(k)
    PROVE  Kept /\ k'.stat[k'.cur] = "READY" /\ KeepsSorted(k.prio)
<1>1. KernelOK(k) /\ k.lock = 0
  BY DEF IpcCore
<1>2. LET r == rt_schedule(k) IN
      /\ KernelOK(r)
      /\ r.stat = k.stat /\ r.prio = k.prio /\ r.error = k.error
      /\ r.wait = k.wait /\ r.timer = k.timer /\ r.lock = k.lock
      /\ r.cur # k.cur => k.lock = 0
      /\ k.lock = 0 => CurIsHighest(r)
  BY <1>1, ScheduleOK
<1> QED BY <1>1, <1>2 DEF Kept, CurIsHighest, KeepsSorted

\* The calling thread sets its error field.
LEMMA SetErrorMarks ==
    ASSUME IpcCore, NEW t \in Thread, k.stat[t] = "READY", NEW e \in Error,
           k' = [k EXCEPT !.error[t] = e]
    PROVE  Marked(t, e) /\ KeepsSorted(k.prio)
<1>1. KernelOK(k) /\ k.lock = 0
  BY DEF IpcCore
<1>2. LET r == [k EXCEPT !.error[t] = e] IN
      /\ KernelOK(r)
      /\ r.error = [k.error EXCEPT ![t] = e]
      /\ r.stat = k.stat /\ r.prio = k.prio /\ r.wait = k.wait
      /\ r.timer = k.timer /\ r.cur = k.cur /\ r.lock = k.lock
  BY <1>1, SetErrorOK
<1> QED BY <1>1, <1>2 DEF Marked, KeepsSorted

\* A blocking call: rt_ipc_list_suspend on the running thread and, with a
\* timeout, the start of its timer.
LEMMA ListSuspends ==
    ASSUME IpcCore, NEW t \in Thread \ {Idle}, k.stat[t] = "READY", NEW q \in Queue,
           NEW c, SamePlaces(c), c.error = [k.error EXCEPT ![t] = "EOK"],
           NEW flag, NEW time,
           k' = IF time > 0 THEN StartThreadTimer(rt_ipc_list_suspend(c, q, t, flag), t)
                            ELSE rt_ipc_list_suspend(c, q, t, flag)
    PROVE  Suspended(t, q) /\ k'.prio = c.prio /\ (flag = "PRIO" => KeepsSorted(c.prio))
<1> DEFINE w == rt_ipc_list_suspend(c, q, t, flag)
<1>1. /\ KernelOK(c) /\ c.stat[t] = "READY" /\ c.lock = 0
      /\ c.stat = k.stat /\ c.wait = k.wait /\ c.cur = k.cur
  BY DEF IpcCore, SamePlaces
<1>2. LET r == rt_ipc_list_suspend(c, q, t, flag) IN
      /\ KernelOK(r)
      /\ r.stat = [c.stat EXCEPT ![t] = "SUSPEND"]
      /\ r.timer = c.timer \ {t}
      /\ ToSet(r.wait[q]) = ToSet(c.wait[q]) \cup {t}
      /\ \A o \in Queue \ {q} : r.wait[o] = c.wait[o]
      /\ flag = "PRIO" /\ SortedBy(c.wait[q], c.prio) => SortedBy(r.wait[q], c.prio)
      /\ r.prio = c.prio /\ r.error = c.error
      /\ r.cur = c.cur /\ r.lock = c.lock
  <2>1. KernelOK(c) /\ t \in Thread \ {Idle} /\ c.stat[t] = "READY" /\ q \in Queue
    BY <1>1
  <2> HIDE DEF w
  <2> QED BY ONLY <2>1, ListSuspendOK, SMTT(60)
<1>3. /\ KernelOK(w)
      /\ w.stat = [c.stat EXCEPT ![t] = "SUSPEND"]
      /\ ToSet(w.wait[q]) = ToSet(c.wait[q]) \cup {t}
      /\ \A o \in Queue \ {q} : w.wait[o] = c.wait[o]
      /\ flag = "PRIO" /\ SortedBy(c.wait[q], c.prio) => SortedBy(w.wait[q], c.prio)
      /\ w.prio = c.prio /\ w.error = c.error
      /\ w.cur = c.cur /\ w.lock = c.lock
  BY <1>2
<1> HIDE DEF w
<1>4. w.stat[t] = "SUSPEND"
  BY <1>1, <1>3 DEF KernelOK, KernelState
<1>5. /\ KernelOK(k') /\ k'.stat = w.stat /\ k'.error = w.error /\ k'.wait = w.wait
      /\ k'.cur = w.cur /\ k'.lock = w.lock /\ k'.prio = w.prio
  <2>1. CASE time > 0
    BY <1>3, <1>4, <2>1, StartTimerOK DEF w
  <2>2. CASE ~(time > 0)
    BY <1>3, <2>2 DEF w
  <2> QED BY <2>1, <2>2
<1>6. Suspended(t, q)
  BY <1>1, <1>3, <1>5 DEF Suspended
<1>7. ASSUME flag = "PRIO" PROVE KeepsSorted(c.prio)
  BY <1>1, <1>3, <1>5, <1>7 DEF KeepsSorted
<1> QED BY <1>3, <1>5, <1>6, <1>7

\* A release that finds a waiter, from a thread or from an interrupt.
LEMMA ReleaseWakes ==
    ASSUME IpcCore, NEW s \in Queue, k.wait[s] # << >>,
           NEW c, SamePlaces(c), c.error = k.error,
           \/ k' = rt_ipc_list_resume(c, s)
           \/ k' = rt_schedule(rt_ipc_list_resume(c, s))
    PROVE  Woken(Head(k.wait[s]), s, "EOK") /\ KeepsSorted(c.prio)
<1> DEFINE h == Head(k.wait[s])
           r == rt_ipc_list_resume(c, s)
<1>1. /\ KernelOK(c) /\ c.lock = 0 /\ c.wait[s] # << >> /\ KernelOK(k)
      /\ c.stat = k.stat /\ c.wait = k.wait /\ c.cur = k.cur
  BY DEF IpcCore, SamePlaces
<1>2. Resumes(c, r, h, c.error)
  BY <1>1, ListResumeOK
<1>3. h \in ToSet(k.wait[s]) /\ (k' = r \/ k' = rt_schedule(r))
  BY <1>1, WaitHead
<1> SUFFICES Woken(h, s, "EOK") /\ KeepsSorted(c.prio)
  OBVIOUS
<1> HIDE DEF h, r
<1>4. r.error = [k.error EXCEPT ![h] = "EOK"]
  <2>1. h \in Thread /\ k.stat[h] = "SUSPEND"
    BY <1>1, <1>2 DEF Resumes
  <2>2. k.error[h] = "EOK" /\ k.error \in [Thread -> Error]
    BY <2>1 DEF IpcCore, Waiting, KernelOK, KernelState
  <2>3. k.error = [k.error EXCEPT ![h] = "EOK"]
    BY <2>1, <2>2
  <2>4. r.error = k.error
    BY <1>2 DEF Resumes
  <2> QED BY <2>3, <2>4
<1>5. CASE k' = r
  BY <1>1, <1>2, <1>3, <1>4, <1>5 DEF Resumes, Woken, CurIsHighest, KeepsSorted
<1>6. CASE k' = rt_schedule(r)
  <2>1. KernelOK(r) /\ r.lock = 0
    BY <1>1, <1>2 DEF Resumes
  <2>2. /\ KernelOK(k') /\ k'.stat = r.stat /\ k'.error = r.error /\ k'.wait = r.wait
        /\ k'.lock = 0 /\ CurIsHighest(k') /\ k'.prio = r.prio
    BY <1>6, <2>1, ScheduleOK
  <2> QED BY <1>1, <1>2, <1>3, <1>4, <2>2 DEF Resumes, Woken, CurIsHighest, KeepsSorted
<1> QED BY <1>3, <1>5, <1>6

\* The same where the release has changed nothing else before.
LEMMA ReleaseWakesNow ==
    ASSUME IpcCore, NEW s \in Queue, k.wait[s] # << >>,
           \/ k' = rt_ipc_list_resume(k, s)
           \/ k' = rt_schedule(rt_ipc_list_resume(k, s))
    PROVE  Woken(Head(k.wait[s]), s, "EOK") /\ KeepsSorted(k.prio)
<1>1. SamePlaces(k)
  BY DEF SamePlaces, IpcCore
<1> QED BY <1>1, ReleaseWakes

\* A round of the loops that wake every waiter with an error.
LEMMA ErrorWakes ==
    ASSUME IpcCore, NEW s \in Queue, k.wait[s] # << >>, k' = ResumeWithError(k, s)
    PROVE  Woken(Head(k.wait[s]), s, "ERROR") /\ KeepsSorted(k.prio)
<1> DEFINE h == Head(k.wait[s])
<1>1. KernelOK(k) /\ k.lock = 0
  BY DEF IpcCore
<1>2. Resumes(k, k', h, [k.error EXCEPT ![h] = "ERROR"])
  BY <1>1, ResumeWithErrorOK
<1>3. h \in ToSet(k.wait[s])
  BY <1>1, WaitHead
<1> HIDE DEF h
<1>4. Woken(h, s, "ERROR") /\ KeepsSorted(k.prio)
  BY <1>1, <1>2, <1>3 DEF Resumes, Woken, CurIsHighest, KeepsSorted
<1> QED BY <1>4 DEF h

\* The timer of a thread in a blocking call expires.
LEMMA TimeoutWakes ==
    ASSUME IpcCore, NEW t \in Thread, Timeout(t)
    PROVE  Woken(t, on[t], "ETIMEOUT") /\ KeepsSorted(k.prio)
<1>1. KernelOK(k) /\ k.lock = 0 /\ t \in k.timer /\ k' = rt_thread_timeout(k, t)
  BY DEF IpcCore, Timeout
<1>2. Resumes(k, k', t, [k.error EXCEPT ![t] = "ETIMEOUT"])
  BY <1>1, TimeoutOK
<1>3. t \in ToSet(k.wait[on[t]])
  BY <1>2 DEF IpcCore, Waiting, Resumes
<1> QED BY <1>1, <1>2, <1>3 DEF Resumes, Woken, CurIsHighest, KeepsSorted

\* rt_thread_startup.
LEMMA StartupStarts ==
    ASSUME IpcCore, NEW t \in Thread, NEW u \in Thread, Startup(t, u)
    PROVE  Started(u)
<1>1. KernelOK(k) /\ k.lock = 0 /\ k.stat[u] = "INIT" /\ k' = StartThread(k, u)
  BY DEF IpcCore, Startup
<1>2. StartsUp(k, k', u)
  BY <1>1, StartThreadOK
<1> QED BY <1>1, <1>2 DEF StartsUp, Started

\* The call a thread waits in is on the object whose list holds it.
LEMMA WaiterOn ==
    ASSUME IpcCore, NEW q \in Queue, NEW h \in ToSet(k.wait[q]), h \in Thread
    PROVE  k.stat[h] = "SUSPEND" /\ on[h] = q /\ pc[h] \in {"block", "woken"}
<1>1. k.stat[h] = "SUSPEND"
  BY DEF IpcCore, KernelOK, KernelInv, WaitersSuspended
<1>2. pc[h] \in {"block", "woken"} /\ h \in ToSet(k.wait[on[h]]) /\ on[h] \in Queue
  BY <1>1 DEF IpcCore, Waiting
<1> QED BY <1>1, <1>2 DEF IpcCore, KernelOK, KernelInv, WaitersSuspended

-----------------------------------------------------------------------------
(* Steps that preserve the invariant.                                      *)

Detaching == {"detach_test", "detach_resume"}

\* What a step that suspends nobody must respect: only ready threads move; a
\* detach that begins, or is under way, is not abandoned while there are
\* waiters.
Benign ==
    /\ \A u \in Thread : k.stat[u] # "READY" => pc'[u] = pc[u] /\ on'[u] = on[u]
    /\ \A s \in Queue \ alive' :
          s \in alive => \E t \in Thread : on'[t] = s /\ pc'[t] \in Detaching
    /\ \A u \in Thread : pc[u] \in Detaching =>
          \/ pc'[u] \in Detaching /\ on'[u] = on[u]
          \/ k.wait[on[u]] = << >>

\* A step of the kernel core that suspends nobody.
Wakeful ==
    \/ Kept
    \/ \E t \in Thread, e \in Error : Marked(t, e)
    \/ \E h \in Thread, q \in Queue, e \in Error : Woken(h, q, e)
    \/ \E u \in Thread : Started(u)

\* An empty suspend list stays empty unless a thread suspends itself.
LEMMA EmptyStays ==
    ASSUME IpcCore, Wakeful, NEW s \in Queue, k.wait[s] = << >>
    PROVE  k'.wait[s] = << >>
<1>1. CASE Kept
  BY <1>1 DEF Kept
<1>2. CASE \E u \in Thread : Started(u)
  BY <1>2 DEF Started
<1>3. CASE \E t \in Thread, e \in Error : Marked(t, e)
  BY <1>3 DEF Marked
<1>4. CASE \E h \in Thread, q \in Queue, e \in Error : Woken(h, q, e)
  <2>1. PICK h \in Thread, q \in Queue, e \in Error : Woken(h, q, e)
    BY <1>4
  <2>2. k'.wait[s] \in Seq(Thread) /\ k.wait[s] \in Seq(Thread)
    BY <2>1 DEF Woken, KernelOK, KernelState, IpcCore
  <2>3. ToSet(k.wait[s]) = {} /\ ToSet(k'.wait[s]) = ToSet(k.wait[s]) \ {h}
    BY <2>1, <2>2, ListEmpty DEF Woken
  <2> QED BY <2>2, <2>3, ListEmpty
<1> QED BY <1>1, <1>2, <1>3, <1>4 DEF Wakeful

\* Benign steps preserve what is said of the threads and of the kernel.
LEMMA BenignCore ==
    ASSUME IpcCore, on' \in [Thread -> Queue], Benign, Wakeful
    PROVE  IpcCore'
<1>1. /\ k.stat \in [Thread -> Stat] /\ k.error \in [Thread -> Error] /\ k.cur \in Thread
      /\ on \in [Thread -> Queue]
  BY DEF IpcCore, KernelOK, KernelState
<1>2. \A u \in Thread : k.stat[u] # "READY" => pc'[u] = pc[u] /\ on'[u] = on[u]
  BY DEF Benign
<1>3. CASE Kept
  <2>1. KernelOK(k') /\ k'.lock = 0
    BY <1>3 DEF Kept
  <2>2. Waiting'
    BY <1>1, <1>2, <1>3 DEF Kept, IpcCore, Waiting
  <2>3. CurRunnable'
    BY <1>1, <1>2, <1>3 DEF Kept, IpcCore, CurRunnable
  <2> QED BY <2>1, <2>2, <2>3 DEF IpcCore
<1>4. CASE \E u \in Thread : Started(u)
  <2>1. PICK u \in Thread : Started(u)
    BY <1>4
  <2>2. k'.stat[u] = "READY" /\ \A v \in Thread \ {u} : k'.stat[v] = k.stat[v]
    BY <1>1, <2>1 DEF Started
  <2>3. KernelOK(k') /\ k'.lock = 0
    BY <2>1 DEF Started
  <2>4. Waiting'
    BY <1>1, <1>2, <2>1, <2>2 DEF Started, IpcCore, Waiting
  <2>5. CurRunnable'
    BY <1>1, <1>2, <2>1, <2>2 DEF Started, IpcCore, CurRunnable
  <2> QED BY <2>3, <2>4, <2>5 DEF IpcCore
<1>5. CASE \E t \in Thread, e \in Error : Marked(t, e)
  <2>1. PICK t \in Thread, e \in Error : Marked(t, e)
    BY <1>5
  <2>2. /\ k.stat[t] = "READY" /\ k'.stat = k.stat /\ k'.cur = k.cur
        /\ \A v \in Thread \ {t} : k'.error[v] = k.error[v]
        /\ \A q \in Queue : k'.wait[q] = k.wait[q]
    BY <1>1, <2>1 DEF Marked
  <2>3. KernelOK(k') /\ k'.lock = 0
    BY <2>1 DEF Marked
  <2>4. Waiting'
    BY <1>1, <1>2, <2>2 DEF IpcCore, Waiting
  <2>5. CurRunnable'
    BY <1>1, <1>2, <2>2 DEF IpcCore, CurRunnable
  <2> QED BY <2>3, <2>4, <2>5 DEF IpcCore
<1>6. CASE \E h \in Thread, q \in Queue, e \in Error : Woken(h, q, e)
  <2>1. PICK h \in Thread, q \in Queue, e \in Error : Woken(h, q, e)
    BY <1>6
  <2>2. /\ k'.stat[h] = "READY"
        /\ \A v \in Thread \ {h} : k'.stat[v] = k.stat[v] /\ k'.error[v] = k.error[v]
    BY <1>1, <2>1 DEF Woken
  <2>3. KernelOK(k') /\ k'.lock = 0
    BY <2>1 DEF Woken
  <2>4. Waiting'
    <3> SUFFICES ASSUME NEW v \in Thread
                 PROVE  /\ k'.stat[v] # "CLOSE"
                        /\ k'.stat[v] = "INIT" => pc'[v] = "run"
                        /\ k'.stat[v] = "SUSPEND" => /\ pc'[v] \in {"block", "woken"}
                                                     /\ v \in ToSet(k'.wait[on'[v]])
                                                     /\ k'.error[v] = "EOK"
      BY DEF Waiting
    <3>1. CASE v = h
      BY <2>2, <3>1
    <3>2. CASE v # h
      <4>1. k'.stat[v] = k.stat[v] /\ k'.error[v] = k.error[v]
        BY <2>2, <3>2
      <4>2. k.stat[v] # "CLOSE" /\ (k.stat[v] = "INIT" => pc'[v] = "run")
        BY <1>2 DEF IpcCore, Waiting
      <4>3. ASSUME k.stat[v] = "SUSPEND"
            PROVE  pc'[v] \in {"block", "woken"} /\ v \in ToSet(k'.wait[on'[v]]) /\ k.error[v] = "EOK"
        <5>1. /\ pc[v] \in {"block", "woken"} /\ v \in ToSet(k.wait[on[v]]) /\ k.error[v] = "EOK"
              /\ pc'[v] = pc[v] /\ on'[v] = on[v] /\ on[v] \in Queue
          BY <1>1, <1>2, <4>3 DEF IpcCore, Waiting
        <5>2. ToSet(k'.wait[on[v]]) = ToSet(k.wait[on[v]]) \ {h}
          BY <2>1, <5>1 DEF Woken
        <5> QED BY <3>2, <5>1, <5>2
      <4> QED BY <4>1, <4>2, <4>3
    <3> QED BY <3>1, <3>2
  <2>5. CurRunnable'
    <3>1. k'.cur = k.cur \/ k'.stat[k'.cur] = "READY"
      BY <2>1 DEF Woken
    <3> QED BY <1>1, <1>2, <2>2, <3>1 DEF IpcCore, CurRunnable
  <2> QED BY <2>3, <2>4, <2>5 DEF IpcCore
<1> QED BY <1>3, <1>4, <1>5, <1>6 DEF Wakeful

\* Benign steps leave no waiter behind on a detached object.
LEMMA BenignDetach ==
    ASSUME IpcCore, DetachLeavesNoWaiter, Benign, Wakeful
    PROVE  DetachLeavesNoWaiter'
<1>1. \A s \in Queue : k.wait[s] = << >> => k'.wait[s] = << >>
  BY EmptyStays
<1> SUFFICES ASSUME NEW s \in Queue \ alive'
             PROVE  \/ k'.wait[s] = << >>
                    \/ \E t \in Thread : on'[t] = s /\ pc'[t] \in Detaching
  BY DEF DetachLeavesNoWaiter, Detaching
<1>2. CASE s \in alive
  BY <1>2 DEF Benign
<1>3. CASE s \notin alive
  <2>1. CASE k.wait[s] = << >>
    BY <1>1, <2>1
  <2>2. CASE \E t \in Thread : on[t] = s /\ pc[t] \in Detaching
    BY <1>1, <2>2 DEF Benign
  <2> QED BY <1>3, <2>1, <2>2 DEF DetachLeavesNoWaiter, Detaching
<1> QED BY <1>2, <1>3

\* A call that blocks on an object whose detach has not begun preserves the
\* invariant.
LEMMA SuspendCore ==
    ASSUME IpcCore, DetachLeavesNoWaiter, NEW t \in Thread, NEW s \in Queue, s \in alive,
           Suspended(t, s), k.cur = t, pc[t] = "run", NEW P, pc \in [Thread -> P],
           on' = [on EXCEPT ![t] = s], pc' = [pc EXCEPT ![t] = "block"], alive' = alive
    PROVE  IpcCore' /\ DetachLeavesNoWaiter'
<1>1. /\ k.stat \in [Thread -> Stat] /\ k.error \in [Thread -> Error]
      /\ on \in [Thread -> Queue]
  BY DEF IpcCore, KernelOK, KernelState
<1>2. /\ on'[t] = s /\ pc'[t] = "block" /\ on' \in [Thread -> Queue]
      /\ \A u \in Thread \ {t} : on'[u] = on[u] /\ pc'[u] = pc[u]
  BY <1>1
<1>3. /\ k'.stat[t] = "SUSPEND" /\ k'.error[t] = "EOK"
      /\ \A u \in Thread \ {t} : k'.stat[u] = k.stat[u] /\ k'.error[u] = k.error[u]
  BY <1>1 DEF Suspended
<1>4. \A q \in Queue : ToSet(k.wait[q]) \subseteq ToSet(k'.wait[q])
  BY DEF Suspended
<1>5. Waiting'
  <2> SUFFICES ASSUME NEW v \in Thread
               PROVE  /\ k'.stat[v] # "CLOSE"
                      /\ k'.stat[v] = "INIT" => pc'[v] = "run"
                      /\ k'.stat[v] = "SUSPEND" => /\ pc'[v] \in {"block", "woken"}
                                                   /\ v \in ToSet(k'.wait[on'[v]])
                                                   /\ k'.error[v] = "EOK"
    BY DEF Waiting
  <2>1. CASE v = t
    <3>1. t \in ToSet(k'.wait[s])
      BY DEF Suspended
    <3> QED BY <1>2, <1>3, <2>1, <3>1
  <2>2. CASE v # t
    <3>1. on[v] \in Queue
      BY <1>1
    <3> QED BY <1>2, <1>3, <1>4, <2>2, <3>1 DEF IpcCore, Waiting
  <2> QED BY <2>1, <2>2
<1>6. CurRunnable'
  BY <1>2, <1>3 DEF Suspended, CurRunnable
<1>7. IpcCore'
  BY <1>2, <1>5, <1>6 DEF IpcCore, Suspended
<1>8. DetachLeavesNoWaiter'
  <2> SUFFICES ASSUME NEW q \in Queue \ alive
               PROVE  \/ k'.wait[q] = << >>
                      \/ \E u \in Thread : on'[u] = q /\ pc'[u] \in {"detach_test", "detach_resume"}
    BY DEF DetachLeavesNoWaiter
  <2>1. \A u \in Thread : pc[u] \in {"detach_test", "detach_resume"} => u # t
    OBVIOUS
  <2>2. k'.wait[q] = k.wait[q]
    BY DEF Suspended
  <2> QED BY <1>2, <2>1, <2>2 DEF DetachLeavesNoWaiter
<1> QED BY <1>7, <1>8

\* The rt_schedule at the end of a call, or that the thread blocks in,
\* preserves the invariant.
LEMMA RescheduleCore ==
    ASSUME IpcCore, DetachLeavesNoWaiter, NEW t \in Thread, Reschedule(t),
           NEW P, pc \in [Thread -> P], on' = on, alive' = alive
    PROVE  IpcCore' /\ DetachLeavesNoWaiter' /\ Kept /\ KeepsSorted(k.prio)
<1>1. /\ k.cur = t /\ pc[t] \in {"resched", "block"} /\ k' = rt_schedule(k)
      /\ pc' = [pc EXCEPT ![t] = IF pc[t] = "block" THEN "woken" ELSE "run"]
  BY DEF Reschedule, At, Goto
<1>2. Kept /\ k'.stat[k'.cur] = "READY" /\ KeepsSorted(k.prio)
  BY <1>1, ScheduleKept
<1>3. /\ pc'[t] = IF pc[t] = "block" THEN "woken" ELSE "run"
      /\ \A u \in Thread \ {t} : pc'[u] = pc[u]
  BY <1>1
<1>4. Waiting'
  <2>1. k'.stat = k.stat /\ k'.error = k.error /\ on \in [Thread -> Queue]
    BY <1>2 DEF Kept, IpcCore
  <2>2. \A q \in Queue : k'.wait[q] = k.wait[q]
    BY <1>2 DEF Kept
  <2>3. k.stat[t] # "INIT" /\ (k.stat[t] = "SUSPEND" => pc[t] = "block")
    BY <1>1 DEF IpcCore, Waiting
  <2> QED BY <1>1, <1>3, <2>1, <2>2, <2>3 DEF IpcCore, Waiting
<1>5. IpcCore'
  BY <1>2, <1>4 DEF IpcCore, CurRunnable, Kept
<1>6. DetachLeavesNoWaiter'
  <2>1. \A q \in Queue : k'.wait[q] = k.wait[q]
    BY <1>2 DEF Kept
  <2>2. \A u \in Thread : pc[u] \in {"detach_test", "detach_resume"} => pc'[u] = pc[u]
    BY <1>1, <1>3
  <2> QED BY <2>1, <2>2 DEF DetachLeavesNoWaiter
<1> QED BY <1>2, <1>5, <1>6
-----------------------------------------------------------------------------
(* A ring of n places, in which several objects keep a queue.              *)

\* Positions less than one turn away.
LEMMA RingPosition ==
    ASSUME NEW n \in Nat \ {0}, NEW x \in Nat
    PROVE  /\ x < n => x % n = x
           /\ n <= x /\ x < 2 * n => x % n = x - n
<1>1. ASSUME x < n PROVE x % n = x
  BY <1>1
<1>2. ASSUME n <= x, x < 2 * n PROVE x % n = x - n
  <2>1. x - n \in 0 .. n - 1 /\ x = n * 1 + (x - n)
    BY <1>2
  <2> QED BY <2>1
<1> QED BY <1>1, <1>2

\* Two positions less than a turn apart are two places.
LEMMA PlacesDiffer ==
    ASSUME NEW n \in Nat \ {0}, NEW x \in Nat, NEW y \in Nat, x < y, y < x + n
    PROVE  x % n # y % n
<1> SUFFICES ASSUME x % n = y % n PROVE FALSE
  OBVIOUS
<1> DEFINE a == x \div n
           b == y \div n
           r == x % n
<1>1. a \in Int /\ b \in Int /\ r \in 0 .. n - 1
  OBVIOUS
<1>2. x = n * a + r /\ y = n * b + r
  OBVIOUS
<1> HIDE DEF a, b, r
<1>3. CASE b <= a
  <2>1. n * b <= n * a
    BY <1>1, <1>3
  <2> QED BY <1>1, <1>2, <2>1
<1>4. CASE b >= a + 1
  <2>1. n * b >= n * (a + 1) /\ n * (a + 1) = n * a + n
    BY <1>1, <1>4
  <2> QED BY <1>1, <1>2, <2>1
<1> QED BY <1>1, <1>3, <1>4

\* The e messages in a ring of n places, the one at place out first.
RingSeq(pool, n, out, e) == [i \in 1 .. e |-> pool[(out + i - 1) % n]]

\* s is u with v added at its end, or at its front.
AddsLast(s, u, v)  == s = Append(u, v)
AddsFirst(s, u, v) == s = <<v>> \o u

\* s is u without its first element v.
TakesFirst(s, u, v) == u # << >> /\ Head(u) = v /\ s = Tail(u)

\* Storing behind the last message of a ring that is not full appends.
LEMMA RingAppend ==
    ASSUME NEW n \in Nat \ {0}, NEW V, NEW pool \in [0 .. n - 1 -> V], NEW v \in V,
           NEW out \in Nat, NEW e \in 0 .. n - 1,
           NEW r \in [0 .. n - 1 -> V],
           \A j \in 0 .. n - 1 : r[j] = IF j = (out + e) % n THEN v ELSE pool[j]
    PROVE  AddsLast(RingSeq(r, n, out, e + 1), RingSeq(pool, n, out, e), v)
<1>1. (out + e) % n \in 0 .. n - 1
  OBVIOUS
<1>2. ASSUME NEW i \in 1 .. e PROVE r[(out + i - 1) % n] = pool[(out + i - 1) % n]
  <2>1. (out + i - 1) % n \in 0 .. n - 1
    OBVIOUS
  <2>2. (out + i - 1) % n # (out + e) % n
    <3>1. /\ out + i - 1 \in Nat /\ out + e \in Nat
          /\ out + i - 1 < out + e /\ out + e < (out + i - 1) + n
      OBVIOUS
    <3> QED BY <3>1, PlacesDiffer
  <2> QED BY <2>1, <2>2
<1>3. r[(out + e) % n] = v
  BY <1>1
<1>4. RingSeq(pool, n, out, e) = [i \in 1 .. e |-> pool[(out + i - 1) % n]]
  BY DEF RingSeq
<1>5. \A i \in 1 .. e : pool[(out + i - 1) % n] \in V
  OBVIOUS
<1>6. Append([i \in 1 .. e |-> pool[(out + i - 1) % n]], v)
        = [i \in 1 .. e + 1 |-> IF i = e + 1 THEN v ELSE pool[(out + i - 1) % n]]
  BY <1>5
<1>7. \A i \in 1 .. e + 1 : r[(out + i - 1) % n] = IF i = e + 1 THEN v ELSE pool[(out + i - 1) % n]
  <2> TAKE i \in 1 .. e + 1
  <2>1. CASE i = e + 1 BY <2>1, <1>3
  <2>2. CASE i # e + 1
    <3>1. i \in 1 .. e BY <2>2
    <3> QED BY <3>1, <1>2, <2>2
  <2> QED BY <2>1, <2>2
<1>8. RingSeq(r, n, out, e + 1) = [i \in 1 .. e + 1 |-> r[(out + i - 1) % n]]
  BY DEF RingSeq
<1>9. RingSeq(r, n, out, e + 1)
        = [i \in 1 .. e + 1 |-> IF i = e + 1 THEN v ELSE pool[(out + i - 1) % n]]
  BY <1>7, <1>8
<1> QED BY <1>4, <1>6, <1>9 DEF AddsLast

\* The place before the first message, round the end of the ring.
RingBefore(n, out) == IF out > 0 THEN out - 1 ELSE n - 1

\* Storing before the first message of a ring that is not full prepends.
LEMMA RingPrepend ==
    ASSUME NEW n \in Nat \ {0}, NEW V, NEW pool \in [0 .. n - 1 -> V], NEW v \in V,
           NEW out \in 0 .. n - 1, NEW e \in 0 .. n - 1,
           NEW o, o = RingBefore(n, out),
           NEW r \in [0 .. n - 1 -> V],
           \A j \in 0 .. n - 1 : r[j] = IF j = o THEN v ELSE pool[j]
    PROVE  AddsFirst(RingSeq(r, n, o, e + 1), RingSeq(pool, n, out, e), v)
<1>1. o \in 0 .. n - 1
  BY DEF RingBefore
<1>2. ASSUME NEW i \in 2 .. e + 1 PROVE (o + i - 1) % n = (out + i - 2) % n /\ (o + i - 1) % n # o
  <2>1. /\ o + i - 1 < n => (o + i - 1) % n = o + i - 1
        /\ n <= o + i - 1 => (o + i - 1) % n = o + i - 1 - n
    <3> DEFINE x == o + i - 1
    <3>1. x \in Nat /\ x < 2 * n
      BY <1>1
    <3> HIDE DEF x
    <3>2. (x < n => x % n = x) /\ (n <= x => x % n = x - n)
      BY <3>1, RingPosition
    <3> QED BY <1>1, <3>1, <3>2 DEF x
  <2>2. /\ out + i - 2 < n => (out + i - 2) % n = out + i - 2
        /\ n <= out + i - 2 => (out + i - 2) % n = out + i - 2 - n
    <3> DEFINE x == out + i - 2
    <3>1. x \in Nat /\ x < 2 * n
      OBVIOUS
    <3> HIDE DEF x
    <3>2. (x < n => x % n = x) /\ (n <= x => x % n = x - n)
      BY <3>1, RingPosition
    <3> QED BY <3>2 DEF x
  <2> QED BY <1>1, <2>1, <2>2 DEF RingBefore
<1>3. (o + 1 - 1) % n = o
  <2>1. o + 1 - 1 = o /\ o % n = o
    BY <1>1
  <2> QED BY <2>1
<1>4. \A i \in 1 .. e + 1 :
         r[(o + i - 1) % n] = IF i = 1 THEN v ELSE pool[(out + i - 2) % n]
  <2> TAKE i \in 1 .. e + 1
  <2>1. CASE i = 1
    <3>1. r[o] = v BY <1>1
    <3> QED BY <3>1, <2>1, <1>3
  <2>2. CASE i # 1
    <3>1. i \in 2 .. e + 1 BY <2>2
    <3>2. (o + i - 1) % n = (out + i - 2) % n /\ (o + i - 1) % n # o
      BY <3>1, <1>2
    <3>3. (out + i - 2) % n \in 0 .. n - 1
      BY <3>1
    <3> QED BY <3>2, <3>3, <2>2
  <2> QED BY <2>1, <2>2
<1>5. RingSeq(pool, n, out, e) = [i \in 1 .. e |-> pool[(out + i - 1) % n]]
  BY DEF RingSeq
<1>6. \A i \in 1 .. e : pool[(out + i - 1) % n] \in V
  OBVIOUS
<1>7. <<v>> \o [i \in 1 .. e |-> pool[(out + i - 1) % n]]
        = [i \in 1 .. e + 1 |-> IF i = 1 THEN v ELSE pool[(out + i - 2) % n]]
  <2> DEFINE s == [i \in 1 .. e |-> pool[(out + i - 1) % n]]
             c == <<v>> \o s
  <2>1. s \in Seq(V) /\ Len(s) = e /\ <<v>> \in Seq(V) /\ Len(<<v>>) = 1
    BY <1>6
  <2>2. c \in Seq(V) /\ Len(c) = e + 1 /\ DOMAIN c = 1 .. e + 1
    BY <2>1
  <2>3. \A i \in 1 .. e + 1 : c[i] = IF i = 1 THEN v ELSE s[i - 1]
    BY <2>1
  <2>4. \A i \in 1 .. e + 1 : i # 1 => s[i - 1] = pool[(out + i - 2) % n]
    <3> TAKE i \in 1 .. e + 1
    <3> HAVE i # 1
    <3>1. i - 1 \in 1 .. e /\ out + (i - 1) - 1 = out + i - 2
      OBVIOUS
    <3> QED BY <3>1
  <2>5. c = [i \in 1 .. e + 1 |-> c[i]]
    BY <2>2
  <2> HIDE DEF c, s
  <2>6. \A i \in 1 .. e + 1 : c[i] = IF i = 1 THEN v ELSE pool[(out + i - 2) % n]
    BY <2>3, <2>4
  <2>7. c = [i \in 1 .. e + 1 |-> IF i = 1 THEN v ELSE pool[(out + i - 2) % n]]
    BY <2>5, <2>6
  <2> QED BY <2>7 DEF c, s
<1>8. RingSeq(r, n, o, e + 1) = [i \in 1 .. e + 1 |-> r[(o + i - 1) % n]]
  BY DEF RingSeq
<1>9. RingSeq(r, n, o, e + 1)
        = [i \in 1 .. e + 1 |-> IF i = 1 THEN v ELSE pool[(out + i - 2) % n]]
  BY <1>4, <1>8
<1> QED BY <1>5, <1>7, <1>9 DEF AddsFirst

\* Passing the first message of a ring that is not empty takes the head.
LEMMA RingTail ==
    ASSUME NEW n \in Nat \ {0}, NEW V, NEW pool \in [0 .. n - 1 -> V],
           NEW out \in 0 .. n - 1, NEW e \in 1 .. n
    PROVE  /\ RingSeq(pool, n, out, e) # << >>
           /\ Head(RingSeq(pool, n, out, e)) = pool[out]
           /\ RingSeq(pool, n, (out + 1) % n, e - 1) = Tail(RingSeq(pool, n, out, e))
<1> DEFINE s == RingSeq(pool, n, out, e)
<1>1. s = [i \in 1 .. e |-> pool[(out + i - 1) % n]]
  BY DEF RingSeq
<1>2. \A i \in 1 .. e : pool[(out + i - 1) % n] \in V
  OBVIOUS
<1>3. s \in Seq(V) /\ Len(s) = e
  BY <1>1, <1>2
<1>4. s[1] = pool[out]
  <2>1. out + 1 - 1 = out /\ out % n = out
    OBVIOUS
  <2> QED BY <1>1, <2>1
<1>5. \A i \in 1 .. e - 1 : pool[(((out + 1) % n) + i - 1) % n] = s[i + 1]
  <2> TAKE i \in 1 .. e - 1
  <2>1. (out + 1) % n = IF out + 1 < n THEN out + 1 ELSE 0
    <3>1. CASE out + 1 < n
      BY <3>1
    <3>2. CASE out + 1 = n
      BY <3>2, n % n = 0
    <3> QED BY <3>1, <3>2
  <2>2. /\ out + i < n => (out + i) % n = out + i
        /\ n <= out + i => (out + i) % n = out + i - n
    <3> DEFINE x == out + i
    <3>1. x \in Nat /\ x < 2 * n
      OBVIOUS
    <3> HIDE DEF x
    <3>2. (x < n => x % n = x) /\ (n <= x => x % n = x - n)
      BY <3>1, RingPosition
    <3> QED BY <3>2 DEF x
  <2>3. (((out + 1) % n) + i - 1) % n = (out + i) % n
    BY <2>1, <2>2
  <2>4. s[i + 1] = pool[(out + (i + 1) - 1) % n]
    BY <1>1
  <2> QED BY <2>3, <2>4, out + (i + 1) - 1 = out + i
<1>6. RingSeq(pool, n, (out + 1) % n, e - 1)
        = [i \in 1 .. e - 1 |-> pool[(((out + 1) % n) + i - 1) % n]]
  BY DEF RingSeq
<1> HIDE DEF s
<1>7. Tail(s) = [i \in 1 .. e - 1 |-> s[i + 1]]
  BY <1>3
<1>8. RingSeq(pool, n, (out + 1) % n, e - 1) = Tail(s)
  BY <1>5, <1>6, <1>7
<1>9. s # << >> /\ Head(s) = s[1]
  BY <1>3
<1> QED BY <1>4, <1>8, <1>9 DEF s

\* The same where positions are counted on and places are cleared.
LEMMA RingTailCleared ==
    ASSUME NEW n \in Nat \ {0}, NEW V, NEW pool \in [0 .. n - 1 -> V],
           NEW out \in Nat, NEW e \in 1 .. n,
           NEW r, \A j \in 0 .. n - 1 : j # out % n => r[j] = pool[j]
    PROVE  TakesFirst(RingSeq(r, n, out + 1, e - 1), RingSeq(pool, n, out, e), pool[out % n])
<1> DEFINE s == RingSeq(pool, n, out, e)
<1>1. s = [i \in 1 .. e |-> pool[(out + i - 1) % n]]
  BY DEF RingSeq
<1>2. \A i \in 1 .. e : pool[(out + i - 1) % n] \in V
  OBVIOUS
<1>3. s \in Seq(V) /\ Len(s) = e
  BY <1>1, <1>2
<1>4. s[1] = pool[out % n]
  <2>1. out + 1 - 1 = out
    OBVIOUS
  <2> QED BY <1>1, <2>1
<1>5. \A i \in 1 .. e - 1 : r[(out + 1 + i - 1) % n] = s[i + 1]
  <2> TAKE i \in 1 .. e - 1
  <2>1. out + 1 + i - 1 = out + i /\ out + (i + 1) - 1 = out + i /\ i + 1 \in 1 .. e
    OBVIOUS
  <2>2. (out + i) % n \in 0 .. n - 1 /\ (out + i) % n # out % n
    <3>1. out \in Nat /\ out + i \in Nat /\ out < out + i /\ out + i < out + n
      OBVIOUS
    <3>2. out % n # (out + i) % n
      BY <3>1, PlacesDiffer
    <3> QED BY <3>1, <3>2
  <2>3. s[i + 1] = pool[(out + i) % n]
    BY <1>1, <2>1
  <2> QED BY <2>1, <2>2, <2>3
<1>6. RingSeq(r, n, out + 1, e - 1) = [i \in 1 .. e - 1 |-> r[(out + 1 + i - 1) % n]]
  BY DEF RingSeq
<1> HIDE DEF s
<1>7. Tail(s) = [i \in 1 .. e - 1 |-> s[i + 1]]
  <2>1. /\ Tail(s) \in Seq(V) /\ Len(Tail(s)) = e - 1
        /\ \A i \in 1 .. e - 1 : Tail(s)[i] = s[i + 1]
    BY <1>3
  <2>2. Tail(s) = [i \in 1 .. e - 1 |-> Tail(s)[i]]
    BY <2>1
  <2> QED BY <2>1, <2>2
<1>8. RingSeq(r, n, out + 1, e - 1) = Tail(s)
  BY <1>5, <1>6, <1>7
<1>9. s # << >> /\ Head(s) = s[1]
  BY <1>3
<1> QED BY <1>4, <1>8, <1>9 DEF s, TakesFirst

-----------------------------------------------------------------------------
(* A step seen by the lists: who moves, who is woken, who joins.           *)

\* Threads that have left the list q, with error e, and have not run since.
Out(q, e) ==
    {t \in Thread : /\ pc[t] \in {"block", "woken"} /\ on[t] = q
                    /\ k.stat[t] = "READY" /\ k.error[t] = e}

\* The kernel core wakes the threads in H with error e; the threads in T, the
\* running thread or none, join the lists in J or have their error field set.
KernelTurn(T, H, e, J) ==
    /\ KernelOK(k') /\ k'.lock = 0
    /\ k'.cur = k.cur \/ k'.stat[k'.cur] = "READY"
    /\ H \subseteq Thread /\ H \cap T = {}
    /\ \A u \in H : k.stat[u] = "SUSPEND" /\ k'.stat[u] = "READY" /\ k'.error[u] = e
    /\ \A u \in Thread \ (H \cup T) :
          /\ k'.error[u] = k.error[u]
          /\ k'.stat[u] = k.stat[u] \/ (k.stat[u] = "INIT" /\ k'.stat[u] = "READY")
    /\ \A u \in T : IF J = {} THEN k'.stat[u] = k.stat[u]
                              ELSE k'.stat[u] = "SUSPEND" /\ k'.error[u] = "EOK"
    /\ \A q \in Queue :
          ToSet(k'.wait[q]) = (ToSet(k.wait[q]) \ H) \cup (IF q \in J THEN T ELSE {})

\* Only the threads in T change places.
Moves(T) == \A u \in Thread \ T : pc'[u] = pc[u] /\ on'[u] = on[u]

\* Where the threads in T go: into a wait on the list they join, or anywhere
\* but into a wait.
Arrive(T, J) ==
    \A u \in T : IF J = {} THEN pc'[u] \notin {"block", "woken"}
                           ELSE pc'[u] = "block" /\ on'[u] \in J

\* Such a step keeps what is said of the threads and of the kernel.
LEMMA TurnCore ==
    ASSUME IpcCore, NEW T, NEW H, NEW e, NEW J, KernelTurn(T, H, e, J), Moves(T), Arrive(T, J),
           T \subseteq {k.cur}, on' \in [Thread -> Queue],
           J = {} => \A u \in T : k.stat[u] = "READY"
    PROVE  IpcCore'
<1>1. /\ k.stat \in [Thread -> Stat] /\ k.cur \in Thread /\ on \in [Thread -> Queue]
  BY DEF IpcCore, KernelOK, KernelState
<1>2. Waiting'
  <2> SUFFICES ASSUME NEW v \in Thread
               PROVE  /\ k'.stat[v] # "CLOSE"
                      /\ k'.stat[v] = "INIT" => pc'[v] = "run"
                      /\ k'.stat[v] = "SUSPEND" => /\ pc'[v] \in {"block", "woken"}
                                                   /\ v \in ToSet(k'.wait[on'[v]])
                                                   /\ k'.error[v] = "EOK"
    BY DEF Waiting
  <2>1. CASE v \in H
    BY <2>1 DEF KernelTurn
  <2>2. CASE v \in T /\ J = {}
    BY <2>2 DEF KernelTurn
  <2>3. CASE v \in T /\ J # {}
    <3>1. k'.stat[v] = "SUSPEND" /\ k'.error[v] = "EOK" /\ pc'[v] = "block" /\ on'[v] \in J
      BY <2>3 DEF KernelTurn, Arrive
    <3>2. v \in ToSet(k'.wait[on'[v]])
      BY <2>3, <3>1 DEF KernelTurn
    <3> QED BY <3>1, <3>2
  <2>4. CASE v \in Thread \ (H \cup T)
    <3>1. /\ k'.error[v] = k.error[v] /\ pc'[v] = pc[v] /\ on'[v] = on[v]
          /\ k'.stat[v] = k.stat[v] \/ k'.stat[v] = "READY"
      BY <2>4 DEF KernelTurn, Moves
    <3>2. on[v] \in Queue
      BY <1>1
    <3>3. ToSet(k.wait[on[v]]) \ H \subseteq ToSet(k'.wait[on[v]])
      BY <3>2 DEF KernelTurn
    <3> QED BY <2>4, <3>1, <3>3 DEF IpcCore, Waiting
  <2> QED BY <2>1, <2>2, <2>3, <2>4
<1>3. CurRunnable'
  <2>1. CASE k'.cur # k.cur
    BY <2>1 DEF KernelTurn, CurRunnable
  <2>2. CASE k'.cur = k.cur
    <3>1. CASE k.cur \in H
      BY <2>2, <3>1 DEF KernelTurn, CurRunnable
    <3>2. CASE k.cur \in T
      BY <2>2, <3>2 DEF KernelTurn, Arrive, CurRunnable
    <3>3. CASE k.cur \notin H \cup T
      BY <1>1, <2>2, <3>3 DEF KernelTurn, Moves, IpcCore, CurRunnable
    <3> QED BY <3>1, <3>2, <3>3
  <2> QED BY <2>1, <2>2
<1> QED BY <1>2, <1>3 DEF IpcCore, KernelTurn

\* Who is on the way out of which list after such a step.
LEMMA TurnOut ==
    ASSUME IpcCore, NEW T, NEW H, NEW e, NEW J, KernelTurn(T, H, e, J), Moves(T), Arrive(T, J)
    PROVE  \A q, f : Out(q, f)' = (Out(q, f) \ T) \cup {u \in H : on[u] = q /\ f = e}
<1> SUFFICES ASSUME NEW q, NEW f, NEW v
             PROVE  v \in Out(q, f)' <=>
                       \/ v \in Out(q, f) /\ v \notin T
                       \/ v \in H /\ on[v] = q /\ f = e
  OBVIOUS
<1>0. H \subseteq Thread /\ H \cap T = {}
  BY DEF KernelTurn
<1>1. v \in Out(q, f)' <=> /\ v \in Thread /\ pc'[v] \in {"block", "woken"} /\ on'[v] = q
                           /\ k'.stat[v] = "READY" /\ k'.error[v] = f
  BY DEF Out
<1>2. v \in Out(q, f) <=> /\ v \in Thread /\ pc[v] \in {"block", "woken"} /\ on[v] = q
                          /\ k.stat[v] = "READY" /\ k.error[v] = f
  BY DEF Out
<1>3. CASE v \in H
  <2>1. k.stat[v] = "SUSPEND" /\ k'.stat[v] = "READY" /\ k'.error[v] = e /\ v \in Thread \ T
    BY <1>0, <1>3 DEF KernelTurn
  <2>2. pc[v] \in {"block", "woken"} /\ pc'[v] = pc[v] /\ on'[v] = on[v]
    BY <2>1 DEF IpcCore, Waiting, Moves
  <2> QED BY <1>1, <1>2, <1>3, <2>1, <2>2
<1>4. CASE v \in T
  <2>1. pc'[v] \in {"block", "woken"} => k'.stat[v] = "SUSPEND"
    BY <1>4 DEF KernelTurn, Arrive
  <2> QED BY <1>0, <1>1, <1>4, <2>1
<1>5. CASE v \in Thread \ (H \cup T)
  <2>1. /\ k'.error[v] = k.error[v] /\ pc'[v] = pc[v] /\ on'[v] = on[v]
        /\ k'.stat[v] = k.stat[v] \/ (k.stat[v] = "INIT" /\ k'.stat[v] = "READY")
    BY <1>5 DEF KernelTurn, Moves
  <2>2. k.stat[v] = "INIT" => pc[v] = "run"
    BY <1>5 DEF IpcCore, Waiting
  <2> QED BY <1>1, <1>2, <1>5, <2>1, <2>2
<1> QED BY <1>0, <1>1, <1>2, <1>3, <1>4, <1>5

\* The kinds of kernel steps as such turns.
LEMMA KeptTurn ==
    ASSUME IpcCore, Kept, NEW T
    PROVE  \A e : KernelTurn(T, {}, e, {})
BY DEF Kept, KernelTurn

\* The running thread has set its error field.
LEMMA MarkedTurn ==
    ASSUME IpcCore, NEW t \in Thread, NEW x \in Error, Marked(t, x)
    PROVE  \A e : KernelTurn({t}, {}, e, {})
<1>1. k.error \in [Thread -> Error]
  BY DEF IpcCore, KernelOK, KernelState
<1>2. \A u \in Thread \ {t} : k'.error[u] = k.error[u]
  BY <1>1 DEF Marked
<1> QED BY <1>2 DEF Marked, KernelTurn

\* One waiter has been woken, by a release, a timer or a detach.
LEMMA WokenTurn ==
    ASSUME IpcCore, NEW h, NEW s, NEW x, Woken(h, s, x), NEW T, h \notin T
    PROVE  KernelTurn(T, {h}, x, {})
<1>1. k.error \in [Thread -> Error] /\ k.stat \in [Thread -> Stat]
  BY DEF IpcCore, KernelOK, KernelState
<1>2. /\ k'.stat[h] = "READY" /\ k'.error[h] = x
      /\ \A u \in Thread \ {h} : k'.error[u] = k.error[u] /\ k'.stat[u] = k.stat[u]
  BY <1>1 DEF Woken
<1>3. \A q \in Queue : ToSet(k'.wait[q]) = (ToSet(k.wait[q]) \ {h}) \cup (IF q \in {} THEN T ELSE {})
  BY DEF Woken
<1>4. \A u \in T : u \in Thread => k'.stat[u] = k.stat[u]
  BY <1>2
<1>5. \A u \in T : k'.stat[u] = k.stat[u]
  <2>1. ASSUME NEW u \in T, u \notin Thread PROVE k'.stat[u] = k.stat[u]
    BY <1>1, <2>1 DEF Woken
  <2> QED BY <1>4, <2>1
<1> QED BY <1>2, <1>3, <1>5 DEF Woken, KernelTurn

\* The running thread has joined a list.
LEMMA SuspendedTurn ==
    ASSUME IpcCore, NEW t \in Thread, NEW s \in Queue, Suspended(t, s)
    PROVE  \A e : KernelTurn({t}, {}, e, {s})
<1>1. k.error \in [Thread -> Error] /\ k.stat \in [Thread -> Stat]
  BY DEF IpcCore, KernelOK, KernelState
<1>2. /\ k'.stat[t] = "SUSPEND" /\ k'.error[t] = "EOK"
      /\ \A u \in Thread \ {t} : k'.error[u] = k.error[u] /\ k'.stat[u] = k.stat[u]
  BY <1>1 DEF Suspended
<1> QED BY <1>2 DEF Suspended, KernelTurn

\* A thread has been started.
LEMMA StartedTurn ==
    ASSUME IpcCore, NEW u \in Thread, Started(u), NEW T \in SUBSET Thread, u \notin T
    PROVE  \A e : KernelTurn(T, {}, e, {})
<1>1. k.stat \in [Thread -> Stat]
  BY DEF IpcCore, KernelOK, KernelState
<1>2. /\ k'.stat[u] = "READY" /\ k.stat[u] = "INIT" /\ k'.error = k.error
      /\ \A v \in Thread \ {u} : k'.stat[v] = k.stat[v]
  BY <1>1 DEF Started
<1> QED BY <1>2 DEF Started, KernelTurn

\* A step that lets nobody begin to wait on a detached object, and ends no
\* detach before its list is empty, leaves no waiter behind.
LEMMA TurnDetach ==
    ASSUME IpcCore, DetachLeavesNoWaiter,
           NEW T, NEW H, NEW e, NEW J, KernelTurn(T, H, e, J), J \subseteq alive,
           \A s \in Queue \ alive' :
              s \in alive => \E t \in Thread : on'[t] = s /\ pc'[t] \in Detaching,
           \A u \in Thread : pc[u] \in Detaching =>
              \/ pc'[u] \in Detaching /\ on'[u] = on[u]
              \/ k.wait[on[u]] = << >>
    PROVE  DetachLeavesNoWaiter'
<1>1. ASSUME NEW s \in Queue, k.wait[s] = << >>, s \notin alive PROVE k'.wait[s] = << >>
  <2>1. k'.wait[s] \in Seq(Thread) /\ k.wait[s] \in Seq(Thread)
    BY DEF KernelTurn, KernelOK, KernelState, IpcCore
  <2>2. ToSet(k.wait[s]) = {} /\ s \notin J
    BY <1>1, <2>1, ListEmpty
  <2>3. ToSet(k'.wait[s]) = {}
    BY <2>2 DEF KernelTurn
  <2> QED BY <2>1, <2>3, ListEmpty
<1> SUFFICES ASSUME NEW s \in Queue \ alive'
             PROVE  \/ k'.wait[s] = << >>
                    \/ \E t \in Thread : on'[t] = s /\ pc'[t] \in Detaching
  BY DEF DetachLeavesNoWaiter, Detaching
<1>2. CASE s \in alive
  BY <1>2
<1>3. CASE s \notin alive
  <2>1. CASE k.wait[s] = << >>
    BY <1>1, <1>3, <2>1
  <2>2. CASE \E t \in Thread : on[t] = s /\ pc[t] \in Detaching
    <3>1. PICK t \in Thread : on[t] = s /\ pc[t] \in Detaching
      BY <2>2
    <3>2. CASE k.wait[s] = << >>
      BY <1>1, <1>3, <3>2
    <3>3. CASE pc'[t] \in Detaching /\ on'[t] = on[t]
      BY <3>1, <3>3
    <3> QED BY <3>1, <3>2, <3>3
  <2> QED BY <1>3, <2>1, <2>2 DEF DetachLeavesNoWaiter, Detaching
<1> QED BY <1>2, <1>3

\* The calling thread joins the front of a list, in a call that keeps its
\* waiters as a stack.
LEMMA HeadSuspends ==
    ASSUME IpcCore, NEW t \in Thread \ {Idle}, k.stat[t] = "READY", NEW q \in Queue,
           NEW c, SamePlaces(c), c.error = [k.error EXCEPT ![t] = "EOK"], NEW time,
           NEW s, s = rt_thread_suspend(c, t),
           NEW w, w = [s EXCEPT !.wait[q] = <<t>> \o @],
           k' = IF time > 0 THEN StartThreadTimer(w, t) ELSE w
    PROVE  Suspended(t, q)
<1>1. KernelOK(c) /\ c.stat[t] = "READY" /\ c.lock = 0 /\ c.stat = k.stat /\ c.wait = k.wait /\ c.cur = k.cur
  BY DEF IpcCore, SamePlaces
<1>2. /\ KernelOK(s)
      /\ s.stat = [c.stat EXCEPT ![t] = "SUSPEND"]
      /\ s.wait = c.wait /\ s.error = c.error /\ s.cur = c.cur /\ s.lock = c.lock
      /\ \A o \in Queue : t \notin ToSet(s.wait[o])
  BY <1>1, SuspendOK
<1>3. /\ s.wait[q] \in Seq(Thread) /\ IsInjective(s.wait[q]) /\ s.stat[t] = "SUSPEND"
  BY <1>1, <1>2 DEF KernelOK, KernelState, KernelInv, NoDuplicates
<1> DEFINE l == <<t>> \o s.wait[q]
<1>4. l \in Seq(Thread) /\ IsInjective(l) /\ ToSet(l) = ToSet(s.wait[q]) \cup {t}
  <2>1. t \in Thread /\ t \notin ToSet(s.wait[q])
    BY <1>2
  <2> DEFINE z == s.wait[q]
  <2>2. z \in Seq(Thread) /\ IsInjective(z) /\ t \notin ToSet(z)
    BY <1>3, <2>1
  <2> HIDE DEF z
  <2>3. <<t>> \o z \in Seq(Thread) /\ IsInjective(<<t>> \o z) /\ ToSet(<<t>> \o z) = ToSet(z) \cup {t}
    BY ONLY <2>1, <2>2, ListPrepend
  <2> QED BY <2>3 DEF z
<1>5. w = [s EXCEPT !.wait[q] = l]
  OBVIOUS
<1> HIDE DEF l
<1>6. /\ KernelOK(w)
      /\ w.wait[q] = l /\ \A o \in Queue \ {q} : w.wait[o] = s.wait[o]
      /\ w.stat = s.stat /\ w.error = s.error /\ w.cur = s.cur /\ w.lock = s.lock
  <2>1. LET r == [s EXCEPT !.wait[q] = l] IN
        /\ KernelOK(r)
        /\ r.wait[q] = l /\ \A o \in Queue \ {q} : r.wait[o] = s.wait[o]
        /\ r.stat = s.stat /\ r.prio = s.prio /\ r.error = s.error /\ r.timer = s.timer
        /\ r.cur = s.cur /\ r.lock = s.lock
    <3>1. /\ KernelOK(s) /\ t \in Thread /\ s.stat[t] = "SUSPEND" /\ q \in Queue
          /\ \A o \in Queue : t \notin ToSet(s.wait[o])
      BY <1>2, <1>3
    <3> QED BY ONLY <3>1, <1>4, JoinListOK
  <2> QED BY <1>5, <2>1
<1>7. /\ KernelOK(k') /\ k'.stat = w.stat /\ k'.error = w.error /\ k'.wait = w.wait
      /\ k'.cur = w.cur /\ k'.lock = w.lock
  <2>0. KernelOK(w) /\ t \in Thread /\ w.stat[t] = "SUSPEND"
    BY <1>3, <1>6
  <2>1. CASE time > 0
    <3>1. k' = StartThreadTimer(w, t)
      BY <2>1
    <3> QED BY ONLY <2>0, <3>1, StartTimerOK
  <2>2. CASE ~(time > 0)
    BY <1>6, <2>2
  <2> QED BY <2>1, <2>2
<1>8. c.error = [k.error EXCEPT ![t] = "EOK"]
  OBVIOUS
<1> QED BY ONLY <1>1, <1>2, <1>4, <1>6, <1>7, <1>8 DEF Suspended

-----------------------------------------------------------------------------
(* Turns of the threads in T, at most the running one.                     *)

Step(T, H, e, J) ==
    /\ KernelTurn(T, H, e, J) /\ Moves(T) /\ Arrive(T, J)
    /\ T \subseteq {k.cur} \ {Idle} /\ \A u \in T : k.stat[u] = "READY"
    /\ on' \in [Thread -> Queue]

\* Such a step keeps what is said of the threads and of the kernel.
LEMMA StepCore ==
    ASSUME IpcCore, NEW T, NEW H, NEW e, NEW J, Step(T, H, e, J)
    PROVE  IpcCore'
BY TurnCore DEF Step

\* Who waits on which list, and who is on the way out of it, after such a step.
LEMMA StepOut ==
    ASSUME IpcCore, NEW T, NEW H, NEW e, NEW J, Step(T, H, e, J)
    PROVE  \A q \in Queue :
              /\ ToSet(k'.wait[q]) = (ToSet(k.wait[q]) \ H) \cup (IF q \in J THEN T ELSE {})
              /\ \A f : Out(q, f)' = (Out(q, f) \ T) \cup {u \in H : on[u] = q /\ f = e}
<1>1. \A q, f : Out(q, f)' = (Out(q, f) \ T) \cup {u \in H : on[u] = q /\ f = e}
  BY TurnOut DEF Step
<1> QED BY <1>1 DEF Step, KernelTurn

\* Nothing happens to the list q.
Still(q) ==
    /\ ToSet(k'.wait[q]) = ToSet(k.wait[q])
    /\ \A f : Out(q, f)' = Out(q, f)

\* Nothing happens to a list nobody joins, is woken from or comes from.
LEMMA StepStill ==
    ASSUME IpcCore, NEW T, NEW H, NEW e, NEW J, Step(T, H, e, J), NEW q \in Queue \ J,
           \A u \in H : on[u] # q,
           \A u \in T : pc[u] \in {"block", "woken"} => on[u] # q
    PROVE  Still(q)
<1>1. /\ ToSet(k'.wait[q]) = ToSet(k.wait[q]) \ H
      /\ \A f : Out(q, f)' = (Out(q, f) \ T) \cup {u \in H : on[u] = q /\ f = e}
  BY StepOut
<1>2. ToSet(k.wait[q]) \cap H = {}
  BY WaiterOn DEF Step, KernelTurn
<1>3. \A f : Out(q, f) \cap T = {}
  BY DEF Out
<1> QED BY <1>1, <1>2, <1>3 DEF Still

\* rt_schedule at the end of a call or in a blocking one moves its caller on and
\* changes nobody's place.
LEMMA RescheduleStill ==
    ASSUME IpcCore, NEW t \in Thread, Reschedule(t), on' = on, NEW S, pc \in [Thread -> S]
    PROVE  IpcCore' /\ \A q \in Queue : Still(q)
<1>1. Kept /\ k'.stat[k'.cur] = "READY"
  BY ScheduleKept DEF Reschedule
<1>2. /\ \A u \in Thread \ {t} : pc'[u] = pc[u]
      /\ pc[t] = "block" => pc'[t] = "woken"
      /\ pc[t] # "block" => pc'[t] = "run" /\ pc[t] = "resched"
  BY DEF Reschedule, Goto, At
<1>3. \A u \in Thread : pc'[u] \in {"block", "woken"} <=> pc[u] \in {"block", "woken"}
  BY <1>2
<1>4. \A q \in Queue : Still(q)
  BY <1>1, <1>3 DEF Kept, Still, Out
<1>5. Waiting'
  BY <1>1, <1>2, <1>3 DEF Kept, Waiting, IpcCore
<1>6. CurRunnable'
  BY <1>1 DEF CurRunnable
<1> QED BY <1>1, <1>4, <1>5, <1>6 DEF IpcCore, Kept
=============================================================================
