-------------------------- MODULE SemaphoreProofs --------------------------
(***************************************************************************)
(* Theorems about module Semaphore, for any number of threads, semaphores  *)
(* and priorities.  TypeOK, KernelConsistent, NoLostThread and             *)
(* TokensConserved are not inductive by themselves: SemInv adds that a     *)
(* suspended thread carries no error and that rt_current_thread is ready   *)
(* or has just suspended itself.                                           *)
(***************************************************************************)
EXTENDS Semaphore, IpcProofs, FiniteSetTheorems

Core == TypeOK /\ IpcCore

SemInv == Core /\ NoWaiterWhileAvailable /\ DetachLeavesNoWaiter

USE DEF Core, Sem

\* Every part of the invariant holds initially.
LEMMA InitInv == Init => SemInv
<1> SUFFICES ASSUME Init PROVE SemInv
  OBVIOUS
<1>1. IpcCore /\ DetachLeavesNoWaiter /\ KernelOK(k)
  BY IpcInitCore DEF Init, IpcCore
<1>2. \A q \in Queue : k.wait[q] = << >>
  BY DEF Init, IpcInit, ThreadsInit, BootState
<1>3. TypeOK
  <2>1. (CHOOSE q \in Queue : TRUE) \in Queue
    BY QueueAssumption
  <2>2. value \in [Sem -> 0 .. ValueModulus - 1]
    BY SemAssumption DEF Init
  <2>3. tokens \in [Sem -> Int]
    BY <2>2, SemAssumption DEF Init
  <2> QED BY <1>1, <2>1, <2>2, <2>3 DEF Init, IpcInit, ThreadsInit, TypeOK, KernelOK, Pcs, Sem
<1>4. NoWaiterWhileAvailable
  BY <1>2 DEF NoWaiterWhileAvailable
<1> QED BY <1>1, <1>3, <1>4 DEF SemInv

-----------------------------------------------------------------------------
(* Steps that suspend a thread.                                            *)

\* rt_sem_take that has to wait.
LEMMA TakeWaitSuspends ==
    ASSUME Core, NEW t \in Thread, NEW s \in Sem, NEW time \in {-1, 0, 1},
           Calls(t), TakeWait(t, s, time)
    PROVE  /\ Suspended(t, s) /\ k'.prio = k.prio
           /\ flag[s] = "PRIO" => KeepsSorted(k.prio)
<1> DEFINE e == [k EXCEPT !.error[t] = "EOK"]
<1>1. KernelOK(k) /\ k.lock = 0 /\ t # Idle /\ k.stat[t] = "READY" /\ k.cur = t /\ s \in Queue
  BY CallerReady DEF IpcCore, Calls, At
<1>2. /\ KernelOK(e) /\ e.error = [k.error EXCEPT ![t] = "EOK"]
      /\ e.stat = k.stat /\ e.prio = k.prio /\ e.wait = k.wait
      /\ e.timer = k.timer /\ e.cur = k.cur /\ e.lock = k.lock
  <2>1. "EOK" \in Error
    BY DEF Error
  <2> QED BY <1>1, <2>1, SetErrorOK
<1>3. k' = IF time > 0 THEN StartThreadTimer(rt_ipc_list_suspend(e, s, t, flag[s]), t)
                       ELSE rt_ipc_list_suspend(e, s, t, flag[s])
  BY DEF TakeWait
<1> HIDE DEF e
<1>4. SamePlaces(e)
  BY <1>2 DEF SamePlaces
<1>5. Suspended(t, s) /\ k'.prio = e.prio /\ (flag[s] = "PRIO" => KeepsSorted(e.prio))
  BY <1>1, <1>2, <1>3, <1>4, ListSuspends
<1> QED BY <1>2, <1>5

-----------------------------------------------------------------------------
(* Steps that preserve the invariant.                                      *)

\* A value becomes positive only while nobody waits.
PutRespectsWaiters ==
    \A s \in Sem : value'[s] > 0 => value[s] > 0 \/ k.wait[s] = << >>

\* Benign steps preserve the whole invariant.
LEMMA BenignStep ==
    ASSUME SemInv, TypeOK', Benign, PutRespectsWaiters, Wakeful
    PROVE  SemInv'
<1>1. Core'
  BY BenignCore DEF SemInv, TypeOK
<1>2. \A s \in Sem : k.wait[s] = << >> => k'.wait[s] = << >>
  BY EmptyStays DEF SemInv
<1>3. NoWaiterWhileAvailable'
  BY <1>2 DEF SemInv, NoWaiterWhileAvailable, PutRespectsWaiters
<1>4. DetachLeavesNoWaiter'
  BY BenignDetach DEF SemInv
<1> QED BY <1>1, <1>3, <1>4 DEF SemInv

\* rt_sem_take that waits preserves the invariant: it is only reached with no
\* token available, on a semaphore whose detach has not begun.
LEMMA TakeWaitStep ==
    ASSUME SemInv, NEW t \in Thread, NEW s \in alive, NEW time \in {-1, 0, 1},
           Calls(t), TakeWait(t, s, time), UNCHANGED <<flag, alive, fault>>
    PROVE  SemInv'
<1>1. s \in Sem /\ Core
  BY DEF SemInv, IpcCore, TypeOK
<1>2. Suspended(t, s)
  BY <1>1, TakeWaitSuspends
<1>3. /\ k.stat \in [Thread -> Stat] /\ k.error \in [Thread -> Error] /\ k.cur = t
      /\ on \in [Thread -> Sem] /\ pc \in [Thread -> Pcs] /\ pc[t] = "run"
  BY <1>1 DEF IpcCore, TypeOK, KernelState, CallsOn, Calls, At
<1>4. /\ on' = [on EXCEPT ![t] = s] /\ pc' = [pc EXCEPT ![t] = "block"]
      /\ value' = value /\ tokens' = tokens /\ value[s] = 0
  BY DEF TakeWait, Goto
<1>5. /\ on'[t] = s /\ pc'[t] = "block"
      /\ \A u \in Thread \ {t} : on'[u] = on[u] /\ pc'[u] = pc[u]
  BY <1>3, <1>4
<1>6. TypeOK'
  <2>1. on' \in [Thread -> Sem] /\ pc' \in [Thread -> Pcs]
    BY <1>1, <1>3, <1>4 DEF Pcs
  <2> QED BY <1>1, <1>2, <1>4, <2>1 DEF TypeOK, Suspended, KernelOK
<1>7. IpcCore' /\ DetachLeavesNoWaiter'
  BY <1>1, <1>2, <1>3, <1>4, SuspendCore DEF SemInv
<1>8. \A q \in Sem \ {s} : k'.wait[q] = k.wait[q]
  BY <1>2 DEF Suspended
<1>9. NoWaiterWhileAvailable'
  BY <1>4, <1>8 DEF SemInv, NoWaiterWhileAvailable
<1> QED BY <1>6, <1>7, <1>9 DEF SemInv

\* The rt_schedule at the end of a call, or that the thread blocks in,
\* preserves the invariant.
LEMMA RescheduleStep ==
    ASSUME SemInv, NEW t \in Thread, StepReschedule(t)
    PROVE  SemInv'
<1>1. /\ Core /\ k.cur = t /\ pc[t] \in {"resched", "block"} /\ k' = rt_schedule(k)
      /\ pc' = [pc EXCEPT ![t] = IF pc[t] = "block" THEN "woken" ELSE "run"]
      /\ UNCHANGED <<svars, tokens>>
  BY DEF SemInv, StepReschedule, Reschedule, At, Goto
<1>2. IpcCore' /\ DetachLeavesNoWaiter' /\ Kept
  BY <1>1, RescheduleCore DEF SemInv, TypeOK, StepReschedule, svars
<1>3. pc \in [Thread -> Pcs] /\ pc' \in [Thread -> Pcs]
  BY <1>1 DEF TypeOK, Pcs
<1>4. TypeOK'
  BY <1>1, <1>2, <1>3 DEF TypeOK, svars, Kept, KernelOK
<1>5. NoWaiterWhileAvailable'
  BY <1>1, <1>2 DEF SemInv, NoWaiterWhileAvailable, Kept, svars
<1> QED BY <1>2, <1>4, <1>5 DEF SemInv

\* The calls and steps of a thread that leave the kernel core alone.
LEMMA LocalStep ==
    ASSUME SemInv, NEW t \in Thread, ~ fault,
           \/ TakeReturn(t)
           \/ \E v \in ResetValue : ResetValueTo(t, v)
           \/ DetachTest(t)
           \/ \E s \in Sem : Control(t, s) \/ Detach(t, s)
    PROVE  SemInv'
<1>1. Core /\ k' = k /\ k.cur = t /\ pc[t] # "block"
  BY DEF SemInv, TakeReturn, ResetValueTo, DetachTest, ResumeAllTest, Control, Detach, ResumeAll, CallsOn, Calls, At
<1>2. Kept /\ k.stat[t] = "READY"
  BY <1>1, UnchangedKept, CallerReady
<1>3. /\ pc \in [Thread -> Pcs] /\ on \in [Thread -> Sem] /\ k \in KernelState
      /\ value \in [Sem -> 0 .. ValueModulus - 1] /\ tokens \in [Sem -> Int]
      /\ flag \in [Sem -> {"FIFO", "PRIO"}] /\ alive \subseteq Sem /\ fault \in BOOLEAN
  BY <1>1 DEF IpcCore, TypeOK
<1>4. CASE TakeReturn(t)
  <2>1. /\ pc' = [pc EXCEPT ![t] = "run"] /\ pc[t] = "woken"
        /\ tokens' = tokens \/ tokens' = [tokens EXCEPT ![on[t]] = @ - 1]
        /\ value' = value /\ flag' = flag /\ alive' = alive /\ on' = on /\ fault' = fault
    BY <1>4 DEF TakeReturn, Obtained, Goto, svars, At
  <2>2. TypeOK'
    BY <1>1, <1>3, <2>1 DEF TypeOK, Pcs
  <2>3. Benign /\ PutRespectsWaiters
    BY <1>2, <1>3, <2>1 DEF PutRespectsWaiters, Benign, Detaching
  <2> QED BY <1>2, <2>2, <2>3, BenignStep DEF Wakeful
<1>5. CASE \E v \in ResetValue : ResetValueTo(t, v)
  <2>1. PICK v \in ResetValue : ResetValueTo(t, v)
    BY <1>5
  <2>2. /\ pc' = [pc EXCEPT ![t] = "resched"] /\ pc[t] = "reset" /\ k.wait[on[t]] = << >>
        /\ value' = [value EXCEPT ![on[t]] = v]
        /\ tokens' = [tokens EXCEPT ![on[t]] = @ - value[on[t]] + v]
        /\ flag' = flag /\ alive' = alive /\ on' = on /\ fault' = fault
    BY <2>1 DEF ResetValueTo, Goto, At
  <2>3. TypeOK'
    <3>1. v \in 0 .. ValueModulus - 1 /\ value[on[t]] \in Int
      BY <1>3, SemAssumption
    <3>2. value' \in [Sem -> 0 .. ValueModulus - 1] /\ tokens' \in [Sem -> Int]
      BY <1>3, <2>2, <3>1
    <3> QED BY <1>1, <1>3, <2>2, <3>2 DEF TypeOK, Pcs
  <2>4. Benign /\ PutRespectsWaiters
    BY <1>2, <1>3, <2>2 DEF PutRespectsWaiters, Benign, Detaching
  <2> QED BY <1>2, <2>3, <2>4, BenignStep DEF Wakeful
<1>6. CASE DetachTest(t)
  <2>1. /\ pc[t] = "detach_test"
        /\ pc' = [pc EXCEPT ![t] = IF k.wait[on[t]] = << >> THEN "run" ELSE "detach_resume"]
        /\ value' = value /\ flag' = flag /\ alive' = alive /\ on' = on /\ fault' = fault
        /\ tokens' = tokens
    BY <1>6 DEF DetachTest, ResumeAllTest, Goto, svars, At
  <2>2. TypeOK'
    BY <1>1, <1>3, <2>1 DEF TypeOK, Pcs
  <2>3. Benign /\ PutRespectsWaiters
    BY <1>2, <1>3, <2>1 DEF PutRespectsWaiters, Benign, Detaching
  <2> QED BY <1>2, <2>2, <2>3, BenignStep DEF Wakeful
<1>7. CASE \E s \in Sem : Control(t, s)
  <2>1. PICK s \in Sem : Control(t, s)
    BY <1>7
  <2>2. /\ pc[t] = "run" /\ pc' = [pc EXCEPT ![t] = "reset"] /\ on' = [on EXCEPT ![t] = s]
        /\ value' = value /\ flag' = flag /\ alive' = alive /\ fault' = fault
        /\ tokens' = tokens
    BY <2>1 DEF Control, Goto, CallsOn, Calls, At
  <2>3. TypeOK'
    BY <1>1, <1>3, <2>2 DEF TypeOK, Pcs
  <2>4. Benign /\ PutRespectsWaiters
    BY <1>2, <1>3, <2>2 DEF PutRespectsWaiters, Benign, Detaching
  <2> QED BY <1>2, <2>3, <2>4, BenignStep DEF Wakeful
<1>8. CASE \E s \in Sem : Detach(t, s)
  <2>1. PICK s \in Sem : Detach(t, s)
    BY <1>8
  <2>2. /\ pc[t] = "run" /\ pc' = [pc EXCEPT ![t] = "detach_test"]
        /\ on' = [on EXCEPT ![t] = s] /\ alive' = alive \ {s}
        /\ value' = value /\ flag' = flag /\ fault' = fault /\ tokens' = tokens
    BY <2>1 DEF Detach, ResumeAll, Goto, CallsOn, Calls, At
  <2>3. TypeOK'
    BY <1>1, <1>3, <2>2 DEF TypeOK, Pcs
  <2>4. on'[t] = s /\ pc'[t] = "detach_test"
    BY <1>3, <2>2
  <2>5. Benign /\ PutRespectsWaiters
    BY <1>2, <1>3, <2>2, <2>4 DEF PutRespectsWaiters, Benign, Detaching
  <2> QED BY <1>2, <2>3, <2>5, BenignStep DEF Wakeful
<1> QED BY <1>4, <1>5, <1>6, <1>7, <1>8
\* rt_sem_take that need not wait.
LEMMA TakeNowStep ==
    ASSUME SemInv, NEW t \in Thread, NEW s \in Sem, NEW time \in {-1, 0, 1},
           TakeAvailable(t, s) \/ TakeNoWait(s, time), UNCHANGED <<flag, alive, fault>>
    PROVE  SemInv'
<1>1. Core /\ k' = k /\ pc' = pc /\ on' = on
  BY DEF SemInv, TakeAvailable, TakeNoWait, kvars
<1>2. /\ value \in [Sem -> 0 .. ValueModulus - 1] /\ tokens \in [Sem -> Int]
      /\ ValueModulus \in Nat
  BY <1>1, SemAssumption DEF IpcCore, TypeOK
<1>3. CASE TakeAvailable(t, s)
  <2>1. /\ value[s] > 0 /\ value' = [value EXCEPT ![s] = @ - 1]
        /\ tokens' = [tokens EXCEPT ![s] = @ - 1]
    BY <1>3 DEF TakeAvailable, Obtained
  <2>2. value' \in [Sem -> 0 .. ValueModulus - 1] /\ tokens' \in [Sem -> Int]
    BY <1>2, <2>1
  <2>3. \A q \in Sem : value'[q] > 0 => value[q] > 0
    BY <1>2, <2>1
  <2>4. TypeOK'
    BY <1>1, <2>2 DEF IpcCore, TypeOK
  <2>5. Benign /\ PutRespectsWaiters
    BY <1>1, <2>3 DEF PutRespectsWaiters, Benign
  <2> QED BY <1>1, <2>4, <2>5, UnchangedKept, BenignStep DEF Wakeful
<1>4. CASE TakeNoWait(s, time)
  <2>1. value' = value /\ tokens' = tokens
    BY <1>4 DEF TakeNoWait
  <2>2. TypeOK'
    BY <1>1, <2>1 DEF IpcCore, TypeOK
  <2>3. Benign /\ PutRespectsWaiters
    BY <1>1, <2>1 DEF PutRespectsWaiters, Benign
  <2> QED BY <1>1, <2>2, <2>3, UnchangedKept, BenignStep DEF Wakeful
<1> QED BY <1>3, <1>4

\* The value a release stores is one a rt_uint16_t holds.
LEMMA PutType ==
    ASSUME TypeOK, NEW s \in Sem, Put(s)
    PROVE  /\ value' \in [Sem -> 0 .. ValueModulus - 1]
           /\ \A q \in Sem \ {s} : value'[q] = value[q]
           /\ value'[s] = (value[s] + 1) % ValueModulus
<1>1. value \in [Sem -> 0 .. ValueModulus - 1] /\ ValueModulus \in Nat /\ ValueModulus > 0
  BY SemAssumption DEF TypeOK
<1>2. value[s] + 1 \in Nat
  BY <1>1
<1>3. (value[s] + 1) % ValueModulus \in 0 .. ValueModulus - 1
  BY <1>1, <1>2
<1> QED BY <1>1, <1>3 DEF Put

\* A release, by a thread or an interrupt, preserves the invariant.
LEMMA ReleaseStep ==
    ASSUME SemInv, NEW s \in Sem, Issued(s), UNCHANGED <<flag, alive, on, fault>>,
           \A u \in Thread : k.stat[u] # "READY" => pc'[u] = pc[u],
           \A u \in Thread : pc[u] \in Detaching => pc'[u] = pc[u],
           pc' \in [Thread -> Pcs],
           \/ /\ k.wait[s] # << >> /\ value' = value
              /\ \/ k' = rt_ipc_list_resume(k, s)
                 \/ k' = rt_schedule(rt_ipc_list_resume(k, s))
           \/ k.wait[s] = << >> /\ Put(s) /\ k' = k
    PROVE  SemInv'
<1>1. Core /\ TypeOK
  BY DEF SemInv, IpcCore
<1>2. tokens' \in [Sem -> Int]
  BY <1>1 DEF TypeOK, Issued
<1>3. CASE k.wait[s] # << >> /\ value' = value /\ k' # k
  <2>1. PICK h \in Thread : Woken(h, s, "EOK")
    <3>1. Woken(Head(k.wait[s]), s, "EOK")
      BY <1>1, <1>3, ReleaseWakesNow
    <3> QED BY <3>1 DEF Woken
  <2>2. "EOK" \in Error
    BY DEF Error
  <2>3. TypeOK'
    BY <1>1, <1>2, <1>3, <2>1 DEF TypeOK, Woken, KernelOK
  <2>4. Benign /\ PutRespectsWaiters
    BY <1>3 DEF PutRespectsWaiters, Benign
  <2> QED BY <2>1, <2>2, <2>3, <2>4, BenignStep DEF Wakeful
<1>4. CASE k.wait[s] = << >> /\ Put(s) /\ k' = k
  <2>1. /\ value' \in [Sem -> 0 .. ValueModulus - 1]
        /\ \A q \in Sem \ {s} : value'[q] = value[q]
    BY <1>1, <1>4, PutType
  <2>2. TypeOK'
    BY <1>1, <1>2, <1>4, <2>1 DEF TypeOK
  <2>3. Benign /\ PutRespectsWaiters
    BY <1>4, <2>1 DEF PutRespectsWaiters, Benign
  <2> QED BY <1>1, <1>4, <2>2, <2>3, UnchangedKept, BenignStep DEF Wakeful
<1>5. CASE k.wait[s] # << >> /\ value' = value /\ k' = k
  <2>1. TypeOK'
    BY <1>1, <1>2, <1>5 DEF TypeOK
  <2>2. Benign /\ PutRespectsWaiters
    BY <1>5 DEF PutRespectsWaiters, Benign
  <2> QED BY <1>1, <1>5, <2>1, <2>2, UnchangedKept, BenignStep DEF Wakeful
<1> QED BY <1>3, <1>4, <1>5

\* The loops that wake every waiter with an error preserve the invariant.
LEMMA WakeAllStep ==
    ASSUME SemInv, NEW t \in Thread, ResetOne(t) \/ DetachResume(t)
    PROVE  SemInv'
<1>1. /\ Core /\ TypeOK /\ on[t] \in Sem /\ k.cur = t /\ pc[t] \in {"reset", "detach_resume"}
      /\ value' = value /\ flag' = flag /\ alive' = alive /\ on' = on /\ tokens' = tokens
      /\ pc \in [Thread -> Pcs]
  BY DEF SemInv, IpcCore, TypeOK, ResetOne, DetachResume, ResumeAllOne, At, svars
<1>2. k.stat[t] = "READY"
  BY <1>1, CallerReady
<1>3. /\ pc' \in [Thread -> Pcs] /\ \A u \in Thread \ {t} : pc'[u] = pc[u]
      /\ pc[t] \in Detaching => pc'[t] \in Detaching
      /\ fault' \in BOOLEAN
  BY <1>1 DEF ResetOne, DetachResume, ResumeAllOne, At, Goto, Pcs, TypeOK, svars, Detaching
<1>4. Benign /\ PutRespectsWaiters
  BY <1>1, <1>2, <1>3 DEF PutRespectsWaiters, Benign
<1>5. CASE k.wait[on[t]] # << >>
  <2>1. k' = ResumeWithError(k, on[t])
    BY <1>5 DEF ResetOne, DetachResume, ResumeAllOne
  <2>2. PICK h \in Thread : Woken(h, on[t], "ERROR")
    <3>1. Woken(Head(k.wait[on[t]]), on[t], "ERROR")
      BY <1>1, <1>5, <2>1, ErrorWakes
    <3> QED BY <3>1 DEF Woken
  <2>3. "ERROR" \in Error
    BY DEF Error
  <2>4. TypeOK'
    BY <1>1, <1>3, <2>2 DEF TypeOK, Woken, KernelOK
  <2> QED BY <1>1, <1>4, <2>2, <2>3, <2>4, BenignStep DEF Wakeful
<1>6. CASE k.wait[on[t]] = << >>
  <2>1. k' = k
    BY <1>6 DEF ResetOne, DetachResume, ResumeAllOne
  <2>2. TypeOK'
    BY <1>1, <1>3, <2>1 DEF TypeOK
  <2> QED BY <1>1, <1>4, <2>1, <2>2, UnchangedKept, BenignStep DEF Wakeful
<1> QED BY <1>5, <1>6

\* Interrupts and thread startup preserve the invariant.
LEMMA InterruptStep ==
    ASSUME SemInv,
           \/ TickStep
           \/ \E t \in Thread : TimeoutStep(t)
           \/ \E t, u \in Thread : StartupStep(t, u)
    PROVE  SemInv'
<1>1. Core /\ TypeOK
  BY DEF SemInv, IpcCore
<1>2. /\ value' = value /\ flag' = flag /\ alive' = alive /\ on' = on /\ tokens' = tokens
      /\ fault' = fault
  BY DEF TickStep, TimeoutStep, StartupStep, svars
<1>3. CASE TickStep
  <2>1. Kept /\ pc' = pc
    BY <1>1, <1>3, ScheduleKept DEF TickStep, SliceExpired
  <2>2. TypeOK'
    BY <1>1, <1>2, <2>1 DEF TypeOK, Kept, KernelOK
  <2>3. Benign /\ PutRespectsWaiters
    BY <1>2, <2>1 DEF PutRespectsWaiters, Benign
  <2> QED BY <2>1, <2>2, <2>3, BenignStep DEF Wakeful
<1>4. CASE \E t \in Thread : TimeoutStep(t)
  <2>1. PICK t \in Thread : Timeout(t) /\ pc' = pc
    BY <1>4 DEF TimeoutStep, Timeout
  <2>2. Woken(t, on[t], "ETIMEOUT") /\ on[t] \in Sem /\ "ETIMEOUT" \in Error
    BY <1>1, <2>1, TimeoutWakes DEF TypeOK, Error
  <2>3. TypeOK'
    BY <1>1, <1>2, <2>1, <2>2 DEF TypeOK, Woken, KernelOK
  <2>4. Benign /\ PutRespectsWaiters
    BY <1>2, <2>1 DEF PutRespectsWaiters, Benign
  <2> QED BY <2>2, <2>3, <2>4, BenignStep DEF Wakeful
<1>5. CASE \E t, u \in Thread : StartupStep(t, u)
  <2>1. PICK t \in Thread, u \in Thread : Startup(t, u)
    BY <1>5 DEF StartupStep
  <2>2. /\ k.cur = t /\ pc[t] = "run" /\ pc' = [pc EXCEPT ![t] = "resched"]
        /\ pc \in [Thread -> Pcs] /\ k.stat[t] = "READY"
    <3>1. k.cur = t /\ pc[t] = "run" /\ pc' = [pc EXCEPT ![t] = "resched"]
      BY <2>1 DEF Startup, CallsOn, Calls, At, Goto
    <3> QED BY <1>1, <3>1, CallerReady DEF TypeOK
  <2>3. Started(u)
    BY <1>1, <2>1, StartupStarts
  <2>4. TypeOK'
    BY <1>1, <1>2, <2>2, <2>3 DEF TypeOK, Started, KernelOK, Pcs
  <2>5. Benign /\ PutRespectsWaiters
    BY <1>2, <2>2 DEF PutRespectsWaiters, Benign, Detaching
  <2> QED BY <2>3, <2>4, <2>5, BenignStep DEF Wakeful
<1> QED BY <1>3, <1>4, <1>5

\* Every step preserves the invariant.
LEMMA NextInv == SemInv /\ [Next]_vars => SemInv'
<1> SUFFICES ASSUME SemInv, [Next]_vars PROVE SemInv'
  OBVIOUS
<1>1. CASE UNCHANGED vars
  <2>1. /\ k' = k /\ pc' = pc /\ value' = value /\ flag' = flag /\ alive' = alive
        /\ on' = on /\ fault' = fault /\ tokens' = tokens
    BY <1>1 DEF vars, kvars, svars
  <2> QED BY <2>1 DEF SemInv, IpcCore, TypeOK, Waiting, CurRunnable, NoWaiterWhileAvailable,
                      DetachLeavesNoWaiter
<1>2. ASSUME NEW t \in Thread, ~ fault, ThreadStep(t) PROVE SemInv'
  BY <1>2, RescheduleStep, LocalStep, WakeAllStep DEF ThreadStep
<1>3. ASSUME NEW t \in Thread, ~ fault, ThreadCall(t) PROVE SemInv'
  <2>1. CASE \E u \in Thread : StartupStep(t, u)
    BY <2>1, InterruptStep
  <2>2. CASE \E s \in Sem : Control(t, s) \/ Detach(t, s)
    BY <1>3, <2>2, LocalStep
  <2>3. ASSUME NEW s \in Sem, NEW time \in {-1, 0, 1}, rt_sem_take(t, s, time) PROVE SemInv'
    <3>1. /\ Calls(t) /\ s \in alive /\ UNCHANGED <<flag, alive, fault>>
          /\ TakeAvailable(t, s) \/ TakeNoWait(s, time) \/ TakeWait(t, s, time)
      BY <2>3 DEF rt_sem_take, CallsOn
    <3>2. CASE TakeWait(t, s, time)
      BY <3>1, <3>2, TakeWaitStep
    <3>3. CASE TakeAvailable(t, s) \/ TakeNoWait(s, time)
      BY <3>1, <3>3, TakeNowStep
    <3> QED BY <3>1, <3>2, <3>3
  <2>4. ASSUME NEW s \in Sem, Release(t, s) PROVE SemInv'
    <3>1. /\ Core /\ k.cur = t /\ pc[t] = "run" /\ pc \in [Thread -> Pcs]
      BY <2>4 DEF Release, CallsOn, Calls, At, SemInv, IpcCore, TypeOK
    <3>2. k.stat[t] = "READY"
      BY <3>1, CallerReady
    <3>3. pc' = pc \/ pc' = [pc EXCEPT ![t] = "resched"]
      BY <2>4 DEF Release, Goto, kvars
    <3>4. /\ pc' \in [Thread -> Pcs]
          /\ \A u \in Thread : k.stat[u] # "READY" => pc'[u] = pc[u]
          /\ \A u \in Thread : pc[u] \in Detaching => pc'[u] = pc[u]
      BY <3>1, <3>2, <3>3 DEF Pcs, Detaching
    <3>5. /\ Issued(s) /\ UNCHANGED <<flag, alive, on, fault>>
          /\ \/ k.wait[s] # << >> /\ value' = value /\ k' = rt_ipc_list_resume(k, s)
             \/ k.wait[s] = << >> /\ Put(s) /\ k' = k
      BY <2>4 DEF Release, kvars
    <3> QED BY <3>4, <3>5, ReleaseStep
  <2> QED BY <1>3, <2>1, <2>2, <2>3, <2>4 DEF ThreadCall
<1>4. ASSUME NEW s \in Sem, IsrRelease(s) PROVE SemInv'
  <2>1. pc \in [Thread -> Pcs] /\ pc' = pc
    BY <1>4 DEF IsrRelease, ReleaseFromIsr, SemInv, IpcCore, TypeOK
  <2>2. /\ Issued(s) /\ UNCHANGED <<flag, alive, on, fault>>
        /\ \/ k.wait[s] # << >> /\ value' = value /\ k' = rt_schedule(rt_ipc_list_resume(k, s))
           \/ k.wait[s] = << >> /\ Put(s) /\ k' = k
    BY <1>4 DEF IsrRelease, ReleaseFromIsr
  <2> QED BY <2>1, <2>2, ReleaseStep
<1> QED BY <1>1, <1>2, <1>3, <1>4, InterruptStep DEF Next, Halted

\* The invariant holds in every reachable state.
LEMMA Invariance == Spec => []SemInv
BY InitInv, NextInv, PTL DEF Spec

-----------------------------------------------------------------------------
(* The theorems.                                                           *)

\* Every variable keeps its type, sem->value its 16-bit range included.
THEOREM TypeCorrect == Spec => []TypeOK
<1>1. SemInv => TypeOK
  BY DEF SemInv, IpcCore
<1> QED BY <1>1, Invariance, PTL

\* The lists, thread states, ready bitmap and thread timers of the scheduler
\* stay consistent under every interleaving of semaphore calls, timeouts and
\* interrupts.
THEOREM KernelStaysConsistent == Spec => []KernelConsistent
<1>1. SemInv => KernelConsistent
  BY DEF SemInv, IpcCore, KernelOK, KernelConsistent
<1> QED BY <1>1, Invariance, PTL

\* No thread sleeps on a semaphore that has tokens: rt_sem_take never misses a
\* release.
THEOREM NoMissedRelease == Spec => []NoWaiterWhileAvailable
<1>1. SemInv => NoWaiterWhileAvailable
  BY DEF SemInv
<1> QED BY <1>1, Invariance, PTL

\* A suspended thread stays reachable through the list of its semaphore.
THEOREM NoThreadIsLost == Spec => []NoLostThread
<1>1. SemInv => NoLostThread
  BY DEF SemInv, IpcCore, Waiting, NoLostThread
<1> QED BY <1>1, Invariance, PTL

\* A detached semaphore leaves nobody behind on its list.
THEOREM DetachWakesAll == Spec => []DetachLeavesNoWaiter
<1>1. SemInv => DetachLeavesNoWaiter
  BY DEF SemInv
<1> QED BY <1>1, Invariance, PTL
\* Whenever the processor changes threads, it goes to a ready thread no other
\* ready thread is more urgent than, whichever call or interrupt switched.
THEOREM SwitchesToHighest == Spec => SwitchToHighest
<1>1. ASSUME SemInv, [Next]_vars PROVE k'.cur # k.cur => CurIsHighest(k')
  <2>1. Core /\ KernelOK(k) /\ k.lock = 0 /\ TypeOK
    BY <1>1 DEF SemInv, IpcCore, TypeOK, KernelOK
  <2>2. CASE k' = rt_schedule(k)
    BY <2>1, <2>2, ScheduleOK
  <2>3. ASSUME NEW s \in Sem, k.wait[s] # << >>, k' = rt_schedule(rt_ipc_list_resume(k, s))
        PROVE  CurIsHighest(k')
    <3>1. KernelOK(rt_ipc_list_resume(k, s)) /\ rt_ipc_list_resume(k, s).lock = 0
      <4>1. Resumes(k, rt_ipc_list_resume(k, s), Head(k.wait[s]), k.error)
        BY <2>1, <2>3, ListResumeOK DEF Sem
      <4> QED BY <2>1, <4>1 DEF Resumes
    <3> QED BY <2>3, <3>1, ScheduleOK
  <2>4. ASSUME NEW s \in Sem, k.wait[s] # << >>,
               k' = rt_ipc_list_resume(k, s) \/ k' = ResumeWithError(k, s)
        PROVE  k'.cur = k.cur \/ CurIsHighest(k')
    <3>1. CASE k' = rt_ipc_list_resume(k, s)
      <4>1. Resumes(k, k', Head(k.wait[s]), k.error)
        BY <2>1, <2>4, <3>1, ListResumeOK DEF Sem
      <4> QED BY <4>1 DEF Resumes
    <3>2. CASE k' = ResumeWithError(k, s)
      <4>1. Resumes(k, k', Head(k.wait[s]), [k.error EXCEPT ![Head(k.wait[s])] = "ERROR"])
        BY <2>1, <2>4, <3>2, ResumeWithErrorOK DEF Sem
      <4> QED BY <4>1 DEF Resumes
    <3> QED BY <2>4, <3>1, <3>2
  <2>5. ASSUME NEW t \in Thread, Timeout(t) PROVE k'.cur = k.cur \/ CurIsHighest(k')
    <3>1. Resumes(k, k', t, [k.error EXCEPT ![t] = "ETIMEOUT"])
      BY <2>1, <2>5, TimeoutOK DEF Timeout
    <3> QED BY <3>1 DEF Resumes
  <2>6. ASSUME NEW t \in Thread, ThreadStep(t) PROVE k'.cur # k.cur => CurIsHighest(k')
    <3>1. CASE StepReschedule(t)
      BY <2>2, <3>1 DEF StepReschedule, Reschedule
    <3>2. CASE TakeReturn(t) \/ (\E v \in ResetValue : ResetValueTo(t, v)) \/ DetachTest(t)
      BY <3>2 DEF TakeReturn, ResetValueTo, DetachTest, ResumeAllTest
    <3>3. CASE ResetOne(t) \/ DetachResume(t)
      <4>1. on[t] \in Sem
        BY <2>1 DEF TypeOK
      <4>2. k' = k \/ (k.wait[on[t]] # << >> /\ k' = ResumeWithError(k, on[t]))
        BY <3>3 DEF ResetOne, DetachResume, ResumeAllOne
      <4> QED BY <2>4, <4>1, <4>2
    <3> QED BY <2>6, <3>1, <3>2, <3>3 DEF ThreadStep
  <2>7. ASSUME NEW t \in Thread, ThreadCall(t) PROVE k'.cur # k.cur => CurIsHighest(k')
    <3>1. ASSUME NEW u \in Thread, StartupStep(t, u) PROVE k'.cur = k.cur
      BY <2>1, <3>1, StartupStarts DEF StartupStep, Started
    <3>2. ASSUME NEW s \in Sem, NEW time \in {-1, 0, 1}, rt_sem_take(t, s, time)
          PROVE  k'.cur = k.cur
      <4>1. CASE TakeWait(t, s, time)
        BY <2>1, <3>2, <4>1, TakeWaitSuspends DEF rt_sem_take, CallsOn, Suspended
      <4> QED BY <3>2, <4>1 DEF rt_sem_take, TakeAvailable, TakeNoWait, kvars
    <3>3. ASSUME NEW s \in Sem, Release(t, s) PROVE k'.cur # k.cur => CurIsHighest(k')
      <4>1. k' = k \/ (k.wait[s] # << >> /\ k' = rt_ipc_list_resume(k, s))
        BY <3>3 DEF Release, kvars
      <4> QED BY <2>4, <4>1
    <3>4. ASSUME NEW s \in Sem, Control(t, s) \/ Detach(t, s) PROVE k'.cur = k.cur
      BY <3>4 DEF Control, Detach, ResumeAll
    <3> QED BY <2>7, <3>1, <3>2, <3>3, <3>4 DEF ThreadCall
  <2>8. ASSUME NEW s \in Sem, IsrRelease(s) PROVE k'.cur # k.cur => CurIsHighest(k')
    <3>1. k' = k \/ (k.wait[s] # << >> /\ k' = rt_schedule(rt_ipc_list_resume(k, s)))
      BY <2>8 DEF IsrRelease, ReleaseFromIsr
    <3> QED BY <2>3, <3>1
  <2>9. CASE UNCHANGED vars
    BY <2>9 DEF vars, kvars
  <2>10. CASE TickStep
    BY <2>2, <2>10 DEF TickStep, SliceExpired
  <2> QED BY <1>1, <2>5, <2>6, <2>7, <2>8, <2>9, <2>10 DEF Next, TimeoutStep, Halted
<1>2. SemInv /\ [Next]_vars => [k'.cur # k.cur => CurIsHighest(k')]_vars
  BY <1>1
<1> QED BY <1>2, Invariance, PTL DEF Spec, SwitchToHighest
-----------------------------------------------------------------------------
(* The order of the waiters.                                               *)

\* A step that sorts every list it changes, or starts a thread, keeps the
\* lists of RT_IPC_FLAG_PRIO sorted: a thread being started waits nowhere.
LEMMA KeptSorted ==
    ASSUME Core, WaitersSorted, flag' = flag,
           KeepsSorted(k.prio) \/ \E u \in Thread : Started(u)
    PROVE  WaitersSorted'
<1>1. \A s \in Sem : flag[s] = "PRIO" => SortedBy(k.wait[s], k.prio)
  BY DEF WaitersSorted, SortedBy
<1> SUFFICES ASSUME NEW s \in Sem, flag[s] = "PRIO" PROVE SortedBy(k'.wait[s], k'.prio)
  BY DEF WaitersSorted, SortedBy
<1>2. CASE KeepsSorted(k.prio)
  BY <1>1, <1>2 DEF KeepsSorted
<1>3. CASE \E u \in Thread : Started(u)
  <2>1. PICK u \in Thread : Started(u)
    BY <1>3
  <2>2. /\ k'.wait[s] = k.wait[s] /\ k.stat[u] = "INIT"
        /\ k'.prio = [k.prio EXCEPT ![u] = init_priority[u]]
    BY <2>1 DEF Started
  <2>3. /\ k.wait[s] \in Seq(Thread) /\ k.prio \in [Thread -> Prio]
        /\ \A v \in ToSet(k.wait[s]) : k.stat[v] = "SUSPEND"
    BY DEF IpcCore, KernelOK, KernelState, KernelInv, WaitersSuspended
  <2>4. \A i \in 1 .. Len(k.wait[s]) : k.wait[s][i] \in Thread \ {u}
    <3> SUFFICES ASSUME NEW i \in 1 .. Len(k.wait[s]) PROVE k.wait[s][i] \in Thread \ {u}
      OBVIOUS
    <3>1. k.wait[s][i] \in Thread /\ k.wait[s][i] \in ToSet(k.wait[s])
      BY <2>3, ListIndex
    <3> QED BY <2>2, <2>3, <3>1
  <2>5. \A i \in 1 .. Len(k.wait[s]) : k'.prio[k.wait[s][i]] = k.prio[k.wait[s][i]]
    BY <2>2, <2>3, <2>4
  <2> QED BY <1>1, <2>2, <2>5 DEF SortedBy
<1> QED BY <1>2, <1>3

\* Every step keeps the lists of RT_IPC_FLAG_PRIO sorted.
LEMMA SortedStep ==
    ASSUME SemInv, WaitersSorted, [Next]_vars
    PROVE  WaitersSorted'
<1>1. Core /\ on \in [Thread -> Sem]
  BY DEF SemInv, TypeOK
<1>2. flag' = flag
  BY DEF Next, ThreadStep, ThreadCall, StepReschedule, TakeReturn, ResetOne, ResetValueTo,
         DetachTest, DetachResume, StartupStep, rt_sem_take, Release, Control, Detach,
         TimeoutStep, TickStep, IsrRelease, ReleaseFromIsr, Halted, vars, svars
<1>3. CASE k' = k
  BY <1>1, <1>2, <1>3, UnchangedKept, KeptSorted
<1>4. CASE k' = rt_schedule(k)
  BY <1>1, <1>2, <1>4, ScheduleKept, KeptSorted
<1>5. ASSUME NEW s \in Sem, k.wait[s] # << >>,
             \/ k' = rt_ipc_list_resume(k, s)
             \/ k' = rt_schedule(rt_ipc_list_resume(k, s))
      PROVE  WaitersSorted'
  BY <1>1, <1>2, <1>5, ReleaseWakesNow, KeptSorted
<1>6. ASSUME NEW s \in Sem, k.wait[s] # << >>, k' = ResumeWithError(k, s)
      PROVE  WaitersSorted'
  BY <1>1, <1>2, <1>6, ErrorWakes, KeptSorted
<1>7. ASSUME NEW t \in Thread, TimeoutStep(t) PROVE WaitersSorted'
  BY <1>1, <1>2, <1>7, TimeoutWakes, KeptSorted DEF TimeoutStep
<1>8. ASSUME NEW t \in Thread, NEW u \in Thread, StartupStep(t, u) PROVE WaitersSorted'
  BY <1>1, <1>2, <1>8, StartupStarts, KeptSorted DEF StartupStep
<1>9. ASSUME NEW t \in Thread, NEW s \in Sem, NEW time \in {-1, 0, 1},
             Calls(t), TakeWait(t, s, time)
      PROVE  WaitersSorted'
  <2>1. /\ Suspended(t, s) /\ k'.prio = k.prio
        /\ flag[s] = "PRIO" => KeepsSorted(k.prio)
    BY <1>1, <1>9, TakeWaitSuspends
  <2>2. CASE flag[s] = "PRIO"
    BY <1>1, <1>2, <2>1, <2>2, KeptSorted
  <2>3. CASE flag[s] # "PRIO"
    BY <1>2, <2>1, <2>3 DEF WaitersSorted, Suspended
  <2> QED BY <2>2, <2>3
<1>10. ASSUME NEW t \in Thread, ThreadStep(t) PROVE WaitersSorted'
  <2>1. CASE StepReschedule(t)
    BY <1>4, <2>1 DEF StepReschedule, Reschedule
  <2>2. CASE TakeReturn(t) \/ (\E v \in ResetValue : ResetValueTo(t, v)) \/ DetachTest(t)
    BY <1>3, <2>2 DEF TakeReturn, ResetValueTo, DetachTest, ResumeAllTest
  <2>3. CASE ResetOne(t) \/ DetachResume(t)
    <3>1. k' = k \/ (k.wait[on[t]] # << >> /\ k' = ResumeWithError(k, on[t]))
      BY <2>3 DEF ResetOne, DetachResume, ResumeAllOne
    <3> QED BY <1>1, <1>3, <1>6, <3>1
  <2> QED BY <1>10, <2>1, <2>2, <2>3 DEF ThreadStep
<1>11. ASSUME NEW t \in Thread, ThreadCall(t) PROVE WaitersSorted'
  <2>1. ASSUME NEW s \in Sem, NEW time \in {-1, 0, 1}, rt_sem_take(t, s, time)
        PROVE  WaitersSorted'
    BY <1>3, <1>9, <2>1 DEF rt_sem_take, CallsOn, TakeAvailable, TakeNoWait, kvars
  <2>2. ASSUME NEW s \in Sem, Release(t, s) \/ Control(t, s) \/ Detach(t, s)
        PROVE  WaitersSorted'
    BY <1>3, <1>5, <2>2 DEF Release, Control, Detach, ResumeAll, kvars
  <2> QED BY <1>8, <1>11, <2>1, <2>2 DEF ThreadCall
<1>12. ASSUME NEW s \in Sem, IsrRelease(s) PROVE WaitersSorted'
  BY <1>3, <1>5, <1>12 DEF IsrRelease, ReleaseFromIsr
<1>13. CASE UNCHANGED vars \/ TickStep
  BY <1>3, <1>4, <1>13 DEF vars, kvars, TickStep, SliceExpired
<1> QED BY <1>7, <1>10, <1>11, <1>12, <1>13 DEF Next, Halted

\* A semaphore created with RT_IPC_FLAG_PRIO always wakes its most urgent
\* waiter first: its list stays sorted whatever is taken off it by a release,
\* a timeout, a reset or a detach.
THEOREM WaitersStaySorted == Spec => []WaitersSorted
<1>1. Init => WaitersSorted
  <2> SUFFICES ASSUME Init, NEW s \in Sem PROVE Len(k.wait[s]) = 0
    BY DEF WaitersSorted
  <2>1. k.wait[s] = << >>
    BY DEF Init, IpcInit, ThreadsInit, BootState
  <2> QED BY <2>1
<1>2. SemInv /\ WaitersSorted /\ [Next]_vars => WaitersSorted'
  BY SortedStep
<1> QED BY <1>1, <1>2, Invariance, PTL DEF Spec

-----------------------------------------------------------------------------
(* Conservation of tokens.                                                 *)

InTake == {"block", "woken"}

\* No thread enters or leaves rt_sem_take's wait, or changes the semaphore it
\* waits for.
SameInside ==
    \A t \in Thread : /\ pc'[t] \in InTake <=> pc[t] \in InTake
                      /\ pc[t] \in InTake => on'[t] = on[t]

\* The threads holding a token are counted.
LEMMA GrantedFinite ==
    \A s \in Sem : IsFiniteSet(Granted(s)) /\ Cardinality(Granted(s)) \in Nat
<1> SUFFICES ASSUME NEW s \in Sem
             PROVE  IsFiniteSet(Granted(s)) /\ Cardinality(Granted(s)) \in Nat
  OBVIOUS
<1>1. Granted(s) \subseteq Thread
  BY DEF Granted
<1> QED BY <1>1, SemAssumption, FS_Subset, FS_CardinalityType

\* Steps of the scheduler, timeouts, resets and startup hand out no token.
LEMMA GrantedSame ==
    ASSUME Core, SameInside,
           \/ Kept
           \/ \E h \in Thread, q \in Sem, e \in Error \ {"EOK"} : Woken(h, q, e)
           \/ \E u \in Thread : Started(u),
           NEW s \in Sem
    PROVE  Granted(s)' = Granted(s)
<1>1. k.stat \in [Thread -> Stat] /\ k.error \in [Thread -> Error]
  BY DEF IpcCore, TypeOK, KernelState
<1> SUFFICES ASSUME NEW t \in Thread
             PROVE  (pc'[t] \in InTake /\ on'[t] = s /\ k'.stat[t] = "READY" /\ k'.error[t] = "EOK")
                <=> (pc[t] \in InTake /\ on[t] = s /\ k.stat[t] = "READY" /\ k.error[t] = "EOK")
  BY DEF Granted, InTake
<1>2. /\ pc'[t] \in InTake <=> pc[t] \in InTake
      /\ pc[t] \in InTake => on'[t] = on[t]
  BY DEF SameInside
<1>3. CASE Kept
  BY <1>2, <1>3 DEF Kept
<1>4. CASE \E u \in Thread : Started(u)
  <2>1. PICK u \in Thread : Started(u)
    BY <1>4
  <2>2. pc[u] = "run"
    BY <2>1 DEF Started, IpcCore, Waiting
  <2>3. k'.error = k.error /\ \A v \in Thread \ {u} : k'.stat[v] = k.stat[v]
    BY <1>1, <2>1 DEF Started
  <2> QED BY <1>2, <2>2, <2>3 DEF InTake
<1>5. CASE \E h \in Thread, q \in Sem, e \in Error \ {"EOK"} : Woken(h, q, e)
  <2>1. PICK h \in Thread, q \in Sem, e \in Error \ {"EOK"} : Woken(h, q, e)
    BY <1>5
  <2>2. /\ k.stat[h] # "READY" /\ k'.error[h] # "EOK"
        /\ \A v \in Thread \ {h} : k'.stat[v] = k.stat[v] /\ k'.error[v] = k.error[v]
    BY <1>1, <2>1 DEF Woken
  <2> QED BY <1>2, <2>2
<1> QED BY <1>3, <1>4, <1>5

\* With the number of granted threads unchanged, tokens and values must move
\* together.
LEMMA SameGrantedTokens ==
    ASSUME TokensConserved, TypeOK, TypeOK',
           \A s \in Sem : Granted(s)' = Granted(s),
           \A s \in Sem : tokens'[s] - value'[s] = tokens[s] - value[s]
    PROVE  TokensConserved'
<1> SUFFICES ASSUME NEW s \in Sem
             PROVE  tokens'[s] = value'[s] + Cardinality(Granted(s)')
  BY DEF TokensConserved, Sem
<1>1. /\ tokens[s] \in Int /\ tokens'[s] \in Int /\ value[s] \in Int /\ value'[s] \in Int
  BY SemAssumption DEF TypeOK
<1>2. Cardinality(Granted(s)) \in Nat /\ Cardinality(Granted(s)') = Cardinality(Granted(s))
  BY GrantedFinite
<1>3. tokens[s] = value[s] + Cardinality(Granted(s))
  BY DEF TokensConserved
<1>4. tokens'[s] - value'[s] = tokens[s] - value[s]
  OBVIOUS
<1> QED BY <1>1, <1>2, <1>3, <1>4

\* A release that finds a waiter: its token is now in the waiter's hands.
LEMMA ReleaseGrants ==
    ASSUME TokensConserved, Core, TypeOK', NEW s \in Sem, NEW h \in Thread,
           Woken(h, s, "EOK"), SameInside, Issued(s), value' = value
    PROVE  TokensConserved'
<1>1. /\ k.stat \in [Thread -> Stat] /\ k.error \in [Thread -> Error] /\ TypeOK
      /\ tokens \in [Sem -> Int] /\ value \in [Sem -> 0 .. ValueModulus - 1]
      /\ on \in [Thread -> Sem]
  BY DEF IpcCore, TypeOK, KernelState
<1>2. k.stat[h] = "SUSPEND" /\ h \in ToSet(k.wait[s])
  BY DEF Woken
<1>3. pc[h] \in InTake /\ h \in ToSet(k.wait[on[h]]) /\ on[h] \in Sem
  BY <1>1, <1>2 DEF IpcCore, Waiting, InTake
<1>4. on[h] = s
  BY <1>2, WaiterOn
<1>5. /\ k'.stat[h] = "READY" /\ k'.error[h] = "EOK"
      /\ \A v \in Thread \ {h} : k'.stat[v] = k.stat[v] /\ k'.error[v] = k.error[v]
  BY <1>1 DEF Woken
<1>6. /\ Granted(s)' = Granted(s) \cup {h} /\ h \notin Granted(s)
      /\ \A q \in Sem \ {s} : Granted(q)' = Granted(q)
  <2>1. ASSUME NEW q \in Sem, NEW v \in Thread
        PROVE  v \in Granted(q)' <=> (v \in Granted(q) \/ (v = h /\ q = s))
    <3>1. v \in Granted(q)' <=> /\ pc'[v] \in InTake /\ on'[v] = q
                                /\ k'.stat[v] = "READY" /\ k'.error[v] = "EOK"
      BY DEF Granted, InTake
    <3>2. v \in Granted(q) <=> /\ pc[v] \in InTake /\ on[v] = q
                               /\ k.stat[v] = "READY" /\ k.error[v] = "EOK"
      BY DEF Granted, InTake
    <3>3. /\ pc'[v] \in InTake <=> pc[v] \in InTake
          /\ pc[v] \in InTake => on'[v] = on[v]
      BY DEF SameInside
    <3>4. CASE v = h
      BY <1>2, <1>3, <1>4, <1>5, <3>1, <3>2, <3>3, <3>4
    <3>5. CASE v # h
      BY <1>5, <3>1, <3>2, <3>3, <3>5
    <3> QED BY <3>4, <3>5
  <2>2. \A q \in Sem : Granted(q) \subseteq Thread /\ Granted(q)' \subseteq Thread
    BY DEF Granted
  <2>3. h \notin Granted(s)
    BY <1>2 DEF Granted
  <2> QED BY <2>1, <2>2, <2>3
<1>7. Cardinality(Granted(s)') = Cardinality(Granted(s)) + 1
  <2>1. IsFiniteSet(Granted(s))
    BY GrantedFinite
  <2> QED BY <1>6, <2>1, FS_AddElement
<1> SUFFICES ASSUME NEW q \in Sem
             PROVE  tokens'[q] = value'[q] + Cardinality(Granted(q)')
  BY DEF TokensConserved, Sem
<1>8. tokens[q] = value[q] + Cardinality(Granted(q)) /\ Cardinality(Granted(q)) \in Nat
  BY GrantedFinite DEF TokensConserved
<1>9. tokens[q] \in Int /\ value[q] \in Int
  BY <1>1, SemAssumption
<1>10. CASE q = s
  BY <1>1, <1>7, <1>8, <1>9, <1>10 DEF Issued
<1>11. CASE q # s
  BY <1>1, <1>6, <1>8, <1>9, <1>11 DEF Issued
<1> QED BY <1>10, <1>11

\* A take that returns RT_EOK leaves with the token it was handed; one that
\* returns an error never had one.
LEMMA ReturnObtains ==
    ASSUME TokensConserved, Core, TypeOK', NEW t \in Thread, TakeReturn(t)
    PROVE  TokensConserved'
<1>1. /\ k' = k /\ k.cur = t /\ pc[t] = "woken" /\ value' = value /\ on' = on
      /\ pc' = [pc EXCEPT ![t] = "run"]
      /\ pc \in [Thread -> Pcs] /\ on[t] \in Sem /\ TypeOK
      /\ tokens \in [Sem -> Int] /\ value \in [Sem -> 0 .. ValueModulus - 1]
  BY DEF TakeReturn, At, Goto, svars, IpcCore, TypeOK
<1>2. k.stat[t] = "READY"
  BY <1>1, CallerReady
<1>3. \A q \in Sem : Granted(q)' = Granted(q) \ {t}
  <2> SUFFICES ASSUME NEW q \in Sem, NEW v \in Thread
               PROVE  (pc'[v] \in InTake /\ on[v] = q /\ k.stat[v] = "READY" /\ k.error[v] = "EOK")
                  <=> (/\ pc[v] \in InTake /\ on[v] = q /\ k.stat[v] = "READY"
                       /\ k.error[v] = "EOK" /\ v # t)
    BY <1>1 DEF Granted, InTake
  <2> QED BY <1>1 DEF InTake
<1>4. \A q \in Sem : t \in Granted(q) <=> on[t] = q /\ k.error[t] = "EOK"
  BY <1>1, <1>2 DEF Granted
<1>5. CASE k.error[t] # "EOK"
  <2>1. \A q \in Sem : Granted(q)' = Granted(q)
    BY <1>3, <1>4, <1>5
  <2>2. tokens' = tokens
    BY <1>5 DEF TakeReturn
  <2> QED BY <1>1, <2>1, <2>2, SameGrantedTokens
<1>6. CASE k.error[t] = "EOK"
  <2>1. tokens' = [tokens EXCEPT ![on[t]] = @ - 1]
    BY <1>6 DEF TakeReturn, Obtained
  <2>2. \A q \in Sem \ {on[t]} : Granted(q)' = Granted(q)
    BY <1>3, <1>4
  <2>3. Cardinality(Granted(on[t])') = Cardinality(Granted(on[t])) - 1
    <3>1. IsFiniteSet(Granted(on[t])) /\ t \in Granted(on[t])
      BY <1>1, <1>4, <1>6, GrantedFinite
    <3> QED BY <1>1, <1>3, <3>1, FS_RemoveElement
  <2> SUFFICES ASSUME NEW q \in Sem
               PROVE  tokens'[q] = value'[q] + Cardinality(Granted(q)')
    BY DEF TokensConserved, Sem
  <2>4. tokens[q] = value[q] + Cardinality(Granted(q)) /\ Cardinality(Granted(q)) \in Nat
    BY GrantedFinite DEF TokensConserved
  <2>5. tokens[q] \in Int /\ value[q] \in Int
    BY <1>1, SemAssumption
  <2>6. CASE q = on[t]
    BY <1>1, <2>1, <2>3, <2>4, <2>5, <2>6
  <2>7. CASE q # on[t]
    BY <1>1, <2>1, <2>2, <2>4, <2>5, <2>7
  <2> QED BY <2>6, <2>7
<1> QED BY <1>5, <1>6
\* Every step conserves tokens, as long as no release overflows sem->value.
LEMMA TokensStep ==
    ASSUME MaxValue < ValueModulus, SemInv, SemInv', TokensConserved, [Next]_vars
    PROVE  TokensConserved'
<1>1. Core /\ TypeOK /\ TypeOK'
  BY DEF SemInv, IpcCore
<1>2. /\ pc \in [Thread -> Pcs] /\ on \in [Thread -> Sem] /\ tokens \in [Sem -> Int]
      /\ value \in [Sem -> 0 .. ValueModulus - 1] /\ ValueModulus \in Nat /\ MaxValue \in Nat
  BY <1>1, SemAssumption DEF TypeOK
<1>3. ASSUME Kept \/ (\E h \in Thread, q \in Sem, e \in Error \ {"EOK"} : Woken(h, q, e))
                  \/ (\E u \in Thread : Started(u)),
             SameInside, \A s \in Sem : tokens'[s] - value'[s] = tokens[s] - value[s]
      PROVE  TokensConserved'
  <2>1. \A s \in Sem : Granted(s)' = Granted(s)
    BY <1>1, <1>3, GrantedSame
  <2> QED BY <1>1, <1>3, <2>1, SameGrantedTokens
<1>4. ASSUME NEW s \in Sem, Issued(s), Put(s), value[s] < MaxValue, k' = k, pc' = pc, on' = on
      PROVE  TokensConserved'
  <2>1. \A q \in Sem \ {s} : value'[q] = value[q] /\ tokens'[q] = tokens[q]
    BY <1>2, <1>4 DEF Put, Issued
  <2>2. value'[s] = value[s] + 1 /\ tokens'[s] = tokens[s] + 1
    <3>1. value[s] + 1 \in 0 .. ValueModulus - 1
      BY <1>2, <1>4
    <3>2. (value[s] + 1) % ValueModulus = value[s] + 1
      BY <1>2, <3>1
    <3> QED BY <1>2, <1>4, <3>2 DEF Put, Issued
  <2>3. \A q \in Sem : tokens'[q] - value'[q] = tokens[q] - value[q]
    BY <1>2, <2>1, <2>2
  <2>4. Kept /\ SameInside
    BY <1>1, <1>4, UnchangedKept DEF SameInside
  <2> QED BY <1>3, <2>3, <2>4
<1>5. ASSUME NEW t \in Thread, ThreadStep(t) PROVE TokensConserved'
  <2>1. CASE TakeReturn(t)
    BY <1>1, <2>1, ReturnObtains
  <2>2. CASE StepReschedule(t)
    <3>1. /\ k' = rt_schedule(k) /\ value' = value /\ on' = on /\ tokens' = tokens
          /\ pc[t] \in {"block", "resched"}
          /\ pc' = [pc EXCEPT ![t] = IF pc[t] = "block" THEN "woken" ELSE "run"]
      BY <2>2 DEF StepReschedule, Reschedule, At, Goto, svars
    <3>2. SameInside
      BY <1>2, <3>1 DEF SameInside, InTake
    <3> QED BY <1>1, <1>3, <3>1, <3>2, ScheduleKept
  <2>3. CASE ResetOne(t) \/ DetachResume(t)
    <3>1. /\ value' = value /\ on' = on /\ tokens' = tokens /\ on[t] \in Sem
          /\ pc[t] \in {"reset", "detach_resume"}
          /\ pc' = pc \/ pc' = [pc EXCEPT ![t] = "detach_test"]
      BY <1>2, <2>3 DEF ResetOne, DetachResume, ResumeAllOne, At, Goto, svars
    <3>2. SameInside
      BY <1>2, <3>1 DEF SameInside, InTake
    <3>3. k' = k \/ (k.wait[on[t]] # << >> /\ k' = ResumeWithError(k, on[t]))
      BY <2>3 DEF ResetOne, DetachResume, ResumeAllOne
    <3>4. CASE k' = k
      BY <1>1, <1>3, <3>1, <3>2, <3>4, UnchangedKept
    <3>5. CASE k.wait[on[t]] # << >> /\ k' = ResumeWithError(k, on[t])
      <4>1. Woken(Head(k.wait[on[t]]), on[t], "ERROR")
        BY <1>1, <3>1, <3>5, ErrorWakes
      <4>2. \E h \in Thread, q \in Sem, e \in Error \ {"EOK"} : Woken(h, q, e)
        <5>1. "ERROR" \in Error \ {"EOK"} /\ Head(k.wait[on[t]]) \in Thread
          BY <4>1 DEF Error, Woken
        <5> QED BY <3>1, <4>1, <5>1
      <4> QED BY <1>3, <3>1, <3>2, <4>2
    <3> QED BY <3>3, <3>4, <3>5
  <2>4. CASE DetachTest(t)
    <3>1. /\ k' = k /\ value' = value /\ on' = on /\ tokens' = tokens /\ pc[t] = "detach_test"
          /\ pc' = [pc EXCEPT ![t] = IF k.wait[on[t]] = << >> THEN "run" ELSE "detach_resume"]
      BY <2>4 DEF DetachTest, ResumeAllTest, At, Goto, svars
    <3>2. SameInside
      BY <1>2, <3>1 DEF SameInside, InTake
    <3> QED BY <1>1, <1>3, <3>1, <3>2, UnchangedKept
  <2>5. CASE \E v \in ResetValue : ResetValueTo(t, v)
    <3>1. PICK v \in ResetValue : ResetValueTo(t, v)
      BY <2>5
    <3>2. /\ k' = k /\ on' = on /\ pc[t] = "reset" /\ pc' = [pc EXCEPT ![t] = "resched"]
          /\ value' = [value EXCEPT ![on[t]] = v]
          /\ tokens' = [tokens EXCEPT ![on[t]] = @ - value[on[t]] + v]
          /\ on[t] \in Sem /\ v \in Int
      BY <1>2, <3>1, SemAssumption DEF ResetValueTo, At, Goto
    <3>3. SameInside
      BY <1>2, <3>2 DEF SameInside, InTake
    <3>4. \A q \in Sem : tokens'[q] - value'[q] = tokens[q] - value[q]
      BY <1>2, <3>2
    <3> QED BY <1>1, <1>3, <3>2, <3>3, <3>4, UnchangedKept
  <2> QED BY <1>5, <2>1, <2>2, <2>3, <2>4, <2>5 DEF ThreadStep
<1>6. ASSUME NEW t \in Thread, NEW s \in Sem, NEW time \in {-1, 0, 1}, rt_sem_take(t, s, time)
      PROVE  TokensConserved'
  <2>1. CASE TakeAvailable(t, s)
    <3>1. /\ k' = k /\ pc' = pc /\ on' = on /\ value' = [value EXCEPT ![s] = @ - 1]
          /\ tokens' = [tokens EXCEPT ![s] = @ - 1]
      BY <2>1 DEF TakeAvailable, Obtained, kvars
    <3>2. \A q \in Sem : tokens'[q] - value'[q] = tokens[q] - value[q]
      BY <1>2, <3>1
    <3> QED BY <1>1, <1>3, <3>1, <3>2, UnchangedKept DEF SameInside
  <2>2. CASE TakeNoWait(s, time)
    BY <1>1, <1>3, <2>2, UnchangedKept DEF TakeNoWait, SameInside, kvars
  <2>3. CASE TakeWait(t, s, time)
    <3>1. /\ Calls(t) /\ pc[t] = "run" /\ pc' = [pc EXCEPT ![t] = "block"]
          /\ on' = [on EXCEPT ![t] = s] /\ value' = value /\ tokens' = tokens
      BY <1>6, <2>3 DEF rt_sem_take, TakeWait, Goto, CallsOn, Calls, At
    <3>2. Suspended(t, s)
      BY <1>1, <2>3, <3>1, TakeWaitSuspends
    <3>3. /\ k'.stat[t] = "SUSPEND"
          /\ \A v \in Thread \ {t} : k'.stat[v] = k.stat[v] /\ k'.error[v] = k.error[v]
      BY <1>1, <3>2 DEF Suspended, TypeOK, KernelState
    <3>4. \A v \in Thread \ {t} : pc'[v] = pc[v] /\ on'[v] = on[v]
      BY <1>2, <3>1
    <3>5. \A q \in Sem : Granted(q)' = Granted(q)
      <4> SUFFICES ASSUME NEW q \in Sem, NEW v \in Thread
                   PROVE  (/\ pc'[v] \in {"block", "woken"} /\ on'[v] = q
                           /\ k'.stat[v] = "READY" /\ k'.error[v] = "EOK")
                      <=> (/\ pc[v] \in {"block", "woken"} /\ on[v] = q
                           /\ k.stat[v] = "READY" /\ k.error[v] = "EOK")
        BY DEF Granted
      <4> QED BY <3>1, <3>3, <3>4
    <3> QED BY <1>1, <3>1, <3>5, SameGrantedTokens
  <2> QED BY <1>6, <2>1, <2>2, <2>3 DEF rt_sem_take
<1>7. ASSUME NEW s \in Sem, Issued(s), value' = value, on' = on, SameInside, k.wait[s] # << >>,
             \/ k' = rt_ipc_list_resume(k, s)
             \/ k' = rt_schedule(rt_ipc_list_resume(k, s))
      PROVE  TokensConserved'
  <2>1. Woken(Head(k.wait[s]), s, "EOK")
    BY <1>1, <1>7, ReleaseWakesNow
  <2>2. Head(k.wait[s]) \in Thread
    BY <2>1 DEF Woken
  <2> QED BY <1>1, <1>7, <2>1, <2>2, ReleaseGrants
<1>8. ASSUME NEW t \in Thread, ThreadCall(t) PROVE TokensConserved'
  <2>1. ASSUME NEW u \in Thread, StartupStep(t, u) PROVE TokensConserved'
    <3>1. /\ Startup(t, u) /\ value' = value /\ on' = on /\ tokens' = tokens /\ pc[t] = "run"
          /\ pc' = [pc EXCEPT ![t] = "resched"]
      BY <2>1 DEF StartupStep, Startup, CallsOn, Calls, At, Goto, svars
    <3>2. SameInside
      BY <1>2, <3>1 DEF SameInside, InTake
    <3> QED BY <1>1, <1>3, <3>1, <3>2, StartupStarts
  <2>2. ASSUME NEW s \in Sem, Release(t, s) PROVE TokensConserved'
    <3>1. CASE k.wait[s] # << >>
      <4>1. /\ Issued(s) /\ value' = value /\ on' = on /\ k' = rt_ipc_list_resume(k, s)
            /\ pc[t] = "run" /\ pc' = [pc EXCEPT ![t] = "resched"]
        BY <2>2, <3>1 DEF Release, Goto, CallsOn, Calls, At
      <4>2. SameInside
        BY <1>2, <4>1 DEF SameInside, InTake
      <4> QED BY <1>7, <3>1, <4>1, <4>2
    <3>2. CASE k.wait[s] = << >>
      BY <1>4, <2>2, <3>2 DEF Release, kvars
    <3> QED BY <3>1, <3>2
  <2>3. ASSUME NEW s \in Sem, Control(t, s) \/ Detach(t, s) PROVE TokensConserved'
    <3>1. /\ k' = k /\ value' = value /\ tokens' = tokens /\ pc[t] = "run"
          /\ on' = [on EXCEPT ![t] = s]
          /\ pc' = [pc EXCEPT ![t] = "reset"] \/ pc' = [pc EXCEPT ![t] = "detach_test"]
      BY <2>3 DEF Control, Detach, ResumeAll, CallsOn, Calls, At, Goto
    <3>2. SameInside
      BY <1>2, <3>1 DEF SameInside, InTake
    <3> QED BY <1>1, <1>3, <3>1, <3>2, UnchangedKept
  <2> QED BY <1>6, <1>8, <2>1, <2>2, <2>3 DEF ThreadCall
<1>9. ASSUME NEW t \in Thread, TimeoutStep(t) PROVE TokensConserved'
  <2>1. Timeout(t) /\ pc' = pc /\ value' = value /\ on' = on /\ tokens' = tokens /\ on[t] \in Sem
    BY <1>2, <1>9 DEF TimeoutStep, Timeout, svars
  <2>2. Woken(t, on[t], "ETIMEOUT") /\ "ETIMEOUT" \in Error \ {"EOK"}
    BY <1>1, <2>1, TimeoutWakes DEF Error
  <2> QED BY <1>3, <2>1, <2>2 DEF SameInside
<1>10. ASSUME NEW s \in Sem, IsrRelease(s) PROVE TokensConserved'
  <2>1. Issued(s) /\ on' = on /\ pc' = pc /\ SameInside /\ value[s] < MaxValue
    BY <1>10 DEF IsrRelease, ReleaseFromIsr, SameInside
  <2>2. CASE k.wait[s] # << >>
    BY <1>7, <1>10, <2>1, <2>2 DEF IsrRelease, ReleaseFromIsr
  <2>3. CASE k.wait[s] = << >>
    BY <1>4, <1>10, <2>1, <2>3 DEF IsrRelease, ReleaseFromIsr
  <2> QED BY <2>2, <2>3
<1>11. CASE TickStep
  <2>1. k' = rt_schedule(k) /\ pc' = pc /\ value' = value /\ on' = on /\ tokens' = tokens
    BY <1>11 DEF TickStep, SliceExpired, svars
  <2> QED BY <1>1, <1>3, <2>1, ScheduleKept DEF SameInside
<1>12. CASE UNCHANGED vars
  <2>1. k' = k /\ pc' = pc /\ value' = value /\ on' = on /\ tokens' = tokens
    BY <1>12 DEF vars, kvars, svars
  <2> QED BY <1>1, <1>3, <2>1, UnchangedKept DEF SameInside
<1> QED BY <1>5, <1>8, <1>9, <1>10, <1>11, <1>12 DEF Next, Halted

\* Initially every token is in sem->value.
LEMMA TokensInit == Init => TokensConserved
<1> SUFFICES ASSUME Init PROVE TokensConserved
  OBVIOUS
<1>1. pc = [t \in Thread |-> "run"] /\ value \in [Sem -> InitValue] /\ tokens = value
  BY DEF Init, IpcInit, ThreadsInit
<1>2. \A s \in Sem : Granted(s) = {}
  BY <1>1 DEF Granted
<1>3. \A s \in Sem : value[s] \in Int
  <2>1. \A s \in Sem : value[s] \in 0 .. ValueModulus - 1
    BY <1>1, SemAssumption
  <2> QED BY <2>1, SemAssumption
<1>4. Cardinality({}) = 0
  BY FS_EmptySet
<1> QED BY <1>1, <1>2, <1>3, <1>4 DEF TokensConserved

\* Tokens are conserved for any number of threads and semaphores, provided no
\* semaphore is released 2^16 times beyond what is taken: each token released
\* is in sem->value or with exactly one thread on its way out of rt_sem_take,
\* and a take that times out or is reset consumes none.
THEOREM TokensAreConserved ==
    ASSUME MaxValue < ValueModulus
    PROVE  Spec => []TokensConserved
<1>1. SemInv /\ SemInv' /\ TokensConserved /\ [Next]_vars => TokensConserved'
  BY TokensStep
<1> QED BY <1>1, TokensInit, Invariance, PTL DEF Spec
=============================================================================
