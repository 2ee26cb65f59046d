---------------------------- MODULE MutexProofs ----------------------------
(***************************************************************************)
(* Theorems about module Mutex, for any number of threads and priorities,  *)
(* and of mutexes where nothing else is said.  The inductive invariant     *)
(* adds to Consistent and NoWaiterWhileFree what IpcProofs says of threads *)
(* in blocking calls, and that an owner is a started thread, other than    *)
(* the idle thread, whose original priority has been recorded.             *)
(***************************************************************************)
EXTENDS Mutex, IpcProofs

Core == TypeOK /\ IpcCore

\* value and owner agree; what the release will restore has been recorded.
OwnerSound ==
    \A m \in Mutex :
        /\ owner[m] = RT_NULL <=> value[m] = 1
        /\ owner[m] # RT_NULL => owner[m] # Idle /\ original_priority[m] \in Prio

\* An owner has been started: rt_thread_startup cannot reset its priority.
OwnerStarted ==
    \A m \in Mutex : owner[m] # RT_NULL => k.stat[owner[m]] # "INIT"

MutexInv ==
    Core /\ OwnerSound /\ OwnerStarted /\ NoWaiterWhileFree /\ DetachLeavesNoWaiter

USE DEF Core, Mutex

-----------------------------------------------------------------------------
(* What the calls do to the kernel core and to the history variable.       *)

\* The history variable counts a take.
LEMMA ObtainedHeld ==
    ASSUME TypeOK, NEW m \in Mutex, NEW t \in Thread, Obtained(t, m)
    PROVE  /\ held' \in [Mutex -> [Thread -> Int]]
           /\ held'[m][t] = held[m][t] + 1
           /\ \A n \in Mutex, u \in Thread : n # m \/ u # t => held'[n][u] = held[n][u]
<1>1. held \in [Mutex -> [Thread -> Int]]
  BY DEF TypeOK
<1>2. held' = [held EXCEPT ![m] = [held[m] EXCEPT ![t] = held[m][t] + 1]]
  BY <1>1 DEF Obtained
<1>3. [held[m] EXCEPT ![t] = held[m][t] + 1] \in [Thread -> Int]
  BY <1>1
<1>4. held'[m] = [held[m] EXCEPT ![t] = held[m][t] + 1] /\ \A n \in Mutex \ {m} : held'[n] = held[n]
  BY <1>1, <1>2
<1> QED BY <1>1, <1>2, <1>3, <1>4

\* The history variable counts a release.
LEMMA ReturnedHeld ==
    ASSUME TypeOK, NEW m \in Mutex, NEW t \in Thread, Returned(t, m)
    PROVE  /\ held' \in [Mutex -> [Thread -> Int]]
           /\ held'[m][t] = held[m][t] - 1
           /\ \A n \in Mutex, u \in Thread : n # m \/ u # t => held'[n][u] = held[n][u]
<1>1. held \in [Mutex -> [Thread -> Int]]
  BY DEF TypeOK
<1>2. held' = [held EXCEPT ![m] = [held[m] EXCEPT ![t] = held[m][t] - 1]]
  BY <1>1 DEF Returned
<1>3. [held[m] EXCEPT ![t] = held[m][t] - 1] \in [Thread -> Int]
  BY <1>1
<1>4. held'[m] = [held[m] EXCEPT ![t] = held[m][t] - 1] /\ \A n \in Mutex \ {m} : held'[n] = held[n]
  BY <1>1, <1>2
<1> QED BY <1>1, <1>2, <1>3, <1>4

\* A hold count stays a rt_uint8_t.
LEMMA HoldRange ==
    ASSUME TypeOK, NEW m \in Mutex
    PROVE  /\ (hold[m] + 1) % HoldModulus \in 0 .. HoldModulus - 1
           /\ HoldLess(m) \in 0 .. HoldModulus - 1
           /\ hold[m] + 1 < HoldModulus => (hold[m] + 1) % HoldModulus = hold[m] + 1
           /\ hold[m] >= 1 => HoldLess(m) = hold[m] - 1
<1>1. hold[m] \in 0 .. HoldModulus - 1 /\ HoldModulus \in Nat /\ HoldModulus >= 2
  BY MutexAssumption DEF TypeOK
<1>2. (hold[m] + 1) % HoldModulus \in 0 .. HoldModulus - 1
  BY <1>1
<1>3. (hold[m] - 1) % HoldModulus \in 0 .. HoldModulus - 1
  BY <1>1
<1>4. hold[m] + 1 < HoldModulus => (hold[m] + 1) % HoldModulus = hold[m] + 1
  BY <1>1
<1>5. hold[m] >= 1 => (hold[m] - 1) % HoldModulus = hold[m] - 1
  BY <1>1
<1> QED BY <1>2, <1>3, <1>4, <1>5 DEF HoldLess

\* A thread that makes a call is ready, and is not the idle thread.
LEMMA Caller ==
    ASSUME Core, NEW t \in Thread, Calls(t)
    PROVE  k.stat[t] = "READY" /\ t # Idle /\ k.cur = t /\ pc[t] = "run"
BY CallerReady DEF Calls, At

\* The calls that change no more of the kernel core than the caller's error.
LEMMA SetErrorStep ==
    ASSUME Core, NEW t \in Thread, Calls(t), NEW e \in Error, k' = SetError(t, e)
    PROVE  Marked(t, e) /\ KeepsSorted(k.prio)
BY Caller, SetErrorMarks DEF SetError

\* The priorities after the owner of m has inherited that of t.
Inherited(t, m) ==
    IF k.prio[t] < k.prio[owner[m]] THEN [k.prio EXCEPT ![owner[m]] = k.prio[t]] ELSE k.prio

\* rt_mutex_take that has to wait.
LEMMA TakeWaitSuspends ==
    ASSUME Core, OwnerSound, NEW t \in Thread, NEW m \in Mutex, NEW time \in {-1, 0, 1},
           Calls(t), TakeWait(t, m, time)
    PROVE  Suspended(t, m) /\ KeepsSorted(Inherited(t, m))
<1> DEFINE e == SetError(t, "EOK")
           c == Boost(e, t, m)
<1>1. KernelOK(k) /\ k.lock = 0 /\ t \in Thread \ {Idle} /\ k.stat[t] = "READY" /\ m \in Queue
  BY Caller DEF IpcCore
<1>2. /\ KernelOK(e) /\ e.error = [k.error EXCEPT ![t] = "EOK"]
      /\ e.stat = k.stat /\ e.prio = k.prio /\ e.wait = k.wait
      /\ e.timer = k.timer /\ e.cur = k.cur /\ e.lock = k.lock
  <2>1. "EOK" \in Error
    BY DEF Error
  <2> QED BY <1>1, <2>1, SetErrorOK DEF SetError
<1>3. owner[m] \in Thread \ {Idle} /\ k.prio[t] \in Prio
  BY DEF TypeOK, OwnerSound, TakeWait, KernelState
<1>4. k' = IF time > 0 THEN StartThreadTimer(rt_ipc_list_suspend(c, m, t, "PRIO"), t)
                       ELSE rt_ipc_list_suspend(c, m, t, "PRIO")
  BY DEF TakeWait
<1>5. c = IF k.prio[t] < k.prio[owner[m]] THEN ChangePriority(e, owner[m], k.prio[t]) ELSE e
  BY <1>2 DEF Boost
<1> HIDE DEF e, c
<1>6. /\ KernelOK(c) /\ c.prio = Inherited(t, m) /\ c.error = e.error
      /\ c.stat = e.stat /\ c.wait = e.wait /\ c.cur = e.cur /\ c.lock = e.lock
  <2>1. CASE k.prio[t] < k.prio[owner[m]]
    <3>1. LET r == ChangePriority(e, owner[m], k.prio[t]) IN
          /\ KernelOK(r)
          /\ r.prio = [e.prio EXCEPT ![owner[m]] = k.prio[t]]
          /\ r.stat = e.stat /\ r.wait = e.wait /\ r.error = e.error
          /\ r.timer = e.timer /\ r.cur = e.cur /\ r.lock = e.lock
      BY ONLY <1>2, <1>3, ChangePriorityOK
    <3> QED BY <1>2, <1>5, <2>1, <3>1 DEF Inherited
  <2>2. CASE ~(k.prio[t] < k.prio[owner[m]])
    BY <1>2, <1>5, <2>2 DEF Inherited
  <2> QED BY <2>1, <2>2
<1>7. SamePlaces(c) /\ c.error = [k.error EXCEPT ![t] = "EOK"]
  BY <1>2, <1>6 DEF SamePlaces
<1>8. Suspended(t, m) /\ k'.prio = c.prio /\ ("PRIO" = "PRIO" => KeepsSorted(c.prio))
  BY <1>1, <1>4, <1>7, ListSuspends
<1> QED BY <1>6, <1>8

\* The priorities after t has given back what it inherited through m.
GivenBack(t, m) == [k.prio EXCEPT ![t] = original_priority[m]]

\* The change of priority in rt_mutex_release.
LEMMA RestoreOK ==
    ASSUME Core, OwnerSound, NEW t \in Thread, NEW m \in Mutex, owner[m] = t
    PROVE  /\ SamePlaces(Restore(t, m)) /\ Restore(t, m).error = k.error
           /\ Restore(t, m).prio = GivenBack(t, m)
<1>1. KernelOK(k) /\ t \in Thread \ {Idle} /\ original_priority[m] \in Prio
  BY MutexAssumption DEF IpcCore, OwnerSound
<1>2. k.prio \in [Thread -> Prio]
  BY <1>1 DEF KernelOK, KernelState
<1>3. CASE original_priority[m] # k.prio[t]
  <2>1. LET r == ChangePriority(k, t, original_priority[m]) IN
        /\ KernelOK(r)
        /\ r.prio = [k.prio EXCEPT ![t] = original_priority[m]]
        /\ r.stat = k.stat /\ r.wait = k.wait /\ r.error = k.error
        /\ r.timer = k.timer /\ r.cur = k.cur /\ r.lock = k.lock
    BY ONLY <1>1, ChangePriorityOK
  <2> QED BY <1>3, <2>1 DEF Restore, SamePlaces, GivenBack
<1>4. CASE original_priority[m] = k.prio[t]
  BY <1>1, <1>2, <1>4 DEF Restore, SamePlaces, GivenBack
<1> QED BY <1>3, <1>4

\* The mutex passes to the first waiter.
LEMMA HandOverWakes ==
    ASSUME Core, OwnerSound, NEW t \in Thread, NEW m \in Mutex, HandOver(t, m)
    PROVE  /\ k.wait[m] # << >> /\ owner' = [owner EXCEPT ![m] = Head(k.wait[m])]
           /\ original_priority' =
                [original_priority EXCEPT ![m] = GivenBack(t, m)[Head(k.wait[m])]]
           /\ Woken(Head(k.wait[m]), m, "EOK") /\ KeepsSorted(GivenBack(t, m))
<1>1. /\ SamePlaces(Restore(t, m)) /\ Restore(t, m).error = k.error
      /\ Restore(t, m).prio = GivenBack(t, m)
  BY RestoreOK DEF HandOver
<1>2. Restore(t, m).wait = k.wait
  BY <1>1 DEF SamePlaces
<1>3. /\ k.wait[m] # << >> /\ k' = rt_ipc_list_resume(Restore(t, m), m)
      /\ owner' = [owner EXCEPT ![m] = Head(k.wait[m])]
      /\ original_priority' =
           [original_priority EXCEPT ![m] = GivenBack(t, m)[Head(k.wait[m])]]
  BY <1>1, <1>2 DEF HandOver
<1>4. Woken(Head(k.wait[m]), m, "EOK") /\ KeepsSorted(Restore(t, m).prio)
  BY <1>1, <1>3, ReleaseWakes
<1> QED BY <1>1, <1>3, <1>4

\* The mutex becomes free.
LEMMA FreeKeeps ==
    ASSUME Core, OwnerSound, NEW t \in Thread, NEW m \in Mutex, Free(t, m)
    PROVE  Kept /\ KeepsSorted(GivenBack(t, m))
<1>1. /\ SamePlaces(Restore(t, m)) /\ Restore(t, m).error = k.error
      /\ Restore(t, m).prio = GivenBack(t, m) /\ k' = Restore(t, m)
  BY RestoreOK DEF Free
<1> QED BY <1>1, SameKept

-----------------------------------------------------------------------------
(* The steps preserve the invariant.                                       *)

\* Every part of the invariant holds initially.
LEMMA InitInv == Init => MutexInv
<1> SUFFICES ASSUME Init PROVE MutexInv
  OBVIOUS
<1>1. IpcCore /\ DetachLeavesNoWaiter /\ KernelOK(k)
  BY IpcInitCore DEF Init, IpcCore
<1>2. \A q \in Queue : k.wait[q] = << >>
  BY DEF Init, IpcInit, ThreadsInit, BootState
<1>3. TypeOK
  <2>1. (CHOOSE q \in Queue : TRUE) \in Queue
    BY QueueAssumption
  <2>2. /\ value \in [Mutex -> 0 .. 1] /\ hold \in [Mutex -> 0 .. HoldModulus - 1]
        /\ held \in [Mutex -> [Thread -> Int]]
    BY MutexAssumption DEF Init
  <2> QED BY <1>1, <2>1, <2>2 DEF Init, IpcInit, ThreadsInit, TypeOK, KernelOK, Pcs
<1>4. OwnerSound /\ OwnerStarted /\ NoWaiterWhileFree
  BY <1>2 DEF Init, OwnerSound, OwnerStarted, NoWaiterWhileFree
<1> QED BY <1>1, <1>3, <1>4 DEF MutexInv

\* A new owner has been started, and nobody waits for a mutex that becomes free.
OwnersMove ==
    \A m \in Mutex :
        /\ owner'[m] \in {owner[m], RT_NULL} \/ k.stat[owner'[m]] # "INIT"
        /\ owner'[m] = RT_NULL => owner[m] = RT_NULL \/ k.wait[m] = << >>

\* A started thread does not become one that is not.
LEMMA StaysStarted ==
    ASSUME IpcCore, Wakeful, NEW u \in Thread, k.stat[u] # "INIT"
    PROVE  k'.stat[u] # "INIT"
<1>1. k.stat \in [Thread -> Stat]
  BY DEF IpcCore, KernelOK, KernelState
<1>2. CASE Kept \/ \E t \in Thread, e \in Error : Marked(t, e)
  BY <1>2 DEF Kept, Marked
<1>3. CASE \E h \in Thread, q \in Queue, e \in Error : Woken(h, q, e)
  BY <1>1, <1>3 DEF Woken
<1>4. CASE \E v \in Thread : Started(v)
  BY <1>1, <1>4 DEF Started
<1> QED BY <1>2, <1>3, <1>4 DEF Wakeful

\* Benign steps preserve the whole invariant.
LEMMA BenignStep ==
    ASSUME MutexInv, TypeOK', Benign, Wakeful, OwnerSound', OwnersMove
    PROVE  MutexInv'
<1>1. Core'
  BY BenignCore DEF MutexInv, TypeOK
<1>2. \A m \in Mutex : k.wait[m] = << >> => k'.wait[m] = << >>
  BY EmptyStays DEF MutexInv
<1>3. NoWaiterWhileFree'
  BY <1>2 DEF MutexInv, NoWaiterWhileFree, OwnersMove
<1>4. DetachLeavesNoWaiter'
  BY BenignDetach DEF MutexInv
<1>5. OwnerStarted'
  <2> SUFFICES ASSUME NEW m \in Mutex, owner'[m] # RT_NULL
               PROVE  k'.stat[owner'[m]] # "INIT"
    BY DEF OwnerStarted
  <2>1. owner'[m] \in Thread
    BY DEF TypeOK
  <2>2. k.stat[owner'[m]] # "INIT"
    BY DEF OwnersMove, MutexInv, OwnerStarted
  <2> QED BY <2>1, <2>2, StaysStarted DEF MutexInv
<1> QED BY <1>1, <1>3, <1>4, <1>5 DEF MutexInv

\* Steps that do not touch the mutexes respect the owners.
LEMMA SameOwners ==
    ASSUME MutexInv, UNCHANGED mvars
    PROVE  OwnerSound' /\ OwnersMove
BY DEF MutexInv, mvars, OwnerSound, OwnersMove

\* The mutexes handed to threads whose calls have not returned are the same.
GrantsKept == \A m \in Mutex, u \in Thread : Granted(m, u)' <=> Granted(m, u)

\* Nobody begins to wait, and no priority changes but that of a thread that
\* is started.
Settled ==
    /\ KeepsSorted(k'.prio)
    /\ \A q \in Queue : ToSet(k'.wait[q]) \subseteq ToSet(k.wait[q])
    /\ \/ k'.prio = k.prio
       \/ \E u \in Thread : k.stat[u] = "INIT" /\ k'.prio = [k.prio EXCEPT ![u] = init_priority[u]]

\* What a step that does not touch the mutexes does.
Quiet == MutexInv' /\ GrantsKept /\ Settled

\* The rt_schedule at the end of a call, or that the thread blocks in.
LEMMA RescheduleStep ==
    ASSUME MutexInv, NEW t \in Thread, StepReschedule(t)
    PROVE  Quiet
<1>1. /\ Core /\ k.cur = t /\ pc[t] \in {"resched", "block"}
      /\ pc' = [pc EXCEPT ![t] = IF pc[t] = "block" THEN "woken" ELSE "run"]
      /\ UNCHANGED <<alive, on, fault, value, owner, original_priority, hold, held>>
      /\ pc \in [Thread -> Pcs]
  BY DEF MutexInv, StepReschedule, Reschedule, At, Goto, TypeOK, ivars, mvars
<1>2. IpcCore' /\ DetachLeavesNoWaiter' /\ Kept /\ KeepsSorted(k.prio)
  BY <1>1, RescheduleCore DEF MutexInv, TypeOK, StepReschedule
<1>3. pc' \in [Thread -> Pcs]
  BY <1>1 DEF Pcs
<1>4. TypeOK'
  BY <1>1, <1>2, <1>3 DEF TypeOK, Kept, KernelOK
<1>5. OwnerSound' /\ OwnerStarted' /\ NoWaiterWhileFree'
  BY <1>1, <1>2 DEF MutexInv, OwnerSound, OwnerStarted, NoWaiterWhileFree, Kept
<1>6. GrantsKept
  BY <1>1, <1>2 DEF GrantsKept, Granted, Kept
<1>7. Settled
  BY <1>2 DEF Settled, Kept, KeepsSorted
<1> QED BY <1>2, <1>4, <1>5, <1>6, <1>7 DEF MutexInv, Quiet

\* The steps of a detach that leave the kernel core alone.
LEMMA DetachLocalStep ==
    ASSUME MutexInv, NEW t \in Thread,
           DetachTest(t) \/ \E m \in Mutex : Detach(t, m)
    PROVE  Quiet
<1>1. /\ Core /\ k' = k /\ k.cur = t /\ pc[t] \in {"run", "detach_test"}
      /\ UNCHANGED <<mvars, held, fault>>
  BY DEF MutexInv, DetachTest, ResumeAllTest, Detach, ResumeAll, CallsOn, Calls, At
<1>2. Kept /\ k.stat[t] = "READY" /\ KeepsSorted(k.prio)
  BY <1>1, UnchangedKept, CallerReady
<1>3. pc \in [Thread -> Pcs] /\ on \in [Thread -> Mutex] /\ alive \subseteq Mutex
  BY <1>1 DEF TypeOK
<1>4. Settled
  BY <1>1, <1>2 DEF Settled
<1>5. OwnerSound' /\ OwnersMove
  BY <1>1, SameOwners
<1>6. CASE DetachTest(t)
  <2>1. /\ pc[t] = "detach_test" /\ alive' = alive /\ on' = on
        /\ pc' = [pc EXCEPT ![t] = IF k.wait[on[t]] = << >> THEN "run" ELSE "detach_resume"]
    BY <1>6 DEF DetachTest, ResumeAllTest, Goto, At
  <2>2. TypeOK'
    BY <1>1, <1>3, <2>1 DEF TypeOK, Pcs, mvars
  <2>3. Benign
    BY <1>2, <1>3, <2>1 DEF Benign, Detaching
  <2>4. GrantsKept
    BY <1>1, <1>3, <2>1 DEF GrantsKept, Granted
  <2> QED BY <1>2, <1>4, <1>5, <2>2, <2>3, <2>4, BenignStep DEF Wakeful, Quiet
<1>7. CASE \E m \in Mutex : Detach(t, m)
  <2>1. PICK m \in Mutex : Detach(t, m)
    BY <1>7
  <2>2. /\ pc[t] = "run" /\ pc' = [pc EXCEPT ![t] = "detach_test"]
        /\ on' = [on EXCEPT ![t] = m] /\ alive' = alive \ {m}
    BY <2>1 DEF Detach, ResumeAll, Goto, CallsOn, Calls, At
  <2>3. TypeOK'
    BY <1>1, <1>3, <2>2 DEF TypeOK, Pcs, mvars
  <2>4. on'[t] = m /\ pc'[t] = "detach_test"
    BY <1>3, <2>2
  <2>5. Benign
    BY <1>2, <1>3, <2>2, <2>4 DEF Benign, Detaching
  <2>6. GrantsKept
    BY <1>1, <1>3, <2>2 DEF GrantsKept, Granted
  <2> QED BY <1>2, <1>4, <1>5, <2>3, <2>5, <2>6, BenignStep DEF Wakeful, Quiet
<1> QED BY <1>6, <1>7

\* A waiter that leaves the list with an error has not been given the mutex.
LEMMA RefusedGrants ==
    ASSUME MutexInv, NEW h \in Thread, NEW q \in Queue, NEW e \in Error \ {"EOK"},
           Woken(h, q, e), KeepsSorted(k.prio), on' = on,
           \A u \in Thread : pc'[u] = pc[u] \/ {pc[u], pc'[u]} \cap {"block", "woken"} = {}
    PROVE  GrantsKept /\ Settled
<1>1. k.stat \in [Thread -> Stat] /\ k.error \in [Thread -> Error]
  BY DEF MutexInv, IpcCore, KernelOK, KernelState
<1>2. /\ k'.stat[h] = "READY" /\ k'.error[h] = e /\ k.stat[h] = "SUSPEND"
      /\ \A v \in Thread \ {h} : k'.stat[v] = k.stat[v] /\ k'.error[v] = k.error[v]
  BY <1>1 DEF Woken
<1>3. GrantsKept
  <2> SUFFICES ASSUME NEW m \in Mutex, NEW u \in Thread PROVE Granted(m, u)' <=> Granted(m, u)
    BY DEF GrantsKept
  <2>1. CASE u = h
    BY <1>2, <2>1 DEF Granted
  <2>2. CASE u # h
    BY <1>2, <2>2 DEF Granted
  <2> QED BY <2>1, <2>2
<1>4. Settled
  BY DEF Settled, KeepsSorted, Woken
<1> QED BY <1>3, <1>4

\* A round of the loop that wakes every waiter of a detached mutex.
LEMMA DetachResumeStep ==
    ASSUME MutexInv, NEW t \in Thread, DetachResume(t)
    PROVE  Quiet
<1>1. /\ Core /\ on[t] \in Mutex /\ k.cur = t /\ pc[t] = "detach_resume"
      /\ pc' = [pc EXCEPT ![t] = "detach_test"] /\ pc \in [Thread -> Pcs]
      /\ alive' = alive /\ on' = on /\ UNCHANGED <<mvars, held>>
  BY DEF MutexInv, TypeOK, DetachResume, ResumeAllOne, At, Goto
<1>2. k.stat[t] = "READY"
  BY <1>1, CallerReady
<1>3. pc' \in [Thread -> Pcs] /\ fault' \in BOOLEAN
  BY <1>1 DEF DetachResume, ResumeAllOne, Pcs, TypeOK
<1>4. Benign
  BY <1>1, <1>2 DEF Benign, Detaching
<1>5. OwnerSound' /\ OwnersMove
  BY <1>1, SameOwners
<1>6. CASE k.wait[on[t]] # << >>
  <2>1. k' = ResumeWithError(k, on[t])
    BY <1>6 DEF DetachResume, ResumeAllOne
  <2>2. PICK h \in Thread : Woken(h, on[t], "ERROR") /\ KeepsSorted(k.prio)
    <3>1. Woken(Head(k.wait[on[t]]), on[t], "ERROR") /\ KeepsSorted(k.prio)
      BY <1>1, <1>6, <2>1, ErrorWakes
    <3> QED BY <3>1 DEF Woken
  <2>3. "ERROR" \in Error \ {"EOK"}
    BY DEF Error
  <2>4. TypeOK'
    BY <1>1, <1>3, <2>2 DEF TypeOK, Woken, KernelOK, mvars
  <2>5. GrantsKept /\ Settled
    BY <1>1, <2>2, <2>3, RefusedGrants
  <2> QED BY <1>1, <1>4, <1>5, <2>2, <2>3, <2>4, <2>5, BenignStep DEF Wakeful, Quiet
<1>7. CASE k.wait[on[t]] = << >>
  <2>1. k' = k
    BY <1>7 DEF DetachResume, ResumeAllOne
  <2>2. TypeOK'
    BY <1>1, <1>3, <2>1 DEF TypeOK, mvars
  <2>3. Kept /\ KeepsSorted(k.prio)
    BY <1>1, <2>1, UnchangedKept
  <2>4. GrantsKept /\ Settled
    BY <1>1, <2>1, <2>3 DEF GrantsKept, Granted, Settled
  <2> QED BY <1>1, <1>4, <1>5, <2>2, <2>3, <2>4, BenignStep DEF Wakeful, Quiet
<1> QED BY <1>6, <1>7

\* Ticks, expired thread timers and the start of a thread.
LEMMA InterruptStep ==
    ASSUME MutexInv,
           \/ TickStep
           \/ \E t \in Thread : TimeoutStep(t)
           \/ \E t, u \in Thread : StartupStep(t, u)
    PROVE  Quiet
<1>1. Core
  BY DEF MutexInv
<1>2. alive' = alive /\ on' = on /\ fault' = fault /\ UNCHANGED <<mvars, held>>
  BY DEF TickStep, TimeoutStep, StartupStep, ivars
<1>3. OwnerSound' /\ OwnersMove
  BY <1>2, SameOwners
<1>4. CASE TickStep
  <2>1. Kept /\ pc' = pc /\ KeepsSorted(k.prio)
    BY <1>1, <1>4, ScheduleKept DEF TickStep, SliceExpired
  <2>2. TypeOK'
    BY <1>1, <1>2, <2>1 DEF TypeOK, Kept, KernelOK, mvars
  <2>3. Benign
    BY <1>2, <2>1 DEF Benign
  <2>4. GrantsKept /\ Settled
    BY <1>2, <2>1 DEF GrantsKept, Granted, Settled, Kept, KeepsSorted
  <2> QED BY <1>3, <2>1, <2>2, <2>3, <2>4, BenignStep DEF Wakeful, Quiet
<1>5. CASE \E t \in Thread : TimeoutStep(t)
  <2>1. PICK t \in Thread : Timeout(t) /\ pc' = pc
    BY <1>5 DEF TimeoutStep, Timeout
  <2>2. /\ Woken(t, on[t], "ETIMEOUT") /\ KeepsSorted(k.prio)
        /\ on[t] \in Mutex /\ "ETIMEOUT" \in Error \ {"EOK"}
    BY <1>1, <2>1, TimeoutWakes DEF TypeOK, Error
  <2>3. TypeOK'
    BY <1>1, <1>2, <2>1, <2>2 DEF TypeOK, Woken, KernelOK, mvars
  <2>4. Benign
    BY <1>2, <2>1 DEF Benign
  <2>5. GrantsKept /\ Settled
    BY <1>2, <2>1, <2>2, RefusedGrants
  <2> QED BY <1>3, <2>2, <2>3, <2>4, <2>5, BenignStep DEF Wakeful, Quiet
<1>6. CASE \E t, u \in Thread : StartupStep(t, u)
  <2>1. PICK t \in Thread, u \in Thread : Startup(t, u)
    BY <1>6 DEF StartupStep
  <2>2. /\ k.cur = t /\ pc[t] = "run" /\ pc' = [pc EXCEPT ![t] = "resched"]
        /\ pc \in [Thread -> Pcs] /\ k.stat[t] = "READY"
    <3>1. k.cur = t /\ pc[t] = "run" /\ pc' = [pc EXCEPT ![t] = "resched"]
      BY <2>1 DEF Startup, Calls, At, Goto
    <3> QED BY <1>1, <3>1, CallerReady DEF TypeOK
  <2>3. Started(u)
    BY <1>1, <2>1, StartupStarts
  <2>4. TypeOK'
    BY <1>1, <1>2, <2>2, <2>3 DEF TypeOK, Started, KernelOK, Pcs, mvars
  <2>5. Benign
    BY <1>2, <2>2 DEF Benign, Detaching
  <2>6. GrantsKept
    <3>1. pc[u] = "run" /\ k.stat \in [Thread -> Stat]
      BY <1>1, <2>3 DEF IpcCore, Waiting, Started, KernelOK, KernelState
    <3>2. \A v \in Thread \ {u} : k'.stat[v] = k.stat[v]
      BY <2>3, <3>1 DEF Started
    <3>3. \A v \in Thread : k'.error[v] = k.error[v]
      BY <2>3 DEF Started
    <3>4. pc'[u] \notin {"block", "woken"}
      BY <2>2, <3>1
    <3> QED BY <1>2, <2>2, <3>1, <3>2, <3>3, <3>4 DEF GrantsKept, Granted
  <2>7. Settled
    BY <2>3 DEF Settled, Started, KeepsSorted
  <2> QED BY <1>3, <2>3, <2>4, <2>5, <2>6, <2>7, BenignStep DEF Wakeful, Quiet
<1> QED BY <1>4, <1>5, <1>6

\* The check of thread->error that ends rt_mutex_take.
LEMMA TakeReturnStep ==
    ASSUME MutexInv, NEW t \in Thread, TakeReturn(t)
    PROVE  MutexInv'
<1>1. /\ Core /\ k' = k /\ k.cur = t /\ pc[t] = "woken" /\ pc' = [pc EXCEPT ![t] = "run"]
      /\ pc \in [Thread -> Pcs] /\ on[t] \in Mutex
      /\ UNCHANGED <<alive, on, fault, mvars>> /\ (held' = held \/ Obtained(t, on[t]))
  BY DEF MutexInv, TypeOK, TakeReturn, At, Goto, ivars
<1>2. Kept /\ k.stat[t] = "READY"
  BY <1>1, UnchangedKept, CallerReady
<1>3. held' \in [Mutex -> [Thread -> Int]]
  BY <1>1, ObtainedHeld DEF TypeOK
<1>4. TypeOK'
  BY <1>1, <1>3 DEF TypeOK, Pcs, mvars
<1>5. Benign
  BY <1>1, <1>2 DEF Benign, Detaching
<1>6. OwnerSound' /\ OwnersMove
  BY <1>1, SameOwners
<1> QED BY <1>2, <1>4, <1>5, <1>6, BenignStep DEF Wakeful

\* The calls that change no more of the kernel core than the caller's error.
LEMMA NoWaitStep ==
    ASSUME MutexInv, NEW t \in Thread, NEW m \in Mutex, NEW time \in {-1, 0, 1}, Calls(t),
           \/ TakeOwned(t, m) \/ TakeFree(t, m) \/ TakeFails(t, m, time)
           \/ ReleaseRefused(t, m) /\ on' = on,
           UNCHANGED <<alive, fault>>
    PROVE  MutexInv' /\ \E e \in Error : Marked(t, e) /\ KeepsSorted(k.prio)
<1>1. /\ Core /\ pc' = pc /\ on' = on
      /\ value \in [Mutex -> 0 .. 1] /\ owner \in [Mutex -> Thread \cup {RT_NULL}]
      /\ original_priority \in [Mutex -> Prio \cup {255}] /\ hold \in [Mutex -> 0 .. HoldModulus - 1]
      /\ held \in [Mutex -> [Thread -> Int]]
  BY DEF MutexInv, TypeOK, TakeOwned, TakeFree, TakeFails, ReleaseRefused
<1>2. PICK e \in Error : Marked(t, e) /\ KeepsSorted(k.prio)
  <2>1. "EOK" \in Error /\ "ERROR" \in Error /\ "ETIMEOUT" \in Error
    BY DEF Error
  <2>2. \E e \in Error : k' = SetError(t, e)
    BY <2>1 DEF TakeOwned, TakeFree, TakeFails, ReleaseRefused
  <2> QED BY <1>1, <2>2, SetErrorStep
<1>3. k' \in KernelState /\ k.stat[t] = "READY" /\ k.prio[t] \in Prio /\ t # Idle
  BY <1>1, <1>2, Caller DEF Marked, KernelOK, TypeOK, KernelState
<1>4. Benign
  BY <1>1 DEF Benign
<1>5. TypeOK' /\ OwnerSound' /\ OwnersMove
  <2>1. CASE TakeOwned(t, m)
    <3>1. /\ hold' = [hold EXCEPT ![m] = (hold[m] + 1) % HoldModulus] /\ Obtained(t, m)
          /\ UNCHANGED <<value, owner, original_priority>>
      BY <1>1, <2>1 DEF TakeOwned, HoldMore
    <3>2. hold' \in [Mutex -> 0 .. HoldModulus - 1] /\ held' \in [Mutex -> [Thread -> Int]]
      BY <1>1, <3>1, HoldRange, ObtainedHeld
    <3>3. TypeOK'
      BY <1>1, <1>3, <3>1, <3>2 DEF TypeOK
    <3> QED BY <3>1, <3>3 DEF MutexInv, OwnerSound, OwnersMove
  <2>2. CASE TakeFree(t, m)
    <3>1. /\ hold' = [hold EXCEPT ![m] = (hold[m] + 1) % HoldModulus] /\ Obtained(t, m)
          /\ value' = [value EXCEPT ![m] = value[m] - 1] /\ value[m] = 1
          /\ owner' = [owner EXCEPT ![m] = t]
          /\ original_priority' = [original_priority EXCEPT ![m] = k.prio[t]]
      BY <1>1, <2>2 DEF TakeFree, HoldMore
    <3>2. hold' \in [Mutex -> 0 .. HoldModulus - 1] /\ held' \in [Mutex -> [Thread -> Int]]
      BY <1>1, <3>1, HoldRange, ObtainedHeld
    <3>3. TypeOK'
      BY <1>1, <1>3, <3>1, <3>2 DEF TypeOK
    <3>4. /\ owner'[m] = t /\ value'[m] = 0 /\ original_priority'[m] \in Prio /\ t # RT_NULL
          /\ \A n \in Mutex \ {m} : /\ owner'[n] = owner[n] /\ value'[n] = value[n]
                                    /\ original_priority'[n] = original_priority[n]
      BY <1>1, <1>3, <3>1, MutexAssumption
    <3> QED BY <1>3, <3>3, <3>4 DEF MutexInv, OwnerSound, OwnersMove
  <2>3. CASE TakeFails(t, m, time) \/ ReleaseRefused(t, m)
    <3>1. UNCHANGED <<mvars, held>>
      BY <2>3 DEF TakeFails, ReleaseRefused
    <3>2. TypeOK'
      BY <1>1, <1>3, <3>1 DEF TypeOK, mvars
    <3> QED BY <3>1, <3>2, SameOwners
  <2> QED BY <2>1, <2>2, <2>3
<1> QED BY <1>2, <1>4, <1>5, BenignStep DEF Wakeful

\* A release that leaves the mutex taken.
LEMMA ReleaseInnerStep ==
    ASSUME MutexInv, NEW t \in Thread, NEW m \in Mutex, Calls(t), ReleaseInner(t, m),
           UNCHANGED ivars
    PROVE  MutexInv'
<1>1. /\ Core /\ k' = k /\ pc' = pc /\ on' = on /\ alive' = alive /\ fault' = fault
      /\ UNCHANGED <<value, owner, original_priority>>
      /\ hold' = [hold EXCEPT ![m] = HoldLess(m)] /\ Returned(t, m)
      /\ hold \in [Mutex -> 0 .. HoldModulus - 1]
  BY DEF MutexInv, TypeOK, ReleaseInner, kvars, ivars
<1>2. hold' \in [Mutex -> 0 .. HoldModulus - 1] /\ held' \in [Mutex -> [Thread -> Int]]
  BY <1>1, HoldRange, ReturnedHeld
<1>3. TypeOK'
  BY <1>1, <1>2 DEF TypeOK
<1>4. Benign /\ OwnerSound' /\ OwnersMove
  BY <1>1 DEF MutexInv, Benign, OwnerSound, OwnersMove
<1> QED BY <1>1, <1>3, <1>4, UnchangedKept, BenignStep DEF Wakeful

\* A release that passes the mutex on.
LEMMA HandOverStep ==
    ASSUME MutexInv, NEW t \in Thread, NEW m \in Mutex, Calls(t), HandOver(t, m),
           UNCHANGED ivars
    PROVE  MutexInv'
<1> DEFINE h == Head(k.wait[m])
<1>1. /\ Core /\ OwnerSound /\ k.stat[t] = "READY" /\ pc[t] = "run"
      /\ value \in [Mutex -> 0 .. 1] /\ owner \in [Mutex -> Thread \cup {RT_NULL}]
      /\ original_priority \in [Mutex -> Prio \cup {255}] /\ hold \in [Mutex -> 0 .. HoldModulus - 1]
      /\ pc \in [Thread -> Pcs] /\ k.prio \in [Thread -> Prio]
  BY Caller DEF MutexInv, TypeOK, KernelState
<1>2. /\ on' = on /\ alive' = alive /\ fault' = fault /\ pc' = [pc EXCEPT ![t] = "resched"]
      /\ hold' = [hold EXCEPT ![m] = 1] /\ Returned(t, m) /\ value' = value /\ owner[m] = t
  BY DEF HandOver, ivars, Goto
<1>3. /\ owner' = [owner EXCEPT ![m] = h]
      /\ original_priority' = [original_priority EXCEPT ![m] = GivenBack(t, m)[h]]
      /\ Woken(h, m, "EOK")
  BY <1>1, HandOverWakes
<1> HIDE DEF h
<1>4. /\ h \in Thread /\ h # Idle /\ k.stat[h] = "SUSPEND" /\ k' \in KernelState
  BY <1>1, <1>3 DEF Woken, IpcCore, KernelOK, KernelInv, IdleReady
<1>5. GivenBack(t, m)[h] \in Prio
  BY <1>1, <1>2, <1>4, MutexAssumption DEF GivenBack, OwnerSound
<1>6. /\ hold' \in [Mutex -> 0 .. HoldModulus - 1] /\ held' \in [Mutex -> [Thread -> Int]]
      /\ pc' \in [Thread -> Pcs]
  BY <1>1, <1>2, ReturnedHeld, MutexAssumption DEF Pcs
<1>7. TypeOK'
  BY <1>1, <1>2, <1>3, <1>4, <1>5, <1>6 DEF TypeOK
<1>8. Benign
  BY <1>1, <1>2 DEF Benign, Detaching
<1>9. /\ owner'[m] = h /\ h # RT_NULL /\ original_priority'[m] \in Prio
      /\ \A n \in Mutex \ {m} :
            owner'[n] = owner[n] /\ original_priority'[n] = original_priority[n]
  BY <1>1, <1>3, <1>4, <1>5, MutexAssumption
<1>10. OwnerSound' /\ OwnersMove
  BY <1>1, <1>2, <1>4, <1>9, MutexAssumption DEF OwnerSound, OwnersMove
<1>11. "EOK" \in Error
  BY DEF Error
<1> QED BY <1>3, <1>4, <1>7, <1>8, <1>10, <1>11, BenignStep DEF Wakeful

\* A release that leaves the mutex free.
LEMMA FreeStep ==
    ASSUME MutexInv, NEW t \in Thread, NEW m \in Mutex, Calls(t), Free(t, m),
           UNCHANGED ivars
    PROVE  MutexInv'
<1>1. /\ Core /\ OwnerSound
      /\ value \in [Mutex -> 0 .. 1] /\ owner \in [Mutex -> Thread \cup {RT_NULL}]
      /\ original_priority \in [Mutex -> Prio \cup {255}] /\ hold \in [Mutex -> 0 .. HoldModulus - 1]
  BY DEF MutexInv, TypeOK
<1>2. /\ on' = on /\ alive' = alive /\ fault' = fault /\ pc' = pc
      /\ owner[m] = t /\ k.wait[m] = << >>
      /\ value' = [value EXCEPT ![m] = value[m] + 1]
      /\ owner' = [owner EXCEPT ![m] = RT_NULL]
      /\ original_priority' = [original_priority EXCEPT ![m] = 255]
      /\ hold' = [hold EXCEPT ![m] = 0] /\ Returned(t, m)
  BY <1>1 DEF Free, ivars
<1>3. Kept
  BY <1>1, FreeKeeps
<1>4. value[m] = 0
  BY <1>1, <1>2, MutexAssumption DEF OwnerSound
<1>5. /\ hold' \in [Mutex -> 0 .. HoldModulus - 1] /\ held' \in [Mutex -> [Thread -> Int]]
      /\ value' \in [Mutex -> 0 .. 1] /\ k' \in KernelState
  BY <1>1, <1>2, <1>3, <1>4, ReturnedHeld, MutexAssumption DEF Kept, KernelOK
<1>6. TypeOK'
  BY <1>1, <1>2, <1>5 DEF TypeOK
<1>7. Benign
  BY <1>2 DEF Benign
<1>8. /\ owner'[m] = RT_NULL /\ value'[m] = 1
      /\ \A n \in Mutex \ {m} : /\ owner'[n] = owner[n] /\ value'[n] = value[n]
                                /\ original_priority'[n] = original_priority[n]
  BY <1>1, <1>2, <1>4
<1>9. OwnerSound' /\ OwnersMove
  BY <1>1, <1>2, <1>8 DEF OwnerSound, OwnersMove
<1> QED BY <1>3, <1>6, <1>7, <1>9, BenignStep DEF Wakeful

\* rt_mutex_take that waits: only for a mutex with an owner, and whose detach
\* has not begun.
LEMMA TakeWaitStep ==
    ASSUME MutexInv, NEW t \in Thread, NEW m \in alive, NEW time \in {-1, 0, 1},
           Calls(t), TakeWait(t, m, time), UNCHANGED <<alive, fault>>
    PROVE  MutexInv'
<1>1. m \in Mutex /\ Core /\ OwnerSound
  BY DEF MutexInv, TypeOK
<1>2. Suspended(t, m)
  BY <1>1, TakeWaitSuspends
<1>3. /\ k.stat \in [Thread -> Stat] /\ k.cur = t
      /\ on \in [Thread -> Mutex] /\ pc \in [Thread -> Pcs] /\ pc[t] = "run"
  BY <1>1 DEF TypeOK, KernelState, Calls, At
<1>4. /\ on' = [on EXCEPT ![t] = m] /\ pc' = [pc EXCEPT ![t] = "block"]
      /\ UNCHANGED <<value, owner, original_priority, hold, held>> /\ owner[m] # RT_NULL
  BY DEF TakeWait, Goto, mvars
<1>5. TypeOK'
  <2>1. on' \in [Thread -> Mutex] /\ pc' \in [Thread -> Pcs]
    BY <1>1, <1>3, <1>4 DEF Pcs
  <2> QED BY <1>1, <1>2, <1>4, <2>1 DEF TypeOK, Suspended, KernelOK
<1>6. IpcCore' /\ DetachLeavesNoWaiter'
  BY <1>1, <1>2, <1>3, <1>4, SuspendCore DEF MutexInv
<1>7. \A q \in Mutex \ {m} : k'.wait[q] = k.wait[q]
  BY <1>2 DEF Suspended
<1>8. NoWaiterWhileFree' /\ OwnerSound'
  BY <1>4, <1>7 DEF MutexInv, NoWaiterWhileFree, OwnerSound
<1>9. OwnerStarted'
  <2>1. \A u \in Thread : k'.stat[u] = "INIT" => k.stat[u] = "INIT"
    BY <1>2, <1>3 DEF Suspended
  <2>2. \A n \in Mutex : owner[n] # RT_NULL => owner[n] \in Thread
    BY <1>1 DEF TypeOK
  <2> QED BY <1>4, <2>1, <2>2 DEF MutexInv, OwnerStarted
<1> QED BY <1>5, <1>6, <1>8, <1>9 DEF MutexInv

\* The steps that do not touch the mutexes.
QuietStep ==
    /\ \/ TickStep
       \/ \E t \in Thread : \/ TimeoutStep(t) \/ StepReschedule(t)
                            \/ DetachTest(t) \/ DetachResume(t)
                            \/ \E u \in Thread : StartupStep(t, u)
                            \/ \E m \in Mutex : Detach(t, m)
    /\ UNCHANGED <<mvars, held>>

\* The calls on the mutex m by a thread t.
MutexCall(t, m) ==
    /\ Calls(t) /\ m \in alive /\ UNCHANGED <<alive, fault>>
    /\ \/ TakeOwned(t, m) \/ TakeFree(t, m)
       \/ \E time \in {-1, 0, 1} : TakeFails(t, m, time) \/ TakeWait(t, m, time)
       \/ /\ on' = on
          /\ ReleaseRefused(t, m) \/ ReleaseInner(t, m) \/ HandOver(t, m) \/ Free(t, m)

\* What the steps of the specification are.
LEMMA StepKinds ==
    ASSUME Next
    PROVE  \/ QuietStep
           \/ \E t \in Thread : TakeReturn(t)
           \/ \E t \in Thread, m \in Mutex : MutexCall(t, m)
           \/ UNCHANGED vars
<1>1. CASE TickStep \/ \E t \in Thread : TimeoutStep(t)
  BY <1>1 DEF QuietStep, TickStep, TimeoutStep
<1>2. ASSUME NEW t \in Thread, ThreadStep(t) PROVE QuietStep \/ TakeReturn(t)
  BY <1>2 DEF ThreadStep, QuietStep, StepReschedule, DetachTest, DetachResume
<1>3. ASSUME NEW t \in Thread, ThreadCall(t) PROVE QuietStep \/ \E m \in Mutex : MutexCall(t, m)
  <2>1. CASE \E u \in Thread : StartupStep(t, u)
    BY <2>1 DEF QuietStep, StartupStep
  <2>2. CASE \E m \in Mutex : Detach(t, m)
    BY <2>2 DEF QuietStep, Detach
  <2>3. ASSUME NEW m \in Mutex, NEW time \in {-1, 0, 1}, rt_mutex_take(t, m, time)
        PROVE  MutexCall(t, m)
    BY <2>3 DEF rt_mutex_take, MutexCall, CallsOn
  <2>4. ASSUME NEW m \in Mutex, rt_mutex_release(t, m) PROVE MutexCall(t, m)
    BY <2>4 DEF rt_mutex_release, MutexCall, CallsOn, ivars
  <2> QED BY <1>3, <2>1, <2>2, <2>3, <2>4 DEF ThreadCall
<1> QED BY <1>1, <1>2, <1>3 DEF Next, Halted

\* A step that does not touch the mutexes is quiet.
LEMMA QuietSteps ==
    ASSUME MutexInv, QuietStep
    PROVE  Quiet
BY RescheduleStep, DetachLocalStep, DetachResumeStep, InterruptStep DEF QuietStep

\* Every step preserves the invariant.
LEMMA NextInv == MutexInv /\ [Next]_vars => MutexInv'
<1> SUFFICES ASSUME MutexInv, [Next]_vars PROVE MutexInv'
  OBVIOUS
<1>1. CASE UNCHANGED vars
  <2>1. /\ k' = k /\ pc' = pc /\ alive' = alive /\ on' = on /\ fault' = fault
        /\ UNCHANGED <<value, owner, original_priority, hold, held>>
    BY <1>1 DEF vars, kvars, ivars, mvars
  <2> QED BY <2>1 DEF MutexInv, IpcCore, TypeOK, Waiting, CurRunnable, OwnerSound, OwnerStarted,
                      NoWaiterWhileFree, DetachLeavesNoWaiter
<1>2. CASE QuietStep
  BY <1>2, QuietSteps DEF Quiet
<1>3. CASE \E t \in Thread : TakeReturn(t)
  BY <1>3, TakeReturnStep
<1>4. ASSUME NEW t \in Thread, NEW m \in Mutex, MutexCall(t, m) PROVE MutexInv'
  <2>1. Calls(t) /\ m \in alive /\ UNCHANGED <<alive, fault>>
    BY <1>4 DEF MutexCall
  <2>2. CASE \/ TakeOwned(t, m) \/ TakeFree(t, m) \/ \E time \in {-1, 0, 1} : TakeFails(t, m, time)
             \/ ReleaseRefused(t, m) /\ on' = on
    BY <2>1, <2>2, NoWaitStep
  <2>3. CASE \E time \in {-1, 0, 1} : TakeWait(t, m, time)
    BY <2>1, <2>3, TakeWaitStep
  <2>4. CASE on' = on /\ (ReleaseInner(t, m) \/ HandOver(t, m) \/ Free(t, m))
    <3>1. UNCHANGED ivars
      BY <2>1, <2>4 DEF ivars
    <3> QED BY <2>1, <2>4, <3>1, ReleaseInnerStep, HandOverStep, FreeStep
  <2> QED BY <1>4, <2>2, <2>3, <2>4 DEF MutexCall
<1> QED BY <1>1, <1>2, <1>3, <1>4, StepKinds

\* The invariant holds in every reachable state.
LEMMA Invariance == Spec => []MutexInv
BY InitInv, NextInv, PTL DEF Spec

-----------------------------------------------------------------------------
(* Theorems for any number of mutexes.                                     *)

\* Types, kernel lists, bitmap, masks and timers stay consistent under every
\* interleaving of mutex calls, inherited and restored priorities, timeouts
\* and detaches; a suspended thread stays reachable through the list of its
\* mutex, and a detached mutex leaves nobody behind on its list.
THEOREM StaysConsistent == Spec => []Consistent
<1>1. MutexInv => Consistent
  BY DEF MutexInv, IpcCore, KernelOK, KernelConsistent, Waiting, NoLostThread, Consistent
<1> QED BY <1>1, Invariance, PTL

\* No thread sleeps on a free mutex: rt_mutex_take never misses a release.
THEOREM NoMissedRelease == Spec => []NoWaiterWhileFree
<1>1. MutexInv => NoWaiterWhileFree
  BY DEF MutexInv
<1> QED BY <1>1, Invariance, PTL

-----------------------------------------------------------------------------
(* Hold counts.  hold is not checked for overflow: its value after the     *)
(* HoldModulus-th nested take is 0.  What follows is about clients that    *)
(* nest fewer takes.                                                       *)

\* An owner has taken its mutex at least once.
HoldInv ==
    /\ HoldCountsTakes
    /\ \A m \in Mutex : owner[m] # RT_NULL => hold[m] >= 1

\* A thread outside a blocking call is not being given a mutex.
LEMMA CallerNotGranted ==
    ASSUME NEW t \in Thread, NEW m \in Mutex, pc[t] \notin {"block", "woken"}
    PROVE  ~Granted(m, t)
BY DEF Granted

\* Setting the error of a running thread, or waiting, gives nobody a mutex.
LEMMA CallGrants ==
    ASSUME Core, NEW t \in Thread, Calls(t),
           \/ /\ pc' = pc /\ on' = on
              /\ Kept \/ \E e \in Error : Marked(t, e)
           \/ /\ \E m \in Mutex : Suspended(t, m) /\ on' = [on EXCEPT ![t] = m]
              /\ pc' = [pc EXCEPT ![t] = "block"]
    PROVE  GrantsKept
<1>1. /\ k.stat \in [Thread -> Stat] /\ k.error \in [Thread -> Error] /\ pc[t] = "run"
      /\ on \in [Thread -> Mutex] /\ pc \in [Thread -> Pcs]
  BY Caller DEF IpcCore, KernelOK, KernelState, TypeOK
<1>2. CASE pc' = pc /\ on' = on /\ (Kept \/ \E e \in Error : Marked(t, e))
  <2>1. k'.stat = k.stat /\ \A u \in Thread \ {t} : k'.error[u] = k.error[u]
    BY <1>1, <1>2 DEF Kept, Marked
  <2> QED BY <1>1, <1>2, <2>1 DEF GrantsKept, Granted
<1>3. ASSUME NEW m \in Mutex, Suspended(t, m), on' = [on EXCEPT ![t] = m],
             pc' = [pc EXCEPT ![t] = "block"]
      PROVE  GrantsKept
  <2>1. /\ k'.stat[t] = "SUSPEND"
        /\ \A u \in Thread \ {t} : /\ k'.stat[u] = k.stat[u] /\ k'.error[u] = k.error[u]
                                   /\ on'[u] = on[u] /\ pc'[u] = pc[u]
    BY <1>1, <1>3 DEF Suspended
  <2> QED BY <1>1, <2>1 DEF GrantsKept, Granted
<1> QED BY <1>2, <1>3

\* Steps that leave the mutexes, their holders and their grants alone.
LEMMA HoldQuiet ==
    ASSUME HoldInv, GrantsKept, UNCHANGED <<mvars, held>>
    PROVE  HoldInv'
<1>1. /\ \A m \in Mutex : /\ owner'[m] = owner[m] /\ value'[m] = value[m] /\ hold'[m] = hold[m]
                          /\ \A t \in Thread : held'[m][t] = held[m][t]
      /\ \A m \in Mutex, t \in Thread : Granted(m, t)' <=> Granted(m, t)
  BY DEF mvars, GrantsKept
<1> QED BY <1>1 DEF HoldInv, HoldCountsTakes

\* The return of rt_mutex_take turns a grant into a hold.
LEMMA HoldTakeReturn ==
    ASSUME MutexInv, HoldInv, NEW t \in Thread, TakeReturn(t)
    PROVE  HoldInv'
<1>1. /\ Core /\ k' = k /\ k.cur = t /\ pc[t] = "woken" /\ pc' = [pc EXCEPT ![t] = "run"]
      /\ pc \in [Thread -> Pcs] /\ on[t] \in Mutex /\ on' = on /\ UNCHANGED mvars
      /\ IF k.error[t] = "EOK" THEN Obtained(t, on[t]) ELSE UNCHANGED held
  BY DEF MutexInv, TypeOK, TakeReturn, At, Goto, ivars
<1>2. k.stat[t] = "READY"
  BY <1>1, CallerReady
<1>3. \A n \in Mutex : ~Granted(n, t)'
  BY <1>1 DEF Granted
<1>4. \A n \in Mutex, u \in Thread \ {t} : Granted(n, u)' <=> Granted(n, u)
  BY <1>1 DEF Granted
<1>5. CASE k.error[t] # "EOK"
  <2>1. \A n \in Mutex : ~Granted(n, t)
    BY <1>5 DEF Granted
  <2>2. GrantsKept
    BY <1>3, <1>4, <2>1 DEF GrantsKept
  <2> QED BY <1>1, <1>5, <2>2, HoldQuiet
<1>6. CASE k.error[t] = "EOK"
  <2>1. Granted(on[t], t) /\ \A n \in Mutex \ {on[t]} : ~Granted(n, t)
    BY <1>1, <1>2, <1>6 DEF Granted
  <2>2. /\ held'[on[t]][t] = held[on[t]][t] + 1 /\ held[on[t]][t] \in Int
        /\ \A n \in Mutex, u \in Thread : n # on[t] \/ u # t => held'[n][u] = held[n][u]
    BY <1>1, <1>6, ObtainedHeld DEF TypeOK
  <2>3. \A n \in Mutex : owner'[n] = owner[n] /\ value'[n] = value[n] /\ hold'[n] = hold[n]
    BY <1>1 DEF mvars
  <2>4. owner[on[t]] = t /\ hold[on[t]] = held[on[t]][t] + 1
    BY <1>1, <2>1 DEF HoldInv, HoldCountsTakes
  <2>5. HoldCountsTakes'
    <3> SUFFICES ASSUME NEW n \in Mutex
                 PROVE  /\ owner'[n] = RT_NULL <=> value'[n] > 0
                        /\ owner'[n] = RT_NULL => hold'[n] = 0
                        /\ \A u \in Thread :
                              /\ owner'[n] = u => hold'[n] = held'[n][u]
                                                     + (IF Granted(n, u)' THEN 1 ELSE 0)
                              /\ owner'[n] # u => held'[n][u] = 0 /\ ~Granted(n, u)'
      BY DEF HoldCountsTakes
    <3>1. CASE n = on[t]
      BY <1>3, <1>4, <2>2, <2>3, <2>4, <3>1 DEF HoldInv, HoldCountsTakes
    <3>2. CASE n # on[t]
      BY <1>3, <1>4, <2>1, <2>2, <2>3, <3>2 DEF HoldInv, HoldCountsTakes
    <3> QED BY <3>1, <3>2
  <2> QED BY <2>3, <2>5 DEF HoldInv
<1> QED BY <1>5, <1>6

\* What HoldInv says of the mutex m.
HoldOf(m) ==
    /\ owner[m] = RT_NULL <=> value[m] > 0
    /\ owner[m] = RT_NULL => hold[m] = 0
    /\ owner[m] # RT_NULL => hold[m] >= 1
    /\ \A t \in Thread :
          /\ owner[m] = t => hold[m] = held[m][t] + (IF Granted(m, t) THEN 1 ELSE 0)
          /\ owner[m] # t => held[m][t] = 0 /\ ~Granted(m, t)

\* A step that changes one mutex only.
LEMMA HoldAt ==
    ASSUME HoldInv, NEW m \in Mutex, HoldOf(m)',
           \A n \in Mutex \ {m} :
              /\ owner'[n] = owner[n] /\ value'[n] = value[n] /\ hold'[n] = hold[n]
              /\ \A t \in Thread : held'[n][t] = held[n][t] /\ (Granted(n, t)' <=> Granted(n, t))
    PROVE  HoldInv'
<1>1. \A n \in Mutex : HoldOf(n)'
  <2> SUFFICES ASSUME NEW n \in Mutex, n # m PROVE HoldOf(n)'
    OBVIOUS
  <2>1. HoldOf(n)
    BY DEF HoldInv, HoldCountsTakes, HoldOf
  <2> QED BY <2>1 DEF HoldOf
<1> QED BY <1>1 DEF HoldInv, HoldCountsTakes, HoldOf

\* The takes and releases of the owner, and the take of a free mutex, keep the
\* hold count in step with what the calls returned.
LEMMA HoldOwnCall ==
    ASSUME MaxHold < HoldModulus, MutexInv, HoldInv, NEW t \in Thread, NEW m \in Mutex,
           Calls(t), GrantsKept,
           \/ TakeOwned(t, m) \/ TakeFree(t, m)
           \/ ReleaseInner(t, m) \/ Free(t, m)
    PROVE  HoldInv'
<1>1. /\ Core /\ value \in [Mutex -> 0 .. 1] /\ owner \in [Mutex -> Thread \cup {RT_NULL}]
      /\ hold \in [Mutex -> 0 .. HoldModulus - 1] /\ held[m][t] \in Int
      /\ HoldModulus \in Nat /\ HoldModulus >= 2 /\ MaxHold \in Nat /\ t # RT_NULL
  BY MutexAssumption DEF MutexInv, TypeOK
<1>2. HoldOf(m) /\ ~Granted(m, t)
  BY Caller, CallerNotGranted DEF MutexInv, HoldInv, HoldCountsTakes, HoldOf
<1>3. \A n \in Mutex, u \in Thread : Granted(n, u)' <=> Granted(n, u)
  BY DEF GrantsKept
<1>4. CASE TakeOwned(t, m)
  <2>1. /\ owner[m] = t /\ held[m][t] < MaxHold
        /\ hold' = [hold EXCEPT ![m] = (hold[m] + 1) % HoldModulus] /\ Obtained(t, m)
        /\ owner' = owner /\ value' = value
    BY <1>1, <1>4 DEF TakeOwned, HoldMore
  <2>2. hold[m] = held[m][t] /\ hold[m] + 1 < HoldModulus
    BY <1>1, <1>2, <2>1 DEF HoldOf
  <2>3. hold'[m] = hold[m] + 1 /\ \A n \in Mutex \ {m} : hold'[n] = hold[n]
    BY <1>1, <2>1, <2>2, HoldRange
  <2>4. /\ held'[m][t] = held[m][t] + 1
        /\ \A n \in Mutex, u \in Thread : n # m \/ u # t => held'[n][u] = held[n][u]
    BY <1>1, <2>1, ObtainedHeld
  <2>5. HoldOf(m)'
    BY <1>1, <1>2, <1>3, <2>1, <2>2, <2>3, <2>4 DEF HoldOf
  <2> QED BY <1>3, <2>1, <2>3, <2>4, <2>5, HoldAt
<1>5. CASE TakeFree(t, m)
  <2>1. /\ value[m] = 1 /\ value' = [value EXCEPT ![m] = value[m] - 1]
        /\ owner' = [owner EXCEPT ![m] = t]
        /\ hold' = [hold EXCEPT ![m] = (hold[m] + 1) % HoldModulus] /\ Obtained(t, m)
    BY <1>1, <1>5 DEF TakeFree, HoldMore
  <2>2. /\ owner[m] = RT_NULL /\ hold[m] = 0
        /\ \A u \in Thread : held[m][u] = 0 /\ ~Granted(m, u)
    BY <1>2, <2>1, MutexAssumption DEF HoldOf
  <2>3. /\ hold'[m] = 1 /\ owner'[m] = t /\ value'[m] = 0
        /\ \A n \in Mutex \ {m} : hold'[n] = hold[n] /\ owner'[n] = owner[n] /\ value'[n] = value[n]
    BY <1>1, <2>1, <2>2, HoldRange
  <2>4. /\ held'[m][t] = held[m][t] + 1
        /\ \A n \in Mutex, u \in Thread : n # m \/ u # t => held'[n][u] = held[n][u]
    BY <1>1, <2>1, ObtainedHeld
  <2>5. \A u \in Thread : held'[m][u] = (IF u = t THEN 1 ELSE 0) /\ ~Granted(m, u)'
    BY <1>3, <2>2, <2>4
  <2>6. HoldOf(m)'
    BY <1>1, <2>3, <2>5 DEF HoldOf
  <2> QED BY <1>3, <2>3, <2>4, <2>6, HoldAt
<1>6. CASE ReleaseInner(t, m)
  <2>1. /\ owner[m] = t /\ HoldLess(m) # 0
        /\ hold' = [hold EXCEPT ![m] = HoldLess(m)] /\ Returned(t, m)
        /\ owner' = owner /\ value' = value
    BY <1>6 DEF ReleaseInner
  <2>2. hold[m] = held[m][t] /\ hold[m] >= 1
    BY <1>1, <1>2, <2>1 DEF HoldOf
  <2>3. hold'[m] = hold[m] - 1 /\ hold'[m] >= 1 /\ \A n \in Mutex \ {m} : hold'[n] = hold[n]
    BY <1>1, <2>1, <2>2, HoldRange
  <2>4. /\ held'[m][t] = held[m][t] - 1
        /\ \A n \in Mutex, u \in Thread : n # m \/ u # t => held'[n][u] = held[n][u]
    BY <1>1, <2>1, ReturnedHeld
  <2>5. HoldOf(m)'
    BY <1>1, <1>2, <1>3, <2>1, <2>2, <2>3, <2>4 DEF HoldOf
  <2> QED BY <1>3, <2>1, <2>3, <2>4, <2>5, HoldAt
<1>7. CASE Free(t, m)
  <2>1. /\ owner[m] = t /\ HoldLess(m) = 0
        /\ hold' = [hold EXCEPT ![m] = 0] /\ Returned(t, m)
        /\ owner' = [owner EXCEPT ![m] = RT_NULL] /\ value' = [value EXCEPT ![m] = value[m] + 1]
    BY <1>1, <1>7 DEF Free
  <2>2. hold[m] = held[m][t] /\ hold[m] >= 1 /\ value[m] = 0
    BY <1>1, <1>2, <2>1 DEF HoldOf
  <2>3. hold[m] = 1
    BY <1>1, <2>1, <2>2, HoldRange
  <2>4. /\ hold'[m] = 0 /\ owner'[m] = RT_NULL /\ value'[m] = 1
        /\ \A n \in Mutex \ {m} : hold'[n] = hold[n] /\ owner'[n] = owner[n] /\ value'[n] = value[n]
    BY <1>1, <2>1, <2>2
  <2>5. /\ held'[m][t] = 0
        /\ \A n \in Mutex, u \in Thread : n # m \/ u # t => held'[n][u] = held[n][u]
    <3>1. /\ held'[m][t] = held[m][t] - 1
          /\ \A n \in Mutex, u \in Thread : n # m \/ u # t => held'[n][u] = held[n][u]
      BY <1>1, <2>1, ReturnedHeld
    <3>2. held[m][t] = 1
      BY <2>2, <2>3
    <3> QED BY <3>1, <3>2
  <2>6. HoldOf(m)'
    BY <1>1, <1>2, <1>3, <2>1, <2>4, <2>5, MutexAssumption DEF HoldOf
  <2> QED BY <1>3, <2>4, <2>5, <2>6, HoldAt
<1> QED BY <1>4, <1>5, <1>6, <1>7

\* A hand-over turns the owner's last hold into a grant of the first waiter.
LEMMA HoldHandOver ==
    ASSUME MutexInv, HoldInv, NEW t \in Thread, NEW m \in Mutex, Calls(t), HandOver(t, m), on' = on
    PROVE  HoldInv'
<1>1. /\ Core /\ OwnerSound /\ owner \in [Mutex -> Thread \cup {RT_NULL}]
      /\ hold \in [Mutex -> 0 .. HoldModulus - 1] /\ held[m][t] \in Int
      /\ k.stat \in [Thread -> Stat] /\ k.error \in [Thread -> Error] /\ pc \in [Thread -> Pcs]
      /\ t # RT_NULL /\ k.stat[t] = "READY" /\ pc[t] = "run"
  <2>1. Core /\ OwnerSound /\ k.stat[t] = "READY" /\ pc[t] = "run"
    BY Caller DEF MutexInv
  <2>2. k.stat \in [Thread -> Stat] /\ k.error \in [Thread -> Error]
    BY <2>1 DEF TypeOK, KernelState
  <2> QED BY <2>1, <2>2, MutexAssumption DEF TypeOK
<1>2. HoldOf(m) /\ \A n \in Mutex : ~Granted(n, t)
  BY <1>1, CallerNotGranted DEF HoldInv, HoldCountsTakes, HoldOf
<1>3. /\ owner[m] = t /\ HoldLess(m) = 0 /\ hold' = [hold EXCEPT ![m] = 1] /\ Returned(t, m)
      /\ pc' = [pc EXCEPT ![t] = "resched"] /\ value' = value
  BY DEF HandOver, Goto
<1>4. PICK h \in Thread : owner' = [owner EXCEPT ![m] = h] /\ Woken(h, m, "EOK")
  <2>1. owner' = [owner EXCEPT ![m] = Head(k.wait[m])] /\ Woken(Head(k.wait[m]), m, "EOK")
    BY <1>1, HandOverWakes
  <2> QED BY <2>1 DEF Woken
<1>5. /\ h \in Thread /\ h # t /\ on[h] = m /\ pc[h] \in {"block", "woken"}
      /\ k'.stat[h] = "READY" /\ k'.error[h] = "EOK"
      /\ \A u \in Thread \ {h} : k'.stat[u] = k.stat[u] /\ k'.error[u] = k.error[u]
  BY <1>1, <1>4, WaiterOn DEF Woken
<1>6. Granted(m, h)' /\ \A n \in Mutex \ {m} : ~Granted(n, h)' /\ ~Granted(n, h)
  BY <1>1, <1>3, <1>5 DEF Granted
<1>7. \A n \in Mutex, u \in Thread \ {h} : Granted(n, u)' <=> Granted(n, u)
  BY <1>1, <1>3, <1>5 DEF Granted
<1>8. hold[m] = 1 /\ held[m][t] = 1
  <2>1. hold[m] = held[m][t] /\ hold[m] >= 1
    BY <1>1, <1>2, <1>3 DEF HoldOf
  <2> QED BY <1>1, <1>3, <2>1, HoldRange
<1>9. /\ held'[m][t] = 0
      /\ \A n \in Mutex, u \in Thread : n # m \/ u # t => held'[n][u] = held[n][u]
  <2>1. /\ held'[m][t] = held[m][t] - 1
        /\ \A n \in Mutex, u \in Thread : n # m \/ u # t => held'[n][u] = held[n][u]
    BY <1>1, <1>3, ReturnedHeld
  <2> QED BY <1>8, <2>1
<1>10. /\ owner'[m] = h /\ hold'[m] = 1 /\ h # RT_NULL
       /\ \A n \in Mutex \ {m} : owner'[n] = owner[n] /\ hold'[n] = hold[n]
  BY <1>1, <1>3, <1>4, <1>5, MutexAssumption
<1>11. \A u \in Thread : held'[m][u] = 0 /\ (Granted(m, u)' <=> u = h)
  BY <1>2, <1>3, <1>5, <1>6, <1>7, <1>9 DEF HoldOf
<1>12. HoldOf(m)'
  <2>1. value'[m] = 0 \/ ~(value'[m] > 0)
    BY <1>1, <1>2, <1>3 DEF HoldOf
  <2> QED BY <1>10, <1>11, <2>1 DEF HoldOf
<1>13. \A n \in Mutex \ {m}, u \in Thread : Granted(n, u)' <=> Granted(n, u)
  BY <1>6, <1>7
<1> QED BY <1>3, <1>9, <1>10, <1>12, <1>13, HoldAt

\* Every step keeps the hold counts right.
LEMMA HoldNext ==
    ASSUME MaxHold < HoldModulus, MutexInv, HoldInv, [Next]_vars
    PROVE  HoldInv'
<1>1. CASE UNCHANGED vars
  <2>1. k' = k /\ pc' = pc /\ on' = on /\ UNCHANGED <<mvars, held>>
    BY <1>1 DEF vars, kvars, ivars
  <2>2. GrantsKept
    BY <2>1 DEF GrantsKept, Granted
  <2> QED BY <2>1, <2>2, HoldQuiet
<1>2. CASE QuietStep
  BY <1>2, QuietSteps, HoldQuiet DEF Quiet, QuietStep
<1>3. CASE \E t \in Thread : TakeReturn(t)
  BY <1>3, HoldTakeReturn
<1>4. ASSUME NEW t \in Thread, NEW m \in Mutex, MutexCall(t, m) PROVE HoldInv'
  <2>1. Calls(t) /\ m \in alive /\ UNCHANGED <<alive, fault>> /\ Core /\ OwnerSound
    BY <1>4 DEF MutexCall, MutexInv
  <2>2. CASE \/ TakeOwned(t, m) \/ TakeFree(t, m) \/ \E time \in {-1, 0, 1} : TakeFails(t, m, time)
             \/ ReleaseRefused(t, m) /\ on' = on
    <3>1. \E e \in Error : Marked(t, e)
      BY <2>1, <2>2, NoWaitStep
    <3>2. pc' = pc /\ on' = on
      BY <2>2 DEF TakeOwned, TakeFree, TakeFails, ReleaseRefused
    <3>3. GrantsKept
      BY <2>1, <3>1, <3>2, CallGrants
    <3>4. CASE TakeOwned(t, m) \/ TakeFree(t, m)
      BY <2>1, <3>3, <3>4, HoldOwnCall
    <3>5. CASE \/ \E time \in {-1, 0, 1} : TakeFails(t, m, time)
               \/ ReleaseRefused(t, m)
      BY <3>3, <3>5, HoldQuiet DEF TakeFails, ReleaseRefused
    <3> QED BY <2>2, <3>4, <3>5
  <2>3. ASSUME NEW time \in {-1, 0, 1}, TakeWait(t, m, time) PROVE HoldInv'
    <3>1. Suspended(t, m) /\ on' = [on EXCEPT ![t] = m] /\ pc' = [pc EXCEPT ![t] = "block"]
      BY <2>1, <2>3, TakeWaitSuspends DEF TakeWait, Goto
    <3>2. GrantsKept
      BY <2>1, <3>1, CallGrants
    <3> QED BY <2>3, <3>2, HoldQuiet DEF TakeWait
  <2>4. CASE on' = on /\ ReleaseInner(t, m)
    <3>1. Kept /\ pc' = pc
      BY <2>1, <2>4, UnchangedKept DEF ReleaseInner, kvars
    <3> QED BY <2>1, <2>4, <3>1, CallGrants, HoldOwnCall
  <2>5. CASE on' = on /\ Free(t, m)
    <3>1. Kept /\ pc' = pc
      BY <2>1, <2>5, FreeKeeps DEF Free
    <3> QED BY <2>1, <2>5, <3>1, CallGrants, HoldOwnCall
  <2>6. CASE on' = on /\ HandOver(t, m)
    BY <2>1, <2>6, HoldHandOver
  <2> QED BY <1>4, <2>2, <2>3, <2>4, <2>5, <2>6 DEF MutexCall
<1> QED BY <1>1, <1>2, <1>3, <1>4, StepKinds

\* The hold counts are right initially.
LEMMA HoldInit == Init => HoldInv
<1> SUFFICES ASSUME Init PROVE HoldInv
  OBVIOUS
<1>1. \A t \in Thread : pc[t] = "run"
  BY DEF Init, IpcInit, ThreadsInit
<1> QED BY <1>1, MutexAssumption DEF Init, HoldInv, HoldCountsTakes, Granted

\* When no client nests HoldModulus takes, owner and hold agree with what the
\* calls of rt_mutex_take and rt_mutex_release returned, through hand-overs
\* whose receiver has not run yet, timeouts and detaches.
THEOREM HoldCountsAreRight ==
    ASSUME MaxHold < HoldModulus
    PROVE  Spec => []HoldCountsTakes
<1>1. MutexInv /\ HoldInv /\ [Next]_vars => HoldInv'
  BY HoldNext
<1>2. HoldInv => HoldCountsTakes
  BY DEF HoldInv
<1> QED BY <1>1, <1>2, HoldInit, Invariance, PTL DEF Spec

\* Under the same condition no two threads hold a mutex at once.
THEOREM MutexExcludes ==
    ASSUME MaxHold < HoldModulus
    PROVE  Spec => []MutualExclusion
<1>1. ASSUME HoldCountsTakes PROVE MutualExclusion
  <2> SUFFICES ASSUME NEW m \in Mutex, NEW t \in Thread, NEW u \in Thread,
                      held[m][t] > 0, held[m][u] > 0
               PROVE  t = u
    BY DEF MutualExclusion
  <2>1. owner[m] = t /\ owner[m] = u
    BY <1>1 DEF HoldCountsTakes
  <2> QED BY <2>1
<1>2. HoldCountsTakes => MutualExclusion
  BY <1>1
<1> QED BY <1>2, HoldCountsAreRight, PTL

-----------------------------------------------------------------------------
(* Priority inheritance, in a system with one mutex.  With nested mutexes  *)
(* the two properties are false of the code: a release restores the        *)
(* priority noted when that mutex was taken, dropping what was inherited   *)
(* through another.                                                        *)

OneMutex == \A m, n \in Mutex : m = n

\* The lists are sorted by priority, an owner does not wait, and the release
\* will restore the priority its owner was created with.
InheritInv ==
    /\ \A m \in Mutex : SortedBy(k.wait[m], k.prio)
    /\ \A m \in Mutex : owner[m] # RT_NULL =>
          owner[m] \notin ToSet(k.wait[m]) /\ original_priority[m] = init_priority[owner[m]]
    /\ OwnerInherits
    /\ PriorityRestored

\* A list is as sorted as before when the priorities of its members are.
LEMMA SortedFrame ==
    ASSUME NEW S, NEW s \in Seq(S), NEW p, NEW q, SortedBy(s, p),
           \A x \in ToSet(s) : q[x] = p[x]
    PROVE  SortedBy(s, q)
<1>1. \A i \in 1 .. Len(s) : s[i] \in ToSet(s)
  BY ListIndex
<1> QED BY <1>1 DEF SortedBy

\* The first of a sorted list is the most urgent.
LEMMA SortedHead ==
    ASSUME NEW S, NEW s \in Seq(S), NEW p \in [S -> Prio], SortedBy(s, p), NEW x \in ToSet(s)
    PROVE  p[Head(s)] <= p[x]
<1>1. PICK i \in 1 .. Len(s) : s[i] = x
  BY ListIndex
<1>2. Head(s) = s[1] /\ 1 \in 1 .. Len(s)
  BY <1>1
<1>3. CASE i = 1
  <2>1. p[x] \in Int
    BY <1>1, PrioAssumption DEF Prio
  <2> QED BY <1>1, <1>2, <1>3, <2>1
<1>4. CASE i # 1
  BY <1>1, <1>2, <1>4 DEF SortedBy
<1> QED BY <1>3, <1>4

\* Who waits, and at which priority.
LEMMA Waiters ==
    ASSUME Core, NEW m \in Mutex
    PROVE  /\ k.wait[m] \in Seq(Thread) /\ k.prio \in [Thread -> Prio]
           /\ \A w \in ToSet(k.wait[m]) : w \in Thread /\ k.stat[w] = "SUSPEND"
<1>1. k.wait[m] \in Seq(Thread) /\ k.prio \in [Thread -> Prio]
  BY DEF IpcCore, KernelOK, KernelState
<1>2. \A w \in ToSet(k.wait[m]) : w \in Thread
  <2> SUFFICES ASSUME NEW w \in ToSet(k.wait[m]) PROVE w \in Thread
    OBVIOUS
  <2>1. PICK i \in 1 .. Len(k.wait[m]) : k.wait[m][i] = w
    BY <1>1, ListIndex
  <2> QED BY <1>1, <2>1
<1> QED BY <1>1, <1>2, WaiterOn

\* Steps at which nobody begins to wait, no owner changes, and no priority but
\* that of a thread that is started.
LEMMA InheritSettled ==
    ASSUME MutexInv, InheritInv, Settled, owner' = owner, original_priority' = original_priority
    PROVE  InheritInv'
<1>1. /\ Core /\ OwnerStarted /\ NoWaiterWhileFree
      /\ \A m \in Mutex : owner[m] \in Thread \cup {RT_NULL}
      /\ \A m \in Mutex : ToSet(k'.wait[m]) \subseteq ToSet(k.wait[m])
      /\ k.prio \in [Thread -> Prio]
  BY DEF MutexInv, TypeOK, Settled, KernelState
<1>2. ASSUME k'.prio = k.prio PROVE InheritInv'
  <2>1. \A m \in Mutex : SortedBy(k'.wait[m], k'.prio)
    BY <1>2 DEF InheritInv, Settled, KeepsSorted
  <2> QED BY <1>1, <1>2, <2>1 DEF InheritInv, OwnerInherits, PriorityRestored
<1>3. ASSUME NEW u \in Thread, k.stat[u] = "INIT",
             k'.prio = [k.prio EXCEPT ![u] = init_priority[u]]
      PROVE  InheritInv'
  <2>1. k'.prio[u] = init_priority[u] /\ \A v \in Thread \ {u} : k'.prio[v] = k.prio[v]
    BY <1>1, <1>3
  <2>2. \A m \in Mutex : \A w \in ToSet(k.wait[m]) : w \in Thread /\ k'.prio[w] = k.prio[w]
    BY <1>1, <1>3, <2>1, Waiters
  <2>3. \A m \in Mutex : owner[m] # RT_NULL => k'.prio[owner[m]] = k.prio[owner[m]]
    BY <1>1, <1>3, <2>1 DEF OwnerStarted
  <2>4. \A m \in Mutex : SortedBy(k'.wait[m], k'.prio)
    <3> SUFFICES ASSUME NEW m \in Mutex PROVE SortedBy(k'.wait[m], k'.prio)
      OBVIOUS
    <3>1. k.wait[m] \in Seq(Thread) /\ SortedBy(k.wait[m], k.prio)
      BY <1>1, Waiters DEF InheritInv
    <3>2. SortedBy(k.wait[m], k'.prio)
      BY <2>2, <3>1, SortedFrame
    <3> QED BY <3>2 DEF Settled, KeepsSorted
  <2>5. OwnerInherits'
    <3> SUFFICES ASSUME NEW m \in Mutex, NEW w \in ToSet(k'.wait[m])
                 PROVE  k'.prio[owner[m]] <= k'.prio[w]
      BY DEF OwnerInherits
    <3>1. w \in ToSet(k.wait[m]) /\ ToSet(<< >>) = {}
      BY <1>1 DEF ToSet
    <3>2. owner[m] # RT_NULL
      BY <1>1, <3>1 DEF NoWaiterWhileFree
    <3> QED BY <2>2, <2>3, <3>1, <3>2 DEF InheritInv, OwnerInherits
  <2>6. PriorityRestored'
    BY <2>1 DEF InheritInv, PriorityRestored
  <2> QED BY <1>1, <2>4, <2>5, <2>6 DEF InheritInv
<1> QED BY <1>2, <1>3 DEF Settled

\* The take of a free mutex: nobody waits, and the thread that takes it has
\* inherited nothing.
LEMMA InheritTakeFree ==
    ASSUME OneMutex, MutexInv, InheritInv, NEW t \in Thread, NEW m \in Mutex, Calls(t),
           TakeFree(t, m), NEW e \in Error, Marked(t, e), KeepsSorted(k.prio)
    PROVE  InheritInv'
<1>1. /\ OwnerSound /\ NoWaiterWhileFree /\ Core
      /\ value \in [Mutex -> 0 .. 1] /\ owner \in [Mutex -> Thread \cup {RT_NULL}]
      /\ original_priority \in [Mutex -> Prio \cup {255}]
  BY DEF MutexInv, TypeOK
<1>2. owner[m] = RT_NULL
  BY <1>1 DEF TakeFree, OwnerSound
<1>3. /\ owner'[m] = t /\ original_priority'[m] = k.prio[t]
      /\ \A n \in Mutex : n = m
  BY <1>1 DEF TakeFree, OneMutex
<1>4. k'.prio = k.prio /\ k'.wait[m] = << >> /\ k.prio[t] = init_priority[t]
  BY <1>1, <1>2, <1>3, MutexAssumption
     DEF Marked, KeepsSorted, NoWaiterWhileFree, InheritInv, PriorityRestored
<1>5. ToSet(<< >>) = {}
  BY DEF ToSet
<1>6. \A n \in Mutex : SortedBy(k'.wait[n], k'.prio)
  BY <1>4 DEF InheritInv, KeepsSorted
<1>7. PriorityRestored'
  BY <1>2, <1>3, <1>4, MutexAssumption DEF InheritInv, PriorityRestored
<1>8. OwnerInherits'
  BY <1>3, <1>4, <1>5 DEF OwnerInherits
<1>9. \A n \in Mutex : owner'[n] # RT_NULL =>
         owner'[n] \notin ToSet(k'.wait[n]) /\ original_priority'[n] = init_priority[owner'[n]]
  BY <1>3, <1>4, <1>5
<1> QED BY <1>6, <1>7, <1>8, <1>9 DEF InheritInv

\* A take that waits: the owner inherits the priority before the thread joins
\* the list.
LEMMA InheritTakeWait ==
    ASSUME OneMutex, MutexInv, InheritInv, NEW t \in Thread, NEW m \in Mutex,
           NEW time \in {-1, 0, 1}, Calls(t), TakeWait(t, m, time)
    PROVE  InheritInv'
<1>1. Core /\ OwnerSound /\ owner[m] \in Thread \ {t} /\ owner[m] # RT_NULL
  BY DEF MutexInv, TypeOK, TakeWait
<1>2. Suspended(t, m) /\ KeepsSorted(Inherited(t, m))
  BY <1>1, TakeWaitSuspends
<1>3. /\ owner' = owner /\ original_priority' = original_priority /\ \A n \in Mutex : n = m
  BY DEF TakeWait, mvars, OneMutex
<1>4. /\ k.wait[m] \in Seq(Thread) /\ k.prio \in [Thread -> Prio]
      /\ \A w \in ToSet(k.wait[m]) : w \in Thread /\ k.stat[w] = "SUSPEND"
  BY <1>1, Waiters
<1>5. /\ \A u \in Thread \ {owner[m]} : k'.prio[u] = k.prio[u]
      /\ k'.prio[owner[m]] <= k.prio[owner[m]] /\ k'.prio[owner[m]] <= k.prio[t]
      /\ k'.prio[owner[m]] \in Int /\ \A u \in Thread : k.prio[u] \in Int
  <2>1. \A x \in Prio : x \in Int
    BY PrioAssumption DEF Prio
  <2> QED BY <1>1, <1>2, <1>4, <2>1 DEF KeepsSorted, Inherited
<1>6. owner[m] \notin ToSet(k.wait[m]) /\ original_priority[m] = init_priority[owner[m]]
  BY <1>1 DEF InheritInv
<1>7. ToSet(k'.wait[m]) = ToSet(k.wait[m]) \cup {t}
  BY <1>2 DEF Suspended
<1>8. SortedBy(k'.wait[m], k'.prio)
  <2>1. SortedBy(k.wait[m], k'.prio)
    <3>1. \A w \in ToSet(k.wait[m]) : k'.prio[w] = k.prio[w]
      BY <1>4, <1>5, <1>6
    <3>2. SortedBy(k.wait[m], k.prio)
      BY DEF InheritInv
    <3> QED BY ONLY <1>4, <3>1, <3>2, SortedFrame
  <2> QED BY <1>2, <2>1 DEF KeepsSorted
<1>9. OwnerInherits'
  <2> SUFFICES ASSUME NEW w \in ToSet(k'.wait[m]) PROVE k'.prio[owner[m]] <= k'.prio[w]
    BY <1>3 DEF OwnerInherits
  <2>1. CASE w = t
    BY <1>1, <1>5, <2>1
  <2>2. CASE w \in ToSet(k.wait[m])
    <3>1. k.prio[owner[m]] <= k.prio[w] /\ w \in Thread \ {owner[m]}
      BY <1>4, <1>6, <2>2 DEF InheritInv, OwnerInherits
    <3> QED BY <1>1, <1>5, <3>1
  <2> QED BY <1>7, <2>1, <2>2
<1>10. PriorityRestored'
  BY <1>3, <1>5 DEF InheritInv, PriorityRestored
<1>11. owner[m] \notin ToSet(k'.wait[m])
  BY <1>1, <1>6, <1>7
<1> QED BY <1>3, <1>6, <1>8, <1>9, <1>10, <1>11 DEF InheritInv

\* A release that leaves the mutex free gives back the inherited priority.
LEMMA InheritFree ==
    ASSUME OneMutex, MutexInv, InheritInv, NEW t \in Thread, NEW m \in Mutex, Calls(t), Free(t, m)
    PROVE  InheritInv'
<1>1. /\ Core /\ OwnerSound /\ owner[m] = t /\ t # RT_NULL /\ k.wait[m] = << >>
      /\ owner' = [owner EXCEPT ![m] = RT_NULL] /\ owner \in [Mutex -> Thread \cup {RT_NULL}]
  BY MutexAssumption DEF MutexInv, TypeOK, Free
<1>2. Kept /\ KeepsSorted(GivenBack(t, m))
  BY <1>1, FreeKeeps
<1>3. owner'[m] = RT_NULL /\ \A n \in Mutex : n = m
  BY <1>1 DEF OneMutex
<1>4. original_priority[m] = init_priority[t] /\ k.prio \in [Thread -> Prio]
  BY <1>1, Waiters DEF InheritInv
<1>5. k'.wait[m] = << >> /\ k'.prio = [k.prio EXCEPT ![t] = init_priority[t]]
  BY <1>1, <1>2, <1>4 DEF Kept, KeepsSorted, GivenBack
<1>6. SortedBy(<< >>, k'.prio) /\ ToSet(<< >>) = {}
  BY DEF SortedBy, ToSet
<1>7. PriorityRestored'
  BY <1>1, <1>3, <1>4, <1>5 DEF InheritInv, PriorityRestored
<1>8. \A n \in Mutex : k'.wait[n] = << >> /\ owner'[n] = RT_NULL
  BY <1>3, <1>5
<1>9. OwnerInherits'
  BY <1>6, <1>8 DEF OwnerInherits
<1> QED BY <1>6, <1>7, <1>8, <1>9 DEF InheritInv

\* A hand-over: the releasing thread is back at its own priority, and the new
\* owner is the most urgent of those that waited.
LEMMA InheritHandOver ==
    ASSUME OneMutex, MutexInv, InheritInv, NEW t \in Thread, NEW m \in Mutex, Calls(t),
           HandOver(t, m)
    PROVE  InheritInv'
<1>1. /\ Core /\ OwnerSound /\ owner[m] = t /\ t # RT_NULL /\ \A n \in Mutex : n = m
      /\ owner \in [Mutex -> Thread \cup {RT_NULL}]
      /\ original_priority \in [Mutex -> Prio \cup {255}]
  BY MutexAssumption DEF MutexInv, TypeOK, HandOver, OneMutex
<1>2. PICK h \in Thread :
        /\ h = Head(k.wait[m]) /\ owner' = [owner EXCEPT ![m] = h]
        /\ original_priority' = [original_priority EXCEPT ![m] = GivenBack(t, m)[h]]
        /\ Woken(h, m, "EOK") /\ KeepsSorted(GivenBack(t, m))
  <2>1. /\ owner' = [owner EXCEPT ![m] = Head(k.wait[m])]
        /\ original_priority' =
             [original_priority EXCEPT ![m] = GivenBack(t, m)[Head(k.wait[m])]]
        /\ Woken(Head(k.wait[m]), m, "EOK") /\ KeepsSorted(GivenBack(t, m))
    BY <1>1, HandOverWakes
  <2> QED BY <2>1 DEF Woken
<1>3. /\ k.wait[m] \in Seq(Thread) /\ k.prio \in [Thread -> Prio]
      /\ \A w \in ToSet(k.wait[m]) : w \in Thread /\ k.stat[w] = "SUSPEND"
  BY <1>1, Waiters
<1>4. k.stat[t] = "READY"
  BY <1>1, Caller
<1>5. /\ h \in ToSet(k.wait[m]) /\ h # t /\ t \notin ToSet(k.wait[m])
      /\ ToSet(k'.wait[m]) = ToSet(k.wait[m]) \ {h}
  BY <1>2, <1>3, <1>4 DEF Woken
<1>6. original_priority[m] = init_priority[t]
  BY <1>1 DEF InheritInv
<1>7. k'.prio[t] = init_priority[t] /\ \A u \in Thread \ {t} : k'.prio[u] = k.prio[u]
  BY <1>2, <1>3, <1>6 DEF KeepsSorted, GivenBack
<1>8. owner'[m] = h /\ original_priority'[m] = k.prio[h]
  BY <1>1, <1>2, <1>3, <1>5 DEF GivenBack
<1>9. \A u \in Thread \ {t} : k.prio[u] = init_priority[u]
  BY <1>1 DEF InheritInv, PriorityRestored
<1>10. SortedBy(k'.wait[m], k'.prio)
  <2>1. SortedBy(k.wait[m], k'.prio)
    BY <1>3, <1>5, <1>7, SortedFrame DEF InheritInv
  <2> QED BY <1>2, <2>1 DEF KeepsSorted
<1>11. OwnerInherits'
  <2> SUFFICES ASSUME NEW w \in ToSet(k'.wait[m]) PROVE k'.prio[h] <= k'.prio[w]
    BY <1>1, <1>8 DEF OwnerInherits
  <2>1. w \in ToSet(k.wait[m]) /\ w \in Thread \ {t}
    BY <1>3, <1>5
  <2>2. k.prio[h] <= k.prio[w]
    BY <1>2, <1>3, <2>1, SortedHead DEF InheritInv
  <2> QED BY <1>5, <1>7, <2>1, <2>2
<1>12. PriorityRestored'
  BY <1>7, <1>9 DEF PriorityRestored
<1>13. h \notin ToSet(k'.wait[m]) /\ original_priority'[m] = init_priority[h]
  BY <1>5, <1>8, <1>9
<1> QED BY <1>1, <1>8, <1>10, <1>11, <1>12, <1>13 DEF InheritInv

\* Every step of a system with one mutex keeps the priorities right.
LEMMA InheritNext ==
    ASSUME OneMutex, MutexInv, InheritInv, [Next]_vars
    PROVE  InheritInv'
<1>1. Core /\ OwnerSound /\ IpcCore
  BY DEF MutexInv
<1>2. ASSUME k' = k, owner' = owner, original_priority' = original_priority PROVE InheritInv'
  BY <1>2 DEF InheritInv, OwnerInherits, PriorityRestored
<1>3. CASE UNCHANGED vars
  BY <1>2, <1>3 DEF vars, kvars, mvars
<1>4. CASE QuietStep
  BY <1>4, QuietSteps, InheritSettled DEF Quiet, QuietStep, mvars
<1>5. CASE \E t \in Thread : TakeReturn(t)
  BY <1>2, <1>5 DEF TakeReturn, mvars
<1>6. ASSUME NEW t \in Thread, NEW m \in Mutex, MutexCall(t, m) PROVE InheritInv'
  <2>1. Calls(t) /\ m \in alive /\ UNCHANGED <<alive, fault>>
    BY <1>6 DEF MutexCall
  <2>2. CASE \/ TakeOwned(t, m) \/ TakeFree(t, m) \/ \E time \in {-1, 0, 1} : TakeFails(t, m, time)
             \/ ReleaseRefused(t, m) /\ on' = on
    <3>1. PICK e \in Error : Marked(t, e) /\ KeepsSorted(k.prio)
      BY <2>1, <2>2, NoWaitStep
    <3>2. Settled
      BY <3>1 DEF Settled, Marked, KeepsSorted
    <3>3. CASE TakeFree(t, m)
      BY <2>1, <3>1, <3>3, InheritTakeFree
    <3>4. CASE ~TakeFree(t, m)
      BY <2>2, <3>2, <3>4, InheritSettled DEF TakeOwned, TakeFails, ReleaseRefused, mvars
    <3> QED BY <3>3, <3>4
  <2>3. CASE \E time \in {-1, 0, 1} : TakeWait(t, m, time)
    BY <2>1, <2>3, InheritTakeWait
  <2>4. CASE ReleaseInner(t, m)
    BY <1>2, <2>4 DEF ReleaseInner, kvars
  <2>5. CASE HandOver(t, m)
    BY <2>1, <2>5, InheritHandOver
  <2>6. CASE Free(t, m)
    BY <2>1, <2>6, InheritFree
  <2> QED BY <1>6, <2>2, <2>3, <2>4, <2>5, <2>6 DEF MutexCall
<1> QED BY <1>3, <1>4, <1>5, <1>6, StepKinds

\* Nobody owns, nobody waits, and no priority has changed initially.
LEMMA InheritInit == Init => InheritInv
<1> SUFFICES ASSUME Init PROVE InheritInv
  OBVIOUS
<1>1. /\ \A q \in Queue : k.wait[q] = << >>
      /\ k.prio = init_priority
  BY DEF Init, IpcInit, ThreadsInit, BootState
<1>2. ToSet(<< >>) = {} /\ SortedBy(<< >>, k.prio)
  BY DEF ToSet, SortedBy
<1>3. \A m \in Mutex : owner[m] = RT_NULL
  BY DEF Init
<1> QED BY <1>1, <1>2, <1>3 DEF InheritInv, OwnerInherits, PriorityRestored

\* In a system with one mutex its owner runs at least at the priority of every
\* thread that waits for it, whatever times out or is handed the mutex.
THEOREM OwnerAlwaysInherits ==
    ASSUME OneMutex
    PROVE  Spec => []OwnerInherits
<1>1. MutexInv /\ InheritInv /\ [Next]_vars => InheritInv'
  BY InheritNext
<1>2. InheritInv => OwnerInherits
  BY DEF InheritInv
<1> QED BY <1>1, <1>2, InheritInit, Invariance, PTL DEF Spec

\* In a system with one mutex a thread that does not own it is back at the
\* priority it was created with.
THEOREM PriorityAlwaysRestored ==
    ASSUME OneMutex
    PROVE  Spec => []PriorityRestored
<1>1. MutexInv /\ InheritInv /\ [Next]_vars => InheritInv'
  BY InheritNext
<1>2. InheritInv => PriorityRestored
  BY DEF InheritInv
<1> QED BY <1>1, <1>2, InheritInit, Invariance, PTL DEF Spec
=============================================================================
