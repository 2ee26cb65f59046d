------------------------------ MODULE MemPool ------------------------------
(***************************************************************************)
(* A memory pool (kernel/src/mempool.c): blocks of one size on a free list *)
(* used as a stack, and threads that wait for one, the last to come first  *)
(* to be served.  The pool counts its waiters besides listing them.        *)
(*                                                                         *)
(* Clients free a block they have allocated, once.                         *)
(***************************************************************************)
EXTENDS IpcWait

CONSTANTS mp,             \* the object, by its suspend list
          Block,          \* its blocks
          MaxSuspended    \* bound of the model: nobody waits at this count

ASSUME MemPoolAssumption ==
    /\ IsFiniteSet(Block) /\ Block # {}
    /\ MaxSuspended \in Nat

VARIABLES block_list,            \* free blocks, top of the stack first
          block_free_count,
          suspend_thread_count,
          expired                \* history: waiters that timed out

mpvars == <<block_list, block_free_count, suspend_thread_count, expired>>

MemPoolInit ==
    /\ block_list = SetToSeq(Block)
    /\ block_free_count = Cardinality(Block)
    /\ suspend_thread_count = 0
    /\ expired = 0

-----------------------------------------------------------------------------
Ends(t) == timeout' = [timeout EXCEPT ![t] = 0]

\* One round of the loop of rt_mp_alloc with interrupts disabled.
AllocRound(t, time) ==
    \/ /\ block_free_count # 0
       /\ block_list # << >>
       /\ block_free_count' = block_free_count - 1
       /\ block_list' = Tail(block_list)
       /\ Goto(t, "run") /\ Ends(t)
       /\ UNCHANGED <<k, on, suspend_thread_count, expired, fault>>
    \/ /\ block_free_count = 0 /\ time = 0
       /\ k' = [k EXCEPT !.error[t] = "ETIMEOUT"]
       /\ Goto(t, "run") /\ Ends(t)
       /\ UNCHANGED <<on, mpvars, fault>>
    \/ /\ block_free_count = 0 /\ time # 0 /\ suspend_thread_count < MaxSuspended
       /\ k' = SuspendAtHead(k, mp, t, time)
       /\ suspend_thread_count' = suspend_thread_count + 1
       /\ on' = [on EXCEPT ![t] = mp]
       /\ timeout' = [timeout EXCEPT ![t] = time]
       /\ Goto(t, "block")
       /\ UNCHANGED <<block_list, block_free_count, expired, fault>>

rt_mp_alloc(t, time) ==
    /\ CallsOn(t, mp)
    /\ AllocRound(t, time)
    /\ UNCHANGED alive

\* rt_mp_alloc after its rt_schedule.
AllocResumed(t) ==
    /\ At(t, "woken") /\ on[t] = mp
    /\ IF k.error[t] # "EOK"
         THEN /\ expired' = expired + IF k.error[t] = "ETIMEOUT" THEN 1 ELSE 0
              /\ Goto(t, "run") /\ Ends(t)
              /\ UNCHANGED <<k, on, block_list, block_free_count, suspend_thread_count, fault>>
         ELSE \E left \in TimeLeft(timeout[t]) : AllocRound(t, left)
    /\ UNCHANGED alive

-----------------------------------------------------------------------------
\* Slip: a block freed for a waiter is not counted.
FreeHandOver(b) ==
    /\ mp \in alive
    /\ b \in Block \ ToSet(block_list)
    /\ block_list' = <<b>> \o block_list
    /\ block_free_count' = block_free_count + IF suspend_thread_count > 0 THEN 0 ELSE 1
    /\ suspend_thread_count' = suspend_thread_count - IF suspend_thread_count > 0 THEN 1 ELSE 0
    /\ fault' = (suspend_thread_count > 0 /\ k.wait[mp] = << >>)

\* rt_mp_free puts the block back and, when the count says that someone waits,
\* resumes the first of the list.  On an empty list that is the list head: an
\* error code is stored outside any thread and rt_thread_resume asserts.
Free(b) ==
    /\ mp \in alive
    /\ b \in Block \ ToSet(block_list)
    /\ block_list' = <<b>> \o block_list
    /\ block_free_count' = block_free_count + 1
    /\ suspend_thread_count' = suspend_thread_count - IF suspend_thread_count > 0 THEN 1 ELSE 0
    /\ fault' = (suspend_thread_count > 0 /\ k.wait[mp] = << >>)

\* The kernel state once the first waiter is resumed with RT_EOK.
ResumeFirst ==
    IF k.wait[mp] = << >> THEN k
    ELSE rt_thread_resume([k EXCEPT !.error[Head(k.wait[mp])] = "EOK"], Head(k.wait[mp]))

rt_mp_free(t, b) ==
    /\ CallsOn(t, mp)
    /\ Free(b)
    /\ IF suspend_thread_count > 0
         THEN k' = ResumeFirst /\ Goto(t, "resched")
         ELSE UNCHANGED kvars
    /\ UNCHANGED <<alive, on, timeout, expired>>

\* The same call from an interrupt handler.
FreeIsr(b) ==
    /\ Free(b)
    /\ k' = IF suspend_thread_count > 0 THEN rt_schedule(ResumeFirst) ELSE k
    /\ UNCHANGED <<pc, alive, on, timeout, expired>>

-----------------------------------------------------------------------------
(* rt_mp_detach, rt_mp_delete: the loop of rt_ipc_list_resume_all, with the *)
(* count decremented in each round.                                        *)
MpDetach(t) ==
    /\ NoneReturning(mp)
    /\ ResumeAll(t, mp)
    /\ UNCHANGED <<mpvars, timeout>>

MpDetachTest(t) == on[t] = mp /\ ResumeAllTest(t) /\ UNCHANGED <<mpvars, timeout>>

MpDetachOne(t) ==
    /\ on[t] = mp /\ ResumeAllOne(t)
    /\ suspend_thread_count' = suspend_thread_count - 1
    /\ UNCHANGED <<block_list, block_free_count, expired, timeout>>

-----------------------------------------------------------------------------
MemPoolCall(t) ==
    \/ \E time \in Time : rt_mp_alloc(t, time)
    \/ \E b \in Block : rt_mp_free(t, b)
    \/ MpDetach(t)

MemPoolStep(t) == AllocResumed(t) \/ MpDetachTest(t) \/ MpDetachOne(t)

MemPoolIsr == \E b \in Block : FreeIsr(b)
-----------------------------------------------------------------------------
(* Properties.                                                             *)

MemPoolTypeOK ==
    /\ block_list \in Seq(Block)
    /\ block_free_count \in 0 .. Cardinality(Block)
    /\ suspend_thread_count \in Nat
    /\ expired \in Nat

\* No wake-up is lost: while a thread sleeps on the pool, every free block is
\* matched by a thread already resumed that will come for it.
BlockWakeups ==
    k.wait[mp] # << >> => block_free_count <= Cardinality(Resumed(mp))

\* Threads whose timer has resumed them and that have not returned yet.
Expiring ==
    {t \in Thread : /\ pc[t] \in {"block", "woken"} /\ on[t] = mp
                    /\ k.stat[t] = "READY" /\ k.error[t] = "ETIMEOUT"}

\* The counts of the pool tell the truth as far as the code keeps them.  The
\* free list is what its count says, so that the assertion of rt_mp_alloc on the
\* block it takes holds, and no block is free twice.  The count of waiters is off
\* by exactly the waiters that timed out: nothing else, no release, renewed wait
\* or detach, makes it wrong.
PoolCounts ==
    /\ IsInjective(block_list) /\ Len(block_list) = block_free_count
    /\ fault \/ suspend_thread_count = Len(k.wait[mp]) + Cardinality(Expiring) + expired
=============================================================================
