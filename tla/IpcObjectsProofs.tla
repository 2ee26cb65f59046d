-------------------------- MODULE IpcObjectsProofs --------------------------
(***************************************************************************)
(* Theorems about module IpcObjects, for any sizes and any finite set of   *)
(* threads.  A mailbox and a message queue are bounded queues, whatever    *)
(* the other objects, the interrupts and the scheduler do meanwhile; no    *)
(* wake-up is lost on any of the four objects; nodes, flags and blocks are *)
(* accounted for.                                                          *)
(*                                                                         *)
(* A step is seen through three things: which threads move, which waiters  *)
(* the kernel core wakes with which error, which list is joined (Step of   *)
(* IpcProofs).  MbDoes, MqDoes, EvDoes and MpDoes say what the calls on an *)
(* object do in these terms, and the lemmas named ...Keeps what follows    *)
(* for the object and for the others.                                      *)
(***************************************************************************)
EXTENDS IpcObjects, IpcProofs, FiniteSetTheorems

-----------------------------------------------------------------------------
(* The mailbox.                                                            *)

\* t waits, or has waited and not yet looked again, on the list q.
InWait(t, q) == pc[t] \in {"block", "woken"} /\ on[t] = q

\* The offsets of the ring agree with its count.
RingOK ==
    /\ msg_pool \in [0 .. mb_size - 1 -> Mail \cup {None}]
    /\ entry \in 0 .. mb_size
    /\ in_offset \in 0 .. mb_size - 1
    /\ out_offset \in 0 .. mb_size - 1
    /\ in_offset = (out_offset + entry) % mb_size

\* A waiting receiver holds no mail, a waiting sender still has the one it wants
\* to send.
ClientsOK ==
    /\ pc \in [Thread -> Pcs]
    /\ on \in [Thread -> Queue]
    /\ value \in [Thread -> Mail \cup {None}]
    /\ received \in [Thread -> Mail \cup {None}]
    /\ \A t \in Thread : InWait(t, mb) => received[t] = None
    /\ \A t \in Thread : InWait(t, mb_sender) => value[t] \in Mail

\* The inductive invariant of the mailbox.
MbInv == RingOK /\ ClientsOK

\* A step that leaves the mailbox alone and lets nobody begin to wait there.
Elsewhere ==
    /\ UNCHANGED mbvars
    /\ pc' \in [Thread -> Pcs]
    /\ on' \in [Thread -> Queue]
    /\ \A t \in Thread, q \in {mb, mb_sender} : InWait(t, q)' => InWait(t, q)

\* Such a step keeps the invariant, the queue and what the clients hold.
LEMMA ElsewhereKeeps ==
    MbInv /\ Elsewhere => MbInv' /\ UNCHANGED <<Mails, received>>
<1> SUFFICES ASSUME MbInv, Elsewhere PROVE MbInv' /\ UNCHANGED <<Mails, received>>
  OBVIOUS
<1>1. UNCHANGED <<msg_pool, entry, in_offset, out_offset, value, received>>
  BY DEF Elsewhere, mbvars
<1>2. RingOK'
  BY <1>1 DEF MbInv, RingOK
<1>3. /\ \A t \in Thread : InWait(t, mb)' => received'[t] = None
      /\ \A t \in Thread : InWait(t, mb_sender)' => value'[t] \in Mail
  BY <1>1 DEF MbInv, ClientsOK, Elsewhere
<1>4. Mails' = Mails
  BY <1>1 DEF Mails
<1> QED BY <1>1, <1>2, <1>3, <1>4 DEF MbInv, ClientsOK, Elsewhere

\* A step of thread t that leaves the mailbox and the objects of calls alone
\* and does not take t into a wait is such a step.
LEMMA GoesElsewhere ==
    ASSUME MbInv, UNCHANGED mbvars, NEW t \in Thread, NEW c \in Pcs, Goto(t, c),
           \/ c \notin {"block", "woken"}
                 /\ (on' = on \/ \E q \in Queue : on' = [on EXCEPT ![t] = q])
           \/ c = "woken" /\ pc[t] = "block" /\ on' = on
           \/ \E q \in Queue \ {mb, mb_sender} : on' = [on EXCEPT ![t] = q]
    PROVE  Elsewhere
<1>1. pc' \in [Thread -> Pcs] /\ on' \in [Thread -> Queue]
  BY DEF MbInv, ClientsOK, Goto
<1>2. pc'[t] = c /\ \A u \in Thread : u # t => pc'[u] = pc[u] /\ on'[u] = on[u]
  BY DEF MbInv, ClientsOK, Goto
<1>3. ASSUME NEW q \in {mb, mb_sender}, InWait(t, q)' PROVE InWait(t, q)
  <2>1. c \in {"block", "woken"} /\ on'[t] = q
    BY <1>2, <1>3 DEF InWait
  <2>2. CASE c = "woken" /\ pc[t] = "block" /\ on' = on
    BY <2>1, <2>2 DEF InWait
  <2>3. CASE \E r \in Queue \ {mb, mb_sender} : on' = [on EXCEPT ![t] = r]
    BY <2>1, <2>3 DEF MbInv, ClientsOK
  <2> QED BY <2>1, <2>2, <2>3
<1>4. \A u \in Thread, q \in {mb, mb_sender} : InWait(u, q)' => InWait(u, q)
  BY <1>2, <1>3 DEF InWait
<1> QED BY <1>1, <1>4 DEF Elsewhere

\* A step in which no thread moves is such a step.
LEMMA StaysElsewhere ==
    ASSUME MbInv, UNCHANGED <<mbvars, pc, on>>
    PROVE  Elsewhere
BY DEF MbInv, ClientsOK, Elsewhere, InWait

\* A step of a detach moves only the thread that detaches.
LEMMA DetachElsewhere ==
    ASSUME MbInv, UNCHANGED mbvars, NEW t \in Thread,
           \/ ResumeAllTest(t)
           \/ ResumeAllOne(t)
           \/ \E q \in Queue : ResumeAll(t, q)
    PROVE  Elsewhere
<1>1. CASE ResumeAllTest(t)
  <2>1. PICK c \in {"run", "detach_resume"} : Goto(t, c)
    BY <1>1 DEF ResumeAllTest
  <2> QED BY <1>1, <2>1, GoesElsewhere DEF ResumeAllTest, Pcs
<1>2. CASE ResumeAllOne(t)
  BY <1>2, GoesElsewhere DEF ResumeAllOne, Pcs
<1>3. CASE \E q \in Queue : ResumeAll(t, q)
  BY <1>3, GoesElsewhere DEF ResumeAll, Pcs
<1> QED BY <1>1, <1>2, <1>3

-----------------------------------------------------------------------------
(* Steps on the other objects.                                             *)

\* Startup, the ends of calls and of blocking, timers and time slices.
LEMMA KernelElsewhere ==
    ASSUME MbInv, OnKernel,
           \/ \E t, u \in Thread : Startup(t, u)
           \/ \E t \in Thread : Reschedule(t) \/ Timeout(t)
           \/ SliceExpired
    PROVE  Elsewhere
<1>0. UNCHANGED <<mbvars, on>>
  BY DEF OnKernel
<1>1. CASE \E t, u \in Thread : Startup(t, u)
  BY <1>0, <1>1, GoesElsewhere DEF Startup, Pcs
<1>2. CASE \E t \in Thread : Reschedule(t)
  <2>1. PICK t \in Thread : Reschedule(t)
    BY <1>2
  <2>2. CASE pc[t] = "block"
    <3>1. Goto(t, "woken")
      BY <2>1, <2>2 DEF Reschedule
    <3> QED BY <1>0, <2>2, <3>1, GoesElsewhere DEF Pcs
  <2>3. CASE pc[t] # "block"
    <3>1. Goto(t, "run")
      BY <2>1, <2>3 DEF Reschedule
    <3> QED BY <1>0, <3>1, GoesElsewhere DEF Pcs
  <2> QED BY <2>2, <2>3
<1>3. CASE (\E t \in Thread : Timeout(t)) \/ SliceExpired
  BY <1>0, <1>3, StaysElsewhere DEF Timeout, SliceExpired
<1> QED BY <1>1, <1>2, <1>3

\* A step on the event.
LEMMA EventElsewhere ==
    ASSUME MbInv, OnEvent,
           \/ \E t \in Thread : EventCall(t) \/ EventReturn(t)
           \/ EventIsr
    PROVE  Elsewhere
<1>0. UNCHANGED mbvars /\ event \in Queue \ {mb, mb_sender}
  BY ListsAssumption DEF OnEvent
<1>1. CASE EventIsr
  <2>1. UNCHANGED <<pc, on>>
    BY <1>1 DEF EventIsr, EventSendIsr, Send
  <2> QED BY <1>0, <2>1, StaysElsewhere
<1>2. ASSUME NEW t \in Thread, EventReturn(t) PROVE Elsewhere
  <2>1. Goto(t, "run") /\ on' = on
    BY <1>2 DEF EventReturn
  <2> QED BY <1>0, <2>1, GoesElsewhere DEF Pcs
<1>3. ASSUME NEW t \in Thread, EventCall(t) PROVE Elsewhere
  <2>1. ASSUME NEW bits \in SUBSET Bit \ {{}}, rt_event_send(t, bits) PROVE Elsewhere
    <3>1. (Goto(t, "resched") \/ UNCHANGED pc) /\ on' = on
      BY <2>1 DEF rt_event_send, Send
    <3>2. CASE Goto(t, "resched")
      BY <1>0, <3>1, <3>2, GoesElsewhere DEF Pcs
    <3>3. CASE UNCHANGED pc
      BY <1>0, <3>1, <3>3, StaysElsewhere
    <3> QED BY <3>1, <3>2, <3>3
  <2>2. ASSUME NEW want, NEW option, NEW time, rt_event_recv(t, want, option, time)
        PROVE  Elsewhere
    <3>1. CASE RecvWait(t, want, option, time)
      <4>1. Goto(t, "block") /\ on' = [on EXCEPT ![t] = event]
        BY <3>1 DEF RecvWait
      <4> QED BY <1>0, <4>1, GoesElsewhere DEF Pcs
    <3>2. CASE RecvNow(t, want, option) \/ RecvNoWait(t, want, option, time)
      <4>1. UNCHANGED <<pc, on>>
        BY <3>2 DEF RecvNow, RecvNoWait
      <4> QED BY <1>0, <4>1, StaysElsewhere
    <3> QED BY <2>2, <3>1, <3>2 DEF rt_event_recv
  <2>3. CASE EventReset(t)
    <3>1. Goto(t, "resched") /\ on' = on
      BY <2>3 DEF EventReset
    <3> QED BY <1>0, <3>1, GoesElsewhere DEF Pcs
  <2>4. CASE EventDetach(t)
    BY <1>0, <2>4, DetachElsewhere DEF EventDetach
  <2> QED BY <1>3, <2>1, <2>2, <2>3, <2>4 DEF EventCall
<1> QED BY <1>1, <1>2, <1>3

\* A step on the message queue.
LEMMA MessageQueueElsewhere ==
    ASSUME MbInv, OnMq,
           \/ \E t \in Thread : MessageQueueCall(t) \/ MessageQueueStep(t)
           \/ MessageQueueIsr
    PROVE  Elsewhere
<1>0. UNCHANGED mbvars /\ mq \in Queue \ {mb, mb_sender}
  BY ListsAssumption DEF OnMq
<1>1. CASE MessageQueueIsr
  <2>1. UNCHANGED <<pc, on>>
    BY <1>1 DEF MessageQueueIsr, MqSendIsr, WakeIsr
  <2> QED BY <1>0, <2>1, StaysElsewhere
<1>2. ASSUME NEW t \in Thread, NEW time, NEW again, MqRecvRound(t, time, again)
      PROVE  Elsewhere
  <2>1. \/ (Goto(t, "mq_copy") \/ Goto(t, "run")) /\ on' = on
        \/ Goto(t, "block") /\ on' = [on EXCEPT ![t] = mq]
    BY <1>2 DEF MqRecvRound
  <2> QED BY <1>0, <2>1, GoesElsewhere DEF Pcs
<1>3. ASSUME NEW t \in Thread, MessageQueueStep(t) PROVE Elsewhere
  <2>1. CASE MqLink(t)
    <3>1. (Goto(t, "resched") \/ Goto(t, "run")) /\ on' = on
      BY <2>1 DEF MqLink, Wake
    <3> QED BY <1>0, <3>1, GoesElsewhere DEF Pcs
  <2>2. CASE MqRecvResumed(t)
    <3>1. CASE k.error[t] # "EOK"
      <4>1. Goto(t, "run") /\ on' = on
        BY <2>2, <3>1 DEF MqRecvResumed
      <4> QED BY <1>0, <4>1, GoesElsewhere DEF Pcs
    <3>2. CASE k.error[t] = "EOK"
      BY <1>2, <2>2, <3>2 DEF MqRecvResumed
    <3> QED BY <3>1, <3>2
  <2>3. CASE MqGiveBack(t)
    <3>1. Goto(t, "run") /\ on' = on
      BY <2>3 DEF MqGiveBack
    <3> QED BY <1>0, <3>1, GoesElsewhere DEF Pcs
  <2> QED BY <1>3, <2>1, <2>2, <2>3 DEF MessageQueueStep
<1>4. ASSUME NEW t \in Thread, MessageQueueCall(t) PROVE Elsewhere
  <2>1. ASSUME NEW b, NEW urgent, rt_mq_send(t, b, urgent) PROVE Elsewhere
    <3>1. (Goto(t, "mq_fill") \/ UNCHANGED pc) /\ on' = on
      BY <2>1 DEF rt_mq_send, kvars
    <3>2. CASE Goto(t, "mq_fill")
      BY <1>0, <3>1, <3>2, GoesElsewhere DEF Pcs
    <3>3. CASE UNCHANGED pc
      BY <1>0, <3>1, <3>3, StaysElsewhere
    <3> QED BY <3>1, <3>2, <3>3
  <2>2. ASSUME NEW time, rt_mq_recv(t, time) PROVE Elsewhere
    BY <1>2, <2>2 DEF rt_mq_recv
  <2>3. CASE MqReset(t)
    <3>1. Goto(t, "resched") /\ on' = on
      BY <2>3 DEF MqReset
    <3> QED BY <1>0, <3>1, GoesElsewhere DEF Pcs
  <2>4. CASE MqDetach(t)
    <3>1. CASE mq_static
      <4>1. UNCHANGED <<pc, on>>
        BY <2>4, <3>1 DEF MqDetach, kvars
      <4> QED BY <1>0, <4>1, StaysElsewhere
    <3>2. CASE ~mq_static
      BY <1>0, <2>4, <3>2, DetachElsewhere DEF MqDetach
    <3> QED BY <3>1, <3>2
  <2> QED BY <1>4, <2>1, <2>2, <2>3, <2>4 DEF MessageQueueCall
<1> QED BY <1>1, <1>3, <1>4

\* A step on the memory pool.
LEMMA MemPoolElsewhere ==
    ASSUME MbInv, OnMp,
           \/ \E t \in Thread : MemPoolCall(t) \/ MemPoolStep(t)
           \/ MemPoolIsr
    PROVE  Elsewhere
<1>0. UNCHANGED mbvars /\ mp \in Queue \ {mb, mb_sender}
  BY ListsAssumption DEF OnMp
<1>1. CASE MemPoolIsr
  <2>1. UNCHANGED <<pc, on>>
    BY <1>1 DEF MemPoolIsr, FreeIsr
  <2> QED BY <1>0, <2>1, StaysElsewhere
<1>2. ASSUME NEW t \in Thread, NEW time, AllocRound(t, time) PROVE Elsewhere
  <2>1. \/ Goto(t, "run") /\ on' = on
        \/ Goto(t, "block") /\ on' = [on EXCEPT ![t] = mp]
    BY <1>2 DEF AllocRound
  <2> QED BY <1>0, <2>1, GoesElsewhere DEF Pcs
<1>3. ASSUME NEW t \in Thread, MemPoolStep(t) PROVE Elsewhere
  <2>1. CASE AllocResumed(t)
    <3>1. CASE k.error[t] # "EOK"
      <4>1. Goto(t, "run") /\ on' = on
        BY <2>1, <3>1 DEF AllocResumed
      <4> QED BY <1>0, <4>1, GoesElsewhere DEF Pcs
    <3>2. CASE k.error[t] = "EOK"
      BY <1>2, <2>1, <3>2 DEF AllocResumed
    <3> QED BY <3>1, <3>2
  <2>2. CASE MpDetachTest(t) \/ MpDetachOne(t)
    BY <1>0, <2>2, DetachElsewhere DEF MpDetachTest, MpDetachOne
  <2> QED BY <1>3, <2>1, <2>2 DEF MemPoolStep
<1>4. ASSUME NEW t \in Thread, MemPoolCall(t) PROVE Elsewhere
  <2>1. ASSUME NEW time, rt_mp_alloc(t, time) PROVE Elsewhere
    BY <1>2, <2>1 DEF rt_mp_alloc
  <2>2. ASSUME NEW b, rt_mp_free(t, b) PROVE Elsewhere
    <3>1. (Goto(t, "resched") \/ UNCHANGED pc) /\ on' = on
      BY <2>2 DEF rt_mp_free, kvars
    <3>2. CASE Goto(t, "resched")
      BY <1>0, <3>1, <3>2, GoesElsewhere DEF Pcs
    <3>3. CASE UNCHANGED pc
      BY <1>0, <3>1, <3>3, StaysElsewhere
    <3> QED BY <3>1, <3>2, <3>3
  <2>3. CASE MpDetach(t)
    BY <1>0, <2>3, DetachElsewhere DEF MpDetach
  <2> QED BY <1>4, <2>1, <2>2, <2>3 DEF MemPoolCall
<1> QED BY <1>1, <1>3, <1>4

-----------------------------------------------------------------------------
(* The ring of the mailbox as a sequence.                                  *)

\* Both offsets advance round the ring.
LEMMA AdvanceIsSuccessor ==
    ASSUME NEW o \in 0 .. mb_size - 1
    PROVE  Advance(o) = (o + 1) % mb_size /\ Advance(o) \in 0 .. mb_size - 1
<1>1. CASE o + 1 < mb_size
  BY <1>1, MailboxAssumption DEF Advance
<1>2. CASE o + 1 = mb_size
  <2>1. mb_size % mb_size = 0
    BY MailboxAssumption
  <2> QED BY <1>2, <2>1, MailboxAssumption DEF Advance
<1> QED BY <1>1, <1>2, MailboxAssumption

\* The mails are at most as many as the mailbox has places.
LEMMA MailsLength ==
    RingOK => Len(Mails) = entry /\ (Mails = << >> <=> entry = 0)
<1> SUFFICES ASSUME RingOK PROVE Len(Mails) = entry /\ (Mails = << >> <=> entry = 0)
  OBVIOUS
<1>0. mb_size \in Nat \ {0} /\ entry \in Nat
  BY MailboxAssumption DEF RingOK
<1>1. \A i \in 1 .. entry : msg_pool[(out_offset + i - 1) % mb_size] \in Mail \cup {None}
  <2> TAKE i \in 1 .. entry
  <2>1. (out_offset + i - 1) % mb_size \in 0 .. mb_size - 1
    BY <1>0 DEF RingOK
  <2> QED BY <2>1 DEF RingOK
<1> QED BY <1>0, <1>1 DEF Mails

\* Storing at in_offset is a put.
LEMMA StoreIsPut ==
    ASSUME RingOK, NEW v \in Mail, Store(v), UNCHANGED received
    PROVE  RingOK' /\ MailQueue!Put(v)
<1>0. mb_size \in Nat \ {0} /\ entry \in 0 .. mb_size - 1
  BY MailboxAssumption DEF RingOK, Store
<1>1. /\ msg_pool' = [msg_pool EXCEPT ![(out_offset + entry) % mb_size] = v]
      /\ entry' = entry + 1
      /\ out_offset' = out_offset
      /\ in_offset' = Advance(in_offset)
  BY DEF RingOK, Store
<1>2. in_offset' = (in_offset + 1) % mb_size /\ in_offset' \in 0 .. mb_size - 1
  BY <1>1, AdvanceIsSuccessor DEF RingOK
<1>3. in_offset' = (out_offset + (entry + 1)) % mb_size
  <2>1. /\ out_offset + entry < mb_size => (out_offset + entry) % mb_size = out_offset + entry
        /\ mb_size <= out_offset + entry
              => (out_offset + entry) % mb_size = out_offset + entry - mb_size
    <3> DEFINE x == out_offset + entry
    <3>1. x \in Nat /\ x < 2 * mb_size
      BY <1>0 DEF RingOK
    <3> HIDE DEF x
    <3>2. (x < mb_size => x % mb_size = x) /\ (mb_size <= x => x % mb_size = x - mb_size)
      BY <1>0, <3>1, RingPosition
    <3> QED BY <1>0, <3>1, <3>2 DEF x, RingOK
  <2>2. /\ out_offset + entry + 1 < mb_size
              => (out_offset + entry + 1) % mb_size = out_offset + entry + 1
        /\ mb_size <= out_offset + entry + 1
              => (out_offset + entry + 1) % mb_size = out_offset + entry + 1 - mb_size
    <3> DEFINE x == out_offset + entry + 1
    <3>1. x \in Nat /\ x < 2 * mb_size
      BY <1>0 DEF RingOK
    <3> HIDE DEF x
    <3>2. (x < mb_size => x % mb_size = x) /\ (mb_size <= x => x % mb_size = x - mb_size)
      BY <1>0, <3>1, RingPosition
    <3> QED BY <1>0, <3>1, <3>2 DEF x, RingOK
  <2>3. in_offset' = IF in_offset + 1 >= mb_size THEN 0 ELSE in_offset + 1
    BY <1>1 DEF Advance
  <2>4. in_offset = (out_offset + entry) % mb_size /\ out_offset \in 0 .. mb_size - 1
    BY DEF RingOK
  <2>5. out_offset + (entry + 1) = out_offset + entry + 1
    BY <1>0, <2>4
  <2>6. in_offset' = (out_offset + entry + 1) % mb_size
    BY <1>0, <2>1, <2>2, <2>3, <2>4
  <2> QED BY <2>5, <2>6
<1>4. RingOK'
  BY <1>0, <1>1, <1>2, <1>3 DEF RingOK
<1>5. Mails = RingSeq(msg_pool, mb_size, out_offset, entry)
  BY DEF Mails, RingSeq
<1>6. Mails' = RingSeq(msg_pool', mb_size, out_offset, entry + 1)
  BY <1>1 DEF Mails, RingSeq
<1>7. Mails' = Append(Mails, v)
  <2>1. /\ msg_pool \in [0 .. mb_size - 1 -> Mail \cup {None}] /\ v \in Mail \cup {None}
        /\ out_offset \in Nat
    BY <1>0 DEF RingOK
  <2>2. /\ msg_pool' \in [0 .. mb_size - 1 -> Mail \cup {None}]
        /\ \A j \in 0 .. mb_size - 1 :
              msg_pool'[j] = IF j = (out_offset + entry) % mb_size THEN v ELSE msg_pool[j]
    BY <1>1, <2>1
  <2>3. AddsLast(RingSeq(msg_pool', mb_size, out_offset, entry + 1),
                 RingSeq(msg_pool, mb_size, out_offset, entry), v)
    BY ONLY <1>0, <2>1, <2>2, RingAppend
  <2> QED BY <1>5, <1>6, <2>3 DEF AddsLast
<1> QED BY <1>0, <1>4, <1>7, MailsLength DEF MailQueue!Put

\* Storing before out_offset is an urgent put.
LEMMA StoreUrgentIsPutFirst ==
    ASSUME RingOK, NEW v \in Mail, StoreUrgent(v), UNCHANGED received
    PROVE  RingOK' /\ MailQueue!PutFirst(v)
<1> DEFINE o == RingBefore(mb_size, out_offset)
<1>0. mb_size \in Nat \ {0} /\ entry \in 0 .. mb_size - 1
  BY MailboxAssumption DEF RingOK, StoreUrgent
<1>1. /\ msg_pool' = [msg_pool EXCEPT ![o] = v]
      /\ entry' = entry + 1
      /\ out_offset' = o
      /\ in_offset' = in_offset
  BY DEF StoreUrgent, RingBefore
<1>2. o \in 0 .. mb_size - 1
  BY <1>0 DEF RingOK, RingBefore
<1>3. (o + (entry + 1)) % mb_size = (out_offset + entry) % mb_size
  <2>1. CASE out_offset > 0
    <3>1. o + (entry + 1) = out_offset + entry
      BY <1>0, <2>1 DEF RingOK, RingBefore
    <3> QED BY <3>1
  <2>2. CASE out_offset = 0
    <3>1. o + (entry + 1) = mb_size + entry /\ out_offset + entry = entry
      BY <1>0, <2>2 DEF RingOK, RingBefore
    <3>2. (mb_size + entry) % mb_size = entry
      <4> DEFINE x == mb_size + entry
      <4>1. x \in Nat /\ mb_size <= x /\ x < 2 * mb_size
        BY <1>0
      <4> HIDE DEF x
      <4>2. x % mb_size = x - mb_size
        BY <1>0, <4>1, RingPosition
      <4> QED BY <1>0, <4>2 DEF x
    <3>3. entry % mb_size = entry
      BY <1>0
    <3> QED BY <3>1, <3>2, <3>3
  <2> QED BY <2>1, <2>2 DEF RingOK
<1>4. RingOK'
  BY <1>0, <1>1, <1>2, <1>3 DEF RingOK
<1>5. Mails = RingSeq(msg_pool, mb_size, out_offset, entry)
  BY DEF Mails, RingSeq
<1>6. Mails' = RingSeq(msg_pool', mb_size, out_offset', entry + 1)
  BY <1>1 DEF Mails, RingSeq
<1>7. Mails' = <<v>> \o Mails
  <2>1. /\ msg_pool \in [0 .. mb_size - 1 -> Mail \cup {None}] /\ v \in Mail \cup {None}
        /\ out_offset \in 0 .. mb_size - 1
    BY DEF RingOK
  <2>2. /\ out_offset' = RingBefore(mb_size, out_offset)
        /\ msg_pool' \in [0 .. mb_size - 1 -> Mail \cup {None}]
        /\ \A j \in 0 .. mb_size - 1 :
              msg_pool'[j] = IF j = out_offset' THEN v ELSE msg_pool[j]
    BY <1>1, <2>1
  <2>3. AddsFirst(RingSeq(msg_pool', mb_size, out_offset', entry + 1),
                  RingSeq(msg_pool, mb_size, out_offset, entry), v)
    BY ONLY <1>0, <2>1, <2>2, RingPrepend
  <2> QED BY <1>5, <1>6, <2>3 DEF AddsFirst
<1> QED BY <1>0, <1>4, <1>7, MailsLength DEF MailQueue!PutFirst

\* Fetching at out_offset is a get, by a client that holds no mail.
LEMMA FetchIsGet ==
    ASSUME RingOK, NEW t \in Thread, received[t] = None, Fetch(t)
    PROVE  RingOK' /\ MailQueue!Get(t) /\ msg_pool[out_offset] \in Mail \cup {None}
<1>0. mb_size \in Nat \ {0} /\ entry \in 1 .. mb_size
  BY MailboxAssumption DEF RingOK, Fetch
<1>1. /\ msg_pool' = msg_pool /\ in_offset' = in_offset
      /\ entry' = entry - 1
      /\ out_offset' = Advance(out_offset)
      /\ received' = [received EXCEPT ![t] = msg_pool[out_offset]]
  BY DEF Fetch
<1>2. out_offset' = (out_offset + 1) % mb_size /\ out_offset' \in 0 .. mb_size - 1
  BY <1>1, AdvanceIsSuccessor DEF RingOK
<1>3. (out_offset' + (entry - 1)) % mb_size = (out_offset + entry) % mb_size
  <2>1. CASE out_offset + 1 < mb_size
    <3>1. out_offset' + (entry - 1) = out_offset + entry
      BY <1>0, <1>1, <2>1 DEF RingOK, Advance
    <3> QED BY <3>1
  <2>2. CASE out_offset + 1 = mb_size
    <3>1. out_offset' + (entry - 1) = entry - 1 /\ out_offset + entry = mb_size + (entry - 1)
      BY <1>0, <1>1, <2>2 DEF RingOK, Advance
    <3>2. (mb_size + (entry - 1)) % mb_size = entry - 1
      <4> DEFINE x == mb_size + (entry - 1)
      <4>1. x \in Nat /\ mb_size <= x /\ x < 2 * mb_size
        BY <1>0
      <4> HIDE DEF x
      <4>2. x % mb_size = x - mb_size
        BY <1>0, <4>1, RingPosition
      <4> QED BY <1>0, <4>2 DEF x
    <3>3. (entry - 1) % mb_size = entry - 1
      BY <1>0
    <3> QED BY <3>1, <3>2, <3>3
  <2> QED BY <1>0, <2>1, <2>2 DEF RingOK
<1>4. RingOK'
  <2>1. in_offset' = (out_offset' + entry') % mb_size
    BY <1>1, <1>3 DEF RingOK
  <2>2. /\ msg_pool' \in [0 .. mb_size - 1 -> Mail \cup {None}]
        /\ in_offset' \in 0 .. mb_size - 1
    BY <1>1 DEF RingOK
  <2>3. entry' \in 0 .. mb_size
    BY <1>0, <1>1
  <2> QED BY <1>2, <2>1, <2>2, <2>3 DEF RingOK
<1>5. Mails = RingSeq(msg_pool, mb_size, out_offset, entry)
  BY DEF Mails, RingSeq
<1>6. Mails' = RingSeq(msg_pool, mb_size, (out_offset + 1) % mb_size, entry - 1)
  BY <1>1, <1>2 DEF Mails, RingSeq
<1>7. Mails # << >> /\ Mails' = Tail(Mails) /\ Head(Mails) = msg_pool[out_offset]
  <2>1. /\ msg_pool \in [0 .. mb_size - 1 -> Mail \cup {None}]
        /\ out_offset \in 0 .. mb_size - 1
    BY DEF RingOK
  <2>2. /\ RingSeq(msg_pool, mb_size, out_offset, entry) # << >>
        /\ Head(RingSeq(msg_pool, mb_size, out_offset, entry)) = msg_pool[out_offset]
        /\ RingSeq(msg_pool, mb_size, (out_offset + 1) % mb_size, entry - 1)
             = Tail(RingSeq(msg_pool, mb_size, out_offset, entry))
    BY ONLY <1>0, <2>1, RingTail
  <2> QED BY <1>5, <1>6, <2>2
<1>8. msg_pool[out_offset] \in Mail \cup {None}
  BY DEF RingOK
<1> QED BY <1>1, <1>4, <1>7, <1>8 DEF MailQueue!Get

-----------------------------------------------------------------------------
(* Steps on the mailbox.                                                   *)

\* A step of the queue, or none.
QueueStep == MailQueue!Next \/ UNCHANGED <<Mails, received>>

\* What a step in which only thread t moves has to leave right.
LEMMA ClientMoves ==
    ASSUME ClientsOK, NEW t \in Thread, NEW c \in Pcs, Goto(t, c),
           on' \in [Thread -> Queue], value' \in [Thread -> Mail \cup {None}],
           received' \in [Thread -> Mail \cup {None}],
           \A u \in Thread \ {t} : on'[u] = on[u] /\ value'[u] = value[u]
                                                  /\ received'[u] = received[u],
           c \in {"block", "woken"} => /\ on'[t] = mb => received'[t] = None
                                       /\ on'[t] = mb_sender => value'[t] \in Mail
    PROVE  ClientsOK'
<1>1. /\ pc' \in [Thread -> Pcs] /\ pc'[t] = c
      /\ \A u \in Thread \ {t} : pc'[u] = pc[u]
  BY DEF ClientsOK, Goto
<1>2. ASSUME NEW u \in Thread, InWait(u, mb)' PROVE received'[u] = None
  <2>1. CASE u = t BY <1>1, <1>2, <2>1 DEF InWait
  <2>2. CASE u # t
    <3>1. InWait(u, mb) /\ received'[u] = received[u]
      BY <1>1, <1>2, <2>2 DEF InWait
    <3> QED BY <3>1 DEF ClientsOK
  <2> QED BY <2>1, <2>2
<1>3. ASSUME NEW u \in Thread, InWait(u, mb_sender)' PROVE value'[u] \in Mail
  <2>1. CASE u = t BY <1>1, <1>3, <2>1 DEF InWait
  <2>2. CASE u # t
    <3>1. InWait(u, mb_sender) /\ value'[u] = value[u]
      BY <1>1, <1>3, <2>2 DEF InWait
    <3> QED BY <3>1 DEF ClientsOK
  <2> QED BY <2>1, <2>2
<1> QED BY <1>1, <1>2, <1>3 DEF ClientsOK

\* A thread that ends its call on the mailbox without touching the ring.
LEMMA GivesUp ==
    ASSUME MbInv, NEW t \in Thread, Goto(t, "run"), Leave(t), UNCHANGED <<on, ring, received>>
    PROVE  MbInv' /\ QueueStep
<1>1. RingOK' /\ Mails' = Mails
  BY DEF ring, RingOK, Mails, MbInv
<1>2. /\ on' \in [Thread -> Queue] /\ received' \in [Thread -> Mail \cup {None}]
      /\ value' = [value EXCEPT ![t] = None] /\ ClientsOK /\ on' = on /\ received' = received
  BY DEF ClientsOK, Leave, Enter, MbInv
<1>3. /\ value' \in [Thread -> Mail \cup {None}]
      /\ \A u \in Thread \ {t} : value'[u] = value[u]
  BY <1>2 DEF ClientsOK
<1>4. ClientsOK'
  BY <1>2, <1>3, ClientMoves DEF Pcs
<1> QED BY <1>1, <1>4 DEF QueueStep, MbInv

\* A thread that begins to wait, or waits again, on a list of the mailbox.
LEMMA BeginsToWait ==
    ASSUME MbInv, NEW t \in Thread, NEW q \in {mb, mb_sender},
           NEW v \in Mail \cup {None}, NEW time, WaitFor(t, q, v, time),
           UNCHANGED <<ring, received>>,
           q = mb => received[t] = None, q = mb_sender => v \in Mail
    PROVE  MbInv' /\ QueueStep
<1>1. RingOK' /\ Mails' = Mails
  BY DEF ring, RingOK, Mails, MbInv
<1>2. /\ ClientsOK /\ received' = received /\ Goto(t, "block")
      /\ value' = [value EXCEPT ![t] = v] /\ on' = [on EXCEPT ![t] = q]
      /\ q \in Queue
  BY ListsAssumption DEF WaitFor, Enter, MbInv
<1>3. /\ value' \in [Thread -> Mail \cup {None}] /\ on' \in [Thread -> Queue]
      /\ received' \in [Thread -> Mail \cup {None}]
      /\ value'[t] = v /\ on'[t] = q
      /\ \A u \in Thread \ {t} : on'[u] = on[u] /\ value'[u] = value[u]
                                                /\ received'[u] = received[u]
  BY <1>2 DEF ClientsOK
<1>4. ClientsOK'
  BY <1>2, <1>3, ClientMoves, MailboxAssumption DEF Pcs
<1> QED BY <1>1, <1>4 DEF QueueStep, MbInv

\* A thread leaves its call having stored or fetched a mail.
LEMMA EndsCall ==
    ASSUME ClientsOK, NEW t \in Thread, NEW q, Wake(t, q),
           UNCHANGED on, value' \in [Thread -> Mail \cup {None}],
           received' \in [Thread -> Mail \cup {None}],
           \A u \in Thread \ {t} : value'[u] = value[u] /\ received'[u] = received[u]
    PROVE  ClientsOK'
<1>1. on' \in [Thread -> Queue] /\ \A u \in Thread \ {t} : on'[u] = on[u]
  BY DEF ClientsOK
<1>2. PICK c \in {"run", "resched"} : Goto(t, c)
  BY DEF Wake
<1> QED BY <1>1, <1>2, ClientMoves DEF Pcs

\* A round of rt_mb_send_wait puts the mail, gives up or waits with it.
LEMMA SendRoundStep ==
    ASSUME MbInv, NEW t \in Thread, NEW v \in Mail, NEW time, SendRound(t, v, time)
    PROVE  MbInv' /\ QueueStep
<1>1. CASE Store(v) /\ Wake(t, mb) /\ Leave(t) /\ UNCHANGED <<on, received>>
  <2>1. RingOK' /\ MailQueue!Put(v)
    BY <1>1, StoreIsPut DEF MbInv
  <2>2. /\ value' \in [Thread -> Mail \cup {None}] /\ ClientsOK
        /\ received' \in [Thread -> Mail \cup {None}]
        /\ \A u \in Thread \ {t} : value'[u] = value[u] /\ received'[u] = received[u]
    BY <1>1 DEF ClientsOK, Leave, Enter, MbInv
  <2>3. ClientsOK'
    BY <1>1, <2>2, EndsCall
  <2> QED BY <2>1, <2>3 DEF QueueStep, MailQueue!Next, MbInv
<1>2. CASE /\ entry = mb_size /\ time = 0
           /\ Goto(t, "run") /\ Leave(t)
           /\ UNCHANGED <<k, on, ring, received>>
  BY <1>2, GivesUp
<1>3. CASE /\ entry = mb_size /\ time # 0
           /\ WaitFor(t, mb_sender, v, time)
           /\ UNCHANGED <<ring, received>>
  BY <1>3, BeginsToWait, MailboxAssumption
<1> QED BY <1>1, <1>2, <1>3 DEF SendRound

\* A round of rt_mb_recv gets a mail, gives up or waits.
LEMMA RecvRoundStep ==
    ASSUME MbInv, NEW t \in Thread, received[t] = None, NEW time, NEW again,
           RecvRound(t, time, again)
    PROVE  MbInv' /\ QueueStep
<1>1. CASE Fetch(t) /\ Wake(t, mb_sender) /\ Leave(t) /\ UNCHANGED on
  <2>1. RingOK' /\ MailQueue!Get(t) /\ msg_pool[out_offset] \in Mail \cup {None}
    BY <1>1, FetchIsGet DEF MbInv
  <2>2. /\ value' \in [Thread -> Mail \cup {None}] /\ ClientsOK
        /\ \A u \in Thread \ {t} : value'[u] = value[u]
    BY <1>1 DEF ClientsOK, Leave, Enter, MbInv
  <2>3. /\ received' \in [Thread -> Mail \cup {None}]
        /\ \A u \in Thread \ {t} : received'[u] = received[u]
    BY <1>1, <2>1, <2>2 DEF ClientsOK, Fetch
  <2>4. ClientsOK'
    BY <1>1, <2>2, <2>3, EndsCall
  <2> QED BY <2>1, <2>4 DEF QueueStep, MailQueue!Next, MbInv
<1>2. CASE /\ entry = 0 /\ time = 0
           /\ k' = IF again THEN [k EXCEPT !.error[t] = "ETIMEOUT"] ELSE k
           /\ Goto(t, "run") /\ Leave(t)
           /\ UNCHANGED <<on, ring, received>>
  BY <1>2, GivesUp
<1>3. CASE /\ entry = 0 /\ time # 0
           /\ WaitFor(t, mb, None, time)
           /\ UNCHANGED <<ring, received>>
  BY <1>3, BeginsToWait, MailboxAssumption
<1> QED BY <1>1, <1>2, <1>3 DEF RecvRound

\* A mail stored by rt_mb_urgent or by an interrupt handler, on behalf of nobody
\* who waits.
LEMMA StoreStep ==
    ASSUME MbInv, NEW v \in Mail, Store(v) \/ StoreUrgent(v), UNCHANGED received, ClientsOK'
    PROVE  MbInv' /\ QueueStep
<1>1. CASE Store(v)
  <2>1. RingOK' /\ MailQueue!Put(v)
    BY <1>1, StoreIsPut DEF MbInv
  <2> QED BY <2>1 DEF MbInv, QueueStep, MailQueue!Next
<1>2. CASE StoreUrgent(v)
  <2>1. RingOK' /\ MailQueue!PutFirst(v)
    BY <1>2, StoreUrgentIsPutFirst DEF MbInv
  <2> QED BY <2>1 DEF MbInv, QueueStep, MailQueue!Next
<1> QED BY <1>1, <1>2

\* The calls of a thread on the mailbox.
LEMMA MailboxCallStep ==
    ASSUME MbInv, NEW t \in Thread, MailboxCall(t)
    PROVE  MbInv' /\ QueueStep
<1>1. ASSUME NEW v \in Mail, NEW time \in Time, rt_mb_send_wait(t, v, time)
      PROVE  MbInv' /\ QueueStep
  BY <1>1, SendRoundStep DEF rt_mb_send_wait
<1>2. ASSUME NEW v \in Mail, rt_mb_urgent(t, v) PROVE MbInv' /\ QueueStep
  <2>1. /\ StoreUrgent(v) /\ Wake(t, mb) /\ on' = on /\ value' = value
        /\ received' = received
    BY <1>2 DEF rt_mb_urgent
  <2>2. /\ ClientsOK /\ value' \in [Thread -> Mail \cup {None}]
        /\ received' \in [Thread -> Mail \cup {None}]
        /\ \A u \in Thread \ {t} : value'[u] = value[u] /\ received'[u] = received[u]
    BY <2>1 DEF MbInv, ClientsOK
  <2>3. ClientsOK'
    BY <2>1, <2>2, EndsCall
  <2> QED BY <2>1, <2>3, StoreStep
<1>3. ASSUME NEW time \in Time, rt_mb_recv(t, time) PROVE MbInv' /\ QueueStep
  BY <1>3, RecvRoundStep DEF rt_mb_recv, MbCalls
<1>4. CASE UseMail(t)
  <2>1. /\ UNCHANGED <<msg_pool, entry, in_offset, out_offset>> /\ pc' = pc /\ on' = on
        /\ value' = value /\ received' = [received EXCEPT ![t] = None] /\ received[t] # None
    BY <1>4 DEF UseMail, ring, kvars
  <2>2. RingOK' /\ Mails' = Mails
    BY <2>1 DEF MbInv, RingOK, Mails
  <2>3. MailQueue!Use(t)
    BY <2>1, <2>2 DEF MailQueue!Use
  <2>4. /\ received' \in [Thread -> Mail \cup {None}]
        /\ \A u \in Thread : received'[u] = None \/ received'[u] = received[u]
    BY <2>1 DEF MbInv, ClientsOK
  <2>5. ClientsOK'
    BY <2>1, <2>4 DEF MbInv, ClientsOK, InWait
  <2> QED BY <2>2, <2>3, <2>5 DEF MbInv, QueueStep, MailQueue!Next
<1>5. CASE MbReset(t)
  <2>1. /\ msg_pool' = msg_pool /\ entry' = 0 /\ in_offset' = 0 /\ out_offset' = 0
        /\ on' = on /\ value' = value /\ received' = received /\ Goto(t, "resched")
    BY <1>5 DEF MbReset
  <2>2. RingOK'
    <3>1. 0 % mb_size = 0 /\ 0 \in 0 .. mb_size - 1 /\ 0 \in 0 .. mb_size /\ 0 + 0 = 0
      BY MailboxAssumption
    <3> QED BY <2>1, <3>1 DEF MbInv, RingOK
  <2>3. Mails' = << >>
    BY <2>1 DEF Mails
  <2>4. MailQueue!Reset
    BY <2>1, <2>3 DEF MailQueue!Reset
  <2>5. /\ ClientsOK /\ on' \in [Thread -> Queue]
        /\ value' \in [Thread -> Mail \cup {None}]
        /\ received' \in [Thread -> Mail \cup {None}]
    BY <2>1 DEF MbInv, ClientsOK
  <2>6. ClientsOK'
    BY <2>1, <2>5, ClientMoves DEF Pcs
  <2> QED BY <2>2, <2>4, <2>6 DEF MbInv, QueueStep, MailQueue!Next
<1>6. CASE MbDetach(t)
  <2>1. Elsewhere
    BY <1>6, DetachElsewhere, ListsAssumption DEF MbDetach
  <2> QED BY <2>1, ElsewhereKeeps DEF QueueStep
<1> QED BY <1>1, <1>2, <1>3, <1>4, <1>5, <1>6 DEF MailboxCall

\* What a thread does on the mailbox once it has been resumed, and its detach.
LEMMA MailboxStepStep ==
    ASSUME MbInv, NEW t \in Thread, MailboxStep(t)
    PROVE  MbInv' /\ QueueStep
<1>1. CASE SendResumed(t)
  <2>1. CASE k.error[t] # "EOK"
    BY <1>1, <2>1, GivesUp DEF SendResumed
  <2>2. CASE k.error[t] = "EOK"
    <3>1. value[t] \in Mail
      BY <1>1 DEF SendResumed, At, MbInv, ClientsOK, InWait
    <3>2. \E left \in TimeLeft(timeout[t]) : SendRound(t, value[t], left)
      BY <1>1, <2>2 DEF SendResumed
    <3> QED BY <3>1, <3>2, SendRoundStep
  <2> QED BY <2>1, <2>2
<1>2. CASE RecvResumed(t)
  <2>1. CASE k.error[t] # "EOK"
    BY <1>2, <2>1, GivesUp DEF RecvResumed
  <2>2. CASE k.error[t] = "EOK"
    <3>1. received[t] = None
      BY <1>2 DEF RecvResumed, At, MbInv, ClientsOK, InWait
    <3>2. \E left \in TimeLeft(timeout[t]) : RecvRound(t, left, TRUE)
      BY <1>2, <2>2 DEF RecvResumed
    <3> QED BY <3>1, <3>2, RecvRoundStep
  <2> QED BY <2>1, <2>2
<1>3. CASE MbDetachSenders(t)
  <2>1. /\ pc' = pc /\ pc[t] = "detach_test" /\ on' = [on EXCEPT ![t] = mb_sender]
        /\ UNCHANGED mbvars
    BY <1>3 DEF MbDetachSenders, ResumeAllThen, At, kvars
  <2>2. Goto(t, "detach_test")
    BY <2>1 DEF Goto, MbInv, ClientsOK
  <2>3. Elsewhere
    BY <2>1, <2>2, GoesElsewhere, ListsAssumption DEF Pcs
  <2> QED BY <2>3, ElsewhereKeeps DEF QueueStep
<1> QED BY <1>1, <1>2, <1>3 DEF MailboxStep

\* Sends from interrupt handlers.
LEMMA MailboxIsrStep ==
    ASSUME MbInv, MailboxIsr
    PROVE  MbInv' /\ QueueStep
<1>1. PICK v \in Mail : MbSendIsr(v)
  BY DEF MailboxIsr
<1>2. UNCHANGED <<pc, on, value, received>> /\ (Store(v) \/ StoreUrgent(v))
  BY <1>1 DEF MbSendIsr, WakeIsr
<1>3. ClientsOK'
  BY <1>2 DEF MbInv, ClientsOK, InWait
<1> QED BY <1>2, <1>3, StoreStep

-----------------------------------------------------------------------------
(* The refinement.                                                         *)

\* At start-up the mailbox is an empty queue and nobody waits on it.
LEMMA MbInitially == Init => MbInv /\ MailQueue!Init
<1> SUFFICES ASSUME Init PROVE MbInv /\ MailQueue!Init
  OBVIOUS
<1>1. MailboxInit /\ ThreadsInit /\ on = [t \in Thread |-> CHOOSE q \in Queue : TRUE]
  BY DEF Init
<1>2. RingOK
  <2>1. 0 % mb_size = 0 /\ 0 \in 0 .. mb_size - 1 /\ 0 \in 0 .. mb_size /\ 0 + 0 = 0
    BY MailboxAssumption
  <2> QED BY <1>1, <2>1 DEF MailboxInit, RingOK
<1>3. on \in [Thread -> Queue]
  BY <1>1, QueueAssumption
<1>4. pc = [t \in Thread |-> "run"]
  BY <1>1 DEF ThreadsInit
<1>5. ClientsOK
  BY <1>1, <1>3, <1>4 DEF ClientsOK, InWait, Pcs, MailboxInit
<1>6. MailQueue!Init
  BY <1>1 DEF MailQueue!Init, MailboxInit, Mails
<1> QED BY <1>2, <1>5, <1>6 DEF MbInv

\* Every step of the system is a step of the queue or leaves it as it is.
LEMMA MbStep == MbInv /\ [Next]_vars => MbInv' /\ QueueStep
<1> SUFFICES ASSUME MbInv, [Next]_vars PROVE MbInv' /\ QueueStep
  OBVIOUS
<1>0. ASSUME Elsewhere PROVE MbInv' /\ QueueStep
  BY <1>0, ElsewhereKeeps DEF QueueStep
<1>1. CASE UNCHANGED vars
  BY <1>0, <1>1, StaysElsewhere DEF vars, kvars
<1>2. ASSUME NEW t \in Thread, ThreadCall(t) PROVE MbInv' /\ QueueStep
  <2>1. CASE \E u \in Thread : Startup(t, u) /\ OnKernel
    BY <1>0, <2>1, KernelElsewhere
  <2>2. CASE EventCall(t) /\ OnEvent
    BY <1>0, <2>2, EventElsewhere
  <2>3. CASE MailboxCall(t) /\ OnMb
    BY <2>3, MailboxCallStep
  <2>4. CASE MessageQueueCall(t) /\ OnMq
    BY <1>0, <2>4, MessageQueueElsewhere
  <2>5. CASE MemPoolCall(t) /\ OnMp
    BY <1>0, <2>5, MemPoolElsewhere
  <2> QED BY <1>2, <2>1, <2>2, <2>3, <2>4, <2>5 DEF ThreadCall
<1>3. ASSUME NEW t \in Thread, ThreadStep(t) PROVE MbInv' /\ QueueStep
  <2>1. CASE Reschedule(t) /\ OnKernel
    BY <1>0, <2>1, KernelElsewhere
  <2>2. CASE EventReturn(t) /\ OnEvent
    BY <1>0, <2>2, EventElsewhere
  <2>3. CASE MailboxStep(t) /\ OnMb
    BY <2>3, MailboxStepStep
  <2>4. CASE MessageQueueStep(t) /\ OnMq
    BY <1>0, <2>4, MessageQueueElsewhere
  <2>5. CASE MemPoolStep(t) /\ OnMp
    BY <1>0, <2>5, MemPoolElsewhere
  <2>6. CASE DetachTest(t) \/ DetachResume(t)
    BY <1>0, <2>6, DetachElsewhere DEF DetachTest, DetachResume
  <2> QED BY <1>3, <2>1, <2>2, <2>3, <2>4, <2>5, <2>6 DEF ThreadStep
<1>4. CASE Interrupt
  <2>1. CASE (\E t \in Thread : Timeout(t) /\ OnKernel) \/ (SliceExpired /\ OnKernel)
    BY <1>0, <2>1, KernelElsewhere
  <2>2. CASE EventIsr /\ OnEvent
    BY <1>0, <2>2, EventElsewhere
  <2>3. CASE MailboxIsr /\ OnMb
    BY <2>3, MailboxIsrStep
  <2>4. CASE MessageQueueIsr /\ OnMq
    BY <1>0, <2>4, MessageQueueElsewhere
  <2>5. CASE MemPoolIsr /\ OnMp
    BY <1>0, <2>5, MemPoolElsewhere
  <2> QED BY <1>4, <2>1, <2>2, <2>3, <2>4, <2>5 DEF Interrupt
<1> QED BY <1>1, <1>2, <1>3, <1>4 DEF Next, Halted

\* The mailbox with its ring, its blocked, timed out and resumed senders and
\* receivers, its urgent mails, sends from interrupt handlers, reset and detach
\* is a bounded queue: every mail sent is received once, in order (ipc.c, rt_mb_*).
THEOREM MailboxRefinesQueue == Spec => MailboxIsQueue
<1>1. Init => MbInv /\ MailQueue!Init
  BY MbInitially
<1>2. MbInv /\ [Next]_vars => MbInv' /\ [MailQueue!Next]_<<Mails, received>>
  BY MbStep DEF QueueStep
<1> QED BY <1>1, <1>2, PTL DEF Spec, MailboxIsQueue, MailQueue!Spec

-----------------------------------------------------------------------------
(* Loops that run with interrupts disabled.                                *)

\* The states after the rounds of ResumeAllMasked.
LEMMA MaskedRounds ==
    ASSUME NEW c, NEW q, NEW N \in Nat, N = Len(c.wait[q])
    PROVE  \E g : /\ g[0] = c
                  /\ \A n \in 1 .. N : g[n] = ResumeWithError(g[n - 1], q)
                  /\ ResumeAllMasked(c, q) = g[N]
<1> DEFINE Good(n, g) == g = [i \in 0 .. n |-> IF i = 0 THEN c ELSE ResumeWithError(g[i - 1], q)]
           S == {n \in 0 .. N : \E g : Good(n, g)}
<1>1. 0 \in S
  <2> DEFINE g == [i \in 0 .. 0 |-> c]
  <2>1. \A i \in 0 .. 0 : c = IF i = 0 THEN c ELSE ResumeWithError(g[i - 1], q)
    OBVIOUS
  <2>2. Good(0, g)
    BY <2>1, Zenon
  <2>3. 0 \in 0 .. N
    OBVIOUS
  <2> HIDE DEF g, Good
  <2> QED BY <2>2, <2>3
<1>2. ASSUME NEW n \in 0 .. N - 1, n \in S PROVE n + 1 \in S
  <2>1. PICK g : Good(n, g)
    BY <1>2
  <2> DEFINE h == [i \in 0 .. n + 1 |-> IF i <= n THEN g[i] ELSE ResumeWithError(g[n], q)]
  <2>2. \A i \in 0 .. n + 1 : h[i] = IF i = 0 THEN c ELSE ResumeWithError(h[i - 1], q)
    <3> SUFFICES ASSUME NEW i \in 0 .. n + 1
                 PROVE  h[i] = IF i = 0 THEN c ELSE ResumeWithError(h[i - 1], q)
      OBVIOUS
    <3>1. CASE i = 0
      BY <2>1, <3>1
    <3>2. CASE i \in 1 .. n
      <4>1. h[i] = g[i] /\ h[i - 1] = g[i - 1]
        BY <3>2
      <4>2. g[i] = ResumeWithError(g[i - 1], q)
        BY <2>1, <3>2
      <4> QED BY <3>2, <4>1, <4>2
    <3>3. CASE i = n + 1
      BY <3>3
    <3> QED BY <3>1, <3>2, <3>3
  <2>3. Good(n + 1, h)
    <3> DEFINE f == [i \in 0 .. n + 1 |-> IF i = 0 THEN c ELSE ResumeWithError(h[i - 1], q)]
    <3>1. DOMAIN h = 0 .. n + 1 /\ h = [i \in 0 .. n + 1 |-> h[i]]
      BY Zenon
    <3>2. h = f
      <4> HIDE DEF h
      <4> QED BY <2>2, <3>1, Zenon
    <3> QED BY <3>2, Zenon
  <2>4. n + 1 \in 0 .. N
    OBVIOUS
  <2> HIDE DEF h, Good
  <2> QED BY <2>3, <2>4
<1>3. N \in S
  <2> HIDE DEF S
  <2>1. \A n \in 0 .. N : n \in S
    BY <1>1, <1>2, UpTo
  <2> QED BY <2>1
<1>4. \E g : Good(N, g)
  BY <1>3
<1>5. ResumeAllMasked(c, q) = (CHOOSE g : Good(N, g))[N]
  BY DEF ResumeAllMasked
<1>6. PICK g : Good(N, g) /\ ResumeAllMasked(c, q) = g[N]
  BY <1>4, <1>5
<1>7. g[0] = c /\ \A n \in 1 .. N : g[n] = ResumeWithError(g[n - 1], q)
  BY <1>6
<1> QED BY <1>6, <1>7

\* One round: the first of the list becomes ready and the rest move up.
LEMMA MaskedRound ==
    ASSUME NEW c, KernelOK(c), NEW q \in Queue, c.wait[q] # << >>
    PROVE  LET r == ResumeWithError(c, q)
               h == Head(c.wait[q]) IN
           /\ KernelOK(r) /\ h \in Thread /\ h \in ToSet(c.wait[q])
           /\ r.stat = [c.stat EXCEPT ![h] = "READY"]
           /\ r.error = [c.error EXCEPT ![h] = "ERROR"]
           /\ r.prio = c.prio /\ r.lock = c.lock /\ r.cur = c.cur
           /\ \A o \in Queue : ToSet(r.wait[o]) = ToSet(c.wait[o]) \ {h}
           /\ Len(r.wait[q]) = Len(c.wait[q]) - 1
<1> DEFINE h == Head(c.wait[q])
           e == [c EXCEPT !.error[h] = "ERROR"]
           r == rt_thread_resume(e, h)
<1>1. Resumes(c, ResumeWithError(c, q), h, [c.error EXCEPT ![h] = "ERROR"])
  BY ResumeWithErrorOK
<1>2. /\ h \in Thread \ {Idle} /\ c.stat[h] = "SUSPEND" /\ h \in ToSet(c.wait[q])
  BY WaitHead
<1>3. ResumeWithError(c, q) = r
  BY DEF ResumeWithError
<1>4. c.wait[q] \in Seq(Thread) /\ IsInjective(c.wait[q]) /\ c \in KernelState
  BY DEF KernelOK, KernelState, KernelInv, NoDuplicates
<1>5. RemoveFirst(c.wait[q], h) = RemoveAt(c.wait[q], 1) /\ 1 \in 1 .. Len(c.wait[q])
  <2>1. 1 \in 1 .. Len(c.wait[q]) /\ c.wait[q][1] = h
    BY <1>4
  <2> QED BY <1>4, <2>1, ListRemove
<1>6. Len(RemoveFirst(c.wait[q], h)) = Len(c.wait[q]) - 1
  BY <1>4, <1>5, ListRemoveAt
<1> HIDE DEF h
<1>7. /\ e.wait = c.wait /\ e.stat = c.stat /\ e.cur = c.cur /\ e \in KernelState
  BY <1>2, <1>4 DEF KernelState, Error
<1> HIDE DEF e
<1>8. r.wait[q] = RemoveFirst(c.wait[q], h) /\ r.cur = c.cur
  <2>1. r = ResumeNow(e, h)
    BY <1>2, <1>7 DEF rt_thread_resume
  <2> DEFINE l == [rt_list_remove(e, h) EXCEPT !.timer = @ \ {h}]
  <2>2. l.wait = [o \in Queue |-> RemoveFirst(e.wait[o], h)] /\ l.cur = e.cur
    BY <1>7 DEF rt_list_remove, KernelState
  <2>3. r = rt_schedule_insert_thread(l, h)
    BY <2>1 DEF ResumeNow
  <2> HIDE DEF l, r
  <2>4. r.wait = l.wait /\ r.cur = l.cur
    BY <2>3 DEF rt_schedule_insert_thread
  <2> QED BY <1>7, <2>2, <2>4
<1> QED BY <1>1, <1>2, <1>3, <1>6, <1>8 DEF Resumes, h

\* The kernel state d after some rounds on the list q of c: those no longer on
\* the list are ready, with an error.
MaskedSoFar(c, d, q) ==
    LET H == ToSet(c.wait[q]) \ ToSet(d.wait[q])
    IN  /\ KernelOK(d) /\ d.lock = c.lock /\ d.cur = c.cur
        /\ \A u \in H : u \in Thread /\ d.stat[u] = "READY" /\ d.error[u] = "ERROR"
        /\ \A u \in Thread \ H : d.stat[u] = c.stat[u] /\ d.error[u] = c.error[u]
        /\ \A o \in Queue : ToSet(d.wait[o]) = ToSet(c.wait[o]) \ H

\* One more round.
LEMMA MaskedOneMore ==
    ASSUME NEW c, NEW d, NEW q \in Queue, MaskedSoFar(c, d, q), d.wait[q] # << >>
    PROVE  MaskedSoFar(c, ResumeWithError(d, q), q)
<1> DEFINE H == ToSet(c.wait[q]) \ ToSet(d.wait[q])
           h == Head(d.wait[q])
           r == ResumeWithError(d, q)
           G == ToSet(c.wait[q]) \ ToSet(r.wait[q])
<1>1. /\ KernelOK(d) /\ d.lock = c.lock /\ d.cur = c.cur
      /\ \A u \in H : u \in Thread /\ d.stat[u] = "READY" /\ d.error[u] = "ERROR"
      /\ \A u \in Thread \ H : d.stat[u] = c.stat[u] /\ d.error[u] = c.error[u]
      /\ \A o \in Queue : ToSet(d.wait[o]) = ToSet(c.wait[o]) \ H
  BY DEF MaskedSoFar
<1>2. /\ KernelOK(r) /\ h \in Thread /\ h \in ToSet(d.wait[q])
      /\ r.stat = [d.stat EXCEPT ![h] = "READY"]
      /\ r.error = [d.error EXCEPT ![h] = "ERROR"]
      /\ r.lock = d.lock /\ r.cur = d.cur
      /\ \A o \in Queue : ToSet(r.wait[o]) = ToSet(d.wait[o]) \ {h}
  <2>1. KernelOK(d) /\ q \in Queue /\ d.wait[q] # << >>
    BY <1>1
  <2>2. LET x == ResumeWithError(d, q)
            y == Head(d.wait[q]) IN
        /\ KernelOK(x) /\ y \in Thread /\ y \in ToSet(d.wait[q])
        /\ x.stat = [d.stat EXCEPT ![y] = "READY"]
        /\ x.error = [d.error EXCEPT ![y] = "ERROR"]
        /\ x.prio = d.prio /\ x.lock = d.lock /\ x.cur = d.cur
        /\ \A o \in Queue : ToSet(x.wait[o]) = ToSet(d.wait[o]) \ {y}
        /\ Len(x.wait[q]) = Len(d.wait[q]) - 1
    <3> HIDE DEF H, h, r, G
    <3> QED BY ONLY <2>1, MaskedRound, ZenonT(60)
  <2> QED BY <2>2, Zenon
<1>3. d.stat \in [Thread -> Stat] /\ d.error \in [Thread -> Error]
  BY <1>1 DEF KernelOK, KernelState
<1> HIDE DEF r, h
<1>4. /\ r.stat[h] = "READY" /\ r.error[h] = "ERROR"
      /\ \A u \in Thread \ {h} : r.stat[u] = d.stat[u] /\ r.error[u] = d.error[u]
  BY <1>2, <1>3
<1>5. G = H \cup {h}
  BY <1>1, <1>2
<1> HIDE DEF H
<1>6. \A u \in G : u \in Thread /\ r.stat[u] = "READY" /\ r.error[u] = "ERROR"
  BY <1>1, <1>2, <1>4, <1>5
<1>7. \A u \in Thread \ G : r.stat[u] = c.stat[u] /\ r.error[u] = c.error[u]
  BY <1>1, <1>4, <1>5
<1>8. \A o \in Queue : ToSet(r.wait[o]) = ToSet(c.wait[o]) \ G
  BY <1>1, <1>2, <1>5, SMTT(60)
<1> QED BY <1>1, <1>2, <1>6, <1>7, <1>8 DEF MaskedSoFar, r

\* The loop wakes everyone on the list with an error and nobody else.
LEMMA MaskedAll ==
    ASSUME NEW c, KernelOK(c), NEW q \in Queue
    PROVE  /\ MaskedSoFar(c, ResumeAllMasked(c, q), q)
           /\ ResumeAllMasked(c, q).wait[q] = << >>
<1> DEFINE N == Len(c.wait[q])
<1>1. c.wait[q] \in Seq(Thread) /\ N \in Nat
  BY DEF KernelOK, KernelState
<1>2. PICK g : /\ g[0] = c
               /\ \A n \in 1 .. N : g[n] = ResumeWithError(g[n - 1], q)
               /\ ResumeAllMasked(c, q) = g[N]
  BY <1>1, MaskedRounds
<1> DEFINE S == {n \in 0 .. N : MaskedSoFar(c, g[n], q) /\ Len(g[n].wait[q]) = N - n}
<1>3. 0 \in S
  <2>1. MaskedSoFar(c, c, q)
    BY DEF MaskedSoFar
  <2> QED BY <1>1, <1>2, <2>1
<1>4. ASSUME NEW n \in 0 .. N - 1, n \in S PROVE n + 1 \in S
  <2>1. MaskedSoFar(c, g[n], q) /\ Len(g[n].wait[q]) = N - n
    BY <1>4
  <2>2. KernelOK(g[n]) /\ g[n].wait[q] \in Seq(Thread) /\ g[n].wait[q] # << >>
    <3>1. KernelOK(g[n])
      BY <2>1 DEF MaskedSoFar
    <3>2. g[n].wait[q] \in Seq(Thread)
      BY <3>1 DEF KernelOK, KernelState
    <3> QED BY <1>1, <2>1, <3>1, <3>2
  <2>3. MaskedSoFar(c, ResumeWithError(g[n], q), q)
    BY <2>1, <2>2, MaskedOneMore
  <2>4. Len(ResumeWithError(g[n], q).wait[q]) = Len(g[n].wait[q]) - 1
    BY <2>2, MaskedRound, ZenonT(60)
  <2>5. g[n + 1] = ResumeWithError(g[n], q)
    <3>1. n + 1 \in 1 .. N /\ (n + 1) - 1 = n
      BY <1>1
    <3> QED BY <1>2, <3>1
  <2>6. n + 1 \in 0 .. N /\ N - n - 1 = N - (n + 1)
    BY <1>1
  <2> QED BY <2>1, <2>3, <2>4, <2>5, <2>6
<1>5. N \in S
  <2> HIDE DEF S
  <2>1. \A n \in 0 .. N : n \in S
    BY <1>1, <1>3, <1>4, UpTo
  <2> QED BY <1>1, <2>1
<1>6. MaskedSoFar(c, g[N], q) /\ Len(g[N].wait[q]) = 0
  BY <1>1, <1>5
<1>7. g[N].wait[q] \in Seq(Thread)
  BY <1>6 DEF MaskedSoFar, KernelOK, KernelState
<1>8. g[N].wait[q] = << >>
  BY <1>6, <1>7
<1> QED BY <1>2, <1>6, <1>8

-----------------------------------------------------------------------------
(* The steps of the objects as turns.                                      *)

\* What is said of the threads: the idle thread makes no call.
ThreadsOK == pc \in [Thread -> Pcs] /\ pc[Idle] = "run" /\ IpcCore

\* t runs and is not inside rt_schedule.
Runs(t) == t \in Thread \ {Idle} /\ k.cur = t /\ k.stat[t] = "READY" /\ pc[t] # "block"

\* A thread that makes a call, or is at a point of one where it executes.
LEMMA RunsAt ==
    ASSUME ThreadsOK, NEW t \in Thread,
           Calls(t) \/ \E c \in Pcs \ {"run", "block"} : At(t, c)
    PROVE  Runs(t)
<1>1. k.cur = t /\ pc[t] # "block" /\ t # Idle
  BY DEF ThreadsOK, Calls, At
<1> QED BY <1>1, CallerReady DEF Runs, ThreadsOK

\* t goes to a point outside a wait.
LEMMA GoesOn ==
    ASSUME ThreadsOK, NEW t \in Thread, NEW c \in Pcs \ {"block", "woken"}, Goto(t, c),
           on' = on \/ \E q \in Queue : on' = [on EXCEPT ![t] = q]
    PROVE  Moves({t}) /\ Arrive({t}, {}) /\ on' \in [Thread -> Queue] /\ pc' \in [Thread -> Pcs]
<1>1. pc \in [Thread -> Pcs] /\ on \in [Thread -> Queue]
  BY DEF ThreadsOK, IpcCore
<1>2. pc' = [pc EXCEPT ![t] = c]
  BY DEF Goto
<1> QED BY <1>1, <1>2 DEF Moves, Arrive

\* t stays outside the kernel.
LEMMA StaysOut ==
    ASSUME ThreadsOK, NEW t \in Thread, pc[t] = "run", UNCHANGED <<pc, on>>
    PROVE  Moves({t}) /\ Arrive({t}, {}) /\ on' \in [Thread -> Queue] /\ pc' \in [Thread -> Pcs]
BY DEF ThreadsOK, IpcCore, Moves, Arrive

\* t enters a wait on the list q.
LEMMA GoesToWait ==
    ASSUME ThreadsOK, NEW t \in Thread, NEW q \in Queue, Goto(t, "block"),
           on' = [on EXCEPT ![t] = q]
    PROVE  Moves({t}) /\ Arrive({t}, {q}) /\ on' \in [Thread -> Queue] /\ pc' \in [Thread -> Pcs]
<1>1. pc \in [Thread -> Pcs] /\ on \in [Thread -> Queue]
  BY DEF ThreadsOK, IpcCore
<1>2. pc' = [pc EXCEPT ![t] = "block"]
  BY DEF Goto
<1> QED BY <1>1, <1>2 DEF Moves, Arrive, Pcs

\* Nobody is woken and nobody joins a list.
Quiet(T) == Step(T, {}, "EOK", {})

\* The first waiter of the list q, if there is one, is woken.
WakesOne(T, q) ==
    IF ToSet(k.wait[q]) = {} THEN Quiet(T)
    ELSE \E h \in ToSet(k.wait[q]) : Step(T, {h}, "EOK", {})

\* t joins the list q.
Joins(t, q) == Step({t}, {}, "EOK", {q})

\* Everyone on the lists in Q is woken with an error.
Fails(t, Q) == Step({t}, UNION {ToSet(k.wait[q]) : q \in Q}, "ERROR", {})

\* The running thread leaves the kernel core alone, or sets its error field.
LEMMA QuietStep ==
    ASSUME ThreadsOK, NEW t, Runs(t), k' = k \/ \E e \in Error : k' = [k EXCEPT !.error[t] = e],
           Moves({t}), Arrive({t}, {}), on' \in [Thread -> Queue]
    PROVE  Quiet({t})
<1>0. IpcCore /\ t \in Thread \ {Idle} /\ k.cur = t /\ k.stat[t] = "READY"
  BY DEF ThreadsOK, Runs
<1>1. KernelTurn({t}, {}, "EOK", {})
  <2>1. CASE k' = k
    BY <1>0, <2>1, UnchangedKept, KeptTurn
  <2>2. CASE \E e \in Error : k' = [k EXCEPT !.error[t] = e]
    <3>1. PICK e \in Error : k' = [k EXCEPT !.error[t] = e]
      BY <2>2
    <3>2. Marked(t, e)
      BY <1>0, <3>1, SetErrorMarks
    <3> QED BY <1>0, <3>2, MarkedTurn
  <2> QED BY <2>1, <2>2
<1> QED BY <1>0, <1>1 DEF Quiet, Step

\* Wake, and its like from an interrupt handler.
LEMMA WakesStep ==
    ASSUME ThreadsOK, NEW T, NEW q \in Queue, T = {} \/ \E t : T = {t} /\ Runs(t),
           k.wait[q] = << >> => k' = k,
           k.wait[q] # << >> => \/ k' = rt_ipc_list_resume(k, q)
                                \/ k' = rt_schedule(rt_ipc_list_resume(k, q)),
           Moves(T), Arrive(T, {}), on' \in [Thread -> Queue]
    PROVE  WakesOne(T, q)
<1>0. /\ IpcCore /\ k.wait[q] \in Seq(Thread)
      /\ T \subseteq {k.cur} \ {Idle} /\ \A u \in T : k.stat[u] = "READY"
  BY DEF ThreadsOK, Runs, IpcCore, KernelOK, KernelState
<1>1. CASE k.wait[q] = << >>
  <2>1. KernelTurn(T, {}, "EOK", {})
    BY <1>0, <1>1, UnchangedKept, KeptTurn
  <2>2. ToSet(k.wait[q]) = {}
    BY <1>0, <1>1, ListEmpty
  <2> QED BY <1>0, <2>1, <2>2 DEF WakesOne, Quiet, Step
<1>2. CASE k.wait[q] # << >>
  <2> DEFINE h == Head(k.wait[q])
  <2>1. Woken(h, q, "EOK")
    BY <1>0, <1>2, ReleaseWakesNow
  <2> HIDE DEF h
  <2>2. h \in ToSet(k.wait[q]) /\ k.stat[h] = "SUSPEND"
    BY <2>1 DEF Woken
  <2>3. h \notin T
    BY <1>0, <2>2
  <2>4. KernelTurn(T, {h}, "EOK", {})
    BY <1>0, <2>1, <2>3, WokenTurn
  <2>5. Step(T, {h}, "EOK", {})
    BY <1>0, <2>4 DEF Step
  <2> QED BY <2>2, <2>5 DEF WakesOne
<1> QED BY <1>1, <1>2

\* A blocking call suspends the running thread.
LEMMA JoinsStep ==
    ASSUME ThreadsOK, NEW t, Runs(t), NEW q \in Queue, NEW time,
           k' = SuspendOn(k, q, t, time) \/ k' = SuspendAtHead(k, q, t, time),
           Goto(t, "block"), on' = [on EXCEPT ![t] = q]
    PROVE  Joins(t, q) /\ pc' \in [Thread -> Pcs]
<1>0. IpcCore /\ t \in Thread \ {Idle} /\ k.cur = t /\ k.stat[t] = "READY"
  BY DEF ThreadsOK, Runs
<1> DEFINE c == [k EXCEPT !.error[t] = "EOK"]
<1>1. SamePlaces(c) /\ c.error = [k.error EXCEPT ![t] = "EOK"]
  <2>1. KernelOK(k) /\ "EOK" \in Error
    BY <1>0 DEF IpcCore, Error
  <2>2. /\ KernelOK(c)
        /\ c.error = [k.error EXCEPT ![t] = "EOK"]
        /\ c.stat = k.stat /\ c.prio = k.prio /\ c.wait = k.wait
        /\ c.timer = k.timer /\ c.cur = k.cur /\ c.lock = k.lock
    BY <1>0, <2>1, SetErrorOK
  <2> QED BY <2>2 DEF SamePlaces
<1>2. Suspended(t, q)
  <2>1. CASE k' = SuspendOn(k, q, t, time)
    <3>1. k' = IF time > 0 THEN StartThreadTimer(rt_ipc_list_suspend(c, q, t, ipc_flag[q]), t)
                           ELSE rt_ipc_list_suspend(c, q, t, ipc_flag[q])
      BY <2>1 DEF SuspendOn, ArmTimer
    <3> HIDE DEF c
    <3> QED BY <1>0, <1>1, <3>1, ListSuspends
  <2>2. CASE k' = SuspendAtHead(k, q, t, time)
    <3> DEFINE s == rt_thread_suspend(c, t)
               w == [s EXCEPT !.wait[q] = <<t>> \o @]
    <3>1. k' = IF time > 0 THEN StartThreadTimer(w, t) ELSE w
      BY <2>2 DEF SuspendAtHead, ArmTimer
    <3>2. s = rt_thread_suspend(c, t) /\ w = [s EXCEPT !.wait[q] = <<t>> \o @]
      OBVIOUS
    <3> HIDE DEF c, s, w
    <3> QED BY <1>0, <1>1, <3>1, <3>2, HeadSuspends
  <2> QED BY <2>1, <2>2
<1>3. KernelTurn({t}, {}, "EOK", {q})
  BY <1>0, <1>2, SuspendedTurn
<1>4. Moves({t}) /\ Arrive({t}, {q}) /\ on' \in [Thread -> Queue] /\ pc' \in [Thread -> Pcs]
  BY <1>0, GoesToWait
<1> QED BY <1>0, <1>3, <1>4 DEF Joins, Step

\* What the loop leaves behind.
AllFailed(c, d, q) ==
    /\ KernelOK(d) /\ d.lock = c.lock /\ d.cur = c.cur
    /\ \A u \in ToSet(c.wait[q]) : u \in Thread /\ d.stat[u] = "READY" /\ d.error[u] = "ERROR"
    /\ \A u \in Thread \ ToSet(c.wait[q]) : d.stat[u] = c.stat[u] /\ d.error[u] = c.error[u]
    /\ \A o \in Queue : ToSet(d.wait[o]) = ToSet(c.wait[o]) \ ToSet(c.wait[q])

\* It leaves nobody on the list.
LEMMA MaskedFails ==
    ASSUME NEW c, KernelOK(c), NEW q \in Queue
    PROVE  AllFailed(c, ResumeAllMasked(c, q), q)
<1> DEFINE d == ResumeAllMasked(c, q)
<1>1. MaskedSoFar(c, d, q) /\ d.wait[q] = << >>
  BY MaskedAll
<1> HIDE DEF d
<1>2. ToSet(d.wait[q]) = {}
  <2>1. d.wait[q] \in Seq(Thread)
    BY <1>1 DEF MaskedSoFar, KernelOK, KernelState
  <2> QED BY <1>1, <2>1, ListEmpty
<1>3. ToSet(c.wait[q]) \ ToSet(d.wait[q]) = ToSet(c.wait[q])
  BY <1>2
<1>4. AllFailed(c, d, q)
  BY <1>1, <1>3 DEF MaskedSoFar, AllFailed
<1> QED BY <1>4 DEF d

\* A reset of one list, or of two.
LEMMA FailsStep ==
    ASSUME ThreadsOK, NEW t, Runs(t), NEW Q \in SUBSET Queue,
           \/ \E q \in Queue : Q = {q} /\ k' = ResumeAllMasked(k, q)
           \/ \E q, r \in Queue : Q = {q, r} /\ k' = ResumeAllMasked(ResumeAllMasked(k, q), r),
           Moves({t}), Arrive({t}, {}), on' \in [Thread -> Queue]
    PROVE  Fails(t, Q)
<1> DEFINE H == UNION {ToSet(k.wait[q]) : q \in Q}
<1>0. IpcCore /\ KernelOK(k) /\ k.lock = 0 /\ t \in Thread \ {Idle} /\ k.cur = t /\ k.stat[t] = "READY"
  BY DEF ThreadsOK, Runs, IpcCore
<1>1. /\ KernelOK(k') /\ k'.lock = k.lock /\ k'.cur = k.cur
      /\ \A u \in H : u \in Thread /\ k'.stat[u] = "READY" /\ k'.error[u] = "ERROR"
      /\ \A u \in Thread \ H : k'.stat[u] = k.stat[u] /\ k'.error[u] = k.error[u]
      /\ \A o \in Queue : ToSet(k'.wait[o]) = ToSet(k.wait[o]) \ H
  <2>2. CASE \E q \in Queue : Q = {q} /\ k' = ResumeAllMasked(k, q)
    <3>1. PICK q \in Queue : Q = {q} /\ k' = ResumeAllMasked(k, q)
      BY <2>2
    <3>2. H = ToSet(k.wait[q])
      BY <3>1
    <3> HIDE DEF H
    <3>3. AllFailed(k, k', q)
      BY <1>0, <3>1, MaskedFails
    <3> QED BY <3>2, <3>3 DEF AllFailed
  <2>3. CASE \E q, r \in Queue : Q = {q, r} /\ k' = ResumeAllMasked(ResumeAllMasked(k, q), r)
    <3>1. PICK q, r \in Queue : Q = {q, r} /\ k' = ResumeAllMasked(ResumeAllMasked(k, q), r)
      BY <2>3
    <3> DEFINE d == ResumeAllMasked(k, q)
    <3>2. AllFailed(k, d, q)
      BY <1>0, MaskedFails
    <3>3. k' = ResumeAllMasked(d, r)
      BY <3>1
    <3> HIDE DEF d
    <3>4. AllFailed(d, k', r)
      <4>1. KernelOK(d)
        BY <3>2 DEF AllFailed
      <4> QED BY <3>3, <4>1, MaskedFails
    <3>5. H = ToSet(k.wait[q]) \cup ToSet(d.wait[r])
      BY <3>1, <3>2 DEF AllFailed
    <3> HIDE DEF H
    <3> QED BY <3>2, <3>4, <3>5 DEF AllFailed
  <2> QED BY <2>2, <2>3
<1>2. \A u \in H : k.stat[u] = "SUSPEND"
  BY <1>0 DEF KernelOK, KernelInv, WaitersSuspended
<1> HIDE DEF H
<1>3. H \cap {t} = {} /\ H \subseteq Thread
  BY <1>0, <1>1, <1>2
<1>4. KernelTurn({t}, H, "ERROR", {})
  BY <1>0, <1>1, <1>2, <1>3 DEF KernelTurn
<1> QED BY <1>0, <1>4 DEF Fails, Step, H

\* A thread is started, a time slice ends, a thread timer expires.
LEMMA KernelSteps ==
    ASSUME ThreadsOK, on' = on
    PROVE  /\ \A t, u \in Thread : Startup(t, u) =>
                 Runs(t) /\ pc[t] = "run" /\ Quiet({t}) /\ pc' \in [Thread -> Pcs]
           /\ SliceExpired => Quiet({}) /\ pc' = pc
           /\ \A t \in Thread : Timeout(t) =>
                 Step({}, {t}, "ETIMEOUT", {}) /\ t \in ToSet(k.wait[on[t]]) /\ pc' = pc
<1>0. IpcCore /\ on' \in [Thread -> Queue]
  BY DEF ThreadsOK, IpcCore
<1>1. ASSUME NEW t \in Thread, NEW u \in Thread, Startup(t, u)
      PROVE  Runs(t) /\ pc[t] = "run" /\ Quiet({t}) /\ pc' \in [Thread -> Pcs]
  <2>1. Runs(t) /\ pc[t] = "run" /\ Goto(t, "resched")
    BY <1>1, RunsAt DEF Startup, Calls, At
  <2>2. Moves({t}) /\ Arrive({t}, {}) /\ on' \in [Thread -> Queue] /\ pc' \in [Thread -> Pcs]
    BY <2>1, GoesOn DEF Pcs
  <2>3. Started(u)
    BY <1>0, <1>1, StartupStarts
  <2>4. u \notin {t} /\ {t} \in SUBSET Thread
    BY <2>1, <2>3 DEF Started, Runs
  <2>5. KernelTurn({t}, {}, "EOK", {})
    BY <1>0, <2>3, <2>4, StartedTurn
  <2> QED BY <2>1, <2>2, <2>5 DEF Quiet, Step, Runs
<1>2. ASSUME SliceExpired PROVE Quiet({}) /\ pc' = pc
  <2>1. Kept /\ pc' = pc
    BY <1>0, <1>2, ScheduleKept DEF SliceExpired
  <2>2. KernelTurn({}, {}, "EOK", {})
    BY <1>0, <2>1, KeptTurn
  <2> QED BY <1>0, <2>1, <2>2 DEF Quiet, Step, Moves, Arrive
<1>3. ASSUME NEW t \in Thread, Timeout(t)
      PROVE  Step({}, {t}, "ETIMEOUT", {}) /\ t \in ToSet(k.wait[on[t]]) /\ pc' = pc
  <2>1. Woken(t, on[t], "ETIMEOUT") /\ pc' = pc
    BY <1>0, <1>3, TimeoutWakes DEF Timeout
  <2>2. KernelTurn({}, {t}, "ETIMEOUT", {})
    BY <1>0, <2>1, WokenTurn
  <2> QED BY <1>0, <2>1, <2>2 DEF Step, Moves, Arrive, Woken
<1> QED BY <1>1, <1>2, <1>3

\* A round of the loop of a detach.
LEMMA ErrorStep ==
    ASSUME ThreadsOK, NEW t, Runs(t), NEW q \in Queue, k.wait[q] # << >>,
           k' = ResumeWithError(k, q), Moves({t}), Arrive({t}, {}), on' \in [Thread -> Queue]
    PROVE  \E h \in ToSet(k.wait[q]) : Step({t}, {h}, "ERROR", {})
<1>0. IpcCore /\ t \in Thread \ {Idle} /\ k.cur = t /\ k.stat[t] = "READY"
  BY DEF ThreadsOK, Runs
<1> DEFINE h == Head(k.wait[q])
<1>1. Woken(h, q, "ERROR")
  BY <1>0, ErrorWakes
<1> HIDE DEF h
<1>2. h \in ToSet(k.wait[q]) /\ h \notin {t}
  BY <1>0, <1>1 DEF Woken
<1>3. KernelTurn({t}, {h}, "ERROR", {})
  BY <1>0, <1>1, <1>2, WokenTurn
<1>4. Step({t}, {h}, "ERROR", {})
  BY <1>0, <1>3 DEF Step
<1> QED BY <1>2, <1>4

-----------------------------------------------------------------------------
(* What holds of the threads and of the objects that are gone.             *)

Copying == {"mq_fill", "mq_copy"}

\* Nobody is on the way back to an object whose detach has begun.
Gone ==
    /\ mb \notin alive => Out(mb, "EOK") = {} /\ Out(mb_sender, "EOK") = {}
    /\ mb_sender \notin alive => mb \notin alive
    /\ mq \notin alive => Out(mq, "EOK") = {} /\ \A t \in Thread : pc[t] \notin Copying
    /\ mp \notin alive => Out(mp, "EOK") = {}

\* rt_mq_detach leaves its receivers behind: with a static message queue the
\* promise of detach cannot be kept.
DetachKept == ~mq_static => DetachLeavesNoWaiter

ObjCore == ThreadsOK /\ Gone /\ DetachKept

\* The object the list q belongs to has not been detached.
OwnerAlive(q) == /\ q \in {mb, mb_sender} => mb \in alive
                 /\ q \in {mq, mp} => q \in alive

\* A step that detaches nothing, in which only lists of living objects are joined
\* and threads are called back only to living objects.
LEMMA ObjStep ==
    ASSUME ObjCore, NEW T, NEW H, NEW e, NEW J, Step(T, H, e, J), pc' \in [Thread -> Pcs],
           alive' = alive, J \subseteq alive,
           \A u \in T : pc[u] \notin Detaching /\ (pc'[u] \in Copying => mq \in alive),
           e = "EOK" => \A u \in H : OwnerAlive(on[u])
    PROVE  ObjCore'
<1>0. ThreadsOK /\ IpcCore /\ Gone /\ Idle \in Thread
  BY ThreadAssumption DEF ObjCore, ThreadsOK
<1>1. IpcCore'
  BY <1>0, StepCore
<1>2. \A u \in Thread \ T : pc'[u] = pc[u] /\ on'[u] = on[u]
  BY DEF Step, Moves
<1>3. ThreadsOK'
  BY <1>0, <1>1, <1>2 DEF ThreadsOK, Step
<1>4. /\ {mb, mb_sender, mq, mp} \subseteq Queue
      /\ \A q \in Queue : \A f : Out(q, f)' = (Out(q, f) \ T) \cup {u \in H : on[u] = q /\ f = e}
  BY <1>0, StepOut, ListsAssumption
<1>5. Gone'
  <2>1. ASSUME NEW q \in {mb, mb_sender, mq, mp}, Out(q, "EOK") = {}, ~OwnerAlive(q)
        PROVE  Out(q, "EOK")' = {}
    <3>1. \A u \in H : ~(on[u] = q /\ "EOK" = e)
      BY <2>1
    <3> QED BY <1>4, <2>1, <3>1
  <2>2. \A t \in Thread : mq \notin alive => pc'[t] \notin Copying
    BY <1>0, <1>2 DEF Gone
  <2>3. mb \notin alive' => Out(mb, "EOK")' = {} /\ Out(mb_sender, "EOK")' = {}
    BY <1>0, <2>1 DEF Gone, OwnerAlive
  <2>4. (mq \notin alive' => Out(mq, "EOK")' = {}) /\ (mp \notin alive' => Out(mp, "EOK")' = {})
    BY <1>0, <2>1 DEF Gone, OwnerAlive
  <2> QED BY <1>0, <2>2, <2>3, <2>4 DEF Gone
<1>6. DetachKept'
  <2>1. CASE mq_static
    BY <2>1 DEF DetachKept
  <2>2. CASE ~mq_static
    <3>1. DetachLeavesNoWaiter /\ KernelTurn(T, H, e, J)
      BY <2>2 DEF ObjCore, DetachKept, Step
    <3>2. \A s \in Queue \ alive' :
              s \in alive => \E t \in Thread : on'[t] = s /\ pc'[t] \in Detaching
      OBVIOUS
    <3>3. \A u \in Thread : pc[u] \in Detaching =>
              \/ pc'[u] \in Detaching /\ on'[u] = on[u]
              \/ k.wait[on[u]] = << >>
      BY <1>2
    <3>4. DetachLeavesNoWaiter'
      BY <1>0, <3>1, <3>2, <3>3, TurnDetach
    <3> QED BY <3>4 DEF DetachKept
  <2> QED BY <2>1, <2>2
<1> QED BY <1>3, <1>5, <1>6 DEF ObjCore

\* A step of a detach: it begins, goes on to the senders' list, goes on or ends.
LEMMA DetachKeeps ==
    ASSUME ObjCore, NEW t, NEW H, Step({t}, H, "ERROR", {}), pc' \in [Thread -> Pcs],
           pc'[t] \notin Copying, pc[t] \notin {"block", "woken"},
           \/ alive' = alive
           \/ \E q \in {event, mb, mb_sender, mq, mp} :
                 /\ alive' = alive \ {q} /\ on'[t] = q /\ pc'[t] \in Detaching
                 /\ q = mb => Out(mb, "EOK") = {} /\ Out(mb_sender, "EOK") = {}
                 /\ q = mb_sender => mb \notin alive
                 /\ q \in {mq, mp} => Out(q, "EOK") = {}
                 /\ q = mq => \A u \in Thread : pc[u] \notin Copying,
           pc[t] \in Detaching => \/ pc'[t] \in Detaching /\ on'[t] = on[t]
                                  \/ k.wait[on[t]] = << >>
    PROVE  ObjCore'
<1>0. ThreadsOK /\ IpcCore /\ Gone /\ Idle \in Thread
  BY ThreadAssumption DEF ObjCore, ThreadsOK
<1>1. IpcCore' /\ t \in Thread
  BY <1>0, StepCore DEF Step, IpcCore, KernelOK, KernelState
<1>2. \A u \in Thread \ {t} : pc'[u] = pc[u] /\ on'[u] = on[u]
  BY DEF Step, Moves
<1>3. ThreadsOK'
  BY <1>0, <1>1, <1>2 DEF ThreadsOK, Step
<1>4. /\ {mb, mb_sender, mq, mp} \subseteq Queue
      /\ \A q \in Queue : Out(q, "EOK")' = Out(q, "EOK")
  <2>1. ASSUME NEW q \in Queue PROVE Out(q, "EOK")' = Out(q, "EOK")
    <3>1. t \notin Out(q, "EOK")
      BY DEF Out
    <3>2. Out(q, "EOK")' = (Out(q, "EOK") \ {t}) \cup {u \in H : on[u] = q /\ "EOK" = "ERROR"}
      BY <1>0, StepOut
    <3>3. {u \in H : on[u] = q /\ "EOK" = "ERROR"} = {}
      OBVIOUS
    <3> QED BY <3>1, <3>2, <3>3
  <2> QED BY <2>1, ListsAssumption
<1>5. Gone'
  <2>1. \A u \in Thread : pc'[u] \in Copying => pc[u] \in Copying
    BY <1>2
  <2>2. CASE alive' = alive
    BY <1>0, <1>4, <2>1, <2>2 DEF Gone
  <2>3. CASE \E q \in {event, mb, mb_sender, mq, mp} :
                 /\ alive' = alive \ {q} /\ on'[t] = q /\ pc'[t] \in Detaching
                 /\ q = mb => Out(mb, "EOK") = {} /\ Out(mb_sender, "EOK") = {}
                 /\ q = mb_sender => mb \notin alive
                 /\ q \in {mq, mp} => Out(q, "EOK") = {}
                 /\ q = mq => \A u \in Thread : pc[u] \notin Copying
    BY <1>0, <1>4, <2>1, <2>3, ListsAssumption, MailboxAssumption DEF Gone
  <2> QED BY <2>2, <2>3
<1>6. DetachKept'
  <2>1. CASE mq_static
    BY <2>1 DEF DetachKept
  <2>2. CASE ~mq_static
    <3>1. DetachLeavesNoWaiter /\ KernelTurn({t}, H, "ERROR", {})
      BY <2>2 DEF ObjCore, DetachKept, Step
    <3>2. \A s \in Queue \ alive' :
              s \in alive => \E u \in Thread : on'[u] = s /\ pc'[u] \in Detaching
      BY <1>1
    <3>3. \A u \in Thread : pc[u] \in Detaching =>
              \/ pc'[u] \in Detaching /\ on'[u] = on[u]
              \/ k.wait[on[u]] = << >>
      BY <1>2
    <3>4. DetachLeavesNoWaiter'
      BY <1>0, <3>1, <3>2, <3>3, TurnDetach
    <3> QED BY <3>4 DEF DetachKept
  <2> QED BY <2>1, <2>2
<1> QED BY <1>3, <1>5, <1>6 DEF ObjCore

-----------------------------------------------------------------------------
(* What the calls on the mailbox do to its count and to the lists.         *)

\* t makes a call, or returns to one after it was resumed from the list q.
From(t, q) == pc[t] = "run" \/ t \in Out(q, "EOK")

\* A step of the threads in T, at most one, in which nothing is detached.
Calm(T) ==
    /\ pc' \in [Thread -> Pcs] /\ alive' = alive
    /\ \A t \in T : pc[t] \in {"run", "woken"} \cup Copying /\ pc'[t] \notin Detaching

MbDoes(T) ==
    \/ /\ mb \in alive /\ entry < mb_size /\ entry' = entry + 1 /\ WakesOne(T, mb)
       /\ \A t \in T : From(t, mb_sender)
    \/ /\ mb \in alive /\ entry > 0 /\ entry' = entry - 1 /\ WakesOne(T, mb_sender)
       /\ \A t \in T : From(t, mb)
    \/ /\ mb \in alive /\ entry = mb_size /\ entry' = entry
       /\ \E t : T = {t} /\ From(t, mb_sender) /\ Joins(t, mb_sender)
    \/ /\ mb \in alive /\ entry = 0 /\ entry' = entry
       /\ \E t : T = {t} /\ From(t, mb) /\ Joins(t, mb)
    \/ /\ entry' = entry /\ Quiet(T)
       /\ \A t \in T : \/ pc[t] = "run"
                       \/ on[t] \in {mb, mb_sender} /\ k.error[t] # "EOK"
                       \/ entry = mb_size /\ on[t] = mb_sender
                       \/ entry = 0 /\ on[t] = mb
    \/ /\ mb \in alive /\ entry' = 0
       /\ \E t : T = {t} /\ pc[t] = "run" /\ Fails(t, {mb, mb_sender})

\* Wake by the thread t, which leaves the objects of calls alone.
LEMMA WakeDoes ==
    ASSUME ThreadsOK, NEW t, Runs(t), NEW q \in Queue, Wake(t, q), on' = on
    PROVE  WakesOne({t}, q) /\ pc' \in [Thread -> Pcs] /\ pc'[t] \notin Copying \cup Detaching
<1>1. PICK c \in {"run", "resched"} : Goto(t, c)
  BY DEF Wake
<1>2. t \in Thread /\ c \in Pcs \ {"block", "woken"} /\ c \notin Copying \cup Detaching
  BY DEF Runs, Pcs, Copying, Detaching
<1>3. Moves({t}) /\ Arrive({t}, {}) /\ on' \in [Thread -> Queue] /\ pc' \in [Thread -> Pcs]
  BY <1>1, <1>2, GoesOn
<1>4. /\ k.wait[q] = << >> => k' = k
      /\ k.wait[q] # << >> => \/ k' = rt_ipc_list_resume(k, q)
                              \/ k' = rt_schedule(rt_ipc_list_resume(k, q))
  BY DEF Wake
<1>5. WakesOne({t}, q)
  BY <1>3, <1>4, WakesStep
<1> QED BY <1>1, <1>2, <1>3, <1>5 DEF Goto, ThreadsOK

\* The same from an interrupt handler.
LEMMA WakeIsrDoes ==
    ASSUME ThreadsOK, NEW q \in Queue, WakeIsr(q), on' = on
    PROVE  WakesOne({}, q) /\ pc' \in [Thread -> Pcs]
<1>1. pc' = pc /\ pc \in [Thread -> Pcs] /\ on' \in [Thread -> Queue]
  BY DEF WakeIsr, ThreadsOK, IpcCore
<1>2. Moves({}) /\ Arrive({}, {})
  BY <1>1 DEF Moves, Arrive
<1>3. /\ k.wait[q] = << >> => k' = k
      /\ k.wait[q] # << >> => \/ k' = rt_ipc_list_resume(k, q)
                              \/ k' = rt_schedule(rt_ipc_list_resume(k, q))
  BY DEF WakeIsr
<1>4. WakesOne({}, q)
  BY <1>1, <1>2, <1>3, WakesStep
<1> QED BY <1>1, <1>4

\* The running thread goes on and at most sets its error field.
LEMMA QuietDoes ==
    ASSUME ThreadsOK, NEW t, Runs(t), NEW c \in Pcs \ {"block", "woken"}, Goto(t, c), on' = on,
           k' = k \/ \E e \in Error : k' = [k EXCEPT !.error[t] = e]
    PROVE  Quiet({t}) /\ pc' \in [Thread -> Pcs] /\ pc'[t] = c
<1>1. Moves({t}) /\ Arrive({t}, {}) /\ on' \in [Thread -> Queue] /\ pc' \in [Thread -> Pcs]
  BY GoesOn DEF Runs
<1> QED BY <1>1, QuietStep DEF Goto, ThreadsOK, Runs

\* One round of rt_mb_send_wait.
LEMMA SendRoundDoes ==
    ASSUME ThreadsOK, MbInv, NEW t, Runs(t), NEW v, NEW time, SendRound(t, v, time),
           mb \in alive, From(t, mb_sender), alive' = alive
    PROVE  MbDoes({t}) /\ pc' \in [Thread -> Pcs] /\ pc'[t] \notin Copying \cup Detaching
<1>0. mb \in Queue /\ mb_sender \in Queue /\ entry \in 0 .. mb_size /\ mb_size \in Nat
  BY ListsAssumption, MailboxAssumption DEF MbInv, RingOK
<1>1. CASE Store(v) /\ Wake(t, mb) /\ Leave(t) /\ UNCHANGED <<on, received>>
  <2>1. WakesOne({t}, mb) /\ pc' \in [Thread -> Pcs] /\ pc'[t] \notin Copying \cup Detaching
    BY <1>0, <1>1, WakeDoes
  <2>2. entry < mb_size /\ entry' = entry + 1
    BY <1>0, <1>1 DEF Store
  <2> QED BY <2>1, <2>2 DEF MbDoes
<1>2. CASE /\ entry = mb_size /\ time = 0
           /\ Goto(t, "run") /\ Leave(t)
           /\ UNCHANGED <<k, on, ring, received>>
  <2>1. Quiet({t}) /\ pc' \in [Thread -> Pcs] /\ pc'[t] = "run"
    BY <1>2, QuietDoes DEF Pcs
  <2>2. entry' = entry /\ (pc[t] = "run" \/ (entry = mb_size /\ on[t] = mb_sender))
    BY <1>2 DEF ring, From, Out
  <2> QED BY <2>1, <2>2 DEF MbDoes, Copying, Detaching
<1>3. CASE /\ entry = mb_size /\ time # 0
           /\ WaitFor(t, mb_sender, v, time)
           /\ UNCHANGED <<ring, received>>
  <2>1. Joins(t, mb_sender) /\ pc' \in [Thread -> Pcs]
    BY <1>0, <1>3, JoinsStep DEF WaitFor
  <2>2. pc'[t] = "block" /\ entry' = entry
    BY <1>3 DEF WaitFor, Goto, ThreadsOK, Runs, ring
  <2> QED BY <1>3, <2>1, <2>2 DEF MbDoes, Copying, Detaching
<1> QED BY <1>1, <1>2, <1>3 DEF SendRound

\* One round of rt_mb_recv.
LEMMA RecvRoundDoes ==
    ASSUME ThreadsOK, MbInv, NEW t, Runs(t), NEW time, NEW again, RecvRound(t, time, again),
           mb \in alive, From(t, mb), alive' = alive
    PROVE  MbDoes({t}) /\ pc' \in [Thread -> Pcs] /\ pc'[t] \notin Copying \cup Detaching
<1>0. mb \in Queue /\ mb_sender \in Queue /\ entry \in 0 .. mb_size /\ mb_size \in Nat
  BY ListsAssumption, MailboxAssumption DEF MbInv, RingOK
<1>1. CASE Fetch(t) /\ Wake(t, mb_sender) /\ Leave(t) /\ UNCHANGED on
  <2>1. WakesOne({t}, mb_sender) /\ pc' \in [Thread -> Pcs] /\ pc'[t] \notin Copying \cup Detaching
    BY <1>0, <1>1, WakeDoes
  <2>2. entry > 0 /\ entry' = entry - 1
    BY <1>0, <1>1 DEF Fetch
  <2> QED BY <2>1, <2>2 DEF MbDoes
<1>2. CASE /\ entry = 0 /\ time = 0
           /\ k' = IF again THEN [k EXCEPT !.error[t] = "ETIMEOUT"] ELSE k
           /\ Goto(t, "run") /\ Leave(t)
           /\ UNCHANGED <<on, ring, received>>
  <2>0. k' = k \/ \E e \in Error : k' = [k EXCEPT !.error[t] = e]
    BY <1>2 DEF Error
  <2>1. Quiet({t}) /\ pc' \in [Thread -> Pcs] /\ pc'[t] = "run"
    BY <1>2, <2>0, QuietDoes DEF Pcs
  <2>2. entry' = entry /\ (pc[t] = "run" \/ (entry = 0 /\ on[t] = mb))
    BY <1>2 DEF ring, From, Out
  <2> QED BY <2>1, <2>2 DEF MbDoes, Copying, Detaching
<1>3. CASE /\ entry = 0 /\ time # 0
           /\ WaitFor(t, mb, None, time)
           /\ UNCHANGED <<ring, received>>
  <2>1. Joins(t, mb) /\ pc' \in [Thread -> Pcs]
    BY <1>0, <1>3, JoinsStep DEF WaitFor
  <2>2. pc'[t] = "block" /\ entry' = entry
    BY <1>3 DEF WaitFor, Goto, ThreadsOK, Runs, ring
  <2> QED BY <1>3, <2>1, <2>2 DEF MbDoes, Copying, Detaching
<1> QED BY <1>1, <1>2, <1>3 DEF RecvRound

\* A thread that is back in a call it was resumed in.
LEMMA ReturnsFrom ==
    ASSUME ThreadsOK, Gone, NEW t \in Thread, At(t, "woken")
    PROVE  /\ Runs(t) /\ pc[t] = "woken"
           /\ k.error[t] = "EOK" => t \in Out(on[t], "EOK") /\ OwnerAlive(on[t])
<1>1. Runs(t) /\ pc[t] = "woken"
  BY RunsAt DEF Pcs, At
<1>2. ASSUME k.error[t] = "EOK" PROVE t \in Out(on[t], "EOK") /\ OwnerAlive(on[t])
  <2>1. t \in Out(on[t], "EOK")
    BY <1>1, <1>2 DEF Out, Runs
  <2> QED BY <2>1 DEF Gone, OwnerAlive
<1> QED BY <1>1, <1>2

\* A thread that stays outside the kernel and at most sets its error field.
LEMMA IdleDoes ==
    ASSUME ThreadsOK, NEW t, Runs(t), pc[t] = "run", UNCHANGED <<pc, on>>,
           k' = k \/ \E e \in Error : k' = [k EXCEPT !.error[t] = e]
    PROVE  Quiet({t}) /\ pc' \in [Thread -> Pcs] /\ pc'[t] = "run"
<1>1. Moves({t}) /\ Arrive({t}, {}) /\ on' \in [Thread -> Queue] /\ pc' \in [Thread -> Pcs]
  BY StaysOut DEF Runs
<1> QED BY <1>1, QuietStep

\* The calls on the mailbox, and their returns from a wait.
LEMMA MailboxDoes ==
    ASSUME ThreadsOK, Gone, MbInv, NEW t \in Thread,
           \/ \E v \in Mail : rt_mb_urgent(t, v) \/ \E time \in Time : rt_mb_send_wait(t, v, time)
           \/ \E time \in Time : rt_mb_recv(t, time)
           \/ UseMail(t)
           \/ MbReset(t)
           \/ SendResumed(t)
           \/ RecvResumed(t)
    PROVE  MbDoes({t}) /\ Calm({t}) /\ Runs(t) /\ pc'[t] \notin Copying \cup Detaching
<1>0. mb \in Queue /\ mb_sender \in Queue /\ entry \in 0 .. mb_size /\ mb_size \in Nat
  BY ListsAssumption, MailboxAssumption DEF MbInv, RingOK
<1>1. CASE \E v \in Mail : rt_mb_urgent(t, v)
  <2>1. PICK v \in Mail : rt_mb_urgent(t, v)
    BY <1>1
  <2>2. Runs(t) /\ pc[t] = "run" /\ mb \in alive /\ alive' = alive /\ on' = on
    BY <2>1, RunsAt DEF rt_mb_urgent, MbCalls, CallsOn, Calls, At
  <2>3. WakesOne({t}, mb) /\ pc' \in [Thread -> Pcs] /\ pc'[t] \notin Copying \cup Detaching
    BY <1>0, <2>1, <2>2, WakeDoes DEF rt_mb_urgent
  <2>4. entry < mb_size /\ entry' = entry + 1
    BY <1>0, <2>1 DEF rt_mb_urgent, StoreUrgent
  <2>5. MbDoes({t})
    BY <2>2, <2>3, <2>4 DEF MbDoes, From
  <2> QED BY <2>2, <2>3, <2>5 DEF Calm
<1>2. CASE \E v \in Mail, time \in Time : rt_mb_send_wait(t, v, time)
  <2>1. PICK v \in Mail, time \in Time : rt_mb_send_wait(t, v, time)
    BY <1>2
  <2>2. Runs(t) /\ pc[t] = "run" /\ mb \in alive /\ alive' = alive /\ From(t, mb_sender)
    BY <2>1, RunsAt DEF rt_mb_send_wait, MbCalls, CallsOn, Calls, At, From
  <2>3. MbDoes({t}) /\ pc' \in [Thread -> Pcs] /\ pc'[t] \notin Copying \cup Detaching
    BY <2>1, <2>2, SendRoundDoes DEF rt_mb_send_wait
  <2> QED BY <2>2, <2>3 DEF Calm
<1>3. CASE \E time \in Time : rt_mb_recv(t, time)
  <2>1. PICK time \in Time : rt_mb_recv(t, time)
    BY <1>3
  <2>2. Runs(t) /\ pc[t] = "run" /\ mb \in alive /\ alive' = alive /\ From(t, mb)
    BY <2>1, RunsAt DEF rt_mb_recv, MbCalls, CallsOn, Calls, At, From
  <2>3. MbDoes({t}) /\ pc' \in [Thread -> Pcs] /\ pc'[t] \notin Copying \cup Detaching
    BY <2>1, <2>2, RecvRoundDoes DEF rt_mb_recv
  <2> QED BY <2>2, <2>3 DEF Calm
<1>4. CASE UseMail(t)
  <2>1. Runs(t) /\ pc[t] = "run" /\ alive' = alive /\ UNCHANGED <<pc, on, k, entry>>
    BY <1>4, RunsAt DEF UseMail, Calls, At, kvars, ring
  <2>2. Quiet({t}) /\ pc' \in [Thread -> Pcs] /\ pc'[t] = "run"
    BY <2>1, IdleDoes
  <2> QED BY <2>1, <2>2 DEF Calm, MbDoes, Copying, Detaching
<1>5. CASE MbReset(t)
  <2>1. Runs(t) /\ pc[t] = "run" /\ mb \in alive /\ alive' = alive /\ on' = on /\ Goto(t, "resched")
    BY <1>5, RunsAt DEF MbReset, MbCalls, CallsOn, Calls, At
  <2>2. Moves({t}) /\ Arrive({t}, {}) /\ on' \in [Thread -> Queue] /\ pc' \in [Thread -> Pcs]
    BY <2>1, GoesOn DEF Pcs
  <2>3. {mb, mb_sender} \in SUBSET Queue /\ k' = ResumeAllMasked(ResumeAllMasked(k, mb), mb_sender)
    BY <1>0, <1>5 DEF MbReset
  <2>4. Fails(t, {mb, mb_sender})
    <3> DEFINE Q == {mb, mb_sender}
    <3>1. /\ Q \in SUBSET Queue
          /\ \E q, r \in Queue : Q = {q, r} /\ k' = ResumeAllMasked(ResumeAllMasked(k, q), r)
      BY <1>0, <2>3
    <3> HIDE DEF Q
    <3>2. Fails(t, Q)
      BY <2>1, <2>2, <3>1, FailsStep
    <3> QED BY <3>2 DEF Q
  <2>5. pc'[t] = "resched" /\ entry' = 0
    BY <1>5, <2>1 DEF Goto, ThreadsOK, MbReset
  <2> QED BY <2>1, <2>2, <2>4, <2>5 DEF Calm, MbDoes, Copying, Detaching
<1>6. CASE SendResumed(t)
  <2>1. Runs(t) /\ pc[t] = "woken" /\ on[t] = mb_sender /\ alive' = alive
    BY <1>6, ReturnsFrom DEF SendResumed
  <2>2. CASE k.error[t] # "EOK"
    <3>1. Goto(t, "run") /\ k' = k /\ on' = on /\ entry' = entry
      BY <1>6, <2>2 DEF SendResumed, ring
    <3>2. Quiet({t}) /\ pc' \in [Thread -> Pcs] /\ pc'[t] = "run"
      BY <2>1, <3>1, QuietDoes DEF Pcs
    <3> QED BY <2>1, <2>2, <3>1, <3>2 DEF Calm, MbDoes, Copying, Detaching
  <2>3. CASE k.error[t] = "EOK"
    <3>1. t \in Out(mb_sender, "EOK") /\ mb \in alive
      BY <1>6, <2>1, <2>3, ReturnsFrom DEF SendResumed, OwnerAlive
    <3>2. PICK left : SendRound(t, value[t], left)
      BY <1>6, <2>3 DEF SendResumed
    <3>3. MbDoes({t}) /\ pc' \in [Thread -> Pcs] /\ pc'[t] \notin Copying \cup Detaching
      BY <2>1, <3>1, <3>2, SendRoundDoes DEF From
    <3> QED BY <2>1, <3>3 DEF Calm
  <2> QED BY <2>2, <2>3
<1>7. CASE RecvResumed(t)
  <2>1. Runs(t) /\ pc[t] = "woken" /\ on[t] = mb /\ alive' = alive
    BY <1>7, ReturnsFrom DEF RecvResumed
  <2>2. CASE k.error[t] # "EOK"
    <3>1. Goto(t, "run") /\ k' = k /\ on' = on /\ entry' = entry
      BY <1>7, <2>2 DEF RecvResumed, ring
    <3>2. Quiet({t}) /\ pc' \in [Thread -> Pcs] /\ pc'[t] = "run"
      BY <2>1, <3>1, QuietDoes DEF Pcs
    <3> QED BY <2>1, <2>2, <3>1, <3>2 DEF Calm, MbDoes, Copying, Detaching
  <2>3. CASE k.error[t] = "EOK"
    <3>1. t \in Out(mb, "EOK") /\ mb \in alive
      BY <1>7, <2>1, <2>3, ReturnsFrom DEF RecvResumed, OwnerAlive
    <3>2. PICK left : RecvRound(t, left, TRUE)
      BY <1>7, <2>3 DEF RecvResumed
    <3>3. MbDoes({t}) /\ pc' \in [Thread -> Pcs] /\ pc'[t] \notin Copying \cup Detaching
      BY <2>1, <3>1, <3>2, RecvRoundDoes DEF From
    <3> QED BY <2>1, <3>3 DEF Calm
  <2> QED BY <2>2, <2>3
<1> QED BY <1>1, <1>2, <1>3, <1>4, <1>5, <1>6, <1>7

\* The same for sends from an interrupt handler.
LEMMA MailboxIsrDoes ==
    ASSUME ThreadsOK, MbInv, MailboxIsr
    PROVE  MbDoes({}) /\ Calm({})
<1>0. mb \in Queue /\ entry \in 0 .. mb_size /\ mb_size \in Nat
  BY ListsAssumption, MailboxAssumption DEF MbInv, RingOK
<1>1. PICK v \in Mail : MbSendIsr(v)
  BY DEF MailboxIsr
<1>2. mb \in alive /\ WakeIsr(mb) /\ on' = on /\ alive' = alive
  BY <1>1 DEF MbSendIsr
<1>3. WakesOne({}, mb) /\ pc' \in [Thread -> Pcs]
  BY <1>0, <1>2, WakeIsrDoes
<1>4. entry < mb_size /\ entry' = entry + 1
  BY <1>0, <1>1 DEF MbSendIsr, Store, StoreUrgent
<1> QED BY <1>2, <1>3, <1>4 DEF MbDoes, Calm

-----------------------------------------------------------------------------
(* Kinds of turns: what they keep.                                         *)

\* The threads in T do not come from a wait on the list q.
Away(T, q) == \A t \in T : pc[t] \in {"block", "woken"} => on[t] # q

\* A quiet step does nothing to a list the threads that move do not come from.
LEMMA QuietStill ==
    ASSUME ThreadsOK, NEW T, Quiet(T), NEW q \in Queue, Away(T, q)
    PROVE  Still(q)
BY StepStill DEF ThreadsOK, Quiet, Away

\* Waking the first of a list does nothing to the other lists.
LEMMA WakesStill ==
    ASSUME ThreadsOK, NEW T, NEW r \in Queue, WakesOne(T, r), NEW q \in Queue \ {r}, Away(T, q)
    PROVE  Still(q)
<1>1. CASE ToSet(k.wait[r]) = {}
  BY <1>1, QuietStill DEF WakesOne
<1>2. CASE ToSet(k.wait[r]) # {}
  <2>1. PICK h \in ToSet(k.wait[r]) : Step(T, {h}, "EOK", {})
    BY <1>2 DEF WakesOne
  <2>2. h \in Thread
    BY <2>1 DEF Step, KernelTurn
  <2>3. on[h] = r
    BY <2>1, <2>2, WaiterOn DEF ThreadsOK
  <2> QED BY <2>1, <2>3, StepStill DEF ThreadsOK, Away
<1> QED BY <1>1, <1>2

\* Joining a list does nothing to the other lists.
LEMMA JoinsStill ==
    ASSUME ThreadsOK, NEW t, NEW r \in Queue, Joins(t, r), NEW q \in Queue \ {r}, Away({t}, q)
    PROVE  Still(q)
BY StepStill DEF ThreadsOK, Joins, Away

\* A reset does nothing to the lists it is not for.
LEMMA FailsStill ==
    ASSUME ThreadsOK, NEW t, NEW Q \in SUBSET Queue, Fails(t, Q), NEW q \in Queue \ Q, Away({t}, q)
    PROVE  Still(q)
<1> DEFINE H == UNION {ToSet(k.wait[r]) : r \in Q}
<1>1. Step({t}, H, "ERROR", {})
  BY DEF Fails
<1>2. \A u \in H : on[u] # q
  <2> SUFFICES ASSUME NEW r \in Q, NEW u \in ToSet(k.wait[r]) PROVE on[u] = r
    OBVIOUS
  <2>1. u \in Thread
    BY <1>1 DEF Step, KernelTurn
  <2> QED BY <2>1, WaiterOn DEF ThreadsOK
<1> HIDE DEF H
<1> QED BY <1>1, <1>2, StepStill DEF ThreadsOK, Away

\* Threads of T that make no call on the message queue.
NoCopy(T) == \A t \in T : pc'[t] \notin Copying

\* Each kind keeps what is said of the threads and of the objects that are gone.
LEMMA QuietCore ==
    ASSUME ObjCore, NEW T, Quiet(T), Calm(T), NoCopy(T) \/ mq \in alive
    PROVE  ObjCore'
<1>1. \A u \in T : pc[u] \notin Detaching /\ (pc'[u] \in Copying => mq \in alive)
  BY DEF Calm, NoCopy, Detaching, Copying
<1> QED BY <1>1, ObjStep DEF Quiet, Calm

\* The same when the first of a list is woken, for an object that is alive.
LEMMA WakesCore ==
    ASSUME ObjCore, NEW T, NEW q \in Queue, WakesOne(T, q), OwnerAlive(q), Calm(T), NoCopy(T)
    PROVE  ObjCore'
<1>1. CASE ToSet(k.wait[q]) = {}
  BY <1>1, QuietCore DEF WakesOne
<1>2. CASE ToSet(k.wait[q]) # {}
  <2>1. PICK h \in ToSet(k.wait[q]) : Step(T, {h}, "EOK", {})
    BY <1>2 DEF WakesOne
  <2>2. h \in Thread
    BY <2>1 DEF Step, KernelTurn
  <2>3. on[h] = q
    BY <2>1, <2>2, WaiterOn DEF ObjCore, ThreadsOK
  <2>4. \A u \in T : pc[u] \notin Detaching /\ (pc'[u] \in Copying => mq \in alive)
    BY DEF Calm, NoCopy, Detaching, Copying
  <2> QED BY <2>1, <2>3, <2>4, ObjStep DEF Calm
<1> QED BY <1>1, <1>2

\* The same when a thread joins the list of an object that is alive.
LEMMA JoinsCore ==
    ASSUME ObjCore, NEW t, NEW q \in Queue, Joins(t, q), q \in alive, Calm({t}), NoCopy({t})
    PROVE  ObjCore'
<1>1. \A u \in {t} : pc[u] \notin Detaching /\ (pc'[u] \in Copying => mq \in alive)
  BY DEF Calm, NoCopy, Detaching, Copying
<1> QED BY <1>1, ObjStep DEF Joins, Calm

\* The same when everyone on some lists is woken with an error.
LEMMA FailsCore ==
    ASSUME ObjCore, NEW t, NEW Q, Fails(t, Q), Calm({t}), NoCopy({t})
    PROVE  ObjCore'
<1>1. \A u \in {t} : pc[u] \notin Detaching /\ (pc'[u] \in Copying => mq \in alive)
  BY DEF Calm, NoCopy, Detaching, Copying
<1> DEFINE H == UNION {ToSet(k.wait[q]) : q \in Q}
<1>2. Step({t}, H, "ERROR", {})
  BY DEF Fails
<1> HIDE DEF H
<1> QED BY <1>1, <1>2, ObjStep DEF Calm

-----------------------------------------------------------------------------
(* Nobody sleeps while there is more of what he waits for than threads on  *)
(* their way to it.                                                        *)

\* Of n things to have, each is for one who has been resumed from q.
Covered(q, n) == ToSet(k.wait[q]) # {} => n <= Cardinality(Out(q, "EOK"))

\* Threads on their way out of a list can be counted.
LEMMA OutFinite ==
    ASSUME NEW q, NEW e
    PROVE  IsFiniteSet(Out(q, e)) /\ Cardinality(Out(q, e)) \in Nat
<1>1. Out(q, e) \subseteq Thread
  BY DEF Out
<1>2. IsFiniteSet(Out(q, e))
  BY <1>1, FiniteAssumption, FS_Subset
<1> QED BY <1>2, FS_CardinalityType

\* There is one more of it, and one more is woken.
LEMMA CoverOneMore ==
    ASSUME ThreadsOK, NEW T, NEW q \in Queue, WakesOne(T, q), Away(T, q),
           NEW n \in Int, Covered(q, n)
    PROVE  ToSet(k'.wait[q]) # {} => n + 1 <= Cardinality(Out(q, "EOK")')
<1>0. IpcCore
  BY DEF ThreadsOK
<1>1. CASE ToSet(k.wait[q]) = {}
  <2>1. Still(q)
    BY <1>1, QuietStill DEF WakesOne
  <2> QED BY <1>1, <2>1 DEF Still
<1>2. CASE ToSet(k.wait[q]) # {}
  <2>1. PICK h \in ToSet(k.wait[q]) : Step(T, {h}, "EOK", {})
    BY <1>2 DEF WakesOne
  <2>2. h \in Thread
    BY <2>1 DEF Step, KernelTurn
  <2>3. on[h] = q /\ k.stat[h] = "SUSPEND"
    BY <1>0, <2>1, <2>2, WaiterOn
  <2>4. Out(q, "EOK")' = (Out(q, "EOK") \ T) \cup {u \in {h} : on[u] = q /\ "EOK" = "EOK"}
    BY <1>0, <2>1, StepOut
  <2>5. Out(q, "EOK") \cap T = {} /\ h \notin Out(q, "EOK")
    BY <2>3 DEF Out, Away
  <2>6. Out(q, "EOK")' = Out(q, "EOK") \cup {h}
    BY <2>3, <2>4, <2>5
  <2> DEFINE O == Out(q, "EOK")
  <2>7. IsFiniteSet(O) /\ Cardinality(O) \in Nat /\ h \notin O
    BY <2>5, OutFinite
  <2>8. n <= Cardinality(O)
    BY <1>2 DEF Covered
  <2> HIDE DEF O
  <2>9. Cardinality(O \cup {h}) = Cardinality(O) + 1
    BY <2>7, FS_AddElement
  <2>10. n + 1 <= Cardinality(O \cup {h})
    BY <2>7, <2>8, <2>9
  <2> QED BY <2>6, <2>10 DEF O
<1> QED BY <1>1, <1>2

\* One thread takes one of it.
LEMMA CoverOneLess ==
    ASSUME ThreadsOK, NEW T, NEW H, NEW e, Step(T, H, e, {}), NEW q \in Queue,
           NEW n \in Int, Covered(q, n), \A u \in H : on[u] # q
    PROVE  ToSet(k'.wait[q]) # {} => n - 1 <= Cardinality(Out(q, "EOK")')
<1>0. IpcCore
  BY DEF ThreadsOK
<1>1. /\ ToSet(k'.wait[q]) \subseteq ToSet(k.wait[q])
      /\ Out(q, "EOK")' = (Out(q, "EOK") \ T) \cup {u \in H : on[u] = q /\ "EOK" = e}
  BY <1>0, StepOut
<1>2. Out(q, "EOK")' = Out(q, "EOK") \ T
  BY <1>1
<1>3. T = {} \/ \E t : T = {t}
  BY DEF Step
<1> DEFINE O == Out(q, "EOK")
<1>4. IsFiniteSet(O) /\ Cardinality(O) \in Nat
  BY OutFinite
<1>5. ToSet(k.wait[q]) # {} => n <= Cardinality(O)
  BY DEF Covered
<1> HIDE DEF O
<1>6. Cardinality(O \ T) >= Cardinality(O) - 1 /\ Cardinality(O \ T) \in Nat
  <2>1. CASE T = {}
    <3>1. O \ T = O
      BY <2>1
    <3> QED BY <1>4, <3>1
  <2>2. CASE \E t : T = {t}
    <3>1. PICK t : T = {t}
      BY <2>2
    <3>2. /\ IsFiniteSet(O \ {t})
          /\ Cardinality(O \ {t}) = IF t \in O THEN Cardinality(O) - 1 ELSE Cardinality(O)
      BY <1>4, FS_RemoveElement
    <3>3. Cardinality(O \ {t}) \in Nat
      BY <3>2, FS_CardinalityType
    <3> QED BY <1>4, <3>1, <3>2, <3>3
  <2> QED BY <1>3, <2>1, <2>2
<1>7. ToSet(k.wait[q]) # {} => n - 1 <= Cardinality(O \ T)
  BY <1>4, <1>5, <1>6
<1> QED BY <1>1, <1>2, <1>7 DEF O

\* Waiters go for other reasons, nobody who was resumed does.
LEMMA CoverSame ==
    ASSUME NEW q \in Queue, NEW n \in Int, Covered(q, n),
           ToSet(k'.wait[q]) \subseteq ToSet(k.wait[q]), Out(q, "EOK")' = Out(q, "EOK")
    PROVE  ToSet(k'.wait[q]) # {} => n <= Cardinality(Out(q, "EOK")')
BY DEF Covered

\* There is nothing to have.
LEMMA CoverNone ==
    ASSUME NEW q
    PROVE  0 <= Cardinality(Out(q, "EOK")')
<1>1. Out(q, "EOK")' \subseteq Thread
  BY DEF Out
<1>2. IsFiniteSet(Out(q, "EOK")')
  BY <1>1, FiniteAssumption, FS_Subset
<1>3. Cardinality(Out(q, "EOK")') \in Nat
  BY <1>2, FS_CardinalityType
<1> QED BY <1>3

-----------------------------------------------------------------------------
(* Mailbox: wake-ups.                                                      *)

MailCovered == Covered(mb, entry) /\ Covered(mb_sender, mb_size - entry)

\* A quiet step leaves the lists alone; the threads that move are out.
LEMMA QuietOut ==
    ASSUME ThreadsOK, NEW T, Quiet(T)
    PROVE  \A q \in Queue : /\ ToSet(k'.wait[q]) = ToSet(k.wait[q])
                             /\ \A f : Out(q, f)' = Out(q, f) \ T
<1>1. IpcCore /\ Step(T, {}, "EOK", {})
  BY DEF ThreadsOK, Quiet
<1>2. ASSUME NEW q \in Queue
      PROVE  /\ ToSet(k'.wait[q]) = (ToSet(k.wait[q]) \ {}) \cup (IF q \in {} THEN T ELSE {})
             /\ \A f : Out(q, f)' = (Out(q, f) \ T) \cup {u \in {} : on[u] = q /\ f = "EOK"}
  BY ONLY <1>1, <1>2, StepOut
<1>3. ASSUME NEW q \in Queue
      PROVE  ToSet(k'.wait[q]) = ToSet(k.wait[q]) /\ \A f : Out(q, f)' = Out(q, f) \ T
  BY ONLY <1>2, <1>3, ZenonT(60)
<1> QED BY ONLY <1>3

\* A step on the mailbox loses no wake-up, and leaves the other lists alone.
LEMMA MbDoesKeeps ==
    ASSUME ObjCore, MbInv, NEW T, MbDoes(T), Calm(T), NoCopy(T)
    PROVE  /\ ObjCore'
           /\ \A q \in {event, mq, mp} : Still(q)
           /\ MailCovered => MailCovered'
<1>0. /\ ThreadsOK /\ IpcCore /\ {event, mb, mb_sender, mq, mp} \subseteq Queue /\ mb # mb_sender
      /\ \A q \in {event, mq, mp} : q # mb /\ q # mb_sender
      /\ entry \in Int /\ mb_size \in Int /\ entry \in 0 .. mb_size
  <2>1. ThreadsOK /\ IpcCore
    BY DEF ObjCore, ThreadsOK
  <2>2. /\ {event, mb, mb_sender, mq, mp} \subseteq Queue /\ mb # mb_sender
        /\ \A q \in {event, mq, mp} : q # mb /\ q # mb_sender
    BY ListsAssumption, MailboxAssumption
  <2>3. entry \in 0 .. mb_size /\ mb_size \in Nat
    BY MailboxAssumption DEF MbInv, RingOK
  <2> QED BY <2>1, <2>2, <2>3
<1>a. \A t, q : From(t, q) => \A r : r # q => Away({t}, r)
  BY DEF From, Away, Out
<1>b. ASSUME NEW q, \A t \in T : From(t, q) PROVE \A r : r # q => Away(T, r)
  BY <1>b DEF From, Away, Out
<1>c. MailCovered' <=> /\ ToSet(k'.wait[mb]) # {} => entry' <= Cardinality(Out(mb, "EOK")')
                       /\ ToSet(k'.wait[mb_sender]) # {} => mb_size - entry' <= Cardinality(Out(mb_sender, "EOK")')
  BY DEF MailCovered, Covered
<1>1. CASE /\ mb \in alive /\ entry < mb_size /\ entry' = entry + 1 /\ WakesOne(T, mb)
           /\ \A t \in T : From(t, mb_sender)
  <2>1. OwnerAlive(mb)
    BY <1>0, <1>1, ListsAssumption DEF OwnerAlive
  <2>2. ObjCore'
    BY <1>0, <1>1, <2>1, WakesCore
  <2>3. \A q \in {event, mq, mp} : Still(q)
    BY <1>0, <1>1, <1>b, WakesStill
  <2>4. ASSUME MailCovered PROVE MailCovered'
    <3>1. ToSet(k'.wait[mb]) # {} => entry + 1 <= Cardinality(Out(mb, "EOK")')
      BY <1>0, <1>1, <1>b, <2>4, CoverOneMore DEF MailCovered
    <3>2. PICK H, e : Step(T, H, e, {}) /\ \A u \in H : on[u] = mb
      <4>1. CASE ToSet(k.wait[mb]) = {}
        BY <1>1, <4>1 DEF WakesOne, Quiet
      <4>2. CASE ToSet(k.wait[mb]) # {}
        <5>1. PICK h \in ToSet(k.wait[mb]) : Step(T, {h}, "EOK", {})
          BY <1>1, <4>2 DEF WakesOne
        <5>2. h \in Thread
          BY <5>1 DEF Step, KernelTurn
        <5> QED BY <1>0, <5>1, <5>2, WaiterOn
      <4> QED BY <4>1, <4>2
    <3>3. mb_size - entry \in Int /\ \A u \in H : on[u] # mb_sender
      BY <1>0, <3>2
    <3>4. ToSet(k'.wait[mb_sender]) # {} => mb_size - entry - 1 <= Cardinality(Out(mb_sender, "EOK")')
      BY <1>0, <2>4, <3>2, <3>3, CoverOneLess DEF MailCovered
    <3>5. mb_size - entry' = mb_size - entry - 1
      BY <1>0, <1>1
    <3> QED BY <1>1, <1>c, <3>1, <3>4, <3>5
  <2> QED BY <2>2, <2>3, <2>4
<1>2. CASE /\ mb \in alive /\ entry > 0 /\ entry' = entry - 1 /\ WakesOne(T, mb_sender)
           /\ \A t \in T : From(t, mb)
  <2>1. OwnerAlive(mb_sender)
    BY <1>0, <1>2, ListsAssumption DEF OwnerAlive
  <2>2. ObjCore'
    BY <1>0, <1>2, <2>1, WakesCore
  <2>3. \A q \in {event, mq, mp} : Still(q)
    BY <1>0, <1>2, <1>b, WakesStill
  <2>4. ASSUME MailCovered PROVE MailCovered'
    <3>0. mb_size - entry \in Int
      BY <1>0
    <3>1. ToSet(k'.wait[mb_sender]) # {} => mb_size - entry + 1 <= Cardinality(Out(mb_sender, "EOK")')
      BY <1>0, <1>2, <1>b, <2>4, <3>0, CoverOneMore DEF MailCovered
    <3>2. PICK H, e : Step(T, H, e, {}) /\ \A u \in H : on[u] = mb_sender
      <4>1. CASE ToSet(k.wait[mb_sender]) = {}
        BY <1>2, <4>1 DEF WakesOne, Quiet
      <4>2. CASE ToSet(k.wait[mb_sender]) # {}
        <5>1. PICK h \in ToSet(k.wait[mb_sender]) : Step(T, {h}, "EOK", {})
          BY <1>2, <4>2 DEF WakesOne
        <5>2. h \in Thread
          BY <5>1 DEF Step, KernelTurn
        <5> QED BY <1>0, <5>1, <5>2, WaiterOn
      <4> QED BY <4>1, <4>2
    <3>3. \A u \in H : on[u] # mb
      BY <1>0, <3>2
    <3>4. ToSet(k'.wait[mb]) # {} => entry - 1 <= Cardinality(Out(mb, "EOK")')
      BY <1>0, <2>4, <3>2, <3>3, CoverOneLess DEF MailCovered
    <3>5. mb_size - entry' = mb_size - entry + 1
      BY <1>0, <1>2
    <3> QED BY <1>2, <1>c, <3>1, <3>4, <3>5
  <2> QED BY <2>2, <2>3, <2>4
<1>3. ASSUME mb \in alive, entry = mb_size, entry' = entry,
             NEW t, T = {t}, From(t, mb_sender), Joins(t, mb_sender)
      PROVE  ObjCore' /\ (\A q \in {event, mq, mp} : Still(q)) /\ (MailCovered => MailCovered')
  <2>1. mb_sender \in alive
    BY <1>3 DEF ObjCore, Gone
  <2>2. ObjCore'
    BY <1>0, <1>3, <2>1, JoinsCore
  <2>3. \A q \in {event, mq, mp, mb} : Still(q)
    BY <1>0, <1>3, <1>a, JoinsStill
  <2>4. 0 <= Cardinality(Out(mb_sender, "EOK")') /\ mb_size - entry' = 0
    BY <1>0, <1>3, CoverNone
  <2>5. MailCovered => (ToSet(k'.wait[mb]) # {} => entry' <= Cardinality(Out(mb, "EOK")'))
    BY <1>0, <1>3, <2>3, CoverSame DEF MailCovered, Still
  <2> QED BY <1>c, <2>2, <2>3, <2>4, <2>5
<1>4. ASSUME mb \in alive, entry = 0, entry' = entry,
             NEW t, T = {t}, From(t, mb), Joins(t, mb)
      PROVE  ObjCore' /\ (\A q \in {event, mq, mp} : Still(q)) /\ (MailCovered => MailCovered')
  <2>2. ObjCore'
    BY <1>0, <1>4, JoinsCore
  <2>3. \A q \in {event, mq, mp, mb_sender} : Still(q)
    BY <1>0, <1>4, <1>a, JoinsStill
  <2>4. 0 <= Cardinality(Out(mb, "EOK")') /\ entry' = 0
    BY <1>4, CoverNone
  <2>5. mb_size - entry \in Int /\ mb_size - entry' = mb_size - entry
    BY <1>0, <1>4
  <2>6. MailCovered => (ToSet(k'.wait[mb_sender]) # {} => mb_size - entry' <= Cardinality(Out(mb_sender, "EOK")'))
    BY <1>0, <2>3, <2>5, CoverSame DEF MailCovered, Still
  <2> QED BY <1>c, <2>2, <2>3, <2>4, <2>6
<1>5. CASE /\ entry' = entry /\ Quiet(T)
           /\ \A t \in T : \/ pc[t] = "run"
                           \/ on[t] \in {mb, mb_sender} /\ k.error[t] # "EOK"
                           \/ entry = mb_size /\ on[t] = mb_sender
                           \/ entry = 0 /\ on[t] = mb
  <2>1. ObjCore'
    BY <1>0, <1>5, QuietCore
  <2>2. \A q \in {event, mq, mp} : Away(T, q)
    BY <1>0, <1>5 DEF Away
  <2>3. \A q \in {event, mq, mp} : Still(q)
    BY <1>0, <1>5, <2>2, QuietStill
  <2>4. \A q \in Queue : ToSet(k'.wait[q]) = ToSet(k.wait[q]) /\ Out(q, "EOK")' = Out(q, "EOK") \ T
    BY <1>0, <1>5, QuietOut
  <2>5. \A q \in Queue : (\A t \in T : pc[t] = "run" \/ on[t] # q \/ k.error[t] # "EOK")
                            => Out(q, "EOK")' = Out(q, "EOK")
    BY <2>4 DEF Out
  <2>6. \/ \A t \in T : pc[t] = "run" \/ on[t] # mb \/ k.error[t] # "EOK"
        \/ entry = 0
    BY <1>0, <1>5
  <2>7. \/ \A t \in T : pc[t] = "run" \/ on[t] # mb_sender \/ k.error[t] # "EOK"
        \/ entry = mb_size
    BY <1>0, <1>5
  <2>8. ASSUME MailCovered PROVE ToSet(k'.wait[mb]) # {} => entry' <= Cardinality(Out(mb, "EOK")')
    <3>1. CASE entry = 0
      BY <1>5, <3>1, CoverNone
    <3>2. CASE \A t \in T : pc[t] = "run" \/ on[t] # mb \/ k.error[t] # "EOK"
      BY <1>0, <1>5, <2>4, <2>5, <2>8, <3>2, CoverSame DEF MailCovered
    <3> QED BY <2>6, <3>1, <3>2
  <2>9. ASSUME MailCovered
        PROVE  ToSet(k'.wait[mb_sender]) # {} => mb_size - entry' <= Cardinality(Out(mb_sender, "EOK")')
    <3>0. mb_size - entry \in Int /\ (entry = mb_size => mb_size - entry = 0)
      BY <1>0
    <3>1. CASE entry = mb_size
      BY <1>5, <3>0, <3>1, CoverNone
    <3>2. CASE \A t \in T : pc[t] = "run" \/ on[t] # mb_sender \/ k.error[t] # "EOK"
      BY <1>0, <1>5, <2>4, <2>5, <2>9, <3>0, <3>2, CoverSame DEF MailCovered
    <3> QED BY <2>7, <3>1, <3>2
  <2> QED BY <1>c, <2>1, <2>3, <2>8, <2>9
<1>6. ASSUME entry' = 0, NEW t, T = {t}, pc[t] = "run", Fails(t, {mb, mb_sender})
      PROVE  ObjCore' /\ (\A q \in {event, mq, mp} : Still(q)) /\ (MailCovered => MailCovered')
  <2>1. ObjCore'
    BY <1>0, <1>6, FailsCore
  <2>2. \A q \in {event, mq, mp} : Still(q)
    <3> DEFINE Q == {mb, mb_sender}
    <3>1. Q \in SUBSET Queue /\ \A q \in {event, mq, mp} : q \in Queue \ Q /\ Away({t}, q)
      BY <1>0, <1>6 DEF Away
    <3>2. Fails(t, Q)
      BY <1>6
    <3> HIDE DEF Q
    <3> QED BY <1>0, <3>1, <3>2, FailsStill
  <2>3. \A q \in {mb, mb_sender} : ToSet(k'.wait[q]) = {}
    <3> DEFINE H == UNION {ToSet(k.wait[r]) : r \in {mb, mb_sender}}
    <3>1. Step({t}, H, "ERROR", {})
      BY <1>6 DEF Fails
    <3>2. \A q \in {mb, mb_sender} : ToSet(k.wait[q]) \subseteq H
      OBVIOUS
    <3> HIDE DEF H
    <3>3. \A q \in Queue : ToSet(k'.wait[q]) = (ToSet(k.wait[q]) \ H) \cup (IF q \in {} THEN {t} ELSE {})
      BY <1>0, <3>1, StepOut
    <3> QED BY <1>0, <3>2, <3>3
  <2> QED BY <1>c, <2>1, <2>2, <2>3
<1> QED BY <1>1, <1>2, <1>3, <1>4, <1>5, <1>6 DEF MbDoes

-----------------------------------------------------------------------------
(* Message queue: lists of nodes.                                          *)

\* A list without repetitions has as many elements as its length says.
LEMMA ListCardinality ==
    ASSUME NEW S, NEW s \in Seq(S), IsInjective(s)
    PROVE  IsFiniteSet(ToSet(s)) /\ Cardinality(ToSet(s)) = Len(s)
<1> DEFINE N == Len(s)
<1>1. N \in Nat /\ DOMAIN s = 1 .. N
  OBVIOUS
<1>2. IsFiniteSet(1 .. N) /\ Cardinality(1 .. N) = N
  <2>1. IsFiniteSet(1 .. N) /\ Cardinality(1 .. N) = IF 1 > N THEN 0 ELSE N - 1 + 1
    BY ONLY <1>1, FS_Interval, 1 \in Int, N \in Int
  <2> QED BY ONLY <1>1, <2>1
<1>3. s \in Bijection(1 .. N, ToSet(s))
  <2>1. s \in [1 .. N -> ToSet(s)]
    BY <1>1 DEF ToSet
  <2>2. \A a, b \in 1 .. N : s[a] = s[b] => a = b
    BY ListIndex
  <2>3. \A x \in ToSet(s) : \E a \in 1 .. N : s[a] = x
    BY ListIndex
  <2> HIDE DEF N
  <2> QED BY <2>1, <2>2, <2>3 DEF Bijection, Injection, Surjection, IsInjective
<1>4. ExistsBijection(1 .. N, ToSet(s))
  BY <1>3 DEF ExistsBijection
<1> QED BY <1>2, <1>4, FS_Bijection

\* The nodes of s, linked by nx, are the list that begins at first.
Linked(nx, first, s) ==
    /\ s \in Seq(Node) /\ IsInjective(s)
    /\ first = IF s = << >> THEN NULL ELSE s[1]
    /\ \A i \in 1 .. Len(s) : nx[s[i]] = IF i = Len(s) THEN NULL ELSE s[i + 1]

\* No list is longer than the pool.
LEMMA LinkedLength ==
    ASSUME NEW nx, NEW first, NEW s, Linked(nx, first, s)
    PROVE  Len(s) \in 0 .. max_msgs
<1>1. s \in Seq(Node) /\ IsInjective(s) /\ max_msgs \in Nat
  BY MessageQueueAssumption DEF Linked
<1>2. IsFiniteSet(ToSet(s)) /\ Cardinality(ToSet(s)) = Len(s)
  BY <1>1, ListCardinality
<1>3. IsFiniteSet(Node) /\ Cardinality(Node) = max_msgs
  <2>1. IsFiniteSet(1 .. max_msgs) /\ Cardinality(1 .. max_msgs) = IF 1 > max_msgs THEN 0 ELSE max_msgs - 1 + 1
    BY ONLY <1>1, FS_Interval, 1 \in Int, max_msgs \in Int
  <2> QED BY <1>1, <2>1 DEF Node
<1>4. ToSet(s) \in SUBSET Node
  BY <1>1 DEF ToSet
<1>5. Cardinality(ToSet(s)) <= max_msgs
  BY <1>3, <1>4, FS_Subset
<1> QED BY <1>1, <1>2, <1>5

\* Chain walks along the list.
LEMMA ChainIs ==
    ASSUME NEW first, NEW s, Linked(next, first, s)
    PROVE  Chain(first) = s
<1> DEFINE Good(g) == g = [i \in Node |-> IF i = 1 THEN first
                              ELSE IF g[i - 1] = NULL THEN NULL ELSE next[g[i - 1]]]
           G == [i \in Node |-> IF i <= Len(s) THEN s[i] ELSE NULL]
           F == [i \in Node |-> IF i = 1 THEN first
                              ELSE IF G[i - 1] = NULL THEN NULL ELSE next[G[i - 1]]]
<1>0. /\ s \in Seq(Node) /\ max_msgs \in Nat \ {0} /\ Len(s) \in 0 .. max_msgs /\ NULL \notin Node
      /\ first = IF s = << >> THEN NULL ELSE s[1]
      /\ \A i \in 1 .. Len(s) : s[i] \in Node /\ next[s[i]] = IF i = Len(s) THEN NULL ELSE s[i + 1]
  BY LinkedLength, MessageQueueAssumption DEF Linked, NULL, Node
<1>1. ASSUME NEW i \in Node PROVE G[i] = F[i]
  <2>1. CASE i = 1
    BY <1>0, <2>1 DEF Node
  <2>2. CASE i # 1
    <3>1. i - 1 \in Node /\ i \in Int /\ i >= 2
      BY <1>0, <2>2 DEF Node
    <3>2. CASE i - 1 <= Len(s)
      <4>1. G[i - 1] = s[i - 1] /\ i - 1 \in 1 .. Len(s)
        BY <1>0, <3>1, <3>2
      <4>2. F[i] = IF i - 1 = Len(s) THEN NULL ELSE s[(i - 1) + 1]
        BY <1>0, <2>2, <4>1
      <4> QED BY <1>0, <3>1, <3>2, <4>2
    <3>3. CASE ~(i - 1 <= Len(s))
      BY <1>0, <2>2, <3>1, <3>3
    <3> QED BY <3>2, <3>3
  <2> QED BY <2>1, <2>2
<1>2. G = F
  BY <1>1, Zenon
<1>3. \E g : Good(g)
  BY <1>2, Zenon
<1>4. PICK g : /\ Good(g)
               /\ Chain(first) = [i \in 1 .. Cardinality({j \in Node : g[j] # NULL}) |-> g[i]]
  <2> DEFINE c == CHOOSE g : Good(g)
  <2>1. Good(c)
    BY <1>3
  <2>2. Chain(first) = [i \in 1 .. Cardinality({j \in Node : c[j] # NULL}) |-> c[i]]
    BY DEF Chain
  <2> HIDE DEF c, Good
  <2> QED BY <2>1, <2>2
<1>5. \A i \in Node : g[i] = IF i = 1 THEN first ELSE IF g[i - 1] = NULL THEN NULL ELSE next[g[i - 1]]
  BY <1>4
<1>6. \A i \in Node : G[i] = IF i = 1 THEN first ELSE IF G[i - 1] = NULL THEN NULL ELSE next[G[i - 1]]
  BY <1>1
<1> HIDE DEF Good, F
<1>7. \A i \in Node : g[i] = G[i]
  <2> DEFINE U == {n \in 0 .. max_msgs - 1 : g[n + 1] = G[n + 1]}
             M == max_msgs - 1
  <2>0. M \in Nat /\ Node = 1 .. M + 1
    BY <1>0 DEF Node
  <2> HIDE DEF G
  <2>1. 0 \in U
    <3>1. 1 \in Node /\ 0 \in 0 .. max_msgs - 1
      BY <1>0 DEF Node
    <3>2. g[1] = first /\ G[1] = first
      BY <1>5, <1>6, <3>1
    <3> QED BY <3>1, <3>2
  <2>2. ASSUME NEW n \in 0 .. M - 1, n \in U PROVE n + 1 \in U
    <3>1. n + 2 \in Node /\ n + 2 # 1 /\ n + 2 - 1 = n + 1 /\ n + 1 \in 0 .. max_msgs - 1 /\ n + 1 + 1 = n + 2
      BY <1>0, <2>0
    <3>2. g[n + 2] = G[n + 2]
      BY <1>5, <1>6, <2>2, <3>1
    <3> QED BY <3>1, <3>2
  <2> HIDE DEF U
  <2>3. \A n \in 0 .. M : n \in U
    BY ONLY <2>0, <2>1, <2>2, UpTo
  <2>4. ASSUME NEW i \in Node PROVE g[i] = G[i]
    <3>1. i - 1 \in 0 .. M /\ (i - 1) + 1 = i
      BY <2>0
    <3> QED BY <2>3, <3>1 DEF U
  <2> QED BY <2>4
<1>8. {j \in Node : g[j] # NULL} = 1 .. Len(s)
  BY <1>0, <1>7 DEF Node
<1>9. Cardinality(1 .. Len(s)) = Len(s)
  <2>1. Cardinality(1 .. Len(s)) = IF 1 > Len(s) THEN 0 ELSE Len(s) - 1 + 1
    BY ONLY FS_Interval, 1 \in Int, Len(s) \in Int
  <2> QED BY <1>0, <2>1
<1>10. Chain(first) = [i \in 1 .. Len(s) |-> g[i]]
  BY <1>4, <1>8, <1>9
<1>11. \A i \in 1 .. Len(s) : g[i] = s[i]
  BY <1>0, <1>7 DEF Node
<1>12. s = [i \in 1 .. Len(s) |-> s[i]]
  BY <1>0
<1> HIDE DEF G
<1> QED BY <1>10, <1>11, <1>12

\* Nodes linked elsewhere do not matter to a list.
LEMMA LinkedKeep ==
    ASSUME NEW nx, NEW first, NEW s, Linked(nx, first, s),
           NEW ny, \A n \in ToSet(s) : ny[n] = nx[n]
    PROVE  Linked(ny, first, s)
<1>1. \A i \in 1 .. Len(s) : s[i] \in ToSet(s)
  BY ListIndex DEF Linked
<1> QED BY <1>1 DEF Linked

\* A node is put before the first of a list.
LEMMA LinkedPush ==
    ASSUME NEW nx, NEW first, NEW s, Linked(nx, first, s), NEW n \in Node \ ToSet(s),
           NEW ny, ny[n] = first, \A m \in ToSet(s) : ny[m] = nx[m]
    PROVE  /\ Linked(ny, n, <<n>> \o s) /\ ToSet(<<n>> \o s) = ToSet(s) \cup {n}
           /\ <<n>> \o s # << >> /\ Len(<<n>> \o s) = Len(s) + 1
           /\ \A j \in 1 .. Len(s) + 1 : (<<n>> \o s)[j] = IF j = 1 THEN n ELSE s[j - 1]
<1> DEFINE r == <<n>> \o s
<1>1. s \in Seq(Node) /\ IsInjective(s) /\ Len(s) \in Nat
  BY DEF Linked
<1>2. /\ r \in Seq(Node) /\ r # << >> /\ Len(r) = Len(s) + 1
      /\ \A j \in 1 .. Len(s) + 1 : r[j] = IF j = 1 THEN n ELSE s[j - 1]
      /\ ToSet(r) = ToSet(s) \cup {n} /\ IsInjective(r)
  BY <1>1, ListPrepend
<1>3. /\ \A i \in 1 .. Len(s) : s[i] \in ToSet(s)
      /\ s = << >> <=> Len(s) = 0
  BY <1>1, ListIndex
<1> HIDE DEF r
<1>4. ASSUME NEW i \in 1 .. Len(r) PROVE ny[r[i]] = IF i = Len(r) THEN NULL ELSE r[i + 1]
  <2>1. CASE i = 1
    <3>1. CASE s = << >>
      BY <1>1, <1>2, <1>3, <2>1, <3>1 DEF Linked
    <3>2. CASE s # << >>
      <4>1. 2 \in 1 .. Len(s) + 1 /\ r[2] = s[1] /\ Len(r) # 1
        BY <1>1, <1>2, <1>3, <3>2
      <4> QED BY <1>1, <1>2, <2>1, <3>2, <4>1 DEF Linked
    <3> QED BY <3>1, <3>2
  <2>2. CASE i # 1
    <3>1. i - 1 \in 1 .. Len(s) /\ r[i] = s[i - 1] /\ (i - 1 = Len(s) <=> i = Len(r))
      BY <1>1, <1>2, <2>2
    <3>2. ny[r[i]] = nx[s[i - 1]]
      BY <1>3, <3>1
    <3>3. nx[s[i - 1]] = IF i - 1 = Len(s) THEN NULL ELSE s[(i - 1) + 1]
      BY <3>1 DEF Linked
    <3>4. i # Len(r) => r[i + 1] = s[(i - 1) + 1]
      BY <1>1, <1>2, <2>2
    <3> QED BY <3>1, <3>2, <3>3, <3>4
  <2> QED BY <2>1, <2>2
<1>5. n = r[1]
  BY <1>1, <1>2
<1>6. Linked(ny, n, r)
  BY <1>2, <1>4, <1>5 DEF Linked
<1> QED BY <1>2, <1>6 DEF r

\* A node is put behind the last of a list.
LEMMA LinkedAppend ==
    ASSUME NEW nx, NEW first, NEW s, Linked(nx, first, s), NEW n \in Node \ ToSet(s),
           NEW ny, ny[n] = NULL,
           \A i \in 1 .. Len(s) : ny[s[i]] = IF i = Len(s) THEN n ELSE nx[s[i]]
    PROVE  /\ Linked(ny, IF first = NULL THEN n ELSE first, Append(s, n))
           /\ ToSet(Append(s, n)) = ToSet(s) \cup {n}
           /\ Append(s, n) # << >> /\ Len(Append(s, n)) = Len(s) + 1
           /\ \A j \in 1 .. Len(s) + 1 : Append(s, n)[j] = IF j = Len(s) + 1 THEN n ELSE s[j]
<1> DEFINE r == Append(s, n)
<1>1. s \in Seq(Node) /\ IsInjective(s) /\ Len(s) \in Nat /\ (s = << >> <=> Len(s) = 0)
  BY DEF Linked
<1>2. /\ r \in Seq(Node) /\ r # << >> /\ ToSet(r) = ToSet(s) \cup {n} /\ IsInjective(r)
  BY <1>1, ListAppend
<1>3. /\ Len(r) = Len(s) + 1
      /\ \A j \in 1 .. Len(s) + 1 : r[j] = IF j = Len(s) + 1 THEN n ELSE s[j]
  BY <1>1
<1> HIDE DEF r
<1>4. ASSUME NEW i \in 1 .. Len(r) PROVE ny[r[i]] = IF i = Len(r) THEN NULL ELSE r[i + 1]
  <2>1. CASE i = Len(r)
    BY <1>1, <1>3, <2>1
  <2>2. CASE i # Len(r)
    <3>1. i \in 1 .. Len(s) /\ r[i] = s[i]
      BY <1>1, <1>3, <2>2
    <3>2. nx[s[i]] = IF i = Len(s) THEN NULL ELSE s[i + 1]
      BY <3>1 DEF Linked
    <3>3. r[i + 1] = IF i = Len(s) THEN n ELSE s[i + 1]
      BY <1>1, <1>3, <3>1
    <3> QED BY <2>2, <3>1, <3>2, <3>3
  <2> QED BY <2>1, <2>2
<1>5. r[1] = IF first = NULL THEN n ELSE first
  <2>1. CASE s = << >>
    BY <1>1, <1>3, <2>1 DEF Linked
  <2>2. CASE s # << >>
    <3>1. first = s[1] /\ s[1] \in Node /\ r[1] = s[1]
      BY <1>1, <1>3, <2>2 DEF Linked
    <3>2. first # NULL
      BY <3>1 DEF Node, NULL
    <3> QED BY <3>1, <3>2
  <2> QED BY <2>1, <2>2
<1>6. Linked(ny, IF first = NULL THEN n ELSE first, r)
  BY <1>2, <1>4, <1>5 DEF Linked
<1> QED BY <1>2, <1>3, <1>6 DEF r

\* The first node of a list is taken off it.
LEMMA LinkedPop ==
    ASSUME NEW nx, NEW first, NEW s, Linked(nx, first, s), first # NULL
    PROVE  /\ s # << >> /\ first = s[1] /\ first \in ToSet(s) /\ first \in Node
           /\ Linked(nx, nx[first], Tail(s))
           /\ ToSet(Tail(s)) = ToSet(s) \ {first}
           /\ Len(Tail(s)) = Len(s) - 1
           /\ \A j \in 1 .. Len(s) - 1 : Tail(s)[j] = s[j + 1]
<1> DEFINE r == Tail(s)
<1>1. s \in Seq(Node) /\ IsInjective(s) /\ Len(s) \in Nat \ {0} /\ s # << >> /\ first = s[1]
  BY DEF Linked
<1>2. r \in Seq(Node) /\ Len(r) = Len(s) - 1 /\ \A j \in 1 .. Len(s) - 1 : r[j] = s[j + 1]
  BY ONLY <1>1
<1> HIDE DEF r
<1>3. /\ \A x : x \in ToSet(s) <=> \E j \in 1..Len(s) : s[j] = x
      /\ \A a, b \in 1..Len(s) : s[a] = s[b] => a = b
      /\ \A x : x \in ToSet(r) <=> \E j \in 1..Len(r) : r[j] = x
      /\ IsInjective(r) <=> \A a, b \in 1..Len(r) : r[a] = r[b] => a = b
  <2>1. /\ \A x : x \in ToSet(s) <=> \E j \in 1..Len(s) : s[j] = x
        /\ IsInjective(s) <=> \A a, b \in 1..Len(s) : s[a] = s[b] => a = b
    BY ONLY <1>1, ListIndex
  <2>2. /\ \A x : x \in ToSet(r) <=> \E j \in 1..Len(r) : r[j] = x
        /\ IsInjective(r) <=> \A a, b \in 1..Len(r) : r[a] = r[b] => a = b
    BY ONLY <1>2, ListIndex
  <2> QED BY <1>1, <2>1, <2>2
<1>4. IsInjective(r)
  <2>1. ASSUME NEW a \in 1 .. Len(r), NEW b \in 1 .. Len(r), r[a] = r[b] PROVE a = b
    <3>1. a + 1 \in 1 .. Len(s) /\ b + 1 \in 1 .. Len(s) /\ s[a + 1] = s[b + 1]
      BY <1>1, <1>2, <2>1
    <3>2. a + 1 = b + 1
      BY <1>3, <3>1
    <3> QED BY <3>2
  <2> QED BY <1>3, <2>1
<1>5. ToSet(r) = ToSet(s) \ {first}
  <2>1. ASSUME NEW x, x \in ToSet(r) PROVE x \in ToSet(s) \ {first}
    <3>1. PICK j \in 1 .. Len(r) : r[j] = x
      BY <1>3, <2>1
    <3>2. j + 1 \in 1 .. Len(s) /\ s[j + 1] = x /\ j + 1 # 1 /\ 1 \in 1 .. Len(s)
      BY <1>1, <1>2, <3>1
    <3> QED BY <1>1, <1>3, <3>2
  <2>2. ASSUME NEW x, x \in ToSet(s), x # first PROVE x \in ToSet(r)
    <3>1. PICK j \in 1 .. Len(s) : s[j] = x
      BY <1>3, <2>2
    <3>2. j # 1
      BY <1>1, <2>2, <3>1
    <3>3. j - 1 \in 1 .. Len(r) /\ r[j - 1] = s[(j - 1) + 1] /\ (j - 1) + 1 = j
      BY <1>1, <1>2, <3>2
    <3> QED BY <1>3, <3>1, <3>3
  <2> QED BY <2>1, <2>2
<1>6. first \in ToSet(s) /\ first \in Node
  BY <1>1, <1>3
<1>7. ASSUME NEW i \in 1 .. Len(r) PROVE nx[r[i]] = IF i = Len(r) THEN NULL ELSE r[i + 1]
  <2>1. i + 1 \in 1 .. Len(s) /\ r[i] = s[i + 1] /\ (i + 1 = Len(s) <=> i = Len(r))
    BY <1>1, <1>2
  <2>2. nx[s[i + 1]] = IF i + 1 = Len(s) THEN NULL ELSE s[(i + 1) + 1]
    BY <2>1 DEF Linked
  <2>3. i # Len(r) => r[i + 1] = s[(i + 1) + 1]
    BY <1>1, <1>2
  <2> QED BY <2>1, <2>2, <2>3
<1>8. nx[first] = IF r = << >> THEN NULL ELSE r[1]
  <2>0. 1 \in 1 .. Len(s)
    BY <1>1
  <2>1. nx[s[1]] = IF 1 = Len(s) THEN NULL ELSE s[1 + 1]
    BY ONLY <2>0, Linked(nx, first, s) DEF Linked
  <2>2. r = << >> <=> Len(s) = 1
    BY <1>1, <1>2
  <2>3. r # << >> => r[1] = s[1 + 1]
    BY <1>1, <1>2, <2>2
  <2> QED BY <1>1, <2>1, <2>2, <2>3
<1>9. Linked(nx, nx[first], r)
  BY <1>2, <1>4, <1>7, <1>8 DEF Linked
<1> QED BY <1>1, <1>2, <1>5, <1>6, <1>9 DEF r

\* The nodes of the list s in reverse order, then those of the list f.
Pushed(s, f) == [i \in 1 .. Len(s) + Len(f) |->
                    IF i <= Len(s) THEN s[Len(s) + 1 - i] ELSE f[i - Len(s)]]

\* How rt_mq_control links the nodes it pushes onto the free list.
PushNext(nx, s, free) ==
    [n \in Node |-> IF n \notin ToSet(s) THEN nx[n]
                    ELSE IF n = s[1] THEN free
                    ELSE CHOOSE m \in Node : nx[m] = n /\ m \in ToSet(s)]

\* Every node of a list but the first is the successor of the one before it.
LEMMA PushBack ==
    ASSUME NEW nx, NEW head, NEW s, Linked(nx, head, s), NEW free, NEW i \in 2 .. Len(s)
    PROVE  PushNext(nx, s, free)[s[i]] = s[i - 1]
<1>1. s \in Seq(Node) /\ IsInjective(s) /\ Len(s) \in Nat
  BY DEF Linked
<1>2. /\ \A x : x \in ToSet(s) <=> \E j \in 1..Len(s) : s[j] = x
      /\ \A a, b \in 1..Len(s) : s[a] = s[b] => a = b
  BY <1>1, ListIndex
<1>3. i \in 1 .. Len(s) /\ i - 1 \in 1 .. Len(s) /\ 1 \in 1 .. Len(s) /\ i # 1 /\ i - 1 # Len(s) /\ (i - 1) + 1 = i
  BY <1>1
<1>4. s[i] \in Node /\ s[i] \in ToSet(s) /\ s[i - 1] \in Node /\ s[i - 1] \in ToSet(s) /\ s[i] # s[1] /\ s[i] # NULL
  <2>1. s[i] \in Node /\ s[i - 1] \in Node
    BY ONLY <1>1, <1>3
  <2>2. s[i] \in ToSet(s) /\ s[i - 1] \in ToSet(s) /\ s[i] # s[1]
    BY ONLY <1>2, <1>3
  <2>3. s[i] # NULL
    BY <2>1 DEF Node, NULL
  <2> QED BY <2>1, <2>2, <2>3
<1>5. nx[s[i - 1]] = s[i]
  BY <1>3 DEF Linked
<1>6. ASSUME NEW m \in Node, nx[m] = s[i], m \in ToSet(s) PROVE m = s[i - 1]
  <2>1. PICK j \in 1 .. Len(s) : s[j] = m
    BY <1>2, <1>6
  <2>2. nx[s[j]] = IF j = Len(s) THEN NULL ELSE s[j + 1]
    BY DEF Linked
  <2>3. j # Len(s) /\ s[j + 1] = s[i]
    BY <1>4, <1>6, <2>1, <2>2
  <2>4. j + 1 \in 1 .. Len(s)
    BY <1>1, <2>3
  <2>5. j + 1 = i
    BY <1>2, <1>3, <2>3, <2>4
  <2>6. j = i - 1
    BY <1>3, <2>5
  <2> QED BY <2>1, <2>6
<1>7. (CHOOSE m \in Node : nx[m] = s[i] /\ m \in ToSet(s)) = s[i - 1]
  <2> DEFINE P(m) == nx[m] = s[i] /\ m \in ToSet(s)
             x == s[i - 1]
  <2>1. x \in Node /\ P(x) /\ \A m \in Node : P(m) => m = x
    BY <1>4, <1>5, <1>6
  <2> HIDE DEF P, x
  <2>2. (CHOOSE m \in Node : P(m)) = x
    BY <2>1
  <2> QED BY <2>2 DEF P, x
<1> QED BY <1>4, <1>7 DEF PushNext

\* The queue's nodes pushed one by one onto the free list.
LEMMA LinkedPushed ==
    ASSUME NEW nx, NEW head, NEW s, Linked(nx, head, s), NEW free, NEW f, Linked(nx, free, f),
           ToSet(s) \cap ToSet(f) = {}
    PROVE  /\ Linked(PushNext(nx, s, free), IF s = << >> THEN free ELSE s[Len(s)], Pushed(s, f))
           /\ ToSet(Pushed(s, f)) = ToSet(s) \cup ToSet(f)
<1> DEFINE r == Pushed(s, f)
           ny == PushNext(nx, s, free)
           a == Len(s)
           b == Len(f)
<1>1. /\ s \in Seq(Node) /\ IsInjective(s) /\ a \in Nat /\ (s = << >> <=> a = 0)
      /\ f \in Seq(Node) /\ IsInjective(f) /\ b \in Nat /\ (f = << >> <=> b = 0)
      /\ \A i \in 1 .. a : s[i] \in Node
      /\ \A i \in 1 .. b : f[i] \in Node
  BY DEF Linked
<1>2. /\ \A x : x \in ToSet(s) <=> \E j \in 1..a : s[j] = x
      /\ \A i, j \in 1..a : s[i] = s[j] => i = j
  BY ONLY <1>1, ListIndex
<1>3. /\ \A x : x \in ToSet(f) <=> \E j \in 1..b : f[j] = x
      /\ \A i, j \in 1..b : f[i] = f[j] => i = j
  BY ONLY <1>1, ListIndex
<1>4. \A i \in 1 .. a, j \in 1 .. b : s[i] # f[j]
  BY <1>2, <1>3
<1>a. /\ \A i \in 1 .. a : s[i] \in ToSet(s)
      /\ \A i \in 1 .. b : f[i] \in ToSet(f)
      /\ \A i \in 1 .. b : f[i] \notin ToSet(s)
  BY <1>2, <1>3
<1>5. /\ \A i \in 1 .. a : r[i] = s[a + 1 - i] /\ a + 1 - i \in 1 .. a
      /\ \A i \in a + 1 .. a + b : r[i] = f[i - a] /\ i - a \in 1 .. b
  BY <1>1 DEF Pushed
<1>6. \A i \in 1 .. a + b : r[i] \in Node
  <2>1. \A i \in 1 .. a + b : i \in 1 .. a \/ i \in a + 1 .. a + b
    BY <1>1
  <2> QED BY <1>1, <1>5, <2>1
<1>7. r \in Seq(Node) /\ Len(r) = a + b /\ (r = << >> <=> a + b = 0)
  <2>1. DOMAIN r = 1 .. a + b /\ r = [i \in 1 .. a + b |-> r[i]]
    BY DEF Pushed
  <2> HIDE DEF r
  <2>2. r \in [1 .. a + b -> Node]
    BY <1>6, <2>1
  <2>3. a + b \in Nat
    BY <1>1
  <2> DEFINE c == a + b
  <2> HIDE DEF c, a, b
  <2>4. c \in Nat /\ r \in [1 .. c -> Node]
    BY <2>2, <2>3 DEF c
  <2>5. r \in Seq(Node) /\ Len(r) = c
    BY ONLY <2>4
  <2>6. r = << >> <=> c = 0
    BY ONLY <2>4, <2>5
  <2> QED BY <2>5, <2>6 DEF c
<1>8. IsInjective(r)
  <2>1. ASSUME NEW i \in 1 .. a + b, NEW j \in 1 .. a + b, r[i] = r[j] PROVE i = j
    <3>1. CASE i \in 1 .. a /\ j \in 1 .. a
      <4> DEFINE x == a + 1 - i
                 y == a + 1 - j
      <4>1. x \in 1 .. a /\ y \in 1 .. a /\ r[i] = s[x] /\ r[j] = s[y]
        BY <1>5, <3>1
      <4>2. (x = y) => (i = j)
        BY <1>1
      <4> HIDE DEF x, y, r, a, b
      <4> QED BY ONLY <1>2, <2>1, <4>1, <4>2
    <3>2. CASE i \in a + 1 .. a + b /\ j \in a + 1 .. a + b
      <4> DEFINE x == i - a
                 y == j - a
      <4>1. x \in 1 .. b /\ y \in 1 .. b /\ r[i] = f[x] /\ r[j] = f[y]
        BY <1>5, <3>2
      <4>2. (x = y) => (i = j)
        BY <1>1
      <4> HIDE DEF x, y, r, a, b
      <4> QED BY ONLY <1>3, <2>1, <4>1, <4>2
    <3>3. CASE i \in 1 .. a /\ j \in a + 1 .. a + b
      BY <1>4, <1>5, <2>1, <3>3
    <3>4. CASE i \in a + 1 .. a + b /\ j \in 1 .. a
      BY <1>4, <1>5, <2>1, <3>4
    <3>5. (i \in 1 .. a \/ i \in a + 1 .. a + b) /\ (j \in 1 .. a \/ j \in a + 1 .. a + b)
      BY <1>1
    <3> QED BY <3>1, <3>2, <3>3, <3>4, <3>5
  <2> HIDE DEF r, a, b
  <2> QED BY <1>7, <2>1, ListIndex
<1>9. ToSet(r) = ToSet(s) \cup ToSet(f)
  <2>0. \A x : x \in ToSet(r) <=> \E j \in 1..a + b : r[j] = x
    <3> HIDE DEF r, a, b
    <3>1. \A x : x \in ToSet(r) <=> \E j \in 1..Len(r) : r[j] = x
      BY ONLY <1>7, ListIndex
    <3> QED BY <1>7, <3>1
  <2>1. ASSUME NEW x, x \in ToSet(r) PROVE x \in ToSet(s) \cup ToSet(f)
    <3>1. PICK j \in 1 .. a + b : r[j] = x
      BY <2>0, <2>1
    <3>2. j \in 1 .. a \/ j \in a + 1 .. a + b
      BY <1>1
    <3> QED BY <1>5, <1>a, <3>1, <3>2
  <2>2. ASSUME NEW x, x \in ToSet(s) PROVE x \in ToSet(r)
    <3>1. PICK j \in 1 .. a : s[j] = x
      BY <1>2, <2>2
    <3>2. a + 1 - j \in 1 .. a /\ a + 1 - (a + 1 - j) = j /\ a + 1 - j \in 1 .. a + b
      BY <1>1
    <3>3. r[a + 1 - j] = s[a + 1 - (a + 1 - j)]
      BY <1>5, <3>2
    <3> QED BY <2>0, <3>1, <3>2, <3>3
  <2>3. ASSUME NEW x, x \in ToSet(f) PROVE x \in ToSet(r)
    <3>1. PICK j \in 1 .. b : f[j] = x
      BY <1>3, <2>3
    <3>2. a + j \in a + 1 .. a + b /\ (a + j) - a = j /\ a + j \in 1 .. a + b
      BY <1>1
    <3>3. r[a + j] = f[(a + j) - a]
      BY <1>5, <3>2
    <3> QED BY <2>0, <3>1, <3>2, <3>3
  <2> QED BY <2>1, <2>2, <2>3
<1>10. ASSUME NEW i \in 1 .. a + b PROVE ny[r[i]] = IF i = a + b THEN NULL ELSE r[i + 1]
  <2>1. CASE i \in 1 .. a - 1
    <3>1. a + 1 - i \in 2 .. Len(s) /\ (a + 1 - i) - 1 = a - i /\ i \in 1 .. a
      BY <1>1, <2>1
    <3>2. ny[s[a + 1 - i]] = s[(a + 1 - i) - 1]
      <4> HIDE DEF ny
      <4> QED BY <3>1, PushBack DEF ny
    <3>3. i + 1 \in 1 .. a /\ a + 1 - (i + 1) = a - i /\ i # a + b
      BY <1>1, <2>1
    <3> QED BY <1>5, <3>1, <3>2, <3>3
  <2>2. CASE i = a /\ a # 0
    <3>1. a + 1 - i = 1 /\ 1 \in 1 .. a /\ i \in 1 .. a
      BY <1>1, <2>2
    <3>2. r[i] = s[1] /\ s[1] \in ToSet(s) /\ s[1] \in Node
      BY <1>1, <1>5, <1>a, <3>1
    <3>3. ny[s[1]] = free
      BY <3>2 DEF PushNext
    <3>4. free = IF b = 0 THEN NULL ELSE f[1]
      BY <1>1 DEF Linked
    <3>5. CASE b = 0
      BY <1>1, <2>2, <3>2, <3>3, <3>4, <3>5
    <3>6. CASE b # 0
      <4>1. a + 1 \in a + 1 .. a + b /\ (a + 1) - a = 1 /\ i # a + b
        BY <1>1, <2>2, <3>6
      <4>2. r[a + 1] = f[1]
        BY <1>5, <4>1
      <4> QED BY <2>2, <3>2, <3>3, <3>4, <3>6, <4>1, <4>2
    <3> QED BY <3>5, <3>6
  <2>3. CASE i \in a + 1 .. a + b
    <3>1. r[i] = f[i - a] /\ i - a \in 1 .. b
      BY <1>5, <2>3
    <3>2. ny[f[i - a]] = nx[f[i - a]]
      BY <1>1, <1>a, <3>1 DEF PushNext
    <3>3. nx[f[i - a]] = IF i - a = b THEN NULL ELSE f[(i - a) + 1]
      BY <3>1 DEF Linked
    <3>4. CASE i = a + b
      <4>1. i - a = b
        BY <1>1, <3>4
      <4> QED BY <3>1, <3>2, <3>3, <3>4, <4>1
    <3>5. CASE i # a + b
      <4>1. i - a # b /\ i + 1 \in a + 1 .. a + b /\ (i + 1) - a = (i - a) + 1
        BY <1>1, <2>3, <3>5
      <4>2. r[i + 1] = f[(i + 1) - a]
        BY <1>5, <4>1
      <4> QED BY <3>1, <3>2, <3>3, <3>5, <4>1, <4>2
    <3> QED BY <3>4, <3>5
  <2>4. i \in 1 .. a - 1 \/ (i = a /\ a # 0) \/ i \in a + 1 .. a + b
    BY <1>1
  <2> QED BY <2>1, <2>2, <2>3, <2>4
<1>11. (IF s = << >> THEN free ELSE s[Len(s)]) = IF r = << >> THEN NULL ELSE r[1]
  <2>1. CASE s = << >>
    <3>1. r = << >> <=> b = 0
      BY <1>1, <1>7, <2>1
    <3>2. b # 0 => r[1] = f[1]
      <4>1. b # 0 => 1 \in a + 1 .. a + b /\ 1 - a = 1
        BY <1>1, <2>1
      <4> QED BY <1>5, <4>1
    <3>3. free = IF b = 0 THEN NULL ELSE f[1]
      BY <1>1 DEF Linked
    <3> QED BY <2>1, <3>1, <3>2, <3>3
  <2>2. CASE s # << >>
    <3>1. r # << >> /\ 1 \in 1 .. a /\ a + 1 - 1 = a
      BY <1>1, <1>7, <2>2
    <3>2. r[1] = s[a]
      BY <1>5, <3>1
    <3> QED BY <2>2, <3>1, <3>2
  <2> QED BY <2>1, <2>2
<1> HIDE DEF r, ny
<1>12. Linked(ny, IF s = << >> THEN free ELSE s[Len(s)], r)
  BY <1>7, <1>8, <1>10, <1>11 DEF Linked
<1> QED BY <1>9, <1>12 DEF r, ny

-----------------------------------------------------------------------------
(* Message queue: the inductive invariant.                                 *)

\* The queue holds the nodes qs, each with a message.
QueueIs(qs) ==
    /\ Linked(next, msg_queue_head, qs)
    /\ msg_queue_tail = IF qs = << >> THEN NULL ELSE qs[Len(qs)]
    /\ mq_entry = Len(qs)
    /\ \A n \in ToSet(qs) : body[n] \in Message

\* Every node is in exactly one place: in Q, in F or in the hands m of one thread.
Placed(Q, F, m) ==
    /\ Q \cap F = {}
    /\ \A t \in Thread : m[t] \notin Q \cup F
    /\ \A t, u \in Thread : m[t] = m[u] /\ m[t] # NULL => t = u
    /\ \A n \in Node : n \in Q \cup F \/ \E t \in Thread : m[t] = n

NodesOK(qs, fs) ==
    /\ QueueIs(qs)
    /\ Linked(next, msg_queue_free, fs)
    /\ Placed(ToSet(qs), ToSet(fs), msg)

NodeTypes ==
    /\ next \in [Node -> Node \cup {NULL}]
    /\ body \in [Node -> Message \cup {None}]
    /\ msg \in [Thread -> Node \cup {NULL}]
    /\ request \in [Thread -> [body : Message \cup {None}, urgent : BOOLEAN]]

\* A thread has a node in its hands exactly while it copies a message.
HandsOK ==
    \A t \in Thread :
        /\ msg[t] # NULL <=> pc[t] \in Copying
        /\ pc[t] = "mq_fill" => request[t].body \in Message
        /\ pc[t] = "mq_copy" => body[msg[t]] \in Message

MqInv == NodeTypes /\ HandsOK /\ \E qs, fs : NodesOK(qs, fs)

\* What the clients of the queue see.
Bodies(b, s) == [i \in 1 .. Len(s) |-> b[s[i]]]
MqSeq  == [i \in 1 .. mq_entry |-> body[Chain(msg_queue_head)[i]]]
MqHand == [t \in Thread |-> IF pc[t] = "mq_copy" THEN body[msg[t]] ELSE None]

\* The walk along a list, before and after a step.
LEMMA ChainNow == \A first, s : Linked(next, first, s) => Chain(first) = s
BY ChainIs

\* The same after a step.
LEMMA ChainThen == \A first, s : Linked(next', first, s) => Chain(first)' = s
<1>1. (\A first, s : Linked(next, first, s) => Chain(first) = s)'
  BY ChainNow, PTL
<1> QED BY <1>1

\* The messages in the queue, read from the nodes of its list.
LEMMA SeqIs ==
    ASSUME NEW qs
    PROVE  /\ QueueIs(qs) => MqSeq = Bodies(body, qs) /\ Chain(msg_queue_head) = qs
           /\ QueueIs(qs)' => MqSeq' = Bodies(body', qs) /\ Chain(msg_queue_head)' = qs
<1>1. QueueIs(qs) => MqSeq = Bodies(body, qs) /\ Chain(msg_queue_head) = qs
  BY ChainNow DEF QueueIs, MqSeq, Bodies
<1>2. ASSUME QueueIs(qs)' PROVE MqSeq' = Bodies(body', qs) /\ Chain(msg_queue_head)' = qs
  <2>1. Linked(next', msg_queue_head', qs) /\ mq_entry' = Len(qs)
    BY <1>2 DEF QueueIs
  <2>2. (Chain(msg_queue_head))' = qs
    <3>1. \A first, s : Linked(next', first, s) => Chain(first)' = s
      BY ChainThen
    <3> QED BY <2>1, <3>1
  <2>3. MqSeq' = [i \in 1 .. mq_entry' |-> body'[(Chain(msg_queue_head))'[i]]]
    BY DEF MqSeq
  <2> QED BY <2>1, <2>2, <2>3 DEF Bodies
<1> QED BY <1>1, <1>2

\* The messages of a queue, when a node is added at its end or its front, or the
\* first one is taken.
LEMMA BodiesAppend ==
    ASSUME NEW s \in Seq(Node), NEW n \in Node, NEW b, \A i \in 1 .. Len(s) : b[s[i]] \in Message,
           NEW c, c[n] \in Message, \A i \in 1 .. Len(s) : c[s[i]] = b[s[i]]
    PROVE  Bodies(c, Append(s, n)) = Append(Bodies(b, s), c[n])
<1> DEFINE N == Len(s)
           v == c[n]
           x == [i \in 1 .. N |-> b[s[i]]]
<1>1. N \in Nat /\ v \in Message
  OBVIOUS
<1>2. Len(Append(s, n)) = N + 1 /\ \A i \in 1 .. N + 1 : Append(s, n)[i] = IF i = N + 1 THEN n ELSE s[i]
  OBVIOUS
<1>3. Bodies(c, Append(s, n)) = [i \in 1 .. N + 1 |-> c[Append(s, n)[i]]]
  BY <1>2 DEF Bodies
<1>4. ASSUME NEW i \in 1 .. N + 1 PROVE c[Append(s, n)[i]] = IF i = N + 1 THEN v ELSE b[s[i]]
  <2>1. CASE i = N + 1
    BY <1>2, <2>1
  <2>2. CASE i # N + 1
    <3>1. i \in 1 .. N
      BY <1>1, <2>2
    <3> QED BY <1>2, <2>2, <3>1
  <2> QED BY <2>1, <2>2
<1>5. \A i \in 1 .. N : b[s[i]] \in Message
  OBVIOUS
<1> HIDE DEF N, v
<1>6. Append(x, v) = [i \in 1 .. N + 1 |-> IF i = N + 1 THEN v ELSE b[s[i]]]
  BY <1>1, <1>5
<1>7. Bodies(c, Append(s, n)) = [i \in 1 .. N + 1 |-> IF i = N + 1 THEN v ELSE b[s[i]]]
  BY <1>3, <1>4
<1>8. Bodies(b, s) = x
  BY DEF Bodies, N
<1> QED BY <1>6, <1>7, <1>8 DEF v

\* The same at its front.
LEMMA BodiesPrepend ==
    ASSUME NEW s \in Seq(Node), NEW n \in Node, NEW b, \A i \in 1 .. Len(s) : b[s[i]] \in Message,
           NEW c, c[n] \in Message, \A i \in 1 .. Len(s) : c[s[i]] = b[s[i]]
    PROVE  Bodies(c, <<n>> \o s) = <<c[n]>> \o Bodies(b, s)
<1> DEFINE N == Len(s)
           v == c[n]
           r == <<n>> \o s
           x == Bodies(b, s)
           y == <<v>> \o x
<1>1. N \in Nat /\ v \in Message
  OBVIOUS
<1>2. Len(r) = N + 1 /\ \A i \in 1 .. N + 1 : r[i] = IF i = 1 THEN n ELSE s[i - 1]
  BY ListPrepend
<1>3. x \in Seq(Message) /\ Len(x) = N /\ \A i \in 1 .. N : x[i] = b[s[i]]
  <2>1. x = [i \in 1 .. N |-> b[s[i]]] /\ x \in [1 .. N -> Message]
    BY DEF Bodies
  <2> HIDE DEF x, N
  <2> QED BY <1>1, <2>1
<1> HIDE DEF x, r
<1>4. y \in Seq(Message) /\ Len(y) = N + 1 /\ \A i \in 1 .. N + 1 : y[i] = IF i = 1 THEN v ELSE x[i - 1]
  <2> HIDE DEF N, v
  <2>1. y \in Seq(Message) /\ Len(y) = Len(x) + 1
        /\ \A i \in 1 .. Len(x) + 1 : y[i] = IF i = 1 THEN v ELSE x[i - 1]
    BY ONLY <1>1, <1>3, ListPrepend
  <2> QED BY <1>3, <2>1
<1> HIDE DEF y
<1>5. ASSUME NEW i \in 1 .. N + 1 PROVE c[r[i]] = y[i]
  <2>1. CASE i = 1
    BY <1>1, <1>2, <1>4, <2>1
  <2>2. CASE i # 1
    <3>1. i - 1 \in 1 .. N
      BY <1>1, <2>2
    <3>2. r[i] = s[i - 1] /\ y[i] = x[i - 1]
      BY <1>2, <1>4, <2>2
    <3>3. x[i - 1] = b[s[i - 1]] /\ c[s[i - 1]] = b[s[i - 1]]
      BY <1>3, <3>1
    <3> QED BY <3>2, <3>3
  <2> QED BY <2>1, <2>2
<1>6. y = [i \in 1 .. N + 1 |-> y[i]]
  BY <1>4
<1>7. Bodies(c, r) = [i \in 1 .. N + 1 |-> c[r[i]]]
  BY <1>2 DEF Bodies
<1>8. Bodies(c, r) = y
  BY <1>5, <1>6, <1>7
<1> QED BY <1>8 DEF y, x, r

\* The first one is taken.
LEMMA BodiesTail ==
    ASSUME NEW s \in Seq(Node), s # << >>, NEW b, \A i \in 1 .. Len(s) : b[s[i]] \in Message,
           NEW r \in Seq(Node), Len(r) = Len(s) - 1, \A i \in 1 .. Len(s) - 1 : r[i] = s[i + 1]
    PROVE  TakesFirst(Bodies(b, r), Bodies(b, s), b[s[1]])
<1> DEFINE N == Len(s)
           x == Bodies(b, s)
<1>1. N \in Nat \ {0}
  OBVIOUS
<1>2. x = [i \in 1 .. N |-> b[s[i]]] /\ x \in [1 .. N -> Message]
  BY DEF Bodies
<1> HIDE DEF x
<1>3. x \in Seq(Message) /\ Len(x) = N /\ x # << >> /\ \A i \in 1 .. N : x[i] = b[s[i]]
  <2> HIDE DEF N
  <2>1. x \in Seq(Message) /\ Len(x) = N /\ DOMAIN x = 1 .. N
    BY ONLY <1>1, <1>2
  <2>2. x # << >>
    BY ONLY <1>1, <2>1
  <2> QED BY <1>2, <2>1, <2>2
<1>4. Head(x) = b[s[1]]
  BY <1>1, <1>3
<1>5. Tail(x) = [i \in 1 .. N - 1 |-> x[i + 1]]
  <2> HIDE DEF N
  <2>1. Tail(x) \in Seq(Message) /\ Len(Tail(x)) = N - 1 /\ \A i \in 1 .. N - 1 : Tail(x)[i] = x[i + 1]
    BY ONLY <1>1, <1>3
  <2> DEFINE y == Tail(x)
  <2>2. y \in Seq(Message) /\ Len(y) = N - 1
    BY <2>1
  <2>3. y = [i \in 1 .. N - 1 |-> y[i]]
    <3> HIDE DEF y
    <3>1. y = [i \in 1 .. Len(y) |-> y[i]]
      BY ONLY <2>2
    <3> QED BY ONLY <2>2, <3>1
  <2> QED BY ONLY <2>1, <2>3
<1>6. ASSUME NEW i \in 1 .. N - 1 PROVE x[i + 1] = b[r[i]]
  <2>1. i + 1 \in 1 .. N
    BY <1>1
  <2> QED BY <1>3, <2>1
<1>7. Bodies(b, r) = [i \in 1 .. N - 1 |-> b[r[i]]]
  BY DEF Bodies
<1>8. Bodies(b, r) = Tail(x)
  BY <1>5, <1>6, <1>7
<1> QED BY <1>3, <1>4, <1>8 DEF TakesFirst, x

\* A message with its node is linked.
LEMMA LinkIs ==
    ASSUME NodeTypes, NEW qs, QueueIs(qs), NEW n \in Node \ ToSet(qs), NEW b \in Message,
           NEW urgent, Link(n, b, urgent)
    PROVE  /\ next' \in [Node -> Node \cup {NULL}] /\ body' = [body EXCEPT ![n] = b]
           /\ \A m \in Node \ (ToSet(qs) \cup {n}) : next'[m] = next[m]
           /\ \E rs : /\ QueueIs(rs)' /\ ToSet(rs) = ToSet(qs) \cup {n}
                      /\ \/ Bodies(body', rs) = Append(Bodies(body, qs), b)
                         \/ Bodies(body', rs) = <<b>> \o Bodies(body, qs)
<1>0. /\ qs \in Seq(Node) /\ IsInjective(qs) /\ Len(qs) \in Nat /\ (qs = << >> <=> Len(qs) = 0)
      /\ NULL \notin Node /\ max_msgs \in Nat
      /\ \A i \in 1 .. Len(qs) : qs[i] \in Node
  BY MessageQueueAssumption DEF QueueIs, Linked, NULL, Node
<1>1. \A i \in 1 .. Len(qs) : qs[i] \in ToSet(qs)
  BY <1>0, ListIndex
<1>a. \A i, j \in 1 .. Len(qs) : qs[i] = qs[j] => i = j
  BY <1>0, ListIndex
<1>2. msg_queue_head \in Node \cup {NULL}
  BY <1>0 DEF QueueIs, Linked
<1>3. \A i \in 1 .. Len(qs) : body[qs[i]] \in Message
  BY <1>1 DEF QueueIs
<1>4. body' = [body EXCEPT ![n] = b] /\ mq_entry' = mq_entry + 1
  BY DEF Link, LinkFirst, LinkLast
<1>5. body'[n] = b /\ \A m \in Node \ {n} : body'[m] = body[m]
  BY <1>4 DEF NodeTypes
<1>6. \A i \in 1 .. Len(qs) : body'[qs[i]] = body[qs[i]]
  BY <1>0, <1>1, <1>5
<1>7. \A m \in ToSet(qs) \cup {n} : body'[m] \in Message
  <2>1. \A m \in ToSet(qs) : m \in Node /\ m # n
    BY <1>0 DEF ToSet
  <2> QED BY <1>5, <2>1 DEF QueueIs
<1>8. CASE urgent
  <2> DEFINE rs == <<n>> \o qs
  <2>1. /\ next' = [next EXCEPT ![n] = msg_queue_head] /\ msg_queue_head' = n
        /\ msg_queue_tail' = IF msg_queue_tail = NULL THEN n ELSE msg_queue_tail
    BY <1>8 DEF Link, LinkFirst
  <2>2. /\ next' \in [Node -> Node \cup {NULL}]
        /\ next'[n] = msg_queue_head
        /\ \A m \in Node \ {n} : next'[m] = next[m]
    BY <1>2, <2>1 DEF NodeTypes
  <2>3. \A m \in ToSet(qs) : next'[m] = next[m]
    <3>1. ToSet(qs) \subseteq Node \ {n}
      BY <1>0 DEF ToSet
    <3> QED BY <2>2, <3>1
  <2>4. /\ Linked(next', n, rs) /\ ToSet(rs) = ToSet(qs) \cup {n}
        /\ rs # << >> /\ Len(rs) = Len(qs) + 1
        /\ \A j \in 1 .. Len(qs) + 1 : rs[j] = IF j = 1 THEN n ELSE qs[j - 1]
    <3>1. Linked(next, msg_queue_head, qs)
      BY DEF QueueIs
    <3> QED BY ONLY <2>2, <2>3, <3>1, n \in Node \ ToSet(qs), LinkedPush
  <2>5. msg_queue_tail' = rs[Len(rs)]
    <3> HIDE DEF rs
    <3>1. CASE qs = << >>
      <4>1. msg_queue_tail = NULL /\ Len(rs) = 1 /\ rs[1] = n
        BY <1>0, <2>4, <3>1 DEF QueueIs
      <4> QED BY <2>1, <4>1
    <3>2. CASE qs # << >>
      <4>1. Len(qs) \in 1 .. Len(qs) /\ Len(rs) = Len(qs) + 1 /\ Len(rs) # 1 /\ Len(rs) - 1 = Len(qs)
            /\ Len(rs) \in 1 .. Len(qs) + 1
        BY <1>0, <2>4, <3>2
      <4>2. rs[Len(rs)] = qs[Len(qs)]
        BY <2>4, <4>1
      <4>3. msg_queue_tail = qs[Len(qs)] /\ qs[Len(qs)] # NULL
        BY <1>0, <3>2, <4>1 DEF QueueIs
      <4> QED BY <2>1, <4>2, <4>3
    <3> QED BY <3>1, <3>2
  <2>6. Bodies(body', rs) = <<b>> \o Bodies(body, qs)
    <3>1. body'[n] \in Message
      BY <1>5
    <3>2. Bodies(body', rs) = <<body'[n]>> \o Bodies(body, qs)
      BY ONLY <1>0, <1>3, <1>6, <3>1, n \in Node, BodiesPrepend
    <3> QED BY <1>5, <3>2
  <2> HIDE DEF rs
  <2>7. mq_entry' = Len(rs)
    BY <1>4, <2>4 DEF QueueIs
  <2>8. QueueIs(rs)'
    BY <1>7, <2>1, <2>4, <2>5, <2>7 DEF QueueIs
  <2> QED BY <1>4, <2>2, <2>4, <2>6, <2>8
<1>9. CASE ~urgent
  <2> DEFINE rs == Append(qs, n)
  <2>1. /\ next' = [m \in Node |-> IF m = n THEN NULL
                                   ELSE IF m = msg_queue_tail THEN n ELSE next[m]]
        /\ msg_queue_tail' = n
        /\ msg_queue_head' = IF msg_queue_head = NULL THEN n ELSE msg_queue_head
    BY <1>9 DEF Link, LinkLast
  <2>2. next' \in [Node -> Node \cup {NULL}] /\ next'[n] = NULL
    BY <2>1 DEF NodeTypes
  <2>3. ASSUME NEW i \in 1 .. Len(qs)
        PROVE  next'[qs[i]] = IF i = Len(qs) THEN n ELSE next[qs[i]]
    <3>1. msg_queue_tail = qs[Len(qs)] /\ Len(qs) \in 1 .. Len(qs)
      BY <1>0 DEF QueueIs
    <3>2. qs[i] # n /\ qs[i] \in Node /\ (qs[i] = qs[Len(qs)] <=> i = Len(qs))
      BY <1>0, <1>1, <1>a, <3>1
    <3> QED BY <2>1, <3>1, <3>2
  <2>4. /\ Linked(next', IF msg_queue_head = NULL THEN n ELSE msg_queue_head, rs)
        /\ ToSet(rs) = ToSet(qs) \cup {n}
        /\ rs # << >> /\ Len(rs) = Len(qs) + 1
        /\ \A j \in 1 .. Len(qs) + 1 : rs[j] = IF j = Len(qs) + 1 THEN n ELSE qs[j]
    <3>1. Linked(next, msg_queue_head, qs)
      BY DEF QueueIs
    <3> QED BY ONLY <2>2, <2>3, <3>1, n \in Node \ ToSet(qs), LinkedAppend
  <2>5. msg_queue_tail' = rs[Len(rs)]
    BY <1>0, <2>1, <2>4
  <2>6. Bodies(body', rs) = Append(Bodies(body, qs), b)
    <3>1. body'[n] \in Message
      BY <1>5
    <3>2. Bodies(body', rs) = Append(Bodies(body, qs), body'[n])
      BY ONLY <1>0, <1>3, <1>6, <3>1, n \in Node, BodiesAppend
    <3> QED BY <1>5, <3>2
  <2> HIDE DEF rs
  <2>7. mq_entry' = Len(rs)
    BY <1>4, <2>4 DEF QueueIs
  <2>8. QueueIs(rs)'
    BY <1>7, <2>1, <2>4, <2>5, <2>7 DEF QueueIs
  <2>9. \A m \in Node \ (ToSet(qs) \cup {n}) : next'[m] = next[m]
    <3>1. msg_queue_tail \in ToSet(qs) \cup {NULL}
      BY <1>0, <1>1 DEF QueueIs
    <3> QED BY <1>0, <2>1, <3>1
  <2> QED BY <1>4, <2>2, <2>4, <2>6, <2>8, <2>9
<1> QED BY <1>8, <1>9

\* Nodes that change places.
LEMMA PlacedMoves ==
    ASSUME NEW Q \in SUBSET Node, NEW F \in SUBSET Node, NEW m \in [Thread -> Node \cup {NULL}],
           Placed(Q, F, m)
    PROVE  /\ Placed(F, Q, m)
           /\ Placed({}, Q \cup F, m)
           /\ \A n \in F : Placed(Q \cup {n}, F \ {n}, m)
           /\ \A n \in F, t \in Thread : m[t] = NULL => Placed(Q, F \ {n}, [m EXCEPT ![t] = n])
           /\ \A t \in Thread : m[t] # NULL => Placed(Q \cup {m[t]}, F, [m EXCEPT ![t] = NULL])
<1>0. NULL \notin Node
  BY MessageQueueAssumption DEF Node, NULL
<1>1. Placed(F, Q, m)
  BY DEF Placed
<1>2. Placed({}, Q \cup F, m)
  BY DEF Placed
<1>3. ASSUME NEW n \in F PROVE Placed(Q \cup {n}, F \ {n}, m)
  BY DEF Placed
<1>4. ASSUME NEW n \in F, NEW t \in Thread, m[t] = NULL PROVE Placed(Q, F \ {n}, [m EXCEPT ![t] = n])
  <2> DEFINE l == [m EXCEPT ![t] = n]
  <2>1. l[t] = n /\ \A u \in Thread \ {t} : l[u] = m[u]
    OBVIOUS
  <2> HIDE DEF l
  <2>2. n \in Node /\ n # NULL /\ n \notin Q
    BY <1>0 DEF Placed
  <2>3. \A u \in Thread : l[u] \notin Q \cup (F \ {n})
    BY <2>1, <2>2 DEF Placed
  <2>4. \A u \in Thread : m[u] # n
    BY DEF Placed
  <2>5. \A u, v \in Thread : l[u] = l[v] /\ l[u] # NULL => u = v
    BY <2>1, <2>4 DEF Placed
  <2>6. ASSUME NEW x \in Node PROVE x \in Q \cup (F \ {n}) \/ \E u \in Thread : l[u] = x
    <3>1. CASE x = n
      BY <2>1, <3>1
    <3>2. CASE x # n /\ x \in Q \cup F
      BY <3>2
    <3>3. ASSUME NEW u \in Thread, m[u] = x PROVE \E v \in Thread : l[v] = x
      <4>1. u # t
        BY <1>0, <1>4, <3>3
      <4> QED BY <2>1, <3>3, <4>1
    <3> QED BY <3>1, <3>2, <3>3 DEF Placed
  <2>7. Q \cap (F \ {n}) = {}
    BY DEF Placed
  <2> QED BY <2>3, <2>5, <2>6, <2>7 DEF Placed, l
<1>5. ASSUME NEW t \in Thread, m[t] # NULL
      PROVE  Placed(Q \cup {m[t]}, F, [m EXCEPT ![t] = NULL])
  <2> DEFINE l == [m EXCEPT ![t] = NULL]
             n == m[t]
  <2>1. l[t] = NULL /\ \A u \in Thread \ {t} : l[u] = m[u]
    OBVIOUS
  <2>2. n \in Node /\ n # NULL /\ n \notin Q /\ n \notin F /\ m[t] = n
    BY <1>5 DEF Placed
  <2> HIDE DEF l, n
  <2>3. \A u \in Thread \ {t} : m[u] # n
    BY <2>2 DEF Placed
  <2>4. \A u \in Thread : l[u] \notin (Q \cup {n}) \cup F
    BY <1>0, <2>1, <2>2, <2>3 DEF Placed
  <2>5. \A u, v \in Thread : l[u] = l[v] /\ l[u] # NULL => u = v
    BY <2>1 DEF Placed
  <2>6. ASSUME NEW x \in Node PROVE x \in (Q \cup {n}) \cup F \/ \E u \in Thread : l[u] = x
    <3>1. CASE x \in (Q \cup {n}) \cup F
      BY <3>1
    <3>2. ASSUME NEW u \in Thread, m[u] = x, x # n PROVE \E v \in Thread : l[v] = x
      BY <2>1, <2>2, <3>2
    <3> QED BY <3>1, <3>2 DEF Placed
  <2>7. (Q \cup {n}) \cap F = {}
    BY <2>2 DEF Placed
  <2> QED BY <2>4, <2>5, <2>6, <2>7 DEF Placed, l, n
<1> QED BY <1>1, <1>2, <1>3, <1>4, <1>5

\* A step of the system on the queue, as its clients see it.
OrderStep == MessageOrder!Next \/ UNCHANGED <<MqSeq, MqHand>>

\* What the invariant says of the lists, with their types.
LEMMA NodesFacts ==
    ASSUME NEW qs, NEW fs, NodesOK(qs, fs)
    PROVE  /\ QueueIs(qs) /\ Linked(next, msg_queue_head, qs) /\ Linked(next, msg_queue_free, fs)
           /\ Placed(ToSet(qs), ToSet(fs), msg)
           /\ qs \in Seq(Node) /\ fs \in Seq(Node)
           /\ ToSet(qs) \in SUBSET Node /\ ToSet(fs) \in SUBSET Node
           /\ MqSeq = Bodies(body, qs)
<1>1. /\ QueueIs(qs) /\ Linked(next, msg_queue_head, qs) /\ Linked(next, msg_queue_free, fs)
      /\ Placed(ToSet(qs), ToSet(fs), msg)
  BY DEF NodesOK, QueueIs
<1>2. qs \in Seq(Node) /\ fs \in Seq(Node)
  BY <1>1 DEF Linked
<1>3. ToSet(qs) \in SUBSET Node /\ ToSet(fs) \in SUBSET Node
  BY <1>2 DEF ToSet
<1> QED BY <1>1, <1>2, <1>3, SeqIs

\* rt_mq_send takes a node off the free list.
LEMMA TakesNode ==
    ASSUME NodeTypes, HandsOK, pc \in [Thread -> Pcs], NEW qs, NEW fs, NodesOK(qs, fs),
           NEW t \in Thread, pc[t] = "run", NEW b \in Message, NEW urgent \in BOOLEAN,
           msg_queue_free # NULL, msg_queue_free' = next[msg_queue_free],
           msg' = [msg EXCEPT ![t] = msg_queue_free],
           request' = [request EXCEPT ![t] = [body |-> b, urgent |-> urgent]],
           Goto(t, "mq_fill"),
           UNCHANGED <<next, body, msg_queue_head, msg_queue_tail, mq_entry>>
    PROVE  MqInv' /\ UNCHANGED <<MqSeq, MqHand>>
<1>0. /\ QueueIs(qs) /\ Linked(next, msg_queue_head, qs) /\ Linked(next, msg_queue_free, fs)
      /\ Placed(ToSet(qs), ToSet(fs), msg)
      /\ ToSet(qs) \in SUBSET Node /\ ToSet(fs) \in SUBSET Node
      /\ MqSeq = Bodies(body, qs)
  BY NodesFacts
<1>1. /\ msg_queue_free \in ToSet(fs) /\ msg_queue_free \in Node
      /\ Linked(next, next[msg_queue_free], Tail(fs))
      /\ ToSet(Tail(fs)) = ToSet(fs) \ {msg_queue_free}
  BY <1>0, LinkedPop
<1>2. msg[t] = NULL
  BY DEF HandsOK, Copying
<1>3. Placed(ToSet(qs), ToSet(fs) \ {msg_queue_free}, msg')
  BY <1>0, <1>1, <1>2, PlacedMoves DEF NodeTypes
<1>4. QueueIs(qs)'
  BY <1>0 DEF QueueIs
<1>5. NodesOK(qs, Tail(fs))'
  BY <1>1, <1>3, <1>4 DEF NodesOK
<1>6. /\ pc'[t] = "mq_fill" /\ msg'[t] = msg_queue_free /\ request'[t].body = b
      /\ \A u \in Thread \ {t} : pc'[u] = pc[u] /\ msg'[u] = msg[u] /\ request'[u] = request[u]
  BY DEF Goto, NodeTypes
<1>7. NodeTypes'
  BY <1>1 DEF NodeTypes
<1>8. msg_queue_free # NULL
  OBVIOUS
<1>9. HandsOK'
  BY <1>6 DEF HandsOK, Copying
<1>10. MqSeq' = MqSeq
  BY <1>0, <1>4, SeqIs
<1>11. MqHand' = MqHand
  BY <1>6 DEF MqHand
<1> QED BY <1>5, <1>7, <1>9, <1>10, <1>11 DEF MqInv

\* A node in the hands of t is linked, a node of the free list by a handler.
LEMMA LinksNode ==
    ASSUME NodeTypes, HandsOK, pc \in [Thread -> Pcs], NEW qs, NEW fs, NodesOK(qs, fs),
           NEW n, NEW b \in Message, NEW urgent, Link(n, b, urgent),
           \/ /\ \E t \in Thread : /\ pc[t] = "mq_fill" /\ n = msg[t] /\ pc' = [pc EXCEPT ![t] = pc'[t]]
                                   /\ pc'[t] \notin Copying
                                   /\ msg' = [msg EXCEPT ![t] = NULL]
                                   /\ request' = [request EXCEPT ![t] = NoRequest]
              /\ UNCHANGED msg_queue_free
           \/ /\ msg_queue_free # NULL /\ n = msg_queue_free
              /\ msg_queue_free' = next[msg_queue_free]
              /\ UNCHANGED <<msg, request, pc>>
    PROVE  MqInv' /\ (MessageOrder!Put(b) \/ MessageOrder!PutFirst(b))
<1>0. /\ QueueIs(qs) /\ Linked(next, msg_queue_head, qs) /\ Linked(next, msg_queue_free, fs)
      /\ Placed(ToSet(qs), ToSet(fs), msg)
      /\ ToSet(qs) \in SUBSET Node /\ ToSet(fs) \in SUBSET Node
      /\ MqSeq = Bodies(body, qs) /\ qs \in Seq(Node)
  BY NodesFacts
<1>00. NULL \notin Node /\ max_msgs \in Nat
  BY MessageQueueAssumption DEF Node, NULL
<1>1. n \in Node \ ToSet(qs)
  <2>1. CASE \E t \in Thread : pc[t] = "mq_fill" /\ n = msg[t]
    <3>1. PICK t \in Thread : pc[t] = "mq_fill" /\ n = msg[t]
      BY <2>1
    <3>2. msg[t] # NULL /\ msg[t] \in Node \cup {NULL}
      BY <3>1 DEF HandsOK, Copying, NodeTypes
    <3> QED BY <1>0, <3>1, <3>2 DEF Placed
  <2>2. CASE msg_queue_free # NULL /\ n = msg_queue_free
    <3>1. msg_queue_free \in ToSet(fs) /\ msg_queue_free \in Node
      BY <1>0, <2>2, LinkedPop
    <3> QED BY <1>0, <2>2, <3>1 DEF Placed
  <2> QED BY <2>1, <2>2
<1>2. /\ next' \in [Node -> Node \cup {NULL}] /\ body' = [body EXCEPT ![n] = b]
      /\ \A m \in Node \ (ToSet(qs) \cup {n}) : next'[m] = next[m]
      /\ \E rs : /\ QueueIs(rs)' /\ ToSet(rs) = ToSet(qs) \cup {n}
                 /\ \/ Bodies(body', rs) = Append(Bodies(body, qs), b)
                    \/ Bodies(body', rs) = <<b>> \o Bodies(body, qs)
  BY ONLY NodeTypes, <1>0, <1>1, b \in Message, Link(n, b, urgent), LinkIs
<1>3. PICK rs : /\ QueueIs(rs)' /\ ToSet(rs) = ToSet(qs) \cup {n}
                /\ \/ Bodies(body', rs) = Append(Bodies(body, qs), b)
                   \/ Bodies(body', rs) = <<b>> \o Bodies(body, qs)
  BY <1>2
<1>4. body' \in [Node -> Message \cup {None}] /\ \A m \in Node \ {n} : body'[m] = body[m]
  BY <1>1, <1>2 DEF NodeTypes
<1>5. ASSUME NEW gs, NEW m, Linked(next, m, gs), ToSet(gs) \subseteq ToSet(fs) \ {n}
      PROVE  Linked(next', m, gs)
  <2>1. \A x \in ToSet(gs) : next'[x] = next[x]
    BY <1>0, <1>2, <1>5 DEF Placed
  <2> QED BY <1>5, <2>1, LinkedKeep
<1>6. NodeTypes' /\ HandsOK' /\ (\E gs : NodesOK(rs, gs)') /\ MqHand' = MqHand
  <2>1. ASSUME NEW t \in Thread, pc[t] = "mq_fill", n = msg[t], pc' = [pc EXCEPT ![t] = pc'[t]],
               pc'[t] \notin Copying, msg' = [msg EXCEPT ![t] = NULL],
               request' = [request EXCEPT ![t] = NoRequest], UNCHANGED msg_queue_free
        PROVE  NodeTypes' /\ HandsOK' /\ NodesOK(rs, fs)' /\ MqHand' = MqHand
    <3>1. msg[t] # NULL /\ n \notin ToSet(fs)
      BY <1>0, <1>00, <1>1, <2>1 DEF Placed
    <3>2. Placed(ToSet(qs) \cup {n}, ToSet(fs), msg')
      BY <1>0, <2>1, <3>1, PlacedMoves DEF NodeTypes
    <3>3. Linked(next', msg_queue_free, fs)
      BY <1>0, <1>5, <3>1
    <3>4. NodesOK(rs, fs)'
      BY <1>3, <2>1, <3>2, <3>3 DEF NodesOK
    <3>5. NodeTypes'
      BY <1>2, <1>4, <2>1 DEF NodeTypes, NoRequest
    <3>6. /\ msg'[t] = NULL
          /\ \A u \in Thread \ {t} : pc'[u] = pc[u] /\ msg'[u] = msg[u] /\ request'[u] = request[u]
      BY <2>1 DEF NodeTypes
    <3>7. ASSUME NEW u \in Thread \ {t}, pc[u] = "mq_copy" PROVE body'[msg[u]] = body[msg[u]]
      <4>1. msg[u] # NULL /\ msg[u] # n /\ msg[u] \in Node
        BY <1>0, <2>1, <3>1, <3>7 DEF HandsOK, Copying, Placed, NodeTypes
      <4> QED BY <1>4, <4>1
    <3>8. HandsOK'
      BY <2>1, <3>6, <3>7 DEF HandsOK, Copying
    <3>9. MqHand' = MqHand
      BY <2>1, <3>6, <3>7 DEF MqHand, Copying
    <3> QED BY <3>4, <3>5, <3>8, <3>9
  <2>2. ASSUME msg_queue_free # NULL, n = msg_queue_free,
               msg_queue_free' = next[msg_queue_free], UNCHANGED <<msg, request, pc>>
        PROVE  NodeTypes' /\ HandsOK' /\ NodesOK(rs, Tail(fs))' /\ MqHand' = MqHand
    <3>1. /\ n \in ToSet(fs) /\ Linked(next, next[n], Tail(fs)) /\ ToSet(Tail(fs)) = ToSet(fs) \ {n}
      BY <1>0, <2>2, LinkedPop
    <3>2. Placed(ToSet(qs) \cup {n}, ToSet(fs) \ {n}, msg')
      BY <1>0, <2>2, <3>1, PlacedMoves DEF NodeTypes
    <3>3. Linked(next', next[n], Tail(fs))
      BY <1>5, <3>1
    <3>4. NodesOK(rs, Tail(fs))'
      BY <1>3, <2>2, <3>1, <3>2, <3>3 DEF NodesOK
    <3>5. NodeTypes'
      BY <1>2, <1>4, <2>2 DEF NodeTypes
    <3>7. ASSUME NEW u \in Thread, pc[u] = "mq_copy" PROVE body'[msg[u]] = body[msg[u]]
      <4>1. msg[u] # NULL /\ msg[u] # n /\ msg[u] \in Node
        BY <1>0, <3>1, <3>7 DEF HandsOK, Copying, Placed, NodeTypes
      <4> QED BY <1>4, <4>1
    <3>8. HandsOK'
      BY <2>2, <3>7 DEF HandsOK
    <3>9. MqHand' = MqHand
      BY <2>2, <3>7 DEF MqHand
    <3> QED BY <3>4, <3>5, <3>8, <3>9
  <2> QED BY <2>1, <2>2
<1>7. MqSeq' = Bodies(body', rs)
  BY <1>3, SeqIs
<1>8. Len(MqSeq) < max_msgs
  <2>1. Len(rs) \in 0 .. max_msgs /\ mq_entry' = Len(rs) /\ mq_entry' = mq_entry + 1 /\ mq_entry = Len(qs)
    BY <1>0, <1>3, LinkedLength DEF QueueIs, Link, LinkFirst, LinkLast
  <2>2. Len(MqSeq) = Len(qs)
    <3>1. Bodies(body, qs) = [i \in 1 .. Len(qs) |-> body[qs[i]]] /\ Len(qs) \in Nat
      BY <1>0 DEF Bodies
    <3> QED BY <1>0, <3>1
  <2>3. Len(qs) \in Nat
    BY <1>0
  <2> QED BY <1>00, <2>1, <2>2, <2>3
<1>9. MqInv'
  BY <1>6 DEF MqInv
<1>10. \/ MqSeq' = Append(MqSeq, b)
       \/ MqSeq' = <<b>> \o MqSeq
  BY <1>0, <1>3, <1>7
<1>11. MqHand' = MqHand
  BY <1>6
<1> QED BY <1>8, <1>9, <1>10, <1>11 DEF MessageOrder!Put, MessageOrder!PutFirst, MqSeq, MqHand

\* rt_mq_recv takes the first node off the queue.
LEMMA UnlinksNode ==
    ASSUME NodeTypes, HandsOK, pc \in [Thread -> Pcs], NEW qs, NEW fs, NodesOK(qs, fs),
           NEW t \in Thread, pc[t] \notin Copying, Unlink(t), Goto(t, "mq_copy")
    PROVE  MqInv' /\ MessageOrder!Get(t) /\ mq_entry \in Int
<1>0. /\ QueueIs(qs) /\ Linked(next, msg_queue_head, qs) /\ Linked(next, msg_queue_free, fs)
      /\ Placed(ToSet(qs), ToSet(fs), msg)
      /\ ToSet(qs) \in SUBSET Node /\ ToSet(fs) \in SUBSET Node
      /\ MqSeq = Bodies(body, qs) /\ qs \in Seq(Node)
  BY NodesFacts
<1>00. NULL \notin Node
  BY MessageQueueAssumption DEF Node, NULL
<1> DEFINE h == msg_queue_head
           rs == Tail(qs)
<1>1. /\ mq_entry # 0 /\ msg' = [msg EXCEPT ![t] = h] /\ msg_queue_head' = next[h]
      /\ msg_queue_tail' = IF msg_queue_tail = h THEN NULL ELSE msg_queue_tail
      /\ mq_entry' = mq_entry - 1 /\ UNCHANGED <<next, body, msg_queue_free, request>>
  BY DEF Unlink
<1>2. Len(qs) \in Nat \ {0} /\ mq_entry = Len(qs) /\ qs # << >>
  BY <1>0, <1>1 DEF QueueIs
<1>3. h \in Node
  <2>1. h = qs[1]
    BY <1>0, <1>2 DEF Linked
  <2> QED BY <1>0, <1>2, <2>1
<1>4. /\ h = qs[1] /\ h \in ToSet(qs)
      /\ Linked(next, next[h], rs)
      /\ ToSet(rs) = ToSet(qs) \ {h}
      /\ Len(rs) = Len(qs) - 1
      /\ \A j \in 1 .. Len(qs) - 1 : rs[j] = qs[j + 1]
  <2>1. h # NULL /\ Linked(next, h, qs)
    BY <1>0, <1>00, <1>3
  <2> HIDE DEF h
  <2> QED BY ONLY <2>1, LinkedPop
<1>5. \A i, j \in 1 .. Len(qs) : qs[i] = qs[j] => i = j
  <2>1. IsInjective(qs)
    BY <1>0 DEF Linked
  <2> QED BY <1>0, <2>1, ListIndex
<1>6. msg_queue_tail' = IF rs = << >> THEN NULL ELSE rs[Len(rs)]
  <2>1. msg_queue_tail = qs[Len(qs)]
    BY <1>0, <1>2 DEF QueueIs
  <2>2. rs \in Seq(Node) /\ (rs = << >> <=> Len(qs) = 1)
    <3>1. rs \in Seq(Node)
      BY <1>4 DEF Linked
    <3> HIDE DEF rs
    <3> QED BY <1>2, <1>4, <3>1
  <2>3. CASE Len(qs) = 1
    BY <1>1, <1>4, <2>1, <2>2, <2>3
  <2>4. CASE Len(qs) # 1
    <3>1. Len(qs) \in 1 .. Len(qs) /\ 1 \in 1 .. Len(qs) /\ Len(rs) \in 1 .. Len(qs) - 1 /\ Len(rs) + 1 = Len(qs)
      BY <1>2, <1>4, <2>4
    <3>2. qs[Len(qs)] # h
      BY <1>4, <1>5, <2>4, <3>1
    <3>3. rs[Len(rs)] = qs[Len(rs) + 1]
      BY <1>4, <3>1
    <3> QED BY <1>1, <2>1, <2>2, <2>4, <3>1, <3>2, <3>3
  <2> QED BY <2>3, <2>4
<1>7. QueueIs(rs)'
  <2>1. mq_entry' = Len(rs)
    BY <1>1, <1>2, <1>4
  <2>2. \A n \in ToSet(rs) : body'[n] \in Message
    BY <1>0, <1>1, <1>4 DEF QueueIs
  <2>3. Linked(next', msg_queue_head', rs)
    BY <1>1, <1>4
  <2> HIDE DEF rs
  <2> QED BY <1>6, <2>1, <2>2, <2>3 DEF QueueIs
<1>8. msg[t] = NULL
  BY DEF HandsOK
<1>9. Placed(ToSet(rs), ToSet(fs), msg')
  <2> HIDE DEF h, rs
  <2>1. Placed(ToSet(fs), ToSet(qs), msg)
    BY <1>0, PlacedMoves DEF NodeTypes
  <2>2. Placed(ToSet(fs), ToSet(qs) \ {h}, msg')
    BY <1>0, <1>1, <1>4, <1>8, <2>1, PlacedMoves DEF NodeTypes
  <2>3. Placed(ToSet(rs), ToSet(fs), msg')
    BY <1>4, <2>2 DEF Placed
  <2> QED BY <2>3
<1>10. NodesOK(rs, fs)'
  BY <1>0, <1>1, <1>7, <1>9 DEF NodesOK
<1>11. NodeTypes'
  BY <1>1, <1>3 DEF NodeTypes
<1>12. /\ pc'[t] = "mq_copy" /\ msg'[t] = h
       /\ \A u \in Thread \ {t} : pc'[u] = pc[u] /\ msg'[u] = msg[u]
  BY <1>1 DEF Goto, NodeTypes
<1>13. body[h] \in Message
  BY <1>0, <1>4 DEF QueueIs
<1>14. HandsOK'
  BY <1>1, <1>3, <1>00, <1>12, <1>13 DEF HandsOK, Copying
<1>15. TakesFirst(MqSeq', MqSeq, body[h])
  <2>1. MqSeq' = Bodies(body', rs)
    BY <1>7, SeqIs
  <2>2. \A i \in 1 .. Len(qs) : body[qs[i]] \in Message
    <3>1. \A i \in 1 .. Len(qs) : qs[i] \in ToSet(qs)
      BY <1>0, ListIndex
    <3> QED BY <1>0, <3>1 DEF QueueIs
  <2>3. rs \in Seq(Node)
    BY <1>4 DEF Linked
  <2> HIDE DEF rs, h
  <2>4. TakesFirst(Bodies(body, rs), Bodies(body, qs), body[qs[1]])
    BY ONLY <1>0, <1>2, <1>4, <2>2, <2>3, BodiesTail
  <2> QED BY <1>0, <1>1, <1>4, <2>1, <2>4
<1>16. MqHand[t] = None /\ MqHand' = [MqHand EXCEPT ![t] = body[h]]
  <2>1. \A u \in Thread : MqHand'[u] = IF u = t THEN body[h] ELSE MqHand[u]
    BY <1>1, <1>12 DEF MqHand
  <2>2. MqHand' = [u \in Thread |-> MqHand'[u]] /\ MqHand = [u \in Thread |-> MqHand[u]]
    BY DEF MqHand
  <2>3. MqHand[t] = None
    BY DEF MqHand, Copying
  <2> QED BY <2>1, <2>2, <2>3
<1>17. MqInv'
  BY <1>10, <1>11, <1>14 DEF MqInv
<1>18. mq_entry \in Int
  BY <1>2
<1> QED BY <1>15, <1>16, <1>17, <1>18 DEF MessageOrder!Get, MqSeq, MqHand, TakesFirst

\* rt_mq_recv gives the node back.
LEMMA ReturnsNode ==
    ASSUME NodeTypes, HandsOK, pc \in [Thread -> Pcs], NEW qs, NEW fs, NodesOK(qs, fs),
           NEW t \in Thread, MqGiveBack(t)
    PROVE  MqInv' /\ MessageOrder!Use(t)
<1>0. /\ QueueIs(qs) /\ Linked(next, msg_queue_head, qs) /\ Linked(next, msg_queue_free, fs)
      /\ Placed(ToSet(qs), ToSet(fs), msg)
      /\ ToSet(qs) \in SUBSET Node /\ ToSet(fs) \in SUBSET Node
      /\ MqSeq = Bodies(body, qs) /\ qs \in Seq(Node)
  BY NodesFacts
<1>00. NULL \notin Node /\ None \notin Message
  BY MessageQueueAssumption DEF Node, NULL
<1> DEFINE n == msg[t]
<1>1. /\ pc[t] = "mq_copy" /\ body' = [body EXCEPT ![n] = None]
      /\ next' = [next EXCEPT ![n] = msg_queue_free] /\ msg_queue_free' = n
      /\ msg' = [msg EXCEPT ![t] = NULL] /\ pc' = [pc EXCEPT ![t] = "run"]
      /\ UNCHANGED <<msg_queue_head, msg_queue_tail, mq_entry, request>>
  BY DEF MqGiveBack, At, Goto
<1>2. msg[t] = n /\ n # NULL /\ n \in Node /\ n \notin ToSet(qs) /\ n \notin ToSet(fs) /\ body[n] \in Message
  BY <1>0, <1>1 DEF HandsOK, Copying, NodeTypes, Placed
<1> HIDE DEF n
<1>3. /\ body'[n] = None /\ \A m \in Node \ {n} : body'[m] = body[m]
      /\ next'[n] = msg_queue_free /\ \A m \in Node \ {n} : next'[m] = next[m]
      /\ msg'[t] = NULL /\ pc'[t] = "run"
      /\ \A u \in Thread \ {t} : pc'[u] = pc[u] /\ msg'[u] = msg[u]
  BY <1>1, <1>2 DEF NodeTypes
<1>4. \A m \in ToSet(qs) \cup ToSet(fs) : next'[m] = next[m] /\ body'[m] = body[m]
  BY <1>0, <1>2, <1>3
<1>5. PICK gs : Linked(next', n, gs) /\ ToSet(gs) = ToSet(fs) \cup {n}
  <2>1. n \in Node \ ToSet(fs) /\ \A m \in ToSet(fs) : next'[m] = next[m]
    BY <1>2, <1>4
  <2>2. Linked(next', n, <<n>> \o fs) /\ ToSet(<<n>> \o fs) = ToSet(fs) \cup {n}
    BY ONLY <1>0, <1>3, <2>1, LinkedPush
  <2> QED BY ONLY <2>2
<1>6. QueueIs(qs)'
  <2>1. Linked(next', msg_queue_head, qs)
    BY <1>0, <1>4, LinkedKeep
  <2> QED BY <1>0, <1>1, <1>4, <2>1 DEF QueueIs
<1>7. Placed(ToSet(qs), ToSet(fs) \cup {n}, msg')
  <2>1. Placed(ToSet(fs), ToSet(qs), msg)
    BY <1>0, PlacedMoves DEF NodeTypes
  <2>2. Placed(ToSet(fs) \cup {msg[t]}, ToSet(qs), [msg EXCEPT ![t] = NULL])
    BY <1>0, <1>2, <2>1, PlacedMoves DEF NodeTypes
  <2>3. Placed(ToSet(fs) \cup {n}, ToSet(qs), msg')
    BY <1>1, <1>2, <2>2
  <2> QED BY <2>3 DEF Placed
<1>8. NodesOK(qs, gs)'
  BY <1>1, <1>5, <1>6, <1>7 DEF NodesOK
<1>9. NodeTypes'
  <2>1. msg_queue_free \in Node \cup {NULL}
    BY <1>0 DEF Linked
  <2> QED BY <1>1, <1>2, <2>1 DEF NodeTypes
<1>10. ASSUME NEW u \in Thread \ {t}, pc[u] = "mq_copy" PROVE body'[msg[u]] = body[msg[u]]
  <2>1. msg[u] # NULL /\ msg[u] # n /\ msg[u] \in Node
    BY <1>0, <1>2, <1>10 DEF HandsOK, Copying, Placed, NodeTypes
  <2> QED BY <1>3, <2>1
<1>11. HandsOK'
  BY <1>1, <1>3, <1>10 DEF HandsOK, Copying
<1>12. MqHand[t] # None /\ MqHand' = [MqHand EXCEPT ![t] = None]
  <2>1. \A u \in Thread : MqHand'[u] = IF u = t THEN None ELSE MqHand[u]
    BY <1>3, <1>10 DEF MqHand
  <2>2. MqHand' = [u \in Thread |-> MqHand'[u]] /\ MqHand = [u \in Thread |-> MqHand[u]]
    BY DEF MqHand
  <2>3. MqHand[t] # None
    BY <1>00, <1>1, <1>2 DEF MqHand
  <2> QED BY <2>1, <2>2, <2>3
<1>13. MqSeq' = MqSeq
  <2>1. MqSeq' = Bodies(body', qs)
    BY <1>6, SeqIs
  <2>2. \A i \in 1 .. Len(qs) : body'[qs[i]] = body[qs[i]]
    <3>1. \A i \in 1 .. Len(qs) : qs[i] \in ToSet(qs)
      BY <1>0, ListIndex
    <3> QED BY <1>4, <3>1
  <2>3. Bodies(body', qs) = Bodies(body, qs)
    BY <2>2 DEF Bodies
  <2> QED BY <1>0, <2>1, <2>3
<1>14. MqInv'
  BY <1>8, <1>9, <1>11 DEF MqInv
<1> QED BY <1>12, <1>13, <1>14 DEF MessageOrder!Use, MqSeq, MqHand

\* rt_mq_control empties the queue.
LEMMA ResetsNodes ==
    ASSUME NodeTypes, HandsOK, pc \in [Thread -> Pcs], NEW qs, NEW fs, NodesOK(qs, fs),
           NEW t \in Thread, pc[t] = "run", MqReset(t)
    PROVE  MqInv' /\ MessageOrder!Reset
<1>0. /\ QueueIs(qs) /\ Linked(next, msg_queue_head, qs) /\ Linked(next, msg_queue_free, fs)
      /\ Placed(ToSet(qs), ToSet(fs), msg)
      /\ ToSet(qs) \in SUBSET Node /\ ToSet(fs) \in SUBSET Node
      /\ qs \in Seq(Node) /\ Chain(msg_queue_head) = qs
  <2>1. QueueIs(qs) => Chain(msg_queue_head) = qs
    BY SeqIs
  <2> QED BY <2>1, NodesFacts
<1>00. NULL \notin Node
  BY MessageQueueAssumption DEF Node, NULL
<1>1. /\ next' = PushNext(next, qs, msg_queue_free)
      /\ body' = [n \in Node |-> IF n \in ToSet(qs) THEN None ELSE body[n]]
      /\ msg_queue_free' = IF qs = << >> THEN msg_queue_free ELSE qs[Len(qs)]
      /\ msg_queue_tail' = IF msg_queue_tail \in ToSet(qs) THEN NULL ELSE msg_queue_tail
      /\ msg_queue_head' = NULL /\ mq_entry' = 0 /\ pc' = [pc EXCEPT ![t] = "resched"]
      /\ UNCHANGED <<msg, request>>
  BY <1>0 DEF MqReset, PushNext, Last, Goto
<1>2. /\ Linked(next', msg_queue_free', Pushed(qs, fs))
      /\ ToSet(Pushed(qs, fs)) = ToSet(qs) \cup ToSet(fs)
  <2>1. ToSet(qs) \cap ToSet(fs) = {}
    BY <1>0 DEF Placed
  <2>2. /\ Linked(PushNext(next, qs, msg_queue_free), IF qs = << >> THEN msg_queue_free ELSE qs[Len(qs)], Pushed(qs, fs))
        /\ ToSet(Pushed(qs, fs)) = ToSet(qs) \cup ToSet(fs)
    BY ONLY <1>0, <2>1, LinkedPushed
  <2> QED BY <1>1, <2>2
<1>3. msg_queue_tail' = NULL
  <2>1. CASE qs = << >>
    BY <1>0, <1>1, <2>1 DEF QueueIs
  <2>2. CASE qs # << >>
    <3>1. msg_queue_tail = qs[Len(qs)] /\ Len(qs) \in 1 .. Len(qs)
      BY <1>0, <2>2 DEF QueueIs
    <3>2. qs[Len(qs)] \in ToSet(qs)
      BY <1>0, <3>1, ListIndex
    <3> QED BY <1>1, <3>1, <3>2
  <2> QED BY <2>1, <2>2
<1>4. ToSet(<< >>) = {} /\ Linked(next', NULL, << >>)
  <2>1. << >> \in Seq(Node) /\ Len(<< >>) = 0
    OBVIOUS
  <2>2. ToSet(<< >>) = {}
    BY DEF ToSet
  <2>3. IsInjective(<< >>)
    BY DEF IsInjective
  <2> QED BY <2>1, <2>2, <2>3 DEF Linked
<1>5. QueueIs(<< >>)'
  BY <1>1, <1>3, <1>4 DEF QueueIs
<1>6. Placed({}, ToSet(qs) \cup ToSet(fs), msg)
  BY <1>0, PlacedMoves DEF NodeTypes
<1>7. NodesOK(<< >>, Pushed(qs, fs))'
  BY <1>1, <1>2, <1>4, <1>5, <1>6 DEF NodesOK
<1>8. next' \in [Node -> Node \cup {NULL}]
  <2> DEFINE r == Pushed(qs, fs)
  <2>1. next' = [n \in Node |-> next'[n]]
    BY <1>1 DEF PushNext
  <2>2. ASSUME NEW n \in Node PROVE next'[n] \in Node \cup {NULL}
    <3>1. CASE n \in ToSet(qs) \cup ToSet(fs)
      <4> HIDE DEF r
      <4>1. r \in Seq(Node) /\ n \in ToSet(r) /\ Linked(next', msg_queue_free', r)
        BY <1>2, <3>1 DEF Linked, r
      <4>2. PICK i \in 1 .. Len(r) : r[i] = n
        BY <4>1, ListIndex
      <4>3. next'[r[i]] = IF i = Len(r) THEN NULL ELSE r[i + 1]
        BY <4>1 DEF Linked
      <4>4. i # Len(r) => i + 1 \in 1 .. Len(r)
        BY <4>1
      <4>5. i # Len(r) => r[i + 1] \in Node
        BY ONLY <4>1, <4>4
      <4> QED BY <4>2, <4>3, <4>5
    <3>2. CASE n \notin ToSet(qs) \cup ToSet(fs)
      BY <1>1, <3>2 DEF PushNext, NodeTypes
    <3> QED BY <3>1, <3>2
  <2> QED BY <2>1, <2>2
<1>9. NodeTypes'
  BY <1>1, <1>8 DEF NodeTypes
<1>10. pc'[t] = "resched" /\ \A u \in Thread \ {t} : pc'[u] = pc[u]
  BY <1>1
<1>11. ASSUME NEW u \in Thread, pc[u] = "mq_copy" PROVE body'[msg[u]] = body[msg[u]]
  <2>1. msg[u] \notin ToSet(qs) /\ msg[u] \in Node
    BY <1>0, <1>11 DEF HandsOK, Copying, Placed, NodeTypes
  <2> QED BY <1>1, <2>1
<1>12. HandsOK'
  BY <1>1, <1>10, <1>11 DEF HandsOK, Copying
<1>13. MqHand' = MqHand
  BY <1>1, <1>10, <1>11 DEF MqHand
<1>14. MqSeq' = << >>
  BY <1>1 DEF MqSeq
<1>15. MqInv'
  BY <1>7, <1>9, <1>12 DEF MqInv
<1> QED BY <1>13, <1>14, <1>15 DEF MessageOrder!Reset, MqSeq, MqHand

\* Steps that leave the queue alone and in which nobody begins or ends to copy.
LEMMA MqKept ==
    ASSUME MqInv, UNCHANGED mqvars,
           \A u \in Thread, c \in Copying : pc'[u] = c <=> pc[u] = c
    PROVE  MqInv' /\ UNCHANGED <<MqSeq, MqHand>>
<1>1. UNCHANGED <<next, body, msg_queue_head, msg_queue_tail, msg_queue_free, mq_entry, msg, request>>
  BY DEF mqvars, nodes
<1>2. NodeTypes'
  BY <1>1 DEF MqInv, NodeTypes
<1>3. HandsOK'
  BY <1>1 DEF MqInv, HandsOK, Copying
<1>4. \E qs, fs : NodesOK(qs, fs)'
  BY <1>1 DEF MqInv, NodesOK, QueueIs
<1>5. MqSeq' = MqSeq
  BY <1>1 DEF MqSeq, Chain
<1>6. MqHand' = MqHand
  BY <1>1 DEF MqHand, Copying
<1> QED BY <1>2, <1>3, <1>4, <1>5, <1>6 DEF MqInv

-----------------------------------------------------------------------------
(* Message queue: the steps.                                               *)

\* No thread that copies a message moves, and none begins to.
Walks == UNCHANGED pc \/ \E t \in Thread, c \in Pcs \ Copying : pc[t] \notin Copying /\ Goto(t, c)

\* Such a step leaves everyone who copies where he is.
LEMMA WalksSteady ==
    ASSUME pc \in [Thread -> Pcs], Walks
    PROVE  \A u \in Thread, c \in Copying : pc'[u] = c <=> pc[u] = c
BY DEF Walks, Goto

\* Where the kernel and detach send a thread.
LEMMA KernelWalks ==
    ASSUME NEW t \in Thread,
           \/ \E u \in Thread : Startup(t, u)
           \/ Reschedule(t) \/ Timeout(t) \/ SliceExpired
           \/ ResumeAllTest(t) \/ ResumeAllOne(t)
           \/ \E q : ResumeAll(t, q)
           \/ \E q, r : ResumeAllThen(t, q, r)
    PROVE  Walks
<1>1. CASE \E u \in Thread : Startup(t, u)
  BY <1>1 DEF Walks, Startup, Calls, At, Pcs, Copying
<1>2. CASE Reschedule(t)
  BY <1>2 DEF Walks, Reschedule, At, Pcs, Copying
<1>3. CASE Timeout(t) \/ SliceExpired
  BY <1>3 DEF Walks, Timeout, SliceExpired
<1>4. CASE ResumeAllTest(t)
  BY <1>4 DEF Walks, ResumeAllTest, At, Pcs, Copying
<1>5. CASE ResumeAllOne(t)
  BY <1>5 DEF Walks, ResumeAllOne, At, Pcs, Copying
<1>6. CASE \E q : ResumeAll(t, q)
  BY <1>6 DEF Walks, ResumeAll, CallsOn, Calls, At, Pcs, Copying
<1>7. CASE \E q, r : ResumeAllThen(t, q, r)
  BY <1>7 DEF Walks, ResumeAllThen, kvars
<1> QED BY <1>1, <1>2, <1>3, <1>4, <1>5, <1>6, <1>7

\* Where calls on an event, a mailbox and a memory pool send a thread.
LEMMA EventWalks ==
    ASSUME \/ \E t \in Thread : EventCall(t) \/ EventReturn(t)
           \/ EventIsr
    PROVE  Walks
<1>1. ASSUME NEW t \in Thread, NEW bits, rt_event_send(t, bits) PROVE Walks
  BY <1>1 DEF rt_event_send, CallsOn, Calls, At, Walks, Pcs, Copying
<1>2. ASSUME NEW t \in Thread, NEW want, NEW option, NEW time, rt_event_recv(t, want, option, time)
      PROVE  Walks
  BY <1>2 DEF rt_event_recv, RecvNow, RecvNoWait, RecvWait, CallsOn, Calls, At, Walks, Pcs, Copying
<1>3. ASSUME NEW t \in Thread, EventReset(t) PROVE Walks
  BY <1>3 DEF EventReset, CallsOn, Calls, At, Walks, Pcs, Copying
<1>4. ASSUME NEW t \in Thread, EventDetach(t) PROVE Walks
  BY <1>4, KernelWalks DEF EventDetach
<1>5. ASSUME NEW t \in Thread, EventReturn(t) PROVE Walks
  BY <1>5 DEF EventReturn, At, Walks, Pcs, Copying
<1>6. ASSUME EventIsr PROVE Walks
  BY <1>6 DEF EventIsr, EventSendIsr, Walks
<1> QED BY <1>1, <1>2, <1>3, <1>4, <1>5, <1>6 DEF EventCall

\* A thread that has woken another one.
LEMMA WakeWalks ==
    ASSUME NEW t \in Thread, pc[t] \notin Copying, NEW q, Wake(t, q)
    PROVE  Walks
BY DEF Wake, Walks, Pcs, Copying

\* A round of a call that may wait.
LEMMA RoundWalks ==
    ASSUME NEW t \in Thread, pc[t] \notin Copying, NEW v, NEW time, NEW again,
           SendRound(t, v, time) \/ RecvRound(t, time, again) \/ AllocRound(t, time)
    PROVE  Walks
<1>1. CASE SendRound(t, v, time)
  <2>1. Wake(t, mb) => Walks
    BY WakeWalks
  <2> QED BY <1>1, <2>1 DEF SendRound, WaitFor, Walks, Pcs, Copying
<1>2. CASE RecvRound(t, time, again)
  <2>1. Wake(t, mb_sender) => Walks
    BY WakeWalks
  <2> QED BY <1>2, <2>1 DEF RecvRound, WaitFor, Walks, Pcs, Copying
<1>3. CASE AllocRound(t, time)
  BY <1>3 DEF AllocRound, Walks, Pcs, Copying
<1> QED BY <1>1, <1>2, <1>3

\* Calls on the mailbox.
LEMMA MailboxWalks ==
    ASSUME \/ \E t \in Thread : MailboxCall(t) \/ MailboxStep(t)
           \/ MailboxIsr
    PROVE  Walks
<1>1. ASSUME NEW t \in Thread, MbCalls(t) PROVE pc[t] \notin Copying
  BY <1>1 DEF MbCalls, CallsOn, Calls, At, Copying
<1>2. ASSUME NEW t \in Thread, NEW v, rt_mb_urgent(t, v) PROVE Walks
  BY <1>1, <1>2, WakeWalks DEF rt_mb_urgent
<1>3. ASSUME NEW t \in Thread, NEW v, NEW time, rt_mb_send_wait(t, v, time) PROVE Walks
  BY <1>1, <1>3, RoundWalks DEF rt_mb_send_wait
<1>4. ASSUME NEW t \in Thread, NEW time, rt_mb_recv(t, time) PROVE Walks
  BY <1>1, <1>4, RoundWalks DEF rt_mb_recv
<1>5. ASSUME NEW t \in Thread, UseMail(t) PROVE Walks
  BY <1>5 DEF UseMail, Walks, kvars
<1>6. ASSUME NEW t \in Thread, MbReset(t) PROVE Walks
  BY <1>1, <1>6 DEF MbReset, Walks, Pcs, Copying
<1>7. ASSUME NEW t \in Thread, MbDetach(t) \/ MbDetachSenders(t) PROVE Walks
  BY <1>7, KernelWalks DEF MbDetach, MbDetachSenders
<1>8. ASSUME NEW t \in Thread, SendResumed(t) PROVE Walks
  <2>1. pc[t] \notin Copying
    BY <1>8 DEF SendResumed, At, Copying
  <2>2. CASE k.error[t] # "EOK"
    BY <1>8, <2>1, <2>2 DEF SendResumed, Walks, Pcs, Copying
  <2>3. CASE k.error[t] = "EOK"
    BY <1>8, <2>1, <2>3, RoundWalks DEF SendResumed
  <2> QED BY <2>2, <2>3
<1>9. ASSUME NEW t \in Thread, RecvResumed(t) PROVE Walks
  <2>1. pc[t] \notin Copying
    BY <1>9 DEF RecvResumed, At, Copying
  <2>2. CASE k.error[t] # "EOK"
    BY <1>9, <2>1, <2>2 DEF RecvResumed, Walks, Pcs, Copying
  <2>3. CASE k.error[t] = "EOK"
    BY <1>9, <2>1, <2>3, RoundWalks DEF RecvResumed
  <2> QED BY <2>2, <2>3
<1>10. ASSUME MailboxIsr PROVE Walks
  BY <1>10 DEF MailboxIsr, MbSendIsr, WakeIsr, Walks
<1> QED BY <1>2, <1>3, <1>4, <1>5, <1>6, <1>7, <1>8, <1>9, <1>10 DEF MailboxCall, MailboxStep

\* Calls on the pool.
LEMMA MemPoolWalks ==
    ASSUME \/ \E t \in Thread : MemPoolCall(t) \/ MemPoolStep(t)
           \/ MemPoolIsr
    PROVE  Walks
<1>1. ASSUME NEW t \in Thread, NEW time, rt_mp_alloc(t, time) PROVE Walks
  <2>1. pc[t] \notin Copying
    BY <1>1 DEF rt_mp_alloc, CallsOn, Calls, At, Copying
  <2> QED BY <1>1, <2>1, RoundWalks DEF rt_mp_alloc
<1>2. ASSUME NEW t \in Thread, NEW b, rt_mp_free(t, b) PROVE Walks
  BY <1>2 DEF rt_mp_free, CallsOn, Calls, At, Walks, Pcs, Copying, kvars
<1>3. ASSUME NEW t \in Thread, MpDetach(t) \/ MpDetachTest(t) \/ MpDetachOne(t) PROVE Walks
  BY <1>3, KernelWalks DEF MpDetach, MpDetachTest, MpDetachOne
<1>4. ASSUME NEW t \in Thread, AllocResumed(t) PROVE Walks
  <2>1. pc[t] \notin Copying
    BY <1>4 DEF AllocResumed, At, Copying
  <2>2. CASE k.error[t] # "EOK"
    BY <1>4, <2>1, <2>2 DEF AllocResumed, Walks, Pcs, Copying
  <2>3. CASE k.error[t] = "EOK"
    BY <1>4, <2>1, <2>3, RoundWalks DEF AllocResumed
  <2> QED BY <2>2, <2>3
<1>5. ASSUME MemPoolIsr PROVE Walks
  BY <1>5 DEF MemPoolIsr, FreeIsr, Walks
<1> QED BY <1>1, <1>2, <1>3, <1>4, <1>5 DEF MemPoolCall, MemPoolStep

\* Calls on the queue.
LEMMA MessageQueueStepStep ==
    ASSUME pc \in [Thread -> Pcs], MqInv, NEW t \in Thread,
           MessageQueueCall(t) \/ MessageQueueStep(t)
    PROVE  MqInv' /\ OrderStep
<1>0. PICK qs, fs : NodeTypes /\ HandsOK /\ NodesOK(qs, fs)
  BY DEF MqInv
<1>00. ASSUME UNCHANGED mqvars, Walks PROVE MqInv' /\ OrderStep
  BY <1>00, WalksSteady, MqKept DEF OrderStep
<1>1. ASSUME NEW b \in Message, NEW urgent \in BOOLEAN, rt_mq_send(t, b, urgent) PROVE MqInv' /\ OrderStep
  <2>1. pc[t] = "run"
    BY <1>1 DEF rt_mq_send, CallsOn, Calls, At
  <2>2. CASE msg_queue_free = NULL
    BY <1>00, <1>1, <2>2 DEF rt_mq_send, kvars, Walks
  <2>3. CASE msg_queue_free # NULL
    <3>1. /\ msg_queue_free' = next[msg_queue_free] /\ msg' = [msg EXCEPT ![t] = msg_queue_free]
          /\ request' = [request EXCEPT ![t] = [body |-> b, urgent |-> urgent]]
          /\ Goto(t, "mq_fill")
          /\ UNCHANGED <<next, body, msg_queue_head, msg_queue_tail, mq_entry>>
      BY <1>1, <2>3 DEF rt_mq_send
    <3>2. MqInv' /\ UNCHANGED <<MqSeq, MqHand>>
      BY <1>0, <2>1, <2>3, <3>1, TakesNode
    <3> QED BY <3>2 DEF OrderStep
  <2> QED BY <2>2, <2>3
<1>2. ASSUME NEW time, NEW again, MqRecvRound(t, time, again), pc[t] \notin Copying PROVE MqInv' /\ OrderStep
  <2>1. CASE Unlink(t) /\ Goto(t, "mq_copy")
    <3>1. MqInv' /\ MessageOrder!Get(t)
      BY <1>0, <1>2, <2>1, UnlinksNode
    <3> QED BY <3>1 DEF OrderStep, MessageOrder!Next
  <2>2. CASE UNCHANGED mqvars /\ (Goto(t, "run") \/ Goto(t, "block"))
    BY <1>00, <1>2, <2>2 DEF Walks, Pcs, Copying
  <2> QED BY <1>2, <2>1, <2>2 DEF MqRecvRound
<1>3. ASSUME NEW time, rt_mq_recv(t, time) PROVE MqInv' /\ OrderStep
  BY <1>2, <1>3 DEF rt_mq_recv, CallsOn, Calls, At, Copying
<1>4. ASSUME MqReset(t) PROVE MqInv' /\ OrderStep
  <2>1. pc[t] = "run"
    BY <1>4 DEF MqReset, CallsOn, Calls, At
  <2>2. MqInv' /\ MessageOrder!Reset
    BY <1>0, <1>4, <2>1, ResetsNodes
  <2> QED BY <2>2 DEF OrderStep, MessageOrder!Next
<1>5. ASSUME MqDetach(t) PROVE MqInv' /\ OrderStep
  <2>1. Walks
    <3>1. CASE mq_static
      BY <1>5, <3>1 DEF MqDetach, Walks, kvars
    <3>2. CASE ~mq_static
      BY <1>5, <3>2, KernelWalks DEF MqDetach
    <3> QED BY <3>1, <3>2
  <2> QED BY <1>00, <1>5, <2>1 DEF MqDetach
<1>6. ASSUME MqLink(t) PROVE MqInv' /\ OrderStep
  <2>1. PICK n, b, urgent : /\ n = msg[t] /\ b = request[t].body /\ urgent = request[t].urgent
                            /\ Link(n, b, urgent)
    BY <1>6 DEF MqLink
  <2>2. /\ pc[t] = "mq_fill" /\ Wake(t, mq)
        /\ msg' = [msg EXCEPT ![t] = NULL] /\ request' = [request EXCEPT ![t] = NoRequest]
        /\ UNCHANGED msg_queue_free
    BY <1>6 DEF MqLink, At
  <2>3. b \in Message
    BY <1>0, <2>1, <2>2 DEF HandsOK
  <2>4. pc' = [pc EXCEPT ![t] = pc'[t]] /\ pc'[t] \notin Copying
    BY <2>2 DEF Wake, Goto, Copying
  <2>5. MqInv' /\ (MessageOrder!Put(b) \/ MessageOrder!PutFirst(b))
    BY <1>0, <2>1, <2>2, <2>3, <2>4, LinksNode
  <2> QED BY <2>3, <2>5 DEF OrderStep, MessageOrder!Next
<1>7. ASSUME MqRecvResumed(t) PROVE MqInv' /\ OrderStep
  <2>1. pc[t] \notin Copying
    BY <1>7 DEF MqRecvResumed, At, Copying
  <2>2. CASE k.error[t] # "EOK"
    BY <1>00, <1>7, <2>1, <2>2 DEF MqRecvResumed, Walks, Pcs, Copying
  <2>3. CASE k.error[t] = "EOK"
    BY <1>2, <1>7, <2>1, <2>3 DEF MqRecvResumed
  <2> QED BY <2>2, <2>3
<1>8. ASSUME MqGiveBack(t) PROVE MqInv' /\ OrderStep
  <2>1. MqInv' /\ MessageOrder!Use(t)
    BY <1>0, <1>8, ReturnsNode
  <2> QED BY <2>1 DEF OrderStep, MessageOrder!Next
<1> QED BY <1>1, <1>3, <1>4, <1>5, <1>6, <1>7, <1>8 DEF MessageQueueCall, MessageQueueStep

\* Sends from interrupt handlers.
LEMMA MessageQueueIsrStep ==
    ASSUME pc \in [Thread -> Pcs], MqInv, MessageQueueIsr
    PROVE  MqInv' /\ OrderStep
<1>0. PICK qs, fs : NodeTypes /\ HandsOK /\ NodesOK(qs, fs)
  BY DEF MqInv
<1>1. PICK b \in Message, urgent \in BOOLEAN : MqSendIsr(b, urgent)
  BY DEF MessageQueueIsr
<1>2. PICK n : /\ n = msg_queue_free /\ msg_queue_free # NULL /\ Link(n, b, urgent)
               /\ msg_queue_free' = next[msg_queue_free] /\ UNCHANGED <<msg, request, pc>>
  BY <1>1 DEF MqSendIsr, WakeIsr
<1>3. MqInv' /\ (MessageOrder!Put(b) \/ MessageOrder!PutFirst(b))
  BY <1>0, <1>2, LinksNode
<1> QED BY <1>3 DEF OrderStep, MessageOrder!Next

\* Every step of the system.
LEMMA MqStep == MbInv /\ MqInv /\ [Next]_vars => MqInv' /\ OrderStep
<1> SUFFICES ASSUME MbInv, MqInv, [Next]_vars PROVE MqInv' /\ OrderStep
  OBVIOUS
<1>0. pc \in [Thread -> Pcs]
  BY DEF MbInv, ClientsOK
<1>00. ASSUME UNCHANGED mqvars, Walks PROVE MqInv' /\ OrderStep
  BY <1>0, <1>00, WalksSteady, MqKept DEF OrderStep
<1>1. CASE UNCHANGED vars
  BY <1>00, <1>1 DEF vars, kvars, Walks
<1>2. ASSUME NEW t \in Thread, ThreadCall(t) PROVE MqInv' /\ OrderStep
  <2>1. CASE \E u \in Thread : Startup(t, u) /\ OnKernel
    BY <1>00, <2>1, KernelWalks DEF OnKernel
  <2>2. CASE EventCall(t) /\ OnEvent
    BY <1>00, <2>2, EventWalks DEF OnEvent
  <2>3. CASE MailboxCall(t) /\ OnMb
    BY <1>00, <2>3, MailboxWalks DEF OnMb
  <2>4. CASE MessageQueueCall(t) /\ OnMq
    BY <1>0, <2>4, MessageQueueStepStep
  <2>5. CASE MemPoolCall(t) /\ OnMp
    BY <1>00, <2>5, MemPoolWalks DEF OnMp
  <2> QED BY <1>2, <2>1, <2>2, <2>3, <2>4, <2>5 DEF ThreadCall
<1>3. ASSUME NEW t \in Thread, ThreadStep(t) PROVE MqInv' /\ OrderStep
  <2>1. CASE Reschedule(t) /\ OnKernel
    BY <1>00, <2>1, KernelWalks DEF OnKernel
  <2>2. CASE EventReturn(t) /\ OnEvent
    BY <1>00, <2>2, EventWalks DEF OnEvent
  <2>3. CASE MailboxStep(t) /\ OnMb
    BY <1>00, <2>3, MailboxWalks DEF OnMb
  <2>4. CASE MessageQueueStep(t) /\ OnMq
    BY <1>0, <2>4, MessageQueueStepStep
  <2>5. CASE MemPoolStep(t) /\ OnMp
    BY <1>00, <2>5, MemPoolWalks DEF OnMp
  <2>6. CASE DetachTest(t) \/ DetachResume(t)
    BY <1>00, <2>6, KernelWalks DEF DetachTest, DetachResume
  <2> QED BY <1>3, <2>1, <2>2, <2>3, <2>4, <2>5, <2>6 DEF ThreadStep
<1>4. CASE Interrupt
  <2>1. CASE \E t \in Thread : Timeout(t) /\ OnKernel
    BY <1>00, <2>1, KernelWalks DEF OnKernel
  <2>6. CASE SliceExpired /\ OnKernel
    BY <1>00, <2>6 DEF OnKernel, SliceExpired, Walks
  <2>2. CASE EventIsr /\ OnEvent
    BY <1>00, <2>2, EventWalks DEF OnEvent
  <2>3. CASE MailboxIsr /\ OnMb
    BY <1>00, <2>3, MailboxWalks DEF OnMb
  <2>4. CASE MessageQueueIsr /\ OnMq
    BY <1>0, <2>4, MessageQueueIsrStep
  <2>5. CASE MemPoolIsr /\ OnMp
    BY <1>00, <2>5, MemPoolWalks DEF OnMp
  <2> QED BY <1>4, <2>1, <2>2, <2>3, <2>4, <2>5, <2>6 DEF Interrupt
<1> QED BY <1>1, <1>2, <1>3, <1>4 DEF Next, Halted

\* At start-up the queue is empty and all nodes are free.
LEMMA MqInitially == Init => MqInv /\ MessageOrder!Init
<1> SUFFICES ASSUME Init PROVE MqInv /\ MessageOrder!Init
  OBVIOUS
<1> DEFINE fs == [i \in 1 .. max_msgs |-> max_msgs + 1 - i]
<1>0. max_msgs \in Nat \ {0} /\ Node = 1 .. max_msgs /\ NULL = 0
  BY MessageQueueAssumption DEF Node, NULL
<1>1. MessageQueueInit /\ pc = [t \in Thread |-> "run"]
  BY DEF Init, ThreadsInit
<1>2. fs \in Seq(Node) /\ Len(fs) = max_msgs /\ fs # << >>
  <2>1. fs \in [1 .. max_msgs -> Node] /\ DOMAIN fs = 1 .. max_msgs
    BY <1>0
  <2> HIDE DEF fs
  <2> QED BY <1>0, <2>1
<1>3. \A i \in 1 .. max_msgs : fs[i] = max_msgs + 1 - i
  OBVIOUS
<1> HIDE DEF fs
<1>4. IsInjective(fs)
  <2>1. ASSUME NEW a \in 1 .. Len(fs), NEW b \in 1 .. Len(fs), fs[a] = fs[b] PROVE a = b
    <3>1. max_msgs + 1 - a = max_msgs + 1 - b /\ a \in Int /\ b \in Int
      BY <1>2, <1>3, <2>1
    <3> QED BY <1>0, <3>1
  <2> QED BY <1>2, <2>1, ListIndex
<1>5. ASSUME NEW i \in 1 .. Len(fs) PROVE next[fs[i]] = IF i = Len(fs) THEN NULL ELSE fs[i + 1]
  <2>0. i \in 1 .. max_msgs
    BY <1>2
  <2>00. fs[i] = max_msgs + 1 - i
    BY <1>3, <2>0
  <2>01. max_msgs + 1 - i \in 1 .. max_msgs
    BY <1>0, <2>0
  <2>1. fs[i] \in Node /\ fs[i] = max_msgs + 1 - i
    BY <1>0, <2>00, <2>01
  <2>2. next[fs[i]] = fs[i] - 1
    BY <1>1, <2>1 DEF MessageQueueInit
  <2>3. i # Len(fs) => i + 1 \in 1 .. max_msgs
    BY <1>0, <1>2
  <2>4. i # Len(fs) => fs[i + 1] = max_msgs + 1 - (i + 1)
    BY <1>3, <2>3
  <2> QED BY <1>0, <1>2, <2>1, <2>2, <2>4
<1>6. Linked(next, msg_queue_free, fs)
  <2>1. msg_queue_free = fs[1]
    BY <1>0, <1>1, <1>3 DEF MessageQueueInit
  <2> QED BY <1>2, <1>4, <1>5, <2>1 DEF Linked
<1>7. ToSet(<< >>) = {} /\ QueueIs(<< >>)
  <2>1. << >> \in Seq(Node) /\ Len(<< >>) = 0
    OBVIOUS
  <2>2. ToSet(<< >>) = {}
    BY DEF ToSet
  <2>3. IsInjective(<< >>)
    BY DEF IsInjective
  <2> QED BY <1>1, <2>1, <2>2, <2>3 DEF Linked, QueueIs, MessageQueueInit
<1>8. \A n \in Node : n \in ToSet(fs)
  <2>1. ASSUME NEW n \in Node PROVE \E j \in 1 .. Len(fs) : fs[j] = n
    <3>1. max_msgs + 1 - n \in 1 .. max_msgs /\ max_msgs + 1 - (max_msgs + 1 - n) = n
      BY <1>0
    <3> QED BY <1>2, <1>3, <3>1
  <2> QED BY <1>2, <2>1, ListIndex
<1>9. ToSet(fs) \subseteq Node
  BY <1>2 DEF ToSet
<1>10. \A t \in Thread : msg[t] = NULL
  BY <1>1 DEF MessageQueueInit
<1>11. NULL \notin ToSet(fs)
  BY <1>0, <1>9
<1>12. Placed(ToSet(<< >>), ToSet(fs), msg)
  BY <1>7, <1>8, <1>10, <1>11 DEF Placed
<1>13. NodesOK(<< >>, fs)
  BY <1>6, <1>7, <1>12 DEF NodesOK
<1>14. NodeTypes
  <2>1. \A n \in Node : n - 1 \in Node \cup {NULL}
    BY <1>0
  <2> QED BY <1>1, <2>1 DEF NodeTypes, MessageQueueInit, NoRequest
<1>15. HandsOK
  BY <1>1, <1>10 DEF HandsOK, Copying
<1>16. MessageOrder!Init
  BY <1>1 DEF MessageOrder!Init, MessageQueueInit
<1> QED BY <1>13, <1>14, <1>15, <1>16 DEF MqInv

\* The message queue, with nodes copied into and out of while interrupts are
\* enabled, is a bounded queue: every message is received once, in order, and
\* what a receiver copies out stays what it took (ipc.c, rt_mq_*).
THEOREM MessageQueueRefinesQueue == Spec => MessageQueueIsQueue
<1>1. Init => MbInv /\ MqInv /\ MessageOrder!Init
  BY MbInitially, MqInitially
<1>2. MbInv /\ MqInv /\ [Next]_vars => MbInv' /\ MqInv' /\ [MessageOrder!Next]_<<MqSeq, MqHand>>
  BY MbStep, MqStep DEF OrderStep
<1>3. [MessageOrder!Next]_<<MqSeq, MqHand>> =>
         [MessageOrder!Next]_<<[i \in 1 .. mq_entry |-> body[Chain(msg_queue_head)[i]]],
                               [t \in Thread |-> IF pc[t] = "mq_copy" THEN body[msg[t]] ELSE None]>>
  BY DEF MqSeq, MqHand
<1> QED BY <1>1, <1>2, <1>3, PTL DEF Spec, MessageQueueIsQueue, MessageOrder!Spec

\* The nodes that threads hold, counted by the threads that hold them.
LEMMA HeldCount ==
    ASSUME NEW held \in SUBSET Thread, NEW m, NEW M, M = {m[t] : t \in held},
           \A t, u \in held : m[t] = m[u] => t = u
    PROVE  IsFiniteSet(M) /\ Cardinality(M) = Cardinality(held)
<1> DEFINE f == [t \in held |-> m[t]]
<1>1. IsFiniteSet(held)
  BY FiniteAssumption, FS_Subset
<1>2. f \in Bijection(held, M)
  <2>1. f \in [held -> M]
    OBVIOUS
  <2>2. \A t, u \in held : f[t] = f[u] => t = u
    OBVIOUS
  <2>3. \A n \in M : \E t \in held : f[t] = n
    OBVIOUS
  <2> HIDE DEF f
  <2> QED BY <2>1, <2>2, <2>3 DEF Bijection, Injection, Surjection, IsInjective
<1>3. ExistsBijection(held, M)
  BY <1>2 DEF ExistsBijection
<1> QED BY <1>1, <1>3, FS_Bijection

\* Three disjoint sets that make up the pool have its size.
LEMMA ThreeParts ==
    ASSUME NEW A, NEW B, NEW C, IsFiniteSet(A), IsFiniteSet(B), IsFiniteSet(C),
           A \cap B = {}, (A \cup B) \cap C = {}, NEW D, D = A \cup B \cup C
    PROVE  Cardinality(D) = Cardinality(A) + Cardinality(B) + Cardinality(C)
<1>1. /\ IsFiniteSet(A \cup B)
      /\ Cardinality(A \cup B) = Cardinality(A) + Cardinality(B) - Cardinality(A \cap B)
  BY ONLY IsFiniteSet(A), IsFiniteSet(B), FS_Union
<1>2. Cardinality((A \cup B) \cup C) = Cardinality(A \cup B) + Cardinality(C) - Cardinality((A \cup B) \cap C)
  BY ONLY <1>1, IsFiniteSet(C), FS_Union
<1>3. Cardinality(A \cap B) = 0 /\ Cardinality((A \cup B) \cap C) = 0
  BY FS_EmptySet
<1>4. Cardinality(A) \in Nat /\ Cardinality(B) \in Nat /\ Cardinality(C) \in Nat
  BY FS_CardinalityType
<1>5. (A \cup B) \cup C = D
  OBVIOUS
<1> DEFINE a == Cardinality(A)
           b == Cardinality(B)
           c == Cardinality(C)
           ab == Cardinality(A \cup B)
           abc == Cardinality(D)
<1>6. ab = a + b - 0 /\ abc = ab + c - 0 /\ a \in Nat /\ b \in Nat /\ c \in Nat
  BY <1>1, <1>2, <1>3, <1>4, <1>5
<1> HIDE DEF a, b, c, ab, abc
<1>7. abc = a + b + c
  BY <1>6
<1> QED BY <1>7 DEF a, b, c, abc

\* The accounting of the nodes follows from the lists being well formed and
\* every node being in one place.
LEMMA MqInvConserves == MqInv => NodesConserved
<1> SUFFICES ASSUME MqInv PROVE NodesConserved
  OBVIOUS
<1>0. PICK qs, fs : NodeTypes /\ NodesOK(qs, fs)
  BY DEF MqInv
<1>1. /\ Linked(next, msg_queue_head, qs) /\ Linked(next, msg_queue_free, fs)
      /\ mq_entry = Len(qs) /\ Placed(ToSet(qs), ToSet(fs), msg)
      /\ msg_queue_tail = IF qs = << >> THEN NULL ELSE qs[Len(qs)]
  BY <1>0 DEF NodesOK, QueueIs
<1>2. Chain(msg_queue_head) = qs /\ Chain(msg_queue_free) = fs
  BY <1>1, ChainIs
<1>3. qs \in Seq(Node) /\ IsInjective(qs) /\ fs \in Seq(Node) /\ IsInjective(fs)
  BY <1>1 DEF Linked
<1> DEFINE held == {t \in Thread : msg[t] # NULL}
           M == {msg[t] : t \in held}
           A == ToSet(qs)
           B == ToSet(fs)
<1>4. IsFiniteSet(A) /\ Cardinality(A) = Len(qs) /\ A \subseteq Node
  <2>1. A \subseteq Node
    BY <1>3 DEF ToSet
  <2> QED BY <1>3, <2>1, ListCardinality
<1>5. IsFiniteSet(B) /\ Cardinality(B) = Len(fs) /\ B \subseteq Node
  <2>1. B \subseteq Node
    BY <1>3 DEF ToSet
  <2> QED BY <1>3, <2>1, ListCardinality
<1>6. IsFiniteSet(M) /\ Cardinality(M) = Cardinality(held)
  <2>1. \A t, u \in held : msg[t] = msg[u] => t = u
    BY <1>1 DEF Placed
  <2>2. held \in SUBSET Thread /\ M = {msg[t] : t \in held}
    OBVIOUS
  <2> HIDE DEF held, M
  <2> QED BY <2>1, <2>2, HeldCount
<1>7. M \subseteq Node
  BY <1>0 DEF NodeTypes
<1>8. A \cap B = {} /\ (A \cup B) \cap M = {}
  BY <1>1 DEF Placed
<1>9. NULL \notin Node
  BY DEF Node, NULL
<1>10. Node \subseteq A \cup B \cup M
  BY <1>1, <1>9 DEF Placed
<1>11. A \cup B \cup M = Node
  BY <1>4, <1>5, <1>7, <1>10
<1>12. Cardinality(Node) = max_msgs
  <2>1. max_msgs \in Nat \ {0} /\ max_msgs \in Int
    BY MessageQueueAssumption
  <2>2. Cardinality(1 .. max_msgs) = IF 1 > max_msgs THEN 0 ELSE max_msgs - 1 + 1
    BY ONLY <2>1, FS_Interval, 1 \in Int, max_msgs \in Int
  <2> QED BY <2>1, <2>2 DEF Node
<1>13. Len(qs) + Len(fs) + Cardinality(held) = max_msgs
  <2>1. PICK D : D = A \cup B \cup M
    OBVIOUS
  <2>2. D = Node
    BY <1>11, <2>1
  <2>3. IsFiniteSet(A) /\ IsFiniteSet(B) /\ IsFiniteSet(M)
    BY <1>4, <1>5, <1>6
  <2> HIDE DEF A, B, M
  <2>4. Cardinality(D) = Cardinality(A) + Cardinality(B) + Cardinality(M)
    BY ONLY <1>8, <2>1, <2>3, ThreeParts
  <2> QED BY <1>4, <1>5, <1>6, <1>12, <2>2, <2>4
<1>14. Last(qs) = qs[Len(qs)]
  BY DEF Last
<1> QED BY <1>1, <1>2, <1>11, <1>13, <1>14 DEF NodesConserved

\* No node of the pool is lost or in two places: queued, free and held nodes
\* make up the pool, and the count, the head and the tail agree with the list
\* (ipc.c, the free list and the queue of rt_mq_*).
THEOREM NodesAreConserved == Spec => []NodesConserved
<1>1. Init => MbInv /\ MqInv
  BY MbInitially, MqInitially
<1>2. MbInv /\ MqInv /\ [Next]_vars => MbInv' /\ MqInv'
  BY MbStep, MqStep
<1>3. MqInv => NodesConserved
  BY MqInvConserves
<1> QED BY <1>1, <1>2, <1>3, PTL DEF Spec

-----------------------------------------------------------------------------
(* Message queue: wake-ups.                                                *)

\* What the calls on the message queue do to its count and to the lists.
MqDoes(T) ==
    \/ /\ mq \in alive /\ mq_entry' = mq_entry + 1 /\ WakesOne(T, mq) /\ NoCopy(T)
       /\ \A t \in T : pc[t] = "mq_fill"
    \/ /\ mq \in alive /\ mq_entry' = mq_entry - 1 /\ Quiet(T)
       /\ \A t \in T : From(t, mq)
    \/ /\ mq \in alive /\ mq_entry = 0 /\ mq_entry' = mq_entry
       /\ \E t : T = {t} /\ From(t, mq) /\ Joins(t, mq) /\ NoCopy(T)
    \/ /\ mq_entry' = mq_entry /\ Quiet(T) /\ (NoCopy(T) \/ mq \in alive)
       /\ \A t \in T : \/ pc[t] \in {"run"} \cup Copying
                       \/ on[t] = mq /\ k.error[t] # "EOK"
                       \/ mq_entry = 0 /\ on[t] = mq
    \/ /\ mq_entry' = 0 /\ NoCopy(T)
       /\ \E t : T = {t} /\ pc[t] = "run" /\ Fails(t, {mq})

\* A step on the message queue loses no wake-up, and leaves the other lists alone.
LEMMA MqDoesKeeps ==
    ASSUME ObjCore, mq_entry \in Int, NEW T, MqDoes(T), Calm(T)
    PROVE  /\ ObjCore'
           /\ \A q \in {event, mb, mb_sender, mp} : Still(q)
           /\ Covered(mq, mq_entry) => Covered(mq, mq_entry)'
<1>0. /\ ThreadsOK /\ IpcCore /\ {event, mb, mb_sender, mq, mp} \subseteq Queue
      /\ \A q \in {event, mb, mb_sender, mp} : q # mq /\ q \in Queue
  <2>1. ThreadsOK /\ IpcCore
    BY DEF ObjCore, ThreadsOK
  <2>2. /\ {event, mb, mb_sender, mq, mp} \subseteq Queue
        /\ \A q \in {event, mb, mb_sender, mp} : q # mq
    BY ListsAssumption
  <2> QED BY <2>1, <2>2
<1>a. \A t : From(t, mq) => \A r : r # mq => Away({t}, r)
  BY DEF From, Away, Out
<1>b. (\A t \in T : From(t, mq)) => \A r : r # mq => Away(T, r)
  BY DEF From, Away, Out
<1>c. Covered(mq, mq_entry)' <=> (ToSet(k'.wait[mq]) # {} => mq_entry' <= Cardinality(Out(mq, "EOK")'))
  BY DEF Covered
<1>1. CASE /\ mq \in alive /\ mq_entry' = mq_entry + 1 /\ WakesOne(T, mq) /\ NoCopy(T)
           /\ \A t \in T : pc[t] = "mq_fill"
  <2>1. OwnerAlive(mq)
    BY <1>0, <1>1 DEF OwnerAlive
  <2>2. ObjCore'
    BY <1>0, <1>1, <2>1, WakesCore
  <2>3. \A q : Away(T, q)
    BY <1>1 DEF Away
  <2>4. \A q \in {event, mb, mb_sender, mp} : Still(q)
    BY <1>0, <1>1, <2>3, WakesStill
  <2>5. Covered(mq, mq_entry) => (ToSet(k'.wait[mq]) # {} => mq_entry + 1 <= Cardinality(Out(mq, "EOK")'))
    BY <1>0, <1>1, <2>3, CoverOneMore
  <2> QED BY <1>1, <1>c, <2>2, <2>4, <2>5
<1>2. CASE /\ mq \in alive /\ mq_entry' = mq_entry - 1 /\ Quiet(T)
           /\ \A t \in T : From(t, mq)
  <2>1. ObjCore'
    BY <1>0, <1>2, QuietCore
  <2>2. \A q \in {event, mb, mb_sender, mp} : Still(q)
    BY <1>0, <1>2, <1>b, QuietStill
  <2>3. Step(T, {}, "EOK", {}) /\ \A u \in {} : on[u] # mq
    BY <1>2 DEF Quiet
  <2>4. Covered(mq, mq_entry) => (ToSet(k'.wait[mq]) # {} => mq_entry - 1 <= Cardinality(Out(mq, "EOK")'))
    BY <1>0, <2>3, CoverOneLess
  <2> QED BY <1>2, <1>c, <2>1, <2>2, <2>4
<1>3. ASSUME mq \in alive, mq_entry = 0, mq_entry' = mq_entry,
             NEW t, T = {t}, From(t, mq), Joins(t, mq), NoCopy(T)
      PROVE  /\ ObjCore' /\ (\A q \in {event, mb, mb_sender, mp} : Still(q))
             /\ Covered(mq, mq_entry) => Covered(mq, mq_entry)'
  <2>1. ObjCore'
    BY <1>0, <1>3, JoinsCore
  <2>2. \A q \in {event, mb, mb_sender, mp} : Still(q)
    BY <1>0, <1>3, <1>a, JoinsStill
  <2>3. 0 <= Cardinality(Out(mq, "EOK")') /\ mq_entry' = 0
    BY <1>3, CoverNone
  <2> QED BY <1>c, <2>1, <2>2, <2>3
<1>4. CASE /\ mq_entry' = mq_entry /\ Quiet(T) /\ (NoCopy(T) \/ mq \in alive)
           /\ \A t \in T : \/ pc[t] \in {"run"} \cup Copying
                           \/ on[t] = mq /\ k.error[t] # "EOK"
                           \/ mq_entry = 0 /\ on[t] = mq
  <2>1. ObjCore'
    BY <1>0, <1>4, QuietCore
  <2>2. \A q \in {event, mb, mb_sender, mp} : Away(T, q)
    BY <1>0, <1>4 DEF Away, Copying
  <2>3. \A q \in {event, mb, mb_sender, mp} : Still(q)
    BY <1>0, <1>4, <2>2, QuietStill
  <2>4. ToSet(k'.wait[mq]) = ToSet(k.wait[mq]) /\ Out(mq, "EOK")' = Out(mq, "EOK") \ T
    BY <1>0, <1>4, QuietOut
  <2>5. CASE mq_entry = 0
    BY <1>4, <1>c, <2>1, <2>3, <2>5, CoverNone
  <2>6. CASE mq_entry # 0
    <3>1. Out(mq, "EOK") \cap T = {}
      BY <1>4, <2>6 DEF Out, Copying
    <3>2. Out(mq, "EOK")' = Out(mq, "EOK")
      BY <2>4, <3>1
    <3> QED BY <1>0, <1>4, <1>c, <2>1, <2>3, <2>4, <3>2, CoverSame
  <2> QED BY <2>5, <2>6
<1>5. ASSUME mq_entry' = 0, NEW t, T = {t}, pc[t] = "run", Fails(t, {mq}), NoCopy(T)
      PROVE  /\ ObjCore' /\ (\A q \in {event, mb, mb_sender, mp} : Still(q))
             /\ Covered(mq, mq_entry) => Covered(mq, mq_entry)'
  <2>1. ObjCore'
    BY <1>0, <1>5, FailsCore
  <2>2. \A q \in {event, mb, mb_sender, mp} : Still(q)
    <3> DEFINE Q == {mq}
    <3>1. Q \in SUBSET Queue /\ \A q \in {event, mb, mb_sender, mp} : q \in Queue \ Q /\ Away({t}, q)
      BY <1>0, <1>5 DEF Away
    <3>2. Fails(t, Q)
      BY <1>5
    <3> HIDE DEF Q
    <3> QED BY <1>0, <3>1, <3>2, FailsStill
  <2>3. 0 <= Cardinality(Out(mq, "EOK")')
    BY CoverNone
  <2> QED BY <1>c, <1>5, <2>1, <2>2, <2>3
<1> QED BY <1>1, <1>2, <1>3, <1>4, <1>5 DEF MqDoes

\* One round of rt_mq_recv.
LEMMA MqRecvRoundDoes ==
    ASSUME ThreadsOK, NEW t, Runs(t), NEW time, NEW again, MqRecvRound(t, time, again),
           mq \in alive, From(t, mq), alive' = alive
    PROVE  MqDoes({t}) /\ pc' \in [Thread -> Pcs] /\ pc'[t] \notin Detaching
<1>0. mq \in Queue
  BY ListsAssumption
<1>1. CASE Unlink(t) /\ Goto(t, "mq_copy") /\ Leaves(t) /\ UNCHANGED <<k, on>>
  <2>1. Quiet({t}) /\ pc' \in [Thread -> Pcs] /\ pc'[t] = "mq_copy"
    BY <1>1, QuietDoes DEF Pcs
  <2>2. mq_entry' = mq_entry - 1
    BY <1>1 DEF Unlink
  <2> QED BY <2>1, <2>2 DEF MqDoes, Detaching
<1>2. CASE /\ mq_entry = 0 /\ time = 0
           /\ k' = IF again THEN [k EXCEPT !.error[t] = "ETIMEOUT"] ELSE k
           /\ Goto(t, "run") /\ Leaves(t)
           /\ UNCHANGED <<on, mqvars>>
  <2>0. k' = k \/ \E e \in Error : k' = [k EXCEPT !.error[t] = e]
    BY <1>2 DEF Error
  <2>1. Quiet({t}) /\ pc' \in [Thread -> Pcs] /\ pc'[t] = "run"
    BY <1>2, <2>0, QuietDoes DEF Pcs
  <2>2. mq_entry' = mq_entry /\ (pc[t] = "run" \/ (mq_entry = 0 /\ on[t] = mq))
    BY <1>2 DEF mqvars, nodes, From, Out
  <2> QED BY <2>1, <2>2 DEF MqDoes, Copying, Detaching, NoCopy
<1>3. CASE /\ mq_entry = 0 /\ time # 0
           /\ k' = SuspendOn(k, mq, t, time)
           /\ on' = [on EXCEPT ![t] = mq]
           /\ timeout' = [timeout EXCEPT ![t] = time]
           /\ Goto(t, "block")
           /\ UNCHANGED mqvars
  <2>1. Joins(t, mq) /\ pc' \in [Thread -> Pcs]
    BY <1>0, <1>3, JoinsStep
  <2>2. pc'[t] = "block" /\ mq_entry' = mq_entry
    BY <1>3 DEF Goto, ThreadsOK, Runs, mqvars, nodes
  <2> QED BY <1>3, <2>1, <2>2 DEF MqDoes, Copying, Detaching, NoCopy
<1> QED BY <1>1, <1>2, <1>3 DEF MqRecvRound

\* The calls on the message queue, and their returns from a wait.
LEMMA MessageQueueDoes ==
    ASSUME ThreadsOK, Gone, NEW t \in Thread,
           \/ \E b \in Message, urgent \in BOOLEAN : rt_mq_send(t, b, urgent)
           \/ \E time \in Time : rt_mq_recv(t, time)
           \/ MqReset(t)
           \/ MqLink(t)
           \/ MqRecvResumed(t)
           \/ MqGiveBack(t)
    PROVE  MqDoes({t}) /\ Calm({t})
<1>0. mq \in Queue
  BY ListsAssumption
<1>1. CASE \E b \in Message, urgent \in BOOLEAN : rt_mq_send(t, b, urgent)
  <2>1. PICK b \in Message, urgent \in BOOLEAN : rt_mq_send(t, b, urgent)
    BY <1>1
  <2>2. Runs(t) /\ pc[t] = "run" /\ mq \in alive /\ alive' = alive /\ on' = on
    BY <2>1, RunsAt DEF rt_mq_send, CallsOn, Calls, At
  <2>3. Quiet({t}) /\ pc' \in [Thread -> Pcs] /\ mq_entry' = mq_entry /\ pc'[t] \in {"run", "mq_fill"}
    <3>1. CASE msg_queue_free = NULL
      BY <2>1, <2>2, <3>1, IdleDoes DEF rt_mq_send, kvars, mqvars, nodes
    <3>2. CASE msg_queue_free # NULL
      <4>1. Goto(t, "mq_fill") /\ k' = k /\ mq_entry' = mq_entry
        BY <2>1, <3>2 DEF rt_mq_send
      <4> QED BY <2>2, <4>1, QuietDoes DEF Pcs
    <3> QED BY <3>1, <3>2
  <2> QED BY <2>2, <2>3 DEF MqDoes, Calm, Detaching
<1>2. CASE \E time \in Time : rt_mq_recv(t, time)
  <2>1. PICK time \in Time : rt_mq_recv(t, time)
    BY <1>2
  <2>2. Runs(t) /\ pc[t] = "run" /\ mq \in alive /\ alive' = alive /\ From(t, mq)
    BY <2>1, RunsAt DEF rt_mq_recv, CallsOn, Calls, At, From
  <2>3. MqDoes({t}) /\ pc' \in [Thread -> Pcs] /\ pc'[t] \notin Detaching
    BY <2>1, <2>2, MqRecvRoundDoes DEF rt_mq_recv
  <2> QED BY <2>2, <2>3 DEF Calm
<1>3. CASE MqReset(t)
  <2>1. Runs(t) /\ pc[t] = "run" /\ alive' = alive /\ on' = on /\ Goto(t, "resched")
    BY <1>3, RunsAt DEF MqReset, CallsOn, Calls, At
  <2>2. Moves({t}) /\ Arrive({t}, {}) /\ on' \in [Thread -> Queue] /\ pc' \in [Thread -> Pcs]
    BY <2>1, GoesOn DEF Pcs
  <2>3. Fails(t, {mq})
    <3> DEFINE Q == {mq}
    <3>1. Q \in SUBSET Queue /\ \E q \in Queue : Q = {q} /\ k' = ResumeAllMasked(k, q)
      BY <1>0, <1>3 DEF MqReset
    <3> HIDE DEF Q
    <3>2. Fails(t, Q)
      BY <2>1, <2>2, <3>1, FailsStep
    <3> QED BY <3>2 DEF Q
  <2>4. pc'[t] = "resched" /\ mq_entry' = 0
    BY <1>3, <2>1 DEF Goto, ThreadsOK, MqReset
  <2> QED BY <2>1, <2>2, <2>3, <2>4 DEF MqDoes, Calm, NoCopy, Copying, Detaching
<1>4. CASE MqLink(t)
  <2>1. Runs(t) /\ pc[t] = "mq_fill" /\ alive' = alive /\ on' = on /\ Wake(t, mq)
    BY <1>4, RunsAt DEF MqLink, At, Pcs
  <2>2. mq \in alive
    BY <2>1 DEF Gone, Copying, Detaching
  <2>3. WakesOne({t}, mq) /\ pc' \in [Thread -> Pcs] /\ pc'[t] \notin Copying \cup Detaching
    BY <1>0, <2>1, WakeDoes
  <2>4. mq_entry' = mq_entry + 1
    BY <1>4 DEF MqLink, Link, LinkFirst, LinkLast
  <2> QED BY <2>1, <2>2, <2>3, <2>4 DEF MqDoes, Calm, NoCopy, Copying, Detaching
<1>5. CASE MqRecvResumed(t)
  <2>1. Runs(t) /\ pc[t] = "woken" /\ on[t] = mq /\ alive' = alive
    BY <1>5, ReturnsFrom DEF MqRecvResumed
  <2>2. CASE k.error[t] # "EOK"
    <3>1. Goto(t, "run") /\ k' = k /\ on' = on /\ mq_entry' = mq_entry
      BY <1>5, <2>2 DEF MqRecvResumed, mqvars, nodes
    <3>2. Quiet({t}) /\ pc' \in [Thread -> Pcs] /\ pc'[t] = "run"
      BY <2>1, <3>1, QuietDoes DEF Pcs
    <3> QED BY <2>1, <2>2, <3>1, <3>2 DEF Calm, MqDoes, Copying, Detaching, NoCopy
  <2>3. CASE k.error[t] = "EOK"
    <3>1. t \in Out(mq, "EOK") /\ mq \in alive
      BY <1>5, <2>1, <2>3, ReturnsFrom DEF MqRecvResumed, OwnerAlive
    <3>2. PICK left : MqRecvRound(t, left, TRUE)
      BY <1>5, <2>3 DEF MqRecvResumed
    <3>3. MqDoes({t}) /\ pc' \in [Thread -> Pcs] /\ pc'[t] \notin Detaching
      BY <2>1, <3>1, <3>2, MqRecvRoundDoes DEF From
    <3> QED BY <2>1, <3>3 DEF Calm
  <2> QED BY <2>2, <2>3
<1>6. CASE MqGiveBack(t)
  <2>1. Runs(t) /\ pc[t] = "mq_copy" /\ UNCHANGED <<k, on, alive, mq_entry>> /\ Goto(t, "run")
    BY <1>6, RunsAt DEF MqGiveBack, At, Pcs
  <2>2. Quiet({t}) /\ pc' \in [Thread -> Pcs] /\ pc'[t] = "run"
    BY <2>1, QuietDoes DEF Pcs
  <2> QED BY <2>1, <2>2 DEF Calm, MqDoes, Copying, Detaching, NoCopy
<1> QED BY <1>1, <1>2, <1>3, <1>4, <1>5, <1>6

\* The same for sends from an interrupt handler.
LEMMA MessageQueueIsrDoes ==
    ASSUME ThreadsOK, MessageQueueIsr
    PROVE  MqDoes({}) /\ Calm({})
<1>0. mq \in Queue
  BY ListsAssumption
<1>1. PICK b \in Message, urgent \in BOOLEAN : MqSendIsr(b, urgent)
  BY DEF MessageQueueIsr
<1>2. mq \in alive /\ WakeIsr(mq) /\ on' = on /\ alive' = alive
  BY <1>1 DEF MqSendIsr
<1>3. WakesOne({}, mq) /\ pc' \in [Thread -> Pcs]
  BY <1>0, <1>2, WakeIsrDoes
<1>4. mq_entry' = mq_entry + 1
  BY <1>1 DEF MqSendIsr, Link, LinkFirst, LinkLast
<1> QED BY <1>2, <1>3, <1>4 DEF MqDoes, Calm, NoCopy

-----------------------------------------------------------------------------
(* Memory pool: counts and wake-ups.                                       *)

\* Threads on the pool's list, and threads its timers have taken off it.
Waiters == ToSet(k.wait[mp])
Late    == Out(mp, "ETIMEOUT")

\* The threads the pool's count stands for, beyond those of the past.
PoolSum == Cardinality(Waiters) + Cardinality(Late)

BlocksOK ==
    /\ block_list \in Seq(Block) /\ IsInjective(block_list)
    /\ block_free_count = Len(block_list)

CountOK ==
    /\ suspend_thread_count \in Nat /\ expired \in Nat
    /\ fault \/ suspend_thread_count = PoolSum + expired

\* t is in the loop of rt_mp_detach.
Detaches(t) == pc[t] \in Detaching /\ on[t] = mp

\* There is at most one such thread, the pool is then no longer used, and when
\* the loop is about to take a waiter the count is not zero.
DetachOK ==
    \A t \in Thread : Detaches(t) =>
        /\ mp \notin alive
        /\ \A u \in Thread : Detaches(u) => u = t
        /\ pc[t] = "detach_resume" => suspend_thread_count > 0

PoolInv == BlocksOK /\ CountOK /\ DetachOK /\ Covered(mp, block_free_count)

\* The sets can be counted.
LEMMA PoolFinite ==
    ASSUME ThreadsOK
    PROVE  /\ IsFiniteSet(Waiters) /\ Cardinality(Waiters) \in Nat
           /\ IsFiniteSet(Late) /\ Cardinality(Late) \in Nat
           /\ Waiters \subseteq Thread /\ Waiters \cap Late = {}
<1>0. mp \in Queue /\ IpcCore
  BY ListsAssumption DEF ThreadsOK
<1>1. Waiters \subseteq Thread
  BY <1>0 DEF IpcCore, KernelOK, KernelState, Waiters, ToSet
<1>2. IsFiniteSet(Waiters)
  BY <1>1, FiniteAssumption, FS_Subset
<1>3. \A u \in Waiters : k.stat[u] = "SUSPEND"
  BY <1>0, <1>1, WaiterOn DEF Waiters
<1>4. IsFiniteSet(Late) /\ Cardinality(Late) \in Nat
  BY OutFinite DEF Late
<1> QED BY <1>1, <1>2, <1>3, <1>4, FS_CardinalityType DEF Late, Out

\* How the sum changes with the sets.
LEMMA SumJoins ==
    ASSUME ThreadsOK, NEW t, t \notin Waiters, Waiters' = Waiters \cup {t}, Late' = Late
    PROVE  PoolSum' = PoolSum + 1
<1> DEFINE W == Waiters
           L == Late
<1>1. IsFiniteSet(W) /\ Cardinality(W) \in Nat /\ Cardinality(L) \in Nat /\ t \notin W
  BY PoolFinite
<1>2. PoolSum = Cardinality(W) + Cardinality(L) /\ PoolSum' = Cardinality(W \cup {t}) + Cardinality(L)
  BY DEF PoolSum
<1> HIDE DEF W, L
<1>3. Cardinality(W \cup {t}) = Cardinality(W) + 1
  BY <1>1, FS_AddElement
<1> QED BY <1>1, <1>2, <1>3

\* A waiter is woken, by a free block or by a detach.
LEMMA SumWakes ==
    ASSUME ThreadsOK, NEW h \in Waiters, Waiters' = Waiters \ {h}, Late' = Late
    PROVE  PoolSum' = PoolSum - 1 /\ PoolSum > 0
<1> DEFINE W == Waiters
           L == Late
<1>1. IsFiniteSet(W) /\ Cardinality(W) \in Nat /\ Cardinality(L) \in Nat /\ h \in W
  BY PoolFinite
<1>2. PoolSum = Cardinality(W) + Cardinality(L) /\ PoolSum' = Cardinality(W \ {h}) + Cardinality(L)
  BY DEF PoolSum
<1> HIDE DEF W, L
<1>3. Cardinality(W \ {h}) = Cardinality(W) - 1 /\ IsFiniteSet(W \ {h})
  BY <1>1, FS_RemoveElement
<1>4. Cardinality(W \ {h}) \in Nat
  BY <1>3, FS_CardinalityType
<1> QED BY <1>1, <1>2, <1>3, <1>4

\* The timer of a waiter expires.
LEMMA SumExpires ==
    ASSUME ThreadsOK, NEW h \in Waiters, Waiters' = Waiters \ {h}, Late' = Late \cup {h}
    PROVE  PoolSum' = PoolSum
<1> DEFINE W == Waiters
           L == Late
<1>1. /\ IsFiniteSet(W) /\ Cardinality(W) \in Nat /\ h \in W
      /\ IsFiniteSet(L) /\ Cardinality(L) \in Nat /\ h \notin L
  BY PoolFinite
<1>2. /\ PoolSum = Cardinality(W) + Cardinality(L)
      /\ PoolSum' = Cardinality(W \ {h}) + Cardinality(L \cup {h})
  BY DEF PoolSum
<1> HIDE DEF W, L
<1>3. Cardinality(W \ {h}) = Cardinality(W) - 1
  BY <1>1, FS_RemoveElement
<1>4. Cardinality(L \cup {h}) = Cardinality(L) + 1
  BY <1>1, FS_AddElement
<1> QED BY <1>1, <1>2, <1>3, <1>4

\* A thread whose timer expired returns.
LEMMA SumReturns ==
    ASSUME ThreadsOK, NEW t, Waiters' = Waiters, Late' = Late \ {t}
    PROVE  PoolSum' = PoolSum - (IF t \in Late THEN 1 ELSE 0)
<1> DEFINE W == Waiters
           L == Late
<1>1. IsFiniteSet(L) /\ Cardinality(W) \in Nat /\ Cardinality(L) \in Nat
  BY PoolFinite
<1>2. PoolSum = Cardinality(W) + Cardinality(L) /\ PoolSum' = Cardinality(W) + Cardinality(L \ {t})
  BY DEF PoolSum
<1>3. t \in Late <=> t \in L
  OBVIOUS
<1> HIDE DEF W, L
<1>4. Cardinality(L \ {t}) = IF t \in L THEN Cardinality(L) - 1 ELSE Cardinality(L)
  BY <1>1, FS_RemoveElement
<1> QED BY <1>1, <1>2, <1>3, <1>4

\* There are waiters exactly if there is something to count.
LEMMA SumNat ==
    ASSUME ThreadsOK
    PROVE  PoolSum \in Nat /\ (PoolSum = 0 => Waiters = {}) /\ (Waiters # {} => PoolSum > 0)
<1> DEFINE W == Waiters
           L == Late
<1>1. IsFiniteSet(W) /\ Cardinality(W) \in Nat /\ Cardinality(L) \in Nat
  BY PoolFinite
<1>2. PoolSum = Cardinality(W) + Cardinality(L)
  BY DEF PoolSum
<1>3. W = Waiters
  OBVIOUS
<1> HIDE DEF W, L
<1>4. Cardinality(W) = 0 <=> W = {}
  BY <1>1, FS_EmptySet
<1> QED BY <1>1, <1>2, <1>3, <1>4

\* What the calls on the pool do to its counts and to the lists.
MpDoes(T) ==
    \/ /\ mp \in alive /\ block_list # << >> /\ block_list' = Tail(block_list)
       /\ block_free_count' = block_free_count - 1 /\ Quiet(T)
       /\ \A t \in T : From(t, mp)
       /\ UNCHANGED <<suspend_thread_count, expired, fault>>
    \/ /\ block_free_count = 0 /\ Quiet(T)
       /\ \A t \in T : From(t, mp)
       /\ UNCHANGED <<mpvars, fault>>
    \/ /\ mp \in alive /\ block_free_count = 0
       /\ \E t : T = {t} /\ From(t, mp) /\ Joins(t, mp)
       /\ suspend_thread_count' = suspend_thread_count + 1
       /\ UNCHANGED <<block_list, block_free_count, expired, fault>>
    \/ /\ \E t : /\ T = {t} /\ pc[t] = "woken" /\ on[t] = mp /\ k.error[t] # "EOK"
                 /\ expired' = expired + IF k.error[t] = "ETIMEOUT" THEN 1 ELSE 0
       /\ Quiet(T)
       /\ UNCHANGED <<block_list, block_free_count, suspend_thread_count, fault>>
    \/ /\ \E b \in Block : Free(b)
       /\ WakesOne(T, mp) /\ \A t \in T : pc[t] = "run"
       /\ expired' = expired

\* A step of a thread that is in no detach begins or ends none.
LEMMA DetachStays ==
    ASSUME DetachOK, NEW T, Calm(T), Moves(T),
           suspend_thread_count' = suspend_thread_count \/ mp \in alive
    PROVE  DetachOK'
<1>1. \A u \in Thread : Detaches(u)' => Detaches(u) /\ pc'[u] = pc[u]
  BY DEF Calm, Moves, Detaches
<1> QED BY <1>1 DEF DetachOK, Calm

\* Putting a block back that is not on the list, and taking the top one.
LEMMA BlocksPut ==
    ASSUME BlocksOK, NEW b \in Block, Free(b)
    PROVE  BlocksOK'
<1>1. block_list' = <<b>> \o block_list /\ b \notin ToSet(block_list) /\ block_free_count' = block_free_count + 1
  BY DEF Free
<1>2. /\ <<b>> \o block_list \in Seq(Block) /\ Len(<<b>> \o block_list) = Len(block_list) + 1
      /\ IsInjective(<<b>> \o block_list)
  BY <1>1, ListPrepend DEF BlocksOK
<1> QED BY <1>1, <1>2 DEF BlocksOK

\* Taking the top block.
LEMMA BlocksTake ==
    ASSUME BlocksOK, block_list # << >>, block_list' = Tail(block_list),
           block_free_count' = block_free_count - 1
    PROVE  BlocksOK'
<1>1. /\ Tail(block_list) \in Seq(Block) /\ Len(Tail(block_list)) = Len(block_list) - 1
      /\ \A j \in 1 .. Len(block_list) - 1 : Tail(block_list)[j] = block_list[j + 1]
  BY DEF BlocksOK
<1>2. IsInjective(Tail(block_list))
  <2> DEFINE s == block_list
             r == Tail(block_list)
  <2>0. \A a, b \in 1 .. Len(s) : s[a] = s[b] => a = b
    BY ListIndex DEF BlocksOK
  <2>1. Len(s) \in Nat /\ Len(r) = Len(s) - 1 /\ r \in Seq(Block) /\ \A j \in 1 .. Len(s) - 1 : r[j] = s[j + 1]
    BY <1>1 DEF BlocksOK
  <2> HIDE DEF s, r
  <2>2. ASSUME NEW a \in 1 .. Len(r), NEW b \in 1 .. Len(r), r[a] = r[b] PROVE a = b
    <3>1. a \in 1 .. Len(s) - 1 /\ b \in 1 .. Len(s) - 1 /\ a + 1 \in 1 .. Len(s) /\ b + 1 \in 1 .. Len(s)
      BY <2>1
    <3>2. s[a + 1] = s[b + 1]
      BY <2>1, <2>2, <3>1
    <3>3. a + 1 = b + 1
      BY <2>0, <3>1, <3>2
    <3> QED BY <3>1, <3>3
  <2>3. IsInjective(r)
    BY <2>1, <2>2, ListIndex
  <2> QED BY <2>3 DEF r
<1> QED BY <1>1, <1>2 DEF BlocksOK

\* A step on the pool keeps its counts, loses no wake-up, and leaves the other
\* lists alone.
LEMMA MpDoesKeeps ==
    ASSUME ObjCore, PoolInv, ~fault, NEW T, MpDoes(T), Calm(T), NoCopy(T)
    PROVE  /\ ObjCore'
           /\ \A q \in {event, mb, mb_sender, mq} : Still(q)
           /\ PoolInv'
<1>0. /\ ThreadsOK /\ IpcCore /\ {event, mb, mb_sender, mq, mp} \subseteq Queue
      /\ \A q \in {event, mb, mb_sender, mq} : q # mp /\ q \in Queue
      /\ block_free_count \in Int
  <2>1. ThreadsOK /\ IpcCore
    BY DEF ObjCore, ThreadsOK
  <2>2. /\ {event, mb, mb_sender, mq, mp} \subseteq Queue
        /\ \A q \in {event, mb, mb_sender, mq} : q # mp
    BY ListsAssumption
  <2>3. block_free_count \in Int
    BY DEF PoolInv, BlocksOK
  <2> QED BY <2>1, <2>2, <2>3
<1>p. /\ BlocksOK /\ CountOK /\ DetachOK /\ Covered(mp, block_free_count)
      /\ suspend_thread_count = PoolSum + expired /\ suspend_thread_count \in Nat /\ expired \in Nat
      /\ PoolSum \in Nat
  BY <1>0, SumNat DEF PoolInv, CountOK
<1>a. \A t : From(t, mp) => \A r : r # mp => Away({t}, r)
  BY DEF From, Away, Out
<1>b. (\A t \in T : From(t, mp)) => \A r : r # mp => Away(T, r)
  BY DEF From, Away, Out
<1>c. Covered(mp, block_free_count)' <=>
         (ToSet(k'.wait[mp]) # {} => block_free_count' <= Cardinality(Out(mp, "EOK")'))
  BY DEF Covered
<1>d. CountOK' <=> /\ suspend_thread_count' \in Nat /\ expired' \in Nat
                   /\ fault' \/ suspend_thread_count' = PoolSum' + expired'
  BY DEF CountOK
<1>e. Quiet(T) => /\ Waiters' = Waiters /\ Late' = Late \ T /\ Moves(T)
                  /\ ToSet(k'.wait[mp]) = ToSet(k.wait[mp]) /\ Out(mp, "EOK")' = Out(mp, "EOK") \ T
  <2> SUFFICES ASSUME Quiet(T)
               PROVE  /\ Waiters' = Waiters /\ Late' = Late \ T /\ Moves(T)
                      /\ ToSet(k'.wait[mp]) = ToSet(k.wait[mp]) /\ Out(mp, "EOK")' = Out(mp, "EOK") \ T
    OBVIOUS
  <2>1. ToSet(k'.wait[mp]) = ToSet(k.wait[mp]) /\ \A f : Out(mp, f)' = Out(mp, f) \ T
    BY <1>0, QuietOut
  <2>2. Out(mp, "ETIMEOUT")' = Out(mp, "ETIMEOUT") \ T /\ Out(mp, "EOK")' = Out(mp, "EOK") \ T
    BY <2>1
  <2> QED BY <2>1, <2>2 DEF Waiters, Late, Quiet, Step
<1>f. (\A t \in T : From(t, mp)) => Late \ T = Late
  BY DEF From, Late, Out
<1>cur. k.cur \in Thread
  BY <1>0 DEF IpcCore, KernelOK, KernelState
<1>g. Waiters' = Waiters /\ Late' = Late => PoolSum' = PoolSum
  BY DEF PoolSum
<1>1. CASE /\ mp \in alive /\ block_list # << >> /\ block_list' = Tail(block_list)
           /\ block_free_count' = block_free_count - 1 /\ Quiet(T)
           /\ \A t \in T : From(t, mp)
           /\ UNCHANGED <<suspend_thread_count, expired, fault>>
  <2>1. ObjCore'
    BY <1>0, <1>1, QuietCore
  <2>2. \A q \in {event, mb, mb_sender, mq} : Still(q)
    BY <1>0, <1>1, <1>b, QuietStill
  <2>3. Step(T, {}, "EOK", {}) /\ \A u \in {} : on[u] # mp
    BY <1>1 DEF Quiet
  <2>4. ToSet(k'.wait[mp]) # {} => block_free_count - 1 <= Cardinality(Out(mp, "EOK")')
    BY <1>0, <1>p, <2>3, CoverOneLess
  <2>5. PoolSum' = PoolSum /\ Moves(T)
    BY <1>1, <1>e, <1>f, <1>g
  <2>6. BlocksOK'
    BY <1>1, <1>p, BlocksTake
  <2>7. DetachOK'
    BY <1>1, <1>p, <2>5, DetachStays
  <2> QED BY <1>1, <1>c, <1>d, <1>p, <2>1, <2>2, <2>4, <2>5, <2>6, <2>7 DEF PoolInv
<1>2. CASE /\ block_free_count = 0 /\ Quiet(T)
           /\ \A t \in T : From(t, mp)
           /\ UNCHANGED <<mpvars, fault>>
  <2>0. UNCHANGED <<block_list, block_free_count, suspend_thread_count, expired, fault>>
    BY <1>2 DEF mpvars
  <2>1. ObjCore'
    BY <1>0, <1>2, QuietCore
  <2>2. \A q \in {event, mb, mb_sender, mq} : Still(q)
    BY <1>0, <1>2, <1>b, QuietStill
  <2>4. 0 <= Cardinality(Out(mp, "EOK")')
    BY CoverNone
  <2>5. PoolSum' = PoolSum /\ Moves(T)
    BY <1>2, <1>e, <1>f, <1>g
  <2>6. BlocksOK'
    BY <1>p, <2>0 DEF BlocksOK
  <2>7. DetachOK'
    BY <1>p, <2>0, <2>5, DetachStays
  <2> QED BY <1>2, <1>c, <1>d, <1>p, <2>0, <2>1, <2>2, <2>4, <2>5, <2>6, <2>7 DEF PoolInv
<1>3. ASSUME mp \in alive, block_free_count = 0, NEW t, T = {t}, From(t, mp), Joins(t, mp),
             suspend_thread_count' = suspend_thread_count + 1,
             UNCHANGED <<block_list, block_free_count, expired, fault>>
      PROVE  ObjCore' /\ (\A q \in {event, mb, mb_sender, mq} : Still(q)) /\ PoolInv'
  <2>1. ObjCore'
    BY <1>0, <1>3, JoinsCore
  <2>2. \A q \in {event, mb, mb_sender, mq} : Still(q)
    BY <1>0, <1>3, <1>a, JoinsStill
  <2>3. Step({t}, {}, "EOK", {mp})
    BY <1>3 DEF Joins
  <2>4. 0 <= Cardinality(Out(mp, "EOK")')
    BY CoverNone
  <2>5. /\ ToSet(k'.wait[mp]) = (ToSet(k.wait[mp]) \ {}) \cup (IF mp \in {mp} THEN {t} ELSE {})
        /\ Out(mp, "ETIMEOUT")' = (Out(mp, "ETIMEOUT") \ {t}) \cup {u \in {} : on[u] = mp /\ "ETIMEOUT" = "EOK"}
    BY <1>0, <2>3, StepOut
  <2>6. Waiters' = Waiters \cup {t}
    BY <2>5 DEF Waiters
  <2>7. Late' = Late
    BY <1>3, <1>f, <2>5 DEF Late
  <2>8. t \notin Waiters
    <3>1. k.stat[t] = "READY" /\ t \in Thread
      BY <1>cur, <2>3 DEF Step
    <3> QED BY <1>0, <3>1, WaiterOn DEF Waiters
  <2>9. PoolSum' = PoolSum + 1
    BY <1>0, <2>6, <2>7, <2>8, SumJoins
  <2>10. BlocksOK'
    BY <1>3, <1>p DEF BlocksOK
  <2>11. DetachOK'
    BY <1>3, <1>p, <2>3, DetachStays DEF Step
  <2>12. suspend_thread_count' = PoolSum' + expired' /\ suspend_thread_count' \in Nat
    BY <1>3, <1>p, <2>9
  <2> QED BY <1>3, <1>c, <1>d, <1>p, <2>1, <2>2, <2>4, <2>10, <2>11, <2>12 DEF PoolInv
<1>4. ASSUME NEW t, T = {t}, pc[t] = "woken", on[t] = mp, k.error[t] # "EOK",
             expired' = expired + IF k.error[t] = "ETIMEOUT" THEN 1 ELSE 0, Quiet(T),
             UNCHANGED <<block_list, block_free_count, suspend_thread_count, fault>>
      PROVE  ObjCore' /\ (\A q \in {event, mb, mb_sender, mq} : Still(q)) /\ PoolInv'
  <2>1. ObjCore'
    BY <1>0, <1>4, QuietCore
  <2>2. \A q \in {event, mb, mb_sender, mq} : Away(T, q)
    BY <1>0, <1>4 DEF Away
  <2>3. \A q \in {event, mb, mb_sender, mq} : Still(q)
    BY <1>0, <1>4, <2>2, QuietStill
  <2>4. Out(mp, "EOK")' = Out(mp, "EOK") /\ ToSet(k'.wait[mp]) = ToSet(k.wait[mp])
    BY <1>4, <1>e DEF Out
  <2>5. ToSet(k'.wait[mp]) # {} => block_free_count <= Cardinality(Out(mp, "EOK")')
    BY <1>0, <1>p, <2>4, CoverSame
  <2>6. t \in Late <=> k.error[t] = "ETIMEOUT"
    <3>1. k.stat[t] = "READY" /\ t \in Thread
      BY <1>4, <1>cur DEF Quiet, Step
    <3> QED BY <1>4, <3>1 DEF Late, Out
  <2>7. Waiters' = Waiters /\ Late' = Late \ {t}
    BY <1>4, <1>e
  <2>8. PoolSum' = PoolSum - (IF t \in Late THEN 1 ELSE 0)
    BY <1>0, <2>7, SumReturns
  <2>9. BlocksOK'
    BY <1>4, <1>p DEF BlocksOK
  <2>10. DetachOK'
    BY <1>4, <1>e, <1>p, DetachStays
  <2>11. suspend_thread_count' = PoolSum' + expired' /\ expired' \in Nat
    BY <1>4, <1>p, <2>6, <2>8
  <2> QED BY <1>4, <1>c, <1>d, <1>p, <2>1, <2>3, <2>5, <2>9, <2>10, <2>11 DEF PoolInv
<1>5. ASSUME NEW b \in Block, Free(b), WakesOne(T, mp), \A t \in T : pc[t] = "run", expired' = expired
      PROVE  ObjCore' /\ (\A q \in {event, mb, mb_sender, mq} : Still(q)) /\ PoolInv'
  <2>0. /\ mp \in alive /\ block_free_count' = block_free_count + 1
        /\ suspend_thread_count' = suspend_thread_count - IF suspend_thread_count > 0 THEN 1 ELSE 0
        /\ fault' = (suspend_thread_count > 0 /\ k.wait[mp] = << >>)
    BY <1>5 DEF Free
  <2>1. OwnerAlive(mp)
    BY <1>0, <2>0 DEF OwnerAlive
  <2>2. ObjCore'
    BY <1>0, <1>5, <2>1, WakesCore
  <2>3. \A q : Away(T, q)
    BY <1>5 DEF Away
  <2>4. \A q \in {event, mb, mb_sender, mq} : Still(q)
    BY <1>0, <1>5, <2>3, WakesStill
  <2>5. ToSet(k'.wait[mp]) # {} => block_free_count + 1 <= Cardinality(Out(mp, "EOK")')
    BY <1>0, <1>5, <1>p, <2>3, CoverOneMore
  <2>6. BlocksOK'
    BY <1>5, <1>p, BlocksPut
  <2>7. Late \ T = Late
    BY <1>5 DEF Late, Out
  <2>8. CASE ToSet(k.wait[mp]) = {}
    <3>1. Quiet(T)
      BY <1>5, <2>8 DEF WakesOne
    <3>2. PoolSum' = PoolSum /\ Moves(T)
      BY <1>e, <1>g, <2>7, <3>1
    <3>3. DetachOK'
      BY <1>p, <2>0, <3>2, DetachStays
    <3>4. k.wait[mp] = << >>
      <4>1. k.wait[mp] \in Seq(Thread)
        BY <1>0 DEF IpcCore, KernelOK, KernelState
      <4>2. k.wait[mp] # << >> => k.wait[mp][1] \in ToSet(k.wait[mp])
        BY <4>1 DEF ToSet
      <4> QED BY <2>8, <4>2
    <3>5. suspend_thread_count' \in Nat /\ (fault' \/ suspend_thread_count' = PoolSum' + expired')
      <4>1. CASE suspend_thread_count > 0
        <5>1. fault' = TRUE
          BY <2>0, <3>4, <4>1
        <5>2. suspend_thread_count' = suspend_thread_count - 1
          BY <2>0, <4>1
        <5> QED BY <1>p, <4>1, <5>1, <5>2
      <4>2. CASE ~(suspend_thread_count > 0)
        <5>1. suspend_thread_count' = suspend_thread_count - 0
          BY <2>0, <4>2
        <5> QED BY <1>5, <1>p, <3>2, <5>1
      <4> QED BY <4>1, <4>2
    <3> QED BY <1>5, <1>c, <1>d, <1>p, <2>0, <2>2, <2>4, <2>5, <2>6, <3>3, <3>5 DEF PoolInv
  <2>9. CASE ToSet(k.wait[mp]) # {}
    <3>1. PICK h \in ToSet(k.wait[mp]) : Step(T, {h}, "EOK", {})
      BY <1>5, <2>9 DEF WakesOne
    <3>2. /\ ToSet(k'.wait[mp]) = (ToSet(k.wait[mp]) \ {h}) \cup (IF mp \in {} THEN T ELSE {})
          /\ Out(mp, "ETIMEOUT")' = (Out(mp, "ETIMEOUT") \ T) \cup {u \in {h} : on[u] = mp /\ "ETIMEOUT" = "EOK"}
      BY <1>0, <3>1, StepOut
    <3>3. h \in Waiters /\ Waiters' = Waiters \ {h} /\ Late' = Late
      BY <2>7, <3>1, <3>2 DEF Waiters, Late
    <3>4. PoolSum' = PoolSum - 1 /\ PoolSum > 0
      BY <1>0, <3>3, SumWakes
    <3>5. DetachOK'
      BY <1>p, <2>0, <3>1, DetachStays DEF Step
    <3>6. suspend_thread_count' \in Nat /\ suspend_thread_count' = PoolSum' + expired'
      BY <1>5, <1>p, <2>0, <3>4
    <3> QED BY <1>5, <1>c, <1>d, <1>p, <2>0, <2>2, <2>4, <2>5, <2>6, <3>5, <3>6 DEF PoolInv
  <2> QED BY <2>8, <2>9
<1> QED BY <1>1, <1>2, <1>3, <1>4, <1>5 DEF MpDoes

\* Storing RT_EOK in the first waiter changes nothing: that is what it has.
LEMMA FirstResumes ==
    ASSUME ThreadsOK
    PROVE  /\ k.wait[mp] = << >> => ResumeFirst = k
           /\ k.wait[mp] # << >> => ResumeFirst = rt_ipc_list_resume(k, mp)
<1>1. mp \in Queue /\ IpcCore /\ k \in KernelState
  BY ListsAssumption DEF ThreadsOK, IpcCore, KernelOK
<1>2. ASSUME k.wait[mp] # << >>
      PROVE  [k EXCEPT !.error[Head(k.wait[mp])] = "EOK"] = k
  <2>1. k.wait[mp] \in Seq(Thread)
    BY <1>1 DEF KernelState
  <2>2. Head(k.wait[mp]) \in ToSet(k.wait[mp]) /\ Head(k.wait[mp]) \in Thread
    BY <1>2, <2>1 DEF ToSet
  <2>3. k.stat[Head(k.wait[mp])] = "SUSPEND"
    BY <1>1, <2>2, WaiterOn
  <2>4. k.error[Head(k.wait[mp])] = "EOK"
    BY <1>1, <2>2, <2>3 DEF IpcCore, Waiting
  <2>5. k.error \in [Thread -> Error]
    BY <1>1 DEF KernelState
  <2>6. [k.error EXCEPT ![Head(k.wait[mp])] = "EOK"] = k.error
    BY <2>2, <2>4, <2>5
  <2> QED BY <1>1, <2>6 DEF KernelState
<1>3. k.wait[mp] # << >> => ResumeFirst = rt_thread_resume(k, Head(k.wait[mp]))
  BY <1>2 DEF ResumeFirst
<1> QED BY <1>3 DEF ResumeFirst, rt_ipc_list_resume

\* One round of rt_mp_alloc.
LEMMA AllocRoundDoes ==
    ASSUME ThreadsOK, NEW t, Runs(t), NEW time, AllocRound(t, time),
           mp \in alive, From(t, mp), alive' = alive
    PROVE  MpDoes({t}) /\ pc' \in [Thread -> Pcs] /\ pc'[t] \notin Copying \cup Detaching
<1>0. mp \in Queue
  BY ListsAssumption
<1>1. CASE /\ block_free_count # 0
           /\ block_list # << >>
           /\ block_free_count' = block_free_count - 1
           /\ block_list' = Tail(block_list)
           /\ Goto(t, "run") /\ Ends(t)
           /\ UNCHANGED <<k, on, suspend_thread_count, expired, fault>>
  <2>1. Quiet({t}) /\ pc' \in [Thread -> Pcs] /\ pc'[t] = "run"
    BY <1>1, QuietDoes DEF Pcs
  <2> QED BY <1>1, <2>1 DEF MpDoes, Copying, Detaching
<1>2. CASE /\ block_free_count = 0 /\ time = 0
           /\ k' = [k EXCEPT !.error[t] = "ETIMEOUT"]
           /\ Goto(t, "run") /\ Ends(t)
           /\ UNCHANGED <<on, mpvars, fault>>
  <2>0. \E e \in Error : k' = [k EXCEPT !.error[t] = e]
    BY <1>2 DEF Error
  <2>1. Quiet({t}) /\ pc' \in [Thread -> Pcs] /\ pc'[t] = "run"
    BY <1>2, <2>0, QuietDoes DEF Pcs
  <2> QED BY <1>2, <2>1 DEF MpDoes, Copying, Detaching
<1>3. CASE /\ block_free_count = 0 /\ time # 0 /\ suspend_thread_count < MaxSuspended
           /\ k' = SuspendAtHead(k, mp, t, time)
           /\ suspend_thread_count' = suspend_thread_count + 1
           /\ on' = [on EXCEPT ![t] = mp]
           /\ timeout' = [timeout EXCEPT ![t] = time]
           /\ Goto(t, "block")
           /\ UNCHANGED <<block_list, block_free_count, expired, fault>>
  <2>1. Joins(t, mp) /\ pc' \in [Thread -> Pcs]
    BY <1>0, <1>3, JoinsStep
  <2>2. pc'[t] = "block"
    BY <1>3 DEF Goto, ThreadsOK, Runs
  <2> QED BY <1>3, <2>1, <2>2 DEF MpDoes, Copying, Detaching
<1> QED BY <1>1, <1>2, <1>3 DEF AllocRound

\* The calls on the pool, and their returns from a wait.
LEMMA MemPoolDoes ==
    ASSUME ThreadsOK, Gone, PoolInv, ~fault, NEW t \in Thread,
           \/ \E time \in Time : rt_mp_alloc(t, time)
           \/ \E b \in Block : rt_mp_free(t, b)
           \/ AllocResumed(t)
    PROVE  MpDoes({t}) /\ Calm({t}) /\ NoCopy({t})
<1>0. mp \in Queue
  BY ListsAssumption
<1>1. CASE \E time \in Time : rt_mp_alloc(t, time)
  <2>1. PICK time \in Time : rt_mp_alloc(t, time)
    BY <1>1
  <2>2. Runs(t) /\ pc[t] = "run" /\ mp \in alive /\ alive' = alive /\ From(t, mp)
    BY <2>1, RunsAt DEF rt_mp_alloc, CallsOn, Calls, At, From
  <2>3. MpDoes({t}) /\ pc' \in [Thread -> Pcs] /\ pc'[t] \notin Copying \cup Detaching
    BY <2>1, <2>2, AllocRoundDoes DEF rt_mp_alloc
  <2> QED BY <2>2, <2>3 DEF Calm, NoCopy
<1>2. CASE \E b \in Block : rt_mp_free(t, b)
  <2>1. PICK b \in Block : rt_mp_free(t, b)
    BY <1>2
  <2>2. Runs(t) /\ pc[t] = "run" /\ mp \in alive /\ UNCHANGED <<alive, on, expired>> /\ Free(b)
    BY <2>1, RunsAt DEF rt_mp_free, CallsOn, Calls, At
  <2>3. CASE suspend_thread_count > 0
    <3>1. Goto(t, "resched") /\ k' = ResumeFirst
      BY <2>1, <2>3 DEF rt_mp_free
    <3>2. Moves({t}) /\ Arrive({t}, {}) /\ on' \in [Thread -> Queue] /\ pc' \in [Thread -> Pcs]
      BY <2>2, <3>1, GoesOn DEF Pcs
    <3>3. /\ k.wait[mp] = << >> => k' = k
          /\ k.wait[mp] # << >> => k' = rt_ipc_list_resume(k, mp)
      BY <3>1, FirstResumes
    <3>4. WakesOne({t}, mp)
      BY <1>0, <2>2, <3>2, <3>3, WakesStep
    <3>5. pc'[t] = "resched"
      BY <3>1 DEF Goto, ThreadsOK
    <3> QED BY <2>2, <3>2, <3>4, <3>5 DEF MpDoes, Calm, NoCopy, Copying, Detaching
  <2>4. CASE ~(suspend_thread_count > 0)
    <3>1. UNCHANGED <<k, pc>>
      BY <2>1, <2>4 DEF rt_mp_free, kvars
    <3>2. Quiet({t}) /\ pc' \in [Thread -> Pcs] /\ pc'[t] = "run"
      BY <2>2, <3>1, IdleDoes
    <3>3. ToSet(k.wait[mp]) = {}
      <4>1. PoolSum \in Nat /\ (PoolSum = 0 => Waiters = {})
        BY SumNat
      <4>2. suspend_thread_count = PoolSum + expired /\ suspend_thread_count \in Nat /\ expired \in Nat
        BY DEF PoolInv, CountOK
      <4>3. PoolSum = 0
        BY <2>4, <4>1, <4>2
      <4> QED BY <4>1, <4>3 DEF Waiters
    <3>4. WakesOne({t}, mp)
      BY <3>2, <3>3 DEF WakesOne
    <3> QED BY <2>2, <3>2, <3>4 DEF MpDoes, Calm, NoCopy, Copying, Detaching
  <2> QED BY <2>3, <2>4
<1>3. CASE AllocResumed(t)
  <2>1. Runs(t) /\ pc[t] = "woken" /\ on[t] = mp /\ alive' = alive
    BY <1>3, ReturnsFrom DEF AllocResumed
  <2>2. CASE k.error[t] # "EOK"
    <3>1. /\ Goto(t, "run") /\ k' = k /\ on' = on
          /\ expired' = expired + IF k.error[t] = "ETIMEOUT" THEN 1 ELSE 0
          /\ UNCHANGED <<block_list, block_free_count, suspend_thread_count, fault>>
      BY <1>3, <2>2 DEF AllocResumed
    <3>2. Quiet({t}) /\ pc' \in [Thread -> Pcs] /\ pc'[t] = "run"
      BY <2>1, <3>1, QuietDoes DEF Pcs
    <3> QED BY <2>1, <2>2, <3>1, <3>2 DEF Calm, MpDoes, Copying, Detaching, NoCopy
  <2>3. CASE k.error[t] = "EOK"
    <3>1. t \in Out(mp, "EOK") /\ mp \in alive
      BY <1>3, <2>1, <2>3, ReturnsFrom DEF AllocResumed, OwnerAlive
    <3>2. PICK left : AllocRound(t, left)
      BY <1>3, <2>3 DEF AllocResumed
    <3>3. MpDoes({t}) /\ pc' \in [Thread -> Pcs] /\ pc'[t] \notin Copying \cup Detaching
      BY <2>1, <3>1, <3>2, AllocRoundDoes DEF From
    <3> QED BY <2>1, <3>3 DEF Calm, NoCopy
  <2> QED BY <2>2, <2>3
<1> QED BY <1>1, <1>2, <1>3

\* The same for blocks freed by an interrupt handler.
LEMMA MemPoolIsrDoes ==
    ASSUME ThreadsOK, PoolInv, ~fault, MemPoolIsr
    PROVE  MpDoes({}) /\ Calm({}) /\ NoCopy({})
<1>0. mp \in Queue
  BY ListsAssumption
<1>1. PICK b \in Block : FreeIsr(b)
  BY DEF MemPoolIsr
<1>2. UNCHANGED <<pc, alive, on, expired>> /\ Free(b)
  BY <1>1 DEF FreeIsr
<1>3. pc' \in [Thread -> Pcs] /\ on' \in [Thread -> Queue] /\ Moves({}) /\ Arrive({}, {})
  BY <1>2 DEF ThreadsOK, IpcCore, Moves, Arrive
<1>4. CASE suspend_thread_count > 0 /\ k.wait[mp] # << >>
  <2>1. k' = rt_schedule(rt_ipc_list_resume(k, mp))
    BY <1>1, <1>4, FirstResumes DEF FreeIsr
  <2>2. WakesOne({}, mp)
    BY <1>0, <1>3, <1>4, <2>1, WakesStep
  <2> QED BY <1>2, <1>3, <2>2 DEF MpDoes, Calm, NoCopy
<1>5. CASE ~(suspend_thread_count > 0)
  <2>1. k' = k
    BY <1>1, <1>5 DEF FreeIsr
  <2>2. ToSet(k.wait[mp]) = {}
    <3>1. PoolSum \in Nat /\ (PoolSum = 0 => Waiters = {})
      BY SumNat
    <3>2. suspend_thread_count = PoolSum + expired /\ suspend_thread_count \in Nat /\ expired \in Nat
      BY DEF PoolInv, CountOK
    <3>3. PoolSum = 0
      BY <1>5, <3>1, <3>2
    <3> QED BY <3>1, <3>3 DEF Waiters
  <2>3. k.wait[mp] = << >>
    BY <1>0, <2>2, ListEmpty DEF ThreadsOK, IpcCore, KernelOK, KernelState
  <2>4. WakesOne({}, mp)
    BY <1>0, <1>3, <2>1, <2>3, WakesStep
  <2> QED BY <1>2, <1>3, <2>4 DEF MpDoes, Calm, NoCopy
<1>6. CASE suspend_thread_count > 0 /\ k.wait[mp] = << >>
  <2>1. k' = rt_schedule(k)
    BY <1>1, <1>6, FirstResumes DEF FreeIsr
  <2>2. SliceExpired
    BY <1>2, <2>1 DEF SliceExpired
  <2>3. Quiet({})
    BY <1>2, <2>2, KernelSteps
  <2>4. ToSet(k.wait[mp]) = {}
    BY <1>6 DEF ToSet
  <2>5. WakesOne({}, mp)
    BY <2>3, <2>4 DEF WakesOne
  <2> QED BY <1>2, <1>3, <2>5 DEF MpDoes, Calm, NoCopy
<1> QED BY <1>4, <1>5, <1>6

-----------------------------------------------------------------------------
(* Event: the walk of rt_event_send along the waiters.                     *)

\* The states of the walk.
LEMMA WalkRounds ==
    ASSUME NEW bits, NEW N \in Nat, N = Len(k.wait[event])
    PROVE  \E g : /\ g[0] = WalkStart(bits)
                  /\ \A n \in 1 .. N : g[n] = WalkWaiter(g[n - 1], k.wait[event][n])
                  /\ SendWalk(bits) = g[N]
<1> DEFINE W(w, i) == WalkWaiter(w, k.wait[event][i])
           c == WalkStart(bits)
           Good(n, g) == g = [i \in 0 .. n |-> IF i = 0 THEN c ELSE W(g[i - 1], i)]
           S == {n \in 0 .. N : \E g : Good(n, g)}
<1>5. SendWalk(bits) = (CHOOSE g : Good(N, g))[N]
  BY DEF SendWalk
<1> HIDE DEF W, c
<1>1. 0 \in S
  <2> DEFINE g == [i \in 0 .. 0 |-> c]
  <2>1. \A i \in 0 .. 0 : c = IF i = 0 THEN c ELSE W(g[i - 1], i)
    OBVIOUS
  <2>2. Good(0, g)
    BY <2>1, Zenon
  <2>3. 0 \in 0 .. N
    OBVIOUS
  <2> HIDE DEF g, Good
  <2> QED BY <2>2, <2>3
<1>2. ASSUME NEW n \in 0 .. N - 1, n \in S PROVE n + 1 \in S
  <2>1. PICK g : Good(n, g)
    BY <1>2
  <2> DEFINE h == [i \in 0 .. n + 1 |-> IF i <= n THEN g[i] ELSE W(g[n], i)]
  <2>2. \A i \in 0 .. n + 1 : h[i] = IF i = 0 THEN c ELSE W(h[i - 1], i)
    <3> SUFFICES ASSUME NEW i \in 0 .. n + 1
                 PROVE  h[i] = IF i = 0 THEN c ELSE W(h[i - 1], i)
      OBVIOUS
    <3>1. CASE i = 0
      BY <2>1, <3>1
    <3>2. CASE i \in 1 .. n
      <4>1. h[i] = g[i] /\ h[i - 1] = g[i - 1]
        BY <3>2
      <4>2. g[i] = W(g[i - 1], i)
        BY <2>1, <3>2
      <4> QED BY <3>2, <4>1, <4>2
    <3>3. CASE i = n + 1
      BY <3>3
    <3> QED BY <3>1, <3>2, <3>3
  <2>3. Good(n + 1, h)
    <3> DEFINE f == [i \in 0 .. n + 1 |-> IF i = 0 THEN c ELSE W(h[i - 1], i)]
    <3>1. DOMAIN h = 0 .. n + 1 /\ h = [i \in 0 .. n + 1 |-> h[i]]
      BY Zenon
    <3>2. h = f
      <4> HIDE DEF h
      <4> QED BY <2>2, <3>1, Zenon
    <3> QED BY <3>2, Zenon
  <2>4. n + 1 \in 0 .. N
    OBVIOUS
  <2> HIDE DEF h, Good
  <2> QED BY <2>3, <2>4
<1>3. N \in S
  <2> HIDE DEF S
  <2>1. \A n \in 0 .. N : n \in S
    BY <1>1, <1>2, UpTo
  <2> QED BY <2>1
<1>4. \E g : Good(N, g)
  BY <1>3
<1>6. PICK g : Good(N, g) /\ SendWalk(bits) = g[N]
  BY <1>4, <1>5
<1>7. g[0] = c /\ \A n \in 1 .. N : g[n] = W(g[n - 1], n)
  BY <1>6
<1> QED BY <1>6, <1>7 DEF W, c

\* A flag that is up counts for one.
Up(b, s) == IF b \in s THEN 1 ELSE 0

\* The threads of S that have been given b to keep.
Takers(b, S, info, got) == {t \in S : info[t].clear /\ b \in got[t]}

\* Who has been resumed when the walk has come to w.
Called(w) == ToSet(k.wait[event]) \ ToSet(w.k.wait[event])

\* The walk is n waiters long: those it resumed are ready; the others it passed
\* are not satisfied; and every flag is where it was or has gone to one thread.
WalkedKernel(w) ==
    /\ KernelOK(w.k) /\ w.k.lock = k.lock /\ w.k.cur = k.cur
    /\ \A u \in Called(w) : u \in Thread /\ w.k.stat[u] = "READY" /\ w.k.error[u] = "EOK"
    /\ \A u \in Thread \ Called(w) : w.k.stat[u] = k.stat[u] /\ w.k.error[u] = k.error[u]
    /\ \A o \in Queue : ToSet(w.k.wait[o]) = ToSet(k.wait[o]) \ Called(w)

WalkedFlags(w, n, bits) ==
    /\ w.set \subseteq set \cup bits /\ w.got \in [Thread -> SUBSET Bit]
    /\ \A u \in Thread \ Called(w) : w.got[u] = event_set[u]
    /\ \A i \in 1 .. Len(k.wait[event]) : i > n => k.wait[event][i] \notin Called(w)
    /\ \A i \in 1 .. n : \/ k.wait[event][i] \in Called(w)
                         \/ ~Matches(w.set, event_set[k.wait[event][i]], event_info[k.wait[event][i]])
    /\ \A b \in Bit : Up(b, set \cup bits)
                        = Up(b, w.set) + Cardinality(Takers(b, Called(w), event_info, w.got))

\* A smaller set of flags satisfies nobody new.
LEMMA MatchesLess ==
    ASSUME NEW a, NEW b, a \subseteq b, NEW want, NEW option, ~Matches(b, want, option)
    PROVE  ~Matches(a, want, option)
BY DEF Matches

\* What a waiter that is satisfied does to the kernel.
LEMMA CalledKernel ==
    ASSUME ThreadsOK, NEW w, WalkedKernel(w), NEW t \in ToSet(k.wait[event]), t \notin Called(w),
           NEW v, v.k = rt_thread_resume(w.k, t)
    PROVE  WalkedKernel(v) /\ Called(v) = Called(w) \cup {t} /\ t \in Thread
<1>0. event \in Queue /\ KernelOK(k) /\ IpcCore
  BY ListsAssumption DEF ThreadsOK, IpcCore
<1>1. /\ KernelOK(w.k) /\ w.k.lock = k.lock /\ w.k.cur = k.cur
      /\ \A u \in Called(w) : u \in Thread /\ w.k.stat[u] = "READY" /\ w.k.error[u] = "EOK"
      /\ \A u \in Thread \ Called(w) : w.k.stat[u] = k.stat[u] /\ w.k.error[u] = k.error[u]
      /\ \A o \in Queue : ToSet(w.k.wait[o]) = ToSet(k.wait[o]) \ Called(w)
  BY DEF WalkedKernel
<1>2. t \in Thread
  <2>1. k.wait[event] \in Seq(Thread)
    BY <1>0 DEF KernelOK, KernelState
  <2> QED BY <2>1 DEF ToSet
<1>3. k.stat[t] = "SUSPEND" /\ k.error[t] = "EOK"
  <2>1. k.stat[t] = "SUSPEND"
    BY <1>0, <1>2, WaiterOn
  <2> QED BY <1>0, <1>2, <2>1 DEF IpcCore, Waiting
<1>4. w.k.stat[t] = "SUSPEND" /\ w.k.error[t] = "EOK"
  BY <1>1, <1>2, <1>3
<1> DEFINE c == w.k
           r == rt_thread_resume(c, t)
<1>5. /\ KernelOK(r)
      /\ r.stat = [c.stat EXCEPT ![t] = "READY"]
      /\ \A q \in Queue : ToSet(r.wait[q]) = ToSet(c.wait[q]) \ {t}
      /\ r.error = c.error
      /\ r.cur = c.cur /\ r.lock = c.lock
  <2>1. KernelOK(c) /\ c.stat[t] = "SUSPEND"
    BY <1>1, <1>4
  <2> HIDE DEF c
  <2> QED BY ONLY <1>2, <2>1, ResumeOK
<1>6. c.stat \in [Thread -> Stat]
  BY <1>1 DEF KernelOK, KernelState
<1>7. v.k = r
  OBVIOUS
<1> HIDE DEF c, r
<1>8. r.stat[t] = "READY" /\ \A u \in Thread \ {t} : r.stat[u] = c.stat[u]
  BY <1>2, <1>5, <1>6
<1>9. Called(v) = Called(w) \cup {t}
  <2>1. ToSet(v.k.wait[event]) = ToSet(w.k.wait[event]) \ {t}
    BY <1>0, <1>5, <1>7 DEF c
  <2> QED BY <2>1 DEF Called
<1> DEFINE G == Called(v)
           H == Called(w)
<1>10. G = H \cup {t} /\ H = Called(w) /\ G = Called(v)
  BY <1>9
<1>11. c = w.k
  BY DEF c
<1> HIDE DEF G, H
<1>12. \A u \in G : u \in Thread /\ r.stat[u] = "READY" /\ r.error[u] = "EOK"
  BY <1>1, <1>2, <1>4, <1>5, <1>8, <1>10, <1>11
<1>13. \A u \in Thread \ G : r.stat[u] = k.stat[u] /\ r.error[u] = k.error[u]
  BY <1>1, <1>5, <1>8, <1>10, <1>11
<1>14. \A o \in Queue : ToSet(r.wait[o]) = ToSet(k.wait[o]) \ G
  BY <1>1, <1>5, <1>10, <1>11
<1>15. KernelOK(r) /\ r.lock = k.lock /\ r.cur = k.cur
  BY <1>1, <1>5, <1>11
<1>16. WalkedKernel(v)
  BY <1>7, <1>10, <1>12, <1>13, <1>14, <1>15 DEF WalkedKernel
<1> QED BY <1>2, <1>9, <1>16

\* One more waiter.
LEMMA WalkOneMore ==
    ASSUME ThreadsOK, EventTypeOK, NEW bits \in SUBSET Bit, NEW n \in 1 .. Len(k.wait[event]),
           NEW w, WalkedKernel(w), WalkedFlags(w, n - 1, bits),
           NEW v, v = WalkWaiter(w, k.wait[event][n])
    PROVE  WalkedKernel(v) /\ WalkedFlags(v, n, bits)
<1> DEFINE t == k.wait[event][n]
           H == Called(w)
           s == k.wait[event]
           N == Len(k.wait[event])
           want == event_set[k.wait[event][n]]
           info == event_info[k.wait[event][n]]
<1>0. s \in Seq(Thread) /\ IsInjective(s) /\ N \in Nat
  BY ListsAssumption, SMTT(60) DEF ThreadsOK, IpcCore, KernelOK, KernelState, KernelInv, NoDuplicates
<1>1. t \in ToSet(s) /\ t \in Thread
  BY <1>0 DEF ToSet
<1>2. /\ w.set \subseteq set \cup bits /\ w.got \in [Thread -> SUBSET Bit]
      /\ \A u \in Thread \ H : w.got[u] = event_set[u]
      /\ \A i \in 1 .. N : i > n - 1 => s[i] \notin H
      /\ \A i \in 1 .. n - 1 : s[i] \in H \/ ~Matches(w.set, event_set[s[i]], event_info[s[i]])
      /\ \A b \in Bit : Up(b, set \cup bits) = Up(b, w.set) + Cardinality(Takers(b, H, event_info, w.got))
  BY DEF WalkedFlags
<1>3. t \notin H
  BY <1>2
<1>4. want \subseteq Bit /\ info \in Option
  BY <1>1 DEF EventTypeOK
<1>5. CASE ~Matches(w.set, want, info)
  <2>1. v = w
    BY <1>5 DEF WalkWaiter
  <2>2. \A i \in 1 .. N : i > n => s[i] \notin H
    BY <1>0, <1>2
  <2>3. \A i \in 1 .. n : s[i] \in H \/ ~Matches(w.set, event_set[s[i]], event_info[s[i]])
    BY <1>2, <1>5
  <2>4. WalkedFlags(w, n, bits)
    BY <1>2, <2>2, <2>3 DEF WalkedFlags
  <2> QED BY <2>1, <2>4
<1>6. CASE Matches(w.set, want, info)
  <2> DEFINE got == IF info.all THEN want ELSE want \cap w.set
  <2>1. /\ v.k = rt_thread_resume(w.k, t)
        /\ v.set = IF info.clear THEN w.set \ got ELSE w.set
        /\ v.got = [w.got EXCEPT ![t] = got]
    BY <1>6 DEF WalkWaiter
  <2>2. got \subseteq w.set /\ got \subseteq Bit
    BY <1>4, <1>6 DEF Matches
  <2> HIDE DEF got
  <2>3. WalkedKernel(v) /\ Called(v) = H \cup {t}
    BY <1>1, <1>3, <2>1, CalledKernel
  <2>4. v.set \subseteq w.set
    BY <2>1
  <2>5. /\ v.got \in [Thread -> SUBSET Bit] /\ v.got[t] = got
        /\ \A u \in Thread : u # t => v.got[u] = w.got[u]
    BY <1>1, <1>2, <2>1, <2>2
  <2>6. IsFiniteSet(H) /\ H \subseteq Thread
    <3>1. H \subseteq Thread
      BY DEF WalkedKernel
    <3> QED BY <3>1, FiniteAssumption, FS_Subset
  <2> DEFINE G == Called(v)
  <2>7. G = H \cup {t}
    BY <2>3
  <2> HIDE DEF H, G
  <2>8. v.set \subseteq set \cup bits
    BY <1>2, <2>4
  <2>9. \A u \in Thread \ G : v.got[u] = event_set[u]
    BY <1>2, <2>5, <2>7
  <2>10. ASSUME NEW i \in 1 .. N, i > n PROVE s[i] \notin G
    <3>1. s[i] \notin H
      BY <1>0, <1>2, <2>10
    <3>2. s[i] # t
      <4>1. i # n
        BY <1>0, <2>10
      <4>2. \A a, b \in 1 .. Len(s) : s[a] = s[b] => a = b
        BY <1>0, ListIndex
      <4> QED BY <4>1, <4>2
    <3> QED BY <2>7, <3>1, <3>2
  <2>11. ASSUME NEW i \in 1 .. n
         PROVE  s[i] \in G \/ ~Matches(v.set, event_set[s[i]], event_info[s[i]])
    <3>1. CASE i = n
      BY <2>7, <3>1
    <3>2. CASE i # n
      <4>1. i \in 1 .. n - 1
        BY <3>2
      <4>2. s[i] \in H \/ ~Matches(w.set, event_set[s[i]], event_info[s[i]])
        BY <1>2, <4>1
      <4> QED BY <2>4, <2>7, <4>2, MatchesLess
    <3> QED BY <3>1, <3>2
  <2>12. ASSUME NEW b \in Bit
         PROVE  Up(b, set \cup bits) = Up(b, v.set) + Cardinality(Takers(b, G, event_info, v.got))
    <3> DEFINE A == Cardinality(Takers(b, H, event_info, w.got))
               B == Cardinality(Takers(b, G, event_info, v.got))
    <3>0. \A u \in H : v.got[u] = w.got[u]
      BY <1>3, <2>5, <2>6 DEF H
    <3>1. /\ A \in Nat
          /\ (info.clear /\ b \in got) => B = A + 1
          /\ ~(info.clear /\ b \in got) => B = A
      <4> DEFINE P == Takers(b, H, event_info, w.got)
                 Q == Takers(b, G, event_info, v.got)
      <4>1. t \notin H /\ IsFiniteSet(H)
        BY <1>3, <2>6 DEF H
      <4>2. P \in SUBSET H
        BY DEF Takers
      <4>3. IsFiniteSet(P) /\ t \notin P
        BY <4>1, <4>2, FS_Subset
      <4>4. Cardinality(P) \in Nat
        BY <4>3, FS_CardinalityType
      <4>5. ASSUME info.clear, b \in got PROVE Cardinality(Q) = Cardinality(P) + 1
        <5>1. Q = P \cup {t}
          BY <2>5, <2>7, <3>0, <4>5 DEF Takers
        <5> HIDE DEF P, Q
        <5>2. PICK x : x = t
          OBVIOUS
        <5>3. Cardinality(P \cup {x}) = Cardinality(P) + 1
          BY <4>3, <5>2, FS_AddElement
        <5> QED BY <5>1, <5>2, <5>3
      <4>6. ASSUME ~(info.clear /\ b \in got) PROVE Q = P
        BY <2>5, <2>7, <3>0, <4>6 DEF Takers
      <4> QED BY <4>4, <4>5, <4>6
    <3>3. Up(b, set \cup bits) = Up(b, w.set) + A
      BY <1>2 DEF H
    <3> HIDE DEF A, B
    <3>4. CASE info.clear /\ b \in got
      <4>1. Up(b, w.set) = 1 /\ Up(b, v.set) = 0
        BY <2>1, <2>2, <3>4 DEF Up
      <4>2. B = A + 1
        BY <3>1, <3>4
      <4>3. Up(b, set \cup bits) = Up(b, v.set) + B
        BY <3>1, <3>3, <4>1, <4>2
      <4> QED BY <4>3 DEF B
    <3>5. CASE ~(info.clear /\ b \in got)
      <4>1. Up(b, w.set) = Up(b, v.set)
        BY <2>1, <3>5 DEF Up
      <4>2. B = A + 0
        BY <3>1, <3>5
      <4>3. Up(b, set \cup bits) = Up(b, v.set) + B
        BY <3>1, <3>3, <4>1, <4>2
      <4> QED BY <4>3 DEF B
    <3> QED BY <3>4, <3>5
  <2>13. WalkedFlags(v, n, bits)
    BY <2>5, <2>8, <2>9, <2>10, <2>11, <2>12 DEF WalkedFlags, G
  <2> QED BY <2>3, <2>13
<1> QED BY <1>5, <1>6

\* The whole walk.
LEMMA WalkEnds ==
    ASSUME ThreadsOK, EventTypeOK, NEW bits \in SUBSET Bit
    PROVE  LET w == SendWalk(bits) IN WalkedKernel(w) /\ WalkedFlags(w, Len(k.wait[event]), bits)
<1> DEFINE N == Len(k.wait[event])
<1>1. k.wait[event] \in Seq(Thread) /\ N \in Nat
  BY ListsAssumption DEF ThreadsOK, IpcCore, KernelOK, KernelState
<1>2. PICK g : /\ g[0] = WalkStart(bits)
               /\ \A n \in 1 .. N : g[n] = WalkWaiter(g[n - 1], k.wait[event][n])
               /\ SendWalk(bits) = g[N]
  BY <1>1, WalkRounds
<1> DEFINE S == {n \in 0 .. N : WalkedKernel(g[n]) /\ WalkedFlags(g[n], n, bits)}
<1>3. 0 \in S
  <2> DEFINE w == WalkStart(bits)
  <2>1. w.k = k /\ w.set = set \cup bits /\ w.got = event_set
    BY DEF WalkStart
  <2>2. Called(w) = {}
    BY <2>1 DEF Called
  <2> HIDE DEF w
  <2>3. WalkedKernel(w)
    BY <2>1, <2>2 DEF WalkedKernel, ThreadsOK, IpcCore
  <2>4. ASSUME NEW b \in Bit
        PROVE  Up(b, set \cup bits) = Up(b, w.set) + Cardinality(Takers(b, Called(w), event_info, w.got))
    <3>1. Takers(b, Called(w), event_info, w.got) = {}
      BY <2>2 DEF Takers
    <3>2. Cardinality(Takers(b, Called(w), event_info, w.got)) = 0
      BY <3>1, FS_EmptySet
    <3> QED BY <2>1, <3>2 DEF Up
  <2>5. w.got \in [Thread -> SUBSET Bit]
    BY <2>1 DEF EventTypeOK
  <2>6. WalkedFlags(w, 0, bits)
    <3>1. \A i \in 1 .. 0 : FALSE
      OBVIOUS
    <3>2. \A i \in 1 .. N : i > 0 => k.wait[event][i] \notin Called(w)
      BY <2>2
    <3>3. w.set \subseteq set \cup bits /\ \A u \in Thread \ Called(w) : w.got[u] = event_set[u]
      BY <2>1
    <3> QED BY <2>4, <2>5, <3>1, <3>2, <3>3 DEF WalkedFlags
  <2>7. g[0] = w
    BY <1>2 DEF w
  <2> QED BY <1>1, <2>3, <2>6, <2>7
<1>4. ASSUME NEW n \in 0 .. N - 1, n \in S PROVE n + 1 \in S
  <2>1. WalkedKernel(g[n]) /\ WalkedFlags(g[n], n, bits)
    BY <1>4
  <2>2. n + 1 \in 1 .. N /\ (n + 1) - 1 = n /\ n + 1 \in 0 .. N
    BY <1>1
  <2>3. g[n + 1] = WalkWaiter(g[n], k.wait[event][n + 1])
    BY <1>2, <2>2
  <2>4. PICK m, w, v : m = n + 1 /\ w = g[n] /\ v = g[n + 1]
    OBVIOUS
  <2>5. /\ m \in 1 .. Len(k.wait[event]) /\ WalkedKernel(w) /\ WalkedFlags(w, m - 1, bits)
        /\ v = WalkWaiter(w, k.wait[event][m])
    BY <2>1, <2>2, <2>3, <2>4
  <2>6. WalkedKernel(v) /\ WalkedFlags(v, m, bits)
    BY <2>5, WalkOneMore
  <2> QED BY <2>2, <2>4, <2>6
<1>5. N \in S
  <2> HIDE DEF S
  <2>1. \A n \in 0 .. N : n \in S
    BY <1>1, <1>3, <1>4, UpTo
  <2> QED BY <1>1, <2>1
<1> QED BY <1>2, <1>5
-----------------------------------------------------------------------------
(* Event: the steps.                                                       *)

\* The walk as a turn of the kernel core, from a thread or from an interrupt.
LEMMA WalkStep ==
    ASSUME ThreadsOK, EventTypeOK, NEW bits \in SUBSET Bit, NEW T, NEW w, w = SendWalk(bits),
           T = {} \/ \E t : T = {t} /\ Runs(t), k' = w.k \/ k' = rt_schedule(w.k),
           Moves(T), Arrive(T, {}), on' \in [Thread -> Queue]
    PROVE  /\ Step(T, Called(w), "EOK", {}) /\ WalkedFlags(w, Len(k.wait[event]), bits)
           /\ \A u \in Called(w) : u \in ToSet(k.wait[event]) /\ on[u] = event /\ u \notin Out(event, "EOK")
<1> DEFINE H == Called(w)
<1>1. WalkedKernel(w) /\ WalkedFlags(w, Len(k.wait[event]), bits)
  BY WalkEnds
<1>2. /\ KernelOK(w.k) /\ w.k.lock = k.lock /\ w.k.cur = k.cur
      /\ \A u \in H : u \in Thread /\ w.k.stat[u] = "READY" /\ w.k.error[u] = "EOK"
      /\ \A u \in Thread \ H : w.k.stat[u] = k.stat[u] /\ w.k.error[u] = k.error[u]
      /\ \A o \in Queue : ToSet(w.k.wait[o]) = ToSet(k.wait[o]) \ H
  BY <1>1 DEF WalkedKernel
<1>3. /\ KernelOK(k') /\ k'.stat = w.k.stat /\ k'.error = w.k.error /\ k'.wait = w.k.wait
      /\ k'.lock = w.k.lock /\ (k'.cur = w.k.cur \/ k'.stat[k'.cur] = "READY")
  <2>1. CASE k' = w.k
    BY <1>2, <2>1
  <2>2. CASE k' = rt_schedule(w.k)
    <3>1. k.lock = 0
      BY DEF ThreadsOK, IpcCore
    <3> QED BY <1>2, <2>2, <3>1, ScheduleOK DEF CurIsHighest
  <2> QED BY <2>1, <2>2
<1>4. IpcCore /\ k.lock = 0 /\ event \in Queue
  BY ListsAssumption DEF ThreadsOK, IpcCore
<1>5. \A u \in H : u \in Thread /\ u \in ToSet(k.wait[event])
  BY <1>2 DEF Called
<1>6. ASSUME NEW u \in H PROVE k.stat[u] = "SUSPEND" /\ on[u] = event
  <2>1. u \in Thread /\ u \in ToSet(k.wait[event])
    BY <1>5
  <2> QED BY <1>4, <2>1, WaiterOn
<1>7. H \subseteq Thread /\ H \cap T = {}
  BY <1>5, <1>6 DEF Runs
<1>8. \A u \in H : k.stat[u] = "SUSPEND" /\ k'.stat[u] = "READY" /\ k'.error[u] = "EOK"
  BY <1>2, <1>3, <1>6
<1>9. \A u \in Thread \ H : k'.stat[u] = k.stat[u] /\ k'.error[u] = k.error[u]
  BY <1>2, <1>3
<1>10. \A o \in Queue : ToSet(k'.wait[o]) = ToSet(k.wait[o]) \ H
  BY <1>2, <1>3
<1>11. T \subseteq Thread /\ T \subseteq {k.cur} \ {Idle} /\ \A u \in T : k.stat[u] = "READY"
  BY DEF Runs
<1>12. k'.lock = 0 /\ (k'.cur = k.cur \/ k'.stat[k'.cur] = "READY")
  BY <1>2, <1>3, <1>4
<1> HIDE DEF H
<1>13. KernelTurn(T, H, "EOK", {})
  BY <1>3, <1>7, <1>8, <1>9, <1>10, <1>11, <1>12 DEF KernelTurn
<1>14. Step(T, H, "EOK", {})
  BY <1>11, <1>13 DEF Step
<1>15. \A u \in H : u \notin Out(event, "EOK")
  BY <1>6 DEF Out
<1> QED BY <1>1, <1>5, <1>6, <1>14, <1>15 DEF H
\* Every flag raised is up or with one thread that was resumed for it.
FlagsOK ==
    \A b \in Bit :
        owed[b] = Up(b, set) + Cardinality(Takers(b, Out(event, "EOK"), event_info, event_set))

EvInv == EventTypeOK /\ NoWaiterSatisfied /\ FlagsOK

\* What the calls on the event do to the flags and to the lists.
EvDoes(T) ==
    \/ \E bits \in SUBSET Bit : \E w :
          /\ Step(T, Called(w), "EOK", {}) /\ WalkedFlags(w, Len(k.wait[event]), bits)
          /\ \A u \in Called(w) : /\ u \in ToSet(k.wait[event]) /\ on[u] = event
                                  /\ u \notin Out(event, "EOK")
          /\ \A t \in T : pc[t] = "run"
          /\ set' = w.set /\ event_set' = w.got /\ owed' = Raised(bits \ set)
          /\ UNCHANGED event_info
    \/ \E used \in SUBSET set :
          /\ Quiet(T) /\ \A t \in T : pc[t] = "run"
          /\ set' = set \ used /\ owed' = Consumed(used)
          /\ UNCHANGED <<event_set, event_info>>
    \/ \E t \in Thread, want \in SUBSET Bit, option \in Option :
          /\ T = {t} /\ pc[t] = "run" /\ event \in alive /\ Joins(t, event)
          /\ ~Matches(set, want, option)
          /\ event_set' = [event_set EXCEPT ![t] = want]
          /\ event_info' = [event_info EXCEPT ![t] = option]
          /\ UNCHANGED <<set, owed>>
    \/ \E t : /\ T = {t} /\ pc[t] = "woken" /\ on[t] = event /\ Quiet(T)
              /\ owed' = Consumed(IF k.error[t] = "EOK" THEN Taken(t) ELSE {})
              /\ event_set' = [event_set EXCEPT ![t] = {}]
              /\ event_info' = [event_info EXCEPT ![t] = [all |-> FALSE, clear |-> FALSE]]
              /\ UNCHANGED set
    \/ \E t : /\ T = {t} /\ pc[t] = "run" /\ Fails(t, {event})
              /\ set' = {} /\ owed' = Consumed(set)
              /\ UNCHANGED <<event_set, event_info>>

\* The counts of flags are counts.
LEMMA TakersFinite ==
    ASSUME NEW b, NEW S \in SUBSET Thread, NEW info, NEW got
    PROVE  /\ IsFiniteSet(Takers(b, S, info, got))
           /\ Cardinality(Takers(b, S, info, got)) \in Nat
<1>1. Takers(b, S, info, got) \in SUBSET Thread
  BY DEF Takers
<1>2. IsFiniteSet(Takers(b, S, info, got))
  BY <1>1, FiniteAssumption, FS_Subset
<1> QED BY <1>2, FS_CardinalityType

\* rt_event_send: flags raised are up or go to those it resumes.
LEMMA SendKeeps ==
    ASSUME ObjCore, EvInv, NEW T, NEW bits \in SUBSET Bit, NEW w,
           Step(T, Called(w), "EOK", {}), WalkedFlags(w, Len(k.wait[event]), bits),
           \A u \in Called(w) : /\ u \in ToSet(k.wait[event]) /\ on[u] = event
                                /\ u \notin Out(event, "EOK"),
           \A t \in T : pc[t] = "run",
           set' = w.set, event_set' = w.got, owed' = Raised(bits \ set), UNCHANGED event_info
    PROVE  EvInv'
<1> DEFINE H == Called(w)
           O == Out(event, "EOK")
           s == k.wait[event]
           N == Len(k.wait[event])
<1>1. IpcCore /\ event \in Queue /\ KernelOK(k)
  BY ListsAssumption DEF ObjCore, ThreadsOK, IpcCore
<1>2. /\ w.set \subseteq set \cup bits /\ w.got \in [Thread -> SUBSET Bit]
      /\ \A u \in Thread \ H : w.got[u] = event_set[u]
      /\ \A i \in 1 .. N : \/ s[i] \in H
                           \/ ~Matches(w.set, event_set[s[i]], event_info[s[i]])
      /\ \A b \in Bit : Up(b, set \cup bits) = Up(b, w.set) + Cardinality(Takers(b, H, event_info, w.got))
  BY DEF WalkedFlags
<1>3. s \in Seq(Thread) /\ N \in Nat
  BY <1>1 DEF KernelOK, KernelState
<1>4. H \subseteq Thread /\ H \subseteq ToSet(s) /\ O \subseteq Thread /\ H \cap O = {}
  BY <1>3 DEF Step, KernelTurn, Out
<1>5. EventTypeOK'
  <2>1. owed' \in [Bit -> Int]
    BY DEF EvInv, EventTypeOK, Raised
  <2>2. w.set \subseteq Bit
    BY <1>2 DEF EvInv, EventTypeOK
  <2> QED BY <1>2, <2>1, <2>2 DEF EvInv, EventTypeOK
<1>6. ToSet(k'.wait[event]) = ToSet(s) \ H /\ Out(event, "EOK")' = (O \ T) \cup {u \in H : on[u] = event /\ "EOK" = "EOK"}
  <2>1. /\ ToSet(k'.wait[event]) = (ToSet(k.wait[event]) \ H) \cup (IF event \in {} THEN T ELSE {})
        /\ \A f : Out(event, f)' = (Out(event, f) \ T) \cup {u \in H : on[u] = event /\ f = "EOK"}
    BY <1>1, StepOut
  <2> QED BY <2>1
<1>7. O \ T = O
  BY DEF Out
<1>8. Out(event, "EOK")' = O \cup H
  BY <1>6, <1>7
<1> HIDE DEF H, O
<1>9. NoWaiterSatisfied'
  <2>1. ASSUME NEW t \in ToSet(k'.wait[event]) PROVE ~Matches(w.set, w.got[t], event_info[t])
    <3>1. t \in ToSet(s) /\ t \notin H
      BY <1>6
    <3>2. PICK i \in 1 .. N : t = s[i]
      BY <1>3, <3>1 DEF ToSet
    <3>3. ~Matches(w.set, event_set[t], event_info[t])
      BY <1>2, <3>1, <3>2
    <3>4. t \in Thread
      BY <1>3, <3>2
    <3> QED BY <1>2, <3>1, <3>3, <3>4
  <2> QED BY <2>1 DEF NoWaiterSatisfied
<1>10. ASSUME NEW b \in Bit
       PROVE  owed'[b] = Up(b, w.set) + Cardinality(Takers(b, O \cup H, event_info, w.got))
  <2> DEFINE A == Takers(b, O, event_info, event_set)
             B == Takers(b, H, event_info, w.got)
             C == Takers(b, O \cup H, event_info, w.got)
  <2>1. IsFiniteSet(A) /\ IsFiniteSet(B) /\ Cardinality(A) \in Nat /\ Cardinality(B) \in Nat
    BY <1>4, TakersFinite
  <2>2. C = A \cup B /\ A \cap B = {}
    BY <1>2, <1>4 DEF Takers
  <2>3. owed[b] = Up(b, set) + Cardinality(A)
    BY DEF EvInv, FlagsOK, O
  <2>4. Up(b, set \cup bits) = Up(b, w.set) + Cardinality(B)
    BY <1>2
  <2>5. owed'[b] = owed[b] + IF b \in bits \ set THEN 1 ELSE 0
    BY DEF Raised
  <2>6. Up(b, set \cup bits) = Up(b, set) + IF b \in bits \ set THEN 1 ELSE 0
    BY DEF Up
  <2>7. Up(b, set) \in Int /\ Up(b, w.set) \in Int /\ Up(b, set \cup bits) \in Int
    BY DEF Up
  <2> HIDE DEF A, B, C
  <2>8. Cardinality(C) = Cardinality(A) + Cardinality(B)
    <3>1. Cardinality(A \cup B) = Cardinality(A) + Cardinality(B) - Cardinality(A \cap B)
      BY <2>1, FS_Union
    <3>2. Cardinality(A \cap B) = 0
      BY <2>2, FS_EmptySet
    <3> QED BY <2>1, <2>2, <3>1, <3>2
  <2>9. PICK d \in Int : d = IF b \in bits \ set THEN 1 ELSE 0
    OBVIOUS
  <2>10. owed'[b] = Up(b, w.set) + Cardinality(C)
    <3>1. PICK x, y, z : x = Up(b, set) /\ y = Up(b, w.set) /\ z = Up(b, set \cup bits)
      OBVIOUS
    <3>2. PICK m, n, l : m = Cardinality(A) /\ n = Cardinality(B) /\ l = Cardinality(C)
      OBVIOUS
    <3>3. /\ owed'[b] = owed[b] + d /\ owed[b] = x + m /\ z = y + n /\ z = x + d /\ l = m + n
          /\ x \in Int /\ y \in Int /\ z \in Int /\ m \in Int /\ n \in Int
      BY <2>1, <2>3, <2>4, <2>5, <2>6, <2>7, <2>8, <2>9, <3>1, <3>2
    <3>4. owed'[b] = y + l
      BY ONLY <3>3, d \in Int
    <3> QED BY <3>1, <3>2, <3>4
  <2> QED BY <2>10 DEF C
<1>11. FlagsOK'
  BY <1>8, <1>10 DEF FlagsOK
<1> QED BY <1>5, <1>9, <1>11 DEF EvInv
\* Flags are taken or reset, and who has been given flags keeps them.
LEMMA FlagsGo ==
    ASSUME EvInv, NEW used \in SUBSET set, set' = set \ used, owed' = Consumed(used),
           Out(event, "EOK")' = Out(event, "EOK"), UNCHANGED <<event_set, event_info>>
    PROVE  EventTypeOK' /\ FlagsOK'
<1>1. owed' \in [Bit -> Int]
  BY DEF EvInv, EventTypeOK, Consumed
<1>2. EventTypeOK'
  BY <1>1 DEF EvInv, EventTypeOK
<1>3. ASSUME NEW b \in Bit
      PROVE  owed'[b] = Up(b, set') + Cardinality(Takers(b, Out(event, "EOK")', event_info', event_set'))
  <2>1. Out(event, "EOK") \in SUBSET Thread
    BY DEF Out
  <2>2. PICK n \in Nat : n = Cardinality(Takers(b, Out(event, "EOK"), event_info, event_set))
    BY <2>1, TakersFinite
  <2>3. Cardinality(Takers(b, Out(event, "EOK")', event_info', event_set')) = n
    BY <2>2
  <2>4. owed[b] = Up(b, set) + n
    BY <2>2 DEF EvInv, FlagsOK
  <2>5. owed'[b] = owed[b] - IF b \in used THEN 1 ELSE 0
    BY DEF Consumed
  <2>6. owed'[b] = Up(b, set \ used) + n
    BY <2>4, <2>5 DEF Up
  <2> QED BY <2>3, <2>6
<1> QED BY <1>2, <1>3 DEF FlagsOK

\* A step elsewhere, in which waiters may leave the event's list but nobody is
\* resumed from it or returns to it without an error.
Eases(q) == ToSet(k'.wait[q]) \subseteq ToSet(k.wait[q]) /\ Out(q, "EOK")' = Out(q, "EOK")

\* Such a step keeps what is said of the event.
LEMMA EvKept ==
    ASSUME EvInv, UNCHANGED evvars, Eases(event)
    PROVE  EvInv'
<1>1. EventTypeOK' /\ FlagsOK'
  BY DEF EvInv, EventTypeOK, FlagsOK, evvars, Eases
<1>2. NoWaiterSatisfied'
  BY DEF EvInv, NoWaiterSatisfied, evvars, Eases
<1> QED BY <1>1, <1>2 DEF EvInv

\* A step on the event leaves no satisfied waiter behind and loses no flag.
LEMMA EvDoesEvent ==
    ASSUME ObjCore, EvInv, NEW T, EvDoes(T)
    PROVE  EvInv'
<1> DEFINE O == Out(event, "EOK")
<1>1. IpcCore /\ ThreadsOK /\ event \in Queue /\ KernelOK(k)
  BY ListsAssumption DEF ObjCore, ThreadsOK, IpcCore
<1>2. O \in SUBSET Thread
  BY DEF Out
<1>3. CASE \E bits \in SUBSET Bit : \E w :
          /\ Step(T, Called(w), "EOK", {}) /\ WalkedFlags(w, Len(k.wait[event]), bits)
          /\ \A u \in Called(w) : /\ u \in ToSet(k.wait[event]) /\ on[u] = event
                                  /\ u \notin Out(event, "EOK")
          /\ \A t \in T : pc[t] = "run"
          /\ set' = w.set /\ event_set' = w.got /\ owed' = Raised(bits \ set)
          /\ UNCHANGED event_info
  BY <1>3, SendKeeps
<1>4. CASE \E used \in SUBSET set :
          /\ Quiet(T) /\ \A t \in T : pc[t] = "run"
          /\ set' = set \ used /\ owed' = Consumed(used)
          /\ UNCHANGED <<event_set, event_info>>
  <2>1. PICK used \in SUBSET set :
          /\ Quiet(T) /\ \A t \in T : pc[t] = "run"
          /\ set' = set \ used /\ owed' = Consumed(used)
          /\ UNCHANGED <<event_set, event_info>>
    BY <1>4
  <2>2. ToSet(k'.wait[event]) = ToSet(k.wait[event]) /\ Out(event, "EOK")' = O \ T
    BY <1>1, <2>1, QuietOut
  <2>3. O \ T = O
    BY <2>1 DEF Out
  <2>4. EventTypeOK' /\ FlagsOK'
    BY <2>1, <2>2, <2>3, FlagsGo
  <2>5. ASSUME NEW t \in ToSet(k'.wait[event]) PROVE ~Matches(set', event_set'[t], event_info'[t])
    <3>1. ~Matches(set, event_set[t], event_info[t])
      BY <2>2 DEF EvInv, NoWaiterSatisfied
    <3> QED BY <2>1, <3>1 DEF Matches
  <2> QED BY <2>4, <2>5 DEF EvInv, NoWaiterSatisfied
<1>5. CASE \E t \in Thread, want \in SUBSET Bit, option \in Option :
          /\ T = {t} /\ pc[t] = "run" /\ event \in alive /\ Joins(t, event)
          /\ ~Matches(set, want, option)
          /\ event_set' = [event_set EXCEPT ![t] = want]
          /\ event_info' = [event_info EXCEPT ![t] = option]
          /\ UNCHANGED <<set, owed>>
  <2>1. PICK t \in Thread, want \in SUBSET Bit, option \in Option :
          /\ T = {t} /\ pc[t] = "run" /\ event \in alive /\ Joins(t, event)
          /\ ~Matches(set, want, option)
          /\ event_set' = [event_set EXCEPT ![t] = want]
          /\ event_info' = [event_info EXCEPT ![t] = option]
          /\ UNCHANGED <<set, owed>>
    BY <1>5
  <2>2. /\ ToSet(k'.wait[event]) = (ToSet(k.wait[event]) \ {}) \cup (IF event \in {event} THEN {t} ELSE {})
        /\ \A f : Out(event, f)' = (Out(event, f) \ {t}) \cup {u \in {} : on[u] = event /\ f = "EOK"}
    BY <1>1, <2>1, StepOut DEF Joins
  <2>3. ToSet(k'.wait[event]) = ToSet(k.wait[event]) \cup {t} /\ Out(event, "EOK")' = O \ {t}
    BY <2>2
  <2>4. t \notin O
    BY <2>1 DEF Out
  <2>5. k.stat[t] = "READY" /\ t = k.cur
    BY <2>1 DEF Joins, Step
  <2>6. t \in Thread
    BY <1>1, <2>5 DEF KernelOK, KernelState
  <2>7. EventTypeOK'
    BY <2>1, <2>6 DEF EvInv, EventTypeOK
  <2>8. \A u \in Thread : u # t => event_set'[u] = event_set[u] /\ event_info'[u] = event_info[u]
    BY <2>1 DEF EvInv, EventTypeOK
  <2>9. event_set'[t] = want /\ event_info'[t] = option
    BY <2>1, <2>6 DEF EvInv, EventTypeOK
  <2>10. ASSUME NEW u \in ToSet(k'.wait[event]) PROVE ~Matches(set', event_set'[u], event_info'[u])
    <3>1. CASE u = t
      BY <2>1, <2>9, <3>1
    <3>2. CASE u # t
      <4>1. u \in ToSet(k.wait[event])
        BY <2>3, <3>2
      <4>2. u \in Thread
        BY <1>1, <4>1 DEF KernelOK, KernelState, ToSet
      <4> QED BY <2>1, <2>8, <3>2, <4>1, <4>2 DEF EvInv, NoWaiterSatisfied
    <3> QED BY <3>1, <3>2
  <2>11. ASSUME NEW b \in Bit
         PROVE  Takers(b, Out(event, "EOK")', event_info', event_set') = Takers(b, O, event_info, event_set)
    BY <1>2, <2>3, <2>4, <2>8 DEF Takers
  <2>12. FlagsOK'
    BY <2>1, <2>11 DEF EvInv, FlagsOK
  <2> QED BY <2>7, <2>10, <2>12 DEF EvInv, NoWaiterSatisfied
<1>6. CASE \E t : /\ T = {t} /\ pc[t] = "woken" /\ on[t] = event /\ Quiet(T)
                  /\ owed' = Consumed(IF k.error[t] = "EOK" THEN Taken(t) ELSE {})
                  /\ event_set' = [event_set EXCEPT ![t] = {}]
                  /\ event_info' = [event_info EXCEPT ![t] = [all |-> FALSE, clear |-> FALSE]]
                  /\ UNCHANGED set
  <2>1. PICK t : /\ T = {t} /\ pc[t] = "woken" /\ on[t] = event /\ Quiet(T)
                 /\ owed' = Consumed(IF k.error[t] = "EOK" THEN Taken(t) ELSE {})
                 /\ event_set' = [event_set EXCEPT ![t] = {}]
                 /\ event_info' = [event_info EXCEPT ![t] = [all |-> FALSE, clear |-> FALSE]]
                 /\ UNCHANGED set
    BY <1>6
  <2>2. ToSet(k'.wait[event]) = ToSet(k.wait[event]) /\ Out(event, "EOK")' = O \ {t}
    BY <1>1, <2>1, QuietOut
  <2>3. k.stat[t] = "READY" /\ t = k.cur
    BY <2>1 DEF Quiet, Step
  <2>4. t \in Thread
    BY <1>1, <2>3 DEF KernelOK, KernelState
  <2>5. t \in O <=> k.error[t] = "EOK"
    BY <2>1, <2>3, <2>4 DEF Out
  <2>6. \A u \in Thread : u # t => event_set'[u] = event_set[u] /\ event_info'[u] = event_info[u]
    BY <2>1 DEF EvInv, EventTypeOK
  <2>7. EventTypeOK'
    <3>1. [all |-> FALSE, clear |-> FALSE] \in Option
      BY DEF Option
    <3>2. owed' \in [Bit -> Int]
      BY <2>1 DEF EvInv, EventTypeOK, Consumed
    <3> QED BY <2>1, <2>4, <3>1, <3>2 DEF EvInv, EventTypeOK
  <2>8. ASSUME NEW u \in ToSet(k'.wait[event]) PROVE ~Matches(set', event_set'[u], event_info'[u])
    <3>1. u \in ToSet(k.wait[event])
      BY <2>2
    <3>2. u \in Thread
      BY <1>1, <3>1 DEF KernelOK, KernelState, ToSet
    <3>3. u # t
      BY <1>1, <2>3, <3>1 DEF KernelOK, KernelInv, WaitersSuspended
    <3> QED BY <2>1, <2>6, <3>1, <3>2, <3>3 DEF EvInv, NoWaiterSatisfied
  <2>9. ASSUME NEW b \in Bit
        PROVE  owed'[b] = Up(b, set') + Cardinality(Takers(b, Out(event, "EOK")', event_info', event_set'))
    <3> DEFINE A == Takers(b, O, event_info, event_set)
               C == Takers(b, Out(event, "EOK")', event_info', event_set')
    <3>1. C = A \ {t}
      BY <1>2, <2>2, <2>6 DEF Takers
    <3>2. IsFiniteSet(A) /\ Cardinality(A) \in Nat
      BY <1>2, TakersFinite
    <3>3. t \in A <=> (k.error[t] = "EOK" /\ b \in Taken(t))
      BY <2>5 DEF Takers, Taken
    <3>4. owed[b] = Up(b, set) + Cardinality(A)
      BY DEF EvInv, FlagsOK
    <3>5. owed'[b] = owed[b] - IF t \in A THEN 1 ELSE 0
      BY <2>1, <3>3 DEF Consumed
    <3> HIDE DEF A, C
    <3>6. Cardinality(C) = IF t \in A THEN Cardinality(A) - 1 ELSE Cardinality(A)
      BY <3>1, <3>2, FS_RemoveElement
    <3>7. Up(b, set) \in Int
      BY DEF Up
    <3>8. owed'[b] = Up(b, set) + Cardinality(C)
      <4>1. CASE t \in A
        BY <3>2, <3>4, <3>5, <3>6, <3>7, <4>1
      <4>2. CASE t \notin A
        BY <3>2, <3>4, <3>5, <3>6, <3>7, <4>2
      <4> QED BY <4>1, <4>2
    <3> QED BY <2>1, <3>8 DEF C
  <2>10. FlagsOK'
    BY <2>9 DEF FlagsOK
  <2> QED BY <2>7, <2>8, <2>10 DEF EvInv, NoWaiterSatisfied
<1>7. CASE \E t : /\ T = {t} /\ pc[t] = "run" /\ Fails(t, {event})
                  /\ set' = {} /\ owed' = Consumed(set)
                  /\ UNCHANGED <<event_set, event_info>>
  <2>1. PICK t : /\ T = {t} /\ pc[t] = "run" /\ Fails(t, {event})
                 /\ set' = {} /\ owed' = Consumed(set)
                 /\ UNCHANGED <<event_set, event_info>>
    BY <1>7
  <2>2. PICK H : H = UNION {ToSet(k.wait[q]) : q \in {event}}
    OBVIOUS
  <2>3. Step({t}, H, "ERROR", {})
    BY <2>1, <2>2 DEF Fails
  <2>4. /\ ToSet(k'.wait[event]) = (ToSet(k.wait[event]) \ H) \cup (IF event \in {} THEN {t} ELSE {})
        /\ \A f : Out(event, f)' = (Out(event, f) \ {t}) \cup {u \in H : on[u] = event /\ f = "ERROR"}
    BY <1>1, <2>3, StepOut
  <2>5. Out(event, "EOK")' = O \ {t} /\ t \notin O
    BY <2>1, <2>4 DEF Out
  <2>6. ToSet(k'.wait[event]) = {}
    BY <2>2, <2>4
  <2>7. EventTypeOK' /\ FlagsOK'
    <3>1. Out(event, "EOK")' = Out(event, "EOK") /\ set' = set \ set
      BY <2>1, <2>5
    <3> QED BY <2>1, <3>1, FlagsGo
  <2> QED BY <2>6, <2>7 DEF EvInv, NoWaiterSatisfied
<1> QED BY <1>3, <1>4, <1>5, <1>6, <1>7 DEF EvDoes
\* A step on the event leaves the other lists alone.
LEMMA EvDoesOthers ==
    ASSUME ObjCore, NEW T, EvDoes(T), Calm(T), NoCopy(T)
    PROVE  ObjCore' /\ \A q \in {mb, mb_sender, mq, mp} : Still(q)
<1>1. IpcCore /\ ThreadsOK
  BY DEF ObjCore, ThreadsOK
<1>2. event \in Queue /\ {event} \in SUBSET Queue /\ OwnerAlive(event)
      /\ \A q \in {mb, mb_sender, mq, mp} : q # event /\ q \in Queue
  BY ListsAssumption DEF OwnerAlive
<1>3. ASSUME NEW w, Step(T, Called(w), "EOK", {}), \A u \in Called(w) : on[u] = event,
             \A t \in T : pc[t] = "run"
      PROVE  ObjCore' /\ \A q \in {mb, mb_sender, mq, mp} : Still(q)
  <2>1. PICK H : H = Called(w)
    OBVIOUS
  <2>2. Step(T, H, "EOK", {}) /\ \A u \in H : on[u] = event
    BY <1>3, <2>1
  <2>3. \A u \in T : pc[u] \notin Detaching /\ (pc'[u] \in Copying => mq \in alive)
    BY <1>3 DEF NoCopy, Detaching
  <2>4. pc' \in [Thread -> Pcs] /\ alive' = alive /\ {} \subseteq alive
    BY DEF Calm
  <2>5. \A u \in H : OwnerAlive(on[u])
    BY <1>2, <2>2
  <2>6. ObjCore'
    BY <2>2, <2>3, <2>4, <2>5, ObjStep
  <2>7. ASSUME NEW q \in {mb, mb_sender, mq, mp} PROVE Still(q)
    <3>1. q \in Queue \ {} /\ (\A u \in H : on[u] # q)
          /\ \A u \in T : pc[u] \in {"block", "woken"} => on[u] # q
      BY <1>2, <1>3, <2>2
    <3> QED BY ONLY <1>1, <2>2, <3>1, StepStill
  <2> QED BY <2>6, <2>7
<1>4. ASSUME Quiet(T), \A t \in T : pc[t] = "run" \/ on[t] = event
      PROVE  ObjCore' /\ \A q \in {mb, mb_sender, mq, mp} : Still(q)
  <2>1. \A q \in {mb, mb_sender, mq, mp} : Away(T, q)
    BY <1>2, <1>4 DEF Away
  <2> QED BY <1>1, <1>2, <1>4, <2>1, QuietCore, QuietStill
<1>5. ASSUME NEW t, T = {t}, pc[t] = "run", event \in alive, Joins(t, event)
      PROVE  ObjCore' /\ \A q \in {mb, mb_sender, mq, mp} : Still(q)
  <2>1. \A q \in {mb, mb_sender, mq, mp} : Away({t}, q)
    BY <1>5 DEF Away
  <2> QED BY <1>1, <1>2, <1>5, <2>1, JoinsCore, JoinsStill
<1>6. ASSUME NEW t, T = {t}, pc[t] = "run", Fails(t, {event})
      PROVE  ObjCore' /\ \A q \in {mb, mb_sender, mq, mp} : Still(q)
  <2>1. \A q \in {mb, mb_sender, mq, mp} : Away({t}, q)
    BY <1>6 DEF Away
  <2>2. PICK Q : Q = {event}
    OBVIOUS
  <2>3. Q \in SUBSET Queue /\ Fails(t, Q) /\ \A q \in {mb, mb_sender, mq, mp} : q \in Queue \ Q
    BY <1>2, <1>6, <2>2
  <2>4. ObjCore'
    BY <1>6, <2>3, FailsCore
  <2> QED BY <1>1, <2>1, <2>3, <2>4, FailsStill
<1> QED BY <1>3, <1>4, <1>5, <1>6 DEF EvDoes

\* The calls on the event, and the return from a wait.
LEMMA EventDoes ==
    ASSUME ThreadsOK, EvInv, NEW t \in Thread,
           \/ \E bits \in SUBSET Bit : rt_event_send(t, bits)
           \/ \E want \in SUBSET Bit, option \in Option, time \in Time :
                 rt_event_recv(t, want, option, time)
           \/ EventReset(t)
           \/ EventReturn(t)
    PROVE  EvDoes({t}) /\ Calm({t}) /\ NoCopy({t})
<1>0. event \in Queue /\ EventTypeOK /\ {event} \in SUBSET Queue
  BY ListsAssumption DEF EvInv
<1>p. "run" \in Pcs /\ "resched" \in Pcs /\ "run" \notin Copying \cup Detaching
      /\ "resched" \notin Copying \cup Detaching /\ "block" \notin Copying \cup Detaching
  BY DEF Pcs, Copying, Detaching
<1>1. CASE \E bits \in SUBSET Bit : rt_event_send(t, bits)
  <2>1. PICK bits \in SUBSET Bit : rt_event_send(t, bits)
    BY <1>1
  <2>2. PICK w : w = SendWalk(bits)
    OBVIOUS
  <2>3. /\ Runs(t) /\ pc[t] = "run" /\ alive' = alive /\ on' = on /\ k' = w.k
        /\ Goto(t, "resched") \/ UNCHANGED pc
        /\ set' = w.set /\ event_set' = w.got /\ owed' = Raised(bits \ set) /\ UNCHANGED event_info
    BY <2>1, <2>2, RunsAt DEF rt_event_send, CallsOn, Calls, At, Send
  <2>4. /\ Moves({t}) /\ Arrive({t}, {}) /\ on' \in [Thread -> Queue] /\ pc' \in [Thread -> Pcs]
        /\ pc'[t] \in {"run", "resched"}
    <3>1. CASE Goto(t, "resched")
      <4>1. pc'[t] = "resched"
        BY <3>1 DEF Goto, ThreadsOK
      <4> QED BY <2>3, <3>1, <4>1, <1>p, GoesOn
    <3>2. CASE UNCHANGED pc
      BY <2>3, <3>2, StaysOut
    <3> QED BY <2>3, <3>1, <3>2
  <2>5. {t} = {} \/ \E x : {t} = {x} /\ Runs(x)
    BY <2>3
  <2>6. /\ Step({t}, Called(w), "EOK", {}) /\ WalkedFlags(w, Len(k.wait[event]), bits)
        /\ \A u \in Called(w) : u \in ToSet(k.wait[event]) /\ on[u] = event /\ u \notin Out(event, "EOK")
    BY <1>0, <2>2, <2>3, <2>4, <2>5, WalkStep
  <2>7. EvDoes({t})
    BY <2>3, <2>6 DEF EvDoes
  <2> QED BY <1>p, <2>3, <2>4, <2>7 DEF Calm, NoCopy
<1>2. CASE \E want \in SUBSET Bit, option \in Option, time \in Time :
              rt_event_recv(t, want, option, time)
  <2>1. PICK want \in SUBSET Bit, option \in Option, time \in Time :
              rt_event_recv(t, want, option, time)
    BY <1>2
  <2>2. Runs(t) /\ pc[t] = "run" /\ alive' = alive /\ event \in alive
    BY <2>1, RunsAt DEF rt_event_recv, CallsOn, Calls, At
  <2>3. CASE RecvNow(t, want, option) \/ RecvNoWait(t, want, option, time)
    <3>1. UNCHANGED <<pc, on>> /\ \E e \in Error : k' = [k EXCEPT !.error[t] = e]
      BY <2>3 DEF RecvNow, RecvNoWait, Error
    <3>2. Quiet({t}) /\ pc' \in [Thread -> Pcs] /\ pc'[t] = "run"
      BY <2>2, <3>1, IdleDoes
    <3>3. \E used \in SUBSET set : /\ set' = set \ used /\ owed' = Consumed(used)
                                   /\ UNCHANGED <<event_set, event_info>>
      <4>1. CASE RecvNow(t, want, option)
        <5>1. PICK used : used = IF option.clear THEN want \cap set ELSE {}
          OBVIOUS
        <5>2. set' = set \ used /\ owed' = Consumed(used) /\ UNCHANGED <<event_set, event_info>>
          BY <4>1, <5>1 DEF RecvNow
        <5>3. used \in SUBSET set
          BY <5>1
        <5> QED BY <5>2, <5>3
      <4>2. CASE RecvNoWait(t, want, option, time)
        <5>1. set' = set \ {} /\ UNCHANGED <<event_set, event_info, owed>>
          BY <4>2 DEF RecvNoWait, evvars
        <5>2. owed = Consumed({})
          <6>1. owed \in [Bit -> Int] /\ \A b \in Bit : owed[b] - (IF b \in {} THEN 1 ELSE 0) = owed[b]
            BY <1>0 DEF EventTypeOK
          <6> QED BY <6>1 DEF Consumed
        <5> QED BY <5>1, <5>2
      <4> QED BY <2>3, <4>1, <4>2
    <3>4. EvDoes({t})
      BY <2>2, <3>2, <3>3 DEF EvDoes
    <3> QED BY <1>p, <2>2, <3>2, <3>4 DEF Calm, NoCopy
  <2>4. CASE RecvWait(t, want, option, time)
    <3>1. k' = SuspendOn(k, event, t, time) /\ Goto(t, "block") /\ on' = [on EXCEPT ![t] = event]
      BY <2>4 DEF RecvWait
    <3>2. Joins(t, event) /\ pc' \in [Thread -> Pcs]
      BY <1>0, <2>2, <3>1, JoinsStep
    <3>3. pc'[t] = "block"
      BY <3>1 DEF Goto, ThreadsOK
    <3>4. EvDoes({t})
      BY <2>2, <2>4, <3>2 DEF EvDoes, RecvWait
    <3> QED BY <1>p, <2>2, <3>2, <3>3, <3>4 DEF Calm, NoCopy
  <2> QED BY <2>1, <2>3, <2>4 DEF rt_event_recv
<1>3. CASE EventReset(t)
  <2>1. Runs(t) /\ pc[t] = "run" /\ alive' = alive /\ on' = on /\ Goto(t, "resched")
    BY <1>3, RunsAt DEF EventReset, CallsOn, Calls, At
  <2>2. Moves({t}) /\ Arrive({t}, {}) /\ on' \in [Thread -> Queue] /\ pc' \in [Thread -> Pcs]
    BY <1>p, <2>1, GoesOn
  <2>3. pc'[t] = "resched"
    BY <2>1 DEF Goto, ThreadsOK
  <2>4. Fails(t, {event})
    <3>1. PICK Q : Q = {event}
      OBVIOUS
    <3>2. Q \in SUBSET Queue /\ \E q \in Queue : Q = {q} /\ k' = ResumeAllMasked(k, q)
      BY <1>0, <1>3, <3>1 DEF EventReset
    <3>3. Fails(t, Q)
      BY <2>1, <2>2, <3>2, FailsStep
    <3> QED BY <3>1, <3>3
  <2>5. EvDoes({t})
    BY <1>3, <2>1, <2>4 DEF EvDoes, EventReset
  <2> QED BY <1>p, <2>1, <2>2, <2>3, <2>5 DEF Calm, NoCopy
<1>4. CASE EventReturn(t)
  <2>1. /\ pc[t] = "woken" /\ k.cur = t /\ on[t] = event /\ alive' = alive /\ on' = on /\ k' = k
        /\ Goto(t, "run")
    BY <1>4 DEF EventReturn, At
  <2>2. Runs(t)
    <3>1. At(t, "woken") /\ "woken" \in Pcs \ {"run", "block"}
      BY <1>4 DEF EventReturn, Pcs
    <3> QED BY <3>1, RunsAt
  <2>3. Quiet({t}) /\ pc' \in [Thread -> Pcs] /\ pc'[t] = "run"
    BY <1>p, <2>1, <2>2, QuietDoes
  <2>4. EvDoes({t})
    BY <1>4, <2>1, <2>3 DEF EvDoes, EventReturn
  <2> QED BY <1>p, <2>1, <2>3, <2>4 DEF Calm, NoCopy
<1> QED BY <1>1, <1>2, <1>3, <1>4

\* The same for sends from an interrupt handler.
LEMMA EventIsrDoes ==
    ASSUME ThreadsOK, EvInv, EventIsr
    PROVE  EvDoes({}) /\ Calm({}) /\ NoCopy({})
<1>1. PICK bits \in SUBSET Bit : EventSendIsr(bits)
  BY DEF EventIsr
<1>2. PICK w : w = SendWalk(bits)
  OBVIOUS
<1>3. /\ alive' = alive /\ on' = on /\ pc' = pc /\ (k' = w.k \/ k' = rt_schedule(w.k))
      /\ set' = w.set /\ event_set' = w.got /\ owed' = Raised(bits \ set) /\ UNCHANGED event_info
  BY <1>1, <1>2 DEF EventSendIsr, Send
<1>4. Moves({}) /\ Arrive({}, {}) /\ on' \in [Thread -> Queue] /\ pc' \in [Thread -> Pcs]
  BY <1>3 DEF Moves, Arrive, ThreadsOK, IpcCore
<1>5. /\ Step({}, Called(w), "EOK", {}) /\ WalkedFlags(w, Len(k.wait[event]), bits)
      /\ \A u \in Called(w) : u \in ToSet(k.wait[event]) /\ on[u] = event /\ u \notin Out(event, "EOK")
  <2>1. PICK T : T = {}
    OBVIOUS
  <2>2. EventTypeOK /\ Moves(T) /\ Arrive(T, {}) /\ (T = {} \/ \E t : T = {t} /\ Runs(t))
    BY <1>4, <2>1 DEF EvInv
  <2>3. /\ Step(T, Called(w), "EOK", {}) /\ WalkedFlags(w, Len(k.wait[event]), bits)
        /\ \A u \in Called(w) : u \in ToSet(k.wait[event]) /\ on[u] = event /\ u \notin Out(event, "EOK")
    BY <1>2, <1>3, <1>4, <2>2, WalkStep
  <2> QED BY <2>1, <2>3
<1>6. EvDoes({})
  BY <1>3, <1>5 DEF EvDoes
<1> QED BY <1>3, <1>4, <1>6 DEF Calm, NoCopy

-----------------------------------------------------------------------------
(* All objects together: what a step elsewhere does to an object.          *)

\* Variables whose values are only typed.
ObjTypes == alive \subseteq Queue /\ fault \in BOOLEAN /\ timeout \in [Thread -> Time]

Wakeups == MailCovered /\ Covered(mq, mq_entry)

\* The inductive invariant of the system.
ObjInv == /\ ObjCore /\ MbInv /\ MqInv /\ EvInv /\ PoolInv
          /\ Wakeups /\ ObjTypes

\* Nothing happens to the list, so nobody is resumed from it.
LEMMA StillEases ==
    ASSUME NEW q, Still(q)
    PROVE  Eases(q)
BY DEF Still, Eases

\* The wake-ups of a mailbox and of a message queue, in a step elsewhere.
LEMMA MailKept ==
    ASSUME MbInv, MailCovered, UNCHANGED entry, Eases(mb), Eases(mb_sender)
    PROVE  MailCovered'
<1>1. mb \in Queue /\ mb_sender \in Queue /\ entry \in Int /\ mb_size \in Int /\ mb_size - entry \in Int
  BY ListsAssumption, MailboxAssumption DEF MbInv, RingOK
<1>2. ToSet(k'.wait[mb]) # {} => entry <= Cardinality(Out(mb, "EOK")')
  BY <1>1, CoverSame DEF Eases, MailCovered
<1>3. ToSet(k'.wait[mb_sender]) # {} => mb_size - entry <= Cardinality(Out(mb_sender, "EOK")')
  BY <1>1, CoverSame DEF Eases, MailCovered
<1> QED BY <1>2, <1>3 DEF MailCovered, Covered

\* The wake-ups of the message queue, in a step elsewhere.
LEMMA MessagesKept ==
    ASSUME mq_entry \in Int, Covered(mq, mq_entry), UNCHANGED mq_entry, Eases(mq)
    PROVE  Covered(mq, mq_entry)'
<1>1. mq \in Queue
  BY ListsAssumption
<1>2. ToSet(k'.wait[mq]) # {} => mq_entry <= Cardinality(Out(mq, "EOK")')
  BY <1>1, CoverSame DEF Eases
<1> QED BY <1>2 DEF Covered

\* The pool in a step elsewhere.
LEMMA PoolKept ==
    ASSUME PoolInv, UNCHANGED mpvars, Still(mp), DetachOK', fault => fault'
    PROVE  PoolInv'
<1>1. mp \in Queue /\ block_free_count \in Int
  BY ListsAssumption DEF PoolInv, BlocksOK
<1>2. BlocksOK'
  BY DEF PoolInv, BlocksOK, mpvars
<1>3. Waiters' = Waiters /\ Late' = Late
  BY DEF Still, Waiters, Late
<1>4. CountOK'
  BY <1>3 DEF PoolInv, CountOK, PoolSum, mpvars
<1>5. ToSet(k'.wait[mp]) # {} => block_free_count <= Cardinality(Out(mp, "EOK")')
  BY <1>1, CoverSame DEF Still, PoolInv
<1>6. Covered(mp, block_free_count)'
  BY <1>5 DEF Covered, mpvars
<1> QED BY <1>2, <1>4, <1>6 DEF PoolInv

\* The count of messages is one.
LEMMA EntryInt ==
    ASSUME MqInv
    PROVE  mq_entry \in Int
<1>1. PICK qs, fs : NodesOK(qs, fs)
  BY DEF MqInv
<1>2. qs \in Seq(Node) /\ mq_entry = Len(qs)
  BY <1>1 DEF NodesOK, QueueIs, Linked
<1> QED BY <1>2

\* What the steps on an object keep of the rest: where they say.
Kept4 == ObjCore' /\ EvInv' /\ PoolInv' /\ Wakeups'

-----------------------------------------------------------------------------
(* The calls on each object.                                               *)

\* Only the threads in T move in such steps.
LEMMA DoesMove ==
    ASSUME NEW T, MbDoes(T) \/ MqDoes(T) \/ EvDoes(T) \/ MpDoes(T)
    PROVE  Moves(T)
<1>1. \A H, e, J : Step(T, H, e, J) => Moves(T)
  BY DEF Step
<1>2. \A q : WakesOne(T, q) => Moves(T)
  BY <1>1 DEF WakesOne, Quiet
<1>3. Quiet(T) => Moves(T)
  BY <1>1 DEF Quiet
<1>4. \A t, q : T = {t} /\ Joins(t, q) => Moves(T)
  BY <1>1 DEF Joins
<1>5. \A t, q : T = {t} /\ Fails(t, q) => Moves(T)
  BY <1>1 DEF Fails
<1>6. MbDoes(T) => Moves(T)
  BY <1>2, <1>3, <1>4, <1>5 DEF MbDoes
<1>7. MqDoes(T) => Moves(T)
  BY <1>2, <1>3, <1>4, <1>5 DEF MqDoes
<1>8. EvDoes(T) => Moves(T)
  BY <1>1, <1>3, <1>4, <1>5 DEF EvDoes
<1>9. MpDoes(T) => Moves(T)
  BY <1>2, <1>3, <1>4 DEF MpDoes
<1> QED BY <1>6, <1>7, <1>8, <1>9

\* A step on the mailbox.
LEMMA MailboxKeeps ==
    ASSUME ObjInv, NEW T, MbDoes(T), Calm(T), NoCopy(T), OnMb, fault' = fault
    PROVE  Kept4
<1>0. ObjCore /\ MbInv /\ MqInv /\ EvInv /\ PoolInv /\ MailCovered /\ Covered(mq, mq_entry)
  BY DEF ObjInv, Wakeups
<1>1. ObjCore' /\ (\A q \in {event, mq, mp} : Still(q)) /\ MailCovered'
  BY <1>0, MbDoesKeeps
<1>2. UNCHANGED evvars /\ UNCHANGED mq_entry /\ UNCHANGED mpvars /\ UNCHANGED suspend_thread_count
  BY DEF OnMb, mqvars, nodes, mpvars
<1>3. Still(event) /\ Still(mq) /\ Still(mp)
  BY <1>1
<1>4. EvInv'
  BY <1>0, <1>2, <1>3, StillEases, EvKept
<1>5. Covered(mq, mq_entry)'
  BY <1>0, <1>2, <1>3, StillEases, EntryInt, MessagesKept
<1>6. DetachOK'
  BY <1>0, <1>2, DoesMove, DetachStays DEF PoolInv
<1>7. PoolInv'
  BY <1>0, <1>2, <1>3, <1>6, PoolKept
<1> QED BY <1>1, <1>4, <1>5, <1>7 DEF Kept4, Wakeups

\* A step on the message queue.
LEMMA MessageQueueKeeps ==
    ASSUME ObjInv, NEW T, MqDoes(T), Calm(T), OnMq, fault' = fault
    PROVE  Kept4
<1>0. ObjCore /\ MbInv /\ MqInv /\ EvInv /\ PoolInv /\ MailCovered /\ Covered(mq, mq_entry)
  BY DEF ObjInv, Wakeups
<1>1. ObjCore' /\ (\A q \in {event, mb, mb_sender, mp} : Still(q)) /\ Covered(mq, mq_entry)'
  BY <1>0, EntryInt, MqDoesKeeps
<1>2. UNCHANGED evvars /\ UNCHANGED entry /\ UNCHANGED mpvars /\ UNCHANGED suspend_thread_count
  BY DEF OnMq, mbvars, mpvars
<1>3. Still(event) /\ Still(mb) /\ Still(mb_sender) /\ Still(mp)
  BY <1>1
<1>4. EvInv'
  BY <1>0, <1>2, <1>3, StillEases, EvKept
<1>5. MailCovered'
  BY <1>0, <1>2, <1>3, StillEases, MailKept
<1>6. DetachOK'
  BY <1>0, <1>2, DoesMove, DetachStays DEF PoolInv
<1>7. PoolInv'
  BY <1>0, <1>2, <1>3, <1>6, PoolKept
<1> QED BY <1>1, <1>4, <1>5, <1>7 DEF Kept4, Wakeups

\* A step on the pool.
LEMMA MemPoolKeeps ==
    ASSUME ObjInv, ~fault, NEW T, MpDoes(T), Calm(T), NoCopy(T), OnMp
    PROVE  Kept4
<1>0. ObjCore /\ MbInv /\ MqInv /\ EvInv /\ PoolInv /\ MailCovered /\ Covered(mq, mq_entry)
  BY DEF ObjInv, Wakeups
<1>1. ObjCore' /\ (\A q \in {event, mb, mb_sender, mq} : Still(q)) /\ PoolInv'
  BY <1>0, MpDoesKeeps
<1>2. UNCHANGED evvars /\ UNCHANGED entry /\ UNCHANGED mq_entry
  BY DEF OnMp, mbvars, mqvars, nodes
<1>3. Still(event) /\ Still(mb) /\ Still(mb_sender) /\ Still(mq)
  BY <1>1
<1>4. EvInv'
  BY <1>0, <1>2, <1>3, StillEases, EvKept
<1>5. MailCovered' /\ Covered(mq, mq_entry)'
  BY <1>0, <1>2, <1>3, StillEases, MailKept, EntryInt, MessagesKept
<1> QED BY <1>1, <1>4, <1>5 DEF Kept4, Wakeups

\* A step on the event.
LEMMA EventKeeps ==
    ASSUME ObjInv, NEW T, EvDoes(T), Calm(T), NoCopy(T), OnEvent, fault' = fault
    PROVE  Kept4
<1>0. ObjCore /\ MbInv /\ MqInv /\ EvInv /\ PoolInv /\ MailCovered /\ Covered(mq, mq_entry)
  BY DEF ObjInv, Wakeups
<1>1. ObjCore' /\ \A q \in {mb, mb_sender, mq, mp} : Still(q)
  BY <1>0, EvDoesOthers
<1>2. UNCHANGED entry /\ UNCHANGED mq_entry /\ UNCHANGED mpvars /\ UNCHANGED suspend_thread_count
  BY DEF OnEvent, mbvars, mqvars, nodes, mpvars
<1>3. Still(mb) /\ Still(mb_sender) /\ Still(mq) /\ Still(mp)
  BY <1>1
<1>4. EvInv'
  BY <1>0, EvDoesEvent
<1>5. MailCovered' /\ Covered(mq, mq_entry)'
  BY <1>0, <1>2, <1>3, StillEases, MailKept, EntryInt, MessagesKept
<1>6. DetachOK'
  BY <1>0, <1>2, DoesMove, DetachStays DEF PoolInv
<1>7. PoolInv'
  BY <1>0, <1>2, <1>3, <1>6, PoolKept
<1> QED BY <1>1, <1>4, <1>5, <1>7 DEF Kept4, Wakeups

-----------------------------------------------------------------------------
(* The steps of the kernel.                                                *)

\* A step that leaves all lists and objects alone.
LEMMA AllKept ==
    ASSUME ObjInv, ObjCore', \A q \in Queue : Still(q), DetachOK', fault' = fault,
           UNCHANGED <<evvars, entry, mq_entry, mpvars>>
    PROVE  Kept4
<1>0. MbInv /\ MqInv /\ EvInv /\ PoolInv /\ MailCovered /\ Covered(mq, mq_entry)
  BY DEF ObjInv, Wakeups
<1>1. Still(event) /\ Still(mb) /\ Still(mb_sender) /\ Still(mq) /\ Still(mp)
  BY ListsAssumption
<1>2. EvInv'
  BY <1>0, <1>1, StillEases, EvKept
<1>3. MailCovered' /\ Covered(mq, mq_entry)'
  BY <1>0, <1>1, StillEases, MailKept, EntryInt, MessagesKept
<1>4. PoolInv'
  BY <1>0, <1>1, PoolKept
<1> QED BY <1>2, <1>3, <1>4 DEF Kept4, Wakeups

\* A quiet step of a thread that does not come from a wait.
LEMMA QuietKept ==
    ASSUME ObjInv, NEW T, Quiet(T), Calm(T), NoCopy(T), \A t \in T : pc[t] = "run",
           fault' = fault, UNCHANGED <<evvars, entry, mq_entry, mpvars>>
    PROVE  Kept4
<1>0. ObjCore /\ ThreadsOK /\ DetachOK
  BY DEF ObjInv, ObjCore, PoolInv
<1>1. ObjCore'
  BY <1>0, QuietCore
<1>2. ASSUME NEW q \in Queue PROVE Still(q)
  <2>1. Away(T, q)
    BY DEF Away
  <2> QED BY <1>0, <2>1, QuietStill
<1>3. Moves(T) /\ UNCHANGED suspend_thread_count
  BY DEF Quiet, Step, mpvars
<1>4. DetachOK'
  BY <1>0, <1>3, DetachStays
<1> QED BY <1>1, <1>2, <1>4, AllKept

\* rt_schedule at the end of a call or in a blocking one.
LEMMA RescheduleKeeps ==
    ASSUME ObjInv, NEW t \in Thread, Reschedule(t), OnKernel
    PROVE  Kept4
<1>0. /\ ObjCore /\ ThreadsOK /\ Gone /\ DetachKept /\ DetachOK /\ IpcCore
      /\ pc \in [Thread -> Pcs] /\ pc[Idle] = "run"
  BY DEF ObjInv, ObjCore, ThreadsOK, PoolInv
<1>1. on' = on /\ alive' = alive /\ fault' = fault /\ UNCHANGED <<evvars, entry, mq_entry, mpvars>>
  BY DEF OnKernel, mbvars, mqvars, nodes
<1>2. IpcCore' /\ \A q \in Queue : Still(q)
  BY <1>0, <1>1, RescheduleStill
<1>3. pc[t] \in {"resched", "block"} /\ pc' = [pc EXCEPT ![t] = IF pc[t] = "block" THEN "woken" ELSE "run"]
  BY DEF Reschedule, At, Goto
<1>4. pc' \in [Thread -> Pcs] /\ pc'[Idle] = "run" /\ pc'[t] \in {"woken", "run"}
      /\ \A u \in Thread : u # t => pc'[u] = pc[u]
  BY <1>0, <1>3 DEF Pcs
<1>5. ThreadsOK'
  BY <1>2, <1>4 DEF ThreadsOK
<1>6. Gone'
  <2>1. ASSUME NEW q \in {mb, mb_sender, mq, mp} PROVE Out(q, "EOK")' = Out(q, "EOK")
    BY <1>2, ListsAssumption DEF Still
  <2>2. \A u \in Thread : pc'[u] \in Copying => pc[u] \in Copying
    BY <1>4 DEF Copying
  <2>3. /\ Out(mb, "EOK")' = Out(mb, "EOK") /\ Out(mb_sender, "EOK")' = Out(mb_sender, "EOK")
        /\ Out(mq, "EOK")' = Out(mq, "EOK") /\ Out(mp, "EOK")' = Out(mp, "EOK")
    BY <2>1
  <2>4. /\ mb \notin alive => Out(mb, "EOK") = {} /\ Out(mb_sender, "EOK") = {}
        /\ mb_sender \notin alive => mb \notin alive
        /\ mq \notin alive => Out(mq, "EOK") = {} /\ \A u \in Thread : pc[u] \notin Copying
        /\ mp \notin alive => Out(mp, "EOK") = {}
    BY <1>0 DEF Gone
  <2>5. /\ mb \notin alive' => Out(mb, "EOK")' = {} /\ Out(mb_sender, "EOK")' = {}
        /\ mb_sender \notin alive' => mb \notin alive'
        /\ mq \notin alive' => Out(mq, "EOK")' = {} /\ \A u \in Thread : pc'[u] \notin Copying
        /\ mp \notin alive' => Out(mp, "EOK")' = {}
    BY <1>1, <2>2, <2>3, <2>4
  <2> QED BY <2>5 DEF Gone
<1>7. DetachKept'
  <2> SUFFICES ASSUME ~mq_static PROVE DetachLeavesNoWaiter'
    BY DEF DetachKept
  <2>1. DetachLeavesNoWaiter
    BY <1>0 DEF DetachKept
  <2> QED BY <1>0, <1>1, <2>1, RescheduleCore
<1>8. DetachOK'
  <2>1. \A u \in Thread : Detaches(u)' => Detaches(u) /\ pc'[u] = pc[u]
    BY <1>1, <1>4 DEF Detaches, Detaching
  <2>2. suspend_thread_count' = suspend_thread_count
    BY <1>1 DEF mpvars
  <2> QED BY <1>0, <1>1, <2>1, <2>2 DEF DetachOK
<1>9. ObjCore'
  BY <1>5, <1>6, <1>7 DEF ObjCore
<1> QED BY <1>1, <1>2, <1>8, <1>9, AllKept

\* A thread timer expires.
LEMMA TimeoutKeeps ==
    ASSUME ObjInv, NEW t \in Thread, Timeout(t), OnKernel
    PROVE  Kept4
<1>0. /\ ObjCore /\ ThreadsOK /\ DetachOK /\ IpcCore /\ MbInv /\ MqInv /\ EvInv /\ PoolInv
      /\ MailCovered /\ Covered(mq, mq_entry) /\ pc \in [Thread -> Pcs]
  BY DEF ObjInv, ObjCore, ThreadsOK, PoolInv, Wakeups
<1>1. /\ on' = on /\ alive' = alive /\ fault' = fault /\ UNCHANGED <<evvars, entry, mq_entry>>
      /\ UNCHANGED <<block_list, block_free_count, suspend_thread_count, expired>>
  BY DEF OnKernel, mbvars, mqvars, nodes, mpvars
<1>2. Step({}, {t}, "ETIMEOUT", {}) /\ t \in ToSet(k.wait[on[t]]) /\ pc' = pc
  BY <1>0, <1>1, KernelSteps
<1>3. ObjCore'
  <2>1. PICK T, H, e, J : T = {} /\ H = {t} /\ e = "ETIMEOUT" /\ J = {}
    OBVIOUS
  <2>2. /\ Step(T, H, e, J) /\ pc' \in [Thread -> Pcs] /\ J \subseteq alive
        /\ \A u \in T : pc[u] \notin Detaching /\ (pc'[u] \in Copying => mq \in alive)
        /\ e = "EOK" => \A u \in H : OwnerAlive(on[u])
    BY <1>0, <1>2, <2>1
  <2> QED BY ONLY <1>0, <1>1, <2>2, ObjStep
<1>4. ASSUME NEW q \in Queue
      PROVE  /\ Eases(q) /\ ToSet(k'.wait[q]) = ToSet(k.wait[q]) \ {t}
             /\ Out(q, "ETIMEOUT")' = Out(q, "ETIMEOUT") \cup {u \in {t} : on[u] = q}
  <2>1. /\ ToSet(k'.wait[q]) = (ToSet(k.wait[q]) \ {t}) \cup (IF q \in {} THEN {} ELSE {})
        /\ \A f : Out(q, f)' = (Out(q, f) \ {}) \cup {u \in {t} : on[u] = q /\ f = "ETIMEOUT"}
    BY <1>0, <1>2, StepOut
  <2>2. Out(q, "EOK")' = Out(q, "EOK")
    <3>1. Out(q, "EOK")' = (Out(q, "EOK") \ {}) \cup {u \in {t} : on[u] = q /\ "EOK" = "ETIMEOUT"}
      BY <2>1
    <3>2. {u \in {t} : on[u] = q /\ "EOK" = "ETIMEOUT"} = {}
      OBVIOUS
    <3> QED BY <3>1, <3>2
  <2>3. Out(q, "ETIMEOUT")' = Out(q, "ETIMEOUT") \cup {u \in {t} : on[u] = q}
    BY <2>1
  <2> QED BY <2>1, <2>2, <2>3 DEF Eases
<1>5. Eases(event) /\ Eases(mb) /\ Eases(mb_sender) /\ Eases(mq) /\ Eases(mp) /\ mp \in Queue
  BY <1>4, ListsAssumption
<1>6. EvInv'
  BY <1>0, <1>1, <1>5, EvKept
<1>7. MailCovered' /\ Covered(mq, mq_entry)'
  BY <1>0, <1>1, <1>5, MailKept, EntryInt, MessagesKept
<1>8. PoolSum' = PoolSum
  <2>1. Waiters' = Waiters \ {t} /\ Late' = Late \cup {u \in {t} : on[u] = mp}
    BY <1>4, <1>5 DEF Waiters, Late
  <2>2. CASE on[t] = mp
    <3>1. t \in Waiters /\ Late' = Late \cup {t}
      BY <1>2, <2>1, <2>2 DEF Waiters
    <3> QED BY <1>0, <2>1, <3>1, SumExpires
  <2>3. CASE on[t] # mp
    <3>1. t \notin Waiters
      <4>1. ASSUME t \in ToSet(k.wait[mp]) PROVE FALSE
        <5>1. on[t] = mp
          BY <1>0, <1>5, <4>1, WaiterOn
        <5> QED BY <2>3, <5>1
      <4> QED BY <4>1 DEF Waiters
    <3>2. Waiters' = Waiters /\ Late' = Late
      BY <2>1, <2>3, <3>1
    <3> QED BY <3>2 DEF PoolSum
  <2> QED BY <2>2, <2>3
<1>9. BlocksOK' /\ CountOK'
  BY <1>0, <1>1, <1>8 DEF PoolInv, BlocksOK, CountOK
<1>10. DetachOK'
  BY <1>0, <1>1, <1>2 DEF DetachOK, Detaches
<1>11. Covered(mp, block_free_count)'
  <2>1. block_free_count \in Int /\ Covered(mp, block_free_count)
    BY <1>0 DEF PoolInv, BlocksOK
  <2>2. ToSet(k'.wait[mp]) # {} => block_free_count <= Cardinality(Out(mp, "EOK")')
    BY <1>5, <2>1, CoverSame DEF Eases
  <2> QED BY <1>1, <2>2 DEF Covered
<1> QED BY <1>3, <1>6, <1>7, <1>9, <1>10, <1>11 DEF Kept4, Wakeups, PoolInv

\* Start-up of a thread and the end of a time slice.
LEMMA StartSliceKeeps ==
    ASSUME ObjInv, OnKernel, SliceExpired \/ \E t, u \in Thread : Startup(t, u)
    PROVE  Kept4
<1>0. ObjCore /\ ThreadsOK /\ pc \in [Thread -> Pcs]
  BY DEF ObjInv, ObjCore, ThreadsOK
<1>1. on' = on /\ alive' = alive /\ fault' = fault /\ UNCHANGED <<evvars, entry, mq_entry, mpvars>>
  BY DEF OnKernel, mbvars, mqvars, nodes
<1>2. CASE SliceExpired
  <2>1. Quiet({}) /\ pc' = pc
    BY <1>0, <1>1, <1>2, KernelSteps
  <2>2. PICK T : T = {}
    OBVIOUS
  <2>3. Quiet(T) /\ Calm(T) /\ NoCopy(T) /\ \A t \in T : pc[t] = "run"
    BY <1>0, <1>1, <2>1, <2>2 DEF Calm, NoCopy
  <2> QED BY <1>1, <2>3, QuietKept
<1>3. CASE \E t, u \in Thread : Startup(t, u)
  <2>1. PICK t \in Thread, u \in Thread : Startup(t, u)
    BY <1>3
  <2>2. Runs(t) /\ pc[t] = "run" /\ Quiet({t}) /\ pc' \in [Thread -> Pcs]
    BY <1>0, <1>1, <2>1, KernelSteps
  <2>3. pc'[t] = "resched"
    BY <1>0, <2>1 DEF Startup, Goto
  <2>4. Calm({t}) /\ NoCopy({t})
    BY <1>1, <2>2, <2>3 DEF Calm, NoCopy, Copying, Detaching
  <2> QED BY <1>1, <2>2, <2>4, QuietKept
<1> QED BY <1>2, <1>3
-----------------------------------------------------------------------------
(* Detach.                                                                 *)

\* Waking with an error changes nothing for those resumed without one.
LEMMA ErrorEases ==
    ASSUME IpcCore, NEW t, NEW H, Step({t}, H, "ERROR", {}), pc[t] \notin {"block", "woken"},
           NEW q \in Queue
    PROVE  /\ Eases(q) /\ ToSet(k'.wait[q]) = ToSet(k.wait[q]) \ H
           /\ Out(q, "ETIMEOUT")' = Out(q, "ETIMEOUT")
<1>1. /\ ToSet(k'.wait[q]) = (ToSet(k.wait[q]) \ H) \cup (IF q \in {} THEN {t} ELSE {})
      /\ \A f : Out(q, f)' = (Out(q, f) \ {t}) \cup {u \in H : on[u] = q /\ f = "ERROR"}
  BY StepOut
<1>2. ASSUME NEW f \in {"EOK", "ETIMEOUT"} PROVE Out(q, f)' = Out(q, f)
  <2>1. Out(q, f)' = (Out(q, f) \ {t}) \cup {u \in H : on[u] = q /\ f = "ERROR"}
    BY <1>1
  <2>2. {u \in H : on[u] = q /\ f = "ERROR"} = {}
    OBVIOUS
  <2>3. t \notin Out(q, f)
    BY DEF Out
  <2> QED BY <2>1, <2>2, <2>3
<1> QED BY <1>1, <1>2 DEF Eases

\* What a step of a detach keeps of the event, the mailbox and the message queue.
LEMMA DetachOthers ==
    ASSUME ObjInv, NEW t, NEW H, Step({t}, H, "ERROR", {}), pc[t] \notin {"block", "woken"},
           UNCHANGED <<evvars, entry, mq_entry>>
    PROVE  EvInv' /\ Wakeups' /\ Eases(mp) /\ Waiters' = Waiters \ H /\ Late' = Late
<1>0. IpcCore /\ MbInv /\ MqInv /\ EvInv /\ MailCovered /\ Covered(mq, mq_entry)
  BY DEF ObjInv, ObjCore, ThreadsOK, Wakeups
<1>1. Eases(event) /\ Eases(mb) /\ Eases(mb_sender) /\ Eases(mq) /\ Eases(mp)
  BY <1>0, ErrorEases, ListsAssumption
<1>2. ToSet(k'.wait[mp]) = ToSet(k.wait[mp]) \ H /\ Out(mp, "ETIMEOUT")' = Out(mp, "ETIMEOUT")
  BY <1>0, ErrorEases, ListsAssumption
<1>3. EvInv'
  BY <1>0, <1>1, EvKept
<1>4. MailCovered' /\ Covered(mq, mq_entry)'
  BY <1>0, <1>1, MailKept, EntryInt, MessagesKept
<1> QED BY <1>1, <1>2, <1>3, <1>4 DEF Wakeups, Waiters, Late

\* The pool in a step of a detach: a waiter may be woken with an error, and is
\* then no longer counted.
LEMMA DetachPool ==
    ASSUME ThreadsOK, PoolInv, NEW H, Eases(mp), Waiters' = Waiters \ H, Late' = Late, DetachOK',
           fault' = fault \/ fault' = TRUE,
           UNCHANGED <<block_list, block_free_count, expired>>,
           \/ H \cap Waiters = {} /\ suspend_thread_count' = suspend_thread_count
           \/ /\ suspend_thread_count > 0 /\ suspend_thread_count' = suspend_thread_count - 1
              /\ fault' = TRUE \/ \E h \in Waiters : H = {h}
    PROVE  PoolInv'
<1>0. /\ BlocksOK /\ CountOK /\ Covered(mp, block_free_count) /\ block_free_count \in Int
      /\ suspend_thread_count \in Nat /\ expired \in Nat /\ mp \in Queue
  BY ListsAssumption DEF PoolInv, BlocksOK, CountOK
<1>1. BlocksOK'
  BY <1>0 DEF BlocksOK
<1>2. Covered(mp, block_free_count)'
  <2>1. ToSet(k'.wait[mp]) # {} => block_free_count <= Cardinality(Out(mp, "EOK")')
    BY <1>0, CoverSame DEF Eases
  <2> QED BY <2>1 DEF Covered
<1>3. suspend_thread_count' \in Nat /\ expired' \in Nat
  BY <1>0
<1>4. PoolSum \in Nat
  BY SumNat
<1>5. fault' \/ suspend_thread_count' = PoolSum' + expired'
  <2>1. CASE fault'
    BY <2>1
  <2>2. CASE ~fault' /\ H \cap Waiters = {} /\ suspend_thread_count' = suspend_thread_count
    <3>1. Waiters' = Waiters
      BY <2>2
    <3>2. PoolSum' = PoolSum
      BY <3>1 DEF PoolSum
    <3>3. ~fault
      BY <2>2
    <3> QED BY <1>0, <2>2, <3>2, <3>3 DEF CountOK
  <2>3. CASE /\ ~fault' /\ suspend_thread_count' = suspend_thread_count - 1
             /\ \E h \in Waiters : H = {h}
    <3>1. PICK h \in Waiters : H = {h}
      BY <2>3
    <3>2. PoolSum' = PoolSum - 1
      BY <3>1, SumWakes
    <3>3. ~fault
      BY <2>3
    <3>4. suspend_thread_count = PoolSum + expired
      BY <1>0, <3>3 DEF CountOK
    <3> QED BY <1>0, <1>4, <2>3, <3>2, <3>4
  <2> QED BY <2>1, <2>2, <2>3
<1>6. CountOK'
  BY <1>3, <1>5 DEF CountOK
<1> QED BY <1>1, <1>2, <1>6 DEF PoolInv

\* A detach begins, or goes on to the senders of a mailbox.
LEMMA BeginKeeps ==
    ASSUME ObjInv, NEW t \in Thread, Runs(t), NEW q \in {event, mb, mb_sender, mq, mp},
           q = mb_sender \/ q \in alive, alive' = alive \ {q}, on' = [on EXCEPT ![t] = q],
           Goto(t, "detach_test"), k' = k, fault' = fault,
           UNCHANGED <<evvars, entry, mq_entry, mpvars>>,
           \/ pc[t] = "run" /\ q # mb_sender
           \/ pc[t] = "detach_test" /\ q = mb_sender /\ on[t] = mb /\ k.wait[mb] = << >> /\ mb \notin alive,
           q = mb => Out(mb, "EOK") = {} /\ Out(mb_sender, "EOK") = {},
           q \in {mq, mp} => Out(q, "EOK") = {},
           q = mq => \A u \in Thread : pc[u] \notin Copying
    PROVE  Kept4
<1>0. ObjCore /\ ThreadsOK /\ PoolInv /\ DetachOK /\ q \in Queue
      /\ on \in [Thread -> Queue] /\ pc \in [Thread -> Pcs]
  BY ListsAssumption DEF ObjInv, ObjCore, PoolInv, ThreadsOK, IpcCore
<1>1. pc'[t] = "detach_test" /\ on'[t] = q /\ \A u \in Thread : u # t => pc'[u] = pc[u] /\ on'[u] = on[u]
  BY <1>0 DEF Goto
<1>2. Moves({t}) /\ Arrive({t}, {}) /\ on' \in [Thread -> Queue] /\ pc' \in [Thread -> Pcs]
  <2>1. "detach_test" \in Pcs \ {"block", "woken"}
    BY DEF Pcs
  <2> QED BY <1>0, <2>1, GoesOn
<1>3. Quiet({t})
  BY <1>0, <1>2, QuietStep
<1>4. PICK H : H = {}
  OBVIOUS
<1>5. Step({t}, H, "ERROR", {})
  BY <1>3, <1>4 DEF Quiet, Step, KernelTurn
<1>6. pc[t] \notin {"block", "woken"} /\ pc'[t] \notin Copying /\ pc'[t] \in Detaching
  BY <1>1 DEF Copying, Detaching
<1>7. pc[t] \in Detaching => \/ pc'[t] \in Detaching /\ on'[t] = on[t]
                             \/ k.wait[on[t]] = << >>
  BY DEF Detaching
<1>8. ObjCore'
  BY <1>0, <1>1, <1>2, <1>5, <1>6, <1>7, DetachKeeps
<1>9. EvInv' /\ Wakeups' /\ Eases(mp) /\ Waiters' = Waiters \ H /\ Late' = Late
  BY <1>5, <1>6, DetachOthers
<1>10. DetachOK'
  <2>1. UNCHANGED suspend_thread_count
    BY DEF mpvars
  <2>2. CASE q = mp
    <3>1. mp \in alive /\ mp \notin alive'
      BY <2>2, ListsAssumption, MailboxAssumption
    <3>2. \A u \in Thread : ~Detaches(u)
      BY <1>0, <3>1 DEF DetachOK
    <3>3. \A u \in Thread : Detaches(u)' => u = t
      BY <1>1, <3>2 DEF Detaches
    <3> QED BY <1>1, <3>1, <3>3 DEF DetachOK
  <2>3. CASE q # mp
    <3>1. \A u \in Thread : Detaches(u)' => Detaches(u) /\ pc'[u] = pc[u]
      BY <1>1, <2>3 DEF Detaches
    <3> QED BY <1>0, <2>1, <3>1 DEF DetachOK
  <2> QED BY <2>2, <2>3
<1>11. PoolInv'
  <2>1. UNCHANGED <<block_list, block_free_count, expired>> /\ suspend_thread_count' = suspend_thread_count
        /\ H \cap Waiters = {}
    BY <1>4 DEF mpvars
  <2> QED BY <1>0, <1>9, <1>10, <2>1, DetachPool
<1> QED BY <1>8, <1>9, <1>11 DEF Kept4
\* The loop of a detach tests its list.
LEMMA TestKeeps ==
    ASSUME ObjInv, ~fault, NEW t \in Thread, ResumeAllTest(t),
           UNCHANGED <<evvars, entry, mq_entry, mpvars>>
    PROVE  Kept4
<1> DEFINE c == IF k.wait[on[t]] = << >> THEN "run" ELSE "detach_resume"
<1>0. ObjCore /\ ThreadsOK /\ PoolInv /\ DetachOK /\ on \in [Thread -> Queue] /\ pc \in [Thread -> Pcs]
  BY DEF ObjInv, ObjCore, PoolInv, ThreadsOK, IpcCore
<1>1. /\ k.cur = t /\ pc[t] = "detach_test" /\ Goto(t, c) /\ k' = k /\ on' = on /\ alive' = alive
      /\ fault' = fault
  BY DEF ResumeAllTest, At
<1>2. c \in Pcs \ {"block", "woken"} /\ c \notin Copying
  BY DEF Pcs, Copying
<1>3. Runs(t)
  <2>1. At(t, "detach_test") /\ "detach_test" \in Pcs \ {"run", "block"}
    BY DEF ResumeAllTest, Pcs
  <2> QED BY <1>0, <2>1, RunsAt
<1>4. pc'[t] = c /\ \A u \in Thread : u # t => pc'[u] = pc[u]
  BY <1>0, <1>1 DEF Goto
<1>5. Quiet({t}) /\ pc' \in [Thread -> Pcs]
  BY <1>0, <1>1, <1>2, <1>3, QuietDoes
<1>6. PICK H : H = {}
  OBVIOUS
<1>7. Step({t}, H, "ERROR", {})
  BY <1>5, <1>6 DEF Quiet, Step, KernelTurn
<1>8. pc[t] \notin {"block", "woken"} /\ pc'[t] \notin Copying
  BY <1>1, <1>2, <1>4
<1>9. \/ pc'[t] \in Detaching /\ on'[t] = on[t]
      \/ k.wait[on[t]] = << >>
  BY <1>1, <1>4 DEF Detaching
<1>10. ObjCore'
  BY <1>0, <1>1, <1>5, <1>7, <1>8, <1>9, DetachKeeps
<1>11. EvInv' /\ Wakeups' /\ Eases(mp) /\ Waiters' = Waiters \ H /\ Late' = Late
  BY <1>7, <1>8, DetachOthers
<1>12. UNCHANGED <<block_list, block_free_count, expired, suspend_thread_count>>
  BY DEF mpvars
<1>13. DetachOK'
  <2>1. ASSUME NEW u \in Thread, Detaches(u)'
        PROVE  /\ Detaches(u)
               /\ pc'[u] = "detach_resume" => suspend_thread_count > 0
    <3>1. Detaches(u)
      BY <1>1, <1>4, <2>1 DEF Detaches, Detaching
    <3>2. ASSUME pc'[u] = "detach_resume" PROVE suspend_thread_count > 0
      <4>1. CASE u # t
        BY <1>0, <1>4, <3>1, <3>2, <4>1 DEF DetachOK
      <4>2. CASE u = t
        <5>1. on[t] = mp
          BY <3>1, <4>2 DEF Detaches
        <5>2. k.wait[mp] # << >>
          BY <1>4, <3>2, <4>2, <5>1
        <5>3. k.wait[mp] \in Seq(Thread)
          BY <1>0, ListsAssumption DEF ThreadsOK, IpcCore, KernelOK, KernelState
        <5>4. Waiters # {}
          <6>1. PICK s \in Seq(Thread) : s = k.wait[mp]
            BY <5>3
          <6>2. 1 \in 1 .. Len(s)
            BY <5>2, <6>1
          <6>3. s[1] \in ToSet(s)
            BY <6>2 DEF ToSet
          <6> QED BY <6>1, <6>3 DEF Waiters
        <5>5. PoolSum > 0 /\ PoolSum \in Nat
          BY <1>0, <5>4, SumNat
        <5> QED BY <1>0, <5>5 DEF PoolInv, CountOK
      <4> QED BY <4>1, <4>2
    <3> QED BY <3>1, <3>2
  <2> QED BY <1>0, <1>1, <1>12, <2>1 DEF DetachOK
<1>14. PoolInv'
  <2>1. H \cap Waiters = {}
    BY <1>6
  <2> QED BY <1>0, <1>1, <1>11, <1>12, <1>13, <2>1, DetachPool
<1> QED BY <1>10, <1>11, <1>14 DEF Kept4

\* The loop of a detach takes the first of its list.
LEMMA OneKeeps ==
    ASSUME ObjInv, ~fault, NEW t \in Thread, ResumeAllOne(t),
           UNCHANGED <<evvars, entry, mq_entry, block_list, block_free_count, expired>>,
           suspend_thread_count' = suspend_thread_count - (IF on[t] = mp THEN 1 ELSE 0)
    PROVE  Kept4
<1> DEFINE q == on[t]
<1>0. /\ ObjCore /\ ThreadsOK /\ IpcCore /\ PoolInv /\ DetachOK /\ on \in [Thread -> Queue]
      /\ pc \in [Thread -> Pcs] /\ q \in Queue /\ mp \in Queue
  BY ListsAssumption DEF ObjInv, ObjCore, PoolInv, ThreadsOK, IpcCore
<1>1. /\ k.cur = t /\ pc[t] = "detach_resume" /\ Goto(t, "detach_test") /\ on' = on /\ alive' = alive
      /\ k.wait[q] = << >> => fault' = TRUE /\ k' = k
      /\ k.wait[q] # << >> => k' = ResumeWithError(k, q) /\ fault' = fault
  BY DEF ResumeAllOne, At
<1>2. "detach_test" \in Pcs \ {"block", "woken"} /\ "detach_test" \notin Copying
      /\ "detach_test" \in Detaching /\ "detach_resume" \in Detaching
  BY DEF Pcs, Copying, Detaching
<1>3. Runs(t)
  <2>1. At(t, "detach_resume") /\ "detach_resume" \in Pcs \ {"run", "block"}
    BY DEF ResumeAllOne, Pcs
  <2> QED BY <1>0, <2>1, RunsAt
<1>4. pc'[t] = "detach_test" /\ \A u \in Thread : u # t => pc'[u] = pc[u]
  BY <1>0, <1>1 DEF Goto
<1>5. Moves({t}) /\ Arrive({t}, {}) /\ on' \in [Thread -> Queue] /\ pc' \in [Thread -> Pcs]
  BY <1>0, <1>1, <1>2, GoesOn
<1>6. \E H : /\ Step({t}, H, "ERROR", {}) /\ \A h \in H : on[h] = q
             /\ fault' = TRUE \/ \E h \in ToSet(k.wait[q]) : H = {h}
  <2>1. CASE k.wait[q] = << >>
    <3>1. Quiet({t})
      BY <1>0, <1>1, <1>3, <1>5, <2>1, QuietStep
    <3>2. Step({t}, {}, "ERROR", {})
      BY <3>1 DEF Quiet, Step, KernelTurn
    <3> QED BY <1>1, <2>1, <3>2
  <2>2. CASE k.wait[q] # << >>
    <3>1. k' = ResumeWithError(k, q)
      BY <1>1, <2>2
    <3> HIDE DEF q
    <3>2. PICK h \in ToSet(k.wait[q]) : Step({t}, {h}, "ERROR", {})
      BY <1>0, <1>3, <1>5, <2>2, <3>1, ErrorStep
    <3>3. h \in Thread
      BY <3>2 DEF Step, KernelTurn
    <3>4. on[h] = q
      BY <1>0, <3>2, <3>3, WaiterOn
    <3> QED BY <3>2, <3>4
  <2> QED BY <2>1, <2>2
<1>7. PICK H : /\ Step({t}, H, "ERROR", {}) /\ \A h \in H : on[h] = q
               /\ fault' = TRUE \/ \E h \in ToSet(k.wait[q]) : H = {h}
  BY <1>6
<1>8. pc[t] \notin {"block", "woken"} /\ pc'[t] \notin Copying /\ pc'[t] \in Detaching /\ on'[t] = on[t]
  BY <1>1, <1>2, <1>4
<1>9. ObjCore'
  BY <1>0, <1>1, <1>5, <1>7, <1>8, DetachKeeps
<1>10. EvInv' /\ Wakeups' /\ Eases(mp) /\ Waiters' = Waiters \ H /\ Late' = Late
  BY <1>7, <1>8, DetachOthers
<1>11. fault' = fault \/ fault' = TRUE
  BY <1>1
<1>12. CASE q = mp
  <2>1. Detaches(t) /\ suspend_thread_count > 0
    BY <1>0, <1>1, <1>2, <1>12 DEF Detaches, DetachOK
  <2>2. suspend_thread_count' = suspend_thread_count - 1
    BY <1>12
  <2>3. \A u \in Thread : Detaches(u)' => u = t
    <3>1. ASSUME NEW u \in Thread, Detaches(u)', u # t PROVE FALSE
      <4>1. Detaches(u)
        BY <1>1, <1>4, <3>1 DEF Detaches
      <4> QED BY <1>0, <2>1, <3>1, <4>1 DEF DetachOK
    <3> QED BY <3>1
  <2>4. mp \notin alive
    BY <1>0, <2>1 DEF DetachOK
  <2>5. DetachOK'
    BY <1>1, <1>4, <2>3, <2>4 DEF DetachOK
  <2>6. fault' = TRUE \/ \E h \in Waiters : H = {h}
    BY <1>7, <1>12 DEF Waiters
  <2>7. PoolInv'
    BY <1>0, <1>10, <1>11, <2>1, <2>2, <2>5, <2>6, DetachPool
  <2> QED BY <1>9, <1>10, <2>7 DEF Kept4
<1>13. CASE q # mp
  <2>1. suspend_thread_count' = suspend_thread_count
    <3>1. suspend_thread_count \in Nat
      BY <1>0 DEF PoolInv, CountOK
    <3> QED BY <1>13, <3>1
  <2>2. \A u \in Thread : Detaches(u)' => Detaches(u) /\ pc'[u] = pc[u]
    BY <1>1, <1>4, <1>13 DEF Detaches
  <2>3. DetachOK'
    BY <1>0, <1>1, <2>1, <2>2 DEF DetachOK
  <2>4. H \cap Waiters = {}
    <3>1. ASSUME NEW h \in H, h \in ToSet(k.wait[mp]) PROVE FALSE
      <4>1. h \in Thread
        BY <1>7 DEF Step, KernelTurn
      <4>2. on[h] = mp
        BY <1>0, <3>1, <4>1, WaiterOn
      <4> QED BY <1>7, <1>13, <4>2
    <3> QED BY <3>1 DEF Waiters
  <2>5. PoolInv'
    BY <1>0, <1>10, <1>11, <2>1, <2>3, <2>4, DetachPool
  <2> QED BY <1>9, <1>10, <2>5 DEF Kept4
<1> QED BY <1>12, <1>13

\* rt_mq_detach of a static queue wakes nobody.
LEMMA StaticDetachKeeps ==
    ASSUME ObjInv, mq_static, alive' = alive \ {mq}, UNCHANGED <<k, pc, on, fault>>,
           Out(mq, "EOK") = {}, \A u \in Thread : pc[u] \notin Copying,
           UNCHANGED <<evvars, entry, mq_entry, mpvars>>
    PROVE  Kept4
<1>0. ObjCore /\ ThreadsOK /\ Gone /\ DetachOK
  BY DEF ObjInv, ObjCore, PoolInv
<1>1. \A q, f : Out(q, f)' = Out(q, f)
  BY DEF Out
<1>2. ThreadsOK'
  BY <1>0 DEF ThreadsOK, IpcCore, Waiting, CurRunnable
<1>3. mb # mq /\ mb_sender # mq /\ mp # mq
  BY ListsAssumption
<1>4. Gone'
  <2>1. /\ mb \notin alive => Out(mb, "EOK") = {} /\ Out(mb_sender, "EOK") = {}
        /\ mb_sender \notin alive => mb \notin alive
        /\ mp \notin alive => Out(mp, "EOK") = {}
    BY <1>0 DEF Gone
  <2>2. /\ mb \notin alive' => Out(mb, "EOK")' = {} /\ Out(mb_sender, "EOK")' = {}
        /\ mb_sender \notin alive' => mb \notin alive'
        /\ mq \notin alive' => Out(mq, "EOK")' = {} /\ \A u \in Thread : pc'[u] \notin Copying
        /\ mp \notin alive' => Out(mp, "EOK")' = {}
    BY <1>1, <1>3, <2>1
  <2> QED BY <2>2 DEF Gone
<1>5. ObjCore'
  BY <1>2, <1>4 DEF ObjCore, DetachKept
<1>6. \A q \in Queue : Still(q)
  BY <1>1 DEF Still
<1>7. DetachOK'
  BY <1>0 DEF DetachOK, Detaches, mpvars
<1> QED BY <1>5, <1>6, <1>7, AllKept
-----------------------------------------------------------------------------
(* Every step of the system.                                               *)

\* Steps on the event: no assertion fails, nothing comes to life.
LEMMA EventTypes ==
    ASSUME ObjTypes, OnEvent,
           \/ \E t \in Thread : EventCall(t) \/ EventReturn(t)
           \/ EventIsr
    PROVE  ObjTypes' /\ fault' = fault
<1>1. timeout' = timeout
  BY DEF OnEvent
<1>2. ASSUME NEW t \in Thread, EventCall(t) PROVE fault' = fault /\ alive' \subseteq alive
  BY <1>2 DEF EventCall, rt_event_send, rt_event_recv, Send, EventReset, EventDetach, ResumeAll
<1>3. ASSUME NEW t \in Thread, EventReturn(t) PROVE fault' = fault /\ alive' \subseteq alive
  BY <1>3 DEF EventReturn
<1>4. ASSUME EventIsr PROVE fault' = fault /\ alive' \subseteq alive
  BY <1>4 DEF EventIsr, EventSendIsr, Send
<1>5. fault' = fault /\ alive' \subseteq alive
  BY <1>2, <1>3, <1>4
<1> QED BY <1>1, <1>5 DEF ObjTypes

\* Timeouts are what a call was given, what is left of it, or nothing.
LEMMA TimeTypes ==
    ASSUME ObjTypes
    PROVE  /\ \A t, time \in Time : [timeout EXCEPT ![t] = time] \in [Thread -> Time]
           /\ 0 \in Time /\ \A t \in Thread : TimeLeft(timeout[t]) \subseteq Time
BY DEF ObjTypes, Time, TimeLeft

\* Steps on the mailbox.
LEMMA MailboxTypes ==
    ASSUME ObjTypes,
           \/ \E t \in Thread : MailboxCall(t) \/ MailboxStep(t)
           \/ MailboxIsr
    PROVE  ObjTypes' /\ fault' = fault
<1>0. /\ \A t, time \in Time : [timeout EXCEPT ![t] = time] \in [Thread -> Time]
      /\ 0 \in Time /\ \A t \in Thread : TimeLeft(timeout[t]) \subseteq Time
      /\ timeout \in [Thread -> Time]
  BY TimeTypes DEF ObjTypes
<1>1. ASSUME NEW t \in Thread, NEW v, NEW time \in Time, SendRound(t, v, time)
      PROVE  timeout' \in [Thread -> Time]
  BY <1>0, <1>1 DEF SendRound, Leave, Enter, WaitFor
<1>2. ASSUME NEW t \in Thread, NEW time \in Time, NEW again, RecvRound(t, time, again)
      PROVE  timeout' \in [Thread -> Time]
  BY <1>0, <1>2 DEF RecvRound, Leave, Enter, WaitFor
<1>3. ASSUME NEW t \in Thread, MailboxCall(t)
      PROVE  fault' = fault /\ alive' \subseteq alive /\ timeout' \in [Thread -> Time]
  <2>1. CASE \E v \in Mail : rt_mb_urgent(t, v)
    BY <1>0, <2>1 DEF rt_mb_urgent
  <2>2. CASE \E v \in Mail, time \in Time : rt_mb_send_wait(t, v, time)
    BY <1>1, <2>2 DEF rt_mb_send_wait
  <2>3. CASE \E time \in Time : rt_mb_recv(t, time)
    BY <1>2, <2>3 DEF rt_mb_recv
  <2>4. CASE UseMail(t) \/ MbReset(t) \/ MbDetach(t)
    BY <1>0, <2>4 DEF UseMail, MbReset, MbDetach, ResumeAll
  <2> QED BY <1>3, <2>1, <2>2, <2>3, <2>4 DEF MailboxCall
<1>4. ASSUME NEW t \in Thread, MailboxStep(t)
      PROVE  fault' = fault /\ alive' \subseteq alive /\ timeout' \in [Thread -> Time]
  <2>1. CASE SendResumed(t)
    <3>1. fault' = fault /\ alive' = alive
      BY <2>1 DEF SendResumed
    <3>2. CASE k.error[t] # "EOK"
      BY <1>0, <2>1, <3>1, <3>2 DEF SendResumed, Leave, Enter
    <3>3. CASE k.error[t] = "EOK"
      <4>1. PICK left \in TimeLeft(timeout[t]) : SendRound(t, value[t], left)
        BY <2>1, <3>3 DEF SendResumed
      <4> QED BY <1>0, <1>1, <3>1, <4>1
    <3> QED BY <3>2, <3>3
  <2>2. CASE RecvResumed(t)
    <3>1. fault' = fault /\ alive' = alive
      BY <2>2 DEF RecvResumed
    <3>2. CASE k.error[t] # "EOK"
      BY <1>0, <2>2, <3>1, <3>2 DEF RecvResumed, Leave, Enter
    <3>3. CASE k.error[t] = "EOK"
      <4>1. PICK left \in TimeLeft(timeout[t]) : RecvRound(t, left, TRUE)
        BY <2>2, <3>3 DEF RecvResumed
      <4> QED BY <1>0, <1>2, <3>1, <4>1
    <3> QED BY <3>2, <3>3
  <2>3. CASE MbDetachSenders(t)
    BY <1>0, <2>3 DEF MbDetachSenders, ResumeAllThen
  <2> QED BY <1>4, <2>1, <2>2, <2>3 DEF MailboxStep
<1>5. ASSUME MailboxIsr
      PROVE  fault' = fault /\ alive' \subseteq alive /\ timeout' \in [Thread -> Time]
  BY <1>0, <1>5 DEF MailboxIsr, MbSendIsr
<1>6. fault' = fault /\ alive' \subseteq alive /\ timeout' \in [Thread -> Time]
  BY <1>3, <1>4, <1>5
<1> QED BY <1>6 DEF ObjTypes

\* Steps on the message queue.
LEMMA MessageQueueTypes ==
    ASSUME ObjTypes,
           \/ \E t \in Thread : MessageQueueCall(t) \/ MessageQueueStep(t)
           \/ MessageQueueIsr
    PROVE  ObjTypes' /\ fault' = fault
<1>0. /\ \A t, time \in Time : [timeout EXCEPT ![t] = time] \in [Thread -> Time]
      /\ 0 \in Time /\ \A t \in Thread : TimeLeft(timeout[t]) \subseteq Time
      /\ timeout \in [Thread -> Time]
  BY TimeTypes DEF ObjTypes
<1>1. ASSUME NEW t \in Thread, NEW time \in Time, NEW again, MqRecvRound(t, time, again)
      PROVE  timeout' \in [Thread -> Time]
  BY <1>0, <1>1 DEF MqRecvRound, Leaves
<1>2. ASSUME NEW t \in Thread, MessageQueueCall(t)
      PROVE  fault' = fault /\ alive' \subseteq alive /\ timeout' \in [Thread -> Time]
  <2>1. CASE \E b \in Message, urgent \in BOOLEAN : rt_mq_send(t, b, urgent)
    BY <1>0, <2>1 DEF rt_mq_send
  <2>2. CASE \E time \in Time : rt_mq_recv(t, time)
    BY <1>1, <2>2 DEF rt_mq_recv
  <2>3. CASE MqReset(t) \/ MqDetach(t)
    BY <1>0, <2>3 DEF MqReset, MqDetach, ResumeAll
  <2> QED BY <1>2, <2>1, <2>2, <2>3 DEF MessageQueueCall
<1>3. ASSUME NEW t \in Thread, MessageQueueStep(t)
      PROVE  fault' = fault /\ alive' \subseteq alive /\ timeout' \in [Thread -> Time]
  <2>1. CASE MqLink(t) \/ MqGiveBack(t)
    BY <1>0, <2>1 DEF MqLink, MqGiveBack
  <2>2. CASE MqRecvResumed(t)
    <3>1. fault' = fault /\ alive' = alive
      BY <2>2 DEF MqRecvResumed
    <3>2. CASE k.error[t] # "EOK"
      BY <1>0, <2>2, <3>1, <3>2 DEF MqRecvResumed, Leaves
    <3>3. CASE k.error[t] = "EOK"
      <4>1. PICK left \in TimeLeft(timeout[t]) : MqRecvRound(t, left, TRUE)
        BY <2>2, <3>3 DEF MqRecvResumed
      <4> QED BY <1>0, <1>1, <3>1, <4>1
    <3> QED BY <3>2, <3>3
  <2> QED BY <1>3, <2>1, <2>2 DEF MessageQueueStep
<1>4. ASSUME MessageQueueIsr
      PROVE  fault' = fault /\ alive' \subseteq alive /\ timeout' \in [Thread -> Time]
  BY <1>0, <1>4 DEF MessageQueueIsr, MqSendIsr
<1>5. fault' = fault /\ alive' \subseteq alive /\ timeout' \in [Thread -> Time]
  BY <1>2, <1>3, <1>4
<1> QED BY <1>5 DEF ObjTypes

\* Steps on the pool, where assertions can fail.
LEMMA MemPoolTypes ==
    ASSUME ObjTypes,
           \/ \E t \in Thread : MemPoolCall(t) \/ MemPoolStep(t)
           \/ MemPoolIsr
    PROVE  ObjTypes'
<1>0. /\ \A t, time \in Time : [timeout EXCEPT ![t] = time] \in [Thread -> Time]
      /\ 0 \in Time /\ \A t \in Thread : TimeLeft(timeout[t]) \subseteq Time
      /\ timeout \in [Thread -> Time] /\ fault \in BOOLEAN
  BY TimeTypes DEF ObjTypes
<1>1. ASSUME NEW t \in Thread, NEW time \in Time, AllocRound(t, time)
      PROVE  timeout' \in [Thread -> Time] /\ fault' \in BOOLEAN
  BY <1>0, <1>1 DEF AllocRound, Ends
<1>2. ASSUME NEW t \in Thread, MemPoolCall(t)
      PROVE  fault' \in BOOLEAN /\ alive' \subseteq alive /\ timeout' \in [Thread -> Time]
  <2>1. CASE \E time \in Time : rt_mp_alloc(t, time)
    BY <1>1, <2>1 DEF rt_mp_alloc
  <2>2. CASE \E b \in Block : rt_mp_free(t, b)
    BY <1>0, <2>2 DEF rt_mp_free, Free
  <2>3. CASE MpDetach(t)
    BY <1>0, <2>3 DEF MpDetach, ResumeAll
  <2> QED BY <1>2, <2>1, <2>2, <2>3 DEF MemPoolCall
<1>3. ASSUME NEW t \in Thread, MemPoolStep(t)
      PROVE  fault' \in BOOLEAN /\ alive' \subseteq alive /\ timeout' \in [Thread -> Time]
  <2>1. CASE AllocResumed(t)
    <3>1. alive' = alive
      BY <2>1 DEF AllocResumed
    <3>2. CASE k.error[t] # "EOK"
      BY <1>0, <2>1, <3>1, <3>2 DEF AllocResumed, Ends
    <3>3. CASE k.error[t] = "EOK"
      <4>1. PICK left \in TimeLeft(timeout[t]) : AllocRound(t, left)
        BY <2>1, <3>3 DEF AllocResumed
      <4> QED BY <1>0, <1>1, <3>1, <4>1
    <3> QED BY <3>2, <3>3
  <2>2. CASE MpDetachTest(t)
    BY <1>0, <2>2 DEF MpDetachTest, ResumeAllTest
  <2>3. CASE MpDetachOne(t)
    BY <1>0, <2>3 DEF MpDetachOne, ResumeAllOne
  <2> QED BY <1>3, <2>1, <2>2, <2>3 DEF MemPoolStep
<1>4. ASSUME MemPoolIsr
      PROVE  fault' \in BOOLEAN /\ alive' \subseteq alive /\ timeout' \in [Thread -> Time]
  BY <1>0, <1>4 DEF MemPoolIsr, FreeIsr, Free
<1>5. fault' \in BOOLEAN /\ alive' \subseteq alive /\ timeout' \in [Thread -> Time]
  BY <1>2, <1>3, <1>4
<1> QED BY <1>5 DEF ObjTypes

-----------------------------------------------------------------------------
(* The steps of the whole system.                                          *)

\* An object whose detach is under way is no longer used.
DetachGone == \A t \in Thread : pc[t] \in Detaching => on[t] \notin alive

\* What a step has to keep; MbStep and MqStep give the rest of ObjInv.
AllKeeps == Kept4 /\ ObjTypes' /\ DetachGone'

\* A step in which no detach begins or goes on.
LEMMA CalmGone ==
    ASSUME DetachGone, NEW T, Calm(T), Moves(T)
    PROVE  DetachGone'
<1>1. \A u \in Thread : pc'[u] \in Detaching => pc[u] \in Detaching /\ on'[u] = on[u]
  BY DEF Calm, Moves
<1> QED BY <1>1 DEF DetachGone, Calm

\* Only t moves, and goes nowhere, or into or on with the detach of a list that
\* is gone.
LEMMA MoveGone ==
    ASSUME DetachGone, alive' \subseteq alive,
           \A u \in Thread : pc'[u] \in Detaching =>
              \/ pc[u] \in Detaching /\ on'[u] = on[u]
              \/ on'[u] \notin alive'
    PROVE  DetachGone'
BY DEF DetachGone

\* A thread that detaches q, or goes on to it, or nothing: where it goes.
LEMMA GoneGoto ==
    ASSUME DetachGone, ThreadsOK, NEW t \in Thread, NEW c, Goto(t, c),
           alive' \subseteq alive,
           \/ on' = on /\ (c \in Detaching => pc[t] \in Detaching)
           \/ \E q \in Queue : on' = [on EXCEPT ![t] = q] /\ q \notin alive'
    PROVE  DetachGone'
<1>0. pc \in [Thread -> Pcs] /\ on \in [Thread -> Queue]
  BY DEF ThreadsOK, IpcCore
<1>1. pc'[t] = c /\ \A u \in Thread : u # t => pc'[u] = pc[u]
  BY <1>0 DEF Goto
<1>2. CASE on' = on /\ (c \in Detaching => pc[t] \in Detaching)
  BY <1>1, <1>2, MoveGone
<1>3. CASE \E q \in Queue : on' = [on EXCEPT ![t] = q] /\ q \notin alive'
  <2>1. on'[t] \notin alive' /\ \A u \in Thread : u # t => on'[u] = on[u]
    BY <1>0, <1>3
  <2> QED BY <1>1, <2>1, MoveGone
<1> QED BY <1>2, <1>3

\* The kernel's own steps.
LEMMA KernelAll ==
    ASSUME ObjInv, DetachGone, OnKernel,
           \/ \E t, u \in Thread : Startup(t, u)
           \/ \E t \in Thread : Reschedule(t) \/ Timeout(t)
           \/ SliceExpired
    PROVE  AllKeeps
<1>0. ThreadsOK /\ ObjTypes
  BY DEF ObjInv, ObjCore
<1>1. ObjTypes' /\ alive' = alive /\ on' = on
  BY <1>0 DEF OnKernel, ObjTypes
<1>2. Kept4
  BY StartSliceKeeps, RescheduleKeeps, TimeoutKeeps
<1>3. DetachGone'
  <2>1. CASE \E t, u \in Thread : Startup(t, u)
    <3>1. PICK t \in Thread : Goto(t, "resched")
      BY <2>1 DEF Startup
    <3>2. "resched" \notin Detaching
      BY DEF Detaching
    <3> QED BY <1>0, <1>1, <3>1, <3>2, GoneGoto
  <2>2. CASE \E t \in Thread : Reschedule(t)
    <3>1. PICK t \in Thread, c \in {"woken", "run"} : Goto(t, c)
      BY <2>2 DEF Reschedule
    <3>2. c \notin Detaching
      BY DEF Detaching
    <3> QED BY <1>0, <1>1, <3>1, <3>2, GoneGoto
  <2>3. CASE pc' = pc
    BY <1>1, <2>3 DEF DetachGone
  <2> QED BY <2>1, <2>2, <2>3 DEF Timeout, SliceExpired
<1> QED BY <1>1, <1>2, <1>3 DEF AllKeeps

\* The threads resumed from a list, under the names of the model.
LEMMA ResumedIsOut == \A q : Resumed(q) = Out(q, "EOK")
BY DEF Resumed, Out

\* The detach of an object begins.
LEMMA BeginAll ==
    ASSUME ObjInv, DetachGone, ObjTypes', NEW t \in Thread, NEW q \in {event, mb, mq, mp}, ResumeAll(t, q),
           UNCHANGED <<evvars, entry, mq_entry, mpvars>>,
           q = mb => NoneReturning(mb) /\ NoneReturning(mb_sender),
           q \in {mq, mp} => NoneReturning(q),
           q = mq => \A u \in Thread : pc[u] \notin Copying
    PROVE  AllKeeps
<1>0. ThreadsOK /\ q \in Queue /\ q # mb_sender
  BY ListsAssumption, MailboxAssumption DEF ObjInv, ObjCore
<1>1. /\ Calls(t) /\ pc[t] = "run" /\ q \in alive /\ alive' = alive \ {q} /\ on' = [on EXCEPT ![t] = q]
      /\ Goto(t, "detach_test") /\ k' = k /\ fault' = fault
  BY DEF ResumeAll, CallsOn, Calls, At
<1>2. Runs(t)
  BY <1>0, <1>1, RunsAt
<1>3. /\ q = mb => Out(mb, "EOK") = {} /\ Out(mb_sender, "EOK") = {}
      /\ q \in {mq, mp} => Out(q, "EOK") = {}
  BY ResumedIsOut DEF NoneReturning
<1>4. q \in {event, mb, mb_sender, mq, mp}
  OBVIOUS
<1>5. Kept4
  BY <1>0, <1>1, <1>2, <1>3, <1>4, BeginKeeps
<1>6. alive' \subseteq alive /\ q \notin alive'
  BY <1>1
<1>7. DetachGone'
  BY <1>0, <1>1, <1>6, GoneGoto
<1> QED BY <1>5, <1>7 DEF AllKeeps

\* A step on the event.
LEMMA EventAll ==
    ASSUME ObjInv, DetachGone, OnEvent,
           \/ \E t \in Thread : EventCall(t) \/ EventReturn(t)
           \/ EventIsr
    PROVE  AllKeeps
<1>0. ThreadsOK /\ EvInv /\ ObjTypes
  BY DEF ObjInv, ObjCore
<1>1. ObjTypes' /\ fault' = fault
  BY <1>0, EventTypes
<1>2. ASSUME NEW T, EvDoes(T), Calm(T), NoCopy(T) PROVE AllKeeps
  <2>1. Kept4
    BY <1>1, <1>2, EventKeeps
  <2>2. DetachGone'
    BY <1>2, DoesMove, CalmGone
  <2> QED BY <1>1, <2>1, <2>2 DEF AllKeeps
<1>3. CASE EventIsr
  BY <1>0, <1>2, <1>3, EventIsrDoes
<1>4. ASSUME NEW t \in Thread, EventCall(t) \/ EventReturn(t) PROVE AllKeeps
  <2>1. CASE EventDetach(t)
    <3>1. ResumeAll(t, event) /\ UNCHANGED <<evvars, entry, mq_entry, mpvars>>
      BY <2>1 DEF EventDetach, OnEvent, mbvars, mqvars, nodes
    <3>2. event \in {event, mb, mq, mp} /\ event \notin {mb, mq, mp}
      BY ListsAssumption
    <3> QED BY <1>1, <3>1, <3>2, BeginAll
  <2>2. CASE ~EventDetach(t)
    <3>1. \/ \E bits \in SUBSET Bit : rt_event_send(t, bits)
          \/ \E want \in SUBSET Bit, option \in Option, time \in Time :
                rt_event_recv(t, want, option, time)
          \/ EventReset(t)
          \/ EventReturn(t)
      BY <1>4, <2>2 DEF EventCall
    <3>2. EvDoes({t}) /\ Calm({t}) /\ NoCopy({t})
      BY <1>0, <3>1, EventDoes
    <3> QED BY <1>2, <3>2
  <2> QED BY <2>1, <2>2
<1> QED BY <1>3, <1>4

\* A step on the mailbox.
LEMMA MailboxAll ==
    ASSUME ObjInv, DetachGone, OnMb,
           \/ \E t \in Thread : MailboxCall(t) \/ MailboxStep(t)
           \/ MailboxIsr
    PROVE  AllKeeps
<1>0. ThreadsOK /\ Gone /\ MbInv /\ ObjTypes
  BY DEF ObjInv, ObjCore
<1>1. ObjTypes' /\ fault' = fault
  BY <1>0, MailboxTypes
<1>2. ASSUME NEW T, MbDoes(T), Calm(T), NoCopy(T) PROVE AllKeeps
  <2>1. Kept4
    BY <1>1, <1>2, MailboxKeeps
  <2>2. DetachGone'
    BY <1>2, DoesMove, CalmGone
  <2> QED BY <1>1, <2>1, <2>2 DEF AllKeeps
<1>3. CASE MailboxIsr
  <2>1. MbDoes({}) /\ Calm({}) /\ NoCopy({})
    BY <1>0, <1>3, MailboxIsrDoes DEF NoCopy
  <2> QED BY <1>2, <2>1
<1>4. ASSUME NEW t \in Thread, MailboxCall(t) \/ MailboxStep(t) PROVE AllKeeps
  <2>1. CASE MbDetach(t)
    <3>1. /\ ResumeAll(t, mb) /\ UNCHANGED <<evvars, entry, mq_entry, mpvars>>
          /\ NoneReturning(mb) /\ NoneReturning(mb_sender)
      BY <2>1 DEF MbDetach, OnMb, mbvars, mqvars, nodes
    <3>2. mb \in {event, mb, mq, mp} /\ mb \notin {mq, mp}
      BY ListsAssumption
    <3> QED BY <1>1, <3>1, <3>2, BeginAll
  <2>2. CASE MbDetachSenders(t)
    <3>1. /\ At(t, "detach_test") /\ on[t] = mb /\ k.wait[mb] = << >>
          /\ on' = [on EXCEPT ![t] = mb_sender] /\ alive' = alive \ {mb_sender}
          /\ pc' = pc /\ k' = k /\ UNCHANGED <<evvars, entry, mq_entry, mpvars>>
      BY <2>2 DEF MbDetachSenders, ResumeAllThen, OnMb, mbvars, mqvars, nodes, kvars
    <3>2. pc[t] = "detach_test" /\ "detach_test" \in Pcs \ {"run", "block"} /\ "detach_test" \in Detaching
      BY <3>1 DEF At, Pcs, Detaching
    <3>3. Goto(t, "detach_test") /\ Runs(t) /\ mb \notin alive
      <4>1. Runs(t)
        BY <1>0, <3>1, <3>2, RunsAt
      <4>2. pc \in [Thread -> Pcs]
        BY <1>0 DEF ThreadsOK
      <4>3. Goto(t, "detach_test")
        BY <3>1, <3>2, <4>2 DEF Goto
      <4> QED BY <3>1, <3>2, <4>1, <4>3 DEF DetachGone
    <3>4. /\ mb_sender \in {event, mb, mb_sender, mq, mp} /\ mb_sender \notin {mb, mq, mp}
          /\ mb_sender \in Queue
      BY ListsAssumption, MailboxAssumption
    <3>5. Kept4
      BY <1>1, <3>1, <3>2, <3>3, <3>4, BeginKeeps
    <3>6. alive' \subseteq alive /\ mb_sender \notin alive'
      BY <3>1
    <3>7. DetachGone'
      BY <1>0, <3>1, <3>3, <3>4, <3>6, GoneGoto
    <3> QED BY <1>1, <3>5, <3>7 DEF AllKeeps
  <2>3. CASE ~MbDetach(t) /\ ~MbDetachSenders(t)
    <3>1. \/ \E v \in Mail : rt_mb_urgent(t, v) \/ \E time \in Time : rt_mb_send_wait(t, v, time)
          \/ \E time \in Time : rt_mb_recv(t, time)
          \/ UseMail(t)
          \/ MbReset(t)
          \/ SendResumed(t)
          \/ RecvResumed(t)
      BY <1>4, <2>3 DEF MailboxCall, MailboxStep
    <3>2. MbDoes({t}) /\ Calm({t}) /\ pc'[t] \notin Copying \cup Detaching
      BY <1>0, <3>1, MailboxDoes
    <3>3. NoCopy({t})
      BY <3>2 DEF NoCopy
    <3> QED BY <1>2, <3>2, <3>3
  <2> QED BY <2>1, <2>2, <2>3
<1> QED BY <1>3, <1>4

\* A step on the message queue.
LEMMA MessageQueueAll ==
    ASSUME ObjInv, DetachGone, OnMq,
           \/ \E t \in Thread : MessageQueueCall(t) \/ MessageQueueStep(t)
           \/ MessageQueueIsr
    PROVE  AllKeeps
<1>0. ThreadsOK /\ Gone /\ ObjTypes
  BY DEF ObjInv, ObjCore
<1>1. ObjTypes' /\ fault' = fault
  BY <1>0, MessageQueueTypes
<1>2. ASSUME NEW T, MqDoes(T), Calm(T) PROVE AllKeeps
  <2>1. Kept4
    BY <1>1, <1>2, MessageQueueKeeps
  <2>2. DetachGone'
    BY <1>2, DoesMove, CalmGone
  <2> QED BY <1>1, <2>1, <2>2 DEF AllKeeps
<1>3. CASE MessageQueueIsr
  BY <1>0, <1>2, <1>3, MessageQueueIsrDoes
<1>4. ASSUME NEW t \in Thread, MessageQueueCall(t) \/ MessageQueueStep(t) PROVE AllKeeps
  <2>1. CASE MqDetach(t)
    <3>1. /\ UNCHANGED <<evvars, entry, mq_entry, mpvars>>
          /\ NoneReturning(mq) /\ \A u \in Thread : pc[u] \notin Copying
      BY <2>1 DEF MqDetach, OnMq, mbvars, mqvars, nodes, Copying
    <3>2. CASE ~mq_static
      <4>1. ResumeAll(t, mq)
        BY <2>1, <3>2 DEF MqDetach
      <4>2. mq \in {event, mb, mq, mp} /\ mq # mb
        BY ListsAssumption
      <4> QED BY <1>1, <3>1, <4>1, <4>2, BeginAll
    <3>3. CASE mq_static
      <4>1. alive' = alive \ {mq} /\ UNCHANGED <<k, pc, on, fault>>
        BY <2>1, <3>3 DEF MqDetach, kvars
      <4>2. Out(mq, "EOK") = {}
        BY <3>1, ResumedIsOut DEF NoneReturning
      <4>3. Kept4
        BY <3>1, <3>3, <4>1, <4>2, StaticDetachKeeps
      <4>4. DetachGone'
        BY <4>1 DEF DetachGone
      <4> QED BY <1>1, <4>3, <4>4 DEF AllKeeps
    <3> QED BY <3>2, <3>3
  <2>2. CASE ~MqDetach(t)
    <3>1. \/ \E b \in Message, urgent \in BOOLEAN : rt_mq_send(t, b, urgent)
          \/ \E time \in Time : rt_mq_recv(t, time)
          \/ MqReset(t)
          \/ MqLink(t)
          \/ MqRecvResumed(t)
          \/ MqGiveBack(t)
      BY <1>4, <2>2 DEF MessageQueueCall, MessageQueueStep
    <3>2. MqDoes({t}) /\ Calm({t})
      BY <1>0, <3>1, MessageQueueDoes
    <3> QED BY <1>2, <3>2
  <2> QED BY <2>1, <2>2
<1> QED BY <1>3, <1>4

\* The loop of a detach, on whichever list.
LEMMA LoopAll ==
    ASSUME ObjInv, DetachGone, ~fault, ObjTypes', NEW t \in Thread,
           UNCHANGED <<evvars, entry, mq_entry, block_list, block_free_count, expired>>,
           \/ ResumeAllTest(t) /\ suspend_thread_count' = suspend_thread_count
           \/ ResumeAllOne(t)
              /\ suspend_thread_count' = suspend_thread_count - (IF on[t] = mp THEN 1 ELSE 0)
    PROVE  AllKeeps
<1>0. ThreadsOK
  BY DEF ObjInv, ObjCore
<1>1. CASE ResumeAllTest(t) /\ suspend_thread_count' = suspend_thread_count
  <2>1. UNCHANGED <<evvars, entry, mq_entry, mpvars>>
    BY <1>1 DEF mpvars
  <2>2. Kept4
    BY <1>1, <2>1, TestKeeps
  <2>3. PICK c : Goto(t, c)
    BY <1>1 DEF ResumeAllTest
  <2>4. on' = on /\ alive' \subseteq alive /\ pc[t] \in Detaching
    BY <1>1 DEF ResumeAllTest, At, Detaching
  <2>5. DetachGone'
    BY <1>0, <2>3, <2>4, GoneGoto
  <2> QED BY <2>2, <2>5 DEF AllKeeps
<1>2. CASE ResumeAllOne(t)
           /\ suspend_thread_count' = suspend_thread_count - (IF on[t] = mp THEN 1 ELSE 0)
  <2>2. Kept4
    BY <1>2, OneKeeps
  <2>3. Goto(t, "detach_test")
    BY <1>2 DEF ResumeAllOne
  <2>4. on' = on /\ alive' \subseteq alive /\ pc[t] \in Detaching
    BY <1>2 DEF ResumeAllOne, At, Detaching
  <2>5. DetachGone'
    BY <1>0, <2>3, <2>4, GoneGoto
  <2> QED BY <2>2, <2>5 DEF AllKeeps
<1> QED BY <1>1, <1>2

\* A step on the pool.
LEMMA MemPoolAll ==
    ASSUME ObjInv, DetachGone, ~fault, OnMp,
           \/ \E t \in Thread : MemPoolCall(t) \/ MemPoolStep(t)
           \/ MemPoolIsr
    PROVE  AllKeeps
<1>0. ThreadsOK /\ Gone /\ PoolInv /\ ObjTypes
  BY DEF ObjInv, ObjCore
<1>1. ObjTypes'
  BY <1>0, MemPoolTypes
<1>2. ASSUME NEW T, MpDoes(T), Calm(T), NoCopy(T) PROVE AllKeeps
  <2>1. Kept4
    BY <1>1, <1>2, MemPoolKeeps
  <2>2. DetachGone'
    BY <1>2, DoesMove, CalmGone
  <2> QED BY <1>1, <2>1, <2>2 DEF AllKeeps
<1>3. CASE MemPoolIsr
  BY <1>0, <1>2, <1>3, MemPoolIsrDoes
<1>4. ASSUME NEW t \in Thread, MemPoolCall(t) \/ MemPoolStep(t) PROVE AllKeeps
  <2>0. UNCHANGED <<evvars, entry, mq_entry>>
    BY DEF OnMp, mbvars, mqvars, nodes
  <2>1. CASE MpDetach(t)
    <3>1. ResumeAll(t, mp) /\ UNCHANGED <<evvars, entry, mq_entry, mpvars>> /\ NoneReturning(mp)
      BY <2>0, <2>1 DEF MpDetach
    <3>2. mp \in {event, mb, mq, mp} /\ mp # mb /\ mp # mq
      BY ListsAssumption
    <3> QED BY <1>1, <3>1, <3>2, BeginAll
  <2>2. CASE MpDetachTest(t)
    <3>1. /\ UNCHANGED <<evvars, entry, mq_entry, block_list, block_free_count, expired>>
          /\ ResumeAllTest(t) /\ suspend_thread_count' = suspend_thread_count
      BY <2>0, <2>2 DEF MpDetachTest, mpvars
    <3> QED BY <1>1, <3>1, LoopAll
  <2>3. CASE MpDetachOne(t)
    <3>1. /\ UNCHANGED <<evvars, entry, mq_entry, block_list, block_free_count, expired>>
          /\ ResumeAllOne(t)
          /\ suspend_thread_count' = suspend_thread_count - (IF on[t] = mp THEN 1 ELSE 0)
      BY <2>0, <2>3 DEF MpDetachOne
    <3> QED BY <1>1, <3>1, LoopAll
  <2>4. CASE ~MpDetach(t) /\ ~MpDetachTest(t) /\ ~MpDetachOne(t)
    <3>1. \/ \E time \in Time : rt_mp_alloc(t, time)
          \/ \E b \in Block : rt_mp_free(t, b)
          \/ AllocResumed(t)
      BY <1>4, <2>4 DEF MemPoolCall, MemPoolStep
    <3>2. MpDoes({t}) /\ Calm({t}) /\ NoCopy({t})
      BY <1>0, <3>1, MemPoolDoes
    <3> QED BY <1>2, <3>2
  <2> QED BY <2>1, <2>2, <2>3, <2>4
<1> QED BY <1>3, <1>4

\* The counts of the pool have their types.
LEMMA PoolTyped == PoolInv => MemPoolTypeOK
<1> SUFFICES ASSUME PoolInv PROVE MemPoolTypeOK
  OBVIOUS
<1>1. block_list \in Seq(Block) /\ IsInjective(block_list) /\ block_free_count = Len(block_list)
  BY DEF PoolInv, BlocksOK
<1>2. Cardinality(ToSet(block_list)) = Len(block_list)
  BY <1>1, ListCardinality
<1>3. ToSet(block_list) \subseteq Block
  BY <1>1 DEF ToSet
<1>4. Cardinality(ToSet(block_list)) <= Cardinality(Block)
  BY <1>3, MemPoolAssumption, FS_Subset
<1>5. Cardinality(Block) \in Nat
  BY MemPoolAssumption, FS_CardinalityType
<1>6. block_free_count \in 0 .. Cardinality(Block)
  BY <1>1, <1>2, <1>4, <1>5
<1> QED BY <1>1, <1>6 DEF MemPoolTypeOK, PoolInv, CountOK

\* The loop of the other detaches.
LEMMA DetachAll ==
    ASSUME ObjInv, DetachGone, ~fault, NEW t \in Thread, DetachTest(t) \/ DetachResume(t)
    PROVE  AllKeeps
<1>0. ObjTypes /\ MemPoolTypeOK
  BY PoolTyped DEF ObjInv
<1>1. /\ UNCHANGED <<evvars, entry, mq_entry, block_list, block_free_count, expired>>
      /\ suspend_thread_count' = suspend_thread_count /\ on[t] # mp /\ UNCHANGED timeout
      /\ alive' = alive /\ (fault' = fault \/ fault' = TRUE)
      /\ ResumeAllTest(t) \/ ResumeAllOne(t)
  BY DEF DetachTest, DetachResume, AnyList, mbvars, mqvars, nodes, mpvars, ResumeAllTest, ResumeAllOne
<1>2. ObjTypes'
  BY <1>0, <1>1 DEF ObjTypes
<1>3. suspend_thread_count' = suspend_thread_count - (IF on[t] = mp THEN 1 ELSE 0)
  <2>1. suspend_thread_count \in Nat
    BY <1>0 DEF MemPoolTypeOK
  <2> QED BY <1>1, <2>1
<1> QED BY <1>1, <1>2, <1>3, LoopAll

\* Every step of the system.
LEMMA ObjNext == ObjInv /\ DetachGone /\ [Next]_vars => ObjInv' /\ DetachGone'
<1> SUFFICES ASSUME ObjInv, DetachGone, [Next]_vars PROVE ObjInv' /\ DetachGone'
  OBVIOUS
<1>1. MbInv' /\ MqInv'
  BY MbStep, MqStep DEF ObjInv
<1>2. AllKeeps
  <2>1. CASE UNCHANGED vars
    <3>1. UNCHANGED <<kvars, alive, on, fault, timeout, evvars, mbvars, mqvars, mpvars>>
      BY <2>1 DEF vars
    <3>2. UNCHANGED <<k, pc, alive, on, fault, timeout, set, event_set, event_info, owed, entry,
                      mq_entry, mpvars>> /\ UNCHANGED evvars /\ UNCHANGED mpvars
      BY <3>1 DEF kvars, evvars, mbvars, mqvars, nodes
    <3>3. IpcCore /\ pc \in [Thread -> Pcs] /\ on \in [Thread -> Queue] /\ ObjTypes
      BY DEF ObjInv, ObjCore, ThreadsOK, IpcCore
    <3>4. KernelTurn({}, {}, "EOK", {})
      BY <3>2, <3>3, UnchangedKept, KeptTurn
    <3>5. Quiet({}) /\ Calm({}) /\ NoCopy({})
      BY <3>2, <3>3, <3>4 DEF Quiet, Step, Moves, Arrive, Calm, NoCopy
    <3>6. Kept4
      BY <3>2, <3>5, QuietKept
    <3>7. ObjTypes' /\ DetachGone'
      BY <3>2, <3>3 DEF ObjTypes, DetachGone
    <3> QED BY <3>6, <3>7 DEF AllKeeps
  <2>2. ASSUME ~fault, NEW t \in Thread, ThreadCall(t) PROVE AllKeeps
    <3>1. CASE \E u \in Thread : Startup(t, u) /\ OnKernel
      BY <3>1, KernelAll
    <3>2. CASE EventCall(t) /\ OnEvent
      BY <3>2, EventAll
    <3>3. CASE MailboxCall(t) /\ OnMb
      BY <3>3, MailboxAll
    <3>4. CASE MessageQueueCall(t) /\ OnMq
      BY <3>4, MessageQueueAll
    <3>5. CASE MemPoolCall(t) /\ OnMp
      BY <2>2, <3>5, MemPoolAll
    <3> QED BY <2>2, <3>1, <3>2, <3>3, <3>4, <3>5 DEF ThreadCall
  <2>3. ASSUME ~fault, NEW t \in Thread, ThreadStep(t) PROVE AllKeeps
    <3>1. CASE Reschedule(t) /\ OnKernel
      BY <3>1, KernelAll
    <3>2. CASE EventReturn(t) /\ OnEvent
      BY <3>2, EventAll
    <3>3. CASE MailboxStep(t) /\ OnMb
      BY <3>3, MailboxAll
    <3>4. CASE MessageQueueStep(t) /\ OnMq
      BY <3>4, MessageQueueAll
    <3>5. CASE MemPoolStep(t) /\ OnMp
      BY <2>3, <3>5, MemPoolAll
    <3>6. CASE DetachTest(t) \/ DetachResume(t)
      BY <2>3, <3>6, DetachAll
    <3> QED BY <2>3, <3>1, <3>2, <3>3, <3>4, <3>5, <3>6 DEF ThreadStep
  <2>4. ASSUME ~fault, Interrupt PROVE AllKeeps
    <3>1. CASE OnKernel /\ (SliceExpired \/ \E t \in Thread : Timeout(t))
      BY <3>1, KernelAll
    <3>2. CASE EventIsr /\ OnEvent
      BY <3>2, EventAll
    <3>3. CASE MailboxIsr /\ OnMb
      BY <3>3, MailboxAll
    <3>4. CASE MessageQueueIsr /\ OnMq
      BY <3>4, MessageQueueAll
    <3>5. CASE MemPoolIsr /\ OnMp
      BY <2>4, <3>5, MemPoolAll
    <3> QED BY <2>4, <3>1, <3>2, <3>3, <3>4, <3>5 DEF Interrupt
  <2> QED BY <2>1, <2>2, <2>3, <2>4 DEF Next, Halted
<1> QED BY <1>1, <1>2 DEF AllKeeps, Kept4, ObjInv

-----------------------------------------------------------------------------
(* The initial states.                                                     *)

\* The free blocks of a new pool.
LEMMA AllBlocks ==
    /\ SetToSeq(Block) \in Seq(Block) /\ IsInjective(SetToSeq(Block))
    /\ Len(SetToSeq(Block)) = Cardinality(Block)
<1> DEFINE N == Cardinality(Block)
<1>1. N \in Nat /\ ExistsBijection(1 .. N, Block)
  BY MemPoolAssumption, FS_CardinalityType
<1>2. PICK f \in Bijection(1 .. N, Block) : TRUE
  BY <1>1 DEF ExistsBijection
<1>3. f \in [1 .. N -> Block] /\ IsInjective(f)
  <2>1. f \in [1 .. N -> Block] /\ \A a, b \in 1 .. N : f[a] = f[b] => a = b
    BY <1>2 DEF Bijection, Injection, IsInjective
  <2> QED BY <2>1 DEF IsInjective
<1>4. PICK s : s = SetToSeq(Block)
  OBVIOUS
<1>5. s \in [1 .. N -> Block] /\ IsInjective(s)
  BY <1>3, <1>4 DEF SetToSeq
<1>6. s \in Seq(Block) /\ Len(s) = N
  BY <1>1, <1>5
<1> QED BY <1>4, <1>5, <1>6

\* At start-up nobody waits and nothing has been sent.
LEMMA ObjInitially == Init => ObjInv /\ DetachGone
<1> SUFFICES ASSUME Init PROVE ObjInv /\ DetachGone
  OBVIOUS
<1>1. KernelOK(k) /\ k = BootState /\ pc = [t \in Thread |-> "run"]
  BY BootStateOK DEF Init, ThreadsInit
<1>2. /\ k.stat = [t \in Thread |-> IF t \in {Idle, Main} THEN "READY" ELSE "INIT"]
      /\ k.cur = Main /\ k.lock = 0 /\ k.wait = [q \in Queue |-> << >>]
  BY <1>1 DEF BootState
<1>3. \A t \in Thread : k.stat[t] \in {"READY", "INIT"} /\ pc[t] = "run"
  BY <1>1, <1>2
<1>4. Waiting /\ CurRunnable
  BY <1>2, <1>3, MainAssumption DEF Waiting, CurRunnable
<1>5. on \in [Thread -> Queue]
  <2>1. (CHOOSE q \in Queue : TRUE) \in Queue
    BY QueueAssumption
  <2> QED BY <2>1 DEF Init
<1>6. ThreadsOK
  <2>1. pc \in [Thread -> Pcs] /\ pc[Idle] = "run"
    BY <1>1, ThreadAssumption DEF Pcs
  <2> QED BY <1>1, <1>2, <1>4, <1>5, <2>1 DEF ThreadsOK, IpcCore
<1>7. /\ \A q, e : Out(q, e) = {}
      /\ \A q \in Queue : k.wait[q] = << >> /\ ToSet(k.wait[q]) = {}
  <2>1. \A q, e : Out(q, e) = {}
    BY <1>3 DEF Out
  <2>2. \A q \in Queue : k.wait[q] = << >>
    BY <1>2
  <2>3. ToSet(<< >>) = {}
    BY DEF ToSet
  <2> QED BY <2>1, <2>2, <2>3
<1>8. event \in Queue /\ mb \in Queue /\ mb_sender \in Queue /\ mq \in Queue /\ mp \in Queue
  BY ListsAssumption
<1>9. ObjCore
  <2>1. Gone
    BY <1>3, <1>7, CreatedAssumption DEF Gone, Init, Copying
  <2>2. DetachKept
    BY <1>7 DEF DetachKept, DetachLeavesNoWaiter
  <2> QED BY <1>6, <2>1, <2>2 DEF ObjCore
<1>10. EvInv
  <2>0. EventInit
    BY DEF Init
  <2>1. EventTypeOK
    BY <2>0 DEF EventInit, EventTypeOK, Option
  <2>2. NoWaiterSatisfied
    BY <1>7, <1>8 DEF NoWaiterSatisfied
  <2>3. ASSUME NEW b \in Bit
        PROVE  owed[b] = Up(b, set) + Cardinality(Takers(b, Out(event, "EOK"), event_info, event_set))
    <3>1. Takers(b, Out(event, "EOK"), event_info, event_set) = {}
      BY <1>7 DEF Takers
    <3>2. Cardinality({}) = 0
      BY FS_EmptySet
    <3>3. owed[b] = 0 /\ Up(b, set) = 0
      BY <2>0 DEF EventInit, Up
    <3> QED BY <3>1, <3>2, <3>3
  <2> QED BY <2>1, <2>2, <2>3 DEF EvInv, FlagsOK
<1>11. PoolInv
  <2>1. MemPoolInit
    BY DEF Init
  <2>2. BlocksOK
    BY <2>1, AllBlocks DEF MemPoolInit, BlocksOK
  <2>3. CountOK
    <3>1. Waiters = {} /\ Late = {}
      BY <1>7, <1>8 DEF Waiters, Late
    <3>2. Cardinality({}) = 0
      BY FS_EmptySet
    <3>3. PoolSum = 0
      BY <3>1, <3>2 DEF PoolSum
    <3> QED BY <2>1, <3>3 DEF CountOK, MemPoolInit
  <2>4. DetachOK
    BY <1>3 DEF DetachOK, Detaches, Detaching
  <2>5. Covered(mp, block_free_count)
    BY <1>7, <1>8 DEF Covered
  <2> QED BY <2>2, <2>3, <2>4, <2>5 DEF PoolInv
<1>12. Wakeups
  BY <1>7, <1>8 DEF Wakeups, MailCovered, Covered
<1>13. ObjTypes
  BY CreatedAssumption DEF ObjTypes, Init, Time
<1>14. DetachGone
  BY <1>3 DEF DetachGone, Detaching
<1> QED BY <1>9, <1>10, <1>11, <1>12, <1>13, <1>14, MbInitially, MqInitially DEF ObjInv

\* The inductive invariant holds throughout.
LEMMA ObjAlways == Spec => [](ObjInv /\ DetachGone)
BY ObjInitially, ObjNext, PTL DEF Spec

-----------------------------------------------------------------------------
(* The theorems.                                                           *)

\* The ring and what its clients hold have their types.
LEMMA MailboxTyped == MbInv => MailboxTypeOK
BY DEF MbInv, RingOK, ClientsOK, MailboxTypeOK

\* So have the nodes: the lists begin and end with nodes, and the queue is no
\* longer than the pool.
LEMMA MessageQueueTyped == MqInv => MessageQueueTypeOK
<1> SUFFICES ASSUME MqInv PROVE MessageQueueTypeOK
  OBVIOUS
<1>1. PICK qs, fs : NodesOK(qs, fs)
  BY DEF MqInv
<1>2. /\ Linked(next, msg_queue_head, qs) /\ Linked(next, msg_queue_free, fs)
      /\ msg_queue_tail = IF qs = << >> THEN NULL ELSE qs[Len(qs)]
      /\ mq_entry = Len(qs)
  BY <1>1 DEF NodesOK, QueueIs
<1>3. mq_entry \in 0 .. max_msgs
  BY <1>2, LinkedLength
<1>4. ASSUME NEW s \in Seq(Node), s # << >> PROVE s[1] \in Node /\ s[Len(s)] \in Node
  BY <1>4
<1>5. msg_queue_head \in Node \cup {NULL} /\ msg_queue_free \in Node \cup {NULL}
      /\ msg_queue_tail \in Node \cup {NULL}
  <2>1. /\ qs \in Seq(Node) /\ fs \in Seq(Node)
        /\ msg_queue_head = IF qs = << >> THEN NULL ELSE qs[1]
        /\ msg_queue_free = IF fs = << >> THEN NULL ELSE fs[1]
    BY <1>2 DEF Linked
  <2> QED BY <1>2, <1>4, <2>1
<1>6. NodeTypes
  BY DEF MqInv
<1> QED BY <1>3, <1>5, <1>6 DEF MessageQueueTypeOK, NodeTypes

\* What the invariant says of types, kernel lists and suspended threads.
LEMMA ObjTyped == ObjInv => TypeOK /\ KernelConsistent /\ NoLostThread
<1> SUFFICES ASSUME ObjInv PROVE TypeOK /\ KernelConsistent /\ NoLostThread
  OBVIOUS
<1>1. ThreadsOK
  BY DEF ObjInv, ObjCore
<1>2. MbInv /\ MqInv /\ PoolInv /\ EventTypeOK /\ ObjTypes
  BY DEF ObjInv, EvInv
<1>3. k \in KernelState /\ KernelConsistent
  BY <1>1 DEF ThreadsOK, IpcCore, KernelOK, KernelConsistent
<1>4. NoLostThread
  BY <1>1 DEF ThreadsOK, IpcCore, Waiting, NoLostThread
<1>5. pc \in [Thread -> Pcs] /\ on \in [Thread -> Queue]
  BY <1>1 DEF ThreadsOK, IpcCore
<1>6. TypeOK
  BY <1>2, <1>3, <1>5, MailboxTyped, MessageQueueTyped, PoolTyped DEF TypeOK, ObjTypes
<1> QED BY <1>3, <1>4, <1>6

\* Someone waits on a list exactly if the list has an element.
LEMMA WaitSet ==
    ASSUME ThreadsOK, NEW q \in Queue
    PROVE  /\ k.wait[q] \in Seq(Thread) /\ IsInjective(k.wait[q])
           /\ k.wait[q] # << >> <=> ToSet(k.wait[q]) # {}
<1>1. k.wait[q] \in Seq(Thread) /\ IsInjective(k.wait[q])
  BY DEF ThreadsOK, IpcCore, KernelOK, KernelState, KernelInv, NoDuplicates
<1> QED BY <1>1, ListEmpty

\* Nobody sleeps for what is there.
LEMMA ObjWakes == ObjInv => NoMissedWakeup
<1> SUFFICES ASSUME ObjInv PROVE NoMissedWakeup
  OBVIOUS
<1>1. ThreadsOK /\ NoWaiterSatisfied
  BY DEF ObjInv, ObjCore, EvInv
<1>2. /\ Covered(mb, entry) /\ Covered(mb_sender, mb_size - entry) /\ Covered(mq, mq_entry)
      /\ Covered(mp, block_free_count)
  BY DEF ObjInv, Wakeups, MailCovered, PoolInv
<1>3. mb \in Queue /\ mb_sender \in Queue /\ mq \in Queue /\ mp \in Queue
  BY ListsAssumption
<1>4. ASSUME NEW q \in Queue, NEW n, Covered(q, n), k.wait[q] # << >>
      PROVE  n <= Cardinality(Resumed(q))
  BY <1>1, <1>4, WaitSet, ResumedIsOut DEF Covered
<1>5. MailWakeups
  BY <1>2, <1>3, <1>4 DEF MailWakeups
<1>6. MessageWakeups
  BY <1>2, <1>3, <1>4 DEF MessageWakeups
<1>7. BlockWakeups
  BY <1>2, <1>3, <1>4 DEF BlockWakeups
<1> QED BY <1>1, <1>5, <1>6, <1>7 DEF NoMissedWakeup

\* The counts of the pool.
LEMMA ObjCounts == ObjInv => PoolCounts
<1> SUFFICES ASSUME ObjInv PROVE PoolCounts
  OBVIOUS
<1>1. ThreadsOK /\ BlocksOK /\ CountOK /\ mp \in Queue
  BY ListsAssumption DEF ObjInv, ObjCore, PoolInv
<1>2. Cardinality(Waiters) = Len(k.wait[mp])
  BY <1>1, WaitSet, ListCardinality DEF Waiters
<1>3. Expiring = Late
  BY DEF Expiring, Late, Out
<1> QED BY <1>1, <1>2, <1>3 DEF PoolCounts, BlocksOK, CountOK, PoolSum

\* The accounts of the flags.
LEMMA ObjFlags == ObjInv => FlagsConserved
<1> SUFFICES ASSUME ObjInv, NEW b \in Bit
             PROVE  owed[b] = (IF b \in set THEN 1 ELSE 0)
                              + Cardinality({t \in Resumed(event) : b \in Taken(t)})
  BY DEF FlagsConserved
<1>1. owed[b] = Up(b, set) + Cardinality(Takers(b, Out(event, "EOK"), event_info, event_set))
  BY DEF ObjInv, EvInv, FlagsOK
<1>2. Takers(b, Out(event, "EOK"), event_info, event_set) = {t \in Resumed(event) : b \in Taken(t)}
  BY ResumedIsOut DEF Takers, Taken
<1> QED BY <1>1, <1>2 DEF Up

\* Types, kernel lists, bitmap, masks and timers agree and no suspended thread is
\* lost, however the calls on the four objects, resets, detaches, timeouts and
\* interrupts interleave.  A detach of the event, the mailbox or the pool, and
\* rt_mq_delete, leaves nobody on a list; rt_mq_detach of a static queue does
\* (ipc.c), so that part is for queues made by rt_mq_create.
THEOREM ObjectsConsistent ==
    ASSUME ~mq_static
    PROVE  Spec => []Consistent
<1>1. ObjInv => DetachLeavesNoWaiter
  BY DEF ObjInv, ObjCore, DetachKept
<1>2. ObjInv => Consistent
  BY <1>1, ObjTyped DEF Consistent
<1> QED BY <1>2, ObjAlways, PTL

\* Without that assumption everything else still holds.
THEOREM ObjectsTyped == Spec => [](TypeOK /\ KernelConsistent /\ NoLostThread)
BY ObjTyped, ObjAlways, PTL

\* No wake-up is lost: while a thread sleeps on the mailbox, the message queue,
\* the pool or the event, each thing it could have is for a thread that has
\* already been resumed and will come for it (the retry loops of ipc.c and
\* mempool.c).
THEOREM NoWakeupMissed == Spec => []NoMissedWakeup
BY ObjWakes, ObjAlways, PTL

\* The pool's free count is the length of its free list, no block is on it twice,
\* and suspend_thread_count is off by exactly the waiters that timed out
\* (mempool.c, rt_mp_alloc, rt_mp_free, rt_mp_detach).
THEOREM PoolCountsHold == Spec => []PoolCounts
BY ObjCounts, ObjAlways, PTL

\* Every flag raised is up, was consumed once, or was reset: the walk of
\* rt_event_send gives a flag that is to be cleared to one thread only, and takes
\* none for a thread that then reports an error (ipc.c, rt_event_*).
THEOREM FlagsAreConserved == Spec => []FlagsConserved
BY ObjFlags, ObjAlways, PTL
=============================================================================
