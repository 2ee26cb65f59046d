------------------------------ MODULE Mailbox ------------------------------
(***************************************************************************)
(* A mailbox (kernel/src/ipc.c): a ring of size mails, a list of waiting   *)
(* receivers and one of waiting senders.  A resumed thread does not own    *)
(* what it was resumed for: it looks at the mailbox again and may find it  *)
(* full, or empty, once more.                                              *)
(***************************************************************************)
EXTENDS IpcWait

CONSTANTS mb,          \* the object, by the list of its receivers
          mb_sender,   \* mb->suspend_sender_thread
          mb_size,     \* mb->size
          Mail         \* mails sent; None is no mail

ASSUME MailboxAssumption ==
    /\ mb_size \in Nat \ {0}
    /\ mb # mb_sender
    /\ None \notin Mail

VARIABLES msg_pool, entry, in_offset, out_offset,
          value,      \* argument of rt_mb_send_wait
          received    \* mail a client has received and not yet used

mbvars == <<msg_pool, entry, in_offset, out_offset, value, received>>

MailboxInit ==
    /\ msg_pool = [i \in 0 .. mb_size - 1 |-> None]
    /\ entry = 0 /\ in_offset = 0 /\ out_offset = 0
    /\ value = [t \in Thread |-> None]
    /\ received = [t \in Thread |-> None]

\* Arguments of a call, dead once it has returned.
Enter(t, v, time) ==
    /\ value' = [value EXCEPT ![t] = v]
    /\ timeout' = [timeout EXCEPT ![t] = time]

Leave(t) == Enter(t, None, 0)

WaitFor(t, q, v, time) ==
    /\ k' = SuspendOn(k, q, t, time)
    /\ on' = [on EXCEPT ![t] = q]
    /\ Goto(t, "block")
    /\ Enter(t, v, time)

-----------------------------------------------------------------------------
(* The ring.                                                               *)
Advance(offset) == IF offset + 1 >= mb_size THEN 0 ELSE offset + 1

Store(v) ==
    /\ entry # mb_size
    /\ msg_pool' = [msg_pool EXCEPT ![in_offset] = v]
    /\ in_offset' = Advance(in_offset)
    /\ entry' = entry + 1
    /\ UNCHANGED out_offset

\* Slip: at offset zero the urgent mail is not put before the wrap.
StoreUrgentNoWrap(v) ==
    LET out == IF out_offset > 0 THEN out_offset - 1 ELSE 0
    IN  /\ entry # mb_size
        /\ out_offset' = out
        /\ msg_pool' = [msg_pool EXCEPT ![out] = v]
        /\ entry' = entry + 1
        /\ UNCHANGED in_offset

StoreUrgent(v) ==
    LET out == IF out_offset > 0 THEN out_offset - 1 ELSE mb_size - 1
    IN  /\ entry # mb_size
        /\ out_offset' = out
        /\ msg_pool' = [msg_pool EXCEPT ![out] = v]
        /\ entry' = entry + 1
        /\ UNCHANGED in_offset

Fetch(t) ==
    /\ entry # 0
    /\ received' = [received EXCEPT ![t] = msg_pool[out_offset]]
    /\ out_offset' = Advance(out_offset)
    /\ entry' = entry - 1
    /\ UNCHANGED <<msg_pool, in_offset>>

ring == <<msg_pool, entry, in_offset, out_offset>>

-----------------------------------------------------------------------------
(* One round of the loop of rt_mb_send_wait with interrupts disabled: send *)
(* and wake a receiver, give up, or wait.                                  *)
SendRound(t, v, time) ==
    \/ Store(v) /\ Wake(t, mb) /\ Leave(t) /\ UNCHANGED <<on, received>>
    \/ /\ entry = mb_size /\ time = 0
       /\ Goto(t, "run") /\ Leave(t)
       /\ UNCHANGED <<k, on, ring, received>>
    \/ /\ entry = mb_size /\ time # 0
       /\ WaitFor(t, mb_sender, v, time)
       /\ UNCHANGED <<ring, received>>

\* A client uses the mail it has received before it calls again.
MbCalls(t) == CallsOn(t, mb) /\ received[t] = None

rt_mb_send_wait(t, v, time) ==
    /\ MbCalls(t)
    /\ SendRound(t, v, time)
    /\ UNCHANGED <<alive, fault>>

\* rt_mb_send_wait after its rt_schedule.
SendResumed(t) ==
    /\ At(t, "woken") /\ on[t] = mb_sender
    /\ IF k.error[t] # "EOK"
         THEN Goto(t, "run") /\ Leave(t) /\ UNCHANGED <<k, on, ring, received>>
         ELSE \E left \in TimeLeft(timeout[t]) : SendRound(t, value[t], left)
    /\ UNCHANGED <<alive, fault>>

rt_mb_urgent(t, v) ==
    /\ MbCalls(t)
    /\ StoreUrgent(v) /\ Wake(t, mb)
    /\ UNCHANGED <<alive, on, fault, value, timeout, received>>

\* rt_mb_send and rt_mb_urgent from an interrupt handler.
MbSendIsr(v) ==
    /\ mb \in alive
    /\ Store(v) \/ StoreUrgent(v)
    /\ WakeIsr(mb)
    /\ UNCHANGED <<alive, on, fault, value, timeout, received>>

-----------------------------------------------------------------------------
(* rt_mb_recv.  The call that does not wait returns at once; a round that  *)
(* has used up its time also sets thread->error.                           *)

RecvRound(t, time, again) ==
    \/ Fetch(t) /\ Wake(t, mb_sender) /\ Leave(t) /\ UNCHANGED on
    \/ /\ entry = 0 /\ time = 0
       /\ k' = IF again THEN [k EXCEPT !.error[t] = "ETIMEOUT"] ELSE k
       /\ Goto(t, "run") /\ Leave(t)
       /\ UNCHANGED <<on, ring, received>>
    \/ /\ entry = 0 /\ time # 0
       /\ WaitFor(t, mb, None, time)
       /\ UNCHANGED <<ring, received>>

rt_mb_recv(t, time) ==
    /\ MbCalls(t)
    /\ RecvRound(t, time, FALSE)
    /\ UNCHANGED <<alive, fault>>

RecvResumed(t) ==
    /\ At(t, "woken") /\ on[t] = mb
    /\ IF k.error[t] # "EOK"
         THEN Goto(t, "run") /\ Leave(t) /\ UNCHANGED <<k, on, ring, received>>
         ELSE \E left \in TimeLeft(timeout[t]) : RecvRound(t, left, TRUE)
    /\ UNCHANGED <<alive, fault>>

\* The client is done with the mail.
UseMail(t) ==
    /\ Calls(t) /\ received[t] # None
    /\ received' = [received EXCEPT ![t] = None]
    /\ UNCHANGED <<kvars, alive, on, fault, ring, value, timeout>>

-----------------------------------------------------------------------------
\* rt_mb_control(RT_IPC_CMD_RESET), up to its rt_schedule.
MbReset(t) ==
    /\ MbCalls(t)
    /\ k' = ResumeAllMasked(ResumeAllMasked(k, mb), mb_sender)
    /\ entry' = 0 /\ in_offset' = 0 /\ out_offset' = 0
    /\ Goto(t, "resched")
    /\ UNCHANGED <<msg_pool, value, timeout, received, alive, on, fault>>

\* rt_mb_detach, rt_mb_delete: the receivers, then the senders.
MbDetach(t) ==
    /\ received[t] = None
    /\ NoneReturning(mb) /\ NoneReturning(mb_sender)
    /\ ResumeAll(t, mb)
    /\ UNCHANGED <<timeout, mbvars>>

\* Slip: the list of senders is forgotten.
MbDetachReceiversOnly(t) ==
    /\ At(t, "detach_test") /\ on[t] = mb /\ k.wait[mb] = << >>
    /\ alive' = alive \ {mb_sender}
    /\ Goto(t, "run")
    /\ UNCHANGED <<k, on, fault, timeout, mbvars>>

MbDetachSenders(t) == ResumeAllThen(t, mb, mb_sender) /\ UNCHANGED <<timeout, mbvars>>

-----------------------------------------------------------------------------
MailboxCall(t) ==
    \/ \E v \in Mail : rt_mb_urgent(t, v) \/ \E time \in Time : rt_mb_send_wait(t, v, time)
    \/ \E time \in Time : rt_mb_recv(t, time)
    \/ UseMail(t)
    \/ MbReset(t)
    \/ MbDetach(t)

MailboxStep(t) == SendResumed(t) \/ RecvResumed(t) \/ MbDetachSenders(t)

MailboxIsr == \E v \in Mail : MbSendIsr(v)
-----------------------------------------------------------------------------
(* Properties.                                                             *)

MailboxTypeOK ==
    /\ msg_pool \in [0 .. mb_size - 1 -> Mail \cup {None}]
    /\ entry \in 0 .. mb_size
    /\ {in_offset, out_offset} \subseteq 0 .. mb_size - 1
    /\ value \in [Thread -> Mail \cup {None}]
    /\ received \in [Thread -> Mail \cup {None}]

\* The mails in the ring, next to be received first.
Mails == [i \in 1 .. entry |-> msg_pool[(out_offset + i - 1) % mb_size]]

MailQueue == INSTANCE BoundedQueue
    WITH Message <- Mail, Client <- Thread, Capacity <- mb_size,
         q <- Mails, hand <- received

\* The ring with its two offsets, its blocked and resumed senders and its
\* urgent mails is a bounded queue: every mail sent is received once, in order.
MailboxIsQueue == MailQueue!Spec

\* No wake-up is lost.  While a receiver sleeps, every mail in the mailbox is
\* matched by a receiver already resumed that will come for it; while a sender
\* sleeps, every free place by a resumed sender.
MailWakeups ==
    /\ k.wait[mb] # << >> => entry <= Cardinality(Resumed(mb))
    /\ k.wait[mb_sender] # << >> => mb_size - entry <= Cardinality(Resumed(mb_sender))
=============================================================================
