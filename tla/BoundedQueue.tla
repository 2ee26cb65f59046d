---------------------------- MODULE BoundedQueue ----------------------------
(***************************************************************************)
(* What a mailbox, a message queue and a data queue promise their clients: *)
(* one sequence of at most Capacity messages.  A put appends, an urgent    *)
(* put prepends, a get hands the first message to the thread that calls,   *)
(* which keeps it until it is done with it, and a reset empties the queue. *)
(* Threads that wait, time out and are woken are no part of the promise.   *)
(***************************************************************************)
EXTENDS Naturals, Sequences

CONSTANTS Message, Client, Capacity, None

VARIABLES q,      \* messages in the queue, oldest first
          hand    \* message each client has received and not yet used

Init ==
    /\ q = << >>
    /\ hand = [c \in Client |-> None]

Put(m) ==
    /\ Len(q) < Capacity
    /\ q' = Append(q, m)
    /\ UNCHANGED hand

PutFirst(m) ==
    /\ Len(q) < Capacity
    /\ q' = <<m>> \o q
    /\ UNCHANGED hand

Get(c) ==
    /\ q # << >> /\ hand[c] = None
    /\ q' = Tail(q)
    /\ hand' = [hand EXCEPT ![c] = Head(q)]

Use(c) ==
    /\ hand[c] # None
    /\ hand' = [hand EXCEPT ![c] = None]
    /\ UNCHANGED q

Reset ==
    /\ q' = << >>
    /\ UNCHANGED hand

Next ==
    \/ \E m \in Message : Put(m) \/ PutFirst(m)
    \/ \E c \in Client : Get(c) \/ Use(c)
    \/ Reset

Spec == Init /\ [][Next]_<<q, hand>>
=============================================================================
