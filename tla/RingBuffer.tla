----------------------------- MODULE RingBuffer -----------------------------
(***************************************************************************)
(* The byte ring buffer (kernel/utilities/ringbuffer.c).  Indices run over *)
(* the buffer and each has a mirror bit that flips when it passes the end: *)
(* equal indices mean empty in one mirror and full in two.                 *)
(*                                                                         *)
(* A ring buffer takes no lock; its operations are operators on records,   *)
(* which module Pipe applies to its fifo, and here on one ring the threads *)
(* of a driver use in turn.  A byte is its position in the stream of bytes *)
(* offered, modulo twice the size: all bytes in the buffer are distinct.   *)
(***************************************************************************)
EXTENDS IpcWait

CONSTANTS ring,          \* the ring buffer the threads share
          buffer_size    \* aligned down to RT_ALIGN_SIZE, 4

ASSUME RingAssumption == buffer_size \in Nat \ {0} /\ buffer_size % 4 = 0

VARIABLES rb,
          fed,           \* history: bytes offered to it, modulo twice the size
          promised       \* history: bytes a queue that drops its oldest byte
                         \* when it is full would hold

rbvars == <<rb, fed, promised>>

Byte == 0 .. 2 * buffer_size - 1

EmptyRing == [read_mirror |-> 0, read_index |-> 0, write_mirror |-> 0, write_index |-> 0,
              buf |-> [i \in 0 .. buffer_size - 1 |-> 0]]

RingInit == rb = EmptyRing /\ fed = 0 /\ promised = 0

\* n bytes of the stream from byte b on.
Stream(b, n) == [i \in 1 .. n |-> (b + i - 1) % (2 * buffer_size)]

AtMost(m, n) == IF m < n THEN m ELSE n

-----------------------------------------------------------------------------
rt_ringbuffer_status(r) ==
    IF r.read_index # r.write_index THEN "HALFFULL"
    ELSE IF r.read_mirror = r.write_mirror THEN "EMPTY" ELSE "FULL"

\* Slip: equal indices always mean empty.
DataLenNoMirror(r) == (r.write_index - r.read_index) % buffer_size

rt_ringbuffer_data_len(r) ==
    LET s == rt_ringbuffer_status(r)
    IN  IF s = "EMPTY" THEN 0
        ELSE IF s = "FULL" THEN buffer_size
        ELSE IF r.write_index > r.read_index THEN r.write_index - r.read_index
        ELSE buffer_size - (r.read_index - r.write_index)

SpaceLen(r) == buffer_size - rt_ringbuffer_data_len(r)

\* The two memcpy of data to write_index and on.
CopyIn(r, data) ==
    [i \in 0 .. buffer_size - 1 |->
        LET j == 1 + ((i - r.write_index) % buffer_size)
        IN  IF j <= Len(data) THEN data[j] ELSE r.buf[i]]

\* An index moves on by n, into the other mirror when it reaches the end.
Wraps(index, n) == buffer_size - index <= n
Moved(index, n) == IF Wraps(index, n) THEN n - (buffer_size - index) ELSE index + n
Mirror(bit, index, n) == IF Wraps(index, n) THEN 1 - bit ELSE bit

Write(r, data) ==
    [r EXCEPT !.buf = CopyIn(r, data),
              !.write_mirror = Mirror(@, r.write_index, Len(data)),
              !.write_index = Moved(@, Len(data))]

Read(r, n) ==
    [r EXCEPT !.read_mirror = Mirror(@, r.read_index, n),
              !.read_index = Moved(@, n)]

\* The bytes between read_index and write_index.
Contents(r) ==
    [i \in 1 .. rt_ringbuffer_data_len(r) |-> r.buf[(r.read_index + i - 1) % buffer_size]]

\* Slip: what does not fit is not dropped.
PutAll(r, data) == IF SpaceLen(r) = 0 THEN r ELSE Write(r, data)

\* rt_ringbuffer_put takes what there is space for, rt_ringbuffer_get what
\* there is data for; putchar and getchar are the same for one byte.
rt_ringbuffer_put(r, data) ==
    LET length == AtMost(Len(data), SpaceLen(r))
    IN  IF length = 0 THEN r ELSE Write(r, SubSeq(data, 1, length))

rt_ringbuffer_get(r, n) ==
    LET length == AtMost(n, rt_ringbuffer_data_len(r))
    IN  IF length = 0 THEN r ELSE Read(r, length)

\* rt_ringbuffer_put_force: the newest bytes, never more than the buffer holds;
\* when they overwrite old data the read index is moved to the write index, and
\* into the other mirror if the write index has just gone there.
rt_ringbuffer_put_force(r, data) ==
    LET length == AtMost(Len(data), buffer_size)
        w      == Write(r, SubSeq(data, Len(data) - length + 1, Len(data)))
    IN  IF length <= SpaceLen(r) THEN w
        ELSE [w EXCEPT !.read_index = w.write_index,
                       !.read_mirror = IF Wraps(r.write_index, length) THEN 1 - @ ELSE @]

rt_ringbuffer_putchar_force(r, c) ==
    LET w == Write(r, <<c>>)
    IN  IF rt_ringbuffer_status(r) # "FULL" THEN w
        ELSE [w EXCEPT !.read_index = w.write_index,
                       !.read_mirror = IF Wraps(r.write_index, 1) THEN 1 - @ ELSE @]

-----------------------------------------------------------------------------
(* Calls on the shared ring; a thread completes one before another calls.  *)

RingCalls(t) ==
    /\ CallsOn(t, ring)
    /\ UNCHANGED <<kvars, alive, on, fault, timeout>>

Offered(n) == fed' = (fed + n) % (2 * buffer_size)

RingPut(t, n) ==
    LET length == AtMost(n, SpaceLen(rb))
    IN  /\ RingCalls(t)
        /\ rb' = rt_ringbuffer_put(rb, Stream(fed, n))
        /\ Offered(length)
        /\ promised' = AtMost(promised + length, buffer_size)

RingPutForce(t, n) ==
    /\ RingCalls(t)
    /\ rb' = rt_ringbuffer_put_force(rb, Stream(fed, n))
    /\ Offered(n)
    /\ promised' = AtMost(promised + n, buffer_size)

RingPutcharForce(t) ==
    /\ RingCalls(t)
    /\ rb' = rt_ringbuffer_putchar_force(rb, fed)
    /\ Offered(1)
    /\ promised' = AtMost(promised + 1, buffer_size)

RingGet(t, n) ==
    /\ RingCalls(t)
    /\ rb' = rt_ringbuffer_get(rb, n)
    /\ promised' = promised - AtMost(n, promised)
    /\ UNCHANGED fed

rt_ringbuffer_reset(t) ==
    /\ RingCalls(t)
    /\ rb' = [rb EXCEPT !.read_mirror = 0, !.read_index = 0,
                        !.write_mirror = 0, !.write_index = 0]
    /\ promised' = 0
    /\ UNCHANGED fed

RingCall(t) ==
    \/ \E n \in 1 .. buffer_size + 1 : RingPut(t, n) \/ RingPutForce(t, n) \/ RingGet(t, n)
    \/ RingPutcharForce(t)
    \/ rt_ringbuffer_reset(t)
-----------------------------------------------------------------------------
(* Properties.                                                             *)

Index == 0 .. buffer_size - 1

RingRecord == [read_mirror : {0, 1}, read_index : Index,
               write_mirror : {0, 1}, write_index : Index, buf : [Index -> Byte]]

RingTypeOK == rb \in RingRecord /\ fed \in Byte /\ promised \in 0 .. buffer_size

\* The last n bytes offered.
Newest(n) == Stream(fed - n, n)

\* Whatever puts, forced puts, gets and resets came before, what the ring holds
\* are the newest bytes in the order they were offered: none stale, doubled or
\* out of order.
RingHoldsNewest == Contents(rb) = Newest(rt_ringbuffer_data_len(rb))

\* A forced put discards the old data and only that ("When the buffer is full,
\* it will discard the old data", ringbuffer.c): the ring holds what a queue
\* that drops its oldest bytes holds.
RingIsQueue == Contents(rb) = Newest(promised)
=============================================================================
