-------------------------------- MODULE Pipe --------------------------------
(***************************************************************************)
(* A named pipe (kernel/utilities/pipe.c) and its two wait queues          *)
(* (kernel/utilities/waitqueue.c): one thread reads, one thread writes.    *)
(* The fifo is under a mutex; sleeping is not: a thread releases the       *)
(* mutex, wakes the other side and only then waits, and the WAKEUP flag of *)
(* a wait queue stands in for the wake-up that came in between.            *)
(*                                                                         *)
(* What is left of the call a thread is in is the sequence todo[t] of the  *)
(* primitives it still has to execute, each one stretch of code with       *)
(* interrupts disabled.                                                    *)
(***************************************************************************)
EXTENDS RingBuffer

CONSTANTS pipe_lock,          \* pipe->lock, by its suspend list
          Reader, Writer,     \* the threads that open it O_RDONLY, O_WRONLY
          Count,              \* numbers of bytes they ask for, any size_t
          LengthModulus       \* 2^16: length of rt_ringbuffer_put and _get is an
                              \* rt_uint16_t, buffer_size an rt_int16_t

ASSUME PipeAssumption == {Reader, Writer} \subseteq Thread /\ Reader # Writer
ASSUME CountAssumption == Count \subseteq Nat
ASSUME LengthAssumption == LengthModulus \in Nat /\ buffer_size < LengthModulus

VARIABLES fifo,               \* exists while ref_count > 0
          readers, writers, ref_count,
          holder,             \* owner of the mutex
          wakeup,             \* wait queues whose flag is RT_WQ_FLAG_WAKEUP
          waiting_list,       \* threads by the nodes in each wait queue
          todo,
          count,              \* bytes a read asks for, a write has left
          nonblock,           \* threads whose file is O_NONBLOCK
          sent, got           \* history: bytes put into and taken from this fifo

pipevars == <<fifo, readers, writers, ref_count, holder, wakeup, waiting_list,
              todo, count, nonblock, sent, got>>
fifovars == <<fifo, readers, writers, ref_count, count, nonblock, sent, got>>

WaitQueue == {"reader_queue", "writer_queue"}

PipeInit ==
    /\ fifo = EmptyRing
    /\ readers = 0 /\ writers = 0 /\ ref_count = 0
    /\ holder = None
    /\ wakeup = {}
    /\ waiting_list = [q \in WaitQueue |-> << >>]
    /\ todo = [t \in Thread |-> << >>]
    /\ count = [t \in Thread |-> 0]
    /\ nonblock = {}
    /\ sent = 0 /\ got = 0

\* t executes the primitive p next and has the primitives then left.
Executes(t, p) == At(t, "run") /\ todo[t] # << >> /\ Head(todo[t]) = p
Then(t, s)     == todo' = [todo EXCEPT ![t] = s]
Proceeds(t)    == Then(t, Tail(todo[t]))

-----------------------------------------------------------------------------
(* rt_mutex_take for ever and rt_mutex_release: the mutex is handed to the *)
(* first waiter, and a holder inherits the priority of a more urgent one   *)
(* (module Mutex has the rest of it).                                      *)
Take(t) ==
    /\ Executes(t, "take")
    /\ IF holder = None
         THEN holder' = t /\ UNCHANGED <<kvars, on>>
         ELSE /\ LET c == IF k.prio[t] < k.prio[holder]
                            THEN ChangePriority(k, holder, k.prio[t]) ELSE k
                 IN  k' = rt_ipc_list_suspend(c, pipe_lock, t, "PRIO")
              /\ on' = [on EXCEPT ![t] = pipe_lock]
              /\ Goto(t, "block")
              /\ UNCHANGED holder
    /\ Proceeds(t)
    /\ UNCHANGED <<fifovars, wakeup, waiting_list>>

TakeReturns(t) ==
    /\ At(t, "woken") /\ on[t] = pipe_lock
    /\ on' = [on EXCEPT ![t] = None]
    /\ Goto(t, "run")
    /\ UNCHANGED <<k, pipevars>>

Release(t) ==
    /\ Executes(t, "release")
    /\ LET c == IF k.prio[t] # init_priority[t]
                  THEN ChangePriority(k, t, init_priority[t]) ELSE k
       IN  IF c.wait[pipe_lock] # << >>
             THEN /\ holder' = Head(c.wait[pipe_lock])
                  /\ k' = rt_ipc_list_resume(c, pipe_lock)
                  /\ Goto(t, "resched")
             ELSE holder' = None /\ k' = c /\ UNCHANGED pc
    /\ Proceeds(t)
    /\ UNCHANGED <<on, fifovars, wakeup, waiting_list>>

-----------------------------------------------------------------------------
\* Slip: the flag is set only when somebody waits.
WakeupNoFlag(t, p, q) ==
    /\ Executes(t, p)
    /\ IF waiting_list[q] # << >>
         THEN /\ wakeup' = wakeup \cup {q}
              /\ k' = rt_thread_resume(k, Head(waiting_list[q]))
              /\ waiting_list' = [waiting_list EXCEPT ![q] = Tail(@)]
              /\ Goto(t, "resched")
         ELSE UNCHANGED <<kvars, wakeup, waiting_list>>
    /\ Proceeds(t)
    /\ UNCHANGED <<on, fifovars, holder>>

\* rt_wqueue_wakeup: sets the flag and resumes one waiter.
rt_wqueue_wakeup(t, p, q) ==
    /\ Executes(t, p)
    /\ wakeup' = wakeup \cup {q}
    /\ IF waiting_list[q] # << >>
         THEN /\ k' = rt_thread_resume(k, Head(waiting_list[q]))
              /\ waiting_list' = [waiting_list EXCEPT ![q] = Tail(@)]
              /\ Goto(t, "resched")
         ELSE UNCHANGED <<kvars, waiting_list>>
    /\ Proceeds(t)
    /\ UNCHANGED <<on, fifovars, holder>>

OwnQueue(t) == IF t = Reader THEN "reader_queue" ELSE "writer_queue"

\* rt_wqueue_wait for ever: a wake-up that has come is used up, otherwise the
\* thread sleeps with its node in the list.
rt_wqueue_wait(t) ==
    /\ Executes(t, "wait")
    /\ IF OwnQueue(t) \in wakeup
         THEN /\ wakeup' = wakeup \ {OwnQueue(t)}
              /\ Proceeds(t)
              /\ UNCHANGED <<kvars, waiting_list>>
         ELSE /\ waiting_list' = [waiting_list EXCEPT ![OwnQueue(t)] = Append(@, t)]
              /\ k' = rt_thread_suspend(k, t)
              /\ Goto(t, "block")
              /\ UNCHANGED <<wakeup, todo>>
    /\ on' = [on EXCEPT ![t] = None]
    /\ UNCHANGED <<fifovars, holder>>

\* The flag is cleared after the sleep; the waker has taken the node out.
WaitReturns(t) ==
    /\ At(t, "woken") /\ todo[t] # << >> /\ Head(todo[t]) = "wait"
    /\ wakeup' = wakeup \ {OwnQueue(t)}
    /\ Proceeds(t)
    /\ Goto(t, "run")
    /\ UNCHANGED <<k, on, fifovars, holder, waiting_list>>

-----------------------------------------------------------------------------
(* Open and close.                                                         *)

Opened(t) == IF t = Reader THEN readers > 0 ELSE writers > 0

PipeCalls(t) == CallsOn(t, pipe_lock) /\ t \in {Reader, Writer} /\ todo[t] = << >>

PipeCallOnly == UNCHANGED <<kvars, on, fifo, readers, writers, ref_count, holder, wakeup,
                            waiting_list, sent, got>>

pipe_fops_open(t) ==
    /\ PipeCalls(t) /\ ~Opened(t)
    /\ Then(t, <<"take", "open", "release">>)
    /\ PipeCallOnly /\ UNCHANGED <<count, nonblock>>

\* The first open creates the fifo.
Open(t) ==
    /\ Executes(t, "open")
    /\ fifo' = IF ref_count = 0 THEN EmptyRing ELSE fifo
    /\ readers' = IF t = Reader THEN readers + 1 ELSE readers
    /\ writers' = IF t = Writer THEN writers + 1 ELSE writers
    /\ ref_count' = ref_count + 1
    /\ Proceeds(t)
    /\ UNCHANGED <<kvars, on, holder, wakeup, waiting_list, count, nonblock, sent, got>>

pipe_fops_close(t) ==
    /\ PipeCalls(t) /\ Opened(t)
    /\ Then(t, <<"take", "close">>)
    /\ PipeCallOnly /\ UNCHANGED <<count, nonblock>>

Close(t) ==
    /\ Executes(t, "close")
    /\ readers' = IF t = Reader THEN readers - 1 ELSE readers
    /\ writers' = IF t = Writer THEN writers - 1 ELSE writers
    /\ Then(t, (IF writers' = 0 THEN <<"wake_reader">> ELSE << >>) \o
               (IF readers' = 0 THEN <<"wake_writer">> ELSE << >>) \o
               <<"unref", "release">>)
    /\ UNCHANGED <<kvars, on, fifo, ref_count, holder, wakeup, waiting_list, count,
                   nonblock, sent, got>>

\* The last close destroys the fifo and what it holds.
Unref(t) ==
    /\ Executes(t, "unref")
    /\ ref_count' = ref_count - 1
    /\ IF ref_count = 1 THEN fifo' = EmptyRing /\ sent' = 0 /\ got' = 0
                        ELSE UNCHANGED <<fifo, sent, got>>
    /\ Proceeds(t)
    /\ UNCHANGED <<kvars, on, readers, writers, holder, wakeup, waiting_list, count, nonblock>>

-----------------------------------------------------------------------------
(* pipe_fops_read and pipe_fops_write.                                     *)

Asks(t, n, nb) ==
    /\ count' = [count EXCEPT ![t] = n]
    /\ nonblock' = IF nb THEN nonblock \cup {t} ELSE nonblock \ {t}

\* Arguments are dead once the call is over.
Over(t) == count' = [count EXCEPT ![t] = 0] /\ nonblock' = nonblock \ {t}

pipe_fops_read(t, n, nb) ==
    /\ PipeCalls(t) /\ t = Reader /\ Opened(t)
    /\ writers # 0
    /\ Then(t, <<"take", "body">>) /\ Asks(t, n, nb)
    /\ PipeCallOnly

\* What is left of a count when it is passed to the ring as its length.
Length(n) == n % LengthModulus

SleepAndRetry(wake) == <<"release", wake, "wait", "take", "again">>

Body(t) == Executes(t, "body") \/ Executes(t, "again")

ReadBody(t) ==
    LET n == AtMost(Length(count[t]), rt_ringbuffer_data_len(fifo))
    IN  /\ t = Reader /\ Body(t)
        /\ \/ writers = 0 /\ Then(t, <<"release">>) /\ Over(t) /\ UNCHANGED <<fifo, got>>
           \/ /\ writers # 0 /\ n > 0
              /\ fifo' = rt_ringbuffer_get(fifo, Length(count[t]))
              /\ got' = (got + n) % (2 * buffer_size)
              /\ Then(t, <<"wake_writer", "release">>) /\ Over(t)
           \/ /\ writers # 0 /\ n = 0
              /\ IF t \in nonblock THEN Then(t, <<"release">>) /\ Over(t)
                 ELSE Then(t, SleepAndRetry("wake_writer")) /\ UNCHANGED <<count, nonblock>>
              /\ UNCHANGED <<fifo, got>>
        /\ UNCHANGED <<kvars, on, readers, writers, ref_count, holder, wakeup, waiting_list,
                       sent>>

pipe_fops_write(t, n, nb) ==
    /\ PipeCalls(t) /\ t = Writer /\ Opened(t)
    /\ readers # 0
    /\ Then(t, <<"take", "body">>) /\ Asks(t, n, nb)
    /\ PipeCallOnly

\* A writer that finds no reader after it has put something wakes the reader.
WriteBody(t) ==
    LET n == AtMost(Length(count[t]), SpaceLen(fifo))
    IN  /\ t = Writer /\ Body(t)
        /\ \/ /\ readers = 0
              /\ Then(t, IF Executes(t, "again") THEN <<"release", "wake_reader">>
                                              ELSE <<"release">>)
              /\ Over(t) /\ UNCHANGED <<fifo, sent>>
           \/ /\ readers # 0
              /\ fifo' = rt_ringbuffer_put(fifo, Stream(sent, Length(count[t])))
              /\ sent' = (sent + n) % (2 * buffer_size)
              /\ IF n = count[t] \/ t \in nonblock
                   THEN Then(t, <<"release", "wake_reader">>) /\ Over(t)
                   ELSE /\ Then(t, SleepAndRetry("wake_reader"))
                        /\ count' = [count EXCEPT ![t] = @ - n]
                        /\ UNCHANGED nonblock
        /\ UNCHANGED <<kvars, on, readers, writers, ref_count, holder, wakeup, waiting_list,
                       got>>

-----------------------------------------------------------------------------
PipeCall(t) ==
    \/ pipe_fops_open(t) \/ pipe_fops_close(t)
    \/ \E n \in Count, nb \in BOOLEAN : pipe_fops_read(t, n, nb)
    \/ \E n \in Count \ {0}, nb \in BOOLEAN : pipe_fops_write(t, n, nb)

PipeStep(t) ==
    \/ Take(t) \/ TakeReturns(t) \/ Release(t)
    \/ rt_wqueue_wakeup(t, "wake_reader", "reader_queue")
    \/ rt_wqueue_wakeup(t, "wake_writer", "writer_queue")
    \/ rt_wqueue_wait(t) \/ WaitReturns(t)
    \/ Open(t) \/ Close(t) \/ Unref(t)
    \/ ReadBody(t) \/ WriteBody(t)
-----------------------------------------------------------------------------
(* Properties.                                                             *)

Primitive == {"take", "release", "wake_reader", "wake_writer", "wait", "open", "close",
              "unref", "body", "again"}

PipeTypeOK ==
    /\ fifo \in RingRecord
    /\ {readers, writers} \subseteq {0, 1} /\ ref_count \in 0 .. 2
    /\ holder \in Thread \cup {None}
    /\ wakeup \subseteq WaitQueue
    /\ waiting_list \in [WaitQueue -> Seq(Thread)]
    /\ todo \in [Thread -> Seq(Primitive)]
    /\ count \in [Thread -> Nat]
    /\ nonblock \subseteq Thread
    /\ {sent, got} \subseteq Byte

\* A thread on its way to the wake-up p.
WillWake(p) == \E t \in Thread : p \in ToSet(todo[t])

\* A reader can read and a writer can write: there is data, or space, and the
\* length the call passes to the ring is not 0.
CanRead  == rt_ringbuffer_data_len(fifo) > 0 /\ Length(count[Reader]) > 0
CanWrite == SpaceLen(fifo) > 0 /\ Length(count[Writer]) > 0

\* Neither side sleeps for what is there: a reader asleep cannot read and has a
\* writer left, a writer asleep cannot write and has a reader left, or the
\* other side is on its way to the wake-up, at whatever point between the
\* release of the mutex and the sleep the two were switched.
PipeWakeups ==
    /\ waiting_list["reader_queue"] # << >> =>
          (~CanRead /\ writers > 0) \/ WillWake("wake_reader")
    /\ waiting_list["writer_queue"] # << >> =>
          (~CanWrite /\ readers > 0) \/ WillWake("wake_writer")

\* The fifo holds exactly the bytes written and not yet read, in order, across
\* partial writes and the wrap of the ring.
PipeIsStream ==
    /\ Contents(fifo) = Stream(got, rt_ringbuffer_data_len(fifo))
    /\ (got + rt_ringbuffer_data_len(fifo)) % (2 * buffer_size) = sent
=============================================================================
