# TLA+ models of the RT-Thread kernel of RT_3.3.1

The repository is the Fullhan SDK `RT_3.3.1`: an RT-Thread real-time kernel
(`src/rt-thread/kernel`), surrounded by drivers, file systems, a network stack,
demos and tools. The kernel carries the logic of its own that everything else
relies on, and it is where threads, interrupts and timeouts meet. This directory
models it. The build modelled is the one the SDK's configurations select: one
processor (`RT_USING_SMP` off), more than 32 priorities
(`RT_THREAD_PRIORITY_MAX` = 256), heap on, signals off.

Paths below are relative to `src/rt-thread/kernel/`.

## 1. Inventory

| Component | State | Operations | Hard part |
|---|---|---|---|
| scheduler (`src/scheduler.c`) | ready list per priority, ready table and priority group (two-level bitmap), current thread, lock nesting | insert, remove, `rt_schedule`, enter/exit critical | bitmap, lists and cached masks must agree; switches while locked are made up for later |
| threads (`src/thread.c`) | state, priority and its masks, error, list node, timer | create, startup, sleep, delay_until, yield, suspend, resume, change priority, exit, delete, timeout | tests made before interrupts are disabled; deletion in several interruptible steps |
| idle thread (`src/idle.c`) | defunct list | reap static and dynamic threads, hooks | frees memory others may still point to |
| IPC lists (`src/ipc.c` 59-190) | suspend list | suspend FIFO/PRIO, resume first, resume all | the loop of resume-all can be interrupted between test and use |
| semaphore (`src/ipc.c`) | value, suspend list | take, release, reset, detach | the waiter's fate is told by `thread->error` alone |
| mutex (`src/ipc.c`) | value, owner, hold, original priority | recursive take, release with hand-over, detach | priority inheritance and its undoing |
| event, mailbox, message queue (`src/ipc.c`) | bit set, ring of words, message and free lists | send, receive, control, detach | conditions re-checked after wake-up, timeouts re-computed |
| timers (`src/timer.c`), clock (`src/clock.c`) | sorted lists of hard and soft timers, tick counter | start, stop, check, timer thread | 32-bit wrap, callbacks that change the list being walked |
| memory pool (`src/mempool.c`) | free list, waiter count | alloc with timeout, free | waiter count not adjusted on timeout |
| completion, wait queue, data queue, work queue (`utilities/`) | flags, queues, suspend lists | wait/done, push/pop, submit | check-then-suspend windows |
| ring buffers (`utilities/`) | indices with mirror bits | put, get, block alloc/free | index arithmetic at the wrap |
| objects, devices, heaps, services | class lists, open counts, free lists | lookup, open/close, malloc/free | little concurrency |

All of them share the scheduler core: an IPC call suspends the current thread
into a list and calls `rt_schedule`; releases, timeouts and deletions take threads
out of whichever list they are in through the one node `tlist`. Interrupt handlers
release semaphores and the tick interrupt expires timers between any two
instructions that do not run with interrupts disabled. `PROJECT.json` lists every
component with its status, and under `hazards` what is hard to test, at its line.

What makes each correct, in a sentence: the *scheduler* runs a most urgent ready
thread and its four representations of "ready" agree; a *thread* is in one list,
the one its state says; a dead one is freed once and never runs again; a
*semaphore* conserves tokens; a *mutex* has one owner, who inherits the priority
of its waiters and gives it back; a *queue* loses, invents and reorders nothing and
nobody sleeps while there is something to take; a *timer* fires once, in order and
not early; *detach* leaves nobody behind.

## 2. Modules

```
RtKernel            scheduler core: operators on a record k, no variables
  Threads           the machine: who runs, program points, startup, timeouts, ticks
    Ipc             what IPC objects share: suspend lists, resume-all
      Semaphore     MCSemaphore     2 configurations
      Mutex         MCMutex         2 configurations
      IpcWait       waiting with a timeout, wake-up, shared by the objects below
        Event, Mailbox, MessageQueue, MemPool
          IpcObjects    their composition   MCIpcObjects
        Completion, DataQueue, WorkQueue, RingBuffer, Pipe, RingBlock
          DeviceIpc     their composition   MCDeviceIpc   2 configurations
    Lifecycle       MCLifecycle     3 configurations
  KernelProofs      what each operator of RtKernel preserves
    IpcProofs       what the steps shared by all IPC objects preserve
      SemaphoreProofs, MutexProofs, IpcObjectsProofs, DeviceIpcProofs
    LifecycleProofs theorems about Lifecycle
BoundedQueue        abstract: a bounded queue; Mailbox, MessageQueue and DataQueue implement it
Timer               timer lists, tick interrupt, timer thread   MCTimer   2 configurations
  TimerProofs       theorems about Timer
```

**RtKernel.** The kernel's globals and thread control blocks form the record `k`;
each C function that runs with interrupts disabled is an operator on it, under the
name it has in C (`rt_schedule_insert_thread`, `rt_thread_resume`,
`rt_ipc_list_suspend`, `rt_thread_timeout`, ...). Lists are sequences, bit masks are
sets of positions. `number`, `number_mask` and `high_mask` are kept per thread as in
the code, because their staleness is one of the hazards. A thread timer is a member
of `k.timer` and may expire at any time: what the timer list makes of ticks is not
looked at here. `KernelInv` states what the operators rely on: ready threads are
exactly those in the ready list of their priority, waiters and armed timers belong to
suspended threads, the bitmap is exact, the masks are current, idle is ready.

**Threads.** One action is the code between two points where an interrupt can be
taken. `pc[t]` names those points; a thread moves only while it is `k.cur`. The
window of every blocking call, suspended but not yet in `rt_schedule`, is the point
`"block"`. Interrupt handlers are steps of their own that run to their end. In a tick
interrupt each expired timer and the time slice are separate steps, which allows more
orders than the code has.

**Ipc.** The interruptible loop of `rt_ipc_list_resume_all` and the properties that
every IPC object shares.

**Semaphore.** `rt_sem_take` (value positive, no wait, wait, return),
`rt_sem_release` from threads and from interrupt handlers, `rt_sem_control` (a loop
with interrupts disabled: `Masked` keeps interrupts out), detach/delete. The history
variable `tokens` counts what went in and was not yet obtained by a take that returned
`RT_EOK`.

**Mutex.** `rt_mutex_take` (owned, free, fails, waits with boost, return),
`rt_mutex_release` (refused, inner, hand-over, free), detach/delete. The history
variable `held` counts takes minus releases as the callers see them.

**Lifecycle.** thread.c and idle.c seen from outside the kernel. Suspend and resume of
another thread are a test and an act; deletion is five steps; exit is one, since
interrupts stay disabled until the switch. A dead thread is linked into
`rt_thread_defunct`, the only element of `Queue` here. `exists` says which thread
objects are allocated; use of a freed object, a second linking of a linked node and a
failed assertion set `fault`. Roles (who sleeps, exits, is suspended, is deleted) are
constants, since the races are between roles.

**IpcWait.** What the objects after semaphore and mutex share: reset the error, suspend
into a list, arm the timer; resume the first of a list. A call that is resumed and has to
wait again re-computes its timeout from ticks that are not counted here: what is left is
any value the subtraction and its clamp at zero can give.

**Event.** `rt_event_send` walks the waiters with interrupts disabled, in list order; each
satisfied one may clear flags that later ones wait for. `owed` is a history: flags raised
and neither consumed by a receive that returned `RT_EOK` nor reset.

**Mailbox.** The ring of words with its two offsets, blocked senders and receivers, the
retry loops of `rt_mb_send_wait` and `rt_mb_recv`, `rt_mb_urgent`, reset, detach of both
lists. **MessageQueue.** Nodes linked through `next`, a free list, and the windows in which
a thread copies a message with interrupts enabled and the node is in no list. No call of
this version suspends on the list of senders. **BoundedQueue** is what both promise: a
sequence of at most `Capacity` messages and the one each client has in its hands; steps
put at either end, get, use and reset. The mapping reads the ring between its offsets,
or the chain of nodes from the head; a message in the copy window is not yet, or no
longer, in the queue.

**MemPool.** The free list and its count, `suspend_thread_count`, alloc with retry, free
from threads and interrupts, detach with its interruptible loop. A free that trusts a
stale count and finds no waiter fails an assertion (`fault`).

**IpcObjects** composes these four over one kernel. A state has one of the objects; which
one is chosen at the start (`Created`), since they share nothing but the kernel.

**Timer.** `tick` counts modulo `RT_TICK_MAX + 1`. `w` holds the lists of hard and soft
timers, their `timeout_tick` and flag, and, as history, the ticks really left (`due`).
Three actors: the tick interrupt (`rt_tick_increase`, `rt_timer_check`, and timeout
functions that start and stop timers), a client thread whose calls are interrupted
wherever interrupts are enabled in `rt_timer_start` and `rt_timer_stop`, and the timer
thread (`rt_thread_timer_entry`, `rt_soft_timer_check`, its delay by a hard timer of its
own, functions that call on timers). `tt.n` is the iterator the timer thread keeps across
a timeout function; a node in no list is linked to itself. The skip list has one level, as
the build configures it.

**Completion**, **DataQueue**, **WorkQueue.** As in `utilities/`, with the tests made before
interrupts are disabled as steps of their own. DataQueue implements BoundedQueue until its
16-bit indices wrap. In WorkQueue a worker that finds its list empty after a late resume
runs the list head as a work: `fault`. The value of the queue's semaphore is 0 whenever
the scheduler is unlocked and is not kept.

**RingBuffer.** Index and mirror-bit arithmetic as operators on records. A byte is its
position in the stream of bytes offered, modulo twice the buffer size, so that all bytes
in a buffer differ. **Pipe** applies them to the fifo of a pipe between one reader and one
writer: a call is a sequence of primitives still `todo` (take the mutex, test and copy,
release, wake the other side, wait), and a thread may be switched between any two. It
includes the wait queue and its wake-up flag, and the pipe's mutex, which is never taken
twice by one thread. A call asks for any number of bytes, and passes the ring that number
modulo 2^16 (`Length`), since the ring's `length` is an `rt_uint16_t`. **RingBlock.**
Descriptors and the list of blocks in ring order; alloc, put, get, free, queue get and
queue free, which frees one descriptor at a time with interrupts enabled in between. Alloc
grants a block of any size while the list is empty; the difference of two addresses is
unsigned (`Gap`). `outgrown` is a history: a block larger than the buffer has been granted
since the list was last empty.

**DeviceIpc** composes these six over one kernel, one object per behaviour, and lets
threads sleep between their calls. The calls on a ring or ring block buffer are atomic;
there main stands for every thread that makes them.

**Client rules** the models assume: nobody calls on an object, or manages a thread,
whose detach or deletion has begun, nor begins a detach while a thread that was resumed
from a list of a mailbox, a message queue or a pool has not looked at it again, or is
copying a message (section 5); a thread blocks or exits only with the scheduler
unlocked; interrupt handlers use no mutex; clients of mutexes do not change priorities
themselves; threads do not delete themselves; a client uses the message it has received
before it receives the next; one thread waits on a completion; a timer has a period of at
least one tick and is not started by two threads at once; a block has at least one byte; works do not call on their own queue. When an assertion
has failed the models stop: by then memory outside any thread has been written.

## 3. Runs

| Run | Instance | Checks and result |
|---|---|---|
| semaphore | idle, main, a, b; one semaphore, FIFO or PRIO, values 0..2; fair | types, kernel consistency, token conservation, no waiter while tokens are there, no lost thread, detach, sorted waiters, switches go to the highest, a timed take of the most urgent thread returns: hold |
| semaphore_detach | same | the assertion of `rt_thread_resume` in resume-all: **violated** when the last waiter times out between test and resume |
| mutex | low, mid, high; one mutex, nesting 2; fair | consistency (types, kernel, no lost thread, detach), exclusion, no waiter while free, inheritance, priority given back, the most urgent thread gets the mutex in spite of a busy middle one: hold |
| mutex_two | low, high; two mutexes, nesting 2 | owner and hold account exactly for the calls, deadlocking orders included: hold |
| lifecycle | main manages a (sleeps, suspended, resumed) and b (exits, deleted, re-created); lock nesting 2 | lists and types, defunct list, no corruption and no dead thread running, the dead stay dead: hold |
| lifecycle_static | static threads with and without cleanup, lock nesting 2; fair | defunct list, idle's unbalanced unlock harmless, the most urgent thread returns from sleep: hold |
| lifecycle_delete | the deleted thread sleeps | a deleted thread leaves the queues: **violated** by a timeout inside `rt_thread_delete` |
| ipc_objects | idle, main, a; an event of two flags, a mailbox of two places, a message queue of three nodes, or a pool of two blocks; interrupts send and free | consistency, no missed wake-up, flags, nodes and block counts conserved, mailbox and message queue implement BoundedQueue: hold |
| timer | ticks 0..9; two hard timers, a hard and a soft, or two soft ones, one-shot and periodic; fair ticks | types, sorted lists and flags, nothing early, nothing due left behind, a stopped hard timer not called, the timer thread's delay ends: hold |
| timer_soft_stop | two soft timers | a stopped soft timer is not called: **violated** through the iterator of `rt_soft_timer_check` |
| device_ipc | idle, main, a, worker; a completion, a data queue of two, a work queue with two works, a pipe, a ring of four bytes, or a block buffer of five bytes and three descriptors | no missed wake-up, pipe is a stream, ring holds the newest bytes, blocks disjoint and inside the buffer until it is outgrown, data queue implements BoundedQueue: hold |
| ringbuffer_force | the ring | a forced put drops old data only: **violated** when it wraps with both indices in one mirror |

`Consistent`, `NoMissedWakeup`, `TimersConsistent` and `PoolCounts` are conjunctions of the
properties their modules state object by object.

**Bounds.** Sixteen priorities give two bytes of the bitmap, so that both levels
matter; threads share a priority, a byte, or neither. Two or three client threads are
the actors of every race found (waiter, releaser, and one that preempts them).
`MaxValue` 2 lets a value be zero, one, and more than one. `MaxHold` 2 separates inner from
last release. `MaxLock` 2 separates inner from outer unlock. Queues of two or three places are
empty, partly filled and full; `MaxSuspended` 3 lets a pool's count exceed its waiters; a ring of four bytes (the alignment the code imposes) wraps with
every length up to one more than it holds; three descriptors make a list with a first, a
middle and a last block, freed in any order. Blocks of 1, 3 and 6 bytes leave a buffer of five
room for several, for one, and are larger than it; they are followed up to an address of
`MaxEnd` 12, two oversized ones, and `SizeModulus` 32 is more than twice that, as 2^32 is
unless more than a hundred blocks of the largest size follow one another. `LengthModulus` 8 stands for 2^16: the counts 0, 1, 5 and 12 pass the ring a
length of 0, of less than it holds, of more, and one that was narrowed; a write of 12 comes
to 8 left, which narrows to 0. `MaxIndex` 4 takes a data queue of two twice
around. `RT_TICK_MAX` 9 lets every timer list stand across the wrap; `MaxLag` 1 lets a tick
that was read be old by one, and time stops while a timer is overdue by more. No symmetry
is used: threads differ in priority or role.

**Fairness.** Weak fairness of a thread's steps says that the processor executes the
current thread; it gives a thread that is not current nothing. Weak fairness of
timeouts and ticks says that the tick interrupt keeps coming, which the hardware timer
guarantees. Clients owe two things: who holds a mutex and runs releases it some time,
and who locks the scheduler unlocks it some time, both at each depth (strong fairness,
since other calls may come in between). Threads are not assumed to give up the
processor. In `Timer` ticks keep coming and an interrupt handler runs to its end, the
functions it calls included; nothing is assumed of the client or the timer thread.
`UrgentTakeReturns` does not speak of detached mutexes: their
owner stays boosted, and without rotation it can keep the waiter it shares a priority
with from running.

## 4. Proofs

By TLAPS, for any set of threads, any priorities, any set of objects, any sizes of
queues and buffers, any timers and any width of the tick counter. Each theorem below is `Spec => []P` for an invariant `P` some run
checks, or `Spec => P` for an action property or a refinement. Almost none of the
invariants is inductive alone; what was added to each says why the code is right.

**KernelProofs** has one lemma per operator of `RtKernel`. The argument goes through a
thread that *floats*: `rt_list_remove` and `rt_schedule_remove_thread` take a thread out
of all lists and leave a kernel that is consistent but for it; `rt_schedule_insert_thread`
puts a floating thread back. Suspend, resume, timeout, startup, change of priority and the
list operations are compositions of these. `ScheduleOK` shows that the two `ffs` of
`rt_schedule` find the head of the most urgent non-empty list. **IpcProofs** does the same
for the steps of `Threads`, `Ipc` and `IpcWait`, over `IpcCore`: the kernel is consistent;
a suspended thread stands in a blocking call, on the list of its object, with error
`RT_EOK` (`Waiting`: otherwise a grant could not be told from a timeout); the current
thread is ready or stands right before `rt_schedule` (otherwise a caller could suspend
itself twice).

**SemaphoreProofs.** `TypeCorrect`, `KernelStaysConsistent`, `NoMissedRelease`,
`NoThreadIsLost`, `DetachWakesAll`, `WaitersStaySorted`, the action property
`SwitchesToHighest`, and `TokensAreConserved`. `SemInv` is `IpcCore` with "no waiter while
the value is positive" and "detached, nobody waits". `TokensAreConserved` needs
`MaxValue < ValueModulus`: no release at the largest value, which would wrap it to zero.

**MutexProofs.** `StaysConsistent`, `NoMissedRelease`; `HoldCountsAreRight` and
`MutexExcludes`; `OwnerAlwaysInherits` and `PriorityAlwaysRestored`. `MutexInv` adds to
`IpcCore` that an owner is a started thread and that a mutex has an owner or its value is
one. `HoldInv` counts for a waiter who has been handed the mutex and not yet run; it needs
`MaxHold < HoldModulus`, since the 257th nested take would wrap `hold`. `InheritInv` adds
that the lists are sorted by the priorities as they now are, that an owner waits for
nothing, and that the priority the release will restore is the one of the owner's
creation. It needs a single mutex (`OneMutex`): with two the code drops inherited
priorities (section 5).

**IpcObjectsProofs.** `MailboxRefinesQueue` and `MessageQueueRefinesQueue`: both implement
`BoundedQueue`. `MbInv`: `in_offset` is `out_offset` plus the entries, modulo the size, and a
client that has been told `RT_EOK` has its message. `MqInv`: there are two lists of nodes,
linked through `next` from the head and from the free pointer, and every node is in one of
them or with one thread that copies; `NodesAreConserved` counts them. `ChainIs` and
`LinkedPushed` say what the walk along `next`, and the loop of a reset, compute on a linked
list.

`NoWakeupMissed`, `PoolCountsHold`, `FlagsAreConserved`, `ObjectsConsistent` and `ObjectsTyped`
rest on one invariant, `ObjInv`, with `DetachGone`. A step is described by who moves, whom the
kernel core wakes with which error, and who joins a list (`Step`); `Out(q, e)` are the
threads that left list `q` with error `e` and have not run since. `Covered` says of a
mailbox, a message queue and a pool that while somebody waits, `Out(q, "EOK")` has as many
members as there are things to have: a put wakes one more, a thread that comes back takes
one or finds nothing, a timeout or an error removes a waiter only. `FlagsOK` counts for each
flag the threads that were resumed with it; `WalkEnds` is the induction along the list that
`rt_event_send` walks, waiters it has passed being unsatisfied by what is left of the flags.
`PoolInv` has the pool's count as waiters plus threads whose timers expired plus those that
did so before. `Gone` says that nobody is on the way back to an object being detached: the
client rule of section 2 is what makes this hold. The part of `Consistent` about detach
assumes `~mq_static`, as the run does: `rt_mq_detach` leaves receivers behind (section 5);
`ObjectsTyped` is the rest without that assumption.

**DeviceIpcProofs.** `DataQueueRefinesQueue` (`DqInv`: the indices differ by at most the size;
what a client holds is what the queue gave it), `RingAlwaysHoldsNewest` (`HoldsNewest`:
where each byte between the two indices comes from; every operator on rings is shown to
keep it, with both splits at the end of the array and both mirror bits),
`PipeAlwaysStream` (`PipeInv`: what a call has still `todo` and who holds the pipe's mutex
tell which primitives can come next) and `BlocksStayDisjoint`, for blocks of any size that
alloc accepts (`BlocksInv`: the blocks on the list stand in ring order, from the first on
with at most one wrap; once the buffer is outgrown, all of them end outside, where each
follows the one before).

`NoWakeupIsMissed` is about all six objects at once; its invariant `WakeInv` has a part for
each and one for the threads. `DevThreads`: a suspended thread stands inside a call, on the
list that call waits on; a popper or a pusher on its list still has the error `RT_EOK`,
else a time-out could not be told from an item; and the scheduler is locked only by a
thread inside `rt_data_queue_reset`. `CmpInv`: one thread at most waits for the completion,
and none once the flag is set, so that the done that finds the flag set may return at once.
`DqWake`: while somebody waits, `Out(q, "EOK")` covers the items, or the places up to
`WakeLevel`: a push wakes one more popper, a pop that leaves more than the mark owes nobody
anything, and a thread woken by a reset or by its timer leaves the list without counting.
`WqInv`: a listed work is listed once, and whoever waits in a synchronous cancel has the
worker before its announcement, which resumes everybody on the list (`AckedAll`).
`PipeWaits` follows a side of the pipe from the release of the mutex to its sleep
(`SideOK`): from there on it cannot go on (the fifo is empty, or full, or the length it
passes to the ring narrows to 0), or the other side has the
wake-up still `todo`, or the flag of its wait queue is set and will keep it awake. Nothing
else than such a wake-up resumes it, as it has no timer. A step is again described by who
moves, whom the kernel core wakes and who joins a list (`DStep`); all objects' parts are
shown to be kept by steps that do not concern them (`CmpKept`, `WqKept`, `PipeKept`), which
leaves the steps that do.

**LifecycleProofs.** `ListsStayConsistent`, `DefunctStaysExact`, `NothingIsCorrupted`,
`IdleStaysOutside` and the action property `NoneIsRevived`. A thread inside `rt_thread_delete`
is in no list whatever its state says, and a dead one is linked into `rt_thread_defunct`;
the scheduler sees neither. `View` is the kernel as the scheduler sees it (the dead as not
started, the removed as suspended), and `KernelProofs` applies to it. `LifeInv` adds what
holds in each window of suspend, resume, delete, exit and reaping: who stands there, what
is true of its target, and that it still is when it goes on. The theorems assume `RolesApart`:

- a thread that is deleted by others does not sleep, is not suspended, and manages nobody:
  else a timeout or a resume between the steps of its deletion puts it back on a ready
  list (this is what the run `lifecycle_delete` shows, whose instance drops the part);
- a thread that others suspend or resume does not exit: else a late suspend or resume,
  whose test is made before interrupts are disabled, takes it off `rt_thread_defunct`;
- a manager is suspended by nobody but itself: else it may find the thread it deletes
  freed when it goes on;
- no thread is given the lowest priority: else it might run at the priority of idle
  while idle is in its critical section, or idle not at all.

The other two configurations satisfy `RolesApart`. What happens without it is known
behaviour of the code (section 5), not a weakness of the argument.

**TimerProofs.** `TimersAreConsistent`, and the action properties `NoFunctionEarly`,
`TickLeavesNoneDue` and `HardTimersStayStopped`. The code compares ticks by the sign of a
wrapped difference. `IInv` relates this to time as it passes: the tick a listed timer is
set to lies as far ahead of the counter, modulo the width, as the timer has ticks left
(`OnClock`), and that number is between `-MaxLag` and half the width less `MaxLag`. So two
listed timers, or a timer and a tick read up to `MaxLag` ago, never differ by half the
width, and the comparison answers what time says: the walk of `rt_timer_start` finds the
place that keeps the list sorted, and the check that stops at the first timer not due
leaves none behind. A tick read by an actor is at most `MaxLag` old (`TicksRead`).
The other parts are about the windows with interrupts enabled: a timer being started is in
no list and its flag is clear, and no two actors are in calls on one timer (`CallsApart`,
`StartsApart`); a timer whose flag is set is listed, or being served by the interrupt or
the timer thread, or between the two steps of `rt_timer_stop` (`Armed`); a
stopped hard timer is neither listed nor flagged, and until its stop returns not being
served (`StoppedHard`); the timer thread's delay timer is listed only with its flag set, and
not while it is served (`DelayArmed`).

**Assumptions** on constants, all evaluated by TLC in the runs: `PrioAssumption`,
`ThreadAssumption` (idle alone has the lowest priority), `MainAssumption`,
`QueueAssumption`, `FlagAssumption`, those of each object (sizes positive, a ring's size a
multiple of four, reader and writer different), `ListsAssumption` (the suspend lists of one
object are different list heads), `CreatedAssumption` (the two lists of a mailbox exist
together), `FiniteAssumption` (threads can be counted), `TimerAssumption` (times positive
and less than half the width by more than `MaxLag`; `rt_timer_start` asserts half the width;
hard and soft timers are different; the timer thread's own timer is a hard one that no
client uses) and the two bounds named above.

**Model-checked only.** All liveness: fairness is outside the prover's reach. Every other
property a passing run checks is stated by a theorem.

## 5. Known behaviour outside the properties

The models contain what the code does; these are the places where a reader might expect
a property and none is claimed. TLC reaches each one when the property is stated or the
bound is raised.

- A semaphore released at 65535 wraps to 0 (`ipc.c:459`); a mutex taken 257 times is freed
  by one release (`ipc.c:687`); a data queue whose `put_index` has wrapped is never full
  (`dataqueue.c:66`).
- With two mutexes held, releasing the inner one drops the priority inherited through the
  outer one (`ipc.c:868`). Detaching a held mutex leaves its owner boosted (`ipc.c:570`).
  A release without waiters that lowers the priority does not reschedule (`ipc.c:899`).
- The end of a time slice rotates nothing on one processor (`clock.c:105`), nor does
  `rt_thread_yield`.
- `rt_thread_resume` makes a thread ready that woke and exited between its test and its
  interrupt lock (`thread.c:883`). `rt_thread_delay_until` leaves the timeout error set (it
  compares with the wrong sign, against its comment); every blocking call resets it first.
- The timer thread finds no timer and suspends itself in two steps (`timer.c:687-690`): a
  soft timer started in between waits until another one is started. A timer due at exactly
  `RT_TICK_MAX` is read as "no timer". A one-shot timer that its own function starts again
  is reported as stopped (`timer.c:580`), as is one that an interrupt starts inside
  `rt_timer_stop` (`timer.c:462`). A period of 0 never leaves the tick interrupt.
- A thread resumed with `RT_EOK` from a mailbox, a message queue or a pool looks at the object
  again. If the object was detached before it runs and somebody else took what it was
  resumed for, it waits again, on the list of an object that is gone, and nobody is left to
  wake it (`ipc.c:1547`, `1767`, `2350`; `mempool.c:355`). It takes a third thread to get
  there; the attempt to prove `DetachLeavesNoWaiter` showed it, and the models exclude it by
  a client rule.
- `rt_mq_detach` wakes only the list nobody waits on (`ipc.c:1958`): the run uses a queue of
  `rt_mq_create`, whose deletion wakes both.
- A waiter of a memory pool that times out stays counted (`mempool.c:337`): `PoolCounts`
  says by how much, and the free that trusts the count ends in `fault`.
- A completion signalled between a waiter's timeout and its clearing of the flag is lost
  (`completion.c:88`).
- A work submitted between the worker's test and its suspension waits for the next one, and
  a late resume runs the empty list's head (`workqueue.c:58`).
- A pipe reader that finds no writer returns end-of-file before it drains the buffer
  (`pipe.c:147`).
- A pipe call passes its `size_t` count to the ring as a 16-bit length (`pipe.c:152`, `212`;
  `ringbuffer.c:51`, `154`). A blocking write that comes to a multiple of 65536 bytes left puts
  nothing and sleeps, whatever room there is, and each time it is woken it does so again; so
  does a blocking read of such a count, or of 0 bytes, with data in the fifo. `NoMissedWakeup`
  excepts them (`CanRead`, `CanWrite`).
- `rt_rbb_blk_alloc` does not compare the size of a block with the buffer's when the list is
  empty (`ringblk_buf.c:209`): it grants a block that ends outside. While the last block does,
  the unsigned gap behind it is huge (`ringblk_buf.c:161`) and further blocks are granted
  outside as well; `BlocksDisjoint` claims "inside the buffer" only for a list that has held no
  such block since it was empty. A block of 0 bytes, which alloc also grants, can stand at the
  address of the first one and make a wrapped list look unwrapped, so that later blocks
  overlap: the models ask for at least one byte.
- Blocks taken by `rt_rbb_blk_queue_get` leave the list while they are still read, and
  `rt_rbb_blk_queue_free` frees neighbours in the descriptor array (`ringblk_buf.c:414`).

## 6. Not modelled

- SMP variants and signals: not built.
- `rt_workqueue_destroy`, destruction of ring buffers and of unnamed pipes, poll and ioctl of
  pipes, wait queues with a timeout, the pipe's device interface.
- Object containers, devices, heaps, kernel services: name lookup, dispatch, pointer-level
  allocators, strings; little that a small model would tell.
- pthread, mqueue, file systems, network, drivers, applications: clients of the kernel or
  third-party code. They are nearly all of the repository's lines: the kernel proper is
  about one per cent of them.
- The per-thread semaphore `thread->lock`, hooks, statistics, logging.

## 7. Plan

1. An abstract counting semaphore and an abstract lock that `Semaphore` and `Mutex`
   implement.
2. Devices (open counts) and the heap's block lists.
