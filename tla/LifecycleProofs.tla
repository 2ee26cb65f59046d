--------------------------- MODULE LifecycleProofs ---------------------------
(***************************************************************************)
(* Theorems about Lifecycle.  The lemmas of KernelProofs speak of a kernel *)
(* whose lists hold living threads only; here a thread that is being       *)
(* deleted is in no list whatever its state says, and a dead one is on     *)
(* rt_thread_defunct.  The scheduler sees neither: View shows what it sees,*)
(* a kernel KernelProofs speaks of.                                        *)
(***************************************************************************)
EXTENDS Lifecycle, KernelProofs

Lowest == RT_THREAD_PRIORITY_MAX - 1

\* The discipline of the clients under which the theorems hold.  Each part is
\* needed: a timeout inside a deletion puts the deleted thread back on a ready
\* list, a late suspend or resume takes an exited thread off rt_thread_defunct,
\* a manager that is suspended inside a deletion finds the thread freed when it
\* goes on, and a thread at the priority of idle need not run before idle does.
RolesApart ==
    /\ Victim \cap (Sleeper \cup Controlled \cup Manager) = {}
    /\ Controlled \cap Exiter = {}
    /\ \A t \in Manager, u \in Manager \cap Controlled : u = t
    /\ Lowest \notin NewPriority

-----------------------------------------------------------------------------
(* What the scheduler sees.  F are the threads a deletion has taken off    *)
(* the lists.                                                              *)
Seen(s, F) ==
    [t \in Thread |-> IF s.stat[t] = "CLOSE" THEN "INIT"
                      ELSE IF t \in F /\ s.stat[t] = "READY" THEN "SUSPEND" ELSE s.stat[t]]

View(s, F) ==
    [ stat        |-> Seen(s, F),
      prio        |-> s.prio,
      number      |-> s.number,
      number_mask |-> s.number_mask,
      high_mask   |-> s.high_mask,
      error       |-> s.error,
      ready       |-> s.ready,
      table       |-> s.table,
      group       |-> s.group,
      wait        |-> [q \in Queue |-> << >>],
      timer       |-> s.timer,
      cur         |-> s.cur,
      lock        |-> s.lock ]

\* The masks of a thread are those of its priority or still those of its creation.
MasksSane(s) ==
    \A t \in Thread :
        \/ s.number[t] = 0 /\ s.number_mask[t] = {} /\ s.high_mask[t] = {}
        \/ /\ s.number[t] = NumberOf(s.prio[t])
           /\ s.number_mask[t] = {NumberOf(s.prio[t])}
           /\ s.high_mask[t] = {HighOf(s.prio[t])}

WaitDistinct(s) == \A q \in Queue : IsInjective(s.wait[q])

TimersSuspended(s) == \A t \in s.timer : s.stat[t] = "SUSPEND"

CoreOK(s, F) ==
    /\ s \in KernelState
    /\ KernelOK(View(s, F))
    /\ WaitDistinct(s)
    /\ MasksSane(s)
    /\ TimersSuspended(s)

\* x and y agree in what the ready lists and the bitmap are made of.
SameSched(x, y) ==
    /\ x.prio = y.prio /\ x.number = y.number
    /\ x.number_mask = y.number_mask /\ x.high_mask = y.high_mask
    /\ x.ready = y.ready /\ x.table = y.table /\ x.group = y.group

\* A view is a kernel state with the same ready lists and an empty waiting list.
LEMMA ViewTyped ==
    ASSUME NEW s \in KernelState, NEW F
    PROVE  /\ View(s, F) \in KernelState
           /\ SameSched(View(s, F), s)
           /\ View(s, F).stat = Seen(s, F)
           /\ View(s, F).timer = s.timer /\ View(s, F).cur = s.cur
           /\ View(s, F).lock = s.lock /\ View(s, F).error = s.error
           /\ \A q \in Queue : View(s, F).wait[q] = << >>
           /\ \A t \in Thread : Seen(s, F)[t] =
                 IF s.stat[t] = "CLOSE" THEN "INIT"
                 ELSE IF t \in F /\ s.stat[t] = "READY" THEN "SUSPEND" ELSE s.stat[t]
<1>1. Seen(s, F) \in [Thread -> Stat]
  BY DEF Seen, KernelState, Stat
<1>2. [q \in Queue |-> << >>] \in [Queue -> Seq(Thread)]
  OBVIOUS
<1>3. View(s, F) \in KernelState
  BY <1>1, <1>2 DEF View, KernelState
<1> QED BY <1>3 DEF View, SameSched, Seen

\* What the scheduler relies on depends on the scheduler's fields and on who
\* is seen ready; a thread may be seen as not started, unless it is ready.
LEMMA ViewFrame ==
    ASSUME NEW v, KernelOK(v), NEW r \in KernelState, NEW F, SameSched(r, v),
           WaitDistinct(r), MasksSane(r), TimersSuspended(r),
           \A t \in Thread : \/ Seen(r, F)[t] = v.stat[t]
                             \/ v.stat[t] # "READY" /\ Seen(r, F)[t] = "INIT"
    PROVE  CoreOK(r, F)
<1> DEFINE w == View(r, F)
<1>1. KernelInv(v)
  BY DEF KernelOK
<1>2. /\ w \in KernelState /\ SameSched(w, r)
      /\ w.stat = Seen(r, F) /\ w.timer = r.timer
      /\ \A q \in Queue : w.wait[q] = << >>
      /\ \A t \in Thread : Seen(r, F)[t] =
            IF r.stat[t] = "CLOSE" THEN "INIT"
            ELSE IF t \in F /\ r.stat[t] = "READY" THEN "SUSPEND" ELSE r.stat[t]
  BY ViewTyped
<1>3. SameSched(w, v)
  BY <1>2 DEF SameSched
<1>4. \A t \in Thread : /\ w.stat[t] = "READY" <=> v.stat[t] = "READY"
                        /\ w.stat[t] \in {"READY", "SUSPEND"} => v.stat[t] \in {"READY", "SUSPEND"}
  BY <1>2
<1>5. IdleReady(w)
  BY <1>1, <1>4, ThreadAssumption DEF KernelInv, IdleReady
<1>6. NoDuplicates(w)
  <2>1. \A q \in Queue : IsInjective(w.wait[q])
    BY <1>2 DEF IsInjective
  <2> QED BY <1>1, <1>3, <2>1 DEF KernelInv, NoDuplicates, SameSched
<1>7. ReadyIffListed(w)
  BY <1>1, <1>3, <1>4 DEF KernelInv, ReadyIffListed, SameSched
<1>8. WaitersSuspended(w)
  <2>1. \A q \in Queue : ToSet(w.wait[q]) = {}
    BY <1>2 DEF ToSet
  <2>2. \A t \in r.timer : t \in Thread /\ w.stat[t] = "SUSPEND"
    BY <1>2 DEF TimersSuspended, KernelState
  <2> QED BY <1>2, <2>1, <2>2 DEF WaitersSuspended
<1>9. BitmapExact(w)
  BY <1>1, <1>3 DEF KernelInv, BitmapExact, SameSched
<1>10. MasksCurrent(w)
  BY <1>1, <1>3, <1>4 DEF KernelInv, MasksCurrent, SameSched
<1>11. KernelOK(w)
  BY <1>2, <1>5, <1>6, <1>7, <1>8, <1>9, <1>10 DEF KernelOK, KernelInv
<1> QED BY <1>11 DEF CoreOK

\* What a consistent core says of the threads themselves.
LEMMA CoreFacts ==
    ASSUME NEW s, NEW F, CoreOK(s, F)
    PROVE  /\ s \in KernelState
           /\ NoDuplicates(s) /\ BitmapExact(s) /\ MasksCurrent(s)
           /\ s.stat[Idle] = "READY" /\ Idle \notin F
           /\ \A t \in Thread, p \in Prio :
                 t \in ToSet(s.ready[p]) <=> s.stat[t] = "READY" /\ s.prio[t] = p /\ t \notin F
           /\ View(s, F).stat = Seen(s, F)
           /\ \A t \in Thread : Seen(s, F)[t] =
                 IF s.stat[t] = "CLOSE" THEN "INIT"
                 ELSE IF t \in F /\ s.stat[t] = "READY" THEN "SUSPEND" ELSE s.stat[t]
<1> DEFINE w == View(s, F)
<1>1. s \in KernelState /\ KernelInv(w) /\ w \in KernelState
  BY DEF CoreOK, KernelOK
<1>2. /\ SameSched(w, s) /\ w.stat = Seen(s, F)
      /\ \A t \in Thread : Seen(s, F)[t] =
            IF s.stat[t] = "CLOSE" THEN "INIT"
            ELSE IF t \in F /\ s.stat[t] = "READY" THEN "SUSPEND" ELSE s.stat[t]
  BY <1>1, ViewTyped
<1>3. NoDuplicates(s)
  BY <1>1, <1>2 DEF CoreOK, WaitDistinct, KernelInv, NoDuplicates, SameSched
<1>4. BitmapExact(s)
  BY <1>1, <1>2 DEF KernelInv, BitmapExact, SameSched
<1>5. MasksCurrent(s)
  <2>1. \A t \in Thread : s.stat[t] \in {"READY", "SUSPEND"} => w.stat[t] \in {"READY", "SUSPEND"}
    BY <1>2
  <2> QED BY <1>1, <1>2, <2>1 DEF KernelInv, MasksCurrent, SameSched
<1>6. s.stat[Idle] = "READY" /\ Idle \notin F
  BY <1>1, <1>2, ThreadAssumption DEF KernelInv, IdleReady
<1>7. \A t \in Thread : w.stat[t] = "READY" <=> s.stat[t] = "READY" /\ t \notin F
  BY <1>2
<1>8. \A t \in Thread, p \in Prio :
          t \in ToSet(s.ready[p]) <=> s.stat[t] = "READY" /\ s.prio[t] = p /\ t \notin F
  BY <1>1, <1>2, <1>7 DEF KernelInv, ReadyIffListed, SameSched
<1> QED BY <1>1, <1>2, <1>3, <1>4, <1>5, <1>6, <1>8

-----------------------------------------------------------------------------
(* The operators do the same to a kernel and to its view.                  *)

\* The type of what inserting a thread and clearing its bit give.
LEMMA InsertTyped ==
    ASSUME NEW x \in KernelState, NEW t \in Thread
    PROVE  /\ rt_schedule_insert_thread(x, t) \in KernelState
           /\ ClearReadyBit(x, t) \in KernelState
<1>1. /\ x.prio[t] \in Prio /\ x.number[t] \in Number /\ x.ready[x.prio[t]] \in Seq(Thread)
      /\ x.high_mask[t] \in SUBSET (0 .. 7) /\ x.number_mask[t] \in SUBSET Number
  BY DEF KernelState
<1>2. Append(x.ready[x.prio[t]], t) \in Seq(Thread)
  BY <1>1
<1>3. /\ [x.stat EXCEPT ![t] = "READY"] \in [Thread -> Stat]
      /\ [x.ready EXCEPT ![x.prio[t]] = Append(@, t)] \in [Prio -> Seq(Thread)]
      /\ [x.table EXCEPT ![x.number[t]] = @ \cup x.high_mask[t]] \in [Number -> SUBSET (0 .. 7)]
      /\ x.group \cup x.number_mask[t] \in SUBSET Number
  BY <1>1, <1>2 DEF KernelState, Stat
<1>4. rt_schedule_insert_thread(x, t) \in KernelState
  BY <1>3 DEF rt_schedule_insert_thread, KernelState
<1>5. /\ [x.table EXCEPT ![x.number[t]] = @ \ x.high_mask[t]] \in [Number -> SUBSET (0 .. 7)]
      /\ \A c : (IF c THEN x.group \ x.number_mask[t] ELSE x.group) \in SUBSET Number
  BY <1>1 DEF KernelState
<1>6. ClearReadyBit(x, t) \in KernelState
  BY <1>5 DEF ClearReadyBit, KernelState
<1> QED BY <1>4, <1>6

\* rt_list_remove, by the fields the scheduler reads.
LEMMA ListRemoveSame ==
    ASSUME NEW x \in KernelState, NEW y \in KernelState, SameSched(x, y), NEW t \in Thread
    PROVE  SameSched(rt_list_remove(x, t), rt_list_remove(y, t))
BY DEF SameSched, rt_list_remove, KernelState

\* rt_schedule_insert_thread, by the fields the scheduler reads.
LEMMA InsertSame ==
    ASSUME NEW x \in KernelState, NEW y \in KernelState, SameSched(x, y), NEW t \in Thread
    PROVE  SameSched(rt_schedule_insert_thread(x, t), rt_schedule_insert_thread(y, t))
BY DEF SameSched, rt_schedule_insert_thread, KernelState

\* ClearReadyBit, by the fields the scheduler reads.
LEMMA ClearSame ==
    ASSUME NEW x \in KernelState, NEW y \in KernelState, SameSched(x, y), NEW t \in Thread
    PROVE  SameSched(ClearReadyBit(x, t), ClearReadyBit(y, t))
BY DEF SameSched, ClearReadyBit, KernelState

\* Fields that inserting and clearing leave alone.
LEMMA InsertFields ==
    ASSUME NEW x \in KernelState, NEW t \in Thread
    PROVE  /\ LET r == rt_schedule_insert_thread(x, t) IN
              /\ r.stat = [x.stat EXCEPT ![t] = "READY"]
              /\ r.prio = x.prio /\ r.number = x.number /\ r.number_mask = x.number_mask
              /\ r.high_mask = x.high_mask /\ r.error = x.error /\ r.wait = x.wait
              /\ r.timer = x.timer /\ r.cur = x.cur /\ r.lock = x.lock
           /\ LET r == ClearReadyBit(x, t) IN
              /\ r.stat = x.stat /\ r.ready = x.ready
              /\ r.prio = x.prio /\ r.number = x.number /\ r.number_mask = x.number_mask
              /\ r.high_mask = x.high_mask /\ r.error = x.error /\ r.wait = x.wait
              /\ r.timer = x.timer /\ r.cur = x.cur /\ r.lock = x.lock
BY DEF rt_schedule_insert_thread, ClearReadyBit, KernelState

\* rt_schedule_remove_thread: the type, the fields it leaves alone, and that it
\* does the same to two states that agree.
LEMMA RemoveFields ==
    ASSUME NEW x \in KernelState, NoDuplicates(x), NEW t \in Thread
    PROVE  LET r == rt_schedule_remove_thread(x, t) IN
           /\ r \in KernelState
           /\ \A q \in Queue : /\ ToSet(r.wait[q]) = ToSet(x.wait[q]) \ {t}
                               /\ IsInjective(r.wait[q])
                               /\ t \notin ToSet(x.wait[q]) => r.wait[q] = x.wait[q]
           /\ r.stat = x.stat /\ r.prio = x.prio /\ r.number = x.number
           /\ r.number_mask = x.number_mask /\ r.high_mask = x.high_mask
           /\ r.error = x.error /\ r.timer = x.timer /\ r.cur = x.cur /\ r.lock = x.lock
<1> DEFINE l == rt_list_remove(x, t)
           c == ClearReadyBit(l, t)
<1>1. /\ l \in KernelState /\ NoDuplicates(l)
      /\ \A q \in Queue : ToSet(l.wait[q]) = ToSet(x.wait[q]) \ {t}
      /\ \A q \in Queue : t \notin ToSet(x.wait[q]) => l.wait[q] = x.wait[q]
      /\ l.stat = x.stat /\ l.prio = x.prio /\ l.number = x.number
      /\ l.number_mask = x.number_mask /\ l.high_mask = x.high_mask
      /\ l.error = x.error /\ l.timer = x.timer /\ l.cur = x.cur /\ l.lock = x.lock
  BY ListRemoveFields, SMTT(60)
<1> HIDE DEF l
<1>2. /\ c \in KernelState /\ c.wait = l.wait
      /\ c.stat = l.stat /\ c.prio = l.prio /\ c.number = l.number
      /\ c.number_mask = l.number_mask /\ c.high_mask = l.high_mask
      /\ c.error = l.error /\ c.timer = l.timer /\ c.cur = l.cur /\ c.lock = l.lock
  BY <1>1, InsertTyped, InsertFields
<1>3. rt_schedule_remove_thread(x, t) = IF l.ready[x.prio[t]] = << >> THEN c ELSE l
  BY DEF rt_schedule_remove_thread, l
<1>4. \A q \in Queue : IsInjective(l.wait[q])
  BY <1>1 DEF NoDuplicates
<1> HIDE DEF c
<1> QED BY <1>1, <1>2, <1>3, <1>4

\* rt_schedule_remove_thread, by the fields the scheduler reads.
LEMMA RemoveSame ==
    ASSUME NEW x \in KernelState, NEW y \in KernelState, SameSched(x, y), NEW t \in Thread,
           NoDuplicates(x), NoDuplicates(y)
    PROVE  SameSched(rt_schedule_remove_thread(x, t), rt_schedule_remove_thread(y, t))
<1> DEFINE lx == rt_list_remove(x, t)
           ly == rt_list_remove(y, t)
<1>1. lx \in KernelState /\ ly \in KernelState
  BY ListRemoveFields
<1>2. SameSched(lx, ly)
  BY ListRemoveSame
<1>3. SameSched(ClearReadyBit(lx, t), ClearReadyBit(ly, t))
  BY <1>1, <1>2, ClearSame
<1>4. lx.ready = ly.ready /\ x.prio = y.prio
  BY <1>2 DEF SameSched
<1> HIDE DEF lx, ly
<1> QED BY <1>2, <1>3, <1>4 DEF rt_schedule_remove_thread, lx, ly

-----------------------------------------------------------------------------
(* The operators on a core with dead and deleted threads in it.            *)

\* A change of fields the scheduler does not read keeps the core consistent, and
\* so does the death of a thread that is in no ready list.
LEMMA CoreFrame ==
    ASSUME NEW s, NEW F, CoreOK(s, F), NEW r \in KernelState, NEW G, SameSched(r, s),
           WaitDistinct(r), TimersSuspended(r),
           \A t \in Thread : \/ Seen(r, G)[t] = Seen(s, F)[t]
                             \/ Seen(s, F)[t] # "READY" /\ Seen(r, G)[t] = "INIT"
    PROVE  CoreOK(r, G)
<1>1. /\ s \in KernelState /\ KernelOK(View(s, F)) /\ MasksSane(s)
  BY DEF CoreOK
<1>2. SameSched(View(s, F), s) /\ View(s, F).stat = Seen(s, F)
  BY <1>1, ViewTyped
<1>3. SameSched(r, View(s, F))
  BY <1>2 DEF SameSched
<1>4. MasksSane(r)
  BY <1>1 DEF MasksSane, SameSched
<1> QED BY <1>1, <1>2, <1>3, <1>4, ViewFrame

\* The threads that are seen do not change with fields other than stat.
LEMMA SeenSame ==
    ASSUME NEW s, NEW r, r.stat = s.stat, NEW F
    PROVE  Seen(r, F) = Seen(s, F)
BY DEF Seen

\* What a step leaves to be said of the fields the clients look at.
Keeps(s, r) == /\ r.stat = s.stat /\ r.prio = s.prio /\ r.wait = s.wait
               /\ r.timer = s.timer /\ r.error = s.error

\* t is the thread to run: ready, in a list and, if it is idle, alone.
Chosen(s, F, t) ==
    /\ t \in Thread /\ s.stat[t] = "READY" /\ t \notin F
    /\ \A u \in Thread : s.stat[u] = "READY" /\ u \notin F => s.prio[t] <= s.prio[u]

\* rt_schedule switches to a thread that is alive and in a ready list.
LEMMA CoreSchedule ==
    ASSUME NEW s, NEW F, CoreOK(s, F)
    PROVE  LET r == rt_schedule(s) IN
           /\ CoreOK(r, F) /\ Keeps(s, r) /\ r.lock = s.lock
           /\ s.lock # 0 => r.cur = s.cur
           /\ s.lock = 0 => Chosen(r, F, r.cur)
<1> DEFINE w == View(s, F)
           r == rt_schedule(s)
           rw == rt_schedule(w)
<1>1. /\ s \in KernelState /\ KernelOK(w) /\ WaitDistinct(s) /\ TimersSuspended(s)
  BY DEF CoreOK
<1>2. /\ w \in KernelState /\ SameSched(w, s) /\ w.stat = Seen(s, F)
      /\ w.cur = s.cur /\ w.lock = s.lock
      /\ \A t \in Thread : Seen(s, F)[t] =
            IF s.stat[t] = "CLOSE" THEN "INIT"
            ELSE IF t \in F /\ s.stat[t] = "READY" THEN "SUSPEND" ELSE s.stat[t]
  BY <1>1, ViewTyped
<1>3. /\ KernelOK(rw) /\ rw.stat = w.stat /\ rw.prio = w.prio
      /\ w.lock = 0 => CurIsHighest(rw)
  BY <1>1, ScheduleOK
<1>4. HighestReady(w) = HighestReady(s)
  BY <1>2 DEF HighestReady, SameSched
<1>5. rw.cur = r.cur
  <2>1. CASE s.lock = 0
    <3>1. rw.cur = Head(w.ready[HighestReady(w)])
      BY <1>2, <2>1 DEF rt_schedule, KernelState
    <3>2. r.cur = Head(s.ready[HighestReady(s)])
      BY <1>1, <2>1 DEF rt_schedule, KernelState
    <3> QED BY <1>2, <1>4, <3>1, <3>2 DEF SameSched
  <2>2. CASE s.lock # 0
    BY <1>2, <2>2 DEF rt_schedule
  <2> QED BY <2>1, <2>2
<1>6. r.cur \in Thread
  BY <1>3, <1>5 DEF KernelOK, KernelState
<1>7. /\ Keeps(s, r) /\ r.lock = s.lock /\ SameSched(r, s)
      /\ s.lock # 0 => r.cur = s.cur
  BY <1>1 DEF rt_schedule, KernelState, Keeps, SameSched
<1>8. r \in KernelState
  <2>1. r = IF s.lock = 0 THEN [s EXCEPT !.cur = r.cur] ELSE s
    BY <1>1 DEF rt_schedule, KernelState
  <2>2. \A c \in Thread : [s EXCEPT !.cur = c] \in KernelState
    BY <1>1 DEF KernelState
  <2> QED BY <1>1, <1>6, <2>1, <2>2
<1> HIDE DEF r, rw
<1>9. CoreOK(r, F)
  <2>1. Seen(r, F) = Seen(s, F)
    BY <1>7, SeenSame DEF Keeps
  <2>2. WaitDistinct(r) /\ TimersSuspended(r)
    BY <1>1, <1>7 DEF WaitDistinct, TimersSuspended, Keeps
  <2> QED BY <1>7, <1>8, <2>1, <2>2, CoreFrame
<1>10. ASSUME s.lock = 0 PROVE Chosen(r, F, r.cur)
  <2>1. /\ w.stat[r.cur] = "READY"
        /\ \A u \in Thread : w.stat[u] = "READY" => w.prio[r.cur] <= w.prio[u]
    BY <1>2, <1>3, <1>5, <1>10 DEF CurIsHighest
  <2> QED BY <1>2, <1>6, <1>7, <2>1 DEF Chosen, Keeps, SameSched
<1> QED BY <1>7, <1>9, <1>10 DEF r

\* rt_schedule_remove_thread on a ready thread: it is off the lists.
LEMMA CoreRemove ==
    ASSUME NEW s, NEW F, CoreOK(s, F), NEW t \in Thread \ {Idle},
           s.stat[t] = "READY", t \notin F, \A q \in Queue : t \notin ToSet(s.wait[q])
    PROVE  LET r == rt_schedule_remove_thread(s, t) IN
           /\ CoreOK(r, F \cup {t}) /\ r.stat = s.stat /\ r.prio = s.prio
           /\ \A q \in Queue : r.wait[q] = s.wait[q]
           /\ r.timer = s.timer /\ r.error = s.error
           /\ r.cur = s.cur /\ r.lock = s.lock
<1> DEFINE w == View(s, F)
           r == rt_schedule_remove_thread(s, t)
           v == rt_thread_suspend(w, t)
<1>1. /\ s \in KernelState /\ KernelOK(w) /\ WaitDistinct(s) /\ TimersSuspended(s) /\ MasksSane(s)
  BY DEF CoreOK
<1>2. /\ w \in KernelState /\ SameSched(w, s) /\ w.stat = Seen(s, F)
      /\ \A u \in Thread : Seen(s, F)[u] =
            IF s.stat[u] = "CLOSE" THEN "INIT"
            ELSE IF u \in F /\ s.stat[u] = "READY" THEN "SUSPEND" ELSE s.stat[u]
  BY <1>1, ViewTyped
<1>3. NoDuplicates(s) /\ NoDuplicates(w)
  BY <1>1, CoreFacts DEF KernelOK, KernelInv
<1>4. /\ r \in KernelState
      /\ \A q \in Queue : IsInjective(r.wait[q]) /\ r.wait[q] = s.wait[q]
      /\ r.stat = s.stat /\ r.prio = s.prio /\ r.number = s.number
      /\ r.number_mask = s.number_mask /\ r.high_mask = s.high_mask
      /\ r.error = s.error /\ r.timer = s.timer /\ r.cur = s.cur /\ r.lock = s.lock
  BY <1>1, <1>3, RemoveFields
<1>5. w.stat[t] = "READY"
  BY <1>2
<1>6. KernelOK(v) /\ v.stat = [w.stat EXCEPT ![t] = "SUSPEND"]
  BY <1>1, <1>5, SuspendOK
<1>7. SameSched(r, v)
  <2>1. SameSched(rt_schedule_remove_thread(w, t), r)
    BY <1>1, <1>2, <1>3, RemoveSame
  <2>2. rt_schedule_remove_thread(w, t) \in KernelState
    BY <1>2, <1>3, RemoveFields
  <2>3. SameSched(v, rt_schedule_remove_thread(w, t))
    <3>1. \A x \in KernelState : SameSched([x EXCEPT !.stat[t] = "SUSPEND", !.timer = @ \ {t}], x)
      BY DEF SameSched, KernelState
    <3> QED BY <1>5, <2>2, <3>1 DEF rt_thread_suspend, SuspendNow
  <2> QED BY <2>1, <2>3 DEF SameSched
<1> HIDE DEF r, v
<1>8. \A u \in Thread : Seen(r, F \cup {t})[u] = v.stat[u]
  <2>1. \A u \in Thread : Seen(r, F \cup {t})[u] =
            IF r.stat[u] = "CLOSE" THEN "INIT"
            ELSE IF u \in F \cup {t} /\ r.stat[u] = "READY" THEN "SUSPEND" ELSE r.stat[u]
    BY <1>4, ViewTyped
  <2>2. w.stat \in [Thread -> Stat]
    BY <1>2 DEF KernelState
  <2> QED BY <1>2, <1>4, <1>6, <2>1, <2>2
<1>9. MasksSane(r) /\ WaitDistinct(r) /\ TimersSuspended(r)
  BY <1>1, <1>4 DEF MasksSane, WaitDistinct, TimersSuspended
<1>10. CoreOK(r, F \cup {t})
  <2> DEFINE G == F \cup {t}
  <2>1. r \in KernelState /\ KernelOK(v)
    BY <1>4, <1>6
  <2>2. \A u \in Thread : \/ Seen(r, G)[u] = v.stat[u]
                          \/ v.stat[u] # "READY" /\ Seen(r, G)[u] = "INIT"
    BY <1>8
  <2> HIDE DEF G
  <2>3. CoreOK(r, G)
    BY ONLY <1>7, <1>9, <2>1, <2>2, ViewFrame
  <2> QED BY <2>3 DEF G
<1> QED BY <1>4, <1>10 DEF r

\* rt_schedule_remove_thread on a thread that is in no ready list changes the
\* list of the dead and nothing else: the bit it clears is clear.
LEMMA RemoveUnlisted ==
    ASSUME NEW s, NEW F, CoreOK(s, F), NEW t \in Thread, s.stat[t] # "READY" \/ t \in F
    PROVE  SameSched(rt_schedule_remove_thread(s, t), s)
<1> DEFINE l == rt_list_remove(s, t)
           c == ClearReadyBit(l, t)
           n == s.number[t]
<1>1. /\ s \in KernelState /\ NoDuplicates(s) /\ BitmapExact(s) /\ MasksSane(s)
      /\ \A p \in Prio : t \notin ToSet(s.ready[p])
  BY CoreFacts DEF CoreOK
<1>2. /\ l \in KernelState
      /\ \A p \in Prio : l.ready[p] = s.ready[p]
      /\ l.prio = s.prio /\ l.number = s.number
      /\ l.number_mask = s.number_mask /\ l.high_mask = s.high_mask
      /\ l.table = s.table /\ l.group = s.group
  BY <1>1, ListRemoveFields
<1>3. SameSched(l, s)
  BY <1>1, <1>2 DEF SameSched, KernelState
<1>4. ASSUME s.ready[s.prio[t]] = << >> PROVE SameSched(c, s)
  <2>1. /\ c.prio = l.prio /\ c.number = l.number /\ c.ready = l.ready
        /\ c.number_mask = l.number_mask /\ c.high_mask = l.high_mask
    BY <1>2, InsertFields
  <2>2. n \in Number /\ s.prio[t] \in Prio
    BY <1>1 DEF KernelState
  <2>3. s.high_mask[t] \cap s.table[n] = {}
    <3>1. HighOf(s.prio[t]) \notin s.table[NumberOf(s.prio[t])]
      BY <1>1, <1>4, <2>2 DEF BitmapExact
    <3> QED BY <1>1, <3>1 DEF MasksSane
  <2>4. [s.table EXCEPT ![n] = @ \ s.high_mask[t]] = s.table
    BY <1>1, <2>2, <2>3 DEF KernelState
  <2>5. s.table[n] = {} => s.group \ s.number_mask[t] = s.group
    <3>1. s.table[n] = {} => n \notin s.group
      BY <1>1, <2>2 DEF BitmapExact
    <3>2. s.number_mask[t] = {} \/ s.number_mask[t] = {n}
      BY <1>1 DEF MasksSane
    <3> QED BY <3>1, <3>2
  <2>6. c.table = s.table
    <3>1. c.table = [l.table EXCEPT ![l.number[t]] = @ \ l.high_mask[t]]
      BY <1>2 DEF ClearReadyBit, KernelState
    <3> QED BY <1>2, <2>4, <3>1
  <2>7. c.group = s.group
    <3>1. c.group = IF [l.table EXCEPT ![l.number[t]] = @ \ l.high_mask[t]][l.number[t]] = {}
                      THEN l.group \ l.number_mask[t] ELSE l.group
      BY <1>2 DEF ClearReadyBit, KernelState
    <3> QED BY <1>2, <2>4, <2>5, <3>1
  <2> QED BY <1>3, <2>1, <2>6, <2>7 DEF SameSched
<1>5. l.ready[s.prio[t]] = s.ready[s.prio[t]]
  BY <1>1, <1>2 DEF KernelState
<1> HIDE DEF c, l
<1> QED BY <1>3, <1>4, <1>5 DEF rt_schedule_remove_thread, c, l

\* rt_schedule_remove_thread on a dead thread, on rt_thread_defunct or not.
LEMMA CoreRemoveDead ==
    ASSUME NEW s, NEW F, CoreOK(s, F), NEW t \in Thread, s.stat[t] = "CLOSE"
    PROVE  LET r == rt_schedule_remove_thread(s, t) IN
           /\ CoreOK(r, F \cup {t}) /\ r.stat = s.stat /\ r.prio = s.prio
           /\ \A q \in Queue : ToSet(r.wait[q]) = ToSet(s.wait[q]) \ {t}
           /\ r.timer = s.timer /\ r.error = s.error
           /\ r.cur = s.cur /\ r.lock = s.lock
<1> DEFINE r == rt_schedule_remove_thread(s, t)
           G == F \cup {t}
<1>1. s \in KernelState /\ NoDuplicates(s) /\ TimersSuspended(s)
  BY CoreFacts DEF CoreOK
<1>2. /\ r \in KernelState
      /\ \A q \in Queue : IsInjective(r.wait[q]) /\ ToSet(r.wait[q]) = ToSet(s.wait[q]) \ {t}
      /\ r.stat = s.stat /\ r.prio = s.prio
      /\ r.error = s.error /\ r.timer = s.timer /\ r.cur = s.cur /\ r.lock = s.lock
  BY <1>1, RemoveFields
<1>3. SameSched(r, s)
  BY RemoveUnlisted
<1> HIDE DEF r
<1>4. \A u \in Thread : Seen(r, G)[u] = Seen(s, F)[u]
  BY <1>2 DEF Seen
<1>5. WaitDistinct(r) /\ TimersSuspended(r)
  BY <1>1, <1>2 DEF WaitDistinct, TimersSuspended
<1> HIDE DEF G
<1>6. CoreOK(r, G)
  BY ONLY CoreOK(s, F), <1>2, <1>3, <1>4, <1>5, CoreFrame
<1> QED BY <1>2, <1>6 DEF r, G

\* What rt_thread_suspend does after its test, to a thread that may have been
\* suspended since.
LEMMA CoreSuspend ==
    ASSUME NEW s, NEW F, CoreOK(s, F), NEW t \in Thread \ {Idle},
           s.stat[t] \in {"READY", "SUSPEND"}, t \notin F,
           \A q \in Queue : t \notin ToSet(s.wait[q])
    PROVE  LET r == SuspendNow(s, t) IN
           /\ CoreOK(r, F) /\ r.stat = [s.stat EXCEPT ![t] = "SUSPEND"] /\ r.prio = s.prio
           /\ \A q \in Queue : r.wait[q] = s.wait[q]
           /\ r.timer = s.timer \ {t} /\ r.error = s.error
           /\ r.cur = s.cur /\ r.lock = s.lock
<1> DEFINE m == rt_schedule_remove_thread(s, t)
           r == SuspendNow(s, t)
           G == F \cup {t}
<1>1. s \in KernelState /\ NoDuplicates(s) /\ TimersSuspended(s)
  BY CoreFacts DEF CoreOK
<1>2. /\ m \in KernelState
      /\ \A q \in Queue : IsInjective(m.wait[q]) /\ m.wait[q] = s.wait[q]
      /\ m.stat = s.stat /\ m.prio = s.prio
      /\ m.error = s.error /\ m.timer = s.timer /\ m.cur = s.cur /\ m.lock = s.lock
  BY <1>1, RemoveFields
<1>3. CoreOK(m, G)
  <2>1. CASE s.stat[t] = "READY"
    BY <2>1, CoreRemove
  <2>2. CASE s.stat[t] = "SUSPEND"
    <3>1. SameSched(m, s)
      BY <2>2, RemoveUnlisted
    <3> HIDE DEF m
    <3>2. \A u \in Thread : Seen(m, G)[u] = Seen(s, F)[u]
      BY <1>2, <2>2 DEF Seen
    <3>3. WaitDistinct(m) /\ TimersSuspended(m)
      BY <1>1, <1>2 DEF WaitDistinct, TimersSuspended
    <3> HIDE DEF G
    <3> QED BY ONLY CoreOK(s, F), <1>2, <3>1, <3>2, <3>3, CoreFrame
  <2> QED BY <2>1, <2>2
<1> HIDE DEF m
<1>4. /\ r \in KernelState /\ SameSched(r, m)
      /\ r.stat = [m.stat EXCEPT ![t] = "SUSPEND"] /\ r.timer = m.timer \ {t}
      /\ r.wait = m.wait /\ r.error = m.error /\ r.prio = m.prio
      /\ r.cur = m.cur /\ r.lock = m.lock
  <2>1. \A x \in KernelState : LET y == [x EXCEPT !.stat[t] = "SUSPEND", !.timer = @ \ {t}] IN
           /\ y \in KernelState /\ SameSched(y, x)
           /\ y.stat = [x.stat EXCEPT ![t] = "SUSPEND"] /\ y.timer = x.timer \ {t}
           /\ y.wait = x.wait /\ y.error = x.error /\ y.prio = x.prio
           /\ y.cur = x.cur /\ y.lock = x.lock
    BY DEF SameSched, KernelState, Stat
  <2> QED BY <1>2, <2>1 DEF SuspendNow, m
<1> HIDE DEF r
<1>5. \A u \in Thread : Seen(r, F)[u] = Seen(m, G)[u]
  <2>1. m.stat \in [Thread -> Stat]
    BY <1>2 DEF KernelState
  <2> QED BY <1>2, <1>4, <2>1 DEF Seen
<1>6. WaitDistinct(r) /\ TimersSuspended(r)
  <2>1. m.stat \in [Thread -> Stat] /\ m.timer \subseteq Thread
    BY <1>2 DEF KernelState
  <2> QED BY <1>1, <1>2, <1>4, <2>1 DEF WaitDistinct, TimersSuspended
<1> HIDE DEF G
<1>7. CoreOK(r, F)
  BY ONLY <1>3, <1>4, <1>5, <1>6, CoreFrame
<1> QED BY <1>2, <1>4, <1>7 DEF r

\* Moving a ready thread to the end of its ready list, bits untouched, is what
\* a change to its own priority does.
LEMMA RequeueSame ==
    ASSUME NEW w, KernelOK(w), NEW t \in Thread \ {Idle}, w.stat[t] = "READY",
           NEW x \in KernelState, SameSched(x, w), NoDuplicates(x)
    PROVE  SameSched(ResumeNow(x, t), ChangePriority(w, t, w.prio[t]))
<1> DEFINE p == w.prio[t]
           n == NumberOf(p)
           l == [rt_list_remove(x, t) EXCEPT !.timer = @ \ {t}]
           f == rt_schedule_remove_thread(w, t)
           g == SetPriority(f, t, p)
<1>1. /\ w \in KernelState /\ NoDuplicates(w)
      /\ w.number[t] = n /\ w.number_mask[t] = {n} /\ w.high_mask[t] = {HighOf(p)}
      /\ p \in Prio /\ n \in Number
  BY PriorityBits DEF KernelOK, KernelInv, MasksCurrent, KernelState
<1>2. /\ f \in KernelState /\ f.prio = w.prio /\ f.number = w.number
      /\ f.number_mask = w.number_mask /\ f.high_mask = w.high_mask
  BY <1>1, RemoveFields
<1>3. f.ready = [q \in Prio |-> RemoveFirst(w.ready[q], t)]
  <2> DEFINE lw == rt_list_remove(w, t)
  <2>1. lw \in KernelState
    BY <1>1, ListRemoveFields
  <2>2. lw.ready = [q \in Prio |-> RemoveFirst(w.ready[q], t)]
    BY <1>1 DEF rt_list_remove, KernelState
  <2>3. ClearReadyBit(lw, t).ready = lw.ready
    BY <2>1, InsertFields
  <2> HIDE DEF lw
  <2> QED BY <2>2, <2>3 DEF rt_schedule_remove_thread, lw
<1>4. /\ f.table = w.table /\ f.group = w.group
      \/ /\ f.table = [w.table EXCEPT ![n] = @ \ {HighOf(p)}]
         /\ f.group \in {w.group, w.group \ {n}}
  <2> DEFINE lw == rt_list_remove(w, t)
             c == ClearReadyBit(lw, t)
  <2>1. /\ lw \in KernelState /\ lw.table = w.table /\ lw.group = w.group
        /\ lw.number = w.number /\ lw.number_mask = w.number_mask /\ lw.high_mask = w.high_mask
    BY <1>1, ListRemoveFields
  <2> HIDE DEF lw
  <2>2. /\ c.table = [lw.table EXCEPT ![lw.number[t]] = @ \ lw.high_mask[t]]
        /\ c.group \in {lw.group, lw.group \ lw.number_mask[t]}
    BY <2>1 DEF ClearReadyBit, KernelState
  <2> HIDE DEF c
  <2>3. f \in {c, lw}
    BY DEF rt_schedule_remove_thread, lw, c
  <2> QED BY <1>1, <2>1, <2>2, <2>3
<1> HIDE DEF f
<1>5. /\ g \in KernelState /\ g.prio = w.prio /\ g.number = w.number
      /\ g.number_mask = w.number_mask /\ g.high_mask = w.high_mask
      /\ g.ready = f.ready /\ g.table = f.table /\ g.group = f.group
  <2>1. [w.prio EXCEPT ![t] = p] = w.prio /\ [w.number EXCEPT ![t] = n] = w.number
    BY <1>1 DEF KernelState
  <2>2. /\ [w.number_mask EXCEPT ![t] = {n}] = w.number_mask
        /\ [w.high_mask EXCEPT ![t] = {HighOf(p)}] = w.high_mask
    BY <1>1 DEF KernelState
  <2>3. /\ g.prio = [f.prio EXCEPT ![t] = p] /\ g.number = [f.number EXCEPT ![t] = n]
        /\ g.number_mask = [f.number_mask EXCEPT ![t] = {n}]
        /\ g.high_mask = [f.high_mask EXCEPT ![t] = {HighOf(p)}]
        /\ g.ready = f.ready /\ g.table = f.table /\ g.group = f.group
    BY <1>2 DEF SetPriority, KernelState
  <2>4. g \in KernelState
    BY <1>1, <1>2, SetPriorityFields
  <2> QED BY <1>2, <2>1, <2>2, <2>3, <2>4
<1> HIDE DEF g
<1>6. /\ l \in KernelState /\ l.prio = w.prio /\ l.number = w.number
      /\ l.number_mask = w.number_mask /\ l.high_mask = w.high_mask
      /\ l.ready = f.ready /\ l.table = w.table /\ l.group = w.group
  <2> DEFINE lx == rt_list_remove(x, t)
  <2>1. /\ lx \in KernelState /\ lx.prio = x.prio /\ lx.number = x.number
        /\ lx.number_mask = x.number_mask /\ lx.high_mask = x.high_mask
        /\ lx.table = x.table /\ lx.group = x.group
    BY ListRemoveFields
  <2>2. lx.ready = [q \in Prio |-> RemoveFirst(x.ready[q], t)]
    BY DEF rt_list_remove, KernelState
  <2> HIDE DEF lx
  <2>3. \A y \in KernelState : LET z == [y EXCEPT !.timer = @ \ {t}] IN
           z \in KernelState /\ SameSched(z, y)
    BY DEF SameSched, KernelState
  <2>4. l \in KernelState /\ SameSched(l, lx)
    BY <2>1, <2>3 DEF lx
  <2> QED BY <1>3, <2>1, <2>2, <2>4 DEF SameSched
<1> HIDE DEF l
<1>7. ASSUME NEW y \in KernelState, y.prio = w.prio, y.number = w.number,
             y.number_mask = w.number_mask, y.high_mask = w.high_mask
      PROVE  LET i == rt_schedule_insert_thread(y, t) IN
             /\ i.prio = w.prio /\ i.number = w.number
             /\ i.number_mask = w.number_mask /\ i.high_mask = w.high_mask
             /\ i.ready = [y.ready EXCEPT ![p] = Append(@, t)]
             /\ i.table = [y.table EXCEPT ![n] = @ \cup {HighOf(p)}]
             /\ i.group = y.group \cup {n}
  BY <1>1, <1>7 DEF rt_schedule_insert_thread, KernelState
<1>8. /\ [g.table EXCEPT ![n] = @ \cup {HighOf(p)}] = [w.table EXCEPT ![n] = @ \cup {HighOf(p)}]
      /\ g.group \cup {n} = w.group \cup {n}
  <2>1. w.table \in [Number -> SUBSET (0 .. 7)]
    BY <1>1 DEF KernelState
  <2> QED BY <1>1, <1>4, <1>5, <2>1
<1>9. SameSched(rt_schedule_insert_thread(l, t), rt_schedule_insert_thread(g, t))
  BY <1>5, <1>6, <1>7, <1>8, ZenonT(60) DEF SameSched
<1>10. ResumeNow(x, t) = rt_schedule_insert_thread(l, t)
  BY DEF ResumeNow, l
<1>11. ChangePriority(w, t, p) = rt_schedule_insert_thread(g, t)
  BY DEF ChangePriority, g, f
<1> QED BY <1>9, <1>10, <1>11

\* What rt_thread_resume does after its test, to a thread that may have become
\* ready since: it is ready, once.
LEMMA CoreResume ==
    ASSUME NEW s, NEW F, CoreOK(s, F), NEW t \in Thread \ {Idle},
           s.stat[t] \in {"READY", "SUSPEND"}, t \notin F,
           \A q \in Queue : t \notin ToSet(s.wait[q])
    PROVE  LET r == ResumeNow(s, t) IN
           /\ CoreOK(r, F) /\ r.stat = [s.stat EXCEPT ![t] = "READY"] /\ r.prio = s.prio
           /\ \A q \in Queue : r.wait[q] = s.wait[q]
           /\ r.timer = s.timer \ {t} /\ r.error = s.error
           /\ r.cur = s.cur /\ r.lock = s.lock
<1> DEFINE w == View(s, F)
           l == rt_list_remove(s, t)
           m == [l EXCEPT !.timer = @ \ {t}]
           r == ResumeNow(s, t)
<1>1. /\ s \in KernelState /\ NoDuplicates(s) /\ TimersSuspended(s) /\ MasksSane(s) /\ KernelOK(w)
  BY CoreFacts DEF CoreOK
<1>2. /\ w \in KernelState /\ SameSched(w, s) /\ w.stat = Seen(s, F)
      /\ \A q \in Queue : w.wait[q] = << >>
      /\ \A u \in Thread : Seen(s, F)[u] =
            IF s.stat[u] = "CLOSE" THEN "INIT"
            ELSE IF u \in F /\ s.stat[u] = "READY" THEN "SUSPEND" ELSE s.stat[u]
  BY <1>1, ViewTyped
<1>3. /\ l \in KernelState
      /\ \A q \in Queue : l.wait[q] = s.wait[q]
      /\ l.stat = s.stat /\ l.prio = s.prio /\ l.number = s.number
      /\ l.number_mask = s.number_mask /\ l.high_mask = s.high_mask
      /\ l.error = s.error /\ l.timer = s.timer /\ l.cur = s.cur /\ l.lock = s.lock
  BY <1>1, ListRemoveFields
<1> HIDE DEF l
<1>4. /\ m \in KernelState /\ SameSched(m, l)
      /\ m.stat = l.stat /\ m.timer = l.timer \ {t} /\ m.wait = l.wait
      /\ m.error = l.error /\ m.cur = l.cur /\ m.lock = l.lock
  BY <1>3 DEF SameSched, KernelState
<1> HIDE DEF m
<1>5. r = rt_schedule_insert_thread(m, t)
  BY DEF ResumeNow, m, l, r
<1> HIDE DEF r
<1>6. /\ r \in KernelState
      /\ r.stat = [m.stat EXCEPT ![t] = "READY"]
      /\ r.prio = m.prio /\ r.number = m.number /\ r.number_mask = m.number_mask
      /\ r.high_mask = m.high_mask /\ r.error = m.error /\ r.wait = m.wait
      /\ r.timer = m.timer /\ r.cur = m.cur /\ r.lock = m.lock
  <2>1. m \in KernelState /\ t \in Thread
    BY <1>4
  <2>2. /\ rt_schedule_insert_thread(m, t) \in KernelState
        /\ LET i == rt_schedule_insert_thread(m, t) IN
           /\ i.stat = [m.stat EXCEPT ![t] = "READY"]
           /\ i.prio = m.prio /\ i.number = m.number /\ i.number_mask = m.number_mask
           /\ i.high_mask = m.high_mask /\ i.error = m.error /\ i.wait = m.wait
           /\ i.timer = m.timer /\ i.cur = m.cur /\ i.lock = m.lock
    BY ONLY <2>1, InsertTyped, InsertFields
  <2> QED BY <1>5, <2>2
<1>7. /\ r.stat = [s.stat EXCEPT ![t] = "READY"] /\ r.prio = s.prio
      /\ r.number = s.number /\ r.number_mask = s.number_mask /\ r.high_mask = s.high_mask
      /\ \A q \in Queue : r.wait[q] = s.wait[q]
      /\ r.timer = s.timer \ {t} /\ r.error = s.error
      /\ r.cur = s.cur /\ r.lock = s.lock
  BY <1>3, <1>4, <1>6 DEF SameSched
<1>8. MasksSane(r) /\ WaitDistinct(r) /\ TimersSuspended(r)
  <2>1. s.stat \in [Thread -> Stat] /\ s.timer \subseteq Thread
    BY <1>1 DEF KernelState
  <2> QED BY <1>1, <1>7, <2>1 DEF CoreOK, MasksSane, WaitDistinct, TimersSuspended
<1>9. w.stat \in [Thread -> Stat] /\ s.stat \in [Thread -> Stat]
  BY <1>1, <1>2 DEF KernelState
<1>10. \A u \in Thread : Seen(r, F)[u] = [w.stat EXCEPT ![t] = "READY"][u]
  <2>1. \A u \in Thread : Seen(r, F)[u] =
            IF r.stat[u] = "CLOSE" THEN "INIT"
            ELSE IF u \in F /\ r.stat[u] = "READY" THEN "SUSPEND" ELSE r.stat[u]
    BY <1>6, ViewTyped
  <2> QED BY <1>2, <1>7, <1>9, <2>1
<1>11. CASE s.stat[t] = "READY"
  <2> DEFINE v == ChangePriority(w, t, w.prio[t])
  <2>1. w.stat[t] = "READY" /\ w.prio[t] \in Prio
    BY <1>2, <1>11 DEF KernelState
  <2>2. SameSched(s, w)
    BY <1>2 DEF SameSched
  <2>3. SameSched(r, v)
    BY <1>1, <2>1, <2>2, RequeueSame DEF r
  <2>4. KernelOK(v) /\ v.stat = w.stat
    BY <1>1, <2>1, ChangePriorityOK
  <2> HIDE DEF v, r
  <2>5. \A u \in Thread : \/ Seen(r, F)[u] = v.stat[u]
                          \/ v.stat[u] # "READY" /\ Seen(r, F)[u] = "INIT"
    BY <1>9, <1>10, <2>1, <2>4
  <2>6. CoreOK(r, F)
    BY ONLY <1>6, <1>8, <2>3, <2>4, <2>5, ViewFrame
  <2> QED BY <1>7, <2>6 DEF r
<1>12. CASE s.stat[t] = "SUSPEND"
  <2> DEFINE v == rt_thread_resume(w, t)
             lw == rt_list_remove(w, t)
             mw == [lw EXCEPT !.timer = @ \ {t}]
  <2>1. w.stat[t] = "SUSPEND"
    BY <1>2, <1>12
  <2>2. KernelOK(v) /\ v.stat = [w.stat EXCEPT ![t] = "READY"]
    BY <1>1, <2>1, ResumeOK
  <2>3. lw \in KernelState
    BY <1>1, ListRemoveFields DEF KernelOK, KernelInv
  <2>4. SameSched(lw, l)
    BY <1>1, <1>2, ListRemoveSame DEF l
  <2> HIDE DEF lw
  <2>5. mw \in KernelState /\ SameSched(mw, lw)
    BY <2>3 DEF SameSched, KernelState
  <2> HIDE DEF mw
  <2>6. SameSched(m, mw)
    BY <1>4, <2>4, <2>5 DEF SameSched
  <2>7. SameSched(rt_schedule_insert_thread(m, t), rt_schedule_insert_thread(mw, t))
    BY <1>4, <2>5, <2>6, InsertSame
  <2>8. v = rt_schedule_insert_thread(mw, t)
    BY <2>1 DEF rt_thread_resume, ResumeNow, mw, lw
  <2>9. SameSched(r, v)
    BY <1>5, <2>7, <2>8
  <2> HIDE DEF v, r
  <2>10. \A u \in Thread : \/ Seen(r, F)[u] = v.stat[u]
                           \/ v.stat[u] # "READY" /\ Seen(r, F)[u] = "INIT"
    BY <1>10, <2>2
  <2>11. CoreOK(r, F)
    <3>1. r \in KernelState /\ KernelOK(v)
      BY <1>6, <2>2
    <3> QED BY ONLY <1>8, <2>9, <2>10, <3>1, ViewFrame
  <2> QED BY <1>7, <2>11 DEF r
<1> QED BY <1>11, <1>12

\* The thread timer expires: the thread is ready and the scheduler runs.
LEMMA CoreTimeout ==
    ASSUME NEW s, NEW F, CoreOK(s, F), NEW t \in s.timer, t \notin F,
           \A q \in Queue : t \notin ToSet(s.wait[q])
    PROVE  LET r == rt_thread_timeout(s, t) IN
           /\ CoreOK(r, F) /\ r.stat = [s.stat EXCEPT ![t] = "READY"] /\ r.prio = s.prio
           /\ \A q \in Queue : r.wait[q] = s.wait[q]
           /\ r.timer = s.timer \ {t} /\ r.lock = s.lock
           /\ s.lock # 0 => r.cur = s.cur
           /\ s.lock = 0 => Chosen(r, F, r.cur)
<1> DEFINE e == [s EXCEPT !.timer = @ \ {t}, !.error[t] = "ETIMEOUT"]
           i == rt_schedule_insert_thread(rt_list_remove(e, t), t)
           m == ResumeNow(s, t)
           r == rt_thread_timeout(s, t)
<1>1. /\ s \in KernelState /\ t \in Thread /\ s.stat[t] = "SUSPEND" /\ t # Idle
  BY CoreFacts DEF CoreOK, TimersSuspended, KernelState
<1>2. /\ CoreOK(m, F) /\ m.stat = [s.stat EXCEPT ![t] = "READY"] /\ m.prio = s.prio
      /\ \A q \in Queue : m.wait[q] = s.wait[q]
      /\ m.timer = s.timer \ {t} /\ m.error = s.error
      /\ m.cur = s.cur /\ m.lock = s.lock
  BY <1>1, CoreResume
<1>3. m \in KernelState
  BY <1>2 DEF CoreOK
<1>4. /\ e \in KernelState /\ NoDuplicates(e) /\ SameSched(e, s)
      /\ e.stat = s.stat /\ e.wait = s.wait /\ e.timer = s.timer \ {t}
      /\ e.cur = s.cur /\ e.lock = s.lock
  <2>1. [s.error EXCEPT ![t] = "ETIMEOUT"] \in [Thread -> Error]
    BY <1>1 DEF KernelState, Error
  <2>2. /\ e \in KernelState /\ SameSched(e, s)
        /\ e.stat = s.stat /\ e.wait = s.wait /\ e.timer = s.timer \ {t}
        /\ e.cur = s.cur /\ e.lock = s.lock
    BY <1>1, <2>1 DEF SameSched, KernelState
  <2>3. NoDuplicates(s)
    BY CoreFacts
  <2> QED BY <2>2, <2>3 DEF NoDuplicates, SameSched
<1> HIDE DEF e
<1>5. /\ i \in KernelState /\ SameSched(i, m)
      /\ i.stat = m.stat /\ i.prio = m.prio /\ i.timer = m.timer
      /\ \A q \in Queue : i.wait[q] = m.wait[q]
      /\ i.cur = m.cur /\ i.lock = m.lock
  <2> DEFINE le == rt_list_remove(e, t)
             ls == rt_list_remove(s, t)
             ms == [ls EXCEPT !.timer = @ \ {t}]
  <2>1. /\ le \in KernelState /\ le.stat = e.stat /\ le.timer = e.timer
        /\ \A q \in Queue : le.wait[q] = e.wait[q]
        /\ le.cur = e.cur /\ le.lock = e.lock
    BY <1>1, <1>4, ListRemoveFields
  <2>2. ls \in KernelState
    BY <1>1, CoreFacts, ListRemoveFields
  <2>3. SameSched(le, ls)
    BY <1>1, <1>4, ListRemoveSame
  <2> HIDE DEF le, ls
  <2>4. ms \in KernelState /\ SameSched(ms, ls)
    BY <2>2 DEF SameSched, KernelState
  <2> HIDE DEF ms
  <2>5. SameSched(le, ms)
    BY <2>3, <2>4 DEF SameSched
  <2>6. SameSched(rt_schedule_insert_thread(le, t), rt_schedule_insert_thread(ms, t))
    BY <1>1, <2>1, <2>4, <2>5, InsertSame
  <2>7. m = rt_schedule_insert_thread(ms, t) /\ i = rt_schedule_insert_thread(le, t)
    BY DEF ResumeNow, ms, ls, le
  <2>8. LET j == rt_schedule_insert_thread(le, t) IN
        /\ j \in KernelState /\ j.stat = [le.stat EXCEPT ![t] = "READY"]
        /\ j.wait = le.wait /\ j.timer = le.timer /\ j.cur = le.cur /\ j.lock = le.lock
    BY <1>1, <2>1, InsertTyped, InsertFields
  <2> HIDE DEF i, m
  <2>9. SameSched(i, m)
    BY <2>6, <2>7
  <2>10. /\ i \in KernelState /\ i.stat = [s.stat EXCEPT ![t] = "READY"]
         /\ i.timer = s.timer \ {t} /\ i.cur = s.cur /\ i.lock = s.lock
         /\ \A q \in Queue : i.wait[q] = s.wait[q]
    BY <1>4, <2>1, <2>7, <2>8
  <2> QED BY <1>2, <2>9, <2>10 DEF SameSched
<1> HIDE DEF m
<1>6. r = rt_schedule(i)
  BY DEF rt_thread_timeout, e
<1> HIDE DEF i, r
<1>7. CoreOK(i, F)
  <2>1. Seen(i, F) = Seen(m, F)
    BY <1>5, SeenSame
  <2>2. WaitDistinct(i) /\ TimersSuspended(i)
    BY <1>2, <1>5 DEF CoreOK, WaitDistinct, TimersSuspended
  <2> QED BY <1>2, <1>5, <2>1, <2>2, CoreFrame
<1>8. /\ CoreOK(r, F) /\ Keeps(i, r) /\ r.lock = i.lock
      /\ i.lock # 0 => r.cur = i.cur
      /\ i.lock = 0 => Chosen(r, F, r.cur)
  BY <1>6, <1>7, CoreSchedule
<1> QED BY <1>2, <1>5, <1>8 DEF Keeps, r

\* A thread that is not ready may be given another priority with its masks, and
\* another state in which it is not ready.
LEMMA CoreRenew ==
    ASSUME NEW s, NEW F, CoreOK(s, F), NEW u \in Thread, s.stat[u] # "READY",
           NEW r \in KernelState, r.ready = s.ready, r.table = s.table, r.group = s.group,
           WaitDistinct(r), MasksSane(r), TimersSuspended(r),
           \A t \in Thread \ {u} :
              /\ r.stat[t] = s.stat[t] /\ r.prio[t] = s.prio[t] /\ r.number[t] = s.number[t]
              /\ r.number_mask[t] = s.number_mask[t] /\ r.high_mask[t] = s.high_mask[t],
           r.stat[u] # "READY",
           r.stat[u] = "SUSPEND" => /\ r.number[u] = NumberOf(r.prio[u])
                                    /\ r.number_mask[u] = {NumberOf(r.prio[u])}
                                    /\ r.high_mask[u] = {HighOf(r.prio[u])}
    PROVE  CoreOK(r, F)
<1> DEFINE v == View(s, F)
           w == View(r, F)
<1>1. s \in KernelState /\ KernelInv(v)
  BY DEF CoreOK, KernelOK
<1>2. /\ SameSched(v, s) /\ v.stat = Seen(s, F)
      /\ \A t \in Thread : Seen(s, F)[t] =
            IF s.stat[t] = "CLOSE" THEN "INIT"
            ELSE IF t \in F /\ s.stat[t] = "READY" THEN "SUSPEND" ELSE s.stat[t]
  BY <1>1, ViewTyped
<1>3. /\ w \in KernelState /\ SameSched(w, r)
      /\ w.stat = Seen(r, F) /\ w.timer = r.timer
      /\ \A q \in Queue : w.wait[q] = << >>
      /\ \A t \in Thread : Seen(r, F)[t] =
            IF r.stat[t] = "CLOSE" THEN "INIT"
            ELSE IF t \in F /\ r.stat[t] = "READY" THEN "SUSPEND" ELSE r.stat[t]
  BY ViewTyped
<1>4. /\ \A t \in Thread \ {u} :
            /\ w.stat[t] = v.stat[t] /\ w.prio[t] = v.prio[t] /\ w.number[t] = v.number[t]
            /\ w.number_mask[t] = v.number_mask[t] /\ w.high_mask[t] = v.high_mask[t]
      /\ w.stat[u] # "READY" /\ v.stat[u] # "READY"
      /\ w.stat[u] = "SUSPEND" => /\ w.number[u] = NumberOf(w.prio[u])
                                  /\ w.number_mask[u] = {NumberOf(w.prio[u])}
                                  /\ w.high_mask[u] = {HighOf(w.prio[u])}
      /\ w.ready = v.ready /\ w.table = v.table /\ w.group = v.group
  BY <1>2, <1>3 DEF SameSched
<1>5. \A t \in Thread : w.stat[t] = "READY" => w.stat[t] = v.stat[t] /\ t # u
  BY <1>4
<1>6. IdleReady(w)
  BY <1>1, <1>4, ThreadAssumption DEF KernelInv, IdleReady
<1>7. NoDuplicates(w)
  <2>1. \A q \in Queue : IsInjective(w.wait[q])
    BY <1>3 DEF IsInjective
  <2> QED BY <1>1, <1>4, <2>1 DEF KernelInv, NoDuplicates
<1>8. ReadyIffListed(w)
  BY <1>1, <1>4 DEF KernelInv, ReadyIffListed
<1>9. WaitersSuspended(w)
  <2>1. \A q \in Queue : ToSet(w.wait[q]) = {}
    BY <1>3 DEF ToSet
  <2>2. \A t \in r.timer : t \in Thread /\ w.stat[t] = "SUSPEND"
    BY <1>3 DEF TimersSuspended, KernelState
  <2> QED BY <1>3, <2>1, <2>2 DEF WaitersSuspended
<1>10. BitmapExact(w)
  BY <1>1, <1>4 DEF KernelInv, BitmapExact
<1>11. MasksCurrent(w)
  BY <1>1, <1>4 DEF KernelInv, MasksCurrent
<1>12. KernelOK(w)
  BY <1>3, <1>6, <1>7, <1>8, <1>9, <1>10, <1>11 DEF KernelOK, KernelInv
<1> QED BY <1>12 DEF CoreOK

\* rt_thread_startup: a created thread is ready, at the priority it was created with.
LEMMA CoreStart ==
    ASSUME NEW s, NEW F, CoreOK(s, F), NEW t \in Thread, s.stat[t] = "INIT", t \notin F,
           \A q \in Queue : t \notin ToSet(s.wait[q])
    PROVE  LET r == StartThread(s, t) IN
           /\ CoreOK(r, F) /\ r.stat = [s.stat EXCEPT ![t] = "READY"]
           /\ r.prio = [s.prio EXCEPT ![t] = init_priority[t]]
           /\ \A q \in Queue : r.wait[q] = s.wait[q]
           /\ r.timer = s.timer /\ r.cur = s.cur /\ r.lock = s.lock
<1> DEFINE p == init_priority[t]
           b == SetPriority(s, t, p)
           a == [b EXCEPT !.stat[t] = "SUSPEND"]
           r == StartThread(s, t)
<1>1. s \in KernelState /\ TimersSuspended(s) /\ WaitDistinct(s) /\ MasksSane(s) /\ t # Idle
      /\ p \in Prio /\ t \notin s.timer
  BY CoreFacts, ThreadAssumption DEF CoreOK, TimersSuspended
<1>2. /\ b \in KernelState
      /\ b.prio = [s.prio EXCEPT ![t] = p]
      /\ b.number[t] = NumberOf(p) /\ b.number_mask[t] = {NumberOf(p)}
      /\ b.high_mask[t] = {HighOf(p)}
      /\ \A u \in Thread \ {t} :
           /\ b.prio[u] = s.prio[u] /\ b.number[u] = s.number[u]
           /\ b.number_mask[u] = s.number_mask[u] /\ b.high_mask[u] = s.high_mask[u]
      /\ b.stat = s.stat /\ b.error = s.error /\ b.wait = s.wait /\ b.ready = s.ready
      /\ b.table = s.table /\ b.group = s.group /\ b.timer = s.timer
      /\ b.cur = s.cur /\ b.lock = s.lock
  BY <1>1, SetPriorityFields
<1> HIDE DEF b
<1>3. /\ a \in KernelState /\ SameSched(a, b)
      /\ a.stat = [b.stat EXCEPT ![t] = "SUSPEND"]
      /\ a.wait = b.wait /\ a.timer = b.timer /\ a.cur = b.cur /\ a.lock = b.lock
  <2>1. [b.stat EXCEPT ![t] = "SUSPEND"] \in [Thread -> Stat]
    BY <1>2 DEF KernelState, Stat
  <2> QED BY <1>2, <2>1 DEF SameSched, KernelState
<1> HIDE DEF a
<1>4. /\ a.stat[t] = "SUSPEND" /\ a.prio[t] = p
      /\ \A u \in Thread \ {t} : a.stat[u] = s.stat[u]
  BY <1>1, <1>2, <1>3 DEF SameSched, KernelState
<1>5. CoreOK(a, F)
  <2>1. \A u \in Thread \ {t} :
              /\ a.stat[u] = s.stat[u] /\ a.prio[u] = s.prio[u] /\ a.number[u] = s.number[u]
              /\ a.number_mask[u] = s.number_mask[u] /\ a.high_mask[u] = s.high_mask[u]
    BY <1>2, <1>3, <1>4 DEF SameSched
  <2>2. /\ a.number[t] = NumberOf(a.prio[t]) /\ a.number_mask[t] = {NumberOf(a.prio[t])}
        /\ a.high_mask[t] = {HighOf(a.prio[t])}
    BY <1>2, <1>3, <1>4 DEF SameSched
  <2>3. MasksSane(a)
    BY <1>1, <2>1, <2>2 DEF MasksSane
  <2>4. WaitDistinct(a) /\ TimersSuspended(a)
    <3>1. s.timer \subseteq Thread
      BY <1>1 DEF KernelState
    <3> QED BY <1>1, <1>2, <1>3, <1>4, <3>1 DEF WaitDistinct, TimersSuspended
  <2>5. a.ready = s.ready /\ a.table = s.table /\ a.group = s.group /\ a \in KernelState
    BY <1>2, <1>3 DEF SameSched
  <2>6. a.stat[t] # "READY" /\ s.stat[t] # "READY"
    BY <1>4
  <2> QED BY ONLY CoreOK(s, F), t \in Thread, <2>1, <2>2, <2>3, <2>4, <2>5, <2>6, CoreRenew
<1>6. r = ResumeNow(a, t)
  BY <1>4 DEF StartThread, rt_thread_resume, a, b
<1>7. \A q \in Queue : t \notin ToSet(a.wait[q])
  BY <1>2, <1>3
<1> HIDE DEF r
<1>8. /\ CoreOK(r, F) /\ r.stat = [a.stat EXCEPT ![t] = "READY"] /\ r.prio = a.prio
      /\ \A q \in Queue : r.wait[q] = a.wait[q]
      /\ r.timer = a.timer \ {t} /\ r.cur = a.cur /\ r.lock = a.lock
  BY <1>1, <1>4, <1>5, <1>6, <1>7, CoreResume
<1>9. [a.stat EXCEPT ![t] = "READY"] = [s.stat EXCEPT ![t] = "READY"]
  BY <1>1, <1>2, <1>3 DEF KernelState
<1>10. s.timer \ {t} = s.timer
  BY <1>1
<1>11. r.prio = [s.prio EXCEPT ![t] = init_priority[t]]
  BY <1>2, <1>3, <1>8 DEF SameSched
<1> QED BY <1>2, <1>3, <1>8, <1>9, <1>10, <1>11 DEF r

\* Storing a priority, by the fields the scheduler reads.
LEMMA SetPrioritySame ==
    ASSUME NEW x \in KernelState, NEW y \in KernelState, SameSched(x, y), NEW t \in Thread, NEW p
    PROVE  SameSched(SetPriority(x, t, p), SetPriority(y, t, p))
BY DEF SameSched, SetPriority, KernelState

\* A change of priority, of a thread in any state that no deletion has taken off.
LEMMA CorePriority ==
    ASSUME NEW s, NEW F, CoreOK(s, F), NEW t \in Thread \ {Idle}, t \notin F, NEW p \in Prio,
           s.stat[t] = "READY" => \A q \in Queue : t \notin ToSet(s.wait[q])
    PROVE  LET r == ChangePriority(s, t, p) IN
           /\ CoreOK(r, F) /\ r.stat = s.stat
           /\ r.prio = [s.prio EXCEPT ![t] = p]
           /\ \A q \in Queue : r.wait[q] = s.wait[q]
           /\ r.timer = s.timer /\ r.cur = s.cur /\ r.lock = s.lock
<1> DEFINE r == ChangePriority(s, t, p)
           w == View(s, F)
<1>1. /\ s \in KernelState /\ TimersSuspended(s) /\ WaitDistinct(s) /\ MasksSane(s)
      /\ KernelOK(w) /\ NoDuplicates(s)
  BY CoreFacts DEF CoreOK
<1>2. CASE s.stat[t] # "READY"
  <2>1. r = SetPriority(s, t, p)
    BY <1>2 DEF ChangePriority
  <2> HIDE DEF r
  <2>2. /\ r \in KernelState
        /\ r.prio = [s.prio EXCEPT ![t] = p]
        /\ r.number[t] = NumberOf(p) /\ r.number_mask[t] = {NumberOf(p)}
        /\ r.high_mask[t] = {HighOf(p)}
        /\ \A u \in Thread \ {t} :
             /\ r.prio[u] = s.prio[u] /\ r.number[u] = s.number[u]
             /\ r.number_mask[u] = s.number_mask[u] /\ r.high_mask[u] = s.high_mask[u]
        /\ r.stat = s.stat /\ r.wait = s.wait /\ r.ready = s.ready
        /\ r.table = s.table /\ r.group = s.group /\ r.timer = s.timer
        /\ r.cur = s.cur /\ r.lock = s.lock
    BY <1>1, <2>1, SetPriorityFields
  <2>3. r.prio[t] = p
    BY <1>1, <2>2 DEF KernelState
  <2>4. MasksSane(r)
    BY <1>1, <2>2, <2>3 DEF MasksSane
  <2>5. WaitDistinct(r) /\ TimersSuspended(r)
    BY <1>1, <2>2 DEF WaitDistinct, TimersSuspended
  <2>6. /\ \A u \in Thread \ {t} :
             /\ r.stat[u] = s.stat[u] /\ r.prio[u] = s.prio[u] /\ r.number[u] = s.number[u]
             /\ r.number_mask[u] = s.number_mask[u] /\ r.high_mask[u] = s.high_mask[u]
        /\ r.stat[t] # "READY" /\ t \in Thread /\ s.stat[t] # "READY"
        /\ r.number[t] = NumberOf(r.prio[t]) /\ r.number_mask[t] = {NumberOf(r.prio[t])}
        /\ r.high_mask[t] = {HighOf(r.prio[t])}
        /\ r \in KernelState /\ r.ready = s.ready /\ r.table = s.table /\ r.group = s.group
    BY <1>2, <2>2, <2>3
  <2>7. CoreOK(r, F)
    BY ONLY CoreOK(s, F), <2>4, <2>5, <2>6, CoreRenew
  <2> QED BY <2>2, <2>7 DEF r
<1>3. CASE s.stat[t] = "READY"
  <2> DEFINE f == rt_schedule_remove_thread(s, t)
             g == SetPriority(f, t, p)
             fw == rt_schedule_remove_thread(w, t)
             gw == SetPriority(fw, t, p)
             v == ChangePriority(w, t, p)
  <2>1. /\ w \in KernelState /\ SameSched(w, s) /\ w.stat = Seen(s, F)
        /\ \A u \in Thread : Seen(s, F)[u] =
              IF s.stat[u] = "CLOSE" THEN "INIT"
              ELSE IF u \in F /\ s.stat[u] = "READY" THEN "SUSPEND" ELSE s.stat[u]
    BY <1>1, ViewTyped
  <2>2. w.stat[t] = "READY" /\ NoDuplicates(w)
    BY <1>1, <1>3, <2>1 DEF KernelOK, KernelInv
  <2>3. /\ f \in KernelState
        /\ \A q \in Queue : f.wait[q] = s.wait[q]
        /\ f.stat = s.stat /\ f.prio = s.prio /\ f.number = s.number
        /\ f.number_mask = s.number_mask /\ f.high_mask = s.high_mask
        /\ f.timer = s.timer /\ f.cur = s.cur /\ f.lock = s.lock
    BY <1>1, <1>3, RemoveFields
  <2>4. fw \in KernelState /\ SameSched(f, fw)
    <3>1. SameSched(s, w)
      BY <2>1 DEF SameSched
    <3> QED BY <1>1, <2>1, <2>2, <3>1, RemoveFields, RemoveSame
  <2> HIDE DEF f, fw
  <2>5. /\ g \in KernelState
        /\ g.prio = [f.prio EXCEPT ![t] = p]
        /\ g.number[t] = NumberOf(p) /\ g.number_mask[t] = {NumberOf(p)}
        /\ g.high_mask[t] = {HighOf(p)}
        /\ \A u \in Thread \ {t} :
             /\ g.prio[u] = f.prio[u] /\ g.number[u] = f.number[u]
             /\ g.number_mask[u] = f.number_mask[u] /\ g.high_mask[u] = f.high_mask[u]
        /\ g.stat = f.stat /\ g.wait = f.wait /\ g.timer = f.timer
        /\ g.cur = f.cur /\ g.lock = f.lock
    BY <2>3, SetPriorityFields
  <2>6. gw \in KernelState /\ SameSched(g, gw)
    BY <2>3, <2>4, SetPriorityFields, SetPrioritySame
  <2> HIDE DEF g, gw
  <2>7. r = rt_schedule_insert_thread(g, t) /\ v = rt_schedule_insert_thread(gw, t)
    BY <1>3, <2>2 DEF ChangePriority, f, fw, g, gw
  <2>8. SameSched(r, v)
    BY <2>5, <2>6, <2>7, InsertSame
  <2>9. KernelOK(v) /\ v.stat = w.stat
    BY <1>1, ChangePriorityOK
  <2>10. /\ r \in KernelState /\ r.stat = [g.stat EXCEPT ![t] = "READY"]
         /\ r.prio = g.prio /\ r.number = g.number /\ r.number_mask = g.number_mask
         /\ r.high_mask = g.high_mask /\ r.wait = g.wait
         /\ r.timer = g.timer /\ r.cur = g.cur /\ r.lock = g.lock
    <3>1. /\ rt_schedule_insert_thread(g, t) \in KernelState
          /\ LET i == rt_schedule_insert_thread(g, t) IN
             /\ i.stat = [g.stat EXCEPT ![t] = "READY"]
             /\ i.prio = g.prio /\ i.number = g.number /\ i.number_mask = g.number_mask
             /\ i.high_mask = g.high_mask /\ i.wait = g.wait
             /\ i.timer = g.timer /\ i.cur = g.cur /\ i.lock = g.lock
      <4>1. g \in KernelState /\ t \in Thread
        BY <2>5
      <4> QED BY ONLY <4>1, InsertTyped, InsertFields
    <3> HIDE DEF r
    <3> QED BY <2>7, <3>1
  <2> HIDE DEF r, v
  <2>11. r.stat = s.stat
    BY <1>1, <1>3, <2>3, <2>5, <2>10 DEF KernelState
  <2>12. r.prio[t] = p
    <3>1. f.prio \in [Thread -> Prio]
      BY <2>3 DEF KernelState
    <3>2. [f.prio EXCEPT ![t] = p][t] = p
      BY <3>1
    <3> QED BY <2>5, <2>10, <3>2
  <2>13. MasksSane(r) /\ WaitDistinct(r) /\ TimersSuspended(r)
    <3>1. \A u \in Thread \ {t} :
             /\ r.prio[u] = s.prio[u] /\ r.number[u] = s.number[u]
             /\ r.number_mask[u] = s.number_mask[u] /\ r.high_mask[u] = s.high_mask[u]
      BY <2>3, <2>5, <2>10
    <3>2. /\ r.number[t] = NumberOf(r.prio[t]) /\ r.number_mask[t] = {NumberOf(r.prio[t])}
          /\ r.high_mask[t] = {HighOf(r.prio[t])}
      BY <2>5, <2>10, <2>12
    <3>3. \A q \in Queue : r.wait[q] = s.wait[q]
      BY <2>3, <2>5, <2>10
    <3>4. r.timer = s.timer
      BY <2>3, <2>5, <2>10
    <3>5. MasksSane(r)
      BY <1>1, <3>1, <3>2 DEF MasksSane
    <3> QED BY <1>1, <2>11, <3>3, <3>4, <3>5 DEF WaitDistinct, TimersSuspended
  <2>14. CoreOK(r, F)
    <3>1. Seen(r, F) = Seen(s, F)
      BY <2>11, SeenSame
    <3>2. \A u \in Thread : \/ Seen(r, F)[u] = v.stat[u]
                            \/ v.stat[u] # "READY" /\ Seen(r, F)[u] = "INIT"
      BY <2>1, <2>9, <3>1
    <3>3. r \in KernelState
      BY <2>10
    <3> QED BY ONLY <2>8, <2>9, <2>13, <3>2, <3>3, ViewFrame
  <2> QED BY <2>3, <2>5, <2>10, <2>11, <2>14 DEF r
<1> QED BY <1>2, <1>3

-----------------------------------------------------------------------------
(* The inductive invariant, of a kernel s, program points c, targets o and *)
(* existing objects x.                                                     *)

\* Threads a deletion has taken off the lists and not yet buried.
Off(c, o) == {u \in Thread : \E v \in Thread : c[v] \in DeletePoint \ {"delete_remove"} /\ o[v] = u}

\* Points between a test and the act that rests on it.
Windows == {"suspend", "resume"} \cup DeletePoint

\* A manager inside a window is ready, so that the idle thread frees nothing
\* meanwhile; its target is one of those it may manage this way, has been
\* started if it is to be suspended or resumed, and nobody else deletes it.
WindowsHold(s, c, o, x) ==
    /\ \A t \in Thread : c[t] \in Windows => t \in Manager \ {Idle} /\ s.stat[t] = "READY"
    /\ \A t \in Thread : c[t] \in {"suspend", "resume"} =>
          o[t] \in Controlled /\ s.stat[o[t]] # "INIT"
    /\ \A t \in Thread : c[t] \in DeletePoint =>
          /\ o[t] \in Victim \ {t} /\ (o[t] \in x \/ DetachedAtOnce(o[t]))
          /\ c[t] = "delete_remove" => s.stat[o[t]] \in {"READY", "CLOSE"}
          /\ c[t] = "delete_end" => s.stat[o[t]] = "CLOSE"
    /\ \A t, v \in Thread : c[t] \in DeletePoint /\ c[v] \in DeletePoint /\ o[t] = o[v] => t = v

\* What the idle thread frees is dead, on no list and nobody's target.
IdleHolds(s, c, o, x) ==
    /\ \A t \in Thread : c[t] = "free" => t = Idle
    /\ c[Idle] \in {"run", "free"}
    /\ c[Idle] = "free" =>
          /\ o[Idle] \in x \ Static /\ s.stat[o[Idle]] = "CLOSE"
          /\ \A v \in Thread : c[v] \in DeletePoint => o[v] # o[Idle]

\* rt_thread_defunct holds exactly the dead whose memory is held.
DeadHeld(s, c, o, x) ==
    \A t \in Thread :
        t \in ToSet(s.wait[rt_thread_defunct]) <=>
            /\ s.stat[t] = "CLOSE" /\ t \in x /\ t \notin Off(c, o)
            /\ ~(c[Idle] = "free" /\ o[Idle] = t)

\* The running thread is in a ready list or on its way into rt_schedule with
\* the scheduler unlocked; when it is the idle thread nobody else is ready.
CurrentHolds(s, c, o) ==
    /\ s.stat[s.cur] \in {"READY", "SUSPEND"} /\ s.cur \notin Off(c, o)
    /\ s.stat[s.cur] = "SUSPEND" => c[s.cur] \in {"block", "until_block", "resched"} /\ s.lock = 0
    /\ c[s.cur] = "suspend" /\ o[s.cur] = s.cur => s.lock = 0
    /\ s.cur = Idle => s.lock = 0 /\ \A t \in Thread \ {Idle} : s.stat[t] # "READY"

\* What the roles keep threads from: only idle has the lowest priority, who may
\* be deleted is never suspended, who may be suspended does not die.
RolesHold(s, x) ==
    /\ \A t \in Thread : s.prio[t] = Lowest <=> t = Idle
    /\ \A u \in Victim : s.stat[u] # "SUSPEND"
    /\ \A u \in Controlled : s.stat[u] # "CLOSE"
    /\ \A u \in Thread \ x : s.stat[u] = "CLOSE"

LifeHolds(s, c, o, x) ==
    /\ c \in [Thread -> Pcs] /\ o \in [Thread -> Thread] /\ x \subseteq Thread
    /\ CoreOK(s, Off(c, o))
    /\ WindowsHold(s, c, o, x)
    /\ IdleHolds(s, c, o, x)
    /\ DeadHeld(s, c, o, x)
    /\ CurrentHolds(s, c, o)
    /\ RolesHold(s, x)

LifeInv == fault = FALSE /\ LifeHolds(k, pc, on, exists)

\* What a step leaves of the dead.
NoneRises == \A u \in Thread : k.stat[u] = "CLOSE" => k'.stat[u] \in {"CLOSE", "INIT"}

\* Points no other thread's step depends on.
Open == Pcs \ (Windows \cup {"free"})

\* c and d differ only in where threads outside windows stand.
SamePlaces(c, d) ==
    \A u \in Thread : d[u] = c[u] \/ (u # Idle /\ c[u] \in Open /\ d[u] \in Open)

\* A thread changes between the states of the living.
Lives(s, r, c, o, u) ==
    /\ s.stat[u] # "CLOSE" /\ r.stat[u] \in {"READY", "SUSPEND"}
    /\ c[u] \in Windows => r.stat[u] = "READY"
    /\ \A v \in Thread : c[v] \in DeletePoint => o[v] # u
    /\ r.stat[u] = "SUSPEND" => u \notin Victim

\* Steps of threads outside windows, in which nobody dies or is born, disturb
\* none of what is said of windows, of the dead and of roles.
LEMMA Quiet ==
    ASSUME NEW s, NEW c, NEW o, NEW x, LifeHolds(s, c, o, x),
           NEW r, NEW d \in [Thread -> Pcs], SamePlaces(c, d),
           r.wait[rt_thread_defunct] = s.wait[rt_thread_defunct],
           \A u \in Thread : r.stat[u] = s.stat[u] \/ Lives(s, r, c, o, u),
           \A u \in Thread : r.prio[u] = s.prio[u] \/ (u # Idle /\ r.prio[u] # Lowest)
    PROVE  /\ Off(d, o) = Off(c, o)
           /\ WindowsHold(r, d, o, x) /\ IdleHolds(r, d, o, x)
           /\ DeadHeld(r, d, o, x) /\ RolesHold(r, x)
<1>1. /\ WindowsHold(s, c, o, x) /\ IdleHolds(s, c, o, x) /\ DeadHeld(s, c, o, x)
      /\ RolesHold(s, x) /\ c \in [Thread -> Pcs]
  BY DEF LifeHolds
<1>2. \A u \in Thread : /\ d[u] \in Windows \cup {"free"} => d[u] = c[u]
                        /\ c[u] \in Windows \cup {"free"} => d[u] = c[u]
  BY DEF SamePlaces, Open
<1>3. d[Idle] = c[Idle] /\ Idle \in Thread
  BY ThreadAssumption DEF SamePlaces
<1>4. \A u \in Thread : d[u] \in DeletePoint \/ c[u] \in DeletePoint => d[u] = c[u]
  BY <1>2 DEF Windows
<1>5. Off(d, o) = Off(c, o)
  BY <1>4 DEF Off
<1>6. \A u \in Thread : s.stat[u] = "CLOSE" => r.stat[u] = "CLOSE"
  BY DEF Lives
<1>7. \A u \in Thread : r.stat[u] = "CLOSE" => s.stat[u] = "CLOSE"
  BY DEF Lives
<1>8. WindowsHold(r, d, o, x)
  <2>1. ASSUME NEW t \in Thread, d[t] \in Windows
        PROVE  t \in Manager \ {Idle} /\ r.stat[t] = "READY"
    BY <1>1, <1>2, <2>1 DEF WindowsHold, Lives
  <2>2. ASSUME NEW t \in Thread, d[t] \in {"suspend", "resume"}
        PROVE  o[t] \in Controlled /\ r.stat[o[t]] # "INIT"
    <3>1. c[t] \in {"suspend", "resume"}
      BY <1>2, <2>2 DEF Windows
    <3>2. o[t] \in Controlled /\ o[t] \in Thread /\ s.stat[o[t]] # "INIT"
      BY <1>1, <3>1, LifecycleAssumption DEF WindowsHold
    <3> QED BY <3>2 DEF Lives
  <2>3. ASSUME NEW t \in Thread, d[t] \in DeletePoint
        PROVE  /\ o[t] \in Victim \ {t} /\ (o[t] \in x \/ DetachedAtOnce(o[t]))
               /\ d[t] = "delete_remove" => r.stat[o[t]] \in {"READY", "CLOSE"}
               /\ d[t] = "delete_end" => r.stat[o[t]] = "CLOSE"
    <3>1. c[t] = d[t] /\ c[t] \in DeletePoint
      BY <1>4, <2>3
    <3>2. o[t] \in Victim \ {t} /\ o[t] \in Thread /\ (o[t] \in x \/ DetachedAtOnce(o[t]))
      BY <1>1, <3>1, LifecycleAssumption DEF WindowsHold
    <3>3. r.stat[o[t]] = s.stat[o[t]]
      BY <3>1, <3>2 DEF Lives
    <3> QED BY <1>1, <3>1, <3>2, <3>3 DEF WindowsHold
  <2>4. ASSUME NEW t \in Thread, NEW v \in Thread, d[t] \in DeletePoint, d[v] \in DeletePoint,
               o[t] = o[v]
        PROVE  t = v
    BY <1>1, <1>4, <2>4 DEF WindowsHold
  <2> QED BY <2>1, <2>2, <2>3, <2>4 DEF WindowsHold
<1>9. IdleHolds(r, d, o, x)
  <2>1. \A t \in Thread : d[t] = "free" => t = Idle
    BY <1>1, <1>2 DEF IdleHolds
  <2>2. ASSUME d[Idle] = "free"
        PROVE  /\ o[Idle] \in x \ Static /\ r.stat[o[Idle]] = "CLOSE"
               /\ \A v \in Thread : d[v] \in DeletePoint => o[v] # o[Idle]
    <3>1. /\ o[Idle] \in x \ Static /\ s.stat[o[Idle]] = "CLOSE"
          /\ \A v \in Thread : c[v] \in DeletePoint => o[v] # o[Idle]
      BY <1>1, <1>3, <2>2 DEF IdleHolds
    <3>2. o[Idle] \in Thread
      BY <1>3 DEF LifeHolds
    <3> QED BY <1>4, <1>6, <3>1, <3>2
  <2> QED BY <1>1, <1>3, <2>1, <2>2 DEF IdleHolds
<1>10. DeadHeld(r, d, o, x)
  BY <1>1, <1>3, <1>5, <1>6, <1>7 DEF DeadHeld
<1>11. RolesHold(r, x)
  <2>1. \A u \in Victim : u \in Thread /\ r.stat[u] # "SUSPEND"
    BY <1>1, LifecycleAssumption DEF RolesHold, Lives
  <2>2. \A u \in Controlled : u \in Thread /\ r.stat[u] # "CLOSE"
    BY <1>1, <1>7, LifecycleAssumption DEF RolesHold
  <2> QED BY <1>1, <1>6, <2>1, <2>2 DEF RolesHold
<1> QED BY <1>5, <1>8, <1>9, <1>10, <1>11

\* The thread rt_schedule has chosen: if it is idle nobody else is ready, those
\* taken off the lists included, since who took them off is ready.
LEMMA ChosenCurrent ==
    ASSUME RolesApart, NEW s, NEW c, NEW o, NEW x, CoreOK(s, Off(c, o)),
           WindowsHold(s, c, o, x), RolesHold(s, x), s.lock = 0, Chosen(s, Off(c, o), s.cur)
    PROVE  CurrentHolds(s, c, o)
<1>1. /\ s.cur \in Thread /\ s.stat[s.cur] = "READY" /\ s.cur \notin Off(c, o)
      /\ \A u \in Thread : s.stat[u] = "READY" /\ u \notin Off(c, o) => s.prio[s.cur] <= s.prio[u]
  BY DEF Chosen
<1>2. \A u \in Thread : s.prio[u] \in 0 .. Lowest
  BY DEF CoreOK, KernelState, Prio, Lowest
<1>3. ASSUME s.cur = Idle, NEW u \in Thread, s.stat[u] = "READY", u \notin Off(c, o)
      PROVE  u = Idle
  <2>1. s.prio[Idle] = Lowest /\ (s.prio[u] = Lowest => u = Idle)
    BY <1>1, <1>3 DEF RolesHold
  <2>2. Lowest <= s.prio[u]
    BY <1>1, <1>3, <2>1
  <2>3. s.prio[u] = Lowest
    BY <1>2, <2>2, PrioAssumption DEF Lowest
  <2> QED BY <2>1, <2>3
<1>4. ASSUME s.cur = Idle, NEW u \in Off(c, o) PROVE FALSE
  <2>1. PICK v \in Thread : c[v] \in DeletePoint /\ o[v] = u
    BY <1>4 DEF Off
  <2>2. v \in Manager \ {Idle} /\ s.stat[v] = "READY"
    BY <2>1 DEF WindowsHold, Windows
  <2>3. v \notin Off(c, o)
    BY <2>2 DEF Off, WindowsHold, RolesApart
  <2> QED BY <1>3, <1>4, <2>2, <2>3
<1> QED BY <1>1, <1>3, <1>4 DEF CurrentHolds

-----------------------------------------------------------------------------
(* The steps.                                                              *)

\* A thread that has not died exists and is not on rt_thread_defunct.
LEMMA Living ==
    ASSUME NEW s, NEW c, NEW o, NEW x, LifeHolds(s, c, o, x), NEW u \in Thread,
           s.stat[u] # "CLOSE"
    PROVE  u \in x /\ \A q \in Queue : u \notin ToSet(s.wait[q])
BY LifecycleAssumption DEF LifeHolds, DeadHeld, RolesHold

\* The running thread, where it has not suspended itself.
LEMMA Running ==
    ASSUME NEW s, NEW c, NEW o, NEW x, LifeHolds(s, c, o, x),
           c[s.cur] \notin {"block", "until_block", "resched"} \/ s.lock # 0
    PROVE  /\ s.cur \in Thread /\ s.stat[s.cur] = "READY" /\ s.cur \notin Off(c, o)
           /\ s.cur \in x /\ \A q \in Queue : s.cur \notin ToSet(s.wait[q])
<1>1. s.cur \in Thread /\ s.stat[s.cur] = "READY" /\ s.cur \notin Off(c, o)
  BY DEF LifeHolds, CurrentHolds, CoreOK, KernelState
<1> QED BY <1>1, Living

\* Threads in a window are not targets of a deletion, so they are in a ready list.
LEMMA WindowsListed ==
    ASSUME RolesApart, NEW s, NEW c, NEW o, NEW x, LifeHolds(s, c, o, x), NEW u \in Victim
    PROVE  c[u] \notin Windows
BY LifecycleAssumption DEF LifeHolds, WindowsHold, RolesApart

\* A quiet step that leaves the processor with its thread.
LEMMA QuietStep ==
    ASSUME NEW s, NEW c, NEW o, NEW x, LifeHolds(s, c, o, x),
           NEW r, NEW d \in [Thread -> Pcs], SamePlaces(c, d), CoreOK(r, Off(c, o)),
           \A q \in Queue : r.wait[q] = s.wait[q],
           \A u \in Thread : r.stat[u] = s.stat[u] \/ Lives(s, r, c, o, u),
           \A u \in Thread : r.prio[u] = s.prio[u] \/ (u # Idle /\ r.prio[u] # Lowest),
           r.cur = s.cur, s.cur # Idle, d[s.cur] # "suspend",
           r.stat[s.cur] = "READY" \/
              /\ r.stat[s.cur] = "SUSPEND" /\ r.lock = 0
              /\ d[s.cur] \in {"block", "until_block", "resched"}
    PROVE  LifeHolds(r, d, o, x)
<1>1. r.wait[rt_thread_defunct] = s.wait[rt_thread_defunct]
  BY LifecycleAssumption
<1>2. /\ Off(d, o) = Off(c, o)
      /\ WindowsHold(r, d, o, x) /\ IdleHolds(r, d, o, x)
      /\ DeadHeld(r, d, o, x) /\ RolesHold(r, x)
  BY <1>1, Quiet
<1>3. CurrentHolds(r, d, o)
  BY <1>2 DEF LifeHolds, CurrentHolds
<1> QED BY <1>2, <1>3 DEF LifeHolds

\* rt_schedule, called at the end of a call, from a blocking call or by a tick.
LEMMA ScheduleStep ==
    ASSUME RolesApart, NEW s, NEW c, NEW o, NEW x, LifeHolds(s, c, o, x),
           NEW d \in [Thread -> Pcs], SamePlaces(c, d)
    PROVE  LifeHolds(rt_schedule(s), d, o, x)
<1> DEFINE r == rt_schedule(s)
           F == Off(c, o)
<1>1. /\ CoreOK(r, F) /\ Keeps(s, r) /\ r.lock = s.lock
      /\ s.lock # 0 => r.cur = s.cur
      /\ s.lock = 0 => Chosen(r, F, r.cur)
  BY CoreSchedule DEF LifeHolds
<1> HIDE DEF r
<1>2. r.stat = s.stat /\ r.prio = s.prio /\ r.wait = s.wait
  BY <1>1 DEF Keeps
<1>3. /\ Off(d, o) = F
      /\ WindowsHold(r, d, o, x) /\ IdleHolds(r, d, o, x)
      /\ DeadHeld(r, d, o, x) /\ RolesHold(r, x)
  <2>1. /\ r.wait[rt_thread_defunct] = s.wait[rt_thread_defunct]
        /\ \A u \in Thread : r.stat[u] = s.stat[u] \/ Lives(s, r, c, o, u)
        /\ \A u \in Thread : r.prio[u] = s.prio[u] \/ (u # Idle /\ r.prio[u] # Lowest)
    BY <1>2
  <2> QED BY ONLY <2>1, LifeHolds(s, c, o, x), d \in [Thread -> Pcs], SamePlaces(c, d), Quiet
<1>4. CurrentHolds(r, d, o)
  <2>1. CASE s.lock = 0
    <3>1. CoreOK(r, Off(d, o)) /\ r.lock = 0 /\ Chosen(r, Off(d, o), r.cur)
      BY <1>1, <1>3, <2>1
    <3> QED BY <1>3, <3>1, ChosenCurrent
  <2>2. CASE s.lock # 0
    <3>1. /\ s.cur \in Thread /\ s.stat[s.cur] = "READY" /\ s.cur \notin F /\ s.cur # Idle
          /\ ~(c[s.cur] = "suspend" /\ o[s.cur] = s.cur)
      BY <2>2, Running DEF LifeHolds, CurrentHolds
    <3>2. ~(d[s.cur] = "suspend" /\ o[s.cur] = s.cur)
      BY <3>1 DEF SamePlaces, Open, Windows
    <3> QED BY <1>1, <1>2, <1>3, <2>2, <3>1, <3>2 DEF CurrentHolds
  <2> QED BY <2>1, <2>2
<1> QED BY <1>1, <1>3, <1>4 DEF LifeHolds, r

\* The points a call of this module leaves and reaches outside windows.
LEMMA OpenPoints ==
    /\ {"run", "block", "woken", "resched", "until_block", "dead"} \subseteq Open
    /\ Open \subseteq Pcs /\ Windows \subseteq Pcs /\ "free" \in Pcs /\ "free" \notin Windows
    /\ Open \cap Windows = {} /\ "free" \notin Open
BY DEF Open, Pcs, Windows, DeletePoint

\* A thread moves from one point outside windows to another.
LEMMA GotoOpen ==
    ASSUME NEW c \in [Thread -> Pcs], NEW t \in Thread \ {Idle}, NEW e \in Open, c[t] \in Open
    PROVE  LET d == [c EXCEPT ![t] = e] IN
           d \in [Thread -> Pcs] /\ SamePlaces(c, d) /\ d[t] = e
<1> DEFINE d == [c EXCEPT ![t] = e]
<1>1. e \in Pcs
  BY OpenPoints
<1>2. d \in [Thread -> Pcs] /\ d[t] = e /\ \A u \in Thread \ {t} : d[u] = c[u]
  BY <1>1
<1> HIDE DEF d
<1>3. SamePlaces(c, d)
  BY <1>2 DEF SamePlaces
<1> QED BY <1>2, <1>3 DEF d

\* StepReschedule, rt_thread_yield, the return of rt_thread_delay_until and the
\* end of a time slice.
LEMMA SchedulesKeep ==
    ASSUME RolesApart, LifeInv, NEW t \in Thread,
           StepReschedule(t) \/ DelayUntilReturn(t) \/ rt_thread_yield(t) \/ TickStep
    PROVE  LifeInv' /\ NoneRises
<1>1. /\ LifeHolds(k, pc, on, exists) /\ pc \in [Thread -> Pcs] /\ fault = FALSE
      /\ pc[Idle] \in {"run", "free"}
  BY DEF LifeInv, LifeHolds, IdleHolds
<1>2. k' = rt_schedule(k) /\ UNCHANGED lvars
  BY DEF StepReschedule, Reschedule, DelayUntilReturn, rt_thread_yield, TickStep, SliceExpired
<1>3. pc' \in [Thread -> Pcs] /\ SamePlaces(pc, pc')
  <2>1. CASE pc' = pc
    BY <1>1, <2>1 DEF SamePlaces
  <2>2. CASE StepReschedule(t)
    <3>1. pc[t] \in {"resched", "block"} /\ pc' = [pc EXCEPT ![t] = IF pc[t] = "block" THEN "woken" ELSE "run"]
      BY <2>2 DEF StepReschedule, Reschedule, At, Goto
    <3>2. /\ t # Idle /\ pc[t] \in Open
          /\ (IF pc[t] = "block" THEN "woken" ELSE "run") \in Open
      BY <1>1, <3>1, OpenPoints
    <3> QED BY <1>1, <3>1, <3>2, GotoOpen
  <2>3. CASE DelayUntilReturn(t)
    <3>1. pc[t] = "until_block" /\ pc' = [pc EXCEPT ![t] = "run"]
      BY <2>3 DEF DelayUntilReturn, At, Goto
    <3>2. t # Idle /\ pc[t] \in Open /\ "run" \in Open
      BY <1>1, <3>1, OpenPoints
    <3> QED BY <1>1, <3>1, <3>2, GotoOpen
  <2> QED BY <2>1, <2>2, <2>3 DEF rt_thread_yield, TickStep, SliceExpired
<1>4. LifeHolds(k', pc', on, exists)
  BY <1>1, <1>2, <1>3, ScheduleStep
<1>5. NoneRises
  <2>1. k'.stat = k.stat
    BY <1>1, <1>2, CoreSchedule DEF LifeHolds, Keeps
  <2> QED BY <2>1 DEF NoneRises
<1>6. LifeInv'
  BY <1>1, <1>2, <1>4 DEF LifeInv, lvars
<1> QED BY <1>5, <1>6

\* The thread that makes a call.
LEMMA Caller ==
    ASSUME LifeInv, NEW t \in Thread, Calls(t)
    PROVE  /\ LifeHolds(k, pc, on, exists) /\ pc \in [Thread -> Pcs] /\ on \in [Thread -> Thread]
           /\ k \in KernelState /\ CoreOK(k, Off(pc, on)) /\ fault = FALSE
           /\ k.cur = t /\ t # Idle /\ pc[t] = "run" /\ pc[t] \in Open
           /\ k.stat[t] = "READY" /\ t \notin Off(pc, on) /\ t \in exists
           /\ \A q \in Queue : t \notin ToSet(k.wait[q])
<1>1. /\ LifeHolds(k, pc, on, exists) /\ pc \in [Thread -> Pcs] /\ on \in [Thread -> Thread]
      /\ k \in KernelState /\ CoreOK(k, Off(pc, on)) /\ fault = FALSE
  BY DEF LifeInv, LifeHolds, CoreOK
<1>2. k.cur = t /\ t # Idle /\ pc[t] = "run"
  BY DEF Calls, At
<1>3. pc[t] \in Open
  BY <1>2, OpenPoints
<1>4. pc[k.cur] \notin {"block", "until_block", "resched"}
  BY <1>2
<1> QED BY <1>1, <1>2, <1>3, <1>4, Running

\* Nobody deletes a thread that may not be deleted.
LEMMA NoTarget ==
    ASSUME NEW s, NEW c, NEW o, NEW x, WindowsHold(s, c, o, x), NEW u, u \notin Victim
    PROVE  u \notin Off(c, o) /\ \A v \in Thread : c[v] \in DeletePoint => o[v] # u
BY DEF WindowsHold, Off

\* rt_thread_sleep and rt_thread_delay_until up to their rt_schedule.
LEMMA SleepKeeps ==
    ASSUME RolesApart, LifeInv, NEW t \in Thread, NEW c \in {"block", "until_block"}, Sleep(t, c)
    PROVE  LifeInv' /\ NoneRises
<1> DEFINE F == Off(pc, on)
           m == SuspendNow(k, t)
           r == StartThreadTimer(m, t)
<1>1. t \in Sleeper /\ Calls(t) /\ k.lock = 0 /\ pc' = [pc EXCEPT ![t] = c] /\ UNCHANGED lvars
  BY DEF Sleep, Goto
<1>2. /\ LifeHolds(k, pc, on, exists) /\ pc \in [Thread -> Pcs]
      /\ k \in KernelState /\ CoreOK(k, F) /\ fault = FALSE
      /\ k.cur = t /\ t # Idle /\ pc[t] = "run" /\ pc[t] \in Open
      /\ k.stat[t] = "READY" /\ t \notin F
      /\ \A q \in Queue : t \notin ToSet(k.wait[q])
  BY <1>1, Caller
<1>3. k' = r
  BY <1>2 DEF Sleep, rt_thread_suspend
<1>4. /\ CoreOK(m, F) /\ m.stat = [k.stat EXCEPT ![t] = "SUSPEND"] /\ m.prio = k.prio
      /\ \A q \in Queue : m.wait[q] = k.wait[q]
      /\ m.timer = k.timer \ {t} /\ m.cur = k.cur /\ m.lock = k.lock
  BY <1>2, CoreSuspend
<1> HIDE DEF m
<1>5. m \in KernelState /\ k.stat \in [Thread -> Stat]
  BY <1>2, <1>4 DEF CoreOK, KernelState
<1>6. /\ r \in KernelState /\ SameSched(r, m) /\ r.stat = m.stat /\ r.prio = m.prio
      /\ r.wait = m.wait /\ r.timer = m.timer \cup {t} /\ r.cur = m.cur /\ r.lock = m.lock
  BY <1>5 DEF StartThreadTimer, KernelState, SameSched
<1> HIDE DEF r
<1>7. /\ r.stat[t] = "SUSPEND" /\ \A u \in Thread \ {t} : r.stat[u] = k.stat[u]
  BY <1>4, <1>5, <1>6
<1>8. CoreOK(r, F)
  <2>1. WaitDistinct(r) /\ TimersSuspended(r)
    BY <1>4, <1>6, <1>7 DEF CoreOK, WaitDistinct, TimersSuspended
  <2>2. Seen(r, F) = Seen(m, F)
    BY <1>6, SeenSame
  <2> QED BY <1>4, <1>6, <2>1, <2>2, CoreFrame
<1>9. Lives(k, r, pc, on, t)
  <2>1. t \notin Victim
    BY <1>1 DEF RolesApart
  <2>2. \A v \in Thread : pc[v] \in DeletePoint => on[v] # t
    BY <1>2, <2>1, NoTarget DEF LifeHolds
  <2>3. pc[t] \notin Windows
    BY <1>2 DEF Open
  <2> QED BY <1>2, <1>7, <2>1, <2>2, <2>3 DEF Lives
<1>10. pc' \in [Thread -> Pcs] /\ SamePlaces(pc, pc') /\ pc'[t] = c
  <2>1. c \in Open
    BY OpenPoints
  <2> QED BY <1>1, <1>2, <2>1, GotoOpen
<1>11. LifeHolds(r, pc', on, exists)
  <2>1. /\ LifeHolds(k, pc, on, exists) /\ pc' \in [Thread -> Pcs] /\ SamePlaces(pc, pc')
        /\ CoreOK(r, Off(pc, on))
        /\ \A q \in Queue : r.wait[q] = k.wait[q]
        /\ \A u \in Thread : r.stat[u] = k.stat[u] \/ Lives(k, r, pc, on, u)
        /\ \A u \in Thread : r.prio[u] = k.prio[u] \/ (u # Idle /\ r.prio[u] # Lowest)
        /\ r.cur = k.cur /\ k.cur # Idle /\ pc'[k.cur] # "suspend"
        /\ r.stat[k.cur] = "SUSPEND" /\ r.lock = 0
        /\ pc'[k.cur] \in {"block", "until_block", "resched"}
    BY <1>1, <1>2, <1>4, <1>6, <1>7, <1>8, <1>9, <1>10
  <2> QED BY ONLY <2>1, QuietStep
<1>12. NoneRises
  BY <1>2, <1>3, <1>7 DEF NoneRises
<1>13. LifeInv'
  BY <1>1, <1>2, <1>3, <1>11 DEF LifeInv, lvars
<1> QED BY <1>12, <1>13

\* A step of a ready thread that changes nothing but errors and the lock.
LEMMA FrameStep ==
    ASSUME NEW s, NEW c, NEW o, NEW x, LifeHolds(s, c, o, x),
           NEW r \in KernelState, SameSched(r, s), r.stat = s.stat, r.wait = s.wait,
           r.timer = s.timer, r.cur = s.cur, s.cur # Idle, s.stat[s.cur] = "READY",
           NEW d \in [Thread -> Pcs], SamePlaces(c, d), d[s.cur] # "suspend"
    PROVE  LifeHolds(r, d, o, x)
<1> DEFINE F == Off(c, o)
<1>1. CoreOK(s, F)
  BY DEF LifeHolds
<1>2. WaitDistinct(r) /\ TimersSuspended(r)
  BY <1>1 DEF CoreOK, WaitDistinct, TimersSuspended
<1>3. Seen(r, F) = Seen(s, F)
  BY SeenSame
<1>4. CoreOK(r, F)
  BY <1>1, <1>2, <1>3, CoreFrame
<1>5. /\ \A q \in Queue : r.wait[q] = s.wait[q]
      /\ \A u \in Thread : r.stat[u] = s.stat[u] \/ Lives(s, r, c, o, u)
      /\ \A u \in Thread : r.prio[u] = s.prio[u] \/ (u # Idle /\ r.prio[u] # Lowest)
      /\ r.stat[s.cur] = "READY"
  BY DEF SameSched
<1> QED BY <1>4, <1>5, QuietStep

\* The return of rt_thread_sleep, rt_enter_critical and rt_exit_critical.
LEMMA FramesKeep ==
    ASSUME LifeInv, NEW t \in Thread, SleepReturn(t) \/ EnterCritical(t) \/ ExitCritical(t)
    PROVE  LifeInv' /\ NoneRises
<1>1. /\ LifeHolds(k, pc, on, exists) /\ pc \in [Thread -> Pcs] /\ fault = FALSE
      /\ pc[Idle] \in {"run", "free"} /\ k \in KernelState
  BY DEF LifeInv, LifeHolds, IdleHolds, CoreOK
<1>2. k.cur = t /\ t # Idle /\ pc[t] \in {"run", "woken"} /\ UNCHANGED lvars
  BY <1>1 DEF SleepReturn, EnterCritical, ExitCritical, Calls, At
<1>3. k.stat[k.cur] = "READY"
  BY <1>1, <1>2, Running
<1>4. pc' \in [Thread -> Pcs] /\ SamePlaces(pc, pc') /\ pc'[t] # "suspend"
  <2>1. CASE pc' = pc
    BY <1>1, <1>2, <2>1 DEF SamePlaces
  <2>2. CASE SleepReturn(t) \/ ExitCritical(t)
    <3>1. PICK e \in {"run", "resched"} : pc' = [pc EXCEPT ![t] = e]
      BY <2>2 DEF SleepReturn, ExitCritical, Goto
    <3>2. e \in Open /\ pc[t] \in Open /\ e # "suspend"
      BY <1>2, OpenPoints
    <3> QED BY <1>1, <1>2, <3>1, <3>2, GotoOpen
  <2> QED BY <2>1, <2>2 DEF EnterCritical
<1>5. /\ k' \in KernelState /\ SameSched(k', k) /\ k'.stat = k.stat /\ k'.wait = k.wait
      /\ k'.timer = k.timer /\ k'.cur = k.cur
  <2>1. CASE SleepReturn(t)
    <3>1. \A e \in Error :
             LET y == [k EXCEPT !.error[t] = e] IN
             /\ y \in KernelState /\ SameSched(y, k) /\ y.stat = k.stat /\ y.wait = k.wait
             /\ y.timer = k.timer /\ y.cur = k.cur
      BY <1>1 DEF KernelState, SameSched
    <3>2. (IF k.error[t] = "ETIMEOUT" THEN "EOK" ELSE k.error[t]) \in Error
      BY <1>1 DEF KernelState, Error
    <3>3. k' = [k EXCEPT !.error[t] = IF k.error[t] = "ETIMEOUT" THEN "EOK" ELSE k.error[t]]
      BY <1>1, <2>1 DEF SleepReturn, KernelState
    <3> QED BY <3>1, <3>2, <3>3
  <2>2. CASE EnterCritical(t) \/ ExitCritical(t)
    <3>1. \A n \in Nat :
             LET y == [k EXCEPT !.lock = n] IN
             /\ y \in KernelState /\ SameSched(y, k) /\ y.stat = k.stat /\ y.wait = k.wait
             /\ y.timer = k.timer /\ y.cur = k.cur
      BY <1>1 DEF KernelState, SameSched
    <3>2. k.lock \in Nat
      BY <1>1 DEF KernelState
    <3>3. \/ k' = [k EXCEPT !.lock = k.lock + 1]
          \/ k.lock > 0 /\ k' = [k EXCEPT !.lock = k.lock - 1]
      BY <1>1, <2>2 DEF EnterCritical, ExitCritical, rt_enter_critical, KernelState
    <3>4. PICK n \in Nat : k' = [k EXCEPT !.lock = n]
      <4>1. CASE k' = [k EXCEPT !.lock = k.lock + 1]
        <5>1. k.lock + 1 \in Nat
          BY <3>2
        <5> QED BY <4>1, <5>1
      <4>2. CASE k.lock > 0 /\ k' = [k EXCEPT !.lock = k.lock - 1]
        <5>1. k.lock - 1 \in Nat
          BY <3>2, <4>2
        <5> QED BY <4>2, <5>1
      <4> QED BY <3>3, <4>1, <4>2
    <3> QED BY <3>1, <3>4
  <2> QED BY <2>1, <2>2
<1>6. LifeHolds(k', pc', on, exists)
  BY <1>1, <1>2, <1>3, <1>4, <1>5, FrameStep
<1>7. NoneRises
  BY <1>5 DEF NoneRises
<1>8. LifeInv'
  BY <1>1, <1>2, <1>6 DEF LifeInv, lvars
<1> QED BY <1>7, <1>8

\* rt_thread_control: a managed thread gets another priority.
LEMMA ControlKeeps ==
    ASSUME RolesApart, LifeInv, NEW t \in Thread, NEW u \in Thread, NEW p \in NewPriority,
           Control(t, u, p)
    PROVE  LifeInv' /\ NoneRises
<1> DEFINE F == Off(pc, on)
           r == ChangePriority(k, u, p)
<1>1. Calls(t) /\ u # Idle /\ ~BeingDeleted(u) /\ k' = r /\ pc' = pc /\ UNCHANGED lvars
  BY DEF Control, Manages
<1>2. /\ LifeHolds(k, pc, on, exists) /\ pc \in [Thread -> Pcs] /\ k \in KernelState
      /\ CoreOK(k, F) /\ fault = FALSE /\ k.cur = t /\ t # Idle /\ pc[t] = "run"
      /\ k.stat[t] = "READY"
  BY <1>1, Caller
<1>3. u \notin F /\ p \in Prio /\ p # Lowest
  BY <1>1, LifecycleAssumption DEF Off, BeingDeleted, RolesApart
<1>4. k.stat[u] = "READY" => \A q \in Queue : u \notin ToSet(k.wait[q])
  BY <1>2, Living
<1>5. /\ CoreOK(r, F) /\ r.stat = k.stat /\ r.prio = [k.prio EXCEPT ![u] = p]
      /\ \A q \in Queue : r.wait[q] = k.wait[q]
      /\ r.timer = k.timer /\ r.cur = k.cur /\ r.lock = k.lock
  BY <1>1, <1>2, <1>3, <1>4, CorePriority
<1> HIDE DEF r
<1>6. k.prio \in [Thread -> Prio]
  BY <1>2 DEF KernelState
<1>7. \A v \in Thread : r.prio[v] = k.prio[v] \/ (v # Idle /\ r.prio[v] # Lowest)
  BY <1>1, <1>3, <1>5, <1>6
<1>8. LifeHolds(r, pc, on, exists)
  <2>1. /\ SamePlaces(pc, pc) /\ pc \in [Thread -> Pcs] /\ CoreOK(r, Off(pc, on))
        /\ \A v \in Thread : r.stat[v] = k.stat[v] \/ Lives(k, r, pc, on, v)
        /\ r.cur = k.cur /\ k.cur # Idle /\ pc[k.cur] # "suspend" /\ r.stat[k.cur] = "READY"
    BY <1>2, <1>5 DEF SamePlaces
  <2>2. \A q \in Queue : r.wait[q] = k.wait[q]
    BY <1>5
  <2> QED BY ONLY <1>2, <1>7, <2>1, <2>2, QuietStep
<1>9. NoneRises
  BY <1>1, <1>5 DEF NoneRises
<1>10. LifeInv'
  BY <1>1, <1>2, <1>8 DEF LifeInv, lvars
<1> QED BY <1>9, <1>10

\* rt_thread_startup up to its rt_schedule.
LEMMA StartupKeeps ==
    ASSUME RolesApart, LifeInv, NEW t \in Thread, NEW u \in Thread, StartupStep(t, u)
    PROVE  LifeInv' /\ NoneRises
<1> DEFINE F == Off(pc, on)
           r == StartThread(k, u)
<1>1. /\ Calls(t) /\ ~BeingDeleted(u) /\ k.stat[u] = "INIT" /\ k' = r
      /\ pc' = [pc EXCEPT ![t] = "resched"] /\ UNCHANGED lvars
  BY DEF StartupStep, Manages, Startup, Goto
<1>2. /\ LifeHolds(k, pc, on, exists) /\ pc \in [Thread -> Pcs] /\ k \in KernelState
      /\ CoreOK(k, F) /\ fault = FALSE /\ k.cur = t /\ t # Idle /\ pc[t] \in Open
      /\ k.stat[t] = "READY"
  BY <1>1, Caller
<1>3. u \notin F /\ \A v \in Thread : pc[v] \in DeletePoint => on[v] # u
  BY <1>1 DEF Off, BeingDeleted
<1>4. \A q \in Queue : u \notin ToSet(k.wait[q])
  BY <1>1, <1>2, Living
<1>5. /\ CoreOK(r, F) /\ r.stat = [k.stat EXCEPT ![u] = "READY"]
      /\ r.prio = [k.prio EXCEPT ![u] = init_priority[u]]
      /\ \A q \in Queue : r.wait[q] = k.wait[q]
      /\ r.timer = k.timer /\ r.cur = k.cur /\ r.lock = k.lock
  BY <1>1, <1>2, <1>3, <1>4, CoreStart
<1> HIDE DEF r
<1>6. k.prio \in [Thread -> Prio] /\ k.stat \in [Thread -> Stat] /\ k.stat[Idle] = "READY"
  BY <1>2, CoreFacts DEF KernelState
<1>7. \A v \in Thread : r.prio[v] = k.prio[v] \/ (v # Idle /\ r.prio[v] # Lowest)
  <2>1. u # Idle /\ init_priority[u] # Lowest
    BY <1>1, <1>6, ThreadAssumption DEF Lowest
  <2> QED BY <1>5, <1>6, <2>1
<1>8. r.stat[u] = "READY" /\ \A v \in Thread \ {u} : r.stat[v] = k.stat[v]
  BY <1>5, <1>6
<1>9. Lives(k, r, pc, on, u)
  BY <1>1, <1>3, <1>8 DEF Lives
<1>10. pc' \in [Thread -> Pcs] /\ SamePlaces(pc, pc') /\ pc'[t] = "resched"
  <2>1. "resched" \in Open
    BY OpenPoints
  <2> QED BY <1>1, <1>2, <2>1, GotoOpen
<1>11. LifeHolds(r, pc', on, exists)
  <2>1. /\ SamePlaces(pc, pc') /\ pc' \in [Thread -> Pcs] /\ CoreOK(r, Off(pc, on))
        /\ \A v \in Thread : r.stat[v] = k.stat[v] \/ Lives(k, r, pc, on, v)
        /\ r.cur = k.cur /\ k.cur # Idle /\ pc'[k.cur] # "suspend" /\ r.stat[k.cur] = "READY"
    BY <1>2, <1>5, <1>8, <1>9, <1>10
  <2>2. \A q \in Queue : r.wait[q] = k.wait[q]
    BY <1>5
  <2> QED BY ONLY <1>2, <1>7, <2>1, <2>2, QuietStep
<1>12. NoneRises
  BY <1>1, <1>8 DEF NoneRises
<1>13. LifeInv'
  BY <1>1, <1>2, <1>11 DEF LifeInv, lvars
<1> QED BY <1>12, <1>13

\* The timer of a sleeping thread fires: the thread is suspended, so it is in no
\* window and nobody deletes it.
LEMMA TimeoutKeeps ==
    ASSUME RolesApart, LifeInv, NEW t \in Thread, TimeoutStep(t)
    PROVE  LifeInv' /\ NoneRises
<1> DEFINE F == Off(pc, on)
           r == rt_thread_timeout(k, t)
<1>1. /\ LifeHolds(k, pc, on, exists) /\ pc \in [Thread -> Pcs] /\ fault = FALSE
      /\ k \in KernelState /\ CoreOK(k, F) /\ TimersSuspended(k)
      /\ WindowsHold(k, pc, on, exists) /\ RolesHold(k, exists) /\ CurrentHolds(k, pc, on)
  BY DEF LifeInv, LifeHolds, CoreOK
<1>2. t \in k.timer => k.stat[t] = "SUSPEND"
  BY <1>1 DEF TimersSuspended
<1>3. /\ t \in k.timer /\ k.stat[t] = "SUSPEND" /\ k' = r /\ pc' = pc
      /\ on' = on /\ exists' = exists /\ fault' = fault
  BY <1>2 DEF TimeoutStep, Timeout
<1>4. t \notin Victim
  BY <1>1, <1>3 DEF RolesHold
<1>5. t \notin F /\ \A v \in Thread : pc[v] \in DeletePoint => on[v] # t
  BY <1>1, <1>4, NoTarget
<1>6. \A q \in Queue : t \notin ToSet(k.wait[q])
  BY <1>1, <1>3, Living
<1>7. /\ CoreOK(r, F) /\ r.stat = [k.stat EXCEPT ![t] = "READY"] /\ r.prio = k.prio
      /\ \A q \in Queue : r.wait[q] = k.wait[q]
      /\ r.lock = k.lock
      /\ k.lock # 0 => r.cur = k.cur
      /\ k.lock = 0 => Chosen(r, F, r.cur)
  BY <1>1, <1>3, <1>5, <1>6, CoreTimeout
<1> HIDE DEF r
<1>8. k.stat \in [Thread -> Stat]
  BY <1>1 DEF KernelState
<1>9. r.stat[t] = "READY" /\ \A u \in Thread \ {t} : r.stat[u] = k.stat[u]
  BY <1>7, <1>8
<1>10. Lives(k, r, pc, on, t)
  BY <1>3, <1>5, <1>9 DEF Lives
<1>11. /\ WindowsHold(r, pc, on, exists) /\ IdleHolds(r, pc, on, exists)
       /\ DeadHeld(r, pc, on, exists) /\ RolesHold(r, exists)
  <2>1. /\ r.wait[rt_thread_defunct] = k.wait[rt_thread_defunct]
        /\ \A u \in Thread : r.stat[u] = k.stat[u] \/ Lives(k, r, pc, on, u)
        /\ \A u \in Thread : r.prio[u] = k.prio[u] \/ (u # Idle /\ r.prio[u] # Lowest)
        /\ SamePlaces(pc, pc)
    BY <1>7, <1>9, <1>10, LifecycleAssumption DEF SamePlaces
  <2> QED BY ONLY <1>1, <2>1, Quiet
<1>12. CurrentHolds(r, pc, on)
  <2>1. CASE k.lock = 0
    BY <1>7, <1>11, <2>1, ChosenCurrent
  <2>2. CASE k.lock # 0
    <3>1. k.cur \in Thread /\ k.stat[k.cur] = "READY"
      BY <1>1, <2>2, Running
    <3>2. r.cur = k.cur /\ r.stat[k.cur] = "READY" /\ k.cur # Idle
      BY <1>1, <1>7, <1>9, <2>2, <3>1 DEF CurrentHolds
    <3> QED BY <1>1, <1>7, <2>2, <3>2 DEF CurrentHolds
  <2> QED BY <2>1, <2>2
<1>13. LifeHolds(r, pc, on, exists)
  BY <1>1, <1>7, <1>11, <1>12 DEF LifeHolds
<1>14. NoneRises
  BY <1>3, <1>9 DEF NoneRises
<1>15. LifeInv'
  BY <1>1, <1>3, <1>13 DEF LifeInv
<1> QED BY <1>14, <1>15

\* rt_thread_create or rt_thread_init: an object that does not exist is dead and
\* nobody's target.
LEMMA CreateKeeps ==
    ASSUME RolesApart, LifeInv, NEW t \in Thread, NEW u \in Thread, Create(t, u)
    PROVE  LifeInv' /\ NoneRises
<1> DEFINE F == Off(pc, on)
           r == [k EXCEPT !.stat[u] = "INIT", !.prio[u] = init_priority[u],
                          !.number[u] = 0, !.number_mask[u] = {}, !.high_mask[u] = {},
                          !.error[u] = "EOK"]
<1>1. /\ Calls(t) /\ u \notin exists /\ ~BeingDeleted(u) /\ exists' = exists \cup {u}
      /\ k' = r /\ pc' = [pc EXCEPT ![u] = "run"] /\ on' = on /\ fault' = fault
  BY DEF Create
<1>2. /\ LifeHolds(k, pc, on, exists) /\ pc \in [Thread -> Pcs] /\ on \in [Thread -> Thread]
      /\ k \in KernelState /\ CoreOK(k, F) /\ fault = FALSE /\ k.cur = t /\ t # Idle
      /\ pc[t] = "run" /\ k.stat[t] = "READY" /\ t \notin F
  BY <1>1, Caller
<1>3. /\ WindowsHold(k, pc, on, exists) /\ IdleHolds(k, pc, on, exists)
      /\ DeadHeld(k, pc, on, exists) /\ RolesHold(k, exists) /\ CurrentHolds(k, pc, on)
      /\ exists \subseteq Thread
  BY <1>2 DEF LifeHolds
<1>4. k.stat[u] = "CLOSE" /\ u # t
  BY <1>1, <1>2, <1>3 DEF RolesHold
<1>5. u # Idle
  BY <1>2, <1>4, CoreFacts
<1>6. \A v \in Thread : pc[v] \in DeletePoint => on[v] # u
  BY <1>1 DEF BeingDeleted
<1>7. pc[u] \in Open
  BY <1>2, <1>3, <1>4, <1>5 DEF WindowsHold, IdleHolds, Open
<1>8. pc' \in [Thread -> Pcs] /\ SamePlaces(pc, pc')
  <2>1. "run" \in Open
    BY OpenPoints
  <2> QED BY <1>1, <1>2, <1>5, <1>7, <2>1, GotoOpen
<1>9. 0 \in Number /\ init_priority[u] \in Prio /\ init_priority[u] # Lowest
  BY <1>5, PrioAssumption, ThreadAssumption DEF Number, NumberOf, Prio, Lowest
<1>10. /\ r \in KernelState
       /\ r.ready = k.ready /\ r.table = k.table /\ r.group = k.group /\ r.wait = k.wait
       /\ r.timer = k.timer /\ r.cur = k.cur /\ r.lock = k.lock
       /\ r.stat[u] = "INIT" /\ r.prio[u] = init_priority[u]
       /\ r.number[u] = 0 /\ r.number_mask[u] = {} /\ r.high_mask[u] = {}
       /\ \A v \in Thread \ {u} :
             /\ r.stat[v] = k.stat[v] /\ r.prio[v] = k.prio[v] /\ r.number[v] = k.number[v]
             /\ r.number_mask[v] = k.number_mask[v] /\ r.high_mask[v] = k.high_mask[v]
  <2>1. /\ [k.stat EXCEPT ![u] = "INIT"] \in [Thread -> Stat]
        /\ [k.prio EXCEPT ![u] = init_priority[u]] \in [Thread -> Prio]
        /\ [k.number EXCEPT ![u] = 0] \in [Thread -> Number]
        /\ [k.number_mask EXCEPT ![u] = {}] \in [Thread -> SUBSET Number]
        /\ [k.high_mask EXCEPT ![u] = {}] \in [Thread -> SUBSET (0 .. 7)]
        /\ [k.error EXCEPT ![u] = "EOK"] \in [Thread -> Error]
    BY <1>2, <1>9 DEF KernelState, Stat, Error
  <2>2. r \in KernelState
    BY <1>2, <2>1 DEF KernelState
  <2>3. /\ r.ready = k.ready /\ r.table = k.table /\ r.group = k.group /\ r.wait = k.wait
        /\ r.timer = k.timer /\ r.cur = k.cur /\ r.lock = k.lock
        /\ r.stat = [k.stat EXCEPT ![u] = "INIT"]
        /\ r.prio = [k.prio EXCEPT ![u] = init_priority[u]]
        /\ r.number = [k.number EXCEPT ![u] = 0]
        /\ r.number_mask = [k.number_mask EXCEPT ![u] = {}]
        /\ r.high_mask = [k.high_mask EXCEPT ![u] = {}]
    BY <1>2 DEF KernelState
  <2>4. /\ k.stat \in [Thread -> Stat] /\ k.prio \in [Thread -> Prio]
        /\ k.number \in [Thread -> Number] /\ k.number_mask \in [Thread -> SUBSET Number]
        /\ k.high_mask \in [Thread -> SUBSET (0 .. 7)]
    BY <1>2 DEF KernelState
  <2> HIDE DEF r
  <2> QED BY <2>2, <2>3, <2>4
<1> HIDE DEF r
<1>11. WaitDistinct(r) /\ MasksSane(r) /\ TimersSuspended(r)
  <2>1. k.timer \subseteq Thread /\ u \notin k.timer
    BY <1>2, <1>4 DEF CoreOK, TimersSuspended, KernelState
  <2>2. TimersSuspended(r)
    BY <1>2, <1>10, <2>1 DEF CoreOK, TimersSuspended
  <2> QED BY <1>2, <1>10, <2>2 DEF CoreOK, WaitDistinct, MasksSane
<1>12. CoreOK(r, F)
  <2>1. k.stat[u] # "READY" /\ r.stat[u] # "READY" /\ r.stat[u] # "SUSPEND"
    BY <1>4, <1>10
  <2> QED BY <1>2, <1>10, <1>11, <2>1, CoreRenew
<1>13. \A v \in Thread : /\ pc'[v] \in Windows \cup {"free"} => pc'[v] = pc[v]
                         /\ pc[v] \in Windows \cup {"free"} => pc'[v] = pc[v]
  BY <1>8 DEF SamePlaces, Open
<1>14. \A v \in Thread : pc'[v] \in DeletePoint \/ pc[v] \in DeletePoint => pc'[v] = pc[v]
  BY <1>13 DEF Windows
<1>15. Off(pc', on) = F
  BY <1>14 DEF Off
<1>16. WindowsHold(r, pc', on, exists')
  <2>1. ASSUME NEW v \in Thread, pc'[v] \in Windows
        PROVE  v \in Manager \ {Idle} /\ r.stat[v] = "READY"
    <3>1. v \in Manager \ {Idle} /\ k.stat[v] = "READY"
      BY <1>3, <1>13, <2>1 DEF WindowsHold
    <3> QED BY <1>4, <1>10, <3>1
  <2>2. ASSUME NEW v \in Thread, pc'[v] \in {"suspend", "resume"}
        PROVE  on[v] \in Controlled /\ r.stat[on[v]] # "INIT"
    <3>1. on[v] \in Controlled /\ k.stat[on[v]] # "INIT" /\ on[v] \in Thread
      BY <1>2, <1>3, <1>13, <2>2 DEF WindowsHold, Windows
    <3>2. on[v] # u
      BY <1>3, <1>4, <3>1 DEF RolesHold
    <3> QED BY <1>10, <3>1, <3>2
  <2>3. ASSUME NEW v \in Thread, pc'[v] \in DeletePoint
        PROVE  /\ on[v] \in Victim \ {v} /\ (on[v] \in exists' \/ DetachedAtOnce(on[v]))
               /\ pc'[v] = "delete_remove" => r.stat[on[v]] \in {"READY", "CLOSE"}
               /\ pc'[v] = "delete_end" => r.stat[on[v]] = "CLOSE"
    <3>1. pc'[v] = pc[v] /\ pc[v] \in DeletePoint /\ on[v] \in Thread /\ on[v] # u
      BY <1>2, <1>6, <1>14, <2>3
    <3>2. r.stat[on[v]] = k.stat[on[v]]
      BY <1>10, <3>1
    <3> QED BY <1>1, <1>3, <3>1, <3>2 DEF WindowsHold
  <2>4. ASSUME NEW v \in Thread, NEW y \in Thread, pc'[v] \in DeletePoint,
               pc'[y] \in DeletePoint, on[v] = on[y]
        PROVE  v = y
    BY <1>3, <1>14, <2>4 DEF WindowsHold
  <2> QED BY <2>1, <2>2, <2>3, <2>4 DEF WindowsHold
<1>17. IdleHolds(r, pc', on, exists')
  <2>1. pc'[Idle] = pc[Idle] /\ Idle \in Thread /\ on[Idle] \in Thread
    BY <1>2, <1>8, ThreadAssumption DEF SamePlaces
  <2>2. ASSUME pc'[Idle] = "free"
        PROVE  /\ on[Idle] \in exists' \ Static /\ r.stat[on[Idle]] = "CLOSE"
               /\ \A v \in Thread : pc'[v] \in DeletePoint => on[v] # on[Idle]
    <3>1. /\ on[Idle] \in exists \ Static /\ k.stat[on[Idle]] = "CLOSE"
          /\ \A v \in Thread : pc[v] \in DeletePoint => on[v] # on[Idle]
      BY <1>3, <2>1, <2>2 DEF IdleHolds
    <3>2. on[Idle] # u
      BY <1>1, <3>1
    <3> QED BY <1>1, <1>10, <1>14, <2>1, <3>1, <3>2
  <2>3. \A v \in Thread : pc'[v] = "free" => v = Idle
    BY <1>3, <1>13 DEF IdleHolds
  <2> QED BY <1>3, <2>1, <2>2, <2>3 DEF IdleHolds
<1>18. DeadHeld(r, pc', on, exists')
  <2>1. pc'[Idle] = pc[Idle]
    BY <1>8, ThreadAssumption DEF SamePlaces
  <2>2. u \notin ToSet(r.wait[rt_thread_defunct]) /\ r.stat[u] # "CLOSE"
    BY <1>1, <1>3, <1>10 DEF DeadHeld
  <2> QED BY <1>1, <1>3, <1>10, <1>15, <2>1, <2>2 DEF DeadHeld
<1>19. CurrentHolds(r, pc', on)
  <2>1. r.stat[t] = "READY" /\ r.cur = t /\ t \notin Off(pc', on) /\ pc'[t] = "run"
    BY <1>1, <1>2, <1>4, <1>10, <1>15
  <2> QED BY <1>2, <2>1 DEF CurrentHolds
<1>20. RolesHold(r, exists')
  <2>1. \A v \in Thread : r.prio[v] = Lowest <=> v = Idle
    BY <1>3, <1>5, <1>9, <1>10 DEF RolesHold
  <2>2. \A v \in Thread : r.stat[v] = k.stat[v] \/ r.stat[v] = "INIT"
    BY <1>10
  <2>3. Victim \subseteq Thread /\ Controlled \subseteq Thread
    BY LifecycleAssumption
  <2>4. \A v \in Thread \ exists' : r.stat[v] = "CLOSE"
    BY <1>1, <1>3, <1>10 DEF RolesHold
  <2> QED BY <1>3, <2>1, <2>2, <2>3, <2>4 DEF RolesHold
<1>21. LifeHolds(r, pc', on, exists')
  BY <1>1, <1>2, <1>3, <1>8, <1>12, <1>15, <1>16, <1>17, <1>18, <1>19, <1>20 DEF LifeHolds
<1>22. NoneRises
  BY <1>1, <1>10 DEF NoneRises
<1>23. LifeInv'
  BY <1>1, <1>2, <1>21 DEF LifeInv
<1> QED BY <1>22, <1>23

\* Putting a dead thread that is on no list at the front of rt_thread_defunct.
LEMMA CoreBury ==
    ASSUME NEW s, NEW F, CoreOK(s, F), NEW u \in Thread, s.stat[u] = "CLOSE",
           u \notin ToSet(s.wait[rt_thread_defunct])
    PROVE  LET r == Bury(s, u) IN
           /\ CoreOK(r, F) /\ r.stat = s.stat /\ r.prio = s.prio /\ r.timer = s.timer
           /\ r.cur = s.cur /\ r.lock = s.lock
           /\ ToSet(r.wait[rt_thread_defunct]) =
                 IF DetachedAtOnce(u) THEN ToSet(s.wait[rt_thread_defunct])
                                      ELSE ToSet(s.wait[rt_thread_defunct]) \cup {u}
<1> DEFINE q == rt_thread_defunct
           r == rt_thread_defunct_enqueue(s, u)
<1>1. s \in KernelState /\ WaitDistinct(s) /\ TimersSuspended(s) /\ q \in Queue
  BY LifecycleAssumption DEF CoreOK
<1>2. CASE DetachedAtOnce(u)
  BY <1>2 DEF Bury
<1>3. CASE ~DetachedAtOnce(u)
  <2> DEFINE w == <<u>> \o s.wait[q]
  <2>1. s.wait[q] \in Seq(Thread) /\ s.wait \in [Queue -> Seq(Thread)]
    BY <1>1 DEF KernelState
  <2> DEFINE d == s.wait[q]
  <2>2. /\ w \in Seq(Thread) /\ Len(w) = Len(d) + 1 /\ Len(d) \in Nat
        /\ DOMAIN w = 1 .. Len(w) /\ DOMAIN d = 1 .. Len(d) /\ w[1] = u
        /\ \A i \in 1 .. Len(d) : w[i + 1] = d[i]
        /\ \A i \in 2 .. Len(w) : i - 1 \in 1 .. Len(d) /\ w[i] = d[i - 1]
    BY <2>1
  <2> HIDE DEF w, d
  <2>3. ToSet(w) = ToSet(d) \cup {u}
    <3>1. ASSUME NEW i \in DOMAIN w PROVE w[i] \in ToSet(d) \cup {u}
      <4>1. CASE i = 1
        BY <2>2, <4>1
      <4>2. CASE i # 1
        <5>1. i \in 2 .. Len(w)
          BY <2>2, <4>2
        <5> QED BY <2>2, <5>1 DEF ToSet
      <4> QED BY <4>1, <4>2
    <3>2. ASSUME NEW i \in DOMAIN d PROVE d[i] \in ToSet(w)
      <4>1. i + 1 \in DOMAIN w /\ w[i + 1] = d[i]
        BY <2>2
      <4> QED BY <4>1 DEF ToSet
    <3>3. u \in ToSet(w)
      <4>1. 1 \in DOMAIN w
        BY <2>2
      <4> QED BY <2>2, <4>1 DEF ToSet
    <3> QED BY <3>1, <3>2, <3>3 DEF ToSet
  <2>3a. IsInjective(w)
    <3>1. IsInjective(d) /\ u \notin ToSet(d)
      BY <1>1 DEF WaitDistinct, d
    <3>2. \A i \in 1 .. Len(d) : d[i] # u
      BY <2>2, <3>1 DEF ToSet
    <3>3. \A i, j \in 1 .. Len(d) : d[i] = d[j] => i = j
      BY <2>2, <3>1 DEF IsInjective
    <3>4. ASSUME NEW i \in 1 .. Len(w), NEW j \in 1 .. Len(w), w[i] = w[j] PROVE i = j
      <4>1. i = 1 \/ i \in 2 .. Len(w)
        BY <2>2
      <4>2. j = 1 \/ j \in 2 .. Len(w)
        BY <2>2
      <4>3. CASE i \in 2 .. Len(w) /\ j \in 2 .. Len(w)
        <5>1. /\ i - 1 \in 1 .. Len(d) /\ j - 1 \in 1 .. Len(d)
              /\ d[i - 1] = d[j - 1]
          BY <2>2, <3>4, <4>3
        <5>2. i - 1 = j - 1
          BY <3>3, <5>1
        <5> QED BY <5>2
      <4>4. CASE i = 1 /\ j \in 2 .. Len(w)
        BY <2>2, <3>2, <3>4, <4>4
      <4>5. CASE i \in 2 .. Len(w) /\ j = 1
        BY <2>2, <3>2, <3>4, <4>5
      <4> QED BY <4>1, <4>2, <4>3, <4>4, <4>5
    <3> QED BY <2>2, <3>4 DEF IsInjective
  <2>4. r = [s EXCEPT !.wait[q] = w]
    BY <1>1, <2>1 DEF rt_thread_defunct_enqueue, KernelState, w
  <2>5. \A y \in Seq(Thread) :
           LET z == [s EXCEPT !.wait[q] = y] IN
           /\ z \in KernelState /\ SameSched(z, s) /\ z.stat = s.stat /\ z.prio = s.prio
           /\ z.timer = s.timer /\ z.cur = s.cur /\ z.lock = s.lock
           /\ z.wait = [s.wait EXCEPT ![q] = y]
    BY <1>1 DEF KernelState, SameSched
  <2>6. /\ r \in KernelState /\ SameSched(r, s) /\ r.stat = s.stat /\ r.prio = s.prio
        /\ r.timer = s.timer /\ r.cur = s.cur /\ r.lock = s.lock
        /\ r.wait = [s.wait EXCEPT ![q] = w]
    BY <2>2, <2>4, <2>5
  <2> HIDE DEF r
  <2>7. r.wait[q] = w /\ \A y \in Queue \ {q} : r.wait[y] = s.wait[y]
    BY <1>1, <2>1, <2>6
  <2>8. WaitDistinct(r) /\ TimersSuspended(r)
    BY <1>1, <2>3a, <2>6, <2>7 DEF WaitDistinct, TimersSuspended
  <2>9. Seen(r, F) = Seen(s, F)
    BY <2>6, SeenSame
  <2>10. CoreOK(r, F)
    BY <2>6, <2>8, <2>9, CoreFrame
  <2>11. Bury(s, u) = r
    BY <1>3 DEF Bury, r
  <2> QED BY <1>3, <2>3, <2>6, <2>7, <2>10, <2>11 DEF d
<1> QED BY <1>2, <1>3

\* Changing the lock keeps the core consistent.
LEMMA CoreLock ==
    ASSUME NEW s, NEW F, CoreOK(s, F), NEW n \in Nat
    PROVE  LET r == [s EXCEPT !.lock = n] IN
           /\ CoreOK(r, F) /\ r.stat = s.stat /\ r.prio = s.prio /\ r.wait = s.wait
           /\ r.timer = s.timer /\ r.cur = s.cur /\ r.lock = n
<1> DEFINE r == [s EXCEPT !.lock = n]
<1>1. s \in KernelState /\ WaitDistinct(s) /\ TimersSuspended(s)
  BY DEF CoreOK
<1>2. /\ r \in KernelState /\ SameSched(r, s) /\ r.stat = s.stat /\ r.prio = s.prio
      /\ r.wait = s.wait /\ r.timer = s.timer /\ r.cur = s.cur /\ r.lock = n
  BY <1>1 DEF KernelState, SameSched
<1> HIDE DEF r
<1>3. WaitDistinct(r) /\ TimersSuspended(r)
  BY <1>1, <1>2 DEF WaitDistinct, TimersSuspended
<1>4. Seen(r, F) = Seen(s, F)
  BY <1>2, SeenSame
<1>5. CoreOK(r, F)
  BY <1>2, <1>3, <1>4, CoreFrame
<1> QED BY <1>2, <1>5 DEF r

\* The death of a thread off the ready lists: its timer is stopped, its state is
\* CLOSE.
LEMMA CoreDie ==
    ASSUME NEW s, NEW F, NEW t \in Thread, t \notin F, CoreOK(s, F \cup {t})
    PROVE  LET r == [s EXCEPT !.stat[t] = "CLOSE", !.timer = @ \ {t}] IN
           /\ CoreOK(r, F) /\ r.stat = [s.stat EXCEPT ![t] = "CLOSE"]
           /\ r.prio = s.prio /\ r.wait = s.wait /\ r.cur = s.cur /\ r.lock = s.lock
<1> DEFINE G == F \cup {t}
           r == [s EXCEPT !.stat[t] = "CLOSE", !.timer = @ \ {t}]
<1>1. s \in KernelState /\ WaitDistinct(s) /\ TimersSuspended(s)
  BY DEF CoreOK
<1>2. /\ r \in KernelState /\ SameSched(r, s) /\ r.stat = [s.stat EXCEPT ![t] = "CLOSE"]
      /\ r.prio = s.prio /\ r.wait = s.wait /\ r.timer = s.timer \ {t}
      /\ r.cur = s.cur /\ r.lock = s.lock
  BY <1>1 DEF KernelState, SameSched, Stat
<1>3. s.stat \in [Thread -> Stat] /\ s.timer \subseteq Thread
  BY <1>1 DEF KernelState
<1> HIDE DEF r
<1>4. r.stat[t] = "CLOSE" /\ \A u \in Thread \ {t} : r.stat[u] = s.stat[u]
  BY <1>2, <1>3
<1>5. WaitDistinct(r) /\ TimersSuspended(r)
  BY <1>1, <1>2, <1>3, <1>4 DEF WaitDistinct, TimersSuspended
<1>6. \A u \in Thread : \/ Seen(r, F)[u] = Seen(s, G)[u]
                        \/ Seen(s, G)[u] # "READY" /\ Seen(r, F)[u] = "INIT"
  <2>1. \A u \in Thread \ {t} : Seen(r, F)[u] = Seen(s, G)[u]
    BY <1>4 DEF Seen
  <2>2. Seen(s, G)[t] # "READY" /\ Seen(r, F)[t] = "INIT"
    BY <1>4 DEF Seen
  <2> QED BY <2>1, <2>2
<1>7. CoreOK(r, F)
  BY <1>2, <1>5, <1>6, CoreFrame
<1> QED BY <1>2, <1>7 DEF r

\* rt_thread_exit: the thread that exits is in no window, and whoever has begun
\* to delete it has not taken it off the lists yet.
LEMMA ExitKeeps ==
    ASSUME RolesApart, LifeInv, NEW t \in Thread, rt_thread_exit(t)
    PROVE  LifeInv' /\ NoneRises
<1> DEFINE F == Off(pc, on)
           e == rt_enter_critical(k)
           m == rt_schedule_remove_thread(e, t)
           d == [m EXCEPT !.stat[t] = "CLOSE", !.timer = @ \ {t}]
           b == Bury(d, t)
           l == [b EXCEPT !.lock = 0]
           r == rt_schedule(l)
           q == rt_thread_defunct
<1>1. /\ t \in Exiter /\ Calls(t) /\ k.lock = 0 /\ k' = rt_exit_critical(b)
      /\ exists' = IF DetachedAtOnce(t) THEN exists \ {t} ELSE exists
      /\ pc' = [pc EXCEPT ![t] = "dead"] /\ on' = on /\ fault' = fault
  BY DEF rt_thread_exit, Goto
<1>2. /\ LifeHolds(k, pc, on, exists) /\ pc \in [Thread -> Pcs] /\ on \in [Thread -> Thread]
      /\ k \in KernelState /\ CoreOK(k, F) /\ fault = FALSE /\ k.cur = t /\ t # Idle
      /\ pc[t] = "run" /\ pc[t] \in Open /\ k.stat[t] = "READY" /\ t \notin F /\ t \in exists
      /\ \A y \in Queue : t \notin ToSet(k.wait[y])
  BY <1>1, Caller
<1>3. /\ WindowsHold(k, pc, on, exists) /\ IdleHolds(k, pc, on, exists)
      /\ DeadHeld(k, pc, on, exists) /\ RolesHold(k, exists) /\ exists \subseteq Thread
  BY <1>2 DEF LifeHolds
<1>4. q \in Queue
  BY LifecycleAssumption
<1>5. /\ CoreOK(e, F) /\ e.stat = k.stat /\ e.prio = k.prio /\ e.wait = k.wait /\ e.lock = 1
  <2>1. e = [k EXCEPT !.lock = 1]
    BY <1>1, <1>2 DEF rt_enter_critical, KernelState
  <2> HIDE DEF e
  <2> QED BY <1>2, <2>1, CoreLock
<1> HIDE DEF e
<1>6. /\ CoreOK(m, F \cup {t}) /\ m.stat = k.stat /\ m.prio = k.prio /\ m.lock = 1
      /\ \A y \in Queue : m.wait[y] = k.wait[y]
  <2>1. /\ e.stat[t] = "READY" /\ t \in Thread \ {Idle}
        /\ \A y \in Queue : t \notin ToSet(e.wait[y])
    BY <1>2, <1>5
  <2>2. /\ CoreOK(m, F \cup {t}) /\ m.stat = e.stat /\ m.prio = e.prio
        /\ \A y \in Queue : m.wait[y] = e.wait[y]
        /\ m.lock = e.lock
    BY <1>2, <1>5, <2>1, CoreRemove
  <2> QED BY <1>5, <2>2
<1> HIDE DEF m
<1>7. /\ CoreOK(d, F) /\ d.stat = [k.stat EXCEPT ![t] = "CLOSE"] /\ d.prio = k.prio
      /\ d.wait = m.wait /\ d.lock = 1
  <2>1. /\ CoreOK(d, F) /\ d.stat = [m.stat EXCEPT ![t] = "CLOSE"] /\ d.prio = m.prio
        /\ d.wait = m.wait /\ d.lock = m.lock
    <3>1. t \in Thread /\ t \notin F /\ CoreOK(m, F \cup {t})
      BY <1>2, <1>6
    <3> HIDE DEF F
    <3> QED BY ONLY <3>1, CoreDie, ZenonT(60)
  <2> QED BY <1>6, <2>1
<1> HIDE DEF d
<1>8. k.stat \in [Thread -> Stat]
  BY <1>2 DEF KernelState
<1>9. d.stat[t] = "CLOSE" /\ \A u \in Thread \ {t} : d.stat[u] = k.stat[u]
  BY <1>7, <1>8
<1>10. d.wait[q] = k.wait[q] /\ t \notin ToSet(d.wait[q])
  BY <1>2, <1>4, <1>6, <1>7
<1>11. /\ CoreOK(b, F) /\ b.stat = d.stat /\ b.prio = d.prio /\ b.lock = d.lock
       /\ ToSet(b.wait[q]) = IF DetachedAtOnce(t) THEN ToSet(d.wait[q])
                             ELSE ToSet(d.wait[q]) \cup {t}
  BY <1>7, <1>9, <1>10, CoreBury
<1> HIDE DEF b
<1>12. /\ CoreOK(l, F) /\ l.stat = b.stat /\ l.prio = b.prio /\ l.wait = b.wait /\ l.lock = 0
  BY <1>11, CoreLock
<1>13. k' = r
  BY <1>1, <1>7, <1>11 DEF rt_exit_critical
<1> HIDE DEF l
<1>14. /\ CoreOK(r, F) /\ r.stat = l.stat /\ r.prio = l.prio /\ r.wait = l.wait /\ r.lock = 0
       /\ Chosen(r, F, r.cur)
  BY <1>12, CoreSchedule DEF Keeps
<1> HIDE DEF r
<1>15. /\ r.stat[t] = "CLOSE" /\ \A u \in Thread \ {t} : r.stat[u] = k.stat[u]
  BY <1>9, <1>11, <1>12, <1>14
<1>16. r.prio = k.prio
  BY <1>7, <1>11, <1>12, <1>14
<1>17. ToSet(r.wait[q]) = IF DetachedAtOnce(t) THEN ToSet(k.wait[q])
                          ELSE ToSet(k.wait[q]) \cup {t}
  BY <1>10, <1>11, <1>12, <1>14
<1>18. pc' \in [Thread -> Pcs] /\ SamePlaces(pc, pc')
  <2>1. "dead" \in Open
    BY OpenPoints
  <2> QED BY <1>1, <1>2, <2>1, GotoOpen
<1>19. \A v \in Thread : /\ pc'[v] \in Windows \cup {"free"} => pc'[v] = pc[v]
                         /\ pc[v] \in Windows \cup {"free"} => pc'[v] = pc[v]
  BY <1>18 DEF SamePlaces, Open
<1>20. \A v \in Thread : pc'[v] \in DeletePoint \/ pc[v] \in DeletePoint => pc'[v] = pc[v]
  BY <1>19 DEF Windows
<1>21. Off(pc', on) = F /\ pc'[Idle] = pc[Idle]
  BY <1>18, <1>20, ThreadAssumption DEF Off, SamePlaces
<1>22. \A v \in Thread : v \in exists \/ DetachedAtOnce(v) => v \in exists' \/ DetachedAtOnce(v)
  BY <1>1
<1>23. WindowsHold(r, pc', on, exists')
  <2>1. ASSUME NEW v \in Thread, pc'[v] \in Windows
        PROVE  v \in Manager \ {Idle} /\ r.stat[v] = "READY"
    <3>1. v \in Manager \ {Idle} /\ k.stat[v] = "READY" /\ pc[v] \in Windows
      BY <1>3, <1>19, <2>1 DEF WindowsHold
    <3>2. v # t
      BY <1>2, <3>1 DEF Open
    <3> QED BY <1>15, <3>1, <3>2
  <2>2. ASSUME NEW v \in Thread, pc'[v] \in {"suspend", "resume"}
        PROVE  on[v] \in Controlled /\ r.stat[on[v]] # "INIT"
    <3>1. on[v] \in Controlled /\ k.stat[on[v]] # "INIT" /\ on[v] \in Thread
      BY <1>2, <1>3, <1>19, <2>2 DEF WindowsHold, Windows
    <3> QED BY <1>15, <3>1
  <2>3. ASSUME NEW v \in Thread, pc'[v] \in DeletePoint
        PROVE  /\ on[v] \in Victim \ {v} /\ (on[v] \in exists' \/ DetachedAtOnce(on[v]))
               /\ pc'[v] = "delete_remove" => r.stat[on[v]] \in {"READY", "CLOSE"}
               /\ pc'[v] = "delete_end" => r.stat[on[v]] = "CLOSE"
    <3>1. pc'[v] = pc[v] /\ pc[v] \in DeletePoint /\ on[v] \in Thread
      BY <1>2, <1>20, <2>3
    <3>2. /\ on[v] \in Victim \ {v} /\ (on[v] \in exists \/ DetachedAtOnce(on[v]))
          /\ pc[v] = "delete_remove" => k.stat[on[v]] \in {"READY", "CLOSE"}
          /\ pc[v] = "delete_end" => k.stat[on[v]] = "CLOSE"
      BY <1>3, <3>1 DEF WindowsHold
    <3>3. r.stat[on[v]] = k.stat[on[v]] \/ r.stat[on[v]] = "CLOSE"
      BY <1>15, <3>1
    <3>4. k.stat[on[v]] = "CLOSE" => r.stat[on[v]] = "CLOSE"
      BY <3>3
    <3> QED BY <1>22, <3>1, <3>2, <3>3, <3>4
  <2>4. ASSUME NEW v \in Thread, NEW y \in Thread, pc'[v] \in DeletePoint,
               pc'[y] \in DeletePoint, on[v] = on[y]
        PROVE  v = y
    BY <1>3, <1>20, <2>4 DEF WindowsHold
  <2> QED BY <2>1, <2>2, <2>3, <2>4 DEF WindowsHold
<1>24. IdleHolds(r, pc', on, exists') /\ (pc[Idle] = "free" => on[Idle] # t)
  <2>1. ASSUME pc'[Idle] = "free"
        PROVE  /\ on[Idle] \in exists' \ Static /\ r.stat[on[Idle]] = "CLOSE" /\ on[Idle] # t
               /\ \A v \in Thread : pc'[v] \in DeletePoint => on[v] # on[Idle]
    <3>1. /\ on[Idle] \in exists \ Static /\ k.stat[on[Idle]] = "CLOSE"
          /\ \A v \in Thread : pc[v] \in DeletePoint => on[v] # on[Idle]
      BY <1>3, <1>21, <2>1 DEF IdleHolds
    <3>2. on[Idle] # t /\ on[Idle] \in Thread
      BY <1>2, <1>3, <3>1
    <3> QED BY <1>1, <1>15, <1>20, <3>1, <3>2
  <2>2. \A v \in Thread : pc'[v] = "free" => v = Idle
    BY <1>3, <1>19 DEF IdleHolds
  <2> QED BY <1>3, <1>21, <2>1, <2>2 DEF IdleHolds
<1>25. DeadHeld(r, pc', on, exists')
  <2>1. ASSUME NEW v \in Thread \ {t}
        PROVE  v \in ToSet(r.wait[q]) <=>
                  /\ r.stat[v] = "CLOSE" /\ v \in exists' /\ v \notin Off(pc', on)
                  /\ ~(pc'[Idle] = "free" /\ on[Idle] = v)
    <3>1. v \in ToSet(r.wait[q]) <=> v \in ToSet(k.wait[q])
      BY <1>17
    <3>2. v \in exists' <=> v \in exists
      BY <1>1
    <3> QED BY <1>3, <1>15, <1>21, <3>1, <3>2 DEF DeadHeld
  <2>2. t \in ToSet(r.wait[q]) <=> t \in exists'
    BY <1>1, <1>2, <1>4, <1>17
  <2>3. r.stat[t] = "CLOSE" /\ t \notin Off(pc', on) /\ ~(pc'[Idle] = "free" /\ on[Idle] = t)
    BY <1>2, <1>15, <1>21, <1>24
  <2> QED BY <2>1, <2>2, <2>3 DEF DeadHeld
<1>26. RolesHold(r, exists')
  <2>1. \A v \in Thread : r.prio[v] = Lowest <=> v = Idle
    BY <1>3, <1>16 DEF RolesHold
  <2>2. \A v \in Victim : v \in Thread /\ r.stat[v] # "SUSPEND"
    BY <1>3, <1>15, LifecycleAssumption DEF RolesHold
  <2>3. \A v \in Controlled : v \in Thread /\ v # t /\ r.stat[v] # "CLOSE"
    BY <1>1, <1>3, <1>15, LifecycleAssumption DEF RolesHold, RolesApart
  <2>4. \A v \in Thread \ exists' : r.stat[v] = "CLOSE"
    BY <1>1, <1>3, <1>15 DEF RolesHold
  <2> QED BY <2>1, <2>2, <2>3, <2>4 DEF RolesHold
<1>27. CurrentHolds(r, pc', on)
  <2>1. CoreOK(r, Off(pc', on)) /\ Chosen(r, Off(pc', on), r.cur) /\ r.lock = 0
    BY <1>14, <1>21
  <2> QED BY <1>23, <1>26, <2>1, ChosenCurrent
<1>28. LifeHolds(r, pc', on, exists')
  <2>1. exists' \subseteq Thread
    BY <1>1, <1>3
  <2>2. CoreOK(r, Off(pc', on))
    BY <1>14, <1>21
  <2> QED BY <1>2, <1>18, <1>23, <1>24, <1>25, <1>26, <1>27, <2>1, <2>2 DEF LifeHolds
<1>29. NoneRises
  BY <1>13, <1>15 DEF NoneRises
<1>30. LifeInv'
  BY <1>1, <1>2, <1>13, <1>28 DEF LifeInv
<1> QED BY <1>29, <1>30

\* A manager enters a window: it has tested the state of its target.
LEMMA EnterWindow ==
    ASSUME RolesApart, NEW s, NEW c, NEW o, NEW x, LifeHolds(s, c, o, x),
           NEW t \in Thread, s.cur = t, t \in Manager \ {Idle}, s.stat[t] = "READY", c[t] = "run",
           t \notin Off(c, o), NEW u \in Thread, u \in x, s.stat[u] # "CLOSE",
           \A v \in Thread : c[v] \in DeletePoint => o[v] # u,
           NEW e \in {"suspend", "resume", "delete_remove", "delete_timer"},
           e \in {"suspend", "resume"} => u \in Controlled /\ s.stat[u] # "INIT",
           e = "suspend" /\ u = t => s.lock = 0,
           e \in {"delete_remove", "delete_timer"} => u \in Victim \ {t},
           e = "delete_remove" => s.stat[u] = "READY",
           e = "delete_timer" => s.stat[u] = "INIT"
    PROVE  LifeHolds(s, [c EXCEPT ![t] = e], [o EXCEPT ![t] = u], x)
<1> DEFINE d == [c EXCEPT ![t] = e]
           n == [o EXCEPT ![t] = u]
           F == Off(c, o)
<1>1. /\ c \in [Thread -> Pcs] /\ o \in [Thread -> Thread] /\ x \subseteq Thread
      /\ CoreOK(s, F) /\ WindowsHold(s, c, o, x) /\ IdleHolds(s, c, o, x)
      /\ DeadHeld(s, c, o, x) /\ CurrentHolds(s, c, o) /\ RolesHold(s, x)
  BY DEF LifeHolds
<1>2. e \in Pcs /\ e # "free" /\ e # "delete_end" /\ "run" \notin DeletePoint /\ Idle \in Thread
  BY ThreadAssumption DEF Pcs, DeletePoint
<1>3. /\ d \in [Thread -> Pcs] /\ n \in [Thread -> Thread] /\ d[t] = e /\ n[t] = u
      /\ \A v \in Thread \ {t} : d[v] = c[v] /\ n[v] = o[v]
  BY <1>1, <1>2
<1> HIDE DEF d, n
<1>4. \A v \in Thread : v \in Off(d, n) => v \in F \/ (v = u /\ e = "delete_timer")
  BY <1>3 DEF Off, DeletePoint
<1>5. \A v \in Thread : v \in F => v \in Off(d, n)
  <2>1. SUFFICES ASSUME NEW v \in F PROVE v \in Off(d, n)
    BY DEF Off
  <2>2. PICK y \in Thread : c[y] \in DeletePoint \ {"delete_remove"} /\ o[y] = v
    BY <2>1 DEF Off
  <2>3. y # t
    BY <1>2, <2>2
  <2> QED BY <1>3, <2>2, <2>3 DEF Off
<1>6. CoreOK(s, Off(d, n))
  <2>1. /\ SameSched(s, s) /\ s \in KernelState /\ WaitDistinct(s) /\ TimersSuspended(s)
    BY <1>1 DEF CoreOK, SameSched
  <2>2. \A v \in Thread : Seen(s, Off(d, n))[v] = Seen(s, F)[v]
    BY <1>4, <1>5 DEF Seen
  <2> QED BY <1>1, <2>1, <2>2, CoreFrame
<1>7. WindowsHold(s, d, n, x)
  <2>1. ASSUME NEW v \in Thread, d[v] \in Windows
        PROVE  v \in Manager \ {Idle} /\ s.stat[v] = "READY"
    BY <1>1, <1>3, <2>1 DEF WindowsHold
  <2>2. ASSUME NEW v \in Thread, d[v] \in {"suspend", "resume"}
        PROVE  n[v] \in Controlled /\ s.stat[n[v]] # "INIT"
    BY <1>1, <1>3, <2>2 DEF WindowsHold
  <2>3. ASSUME NEW v \in Thread, d[v] \in DeletePoint
        PROVE  /\ n[v] \in Victim \ {v} /\ (n[v] \in x \/ DetachedAtOnce(n[v]))
               /\ d[v] = "delete_remove" => s.stat[n[v]] \in {"READY", "CLOSE"}
               /\ d[v] = "delete_end" => s.stat[n[v]] = "CLOSE"
    <3>1. CASE v = t
      <4>1. e \in {"delete_remove", "delete_timer"}
        BY <1>3, <2>3, <3>1 DEF DeletePoint
      <4> QED BY <1>2, <1>3, <3>1, <4>1
    <3>2. CASE v # t
      BY <1>1, <1>3, <2>3, <3>2 DEF WindowsHold
    <3> QED BY <3>1, <3>2
  <2>4. ASSUME NEW v \in Thread, NEW y \in Thread, d[v] \in DeletePoint,
               d[y] \in DeletePoint, n[v] = n[y]
        PROVE  v = y
    BY <1>1, <1>3, <2>4 DEF WindowsHold
  <2> QED BY <2>1, <2>2, <2>3, <2>4 DEF WindowsHold
<1>8. d[Idle] = c[Idle] /\ n[Idle] = o[Idle]
  BY <1>2, <1>3
<1>9. IdleHolds(s, d, n, x)
  <2>1. \A v \in Thread : d[v] = "free" => v = Idle
    BY <1>1, <1>2, <1>3 DEF IdleHolds
  <2>2. ASSUME d[Idle] = "free", NEW v \in Thread, d[v] \in DeletePoint
        PROVE  n[v] # n[Idle]
    BY <1>1, <1>3, <1>8, <2>2 DEF IdleHolds
  <2> QED BY <1>1, <1>8, <2>1, <2>2 DEF IdleHolds
<1>10. DeadHeld(s, d, n, x)
  BY <1>1, <1>4, <1>5, <1>8 DEF DeadHeld
<1>11. CurrentHolds(s, d, n)
  <2>1. t \notin Off(d, n)
    BY <1>4
  <2> QED BY <1>3, <2>1 DEF CurrentHolds
<1>12. LifeHolds(s, d, n, x)
  BY <1>1, <1>3, <1>6, <1>7, <1>9, <1>10, <1>11 DEF LifeHolds
<1> QED BY <1>12 DEF d, n

\* The tests rt_thread_suspend, rt_thread_resume and rt_thread_delete begin with.
LEMMA TestsKeep ==
    ASSUME RolesApart, LifeInv, NEW t \in Thread, NEW u \in Thread,
           SuspendTest(t, u) \/ ResumeTest(t, u) \/ Delete(t, u)
    PROVE  LifeInv' /\ NoneRises
<1>1. /\ Manages(t, u) /\ on' = [on EXCEPT ![t] = u] /\ k' = k /\ exists' = exists
      /\ fault' = fault /\ k.stat[u] # "CLOSE"
  BY DEF SuspendTest, ResumeTest, Delete
<1>2. /\ t \in Manager /\ Calls(t) /\ u \in exists
      /\ \A v \in Thread : pc[v] \in DeletePoint => on[v] # u
  BY <1>1 DEF Manages, BeingDeleted
<1>3. /\ LifeHolds(k, pc, on, exists) /\ k \in KernelState /\ fault = FALSE
      /\ k.cur = t /\ t # Idle /\ pc[t] = "run" /\ k.stat[t] = "READY" /\ t \notin Off(pc, on)
  BY <1>2, Caller
<1>4. k.stat[u] \in Stat /\ (u \in Victim => k.stat[u] # "SUSPEND")
  BY <1>3 DEF KernelState, LifeHolds, RolesHold
<1>5. PICK e \in {"suspend", "resume", "delete_remove", "delete_timer"} :
         /\ pc' = [pc EXCEPT ![t] = e]
         /\ e \in {"suspend", "resume"} => u \in Controlled /\ k.stat[u] # "INIT"
         /\ e = "suspend" /\ u = t => k.lock = 0
         /\ e \in {"delete_remove", "delete_timer"} => u \in Victim \ {t}
         /\ e = "delete_remove" => k.stat[u] = "READY"
         /\ e = "delete_timer" => k.stat[u] = "INIT"
  <2>1. CASE SuspendTest(t, u)
    BY <2>1 DEF SuspendTest, Goto
  <2>2. CASE ResumeTest(t, u)
    BY <2>2 DEF ResumeTest, Goto
  <2>3. CASE Delete(t, u)
    BY <1>4, <2>3 DEF Delete, Goto, Stat
  <2> QED BY <2>1, <2>2, <2>3
<1>6. LifeHolds(k, [pc EXCEPT ![t] = e], [on EXCEPT ![t] = u], exists)
  BY <1>1, <1>2, <1>3, <1>5, EnterWindow
<1>7. NoneRises
  BY <1>1 DEF NoneRises
<1>8. LifeInv'
  BY <1>1, <1>3, <1>5, <1>6 DEF LifeInv
<1> QED BY <1>7, <1>8

\* The running thread leaves the window of rt_thread_suspend or rt_thread_resume.
LEMMA LeaveWindow ==
    ASSUME NEW s, NEW c, NEW o, NEW x, LifeHolds(s, c, o, x), NEW t \in Thread, s.cur = t,
           c[t] \in {"suspend", "resume"}, NEW d \in [Thread -> Pcs],
           d[t] \in {"run", "resched"}, \A v \in Thread \ {t} : d[v] = c[v]
    PROVE  LifeHolds(s, d, o, x) /\ Off(d, o) = Off(c, o)
<1>1. /\ c \in [Thread -> Pcs] /\ o \in [Thread -> Thread] /\ x \subseteq Thread
      /\ CoreOK(s, Off(c, o)) /\ WindowsHold(s, c, o, x) /\ IdleHolds(s, c, o, x)
      /\ DeadHeld(s, c, o, x) /\ CurrentHolds(s, c, o) /\ RolesHold(s, x)
  BY DEF LifeHolds
<1>2. /\ d[t] \notin Windows /\ d[t] \notin DeletePoint /\ d[t] # "free"
      /\ c[t] \in Windows /\ c[t] \notin DeletePoint /\ Idle \in Thread
  BY ThreadAssumption DEF Pcs, Windows, DeletePoint
<1>3. \A v \in Thread \ {t} : d[v] = c[v]
  OBVIOUS
<1>4. t # Idle /\ s.stat[t] = "READY"
  BY <1>1, <1>2 DEF WindowsHold
<1>5. \A v \in Thread : d[v] \in DeletePoint \/ c[v] \in DeletePoint => d[v] = c[v]
  BY <1>2, <1>3
<1>6. Off(d, o) = Off(c, o)
  BY <1>5 DEF Off
<1>7. WindowsHold(s, d, o, x)
  <2>1. ASSUME NEW v \in Thread, d[v] \in Windows
        PROVE  v \in Manager \ {Idle} /\ s.stat[v] = "READY"
    BY <1>1, <1>2, <1>3, <2>1 DEF WindowsHold
  <2>2. ASSUME NEW v \in Thread, d[v] \in {"suspend", "resume"}
        PROVE  o[v] \in Controlled /\ s.stat[o[v]] # "INIT"
    BY <1>1, <1>3, <2>2 DEF WindowsHold
  <2>3. ASSUME NEW v \in Thread, d[v] \in DeletePoint
        PROVE  /\ o[v] \in Victim \ {v} /\ (o[v] \in x \/ DetachedAtOnce(o[v]))
               /\ d[v] = "delete_remove" => s.stat[o[v]] \in {"READY", "CLOSE"}
               /\ d[v] = "delete_end" => s.stat[o[v]] = "CLOSE"
    BY <1>1, <1>5, <2>3 DEF WindowsHold
  <2>4. ASSUME NEW v \in Thread, NEW y \in Thread, d[v] \in DeletePoint,
               d[y] \in DeletePoint, o[v] = o[y]
        PROVE  v = y
    BY <1>1, <1>5, <2>4 DEF WindowsHold
  <2> QED BY <2>1, <2>2, <2>3, <2>4 DEF WindowsHold
<1>8. d[Idle] = c[Idle]
  BY <1>2, <1>3, <1>4
<1>9. IdleHolds(s, d, o, x)
  <2>1. \A v \in Thread : d[v] = "free" => v = Idle
    BY <1>1, <1>2, <1>3 DEF IdleHolds
  <2> QED BY <1>1, <1>5, <1>8, <2>1 DEF IdleHolds
<1>10. DeadHeld(s, d, o, x)
  BY <1>1, <1>6, <1>8 DEF DeadHeld
<1>11. CurrentHolds(s, d, o)
  BY <1>1, <1>3, <1>4, <1>6 DEF CurrentHolds
<1>12. LifeHolds(s, d, o, x)
  BY <1>1, <1>3, <1>6, <1>7, <1>9, <1>10, <1>11 DEF LifeHolds
<1> QED BY <1>6, <1>12

\* rt_thread_suspend and rt_thread_resume act on what they tested earlier: the
\* target may have changed between ready and suspended since, nothing else.
LEMMA ActsKeep ==
    ASSUME RolesApart, LifeInv, NEW t \in Thread, Suspend(t) \/ Resume(t)
    PROVE  LifeInv' /\ NoneRises
<1> DEFINE F == Off(pc, on)
           u == on[t]
<1>1. /\ LifeHolds(k, pc, on, exists) /\ fault = FALSE /\ k \in KernelState /\ CoreOK(k, F)
      /\ pc \in [Thread -> Pcs] /\ on \in [Thread -> Thread]
      /\ WindowsHold(k, pc, on, exists) /\ CurrentHolds(k, pc, on) /\ RolesHold(k, exists)
  BY DEF LifeInv, LifeHolds, CoreOK
<1>2. /\ k.cur = t /\ pc[t] \in {"suspend", "resume"} /\ exists' = exists /\ on' = on
  BY DEF Suspend, Resume, At
<1>3. /\ t \in Manager \ {Idle} /\ k.stat[t] = "READY" /\ u \in Controlled /\ u \in Thread
      /\ k.stat[u] # "INIT" /\ k.stat[u] # "CLOSE"
  BY <1>1, <1>2, LifecycleAssumption DEF WindowsHold, Windows, RolesHold
<1>4. k.stat[u] \in {"READY", "SUSPEND"}
  <2>1. k.stat[u] \in Stat
    BY <1>1, <1>3 DEF KernelState
  <2> QED BY <1>3, <2>1 DEF Stat
<1>5. u \in Thread \ {Idle} /\ u \notin Victim
  BY <1>3, LifecycleAssumption DEF RolesApart
<1>6. u \notin F /\ \A v \in Thread : pc[v] \in DeletePoint => on[v] # u
  BY <1>1, <1>5, NoTarget
<1>7. u \in exists /\ \A q \in Queue : u \notin ToSet(k.wait[q])
  BY <1>1, <1>3, Living
<1>8. /\ fault' = fault
      /\ \/ /\ pc[t] = "suspend" /\ k' = SuspendNow(k, u)
            /\ pc' = [pc EXCEPT ![t] = IF u = t THEN "resched" ELSE "run"]
         \/ /\ pc[t] = "resume" /\ k' = ResumeNow(k, u)
            /\ (pc' = [pc EXCEPT ![t] = "run"] \/ pc' = [pc EXCEPT ![t] = "resched"])
  BY <1>7 DEF Suspend, Resume, OnTarget, Freed, At, Goto
<1>9. PICK e \in {"run", "resched"} : /\ pc' = [pc EXCEPT ![t] = e]
                                      /\ pc[t] = "suspend" /\ u = t => e = "resched"
  BY <1>8
<1>10. PICK z \in {"READY", "SUSPEND"} :
         /\ CoreOK(k', F) /\ k'.stat = [k.stat EXCEPT ![u] = z] /\ k'.prio = k.prio
         /\ \A q \in Queue : k'.wait[q] = k.wait[q]
         /\ k'.cur = k.cur /\ k'.lock = k.lock
         /\ z = "SUSPEND" => pc[t] = "suspend"
  <2>1. CASE pc[t] = "suspend" /\ k' = SuspendNow(k, u)
    <3>1. LET r == SuspendNow(k, u) IN
          /\ CoreOK(r, F) /\ r.stat = [k.stat EXCEPT ![u] = "SUSPEND"] /\ r.prio = k.prio
          /\ \A q \in Queue : r.wait[q] = k.wait[q]
          /\ r.cur = k.cur /\ r.lock = k.lock
      BY <1>1, <1>4, <1>5, <1>6, <1>7, CoreSuspend
    <3> QED BY <2>1, <3>1
  <2>2. CASE pc[t] = "resume" /\ k' = ResumeNow(k, u)
    <3>1. LET r == ResumeNow(k, u) IN
          /\ CoreOK(r, F) /\ r.stat = [k.stat EXCEPT ![u] = "READY"] /\ r.prio = k.prio
          /\ \A q \in Queue : r.wait[q] = k.wait[q]
          /\ r.cur = k.cur /\ r.lock = k.lock
      BY <1>1, <1>4, <1>5, <1>6, <1>7, CoreResume
    <3> QED BY <2>2, <3>1
  <2> QED BY <1>8, <2>1, <2>2
<1>11. k'.stat[u] = z /\ \A v \in Thread \ {u} : k'.stat[v] = k.stat[v]
  <2>1. k.stat \in [Thread -> Stat]
    BY <1>1 DEF KernelState
  <2> QED BY <1>3, <1>10, <2>1
<1>12. /\ LifeHolds(k, pc', on, exists) /\ Off(pc', on) = F
       /\ pc'[t] = e /\ \A v \in Thread \ {t} : pc'[v] = pc[v]
  <2>1. /\ e \in Pcs /\ pc' \in [Thread -> Pcs] /\ pc'[t] = e
        /\ \A v \in Thread \ {t} : pc'[v] = pc[v]
    BY <1>1, <1>9 DEF Pcs
  <2>2. LifeHolds(k, pc', on, exists) /\ Off(pc', on) = Off(pc, on)
    BY <1>1, <1>2, <2>1, LeaveWindow
  <2> QED BY <2>1, <2>2
<1>13. Lives(k, k', pc', on, u)
  <2>1. \A v \in Thread : pc'[v] \in DeletePoint => on[v] # u
    <3>1. e \notin DeletePoint
      BY DEF DeletePoint
    <3> QED BY <1>6, <1>12, <3>1
  <2>2. ASSUME pc'[u] \in Windows, z = "SUSPEND" PROVE FALSE
    <3>1. u # t
      BY <1>12, <2>2 DEF Windows, DeletePoint
    <3>2. pc[u] \in Windows
      BY <1>3, <1>12, <2>2, <3>1
    <3>3. u \in Manager
      BY <1>1, <1>3, <3>2 DEF WindowsHold
    <3> QED BY <1>3, <3>1, <3>3 DEF RolesApart
  <2> QED BY <1>3, <1>5, <1>10, <1>11, <2>1, <2>2 DEF Lives
<1>14. k'.stat[t] = "READY" \/ (k'.stat[t] = "SUSPEND" /\ k'.lock = 0 /\ pc'[t] = "resched")
  <2>1. CASE u = t /\ z = "SUSPEND"
    <3>1. pc[t] = "suspend" /\ e = "resched" /\ k.lock = 0
      BY <1>1, <1>2, <1>9, <1>10, <2>1 DEF CurrentHolds
    <3> QED BY <1>10, <1>11, <1>12, <2>1, <3>1
  <2>2. CASE u # t \/ z = "READY"
    BY <1>3, <1>10, <1>11, <2>2
  <2> QED BY <1>10, <2>1, <2>2
<1>15. LifeHolds(k', pc', on, exists)
  <2>1. /\ LifeHolds(k, pc', on, exists) /\ pc' \in [Thread -> Pcs] /\ SamePlaces(pc', pc')
        /\ CoreOK(k', Off(pc', on))
        /\ \A q \in Queue : k'.wait[q] = k.wait[q]
        /\ \A v \in Thread : k'.stat[v] = k.stat[v] \/ Lives(k, k', pc', on, v)
        /\ \A v \in Thread : k'.prio[v] = k.prio[v] \/ (v # Idle /\ k'.prio[v] # Lowest)
    BY <1>10, <1>11, <1>12, <1>13 DEF LifeHolds, SamePlaces
  <2>2. /\ k'.cur = k.cur /\ k.cur # Idle /\ pc'[k.cur] # "suspend"
        /\ k'.stat[k.cur] = "READY" \/
              /\ k'.stat[k.cur] = "SUSPEND" /\ k'.lock = 0
              /\ pc'[k.cur] \in {"block", "until_block", "resched"}
    BY <1>2, <1>3, <1>10, <1>12, <1>14
  <2> QED BY ONLY <2>1, <2>2, QuietStep
<1>16. NoneRises
  BY <1>3, <1>11 DEF NoneRises
<1>17. LifeInv'
  BY <1>1, <1>2, <1>8, <1>15 DEF LifeInv
<1> QED BY <1>16, <1>17

\* A deletion moves on, its target off the lists.
LEMMA DeleteMove ==
    ASSUME RolesApart, NEW s, NEW c, NEW o, NEW x, LifeHolds(s, c, o, x), NEW t \in Thread,
           s.cur = t, c[t] \in DeletePoint, NEW d \in [Thread -> Pcs],
           d[t] \in DeletePoint \ {"delete_remove"}, \A v \in Thread \ {t} : d[v] = c[v],
           NEW r, CoreOK(r, Off(c, o) \cup {o[t]}), r.cur = s.cur, r.prio = s.prio,
           \A v \in Thread \ {o[t]} : r.stat[v] = s.stat[v],
           r.stat[o[t]] = s.stat[o[t]] \/ r.stat[o[t]] = "CLOSE",
           d[t] = "delete_end" => r.stat[o[t]] = "CLOSE",
           ToSet(r.wait[rt_thread_defunct]) = ToSet(s.wait[rt_thread_defunct]) \ {o[t]}
    PROVE  LifeHolds(r, d, o, x)
<1> DEFINE F == Off(c, o)
           u == o[t]
<1>1. /\ c \in [Thread -> Pcs] /\ o \in [Thread -> Thread] /\ x \subseteq Thread
      /\ CoreOK(s, F) /\ WindowsHold(s, c, o, x) /\ IdleHolds(s, c, o, x)
      /\ DeadHeld(s, c, o, x) /\ CurrentHolds(s, c, o) /\ RolesHold(s, x)
  BY DEF LifeHolds
<1>2. /\ c[t] \in Windows /\ c[t] # "free" /\ d[t] \in Windows /\ d[t] \in DeletePoint
      /\ d[t] # "free" /\ d[t] \notin {"suspend", "resume"} /\ Idle \in Thread
  BY ThreadAssumption DEF Windows, DeletePoint
<1>3. /\ t \in Manager \ {Idle} /\ s.stat[t] = "READY" /\ u \in Victim \ {t} /\ u \in Thread
      /\ (u \in x \/ DetachedAtOnce(u)) /\ t \notin Victim
  BY <1>1, <1>2 DEF WindowsHold, RolesApart
<1>4. \A v \in Thread : c[v] \in DeletePoint <=> d[v] \in DeletePoint
  BY <1>2
<1>5. \A v \in Thread : v \in Off(d, o) <=> v \in F \cup {u}
  <2>1. ASSUME NEW v \in Thread, v \in Off(d, o) PROVE v \in F \cup {u}
    BY <2>1 DEF Off
  <2>2. ASSUME NEW v \in Thread, v \in F PROVE v \in Off(d, o)
    <3>1. PICK y \in Thread : c[y] \in DeletePoint \ {"delete_remove"} /\ o[y] = v
      BY <2>2 DEF Off
    <3>2. d[y] \in DeletePoint \ {"delete_remove"}
      BY <3>1
    <3> QED BY <3>1, <3>2 DEF Off
  <2>3. u \in Off(d, o)
    BY <1>3 DEF Off
  <2> QED BY <2>1, <2>2, <2>3
<1>6. Off(d, o) = F \cup {u}
  BY <1>3, <1>5 DEF Off
<1>7. \A v \in Thread : s.stat[v] = "CLOSE" => r.stat[v] = "CLOSE"
  OBVIOUS
<1>8. WindowsHold(r, d, o, x)
  <2>1. ASSUME NEW v \in Thread, d[v] \in Windows
        PROVE  v \in Manager \ {Idle} /\ r.stat[v] = "READY"
    <3>1. v \in Manager \ {Idle} /\ s.stat[v] = "READY"
      BY <1>1, <1>2, <2>1 DEF WindowsHold
    <3>2. v # u
      BY <1>3, <3>1 DEF RolesApart
    <3> QED BY <3>1, <3>2
  <2>2. ASSUME NEW v \in Thread, d[v] \in {"suspend", "resume"}
        PROVE  o[v] \in Controlled /\ r.stat[o[v]] # "INIT"
    <3>1. c[v] \in {"suspend", "resume"}
      BY <1>2, <2>2
    <3>2. o[v] \in Controlled /\ s.stat[o[v]] # "INIT" /\ o[v] \in Thread
      BY <1>1, <3>1 DEF WindowsHold
    <3>3. o[v] # u
      BY <1>3, <3>2 DEF RolesApart
    <3> QED BY <3>2, <3>3
  <2>3. ASSUME NEW v \in Thread, d[v] \in DeletePoint
        PROVE  /\ o[v] \in Victim \ {v} /\ (o[v] \in x \/ DetachedAtOnce(o[v]))
               /\ d[v] = "delete_remove" => r.stat[o[v]] \in {"READY", "CLOSE"}
               /\ d[v] = "delete_end" => r.stat[o[v]] = "CLOSE"
    <3>1. CASE v = t
      BY <1>3, <3>1
    <3>2. CASE v # t
      <4>1. d[v] = c[v] /\ c[v] \in DeletePoint /\ o[v] \in Thread
        BY <1>1, <2>3, <3>2
      <4>2. o[v] # u
        BY <1>1, <3>2, <4>1 DEF WindowsHold
      <4>3. r.stat[o[v]] = s.stat[o[v]]
        BY <4>1, <4>2
      <4> QED BY <1>1, <4>1, <4>3 DEF WindowsHold
    <3> QED BY <3>1, <3>2
  <2>4. ASSUME NEW v \in Thread, NEW y \in Thread, d[v] \in DeletePoint,
               d[y] \in DeletePoint, o[v] = o[y]
        PROVE  v = y
    <3>1. c[v] \in DeletePoint /\ c[y] \in DeletePoint
      BY <1>4, <2>4
    <3> QED BY <1>1, <2>4, <3>1 DEF WindowsHold
  <2> QED BY <2>1, <2>2, <2>3, <2>4 DEF WindowsHold
<1>9. d[Idle] = c[Idle]
  BY <1>2, <1>3
<1>10. IdleHolds(r, d, o, x)
  <2>1. \A v \in Thread : d[v] = "free" => v = Idle
    BY <1>1, <1>2 DEF IdleHolds
  <2>2. ASSUME d[Idle] = "free"
        PROVE  /\ o[Idle] \in x \ Static /\ r.stat[o[Idle]] = "CLOSE"
               /\ \A v \in Thread : d[v] \in DeletePoint => o[v] # o[Idle]
    <3>1. /\ o[Idle] \in x \ Static /\ s.stat[o[Idle]] = "CLOSE" /\ o[Idle] \in Thread
          /\ \A v \in Thread : c[v] \in DeletePoint => o[v] # o[Idle]
      BY <1>1, <1>2, <1>9, <2>2 DEF IdleHolds
    <3> QED BY <1>4, <1>7, <3>1
  <2> QED BY <1>1, <1>9, <2>1, <2>2 DEF IdleHolds
<1>11. DeadHeld(r, d, o, x)
  <2>1. ASSUME NEW v \in Thread, v # u
        PROVE  v \in ToSet(r.wait[rt_thread_defunct]) <=>
                  /\ r.stat[v] = "CLOSE" /\ v \in x /\ v \notin Off(d, o)
                  /\ ~(d[Idle] = "free" /\ o[Idle] = v)
    <3>1. r.stat[v] = s.stat[v] /\ (v \in Off(d, o) <=> v \in F)
      BY <1>6, <2>1
    <3>2. v \in ToSet(r.wait[rt_thread_defunct]) <=> v \in ToSet(s.wait[rt_thread_defunct])
      BY <2>1
    <3> QED BY <1>1, <1>9, <3>1, <3>2 DEF DeadHeld
  <2>2. u \notin ToSet(r.wait[rt_thread_defunct]) /\ u \in Off(d, o)
    BY <1>6
  <2> QED BY <2>1, <2>2 DEF DeadHeld
<1>12. CurrentHolds(r, d, o)
  <2>1. t \notin Off(d, o)
    BY <1>1, <1>3, <1>6 DEF CurrentHolds
  <2>2. r.stat[t] = "READY"
    BY <1>3
  <2> QED BY <1>2, <1>3, <2>1, <2>2 DEF CurrentHolds
<1>13. RolesHold(r, x)
  <2>1. \A v \in Victim : v \in Thread /\ r.stat[v] # "SUSPEND"
    BY <1>1, <1>3, LifecycleAssumption DEF RolesHold
  <2>2. \A v \in Controlled : v \in Thread /\ r.stat[v] # "CLOSE"
    BY <1>1, <1>3, LifecycleAssumption DEF RolesHold, RolesApart
  <2> QED BY <1>1, <1>7, <2>1, <2>2 DEF RolesHold
<1>14. CoreOK(r, Off(d, o))
  BY <1>6
<1> QED BY <1>1, <1>8, <1>10, <1>11, <1>12, <1>13, <1>14 DEF LifeHolds

\* The state in which a deletion goes on: its target has not been freed.
LEMMA Deleter ==
    ASSUME LifeInv, NEW t \in Thread, k.cur = t, pc[t] \in DeletePoint
    PROVE  /\ LifeHolds(k, pc, on, exists) /\ fault = FALSE
           /\ pc \in [Thread -> Pcs] /\ on \in [Thread -> Thread]
           /\ k \in KernelState /\ CoreOK(k, Off(pc, on))
           /\ t # Idle /\ k.stat[t] = "READY"
           /\ on[t] \in Thread /\ on[t] \in Victim \ {t} /\ ~Freed(on[t])
           /\ k.stat[on[t]] # "SUSPEND" /\ on[t] \notin k.timer
           /\ on[t] \in exists \/ DetachedAtOnce(on[t])
           /\ pc[t] # "delete_remove" <=> on[t] \in Off(pc, on)
           /\ on[t] \in Off(pc, on) => on[t] \notin ToSet(k.wait[rt_thread_defunct])
<1>1. /\ LifeHolds(k, pc, on, exists) /\ fault = FALSE /\ k \in KernelState
      /\ CoreOK(k, Off(pc, on)) /\ TimersSuspended(k)
      /\ pc \in [Thread -> Pcs] /\ on \in [Thread -> Thread]
      /\ WindowsHold(k, pc, on, exists) /\ DeadHeld(k, pc, on, exists) /\ RolesHold(k, exists)
  BY DEF LifeInv, LifeHolds, CoreOK
<1>2. /\ t # Idle /\ k.stat[t] = "READY" /\ on[t] \in Thread /\ on[t] \in Victim \ {t}
      /\ on[t] \in exists \/ DetachedAtOnce(on[t])
  BY <1>1 DEF WindowsHold, Windows
<1>3. ~Freed(on[t])
  BY <1>2 DEF Freed, DetachedAtOnce
<1>4. k.stat[on[t]] # "SUSPEND" /\ on[t] \notin k.timer
  BY <1>1, <1>2 DEF RolesHold, TimersSuspended
<1>5. pc[t] # "delete_remove" <=> on[t] \in Off(pc, on)
  <2>1. ASSUME on[t] \in Off(pc, on) PROVE pc[t] # "delete_remove"
    <3>1. PICK v \in Thread : pc[v] \in DeletePoint \ {"delete_remove"} /\ on[v] = on[t]
      BY <2>1 DEF Off
    <3>2. v = t
      BY <1>1, <3>1 DEF WindowsHold
    <3> QED BY <3>1, <3>2
  <2>2. ASSUME pc[t] # "delete_remove" PROVE on[t] \in Off(pc, on)
    BY <1>2, <2>2 DEF Off
  <2> QED BY <2>1, <2>2
<1>6. on[t] \in Off(pc, on) => on[t] \notin ToSet(k.wait[rt_thread_defunct])
  BY <1>1, <1>2 DEF DeadHeld
<1> QED BY <1>1, <1>2, <1>3, <1>4, <1>5, <1>6

\* rt_thread_delete takes its target off the lists, whether it is still ready or
\* has exited since the test.
LEMMA DeleteRemoveKeeps ==
    ASSUME RolesApart, LifeInv, NEW t \in Thread, DeleteRemove(t)
    PROVE  LifeInv' /\ NoneRises
<1> DEFINE F == Off(pc, on)
           u == on[t]
           r == rt_schedule_remove_thread(k, u)
<1>1. k.cur = t /\ pc[t] = "delete_remove" /\ pc[t] \in DeletePoint
  BY DEF DeleteRemove, At, DeletePoint
<1>2. /\ LifeHolds(k, pc, on, exists) /\ fault = FALSE
      /\ pc \in [Thread -> Pcs] /\ on \in [Thread -> Thread]
      /\ k \in KernelState /\ CoreOK(k, F) /\ u \in Thread /\ u \in Victim \ {t}
      /\ ~Freed(u) /\ u \notin F
  BY <1>1, Deleter
<1>3. /\ k' = r /\ fault' = fault /\ pc' = [pc EXCEPT ![t] = "delete_timer"]
      /\ exists' = exists /\ on' = on
  BY <1>2 DEF DeleteRemove, OnTarget, Goto
<1>4. k.stat[u] \in {"READY", "CLOSE"}
  BY <1>1, <1>2 DEF LifeHolds, WindowsHold
<1>5. /\ CoreOK(r, F \cup {u}) /\ r.stat = k.stat /\ r.prio = k.prio /\ r.cur = k.cur
      /\ ToSet(r.wait[rt_thread_defunct]) = ToSet(k.wait[rt_thread_defunct]) \ {u}
  <2>0. rt_thread_defunct \in Queue /\ u \in Thread \ {Idle}
    BY <1>2, LifecycleAssumption
  <2>1. CASE k.stat[u] = "READY"
    <3>1. \A q \in Queue : u \notin ToSet(k.wait[q])
      BY <1>2, <2>1, Living
    <3>2. /\ CoreOK(r, F \cup {u}) /\ r.stat = k.stat /\ r.prio = k.prio
          /\ \A q \in Queue : r.wait[q] = k.wait[q]
          /\ r.cur = k.cur
      BY <1>2, <2>0, <2>1, <3>1, CoreRemove
    <3> HIDE DEF r
    <3> QED BY <2>0, <3>1, <3>2
  <2>2. CASE k.stat[u] = "CLOSE"
    <3>1. /\ CoreOK(r, F \cup {u}) /\ r.stat = k.stat /\ r.prio = k.prio
          /\ \A q \in Queue : ToSet(r.wait[q]) = ToSet(k.wait[q]) \ {u}
          /\ r.cur = k.cur
      BY <1>2, <2>2, CoreRemoveDead
    <3> HIDE DEF r
    <3> QED BY <2>0, <3>1
  <2> QED BY <1>4, <2>1, <2>2
<1> HIDE DEF r
<1>6. /\ pc' \in [Thread -> Pcs] /\ pc'[t] = "delete_timer"
      /\ \A v \in Thread \ {t} : pc'[v] = pc[v]
  BY <1>2, <1>3 DEF Pcs, DeletePoint
<1>7. LifeHolds(r, pc', on, exists)
  <2>1. pc'[t] \in DeletePoint \ {"delete_remove"} /\ pc'[t] # "delete_end"
    BY <1>6 DEF DeletePoint
  <2>2. /\ \A v \in Thread \ {on[t]} : r.stat[v] = k.stat[v]
        /\ r.stat[on[t]] = k.stat[on[t]]
        /\ CoreOK(r, Off(pc, on) \cup {on[t]}) /\ r.cur = k.cur /\ r.prio = k.prio
        /\ ToSet(r.wait[rt_thread_defunct]) = ToSet(k.wait[rt_thread_defunct]) \ {on[t]}
    BY <1>5
  <2> HIDE DEF u, F
  <2> QED BY <1>1, <1>2, <1>6, <2>1, <2>2, DeleteMove
<1>8. NoneRises
  BY <1>3, <1>5 DEF NoneRises
<1>9. LifeInv'
  BY <1>2, <1>3, <1>7 DEF LifeInv
<1> QED BY <1>8, <1>9

\* rt_thread_delete stops the timer of its target.
LEMMA DeleteTimerKeeps ==
    ASSUME RolesApart, LifeInv, NEW t \in Thread, DeleteTimer(t)
    PROVE  LifeInv' /\ NoneRises
<1> DEFINE F == Off(pc, on)
           u == on[t]
           r == DetachTimer(k, u)
<1>1. k.cur = t /\ pc[t] = "delete_timer" /\ pc[t] \in DeletePoint
  BY DEF DeleteTimer, At, DeletePoint
<1>2. /\ LifeHolds(k, pc, on, exists) /\ fault = FALSE
      /\ pc \in [Thread -> Pcs] /\ on \in [Thread -> Thread]
      /\ k \in KernelState /\ CoreOK(k, F) /\ u \in Thread
      /\ ~Freed(u) /\ u \in F /\ u \notin ToSet(k.wait[rt_thread_defunct])
  BY <1>1, Deleter
<1>3. /\ k' = r /\ fault' = fault /\ pc' = [pc EXCEPT ![t] = "delete_stat"]
      /\ exists' = exists /\ on' = on
  BY <1>2 DEF DeleteTimer, OnTarget, Goto
<1>4. /\ r \in KernelState /\ SameSched(r, k) /\ r.stat = k.stat /\ r.prio = k.prio
      /\ r.wait = k.wait /\ r.timer = k.timer \ {u} /\ r.cur = k.cur
  BY <1>2 DEF DetachTimer, KernelState, SameSched
<1> HIDE DEF r
<1>5. CoreOK(r, F \cup {u})
  <2>1. WaitDistinct(r) /\ TimersSuspended(r)
    BY <1>2, <1>4 DEF CoreOK, WaitDistinct, TimersSuspended
  <2>2. Seen(r, F) = Seen(k, F)
    BY <1>4, SeenSame
  <2>3. CoreOK(r, F)
    BY <1>2, <1>4, <2>1, <2>2, CoreFrame
  <2>4. F \cup {u} = F
    BY <1>2
  <2> QED BY <2>3, <2>4
<1>6. /\ pc' \in [Thread -> Pcs] /\ pc'[t] = "delete_stat"
      /\ \A v \in Thread \ {t} : pc'[v] = pc[v]
  BY <1>2, <1>3 DEF Pcs, DeletePoint
<1>7. LifeHolds(r, pc', on, exists)
  <2>1. pc'[t] \in DeletePoint \ {"delete_remove"} /\ pc'[t] # "delete_end"
    BY <1>6 DEF DeletePoint
  <2>2. /\ \A v \in Thread \ {on[t]} : r.stat[v] = k.stat[v]
        /\ r.stat[on[t]] = k.stat[on[t]]
        /\ CoreOK(r, Off(pc, on) \cup {on[t]}) /\ r.cur = k.cur /\ r.prio = k.prio
        /\ ToSet(r.wait[rt_thread_defunct]) = ToSet(k.wait[rt_thread_defunct]) \ {on[t]}
    BY <1>2, <1>4, <1>5
  <2> HIDE DEF u, F
  <2> QED BY <1>1, <1>2, <1>6, <2>1, <2>2, DeleteMove
<1>8. NoneRises
  BY <1>3, <1>4 DEF NoneRises
<1>9. LifeInv'
  BY <1>2, <1>3, <1>7 DEF LifeInv
<1> QED BY <1>8, <1>9

\* rt_thread_delete closes its target.
LEMMA DeleteStatKeeps ==
    ASSUME RolesApart, LifeInv, NEW t \in Thread, DeleteStat(t)
    PROVE  LifeInv' /\ NoneRises
<1> DEFINE F == Off(pc, on)
           u == on[t]
           r == Close(k, u)
<1>1. k.cur = t /\ pc[t] = "delete_stat" /\ pc[t] \in DeletePoint
  BY DEF DeleteStat, At, DeletePoint
<1>2. /\ LifeHolds(k, pc, on, exists) /\ fault = FALSE
      /\ pc \in [Thread -> Pcs] /\ on \in [Thread -> Thread]
      /\ k \in KernelState /\ CoreOK(k, F) /\ u \in Thread /\ u \notin k.timer
      /\ ~Freed(u) /\ u \in F /\ u \notin ToSet(k.wait[rt_thread_defunct])
  BY <1>1, Deleter
<1>3. /\ k' = r /\ fault' = fault /\ pc' = [pc EXCEPT ![t] = "delete_end"]
      /\ exists' = exists /\ on' = on
  BY <1>2 DEF DeleteStat, OnTarget, Goto
<1>4. /\ r \in KernelState /\ SameSched(r, k) /\ r.stat = [k.stat EXCEPT ![u] = "CLOSE"]
      /\ r.prio = k.prio /\ r.wait = k.wait /\ r.timer = k.timer /\ r.cur = k.cur
  BY <1>2 DEF Close, KernelState, SameSched, Stat
<1>5. k.stat \in [Thread -> Stat] /\ k.timer \subseteq Thread
  BY <1>2 DEF KernelState
<1> HIDE DEF r
<1>6. r.stat[u] = "CLOSE" /\ \A v \in Thread \ {u} : r.stat[v] = k.stat[v]
  BY <1>2, <1>4, <1>5
<1>7. CoreOK(r, F \cup {u})
  <2>1. WaitDistinct(r) /\ TimersSuspended(r)
    BY <1>2, <1>4, <1>5, <1>6 DEF CoreOK, WaitDistinct, TimersSuspended
  <2>2. \A v \in Thread \ {u} : Seen(r, F)[v] = Seen(k, F)[v]
    BY <1>6 DEF Seen
  <2>3. Seen(k, F)[u] # "READY" /\ Seen(r, F)[u] = "INIT"
    BY <1>2, <1>6 DEF Seen
  <2>4. CoreOK(r, F)
    BY <1>2, <1>4, <2>1, <2>2, <2>3, CoreFrame
  <2>5. F \cup {u} = F
    BY <1>2
  <2> QED BY <2>4, <2>5
<1>8. /\ pc' \in [Thread -> Pcs] /\ pc'[t] = "delete_end"
      /\ \A v \in Thread \ {t} : pc'[v] = pc[v]
  BY <1>2, <1>3 DEF Pcs, DeletePoint
<1>9. LifeHolds(r, pc', on, exists)
  <2>1. pc'[t] \in DeletePoint \ {"delete_remove"}
    BY <1>8 DEF DeletePoint
  <2>2. /\ \A v \in Thread \ {on[t]} : r.stat[v] = k.stat[v]
        /\ r.stat[on[t]] = "CLOSE"
        /\ CoreOK(r, Off(pc, on) \cup {on[t]}) /\ r.cur = k.cur /\ r.prio = k.prio
        /\ ToSet(r.wait[rt_thread_defunct]) = ToSet(k.wait[rt_thread_defunct]) \ {on[t]}
    BY <1>2, <1>4, <1>6, <1>7
  <2> HIDE DEF u, F
  <2> QED BY <1>1, <1>2, <1>8, <2>1, <2>2, DeleteMove
<1>10. NoneRises
  BY <1>3, <1>6 DEF NoneRises
<1>11. LifeInv'
  BY <1>2, <1>3, <1>9 DEF LifeInv
<1> QED BY <1>10, <1>11

\* The end of a deletion: the target is dead and on no list, so it can be buried.
LEMMA DeleteEndKeeps ==
    ASSUME RolesApart, LifeInv, NEW t \in Thread, DeleteEnd(t)
    PROVE  LifeInv' /\ NoneRises
<1> DEFINE F == Off(pc, on)
           u == on[t]
           q == rt_thread_defunct
           r == Bury(k, u)
<1>1. k.cur = t /\ pc[t] = "delete_end" /\ pc[t] \in DeletePoint
  BY DEF DeleteEnd, At, DeletePoint
<1>2. /\ LifeHolds(k, pc, on, exists) /\ fault = FALSE
      /\ pc \in [Thread -> Pcs] /\ on \in [Thread -> Thread]
      /\ k \in KernelState /\ CoreOK(k, F) /\ u \in Thread /\ u \in Victim \ {t}
      /\ ~Freed(u) /\ u \in F /\ u \notin ToSet(k.wait[q]) /\ t # Idle /\ k.stat[t] = "READY"
      /\ u \in exists \/ DetachedAtOnce(u)
  BY <1>1, Deleter
<1>3. /\ WindowsHold(k, pc, on, exists) /\ IdleHolds(k, pc, on, exists)
      /\ DeadHeld(k, pc, on, exists) /\ RolesHold(k, exists) /\ CurrentHolds(k, pc, on)
      /\ exists \subseteq Thread
  BY <1>2 DEF LifeHolds
<1>4. k.stat[u] = "CLOSE"
  BY <1>1, <1>3 DEF WindowsHold
<1>5. ~Linked(k, u)
  <2>1. \A p \in Prio : u \notin ToSet(k.ready[p])
    BY <1>2, CoreFacts
  <2> QED BY <1>2, <2>1 DEF Linked
<1>6. /\ k' = r /\ exists' = IF DetachedAtOnce(u) THEN exists \ {u} ELSE exists
      /\ fault' = fault /\ on' = on
  BY <1>2, <1>5 DEF DeleteEnd
<1>7. PICK e \in {"run", "resched"} : pc' = [pc EXCEPT ![t] = e]
  BY DEF DeleteEnd, Goto
<1>8. /\ e \in Pcs /\ e \notin Windows /\ e \notin DeletePoint /\ e # "free" /\ e # "suspend"
      /\ Idle \in Thread
  BY ThreadAssumption DEF Pcs, Windows, DeletePoint
<1>9. pc' \in [Thread -> Pcs] /\ pc'[t] = e /\ \A v \in Thread \ {t} : pc'[v] = pc[v]
  BY <1>2, <1>7, <1>8
<1>10. Off(pc', on) = F \ {u}
  <2>1. ASSUME NEW v \in Off(pc', on) PROVE v \in F \ {u}
    <3>1. PICK y \in Thread : pc'[y] \in DeletePoint \ {"delete_remove"} /\ on[y] = v
      BY <2>1 DEF Off
    <3>2. y # t /\ pc[y] \in DeletePoint \ {"delete_remove"} /\ v \in Thread
      BY <1>2, <1>8, <1>9, <3>1
    <3>3. v # u
      BY <1>1, <1>3, <3>1, <3>2 DEF WindowsHold
    <3> QED BY <3>1, <3>2, <3>3 DEF Off
  <2>2. ASSUME NEW v \in F \ {u} PROVE v \in Off(pc', on)
    <3>1. PICK y \in Thread : pc[y] \in DeletePoint \ {"delete_remove"} /\ on[y] = v
      BY <2>2 DEF Off
    <3>2. pc'[y] = pc[y] /\ v \in Thread
      BY <1>2, <1>9, <2>2, <3>1
    <3> QED BY <3>1, <3>2 DEF Off
  <2> QED BY <2>1, <2>2
<1>11. /\ CoreOK(r, F) /\ r.stat = k.stat /\ r.prio = k.prio /\ r.cur = k.cur
       /\ ToSet(r.wait[q]) = IF DetachedAtOnce(u) THEN ToSet(k.wait[q])
                             ELSE ToSet(k.wait[q]) \cup {u}
  BY <1>2, <1>4, CoreBury
<1> HIDE DEF r
<1>12. CoreOK(r, Off(pc', on))
  <2>1. SameSched(r, r) /\ r \in KernelState /\ WaitDistinct(r) /\ TimersSuspended(r)
    BY <1>11 DEF CoreOK, SameSched
  <2>2. \A v \in Thread : Seen(r, Off(pc', on))[v] = Seen(r, F)[v]
    BY <1>4, <1>10, <1>11 DEF Seen
  <2> QED BY <1>11, <2>1, <2>2, CoreFrame
<1>13. \A v \in Thread : pc'[v] \in Windows \cup {"free"} => v # t /\ pc'[v] = pc[v]
  BY <1>8, <1>9
<1>14. \A v \in Thread : pc'[v] \in DeletePoint => v # t /\ pc'[v] = pc[v]
  BY <1>13 DEF Windows
<1>15. WindowsHold(r, pc', on, exists')
  <2>1. ASSUME NEW v \in Thread, pc'[v] \in Windows
        PROVE  v \in Manager \ {Idle} /\ r.stat[v] = "READY"
    BY <1>3, <1>11, <1>13, <2>1 DEF WindowsHold
  <2>2. ASSUME NEW v \in Thread, pc'[v] \in {"suspend", "resume"}
        PROVE  on[v] \in Controlled /\ r.stat[on[v]] # "INIT"
    BY <1>3, <1>11, <1>13, <2>2 DEF WindowsHold, Windows
  <2>3. ASSUME NEW v \in Thread, pc'[v] \in DeletePoint
        PROVE  /\ on[v] \in Victim \ {v} /\ (on[v] \in exists' \/ DetachedAtOnce(on[v]))
               /\ pc'[v] = "delete_remove" => r.stat[on[v]] \in {"READY", "CLOSE"}
               /\ pc'[v] = "delete_end" => r.stat[on[v]] = "CLOSE"
    <3>1. pc'[v] = pc[v] /\ pc[v] \in DeletePoint
      BY <1>14, <2>3
    <3>2. on[v] \in exists \/ DetachedAtOnce(on[v])
      BY <1>3, <3>1 DEF WindowsHold
    <3>3. on[v] \in exists' \/ DetachedAtOnce(on[v])
      BY <1>6, <3>2
    <3> QED BY <1>3, <1>11, <3>1, <3>3 DEF WindowsHold
  <2>4. ASSUME NEW v \in Thread, NEW y \in Thread, pc'[v] \in DeletePoint,
               pc'[y] \in DeletePoint, on[v] = on[y]
        PROVE  v = y
    BY <1>3, <1>14, <2>4 DEF WindowsHold
  <2> QED BY <2>1, <2>2, <2>3, <2>4 DEF WindowsHold
<1>16. pc'[Idle] = pc[Idle] /\ (pc[Idle] = "free" => on[Idle] # u)
  BY <1>1, <1>2, <1>3, <1>8, <1>9 DEF IdleHolds
<1>17. IdleHolds(r, pc', on, exists')
  <2>1. \A v \in Thread : pc'[v] = "free" => v = Idle
    BY <1>3, <1>13 DEF IdleHolds
  <2>2. ASSUME pc'[Idle] = "free"
        PROVE  /\ on[Idle] \in exists' \ Static /\ r.stat[on[Idle]] = "CLOSE"
               /\ \A v \in Thread : pc'[v] \in DeletePoint => on[v] # on[Idle]
    <3>1. /\ on[Idle] \in exists \ Static /\ k.stat[on[Idle]] = "CLOSE"
          /\ \A v \in Thread : pc[v] \in DeletePoint => on[v] # on[Idle]
      BY <1>3, <1>16, <2>2 DEF IdleHolds
    <3>2. on[Idle] \in exists'
      BY <1>6, <1>16, <2>2, <3>1
    <3> QED BY <1>11, <1>14, <3>1, <3>2
  <2> QED BY <1>3, <1>16, <2>1, <2>2 DEF IdleHolds
<1>18. DeadHeld(r, pc', on, exists')
  <2>1. ASSUME NEW v \in Thread, v # u
        PROVE  v \in ToSet(r.wait[q]) <=>
                  /\ r.stat[v] = "CLOSE" /\ v \in exists' /\ v \notin Off(pc', on)
                  /\ ~(pc'[Idle] = "free" /\ on[Idle] = v)
    <3>1. /\ v \in ToSet(r.wait[q]) <=> v \in ToSet(k.wait[q])
          /\ v \in exists' <=> v \in exists
          /\ v \in Off(pc', on) <=> v \in F
      BY <1>6, <1>10, <1>11, <2>1
    <3> QED BY <1>3, <1>11, <1>16, <3>1 DEF DeadHeld
  <2>2. u \in ToSet(r.wait[q]) <=> u \in exists'
    BY <1>2, <1>6, <1>11
  <2>3. /\ r.stat[u] = "CLOSE" /\ u \notin Off(pc', on)
        /\ ~(pc'[Idle] = "free" /\ on[Idle] = u)
    BY <1>4, <1>10, <1>11, <1>16
  <2> QED BY <2>1, <2>2, <2>3 DEF DeadHeld
<1>19. CurrentHolds(r, pc', on)
  <2>1. t \notin Off(pc', on) /\ r.cur = t /\ r.stat[t] = "READY"
    BY <1>1, <1>2, <1>3, <1>10, <1>11 DEF CurrentHolds
  <2> QED BY <1>2, <1>8, <1>9, <2>1 DEF CurrentHolds
<1>20. RolesHold(r, exists')
  BY <1>3, <1>4, <1>6, <1>11 DEF RolesHold
<1>21. LifeHolds(r, pc', on, exists')
  <2>1. exists' \subseteq Thread
    BY <1>3, <1>6
  <2> QED BY <1>2, <1>9, <1>12, <1>15, <1>17, <1>18, <1>19, <1>20, <2>1 DEF LifeHolds
<1>22. NoneRises
  BY <1>6, <1>11 DEF NoneRises
<1>23. LifeInv'
  BY <1>2, <1>6, <1>21 DEF LifeInv
<1> QED BY <1>22, <1>23

\* When the idle thread runs nobody is in a window and nobody is taken off.
LEMMA IdleAlone ==
    ASSUME LifeInv, k.cur = Idle
    PROVE  /\ LifeHolds(k, pc, on, exists) /\ fault = FALSE /\ CoreOK(k, {})
           /\ k.lock = 0 /\ k.stat[Idle] = "READY" /\ Idle \in Thread
           /\ \A v \in Thread : pc[v] \notin Windows /\ pc[v] \notin DeletePoint
           /\ \A v \in Thread \ {Idle} : k.stat[v] # "READY"
<1>1. /\ LifeHolds(k, pc, on, exists) /\ fault = FALSE /\ CoreOK(k, Off(pc, on))
      /\ WindowsHold(k, pc, on, exists) /\ CurrentHolds(k, pc, on)
  BY DEF LifeInv, LifeHolds
<1>2. k.lock = 0 /\ \A v \in Thread \ {Idle} : k.stat[v] # "READY"
  BY <1>1 DEF CurrentHolds
<1>3. \A v \in Thread : pc[v] \notin Windows /\ pc[v] \notin DeletePoint
  BY <1>1, <1>2 DEF WindowsHold, Windows
<1>4. Off(pc, on) = {}
  BY <1>3 DEF Off
<1>5. k.stat[Idle] = "READY" /\ Idle \in Thread
  BY <1>1, CoreFacts, ThreadAssumption
<1> QED BY <1>1, <1>2, <1>3, <1>4, <1>5

\* A step of the idle thread, alone with the dead.
LEMMA ReapStep ==
    ASSUME RolesApart, NEW s, NEW c, NEW o, NEW x, LifeHolds(s, c, o, x),
           \A v \in Thread : c[v] \notin DeletePoint /\ c[v] \notin Windows,
           \A v \in Thread \ {Idle} : s.stat[v] # "READY",
           NEW r, CoreOK(r, {}), r.stat = s.stat, r.prio = s.prio, r.lock = 0,
           r.cur = Idle \/ Chosen(r, {}, r.cur),
           NEW d \in [Thread -> Pcs], \A v \in Thread \ {Idle} : d[v] = c[v],
           d[Idle] \in {"run", "free"}, NEW n \in [Thread -> Thread],
           NEW y, y \subseteq x, \A v \in x \ y : s.stat[v] = "CLOSE",
           d[Idle] = "free" => n[Idle] \in y \ Static /\ s.stat[n[Idle]] = "CLOSE",
           \A v \in Thread : v \in ToSet(r.wait[rt_thread_defunct]) <=>
                 /\ s.stat[v] = "CLOSE" /\ v \in y
                 /\ ~(d[Idle] = "free" /\ n[Idle] = v)
    PROVE  LifeHolds(r, d, n, y)
<1>1. /\ x \subseteq Thread /\ IdleHolds(s, c, o, x) /\ RolesHold(s, x)
  BY DEF LifeHolds
<1>2. d[Idle] \notin Windows /\ d[Idle] \notin DeletePoint
  BY DEF Windows, DeletePoint
<1>3. \A v \in Thread : d[v] \notin Windows /\ d[v] \notin DeletePoint
  BY <1>2
<1>4. Off(d, n) = {}
  BY <1>3 DEF Off
<1>5. WindowsHold(r, d, n, y)
  BY <1>3 DEF WindowsHold, Windows
<1>6. IdleHolds(r, d, n, y)
  BY <1>1, <1>3 DEF IdleHolds
<1>7. DeadHeld(r, d, n, y)
  BY <1>4 DEF DeadHeld
<1>8. RolesHold(r, y)
  BY <1>1 DEF RolesHold
<1>9. CurrentHolds(r, d, n)
  <2>1. CASE r.cur = Idle
    <3>1. r.stat[Idle] = "READY" /\ d[Idle] # "suspend"
      BY <1>2, CoreFacts DEF Windows
    <3> QED BY <1>4, <2>1, <3>1 DEF CurrentHolds
  <2>2. CASE Chosen(r, {}, r.cur)
    <3>1. CoreOK(r, Off(d, n)) /\ Chosen(r, Off(d, n), r.cur) /\ r.lock = 0
      BY <1>4, <2>2
    <3> QED BY <1>5, <1>8, <3>1, ChosenCurrent
  <2> QED BY <2>1, <2>2
<1>10. CoreOK(r, Off(d, n)) /\ y \subseteq Thread
  BY <1>1, <1>4
<1> QED BY <1>5, <1>6, <1>7, <1>8, <1>9, <1>10 DEF LifeHolds

\* Unlinking a dead thread changes the list of the dead only.
LEMMA CoreUnlink ==
    ASSUME NEW s, NEW F, CoreOK(s, F), NEW u \in Thread, s.stat[u] = "CLOSE"
    PROVE  LET r == rt_list_remove(s, u) IN
           /\ CoreOK(r, F) /\ r.stat = s.stat /\ r.prio = s.prio
           /\ ToSet(r.wait[rt_thread_defunct]) = ToSet(s.wait[rt_thread_defunct]) \ {u}
           /\ r.cur = s.cur /\ r.lock = s.lock
<1> DEFINE r == rt_list_remove(s, u)
<1>1. /\ s \in KernelState /\ NoDuplicates(s) /\ TimersSuspended(s)
      /\ \A p \in Prio : u \notin ToSet(s.ready[p])
  BY CoreFacts DEF CoreOK
<1>2. /\ r \in KernelState /\ NoDuplicates(r)
      /\ \A p \in Prio : r.ready[p] = s.ready[p]
      /\ \A q \in Queue : ToSet(r.wait[q]) = ToSet(s.wait[q]) \ {u}
      /\ r.stat = s.stat /\ r.prio = s.prio /\ r.number = s.number
      /\ r.number_mask = s.number_mask /\ r.high_mask = s.high_mask
      /\ r.table = s.table /\ r.group = s.group
      /\ r.timer = s.timer /\ r.cur = s.cur /\ r.lock = s.lock
  BY <1>1, ListRemoveFields, SMTT(60)
<1> HIDE DEF r
<1>3. SameSched(r, s)
  BY <1>1, <1>2 DEF SameSched, KernelState
<1>4. WaitDistinct(r) /\ TimersSuspended(r)
  BY <1>1, <1>2 DEF WaitDistinct, TimersSuspended, NoDuplicates
<1>5. Seen(r, F) = Seen(s, F)
  BY <1>2, SeenSame
<1>6. CoreOK(r, F)
  BY <1>2, <1>3, <1>4, <1>5, CoreFrame
<1> QED BY <1>2, <1>6, LifecycleAssumption DEF r

\* The thread at the head of rt_thread_defunct.
LEMMA HeadDead ==
    ASSUME LifeInv, k.cur = Idle, Defunct # << >>
    PROVE  /\ Head(Defunct) \in Thread /\ Head(Defunct) \in exists
           /\ k.stat[Head(Defunct)] = "CLOSE"
<1>1. Defunct \in Seq(Thread) /\ DeadHeld(k, pc, on, exists)
  BY LifecycleAssumption DEF LifeInv, LifeHolds, CoreOK, KernelState, Defunct
<1>2. Head(Defunct) \in Thread /\ Head(Defunct) \in ToSet(Defunct)
  BY <1>1 DEF ToSet
<1> QED BY <1>1, <1>2 DEF DeadHeld, Defunct

\* The idle thread takes a static thread off rt_thread_defunct and reschedules.
LEMMA ReapStaticKeeps ==
    ASSUME RolesApart, LifeInv, ReapStatic
    PROVE  LifeInv' /\ NoneRises
<1> DEFINE h == Head(Defunct)
           m == rt_list_remove(k, h)
           l == [m EXCEPT !.lock = 0]
           r == rt_schedule(l)
           q == rt_thread_defunct
<1>1. /\ k.cur = Idle /\ pc[Idle] = "run" /\ Defunct # << >>
      /\ exists' = exists \ {h} /\ k' = rt_exit_critical(m) /\ pc' = pc /\ on' = on
      /\ fault' = fault
  BY DEF ReapStatic, At
<1>2. /\ LifeHolds(k, pc, on, exists) /\ fault = FALSE /\ CoreOK(k, {}) /\ k.lock = 0
      /\ \A v \in Thread : pc[v] \notin DeletePoint /\ pc[v] \notin Windows
      /\ \A v \in Thread \ {Idle} : k.stat[v] # "READY"
  BY <1>1, IdleAlone
<1>3. h \in Thread /\ h \in exists /\ k.stat[h] = "CLOSE"
  BY <1>1, HeadDead
<1> HIDE DEF h
<1>4. /\ CoreOK(m, {}) /\ m.stat = k.stat /\ m.prio = k.prio
      /\ ToSet(m.wait[q]) = ToSet(k.wait[q]) \ {h} /\ m.lock = 0
  BY <1>2, <1>3, CoreUnlink
<1> HIDE DEF m
<1>5. CoreOK(l, {}) /\ l.stat = m.stat /\ l.prio = m.prio /\ l.wait = m.wait /\ l.lock = 0
  BY <1>4, CoreLock
<1>6. k' = r
  BY <1>1, <1>4 DEF rt_exit_critical
<1> HIDE DEF l
<1>7. /\ CoreOK(r, {}) /\ r.stat = l.stat /\ r.prio = l.prio /\ r.wait = l.wait
      /\ r.lock = 0 /\ Chosen(r, {}, r.cur)
  BY <1>5, CoreSchedule DEF Keeps
<1> HIDE DEF r
<1>8. /\ pc \in [Thread -> Pcs] /\ on \in [Thread -> Thread] /\ DeadHeld(k, pc, on, exists)
  BY <1>2 DEF LifeHolds
<1>9. Off(pc, on) = {}
  BY <1>2 DEF Off
<1>10. \A v \in Thread : v \in ToSet(r.wait[q]) <=>
             /\ k.stat[v] = "CLOSE" /\ v \in exists'
             /\ ~(pc[Idle] = "free" /\ on[Idle] = v)
  BY <1>1, <1>4, <1>5, <1>7, <1>8, <1>9 DEF DeadHeld
<1>11. LifeHolds(r, pc, on, exists')
  <2>1. /\ r.stat = k.stat /\ r.prio = k.prio /\ exists' \subseteq exists
        /\ \A v \in exists \ exists' : k.stat[v] = "CLOSE"
        /\ pc[Idle] \in {"run", "free"} /\ pc[Idle] # "free"
    BY <1>1, <1>3, <1>4, <1>5, <1>7
  <2> QED BY <1>2, <1>7, <1>8, <1>10, <2>1, ReapStep
<1>12. NoneRises
  BY <1>4, <1>5, <1>6, <1>7 DEF NoneRises
<1>13. LifeInv'
  BY <1>1, <1>2, <1>6, <1>11 DEF LifeInv
<1> QED BY <1>12, <1>13

\* The idle thread takes another thread off rt_thread_defunct to free it.
LEMMA ReapDynamicKeeps ==
    ASSUME RolesApart, LifeInv, ReapDynamic
    PROVE  LifeInv' /\ NoneRises
<1> DEFINE h == Head(Defunct)
           r == rt_list_remove(k, h)
           q == rt_thread_defunct
<1>1. /\ k.cur = Idle /\ pc[Idle] = "run" /\ Defunct # << >> /\ h \notin Static
      /\ on' = [on EXCEPT ![Idle] = h] /\ k' = r /\ pc' = [pc EXCEPT ![Idle] = "free"]
      /\ exists' = exists /\ fault' = fault
  BY DEF ReapDynamic, At, Goto
<1>2. /\ LifeHolds(k, pc, on, exists) /\ fault = FALSE /\ CoreOK(k, {}) /\ k.lock = 0
      /\ Idle \in Thread
      /\ \A v \in Thread : pc[v] \notin DeletePoint /\ pc[v] \notin Windows
      /\ \A v \in Thread \ {Idle} : k.stat[v] # "READY"
  BY <1>1, IdleAlone
<1>3. h \in Thread /\ h \in exists /\ k.stat[h] = "CLOSE"
  BY <1>1, HeadDead
<1> HIDE DEF h
<1>4. /\ CoreOK(r, {}) /\ r.stat = k.stat /\ r.prio = k.prio
      /\ ToSet(r.wait[q]) = ToSet(k.wait[q]) \ {h} /\ r.lock = 0 /\ r.cur = Idle
  BY <1>1, <1>2, <1>3, CoreUnlink
<1> HIDE DEF r
<1>5. /\ pc \in [Thread -> Pcs] /\ on \in [Thread -> Thread] /\ DeadHeld(k, pc, on, exists)
  BY <1>2 DEF LifeHolds
<1>6. Off(pc, on) = {}
  BY <1>2 DEF Off
<1>7. /\ pc' \in [Thread -> Pcs] /\ pc'[Idle] = "free" /\ pc'[Idle] \in {"run", "free"}
      /\ \A v \in Thread \ {Idle} : pc'[v] = pc[v]
      /\ on' \in [Thread -> Thread] /\ on'[Idle] = h
  BY <1>1, <1>2, <1>3, <1>5 DEF Pcs
<1>8. \A v \in Thread : v \in ToSet(r.wait[q]) <=>
             /\ k.stat[v] = "CLOSE" /\ v \in exists
             /\ ~(pc'[Idle] = "free" /\ on'[Idle] = v)
  BY <1>1, <1>4, <1>5, <1>6, <1>7 DEF DeadHeld
<1>9. LifeHolds(r, pc', on', exists)
  <2>1. /\ exists \subseteq exists /\ \A v \in exists \ exists : k.stat[v] = "CLOSE"
        /\ on'[Idle] \in exists \ Static /\ k.stat[on'[Idle]] = "CLOSE"
    BY <1>1, <1>3, <1>7
  <2> QED BY <1>2, <1>4, <1>7, <1>8, <2>1, ReapStep
<1>10. NoneRises
  BY <1>1, <1>4 DEF NoneRises
<1>11. LifeInv'
  BY <1>1, <1>2, <1>9 DEF LifeInv
<1> QED BY <1>10, <1>11

\* The idle thread frees a dead thread.
LEMMA ReapFreeKeeps ==
    ASSUME RolesApart, LifeInv, ReapFree
    PROVE  LifeInv' /\ NoneRises
<1>1. /\ k.cur = Idle /\ pc[Idle] = "free" /\ exists' = exists \ {on[Idle]}
      /\ pc' = [pc EXCEPT ![Idle] = "run"] /\ k' = k /\ on' = on /\ fault' = fault
  BY DEF ReapFree, At, Goto
<1>2. /\ LifeHolds(k, pc, on, exists) /\ fault = FALSE /\ CoreOK(k, {}) /\ k.lock = 0
      /\ Idle \in Thread
      /\ \A v \in Thread : pc[v] \notin DeletePoint /\ pc[v] \notin Windows
      /\ \A v \in Thread \ {Idle} : k.stat[v] # "READY"
  BY <1>1, IdleAlone
<1>3. /\ pc \in [Thread -> Pcs] /\ on \in [Thread -> Thread] /\ DeadHeld(k, pc, on, exists)
      /\ k.stat[on[Idle]] = "CLOSE"
  BY <1>1, <1>2 DEF LifeHolds, IdleHolds
<1>4. Off(pc, on) = {}
  BY <1>2 DEF Off
<1>5. /\ pc' \in [Thread -> Pcs] /\ pc'[Idle] = "run" /\ pc'[Idle] # "free"
      /\ \A v \in Thread \ {Idle} : pc'[v] = pc[v]
  BY <1>1, <1>2, <1>3 DEF Pcs
<1>6. \A v \in Thread : v \in ToSet(k.wait[rt_thread_defunct]) <=>
             /\ k.stat[v] = "CLOSE" /\ v \in exists'
             /\ ~(pc'[Idle] = "free" /\ on[Idle] = v)
  BY <1>1, <1>3, <1>4, <1>5 DEF DeadHeld
<1>7. LifeHolds(k, pc', on, exists')
  <2>1. /\ exists' \subseteq exists /\ \A v \in exists \ exists' : k.stat[v] = "CLOSE"
        /\ pc'[Idle] \in {"run", "free"} /\ k.cur = Idle
    BY <1>1, <1>3, <1>5
  <2>2. k.stat = k.stat /\ k.prio = k.prio
    OBVIOUS
  <2> QED BY ONLY RolesApart, <1>2, <1>3, <1>5, <1>6, <2>1, <2>2, ReapStep
<1>8. NoneRises
  BY <1>1 DEF NoneRises
<1>9. LifeInv'
  BY <1>1, <1>2, <1>7 DEF LifeInv
<1> QED BY <1>8, <1>9

-----------------------------------------------------------------------------
(* The theorems.                                                           *)

\* At the start all threads exist, nobody has called anything.
LEMMA LifeInit == Init => LifeInv
<1> SUFFICES ASSUME Init PROVE LifeInv
  OBVIOUS
<1>1. k = BootState /\ pc = [t \in Thread |-> "run"] /\ exists = Thread
      /\ on = [t \in Thread |-> t] /\ fault = FALSE
  BY DEF Init, ThreadsInit
<1>2. KernelOK(k)
  BY <1>1, MainAssumption, BootOK DEF BootState
<1>3. /\ k.stat = [t \in Thread |-> IF t \in {Idle, Main} THEN "READY" ELSE "INIT"]
      /\ k.prio = init_priority
      /\ k.number = [t \in Thread |-> IF t \in {Idle, Main} THEN NumberOf(init_priority[t]) ELSE 0]
      /\ k.number_mask = [t \in Thread |->
            IF t \in {Idle, Main} THEN {NumberOf(init_priority[t])} ELSE {}]
      /\ k.high_mask = [t \in Thread |->
            IF t \in {Idle, Main} THEN {HighOf(init_priority[t])} ELSE {}]
      /\ k.wait = [q \in Queue |-> << >>] /\ k.timer = {} /\ k.cur = Main
  BY <1>1 DEF BootState
<1>4. /\ \A t \in Thread : k.stat[t] \in {"READY", "INIT"} /\ pc[t] = "run"
      /\ k.stat[Main] = "READY" /\ Main \in Thread \ {Idle}
  BY <1>1, <1>3, MainAssumption
<1>5. Off(pc, on) = {}
  BY <1>4 DEF Off, DeletePoint
<1>6. CoreOK(k, {})
  <2>1. k \in KernelState /\ SameSched(k, k)
    BY <1>2 DEF KernelOK, SameSched
  <2>2. MasksSane(k)
    BY <1>3 DEF MasksSane
  <2>3. WaitDistinct(k) /\ TimersSuspended(k)
    BY <1>3 DEF WaitDistinct, TimersSuspended, IsInjective
  <2>4. \A t \in Thread : Seen(k, {})[t] = k.stat[t]
    BY <1>4 DEF Seen
  <2> QED BY <1>2, <2>1, <2>2, <2>3, <2>4, ViewFrame
<1>7. WindowsHold(k, pc, on, exists)
  BY <1>4 DEF WindowsHold, Windows, DeletePoint
<1>8. IdleHolds(k, pc, on, exists)
  BY <1>4, ThreadAssumption DEF IdleHolds
<1>9. DeadHeld(k, pc, on, exists)
  <2>1. ToSet(k.wait[rt_thread_defunct]) = {}
    BY <1>3, LifecycleAssumption DEF ToSet
  <2> QED BY <1>4, <2>1 DEF DeadHeld
<1>10. CurrentHolds(k, pc, on)
  BY <1>3, <1>4, <1>5 DEF CurrentHolds
<1>11. RolesHold(k, exists)
  <2>1. \A t \in Thread : k.prio[t] = Lowest <=> t = Idle
    BY <1>3, ThreadAssumption DEF Lowest
  <2>2. Victim \subseteq Thread /\ Controlled \subseteq Thread
    BY LifecycleAssumption
  <2> QED BY <1>1, <1>4, <2>1, <2>2 DEF RolesHold
<1>12. pc \in [Thread -> Pcs] /\ on \in [Thread -> Thread] /\ exists \subseteq Thread
  BY <1>1 DEF Pcs
<1> QED BY <1>1, <1>5, <1>6, <1>7, <1>8, <1>9, <1>10, <1>11, <1>12 DEF LifeInv, LifeHolds

\* Every step keeps the invariant and leaves the dead dead.
LEMMA LifeStep ==
    ASSUME RolesApart, LifeInv, [Next]_vars
    PROVE  LifeInv' /\ NoneRises
<1>1. CASE UNCHANGED vars
  BY <1>1 DEF vars, kvars, lvars, LifeInv, NoneRises
<1>2. ASSUME NEW t \in Thread, ThreadStep(t) PROVE LifeInv' /\ NoneRises
  BY <1>2, SchedulesKeep, FramesKeep, ActsKeep, DeleteRemoveKeeps, DeleteTimerKeeps,
     DeleteStatKeeps, DeleteEndKeeps DEF ThreadStep
<1>3. ASSUME NEW t \in Thread, ThreadCall(t) PROVE LifeInv' /\ NoneRises
  <2>1. CASE rt_thread_sleep(t) \/ rt_thread_delay_until(t)
    BY <2>1, SleepKeeps DEF rt_thread_sleep, rt_thread_delay_until
  <2>2. CASE rt_thread_yield(t) \/ EnterCritical(t) \/ ExitCritical(t) \/ rt_thread_exit(t)
    BY <2>2, SchedulesKeep, FramesKeep, ExitKeeps
  <2>3. ASSUME NEW u \in Thread, Create(t, u) \/ StartupStep(t, u) PROVE LifeInv' /\ NoneRises
    BY <2>3, CreateKeeps, StartupKeeps
  <2>4. ASSUME NEW u \in Thread, SuspendTest(t, u) \/ ResumeTest(t, u) \/ Delete(t, u)
        PROVE  LifeInv' /\ NoneRises
    BY <2>4, TestsKeep
  <2>5. ASSUME NEW u \in Thread, NEW p \in NewPriority, Control(t, u, p)
        PROVE  LifeInv' /\ NoneRises
    BY <2>5, ControlKeeps
  <2> QED BY <1>3, <2>1, <2>2, <2>3, <2>4, <2>5 DEF ThreadCall
<1>4. ASSUME NEW t \in Thread, TimeoutStep(t) PROVE LifeInv' /\ NoneRises
  BY <1>4, TimeoutKeeps
<1>5. CASE IdleStep
  BY <1>5, ReapStaticKeeps, ReapDynamicKeeps, ReapFreeKeeps DEF IdleStep
<1>6. CASE TickStep
  BY <1>6, SchedulesKeep, ThreadAssumption
<1> QED BY <1>1, <1>2, <1>3, <1>4, <1>5, <1>6 DEF Next

\* The invariant holds in every reachable state, whatever the threads, their
\* priorities and their roles, as long as the roles are kept apart.
LEMMA LifeInvariance ==
    ASSUME RolesApart
    PROVE  Spec => []LifeInv
<1>1. LifeInv /\ [Next]_vars => LifeInv'
  BY LifeStep
<1> QED BY <1>1, LifeInit, PTL DEF Spec

\* ListsConsistent: ready lists, bitmap, masks and timers agree with the states
\* of the threads through every window of suspend, resume, delete and exit.
THEOREM ListsStayConsistent ==
    ASSUME RolesApart
    PROVE  Spec => []ListsConsistent
<1>1. LifeInv => ListsConsistent
  <2> SUFFICES ASSUME LifeInv PROVE ListsConsistent
    OBVIOUS
  <2>1. /\ fault = FALSE /\ CoreOK(k, Off(pc, on)) /\ TimersSuspended(k)
        /\ pc \in [Thread -> Pcs] /\ on \in [Thread -> Thread] /\ exists \subseteq Thread
    BY DEF LifeInv, LifeHolds, CoreOK
  <2>2. /\ k \in KernelState
        /\ NoDuplicates(k) /\ BitmapExact(k) /\ MasksCurrent(k) /\ k.stat[Idle] = "READY"
        /\ \A t \in Thread, p \in Prio :
              t \in ToSet(k.ready[p]) <=>
                 k.stat[t] = "READY" /\ k.prio[t] = p /\ t \notin Off(pc, on)
    BY <2>1, CoreFacts
  <2>3. \A t \in Thread : TakenOff(t) <=> t \in Off(pc, on)
    BY DEF TakenOff, Off
  <2>4. TypeOK
    BY <2>1, <2>2 DEF TypeOK
  <2> QED BY <2>1, <2>2, <2>3, <2>4 DEF ListsConsistent, IdleReady, TimersSuspended
<1> QED BY <1>1, LifeInvariance, PTL

\* DefunctExact: a dead thread whose memory is held is on rt_thread_defunct, or
\* about to be put there or freed; nothing leaks, nothing is freed twice.
THEOREM DefunctStaysExact ==
    ASSUME RolesApart
    PROVE  Spec => []DefunctExact
<1>1. LifeInv => DefunctExact
  <2>1. \A t \in Thread : TakenOff(t) <=> t \in Off(pc, on)
    BY DEF TakenOff, Off
  <2> QED BY <2>1 DEF LifeInv, LifeHolds, DeadHeld, DefunctExact, Defunct
<1> QED BY <1>1, LifeInvariance, PTL

\* NoCorruption: no step uses a freed thread object, links a linked node again
\* or fails an assertion, and the running thread is alive.
THEOREM NothingIsCorrupted ==
    ASSUME RolesApart
    PROVE  Spec => []NoCorruption
<1>1. LifeInv => NoCorruption
  <2> SUFFICES ASSUME LifeInv PROVE NoCorruption
    OBVIOUS
  <2>1. /\ fault = FALSE /\ LifeHolds(k, pc, on, exists) /\ k.cur \in Thread
        /\ k.stat[k.cur] # "CLOSE"
    BY DEF LifeInv, LifeHolds, CoreOK, KernelState, CurrentHolds
  <2>2. k.cur \in exists
    BY <2>1, Living
  <2> QED BY <2>1, <2>2 DEF NoCorruption
<1> QED BY <1>1, LifeInvariance, PTL

\* IdleNeverInCritical: the critical section the idle thread ends without having
\* begun it is never that of another thread.
THEOREM IdleStaysOutside ==
    ASSUME RolesApart
    PROVE  Spec => []IdleNeverInCritical
<1>1. LifeInv => IdleNeverInCritical
  BY DEF LifeInv, LifeHolds, CurrentHolds, IdleNeverInCritical
<1> QED BY <1>1, LifeInvariance, PTL

\* DeadStaysDead: a closed thread is never made ready or suspended again; its
\* object can only be initialised anew.
THEOREM NoneIsRevived ==
    ASSUME RolesApart
    PROVE  Spec => DeadStaysDead
<1>1. LifeInv /\ [Next]_vars =>
         [\A t \in Thread : k.stat[t] = "CLOSE" => k'.stat[t] \in {"CLOSE", "INIT"}]_vars
  BY LifeStep DEF NoneRises
<1> QED BY <1>1, LifeInvariance, PTL DEF Spec, DeadStaysDead
=============================================================================
