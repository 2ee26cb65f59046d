---------------------------- MODULE TimerProofs ----------------------------
(***************************************************************************)
(* The timers of module Timer: TimersConsistent, NeverEarly,               *)
(* TickServesAllDue and HardStopHolds hold for every set of timers, every  *)
(* width of the tick counter and every bound MaxLag.                       *)
(***************************************************************************)
EXTENDS Timer, SequenceTheorems, WellFoundedInduction, TLAPS

-----------------------------------------------------------------------------
(* Lists without duplicates, sorted by the time left: what KernelProofs    *)
(* shows of the lists of threads, of the lists of timers.                  *)

\* Members and distinctness of a list, by index.
LEMMA ListIndex ==
    ASSUME NEW S, NEW s \in Seq(S)
    PROVE  /\ \A x : x \in ToSet(s) <=> \E j \in 1..Len(s) : s[j] = x
           /\ IsInjective(s) <=> \A a, b \in 1..Len(s) : s[a] = s[b] => a = b
<1>1. DOMAIN s = 1..Len(s)
  BY LenProperties
<1> QED BY <1>1 DEF ToSet, IsInjective

\* Taking out a node closes the gap: what was behind the node moves up by one.
LEMMA ListRemoveAt ==
    ASSUME NEW S, NEW s \in Seq(S), NEW i \in 1..Len(s)
    PROVE  /\ RemoveAt(s, i) \in Seq(S)
           /\ Len(RemoveAt(s, i)) = Len(s) - 1
           /\ \A j \in 1..Len(s)-1 : RemoveAt(s, i)[j] = IF j < i THEN s[j] ELSE s[j+1]
<1> DEFINE l == SubSeq(s, 1, i - 1)
           r == SubSeq(s, i + 1, Len(s))
<1>1. /\ l \in Seq(S) /\ Len(l) = i - 1
      /\ \A j \in 1..i-1 : l[j] = s[j]
  <2>1. \A j \in 1..i-1 : s[j] \in S
    OBVIOUS
  <2> QED BY <2>1, SubSeqProperties
<1>2. /\ r \in Seq(S) /\ Len(r) = Len(s) - i
      /\ \A j \in 1..Len(s)-i : r[j] = s[i+j]
  <2>1. \A j \in i+1..Len(s) : s[j] \in S
    OBVIOUS
  <2>2. /\ r \in Seq(S)
        /\ Len(r) = IF i + 1 <= Len(s) THEN Len(s) - (i + 1) + 1 ELSE 0
        /\ \A j \in 1..Len(s)-(i+1)+1 : r[j] = s[(i+1)+j-1]
    BY <2>1, SubSeqProperties
  <2>3. \A j \in 1..Len(s)-i : (i+1)+j-1 = i+j
    OBVIOUS
  <2> QED BY <2>2, <2>3
<1> HIDE DEF l, r
<1>3. /\ l \o r \in Seq(S)
      /\ Len(l \o r) = Len(s) - 1
      /\ \A j \in 1..Len(s)-1 : (l \o r)[j] = IF j <= i - 1 THEN l[j] ELSE r[j-(i-1)]
  <2>1. /\ l \o r \in Seq(S)
        /\ Len(l \o r) = Len(l) + Len(r)
        /\ \A j \in 1..Len(l)+Len(r) : (l \o r)[j] =
               IF j <= Len(l) THEN l[j] ELSE r[j-Len(l)]
    BY <1>1, <1>2, ConcatProperties
  <2>2. Len(l) = i - 1 /\ Len(r) = Len(s) - i /\ Len(l) + Len(r) = Len(s) - 1
    BY <1>1, <1>2
  <2> QED BY <2>1, <2>2
<1>4. \A j \in 1..Len(s)-1 : (l \o r)[j] = IF j < i THEN s[j] ELSE s[j+1]
  <2> SUFFICES ASSUME NEW j \in 1..Len(s)-1
               PROVE  (l \o r)[j] = IF j < i THEN s[j] ELSE s[j+1]
    OBVIOUS
  <2>1. CASE j < i
    BY <2>1, <1>1, <1>3
  <2>2. CASE ~(j < i)
    <3>1. j-(i-1) \in 1..Len(s)-i /\ i+(j-(i-1)) = j+1 /\ ~(j <= i-1)
      BY <2>2
    <3> QED BY <3>1, <1>2, <1>3, <2>2
  <2> QED BY <2>1, <2>2
<1> QED BY <1>3, <1>4 DEF RemoveAt, l, r

\* Taking a timer off its list.
LEMMA ListRemove ==
    ASSUME NEW S, NEW s \in Seq(S), NEW e, IsInjective(s)
    PROVE  /\ RemoveFirst(s, e) \in Seq(S)
           /\ ToSet(RemoveFirst(s, e)) = ToSet(s) \ {e}
           /\ IsInjective(RemoveFirst(s, e))
           /\ e \notin ToSet(s) => RemoveFirst(s, e) = s
           /\ \A i \in 1..Len(s) : s[i] = e => RemoveFirst(s, e) = RemoveAt(s, i)
<1>1. CASE ~ \E i \in 1..Len(s) : s[i] = e
  BY <1>1 DEF RemoveFirst, ToSet
<1>2. CASE \E i \in 1..Len(s) : s[i] = e
  <2>1. PICK i \in 1..Len(s) : s[i] = e
    BY <1>2
  <2>2. SelectInSeq(s, LAMBDA v : v = e) = i
    <3>1. {j \in 1..Len(s) : s[j] = e} = {i}
      BY <2>1 DEF IsInjective
    <3>2. Min({i}) = i
      BY DEF Min
    <3> QED BY <3>1, <3>2 DEF SelectInSeq
  <2>3. RemoveFirst(s, e) = RemoveAt(s, i)
    BY <1>2, <2>2 DEF RemoveFirst
  <2>4. /\ RemoveAt(s, i) \in Seq(S)
        /\ Len(RemoveAt(s, i)) = Len(s) - 1
        /\ \A j \in 1..Len(s)-1 : RemoveAt(s, i)[j] = IF j < i THEN s[j] ELSE s[j+1]
    BY ListRemoveAt
  <2>5. ToSet(RemoveAt(s, i)) = ToSet(s) \ {e}
    <3>1. \A j \in 1..Len(s)-1 : RemoveAt(s, i)[j] \in ToSet(s) \ {e}
      BY <2>1, <2>4, SMTT(30) DEF ToSet, IsInjective
    <3>2. \A x \in ToSet(s) \ {e} : \E j \in 1..Len(s)-1 : RemoveAt(s, i)[j] = x
      <4> SUFFICES ASSUME NEW n \in 1..Len(s), s[n] # e
                   PROVE  \E j \in 1..Len(s)-1 : RemoveAt(s, i)[j] = s[n]
        BY DEF ToSet
      <4>1. CASE n < i
        BY <4>1, <2>4
      <4>2. CASE n > i
        <5>1. n - 1 \in 1..Len(s)-1 /\ ~(n - 1 < i) /\ (n - 1) + 1 = n
          BY <4>2
        <5> QED BY <5>1, <2>4
      <4> QED BY <4>1, <4>2, <2>1
    <3>3. \A x : x \in ToSet(RemoveAt(s, i)) <=>
                 \E j \in 1..Len(s)-1 : RemoveAt(s, i)[j] = x
      BY <2>4, ListIndex
    <3> QED BY <3>1, <3>2, <3>3
  <2>6. IsInjective(RemoveAt(s, i))
    <3>1. \A m, n \in 1..Len(s) : s[m] = s[n] => m = n
      BY ListIndex
    <3>2. \A m, n \in 1..Len(s)-1 : RemoveAt(s, i)[m] = RemoveAt(s, i)[n] => m = n
      BY <3>1, <2>4
    <3> QED BY <3>2, <2>4, ListIndex
  <2>7. e \in ToSet(s)
    BY <2>1 DEF ToSet
  <2>8. \A n \in 1..Len(s) : s[n] = e => n = i
    BY <2>1, ListIndex
  <2> QED BY <2>3, <2>4, <2>5, <2>6, <2>7, <2>8
<1> QED BY <1>1, <1>2

\* Inserting a timer at a position of a list that does not hold it.
LEMMA ListInsert ==
    ASSUME NEW S, NEW s \in Seq(S), NEW e \in S, NEW i \in 1 .. Len(s) + 1
    PROVE  /\ InsertAt(s, i, e) \in Seq(S)
           /\ Len(InsertAt(s, i, e)) = Len(s) + 1
           /\ \A j \in 1 .. Len(s) + 1 : InsertAt(s, i, e)[j] =
                  IF j < i THEN s[j] ELSE IF j = i THEN e ELSE s[j - 1]
           /\ ToSet(InsertAt(s, i, e)) = ToSet(s) \cup {e}
           /\ IsInjective(s) /\ e \notin ToSet(s) => IsInjective(InsertAt(s, i, e))
<1> DEFINE r == InsertAt(s, i, e)
<1>1. /\ r \in Seq(S)
      /\ Len(r) = Len(s) + 1
      /\ \A j \in 1 .. Len(s) + 1 : r[j] =
            IF j < i THEN s[j] ELSE IF j = i THEN e ELSE s[j - 1]
  <2> DEFINE a == SubSeq(s, 1, i - 1)
             b == SubSeq(s, i, Len(s))
  <2>1. /\ a \in Seq(S) /\ Len(a) = i - 1
        /\ \A j \in 1..i-1 : a[j] = s[j]
    <3>1. \A j \in 1..i-1 : s[j] \in S
      OBVIOUS
    <3> QED BY <3>1, SubSeqProperties
  <2>2. /\ b \in Seq(S) /\ Len(b) = Len(s) - i + 1
        /\ \A j \in 1..Len(s)-i+1 : b[j] = s[i+j-1]
    <3>1. \A j \in i..Len(s) : s[j] \in S
      OBVIOUS
    <3> QED BY <3>1, SubSeqProperties
  <2>3. /\ <<e>> \in Seq(S) /\ Len(<<e>>) = 1 /\ <<e>>[1] = e
    OBVIOUS
  <2> HIDE DEF a, b
  <2> DEFINE c == a \o <<e>>
  <2>4. /\ c \in Seq(S)
        /\ Len(c) = i
        /\ \A j \in 1..i : c[j] = IF j <= i-1 THEN a[j] ELSE <<e>>[j-(i-1)]
    BY <2>1, <2>3, ConcatProperties
  <2> HIDE DEF c
  <2>5. /\ c \o b \in Seq(S)
        /\ Len(c \o b) = Len(s) + 1
        /\ \A j \in 1..Len(s)+1 : (c \o b)[j] = IF j <= i THEN c[j] ELSE b[j-i]
    <3>1. /\ c \o b \in Seq(S)
          /\ Len(c \o b) = Len(c) + Len(b)
          /\ \A j \in 1..Len(c)+Len(b) : (c \o b)[j] =
                IF j <= Len(c) THEN c[j] ELSE b[j-Len(c)]
      BY <2>2, <2>4, ConcatProperties
    <3>2. Len(c) = i /\ Len(c) + Len(b) = Len(s) + 1
      BY <2>2, <2>4
    <3> QED BY <3>1, <3>2
  <2>6. r = c \o b
    BY DEF InsertAt, r, a, b, c
  <2>7. ASSUME NEW j \in 1 .. Len(s) + 1
        PROVE  r[j] = IF j < i THEN s[j] ELSE IF j = i THEN e ELSE s[j - 1]
    <3>1. CASE j < i
      BY <3>1, <2>1, <2>4, <2>5, <2>6
    <3>2. CASE j = i
      <4>1. i - (i - 1) = 1 /\ ~(i <= i - 1) /\ i \in 1..i
        OBVIOUS
      <4>2. c[i] = <<e>>[1]
        BY <4>1, <2>4
      <4>3. r[j] = c[i]
        BY <3>2, <2>5, <2>6
      <4> QED BY <3>2, <4>2, <4>3
    <3>3. CASE j > i
      <4>1. j - i \in 1..Len(s)-i+1 /\ i+(j-i)-1 = j-1 /\ ~(j <= i)
        BY <3>3
      <4> QED BY <3>3, <4>1, <2>2, <2>5, <2>6
    <3> QED BY <3>1, <3>2, <3>3
  <2> QED BY <2>5, <2>6, <2>7
<1> HIDE DEF r
<1>2. ToSet(r) = ToSet(s) \cup {e}
  <2>1. \A j \in 1..Len(r) : r[j] \in ToSet(s) \cup {e}
    BY <1>1, SMTT(30) DEF ToSet
  <2>2. \A n \in 1..Len(s) : \E j \in 1..Len(r) : r[j] = s[n]
    <3> SUFFICES ASSUME NEW n \in 1..Len(s) PROVE \E j \in 1..Len(r) : r[j] = s[n]
      OBVIOUS
    <3>1. CASE n < i
      BY <3>1, <1>1
    <3>2. CASE ~(n < i)
      <4>1. n + 1 \in 1..Len(s) + 1 /\ ~(n + 1 < i) /\ n + 1 # i /\ (n + 1) - 1 = n
        BY <3>2
      <4> QED BY <4>1, <1>1
    <3> QED BY <3>1, <3>2
  <2>3. \E j \in 1..Len(r) : r[j] = e
    BY <1>1
  <2>4. /\ \A x : x \in ToSet(r) <=> \E j \in 1..Len(r) : r[j] = x
        /\ \A x : x \in ToSet(s) <=> \E j \in 1..Len(s) : s[j] = x
    BY <1>1, ListIndex
  <2> QED BY <2>1, <2>2, <2>3, <2>4
<1>3. ASSUME IsInjective(s), e \notin ToSet(s) PROVE IsInjective(r)
  <2>1. /\ \A m, n \in 1..Len(s) : s[m] = s[n] => m = n
        /\ \A m \in 1..Len(s) : s[m] # e
    BY <1>3, ListIndex
  <2>2. \A m, n \in 1..Len(s)+1 : r[m] = r[n] => m = n
    BY <2>1, <1>1, SMTT(30)
  <2> QED BY <2>2, <1>1, ListIndex
<1> QED BY <1>1, <1>2, <1>3 DEF r

\* A list whose members come by ascending key.
SortedBy(s, key) ==
    \A i, j \in 1 .. Len(s) : i < j => key[s[i]] <= key[s[j]]

\* Taking a timer off a sorted list leaves it sorted.
LEMMA SortedRemove ==
    ASSUME NEW S, NEW s \in Seq(S), NEW e, IsInjective(s), NEW key, SortedBy(s, key)
    PROVE  SortedBy(RemoveFirst(s, e), key)
<1>1. CASE e \notin ToSet(s)
  BY <1>1, ListRemove
<1>2. CASE e \in ToSet(s)
  <2>1. PICK i \in 1..Len(s) : s[i] = e
    BY <1>2, ListIndex
  <2>2. RemoveFirst(s, e) = RemoveAt(s, i)
    BY <2>1, ListRemove
  <2>3. /\ Len(RemoveAt(s, i)) = Len(s) - 1
        /\ \A j \in 1..Len(s)-1 : RemoveAt(s, i)[j] = IF j < i THEN s[j] ELSE s[j+1]
    BY ListRemoveAt
  <2>4. \A a, b \in 1 .. Len(s) : a < b => key[s[a]] <= key[s[b]]
    BY DEF SortedBy
  <2> SUFFICES ASSUME NEW a \in 1..Len(s)-1, NEW b \in 1..Len(s)-1, a < b
               PROVE  key[RemoveAt(s, i)[a]] <= key[RemoveAt(s, i)[b]]
    BY <2>2, <2>3 DEF SortedBy
  <2> DEFINE m == IF a < i THEN a ELSE a + 1
             n == IF b < i THEN b ELSE b + 1
  <2>5. m \in 1..Len(s) /\ n \in 1..Len(s) /\ m < n
    OBVIOUS
  <2>6. RemoveAt(s, i)[a] = s[m] /\ RemoveAt(s, i)[b] = s[n]
    BY <2>3
  <2> QED BY <2>4, <2>5, <2>6
<1> QED BY <1>1, <1>2

\* Inserting a timer behind those not later and before those not
\* earlier keeps a list sorted.
LEMMA SortedInsert ==
    ASSUME NEW S, NEW s \in Seq(S), NEW e \in S, NEW i \in 1 .. Len(s) + 1,
           NEW key, SortedBy(s, key),
           \A j \in 1 .. Len(s) : j < i => key[s[j]] <= key[e],
           \A j \in 1 .. Len(s) : j >= i => key[e] <= key[s[j]]
    PROVE  SortedBy(InsertAt(s, i, e), key)
<1> DEFINE r == InsertAt(s, i, e)
<1>1. /\ Len(r) = Len(s) + 1
      /\ \A j \in 1 .. Len(s) + 1 : r[j] =
            IF j < i THEN s[j] ELSE IF j = i THEN e ELSE s[j - 1]
  BY ListInsert
<1> HIDE DEF r
<1> SUFFICES ASSUME NEW a \in 1..Len(s)+1, NEW b \in 1..Len(s)+1, a < b
             PROVE  key[r[a]] <= key[r[b]]
  BY <1>1 DEF SortedBy, r
<1>2. \A m, n \in 1 .. Len(s) : m < n => key[s[m]] <= key[s[n]]
  BY DEF SortedBy
<1>3. CASE b < i
  BY <1>1, <1>2, <1>3
<1>4. CASE a < i /\ b = i
  BY <1>1, <1>4
<1>5. CASE a < i /\ b > i
  <2>1. b - 1 \in 1..Len(s) /\ a \in 1..Len(s) /\ a < b - 1
    BY <1>5
  <2> QED BY <1>1, <1>2, <1>5, <2>1, SMTT(60)
<1>6. CASE a = i
  <2>1. b - 1 \in 1..Len(s) /\ b - 1 >= i /\ ~(b < i) /\ b # i
    BY <1>6
  <2> QED BY <1>1, <1>6, <2>1
<1>7. CASE a > i
  <2>1. b - 1 \in 1..Len(s) /\ a - 1 \in 1..Len(s) /\ a - 1 < b - 1
    BY <1>7
  <2> QED BY <1>1, <1>2, <1>7, <2>1, SMTT(60)
<1> QED BY <1>3, <1>4, <1>5, <1>6, <1>7

\* The head of a list that is not empty is one of its members.
LEMMA ListHead ==
    ASSUME NEW S, NEW s \in Seq(S), s # << >>
    PROVE  Head(s) \in S /\ Head(s) \in ToSet(s)
BY DEF ToSet

\* A list is empty exactly when it has no member.
LEMMA ListEmpty ==
    ASSUME NEW S, NEW s \in Seq(S)
    PROVE  s = << >> <=> ToSet(s) = {}
BY DEF ToSet

\* A nonempty set of positions has a lowest one.
LEMMA MinNat ==
    ASSUME NEW S, S # {}, S \subseteq Nat
    PROVE  \E x \in S : \A y \in S : x <= y
<1> DEFINE R == OpToRel(<, Nat)
<1>1. \A x, y \in Nat : <<y, x>> \in R <=> y < x
  BY DEF OpToRel
<1>2. IsWellFoundedOn(R, Nat)
  BY NatLessThanWellFounded
<1> HIDE DEF R
<1>3. PICK x \in S : \A y \in S : ~ (<<y, x>> \in R)
  BY <1>2, WFMin
<1>4. \A y \in S : ~ (y < x)
  BY <1>1, <1>3
<1> QED BY <1>4

-----------------------------------------------------------------------------
(* Ticks modulo RT_TICK_MAX + 1.                                           *)

\* The longest time a timer can be set to.
Longest == Half - MaxLag - 1

\* A time and the bound MaxLag together stay below half of the range.
LEMMA Width ==
    /\ RT_TICK_MAX \in Nat /\ Half \in Nat /\ MaxLag \in Nat /\ Longest \in Nat
    /\ Longest >= 1 /\ Longest + MaxLag = Half - 1 /\ 2 * Half <= RT_TICK_MAX
<1>1. Delay \in Timer
  BY TimerAssumption DEF Timer
<1>2. PICK o \in [time : 1 .. Longest, periodic : BOOLEAN] : TRUE
  BY <1>1, TimerAssumption DEF Longest
<1>3. o.time \in 1 .. Longest
  BY <1>2
<1>4. RT_TICK_MAX \in Nat /\ MaxLag \in Nat
  BY TimerAssumption
<1>5. Half \in Nat /\ 2 * Half <= RT_TICK_MAX
  BY <1>4 DEF Half
<1> QED BY <1>3, <1>4, <1>5 DEF Longest

\* The remainder of a number less than a turn off the range.
LEMMA Turn ==
    ASSUME NEW n \in Nat \ {0}, NEW x \in Int, -n <= x, x < 2 * n
    PROVE  x % n = IF x < 0 THEN x + n ELSE IF x < n THEN x ELSE x - n
<1>1. CASE x < 0
  <2>1. x + n \in 0 .. n - 1 /\ x = n * (-1) + (x + n)
    BY <1>1
  <2> QED BY <1>1, <2>1
<1>2. CASE x >= 0 /\ x < n
  BY <1>2
<1>3. CASE x >= n
  <2>1. x - n \in 0 .. n - 1 /\ x = n * 1 + (x - n)
    BY <1>3
  <2> QED BY <1>3, <2>1
<1> QED BY <1>1, <1>2, <1>3

\* A tick some ticks ahead or behind.
LEMMA PlusIs ==
    ASSUME NEW m \in Tick, NEW d \in -Half .. Half
    PROVE  /\ Plus(m, d) \in Tick
           /\ Plus(m, d) \in {m + d, m + d + (RT_TICK_MAX + 1), m + d - (RT_TICK_MAX + 1)}
<1>1. m \in Int /\ d \in Int /\ RT_TICK_MAX \in Nat /\ 0 <= m /\ m <= RT_TICK_MAX
      /\ -RT_TICK_MAX <= d /\ d <= RT_TICK_MAX
  BY Width DEF Tick
<1>2. PICK n : n = RT_TICK_MAX + 1
  OBVIOUS
<1>3. PICK x : x = m + d
  OBVIOUS
<1>4. n \in Nat \ {0} /\ x \in Int /\ -n <= x /\ x < 2 * n
  BY <1>1, <1>2, <1>3
<1>5. x % n = IF x < 0 THEN x + n ELSE IF x < n THEN x ELSE x - n
  BY <1>4, Turn
<1>6. Plus(m, d) = x % n
  BY <1>2, <1>3 DEF Plus
<1> QED BY <1>1, <1>2, <1>3, <1>4, <1>5, <1>6 DEF Tick

\* The difference of two ticks less than half the range apart, as it is
\* computed, is the distance forwards; backwards it is at least half the range.
LEMMA MinusIs ==
    ASSUME NEW m \in Tick, NEW d \in -Half .. Half, NEW e \in -Half .. Half,
           d - e < Half, e - d < Half
    PROVE  /\ Minus(Plus(m, d), Plus(m, e)) \in Int
           /\ d >= e => Minus(Plus(m, d), Plus(m, e)) = d - e
           /\ d < e  => Minus(Plus(m, d), Plus(m, e)) > Half
<1>1. m \in Int /\ d \in Int /\ e \in Int /\ RT_TICK_MAX \in Nat /\ 2 * Half <= RT_TICK_MAX
      /\ Half \in Nat
  BY Width DEF Tick
<1>2. PICK n : n = RT_TICK_MAX + 1
  OBVIOUS
<1>3. PICK a : a = Plus(m, d)
  OBVIOUS
<1>4. PICK b : b = Plus(m, e)
  OBVIOUS
<1>5. a \in 0 .. n - 1 /\ a \in {m + d, m + d + n, m + d - n}
  BY <1>2, <1>3, PlusIs, <1>1 DEF Tick
<1>6. b \in 0 .. n - 1 /\ b \in {m + e, m + e + n, m + e - n}
  BY <1>2, <1>4, PlusIs, <1>1 DEF Tick
<1>7. PICK x : x = a - b
  OBVIOUS
<1>8. n \in Nat \ {0} /\ x \in Int /\ -n <= x /\ x < 2 * n
  BY <1>1, <1>2, <1>5, <1>6, <1>7
<1>9. x % n = IF x < 0 THEN x + n ELSE IF x < n THEN x ELSE x - n
  BY <1>8, Turn
<1>10. Minus(a, b) = x % n
  BY <1>2, <1>7 DEF Minus
<1>11. \/ x = d - e \/ x = d - e + n \/ x = d - e - n
       \/ x = d - e + 2 * n \/ x = d - e - 2 * n
  BY <1>1, <1>5, <1>6, <1>7, <1>8
<1>12. PICK h : h = Half
  OBVIOUS
<1>13. /\ x % n \in Int
       /\ d >= e => x % n = d - e
       /\ d < e  => x % n > h
  BY ONLY <1>1, <1>2, <1>8, <1>9, <1>11, <1>5, <1>6, <1>7, <1>12, d - e < Half, e - d < Half
<1> QED BY <1>3, <1>4, <1>10, <1>13, <1>12

\* One tick later a timer has one tick less to go.
LEMMA PlusOne ==
    ASSUME NEW m \in Tick, NEW d \in -Half + 1 .. Half
    PROVE  Plus(m, 1) \in Tick /\ Plus(Plus(m, 1), d - 1) = Plus(m, d)
<1>1. m \in Int /\ d \in Int /\ RT_TICK_MAX \in Nat /\ 2 * Half <= RT_TICK_MAX
      /\ Half \in Nat /\ Half >= 1
  BY Width DEF Tick
<1>2. PICK n : n = RT_TICK_MAX + 1
  OBVIOUS
<1>3. 1 \in -Half .. Half /\ d \in -Half .. Half /\ d - 1 \in -Half .. Half
  BY <1>1
<1>4. PICK p : p = Plus(m, 1)
  OBVIOUS
<1>5. p \in Tick /\ p \in {m + 1, m + 1 + n, m + 1 - n}
  BY <1>2, <1>3, <1>4, PlusIs
<1>6. PICK q : q = Plus(p, d - 1)
  OBVIOUS
<1>7. q \in Tick /\ q \in {p + (d - 1), p + (d - 1) + n, p + (d - 1) - n}
  BY <1>2, <1>3, <1>5, <1>6, PlusIs
<1>8. PICK r : r = Plus(m, d)
  OBVIOUS
<1>9. r \in Tick /\ r \in {m + d, m + d + n, m + d - n}
  BY <1>2, <1>3, <1>8, PlusIs
<1>10. q = r
  BY ONLY <1>1, <1>2, <1>5, <1>7, <1>9 DEF Tick
<1> QED BY <1>4, <1>5, <1>6, <1>8, <1>10

-----------------------------------------------------------------------------
(* The inductive invariant.                                                *)

TimerState ==
    [list         : [{"hard", "soft"} -> Seq(Timer)],
     timeout_tick : [Timer -> Tick],
     activated    : [Timer -> BOOLEAN],
     due          : [Timer -> -MaxLag .. Half]]

\* The hard list links hard timers and the soft list soft ones, each once and
\* sorted by the time left.
ListsOK(x) ==
    /\ x \in TimerState
    /\ ToSet(x.list["hard"]) \subseteq Hard /\ ToSet(x.list["soft"]) \subseteq Soft
    /\ \A l \in {"hard", "soft"} : IsInjective(x.list[l]) /\ SortedBy(x.list[l], x.due)

\* The tick a timer waits for lies its remaining time ahead, less than half of
\* the range away.
OnClock(x, now, t) ==
    /\ x.due[t] \in -MaxLag .. Longest
    /\ x.timeout_tick[t] = Plus(now, x.due[t])

\* What the lists promise at tick now.
ListsAt(x, now) ==
    /\ ListsOK(x)
    /\ \A t \in Timer : Listed(x, t) => OnClock(x, now, t)

Option == [time : 1 .. Longest, periodic : BOOLEAN]

\* The other variables.
VarsTyped ==
    /\ tick \in Tick
    /\ \A t \in Timer : set[t] \in Settings[t]
    /\ set \in [Timer -> Option]
    /\ isr \in [pc : {"none", "check", "call"}, t : Timer \cup {NoTimer}]
    /\ call \in [Caller -> [pc : {"none", "timeout", "insert", "wake", "remove", "clear"},
                            t : Timer \cup {NoTimer}]]
    /\ tt \in [pc : {"next", "decide", "delay", "read", "scan", "call", "restart"},
               stat : {"READY", "SUSPEND"}, ticks : Tick,
               n : Soft \cup {NoTimer}, t : Soft \cup {NoTimer}]
    /\ stopped \subseteq exist
    /\ exist \in Created

\* A thread is in one call at a time, on a timer that exists and that no other
\* call is about.
CallsApart ==
    /\ \A c \in Caller : call[c].pc = "none" <=> call[c].t = NoTimer
    /\ \A c \in Caller : call[c].t # NoTimer => call[c].t \in exist
    /\ call[Client].t = call[TimerThread].t => call[Client].t = NoTimer
    /\ tt.pc # "call" => call[TimerThread] = Idling

\* A timer that is being started is in no list until it is inserted.
StartsApart ==
    \A c \in Caller :
        /\ call[c].pc \in {"timeout", "insert"} =>
              ~w.activated[call[c].t] /\ ~Listed(w, call[c].t)
        /\ call[c].pc = "insert" => OnClock(w, tick, call[c].t)

\* The interrupt serves a hard timer, the timer thread a soft one.
Serving ==
    /\ isr.pc = "call" <=> isr.t # NoTimer
    /\ isr.t # NoTimer => isr.t \in Hard
    /\ tt.pc \in {"call", "restart"} <=> tt.t # NoTimer

\* The tick the timer thread has read is not old.
TicksRead ==
    /\ tt.pc \in {"scan", "restart"} =>
          \E k \in -MaxLag .. 0 : tt.ticks = Plus(tick, k)
    /\ tt.pc = "decide" /\ tt.ticks # RT_TICK_MAX =>
          \E d \in -MaxLag .. Longest : tt.ticks = Plus(tick, d)
    /\ tt.pc = "delay" => tt.ticks \in 0 .. Longest

\* RunningIsArmed, exactly: of the calls only rt_timer_stop, between its two
\* steps, leaves the flag of a timer that is in no list.
Armed ==
    \A t \in Timer : w.activated[t] =>
        \/ Listed(w, t) \/ isr.t = t \/ tt.t = t
        \/ \E c \in Caller : call[c].t = t /\ call[c].pc = "clear"

\* A hard timer that was stopped is in no list, from the step that takes it out.
StoppedHard ==
    /\ \A t \in Hard : t \in stopped => ~w.activated[t] /\ ~Listed(w, t)
    /\ \A c \in Caller : call[c].pc \in {"timeout", "insert", "wake"} => call[c].t \notin stopped
    /\ \A c \in Caller : call[c].pc = "clear" /\ call[c].t \in Hard =>
          ~Listed(w, call[c].t) /\ isr.t # call[c].t

\* The thread timer of the timer thread is in its list only while it runs.
DelayArmed ==
    /\ Listed(w, Delay) => w.activated[Delay]
    /\ isr.t = Delay => ~Listed(w, Delay)

IInv ==
    /\ VarsTyped /\ ListsAt(w, tick)
    /\ CallsApart /\ StartsApart
    /\ Serving /\ TicksRead
    /\ Armed /\ StoppedHard /\ DelayArmed

\* The invariant says what TimersConsistent says.
LEMMA IInvConsistent == IInv => TimersConsistent
<1> SUFFICES ASSUME IInv PROVE TypeOK /\ ListsSorted /\ RunningIsArmed
  BY DEF TimersConsistent
<1>1. TypeOK
  <2>1. stopped \subseteq Timer
    BY TimerAssumption DEF IInv, VarsTyped
  <2> QED BY <2>1 DEF IInv, VarsTyped, ListsAt, ListsOK, TimerState, TypeOK
<1>2. ListsSorted
  BY DEF IInv, ListsAt, ListsOK, SortedBy, ListsSorted
<1>3. RunningIsArmed
  BY DEF IInv, Armed, RunningIsArmed
<1> QED BY <1>1, <1>2, <1>3

-----------------------------------------------------------------------------
(* What the operators on the lists do.                                     *)

\* Nothing changes for the timers outside T.
Others(x, y, T) ==
    \A u \in Timer \ T :
        /\ Listed(y, u) <=> Listed(x, u)
        /\ y.due[u] = x.due[u]
        /\ y.timeout_tick[u] = x.timeout_tick[u]
        /\ y.activated[u] = x.activated[u]

\* The list a timer belongs to.
LEMMA ListOfIs ==
    ASSUME NEW t \in Timer
    PROVE  /\ ListOf(t) \in {"hard", "soft"}
           /\ t \in Hard <=> ListOf(t) = "hard"
           /\ t \in Soft <=> ListOf(t) = "soft"
BY TimerAssumption DEF ListOf, Timer

\* The fields of a record of timers, one by one.
LEMMA Fields ==
    ASSUME NEW x \in TimerState
    PROVE  /\ x.list \in [{"hard", "soft"} -> Seq(Timer)]
           /\ x.timeout_tick \in [Timer -> Tick]
           /\ x.activated \in [Timer -> BOOLEAN]
           /\ x.due \in [Timer -> -MaxLag .. Half]
BY DEF TimerState

\* A timer that is taken out of its list.
LEMMA TakenOut ==
    ASSUME NEW x, ListsOK(x), NEW t \in Timer, NEW y \in TimerState,
           y.list = [x.list EXCEPT ![ListOf(t)] = RemoveFirst(@, t)],
           \A u \in Timer \ {t} : y.due[u] = x.due[u]
    PROVE  /\ ListsOK(y)
           /\ ~Listed(y, t)
           /\ \A u \in Timer \ {t} : Listed(y, u) <=> Listed(x, u)
<1> DEFINE l == ListOf(t)
           s == x.list[l]
           r == RemoveFirst(s, t)
<1>1. x \in TimerState /\ l \in {"hard", "soft"}
  BY ListOfIs DEF ListsOK
<1>2. s \in Seq(Timer) /\ IsInjective(s) /\ SortedBy(s, x.due)
  BY <1>1 DEF ListsOK, TimerState
<1>3. /\ r \in Seq(Timer) /\ ToSet(r) = ToSet(s) \ {t} /\ IsInjective(r)
  BY <1>2, ListRemove
<1>4. SortedBy(r, x.due)
  BY <1>2, SortedRemove
<1>5. /\ y.list[l] = r
      /\ \A k \in {"hard", "soft"} : k # l => y.list[k] = x.list[k]
  BY <1>1 DEF TimerState
<1> HIDE DEF r
<1>6. \A u \in Timer \ {t} : Listed(y, u) <=> Listed(x, u)
  BY <1>3, <1>5, ListOfIs DEF Listed
<1>7. ~Listed(y, t)
  BY <1>3, <1>5 DEF Listed
<1>8. ToSet(y.list["hard"]) \subseteq Hard /\ ToSet(y.list["soft"]) \subseteq Soft
  BY <1>1, <1>3, <1>5 DEF ListsOK
<1>9. ASSUME NEW k \in {"hard", "soft"} PROVE IsInjective(y.list[k]) /\ SortedBy(y.list[k], y.due)
  <2>1. y.list[k] \in Seq(Timer) /\ t \notin ToSet(y.list[k])
    <3>1. y.list[k] \in Seq(Timer)
      BY DEF TimerState
    <3>2. CASE k = l
      BY <3>1, <3>2, <1>3, <1>5
    <3>3. CASE k # l
      BY <3>1, <3>3, <1>8, ListOfIs
    <3> QED BY <3>2, <3>3
  <2>2. IsInjective(y.list[k]) /\ SortedBy(y.list[k], x.due)
    BY <1>1, <1>3, <1>4, <1>5 DEF ListsOK
  <2>3. \A i \in 1 .. Len(y.list[k]) : y.list[k][i] \in Timer \ {t}
    BY <2>1, ListIndex
  <2> QED BY <2>2, <2>3 DEF SortedBy
<1> QED BY <1>6, <1>7, <1>8, <1>9 DEF ListsOK

\* Fields of a record that do not matter to the lists are changed.
LEMMA ListsKept ==
    ASSUME NEW x, ListsOK(x), NEW y \in TimerState, y.list = x.list,
           \A u \in Timer : Listed(x, u) => y.due[u] = x.due[u]
    PROVE  ListsOK(y) /\ \A u \in Timer : Listed(y, u) <=> Listed(x, u)
<1>1. \A u \in Timer : Listed(y, u) <=> Listed(x, u)
  BY DEF Listed
<1>2. ASSUME NEW k \in {"hard", "soft"} PROVE IsInjective(y.list[k]) /\ SortedBy(y.list[k], y.due)
  <2>1. x.list[k] \in Seq(Timer)
    BY DEF ListsOK, TimerState
  <2>2. IsInjective(y.list[k]) /\ SortedBy(y.list[k], x.due)
    BY DEF ListsOK
  <2>3. ASSUME NEW i \in 1 .. Len(x.list[k]) PROVE y.due[x.list[k][i]] = x.due[x.list[k][i]]
    <3>1. x.list[k][i] \in Timer /\ x.list[k][i] \in ToSet(x.list[k])
      BY <2>1, ListIndex
    <3>2. ListOf(x.list[k][i]) = k
      BY <3>1, ListOfIs DEF ListsOK
    <3> QED BY <3>1, <3>2 DEF Listed
  <2> QED BY <2>2, <2>3 DEF SortedBy
<1> QED BY <1>1, <1>2 DEF ListsOK

\* The position found for a timer is behind those that are not later and before
\* those that are not earlier, although the ticks wrap around.
LEMMA PositionSorted ==
    ASSUME NEW now \in Tick, NEW x, ListsAt(x, now), NEW t \in Timer, OnClock(x, now, t)
    PROVE  LET s == x.list[ListOf(t)] i == Position(x, t) IN
           /\ i \in 1 .. Len(s) + 1
           /\ \A j \in 1 .. Len(s) : j < i => x.due[s[j]] <= x.due[t]
           /\ \A j \in 1 .. Len(s) : j >= i => x.due[t] <= x.due[s[j]]
<1> DEFINE s == x.list[ListOf(t)]
           later == {i \in 1 .. Len(s) :
                        Minus(x.timeout_tick[s[i]], x.timeout_tick[t]) \in 1 .. Half - 1}
           p == Position(x, t)
<1>1. x \in TimerState /\ ListOf(t) \in {"hard", "soft"} /\ s \in Seq(Timer) /\ SortedBy(s, x.due)
  BY ListOfIs DEF ListsAt, ListsOK, TimerState
<1>2. ASSUME NEW j \in 1 .. Len(s)
      PROVE  x.due[s[j]] \in Int /\ x.due[t] \in Int /\ (j \in later <=> x.due[s[j]] > x.due[t])
  <2>1. s[j] \in Timer /\ s[j] \in ToSet(s)
    BY <1>1, ListIndex
  <2>2. ListOf(s[j]) = ListOf(t)
    BY <1>1, <2>1, ListOfIs DEF ListsAt, ListsOK
  <2>3. OnClock(x, now, s[j])
    BY <2>1, <2>2 DEF ListsAt, Listed
  <2>4. PICK d \in -MaxLag .. Longest : d = x.due[s[j]] /\ x.timeout_tick[s[j]] = Plus(now, d)
    BY <2>3 DEF OnClock
  <2>5. PICK e \in -MaxLag .. Longest : e = x.due[t] /\ x.timeout_tick[t] = Plus(now, e)
    BY DEF OnClock
  <2>6. /\ d \in -Half .. Half /\ e \in -Half .. Half /\ d - e < Half /\ e - d < Half
        /\ d \in Int /\ e \in Int /\ Half \in Nat
    BY Width
  <2>7. PICK m : m = Minus(Plus(now, d), Plus(now, e))
    OBVIOUS
  <2>8. m \in Int /\ (d >= e => m = d - e) /\ (d < e => m > Half)
    BY <2>6, <2>7, MinusIs
  <2>9. m \in 1 .. Half - 1 <=> d > e
    BY ONLY <2>6, <2>8
  <2>10. j \in later <=> m \in 1 .. Half - 1
    BY <2>4, <2>5, <2>7
  <2> QED BY <2>4, <2>5, <2>6, <2>9, <2>10
<1>3. /\ later = {} => p = Len(s) + 1
      /\ later # {} => p \in later /\ \A j \in later : p <= j
  <2>1. p = IF later = {} THEN Len(s) + 1 ELSE CHOOSE i \in later : \A j \in later : i <= j
    BY DEF Position
  <2>2. ASSUME later # {} PROVE \E i \in later : \A j \in later : i <= j
    <3>1. later \subseteq Nat
      BY <1>1
    <3> HIDE DEF later
    <3> QED BY <2>2, <3>1, MinNat
  <2> HIDE DEF later, p
  <2> QED BY <2>1, <2>2
<1>4. later \subseteq 1 .. Len(s) /\ Len(s) \in Nat
  BY <1>1
<1> HIDE DEF later, p, s
<1>5. p \in 1 .. Len(s) + 1
  <2>1. CASE later = {}
    BY ONLY <2>1, <1>3, <1>4
  <2>2. CASE later # {}
    <3>1. p \in 1 .. Len(s)
      BY <2>2, <1>3, <1>4
    <3> QED BY <3>1, <1>4
  <2> QED BY <2>1, <2>2
<1>6. \A j \in 1 .. Len(s) : j < p => x.due[s[j]] <= x.due[t]
  <2> TAKE j \in 1 .. Len(s)
  <2> HAVE j < p
  <2>1. j \notin later
    BY <1>3, <1>4, <1>5
  <2> QED BY <1>2, <2>1
<1>7. \A j \in 1 .. Len(s) : j >= p => x.due[t] <= x.due[s[j]]
  <2> TAKE j \in 1 .. Len(s)
  <2> HAVE j >= p
  <2>1. later # {} /\ p \in later /\ p \in 1 .. Len(s)
    BY <1>3, <1>4, <1>5
  <2>2. x.due[s[p]] > x.due[t] /\ x.due[s[p]] \in Int
    BY <1>2, <2>1
  <2>3. j = p \/ x.due[s[p]] <= x.due[s[j]]
    BY <1>1, <2>1 DEF SortedBy
  <2>4. x.due[s[j]] \in Int /\ x.due[t] \in Int
    BY <1>2
  <2> QED BY <2>2, <2>3, <2>4
<1> QED BY <1>5, <1>6, <1>7 DEF p, s

\* Inserting a timer that is in no list.
LEMMA Inserted ==
    ASSUME NEW now \in Tick, NEW x, ListsAt(x, now), NEW t \in Timer, OnClock(x, now, t),
           ~Listed(x, t)
    PROVE  LET y == Insert(x, t) IN
           /\ ListsAt(y, now) /\ Listed(y, t) /\ y.activated[t] /\ Others(x, y, {t})
<1> DEFINE y == Insert(x, t)
           l == ListOf(t)
           s == x.list[l]
           i == Position(x, t)
           r == InsertAt(s, i, t)
<1>1. x \in TimerState /\ l \in {"hard", "soft"} /\ ListsOK(x)
  BY ListOfIs DEF ListsAt, ListsOK
<1>2. /\ x.list \in [{"hard", "soft"} -> Seq(Timer)] /\ x.timeout_tick \in [Timer -> Tick]
      /\ x.activated \in [Timer -> BOOLEAN] /\ x.due \in [Timer -> -MaxLag .. Half]
  BY <1>1, Fields
<1>3. s \in Seq(Timer) /\ IsInjective(s) /\ SortedBy(s, x.due) /\ t \notin ToSet(s)
  BY <1>1, <1>2 DEF ListsOK, Listed
<1>4. /\ i \in 1 .. Len(s) + 1
      /\ \A j \in 1 .. Len(s) : j < i => x.due[s[j]] <= x.due[t]
      /\ \A j \in 1 .. Len(s) : j >= i => x.due[t] <= x.due[s[j]]
  BY PositionSorted
<1> HIDE DEF i
<1>5. /\ r \in Seq(Timer) /\ ToSet(r) = ToSet(s) \cup {t} /\ IsInjective(r)
  BY <1>3, <1>4, ListInsert
<1>6. SortedBy(r, x.due)
  BY <1>3, <1>4, SortedInsert
<1>7. y = [x EXCEPT !.list[l] = r, !.activated[t] = TRUE]
  BY DEF Insert, i
<1> HIDE DEF r
<1>8. /\ y \in TimerState /\ y.due = x.due /\ y.timeout_tick = x.timeout_tick
      /\ y.list[l] = r /\ \A k \in {"hard", "soft"} : k # l => y.list[k] = x.list[k]
      /\ y.activated = [x.activated EXCEPT ![t] = TRUE]
  <2>1. [x.list EXCEPT ![l] = r] \in [{"hard", "soft"} -> Seq(Timer)]
    BY <1>1, <1>2, <1>5
  <2>2. [x.activated EXCEPT ![t] = TRUE] \in [Timer -> BOOLEAN]
    BY <1>2
  <2>3. y = [x EXCEPT !.list = [x.list EXCEPT ![l] = r],
                      !.activated = [x.activated EXCEPT ![t] = TRUE]]
    BY <1>7
  <2> HIDE DEF y
  <2>4. y \in TimerState
    BY <1>1, <2>1, <2>2, <2>3 DEF TimerState
  <2>5. y.due = x.due /\ y.timeout_tick = x.timeout_tick /\ y.list = [x.list EXCEPT ![l] = r]
      /\ y.activated = [x.activated EXCEPT ![t] = TRUE]
    BY <1>1, <2>3 DEF TimerState
  <2> QED BY <2>4, <2>5, <1>1, <1>2
<1> HIDE DEF y
<1>9. Listed(y, t) /\ \A u \in Timer \ {t} : Listed(y, u) <=> Listed(x, u)
  BY <1>5, <1>8, ListOfIs DEF Listed
<1>10. y.activated[t] /\ \A u \in Timer \ {t} : y.activated[u] = x.activated[u]
  BY <1>2, <1>8
<1>11. ToSet(y.list["hard"]) \subseteq Hard /\ ToSet(y.list["soft"]) \subseteq Soft
  BY <1>1, <1>5, <1>8, ListOfIs DEF ListsOK
<1>12. \A k \in {"hard", "soft"} : IsInjective(y.list[k]) /\ SortedBy(y.list[k], y.due)
  BY <1>1, <1>5, <1>6, <1>8 DEF ListsOK
<1>13. ListsOK(y)
  BY <1>8, <1>11, <1>12 DEF ListsOK
<1>14. \A u \in Timer : Listed(y, u) => OnClock(y, now, u)
  BY <1>8, <1>9 DEF ListsAt, OnClock
<1> QED BY <1>8, <1>9, <1>10, <1>13, <1>14 DEF ListsAt, Others, y
\* The changes of the record the operators are made of.
GiveTime(x, t, now, d) == [x EXCEPT !.timeout_tick[t] = Plus(now, d), !.due[t] = d]
Clear(x, t) == [x EXCEPT !.activated[t] = FALSE]
Drop(x, t, m) ==
    [x EXCEPT !.list[ListOf(t)] = RemoveFirst(@, t), !.due[t] = 0, !.timeout_tick[t] = m]

\* A timer that is in no list is given its time.
LEMMA Dated ==
    ASSUME NEW now \in Tick, NEW x, ListsAt(x, now), NEW t \in Timer, ~Listed(x, t),
           NEW d \in 0 .. Longest,
           NEW y, y = GiveTime(x, t, now, d)
    PROVE  /\ ListsAt(y, now) /\ ~Listed(y, t) /\ OnClock(y, now, t) /\ Others(x, y, {t})
           /\ y.activated = x.activated /\ y.due[t] = d
<1> DEFINE p == Plus(now, d)
<1>1. x \in TimerState /\ ListsOK(x)
  BY DEF ListsAt, ListsOK
<1>2. /\ x.list \in [{"hard", "soft"} -> Seq(Timer)] /\ x.timeout_tick \in [Timer -> Tick]
      /\ x.activated \in [Timer -> BOOLEAN] /\ x.due \in [Timer -> -MaxLag .. Half]
  BY <1>1, Fields
<1>3. d \in -MaxLag .. Longest /\ d \in -MaxLag .. Half /\ d \in -Half .. Half
  BY Width
<1>4. p \in Tick
  BY <1>3, PlusIs
<1>5. y = [x EXCEPT !.timeout_tick = [x.timeout_tick EXCEPT ![t] = p],
                    !.due = [x.due EXCEPT ![t] = d]]
  BY DEF GiveTime
<1> HIDE DEF p
<1>6. /\ [x.timeout_tick EXCEPT ![t] = p] \in [Timer -> Tick]
      /\ [x.due EXCEPT ![t] = d] \in [Timer -> -MaxLag .. Half]
  BY <1>2, <1>3, <1>4
<1>7. /\ y \in TimerState
      /\ y.list = x.list /\ y.activated = x.activated
      /\ y.timeout_tick = [x.timeout_tick EXCEPT ![t] = p]
      /\ y.due = [x.due EXCEPT ![t] = d]
  BY <1>1, <1>5, <1>6 DEF TimerState
<1>8. /\ y.timeout_tick[t] = p /\ y.due[t] = d
      /\ \A u \in Timer \ {t} : y.timeout_tick[u] = x.timeout_tick[u] /\ y.due[u] = x.due[u]
  BY <1>2, <1>7
<1>9. ListsOK(y) /\ \A u \in Timer : Listed(y, u) <=> Listed(x, u)
  <2>1. \A u \in Timer : Listed(x, u) => y.due[u] = x.due[u]
    BY <1>8
  <2>2. y \in TimerState /\ y.list = x.list
    BY <1>7
  <2> QED BY ONLY <1>1, <2>1, <2>2, ListsKept
<1>10. \A u \in Timer : Listed(y, u) => OnClock(y, now, u)
  BY <1>8, <1>9 DEF ListsAt, OnClock
<1>11. OnClock(y, now, t)
  BY <1>3, <1>8 DEF OnClock, p
<1> QED BY <1>7, <1>8, <1>9, <1>10, <1>11 DEF ListsAt, Others

\* The flag of a timer is cleared.
LEMMA Cleared ==
    ASSUME NEW now, NEW x, ListsAt(x, now), NEW t \in Timer,
           NEW y, y = Clear(x, t)
    PROVE  /\ ListsAt(y, now) /\ Others(x, y, {t})
           /\ y.list = x.list /\ y.due = x.due /\ y.timeout_tick = x.timeout_tick
           /\ ~y.activated[t]
<1>1. x \in TimerState /\ ListsOK(x)
  BY DEF ListsAt, ListsOK
<1>2. x.activated \in [Timer -> BOOLEAN]
  BY <1>1, Fields
<1>3. [x.activated EXCEPT ![t] = FALSE] \in [Timer -> BOOLEAN]
  BY <1>2
<1>4. y = [x EXCEPT !.activated = [x.activated EXCEPT ![t] = FALSE]]
  BY DEF Clear
<1>5. /\ y \in TimerState /\ y.list = x.list /\ y.due = x.due /\ y.timeout_tick = x.timeout_tick
      /\ y.activated = [x.activated EXCEPT ![t] = FALSE]
  BY <1>1, <1>3, <1>4 DEF TimerState
<1>6. ListsOK(y) /\ \A u \in Timer : Listed(y, u) <=> Listed(x, u)
  BY <1>1, <1>5, ListsKept
<1>7. ~y.activated[t] /\ \A u \in Timer \ {t} : y.activated[u] = x.activated[u]
  BY <1>2, <1>5
<1>8. \A u \in Timer : Listed(y, u) => OnClock(y, now, u)
  BY <1>5, <1>6 DEF ListsAt, OnClock
<1> QED BY <1>5, <1>6, <1>7, <1>8 DEF ListsAt, Others

\* A timer is taken out of its list, its remaining time and its tick dropped.
LEMMA Dropped ==
    ASSUME NEW now, NEW x, ListsAt(x, now), NEW t \in Timer, NEW m \in Tick,
           NEW y, y = Drop(x, t, m)
    PROVE  /\ ListsAt(y, now) /\ ~Listed(y, t) /\ Others(x, y, {t})
           /\ y.activated = x.activated
<1> DEFINE l == ListOf(t)
           r == RemoveFirst(x.list[l], t)
<1>1. x \in TimerState /\ ListsOK(x) /\ l \in {"hard", "soft"}
  BY ListOfIs DEF ListsAt, ListsOK
<1>2. /\ x.list \in [{"hard", "soft"} -> Seq(Timer)] /\ x.timeout_tick \in [Timer -> Tick]
      /\ x.activated \in [Timer -> BOOLEAN] /\ x.due \in [Timer -> -MaxLag .. Half]
  BY <1>1, Fields
<1>3. x.list[l] \in Seq(Timer) /\ IsInjective(x.list[l])
  BY <1>1, <1>2 DEF ListsOK
<1>4. r \in Seq(Timer)
  BY <1>3, ListRemove
<1>5. y = [x EXCEPT !.list = [x.list EXCEPT ![l] = r],
                    !.due = [x.due EXCEPT ![t] = 0],
                    !.timeout_tick = [x.timeout_tick EXCEPT ![t] = m]]
  BY DEF Drop
<1>6. 0 \in -MaxLag .. Half
  BY Width
<1>7. [x.list EXCEPT ![l] = RemoveFirst(@, t)] = [x.list EXCEPT ![l] = r]
  OBVIOUS
<1> HIDE DEF r
<1>8. /\ [x.list EXCEPT ![l] = r] \in [{"hard", "soft"} -> Seq(Timer)]
      /\ [x.timeout_tick EXCEPT ![t] = m] \in [Timer -> Tick]
      /\ [x.due EXCEPT ![t] = 0] \in [Timer -> -MaxLag .. Half]
  BY <1>1, <1>2, <1>4, <1>6
<1>9. /\ y \in TimerState
      /\ y.list = [x.list EXCEPT ![l] = r] /\ y.activated = x.activated
      /\ y.timeout_tick = [x.timeout_tick EXCEPT ![t] = m]
      /\ y.due = [x.due EXCEPT ![t] = 0]
  BY <1>1, <1>5, <1>8 DEF TimerState
<1>10. \A u \in Timer \ {t} : y.timeout_tick[u] = x.timeout_tick[u] /\ y.due[u] = x.due[u]
  BY <1>2, <1>9
<1>11. /\ ListsOK(y) /\ ~Listed(y, t)
       /\ \A u \in Timer \ {t} : Listed(y, u) <=> Listed(x, u)
  <2>1. y.list = [x.list EXCEPT ![ListOf(t)] = RemoveFirst(@, t)]
    BY <1>7, <1>9 DEF l
  <2>2. \A u \in Timer \ {t} : y.due[u] = x.due[u]
    BY <1>10
  <2>3. y \in TimerState
    BY <1>9
  <2> QED BY ONLY t \in Timer, <1>1, <2>1, <2>2, <2>3, TakenOut
<1>12. \A u \in Timer : Listed(y, u) => OnClock(y, now, u)
  BY <1>10, <1>11 DEF ListsAt, OnClock
<1> QED BY <1>9, <1>10, <1>11, <1>12 DEF ListsAt, Others

\* _rt_timer_remove.
LEMMA Removed ==
    ASSUME NEW now, NEW x, ListsAt(x, now), NEW t \in Timer
    PROVE  LET y == _rt_timer_remove(x, t) IN
           /\ ListsAt(y, now) /\ ~Listed(y, t) /\ Others(x, y, {t})
           /\ y.activated = x.activated
<1>1. x.timeout_tick[t] \in Tick /\ 0 \in Tick
  BY Width DEF ListsAt, ListsOK, TimerState, Tick
<1>2. PICK m \in Tick : m = IF tt.n = t THEN x.timeout_tick[t] ELSE 0
  BY <1>1
<1>3. _rt_timer_remove(x, t) = Drop(x, t, m)
  BY <1>2 DEF _rt_timer_remove, Drop
<1>4. PICK y : y = _rt_timer_remove(x, t)
  OBVIOUS
<1>5. /\ ListsAt(y, now) /\ ~Listed(y, t) /\ Others(x, y, {t})
      /\ y.activated = x.activated
  BY ONLY ListsAt(x, now), t \in Timer, m \in Tick, <1>3, <1>4, Dropped
<1> QED BY <1>4, <1>5

\* Two changes, one after the other.
LEMMA OthersChain ==
    ASSUME NEW x, NEW y, NEW z, NEW T, NEW U, NEW V, T \cup U \subseteq V,
           Others(x, y, T), Others(y, z, U)
    PROVE  Others(x, z, V)
BY DEF Others

\* The first part of rt_timer_start.
LEMMA Unlinked ==
    ASSUME NEW now, NEW x, ListsAt(x, now), NEW t \in Timer
    PROVE  LET y == Unlink(x, t) IN
           /\ ListsAt(y, now) /\ ~Listed(y, t) /\ Others(x, y, {t}) /\ ~y.activated[t]
<1> DEFINE v == _rt_timer_remove(x, t)
<1>0. PICK y : y = Clear(v, t)
  OBVIOUS
<1>1. ListsAt(v, now) /\ ~Listed(v, t) /\ Others(x, v, {t})
  BY Removed
<1> HIDE DEF v
<1>2. ListsAt(y, now) /\ Others(v, y, {t}) /\ y.list = v.list /\ ~y.activated[t]
  BY ONLY t \in Timer, <1>0, <1>1, Cleared
<1>3. y = Unlink(x, t)
  BY <1>0 DEF Unlink, v, Clear
<1>4. Others(x, y, {t})
  BY <1>1, <1>2, OthersChain
<1>5. ~Listed(y, t)
  BY <1>1, <1>2 DEF Listed
<1> QED BY <1>2, <1>3, <1>4, <1>5

\* rt_timer_start as a whole, in the interrupt.
LEMMA Started ==
    ASSUME NEW x, tick \in Tick, ListsAt(x, tick), NEW t \in Timer, set[t] \in Option
    PROVE  LET y == StartNow(x, t) IN
           /\ ListsAt(y, tick) /\ Listed(y, t) /\ y.activated[t] /\ Others(x, y, {t})
           /\ y.due[t] = set[t].time /\ y.timeout_tick[t] = Plus(tick, set[t].time)
<1>1. PICK v : v = Unlink(x, t)
  OBVIOUS
<1>2. ListsAt(v, tick) /\ ~Listed(v, t) /\ Others(x, v, {t})
  BY <1>1, Unlinked
<1>3. PICK d \in 0 .. Longest : d = set[t].time
  BY Width DEF Option
<1>4. PICK z : z = GiveTime(v, t, tick, d)
  OBVIOUS
<1>5. /\ ListsAt(z, tick) /\ ~Listed(z, t) /\ OnClock(z, tick, t) /\ Others(v, z, {t})
      /\ z.due[t] = d
  BY ONLY t \in Timer, tick \in Tick, d \in 0 .. Longest, <1>2, <1>4, Dated
<1>6. z = SetTimeout(v, t)
  BY <1>3, <1>4 DEF SetTimeout, GiveTime
<1>7. PICK y : y = Insert(z, t)
  OBVIOUS
<1>8. ListsAt(y, tick) /\ Listed(y, t) /\ y.activated[t] /\ Others(z, y, {t})
  BY <1>5, <1>7, Inserted
<1>9. y = StartNow(x, t)
  BY <1>1, <1>6, <1>7 DEF StartNow
<1>10. Others(x, z, {t})
  BY <1>2, <1>5, OthersChain
<1>11. Others(x, y, {t})
  BY <1>10, <1>8, OthersChain
<1>12. z \in TimerState
  BY <1>5 DEF ListsAt, ListsOK
<1>13. y.due = z.due /\ y.timeout_tick = z.timeout_tick
  BY <1>7, <1>12 DEF Insert, TimerState
<1>14. z.timeout_tick[t] = Plus(tick, d)
  BY <1>5 DEF OnClock
<1> QED BY <1>3, <1>5, <1>8, <1>9, <1>11, <1>13, <1>14

\* rt_timer_stop as a whole.
LEMMA Stopped ==
    ASSUME NEW now, NEW x, ListsAt(x, now), NEW t \in Timer
    PROVE  LET y == StopNow(x, t) IN
           /\ ListsAt(y, now) /\ Others(x, y, {t}) /\ ~y.activated[t]
           /\ x.activated[t] => ~Listed(y, t)
           /\ ~x.activated[t] => y = x
<1>1. CASE x.activated[t]
  BY <1>1, Unlinked DEF StopNow
<1>2. CASE ~x.activated[t]
  BY <1>2 DEF StopNow, Others
<1> QED BY <1>1, <1>2

\* What follows a timer's function: the timer is listed if it is running, and a
\* timer that is not running is left alone.
LEMMA Restarted ==
    ASSUME NEW x, tick \in Tick, ListsAt(x, tick), NEW t \in Timer, set[t] \in Option
    PROVE  LET y == Restart(x, t) IN
           /\ ListsAt(y, tick) /\ Others(x, y, {t})
           /\ y.activated[t] => Listed(y, t) /\ x.activated[t]
           /\ \/ /\ x.activated[t] /\ y.activated[t] /\ y.due[t] = set[t].time
                 /\ Listed(y, t) /\ y.timeout_tick[t] = Plus(tick, set[t].time)
              \/ /\ y.due[t] = x.due[t] /\ y.timeout_tick[t] = x.timeout_tick[t]
                 /\ Listed(y, t) <=> Listed(x, t)
<1>1. CASE set[t].periodic /\ x.activated[t]
  BY <1>1, Started DEF Restart
<1>2. CASE ~(set[t].periodic /\ x.activated[t])
  <2>1. Restart(x, t) = Clear(x, t)
    BY <1>2 DEF Restart, Clear
  <2>2. PICK y : y = Clear(x, t)
    OBVIOUS
  <2>3. /\ ListsAt(y, tick) /\ Others(x, y, {t}) /\ ~y.activated[t]
        /\ y.list = x.list /\ y.due = x.due /\ y.timeout_tick = x.timeout_tick
    BY ONLY ListsAt(x, tick), t \in Timer, <2>2, Cleared
  <2>4. Listed(y, t) <=> Listed(x, t)
    BY <2>3 DEF Listed
  <2> QED BY <2>1, <2>2, <2>3, <2>4
<1> QED BY <1>1, <1>2

\* The test of a timer against a tick that was read at most MaxLag ticks ago
\* finds no timer that still has time to go, and the test against the tick of
\* this moment finds every other.
LEMMA ExpiredIs ==
    ASSUME NEW m \in Tick, NEW x, NEW t, OnClock(x, m, t), NEW k \in -MaxLag .. 0
    PROVE  /\ x.due[t] \in Int
           /\ Expired(x, Plus(m, k), t) => x.due[t] <= k
           /\ k = 0 /\ x.due[t] <= 0 => Expired(x, Plus(m, k), t)
<1>1. PICK d \in -MaxLag .. Longest : d = x.due[t] /\ x.timeout_tick[t] = Plus(m, d)
  BY DEF OnClock
<1>2. /\ d \in -Half .. Half /\ k \in -Half .. Half /\ d - k < Half /\ k - d < Half
      /\ d \in Int /\ k \in Int /\ Half \in Nat /\ -d < Half
  BY Width
<1>3. PICK q : q = Minus(Plus(m, k), Plus(m, d))
  OBVIOUS
<1>4. q \in Int /\ (k >= d => q = k - d) /\ (k < d => q > Half)
  BY <1>2, <1>3, MinusIs
<1>5. Expired(x, Plus(m, k), t) <=> q < Half
  BY <1>1, <1>3 DEF Expired
<1>6. (q < Half => d <= k) /\ (k = 0 /\ d <= 0 => q < Half)
  BY ONLY <1>2, <1>4
<1> QED BY <1>1, <1>2, <1>5, <1>6

\* This moment is no tick away.
LEMMA PlusZero ==
    ASSUME NEW m \in Tick PROVE Plus(m, 0) = m
<1>1. m \in Int /\ RT_TICK_MAX \in Nat /\ 0 <= m /\ m <= RT_TICK_MAX
  BY Width DEF Tick
<1>2. PICK n : n = RT_TICK_MAX + 1
  OBVIOUS
<1>3. n \in Nat \ {0} /\ -n <= m /\ m < 2 * n /\ m + 0 = m /\ ~(m < 0) /\ m < n
  BY <1>1, <1>2
<1>4. m % n = m
  BY <1>1, <1>3, Turn
<1> QED BY <1>2, <1>3, <1>4 DEF Plus

\* The iterator of the soft list stands on soft timers and on the head.
LEMMA NextIs ==
    ASSUME NEW x, ListsOK(x), NEW n \in Soft
    PROVE  NextNode(x, n) \in Soft \cup {NoTimer}
<1> DEFINE s == x.list["soft"]
<1>1. n \in Timer /\ ListOf(n) = "soft" /\ s \in Seq(Timer) /\ IsInjective(s) /\ ToSet(s) \subseteq Soft
  BY ListOfIs DEF ListsOK, TimerState, Timer
<1>2. CASE ~Listed(x, n) \/ n = Last(s)
  BY <1>2 DEF NextNode
<1>3. CASE Listed(x, n) /\ n # Last(s)
  <2>1. PICK i \in 1 .. Len(s) : s[i] = n
    BY <1>1, <1>3, ListIndex DEF Listed
  <2>2. SelectInSeq(s, LAMBDA m : m = n) = i
    <3>1. {j \in 1 .. Len(s) : s[j] = n} = {i}
      BY <1>1, <2>1, ListIndex
    <3>2. Min({i}) = i
      BY DEF Min
    <3> QED BY <3>1, <3>2 DEF SelectInSeq
  <2>3. NextNode(x, n) = s[i + 1]
    BY <1>3, <2>2 DEF NextNode
  <2>4. i # Len(s)
    BY <1>3, <2>1 DEF Last
  <2>5. i + 1 \in 1 .. Len(s)
    BY <1>1, <2>1, <2>4
  <2>6. s[i + 1] \in ToSet(s)
    BY <1>1, <2>5, ListIndex
  <2> QED BY <1>1, <2>3, <2>6
<1> QED BY <1>2, <1>3
-----------------------------------------------------------------------------
(* Every step keeps the invariant.                                         *)

\* The thread timer of the timer thread is no timer of a client.
LEMMA DelayApart ==
    ASSUME VarsTyped, CallsApart
    PROVE  /\ Delay \in Timer /\ Delay \in Hard /\ Delay \notin exist /\ NoTimer \notin Timer
           /\ exist \subseteq Timer
           /\ \A c \in Caller : call[c].t # Delay
BY TimerAssumption DEF VarsTyped, CallsApart, Timer

\* The timer thread is resumed, which stops its thread timer.
LEMMA Woken ==
    ASSUME NEW x, ListsAt(x, tick), NEW t, WakeFor(x, t), VarsTyped
    PROVE  /\ ListsAt(w', tick) /\ Others(x, w', {Delay})
           /\ w'.activated[Delay] => x.activated[Delay]
           /\ Listed(w', Delay) => Listed(x, Delay)
           /\ w'.activated[Delay] => (Listed(w', Delay) <=> Listed(x, Delay))
           /\ Listed(w', Delay) => (w'.activated[Delay] <=> x.activated[Delay])
           /\ tt' = tt \/ tt' = [tt EXCEPT !.stat = "READY"]
<1>1. Delay \in Timer
  BY TimerAssumption DEF Timer
<1>2. CASE w' = x /\ tt' = tt
  BY <1>2 DEF Others
<1>3. CASE w' = StopNow(x, Delay) /\ tt' = [tt EXCEPT !.stat = "READY"]
  <2>1. /\ ListsAt(w', tick) /\ Others(x, w', {Delay}) /\ ~w'.activated[Delay]
        /\ x.activated[Delay] => ~Listed(w', Delay)
        /\ ~x.activated[Delay] => w' = x
    BY <1>1, <1>3, Stopped
  <2> QED BY <2>1, <1>3
<1> QED BY <1>2, <1>3 DEF WakeFor, ResumeTimerThread

\* The initial state.
LEMMA InitIInv == Init => IInv
<1> SUFFICES ASSUME Init PROVE IInv
  OBVIOUS
<1> USE DEF Init
<1>1. 0 \in Tick /\ 0 \in -MaxLag .. Half
  BY Width DEF Tick
<1>2. VarsTyped
  <2>1. \A t \in Timer : set[t] \in Settings[t]
    BY TimerAssumption
  <2>2. \A t \in Timer : Settings[t] \subseteq Option
    BY TimerAssumption DEF Option, Longest
  <2>3. set \in [Timer -> Option]
    BY <2>1, <2>2
  <2>4. isr \in [pc : {"none", "check", "call"}, t : Timer \cup {NoTimer}]
    BY DEF Idling
  <2>5. call \in [Caller -> [pc : {"none", "timeout", "insert", "wake", "remove", "clear"},
                             t : Timer \cup {NoTimer}]]
    BY DEF Idling
  <2>6. tt \in [pc : {"next", "decide", "delay", "read", "scan", "call", "restart"},
                stat : {"READY", "SUSPEND"}, ticks : Tick,
                n : Soft \cup {NoTimer}, t : Soft \cup {NoTimer}]
    BY <1>1 DEF AtStart
  <2>7. stopped \subseteq exist /\ exist \in Created /\ tick \in Tick
    BY <1>1
  <2> QED BY <2>1, <2>3, <2>4, <2>5, <2>6, <2>7 DEF VarsTyped
<1>3. \A t \in Timer : ~Listed(w, t) /\ ~w.activated[t]
  BY ListOfIs DEF Listed, ToSet
<1>4. ListsAt(w, tick)
  <2>1. w \in TimerState
    BY <1>1 DEF TimerState
  <2>2. \A l \in {"hard", "soft"} : w.list[l] = << >>
    OBVIOUS
  <2>3. IsInjective(<< >>) /\ ToSet(<< >>) = {} /\ SortedBy(<< >>, w.due)
    BY DEF IsInjective, ToSet, SortedBy
  <2> QED BY <1>3, <2>1, <2>2, <2>3 DEF ListsAt, ListsOK
<1>5. \A c \in Caller : call[c].pc = "none" /\ call[c].t = NoTimer /\ call[c] = Idling
  BY DEF Idling
<1>6. isr.pc = "none" /\ isr.t = NoTimer /\ tt.pc = "next" /\ tt.t = NoTimer
  BY DEF Idling, AtStart
<1>7. CallsApart
  BY <1>5 DEF CallsApart, Caller
<1>8. StartsApart /\ Serving /\ TicksRead /\ Armed /\ StoppedHard /\ DelayArmed
  <2>1. Delay \in Timer
    BY TimerAssumption DEF Timer
  <2> QED BY <1>3, <1>5, <1>6, <2>1
         DEF StartsApart, Serving, TicksRead, Armed, StoppedHard, DelayArmed
<1> QED BY <1>2, <1>4, <1>7, <1>8 DEF IInv

\* A tick: every timer that counts has one tick less to go.
LEMMA TickIInv ==
    ASSUME IInv, rt_tick_increase
    PROVE  IInv'
<1> USE DEF rt_tick_increase
<1>1. /\ VarsTyped /\ ListsAt(w, tick) /\ CallsApart /\ StartsApart /\ Serving /\ TicksRead
      /\ Armed /\ StoppedHard /\ DelayArmed /\ ListsOK(w) /\ w \in TimerState
  BY DEF IInv, ListsAt, ListsOK
<1>2. tick \in Tick /\ isr = Idling /\ isr.t = NoTimer /\ isr'.pc = "check" /\ isr'.t = NoTimer
  BY <1>1 DEF VarsTyped, Idling
<1>3. /\ w.list \in [{"hard", "soft"} -> Seq(Timer)] /\ w.timeout_tick \in [Timer -> Tick]
      /\ w.activated \in [Timer -> BOOLEAN] /\ w.due \in [Timer -> -MaxLag .. Half]
  BY <1>1, Fields
<1>4. ASSUME NEW t \in Counting PROVE t \in Timer /\ OnClock(w, tick, t)
  <2>1. CASE t \in Timer /\ Listed(w, t)
    BY <2>1, <1>1 DEF ListsAt
  <2>2. CASE \E c \in Caller : call[c].pc = "insert" /\ t = call[c].t
    <3>1. PICK c \in Caller : call[c].pc = "insert" /\ t = call[c].t
      BY <2>2
    <3>2. call[c].t \in Timer
      BY <1>1, <3>1, DelayApart DEF CallsApart
    <3> QED BY <1>1, <3>1, <3>2 DEF StartsApart
  <2> QED BY <2>1, <2>2 DEF Counting
<1>5. PICK f : f = [t \in Timer |-> IF t \in Counting THEN w.due[t] - 1 ELSE w.due[t]]
  OBVIOUS
<1>6. \A t \in Timer : f[t] = IF t \in Counting THEN w.due[t] - 1 ELSE w.due[t]
  BY <1>5
<1>7. w' = [w EXCEPT !.due = f]
  BY <1>5
<1>8. ASSUME NEW t \in Counting
      PROVE  /\ w.due[t] \in -MaxLag + 1 .. Longest /\ f[t] = w.due[t] - 1
             /\ f[t] \in -MaxLag .. Longest
             /\ w.timeout_tick[t] = Plus(tick', f[t])
  <2>1. t \in Timer /\ OnClock(w, tick, t) /\ w.due[t] > -MaxLag
    BY <1>4
  <2>2. PICK d \in -MaxLag .. Longest : d = w.due[t] /\ w.timeout_tick[t] = Plus(tick, d)
    BY <2>1 DEF OnClock
  <2>3. d \in -MaxLag + 1 .. Longest /\ d \in -Half + 1 .. Half /\ d - 1 \in -MaxLag .. Longest
    BY <2>1, <2>2, Width
  <2>4. Plus(Plus(tick, 1), d - 1) = Plus(tick, d)
    BY <1>2, <2>3, PlusOne
  <2> QED BY <1>6, <2>1, <2>2, <2>3, <2>4
<1>9. tick' \in Tick
  <2>1. 1 \in -Half + 1 .. Half
    BY Width
  <2> QED BY <1>2, <2>1, PlusOne
<1>10. f \in [Timer -> -MaxLag .. Half]
  <2>1. \A t \in Timer : f[t] \in -MaxLag .. Half
    <3> TAKE t \in Timer
    <3>1. CASE t \in Counting
      BY <1>8, <3>1, Width
    <3>2. CASE t \notin Counting
      BY <1>3, <1>6, <3>2
    <3> QED BY <3>1, <3>2
  <2> QED BY <1>5, <2>1
<1>11. /\ w' \in TimerState /\ w'.list = w.list /\ w'.due = f
       /\ w'.timeout_tick = w.timeout_tick /\ w'.activated = w.activated
  BY <1>1, <1>7, <1>10 DEF TimerState
<1>12. \A t \in Timer : Listed(w', t) <=> Listed(w, t)
  BY <1>11 DEF Listed
<1>13. ListsOK(w')
  <2>1. ASSUME NEW k \in {"hard", "soft"} PROVE IsInjective(w'.list[k]) /\ SortedBy(w'.list[k], w'.due)
    <3>1. w.list[k] \in Seq(Timer) /\ IsInjective(w.list[k]) /\ SortedBy(w.list[k], w.due)
      BY <1>1, <1>3 DEF ListsOK
    <3>2. ASSUME NEW i \in 1 .. Len(w.list[k])
          PROVE  w.due[w.list[k][i]] \in Int /\ f[w.list[k][i]] = w.due[w.list[k][i]] - 1
      <4>1. w.list[k][i] \in Timer /\ w.list[k][i] \in ToSet(w.list[k])
        BY <3>1, ListIndex
      <4>2. ListOf(w.list[k][i]) = k
        BY <1>1, <4>1, ListOfIs DEF ListsOK
      <4>3. w.list[k][i] \in Counting
        BY <4>1, <4>2 DEF Listed, Counting
      <4> QED BY <1>8, <4>3
    <3>3. ASSUME NEW i \in 1 .. Len(w.list[k]), NEW j \in 1 .. Len(w.list[k]), i < j
          PROVE  f[w.list[k][i]] <= f[w.list[k][j]]
      <4>1. w.due[w.list[k][i]] <= w.due[w.list[k][j]]
        BY <3>1, <3>3 DEF SortedBy
      <4>2. /\ w.due[w.list[k][i]] \in Int /\ f[w.list[k][i]] = w.due[w.list[k][i]] - 1
            /\ w.due[w.list[k][j]] \in Int /\ f[w.list[k][j]] = w.due[w.list[k][j]] - 1
        BY <3>2
      <4> QED BY ONLY <4>1, <4>2
    <3>4. SortedBy(w.list[k], f)
      BY <3>3 DEF SortedBy
    <3> QED BY <1>11, <3>1, <3>4
  <2> QED BY <1>1, <1>11, <2>1 DEF ListsOK
<1>14. \A t \in Timer : Listed(w', t) => OnClock(w', tick', t)
  <2> TAKE t \in Timer
  <2> HAVE Listed(w', t)
  <2>1. t \in Counting
    BY <1>12 DEF Counting
  <2> QED BY <1>8, <1>11, <2>1 DEF OnClock
<1>15. ListsAt(w', tick')
  BY <1>13, <1>14 DEF ListsAt
<1>16. VarsTyped'
  <2>1. isr' \in [pc : {"none", "check", "call"}, t : Timer \cup {NoTimer}]
    BY <1>1, <1>2 DEF VarsTyped
  <2> QED BY <1>1, <1>9, <2>1 DEF VarsTyped
<1>17. CallsApart'
  BY <1>1 DEF CallsApart
<1>18. StartsApart'
  <2> SUFFICES ASSUME NEW c \in Caller
               PROVE  /\ call[c].pc \in {"timeout", "insert"} =>
                            ~w'.activated[call[c].t] /\ ~Listed(w', call[c].t)
                      /\ call[c].pc = "insert" => OnClock(w', tick', call[c].t)
    BY DEF StartsApart
  <2>1. call[c].pc \in {"timeout", "insert"} => call[c].t \in Timer
    BY <1>1, DelayApart DEF CallsApart
  <2>2. call[c].pc \in {"timeout", "insert"} => ~w'.activated[call[c].t] /\ ~Listed(w', call[c].t)
    BY <1>1, <1>11, <1>12, <2>1 DEF StartsApart
  <2>3. ASSUME call[c].pc = "insert" PROVE OnClock(w', tick', call[c].t)
    <3>1. call[c].t \in Counting
      BY <2>3 DEF Counting
    <3> QED BY <1>8, <1>11, <3>1 DEF OnClock
  <2> QED BY <2>2, <2>3
<1>19. Serving'
  BY <1>1, <1>2 DEF Serving
<1>20. TicksRead'
  <2>1. ASSUME tt.pc \in {"scan", "restart"}
        PROVE  \E k \in -MaxLag .. 0 : tt.ticks = Plus(tick', k)
    <3>1. PICK k \in -MaxLag .. 0 : tt.ticks = Plus(tick, k)
      BY <1>1, <2>1 DEF TicksRead
    <3>2. k \in -Half .. Half /\ 0 \in -Half .. Half /\ 0 - k < Half /\ k - 0 < Half /\ 0 >= k
          /\ k \in -Half + 1 .. Half /\ k \in Int /\ 0 - k = -k
      BY Width
    <3>3. Minus(Plus(tick, 0), Plus(tick, k)) = -k
      BY <1>2, <3>2, MinusIs
    <3>4. -k < MaxLag
      BY <1>2, <2>1, <3>1, <3>3, PlusZero
    <3>5. k - 1 \in -MaxLag .. 0
      BY <3>4, Width
    <3>6. tt.ticks = Plus(tick', k - 1)
      BY <1>2, <3>1, <3>2, PlusOne
    <3> QED BY <3>5, <3>6
  <2>2. ASSUME tt.pc = "decide", tt.ticks # RT_TICK_MAX
        PROVE  \E d \in -MaxLag .. Longest : tt.ticks = Plus(tick', d)
    <3>1. PICK d \in -MaxLag .. Longest : tt.ticks = Plus(tick, d)
      BY <1>1, <2>2 DEF TicksRead
    <3>2. d \in -Half .. Half /\ 0 \in -Half .. Half /\ 0 - d < Half /\ d - 0 < Half
          /\ d \in -Half + 1 .. Half /\ d \in Int
      BY Width
    <3>3. d # -MaxLag
      <4> SUFFICES ASSUME d = -MaxLag PROVE FALSE
        OBVIOUS
      <4>1. 0 >= d /\ 0 - d = MaxLag
        BY Width
      <4>2. Minus(Plus(tick, 0), Plus(tick, d)) = MaxLag
        BY <1>2, <3>2, <4>1, MinusIs
      <4> QED BY <1>2, <2>2, <3>1, <4>2, PlusZero
    <3>4. d - 1 \in -MaxLag .. Longest
      BY <3>3, Width
    <3>5. tt.ticks = Plus(tick', d - 1)
      BY <1>2, <3>1, <3>2, PlusOne
    <3> QED BY <3>4, <3>5
  <2> QED BY <1>1, <2>1, <2>2 DEF TicksRead
<1>21. Armed'
  BY <1>1, <1>2, <1>11, <1>12, DelayApart DEF Armed
<1>22. StoppedHard'
  BY <1>1, <1>2, <1>11, <1>12, DelayApart DEF StoppedHard, Timer, CallsApart
<1>23. DelayArmed'
  BY <1>1, <1>2, <1>11, <1>12, DelayApart DEF DelayArmed
<1> QED BY <1>15, <1>16, <1>17, <1>18, <1>19, <1>20, <1>21, <1>22, <1>23 DEF IInv
\* The interrupt takes the first timer that is due out of its list, or ends.
LEMMA CheckIInv ==
    ASSUME IInv, rt_timer_check
    PROVE  IInv'
<1> USE DEF rt_timer_check
<1>1. /\ VarsTyped /\ ListsAt(w, tick) /\ CallsApart /\ StartsApart /\ Serving /\ TicksRead
      /\ Armed /\ StoppedHard /\ DelayArmed /\ ListsOK(w)
  BY DEF IInv, ListsAt
<1>2. isr.pc = "check" /\ isr.t = NoTimer /\ NoTimer \notin Timer
  BY <1>1, TimerAssumption DEF Serving
<1> DEFINE s == w.list["hard"]
           h == Head(s)
<1>3. CASE s # << >> /\ Expired(w, tick, h)
  <2>1. w' = _rt_timer_remove(w, h) /\ isr' = [pc |-> "call", t |-> h]
    BY <1>3
  <2>2. s \in Seq(Timer) /\ ToSet(s) \subseteq Hard
    BY <1>1 DEF ListsOK, TimerState
  <2>3. h \in Timer /\ h \in Hard /\ h \in ToSet(s)
    BY <1>3, <2>2, ListHead
  <2>4. Listed(w, h)
    BY <2>3, ListOfIs DEF Listed
  <2> HIDE DEF h
  <2>5. ListsAt(w', tick) /\ ~Listed(w', h) /\ Others(w, w', {h}) /\ w'.activated = w.activated
    BY <1>1, <2>1, <2>3, Removed
  <2>6. isr'.pc = "call" /\ isr'.t = h /\ h # NoTimer
    BY <1>2, <2>1, <2>3
  <2> HIDE DEF rt_timer_check
  <2>7. UNCHANGED <<tick, set, exist, call, tt, stopped>>
    BY DEF rt_timer_check
  <2>8. VarsTyped'
    <3>1. isr' \in [pc : {"none", "check", "call"}, t : Timer \cup {NoTimer}]
      BY <2>1, <2>3
    <3> QED BY <1>1, <2>7, <3>1 DEF VarsTyped
  <2>9. CallsApart' /\ TicksRead'
    BY <1>1, <2>7 DEF CallsApart, TicksRead
  <2>10. Serving'
    BY <1>1, <2>3, <2>6, <2>7 DEF Serving
  <2>11. \A c \in Caller : call[c].pc \in {"timeout", "insert"} => call[c].t \in Timer \ {h}
    BY <1>1, <2>4, DelayApart DEF StartsApart, CallsApart
  <2>12. StartsApart'
    BY <1>1, <2>5, <2>7, <2>11 DEF StartsApart, Others, OnClock
  <2>13. Armed'
    <3> SUFFICES ASSUME NEW u \in Timer, w'.activated[u]
                 PROVE  \/ Listed(w', u) \/ isr'.t = u \/ tt.t = u
                        \/ \E c \in Caller : call[c].t = u /\ call[c].pc = "clear"
      BY <2>7 DEF Armed
    <3>1. CASE u = h
      BY <3>1, <2>6
    <3>2. CASE u # h
      <4>1. isr.t # u
        BY <1>2
      <4> QED BY <1>1, <2>5, <3>2, <4>1 DEF Armed, Others
    <3> QED BY <3>1, <3>2
  <2>14. StoppedHard'
    <3>1. \A t \in Hard : t \in stopped => ~w'.activated[t] /\ ~Listed(w', t)
      BY <1>1, <2>4, <2>5 DEF StoppedHard, Others, Timer
    <3>2. \A c \in Caller : call[c].pc = "clear" /\ call[c].t \in Hard =>
             ~Listed(w', call[c].t) /\ isr'.t # call[c].t
      BY <1>1, <2>4, <2>5, <2>6 DEF StoppedHard, Others, Timer
    <3> QED BY <1>1, <2>7, <3>1, <3>2 DEF StoppedHard
  <2>15. ListsAt(w, tick)'
    BY <2>5, <2>7
  <2>16. DelayArmed'
    <3>1. Delay \in Timer
      BY <1>1, DelayApart
    <3> QED BY <1>1, <2>5, <2>6, <3>1 DEF DelayArmed, Others
  <2> QED BY <2>8, <2>9, <2>10, <2>12, <2>13, <2>14, <2>15, <2>16 DEF IInv
<1>4. CASE ~(s # << >> /\ Expired(w, tick, h))
  <2>1. isr' = Idling /\ UNCHANGED <<w, tick, set, exist, call, tt, stopped>>
    BY <1>4
  <2>2. isr'.pc = "none" /\ isr'.t = NoTimer
    BY <2>1 DEF Idling
  <2>3. isr' \in [pc : {"none", "check", "call"}, t : Timer \cup {NoTimer}]
    BY <2>1 DEF Idling
  <2> HIDE DEF rt_timer_check
  <2>4. VarsTyped'
    BY <1>1, <2>1, <2>3 DEF VarsTyped
  <2>5. ListsAt(w, tick)' /\ CallsApart' /\ StartsApart' /\ TicksRead'
    BY <1>1, <2>1 DEF ListsAt, CallsApart, StartsApart, TicksRead, OnClock
  <2>6. Serving' /\ Armed' /\ StoppedHard' /\ DelayArmed'
    BY <1>1, <1>2, <2>1, <2>2, DelayApart DEF Serving, Armed, StoppedHard, CallsApart, DelayArmed
  <2> QED BY <2>4, <2>5, <2>6 DEF IInv
<1> QED BY <1>3, <1>4

\* A hard timer's function returns, rt_thread_timeout among them.
LEMMA ReturnIInv ==
    ASSUME IInv, isr.pc = "call", w' = Restart(w, isr.t),
           isr' = [pc |-> "check", t |-> NoTimer],
           tt' = tt \/ tt' = [tt EXCEPT !.stat = "READY"],
           UNCHANGED <<tick, set, exist, call, stopped>>
    PROVE  IInv'
<1>1. /\ VarsTyped /\ ListsAt(w, tick) /\ CallsApart /\ StartsApart /\ Serving /\ TicksRead
      /\ Armed /\ StoppedHard /\ DelayArmed
  BY DEF IInv
<1> DEFINE h == isr.t
<1>2. h \in Hard /\ h \in Timer /\ NoTimer \notin Timer
  BY <1>1, TimerAssumption DEF Serving, Timer
<1>3. set[h] \in Option /\ tick \in Tick
  BY <1>1, <1>2 DEF VarsTyped
<1> HIDE DEF h
<1>4. w' = Restart(w, h)
  BY DEF h
<1>5. /\ ListsAt(w', tick) /\ Others(w, w', {h})
      /\ w'.activated[h] => Listed(w', h) /\ w.activated[h]
      /\ \/ /\ w.activated[h] /\ w'.activated[h] /\ w'.due[h] = set[h].time
            /\ Listed(w', h) /\ w'.timeout_tick[h] = Plus(tick, set[h].time)
         \/ /\ w'.due[h] = w.due[h] /\ w'.timeout_tick[h] = w.timeout_tick[h]
            /\ Listed(w', h) <=> Listed(w, h)
  BY ONLY <1>1, <1>2, <1>3, <1>4, Restarted
<1>6. /\ tt'.pc = tt.pc /\ tt'.t = tt.t /\ tt'.ticks = tt.ticks
      /\ tt' \in [pc : {"next", "decide", "delay", "read", "scan", "call", "restart"},
                  stat : {"READY", "SUSPEND"}, ticks : Tick,
                  n : Soft \cup {NoTimer}, t : Soft \cup {NoTimer}]
  BY <1>1 DEF VarsTyped
<1>7. /\ isr'.pc = "check" /\ isr'.t = NoTimer
      /\ isr' \in [pc : {"none", "check", "call"}, t : Timer \cup {NoTimer}]
  OBVIOUS
<1>8. VarsTyped'
  BY <1>1, <1>6, <1>7 DEF VarsTyped
<1>9. ListsAt(w, tick)' /\ CallsApart' /\ Serving' /\ TicksRead'
  BY <1>1, <1>5, <1>6, <1>7 DEF CallsApart, Serving, TicksRead
<1>10. \A c \in Caller : call[c].pc \in {"timeout", "insert"} => call[c].t \in Timer
  BY <1>1, DelayApart DEF CallsApart
<1>11. StartsApart'
  <2> SUFFICES ASSUME NEW c \in Caller
               PROVE  /\ call[c].pc \in {"timeout", "insert"} =>
                            ~w'.activated[call[c].t] /\ ~Listed(w', call[c].t)
                      /\ call[c].pc = "insert" => OnClock(w', tick, call[c].t)
    BY DEF StartsApart
  <2>1. CASE call[c].t = h
    BY <1>1, <1>5, <2>1 DEF StartsApart, OnClock
  <2>2. CASE call[c].t # h
    BY <1>1, <1>5, <1>10, <2>2 DEF StartsApart, OnClock, Others
  <2> QED BY <2>1, <2>2
<1>12. Armed'
  <2> SUFFICES ASSUME NEW u \in Timer, w'.activated[u]
               PROVE  \/ Listed(w', u) \/ isr'.t = u \/ tt'.t = u
                      \/ \E c \in Caller : call[c].t = u /\ call[c].pc = "clear"
    BY DEF Armed
  <2>1. CASE u = h
    BY <2>1, <1>5
  <2>2. CASE u # h
    BY <1>1, <1>5, <1>6, <2>2 DEF Armed, Others, h
  <2> QED BY <2>1, <2>2
<1>13. StoppedHard'
  <2>1. \A t \in Hard : t \in stopped => ~w'.activated[t] /\ ~Listed(w', t)
    <3> TAKE t \in Hard
    <3> HAVE t \in stopped
    <3>1. ~w.activated[t] /\ ~Listed(w, t) /\ t \in Timer
      BY <1>1 DEF StoppedHard, Timer
    <3>2. CASE t = h
      BY <3>1, <3>2, <1>5
    <3>3. CASE t # h
      BY <3>1, <3>3, <1>5 DEF Others
    <3> QED BY <3>2, <3>3
  <2>2. \A c \in Caller : call[c].pc = "clear" /\ call[c].t \in Hard =>
           ~Listed(w', call[c].t) /\ isr'.t # call[c].t
    BY <1>1, <1>2, <1>5, <1>7 DEF StoppedHard, Others, Timer, h
  <2> QED BY <1>1, <2>1, <2>2 DEF StoppedHard
<1>14. DelayArmed'
  <2>1. Delay \in Timer /\ Delay # NoTimer
    BY <1>1, DelayApart
  <2>2. CASE h = Delay
    BY <1>1, <1>5, <1>7, <2>1, <2>2 DEF DelayArmed, h
  <2>3. CASE h # Delay
    BY <1>1, <1>5, <1>7, <2>1, <2>3 DEF DelayArmed, Others
  <2> QED BY <2>2, <2>3
<1> QED BY <1>8, <1>9, <1>11, <1>12, <1>13, <1>14 DEF IInv

\* A function in the interrupt starts or stops a timer no thread is in a call on.
LEMMA FunctionIInv ==
    ASSUME IInv, NEW t \in Timer, FunctionStarts(t) \/ FunctionStops(t)
    PROVE  IInv'
<1>1. /\ VarsTyped /\ ListsAt(w, tick) /\ CallsApart /\ StartsApart /\ Serving /\ TicksRead
      /\ Armed /\ StoppedHard /\ DelayArmed
  BY DEF IInv
<1>2. /\ Delay \in Timer /\ Delay \in Hard /\ Delay \notin exist /\ NoTimer \notin Timer
      /\ exist \subseteq Timer /\ \A c \in Caller : call[c].t # Delay
  BY <1>1, DelayApart
<1>3. /\ t \in exist /\ t # Delay /\ \A c \in Caller : call[c].t # t
      /\ UNCHANGED <<tick, set, exist, isr, call>> /\ isr.t # Delay
  BY <1>2 DEF FunctionStarts, FunctionStops, Quiet, InFunction
<1>4. tick \in Tick /\ set[t] \in Option
  BY <1>1 DEF VarsTyped
<1>5. /\ ListsAt(w', tick) /\ Others(w, w', {t, Delay})
      /\ w'.activated[Delay] => w.activated[Delay]
      /\ Listed(w', Delay) => Listed(w, Delay)
      /\ w'.activated[Delay] => (Listed(w', Delay) <=> Listed(w, Delay))
      /\ Listed(w', Delay) => (w'.activated[Delay] <=> w.activated[Delay])
      /\ w'.activated[t] => Listed(w', t)
      /\ tt' = tt \/ tt' = [tt EXCEPT !.stat = "READY"]
      /\ stopped' \subseteq stopped \cup {t}
      /\ t \in stopped' => ~w'.activated[t] /\ ~Listed(w', t)
  <2>1. CASE FunctionStarts(t)
    <3>1. PICK x : x = StartNow(w, t)
      OBVIOUS
    <3>2. WakeFor(x, t) /\ stopped' = stopped \ {t}
      BY <2>1, <3>1 DEF FunctionStarts
    <3>3. ListsAt(x, tick) /\ Listed(x, t) /\ x.activated[t] /\ Others(w, x, {t})
      BY <1>1, <1>4, <3>1, Started
    <3>4. /\ ListsAt(w', tick) /\ Others(x, w', {Delay})
          /\ w'.activated[Delay] => x.activated[Delay]
          /\ Listed(w', Delay) => Listed(x, Delay)
          /\ w'.activated[Delay] => (Listed(w', Delay) <=> Listed(x, Delay))
          /\ Listed(w', Delay) => (w'.activated[Delay] <=> x.activated[Delay])
          /\ tt' = tt \/ tt' = [tt EXCEPT !.stat = "READY"]
      BY ONLY <1>1, <3>2, <3>3, Woken
    <3>5. Others(w, w', {t, Delay})
      BY <3>3, <3>4 DEF Others
    <3>6. (x.activated[Delay] <=> w.activated[Delay]) /\ (Listed(x, Delay) <=> Listed(w, Delay))
      BY <1>2, <1>3, <3>3 DEF Others
    <3>7. Listed(w', t)
      BY <1>3, <3>3, <3>4 DEF Others
    <3> QED BY <3>2, <3>4, <3>5, <3>6, <3>7
  <2>2. CASE FunctionStops(t)
    <3>1. w' = StopNow(w, t) /\ w.activated[t] /\ stopped' = stopped \cup {t} /\ tt' = tt
      BY <2>2 DEF FunctionStops
    <3>2. ListsAt(w', tick) /\ Others(w, w', {t}) /\ ~w'.activated[t] /\ ~Listed(w', t)
      BY <1>1, <3>1, Stopped
    <3> QED BY <1>2, <1>3, <3>1, <3>2 DEF Others
  <2> QED BY <2>1, <2>2
<1>6. /\ tt'.pc = tt.pc /\ tt'.t = tt.t /\ tt'.ticks = tt.ticks
      /\ tt' \in [pc : {"next", "decide", "delay", "read", "scan", "call", "restart"},
                  stat : {"READY", "SUSPEND"}, ticks : Tick,
                  n : Soft \cup {NoTimer}, t : Soft \cup {NoTimer}]
  BY <1>1, <1>5 DEF VarsTyped
<1>7. VarsTyped'
  BY <1>1, <1>3, <1>5, <1>6 DEF VarsTyped
<1>8. ListsAt(w, tick)' /\ CallsApart' /\ Serving' /\ TicksRead'
  BY <1>1, <1>3, <1>5, <1>6 DEF CallsApart, Serving, TicksRead
<1>9. \A c \in Caller : call[c].pc # "none" => call[c].t \in Timer \ {t, Delay}
  BY <1>1, <1>2, <1>3 DEF CallsApart
<1>10. StartsApart'
  BY <1>1, <1>3, <1>5, <1>9 DEF StartsApart, OnClock, Others
<1>11. Armed'
  BY <1>1, <1>2, <1>3, <1>5, <1>6 DEF Armed, Others
<1>12. StoppedHard'
  <2>1. ASSUME NEW u \in Hard, u \in stopped' PROVE ~w'.activated[u] /\ ~Listed(w', u)
    <3>1. CASE u = t
      BY <2>1, <3>1, <1>5
    <3>2. CASE u # t
      BY <1>1, <1>5, <2>1, <3>2 DEF StoppedHard, Others, Timer
    <3> QED BY <3>1, <3>2
  <2>2. \A c \in Caller : call[c].pc = "clear" /\ call[c].t \in Hard =>
           ~Listed(w', call[c].t) /\ isr'.t # call[c].t
    BY <1>1, <1>3, <1>5, <1>9 DEF StoppedHard, Others
  <2>3. \A c \in Caller : call[c].pc \in {"timeout", "insert", "wake"} => call[c].t \notin stopped'
    BY <1>1, <1>3, <1>5 DEF StoppedHard
  <2> QED BY <1>3, <2>1, <2>2, <2>3 DEF StoppedHard
<1>13. DelayArmed'
  BY <1>1, <1>3, <1>5 DEF DelayArmed
<1> QED BY <1>7, <1>8, <1>10, <1>11, <1>12, <1>13 DEF IInv
\* A step of a thread that leaves it in call r on timer t (or in none): the
\* rest of the state is as it was, but that the thread timer of the timer thread
\* may be stopped, and what the invariant says of t holds afterwards.
CallMoves(c, t, r) ==
    /\ isr = Idling
    /\ \A d \in Caller \ {c} : call[d].t # t
    /\ c = TimerThread => tt.pc = "call"
    /\ r = Idling \/ (r.pc # "none" /\ r.t = t)
    /\ call[c].t \in {NoTimer, t}
    /\ call' = [call EXCEPT ![c] = r]
    /\ UNCHANGED <<tick, exist, isr>>
    /\ tt' = tt \/ tt' = [tt EXCEPT !.stat = "READY"]
    /\ set' \in [Timer -> Option] /\ \A u \in Timer : set'[u] \in Settings[u]
    /\ ListsAt(w', tick) /\ Others(w, w', {t, Delay})
    /\ w'.activated[Delay] => w.activated[Delay]
    /\ Listed(w', Delay) => Listed(w, Delay)
    /\ w'.activated[Delay] => (Listed(w', Delay) <=> Listed(w, Delay))
    /\ Listed(w', Delay) => (w'.activated[Delay] <=> w.activated[Delay])
    /\ stopped' \subseteq stopped \cup {t}
    /\ r.pc \in {"timeout", "insert"} => ~w'.activated[t] /\ ~Listed(w', t)
    /\ r.pc = "insert" => OnClock(w', tick, t)
    /\ w'.activated[t] => Listed(w', t) \/ tt.t = t \/ r.pc = "clear"
    /\ t \in Hard /\ t \in stopped' => ~w'.activated[t] /\ ~Listed(w', t)
    /\ r.pc \in {"timeout", "insert", "wake"} => t \notin stopped'
    /\ r.pc = "clear" /\ t \in Hard => ~Listed(w', t)

CallState == [pc : {"none", "timeout", "insert", "wake", "remove", "clear"},
              t : Timer \cup {NoTimer}]

\* Such a step keeps the invariant.
LEMMA CallIInv ==
    ASSUME IInv, NEW c \in Caller, NEW t \in exist, NEW r \in CallState, CallMoves(c, t, r)
    PROVE  IInv'
<1> USE DEF CallMoves, CallState
<1>1. /\ VarsTyped /\ ListsAt(w, tick) /\ CallsApart /\ StartsApart /\ Serving /\ TicksRead
      /\ Armed /\ StoppedHard /\ DelayArmed
  BY DEF IInv
<1>2. /\ Delay \in Timer /\ Delay \in Hard /\ Delay \notin exist /\ NoTimer \notin Timer
      /\ exist \subseteq Timer /\ \A d \in Caller : call[d].t # Delay
  BY <1>1, DelayApart
<1>3. t \in Timer /\ t # Delay /\ t # NoTimer /\ isr.t = NoTimer
  BY <1>2 DEF Idling
<1>4. call'[c] = r /\ \A d \in Caller \ {c} : call'[d] = call[d]
  BY <1>1 DEF VarsTyped
<1>5. /\ tt'.pc = tt.pc /\ tt'.t = tt.t /\ tt'.ticks = tt.ticks
      /\ tt' \in [pc : {"next", "decide", "delay", "read", "scan", "call", "restart"},
                  stat : {"READY", "SUSPEND"}, ticks : Tick,
                  n : Soft \cup {NoTimer}, t : Soft \cup {NoTimer}]
  BY <1>1 DEF VarsTyped
<1>6. VarsTyped'
  <2>1. call' \in [Caller -> [pc : {"none", "timeout", "insert", "wake", "remove", "clear"},
                              t : Timer \cup {NoTimer}]]
    BY <1>1 DEF VarsTyped
  <2>2. stopped' \subseteq exist'
    BY <1>1 DEF VarsTyped
  <2> QED BY <1>1, <1>5, <2>1, <2>2 DEF VarsTyped
<1>7. /\ r.pc = "none" <=> r.t = NoTimer
      /\ r.t # NoTimer => r.t = t
      /\ r.pc # "none" => r.t = t
  BY <1>3 DEF Idling
<1>8. CallsApart'
  <2>1. \A d \in Caller : call'[d].pc = "none" <=> call'[d].t = NoTimer
    BY <1>1, <1>4, <1>7 DEF CallsApart
  <2>2. \A d \in Caller : call'[d].t # NoTimer => call'[d].t \in exist'
    BY <1>1, <1>4, <1>7 DEF CallsApart
  <2>3. call'[Client].t = call'[TimerThread].t => call'[Client].t = NoTimer
    <3>1. c = Client \/ c = TimerThread
      BY DEF Caller
    <3>2. Client # TimerThread
      BY DEF Client, TimerThread
    <3>3. CASE c = Client
      <4>1. call'[TimerThread] = call[TimerThread] /\ call[TimerThread].t # t
        BY <1>4, <3>2, <3>3 DEF Caller
      <4> QED BY <1>4, <1>7, <3>3, <4>1
    <3>4. CASE c = TimerThread
      <4>1. call'[Client] = call[Client] /\ call[Client].t # t
        BY <1>4, <3>2, <3>4 DEF Caller
      <4> QED BY <1>4, <1>7, <3>4, <4>1
    <3> QED BY <3>1, <3>3, <3>4
  <2>4. tt'.pc # "call" => call'[TimerThread] = Idling
    BY <1>1, <1>4, <1>5 DEF CallsApart, Caller
  <2> QED BY <2>1, <2>2, <2>3, <2>4 DEF CallsApart
<1>9. \A d \in Caller \ {c} : call[d].pc # "none" => call[d].t \in Timer \ {t, Delay}
  BY <1>1, <1>2 DEF CallsApart
<1>10. StartsApart'
  <2> SUFFICES ASSUME NEW d \in Caller
               PROVE  /\ call'[d].pc \in {"timeout", "insert"} =>
                            ~w'.activated[call'[d].t] /\ ~Listed(w', call'[d].t)
                      /\ call'[d].pc = "insert" => OnClock(w', tick, call'[d].t)
    BY DEF StartsApart
  <2>1. CASE d = c
    BY <2>1, <1>4, <1>7
  <2>2. CASE d # c
    BY <1>1, <1>4, <1>9, <2>2 DEF StartsApart, OnClock, Others
  <2> QED BY <2>1, <2>2
<1>11. Serving' /\ TicksRead'
  BY <1>1, <1>5 DEF Serving, TicksRead
<1>12. Armed'
  <2> SUFFICES ASSUME NEW u \in Timer, w'.activated[u]
               PROVE  \/ Listed(w', u) \/ isr'.t = u \/ tt'.t = u
                      \/ \E d \in Caller : call'[d].t = u /\ call'[d].pc = "clear"
    BY DEF Armed
  <2>1. CASE u = t
    <3>1. CASE r.pc = "clear"
      BY <3>1, <2>1, <1>4, <1>7
    <3>2. CASE r.pc # "clear"
      BY <3>2, <2>1, <1>5
    <3> QED BY <3>1, <3>2
  <2>2. CASE u # t
    <3>1. w.activated[u] /\ (Listed(w, u) => Listed(w', u))
      BY <2>2 DEF Others
    <3>2. isr.t # u
      BY <1>2, <1>3
    <3>3. ASSUME NEW d \in Caller, call[d].t = u, call[d].pc = "clear"
          PROVE  call'[d].t = u /\ call'[d].pc = "clear"
      BY <1>2, <1>4, <2>2, <3>3
    <3> QED BY <1>1, <1>5, <3>1, <3>2, <3>3 DEF Armed
  <2> QED BY <2>1, <2>2
<1>13. StoppedHard'
  <2>1. ASSUME NEW u \in Hard, u \in stopped' PROVE ~w'.activated[u] /\ ~Listed(w', u)
    <3>1. CASE u = t
      BY <2>1, <3>1
    <3>2. CASE u # t
      BY <1>1, <2>1, <3>2 DEF StoppedHard, Others, Timer
    <3> QED BY <3>1, <3>2
  <2>2. \A d \in Caller : call'[d].pc = "clear" /\ call'[d].t \in Hard =>
           ~Listed(w', call'[d].t) /\ isr'.t # call'[d].t
    BY <1>1, <1>3, <1>4, <1>7, <1>9 DEF StoppedHard, Others
  <2>3. \A d \in Caller : call'[d].pc \in {"timeout", "insert", "wake"} => call'[d].t \notin stopped'
    BY <1>1, <1>4, <1>7, <1>9 DEF StoppedHard
  <2> QED BY <2>1, <2>2, <2>3 DEF StoppedHard
<1>14. DelayArmed'
  BY <1>1, <1>3, <1>2 DEF DelayArmed
<1>15. ListsAt(w, tick)'
  OBVIOUS
<1> QED BY <1>6, <1>8, <1>10, <1>11, <1>12, <1>13, <1>14, <1>15 DEF IInv
\* What a step of a thread finds: it is alone in its call, on a timer that
\* exists, outside the interrupt.
LEMMA CallFound ==
    ASSUME IInv, NEW c \in Caller, Runs(c), call[c].pc # "none"
    PROVE  /\ call[c].t \in exist /\ call[c].t \in Timer /\ call[c].t # Delay
           /\ \A d \in Caller \ {c} : call[d].t # call[c].t
           /\ isr = Idling /\ (c = TimerThread => tt.pc = "call")
<1>1. VarsTyped /\ CallsApart
  BY DEF IInv
<1>2. call[c].t \in exist /\ call[c].t # NoTimer
  BY <1>1 DEF CallsApart
<1>3. \A d \in Caller \ {c} : call[d].t # call[c].t
  BY <1>1, <1>2 DEF CallsApart, Caller
<1> QED BY <1>1, <1>2, <1>3, DelayApart DEF Runs

\* What a call finds when it begins.
LEMMA BeginFound ==
    ASSUME IInv, NEW c \in Caller, NEW t \in Timer, Begins(c, t)
    PROVE  /\ t \in exist /\ t # Delay /\ call[c].t = NoTimer /\ call[c] = Idling
           /\ \A d \in Caller \ {c} : call[d].t # t
           /\ isr = Idling /\ (c = TimerThread => tt.pc = "call")
<1>1. VarsTyped /\ CallsApart
  BY DEF IInv
<1> QED BY <1>1, DelayApart DEF Begins, Runs, Quiet, Idling

\* A step that changes the lists for t alone does to the thread timer nothing.
LEMMA DelayLeft ==
    ASSUME NEW x, NEW y, NEW t, Others(x, y, {t}), t # Delay
    PROVE  /\ Others(x, y, {t, Delay})
           /\ y.activated[Delay] => x.activated[Delay]
           /\ Listed(y, Delay) => Listed(x, Delay)
           /\ y.activated[Delay] => (Listed(y, Delay) <=> Listed(x, Delay))
           /\ Listed(y, Delay) => (y.activated[Delay] <=> x.activated[Delay])
<1>1. Delay \in Timer
  BY TimerAssumption DEF Timer
<1> QED BY <1>1 DEF Others

\* A call begins.
LEMMA BeginIInv ==
    ASSUME IInv, NEW c \in Caller, NEW t \in Timer,
           \/ rt_timer_start(c, t) \/ rt_timer_stop(c, t) \/ rt_timer_detach(c, t)
           \/ \E o \in Settings[t] : rt_timer_control(c, t, o)
    PROVE  IInv'
<1>0. Begins(c, t)
  BY DEF rt_timer_start, rt_timer_stop, rt_timer_detach, rt_timer_control
<1>1. /\ t \in exist /\ t # Delay /\ call[c].t = NoTimer /\ call[c] = Idling
      /\ \A d \in Caller \ {c} : call[d].t # t
      /\ isr = Idling /\ (c = TimerThread => tt.pc = "call")
  BY <1>0, BeginFound
<1>2. /\ VarsTyped /\ ListsAt(w, tick) /\ CallsApart /\ StartsApart /\ Serving /\ TicksRead
      /\ Armed /\ StoppedHard /\ DelayArmed
  BY DEF IInv
<1>3. /\ set \in [Timer -> Option] /\ \A u \in Timer : set[u] \in Settings[u]
      /\ call \in [Caller -> CallState]
  BY <1>2 DEF VarsTyped, CallState
<1>4. Others(w, w, {t}) /\ Idling \in CallState /\ call = [call EXCEPT ![c] = Idling]
  BY <1>1, <1>3 DEF Others, Idling, CallState
<1>5. w.activated[t] => Listed(w, t) \/ tt.t = t
  BY <1>1, <1>2, DelayApart DEF Armed, Idling
<1>6. CASE rt_timer_start(c, t)
  <2>1. PICK r : r = [pc |-> "timeout", t |-> t]
    OBVIOUS
  <2>2. r \in CallState /\ r.pc = "timeout" /\ r.t = t
    BY <2>1 DEF CallState
  <2>3. /\ w' = Unlink(w, t) /\ stopped' = stopped \ {t} /\ call' = [call EXCEPT ![c] = r]
        /\ UNCHANGED <<tick, set, exist, isr, tt>>
    BY <1>6, <2>1 DEF rt_timer_start
  <2>4. ListsAt(w', tick) /\ ~Listed(w', t) /\ Others(w, w', {t}) /\ ~w'.activated[t]
    BY <1>2, <2>3, Unlinked
  <2>5. CallMoves(c, t, r)
    BY <1>1, <1>3, <2>2, <2>3, <2>4, DelayLeft DEF CallMoves
  <2> QED BY <1>1, <2>2, <2>5, CallIInv
<1>7. CASE rt_timer_stop(c, t)
  <2>1. PICK r : r = [pc |-> "remove", t |-> t]
    OBVIOUS
  <2>2. r \in CallState /\ r.pc = "remove" /\ r.t = t
    BY <2>1 DEF CallState
  <2>3. /\ w.activated[t] /\ call' = [call EXCEPT ![c] = r]
        /\ UNCHANGED <<tick, w, set, exist, isr, tt, stopped>>
    BY <1>7, <2>1 DEF rt_timer_stop
  <2>4. Others(w, w', {t}) /\ ListsAt(w', tick)
    BY <1>2, <1>4, <2>3
  <2>5. t \in Hard => t \notin stopped
    BY <1>2, <2>3 DEF StoppedHard
  <2>6. CallMoves(c, t, r)
    BY <1>1, <1>3, <1>5, <2>2, <2>3, <2>4, <2>5, DelayLeft DEF CallMoves
  <2> QED BY <1>1, <2>2, <2>6, CallIInv
<1>8. CASE rt_timer_detach(c, t)
  <2>1. /\ w' = Unlink(w, t) /\ stopped' = stopped \cup {t}
        /\ UNCHANGED <<tick, set, exist, isr, call, tt>>
    BY <1>8 DEF rt_timer_detach
  <2>2. ListsAt(w', tick) /\ ~Listed(w', t) /\ Others(w, w', {t}) /\ ~w'.activated[t]
    BY <1>2, <2>1, Unlinked
  <2>3. Idling.pc = "none"
    BY DEF Idling
  <2>4. CallMoves(c, t, Idling)
    BY <1>1, <1>3, <1>4, <2>1, <2>2, <2>3, DelayLeft DEF CallMoves
  <2> QED BY <1>1, <1>4, <2>4, CallIInv
<1>9. CASE \E o \in Settings[t] : rt_timer_control(c, t, o)
  <2>1. PICK o \in Settings[t] : rt_timer_control(c, t, o)
    BY <1>9
  <2>2. set' = [set EXCEPT ![t] = o] /\ UNCHANGED <<tick, w, exist, isr, call, tt, stopped>>
    BY <2>1 DEF rt_timer_control
  <2>3. o \in Option
    BY TimerAssumption DEF Option, Longest
  <2>4. set' \in [Timer -> Option] /\ \A u \in Timer : set'[u] \in Settings[u]
    BY <1>3, <2>1, <2>2, <2>3
  <2>5. Others(w, w', {t}) /\ ListsAt(w', tick)
    BY <1>2, <1>4, <2>2
  <2>6. Idling.pc = "none"
    BY DEF Idling
  <2>7. t \in Hard /\ t \in stopped' => ~w'.activated[t] /\ ~Listed(w', t)
    BY <1>2, <2>2 DEF StoppedHard
  <2>8. CallMoves(c, t, Idling)
    BY <1>1, <1>4, <1>5, <2>2, <2>4, <2>5, <2>6, <2>7, DelayLeft DEF CallMoves
  <2> QED BY <1>1, <1>4, <2>8, CallIInv
<1> QED BY <1>6, <1>7, <1>8, <1>9

\* A call goes on.
LEMMA CallStepIInv ==
    ASSUME IInv, NEW c \in Caller, CallStep(c)
    PROVE  IInv'
<1>0. Runs(c) /\ call[c].pc # "none"
  BY DEF CallStep, StartTimeout, StartInsert, StartWake, StopRemove, StopClear, InCall
<1> DEFINE t == call[c].t
<1>1. /\ t \in exist /\ t \in Timer /\ t # Delay
      /\ \A d \in Caller \ {c} : call[d].t # t
      /\ isr = Idling /\ (c = TimerThread => tt.pc = "call")
  BY <1>0, CallFound
<1>2. /\ VarsTyped /\ ListsAt(w, tick) /\ CallsApart /\ StartsApart /\ Serving /\ TicksRead
      /\ Armed /\ StoppedHard /\ DelayArmed
  BY DEF IInv
<1>3. /\ set \in [Timer -> Option] /\ \A u \in Timer : set[u] \in Settings[u]
      /\ call \in [Caller -> CallState] /\ tick \in Tick
  BY <1>2 DEF VarsTyped, CallState
<1>4. Idling \in CallState /\ Idling.pc = "none"
  BY DEF Idling, CallState
<1>5. ASSUME NEW p \in {"insert", "wake", "clear"}, Step(c, p)
      PROVE  \E r \in CallState : r.pc = p /\ r.t = t /\ call' = [call EXCEPT ![c] = r]
  <2>1. [call[c] EXCEPT !.pc = p] \in CallState
    BY <1>3 DEF CallState
  <2>2. [call[c] EXCEPT !.pc = p].pc = p /\ [call[c] EXCEPT !.pc = p].t = t
    BY <1>3 DEF CallState
  <2>3. call' = [call EXCEPT ![c] = [call[c] EXCEPT !.pc = p]]
    BY <1>5 DEF Step
  <2> QED BY <2>1, <2>2, <2>3
<1>6. call[c].pc # "clear" /\ w.activated[t] => Listed(w, t) \/ tt.t = t
  <2> SUFFICES ASSUME call[c].pc # "clear", w.activated[t] PROVE Listed(w, t) \/ tt.t = t
    OBVIOUS
  <2>1. isr.t # t
    BY <1>1, <1>2, DelayApart DEF Idling
  <2>2. \A d \in Caller : ~(call[d].t = t /\ call[d].pc = "clear")
    BY <1>1
  <2> QED BY <1>1, <1>2, <2>1, <2>2 DEF Armed
<1>7. t \in Hard /\ t \in stopped => ~w.activated[t] /\ ~Listed(w, t)
  BY <1>2 DEF StoppedHard
<1>8. call[c].t \in {NoTimer, t}
  OBVIOUS
<1> HIDE DEF t
<1>9. CASE StartTimeout(c)
  <2>1. /\ call[c].pc = "timeout" /\ w' = SetTimeout(w, t) /\ Step(c, "insert")
        /\ UNCHANGED <<tick, set, exist, isr, tt, stopped>>
    BY <1>9 DEF StartTimeout, InCall, t
  <2>2. PICK r \in CallState : r.pc = "insert" /\ r.t = t /\ call' = [call EXCEPT ![c] = r]
    BY <1>5, <2>1
  <2>3. ~w.activated[t] /\ ~Listed(w, t) /\ t \notin stopped
    BY <1>2, <2>1 DEF StartsApart, StoppedHard, t
  <2>4. PICK d \in 0 .. Longest : d = set[t].time
    BY <1>1, <1>3, Width DEF Option
  <2>5. w' = GiveTime(w, t, tick, d)
    BY <2>1, <2>4 DEF SetTimeout, GiveTime
  <2>6. /\ ListsAt(w', tick) /\ ~Listed(w', t) /\ OnClock(w', tick, t) /\ Others(w, w', {t})
        /\ w'.activated = w.activated
    BY ONLY <1>1, <1>2, <1>3, <2>3, <2>5, d \in 0 .. Longest, Dated
  <2>7. CallMoves(c, t, r)
    BY <1>1, <1>3, <1>8, <2>1, <2>2, <2>3, <2>6, DelayLeft DEF CallMoves
  <2> QED BY <1>1, <2>2, <2>7, CallIInv
<1>10. CASE StartInsert(c)
  <2>1. /\ call[c].pc = "insert" /\ w' = Insert(w, t) /\ Step(c, "wake")
        /\ UNCHANGED <<tick, set, exist, isr, tt, stopped>>
    BY <1>10 DEF StartInsert, InCall, t
  <2>2. PICK r \in CallState : r.pc = "wake" /\ r.t = t /\ call' = [call EXCEPT ![c] = r]
    BY <1>5, <2>1
  <2>3. ~Listed(w, t) /\ OnClock(w, tick, t) /\ t \notin stopped
    BY <1>2, <2>1 DEF StartsApart, StoppedHard, t
  <2>4. ListsAt(w', tick) /\ Listed(w', t) /\ w'.activated[t] /\ Others(w, w', {t})
    BY <1>1, <1>2, <1>3, <2>1, <2>3, Inserted
  <2>5. CallMoves(c, t, r)
    BY <1>1, <1>3, <1>8, <2>1, <2>2, <2>3, <2>4, DelayLeft DEF CallMoves
  <2> QED BY <1>1, <2>2, <2>5, CallIInv
<1>11. CASE StartWake(c)
  <2>1. /\ call[c].pc = "wake" /\ WakeFor(w, t) /\ call' = [call EXCEPT ![c] = Idling]
        /\ UNCHANGED <<tick, set, exist, isr, stopped>>
    BY <1>11 DEF StartWake, InCall, Return, t
  <2>2. /\ ListsAt(w', tick) /\ Others(w, w', {Delay})
        /\ w'.activated[Delay] => w.activated[Delay]
        /\ Listed(w', Delay) => Listed(w, Delay)
        /\ w'.activated[Delay] => (Listed(w', Delay) <=> Listed(w, Delay))
        /\ Listed(w', Delay) => (w'.activated[Delay] <=> w.activated[Delay])
        /\ tt' = tt \/ tt' = [tt EXCEPT !.stat = "READY"]
    BY ONLY <1>2, <2>1, Woken
  <2>3. /\ Others(w, w', {t, Delay}) /\ (w'.activated[t] <=> w.activated[t])
        /\ Listed(w', t) <=> Listed(w, t)
    BY <1>1, <2>2 DEF Others
  <2>4. CallMoves(c, t, Idling)
    BY <1>1, <1>3, <1>4, <1>6, <1>7, <1>8, <2>1, <2>2, <2>3 DEF CallMoves
  <2> QED BY <1>1, <1>4, <2>4, CallIInv
<1>12. CASE StopRemove(c)
  <2>1. /\ call[c].pc = "remove" /\ w' = _rt_timer_remove(w, t) /\ Step(c, "clear")
        /\ UNCHANGED <<tick, set, exist, isr, tt, stopped>>
    BY <1>12 DEF StopRemove, InCall, t
  <2>2. PICK r \in CallState : r.pc = "clear" /\ r.t = t /\ call' = [call EXCEPT ![c] = r]
    BY <1>5, <2>1
  <2>3. ListsAt(w', tick) /\ ~Listed(w', t) /\ Others(w, w', {t}) /\ w'.activated = w.activated
    BY <1>1, <1>2, <2>1, Removed
  <2>4. CallMoves(c, t, r)
    BY <1>1, <1>3, <1>7, <1>8, <2>1, <2>2, <2>3, DelayLeft DEF CallMoves
  <2> QED BY <1>1, <2>2, <2>4, CallIInv
<1>13. CASE StopClear(c)
  <2>1. /\ call[c].pc = "clear" /\ w' = Clear(w, t) /\ stopped' = stopped \cup {t}
        /\ call' = [call EXCEPT ![c] = Idling]
        /\ UNCHANGED <<tick, set, exist, isr, tt>>
    BY <1>13 DEF StopClear, InCall, Return, Clear, t
  <2>2. ListsAt(w', tick) /\ Others(w, w', {t}) /\ w'.list = w.list /\ ~w'.activated[t]
    BY ONLY <1>1, <1>2, <2>1, Cleared
  <2>3. t \in Hard => ~Listed(w', t)
    <3>1. t \in Hard => ~Listed(w, t)
      BY <1>2, <2>1 DEF StoppedHard, t
    <3> QED BY <3>1, <2>2 DEF Listed
  <2>4. CallMoves(c, t, Idling)
    BY <1>1, <1>3, <1>4, <1>8, <2>1, <2>2, <2>3, DelayLeft DEF CallMoves
  <2> QED BY <1>1, <1>4, <2>4, CallIInv
<1> QED BY <1>9, <1>10, <1>11, <1>12, <1>13 DEF CallStep
TimerThreadState == [pc : {"next", "decide", "delay", "read", "scan", "call", "restart"},
                     stat : {"READY", "SUSPEND"}, ticks : Tick,
                     n : Soft \cup {NoTimer}, t : Soft \cup {NoTimer}]

\* A step of the timer thread that serves no timer and touches, of the lists,
\* its own thread timer at most.
LEMMA ThreadIInv ==
    ASSUME IInv, isr = Idling, UNCHANGED <<tick, set, exist, isr, call, stopped>>,
           tt' \in TimerThreadState, tt'.t = tt.t,
           tt'.pc \in {"call", "restart"} <=> tt.pc \in {"call", "restart"},
           tt'.pc # "call" => call[TimerThread] = Idling,
           TicksRead', ListsAt(w', tick), Others(w, w', {Delay}),
           w'.activated[Delay] <=> Listed(w', Delay)
    PROVE  IInv'
<1>1. /\ VarsTyped /\ ListsAt(w, tick) /\ CallsApart /\ StartsApart /\ Serving /\ TicksRead
      /\ Armed /\ StoppedHard /\ DelayArmed
  BY DEF IInv
<1>2. /\ Delay \in Timer /\ Delay \in Hard /\ Delay \notin exist /\ NoTimer \notin Timer
      /\ exist \subseteq Timer /\ \A d \in Caller : call[d].t # Delay
  BY <1>1, DelayApart
<1>3. isr.t = NoTimer
  BY DEF Idling
<1>4. VarsTyped'
  BY <1>1 DEF VarsTyped, TimerThreadState
<1>5. CallsApart' /\ Serving'
  BY <1>1 DEF CallsApart, Serving
<1>6. \A c \in Caller : call[c].pc # "none" => call[c].t \in Timer \ {Delay}
  BY <1>1, <1>2 DEF CallsApart
<1>7. StartsApart'
  BY <1>1, <1>6 DEF StartsApart, OnClock, Others
<1>8. Armed'
  BY <1>1, <1>2, <1>3 DEF Armed, Others
<1>9. StoppedHard'
  <2>1. Delay \notin stopped
    BY <1>1, <1>2 DEF VarsTyped
  <2>2. \A u \in Hard : u \in stopped => u \in Timer \ {Delay}
    BY <2>1 DEF Timer
  <2> QED BY <1>1, <1>6, <2>2 DEF StoppedHard, Others
<1>10. DelayArmed'
  BY <1>2, <1>3 DEF DelayArmed
<1>11. ListsAt(w, tick)'
  OBVIOUS
<1> QED BY <1>4, <1>5, <1>7, <1>8, <1>9, <1>10, <1>11 DEF IInv

\* The thread timer runs exactly while it is in its list or is being served.
LEMMA DelayIs ==
    ASSUME IInv, isr = Idling
    PROVE  w.activated[Delay] <=> Listed(w, Delay)
<1>1. VarsTyped /\ CallsApart /\ Armed /\ DelayArmed
  BY DEF IInv
<1>2. /\ Delay \in Timer /\ Delay \in Hard /\ NoTimer \notin Timer
      /\ \A d \in Caller : call[d].t # Delay
  BY <1>1, DelayApart
<1>3. tt.t # Delay /\ isr.t # Delay
  BY <1>1, <1>2, TimerAssumption DEF VarsTyped, Idling
<1> QED BY <1>1, <1>2, <1>3 DEF Armed, DelayArmed

\* Finding the next timeout, reading the tick, and the return of a function.
LEMMA LooksIInv ==
    ASSUME IInv, NextTimeout \/ TimeToWait \/ ReadTick \/ SoftReturns
    PROVE  IInv'
<1>1. /\ VarsTyped /\ ListsAt(w, tick) /\ CallsApart /\ Serving /\ TicksRead
  BY DEF IInv
<1>2. isr = Idling /\ UNCHANGED <<tick, w, set, exist, isr, call, stopped>>
  BY DEF NextTimeout, TimeToWait, ReadTick, SoftReturns, TimerThreadAt
<1>3. tt \in TimerThreadState /\ tick \in Tick
  BY <1>1 DEF VarsTyped, TimerThreadState
<1>4. ListsAt(w', tick) /\ Others(w, w', {Delay}) /\ (w'.activated[Delay] <=> Listed(w', Delay))
  BY <1>1, <1>2, DelayIs DEF Others
<1>5. CASE NextTimeout
  <2> DEFINE s == w.list["soft"]
             m == IF s = << >> THEN RT_TICK_MAX ELSE w.timeout_tick[Head(s)]
  <2>1. tt.pc = "next" /\ tt' = [tt EXCEPT !.pc = "decide", !.ticks = m]
    BY <1>5 DEF NextTimeout, TimerThreadAt
  <2>2. m \in Tick /\ (m # RT_TICK_MAX => \E d \in -MaxLag .. Longest : m = Plus(tick, d))
    <3>1. CASE s = << >>
      BY <3>1, Width DEF Tick
    <3>2. CASE s # << >>
      <4>1. w \in TimerState /\ s \in Seq(Timer) /\ ToSet(s) \subseteq Soft
        BY <1>1 DEF ListsAt, ListsOK, TimerState
      <4>2. Head(s) \in Timer /\ Head(s) \in ToSet(s)
        BY <3>2, <4>1, ListHead
      <4>3. Listed(w, Head(s))
        BY <4>1, <4>2, ListOfIs DEF Listed
      <4>4. OnClock(w, tick, Head(s))
        BY <1>1, <4>2, <4>3 DEF ListsAt
      <4>5. w.timeout_tick[Head(s)] \in Tick
        BY <4>1, <4>2 DEF TimerState
      <4> QED BY <3>2, <4>4, <4>5 DEF OnClock
    <3> QED BY <3>1, <3>2
  <2> HIDE DEF m
  <2>3. /\ tt' \in TimerThreadState /\ tt'.t = tt.t /\ tt'.pc = "decide" /\ tt'.ticks = m
    BY <1>3, <2>1, <2>2 DEF TimerThreadState
  <2>4. TicksRead'
    BY <1>2, <2>2, <2>3 DEF TicksRead
  <2>5. call[TimerThread] = Idling
    BY <1>1, <2>1 DEF CallsApart
  <2> QED BY <1>2, <1>4, <2>1, <2>3, <2>4, <2>5, ThreadIInv
<1>6. CASE TimeToWait
  <2> DEFINE delta == Minus(tt.ticks, tick)
  <2>1. /\ tt.pc = "decide" /\ tt.ticks # RT_TICK_MAX
        /\ tt' = IF delta < Half THEN [tt EXCEPT !.pc = "delay", !.ticks = delta]
                                 ELSE [tt EXCEPT !.pc = "read", !.ticks = 0]
    BY <1>6 DEF TimeToWait, TimerThreadAt
  <2>2. delta < Half => delta \in 0 .. Longest
    <3>1. PICK d \in -MaxLag .. Longest : tt.ticks = Plus(tick, d)
      BY <1>1, <2>1 DEF TicksRead
    <3>2. /\ d \in -Half .. Half /\ 0 \in -Half .. Half /\ 0 - d < Half /\ d - 0 < Half
          /\ d \in Int /\ Half \in Nat /\ Longest \in Nat /\ d <= Longest
      BY Width
    <3>3. PICK q : q = Minus(Plus(tick, d), Plus(tick, 0))
      OBVIOUS
    <3>4. q \in Int /\ (d >= 0 => q = d - 0) /\ (d < 0 => q > Half)
      BY <1>3, <3>2, <3>3, MinusIs
    <3>5. q < Half => q \in 0 .. Longest
      BY ONLY <3>2, <3>4
    <3>6. q = delta
      BY <1>3, <3>1, <3>3, PlusZero
    <3> QED BY <3>5, <3>6
  <2> HIDE DEF delta
  <2>3. 0 \in Tick /\ (delta < Half => delta \in Tick)
    BY <2>2, Width DEF Tick
  <2>4. /\ tt' \in TimerThreadState /\ tt'.t = tt.t /\ tt'.pc \in {"delay", "read"}
        /\ tt'.pc = "delay" => tt'.ticks \in 0 .. Longest
    <3>1. CASE delta < Half
      BY <1>3, <2>1, <2>2, <2>3, <3>1 DEF TimerThreadState
    <3>2. CASE ~(delta < Half)
      BY <1>3, <2>1, <2>3, <3>2 DEF TimerThreadState
    <3> QED BY <3>1, <3>2
  <2>5. TicksRead'
    BY <1>2, <2>4 DEF TicksRead
  <2>6. call[TimerThread] = Idling
    BY <1>1, <2>1 DEF CallsApart
  <2> QED BY <1>2, <1>4, <2>1, <2>4, <2>5, <2>6, ThreadIInv
<1>7. ASSUME NEW p \in {"scan", "restart"}, tt' = [tt EXCEPT !.pc = p, !.ticks = tick],
             call[TimerThread] = Idling, p = "restart" <=> tt.pc \in {"call", "restart"}
      PROVE  IInv'
  <2>1. tt' \in TimerThreadState /\ tt'.t = tt.t /\ tt'.pc = p /\ tt'.ticks = tick
    BY <1>3, <1>7 DEF TimerThreadState
  <2>2. tick = Plus(tick, 0) /\ 0 \in -MaxLag .. 0
    BY <1>3, PlusZero, Width
  <2>3. TicksRead'
    BY <1>2, <2>1, <2>2, <1>7 DEF TicksRead
  <2>4. tt'.pc \in {"call", "restart"} <=> tt.pc \in {"call", "restart"}
    BY <1>7, <2>1
  <2> QED BY <1>2, <1>4, <1>7, <2>1, <2>3, <2>4, ThreadIInv
<1>8. CASE ReadTick
  <2>1. tt.pc = "read" /\ tt' = [tt EXCEPT !.pc = "scan", !.ticks = tick]
    BY <1>8 DEF ReadTick, TimerThreadAt
  <2>2. call[TimerThread] = Idling
    BY <1>1, <2>1 DEF CallsApart
  <2> QED BY <1>7, <2>1, <2>2
<1>9. CASE SoftReturns
  <2>1. tt.pc = "call" /\ tt' = [tt EXCEPT !.pc = "restart", !.ticks = tick]
        /\ call[TimerThread] = Idling
    BY <1>9 DEF SoftReturns, TimerThreadAt
  <2> QED BY <1>7, <2>1
<1> QED BY <1>5, <1>6, <1>8, <1>9

\* The timer thread suspends itself, with and without its thread timer.
LEMMA SuspendIInv ==
    ASSUME IInv, SuspendSelf \/ rt_thread_delay
    PROVE  IInv'
<1>1. /\ VarsTyped /\ ListsAt(w, tick) /\ CallsApart /\ Serving /\ TicksRead
  BY DEF IInv
<1>2. /\ isr = Idling /\ UNCHANGED <<tick, set, exist, isr, call, stopped>>
      /\ tt' = [tt EXCEPT !.pc = "read", !.ticks = 0, !.stat = "SUSPEND"]
      /\ tt.pc \in {"decide", "delay"}
  BY DEF SuspendSelf, rt_thread_delay, TimerThreadAt
<1>3. Delay \in Timer /\ tick \in Tick /\ 0 \in Tick /\ tt \in TimerThreadState
  BY <1>1, DelayApart, Width DEF VarsTyped, TimerThreadState, Tick
<1>4. /\ tt' \in TimerThreadState /\ tt'.t = tt.t /\ tt'.pc = "read"
  BY <1>2, <1>3 DEF TimerThreadState
<1>5. TicksRead' /\ call[TimerThread] = Idling
  BY <1>1, <1>2, <1>4 DEF TicksRead, CallsApart
<1>6. PICK x : x = StopNow(w, Delay)
  OBVIOUS
<1>7. /\ ListsAt(x, tick) /\ Others(w, x, {Delay}) /\ ~x.activated[Delay] /\ ~Listed(x, Delay)
  <2>1. /\ ListsAt(x, tick) /\ Others(w, x, {Delay}) /\ ~x.activated[Delay]
        /\ w.activated[Delay] => ~Listed(x, Delay)
        /\ ~w.activated[Delay] => x = w
    BY <1>1, <1>3, <1>6, Stopped
  <2> QED BY <1>2, <2>1, DelayIs
<1>8. CASE SuspendSelf
  <2>1. w' = x
    BY <1>6, <1>8 DEF SuspendSelf
  <2> QED BY <1>2, <1>4, <1>5, <1>7, <2>1, ThreadIInv
<1>9. CASE rt_thread_delay
  <2>1. tt.pc = "delay"
    BY <1>9 DEF rt_thread_delay, TimerThreadAt
  <2>2. PICK d \in 0 .. Longest : d = tt.ticks
    BY <1>1, <2>1 DEF TicksRead
  <2>3. PICK z : z = GiveTime(x, Delay, tick, d)
    OBVIOUS
  <2>4. w' = Insert(z, Delay)
    BY <1>6, <1>9, <2>2, <2>3 DEF rt_thread_delay, GiveTime
  <2>5. ListsAt(z, tick) /\ ~Listed(z, Delay) /\ OnClock(z, tick, Delay) /\ Others(x, z, {Delay})
    BY ONLY <1>3, <1>7, <2>3, d \in 0 .. Longest, Dated
  <2>6. ListsAt(w', tick) /\ Listed(w', Delay) /\ w'.activated[Delay] /\ Others(z, w', {Delay})
    BY ONLY <1>3, <2>4, <2>5, Inserted
  <2>7. Others(w, w', {Delay})
    BY <1>7, <2>5, <2>6 DEF Others
  <2> QED BY <1>2, <1>4, <1>5, <2>6, <2>7, ThreadIInv
<1> QED BY <1>8, <1>9
\* The dead tick of a timer is dropped.
Zero(x, t) == [x EXCEPT !.timeout_tick[t] = 0]

\* That changes nothing for the lists if the timer is in none.
LEMMA Zeroed ==
    ASSUME NEW now, NEW x, ListsAt(x, now), NEW t \in Timer, ~Listed(x, t), NEW y, y = Zero(x, t)
    PROVE  /\ ListsAt(y, now) /\ Others(x, y, {t}) /\ y.activated = x.activated
           /\ ~Listed(y, t)
<1>1. x \in TimerState /\ ListsOK(x) /\ 0 \in Tick
  BY Width DEF ListsAt, ListsOK, Tick
<1>2. x.timeout_tick \in [Timer -> Tick]
  BY <1>1, Fields
<1>3. [x.timeout_tick EXCEPT ![t] = 0] \in [Timer -> Tick]
  BY <1>1, <1>2
<1>4. y = [x EXCEPT !.timeout_tick = [x.timeout_tick EXCEPT ![t] = 0]]
  BY DEF Zero
<1>5. /\ y \in TimerState /\ y.list = x.list /\ y.due = x.due /\ y.activated = x.activated
      /\ y.timeout_tick = [x.timeout_tick EXCEPT ![t] = 0]
  BY <1>1, <1>3, <1>4 DEF TimerState
<1>6. ListsOK(y) /\ \A u \in Timer : Listed(y, u) <=> Listed(x, u)
  BY <1>1, <1>5, ListsKept
<1>7. \A u \in Timer \ {t} : y.timeout_tick[u] = x.timeout_tick[u]
  BY <1>2, <1>5
<1>8. \A u \in Timer : Listed(y, u) => OnClock(y, now, u)
  BY <1>5, <1>6, <1>7 DEF ListsAt, OnClock
<1> QED BY <1>5, <1>6, <1>7, <1>8 DEF ListsAt, Others

\* What the timer thread may have done to the lists before it serves the next
\* timer: only timers that are running have moved.
Settled(x) ==
    /\ ListsAt(x, tick)
    /\ \A u \in Timer : x.activated[u] => w.activated[u]
    /\ \A u \in Timer : ~w.activated[u] =>
          /\ Listed(x, u) <=> Listed(w, u)
          /\ x.due[u] = w.due[u] /\ x.timeout_tick[u] = w.timeout_tick[u]
    /\ \A u \in Timer : x.activated[u] =>
          Listed(x, u) \/ \E c \in Caller : call[c].t = u /\ call[c].pc = "clear"
    /\ \A u \in Hard : (Listed(x, u) <=> Listed(w, u)) /\ (x.activated[u] <=> w.activated[u])

\* One round of the loop of rt_soft_timer_check keeps the invariant.
LEMMA ServeIInv ==
    ASSUME IInv, isr = Idling, tt.pc \in {"scan", "restart"},
           UNCHANGED <<tick, set, exist, isr, call, stopped>>,
           NEW x, Settled(x), NEW n \in Soft \cup {NoTimer}, Serve(x, n)
    PROVE  IInv'
<1>1. /\ VarsTyped /\ ListsAt(w, tick) /\ CallsApart /\ StartsApart /\ Serving /\ TicksRead
      /\ Armed /\ StoppedHard /\ DelayArmed
  BY DEF IInv
<1>2. /\ Delay \in Timer /\ Delay \in Hard /\ Delay \notin exist /\ NoTimer \notin Timer
      /\ exist \subseteq Timer /\ \A d \in Caller : call[d].t # Delay
  BY <1>1, DelayApart
<1>3. isr.t = NoTimer /\ call[TimerThread] = Idling /\ 0 \in Tick /\ tt \in TimerThreadState
  BY <1>1, Width DEF Idling, CallsApart, Tick, VarsTyped, TimerThreadState
<1>4. \A c \in Caller : call[c].pc # "none" => call[c].t \in Timer
  BY <1>1, <1>2 DEF CallsApart
<1>5. \A c \in Caller :
         /\ call[c].pc \in {"timeout", "insert"} =>
               ~x.activated[call[c].t] /\ ~Listed(x, call[c].t)
         /\ call[c].pc = "insert" => OnClock(x, tick, call[c].t)
  BY <1>1, <1>4 DEF StartsApart, Settled, OnClock
<1>6. ASSUME tt' \in TimerThreadState,
             \/ tt'.pc = "call" /\ tt'.t \in Soft
             \/ tt'.pc = "next" /\ tt'.t = NoTimer,
             ListsAt(w', tick),
             \A u \in Timer : w'.activated[u] <=> x.activated[u],
             \A u \in Hard : Listed(w', u) <=> Listed(x, u),
             \A u \in Timer : x.activated[u] /\ Listed(x, u) => Listed(w', u) \/ tt'.t = u,
             \A u \in Timer : Listed(w', u) => Listed(x, u),
             \A c \in Caller : call[c].pc = "insert" => OnClock(w', tick, call[c].t)
      PROVE  IInv'
  <2>1. VarsTyped'
    BY <1>1, <1>6 DEF VarsTyped, TimerThreadState
  <2>2. CallsApart' /\ TicksRead'
    BY <1>1, <1>3, <1>6 DEF CallsApart, TicksRead
  <2>3. Serving'
    BY <1>1, <1>2, <1>6 DEF Serving, Timer
  <2>4. StartsApart'
    BY <1>4, <1>5, <1>6 DEF StartsApart
  <2>5. Armed'
    BY <1>6 DEF Settled, Armed
  <2>6. StoppedHard'
    BY <1>1, <1>6 DEF Settled, StoppedHard, Timer
  <2>7. DelayArmed'
    BY <1>1, <1>2, <1>6 DEF Settled, DelayArmed
  <2>8. ListsAt(w, tick)'
    BY <1>6
  <2> QED BY <2>1, <2>2, <2>3, <2>4, <2>5, <2>6, <2>7, <2>8 DEF IInv
<1>7. ListsAt(x, tick) /\ ListsOK(x)
  BY DEF Settled, ListsAt
<1>8. CASE n # NoTimer /\ Expired(x, tt.ticks, n)
  <2>1. /\ tt' = [tt EXCEPT !.pc = "call", !.ticks = 0, !.t = n, !.n = NextNode(x, n)]
        /\ w' = IF Listed(x, n)
                  THEN [x EXCEPT !.list["soft"] = RemoveFirst(@, n),
                                 !.due[n] = 0, !.timeout_tick[n] = 0]
                  ELSE x
    BY <1>8 DEF Serve
  <2>2. n \in Soft /\ n \in Timer /\ ListOf(n) = "soft" /\ n \notin Hard
    BY <1>8, ListOfIs, TimerAssumption DEF Timer
  <2>3. NextNode(x, n) \in Soft \cup {NoTimer}
    BY <1>7, <2>2, NextIs
  <2>4. tt' \in TimerThreadState /\ tt'.pc = "call" /\ tt'.t = n
    BY <1>3, <2>1, <2>2, <2>3 DEF TimerThreadState
  <2>5. CASE Listed(x, n)
    <3>1. w' = Drop(x, n, 0)
      BY <2>1, <2>2, <2>5 DEF Drop
    <3>2. ListsAt(w', tick) /\ ~Listed(w', n) /\ Others(x, w', {n}) /\ w'.activated = x.activated
      BY ONLY <1>3, <1>7, <2>2, <3>1, Dropped
    <3>3. \A c \in Caller : call[c].pc = "insert" => call[c].t \in Timer \ {n}
      BY <1>4, <1>5, <2>5
    <3>4. \A c \in Caller : call[c].pc = "insert" => OnClock(w', tick, call[c].t)
      BY <1>5, <3>2, <3>3 DEF Others, OnClock
    <3>5. \A u \in Hard : Listed(w', u) <=> Listed(x, u)
      BY <2>2, <3>2 DEF Others, Timer
    <3>6. /\ \A u \in Timer : x.activated[u] /\ Listed(x, u) => Listed(w', u) \/ tt'.t = u
          /\ \A u \in Timer : Listed(w', u) => Listed(x, u)
      BY <2>4, <3>2 DEF Others
    <3>7. \A u \in Timer : w'.activated[u] <=> x.activated[u]
      BY <3>2
    <3> QED BY <1>6, <2>2, <2>4, <3>2, <3>4, <3>5, <3>6, <3>7
  <2>6. CASE ~Listed(x, n)
    <3>1. w' = x
      BY <2>1, <2>6
    <3> QED BY <1>5, <1>6, <1>7, <2>2, <2>4, <3>1
  <2> QED BY <2>5, <2>6
<1>9. CASE ~(n # NoTimer /\ Expired(x, tt.ticks, n))
  <2>1. /\ tt' = AtStart
        /\ w' = IF n # NoTimer /\ ~Listed(x, n) /\ call[Client] # [pc |-> "insert", t |-> n]
                  THEN Zero(x, n) ELSE x
    BY <1>9 DEF Serve, Zero
  <2>2. tt' \in TimerThreadState /\ tt'.pc = "next" /\ tt'.t = NoTimer
    BY <1>3, <2>1 DEF AtStart, TimerThreadState
  <2>3. CASE n # NoTimer /\ ~Listed(x, n) /\ call[Client] # [pc |-> "insert", t |-> n]
    <3>1. w' = Zero(x, n) /\ n \in Timer
      BY <2>1, <2>3 DEF Timer
    <3>2. ListsAt(w', tick) /\ Others(x, w', {n}) /\ w'.activated = x.activated /\ ~Listed(w', n)
      BY ONLY <1>7, <2>3, <3>1, Zeroed
    <3>3. \A c \in Caller : call[c].pc = "insert" => call[c].t \in Timer \ {n}
      <4> SUFFICES ASSUME NEW c \in Caller, call[c].pc = "insert" PROVE call[c].t # n
        BY <1>4
      <4>1. c = Client
        BY <1>3 DEF Caller, Idling
      <4>2. call[c].t = n => call[c] = [pc |-> "insert", t |-> n]
        BY <1>1 DEF VarsTyped
      <4> QED BY <2>3, <4>1, <4>2
    <3>4. \A c \in Caller : call[c].pc = "insert" => OnClock(w', tick, call[c].t)
      BY <1>5, <3>2, <3>3 DEF Others, OnClock
    <3>5. \A u \in Timer : Listed(w', u) <=> Listed(x, u)
      BY <2>3, <3>2 DEF Others
    <3>6. \A u \in Timer : w'.activated[u] <=> x.activated[u]
      BY <3>2
    <3> QED BY <1>6, <2>2, <3>2, <3>4, <3>5, <3>6 DEF Timer
  <2>4. CASE ~(n # NoTimer /\ ~Listed(x, n) /\ call[Client] # [pc |-> "insert", t |-> n])
    <3>1. w' = x
      BY <2>1, <2>4
    <3> QED BY <1>5, <1>6, <1>7, <2>2, <3>1
  <2> QED BY <2>3, <2>4
<1> QED BY <1>8, <1>9

\* In the first round nothing has moved.
LEMMA SettledFirst ==
    ASSUME IInv, isr = Idling, tt.pc = "scan"
    PROVE  Settled(w) /\ FirstNode \in Soft \cup {NoTimer}
<1>1. ListsAt(w, tick) /\ Serving /\ Armed
  BY DEF IInv
<1>2. isr.t = NoTimer /\ tt.t = NoTimer /\ NoTimer \notin Timer
  BY <1>1, TimerAssumption DEF Serving, Idling
<1>3. Settled(w)
  BY <1>1, <1>2 DEF Armed, Settled, Timer
<1>4. w.list["soft"] \in Seq(Timer) /\ ToSet(w.list["soft"]) \subseteq Soft
  BY <1>1 DEF ListsAt, ListsOK, TimerState
<1>5. FirstNode \in Soft \cup {NoTimer}
  BY <1>4, ListHead DEF FirstNode
<1> QED BY <1>3, <1>5

\* After a function the timer it was called for has been restarted.
LEMMA SettledLater ==
    ASSUME IInv, isr = Idling, tt.pc = "restart"
    PROVE  /\ Settled(Restart(w, tt.t)) /\ tt.n \in Soft \cup {NoTimer}
           /\ tt.t \in Soft /\ set[tt.t] \in Option
<1>1. VarsTyped /\ ListsAt(w, tick) /\ Serving /\ Armed
  BY DEF IInv
<1>2. isr.t = NoTimer /\ tt.t # NoTimer /\ NoTimer \notin Timer
  BY <1>1, TimerAssumption DEF Serving, Idling
<1>3. PICK t : t = tt.t
  OBVIOUS
<1>4. t \in Soft /\ t \in Timer /\ t \notin Hard /\ tick \in Tick /\ set[t] \in Option
      /\ tt.n \in Soft \cup {NoTimer}
  BY <1>1, <1>2, <1>3, TimerAssumption DEF VarsTyped, Timer
<1>5. PICK x : x = Restart(w, t)
  OBVIOUS
<1>6. /\ ListsAt(x, tick) /\ Others(w, x, {t})
      /\ x.activated[t] => Listed(x, t) /\ w.activated[t]
      /\ \/ /\ w.activated[t] /\ x.activated[t] /\ x.due[t] = set[t].time
            /\ Listed(x, t) /\ x.timeout_tick[t] = Plus(tick, set[t].time)
         \/ /\ x.due[t] = w.due[t] /\ x.timeout_tick[t] = w.timeout_tick[t]
            /\ Listed(x, t) <=> Listed(w, t)
  BY ONLY <1>1, <1>4, <1>5, Restarted
<1>7. \A u \in Timer : x.activated[u] => w.activated[u]
  BY <1>6 DEF Others
<1>8. \A u \in Timer : ~w.activated[u] =>
         /\ Listed(x, u) <=> Listed(w, u)
         /\ x.due[u] = w.due[u] /\ x.timeout_tick[u] = w.timeout_tick[u]
  BY <1>6 DEF Others
<1>9. ASSUME NEW u \in Timer, x.activated[u]
      PROVE  Listed(x, u) \/ \E c \in Caller : call[c].t = u /\ call[c].pc = "clear"
  <2>1. CASE u = t
    BY <1>6, <1>9, <2>1
  <2>2. CASE u # t
    BY <1>1, <1>2, <1>3, <1>6, <1>9, <2>2 DEF Others, Armed
  <2> QED BY <2>1, <2>2
<1>10. \A u \in Hard : (Listed(x, u) <=> Listed(w, u)) /\ (x.activated[u] <=> w.activated[u])
  BY <1>4, <1>6 DEF Others, Timer
<1>11. Settled(x)
  BY <1>6, <1>7, <1>8, <1>9, <1>10 DEF Settled
<1> QED BY <1>3, <1>4, <1>5, <1>11

\* The loop of rt_soft_timer_check.
LEMMA SoftIInv ==
    ASSUME IInv, rt_soft_timer_check \/ SoftRestart
    PROVE  IInv'
<1>1. CASE rt_soft_timer_check
  <2>1. /\ isr = Idling /\ tt.pc = "scan" /\ Serve(w, FirstNode)
        /\ UNCHANGED <<tick, set, exist, isr, call, stopped>>
    BY <1>1 DEF rt_soft_timer_check, TimerThreadAt
  <2>2. Settled(w) /\ FirstNode \in Soft \cup {NoTimer}
    BY <2>1, SettledFirst
  <2> QED BY <2>1, <2>2, ServeIInv
<1>2. CASE SoftRestart
  <2>1. /\ isr = Idling /\ tt.pc = "restart" /\ Serve(Restart(w, tt.t), tt.n)
        /\ UNCHANGED <<tick, set, exist, isr, call, stopped>>
    BY <1>2 DEF SoftRestart, TimerThreadAt
  <2>2. Settled(Restart(w, tt.t)) /\ tt.n \in Soft \cup {NoTimer}
    BY <2>1, SettledLater
  <2> QED BY <2>1, <2>2, ServeIInv
<1> QED BY <1>1, <1>2
\* Every step keeps the invariant.
LEMMA NextIInv == IInv /\ [Next]_tvars => IInv'
<1> SUFFICES ASSUME IInv, [Next]_tvars PROVE IInv'
  OBVIOUS
<1>1. CASE UNCHANGED tvars
  <2>1. UNCHANGED <<tick, w, set, isr, call, tt, exist, stopped>>
    BY <1>1 DEF tvars
  <2>2. VarsTyped' /\ CallsApart' /\ Serving' /\ TicksRead'
    BY <2>1 DEF IInv, VarsTyped, CallsApart, Serving, TicksRead
  <2>3. ListsAt(w, tick)' /\ StartsApart'
    BY <2>1 DEF IInv, ListsAt, StartsApart, OnClock
  <2>4. Armed' /\ StoppedHard' /\ DelayArmed'
    BY <2>1 DEF IInv, Armed, StoppedHard, DelayArmed
  <2> QED BY <2>2, <2>3, <2>4 DEF IInv
<1>2. CASE rt_tick_increase
  BY <1>2, TickIInv
<1>3. CASE Interrupt
  <2>1. CASE rt_timer_check
    BY <2>1, CheckIInv
  <2>2. CASE ThreadTimeout
    <3>1. /\ isr.pc = "call" /\ w' = Restart(w, isr.t)
          /\ isr' = [pc |-> "check", t |-> NoTimer]
          /\ tt' = [tt EXCEPT !.stat = "READY"]
          /\ UNCHANGED <<tick, set, exist, call, stopped>>
      BY <2>2 DEF ThreadTimeout
    <3> QED BY <3>1, ReturnIInv
  <2>3. CASE FunctionReturns
    <3>1. /\ isr.pc = "call" /\ w' = Restart(w, isr.t)
          /\ isr' = [pc |-> "check", t |-> NoTimer]
          /\ tt' = tt
          /\ UNCHANGED <<tick, set, exist, call, stopped>>
      BY <2>3 DEF FunctionReturns, InFunction
    <3> QED BY <3>1, ReturnIInv
  <2>4. CASE \E t \in Timer : FunctionStarts(t) \/ FunctionStops(t)
    BY <2>4, FunctionIInv
  <2> QED BY <1>3, <2>1, <2>2, <2>3, <2>4 DEF Interrupt
<1>4. ASSUME NEW c \in Caller, Calls(c) \/ CallStep(c) PROVE IInv'
  <2>1. CASE Calls(c)
    BY <2>1, BeginIInv DEF Calls
  <2>2. CASE CallStep(c)
    BY <2>2, CallStepIInv
  <2> QED BY <1>4, <2>1, <2>2
<1>5. CASE TimerThreadStep
  BY <1>5, LooksIInv, SuspendIInv, SoftIInv DEF TimerThreadStep
<1> QED BY <1>1, <1>2, <1>3, <1>4, <1>5 DEF Next

\* The invariant holds at every moment.
LEMMA IInvAlways == Spec => []IInv
BY InitIInv, NextIInv, PTL DEF Spec

-----------------------------------------------------------------------------
(* The properties.                                                         *)

\* At every moment the lists hold each timer once, sorted by the time that is
\* really left although the ticks wrap around, and a timer that is reported as
\* running is in its list, being served, or about to be stopped.
THEOREM TimersAreConsistent == Spec => []TimersConsistent
BY IInvAlways, IInvConsistent, PTL

\* The only steps that call a function are the tests of the two lists.
LEMMA CallingSteps ==
    ASSUME IInv, [Next]_tvars, NEW t \in Timer, CallsFunction(t)
    PROVE  \/ /\ rt_timer_check /\ t = Head(w.list["hard"]) /\ w.list["hard"] # << >>
              /\ Expired(w, tick, t) /\ t \in Hard /\ Listed(w, t)
           \/ /\ rt_soft_timer_check \/ SoftRestart
              /\ t \in Soft /\ tt'.pc = "call" /\ tt'.t = t
<1>1. VarsTyped /\ Serving /\ ListsAt(w, tick) /\ tt \in TimerThreadState
  BY DEF IInv, VarsTyped, TimerThreadState
<1>2. CASE isr.pc = "check" /\ isr'.pc = "call" /\ isr'.t = t
  <2>1. isr # Idling /\ isr.pc # "call" /\ isr' # isr
    BY <1>2 DEF Idling
  <2>2. rt_timer_check
    <3>1. ~UNCHANGED tvars
      BY <2>1 DEF tvars
    <3>2. \A c \in Caller : ~(Calls(c) \/ CallStep(c))
      BY <2>1 DEF Calls, CallStep, rt_timer_start, rt_timer_stop, rt_timer_detach, rt_timer_control,
         StartTimeout, StartInsert, StartWake, StopRemove, StopClear, InCall, Begins, Runs
    <3>3. ~TimerThreadStep
      BY <2>1 DEF TimerThreadStep, NextTimeout, SuspendSelf, TimeToWait, rt_thread_delay, ReadTick,
         rt_soft_timer_check, SoftReturns, SoftRestart, TimerThreadAt
    <3>4. ~rt_tick_increase
      BY <2>1 DEF rt_tick_increase
    <3>5. ~(ThreadTimeout \/ FunctionReturns \/ \E u \in Timer : FunctionStarts(u) \/ FunctionStops(u))
      BY <2>1 DEF ThreadTimeout, FunctionReturns, FunctionStarts, FunctionStops, InFunction
    <3> QED BY <3>1, <3>2, <3>3, <3>4, <3>5 DEF Next, Interrupt
  <2> DEFINE s == w.list["hard"]
  <2>3. s # << >> /\ Expired(w, tick, Head(s)) /\ isr' = [pc |-> "call", t |-> Head(s)]
    <3>1. isr' # Idling
      BY <1>2 DEF Idling
    <3> QED BY <2>2, <3>1 DEF rt_timer_check
  <2>4. t = Head(s)
    BY <1>2, <2>3
  <2>5. s \in Seq(Timer) /\ ToSet(s) \subseteq Hard
    BY <1>1 DEF ListsAt, ListsOK, TimerState
  <2>6. Head(s) \in ToSet(s)
    BY <2>3, <2>5, ListHead
  <2>7. t \in Hard /\ Listed(w, t)
    BY <2>4, <2>5, <2>6, ListOfIs DEF Listed
  <2> QED BY <2>2, <2>3, <2>4, <2>7
<1>3. CASE tt.pc \in {"scan", "restart"} /\ tt'.pc = "call" /\ tt'.t = t
  <2>1. tt' # tt /\ tt' # [tt EXCEPT !.stat = "READY"]
    BY <1>1, <1>3 DEF TimerThreadState
  <2>2. ~UNCHANGED tvars /\ ~rt_tick_increase
    BY <2>1 DEF tvars, rt_tick_increase
  <2>3. ~Interrupt
    BY <2>1 DEF Interrupt, rt_timer_check, ThreadTimeout, FunctionReturns, FunctionStarts,
       FunctionStops, WakeFor, ResumeTimerThread
  <2>4. \A c \in Caller : ~(Calls(c) \/ CallStep(c))
    BY <2>1 DEF Calls, CallStep, rt_timer_start, rt_timer_stop, rt_timer_detach, rt_timer_control,
       StartTimeout, StartInsert, StartWake, StopRemove, StopClear, WakeFor, ResumeTimerThread
  <2>5. TimerThreadStep
    BY <2>2, <2>3, <2>4 DEF Next
  <2>6. rt_soft_timer_check \/ SoftRestart
    BY <1>3, <2>5 DEF TimerThreadStep, NextTimeout, SuspendSelf, TimeToWait, rt_thread_delay,
       ReadTick, SoftReturns, TimerThreadAt
  <2>7. tt' \in TimerThreadState
    <3>1. IInv'
      BY NextIInv
    <3> QED BY <3>1 DEF IInv, VarsTyped, TimerThreadState
  <2>8. t \in Soft
    BY <1>3, <2>7, TimerAssumption DEF TimerThreadState
  <2> QED BY <1>3, <2>6, <2>8
<1> QED BY <1>2, <1>3 DEF CallsFunction

\* A function that is called in a round of the loop of rt_soft_timer_check is
\* that of a timer whose time has passed.
LEMMA SoftOnTime ==
    ASSUME IInv, isr = Idling, tt.pc \in {"scan", "restart"}, NEW x, Settled(x),
           NEW n \in Soft \cup {NoTimer}, Serve(x, n), NEW t \in Soft, tt'.pc = "call", tt'.t = t
    PROVE  t = n /\ Expired(x, tt.ticks, t)
<1>1. tt \in TimerThreadState
  BY DEF IInv, VarsTyped, TimerThreadState
<1>2. tt' # AtStart
  BY DEF AtStart
<1>3. n # NoTimer /\ Expired(x, tt.ticks, n)
  BY <1>2 DEF Serve
<1>4. tt' = [tt EXCEPT !.pc = "call", !.ticks = 0, !.t = n, !.n = NextNode(x, n)]
  BY <1>3 DEF Serve
<1>5. tt'.t = n
  BY <1>1, <1>4 DEF TimerThreadState
<1> QED BY <1>3, <1>5

\* One step of NeverEarly.
LEMMA OnTime ==
    ASSUME IInv, [Next]_tvars, NEW t \in Timer, CallsFunction(t), Listed(w, t)
    PROVE  w.due[t] <= 0
<1>1. VarsTyped /\ ListsAt(w, tick) /\ TicksRead /\ tick \in Tick
  BY DEF IInv, VarsTyped
<1>2. OnClock(w, tick, t)
  BY <1>1 DEF ListsAt
<1>3. CASE rt_timer_check /\ Expired(w, tick, t)
  <2>1. 0 \in -MaxLag .. 0 /\ Plus(tick, 0) = tick
    BY <1>1, PlusZero, Width
  <2>2. Expired(w, Plus(tick, 0), t)
    BY <1>3, <2>1
  <2> QED BY ONLY <1>1, <1>2, <2>1, <2>2, ExpiredIs
<1>4. ASSUME rt_soft_timer_check \/ SoftRestart, t \in Soft, tt'.pc = "call", tt'.t = t
      PROVE  w.due[t] <= 0
  <2>1. isr = Idling /\ tt.pc \in {"scan", "restart"}
    BY <1>4 DEF rt_soft_timer_check, SoftRestart, TimerThreadAt
  <2>2. PICK k \in -MaxLag .. 0 : tt.ticks = Plus(tick, k)
    BY <1>1, <2>1 DEF TicksRead
  <2>3. CASE rt_soft_timer_check
    <3>1. tt.pc = "scan" /\ Serve(w, FirstNode)
      BY <2>3 DEF rt_soft_timer_check, TimerThreadAt
    <3>2. Settled(w) /\ FirstNode \in Soft \cup {NoTimer}
      BY <2>1, <3>1, SettledFirst
    <3>3. Expired(w, Plus(tick, k), t)
      BY <1>4, <2>1, <2>2, <3>1, <3>2, SoftOnTime
    <3>4. w.due[t] \in Int /\ w.due[t] <= k
      BY ONLY <1>1, <1>2, k \in -MaxLag .. 0, <3>3, ExpiredIs
    <3> QED BY <3>4, Width
  <2>4. CASE SoftRestart
    <3>1. tt.pc = "restart" /\ Serve(Restart(w, tt.t), tt.n)
      BY <2>4 DEF SoftRestart, TimerThreadAt
    <3>2. /\ Settled(Restart(w, tt.t)) /\ tt.n \in Soft \cup {NoTimer}
          /\ tt.t \in Soft /\ set[tt.t] \in Option
      BY <2>1, <3>1, SettledLater
    <3>3. PICK x : x = Restart(w, tt.t)
      OBVIOUS
    <3>4. PICK u : u = tt.t
      OBVIOUS
    <3>5. Expired(x, Plus(tick, k), t)
      BY <1>4, <2>1, <2>2, <3>1, <3>2, <3>3, SoftOnTime
    <3>6. u \in Timer /\ set[u] \in Option /\ x = Restart(w, u)
      BY <3>2, <3>3, <3>4 DEF Timer
    <3>7. /\ ListsAt(x, tick) /\ Others(w, x, {u})
          /\ x.activated[u] => Listed(x, u) /\ w.activated[u]
          /\ \/ /\ w.activated[u] /\ x.activated[u] /\ x.due[u] = set[u].time
                /\ Listed(x, u) /\ x.timeout_tick[u] = Plus(tick, set[u].time)
             \/ /\ x.due[u] = w.due[u] /\ x.timeout_tick[u] = w.timeout_tick[u]
                /\ Listed(x, u) <=> Listed(w, u)
      BY ONLY <1>1, <3>6, Restarted
    <3>8. Listed(x, t) /\ (x.due[t] = w.due[t] \/ x.due[t] \in 1 .. Longest)
      <4>1. CASE t = u
        BY <3>6, <3>7, <4>1 DEF Option
      <4>2. CASE t # u
        BY <3>7, <4>2 DEF Others
      <4> QED BY <4>1, <4>2
    <3>9. OnClock(x, tick, t)
      BY <3>7, <3>8 DEF ListsAt
    <3>10. x.due[t] \in Int /\ x.due[t] <= k
      BY ONLY <1>1, <3>9, k \in -MaxLag .. 0, <3>5, ExpiredIs
    <3>11. ~(x.due[t] \in 1 .. Longest)
      BY <3>10, Width
    <3> QED BY <3>8, <3>10, <3>11, Width
  <2> QED BY <1>4, <2>3, <2>4
<1> QED BY <1>3, <1>4, CallingSteps

\* No function of a timer in a list, hard or soft, is called before the timer's
\* time has passed: neither the wrap of the tick counter nor a tick that was
\* read some time ago makes rt_timer_check or rt_soft_timer_check call early.
THEOREM NoFunctionEarly == Spec => NeverEarly
<1>1. IInv /\ [Next]_tvars => [\A t \in Timer : CallsFunction(t) /\ Listed(w, t) => w.due[t] <= 0]_tvars
  BY OnTime
<1> QED BY <1>1, IInvAlways, PTL DEF Spec, NeverEarly

\* One step of TickServesAllDue.
LEMMA AllServed ==
    ASSUME IInv, [Next]_tvars, isr # Idling, isr' = Idling, NEW t \in Hard, Listed(w, t)
    PROVE  w.due[t] > 0
<1>1. VarsTyped /\ ListsAt(w, tick) /\ tick \in Tick
  BY DEF IInv, VarsTyped
<1>2. rt_timer_check
  <2>1. ~UNCHANGED tvars
    BY DEF tvars
  <2>2. \A c \in Caller : ~(Calls(c) \/ CallStep(c))
    BY DEF Calls, CallStep, rt_timer_start, rt_timer_stop, rt_timer_detach, rt_timer_control,
       StartTimeout, StartInsert, StartWake, StopRemove, StopClear, InCall, Begins, Runs
  <2>3. ~TimerThreadStep
    BY DEF TimerThreadStep, NextTimeout, SuspendSelf, TimeToWait, rt_thread_delay, ReadTick,
       rt_soft_timer_check, SoftReturns, SoftRestart, TimerThreadAt
  <2>4. ~rt_tick_increase
    BY DEF rt_tick_increase
  <2>5. isr'.pc = "none"
    BY DEF Idling
  <2>6. ~(ThreadTimeout \/ FunctionReturns \/ \E u \in Timer : FunctionStarts(u) \/ FunctionStops(u))
    BY <2>5 DEF ThreadTimeout, FunctionReturns, FunctionStarts, FunctionStops, InFunction
  <2> QED BY <2>1, <2>2, <2>3, <2>4, <2>6 DEF Next, Interrupt
<1> DEFINE s == w.list["hard"]
<1>3. s \in Seq(Timer) /\ SortedBy(s, w.due) /\ ToSet(s) \subseteq Hard /\ t \in ToSet(s)
  BY <1>1, ListOfIs DEF ListsAt, ListsOK, TimerState, Listed, Timer
<1>4. s # << >> /\ ~Expired(w, tick, Head(s))
  <2>1. s # << >>
    BY <1>3, ListEmpty
  <2>2. isr'.pc = "none"
    BY DEF Idling
  <2> QED BY <1>2, <2>1, <2>2 DEF rt_timer_check
<1>5. Head(s) \in Timer /\ Head(s) \in ToSet(s) /\ Head(s) = s[1]
  BY <1>3, <1>4, ListHead
<1>6. OnClock(w, tick, Head(s)) /\ OnClock(w, tick, t)
  <2>1. Listed(w, Head(s))
    BY <1>3, <1>5, ListOfIs DEF Listed
  <2> QED BY <1>1, <1>5, <2>1 DEF ListsAt, Timer
<1>7. w.due[Head(s)] \in Int /\ w.due[Head(s)] > 0
  <2>1. 0 \in -MaxLag .. 0 /\ Plus(tick, 0) = tick
    BY <1>1, PlusZero, Width
  <2>2. ~Expired(w, Plus(tick, 0), Head(s))
    BY <1>4, <2>1
  <2>3. PICK h : h = Head(s)
    OBVIOUS
  <2>4. w.due[h] \in Int /\ (w.due[h] <= 0 => Expired(w, Plus(tick, 0), h))
    BY <1>1, <1>6, <2>1, <2>3, ExpiredIs
  <2> QED BY <2>2, <2>3, <2>4
<1>8. PICK i \in 1 .. Len(s) : s[i] = t
  BY <1>3, ListIndex
<1>9. w.due[s[1]] <= w.due[t] /\ w.due[t] \in Int
  <2>1. 1 \in 1 .. Len(s) /\ (i = 1 \/ 1 < i)
    BY <1>3, <1>8
  <2>2. w.due[t] \in Int
    BY <1>6, Width DEF OnClock
  <2>3. CASE i = 1
    BY <1>8, <2>2, <2>3
  <2>4. CASE 1 < i
    BY <1>3, <1>8, <2>1, <2>2, <2>4 DEF SortedBy
  <2> QED BY <2>1, <2>2, <2>3, <2>4
<1> QED BY <1>5, <1>7, <1>9

\* rt_timer_check stops at the first timer that is not due, and then no hard
\* timer whose time has come is left: the list is sorted by the time that is
\* really left, whatever was started and stopped and however the ticks wrapped.
THEOREM TickLeavesNoneDue == Spec => TickServesAllDue
<1>1. IInv /\ [Next]_tvars => [isr # Idling /\ isr' = Idling =>
          \A t \in Hard : Listed(w, t) => w.due[t] > 0]_tvars
  BY AllServed
<1> QED BY <1>1, IInvAlways, PTL DEF Spec, TickServesAllDue

\* A hard timer that was stopped or detached, by a thread or by a function in
\* the interrupt, is not called until it is started again: no order of the steps
\* of rt_timer_stop and of the interrupt puts it back into its list.
THEOREM HardTimersStayStopped == Spec => HardStopHolds
<1>1. ASSUME IInv, [Next]_tvars, NEW t \in Hard, CallsFunction(t) PROVE t \notin stopped
  <2>1. t \in Timer /\ t \notin Soft
    BY TimerAssumption DEF Timer
  <2>2. Listed(w, t)
    BY <1>1, <2>1, CallingSteps
  <2> QED BY <1>1, <2>2 DEF IInv, StoppedHard
<1>2. IInv /\ [Next]_tvars => [\A t \in Hard : CallsFunction(t) => t \notin stopped]_tvars
  BY <1>1
<1> QED BY <1>2, IInvAlways, PTL DEF Spec, HardStopHolds
=============================================================================
