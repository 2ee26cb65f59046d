---------------------------- MODULE KernelProofs ----------------------------
(***************************************************************************)
(* What the operators of RtKernel preserve, proved once and cited by the   *)
(* proofs about the specifications that compose them.                      *)
(***************************************************************************)
EXTENDS RtKernel, SequenceTheorems, WellFoundedInduction, TLAPS

-----------------------------------------------------------------------------
(* Lists without duplicates.                                               *)

\* Members and distinctness of a list, by index.
LEMMA ListIndex ==
    ASSUME NEW S, NEW s \in Seq(S)
    PROVE  /\ \A x : x \in ToSet(s) <=> \E j \in 1..Len(s) : s[j] = x
           /\ IsInjective(s) <=> \A a, b \in 1..Len(s) : s[a] = s[b] => a = b
<1>1. DOMAIN s = 1..Len(s)
  BY LenProperties
<1> QED BY <1>1 DEF ToSet, IsInjective

\* rt_list_remove closes the gap: what was behind the node moves up by one.
LEMMA ListRemoveAt ==
    ASSUME NEW S, NEW s \in Seq(S), NEW i \in 1..Len(s)
    PROVE  /\ RemoveAt(s, i) \in Seq(S)
           /\ Len(RemoveAt(s, i)) = Len(s) - 1
           /\ \A j \in 1..Len(s)-1 : RemoveAt(s, i)[j] = IF j < i THEN s[j] ELSE s[j+1]
<1> DEFINE l == SubSeq(s, 1, i - 1)
           r == SubSeq(s, i + 1, Len(s))
<1>1. /\ l \in Seq(S) /\ Len(l) = i - 1
      /\ \A j \in 1..i-1 : l[j] = s[j]
  <2>1. \A j \in 1..i-1 : s[j] \in S
    OBVIOUS
  <2> QED BY <2>1, SubSeqProperties
<1>2. /\ r \in Seq(S) /\ Len(r) = Len(s) - i
      /\ \A j \in 1..Len(s)-i : r[j] = s[i+j]
  <2>1. \A j \in i+1..Len(s) : s[j] \in S
    OBVIOUS
  <2>2. /\ r \in Seq(S)
        /\ Len(r) = IF i + 1 <= Len(s) THEN Len(s) - (i + 1) + 1 ELSE 0
        /\ \A j \in 1..Len(s)-(i+1)+1 : r[j] = s[(i+1)+j-1]
    BY <2>1, SubSeqProperties
  <2>3. \A j \in 1..Len(s)-i : (i+1)+j-1 = i+j
    OBVIOUS
  <2> QED BY <2>2, <2>3
<1> HIDE DEF l, r
<1>3. /\ l \o r \in Seq(S)
      /\ Len(l \o r) = Len(s) - 1
      /\ \A j \in 1..Len(s)-1 : (l \o r)[j] = IF j <= i - 1 THEN l[j] ELSE r[j-(i-1)]
  <2>1. /\ l \o r \in Seq(S)
        /\ Len(l \o r) = Len(l) + Len(r)
        /\ \A j \in 1..Len(l)+Len(r) : (l \o r)[j] =
               IF j <= Len(l) THEN l[j] ELSE r[j-Len(l)]
    BY <1>1, <1>2, ConcatProperties
  <2>2. Len(l) = i - 1 /\ Len(r) = Len(s) - i /\ Len(l) + Len(r) = Len(s) - 1
    BY <1>1, <1>2
  <2> QED BY <2>1, <2>2
<1>4. \A j \in 1..Len(s)-1 : (l \o r)[j] = IF j < i THEN s[j] ELSE s[j+1]
  <2> SUFFICES ASSUME NEW j \in 1..Len(s)-1
               PROVE  (l \o r)[j] = IF j < i THEN s[j] ELSE s[j+1]
    OBVIOUS
  <2>1. CASE j < i
    BY <2>1, <1>1, <1>3
  <2>2. CASE ~(j < i)
    <3>1. j-(i-1) \in 1..Len(s)-i /\ i+(j-(i-1)) = j+1 /\ ~(j <= i-1)
      BY <2>2
    <3> QED BY <3>1, <1>2, <1>3, <2>2
  <2> QED BY <2>1, <2>2
<1> QED BY <1>3, <1>4 DEF RemoveAt, l, r

\* Taking a thread off a list.
LEMMA ListRemove ==
    ASSUME NEW S, NEW s \in Seq(S), NEW e, IsInjective(s)
    PROVE  /\ RemoveFirst(s, e) \in Seq(S)
           /\ ToSet(RemoveFirst(s, e)) = ToSet(s) \ {e}
           /\ IsInjective(RemoveFirst(s, e))
           /\ e \notin ToSet(s) => RemoveFirst(s, e) = s
           /\ \A i \in 1..Len(s) : s[i] = e => RemoveFirst(s, e) = RemoveAt(s, i)
<1>1. CASE ~ \E i \in 1..Len(s) : s[i] = e
  BY <1>1 DEF RemoveFirst, ToSet
<1>2. CASE \E i \in 1..Len(s) : s[i] = e
  <2>1. PICK i \in 1..Len(s) : s[i] = e
    BY <1>2
  <2>2. SelectInSeq(s, LAMBDA v : v = e) = i
    <3>1. {j \in 1..Len(s) : s[j] = e} = {i}
      BY <2>1 DEF IsInjective
    <3>2. Min({i}) = i
      BY DEF Min
    <3> QED BY <3>1, <3>2 DEF SelectInSeq
  <2>3. RemoveFirst(s, e) = RemoveAt(s, i)
    BY <1>2, <2>2 DEF RemoveFirst
  <2>4. /\ RemoveAt(s, i) \in Seq(S)
        /\ Len(RemoveAt(s, i)) = Len(s) - 1
        /\ \A j \in 1..Len(s)-1 : RemoveAt(s, i)[j] = IF j < i THEN s[j] ELSE s[j+1]
    BY ListRemoveAt
  <2>5. ToSet(RemoveAt(s, i)) = ToSet(s) \ {e}
    <3>1. \A j \in 1..Len(s)-1 : RemoveAt(s, i)[j] \in ToSet(s) \ {e}
      BY <2>1, <2>4, SMTT(30) DEF ToSet, IsInjective
    <3>2. \A x \in ToSet(s) \ {e} : \E j \in 1..Len(s)-1 : RemoveAt(s, i)[j] = x
      <4> SUFFICES ASSUME NEW n \in 1..Len(s), s[n] # e
                   PROVE  \E j \in 1..Len(s)-1 : RemoveAt(s, i)[j] = s[n]
        BY DEF ToSet
      <4>1. CASE n < i
        BY <4>1, <2>4
      <4>2. CASE n > i
        <5>1. n - 1 \in 1..Len(s)-1 /\ ~(n - 1 < i) /\ (n - 1) + 1 = n
          BY <4>2
        <5> QED BY <5>1, <2>4
      <4> QED BY <4>1, <4>2, <2>1
    <3>3. \A x : x \in ToSet(RemoveAt(s, i)) <=>
                 \E j \in 1..Len(s)-1 : RemoveAt(s, i)[j] = x
      BY <2>4, ListIndex
    <3> QED BY <3>1, <3>2, <3>3
  <2>6. IsInjective(RemoveAt(s, i))
    <3>1. \A m, n \in 1..Len(s) : s[m] = s[n] => m = n
      BY ListIndex
    <3>2. \A m, n \in 1..Len(s)-1 : RemoveAt(s, i)[m] = RemoveAt(s, i)[n] => m = n
      BY <3>1, <2>4
    <3> QED BY <3>2, <2>4, ListIndex
  <2>7. e \in ToSet(s)
    BY <2>1 DEF ToSet
  <2>8. \A n \in 1..Len(s) : s[n] = e => n = i
    BY <2>1, ListIndex
  <2> QED BY <2>3, <2>4, <2>5, <2>6, <2>7, <2>8
<1> QED BY <1>1, <1>2

\* Appending a thread to a list that does not hold it.
LEMMA ListAppend ==
    ASSUME NEW S, NEW s \in Seq(S), NEW e \in S
    PROVE  /\ Append(s, e) \in Seq(S)
           /\ Append(s, e) # << >>
           /\ ToSet(Append(s, e)) = ToSet(s) \cup {e}
           /\ IsInjective(s) /\ e \notin ToSet(s) => IsInjective(Append(s, e))
<1>1. /\ Append(s, e) \in Seq(S)
      /\ Len(Append(s, e)) = Len(s) + 1
      /\ \A j \in 1..Len(s) + 1 : Append(s, e)[j] = IF j <= Len(s) THEN s[j] ELSE e
  OBVIOUS
<1>2. ToSet(Append(s, e)) = ToSet(s) \cup {e}
  BY <1>1 DEF ToSet
<1>3. IsInjective(s) /\ e \notin ToSet(s) => IsInjective(Append(s, e))
  BY <1>1 DEF ToSet, IsInjective
<1> QED BY <1>1, <1>2, <1>3

\* Linking at the front of a list.
LEMMA ListPrepend ==
    ASSUME NEW S, NEW s \in Seq(S), NEW e \in S
    PROVE  /\ <<e>> \o s \in Seq(S)
           /\ <<e>> \o s # << >>
           /\ Len(<<e>> \o s) = Len(s) + 1
           /\ \A j \in 1 .. Len(s) + 1 : (<<e>> \o s)[j] = IF j = 1 THEN e ELSE s[j - 1]
           /\ ToSet(<<e>> \o s) = ToSet(s) \cup {e}
           /\ IsInjective(s) /\ e \notin ToSet(s) => IsInjective(<<e>> \o s)
<1> DEFINE r == <<e>> \o s
<1>1. /\ r \in Seq(S) /\ Len(r) = Len(s) + 1 /\ Len(s) \in Nat
      /\ \A j \in 1 .. Len(s) + 1 : r[j] = IF j = 1 THEN e ELSE s[j - 1]
  OBVIOUS
<1>2. r # << >>
  BY <1>1
<1> HIDE DEF r
<1>3. \A x : x \in ToSet(r) <=> x = e \/ x \in ToSet(s)
  <2> TAKE x
  <2>1. x \in ToSet(r) <=> \E j \in 1 .. Len(r) : r[j] = x
    BY <1>1, ListIndex
  <2>2. x \in ToSet(s) <=> \E j \in 1 .. Len(s) : s[j] = x
    BY ListIndex
  <2>3. x = e => \E j \in 1 .. Len(r) : r[j] = x
    <3>1. 1 \in 1 .. Len(r) /\ r[1] = e
      BY <1>1
    <3> QED BY <3>1
  <2>4. ASSUME NEW j \in 1 .. Len(s), s[j] = x PROVE \E i \in 1 .. Len(r) : r[i] = x
    <3>1. j + 1 \in 1 .. Len(r) /\ r[j + 1] = s[j]
      BY <1>1
    <3> QED BY <2>4, <3>1
  <2>5. ASSUME NEW j \in 1 .. Len(r), r[j] = x, x # e PROVE \E i \in 1 .. Len(s) : s[i] = x
    <3>1. j - 1 \in 1 .. Len(s) /\ r[j] = s[j - 1]
      BY <1>1, <2>5
    <3> QED BY <2>5, <3>1
  <2> QED BY <2>1, <2>2, <2>3, <2>4, <2>5
<1>4. ASSUME IsInjective(s), e \notin ToSet(s) PROVE IsInjective(r)
  <2>1. \A a, b \in 1 .. Len(s) : s[a] = s[b] => a = b
    BY <1>4, ListIndex
  <2>2. \A a \in 1 .. Len(s) : s[a] # e
    BY <1>4, ListIndex
  <2>3. ASSUME NEW a \in 1 .. Len(r), NEW b \in 1 .. Len(r), r[a] = r[b] PROVE a = b
    <3>1. /\ a # 1 => a - 1 \in 1 .. Len(s) /\ r[a] = s[a - 1]
          /\ b # 1 => b - 1 \in 1 .. Len(s) /\ r[b] = s[b - 1]
          /\ a = 1 => r[a] = e
          /\ b = 1 => r[b] = e
      BY <1>1
    <3>2. CASE a = 1 \/ b = 1
      BY <2>2, <2>3, <3>1, <3>2
    <3>3. CASE a # 1 /\ b # 1
      <4>1. s[a - 1] = s[b - 1] /\ a - 1 \in 1 .. Len(s) /\ b - 1 \in 1 .. Len(s)
        BY <2>3, <3>1, <3>3
      <4>2. a - 1 = b - 1
        BY <2>1, <4>1
      <4> QED BY <1>1, <4>2
    <3> QED BY <3>2, <3>3
  <2> QED BY <1>1, <2>3, ListIndex
<1> QED BY <1>1, <1>2, <1>3, <1>4 DEF r

\* Inserting a thread at a position of a list that does not hold it.
LEMMA ListInsert ==
    ASSUME NEW S, NEW s \in Seq(S), NEW e \in S, NEW i \in 1 .. Len(s) + 1
    PROVE  /\ InsertAt(s, i, e) \in Seq(S)
           /\ Len(InsertAt(s, i, e)) = Len(s) + 1
           /\ \A j \in 1 .. Len(s) + 1 : InsertAt(s, i, e)[j] =
                  IF j < i THEN s[j] ELSE IF j = i THEN e ELSE s[j - 1]
           /\ ToSet(InsertAt(s, i, e)) = ToSet(s) \cup {e}
           /\ IsInjective(s) /\ e \notin ToSet(s) => IsInjective(InsertAt(s, i, e))
<1> DEFINE r == InsertAt(s, i, e)
<1>1. /\ r \in Seq(S)
      /\ Len(r) = Len(s) + 1
      /\ \A j \in 1 .. Len(s) + 1 : r[j] =
            IF j < i THEN s[j] ELSE IF j = i THEN e ELSE s[j - 1]
  <2> DEFINE a == SubSeq(s, 1, i - 1)
             b == SubSeq(s, i, Len(s))
  <2>1. /\ a \in Seq(S) /\ Len(a) = i - 1
        /\ \A j \in 1..i-1 : a[j] = s[j]
    <3>1. \A j \in 1..i-1 : s[j] \in S
      OBVIOUS
    <3> QED BY <3>1, SubSeqProperties
  <2>2. /\ b \in Seq(S) /\ Len(b) = Len(s) - i + 1
        /\ \A j \in 1..Len(s)-i+1 : b[j] = s[i+j-1]
    <3>1. \A j \in i..Len(s) : s[j] \in S
      OBVIOUS
    <3> QED BY <3>1, SubSeqProperties
  <2>3. /\ <<e>> \in Seq(S) /\ Len(<<e>>) = 1 /\ <<e>>[1] = e
    OBVIOUS
  <2> HIDE DEF a, b
  <2> DEFINE c == a \o <<e>>
  <2>4. /\ c \in Seq(S)
        /\ Len(c) = i
        /\ \A j \in 1..i : c[j] = IF j <= i-1 THEN a[j] ELSE <<e>>[j-(i-1)]
    BY <2>1, <2>3, ConcatProperties
  <2> HIDE DEF c
  <2>5. /\ c \o b \in Seq(S)
        /\ Len(c \o b) = Len(s) + 1
        /\ \A j \in 1..Len(s)+1 : (c \o b)[j] = IF j <= i THEN c[j] ELSE b[j-i]
    <3>1. /\ c \o b \in Seq(S)
          /\ Len(c \o b) = Len(c) + Len(b)
          /\ \A j \in 1..Len(c)+Len(b) : (c \o b)[j] =
                IF j <= Len(c) THEN c[j] ELSE b[j-Len(c)]
      BY <2>2, <2>4, ConcatProperties
    <3>2. Len(c) = i /\ Len(c) + Len(b) = Len(s) + 1
      BY <2>2, <2>4
    <3> QED BY <3>1, <3>2
  <2>6. r = c \o b
    BY DEF InsertAt, r, a, b, c
  <2>7. ASSUME NEW j \in 1 .. Len(s) + 1
        PROVE  r[j] = IF j < i THEN s[j] ELSE IF j = i THEN e ELSE s[j - 1]
    <3>1. CASE j < i
      BY <3>1, <2>1, <2>4, <2>5, <2>6
    <3>2. CASE j = i
      <4>1. i - (i - 1) = 1 /\ ~(i <= i - 1) /\ i \in 1..i
        OBVIOUS
      <4>2. c[i] = <<e>>[1]
        BY <4>1, <2>4
      <4>3. r[j] = c[i]
        BY <3>2, <2>5, <2>6
      <4> QED BY <3>2, <4>2, <4>3
    <3>3. CASE j > i
      <4>1. j - i \in 1..Len(s)-i+1 /\ i+(j-i)-1 = j-1 /\ ~(j <= i)
        BY <3>3
      <4> QED BY <3>3, <4>1, <2>2, <2>5, <2>6
    <3> QED BY <3>1, <3>2, <3>3
  <2> QED BY <2>5, <2>6, <2>7
<1> HIDE DEF r
<1>2. ToSet(r) = ToSet(s) \cup {e}
  <2>1. \A j \in 1..Len(r) : r[j] \in ToSet(s) \cup {e}
    BY <1>1, SMTT(30) DEF ToSet
  <2>2. \A n \in 1..Len(s) : \E j \in 1..Len(r) : r[j] = s[n]
    <3> SUFFICES ASSUME NEW n \in 1..Len(s) PROVE \E j \in 1..Len(r) : r[j] = s[n]
      OBVIOUS
    <3>1. CASE n < i
      BY <3>1, <1>1
    <3>2. CASE ~(n < i)
      <4>1. n + 1 \in 1..Len(s) + 1 /\ ~(n + 1 < i) /\ n + 1 # i /\ (n + 1) - 1 = n
        BY <3>2
      <4> QED BY <4>1, <1>1
    <3> QED BY <3>1, <3>2
  <2>3. \E j \in 1..Len(r) : r[j] = e
    BY <1>1
  <2>4. /\ \A x : x \in ToSet(r) <=> \E j \in 1..Len(r) : r[j] = x
        /\ \A x : x \in ToSet(s) <=> \E j \in 1..Len(s) : s[j] = x
    BY <1>1, ListIndex
  <2> QED BY <2>1, <2>2, <2>3, <2>4
<1>3. ASSUME IsInjective(s), e \notin ToSet(s) PROVE IsInjective(r)
  <2>1. /\ \A m, n \in 1..Len(s) : s[m] = s[n] => m = n
        /\ \A m \in 1..Len(s) : s[m] # e
    BY <1>3, ListIndex
  <2>2. \A m, n \in 1..Len(s)+1 : r[m] = r[n] => m = n
    BY <2>1, <1>1, SMTT(30)
  <2> QED BY <2>2, <1>1, ListIndex
<1> QED BY <1>1, <1>2, <1>3 DEF r

-----------------------------------------------------------------------------
(* Lists sorted by priority.                                               *)

\* A list whose members come most urgent first.
SortedBy(s, prio) ==
    \A i, j \in 1 .. Len(s) : i < j => prio[s[i]] <= prio[s[j]]

\* Taking a thread off a sorted list leaves it sorted.
LEMMA SortedRemove ==
    ASSUME NEW S, NEW s \in Seq(S), NEW e, IsInjective(s), NEW prio, SortedBy(s, prio)
    PROVE  SortedBy(RemoveFirst(s, e), prio)
<1>1. CASE e \notin ToSet(s)
  BY <1>1, ListRemove
<1>2. CASE e \in ToSet(s)
  <2>1. PICK i \in 1..Len(s) : s[i] = e
    BY <1>2, ListIndex
  <2>2. RemoveFirst(s, e) = RemoveAt(s, i)
    BY <2>1, ListRemove
  <2>3. /\ Len(RemoveAt(s, i)) = Len(s) - 1
        /\ \A j \in 1..Len(s)-1 : RemoveAt(s, i)[j] = IF j < i THEN s[j] ELSE s[j+1]
    BY ListRemoveAt
  <2>4. \A a, b \in 1 .. Len(s) : a < b => prio[s[a]] <= prio[s[b]]
    BY DEF SortedBy
  <2> SUFFICES ASSUME NEW a \in 1..Len(s)-1, NEW b \in 1..Len(s)-1, a < b
               PROVE  prio[RemoveAt(s, i)[a]] <= prio[RemoveAt(s, i)[b]]
    BY <2>2, <2>3 DEF SortedBy
  <2> DEFINE m == IF a < i THEN a ELSE a + 1
             n == IF b < i THEN b ELSE b + 1
  <2>5. m \in 1..Len(s) /\ n \in 1..Len(s) /\ m < n
    OBVIOUS
  <2>6. RemoveAt(s, i)[a] = s[m] /\ RemoveAt(s, i)[b] = s[n]
    BY <2>3
  <2> QED BY <2>4, <2>5, <2>6
<1> QED BY <1>1, <1>2

\* Inserting a thread behind those at least as urgent and before those at most
\* as urgent keeps a list sorted.
LEMMA SortedInsert ==
    ASSUME NEW S, NEW s \in Seq(S), NEW e \in S, NEW i \in 1 .. Len(s) + 1,
           NEW prio, SortedBy(s, prio),
           \A j \in 1 .. Len(s) : j < i => prio[s[j]] <= prio[e],
           \A j \in 1 .. Len(s) : j >= i => prio[e] <= prio[s[j]]
    PROVE  SortedBy(InsertAt(s, i, e), prio)
<1> DEFINE r == InsertAt(s, i, e)
<1>1. /\ Len(r) = Len(s) + 1
      /\ \A j \in 1 .. Len(s) + 1 : r[j] =
            IF j < i THEN s[j] ELSE IF j = i THEN e ELSE s[j - 1]
  BY ListInsert
<1> HIDE DEF r
<1> SUFFICES ASSUME NEW a \in 1..Len(s)+1, NEW b \in 1..Len(s)+1, a < b
             PROVE  prio[r[a]] <= prio[r[b]]
  BY <1>1 DEF SortedBy, r
<1>2. \A m, n \in 1 .. Len(s) : m < n => prio[s[m]] <= prio[s[n]]
  BY DEF SortedBy
<1>3. CASE b < i
  BY <1>1, <1>2, <1>3
<1>4. CASE a < i /\ b = i
  BY <1>1, <1>4
<1>5. CASE a < i /\ b > i
  <2>1. b - 1 \in 1..Len(s) /\ a \in 1..Len(s) /\ a < b - 1
    BY <1>5
  <2> QED BY <1>1, <1>2, <1>5, <2>1, SMTT(60)
<1>6. CASE a = i
  <2>1. b - 1 \in 1..Len(s) /\ b - 1 >= i /\ ~(b < i) /\ b # i
    BY <1>6
  <2> QED BY <1>1, <1>6, <2>1
<1>7. CASE a > i
  <2>1. b - 1 \in 1..Len(s) /\ a - 1 \in 1..Len(s) /\ a - 1 < b - 1
    BY <1>7
  <2> QED BY <1>1, <1>2, <1>7, <2>1, SMTT(60)
<1> QED BY <1>3, <1>4, <1>5, <1>6, <1>7

\* The head of a list that is not empty is one of its members.
LEMMA ListHead ==
    ASSUME NEW S, NEW s \in Seq(S), s # << >>
    PROVE  Head(s) \in S /\ Head(s) \in ToSet(s)
BY DEF ToSet

\* A list is empty exactly when it has no member.
LEMMA ListEmpty ==
    ASSUME NEW S, NEW s \in Seq(S)
    PROVE  s = << >> <=> ToSet(s) = {}
BY DEF ToSet

-----------------------------------------------------------------------------
(* Priorities and bits.                                                    *)

\* A priority is its group number and its bit position, and both directions
\* of the split agree (_rt_thread_init, rt_schedule).
LEMMA PriorityBits ==
    /\ \A p \in Prio : /\ NumberOf(p) \in Number
                       /\ HighOf(p) \in 0 .. 7
                       /\ NumberOf(p) \in Nat
                       /\ NumberOf(p) * 8 + HighOf(p) = p
    /\ \A n \in Nat, b \in 0 .. 7 : NumberOf(n * 8 + b) = n /\ HighOf(n * 8 + b) = b
    /\ Number \subseteq Nat
<1>1. \A p \in Prio : p \in Nat
  BY PrioAssumption DEF Prio
<1>2. \A p \in Nat : NumberOf(p) \in Nat /\ HighOf(p) \in 0 .. 7 /\ NumberOf(p) * 8 + HighOf(p) = p
  BY DEF NumberOf, HighOf
<1>3. \A n \in Nat, b \in 0 .. 7 : NumberOf(n * 8 + b) = n /\ HighOf(n * 8 + b) = b
  BY DEF NumberOf, HighOf
<1> QED BY <1>1, <1>2, <1>3 DEF Number

\* A nonempty set of bit positions has a lowest one.
LEMMA MinNat ==
    ASSUME NEW S, S # {}, S \subseteq Nat
    PROVE  \E x \in S : \A y \in S : x <= y
<1> DEFINE R == OpToRel(<, Nat)
<1>1. \A x, y \in Nat : <<y, x>> \in R <=> y < x
  BY DEF OpToRel
<1>2. IsWellFoundedOn(R, Nat)
  BY NatLessThanWellFounded
<1> HIDE DEF R
<1>3. PICK x \in S : \A y \in S : ~ (<<y, x>> \in R)
  BY <1>2, WFMin
<1>4. \A y \in S : ~ (y < x)
  BY <1>1, <1>3
<1> QED BY <1>4

\* What holds at 0 and passes from each number to the next holds up to N.
LEMMA UpTo ==
    ASSUME NEW N \in Nat, NEW S, 0 \in S, \A n \in 0 .. N - 1 : n \in S => n + 1 \in S
    PROVE  \A n \in 0 .. N : n \in S
<1> SUFFICES ASSUME (0 .. N) \ S # {} PROVE FALSE
  OBVIOUS
<1>1. (0 .. N) \ S \subseteq Nat
  OBVIOUS
<1>2. PICK x \in (0 .. N) \ S : \A y \in (0 .. N) \ S : x <= y
  BY <1>1, MinNat
<1>3. x # 0 /\ x - 1 \in 0 .. N - 1 /\ (x - 1) + 1 = x
  BY <1>2
<1>4. x - 1 \in S
  BY <1>2, <1>3
<1> QED BY <1>2, <1>3, <1>4

\* Two priorities with the same group and bit are the same.
LEMMA SamePriority ==
    ASSUME NEW p \in Prio, NEW r \in Prio,
           NumberOf(p) = NumberOf(r), HighOf(p) = HighOf(r)
    PROVE  p = r
BY PriorityBits

-----------------------------------------------------------------------------
(* A thread between two lists.                                             *)

KernelOK(k) == k \in KernelState /\ KernelInv(k)

\* Thread t has been taken off its list and not yet been put on another one:
\* everything KernelInv says holds of the other threads.
Floating(k, t) ==
    /\ k \in KernelState
    /\ t \in Thread \ {Idle}
    /\ IdleReady(k)
    /\ NoDuplicates(k)
    /\ \A u \in Thread \ {t}, p \in Prio :
          u \in ToSet(k.ready[p]) <=> k.stat[u] = "READY" /\ k.prio[u] = p
    /\ \A p \in Prio : t \notin ToSet(k.ready[p])
    /\ \A q \in Queue : t \notin ToSet(k.wait[q])
    /\ \A q \in Queue : \A u \in ToSet(k.wait[q]) :
          /\ k.stat[u] = "SUSPEND"
          /\ \A r \in Queue : u \in ToSet(k.wait[r]) => r = q
    /\ \A u \in k.timer \ {t} : k.stat[u] = "SUSPEND"
    /\ BitmapExact(k)
    /\ \A u \in Thread \ {t} : k.stat[u] \in {"READY", "SUSPEND"} =>
          /\ k.number[u] = NumberOf(k.prio[u])
          /\ k.number_mask[u] = {NumberOf(k.prio[u])}
          /\ k.high_mask[u] = {HighOf(k.prio[u])}

\* rt_list_remove changes the lists and nothing else.
LEMMA ListRemoveFields ==
    ASSUME NEW k \in KernelState, NoDuplicates(k), NEW t \in Thread
    PROVE  LET r == rt_list_remove(k, t) IN
           /\ r \in KernelState
           /\ NoDuplicates(r)
           /\ \A p \in Prio : ToSet(r.ready[p]) = ToSet(k.ready[p]) \ {t}
           /\ \A p \in Prio : t \notin ToSet(k.ready[p]) => r.ready[p] = k.ready[p]
           /\ \A q \in Queue : ToSet(r.wait[q]) = ToSet(k.wait[q]) \ {t}
           /\ \A q \in Queue : t \notin ToSet(k.wait[q]) => r.wait[q] = k.wait[q]
           /\ r.stat = k.stat /\ r.prio = k.prio /\ r.number = k.number
           /\ r.number_mask = k.number_mask /\ r.high_mask = k.high_mask
           /\ r.error = k.error /\ r.table = k.table /\ r.group = k.group
           /\ r.timer = k.timer /\ r.cur = k.cur /\ r.lock = k.lock
<1> DEFINE r == rt_list_remove(k, t)
<1>1. /\ \A p \in Prio : k.ready[p] \in Seq(Thread) /\ IsInjective(k.ready[p])
      /\ \A q \in Queue : k.wait[q] \in Seq(Thread) /\ IsInjective(k.wait[q])
  BY DEF KernelState, NoDuplicates
<1>2. /\ r.ready = [p \in Prio |-> RemoveFirst(k.ready[p], t)]
      /\ r.wait = [q \in Queue |-> RemoveFirst(k.wait[q], t)]
      /\ r.stat = k.stat /\ r.prio = k.prio /\ r.number = k.number
      /\ r.number_mask = k.number_mask /\ r.high_mask = k.high_mask
      /\ r.error = k.error /\ r.table = k.table /\ r.group = k.group
      /\ r.timer = k.timer /\ r.cur = k.cur /\ r.lock = k.lock
  BY DEF KernelState, rt_list_remove
<1>3. /\ \A p \in Prio : /\ r.ready[p] \in Seq(Thread)
                         /\ ToSet(r.ready[p]) = ToSet(k.ready[p]) \ {t}
                         /\ IsInjective(r.ready[p])
                         /\ t \notin ToSet(k.ready[p]) => r.ready[p] = k.ready[p]
  BY <1>1, <1>2, ListRemove
<1>4. /\ \A q \in Queue : /\ r.wait[q] \in Seq(Thread)
                          /\ ToSet(r.wait[q]) = ToSet(k.wait[q]) \ {t}
                          /\ IsInjective(r.wait[q])
                          /\ t \notin ToSet(k.wait[q]) => r.wait[q] = k.wait[q]
  BY <1>1, <1>2, ListRemove
<1>5. r \in KernelState
  <2>1. /\ [p \in Prio |-> RemoveFirst(k.ready[p], t)] \in [Prio -> Seq(Thread)]
        /\ [q \in Queue |-> RemoveFirst(k.wait[q], t)] \in [Queue -> Seq(Thread)]
    BY <1>2, <1>3, <1>4
  <2> QED BY <2>1 DEF KernelState, rt_list_remove
<1> QED BY <1>2, <1>3, <1>4, <1>5 DEF NoDuplicates

\* rt_list_remove leaves the other waiters of a sorted suspend list sorted.
LEMMA ListRemoveSorted ==
    ASSUME NEW k \in KernelState, NoDuplicates(k), NEW t \in Thread, NEW q \in Queue,
           SortedBy(k.wait[q], k.prio)
    PROVE  SortedBy(rt_list_remove(k, t).wait[q], k.prio)
<1>1. k.wait[q] \in Seq(Thread) /\ IsInjective(k.wait[q])
  BY DEF KernelState, NoDuplicates
<1>2. rt_list_remove(k, t).wait[q] = RemoveFirst(k.wait[q], t)
  BY DEF KernelState, rt_list_remove
<1> QED BY <1>1, <1>2, SortedRemove

\* A thread that is not ready floats once it is off its suspend list.
LEMMA ListRemoveFloats ==
    ASSUME NEW k, KernelOK(k), NEW t \in Thread \ {Idle}, k.stat[t] # "READY"
    PROVE  Floating(rt_list_remove(k, t), t)
<1> DEFINE r == rt_list_remove(k, t)
<1>1. k \in KernelState /\ KernelInv(k)
  BY DEF KernelOK
<1>2. /\ r \in KernelState
      /\ NoDuplicates(r)
      /\ \A p \in Prio : ToSet(r.ready[p]) = ToSet(k.ready[p]) \ {t}
      /\ \A p \in Prio : t \notin ToSet(k.ready[p]) => r.ready[p] = k.ready[p]
      /\ \A q \in Queue : ToSet(r.wait[q]) = ToSet(k.wait[q]) \ {t}
      /\ r.stat = k.stat /\ r.prio = k.prio /\ r.number = k.number
      /\ r.number_mask = k.number_mask /\ r.high_mask = k.high_mask
      /\ r.table = k.table /\ r.group = k.group /\ r.timer = k.timer
  BY <1>1, ListRemoveFields DEF KernelInv
<1> HIDE DEF r
<1>3. \A p \in Prio : t \notin ToSet(k.ready[p])
  BY <1>1 DEF KernelInv, ReadyIffListed
<1>4. BitmapExact(r)
  BY <1>1, <1>2, <1>3 DEF KernelInv, BitmapExact
<1>5. /\ \A u \in Thread \ {t}, p \in Prio :
            u \in ToSet(r.ready[p]) <=> r.stat[u] = "READY" /\ r.prio[u] = p
      /\ \A p \in Prio : t \notin ToSet(r.ready[p])
      /\ \A q \in Queue : t \notin ToSet(r.wait[q])
  BY <1>1, <1>2 DEF KernelInv, ReadyIffListed
<1>6. /\ \A q \in Queue : \A u \in ToSet(r.wait[q]) :
            /\ r.stat[u] = "SUSPEND"
            /\ \A s \in Queue : u \in ToSet(r.wait[s]) => s = q
      /\ \A u \in r.timer \ {t} : r.stat[u] = "SUSPEND"
  BY <1>1, <1>2 DEF KernelInv, WaitersSuspended
<1>7. /\ IdleReady(r)
      /\ \A u \in Thread \ {t} : r.stat[u] \in {"READY", "SUSPEND"} =>
          /\ r.number[u] = NumberOf(r.prio[u])
          /\ r.number_mask[u] = {NumberOf(r.prio[u])}
          /\ r.high_mask[u] = {HighOf(r.prio[u])}
  BY <1>1, <1>2 DEF KernelInv, IdleReady, MasksCurrent
<1> QED BY <1>2, <1>4, <1>5, <1>6, <1>7 DEF Floating, r

\* rt_schedule_remove_thread keeps the bitmap exact and touches, besides the
\* lists, nothing but the bitmap.
LEMMA RemoveThreadFloats ==
    ASSUME NEW k, KernelOK(k), NEW t \in Thread \ {Idle}, k.stat[t] \in {"READY", "SUSPEND"}
    PROVE  LET r == rt_schedule_remove_thread(k, t) IN
           /\ Floating(r, t)
           /\ \A q \in Queue : t \notin ToSet(k.wait[q]) => r.wait[q] = k.wait[q]
           /\ \A q \in Queue : ToSet(r.wait[q]) = ToSet(k.wait[q]) \ {t}
           /\ r.stat = k.stat /\ r.prio = k.prio /\ r.number = k.number
           /\ r.number_mask = k.number_mask /\ r.high_mask = k.high_mask
           /\ r.error = k.error /\ r.timer = k.timer
           /\ r.cur = k.cur /\ r.lock = k.lock
<1> DEFINE k1 == rt_list_remove(k, t)
           c  == ClearReadyBit(k1, t)
           p  == k.prio[t]
           n  == NumberOf(p)
<1>1. k \in KernelState /\ KernelInv(k)
  BY DEF KernelOK
<1>2. /\ k1 \in KernelState
      /\ NoDuplicates(k1)
      /\ \A o \in Prio : ToSet(k1.ready[o]) = ToSet(k.ready[o]) \ {t}
      /\ \A o \in Prio : t \notin ToSet(k.ready[o]) => k1.ready[o] = k.ready[o]
      /\ \A q \in Queue : ToSet(k1.wait[q]) = ToSet(k.wait[q]) \ {t}
      /\ \A q \in Queue : t \notin ToSet(k.wait[q]) => k1.wait[q] = k.wait[q]
      /\ k1.stat = k.stat /\ k1.prio = k.prio /\ k1.number = k.number
      /\ k1.number_mask = k.number_mask /\ k1.high_mask = k.high_mask
      /\ k1.error = k.error /\ k1.table = k.table /\ k1.group = k.group
      /\ k1.timer = k.timer /\ k1.cur = k.cur /\ k1.lock = k.lock
  BY <1>1, ListRemoveFields DEF KernelInv
<1> HIDE DEF k1
<1>3. /\ p \in Prio /\ n \in Number /\ HighOf(p) \in 0..7
      /\ k.number[t] = n /\ k.number_mask[t] = {n} /\ k.high_mask[t] = {HighOf(p)}
  BY <1>1, PriorityBits DEF KernelInv, MasksCurrent, KernelState
<1>4. \A o \in Prio \ {p} : k1.ready[o] = k.ready[o]
  BY <1>1, <1>2 DEF KernelInv, ReadyIffListed
<1>5. ASSUME NEW r \in KernelState, BitmapExact(r),
             r.ready = k1.ready, r.wait = k1.wait, r.stat = k1.stat, r.prio = k1.prio,
             r.number = k1.number, r.number_mask = k1.number_mask,
             r.high_mask = k1.high_mask, r.timer = k1.timer
      PROVE  Floating(r, t)
  <2>1. /\ NoDuplicates(r) /\ IdleReady(r)
        /\ \A u \in Thread \ {t}, o \in Prio :
              u \in ToSet(r.ready[o]) <=> r.stat[u] = "READY" /\ r.prio[u] = o
        /\ \A o \in Prio : t \notin ToSet(r.ready[o])
        /\ \A q \in Queue : t \notin ToSet(r.wait[q])
    BY <1>1, <1>2, <1>5 DEF KernelInv, ReadyIffListed, NoDuplicates, IdleReady
  <2>2. /\ \A q \in Queue : \A u \in ToSet(r.wait[q]) :
              /\ r.stat[u] = "SUSPEND"
              /\ \A s \in Queue : u \in ToSet(r.wait[s]) => s = q
        /\ \A u \in r.timer \ {t} : r.stat[u] = "SUSPEND"
    BY <1>1, <1>2, <1>5, SMTT(60) DEF KernelInv, WaitersSuspended
  <2>3. \A u \in Thread \ {t} : r.stat[u] \in {"READY", "SUSPEND"} =>
          /\ r.number[u] = NumberOf(r.prio[u])
          /\ r.number_mask[u] = {NumberOf(r.prio[u])}
          /\ r.high_mask[u] = {HighOf(r.prio[u])}
    BY <1>1, <1>2, <1>5 DEF KernelInv, MasksCurrent
  <2> QED BY <1>5, <2>1, <2>2, <2>3 DEF Floating
<1>6. CASE k1.ready[p] # << >>
  <2>1. rt_schedule_remove_thread(k, t) = k1
    BY <1>6 DEF rt_schedule_remove_thread, k1
  <2>2. k.ready[p] # << >>
    <3>1. k.ready[p] \in Seq(Thread) /\ k1.ready[p] \in Seq(Thread)
      BY <1>1, <1>2, <1>3 DEF KernelState
    <3> QED BY <3>1, <1>2, <1>3, <1>6, ListEmpty
  <2>3. BitmapExact(k1)
    BY <1>1, <1>2, <1>4, <1>6, <2>2 DEF KernelInv, BitmapExact
  <2> QED BY <1>2, <1>5, <2>1, <2>3
<1>7. CASE k1.ready[p] = << >>
  <2>1. rt_schedule_remove_thread(k, t) = c
    BY <1>7 DEF rt_schedule_remove_thread, k1
  <2> DEFINE tb == [k.table EXCEPT ![n] = @ \ {HighOf(p)}]
             g  == IF tb[n] = {} THEN k.group \ {n} ELSE k.group
  <2>2. /\ c.table = tb /\ c.group = g
        /\ c.ready = k1.ready /\ c.wait = k1.wait /\ c.stat = k1.stat /\ c.prio = k1.prio
        /\ c.number = k1.number /\ c.number_mask = k1.number_mask
        /\ c.high_mask = k1.high_mask /\ c.timer = k1.timer /\ c.error = k1.error
        /\ c.cur = k1.cur /\ c.lock = k1.lock
    BY <1>2, <1>3 DEF ClearReadyBit, KernelState
  <2>3. k.table \in [Number -> SUBSET (0..7)] /\ k.group \in SUBSET Number
    BY <1>1 DEF KernelState
  <2>4. /\ tb \in [Number -> SUBSET (0..7)] /\ g \in SUBSET Number
        /\ tb[n] = k.table[n] \ {HighOf(p)}
        /\ \A m \in Number \ {n} : tb[m] = k.table[m]
    BY <1>3, <2>3
  <2>5. c \in KernelState
    BY <1>2, <1>3, <2>4 DEF ClearReadyBit, KernelState
  <2> HIDE DEF c, tb
  <2>6. BitmapExact(c)
    <3>1. ASSUME NEW o \in Prio
          PROVE  HighOf(o) \in tb[NumberOf(o)] <=> k1.ready[o] # << >>
      <4>1. CASE o = p
        BY <1>3, <1>7, <2>4, <4>1
      <4>2. CASE o # p
        <5>1. HighOf(o) \in k.table[NumberOf(o)] <=> k1.ready[o] # << >>
          BY <1>1, <1>4, <4>2 DEF KernelInv, BitmapExact
        <5>2. NumberOf(o) \in Number /\ (NumberOf(o) = n => HighOf(o) # HighOf(p))
          BY <1>3, <4>2, SamePriority, PriorityBits
        <5> QED BY <2>4, <5>1, <5>2
      <4> QED BY <4>1, <4>2
    <3>2. \A m \in Number : \A b \in tb[m] : m * 8 + b \in Prio
      BY <1>1, <2>4 DEF KernelInv, BitmapExact
    <3>3. \A m \in Number : m \in g <=> tb[m] # {}
      <4>1. \A m \in Number : m \in k.group <=> k.table[m] # {}
        BY <1>1 DEF KernelInv, BitmapExact
      <4> QED BY <4>1, <1>3, <2>4
    <3> QED BY <2>2, <3>1, <3>2, <3>3 DEF BitmapExact
  <2> QED BY <1>2, <1>5, <2>1, <2>2, <2>5, <2>6
<1> QED BY <1>6, <1>7

\* Putting a floating thread on its ready list makes the kernel whole again.
LEMMA InsertFloating ==
    ASSUME NEW k, NEW t, Floating(k, t), t \notin k.timer,
           k.number[t] = NumberOf(k.prio[t]),
           k.number_mask[t] = {NumberOf(k.prio[t])},
           k.high_mask[t] = {HighOf(k.prio[t])}
    PROVE  LET r == rt_schedule_insert_thread(k, t) IN
           /\ KernelOK(r)
           /\ r.wait = k.wait /\ r.prio = k.prio /\ r.error = k.error
           /\ r.timer = k.timer /\ r.cur = k.cur /\ r.lock = k.lock
           /\ r.stat = [k.stat EXCEPT ![t] = "READY"]
<1> DEFINE r == rt_schedule_insert_thread(k, t)
           p == k.prio[t]
           n == NumberOf(p)
<1>1. k \in KernelState /\ t \in Thread /\ t # Idle
  BY DEF Floating
<1>2. p \in Prio /\ n \in Number /\ HighOf(p) \in 0..7
  BY <1>1, PriorityBits DEF KernelState
<1>3. /\ r.stat = [k.stat EXCEPT ![t] = "READY"]
      /\ r.ready = [k.ready EXCEPT ![p] = Append(k.ready[p], t)]
      /\ r.table = [k.table EXCEPT ![n] = k.table[n] \cup {HighOf(p)}]
      /\ r.group = k.group \cup {n}
      /\ r.wait = k.wait /\ r.prio = k.prio /\ r.error = k.error
      /\ r.timer = k.timer /\ r.cur = k.cur /\ r.lock = k.lock
      /\ r.number = k.number /\ r.number_mask = k.number_mask
      /\ r.high_mask = k.high_mask
  BY <1>1 DEF rt_schedule_insert_thread, KernelState
<1>4. /\ k.ready \in [Prio -> Seq(Thread)]
      /\ k.table \in [Number -> SUBSET (0..7)]
      /\ k.group \in SUBSET Number
      /\ k.stat \in [Thread -> Stat]
      /\ k.timer \subseteq Thread
      /\ k.wait \in [Queue -> Seq(Thread)]
  BY <1>1 DEF KernelState
<1>5. /\ Append(k.ready[p], t) \in Seq(Thread)
      /\ Append(k.ready[p], t) # << >>
      /\ ToSet(Append(k.ready[p], t)) = ToSet(k.ready[p]) \cup {t}
      /\ IsInjective(Append(k.ready[p], t))
  <2>1. k.ready[p] \in Seq(Thread) /\ IsInjective(k.ready[p]) /\ t \notin ToSet(k.ready[p])
    BY <1>2, <1>4 DEF Floating, NoDuplicates
  <2> QED BY <1>1, <2>1, ListAppend
<1>6. /\ r.ready[p] = Append(k.ready[p], t)
      /\ \A o \in Prio \ {p} : r.ready[o] = k.ready[o]
      /\ r.table[n] = k.table[n] \cup {HighOf(p)}
      /\ \A m \in Number \ {n} : r.table[m] = k.table[m]
      /\ r.stat[t] = "READY"
      /\ \A u \in Thread \ {t} : r.stat[u] = k.stat[u]
  BY <1>1, <1>2, <1>3, <1>4
<1>7. r \in KernelState
  <2>1. /\ [k.stat EXCEPT ![t] = "READY"] \in [Thread -> Stat]
        /\ [k.ready EXCEPT ![p] = Append(k.ready[p], t)] \in [Prio -> Seq(Thread)]
        /\ [k.table EXCEPT ![n] = k.table[n] \cup {HighOf(p)}] \in [Number -> SUBSET (0..7)]
        /\ k.group \cup {n} \in SUBSET Number
    BY <1>1, <1>2, <1>4, <1>5 DEF Stat
  <2> QED BY <1>1, <2>1 DEF rt_schedule_insert_thread, KernelState
<1> HIDE DEF r
<1>8. NoDuplicates(r) /\ IdleReady(r)
  <2>1. \A o \in Prio : IsInjective(k.ready[o])
    BY DEF Floating, NoDuplicates
  <2>2. \A q \in Queue : IsInjective(r.wait[q])
    BY <1>3 DEF Floating, NoDuplicates
  <2>3. \A o \in Prio : IsInjective(r.ready[o])
    BY <2>1, <1>5, <1>6
  <2>4. IdleReady(r)
    BY <1>1, <1>6, ThreadAssumption DEF Floating, IdleReady
  <2> QED BY <2>2, <2>3, <2>4 DEF NoDuplicates
<1>9. ReadyIffListed(r)
  <2> SUFFICES ASSUME NEW u \in Thread, NEW o \in Prio
               PROVE  u \in ToSet(r.ready[o]) <=> r.stat[u] = "READY" /\ r.prio[u] = o
    BY DEF ReadyIffListed
  <2>1. CASE u = t
    <3>1. t \notin ToSet(k.ready[o])
      BY DEF Floating
    <3>2. r.stat[t] = "READY" /\ r.prio[t] = p
      BY <1>3, <1>6
    <3>3. CASE o = p
      <4>1. ToSet(r.ready[o]) = ToSet(k.ready[p]) \cup {t}
        BY <3>3, <1>5, <1>6
      <4> QED BY <2>1, <3>2, <3>3, <4>1
    <3>4. CASE o # p
      <4>1. r.ready[o] = k.ready[o]
        BY <3>4, <1>6
      <4> QED BY <2>1, <3>1, <3>2, <3>4, <4>1
    <3> QED BY <3>3, <3>4
  <2>2. CASE u # t
    <3>1. u \in ToSet(k.ready[o]) <=> k.stat[u] = "READY" /\ k.prio[u] = o
      BY <2>2 DEF Floating
    <3>2. r.stat[u] = k.stat[u] /\ r.prio[u] = k.prio[u]
      BY <2>2, <1>3, <1>6
    <3>3. u \in ToSet(r.ready[o]) <=> u \in ToSet(k.ready[o])
      <4>1. CASE o = p
        <5>1. ToSet(r.ready[o]) = ToSet(k.ready[o]) \cup {t}
          BY <4>1, <1>5, <1>6
        <5> QED BY <2>2, <5>1
      <4>2. CASE o # p
        <5>1. r.ready[o] = k.ready[o]
          BY <4>2, <1>6
        <5> QED BY <5>1
      <4> QED BY <4>1, <4>2
    <3> QED BY <3>1, <3>2, <3>3
  <2> QED BY <2>1, <2>2
<1>10. WaitersSuspended(r)
  <2>1. \A q \in Queue : \A u \in ToSet(k.wait[q]) : u \in Thread /\ u # t
    <3> SUFFICES ASSUME NEW q \in Queue, NEW u \in ToSet(k.wait[q])
                 PROVE  u \in Thread /\ u # t
      OBVIOUS
    <3>1. k.wait[q] \in Seq(Thread)
      BY <1>4
    <3> QED BY <3>1 DEF Floating, ToSet
  <2>2. \A q \in Queue : \A u \in ToSet(k.wait[q]) :
          /\ k.stat[u] = "SUSPEND"
          /\ \A s \in Queue : u \in ToSet(k.wait[s]) => s = q
    BY DEF Floating
  <2>3. \A u \in k.timer : u \in Thread /\ u # t /\ k.stat[u] = "SUSPEND"
    BY <1>4 DEF Floating
  <2>4. /\ r.wait = k.wait /\ r.timer = k.timer
        /\ \A u \in Thread \ {t} : r.stat[u] = k.stat[u]
    BY <1>3, <1>6
  <2>5. \A q \in Queue : \A u \in ToSet(r.wait[q]) :
          /\ r.stat[u] = "SUSPEND"
          /\ \A s \in Queue : u \in ToSet(r.wait[s]) => s = q
    BY <2>1, <2>2, <2>4
  <2>6. \A u \in r.timer : r.stat[u] = "SUSPEND"
    BY <2>3, <2>4
  <2> QED BY <2>5, <2>6 DEF WaitersSuspended
<1>11. BitmapExact(r)
  <2>1. ASSUME NEW o \in Prio
        PROVE  HighOf(o) \in r.table[NumberOf(o)] <=> r.ready[o] # << >>
    <3>1. CASE o = p
      BY <3>1, <1>2, <1>5, <1>6
    <3>2. CASE o # p
      <4>1. NumberOf(o) \in Number /\ (NumberOf(o) = n => HighOf(o) # HighOf(p))
        BY <1>2, <3>2, SamePriority, PriorityBits
      <4>2. HighOf(o) \in k.table[NumberOf(o)] <=> k.ready[o] # << >>
        BY DEF Floating, BitmapExact
      <4> QED BY <3>2, <4>1, <4>2, <1>6
    <3> QED BY <3>1, <3>2
  <2>2. \A m \in Number : \A b \in r.table[m] : m * 8 + b \in Prio
    <3>1. n * 8 + HighOf(p) \in Prio
      BY <1>2, PriorityBits
    <3> QED BY <3>1, <1>6 DEF Floating, BitmapExact
  <2>3. \A m \in Number : m \in r.group <=> r.table[m] # {}
    <3> SUFFICES ASSUME NEW m \in Number PROVE m \in r.group <=> r.table[m] # {}
      OBVIOUS
    <3>1. m \in k.group <=> k.table[m] # {}
      BY DEF Floating, BitmapExact
    <3>2. r.group = k.group \cup {n}
      BY <1>3
    <3>3. CASE m = n
      <4>1. HighOf(p) \in r.table[n]
        BY <1>6
      <4> QED BY <3>2, <3>3, <4>1
    <3>4. CASE m # n
      <4>1. r.table[m] = k.table[m]
        BY <3>4, <1>6
      <4> QED BY <3>1, <3>2, <3>4, <4>1
    <3> QED BY <3>3, <3>4
  <2> QED BY <2>1, <2>2, <2>3 DEF BitmapExact
<1>12. MasksCurrent(r)
  BY <1>3, <1>6, SMTT(30) DEF Floating, MasksCurrent
<1> QED BY <1>3, <1>7, <1>8, <1>9, <1>10, <1>11, <1>12 DEF KernelOK, KernelInv, r

-----------------------------------------------------------------------------
(* The calls.  Each keeps the kernel consistent; each lemma also says what *)
(* the call does to the state its callers look at.                         *)

\* rt_schedule keeps the kernel consistent, and with the scheduler unlocked
\* it picks a ready thread no other ready thread is more urgent than.
LEMMA ScheduleOK ==
    ASSUME NEW k, KernelOK(k)
    PROVE  LET r == rt_schedule(k) IN
           /\ KernelOK(r)
           /\ r.stat = k.stat /\ r.prio = k.prio /\ r.error = k.error
           /\ r.wait = k.wait /\ r.timer = k.timer /\ r.lock = k.lock
           /\ r.cur # k.cur => k.lock = 0
           /\ k.lock = 0 => CurIsHighest(r)
<1> DEFINE r == rt_schedule(k)
           n == LowestBit(k.group)
           h == HighestReady(k)
<1>1. k \in KernelState /\ KernelInv(k)
  BY DEF KernelOK
<1>2. CASE k.lock # 0
  BY <1>1, <1>2 DEF rt_schedule, KernelOK
<1>3. CASE k.lock = 0
  <2>1. \A p \in Prio : k.ready[p] # << >> <=>
            NumberOf(p) \in k.group /\ HighOf(p) \in k.table[NumberOf(p)]
    BY <1>1, PriorityBits DEF KernelInv, BitmapExact
  <2>2. k.group # {} /\ k.group \subseteq Nat
    <3>1. k.prio[Idle] \in Prio /\ Idle \in ToSet(k.ready[k.prio[Idle]])
      BY <1>1, ThreadAssumption DEF KernelInv, IdleReady, ReadyIffListed, KernelState
    <3>2. k.ready[k.prio[Idle]] \in Seq(Thread)
      BY <1>1, <3>1 DEF KernelState
    <3>3. k.ready[k.prio[Idle]] # << >>
      BY <3>1, <3>2, ListEmpty
    <3> QED BY <1>1, <2>1, <3>1, <3>3, PriorityBits DEF KernelState
  <2>3. ASSUME NEW S, S # {}, S \subseteq Nat
        PROVE  LowestBit(S) \in S /\ \A c \in S : LowestBit(S) <= c
    BY <2>3, MinNat DEF LowestBit
  <2>4. n \in k.group /\ n \in Number /\ \A m \in k.group : n <= m
    BY <1>1, <2>2, <2>3 DEF KernelState
  <2>5. k.table[n] # {} /\ k.table[n] \subseteq 0..7
    BY <1>1, <2>4 DEF KernelInv, BitmapExact, KernelState
  <2>6. LowestBit(k.table[n]) \in k.table[n] /\ \A c \in k.table[n] : LowestBit(k.table[n]) <= c
    <3>1. k.table[n] \subseteq Nat
      BY <2>5
    <3> QED BY <2>3, <2>5, <3>1
  <2>7. /\ h = n * 8 + LowestBit(k.table[n])
        /\ h \in Prio
        /\ NumberOf(h) = n /\ HighOf(h) = LowestBit(k.table[n])
    <3>1. h = n * 8 + LowestBit(k.table[n])
      BY DEF HighestReady
    <3>2. h \in Prio
      BY <1>1, <2>4, <2>6, <3>1 DEF KernelInv, BitmapExact
    <3>3. n \in Nat /\ LowestBit(k.table[n]) \in 0..7
      BY <2>4, <2>5, <2>6, PriorityBits
    <3> QED BY <3>1, <3>2, <3>3, PriorityBits
  <2> HIDE DEF n, h
  <2>8. \A p \in Prio : k.ready[p] # << >> => h <= p
    <3> SUFFICES ASSUME NEW p \in Prio, k.ready[p] # << >> PROVE h <= p
      OBVIOUS
    <3>1. n <= NumberOf(p) /\ (n = NumberOf(p) => HighOf(h) <= HighOf(p))
      BY <2>1, <2>4, <2>6, <2>7
    <3>2. /\ p = NumberOf(p) * 8 + HighOf(p) /\ h = n * 8 + HighOf(h)
          /\ HighOf(p) \in 0..7 /\ HighOf(h) \in 0..7
          /\ NumberOf(p) \in Nat /\ n \in Nat
      BY <2>7, PriorityBits
    <3>3. h \in Nat /\ p \in Nat
      BY <2>7, PrioAssumption DEF Prio
    <3>4. CASE n = NumberOf(p)
      BY <3>1, <3>2, <3>4, SMTT(30)
    <3>5. CASE n < NumberOf(p)
      <4>1. n + 1 <= NumberOf(p)
        BY <3>2, <3>5
      <4>2. n * 8 + 8 <= NumberOf(p) * 8
        BY <3>2, <4>1
      <4>3. h < n * 8 + 8
        BY <3>2
      <4>4. NumberOf(p) * 8 <= p
        BY <3>2
      <4> QED BY <3>2, <3>3, <4>2, <4>3, <4>4
    <3> QED BY <3>1, <3>2, <3>4, <3>5
  <2>9. /\ k.ready[h] \in Seq(Thread) /\ k.ready[h] # << >>
        /\ Head(k.ready[h]) \in Thread /\ Head(k.ready[h]) \in ToSet(k.ready[h])
    <3>1. k.ready[h] \in Seq(Thread) /\ k.ready[h] # << >>
      BY <1>1, <2>1, <2>4, <2>6, <2>7 DEF KernelState
    <3> QED BY <3>1, ListHead
  <2>10. /\ r \in KernelState
         /\ r.cur = Head(k.ready[h])
         /\ r.stat = k.stat /\ r.prio = k.prio /\ r.error = k.error
         /\ r.wait = k.wait /\ r.timer = k.timer /\ r.lock = k.lock
         /\ r.ready = k.ready /\ r.table = k.table /\ r.group = k.group
         /\ r.number = k.number /\ r.number_mask = k.number_mask
         /\ r.high_mask = k.high_mask
    BY <1>1, <1>3, <2>9 DEF rt_schedule, KernelState, h
  <2> HIDE DEF r
  <2>11. KernelInv(r)
    BY <1>1, <2>10 DEF KernelInv, IdleReady, NoDuplicates, ReadyIffListed,
                       WaitersSuspended, BitmapExact, MasksCurrent
  <2>12. CurIsHighest(r)
    <3>1. k.stat[r.cur] = "READY" /\ k.prio[r.cur] = h
      BY <1>1, <2>7, <2>9, <2>10 DEF KernelInv, ReadyIffListed
    <3>2. ASSUME NEW u \in Thread, k.stat[u] = "READY" PROVE h <= k.prio[u]
      <4>1. k.prio[u] \in Prio /\ u \in ToSet(k.ready[k.prio[u]])
        BY <1>1, <3>2 DEF KernelInv, ReadyIffListed, KernelState
      <4>2. k.ready[k.prio[u]] \in Seq(Thread)
        BY <1>1, <4>1 DEF KernelState
      <4> QED BY <2>8, <4>1, <4>2, ListEmpty
    <3> QED BY <2>10, <3>1, <3>2 DEF CurIsHighest
  <2> QED BY <1>3, <2>10, <2>11, <2>12 DEF KernelOK, r
<1> QED BY <1>2, <1>3

\* Fields that no list, bitmap or priority depends on may change freely; a
\* timer may be stopped at any time and started on a suspended thread.
LEMMA SetTimerErrorOK ==
    ASSUME NEW k, KernelOK(k), NEW r \in KernelState,
           r.stat = k.stat, r.prio = k.prio, r.number = k.number,
           r.number_mask = k.number_mask, r.high_mask = k.high_mask,
           r.ready = k.ready, r.table = k.table, r.group = k.group, r.wait = k.wait,
           \A u \in r.timer : k.stat[u] = "SUSPEND"
    PROVE  KernelOK(r)
<1>1. KernelInv(k)
  BY DEF KernelOK
<1>2. IdleReady(r) /\ NoDuplicates(r) /\ ReadyIffListed(r) /\ BitmapExact(r) /\ MasksCurrent(r)
  BY <1>1 DEF KernelInv, IdleReady, NoDuplicates, ReadyIffListed, BitmapExact, MasksCurrent
<1>3. WaitersSuspended(r)
  BY <1>1 DEF KernelInv, WaitersSuspended
<1> QED BY <1>2, <1>3 DEF KernelOK, KernelInv

\* rt_thread_suspend of a ready thread: it leaves its ready list, its timer is
\* stopped, and no suspend list holds it.
LEMMA SuspendOK ==
    ASSUME NEW k, KernelOK(k), NEW t \in Thread \ {Idle}, k.stat[t] = "READY"
    PROVE  LET r == rt_thread_suspend(k, t) IN
           /\ KernelOK(r)
           /\ r.stat = [k.stat EXCEPT ![t] = "SUSPEND"]
           /\ r.timer = k.timer \ {t}
           /\ r.wait = k.wait /\ r.prio = k.prio /\ r.error = k.error
           /\ r.cur = k.cur /\ r.lock = k.lock
           /\ \A q \in Queue : t \notin ToSet(r.wait[q])
<1> DEFINE f == rt_schedule_remove_thread(k, t)
           r == rt_thread_suspend(k, t)
<1>1. k \in KernelState /\ KernelInv(k)
  BY DEF KernelOK
<1>2. \A q \in Queue : t \notin ToSet(k.wait[q])
  BY <1>1 DEF KernelInv, WaitersSuspended
<1>3. /\ Floating(f, t)
      /\ \A q \in Queue : f.wait[q] = k.wait[q]
      /\ f.stat = k.stat /\ f.prio = k.prio /\ f.error = k.error
      /\ f.number = k.number /\ f.number_mask = k.number_mask
      /\ f.high_mask = k.high_mask
      /\ f.timer = k.timer /\ f.cur = k.cur /\ f.lock = k.lock
  BY <1>2, RemoveThreadFloats
<1>4. r = [f EXCEPT !.stat[t] = "SUSPEND", !.timer = @ \ {t}]
  BY DEF rt_thread_suspend, SuspendNow
<1> HIDE DEF f
<1>5. f \in KernelState /\ f.wait = k.wait
  <2>1. f \in KernelState /\ f.wait \in [Queue -> Seq(Thread)]
    BY <1>3 DEF Floating, KernelState
  <2>2. k.wait \in [Queue -> Seq(Thread)]
    BY <1>1 DEF KernelState
  <2> QED BY <2>1, <2>2, <1>3
<1>6. /\ r \in KernelState
      /\ r.stat = [k.stat EXCEPT ![t] = "SUSPEND"]
      /\ r.timer = k.timer \ {t}
      /\ r.wait = k.wait /\ r.prio = k.prio /\ r.error = k.error
      /\ r.cur = k.cur /\ r.lock = k.lock
      /\ r.ready = f.ready /\ r.table = f.table /\ r.group = f.group
      /\ r.number = f.number /\ r.number_mask = f.number_mask
      /\ r.high_mask = f.high_mask
  <2>1. [f.stat EXCEPT ![t] = "SUSPEND"] \in [Thread -> Stat] /\ f.timer \ {t} \in SUBSET Thread
    BY <1>5 DEF KernelState, Stat
  <2>2. r = [f EXCEPT !.stat = [f.stat EXCEPT ![t] = "SUSPEND"], !.timer = f.timer \ {t}]
    BY <1>4, <1>5 DEF KernelState
  <2> HIDE DEF r
  <2>3. r \in KernelState
    BY <1>5, <2>1, <2>2 DEF KernelState
  <2> QED BY <1>3, <1>5, <2>2, <2>3 DEF KernelState
<1> HIDE DEF r
<1>7. /\ r.stat[t] = "SUSPEND"
      /\ \A u \in Thread \ {t} : r.stat[u] = f.stat[u]
  BY <1>1, <1>3, <1>6 DEF KernelState
<1>8. IdleReady(r) /\ NoDuplicates(r) /\ BitmapExact(r)
  BY <1>3, <1>5, <1>6, <1>7, ThreadAssumption DEF Floating, IdleReady, NoDuplicates, BitmapExact
<1>9. ReadyIffListed(r)
  BY <1>3, <1>6, <1>7 DEF Floating, ReadyIffListed
<1>10. WaitersSuspended(r)
  <2>1. \A q \in Queue : \A u \in ToSet(r.wait[q]) : u \in Thread
    <3> SUFFICES ASSUME NEW q \in Queue PROVE \A u \in ToSet(r.wait[q]) : u \in Thread
      OBVIOUS
    <3>1. r.wait[q] \in Seq(Thread)
      BY <1>6 DEF KernelState
    <3> QED BY <3>1 DEF ToSet
  <2>2. r.timer \subseteq Thread
    BY <1>6 DEF KernelState
  <2> QED BY <2>1, <2>2, <1>1, <1>3, <1>6, <1>7 DEF KernelInv, WaitersSuspended
<1>11. MasksCurrent(r)
  BY <1>1, <1>3, <1>6, <1>7 DEF KernelInv, MasksCurrent
<1> QED BY <1>2, <1>6, <1>8, <1>9, <1>10, <1>11 DEF KernelOK, KernelInv, r

\* rt_thread_resume of a suspended thread: it leaves the list it is on, its
\* timer is stopped and it is ready.
LEMMA ResumeOK ==
    ASSUME NEW k, KernelOK(k), NEW t \in Thread, k.stat[t] = "SUSPEND"
    PROVE  LET r == rt_thread_resume(k, t) IN
           /\ KernelOK(r)
           /\ r.stat = [k.stat EXCEPT ![t] = "READY"]
           /\ r.timer = k.timer \ {t}
           /\ \A q \in Queue : ToSet(r.wait[q]) = ToSet(k.wait[q]) \ {t}
           /\ \A q \in Queue : t \notin ToSet(k.wait[q]) => r.wait[q] = k.wait[q]
           /\ \A q \in Queue : SortedBy(k.wait[q], k.prio) => SortedBy(r.wait[q], k.prio)
           /\ r.prio = k.prio /\ r.error = k.error
           /\ r.cur = k.cur /\ r.lock = k.lock
<1> DEFINE l == rt_list_remove(k, t)
           m == [l EXCEPT !.timer = @ \ {t}]
<1>1. k \in KernelState /\ KernelInv(k) /\ t # Idle
  BY DEF KernelOK, KernelInv, IdleReady
<1>2. Floating(l, t)
  BY <1>1, ListRemoveFloats
<1>3. /\ \A q \in Queue : ToSet(l.wait[q]) = ToSet(k.wait[q]) \ {t}
      /\ \A q \in Queue : t \notin ToSet(k.wait[q]) => l.wait[q] = k.wait[q]
      /\ l.stat = k.stat /\ l.prio = k.prio /\ l.number = k.number
      /\ l.number_mask = k.number_mask /\ l.high_mask = k.high_mask
      /\ l.error = k.error /\ l.timer = k.timer /\ l.cur = k.cur /\ l.lock = k.lock
  BY <1>1, ListRemoveFields, SMTT(30) DEF KernelInv
<1>0. \A q \in Queue : SortedBy(k.wait[q], k.prio) => SortedBy(l.wait[q], k.prio)
  BY <1>1, ListRemoveSorted DEF KernelInv
<1>4. rt_thread_resume(k, t) = rt_schedule_insert_thread(m, t)
  BY DEF rt_thread_resume, ResumeNow
<1> HIDE DEF l
<1>5. l \in KernelState
  BY <1>2 DEF Floating
<1>6. /\ m \in KernelState /\ m.timer = l.timer \ {t}
      /\ m.stat = l.stat /\ m.prio = l.prio /\ m.number = l.number
      /\ m.number_mask = l.number_mask /\ m.high_mask = l.high_mask
      /\ m.error = l.error /\ m.cur = l.cur /\ m.lock = l.lock
      /\ m.ready = l.ready /\ m.wait = l.wait /\ m.table = l.table /\ m.group = l.group
  BY <1>5 DEF KernelState
<1> HIDE DEF m
<1>7. Floating(m, t)
  BY <1>2, <1>6 DEF Floating, IdleReady, NoDuplicates, BitmapExact
<1>8. /\ m.number[t] = NumberOf(m.prio[t])
      /\ m.number_mask[t] = {NumberOf(m.prio[t])}
      /\ m.high_mask[t] = {HighOf(m.prio[t])}
      /\ t \notin m.timer
  BY <1>1, <1>3, <1>6 DEF KernelInv, MasksCurrent
<1>9. LET r == rt_schedule_insert_thread(m, t) IN
      /\ KernelOK(r)
      /\ r.wait = m.wait /\ r.prio = m.prio /\ r.error = m.error
      /\ r.timer = m.timer /\ r.cur = m.cur /\ r.lock = m.lock
      /\ r.stat = [m.stat EXCEPT ![t] = "READY"]
  BY <1>7, <1>8, InsertFloating
<1> QED BY <1>0, <1>3, <1>4, <1>6, <1>9

\* Setting thread->error touches nothing else.
LEMMA SetErrorOK ==
    ASSUME NEW k, KernelOK(k), NEW t \in Thread, NEW e \in Error
    PROVE  LET r == [k EXCEPT !.error[t] = e] IN
           /\ KernelOK(r)
           /\ r.error = [k.error EXCEPT ![t] = e]
           /\ r.stat = k.stat /\ r.prio = k.prio /\ r.wait = k.wait
           /\ r.timer = k.timer /\ r.cur = k.cur /\ r.lock = k.lock
<1> DEFINE r == [k EXCEPT !.error = [k.error EXCEPT ![t] = e]]
<1>1. k \in KernelState /\ KernelInv(k)
  BY DEF KernelOK
<1>2. r = [k EXCEPT !.error[t] = e]
  BY <1>1 DEF KernelState
<1>3. [k.error EXCEPT ![t] = e] \in [Thread -> Error]
  BY <1>1 DEF KernelState
<1>4. /\ r \in KernelState /\ r.error = [k.error EXCEPT ![t] = e]
      /\ r.stat = k.stat /\ r.prio = k.prio /\ r.number = k.number
      /\ r.number_mask = k.number_mask /\ r.high_mask = k.high_mask
      /\ r.cur = k.cur /\ r.lock = k.lock /\ r.timer = k.timer
      /\ r.ready = k.ready /\ r.wait = k.wait /\ r.table = k.table /\ r.group = k.group
  BY <1>1, <1>3 DEF KernelState
<1> HIDE DEF r
<1>5. KernelOK(r)
  BY <1>1, <1>4, SetTimerErrorOK DEF KernelInv, WaitersSuspended
<1> QED BY <1>2, <1>4, <1>5

\* Starting the timer of a suspended thread.
LEMMA StartTimerOK ==
    ASSUME NEW k, KernelOK(k), NEW t \in Thread, k.stat[t] = "SUSPEND"
    PROVE  LET r == StartThreadTimer(k, t) IN
           /\ KernelOK(r)
           /\ r.timer = k.timer \cup {t}
           /\ r.error = k.error /\ r.stat = k.stat /\ r.prio = k.prio
           /\ r.wait = k.wait /\ r.cur = k.cur /\ r.lock = k.lock
<1> DEFINE r == StartThreadTimer(k, t)
<1>1. k \in KernelState /\ KernelInv(k)
  BY DEF KernelOK
<1>2. /\ r \in KernelState /\ r.error = k.error /\ r.timer = k.timer \cup {t}
      /\ r.stat = k.stat /\ r.prio = k.prio /\ r.number = k.number
      /\ r.number_mask = k.number_mask /\ r.high_mask = k.high_mask
      /\ r.cur = k.cur /\ r.lock = k.lock
      /\ r.ready = k.ready /\ r.wait = k.wait /\ r.table = k.table /\ r.group = k.group
  BY <1>1 DEF KernelState, StartThreadTimer
<1> HIDE DEF r
<1>3. KernelOK(r)
  BY <1>1, <1>2, SetTimerErrorOK DEF KernelInv, WaitersSuspended
<1> QED BY <1>2, <1>3 DEF r

\* From k to r, the suspended thread h leaves its list and becomes ready; the
\* error fields become e.  The current thread changes only by rt_schedule.
Resumes(k, r, h, e) ==
    /\ KernelOK(r)
    /\ h \in Thread \ {Idle} /\ k.stat[h] = "SUSPEND"
    /\ r.stat = [k.stat EXCEPT ![h] = "READY"]
    /\ r.timer = k.timer \ {h}
    /\ r.error = e
    /\ \A q \in Queue : ToSet(r.wait[q]) = ToSet(k.wait[q]) \ {h}
    /\ \A q \in Queue : SortedBy(k.wait[q], k.prio) => SortedBy(r.wait[q], k.prio)
    /\ r.prio = k.prio /\ r.lock = k.lock
    /\ r.cur = k.cur \/ CurIsHighest(r)

\* From k to r, thread u is started.
StartsUp(k, r, u) ==
    /\ KernelOK(r)
    /\ r.stat = [k.stat EXCEPT ![u] = "READY"]
    /\ \A q \in Queue : r.wait[q] = k.wait[q]
    /\ r.timer = k.timer /\ r.error = k.error
    /\ r.prio = [k.prio EXCEPT ![u] = init_priority[u]]
    /\ r.cur = k.cur /\ r.lock = k.lock

\* The thread timer expires: rt_thread_timeout's assertion that the thread is
\* suspended holds, the thread leaves its suspend list and becomes ready.
LEMMA TimeoutOK ==
    ASSUME NEW k, KernelOK(k), NEW t \in k.timer
    PROVE  Resumes(k, rt_thread_timeout(k, t), t, [k.error EXCEPT ![t] = "ETIMEOUT"])
<1> DEFINE e == [k EXCEPT !.timer = @ \ {t}, !.error[t] = "ETIMEOUT"]
           l == rt_list_remove(e, t)
           i == rt_schedule_insert_thread(l, t)
<1>1. k \in KernelState /\ KernelInv(k) /\ t \in Thread /\ k.stat[t] = "SUSPEND" /\ t # Idle
  <2>1. k \in KernelState /\ KernelInv(k) /\ t \in Thread
    BY DEF KernelOK, KernelState
  <2>2. k.stat[t] = "SUSPEND"
    BY <2>1 DEF KernelInv, WaitersSuspended
  <2> QED BY <2>1, <2>2 DEF KernelInv, IdleReady
<1>2. /\ e \in KernelState
      /\ e.timer = k.timer \ {t} /\ e.error = [k.error EXCEPT ![t] = "ETIMEOUT"]
      /\ e.stat = k.stat /\ e.prio = k.prio /\ e.number = k.number
      /\ e.number_mask = k.number_mask /\ e.high_mask = k.high_mask
      /\ e.cur = k.cur /\ e.lock = k.lock
      /\ e.ready = k.ready /\ e.wait = k.wait /\ e.table = k.table /\ e.group = k.group
  <2>1. [k.error EXCEPT ![t] = "ETIMEOUT"] \in [Thread -> Error] /\ k.timer \ {t} \in SUBSET Thread
    BY <1>1 DEF KernelState, Error
  <2>2. e = [k EXCEPT !.timer = k.timer \ {t}, !.error = [k.error EXCEPT ![t] = "ETIMEOUT"]]
    BY <1>1 DEF KernelState
  <2> HIDE DEF e
  <2>3. e \in KernelState
    BY <1>1, <2>1, <2>2 DEF KernelState
  <2> QED BY <1>1, <2>2, <2>3 DEF KernelState
<1> HIDE DEF e
<1>3. KernelOK(e)
  BY <1>1, <1>2, SetTimerErrorOK DEF KernelInv, WaitersSuspended
<1>4. /\ \A q \in Queue : ToSet(l.wait[q]) = ToSet(e.wait[q]) \ {t}
      /\ \A q \in Queue : t \notin ToSet(e.wait[q]) => l.wait[q] = e.wait[q]
      /\ l.stat = e.stat /\ l.prio = e.prio /\ l.number = e.number
      /\ l.number_mask = e.number_mask /\ l.high_mask = e.high_mask
      /\ l.error = e.error /\ l.timer = e.timer /\ l.cur = e.cur /\ l.lock = e.lock
  <2>1. e \in KernelState /\ NoDuplicates(e) /\ t \in Thread
    BY <1>1, <1>3 DEF KernelOK, KernelInv
  <2> QED BY <2>1, ListRemoveFields, SMTT(30)
<1>0. \A q \in Queue : SortedBy(e.wait[q], e.prio) => SortedBy(l.wait[q], e.prio)
  BY <1>1, <1>3, ListRemoveSorted DEF KernelOK, KernelInv
<1>5. Floating(l, t)
  BY <1>1, <1>2, <1>3, ListRemoveFloats
<1> HIDE DEF l
<1>6. /\ l.number[t] = NumberOf(l.prio[t])
      /\ l.number_mask[t] = {NumberOf(l.prio[t])}
      /\ l.high_mask[t] = {HighOf(l.prio[t])}
      /\ t \notin l.timer
  BY <1>1, <1>2, <1>4 DEF KernelInv, MasksCurrent
<1>7. /\ KernelOK(i)
      /\ i.wait = l.wait /\ i.prio = l.prio /\ i.error = l.error
      /\ i.timer = l.timer /\ i.cur = l.cur /\ i.lock = l.lock
      /\ i.stat = [l.stat EXCEPT ![t] = "READY"]
  BY <1>5, <1>6, InsertFloating
<1> HIDE DEF i
<1>8. LET r == rt_schedule(i) IN
      /\ KernelOK(r)
      /\ r.stat = i.stat /\ r.prio = i.prio /\ r.error = i.error
      /\ r.wait = i.wait /\ r.timer = i.timer /\ r.lock = i.lock
      /\ r.cur # i.cur => i.lock = 0
      /\ i.lock = 0 => CurIsHighest(r)
  BY <1>7, ScheduleOK
<1>9. rt_thread_timeout(k, t) = rt_schedule(i)
  BY DEF rt_thread_timeout, i, l, e
<1> QED BY <1>0, <1>1, <1>2, <1>4, <1>7, <1>8, <1>9 DEF Resumes

\* rt_thread_startup of a thread in state INIT makes it ready.
LEMMA StartThreadOK ==
    ASSUME NEW k, KernelOK(k), NEW t \in Thread, k.stat[t] = "INIT"
    PROVE  StartsUp(k, StartThread(k, t), t)
<1> DEFINE p == init_priority[t]
           a == [SetPriority(k, t, p) EXCEPT !.stat[t] = "SUSPEND"]
<1>1. k \in KernelState /\ KernelInv(k) /\ p \in Prio /\ NumberOf(p) \in Number /\ HighOf(p) \in 0..7
  BY ThreadAssumption, PriorityBits DEF KernelOK
<1>2. /\ \A o \in Prio : t \notin ToSet(k.ready[o])
      /\ \A q \in Queue : t \notin ToSet(k.wait[q])
      /\ t \notin k.timer /\ t # Idle
  BY <1>1 DEF KernelInv, ReadyIffListed, WaitersSuspended, IdleReady
<1>3. /\ a \in KernelState
      /\ a.stat = [k.stat EXCEPT ![t] = "SUSPEND"]
      /\ a.prio = [k.prio EXCEPT ![t] = p]
      /\ a.number = [k.number EXCEPT ![t] = NumberOf(p)]
      /\ a.number_mask = [k.number_mask EXCEPT ![t] = {NumberOf(p)}]
      /\ a.high_mask = [k.high_mask EXCEPT ![t] = {HighOf(p)}]
      /\ a.cur = k.cur /\ a.lock = k.lock /\ a.timer = k.timer /\ a.error = k.error
      /\ a.ready = k.ready /\ a.wait = k.wait /\ a.table = k.table /\ a.group = k.group
  <2>1. /\ [k.stat EXCEPT ![t] = "SUSPEND"] \in [Thread -> Stat]
        /\ [k.prio EXCEPT ![t] = p] \in [Thread -> Prio]
        /\ [k.number EXCEPT ![t] = NumberOf(p)] \in [Thread -> Number]
        /\ [k.number_mask EXCEPT ![t] = {NumberOf(p)}] \in [Thread -> SUBSET Number]
        /\ [k.high_mask EXCEPT ![t] = {HighOf(p)}] \in [Thread -> SUBSET (0..7)]
    BY <1>1 DEF KernelState, Stat
  <2>2. a = [k EXCEPT !.stat = [k.stat EXCEPT ![t] = "SUSPEND"],
                      !.prio = [k.prio EXCEPT ![t] = p],
                      !.number = [k.number EXCEPT ![t] = NumberOf(p)],
                      !.number_mask = [k.number_mask EXCEPT ![t] = {NumberOf(p)}],
                      !.high_mask = [k.high_mask EXCEPT ![t] = {HighOf(p)}]]
    BY <1>1 DEF KernelState, SetPriority
  <2> HIDE DEF a, p
  <2>3. a \in KernelState
    BY <1>1, <2>1, <2>2 DEF KernelState
  <2> QED BY <1>1, <2>2, <2>3 DEF KernelState
<1>4. StartThread(k, t) = rt_thread_resume(a, t)
  BY DEF StartThread
<1> HIDE DEF a, p
<1>5. /\ a.stat[t] = "SUSPEND" /\ a.prio[t] = p /\ a.number[t] = NumberOf(p)
      /\ a.number_mask[t] = {NumberOf(p)} /\ a.high_mask[t] = {HighOf(p)}
      /\ \A u \in Thread \ {t} :
            /\ a.stat[u] = k.stat[u] /\ a.prio[u] = k.prio[u] /\ a.number[u] = k.number[u]
            /\ a.number_mask[u] = k.number_mask[u] /\ a.high_mask[u] = k.high_mask[u]
  BY <1>1, <1>3 DEF KernelState
<1>6. IdleReady(a) /\ NoDuplicates(a) /\ BitmapExact(a)
  BY <1>1, <1>2, <1>3, <1>5, ThreadAssumption DEF KernelInv, IdleReady, NoDuplicates, BitmapExact
<1>7. ReadyIffListed(a)
  BY <1>1, <1>2, <1>3, <1>5 DEF KernelInv, ReadyIffListed
<1>8. WaitersSuspended(a)
  <2>1. \A q \in Queue : \A u \in ToSet(a.wait[q]) : u \in Thread
    <3> SUFFICES ASSUME NEW q \in Queue PROVE \A u \in ToSet(a.wait[q]) : u \in Thread
      OBVIOUS
    <3>1. a.wait[q] \in Seq(Thread)
      BY <1>3 DEF KernelState
    <3> QED BY <3>1 DEF ToSet
  <2>2. a.timer \subseteq Thread
    BY <1>3 DEF KernelState
  <2>3. /\ \A q \in Queue : \A u \in ToSet(k.wait[q]) :
              /\ k.stat[u] = "SUSPEND"
              /\ \A s \in Queue : u \in ToSet(k.wait[s]) => s = q
        /\ \A u \in k.timer : k.stat[u] = "SUSPEND"
    BY <1>1 DEF KernelInv, WaitersSuspended
  <2> QED BY <2>1, <2>2, <2>3, <1>2, <1>3, <1>5, SMTT(30) DEF WaitersSuspended
<1>9. MasksCurrent(a)
  BY <1>1, <1>5 DEF KernelInv, MasksCurrent
<1>10. KernelOK(a)
  BY <1>3, <1>6, <1>7, <1>8, <1>9 DEF KernelOK, KernelInv
<1>11. LET r == rt_thread_resume(a, t) IN
       /\ KernelOK(r)
       /\ r.stat = [a.stat EXCEPT ![t] = "READY"]
       /\ r.timer = a.timer \ {t}
       /\ \A q \in Queue : t \notin ToSet(a.wait[q]) => r.wait[q] = a.wait[q]
       /\ r.prio = a.prio /\ r.error = a.error /\ r.cur = a.cur /\ r.lock = a.lock
  BY <1>5, <1>10, ResumeOK
<1>12. [a.stat EXCEPT ![t] = "READY"] = [k.stat EXCEPT ![t] = "READY"]
  BY <1>1, <1>3 DEF KernelState
<1>13. k.timer \ {t} = k.timer
  BY <1>2
<1> QED BY <1>2, <1>3, <1>4, <1>11, <1>12, <1>13 DEF p, StartsUp

\* A suspended thread that is on no list is linked into one.
LEMMA JoinListOK ==
    ASSUME NEW s, KernelOK(s), NEW t \in Thread, s.stat[t] = "SUSPEND", NEW q \in Queue,
           \A o \in Queue : t \notin ToSet(s.wait[o]),
           NEW w \in Seq(Thread), IsInjective(w), ToSet(w) = ToSet(s.wait[q]) \cup {t}
    PROVE  LET r == [s EXCEPT !.wait[q] = w] IN
           /\ KernelOK(r)
           /\ r.wait[q] = w /\ \A o \in Queue \ {q} : r.wait[o] = s.wait[o]
           /\ r.stat = s.stat /\ r.prio = s.prio /\ r.error = s.error /\ r.timer = s.timer
           /\ r.cur = s.cur /\ r.lock = s.lock
<1> DEFINE r == [s EXCEPT !.wait = [s.wait EXCEPT ![q] = w]]
<1>1. \A o \in Queue : t \notin ToSet(s.wait[o])
  OBVIOUS
<1>3. s \in KernelState /\ KernelInv(s)
  BY DEF KernelOK
<1>4. s.wait \in [Queue -> Seq(Thread)]
  BY <1>3 DEF KernelState
<1>6. w \in Seq(Thread) /\ ToSet(w) = ToSet(s.wait[q]) \cup {t} /\ IsInjective(w)
  OBVIOUS
<1>7. r = [s EXCEPT !.wait[q] = w]
  BY <1>3 DEF KernelState
<1>8. /\ r \in KernelState
      /\ r.wait = [s.wait EXCEPT ![q] = w]
      /\ r.stat = s.stat /\ r.prio = s.prio /\ r.number = s.number
      /\ r.number_mask = s.number_mask /\ r.high_mask = s.high_mask
      /\ r.cur = s.cur /\ r.lock = s.lock /\ r.timer = s.timer /\ r.error = s.error
      /\ r.ready = s.ready /\ r.table = s.table /\ r.group = s.group
  <2>1. [s.wait EXCEPT ![q] = w] \in [Queue -> Seq(Thread)]
    BY <1>4, <1>6
  <2> QED BY <1>3, <2>1 DEF KernelState
<1> HIDE DEF r
<1>9. r.wait[q] = w /\ \A o \in Queue \ {q} : r.wait[o] = s.wait[o]
  BY <1>4, <1>8
<1>10. IdleReady(r) /\ ReadyIffListed(r) /\ BitmapExact(r) /\ MasksCurrent(r)
  BY <1>3, <1>8 DEF KernelInv, IdleReady, ReadyIffListed, BitmapExact, MasksCurrent
<1>11. NoDuplicates(r)
  BY <1>3, <1>6, <1>8, <1>9 DEF KernelInv, NoDuplicates
<1>12. WaitersSuspended(r)
  <2>1. \A o \in Queue : ToSet(r.wait[o]) = IF o = q THEN ToSet(s.wait[o]) \cup {t}
                                                     ELSE ToSet(s.wait[o])
    BY <1>6, <1>9
  <2>2. s.stat[t] = "SUSPEND" /\ \A o \in Queue : t \notin ToSet(s.wait[o])
    BY <1>1, <1>3 DEF KernelState
  <2>3. /\ \A o \in Queue : \A u \in ToSet(s.wait[o]) :
              /\ s.stat[u] = "SUSPEND"
              /\ \A x \in Queue : u \in ToSet(s.wait[x]) => x = o
        /\ \A u \in s.timer : s.stat[u] = "SUSPEND"
    BY <1>3 DEF KernelInv, WaitersSuspended
  <2>4. ASSUME NEW o \in Queue, NEW u \in ToSet(r.wait[o])
        PROVE  /\ r.stat[u] = "SUSPEND"
               /\ \A x \in Queue : u \in ToSet(r.wait[x]) => x = o
    <3>1. CASE u = t
      <4>1. o = q
        BY <2>1, <2>2, <2>4, <3>1
      <4>2. \A x \in Queue : t \in ToSet(r.wait[x]) => x = q
        BY <2>1, <2>2
      <4> QED BY <2>2, <3>1, <4>1, <4>2, <1>8
    <3>2. CASE u # t
      <4>1. \A x \in Queue : u \in ToSet(r.wait[x]) => u \in ToSet(s.wait[x])
        BY <2>1, <3>2
      <4>2. u \in ToSet(s.wait[o])
        BY <2>4, <4>1
      <4> QED BY <2>3, <4>1, <4>2, <1>8
    <3> QED BY <3>1, <3>2
  <2> QED BY <2>3, <2>4, <1>8 DEF WaitersSuspended
<1>13. KernelOK(r)
  BY <1>8, <1>10, <1>11, <1>12 DEF KernelOK, KernelInv
<1> QED BY <1>7, <1>8, <1>9, <1>13

\* rt_ipc_list_suspend on the running thread: it ends suspended, on exactly
\* the list it was meant for, wherever its priority places it.
LEMMA ListSuspendOK ==
    ASSUME NEW k, KernelOK(k), NEW t \in Thread \ {Idle}, k.stat[t] = "READY",
           NEW q \in Queue, NEW flag
    PROVE  LET r == rt_ipc_list_suspend(k, q, t, flag) IN
           /\ KernelOK(r)
           /\ r.stat = [k.stat EXCEPT ![t] = "SUSPEND"]
           /\ r.timer = k.timer \ {t}
           /\ ToSet(r.wait[q]) = ToSet(k.wait[q]) \cup {t}
           /\ \A o \in Queue \ {q} : r.wait[o] = k.wait[o]
           /\ flag = "PRIO" /\ SortedBy(k.wait[q], k.prio) => SortedBy(r.wait[q], k.prio)
           /\ r.prio = k.prio /\ r.error = k.error
           /\ r.cur = k.cur /\ r.lock = k.lock
<1> DEFINE s == rt_thread_suspend(k, t)
           i == PrioPosition(s, q, t)
           w == IF flag = "FIFO" THEN Append(s.wait[q], t) ELSE InsertAt(s.wait[q], i, t)
<1>1. /\ KernelOK(s)
      /\ s.stat = [k.stat EXCEPT ![t] = "SUSPEND"]
      /\ s.timer = k.timer \ {t}
      /\ s.wait = k.wait /\ s.prio = k.prio /\ s.error = k.error
      /\ s.cur = k.cur /\ s.lock = k.lock
      /\ \A o \in Queue : t \notin ToSet(s.wait[o])
  BY SuspendOK
<1>2. rt_ipc_list_suspend(k, q, t, flag) = [s EXCEPT !.wait[q] = w]
  BY DEF rt_ipc_list_suspend
<1> HIDE DEF s
<1>3. s \in KernelState /\ KernelInv(s) /\ k \in KernelState
  BY <1>1 DEF KernelOK
<1>4. /\ s.wait \in [Queue -> Seq(Thread)] /\ s.wait[q] \in Seq(Thread)
      /\ IsInjective(s.wait[q]) /\ t \notin ToSet(s.wait[q])
  BY <1>1, <1>3 DEF KernelState, KernelInv, NoDuplicates
<1>5. /\ i \in 1 .. Len(s.wait[q]) + 1
      /\ SortedBy(s.wait[q], s.prio) => SortedBy(InsertAt(s.wait[q], i, t), s.prio)
  <2> DEFINE B == {j \in 1 .. Len(s.wait[q]) : s.prio[t] < s.prio[s.wait[q][j]]}
  <2>1. i = IF B = {} THEN Len(s.wait[q]) + 1 ELSE CHOOSE j \in B : \A m \in B : j <= m
    BY DEF PrioPosition
  <2>2. Len(s.wait[q]) \in Nat /\ B \subseteq Nat /\ B \subseteq 1 .. Len(s.wait[q])
    BY <1>4
  <2>3. /\ \A j \in 1 .. Len(s.wait[q]) : j \notin B => s.prio[s.wait[q][j]] <= s.prio[t]
        /\ \A j \in B : s.prio[t] < s.prio[s.wait[q][j]]
        /\ s.prio[t] \in Int /\ \A j \in 1 .. Len(s.wait[q]) : s.prio[s.wait[q][j]] \in Int
    <3>1. \A u \in Thread : s.prio[u] \in Int
      BY <1>3, PrioAssumption DEF KernelState, Prio
    <3>2. \A j \in 1 .. Len(s.wait[q]) : s.wait[q][j] \in Thread
      BY <1>4
    <3> QED BY <3>1, <3>2
  <2> HIDE DEF B, i
  <2>4. CASE B = {}
    <3>1. i = Len(s.wait[q]) + 1
      BY <2>1, <2>4
    <3>2. \A j \in 1 .. Len(s.wait[q]) : ~(j >= i)
      BY <2>2, <3>1
    <3> QED BY <1>4, <2>2, <2>3, <2>4, <3>1, <3>2, SortedInsert, SMTT(60)
  <2>5. CASE B # {}
    <3>1. \E j \in B : \A m \in B : j <= m
      BY <2>2, <2>5, MinNat
    <3>2. i \in B /\ \A m \in B : i <= m
      BY <2>1, <2>5, <3>1
    <3>3. i \in 1 .. Len(s.wait[q]) + 1
      BY <2>2, <3>2
    <3>4. ASSUME SortedBy(s.wait[q], s.prio)
          PROVE  SortedBy(InsertAt(s.wait[q], i, t), s.prio)
      <4>1. \A j \in 1 .. Len(s.wait[q]) : j < i => s.prio[s.wait[q][j]] <= s.prio[t]
        BY <2>2, <2>3, <3>2
      <4>2. \A j \in 1 .. Len(s.wait[q]) : j >= i => s.prio[t] <= s.prio[s.wait[q][j]]
        <5> SUFFICES ASSUME NEW j \in 1 .. Len(s.wait[q]), j >= i
                     PROVE  s.prio[t] <= s.prio[s.wait[q][j]]
          OBVIOUS
        <5>1. s.prio[t] < s.prio[s.wait[q][i]] /\ i \in 1 .. Len(s.wait[q])
          BY <2>2, <2>3, <3>2
        <5>2. s.prio[s.wait[q][i]] <= s.prio[s.wait[q][j]]
          <6>1. CASE i = j
            BY <2>3, <6>1
          <6>2. CASE i < j
            BY <3>4, <5>1, <6>2 DEF SortedBy
          <6> QED BY <3>3, <6>1, <6>2
        <5> QED BY <2>3, <5>1, <5>2
      <4> QED BY <1>4, <3>3, <3>4, <4>1, <4>2, SortedInsert
    <3> QED BY <3>3, <3>4
  <2> QED BY <2>4, <2>5
<1> HIDE DEF i
<1>6. /\ w \in Seq(Thread) /\ ToSet(w) = ToSet(s.wait[q]) \cup {t} /\ IsInjective(w)
      /\ flag = "PRIO" /\ SortedBy(s.wait[q], s.prio) => SortedBy(w, s.prio)
  BY <1>4, <1>5, ListAppend, ListInsert
<1> HIDE DEF w
<1>7. /\ w \in Seq(Thread) /\ IsInjective(w) /\ ToSet(w) = ToSet(s.wait[q]) \cup {t}
      /\ s.stat[t] = "SUSPEND" /\ t \in Thread /\ \A o \in Queue : t \notin ToSet(s.wait[o])
  BY <1>1, <1>3, <1>6 DEF KernelState
<1>8. LET x == [s EXCEPT !.wait[q] = w] IN
      /\ KernelOK(x)
      /\ x.wait[q] = w /\ \A o \in Queue \ {q} : x.wait[o] = s.wait[o]
      /\ x.stat = s.stat /\ x.prio = s.prio /\ x.error = s.error /\ x.timer = s.timer
      /\ x.cur = s.cur /\ x.lock = s.lock
  BY <1>1, <1>7, JoinListOK
<1> HIDE DEF w
<1> QED BY <1>1, <1>2, <1>6, <1>8

\* The head of a suspend list that is not empty is a suspended thread, which
\* is what rt_thread_resume needs to find when the list functions call it.
LEMMA WaitHead ==
    ASSUME NEW k, KernelOK(k), NEW q \in Queue, k.wait[q] # << >>
    PROVE  /\ Head(k.wait[q]) \in Thread \ {Idle}
           /\ Head(k.wait[q]) \in ToSet(k.wait[q])
           /\ k.stat[Head(k.wait[q])] = "SUSPEND"
           /\ \A o \in Queue \ {q} : Head(k.wait[q]) \notin ToSet(k.wait[o])
<1>1. k.wait[q] \in Seq(Thread)
  BY DEF KernelOK, KernelState
<1>2. Head(k.wait[q]) \in Thread /\ Head(k.wait[q]) \in ToSet(k.wait[q])
  BY <1>1, ListHead
<1> QED BY <1>2 DEF KernelOK, KernelInv, WaitersSuspended, IdleReady

\* rt_ipc_list_resume: the first waiter leaves its list and becomes ready.
LEMMA ListResumeOK ==
    ASSUME NEW k, KernelOK(k), NEW q \in Queue, k.wait[q] # << >>
    PROVE  Resumes(k, rt_ipc_list_resume(k, q), Head(k.wait[q]), k.error)
<1> DEFINE h == Head(k.wait[q])
<1>1. /\ h \in Thread \ {Idle} /\ k.stat[h] = "SUSPEND" /\ h \in ToSet(k.wait[q])
      /\ \A o \in Queue \ {q} : h \notin ToSet(k.wait[o])
  BY WaitHead
<1>2. rt_ipc_list_resume(k, q) = rt_thread_resume(k, h)
  BY DEF rt_ipc_list_resume
<1> HIDE DEF h
<1>3. LET r == rt_thread_resume(k, h) IN
      /\ KernelOK(r)
      /\ r.stat = [k.stat EXCEPT ![h] = "READY"]
      /\ r.timer = k.timer \ {h}
      /\ \A o \in Queue : ToSet(r.wait[o]) = ToSet(k.wait[o]) \ {h}
      /\ \A o \in Queue : h \notin ToSet(k.wait[o]) => r.wait[o] = k.wait[o]
      /\ \A o \in Queue : SortedBy(k.wait[o], k.prio) => SortedBy(r.wait[o], k.prio)
      /\ r.prio = k.prio /\ r.error = k.error
      /\ r.cur = k.cur /\ r.lock = k.lock
  BY <1>1, ResumeOK
<1> QED BY <1>1, <1>2, <1>3 DEF h, Resumes

\* A round of rt_ipc_list_resume_all: the first waiter becomes ready and will
\* find RT_ERROR in its error field.
LEMMA ResumeWithErrorOK ==
    ASSUME NEW k, KernelOK(k), NEW q \in Queue, k.wait[q] # << >>
    PROVE  Resumes(k, ResumeWithError(k, q), Head(k.wait[q]),
                   [k.error EXCEPT ![Head(k.wait[q])] = "ERROR"])
<1> DEFINE h == Head(k.wait[q])
           e == [k EXCEPT !.error[h] = "ERROR"]
<1>1. /\ h \in Thread \ {Idle} /\ k.stat[h] = "SUSPEND" /\ h \in ToSet(k.wait[q])
      /\ \A o \in Queue \ {q} : h \notin ToSet(k.wait[o])
  BY WaitHead
<1>2. ResumeWithError(k, q) = rt_thread_resume(e, h)
  BY DEF ResumeWithError
<1> HIDE DEF h
<1>3. /\ KernelOK(e) /\ e.error = [k.error EXCEPT ![h] = "ERROR"]
      /\ e.stat = k.stat /\ e.prio = k.prio /\ e.wait = k.wait
      /\ e.timer = k.timer /\ e.cur = k.cur /\ e.lock = k.lock
  <2>1. "ERROR" \in Error
    BY DEF Error
  <2> QED BY <1>1, <2>1, SetErrorOK
<1> HIDE DEF e
<1>4. LET r == rt_thread_resume(e, h) IN
      /\ KernelOK(r)
      /\ r.stat = [e.stat EXCEPT ![h] = "READY"]
      /\ r.timer = e.timer \ {h}
      /\ \A o \in Queue : ToSet(r.wait[o]) = ToSet(e.wait[o]) \ {h}
      /\ \A o \in Queue : h \notin ToSet(e.wait[o]) => r.wait[o] = e.wait[o]
      /\ \A o \in Queue : SortedBy(e.wait[o], e.prio) => SortedBy(r.wait[o], e.prio)
      /\ r.prio = e.prio /\ r.error = e.error
      /\ r.cur = e.cur /\ r.lock = e.lock
  <2>1. KernelOK(e) /\ h \in Thread /\ e.stat[h] = "SUSPEND"
    BY <1>1, <1>3
  <2> QED BY <2>1, ResumeOK
<1> QED BY <1>1, <1>2, <1>3, <1>4 DEF h, Resumes

\* Storing a priority with its masks touches nothing else.
LEMMA SetPriorityFields ==
    ASSUME NEW k \in KernelState, NEW t \in Thread, NEW p \in Prio
    PROVE  LET r == SetPriority(k, t, p) IN
           /\ r \in KernelState
           /\ r.prio = [k.prio EXCEPT ![t] = p]
           /\ r.number[t] = NumberOf(p) /\ r.number_mask[t] = {NumberOf(p)}
           /\ r.high_mask[t] = {HighOf(p)}
           /\ \A u \in Thread \ {t} :
                /\ r.prio[u] = k.prio[u] /\ r.number[u] = k.number[u]
                /\ r.number_mask[u] = k.number_mask[u] /\ r.high_mask[u] = k.high_mask[u]
           /\ r.stat = k.stat /\ r.error = k.error /\ r.wait = k.wait /\ r.ready = k.ready
           /\ r.table = k.table /\ r.group = k.group /\ r.timer = k.timer
           /\ r.cur = k.cur /\ r.lock = k.lock
<1> DEFINE r == [k EXCEPT !.prio = [k.prio EXCEPT ![t] = p],
                          !.number = [k.number EXCEPT ![t] = NumberOf(p)],
                          !.number_mask = [k.number_mask EXCEPT ![t] = {NumberOf(p)}],
                          !.high_mask = [k.high_mask EXCEPT ![t] = {HighOf(p)}]]
<1>1. r = SetPriority(k, t, p)
  BY DEF KernelState, SetPriority
<1>2. NumberOf(p) \in Number /\ HighOf(p) \in 0..7
  BY PriorityBits
<1>3. /\ [k.prio EXCEPT ![t] = p] \in [Thread -> Prio]
      /\ [k.number EXCEPT ![t] = NumberOf(p)] \in [Thread -> Number]
      /\ [k.number_mask EXCEPT ![t] = {NumberOf(p)}] \in [Thread -> SUBSET Number]
      /\ [k.high_mask EXCEPT ![t] = {HighOf(p)}] \in [Thread -> SUBSET (0..7)]
  BY <1>2 DEF KernelState
<1>4. r \in KernelState
  BY <1>3 DEF KernelState
<1>5. /\ r.prio = [k.prio EXCEPT ![t] = p]
      /\ r.number = [k.number EXCEPT ![t] = NumberOf(p)]
      /\ r.number_mask = [k.number_mask EXCEPT ![t] = {NumberOf(p)}]
      /\ r.high_mask = [k.high_mask EXCEPT ![t] = {HighOf(p)}]
      /\ r.stat = k.stat /\ r.error = k.error /\ r.wait = k.wait /\ r.ready = k.ready
      /\ r.table = k.table /\ r.group = k.group /\ r.timer = k.timer
      /\ r.cur = k.cur /\ r.lock = k.lock
  BY DEF KernelState
<1> HIDE DEF r
<1>6. /\ r.number[t] = NumberOf(p) /\ r.number_mask[t] = {NumberOf(p)}
      /\ r.high_mask[t] = {HighOf(p)}
      /\ \A u \in Thread \ {t} :
            /\ r.prio[u] = k.prio[u] /\ r.number[u] = k.number[u]
            /\ r.number_mask[u] = k.number_mask[u] /\ r.high_mask[u] = k.high_mask[u]
  BY <1>5 DEF KernelState
<1> QED BY <1>1, <1>4, <1>5, <1>6

\* rt_thread_control(RT_THREAD_CTRL_CHANGE_PRIORITY), on which priority
\* inheritance rests: a ready thread moves to the ready list of its new
\* priority and the bitmap follows; a thread in any other state only gets the
\* new priority and its masks.
LEMMA ChangePriorityOK ==
    ASSUME NEW k, KernelOK(k), NEW t \in Thread \ {Idle}, NEW p \in Prio
    PROVE  LET r == ChangePriority(k, t, p) IN
           /\ KernelOK(r)
           /\ r.prio = [k.prio EXCEPT ![t] = p]
           /\ r.stat = k.stat /\ r.wait = k.wait /\ r.error = k.error
           /\ r.timer = k.timer /\ r.cur = k.cur /\ r.lock = k.lock
<1>1. k \in KernelState /\ KernelInv(k)
  BY DEF KernelOK
<1>2. CASE k.stat[t] = "READY"
  <2> DEFINE f == rt_schedule_remove_thread(k, t)
             g == SetPriority(f, t, p)
             r == rt_schedule_insert_thread(g, t)
  <2>1. ChangePriority(k, t, p) = r
    BY <1>2 DEF ChangePriority
  <2>2. \A q \in Queue : t \notin ToSet(k.wait[q])
    BY <1>1, <1>2 DEF KernelInv, WaitersSuspended
  <2>3. /\ Floating(f, t)
        /\ \A q \in Queue : f.wait[q] = k.wait[q]
        /\ f.stat = k.stat /\ f.prio = k.prio /\ f.error = k.error
        /\ f.timer = k.timer /\ f.cur = k.cur /\ f.lock = k.lock
    BY <1>2, <2>2, RemoveThreadFloats
  <2> HIDE DEF f
  <2>4. f \in KernelState /\ f.wait = k.wait
    <3>1. f \in KernelState /\ f.wait \in [Queue -> Seq(Thread)]
      BY <2>3 DEF Floating, KernelState
    <3>2. k.wait \in [Queue -> Seq(Thread)]
      BY <1>1 DEF KernelState
    <3> QED BY <3>1, <3>2, <2>3
  <2>5. /\ g \in KernelState
        /\ g.prio = [f.prio EXCEPT ![t] = p]
        /\ g.number[t] = NumberOf(p) /\ g.number_mask[t] = {NumberOf(p)}
        /\ g.high_mask[t] = {HighOf(p)}
        /\ \A u \in Thread \ {t} :
              /\ g.prio[u] = f.prio[u] /\ g.number[u] = f.number[u]
              /\ g.number_mask[u] = f.number_mask[u] /\ g.high_mask[u] = f.high_mask[u]
        /\ g.stat = f.stat /\ g.error = f.error /\ g.wait = f.wait /\ g.ready = f.ready
        /\ g.table = f.table /\ g.group = f.group /\ g.timer = f.timer
        /\ g.cur = f.cur /\ g.lock = f.lock
    BY <2>4, SetPriorityFields
  <2> HIDE DEF g
  <2>6. g.prio[t] = p
    BY <2>4, <2>5 DEF KernelState
  <2>7. Floating(g, t)
    <3>1. IdleReady(g) /\ NoDuplicates(g) /\ BitmapExact(g)
      BY <2>3, <2>5 DEF Floating, IdleReady, NoDuplicates, BitmapExact
    <3>2. /\ \A u \in Thread \ {t}, o \in Prio :
                u \in ToSet(g.ready[o]) <=> g.stat[u] = "READY" /\ g.prio[u] = o
          /\ \A o \in Prio : t \notin ToSet(g.ready[o])
          /\ \A q \in Queue : t \notin ToSet(g.wait[q])
      BY <2>3, <2>5 DEF Floating
    <3>3. /\ \A q \in Queue : \A u \in ToSet(g.wait[q]) :
                /\ g.stat[u] = "SUSPEND"
                /\ \A o \in Queue : u \in ToSet(g.wait[o]) => o = q
          /\ \A u \in g.timer \ {t} : g.stat[u] = "SUSPEND"
      BY <2>3, <2>5 DEF Floating
    <3>4. \A u \in Thread \ {t} : g.stat[u] \in {"READY", "SUSPEND"} =>
              /\ g.number[u] = NumberOf(g.prio[u])
              /\ g.number_mask[u] = {NumberOf(g.prio[u])}
              /\ g.high_mask[u] = {HighOf(g.prio[u])}
      BY <2>3, <2>5 DEF Floating
    <3> QED BY <2>5, <3>1, <3>2, <3>3, <3>4 DEF Floating
  <2>8. t \notin g.timer
    BY <1>1, <1>2, <2>3, <2>5 DEF KernelInv, WaitersSuspended
  <2>9. /\ KernelOK(r)
        /\ r.wait = g.wait /\ r.prio = g.prio /\ r.error = g.error
        /\ r.timer = g.timer /\ r.cur = g.cur /\ r.lock = g.lock
        /\ r.stat = [g.stat EXCEPT ![t] = "READY"]
    BY <2>5, <2>6, <2>7, <2>8, InsertFloating
  <2> HIDE DEF r
  <2>10. [k.stat EXCEPT ![t] = "READY"] = k.stat
    BY <1>1, <1>2 DEF KernelState
  <2> QED BY <2>1, <2>3, <2>4, <2>5, <2>9, <2>10
<1>3. CASE k.stat[t] # "READY"
  <2> DEFINE g == SetPriority(k, t, p)
  <2>1. ChangePriority(k, t, p) = g
    BY <1>3 DEF ChangePriority
  <2>2. /\ g \in KernelState
        /\ g.prio = [k.prio EXCEPT ![t] = p]
        /\ g.number[t] = NumberOf(p) /\ g.number_mask[t] = {NumberOf(p)}
        /\ g.high_mask[t] = {HighOf(p)}
        /\ \A u \in Thread \ {t} :
              /\ g.prio[u] = k.prio[u] /\ g.number[u] = k.number[u]
              /\ g.number_mask[u] = k.number_mask[u] /\ g.high_mask[u] = k.high_mask[u]
        /\ g.stat = k.stat /\ g.error = k.error /\ g.wait = k.wait /\ g.ready = k.ready
        /\ g.table = k.table /\ g.group = k.group /\ g.timer = k.timer
        /\ g.cur = k.cur /\ g.lock = k.lock
    BY <1>1, SetPriorityFields
  <2> HIDE DEF g
  <2>3. g.prio[t] = p
    BY <1>1, <2>2 DEF KernelState
  <2>4. IdleReady(g) /\ NoDuplicates(g) /\ BitmapExact(g) /\ WaitersSuspended(g)
    BY <1>1, <2>2 DEF KernelInv, IdleReady, NoDuplicates, BitmapExact, WaitersSuspended
  <2>5. ReadyIffListed(g)
    BY <1>1, <1>3, <2>2 DEF KernelInv, ReadyIffListed
  <2>6. MasksCurrent(g)
    BY <1>1, <2>2, <2>3 DEF KernelInv, MasksCurrent
  <2> QED BY <2>1, <2>2, <2>4, <2>5, <2>6 DEF KernelOK, KernelInv
<1> QED BY <1>2, <1>3

-----------------------------------------------------------------------------
(* The boot state.                                                         *)

\* What rt_system_scheduler_start finds, idle and the main thread m ready and
\* the other threads created, is a consistent kernel.
LEMMA BootOK ==
    ASSUME NEW m \in Thread \ {Idle}, NEW b,
           b = [ stat        |-> [t \in Thread |-> IF t \in {Idle, m} THEN "READY" ELSE "INIT"],
                 prio        |-> init_priority,
                 number      |-> [t \in Thread |->
                                    IF t \in {Idle, m} THEN NumberOf(init_priority[t]) ELSE 0],
                 number_mask |-> [t \in Thread |->
                                    IF t \in {Idle, m} THEN {NumberOf(init_priority[t])} ELSE {}],
                 high_mask   |-> [t \in Thread |->
                                    IF t \in {Idle, m} THEN {HighOf(init_priority[t])} ELSE {}],
                 error       |-> [t \in Thread |-> "EOK"],
                 ready       |-> [r \in Prio |-> IF r = init_priority[m] THEN <<m>>
                                    ELSE IF r = init_priority[Idle] THEN <<Idle>> ELSE << >>],
                 table       |-> [n \in Number |-> {HighOf(init_priority[t]) :
                                    t \in {u \in {Idle, m} : NumberOf(init_priority[u]) = n}}],
                 group       |-> {NumberOf(init_priority[t]) : t \in {Idle, m}},
                 wait        |-> [q \in Queue |-> << >>],
                 timer       |-> {},
                 cur         |-> m,
                 lock        |-> 0 ]
    PROVE  KernelOK(b)
<1> DEFINE pm == init_priority[m]
           pi == init_priority[Idle]
<1>1. /\ m \in Thread /\ Idle \in Thread /\ m # Idle
      /\ pm \in Prio /\ pi \in Prio /\ pm # pi
  BY ThreadAssumption
<1>2. /\ NumberOf(pm) \in Number /\ NumberOf(pi) \in Number
      /\ HighOf(pm) \in 0..7 /\ HighOf(pi) \in 0..7
  BY <1>1, PriorityBits
<1>3. /\ b.stat = [t \in Thread |-> IF t \in {Idle, m} THEN "READY" ELSE "INIT"]
      /\ b.prio = init_priority
      /\ b.number = [t \in Thread |-> IF t \in {Idle, m} THEN NumberOf(init_priority[t]) ELSE 0]
      /\ b.number_mask = [t \in Thread |-> IF t \in {Idle, m} THEN {NumberOf(init_priority[t])} ELSE {}]
      /\ b.high_mask = [t \in Thread |-> IF t \in {Idle, m} THEN {HighOf(init_priority[t])} ELSE {}]
      /\ b.error = [t \in Thread |-> "EOK"]
      /\ b.ready = [r \in Prio |-> IF r = pm THEN <<m>> ELSE IF r = pi THEN <<Idle>> ELSE << >>]
      /\ b.table = [n \in Number |-> {HighOf(init_priority[t]) :
                        t \in {u \in {Idle, m} : NumberOf(init_priority[u]) = n}}]
      /\ b.group = {NumberOf(init_priority[t]) : t \in {Idle, m}}
      /\ b.wait = [q \in Queue |-> << >>]
      /\ b.timer = {} /\ b.cur = m /\ b.lock = 0
  OBVIOUS
<1>4. b \in KernelState
  <2>1. /\ b.stat \in [Thread -> Stat]
        /\ b.prio \in [Thread -> Prio]
        /\ b.error \in [Thread -> Error]
    BY <1>3, ThreadAssumption DEF Stat, Error
  <2>2. 0 \in Number
    <3>1. 0 \in Prio
      BY PrioAssumption DEF Prio
    <3>2. NumberOf(0) = 0
      BY DEF NumberOf
    <3> QED BY <3>1, <3>2 DEF Number
  <2>3. /\ b.number \in [Thread -> Number]
        /\ b.number_mask \in [Thread -> SUBSET Number]
        /\ b.high_mask \in [Thread -> SUBSET (0..7)]
    BY <1>1, <1>2, <1>3, <2>2
  <2>4. /\ b.ready \in [Prio -> Seq(Thread)]
        /\ b.wait \in [Queue -> Seq(Thread)]
    <3>1. <<m>> \in Seq(Thread) /\ <<Idle>> \in Seq(Thread) /\ << >> \in Seq(Thread)
      BY <1>1
    <3> QED BY <1>3, <3>1
  <2>5. /\ b.table \in [Number -> SUBSET (0..7)]
        /\ b.group \in SUBSET Number
    BY <1>1, <1>2, <1>3
  <2>6. b.timer \in SUBSET Thread /\ b.cur \in Thread /\ b.lock \in Nat
    BY <1>1, <1>3
  <2>7. b = [stat |-> b.stat, prio |-> b.prio, number |-> b.number,
             number_mask |-> b.number_mask, high_mask |-> b.high_mask, error |-> b.error,
             ready |-> b.ready, table |-> b.table, group |-> b.group, wait |-> b.wait,
             timer |-> b.timer, cur |-> b.cur, lock |-> b.lock]
    OBVIOUS
  <2> QED BY <2>1, <2>3, <2>4, <2>5, <2>6, <2>7 DEF KernelState
<1>5. /\ b.ready[pm] = <<m>> /\ b.ready[pi] = <<Idle>>
      /\ \A r \in Prio \ {pm, pi} : b.ready[r] = << >>
  BY <1>1, <1>3
<1>6. /\ \A x : ToSet(<<x>>) = {x} /\ IsInjective(<<x>>)
      /\ ToSet(<< >>) = {} /\ IsInjective(<< >>)
  BY DEF ToSet, IsInjective
<1>7. IdleReady(b) /\ NoDuplicates(b) /\ WaitersSuspended(b)
  <2>1. \A q \in Queue : b.wait[q] = << >>
    BY <1>3
  <2>2. b.stat[Idle] = "READY"
    BY <1>1, <1>3
  <2> QED BY <1>3, <1>5, <1>6, <2>1, <2>2 DEF IdleReady, NoDuplicates, WaitersSuspended
<1>8. ReadyIffListed(b)
  <2>1. \A t \in Thread : b.stat[t] = "READY" <=> t \in {Idle, m}
    BY <1>3
  <2> SUFFICES ASSUME NEW t \in Thread, NEW p \in Prio
               PROVE  t \in ToSet(b.ready[p]) <=> b.stat[t] = "READY" /\ b.prio[t] = p
    BY DEF ReadyIffListed
  <2>2. ToSet(b.ready[p]) = IF p = pm THEN {m} ELSE IF p = pi THEN {Idle} ELSE {}
    BY <1>5, <1>6
  <2> QED BY <1>1, <1>3, <2>1, <2>2
<1>9. BitmapExact(b)
  <2>1. \A n \in Number : \A x : x \in b.table[n] <=>
            \/ x = HighOf(pm) /\ NumberOf(pm) = n
            \/ x = HighOf(pi) /\ NumberOf(pi) = n
    BY <1>3
  <2>2. ASSUME NEW p \in Prio
        PROVE  HighOf(p) \in b.table[NumberOf(p)] <=> b.ready[p] # << >>
    <3>1. HighOf(p) \in b.table[NumberOf(p)] <=> p \in {pm, pi}
      <4>1. NumberOf(p) \in Number
        BY ONLY p \in Prio, PriorityBits
      <4>2. /\ NumberOf(pm) = NumberOf(p) /\ HighOf(p) = HighOf(pm) => p = pm
            /\ NumberOf(pi) = NumberOf(p) /\ HighOf(p) = HighOf(pi) => p = pi
        BY ONLY <1>1, p \in Prio, SamePriority
      <4> QED BY ONLY <2>1, <4>1, <4>2
    <3>2. <<m>> # << >> /\ <<Idle>> # << >>
      OBVIOUS
    <3> QED BY <1>5, <3>1, <3>2
  <2>3. ASSUME NEW n \in Number, NEW x \in b.table[n]
        PROVE  n * 8 + x \in Prio
    <3>1. PICK p \in {pm, pi} : x = HighOf(p) /\ n = NumberOf(p)
      BY ONLY <2>1, <2>3
    <3>2. p \in Prio
      BY ONLY <1>1, <3>1
    <3>3. NumberOf(p) * 8 + HighOf(p) = p
      BY ONLY <3>2, PriorityBits
    <3> QED BY ONLY <3>1, <3>2, <3>3
  <2>4. \A n \in Number : n \in b.group <=> b.table[n] # {}
    <3>1. b.group = {NumberOf(pm), NumberOf(pi)}
      BY <1>3
    <3> QED BY <2>1, <3>1
  <2> QED BY <2>2, <2>3, <2>4 DEF BitmapExact
<1>10. MasksCurrent(b)
  BY <1>3 DEF MasksCurrent
<1> QED BY <1>4, <1>7, <1>8, <1>9, <1>10 DEF KernelOK, KernelInv
=============================================================================
