--------------------------- MODULE EventQueueProofs ---------------------------
(***************************************************************************)
(* Proofs about EventQueue, for all values of its constants, and about the *)
(* history of passes that EventQueuePasses adds.                           *)
(***************************************************************************)
EXTENDS EventQueuePasses, SequenceTheorems, WellFoundedInduction, TLAPS

-------------------------------------------------------------------------------
(* Facts about numbers and sequences. *)

\* Every non-empty set of naturals has a least element.
LEMMA LeastNat ==
    ASSUME NEW T \in SUBSET Nat, T # {}
    PROVE  \E m \in T : \A k \in T : m <= k
<1>1. PICK m \in T : \A k \in T : ~(<<k, m>> \in OpToRel(<, Nat))
  BY NatLessThanWellFounded, WFMin
<1>2. \A k \in T : ~(k < m)
  BY <1>1 DEF OpToRel
<1>3. QED
  BY <1>2

\* A set of naturals that holds 0 and is closed under successor is Nat.
LEMMA NatClosed ==
    ASSUME NEW T, 0 \in T, \A n \in Nat : n \in T => n + 1 \in T
    PROVE  \A n \in Nat : n \in T
<1> DEFINE Out == {n \in Nat : n \notin T}
<1>1. SUFFICES ASSUME Out # {} PROVE FALSE
  OBVIOUS
<1>2. PICK m \in Out : \A k \in Out : m <= k
  BY <1>1, LeastNat
<1>3. m # 0 /\ m - 1 \in Nat
  OBVIOUS
<1>4. m - 1 \notin Out
  BY <1>2, <1>3
<1>5. m - 1 \in T /\ (m - 1) + 1 = m
  BY <1>3, <1>4
<1>6. QED
  BY <1>3, <1>5

-------------------------------------------------------------------------------
(* The sorted lists. *)

Sorted(s) == \A i, j \in DOMAIN s : i < j => s[i].handle <= s[j].handle

\* The elements of a list are events with a handle time that is a number.
LEMMA HandleTimeIsNat ==
    ASSUME NEW s \in Seq(QueuedEvent), NEW i \in 1..Len(s)
    PROVE  s[i] \in QueuedEvent /\ s[i].handle \in HandleTimes /\ s[i].handle \in Nat
<1>1. s[i] \in QueuedEvent
  BY ElementOfSeq
<1>2. QED
  BY <1>1, BoundsAssumption DEF QueuedEvent, HandleTimes

\* std::upper_bound has an answer in every list.
LEMMA UpperBoundExists ==
    ASSUME NEW s \in Seq(QueuedEvent), NEW h \in Nat
    PROVE  /\ UpperBound(s, h) \in 1..(Len(s) + 1)
           /\ \A j \in 1..(UpperBound(s, h) - 1) : s[j].handle <= h
           /\ UpperBound(s, h) <= Len(s) => s[UpperBound(s, h)].handle > h
<1> DEFINE Stop == {i \in 1..(Len(s) + 1) : i <= Len(s) => s[i].handle > h}
<1>1. Len(s) \in Nat /\ Stop \in SUBSET Nat
  BY LenProperties
<1>2. Len(s) + 1 \in Stop
  BY <1>1
<1>3. PICK m \in Stop : \A k \in Stop : m <= k
  BY <1>1, <1>2, LeastNat
<1>4. ASSUME NEW j \in 1..(m - 1) PROVE s[j].handle <= h
  <2>1. j \in 1..Len(s) /\ j \notin Stop
    BY <1>1, <1>3
  <2>2. s[j].handle \in Nat
    BY <2>1, HandleTimeIsNat
  <2>3. QED
    BY <2>1, <2>2
<1>5. QED
  BY <1>3, <1>4 DEF UpperBound

\* Where InsertEventsLocked puts an event: behind those that are not later, and before those
\* that are.
LEMMA InsertPlaces ==
    ASSUME NEW s \in Seq(QueuedEvent), NEW x \in QueuedEvent
    PROVE  \E u \in 1..(Len(s) + 1) :
              /\ \A j \in 1..(u - 1) : s[j].handle <= x.handle
              /\ u <= Len(s) => s[u].handle > x.handle
              /\ InsertEvent(s, x) \in Seq(QueuedEvent)
              /\ DOMAIN InsertEvent(s, x) = 1..(Len(s) + 1)
              /\ \A i \in 1..(Len(s) + 1) :
                    InsertEvent(s, x)[i] =
                        IF i < u THEN s[i] ELSE IF i = u THEN x ELSE s[i - 1]
<1> DEFINE u == UpperBound(s, x.handle)
           t == InsertEvent(s, x)
           a == SubSeq(s, 1, u - 1)
           b == SubSeq(s, u, Len(s))
<1>1. Len(s) \in Nat /\ DOMAIN s = 1..Len(s) /\ x.handle \in Nat
  BY LenProperties, BoundsAssumption DEF QueuedEvent, HandleTimes
<1>2. /\ u \in 1..(Len(s) + 1)
      /\ \A j \in 1..(u - 1) : s[j].handle <= x.handle
      /\ u <= Len(s) => s[u].handle > x.handle
  BY <1>1, UpperBoundExists
<1>3. \A i \in 1..Len(s) : s[i] \in QueuedEvent /\ s[i].handle \in Nat
  BY HandleTimeIsNat
<1> HIDE DEF u
<1>4. /\ a \in Seq(QueuedEvent) /\ Len(a) = u - 1
      /\ \A i \in 1..(u - 1) : a[i] = s[i]
  BY <1>1, <1>2, <1>3, SubSeqProperties
<1>5. /\ b \in Seq(QueuedEvent) /\ Len(b) = Len(s) - u + 1
      /\ \A i \in 1..(Len(s) - u + 1) : b[i] = s[u + i - 1]
  BY <1>1, <1>2, <1>3, SubSeqProperties
<1>6. t = (a \o <<x>>) \o b
  BY DEF InsertEvent, InsertAt, u
<1> HIDE DEF a, b, t
<1>7. /\ t \in Seq(QueuedEvent) /\ Len(t) = Len(s) + 1 /\ DOMAIN t = 1..(Len(s) + 1)
      /\ \A i \in 1..(Len(s) + 1) :
            t[i] = IF i < u THEN s[i] ELSE IF i = u THEN x ELSE s[i - 1]
  <2>1. <<x>> \in Seq(QueuedEvent) /\ Len(<<x>>) = 1 /\ <<x>>[1] = x
    OBVIOUS
  <2> DEFINE c == a \o <<x>>
  <2>2. /\ c \in Seq(QueuedEvent) /\ Len(c) = u
        /\ \A i \in 1..u : c[i] = IF i < u THEN s[i] ELSE x
    BY <1>1, <1>2, <1>4, <2>1, ConcatProperties
  <2> HIDE DEF c
  <2>3. /\ c \o b \in Seq(QueuedEvent) /\ Len(c \o b) = Len(s) + 1
        /\ \A i \in 1..(Len(s) + 1) :
              (c \o b)[i] = IF i <= u THEN c[i] ELSE b[i - u]
    <3>1. Len(c) + Len(b) = Len(s) + 1 /\ Len(c) = u
      BY <1>1, <1>2, <1>5, <2>2
    <3>2. /\ c \o b \in Seq(QueuedEvent) /\ Len(c \o b) = Len(c) + Len(b)
          /\ \A i \in 1..(Len(c) + Len(b)) :
                (c \o b)[i] = IF i <= Len(c) THEN c[i] ELSE b[i - Len(c)]
      BY <1>5, <2>2, ConcatProperties
    <3>3. QED
      BY <3>1, <3>2
  <2>4. ASSUME NEW i \in 1..(Len(s) + 1), i > u
        PROVE  b[i - u] = s[i - 1]
    <3>1. i - u \in 1..(Len(s) - u + 1) /\ u + (i - u) - 1 = i - 1
      BY <1>1, <1>2, <2>4
    <3>2. QED
      BY <3>1, <1>5
  <2>5. t = c \o b
    BY <1>6 DEF c
  <2>6. DOMAIN t = 1..(Len(s) + 1)
    BY <2>3, <2>5, LenProperties
  <2>7. QED
    BY <1>1, <1>2, <2>2, <2>3, <2>4, <2>5, <2>6
<1>8. QED
  BY <1>2, <1>7 DEF t

\* What InsertEventsLocked does to a sorted list.
LEMMA InsertProperties ==
    ASSUME NEW s \in Seq(QueuedEvent), NEW x \in QueuedEvent, Sorted(s)
    PROVE  /\ InsertEvent(s, x) \in Seq(QueuedEvent)
           /\ Sorted(InsertEvent(s, x))
           /\ \A i \in DOMAIN InsertEvent(s, x) :
                 InsertEvent(s, x)[i] = x \/ \E j \in DOMAIN s : InsertEvent(s, x)[i] = s[j]
<1>1. Len(s) \in Nat /\ DOMAIN s = 1..Len(s) /\ x.handle \in Nat
  BY LenProperties, BoundsAssumption DEF QueuedEvent, HandleTimes
<1>2. PICK u \in 1..(Len(s) + 1) :
        /\ \A j \in 1..(u - 1) : s[j].handle <= x.handle
        /\ u <= Len(s) => s[u].handle > x.handle
        /\ InsertEvent(s, x) \in Seq(QueuedEvent)
        /\ DOMAIN InsertEvent(s, x) = 1..(Len(s) + 1)
        /\ \A i \in 1..(Len(s) + 1) :
              InsertEvent(s, x)[i] =
                  IF i < u THEN s[i] ELSE IF i = u THEN x ELSE s[i - 1]
  BY InsertPlaces
<1> DEFINE t == InsertEvent(s, x)
<1>13. /\ t \in Seq(QueuedEvent) /\ DOMAIN t = 1..(Len(s) + 1)
       /\ \A i \in 1..(Len(s) + 1) :
             t[i] = IF i < u THEN s[i] ELSE IF i = u THEN x ELSE s[i - 1]
  BY <1>2
<1>3. \A i \in 1..Len(s) : s[i] \in QueuedEvent /\ s[i].handle \in Nat
  BY HandleTimeIsNat
<1> HIDE DEF t
<1>7. t \in Seq(QueuedEvent)
  BY <1>2, <1>13
<1>8. Sorted(t)
  <2>1. SUFFICES ASSUME NEW i \in 1..(Len(s) + 1), NEW j \in 1..(Len(s) + 1), i < j
                 PROVE  t[i].handle <= t[j].handle
    BY <1>2, <1>13 DEF Sorted
  <2>2. \A k, l \in 1..Len(s) : k < l => s[k].handle <= s[l].handle
    BY <1>1 DEF Sorted
  <2>3. \A k \in 1..Len(s) : k >= u => s[k].handle > x.handle
    BY <1>1, <1>2, <1>13, <1>3, <2>2
  <2>4. CASE j < u
    BY <1>1, <1>2, <1>13, <2>1, <2>2, <2>4
  <2>5. CASE j = u
    BY <1>1, <1>2, <1>13, <2>1, <2>5
  <2>6. CASE j > u /\ i = u
    <3>1. t[i] = x /\ t[j] = s[j - 1] /\ j - 1 \in 1..Len(s) /\ j - 1 >= u
      BY <1>1, <1>2, <1>13, <2>1, <2>6
    <3>2. QED
      BY <1>1, <1>3, <2>3, <3>1
  <2>7. CASE j > u /\ i < u
    <3>1. t[i] = s[i] /\ t[j] = s[j - 1] /\ j - 1 \in 1..Len(s) /\ i \in 1..Len(s)
      BY <1>1, <1>2, <1>13, <2>1, <2>7
    <3>2. i < j - 1
      BY <1>2, <1>13, <2>1, <2>7
    <3>3. QED
      BY <2>2, <3>1, <3>2
  <2>8. CASE j > u /\ i > u
    <3>1. /\ t[i] = s[i - 1] /\ t[j] = s[j - 1]
          /\ i - 1 \in 1..Len(s) /\ j - 1 \in 1..Len(s) /\ i - 1 < j - 1
      BY <1>1, <1>2, <1>13, <2>1, <2>8
    <3>2. QED
      BY <2>2, <3>1
  <2>9. QED
    BY <1>1, <1>2, <1>13, <2>1, <2>4, <2>5, <2>6, <2>7, <2>8
<1>9. ASSUME NEW i \in DOMAIN t
      PROVE  t[i] = x \/ \E j \in DOMAIN s : t[i] = s[j]
  <2>1. CASE i < u
    BY <1>1, <1>2, <1>13, <2>1
  <2>2. CASE i > u
    <3>1. i - 1 \in DOMAIN s /\ t[i] = s[i - 1]
      BY <1>1, <1>2, <1>13, <2>2
    <3>2. QED
      BY <3>1
  <2>3. QED
    BY <1>2, <1>13, <2>1, <2>2
<1>10. QED
  BY <1>7, <1>8, <1>9 DEF t

\* An insert changes the order of no two events of a sorted list: the new one goes behind its
\* equals.
LEMMA InsertOrder ==
    ASSUME NEW s \in Seq(QueuedEvent), NEW x \in QueuedEvent, Sorted(s),
           NEW y, NEW z, Before(InsertEvent(s, x), y, z)
    PROVE  \/ Before(s, y, z)
           \/ y = x /\ y.handle < z.handle
           \/ z = x /\ y.handle <= z.handle
<1>1. Len(s) \in Nat /\ DOMAIN s = 1..Len(s) /\ x.handle \in Nat
  BY LenProperties, BoundsAssumption DEF QueuedEvent, HandleTimes
<1>2. PICK u \in 1..(Len(s) + 1) :
        /\ \A j \in 1..(u - 1) : s[j].handle <= x.handle
        /\ u <= Len(s) => s[u].handle > x.handle
        /\ InsertEvent(s, x) \in Seq(QueuedEvent)
        /\ DOMAIN InsertEvent(s, x) = 1..(Len(s) + 1)
        /\ \A i \in 1..(Len(s) + 1) :
              InsertEvent(s, x)[i] =
                  IF i < u THEN s[i] ELSE IF i = u THEN x ELSE s[i - 1]
  BY InsertPlaces
<1> DEFINE t == InsertEvent(s, x)
<1>13. /\ t \in Seq(QueuedEvent) /\ DOMAIN t = 1..(Len(s) + 1)
       /\ \A i \in 1..(Len(s) + 1) :
             t[i] = IF i < u THEN s[i] ELSE IF i = u THEN x ELSE s[i - 1]
  BY <1>2
<1>3. PICK i \in DOMAIN t, j \in DOMAIN t : i < j /\ t[i] = y /\ t[j] = z
  BY DEF Before
<1> HIDE DEF t
<1>4. CASE i = u
  <2>1. y = x /\ z = s[j - 1] /\ j - 1 \in 1..Len(s) /\ u \in 1..Len(s) /\ u <= j - 1
    BY <1>1, <1>2, <1>13, <1>3, <1>4
  <2>2. s[u].handle > x.handle
    BY <1>1, <1>2, <1>13, <2>1
  <2>3. s[u].handle \in Nat /\ s[j - 1].handle \in Nat
    BY <2>1, HandleTimeIsNat
  <2>4. s[u].handle <= s[j - 1].handle
    BY <1>1, <2>1, <2>3 DEF Sorted
  <2>5. QED
    BY <1>1, <2>1, <2>2, <2>3, <2>4
<1>5. CASE j = u
  BY <1>1, <1>2, <1>13, <1>3, <1>5
<1>6. CASE i # u /\ j # u
  <2> DEFINE k == IF i < u THEN i ELSE i - 1
             l == IF j < u THEN j ELSE j - 1
  <2>1. k \in DOMAIN s /\ l \in DOMAIN s /\ k < l /\ s[k] = y /\ s[l] = z
    BY <1>1, <1>2, <1>13, <1>3, <1>6
  <2> HIDE DEF k, l
  <2>2. QED
    BY <2>1 DEF Before
<1>7. QED
  BY <1>4, <1>5, <1>6

\* The recursion of remove_if, as a relation on functions.
Keeps(g, n, s, filter) ==
    g = [i \in 0..n |-> IF i = 0 THEN <<>>
                        ELSE IF s[i].ev \in filter THEN g[i - 1]
                        ELSE Append(g[i - 1], s[i])]

\* What the fold of remove_if does with one more element.
LEMMA KeepsStep ==
    ASSUME NEW g, NEW n \in Nat, NEW s, NEW filter, Keeps(g, n, s, filter)
    PROVE  \A i \in 0..n :
              g[i] = IF i = 0 THEN <<>>
                     ELSE IF s[i].ev \in filter THEN g[i - 1]
                     ELSE Append(g[i - 1], s[i])
<1> DEFINE step(i) == IF i = 0 THEN <<>>
                      ELSE IF s[i].ev \in filter THEN g[i - 1]
                      ELSE Append(g[i - 1], s[i])
<1>1. g = [i \in 0..n |-> step(i)]
  BY DEF Keeps
<1> HIDE DEF step
<1>2. \A i \in 0..n : g[i] = step(i)
  BY <1>1
<1>3. QED
  BY <1>2 DEF step

\* The recursive function in RemoveIf is defined on every prefix of the list.
LEMMA KeepsExists ==
    ASSUME NEW s \in Seq(QueuedEvent), NEW filter
    PROVE  \E g : Keeps(g, Len(s), s, filter)
<1> DEFINE T == {n \in Nat : \E g : Keeps(g, n, s, filter)}
<1>1. 0 \in T
  <2> DEFINE g == [i \in 0..0 |-> <<>>]
  <2>1. Keeps(g, 0, s, filter)
    BY DEF Keeps
  <2>2. QED
    BY <2>1
<1>2. ASSUME NEW n \in Nat, n \in T
      PROVE  n + 1 \in T
  <2>1. PICK g : Keeps(g, n, s, filter)
    BY <1>2
  <2> DEFINE last == IF s[n + 1].ev \in filter THEN g[n] ELSE Append(g[n], s[n + 1])
             h == [i \in 0..(n + 1) |-> IF i <= n THEN g[i] ELSE last]
             step(i) == IF i = 0 THEN <<>>
                        ELSE IF s[i].ev \in filter THEN h[i - 1]
                        ELSE Append(h[i - 1], s[i])
  <2>2. \A i \in 0..n : h[i] = g[i]
    OBVIOUS
  <2>3. \A i \in 0..(n + 1) : h[i] = step(i)
    <3>1. TAKE i \in 0..(n + 1)
    <3>2. CASE i = 0
      BY <2>1, <3>2 DEF Keeps
    <3>3. CASE i \in 1..n
      <4>1. g[i] = IF s[i].ev \in filter THEN g[i - 1] ELSE Append(g[i - 1], s[i])
        BY <2>1, <3>3, KeepsStep
      <4>2. h[i - 1] = g[i - 1] /\ h[i] = g[i] /\ i # 0
        BY <3>3, <2>2
      <4>3. QED
        BY <4>1, <4>2
    <3>4. CASE i = n + 1
      <4>1. h[n + 1] = last /\ h[n] = g[n] /\ i - 1 = n /\ i # 0
        BY <3>4
      <4>2. QED
        BY <3>4, <4>1
    <3>5. QED
      BY <3>1, <3>2, <3>3, <3>4
  <2>4. h = [i \in 0..(n + 1) |-> step(i)]
    <3>1. h = [i \in 0..(n + 1) |-> h[i]]
      OBVIOUS
    <3> HIDE DEF h
    <3>2. QED
      BY <2>3, <3>1
  <2>5. Keeps(h, n + 1, s, filter)
    BY <2>4 DEF Keeps
  <2>6. QED
    BY <2>5
<1>3. \A n \in Nat : n \in T
  <2> HIDE DEF T
  <2>1. QED
    BY <1>1, <1>2, NatClosed
<1>4. QED
  BY <1>3, LenProperties

\* What remove_if does to a list: what is left of it stays in order.
LEMMA RemovePlaces ==
    ASSUME NEW s \in Seq(QueuedEvent), NEW filter
    PROVE  /\ RemoveIf(s, filter) \in Seq(QueuedEvent)
           /\ \A i \in DOMAIN RemoveIf(s, filter) :
                 \E j \in DOMAIN s : RemoveIf(s, filter)[i] = s[j]
           /\ \A i, j \in DOMAIN RemoveIf(s, filter) : i < j =>
                 Before(s, RemoveIf(s, filter)[i], RemoveIf(s, filter)[j])
<1> DEFINE kept == CHOOSE g : Keeps(g, Len(s), s, filter)
           Fine(i) == /\ kept[i] \in Seq(QueuedEvent)
                      /\ \A k \in DOMAIN kept[i] : \E j \in 1..i : kept[i][k] = s[j]
                      /\ \A k, l \in DOMAIN kept[i] : k < l =>
                            Before(s, kept[i][k], kept[i][l])
           T == {n \in Nat : n <= Len(s) => Fine(n)}
<1>1. RemoveIf(s, filter) = kept[Len(s)]
  BY DEF RemoveIf, Keeps
<1>2. Keeps(kept, Len(s), s, filter)
  BY KeepsExists
<1>3. Len(s) \in Nat /\ DOMAIN s = 1..Len(s)
  BY LenProperties
<1> HIDE DEF kept
<1>4. 0 \in T
  <2>1. kept[0] = <<>>
    BY <1>2, <1>3 DEF Keeps
  <2>2. DOMAIN <<>> = {} /\ <<>> \in Seq(QueuedEvent)
    OBVIOUS
  <2>3. QED
    BY <2>1, <2>2
<1>5. ASSUME NEW n \in Nat, n \in T
      PROVE  n + 1 \in T
  <2>1. SUFFICES ASSUME n + 1 <= Len(s) PROVE Fine(n + 1)
    OBVIOUS
  <2>2. Fine(n)
    BY <1>3, <1>5, <2>1
  <2>3. kept[n + 1] = IF s[n + 1].ev \in filter THEN kept[n] ELSE Append(kept[n], s[n + 1])
    <3>1. n + 1 \in 0..Len(s) /\ n + 1 # 0 /\ (n + 1) - 1 = n
      BY <1>3, <2>1
    <3>2. QED
      BY <1>2, <1>3, <3>1, KeepsStep
  <2>4. CASE s[n + 1].ev \in filter
    BY <2>2, <2>3, <2>4
  <2>5. CASE s[n + 1].ev \notin filter
    <3> DEFINE a == kept[n]
               b == Append(kept[n], s[n + 1])
    <3>1. kept[n + 1] = b
      BY <2>3, <2>5
    <3>2. s[n + 1] \in QueuedEvent /\ n + 1 \in DOMAIN s
      BY <1>3, <2>1, HandleTimeIsNat
    <3>3. /\ a \in Seq(QueuedEvent) /\ Len(a) \in Nat /\ DOMAIN a = 1..Len(a)
          /\ b \in Seq(QueuedEvent) /\ Len(b) = Len(a) + 1 /\ DOMAIN b = 1..(Len(a) + 1)
          /\ \A k \in 1..Len(a) : b[k] = a[k]
          /\ b[Len(a) + 1] = s[n + 1]
      BY <2>2, <3>2, AppendProperties, LenProperties
    <3>4. \A k \in DOMAIN a : \E j \in 1..n : a[k] = s[j]
      BY <2>2
    <3>5. \A k, l \in DOMAIN a : k < l => Before(s, a[k], a[l])
      BY <2>2
    <3> HIDE DEF a, b
    <3>6. ASSUME NEW k \in DOMAIN a
          PROVE  Before(s, a[k], s[n + 1])
      <4>1. PICK j \in 1..n : a[k] = s[j]
        BY <3>4, <3>6
      <4>2. j \in DOMAIN s /\ j < n + 1
        BY <1>3, <2>1, <4>1
      <4>3. QED
        BY <3>2, <4>1, <4>2 DEF Before
    <3>7. ASSUME NEW k \in DOMAIN b, NEW l \in DOMAIN b, k < l
          PROVE  Before(s, b[k], b[l])
      <4>1. CASE l <= Len(a)
        BY <3>3, <3>5, <3>7, <4>1
      <4>2. CASE l = Len(a) + 1
        <5>1. k \in DOMAIN a /\ b[k] = a[k] /\ b[l] = s[n + 1]
          BY <3>3, <3>7, <4>2
        <5>2. QED
          BY <3>6, <5>1
      <4>3. QED
        BY <3>3, <4>1, <4>2
    <3>8. ASSUME NEW k \in DOMAIN b
          PROVE  \E j \in 1..(n + 1) : b[k] = s[j]
      <4>1. CASE k = Len(a) + 1
        BY <3>3, <4>1
      <4>2. CASE k # Len(a) + 1
        <5>1. k \in DOMAIN a /\ b[k] = a[k]
          BY <3>3, <4>2
        <5>2. QED
          BY <3>4, <5>1
      <4>3. QED
        BY <4>1, <4>2
    <3>9. QED
      BY <3>1, <3>3, <3>7, <3>8
  <2>6. QED
    BY <2>4, <2>5
<1>6. Len(s) \in T
  <2> HIDE DEF T
  <2>1. QED
    BY <1>3, <1>4, <1>5, NatClosed
<1>7. QED
  BY <1>1, <1>3, <1>6

\* What remove_if does to a sorted list.
LEMMA RemoveProperties ==
    ASSUME NEW s \in Seq(QueuedEvent), NEW filter, Sorted(s)
    PROVE  /\ RemoveIf(s, filter) \in Seq(QueuedEvent)
           /\ Sorted(RemoveIf(s, filter))
           /\ \A i \in DOMAIN RemoveIf(s, filter) :
                 \E j \in DOMAIN s : RemoveIf(s, filter)[i] = s[j]
<1> DEFINE t == RemoveIf(s, filter)
<1>1. \A i, j \in DOMAIN t : i < j => Before(s, t[i], t[j])
  BY RemovePlaces
<1> HIDE DEF t
<1>2. ASSUME NEW i \in DOMAIN t, NEW j \in DOMAIN t, i < j
      PROVE  t[i].handle <= t[j].handle
  <2>1. Before(s, t[i], t[j])
    BY <1>1, <1>2
  <2>2. QED
    BY <2>1 DEF Before, Sorted
<1>3. Sorted(t)
  BY <1>2 DEF Sorted
<1>4. QED
  BY <1>3, RemovePlaces DEF t

-------------------------------------------------------------------------------
(* The queue. *)

\* The inductive invariant.  Sortedness is what lets the scan look at the
\* fronts alone, so SleepCoversQueue does not hold up without it.
IInv == TypeOK /\ ListsSorted /\ SleepCoversQueue

\* Each list of a well-typed state is a sequence of events.
LEMMA ListTypes ==
    ASSUME TypeOK, NEW p \in Priorities
    PROVE  /\ list[p] \in Seq(QueuedEvent) /\ Len(list[p]) \in Nat
           /\ DOMAIN list[p] = 1..Len(list[p])
           /\ ListsSorted => Sorted(list[p])
<1>1. list[p] \in Seq(QueuedEvent)
  BY DEF TypeOK
<1>2. QED
  BY <1>1, LenProperties DEF ListsSorted, Sorted

\* The front of a sorted list that is not empty has the least handle time in it.
LEMMA FrontTimes ==
    ASSUME TypeOK, NEW p \in Priorities, list[p] # <<>>
    PROVE  /\ FrontTime(p) \in HandleTimes /\ FrontTime(p) \in Nat
           /\ ListsSorted => \A i \in DOMAIN list[p] : FrontTime(p) <= list[p][i].handle
<1>1. list[p] \in Seq(QueuedEvent) /\ DOMAIN list[p] = 1..Len(list[p]) /\ Len(list[p]) \in Nat
  BY ListTypes
<1>2. 1 \in DOMAIN list[p]
  BY <1>1, EmptySeq
<1>3. \A i \in DOMAIN list[p] : list[p][i].handle \in HandleTimes /\ list[p][i].handle \in Nat
  BY <1>1, HandleTimeIsNat
<1>4. ASSUME ListsSorted, NEW i \in DOMAIN list[p]
      PROVE  FrontTime(p) <= list[p][i].handle
  <2>1. CASE i = 1
    BY <1>3, <2>1 DEF FrontTime
  <2>2. CASE i # 1
    <3>1. 1 < i
      BY <1>1, <2>2
    <3>2. QED
      BY <1>2, <1>4, <3>1 DEF ListsSorted, FrontTime
  <2>3. QED
    BY <2>1, <2>2
<1>5. QED
  BY <1>2, <1>3, <1>4 DEF FrontTime

\* pop_front leaves a sorted list with the events behind the front.
LEMMA TailProperties ==
    ASSUME NEW s \in Seq(QueuedEvent), s # <<>>, Sorted(s)
    PROVE  Tail(s) \in Seq(QueuedEvent) /\ Sorted(Tail(s))
<1>1. /\ Tail(s) \in Seq(QueuedEvent) /\ Len(Tail(s)) = Len(s) - 1
      /\ \A i \in 1..(Len(s) - 1) : Tail(s)[i] = s[i + 1]
  BY HeadTailProperties
<1>2. /\ Len(s) \in Nat /\ DOMAIN s = 1..Len(s) /\ DOMAIN Tail(s) = 1..(Len(s) - 1)
  BY <1>1, LenProperties
<1>3. ASSUME NEW i \in 1..(Len(s) - 1), NEW j \in 1..(Len(s) - 1), i < j
      PROVE  Tail(s)[i].handle <= Tail(s)[j].handle
  <2>1. i + 1 \in DOMAIN s /\ j + 1 \in DOMAIN s /\ i + 1 < j + 1
    BY <1>2, <1>3
  <2>2. QED
    BY <1>1, <2>1 DEF Sorted
<1>4. QED
  BY <1>1, <1>2, <1>3 DEF Sorted

\* The first front that is due is a candidate, so a scan without a candidate
\* means that nothing is due.
LEMMA FirstDueIsCandidate ==
    ASSUME TypeOK, NEW p \in SubQueues, DueIn(p), \A q \in SubQueues : q < p => ~DueIn(q)
    PROVE  Candidate(p)
<1>1. now \in Nat /\ SubQueues \subseteq Priorities
  BY BoundsAssumption DEF TypeOK, Times, SubQueues, Priorities, VIP, LOW, IDLE
<1>2. FrontTime(p) \in Nat /\ FrontTime(p) <= now
  BY <1>1, FrontTimes DEF DueIn
<1>3. ASSUME NEW q \in SubQueues, q < p, list[q] # <<>>
      PROVE  FrontTime(p) < FrontTime(q)
  <2>1. FrontTime(q) \in Nat
    BY <1>1, <1>3, FrontTimes
  <2>2. ~(FrontTime(q) <= now)
    BY <1>3 DEF DueIn
  <2>3. QED
    BY <1>1, <1>2, <2>1, <2>2
<1>4. QED
  BY <1>2, <1>3 DEF Candidate, DueIn

\* When the scan finds no candidate, no sub queue has an event that is due.
LEMMA NothingDueMeansNone ==
    ASSUME TypeOK, NothingDue
    PROVE  \A p \in SubQueues : ~DueIn(p)
<1> DEFINE D == {p \in SubQueues : DueIn(p)}
<1>1. SUFFICES ASSUME D # {} PROVE FALSE
  OBVIOUS
<1>2. D \in SUBSET Nat
  BY DEF SubQueues, VIP, LOW
<1>3. PICK m \in D : \A k \in D : m <= k
  BY <1>1, <1>2, LeastNat
<1>4. \A q \in SubQueues : q < m => ~DueIn(q)
  BY <1>3 DEF SubQueues, VIP, LOW
<1>5. QED
  BY <1>3, <1>4, FirstDueIsCandidate DEF NothingDue

\* The sub queues are lists of the queue, and so is that of the idle events.
LEMMA PriorityFacts ==
    /\ SubQueues \subseteq Priorities /\ IDLE \in Priorities /\ IDLE \notin SubQueues
    /\ Priorities = SubQueues \cup {IDLE}
    /\ SubQueues \subseteq Nat /\ Sendable \subseteq Priorities
BY SendableAssumption DEF SubQueues, Priorities, VIP, LOW, IDLE

\* Handle times and the clock are numbers, and Forever lies after them.
LEMMA NumberFacts ==
    /\ Times \subseteq HandleTimes /\ HandleTimes \subseteq Nat /\ Times \subseteq Nat
    /\ Forever \in Nat /\ \A h \in HandleTimes : h < Forever
BY BoundsAssumption DEF Times, HandleTimes, Forever

\* The constructor establishes the invariant.
LEMMA InitHolds == Init => IInv
<1> SUFFICES ASSUME Init PROVE IInv
  OBVIOUS
<1>1. \A p \in Priorities : list[p] = <<>> /\ list[p] \in Seq(QueuedEvent) /\ DOMAIN list[p] = {}
  BY DEF Init
<1>2. TypeOK
  <2>1. 0 \in Times /\ 0 \in 0..MaxHandled
    BY BoundsAssumption DEF Times
  <2>2. list \in [Priorities -> Seq(QueuedEvent)] /\ handledCount \in [SubQueues -> 0..MaxHandled]
    BY <1>1, <2>1 DEF Init
  <2>3. QED
    BY <2>1, <2>2 DEF Init, TypeOK
<1>3. ListsSorted /\ SleepCoversQueue
  BY <1>1, PriorityFacts DEF Init, ListsSorted, SleepCoversQueue
<1>4. QED
  BY <1>2, <1>3 DEF IInv

\* Insert preserves the invariant: it notifies when the new event is too early.
LEMMA InsertStep ==
    ASSUME IInv, NEW e \in Events, NEW p \in Sendable, NEW sent \in Times,
           NEW delay \in 0..MaxDelay, Insert(e, p, sent, delay)
    PROVE  IInv'
<1> DEFINE x == [ev |-> e, send |-> sent, handle |-> sent + delay]
<1>1. x \in QueuedEvent /\ x.handle \in Nat
  BY BoundsAssumption DEF QueuedEvent, Times, HandleTimes
<1>2. p \in Priorities /\ list \in [Priorities -> Seq(QueuedEvent)]
  BY PriorityFacts DEF IInv, TypeOK
<1>3. /\ list' = [list EXCEPT ![p] = InsertEvent(list[p], x)]
      /\ asleep' = (asleep /\ ~(p # IDLE /\ x.handle < wakeUpTime))
      /\ UNCHANGED <<now, handledCount, wakeUpTime, idleTimeStamp, isIdle>>
  BY DEF Insert, InsertLocked, Notifies
<1> HIDE DEF x
<1>4. /\ InsertEvent(list[p], x) \in Seq(QueuedEvent)
      /\ Sorted(InsertEvent(list[p], x))
      /\ \A i \in DOMAIN InsertEvent(list[p], x) :
            \/ InsertEvent(list[p], x)[i] = x
            \/ \E j \in DOMAIN list[p] : InsertEvent(list[p], x)[i] = list[p][j]
  BY <1>1, <1>2, ListTypes, InsertProperties DEF IInv
<1>5. TypeOK'
  BY <1>2, <1>3, <1>4 DEF IInv, TypeOK
<1>6. ListsSorted'
  <2>1. \A q \in Priorities : Sorted(list'[q])
    BY <1>2, <1>3, <1>4, ListTypes DEF IInv
  <2>2. QED
    BY <2>1 DEF ListsSorted, Sorted
<1>7. SleepCoversQueue'
  <2>1. SUFFICES ASSUME asleep', NEW q \in SubQueues, NEW i \in DOMAIN list'[q]
                 PROVE  wakeUpTime <= list'[q][i].handle
    BY <1>3 DEF SleepCoversQueue
  <2>2. \A r \in SubQueues : \A j \in DOMAIN list[r] : wakeUpTime <= list[r][j].handle
    BY <1>3, <2>1 DEF IInv, SleepCoversQueue
  <2>3. p # IDLE => wakeUpTime <= x.handle
    <3>1. ~(p # IDLE /\ x.handle < wakeUpTime)
      BY <1>3, <2>1, Zenon
    <3>2. wakeUpTime \in Nat
      BY NumberFacts DEF IInv, TypeOK
    <3>3. QED
      BY <1>1, <3>1, <3>2
  <2>4. QED
    BY <1>2, <1>3, <1>4, <2>1, <2>2, <2>3, PriorityFacts
<1>8. QED
  BY <1>5, <1>6, <1>7 DEF IInv

\* Remove preserves the invariant: what is left of a sorted list is sorted.
LEMMA RemoveStep ==
    ASSUME IInv, NEW filter, RemoveEvents(filter)
    PROVE  IInv'
<1>1. \A p \in Priorities :
        /\ list'[p] = RemoveIf(list[p], filter)
        /\ list'[p] \in Seq(QueuedEvent) /\ Sorted(list'[p])
        /\ \A i \in DOMAIN list'[p] : \E j \in DOMAIN list[p] : list'[p][i] = list[p][j]
  BY ListTypes, RemoveProperties DEF RemoveEvents, RemoveLocked, IInv
<1>2. UNCHANGED <<now, handledCount, wakeUpTime, idleTimeStamp, isIdle, asleep>>
  BY DEF RemoveEvents, RemoveLocked
<1>3. TypeOK'
  <2>1. list' \in [Priorities -> Seq(QueuedEvent)]
    BY <1>1 DEF RemoveEvents, RemoveLocked
  <2>2. QED
    BY <1>2, <2>1 DEF IInv, TypeOK
<1>4. ListsSorted'
  BY <1>1 DEF ListsSorted, Sorted
<1>5. SleepCoversQueue'
  BY <1>1, <1>2, PriorityFacts DEF IInv, SleepCoversQueue
<1>6. QED
  BY <1>3, <1>4, <1>5 DEF IInv

\* Handing out an event of a sub queue preserves the invariant.
LEMMA PickEventStep ==
    ASSUME IInv, NEW p \in SubQueues, PickEvent(p)
    PROVE  IInv'
<1>1. /\ ~asleep /\ Picks(p) /\ Stops(p) /\ Candidate(p)
      /\ handledCount' = CountsAfter(p) /\ wakeUpTime' = TimeMet(p)
      /\ list' = [list EXCEPT ![p] = Tail(list[p])]
      /\ isIdle' = FALSE /\ UNCHANGED <<now, idleTimeStamp, asleep>>
  BY DEF PickEvent, PickEventLocked, Picks, Stops
<1>2. p \in Priorities /\ list \in [Priorities -> Seq(QueuedEvent)] /\ list[p] # <<>>
  BY <1>1, PriorityFacts DEF IInv, TypeOK, Candidate
<1>3. Tail(list[p]) \in Seq(QueuedEvent) /\ Sorted(Tail(list[p]))
  BY <1>2, ListTypes, TailProperties DEF IInv
<1>4. handledCount' \in [SubQueues -> 0..MaxHandled]
  <2>1. \A q \in SubQueues : handledCount[q] \in 0..MaxHandled
    BY DEF IInv, TypeOK
  <2>2. LaterCandidates(p) # {} => handledCount[p] + 1 \in 0..MaxHandled
    BY <1>1, <2>1, BoundsAssumption DEF Stops
  <2>3. \A q \in SubQueues : CountsAfter(p)[q] \in 0..MaxHandled
    BY <2>1, <2>2, BoundsAssumption DEF CountsAfter
  <2>4. QED
    BY <1>1, <2>3 DEF CountsAfter
<1>5. wakeUpTime' \in HandleTimes
  <2>1. CASE LaterCandidates(p) = {}
    BY <1>1, <1>2, <2>1, FrontTimes DEF TimeMet, IInv
  <2>2. CASE LaterCandidates(p) # {}
    <3>1. LaterCandidates(p) \in SUBSET Nat
      BY PriorityFacts DEF LaterCandidates
    <3>2. \E q \in LaterCandidates(p) : \A r \in LaterCandidates(p) : q <= r
      BY <2>2, <3>1, LeastNat
    <3> DEFINE q == CHOOSE q \in LaterCandidates(p) : \A r \in LaterCandidates(p) : q <= r
    <3>3. q \in LaterCandidates(p)
      BY <3>2
    <3> HIDE DEF q
    <3>4. q \in Priorities /\ list[q] # <<>>
      BY <3>3, PriorityFacts DEF LaterCandidates, Candidate
    <3>5. FrontTime(q) \in HandleTimes
      BY <3>4, FrontTimes DEF IInv
    <3>6. QED
      BY <1>1, <2>2, <3>5 DEF TimeMet, q
  <2>3. QED
    BY <2>1, <2>2
<1>6. TypeOK'
  BY <1>1, <1>2, <1>3, <1>4, <1>5 DEF IInv, TypeOK
<1>7. ListsSorted'
  <2>1. \A q \in Priorities : Sorted(list'[q])
    BY <1>1, <1>2, <1>3, ListTypes DEF IInv
  <2>2. QED
    BY <2>1 DEF ListsSorted, Sorted
<1>8. SleepCoversQueue'
  BY <1>1 DEF SleepCoversQueue
<1>9. QED
  BY <1>6, <1>7, <1>8 DEF IInv

\* Handing out an idle event preserves the invariant.
LEMMA PickIdleStep ==
    ASSUME IInv, PickIdleEvent
    PROVE  IInv'
<1>1. /\ ~asleep /\ list[IDLE] # <<>>
      /\ list' = [list EXCEPT ![IDLE] = Tail(list[IDLE])]
      /\ isIdle' = TRUE /\ UNCHANGED <<now, handledCount, asleep>>
      /\ wakeUpTime' \in HandleTimes \cup {Forever}
      /\ idleTimeStamp' = IF isIdle THEN idleTimeStamp ELSE now
  BY DEF PickIdleEvent, PickIdleLocked, EnterIdle, IdleReady
<1>2. IDLE \in Priorities /\ list \in [Priorities -> Seq(QueuedEvent)]
  BY PriorityFacts DEF IInv, TypeOK
<1>3. Tail(list[IDLE]) \in Seq(QueuedEvent) /\ Sorted(Tail(list[IDLE]))
  BY <1>1, <1>2, ListTypes, TailProperties DEF IInv
<1>4. TypeOK'
  BY <1>1, <1>2, <1>3 DEF IInv, TypeOK
<1>5. ListsSorted'
  <2>1. \A q \in Priorities : Sorted(list'[q])
    BY <1>1, <1>2, <1>3, ListTypes DEF IInv
  <2>2. QED
    BY <2>1 DEF ListsSorted, Sorted
<1>6. SleepCoversQueue'
  BY <1>1 DEF SleepCoversQueue
<1>7. QED
  BY <1>4, <1>5, <1>6 DEF IInv

\* Going to sleep preserves the invariant: wakeUpTime_ is the earliest front.
LEMMA FindNothingStep ==
    ASSUME IInv, FindNothing
    PROVE  IInv'
<1>1. /\ asleep' \in BOOLEAN /\ isIdle' = TRUE
      /\ UNCHANGED <<now, list, handledCount>>
      /\ wakeUpTime' \in HandleTimes \cup {Forever}
      /\ EarliestTime(wakeUpTime')
      /\ idleTimeStamp' = IF isIdle THEN idleTimeStamp ELSE now
  BY DEF FindNothing, FindNothingLocked, EnterIdle
<1>2. TypeOK' /\ ListsSorted'
  BY <1>1 DEF IInv, TypeOK, ListsSorted
<1>3. SleepCoversQueue'
  <2>1. SUFFICES ASSUME NEW p \in SubQueues, NEW i \in DOMAIN list[p]
                 PROVE  wakeUpTime' <= list[p][i].handle
    BY <1>1 DEF SleepCoversQueue
  <2>2. /\ p \in Priorities /\ list[p] \in Seq(QueuedEvent)
        /\ DOMAIN list[p] = 1..Len(list[p])
    BY PriorityFacts, ListTypes DEF IInv
  <2>3. list[p] # <<>>
    BY <2>1, <2>2
  <2>4. FrontTime(p) \in Nat /\ FrontTime(p) <= list[p][i].handle
    BY <2>1, <2>2, <2>3, FrontTimes DEF IInv
  <2>5. wakeUpTime' <= FrontTime(p)
    BY <1>1, <2>3 DEF EarliestTime
  <2>6. wakeUpTime' \in Nat /\ list[p][i].handle \in Nat
    BY <1>1, <2>2, NumberFacts, HandleTimeIsNat
  <2>7. QED
    BY <2>4, <2>5, <2>6
<1>4. QED
  BY <1>2, <1>3 DEF IInv

\* Every step preserves the invariant.
LEMMA NextStep == IInv /\ [Next]_vars => IInv'
<1> SUFFICES ASSUME IInv, [Next]_vars PROVE IInv'
  OBVIOUS
<1>1. CASE Tick
  <2>1. now' \in Times
    BY <1>1, BoundsAssumption DEF Tick, Times, IInv, TypeOK
  <2>2. QED
    BY <1>1, <2>1 DEF Tick, IInv, TypeOK, ListsSorted, SleepCoversQueue
<1>2. CASE Send
  BY <1>2, InsertStep DEF Send
<1>3. CASE \E filter \in Filters : RemoveEvents(filter)
  BY <1>3, RemoveStep
<1>4. CASE GetExpiredEvent
  BY <1>4, PickEventStep, PickIdleStep, FindNothingStep DEF GetExpiredEvent
<1>5. CASE TimeOut \/ Interrupt
  BY <1>5 DEF TimeOut, Interrupt, IInv, TypeOK, ListsSorted, SleepCoversQueue
<1>6. CASE UNCHANGED vars
  BY <1>6 DEF vars, IInv, TypeOK, ListsSorted, SleepCoversQueue
<1>7. QED
  BY <1>1, <1>2, <1>3, <1>4, <1>5, <1>6 DEF Next

\* The inductive invariant of GetEvent, Insert and Remove (event_queue.cpp).
THEOREM Invariance == Spec => []IInv
BY InitHolds, NextStep, PTL DEF Spec

\* Every list of the queue is sorted by handle time at all times.
THEOREM AlwaysSorted == Spec => []ListsSorted
BY Invariance, PTL DEF IInv

\* No insert, removal or scan leaves the consumer asleep past the time of an
\* event that waits in a sub queue.
THEOREM NoLostWakeUp == Spec => []SleepCoversQueue
BY Invariance, PTL DEF IInv

\* The counts of SubEventQueue stay within their limit, and every time is in range.
THEOREM TypeCorrect == Spec => []TypeOK
BY Invariance, PTL DEF IInv

-------------------------------------------------------------------------------
(* The steps of the consumer. *)

\* An idle event is taken only when no event of a sub queue is due, and only
\* if it was sent before the queue ran dry.
THEOREM IdleWaitsForAll == Spec => IdleYields
<1> DEFINE Yields ==
        PickIdleEvent =>
          /\ \A p \in SubQueues : \A i \in DOMAIN list[p] : list[p][i].handle > now
          /\ ~isIdle \/ list[IDLE][1].send <= idleTimeStamp
<1>1. ASSUME IInv, PickIdleEvent PROVE Yields
  <2>1. NothingDue /\ idleTimeStamp' = (IF isIdle THEN idleTimeStamp ELSE now)
        /\ list[IDLE][1].send <= idleTimeStamp'
    BY <1>1 DEF PickIdleEvent, PickIdleLocked, EnterIdle, IdleReady
  <2>2. \A p \in SubQueues : ~DueIn(p)
    BY <1>1, <2>1, NothingDueMeansNone DEF IInv
  <2>3. ASSUME NEW p \in SubQueues, NEW i \in DOMAIN list[p]
        PROVE  list[p][i].handle > now
    <3>1. /\ p \in Priorities /\ list[p] \in Seq(QueuedEvent)
          /\ DOMAIN list[p] = 1..Len(list[p])
      BY <1>1, PriorityFacts, ListTypes DEF IInv
    <3>2. list[p] # <<>>
      BY <2>3, <3>1
    <3>3. FrontTime(p) \in Nat /\ FrontTime(p) <= list[p][i].handle
      BY <1>1, <2>3, <3>1, <3>2, FrontTimes DEF IInv
    <3>4. ~(FrontTime(p) <= now) /\ now \in Nat /\ list[p][i].handle \in Nat
      BY <1>1, <2>2, <3>1, <3>2, NumberFacts, HandleTimeIsNat DEF DueIn, IInv, TypeOK
    <3>5. QED
      BY <3>3, <3>4
  <2>4. QED
    BY <2>1, <2>3
<1>2. IInv /\ [Next]_vars => [Yields]_vars
  BY <1>1
<1>3. QED
  BY <1>2, Invariance, PTL DEF Spec, IdleYields

\* What is picked is due, and it passes a more urgent event that is due only if
\* it is the older one and the most urgent list has used up its turns.
THEOREM PassingIsInTurn == Spec => PassesOnlyInTurn
<1> DEFINE Fair(p) ==
        PickEvent(p) =>
          /\ DueIn(p)
          /\ \A q \in SubQueues : q < p /\ DueIn(q) =>
               /\ FrontTime(p) < FrontTime(q)
               /\ (\A r \in SubQueues : r < q => ~DueIn(r))
                     => handledCount[q] = MaxHandled
<1>1. ASSUME IInv, NEW p \in SubQueues, PickEvent(p) PROVE Fair(p)
  <2>1. Candidate(p) /\ \A q \in SubQueues : q < p => ~Stops(q)
    BY <1>1 DEF PickEvent, PickEventLocked, Picks, Stops
  <2>2. ASSUME NEW q \in SubQueues, q < p, DueIn(q),
               \A r \in SubQueues : r < q => ~DueIn(r)
        PROVE  handledCount[q] = MaxHandled
    <3>1. Candidate(q)
      BY <1>1, <2>2, FirstDueIsCandidate DEF IInv
    <3>2. ~(handledCount[q] < MaxHandled)
      BY <2>1, <2>2, <3>1 DEF Stops
    <3>3. handledCount[q] \in 0..MaxHandled
      BY <1>1 DEF IInv, TypeOK
    <3>4. QED
      BY <3>2, <3>3, BoundsAssumption
  <2>3. QED
    BY <2>1, <2>2 DEF Candidate, DueIn
<1>2. IInv /\ [Next]_vars => [\A p \in SubQueues : Fair(p)]_vars
  BY <1>1
<1>3. QED
  BY <1>2, Invariance, PTL DEF Spec, PassesOnlyInTurn
-------------------------------------------------------------------------------
(* The order of the waiting events. *)

\* Taking the front of a list keeps the order of the others.
LEMMA TailOrder ==
    ASSUME NEW s \in Seq(QueuedEvent), s # <<>>, NEW y, NEW z, Before(Tail(s), y, z)
    PROVE  Before(s, y, z)
<1> DEFINE t == Tail(s)
<1>1. /\ Len(s) \in Nat /\ DOMAIN s = 1..Len(s)
      /\ DOMAIN t = 1..(Len(s) - 1) /\ \A i \in 1..(Len(s) - 1) : t[i] = s[i + 1]
  BY LenProperties, TailProperties
<1>2. PICK i \in DOMAIN t, j \in DOMAIN t : i < j /\ t[i] = y /\ t[j] = z
  BY DEF Before
<1> HIDE DEF t
<1>3. i + 1 \in DOMAIN s /\ j + 1 \in DOMAIN s /\ i + 1 < j + 1 /\ s[i + 1] = y /\ s[j + 1] = z
  BY <1>1, <1>2
<1>4. QED
  BY <1>3 DEF Before

\* An event that is not queued is in none of the lists.
LEMMA NotQueued ==
    ASSUME NEW e, e \notin Queued, NEW p \in Priorities, NEW x, x.ev = e
    PROVE  x \notin ToSet(list[p])
BY DEF Queued

\* What one step may do to the order of two events that wait in list p.
OrderKept(p, x, y) ==
    Before(list'[p], x, y) =>
        \/ Before(list[p], x, y)
        \/ x \notin ToSet(list[p]) /\ x.handle < y.handle
        \/ y \notin ToSet(list[p]) /\ x.handle <= y.handle

\* An insert puts the new event behind its equals.
LEMMA InsertKeepsOrder ==
    ASSUME IInv, NEW e \in Events, NEW q \in Sendable, NEW sent \in Times,
           NEW delay \in 0..MaxDelay, InsertLocked(e, q, sent, delay),
           NEW p \in Priorities, NEW y, NEW z
    PROVE  OrderKept(p, y, z)
<1> DEFINE x == [ev |-> e, send |-> sent, handle |-> sent + delay]
<1>1. x \in QueuedEvent /\ x.ev = e
  BY BoundsAssumption DEF QueuedEvent, HandleTimes, Times
<1>2. e \notin Queued /\ list' = [list EXCEPT ![q] = InsertEvent(list[q], x)]
  BY DEF InsertLocked
<1>3. x \notin ToSet(list[p])
  BY <1>1, <1>2, NotQueued
<1> HIDE DEF x
<1>4. list \in [Priorities -> Seq(QueuedEvent)] /\ q \in Priorities
  BY SendableAssumption DEF IInv, TypeOK
<1>5. CASE p = q
  <2>1. list'[p] = InsertEvent(list[p], x) /\ Sorted(list[p])
    BY <1>2, <1>4, <1>5, ListTypes DEF IInv
  <2>2. QED
    BY <1>1, <1>3, <1>4, <2>1, InsertOrder DEF OrderKept
<1>6. CASE p # q
  BY <1>2, <1>4, <1>6 DEF OrderKept
<1>7. QED
  BY <1>5, <1>6

\* A removal filters every list in order.
LEMMA RemoveKeepsOrder ==
    ASSUME IInv, NEW filter, RemoveLocked(filter), NEW p \in Priorities, NEW y, NEW z
    PROVE  OrderKept(p, y, z)
<1>1. list[p] \in Seq(QueuedEvent) /\ list'[p] = RemoveIf(list[p], filter)
  BY DEF RemoveLocked, IInv, TypeOK
<1>2. QED
  BY <1>1, RemovePlaces DEF OrderKept, Before

\* An event is taken from the front of its list.
LEMMA PickKeepsOrder ==
    ASSUME IInv, NEW q \in Priorities, list[q] # <<>>,
           list' = [list EXCEPT ![q] = Tail(list[q])], NEW p \in Priorities, NEW y, NEW z
    PROVE  OrderKept(p, y, z)
<1>1. list \in [Priorities -> Seq(QueuedEvent)]
  BY DEF IInv, TypeOK
<1>2. CASE p = q
  BY <1>1, <1>2, TailOrder DEF OrderKept
<1>3. CASE p # q
  BY <1>1, <1>3 DEF OrderKept
<1>4. QED
  BY <1>2, <1>3

\* Events of one list that are due at the same time keep the order in which they
\* were inserted, whatever is inserted, removed and handed out around them.
THEOREM OrderIsKept == Spec => KeepsOrder
<1>1. ASSUME IInv, [Next]_vars, NEW p \in Priorities, NEW x, NEW y PROVE OrderKept(p, x, y)
  <2>1. CASE Send
    <3>1. PICK e \in Events, q \in Sendable, sent \in Times, delay \in 0..MaxDelay :
            Insert(e, q, sent, delay)
      BY <2>1 DEF Send
    <3>2. QED
      BY <1>1, <3>1, InsertKeepsOrder DEF Insert
  <2>2. CASE \E filter \in Filters : RemoveEvents(filter)
    BY <1>1, <2>2, RemoveKeepsOrder DEF RemoveEvents
  <2>3. ASSUME NEW q \in SubQueues, PickEvent(q) PROVE OrderKept(p, x, y)
    <3>1. list[q] # <<>> /\ list' = [list EXCEPT ![q] = Tail(list[q])] /\ q \in Priorities
      BY <2>3, PriorityFacts DEF PickEvent, PickEventLocked, Picks, Stops, Candidate
    <3>2. QED
      BY <1>1, <3>1, PickKeepsOrder
  <2>4. CASE PickIdleEvent
    <3>1. list[IDLE] # <<>> /\ list' = [list EXCEPT ![IDLE] = Tail(list[IDLE])]
          /\ IDLE \in Priorities
      BY <2>4, PriorityFacts DEF PickIdleEvent, PickIdleLocked, IdleReady
    <3>2. QED
      BY <1>1, <3>1, PickKeepsOrder
  <2>5. CASE Tick \/ FindNothing \/ TimeOut \/ Interrupt \/ UNCHANGED vars
    <3>1. list' = list
      BY <2>5 DEF Tick, FindNothing, FindNothingLocked, TimeOut, Interrupt, vars
    <3>2. QED
      BY <3>1 DEF OrderKept
  <2>6. QED
    BY <1>1, <2>1, <2>2, <2>3, <2>4, <2>5 DEF Next, GetExpiredEvent
<1> DEFINE Kept ==
        \A p \in Priorities : \A x, y \in ToSet(list'[p]) :
            Before(list'[p], x, y) =>
                \/ Before(list[p], x, y)
                \/ x \notin ToSet(list[p]) /\ x.handle < y.handle
                \/ y \notin ToSet(list[p]) /\ x.handle <= y.handle
<1>2. IInv /\ [Next]_vars => [Kept]_vars
  BY <1>1 DEF OrderKept
<1>3. QED
  BY <1>2, Invariance, PTL DEF Spec, KeepsOrder

-------------------------------------------------------------------------------
(* The passes: the turns of handledEventsCount read as the digits of a      *)
(* number that every pick from a list before p raises.                      *)

\* What one turn of list q is worth: all the turns of the lists before it, and one.
Weight(q) == TurnsBefore(q) + 1

Worth(count, q, p) == IF q < p THEN count[q] * Weight(q) ELSE 0

\* The number the counts of the lists before p are the digits of.
Used(count, p) == Worth(count, HIGH, p) + (Worth(count, IMMEDIATE, p) + Worth(count, VIP, p))

\* A priority that no sender uses has no events and takes no turns.
UnusedIdle == \A q \in SubQueues \ Sendable : list[q] = <<>> /\ handledCount[q] = 0

\* Either the counts of the lists before p have been rising since p was last passed
\* over by a list after it, or that was so since p's own count started again.
PassesCovered(p) ==
    \/ passes[p] <= Used(handledCount, p)
    \/ /\ handledCount[p] = 0
       /\ \E q \in Sendable \cap SubQueues : p < q
       /\ passes[p] <= Weight(p) + Used(handledCount, p)

PassesInv ==
    /\ IInv
    /\ passes \in [SubQueues -> Nat]
    /\ UnusedIdle
    /\ \A p \in SubQueues : PassesCovered(p)

-------------------------------------------------------------------------------
(* Arithmetic of the turns. *)

LEMMA ProductGrows ==
    ASSUME NEW c \in Nat, NEW m \in Nat, NEW w \in Nat, c <= m
    PROVE  c * w \in Nat /\ c * w <= m * w
<1>1. (m - c) \in Nat
  OBVIOUS
<1>2. (m - c) * w \in Nat /\ c * w \in Nat
  BY <1>1
<1>3. m * w = c * w + (m - c) * w
  BY <1>1
<1>4. QED
  BY <1>2, <1>3

\* The weight of a list is the product of the turns of the lists before it.
LEMMA Weights ==
    /\ \A q \in SubQueues : Weight(q) \in Nat \ {0}
    /\ Weight(0) = 1
    /\ \A q \in 0..2 :
          Weight(q + 1) = IF q \in Sendable THEN (MaxHandled + 1) * Weight(q) ELSE Weight(q)
<1> DEFINE b(q) == IF q \in Sendable THEN MaxHandled + 1 ELSE 1
<1>1. \A q : b(q) \in Nat \ {0}
  BY BoundsAssumption
<1>2. /\ Weight(0) = 1 * (1 * 1) - 1 + 1
      /\ Weight(1) = 1 * (1 * b(0)) - 1 + 1
      /\ Weight(2) = 1 * (b(1) * b(0)) - 1 + 1
      /\ Weight(3) = b(2) * (b(1) * b(0)) - 1 + 1
  BY DEF Weight, TurnsBefore, Factor, VIP, IMMEDIATE, HIGH
<1> HIDE DEF b
<1>3. b(1) * b(0) \in Nat \ {0}
  BY <1>1
<1>4. b(2) * (b(1) * b(0)) \in Nat \ {0}
  BY <1>1, <1>3
<1>5. Weight(0) = 1 /\ Weight(1) = b(0) /\ Weight(2) = b(1) * b(0)
      /\ Weight(3) = b(2) * (b(1) * b(0))
  BY <1>1, <1>2, <1>3, <1>4
<1>6. Weight(1) = b(0) * Weight(0) /\ Weight(2) = b(1) * Weight(1)
      /\ Weight(3) = b(2) * Weight(2)
  BY <1>1, <1>5
<1>7. \A q \in SubQueues : Weight(q) \in Nat \ {0}
  <2>1. \A q \in SubQueues : q = 0 \/ q = 1 \/ q = 2 \/ q = 3
    BY DEF SubQueues, VIP, LOW
  <2>2. QED
    BY <1>1, <1>3, <1>4, <1>5, <2>1
<1>8. \A q \in 0..2 : Weight(q + 1) = b(q) * Weight(q)
  <2>1. \A q \in 0..2 : q = 0 \/ q = 1 \/ q = 2
    OBVIOUS
  <2>2. QED
    BY <1>6, <2>1
<1>9. ASSUME NEW q \in 0..2
      PROVE  Weight(q + 1) = IF q \in Sendable THEN (MaxHandled + 1) * Weight(q) ELSE Weight(q)
  <2>1. Weight(q) \in Nat /\ Weight(q + 1) = b(q) * Weight(q)
    BY <1>7, <1>8 DEF SubQueues, VIP, LOW
  <2>2. QED
    BY <2>1 DEF b
<1>10. QED
  BY <1>5, <1>7, <1>9

\* The number goes on with every digit, and its digits never run over.
LEMMA UsedBounds ==
    ASSUME NEW count \in [SubQueues -> 0..MaxHandled],
           \A q \in SubQueues \ Sendable : count[q] = 0
    PROVE  /\ Used(count, 0) = 0
           /\ \A q \in 0..2 : Used(count, q + 1) = count[q] * Weight(q) + Used(count, q)
           /\ \A q \in SubQueues : Used(count, q) \in Nat /\ Used(count, q) < Weight(q)
<1> DEFINE d(q) == count[q] * Weight(q)
<1>1. \A q \in SubQueues : count[q] \in 0..MaxHandled /\ Weight(q) \in Nat \ {0}
  BY Weights
<1>2. \A q \in SubQueues : d(q) \in Nat
  BY <1>1, BoundsAssumption, ProductGrows
<1>3. /\ Used(count, 0) = 0 + (0 + 0) /\ Used(count, 1) = 0 + (0 + d(0))
      /\ Used(count, 2) = 0 + (d(1) + d(0)) /\ Used(count, 3) = d(2) + (d(1) + d(0))
  BY DEF Used, Worth, VIP, IMMEDIATE, HIGH
<1>4. SubQueues = 0..3
  BY DEF SubQueues, VIP, LOW
<1>5. \A q \in 0..2 : Used(count, q + 1) = d(q) + Used(count, q)
  <2>1. \A q \in 0..2 : q = 0 \/ q = 1 \/ q = 2
    OBVIOUS
  <2> HIDE DEF d
  <2>2. d(0) \in Nat /\ d(1) \in Nat /\ d(2) \in Nat
    BY <1>2, <1>4
  <2>3. QED
    BY <1>3, <2>1, <2>2
<1>6. ASSUME NEW q \in 0..2, Used(count, q) \in Nat, Used(count, q) < Weight(q)
      PROVE  Used(count, q + 1) \in Nat /\ Used(count, q + 1) < Weight(q + 1)
  <2>1. /\ Used(count, q + 1) = d(q) + Used(count, q) /\ d(q) \in Nat /\ Weight(q) \in Nat
        /\ count[q] \in 0..MaxHandled /\ Weight(q + 1) \in Nat
    BY <1>1, <1>2, <1>4, <1>5
  <2>2. CASE q \in Sendable
    <3>1. d(q) <= MaxHandled * Weight(q) /\ MaxHandled * Weight(q) \in Nat
      BY <2>1, BoundsAssumption, ProductGrows
    <3>2. Weight(q + 1) = MaxHandled * Weight(q) + Weight(q)
      BY <2>1, <2>2, Weights, BoundsAssumption
    <3> HIDE DEF d
    <3>3. QED
      BY <1>6, <2>1, <3>1, <3>2
  <2>3. CASE q \notin Sendable
    <3>1. d(q) = 0 /\ Weight(q + 1) = Weight(q)
      BY <1>4, <2>1, <2>3, Weights
    <3> HIDE DEF d
    <3>2. QED
      BY <1>6, <2>1, <3>1
  <2>4. QED
    BY <2>2, <2>3
<1>7. Used(count, 0) \in Nat /\ Used(count, 0) < Weight(0)
  BY <1>3, Weights
<1>8. Used(count, 1) \in Nat /\ Used(count, 1) < Weight(1)
  BY <1>6, <1>7
<1>9. Used(count, 2) \in Nat /\ Used(count, 2) < Weight(2)
  BY <1>6, <1>8
<1>10. Used(count, 3) \in Nat /\ Used(count, 3) < Weight(3)
  BY <1>6, <1>9
<1>11. \A q \in SubQueues : Used(count, q) \in Nat /\ Used(count, q) < Weight(q)
  BY <1>4, <1>7, <1>8, <1>9, <1>10
<1>12. QED
  BY <1>3, <1>5, <1>11

-------------------------------------------------------------------------------
(* The invariant of the passes. *)

\* A pick from list r before p raises the number of p.
LEMMA PickRaisesUsed ==
    ASSUME IInv, IInv', UnusedIdle, UnusedIdle', NEW p \in SubQueues, NEW r \in SubQueues, r < p,
           Stops(r), LaterCandidates(r) # {}, handledCount' = CountsAfter(r)
    PROVE  Used(handledCount', p) >= Used(handledCount, p) + 1
<1> DEFINE c == handledCount
           d == CountsAfter(r)
<1>1. /\ c \in [SubQueues -> 0..MaxHandled] /\ d \in [SubQueues -> 0..MaxHandled]
      /\ \A q \in SubQueues \ Sendable : c[q] = 0 /\ d[q] = 0
  BY DEF IInv, TypeOK, UnusedIdle
<1>2. /\ \A q \in SubQueues : q < r => d[q] = 0
      /\ d[r] = c[r] + 1 /\ \A q \in SubQueues : q > r => d[q] = c[q]
  BY DEF CountsAfter, SubQueues, VIP, LOW
<1> HIDE DEF c, d
<1>3. /\ \A q \in 0..2 : Used(c, q + 1) = c[q] * Weight(q) + Used(c, q)
      /\ \A q \in 0..2 : Used(d, q + 1) = d[q] * Weight(q) + Used(d, q)
      /\ \A q \in SubQueues : Used(c, q) \in Nat /\ Used(c, q) < Weight(q)
      /\ \A q \in SubQueues : Used(d, q) \in Nat
  BY <1>1, UsedBounds
<1>4. SubQueues = 0..3 /\ r \in 0..2 /\ r + 1 \in SubQueues
  BY DEF SubQueues, VIP, LOW
<1>5. Used(d, r + 1) >= Used(c, r + 1) + 1
  <2>1. c[r] \in Nat /\ Weight(r) \in Nat /\ Used(d, r) \in Nat /\ Used(c, r) \in Nat
        /\ Used(c, r) < Weight(r)
    BY <1>1, <1>3, Weights, BoundsAssumption
  <2>2. Used(d, r + 1) = (c[r] + 1) * Weight(r) + Used(d, r)
        /\ Used(c, r + 1) = c[r] * Weight(r) + Used(c, r)
    BY <1>2, <1>3, <1>4
  <2>3. (c[r] + 1) * Weight(r) = c[r] * Weight(r) + Weight(r) /\ c[r] * Weight(r) \in Nat
    BY <2>1, ProductGrows
  <2>4. QED
    BY <2>1, <2>2, <2>3
<1>6. ASSUME NEW q \in 0..2, q > r, Used(d, q) >= Used(c, q) + 1
      PROVE  Used(d, q + 1) >= Used(c, q + 1) + 1
  <2>1. d[q] = c[q] /\ c[q] \in Nat /\ Weight(q) \in Nat /\ q \in SubQueues
    BY <1>1, <1>2, <1>4, <1>6, Weights, BoundsAssumption
  <2>2. Used(d, q + 1) = c[q] * Weight(q) + Used(d, q)
        /\ Used(c, q + 1) = c[q] * Weight(q) + Used(c, q) /\ c[q] * Weight(q) \in Nat
        /\ Used(d, q) \in Nat /\ Used(c, q) \in Nat
    BY <1>3, <2>1, ProductGrows
  <2>3. QED
    BY <1>6, <2>2
<1>7. p = r + 1 \/ p = (r + 1) + 1 \/ p = ((r + 1) + 1) + 1
  BY <1>4
<1>8. CASE p = r + 1
  BY <1>5, <1>8 DEF c, d
<1>9. CASE p = (r + 1) + 1
  <2>1. r + 1 \in 0..2 /\ r + 1 > r
    BY <1>4, <1>9
  <2>2. QED
    BY <1>5, <1>6, <1>9, <2>1 DEF c, d
<1>10. CASE p = ((r + 1) + 1) + 1
  <2>1. r + 1 \in 0..2 /\ r + 1 > r /\ (r + 1) + 1 \in 0..2 /\ (r + 1) + 1 > r
    BY <1>4, <1>10
  <2>2. Used(d, (r + 1) + 1) >= Used(c, (r + 1) + 1) + 1
    BY <1>5, <1>6, <2>1
  <2>3. QED
    BY <1>6, <1>10, <2>1, <2>2 DEF c, d
<1>11. QED
  BY <1>7, <1>8, <1>9, <1>10

\* At most one list is picked from in a step.
LEMMA OnePick ==
    ASSUME NEW r \in SubQueues, PickEvent(r)
    PROVE  Picked = {r}
<1>1. \A q \in SubQueues : PickEvent(q) => Picks(q)
  BY DEF PickEvent, PickEventLocked
<1>2. \A q \in SubQueues : Picks(q) => q = r
  BY <1>1 DEF Picks, SubQueues, VIP, LOW
<1>3. QED
  BY <1>1, <1>2 DEF Picked

\* A list that no sender uses stays empty, and its count at rest.
LEMMA UnusedStays ==
    ASSUME IInv, UnusedIdle, [Next]_vars
    PROVE  UnusedIdle'
<1> SUFFICES ASSUME NEW q \in SubQueues, q \notin Sendable
             PROVE  list'[q] = <<>> /\ handledCount'[q] = 0
  BY DEF UnusedIdle
<1>1. /\ list[q] = <<>> /\ handledCount[q] = 0 /\ q \in Priorities
      /\ list \in [Priorities -> Seq(QueuedEvent)]
      /\ handledCount \in [SubQueues -> 0..MaxHandled]
  BY PriorityFacts DEF UnusedIdle, IInv, TypeOK
<1>2. CASE Tick \/ FindNothing \/ TimeOut \/ Interrupt \/ UNCHANGED vars
  BY <1>1, <1>2 DEF Tick, FindNothing, FindNothingLocked, EnterIdle, TimeOut, Interrupt, vars
<1>3. CASE Send
  <2>1. PICK e \in Events, r \in Sendable, sent \in Times, delay \in 0..MaxDelay :
          Insert(e, r, sent, delay)
    BY <1>3 DEF Send
  <2>2. QED
    BY <1>1, <2>1 DEF Insert, InsertLocked
<1>4. CASE \E filter \in Filters : RemoveEvents(filter)
  <2>1. PICK filter \in Filters : RemoveEvents(filter)
    BY <1>4
  <2>2. list'[q] = RemoveIf(list[q], filter) /\ handledCount' = handledCount
    BY <1>1, <2>1 DEF RemoveEvents, RemoveLocked
  <2>3. list'[q] \in Seq(QueuedEvent) /\ \A i \in DOMAIN list'[q] : \E j \in DOMAIN list[q] : TRUE
    BY <1>1, <2>2, RemovePlaces
  <2>4. DOMAIN list'[q] = {}
    BY <1>1, <2>3
  <2>5. list'[q] = <<>>
    <3> DEFINE t == list'[q]
    <3>1. t \in Seq(QueuedEvent) /\ DOMAIN t = {}
      BY <2>3, <2>4
    <3> HIDE DEF t
    <3>2. ~(Len(t) \in Nat \ {0})
      BY <3>1, LenProperties
    <3>3. t = <<>>
      BY <3>1, <3>2, EmptySeq
    <3>4. QED
      BY <3>3 DEF t
  <2>6. QED
    BY <1>1, <2>2, <2>5
<1>5. ASSUME NEW r \in SubQueues, PickEvent(r)
      PROVE  list'[q] = <<>> /\ handledCount'[q] = 0
  <2>1. r # q /\ list' = [list EXCEPT ![r] = Tail(list[r])] /\ handledCount' = CountsAfter(r)
    BY <1>1, <1>5 DEF PickEvent, PickEventLocked, Picks, Stops, Candidate
  <2>2. QED
    BY <1>1, <2>1 DEF CountsAfter
<1>6. CASE PickIdleEvent
  <2>1. list' = [list EXCEPT ![IDLE] = Tail(list[IDLE])] /\ handledCount' = handledCount
    BY <1>6 DEF PickIdleEvent, PickIdleLocked, EnterIdle
  <2>2. q # IDLE
    BY PriorityFacts DEF SubQueues, VIP, LOW, IDLE
  <2>3. QED
    BY <1>1, <2>1, <2>2
<1>7. QED
  BY <1>2, <1>3, <1>4, <1>5, <1>6 DEF Next, GetExpiredEvent

\* After a pick from list r every list is covered again.
LEMMA PickCovers ==
    ASSUME MaxHandled > 0, PassesInv, IInv', UnusedIdle', NEW r \in SubQueues, PickEvent(r),
           passes' = [p \in SubQueues |->
                         IF p # r /\ Candidate(p) THEN passes[p] + 1 ELSE 0],
           NEW p \in SubQueues
    PROVE  PassesCovered(p)'
<1>1. /\ Stops(r) /\ \A q \in SubQueues : q < r => ~Stops(q)
      /\ handledCount' = CountsAfter(r) /\ handledCount' \in [SubQueues -> 0..MaxHandled]
      /\ passes[p] \in Nat /\ passes' \in [SubQueues -> Nat]
  BY DEF PickEvent, PickEventLocked, Picks, PassesInv, IInv, TypeOK
<1>2. /\ Used(handledCount, p) \in Nat /\ Used(handledCount', p) \in Nat
      /\ Used(handledCount, p) < Weight(p) /\ Weight(p) \in Nat
  BY UsedBounds, Weights DEF PassesInv, IInv, TypeOK, UnusedIdle
<1>3. CASE p = r \/ ~Candidate(p)
  <2>1. passes'[p] = 0
    BY <1>3
  <2>2. QED
    BY <1>2, <2>1 DEF PassesCovered
<1>4. CASE p > r /\ Candidate(p)
  <2>1. passes'[p] = passes[p] + 1
    BY <1>4 DEF SubQueues, VIP, LOW
  <2>2. LaterCandidates(r) # {}
    BY <1>4 DEF LaterCandidates
  <2>3. Used(handledCount', p) >= Used(handledCount, p) + 1
    BY <1>1, <1>4, <2>2, PickRaisesUsed DEF PassesInv
  <2>4. handledCount'[p] = handledCount[p]
    BY <1>1, <1>4 DEF CountsAfter, SubQueues, VIP, LOW
  <2>5. CASE passes[p] <= Used(handledCount, p)
    BY <1>1, <1>2, <2>1, <2>3, <2>5 DEF PassesCovered
  <2>6. CASE /\ handledCount[p] = 0
             /\ \E q \in Sendable \cap SubQueues : p < q
             /\ passes[p] <= Weight(p) + Used(handledCount, p)
    <3>1. passes'[p] <= Weight(p) + Used(handledCount', p)
      BY <1>1, <1>2, <2>1, <2>3, <2>6
    <3>2. QED
      BY <2>4, <2>6, <3>1 DEF PassesCovered
  <2>7. QED
    BY <2>5, <2>6 DEF PassesInv, PassesCovered
<1>5. CASE p < r /\ Candidate(p)
  <2>1. passes'[p] = passes[p] + 1
    BY <1>5 DEF SubQueues, VIP, LOW
  <2>2. handledCount[p] # 0
    <3>1. LaterCandidates(p) # {} /\ ~Stops(p)
      BY <1>1, <1>5 DEF LaterCandidates, Stops
    <3>2. ~(handledCount[p] < MaxHandled)
      BY <1>5, <3>1 DEF Stops
    <3>3. QED
      BY <3>2
  <2>3. passes[p] <= Used(handledCount, p)
    BY <2>2 DEF PassesInv, PassesCovered
  <2>4. handledCount'[p] = 0
    BY <1>1, <1>5 DEF CountsAfter
  <2>5. r \in Sendable
    BY <1>1 DEF Stops, Candidate, PassesInv, UnusedIdle
  <2>6. passes'[p] <= Weight(p) + Used(handledCount', p)
    BY <1>1, <1>2, <2>1, <2>3
  <2>7. QED
    BY <1>5, <2>4, <2>5, <2>6 DEF PassesCovered
<1>6. QED
  BY <1>3, <1>4, <1>5 DEF SubQueues, VIP, LOW

\* The counts of turns change only with a pick.
LEMMA CountsRest ==
    ASSUME [Next]_vars, Picked = {}
    PROVE  handledCount' = handledCount
<1>1. ~(\E p \in SubQueues : PickEvent(p))
  BY DEF Picked
<1>2. CASE Tick \/ FindNothing \/ TimeOut \/ Interrupt \/ PickIdleEvent \/ UNCHANGED vars
  BY <1>2 DEF Tick, FindNothing, FindNothingLocked, EnterIdle, TimeOut, Interrupt,
              PickIdleEvent, PickIdleLocked, vars
<1>3. CASE Send \/ \E filter \in Filters : RemoveEvents(filter)
  BY <1>3 DEF Send, Insert, InsertLocked, RemoveEvents, RemoveLocked
<1>4. QED
  BY <1>1, <1>2, <1>3 DEF Next, GetExpiredEvent

LEMMA PassesInitHolds == PassesInit => PassesInv
<1> SUFFICES ASSUME PassesInit PROVE PassesInv
  OBVIOUS
<1>1. IInv
  BY InitHolds DEF PassesInit
<1>2. UnusedIdle /\ passes \in [SubQueues -> Nat]
  BY PriorityFacts DEF PassesInit, Init, UnusedIdle
<1>3. ASSUME NEW p \in SubQueues PROVE PassesCovered(p)
  <2>1. passes[p] = 0
    BY DEF PassesInit
  <2>2. Used(handledCount, p) \in Nat
    BY <1>1, <1>2, UsedBounds DEF IInv, TypeOK, UnusedIdle
  <2>3. QED
    BY <2>1, <2>2 DEF PassesCovered
<1>4. QED
  BY <1>1, <1>2, <1>3 DEF PassesInv

LEMMA PassesStep ==
    ASSUME MaxHandled > 0, PassesInv, [PassesNext]_PassesVars
    PROVE  PassesInv'
<1>1. [Next]_vars
  BY DEF PassesNext, PassesVars
<1>2. IInv' /\ UnusedIdle'
  BY <1>1, NextStep, UnusedStays DEF PassesInv
<1>3. CASE UNCHANGED PassesVars
  BY <1>2, <1>3 DEF PassesVars, vars, PassesInv, PassesCovered
<1>4. CASE PassesNext /\ Picked = {}
  <2>1. passes' = passes
    BY <1>4 DEF PassesNext, PassesInv
  <2>2. handledCount' = handledCount
    BY <1>1, <1>4, CountsRest
  <2>3. QED
    BY <1>2, <2>1, <2>2 DEF PassesInv, PassesCovered
<1>5. CASE PassesNext /\ Picked # {}
  <2>1. PICK r \in SubQueues : PickEvent(r)
    BY <1>5 DEF Picked
  <2>2. Picked = {r}
    BY <2>1, OnePick
  <2>3. passes' = [p \in SubQueues |-> IF p # r /\ Candidate(p) THEN passes[p] + 1 ELSE 0]
    BY <1>5, <2>2 DEF PassesNext
  <2>4. \A p \in SubQueues : PassesCovered(p)'
    BY <1>2, <2>1, <2>3, PickCovers
  <2>5. passes' \in [SubQueues -> Nat]
    BY <2>3 DEF PassesInv
  <2>6. QED
    BY <1>2, <2>4, <2>5 DEF PassesInv
<1>6. QED
  BY <1>3, <1>4, <1>5

\* A list that competes is passed over a bounded number of times, whatever the
\* limit on the turns: each turn of a list is worth all the turns before it.
THEOREM PassesAreBounded ==
    ASSUME MaxHandled > 0
    PROVE  PassesSpec => []BoundedPasses
<1>1. PassesInv => BoundedPasses
  <2> SUFFICES ASSUME PassesInv, NEW p \in SubQueues
               PROVE  passes[p] <= IF \E q \in Sendable \cap SubQueues : p < q
                                   THEN 2 * TurnsBefore(p) + 1 ELSE TurnsBefore(p)
    BY DEF BoundedPasses
  <2>1. /\ Used(handledCount, p) \in Nat /\ Used(handledCount, p) < Weight(p)
        /\ Weight(p) \in Nat /\ passes[p] \in Nat
    BY UsedBounds, Weights DEF PassesInv, IInv, TypeOK, UnusedIdle
  <2>2. Factor(HIGH, p) \in Nat /\ Factor(IMMEDIATE, p) \in Nat /\ Factor(VIP, p) \in Nat
    BY BoundsAssumption DEF Factor
  <2>3. TurnsBefore(p) \in Int
    <3>1. Factor(IMMEDIATE, p) * Factor(VIP, p) \in Nat
      BY <2>2
    <3>2. Factor(HIGH, p) * (Factor(IMMEDIATE, p) * Factor(VIP, p)) \in Nat
      BY <2>2, <3>1
    <3>3. QED
      BY <3>2 DEF TurnsBefore
  <2>4. Weight(p) = TurnsBefore(p) + 1
    BY DEF Weight
  <2>5. PassesCovered(p)
    BY DEF PassesInv
  <2>6. QED
    BY <2>1, <2>3, <2>4, <2>5 DEF PassesCovered
<1>2. QED
  BY <1>1, PassesInitHolds, PassesStep, PTL DEF PassesSpec
===============================================================================
