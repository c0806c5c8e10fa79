------------------------- MODULE RejectionManagerProofs -------------------------
(***************************************************************************)
(* Proofs about RejectionManager, for any number of promises and observers. *)
(***************************************************************************)
EXTENDS RejectionManager, SequenceTheorems, TLAPS

\* The promise that the observers are told of.
Current(p) == promiseAt # 0 /\ pending[promiseAt] = p

\* The iterator of the observers separates those of wanted that were told of p, once, from
\* those that were not; all of them are still there.
ToldSoFar(obs, at, busy, wanted, p, count) ==
    /\ wanted \subseteq ToSet(obs)
    /\ \A i \in DOMAIN obs :
          obs[i] \in wanted =>
              count[<<p, obs[i]>>] = IF i < at \/ (busy /\ i = at) THEN 1 ELSE 0

\* Only an observer that runs erases what an iterator points to.
Iterating ==
    /\ dangling => calling
    /\ calling /\ ~dangling => promiseAt # 0 /\ observerAt <= Len(observers)

\* A rejection is in the map until all observers were told of it, or it is handled.
Kept ==
    \A p \in Promises :
        /\ settled[p] = "rejected" => p \in ToSet(pending) \cup done
        /\ p \in ToSet(pending) => settled[p] = "rejected" /\ p \notin done
        /\ p \in done => settled[p] # "pending"

\* An observer was told of a promise, unless the calls for that promise were cut short.
ToldUnlessCut(p, f) == told[<<p, f>>] = 1 \/ (told[<<p, f>>] = 0 /\ cut[p] # "none")

\* Nobody was told of a promise before its turn, and everyone afterwards.
Counted ==
    /\ \A p \in Promises : p \notin done /\ ~Current(p) => \A f \in Functions : told[<<p, f>>] = 0
    /\ \A p \in done : \A f \in due[p] : ToldUnlessCut(p, f)
    /\ promiseAt # 0 =>
          ToldSoFar(observers, observerAt, calling, due[pending[promiseAt]], pending[promiseAt], told)

\* Only an observer that was called throws, and only an exception keeps others from being called.
Excused ==
    /\ calling => \E f \in Functions : told[<<pending[promiseAt], f>>] >= 1
    /\ \A p \in Promises :
        /\ cut[p] = "threw" => \E f \in Functions : told[<<p, f>>] >= 1
        /\ cut[p] = "refused" => \E q \in Promises \ {p} : cut[q] = "threw"
    /\ refusing => \E q \in Promises : cut[q] = "threw"

IInv == TypeOK /\ Iterating /\ (~dangling => Kept /\ Counted /\ Excused)

-------------------------------------------------------------------------------
(* Insertion and removal move what is behind. *)

LEMMA InsertMoves ==
    ASSUME NEW S, NEW s \in Seq(S), NEW k \in 1..(Len(s) + 1), NEW x \in S
    PROVE  /\ InsertAt(s, k, x) \in Seq(S) /\ Len(InsertAt(s, k, x)) = Len(s) + 1
           /\ InsertAt(s, k, x)[k] = x
           /\ \A j \in 1..Len(s) : /\ AfterInsert(j, k) \in 1..(Len(s) + 1)
                                  /\ InsertAt(s, k, x)[AfterInsert(j, k)] = s[j]
           /\ \A i \in 1..(Len(s) + 1) : i # k => \E j \in 1..Len(s) : i = AfterInsert(j, k)
           /\ ToSet(InsertAt(s, k, x)) = ToSet(s) \cup {x}
           /\ x \notin ToSet(s) /\ IsInjective(s) => IsInjective(InsertAt(s, k, x))
<1> DEFINE t == InsertAt(s, k, x)
           a == SubSeq(s, 1, k - 1)
           b == SubSeq(s, k, Len(s))
           c == a \o <<x>>
<1>1. Len(s) \in Nat /\ DOMAIN s = 1..Len(s) /\ \A i \in 1..Len(s) : s[i] \in S
  BY LenProperties, ElementOfSeq
<1>2. /\ a \in Seq(S) /\ Len(a) = k - 1
      /\ \A i \in 1..(k - 1) : a[i] = s[i]
  BY <1>1, SubSeqProperties
<1>3. /\ b \in Seq(S) /\ Len(b) = Len(s) - k + 1
      /\ \A i \in 1..(Len(s) - k + 1) : b[i] = s[k + i - 1]
  BY <1>1, SubSeqProperties
<1>4. <<x>> \in Seq(S) /\ Len(<<x>>) = 1 /\ <<x>>[1] = x
  OBVIOUS
<1> HIDE DEF a, b
<1>5. /\ c \in Seq(S) /\ Len(c) = k
      /\ \A i \in 1..k : c[i] = IF i < k THEN s[i] ELSE x
  BY <1>1, <1>2, <1>4, ConcatProperties
<1>6. t = c \o b
  BY DEF InsertAt, a, b
<1> HIDE DEF c, t
<1>7. /\ t \in Seq(S) /\ Len(t) = Len(c) + Len(b)
      /\ \A i \in 1..(Len(c) + Len(b)) : t[i] = IF i <= Len(c) THEN c[i] ELSE b[i - Len(c)]
  BY <1>3, <1>5, <1>6, ConcatProperties
<1>8. /\ Len(t) = Len(s) + 1 /\ DOMAIN t = 1..(Len(s) + 1)
      /\ \A i \in 1..(Len(s) + 1) : t[i] = IF i <= k THEN c[i] ELSE b[i - k]
  BY <1>1, <1>3, <1>5, <1>7, LenProperties
<1>9. /\ t[k] = x
      /\ \A j \in 1..Len(s) : AfterInsert(j, k) \in 1..Len(t) /\ t[AfterInsert(j, k)] = s[j]
  <2>1. t[k] = x
    BY <1>1, <1>5, <1>8
  <2>2. ASSUME NEW j \in 1..Len(s), j < k
        PROVE  AfterInsert(j, k) \in 1..Len(t) /\ t[AfterInsert(j, k)] = s[j]
    BY <1>1, <1>5, <1>8, <2>2 DEF AfterInsert
  <2>3. ASSUME NEW j \in 1..Len(s), ~(j < k)
        PROVE  AfterInsert(j, k) \in 1..Len(t) /\ t[AfterInsert(j, k)] = s[j]
    <3>1. AfterInsert(j, k) = j + 1 /\ j + 1 \in 1..(Len(s) + 1) /\ ~(j + 1 <= k)
      BY <1>1, <2>3 DEF AfterInsert
    <3>2. j + 1 - k \in 1..(Len(s) - k + 1) /\ k + (j + 1 - k) - 1 = j
      BY <1>1, <2>3
    <3>3. b[j + 1 - k] = s[j]
      BY <1>3, <3>2
    <3>4. QED
      BY <1>8, <3>1, <3>3
  <2>4. QED
    BY <2>1, <2>2, <2>3
<1>10. ASSUME NEW i \in 1..Len(t), i # k
       PROVE  \E j \in 1..Len(s) : i = AfterInsert(j, k)
  <2>1. CASE i < k
    BY <1>1, <1>8, <1>10, <2>1 DEF AfterInsert
  <2>2. CASE i > k
    <3>1. i - 1 \in 1..Len(s) /\ AfterInsert(i - 1, k) = i
      BY <1>1, <1>8, <1>10, <2>2 DEF AfterInsert
    <3>2. QED
      BY <3>1
  <2>3. QED
    BY <1>8, <1>10, <2>1, <2>2
<1>11. ToSet(t) = ToSet(s) \cup {x}
  <2>1. DOMAIN t = 1..Len(t) /\ k \in 1..Len(t)
    BY <1>1, <1>8
  <2>2. ASSUME NEW y \in ToSet(t) PROVE y \in ToSet(s) \cup {x}
    <3>1. PICK i \in 1..Len(t) : t[i] = y
      BY <2>1 DEF ToSet
    <3>2. CASE i = k
      BY <1>9, <3>1, <3>2
    <3>3. CASE i # k
      BY <1>1, <1>9, <1>10, <3>1, <3>3 DEF ToSet
    <3>4. QED
      BY <3>2, <3>3
  <2>3. ASSUME NEW y \in ToSet(s) PROVE y \in ToSet(t)
    BY <1>1, <1>9, <2>1 DEF ToSet
  <2>4. x \in ToSet(t)
    BY <1>9, <2>1 DEF ToSet
  <2>5. QED
    BY <2>2, <2>3, <2>4
<1>12. ASSUME x \notin ToSet(s), IsInjective(s) PROVE IsInjective(t)
  <2>1. ASSUME NEW i \in 1..Len(t), NEW j \in 1..Len(t), t[i] = t[j] PROVE i = j
    <3>1. CASE i = k \/ j = k
      <4>1. ASSUME NEW l \in 1..Len(t), l # k PROVE t[l] # x
        BY <1>1, <1>9, <1>10, <1>12, <4>1 DEF ToSet
      <4>2. QED
        BY <1>9, <2>1, <3>1, <4>1
    <3>2. CASE i # k /\ j # k
      <4>1. PICK m \in 1..Len(s), n \in 1..Len(s) :
                i = AfterInsert(m, k) /\ j = AfterInsert(n, k)
        BY <1>10, <3>2
      <4>2. s[m] = s[n]
        BY <1>9, <2>1, <4>1
      <4>3. QED
        BY <1>1, <1>12, <4>1, <4>2 DEF IsInjective
    <3>3. QED
      BY <3>1, <3>2
  <2>2. QED
    BY <1>8, <2>1 DEF IsInjective
<1>13. QED
  BY <1>7, <1>8, <1>9, <1>10, <1>11, <1>12 DEF t

LEMMA EraseMoves ==
    ASSUME NEW S, NEW s \in Seq(S), NEW k \in 1..Len(s)
    PROVE  /\ RemoveAt(s, k) \in Seq(S) /\ Len(RemoveAt(s, k)) = Len(s) - 1
           /\ \A j \in 1..Len(s) :
                 j # k => /\ AfterErase(j, k) \in 1..(Len(s) - 1)
                          /\ RemoveAt(s, k)[AfterErase(j, k)] = s[j]
           /\ \A i \in 1..(Len(s) - 1) : \E j \in 1..Len(s) : j # k /\ i = AfterErase(j, k)
           /\ IsInjective(s) => IsInjective(RemoveAt(s, k)) /\ ToSet(RemoveAt(s, k)) = ToSet(s) \ {s[k]}
<1> DEFINE t == RemoveAt(s, k)
           a == SubSeq(s, 1, k - 1)
           b == SubSeq(s, k + 1, Len(s))
<1>1. Len(s) \in Nat /\ DOMAIN s = 1..Len(s) /\ \A i \in 1..Len(s) : s[i] \in S
  BY LenProperties, ElementOfSeq
<1>2. /\ a \in Seq(S) /\ Len(a) = k - 1
      /\ \A i \in 1..(k - 1) : a[i] = s[i]
  BY <1>1, SubSeqProperties
<1>3. /\ b \in Seq(S) /\ Len(b) = Len(s) - k
      /\ \A i \in 1..(Len(s) - k) : b[i] = s[k + i]
  <2>1. \A i \in (k + 1)..Len(s) : s[i] \in S
    BY <1>1
  <2>2. /\ b \in Seq(S)
        /\ Len(b) = IF k + 1 <= Len(s) THEN Len(s) - (k + 1) + 1 ELSE 0
        /\ \A i \in 1..(Len(s) - (k + 1) + 1) : b[i] = s[k + 1 + i - 1]
    BY <1>1, <2>1, SubSeqProperties
  <2> HIDE DEF b
  <2>3. Len(b) = Len(s) - k
    <3>1. Len(s) \in Nat /\ Len(b) = IF k + 1 <= Len(s) THEN Len(s) - (k + 1) + 1 ELSE 0
      BY <1>1, <2>2
    <3>2. QED
      BY <3>1
  <2>4. ASSUME NEW i \in 1..(Len(s) - k) PROVE b[i] = s[k + i]
    <3>1. i \in 1..(Len(s) - (k + 1) + 1) /\ k + 1 + i - 1 = k + i
      BY <1>1
    <3>2. QED
      BY <2>2, <3>1
  <2>5. QED
    BY <2>2, <2>3, <2>4
<1> HIDE DEF a, b
<1>4. t = a \o b
  BY DEF RemoveAt, a, b
<1> HIDE DEF t
<1>5. /\ t \in Seq(S) /\ Len(t) = Len(a) + Len(b)
      /\ \A i \in 1..(Len(a) + Len(b)) : t[i] = IF i <= Len(a) THEN a[i] ELSE b[i - Len(a)]
  <2>1. a \in Seq(S) /\ b \in Seq(S)
    BY <1>2, <1>3
  <2>2. QED
    BY <1>4, <2>1, ConcatProperties
<1>6. /\ Len(t) = Len(s) - 1 /\ DOMAIN t = 1..(Len(s) - 1)
      /\ \A i \in 1..(Len(s) - 1) : t[i] = IF i <= k - 1 THEN a[i] ELSE b[i - (k - 1)]
  BY <1>1, <1>2, <1>3, <1>5, LenProperties
<1>7. ASSUME NEW j \in 1..Len(s), j # k
      PROVE  AfterErase(j, k) \in 1..Len(t) /\ t[AfterErase(j, k)] = s[j]
  <2>1. CASE j < k
    BY <1>1, <1>2, <1>6, <2>1 DEF AfterErase
  <2>2. CASE j > k
    <3>1. AfterErase(j, k) = j - 1 /\ j - 1 \in 1..(Len(s) - 1) /\ ~(j - 1 <= k - 1)
      BY <1>1, <2>2 DEF AfterErase
    <3>2. j - 1 - (k - 1) \in 1..(Len(s) - k) /\ k + (j - 1 - (k - 1)) = j
      BY <1>1, <2>2
    <3>3. QED
      BY <1>3, <1>6, <3>1, <3>2
  <2>3. QED
    BY <1>1, <1>7, <2>1, <2>2
<1>8. ASSUME NEW i \in 1..Len(t) PROVE \E j \in 1..Len(s) : j # k /\ i = AfterErase(j, k)
  <2>1. CASE i < k
    <3>1. i \in 1..Len(s) /\ i # k /\ i = AfterErase(i, k)
      BY <1>1, <1>6, <2>1 DEF AfterErase
    <3>2. QED
      BY <3>1
  <2>2. CASE i >= k
    <3>1. i + 1 \in 1..Len(s) /\ i + 1 # k /\ i = AfterErase(i + 1, k)
      BY <1>1, <1>6, <2>2 DEF AfterErase
    <3>2. QED
      BY <3>1
  <2>3. QED
    BY <1>1, <1>6, <2>1, <2>2
<1>9. ASSUME IsInjective(s) PROVE IsInjective(t) /\ ToSet(t) = ToSet(s) \ {s[k]}
  <2>1. ASSUME NEW i \in 1..Len(t), NEW j \in 1..Len(t), t[i] = t[j] PROVE i = j
    <3>1. PICK m \in 1..Len(s) : m # k /\ i = AfterErase(m, k)
      BY <1>8
    <3>2. PICK n \in 1..Len(s) : n # k /\ j = AfterErase(n, k)
      BY <1>8
    <3>3. s[m] = s[n]
      BY <1>7, <2>1, <3>1, <3>2
    <3>4. QED
      BY <1>1, <1>9, <3>1, <3>2, <3>3 DEF IsInjective
  <2>2. ASSUME NEW y \in ToSet(t) PROVE y \in ToSet(s) \ {s[k]}
    <3>1. PICK i \in 1..Len(t) : t[i] = y
      BY <1>6 DEF ToSet
    <3>2. PICK j \in 1..Len(s) : j # k /\ i = AfterErase(j, k)
      BY <1>8
    <3>3. y = s[j] /\ s[j] # s[k]
      BY <1>1, <1>7, <1>9, <3>1, <3>2 DEF IsInjective
    <3>4. QED
      BY <1>1, <3>3 DEF ToSet
  <2>3. ASSUME NEW y \in ToSet(s) \ {s[k]} PROVE y \in ToSet(t)
    <3>1. PICK j \in 1..Len(s) : s[j] = y /\ j # k
      BY <1>1 DEF ToSet
    <3>2. AfterErase(j, k) \in DOMAIN t /\ t[AfterErase(j, k)] = y
      BY <1>6, <1>7, <3>1
    <3>3. QED
      BY <3>2 DEF ToSet
  <2>4. QED
    BY <1>6, <2>1, <2>2, <2>3 DEF IsInjective
<1>10. QED
  BY <1>5, <1>6, <1>7, <1>8, <1>9 DEF t

\* Where an element that is there is found, and what is left without it.
LEMMA WithoutOne ==
    ASSUME NEW S, NEW s \in Seq(S), NEW x \in ToSet(s)
    PROVE  /\ IndexIn(s, x) \in 1..Len(s) /\ s[IndexIn(s, x)] = x
           /\ Without(s, x) = RemoveAt(s, IndexIn(s, x))
<1>1. DOMAIN s = 1..Len(s)
  BY LenProperties
<1>2. \E k \in DOMAIN s : s[k] = x
  BY DEF ToSet
<1>3. QED
  BY <1>1, <1>2 DEF IndexIn, Without

\* An observer that comes while others are told is not due, wherever it is put.
LEMMA ToldInsert ==
    ASSUME NEW S, NEW obs \in Seq(S), NEW at \in Nat, NEW k \in 1..(Len(obs) + 1), NEW f \in S,
           f \notin ToSet(obs), NEW wanted, NEW p, NEW count,
           ToldSoFar(obs, at, TRUE, wanted, p, count)
    PROVE  ToldSoFar(InsertAt(obs, k, f), AfterInsert(at, k), TRUE, wanted, p, count)
<1> DEFINE t == InsertAt(obs, k, f)
<1>1. /\ t \in Seq(S) /\ Len(t) = Len(obs) + 1
      /\ t[k] = f
      /\ \A j \in 1..Len(obs) : t[AfterInsert(j, k)] = obs[j]
      /\ \A i \in 1..Len(t) : i # k => \E j \in 1..Len(obs) : i = AfterInsert(j, k)
      /\ ToSet(t) = ToSet(obs) \cup {f}
  BY InsertMoves
<1> HIDE DEF t
<1>2. Len(obs) \in Nat /\ DOMAIN obs = 1..Len(obs) /\ DOMAIN t = 1..Len(t)
  BY <1>1, LenProperties
<1>3. f \notin wanted /\ wanted \subseteq ToSet(t)
  BY <1>1 DEF ToldSoFar
<1>4. ASSUME NEW i \in DOMAIN t, t[i] \in wanted
      PROVE  count[<<p, t[i]>>] = IF i < AfterInsert(at, k) \/ i = AfterInsert(at, k) THEN 1 ELSE 0
  <2>1. PICK j \in 1..Len(obs) : i = AfterInsert(j, k)
    BY <1>1, <1>2, <1>3, <1>4
  <2>2. t[i] = obs[j]
    BY <1>1, <2>1
  <2>3. count[<<p, obs[j]>>] = IF j < at \/ j = at THEN 1 ELSE 0
    BY <1>2, <1>4, <2>2 DEF ToldSoFar
  <2>4. j \in Nat /\ k \in Nat
    BY <1>2
  <2>5. (i < AfterInsert(at, k) \/ i = AfterInsert(at, k)) <=> (j < at \/ j = at)
    BY <2>1, <2>4 DEF AfterInsert
  <2>6. QED
    BY <2>2, <2>3, <2>5
<1>5. QED
  BY <1>3, <1>4 DEF ToldSoFar, t

\* Nor is one that goes, unless it is the one that is told.
LEMMA ToldErase ==
    ASSUME NEW S, NEW obs \in Seq(S), IsInjective(obs), NEW at \in Nat, NEW k \in 1..Len(obs),
           k # at, NEW wanted, NEW p, NEW count,
           ToldSoFar(obs, at, TRUE, wanted, p, count)
    PROVE  ToldSoFar(RemoveAt(obs, k), AfterErase(at, k), TRUE, wanted \ {obs[k]}, p, count)
<1> DEFINE t == RemoveAt(obs, k)
<1>1. /\ t \in Seq(S) /\ Len(t) = Len(obs) - 1
      /\ \A j \in 1..Len(obs) : j # k => t[AfterErase(j, k)] = obs[j]
      /\ \A i \in 1..Len(t) : \E j \in 1..Len(obs) : j # k /\ i = AfterErase(j, k)
      /\ ToSet(t) = ToSet(obs) \ {obs[k]}
  <2>1. t \in Seq(S) /\ Len(t) = Len(obs) - 1 /\ ToSet(t) = ToSet(obs) \ {obs[k]}
    BY EraseMoves
  <2>2. ASSUME NEW j \in 1..Len(obs), j # k PROVE t[AfterErase(j, k)] = obs[j]
    BY <2>2, EraseMoves
  <2>3. ASSUME NEW i \in 1..Len(t) PROVE \E j \in 1..Len(obs) : j # k /\ i = AfterErase(j, k)
    BY <2>1, EraseMoves
  <2>4. QED
    BY <2>1, <2>2, <2>3
<1> HIDE DEF t
<1>2. Len(obs) \in Nat /\ DOMAIN obs = 1..Len(obs) /\ DOMAIN t = 1..Len(t)
  BY <1>1, LenProperties
<1>3. wanted \ {obs[k]} \subseteq ToSet(t)
  BY <1>1 DEF ToldSoFar
<1>4. ASSUME NEW i \in DOMAIN t, t[i] \in wanted
      PROVE  count[<<p, t[i]>>] = IF i < AfterErase(at, k) \/ i = AfterErase(at, k) THEN 1 ELSE 0
  <2>1. PICK j \in 1..Len(obs) : j # k /\ i = AfterErase(j, k)
    BY <1>1, <1>2, <1>4
  <2>2. t[i] = obs[j]
    BY <1>1, <2>1
  <2>3. count[<<p, obs[j]>>] = IF j < at \/ j = at THEN 1 ELSE 0
    BY <1>2, <1>4, <2>2 DEF ToldSoFar
  <2>4. j \in Nat /\ k \in Nat
    BY <1>2
  <2>5. (i < AfterErase(at, k) \/ i = AfterErase(at, k)) <=> (j < at \/ j = at)
    BY <2>1, <2>4 DEF AfterErase
  <2>6. QED
    BY <2>2, <2>3, <2>5
<1>5. QED
  BY <1>3, <1>4 DEF ToldSoFar, t

-------------------------------------------------------------------------------
(* The invariant holds at the start, and every step keeps it. *)

LEMMA InitHolds == Init => IInv
<1> SUFFICES ASSUME Init PROVE IInv
  OBVIOUS
<1>1. pending \in Seq(Promises) /\ Len(pending) = 0 /\ observers \in Seq(Functions) /\ Len(observers) = 0
  BY DEF Init
<1>2. IsInjective(pending) /\ IsInjective(observers) /\ ToSet(pending) = {} /\ ToSet(observers) = {}
  BY DEF Init, IsInjective, ToSet
<1>3. TypeOK
  <2>1. promiseAt \in 0..Len(pending) /\ observerAt \in 1..(Len(observers) + 1)
    BY <1>1 DEF Init
  <2>2. told \in [Promises \X Functions -> 0..2]
    BY DEF Init
  <2>3. QED
    BY <1>1, <1>2, <2>1, <2>2 DEF Init, TypeOK
<1>4. Iterating /\ Kept /\ Counted /\ Excused
  BY <1>1, <1>2 DEF Init, Iterating, Kept, Counted, Current, Excused
<1>5. QED
  BY <1>3, <1>4 DEF IInv

\* The promise that is told of is one of the map.
LEMMA CurrentIsPending ==
    ASSUME TypeOK, promiseAt # 0
    PROVE  /\ promiseAt \in 1..Len(pending) /\ pending[promiseAt] \in Promises
           /\ pending[promiseAt] \in ToSet(pending)
<1>1. DOMAIN pending = 1..Len(pending) /\ Len(pending) \in Nat
  BY LenProperties DEF TypeOK
<1>2. promiseAt \in 1..Len(pending)
  BY <1>1 DEF TypeOK
<1>3. QED
  BY <1>1, <1>2, ElementOfSeq DEF TypeOK, ToSet

\* Nothing that an exception or a call is known by goes away by itself.
LEMMA ExcusedStays ==
    ASSUME Excused, UNCHANGED <<told, cut>>, refusing' => refusing,
           calling' => calling /\ pending'[promiseAt'] = pending[promiseAt]
    PROVE  Excused'
BY DEF Excused

\* What is unchanged is still owed to nobody.
LEMMA ToldStays ==
    ASSUME Counted, UNCHANGED <<told, done, cut>>, NEW q \in done', NEW f \in due'[q], f \in due[q]
    PROVE  ToldUnlessCut(q, f)'
BY DEF Counted, ToldUnlessCut

\* A new rejection is put anywhere in the map and does not disturb who is told of what.
LEMMA AddRejectionKeeps ==
    ASSUME IInv, NEW p \in Promises, AddRejection(p)
    PROVE  IInv'
<1>1. /\ TypeOK /\ Iterating /\ Kept /\ Counted /\ Excused
      /\ settled[p] = "pending" /\ ~dangling /\ (calling \/ promiseAt = 0)
      /\ settled' = [settled EXCEPT ![p] = "rejected"]
      /\ UNCHANGED <<observers, observerAt, calling, due, told, done, cut, refusing, dangling>>
  BY DEF IInv, AddRejection, Script
<1>2. PICK k \in 1..(Len(pending) + 1) :
          /\ pending' = InsertAt(pending, k, p)
          /\ promiseAt' = IF promiseAt = 0 THEN 0 ELSE AfterInsert(promiseAt, k)
  BY DEF AddRejection
<1>3. p \notin ToSet(pending) /\ p \notin done
  BY <1>1 DEF Kept
<1>4. /\ pending' \in Seq(Promises) /\ Len(pending') = Len(pending) + 1
      /\ \A j \in 1..Len(pending) :
            AfterInsert(j, k) \in 1..Len(pending') /\ pending'[AfterInsert(j, k)] = pending[j]
      /\ ToSet(pending') = ToSet(pending) \cup {p}
      /\ IsInjective(pending')
  <2>1. pending \in Seq(Promises) /\ IsInjective(pending) /\ p \in Promises
    BY <1>1 DEF TypeOK
  <2>2. pending' = InsertAt(pending, k, p)
    BY <1>2
  <2>3. /\ pending' \in Seq(Promises) /\ Len(pending') = Len(pending) + 1
        /\ ToSet(pending') = ToSet(pending) \cup {p}
        /\ IsInjective(pending')
    BY <1>3, <2>1, <2>2, InsertMoves
  <2>4. ASSUME NEW j \in 1..Len(pending)
        PROVE  AfterInsert(j, k) \in 1..Len(pending') /\ pending'[AfterInsert(j, k)] = pending[j]
    BY <2>1, <2>2, <2>3, InsertMoves
  <2>5. QED
    BY <2>3, <2>4
<1>5. /\ promiseAt = 0 => promiseAt' = 0
      /\ promiseAt # 0 => /\ promiseAt' \in 1..Len(pending')
                          /\ pending'[promiseAt'] = pending[promiseAt]
  BY <1>1, <1>2, <1>4, CurrentIsPending
<1>6. Len(pending) \in Nat /\ Len(pending') \in Nat
  BY <1>1, <1>4, LenProperties DEF TypeOK
<1>7. promiseAt' \in 0..Len(pending') /\ (promiseAt' = 0 <=> promiseAt = 0)
  BY <1>5, <1>6
<1>8. TypeOK'
  BY <1>1, <1>4, <1>7 DEF TypeOK
<1>9. Iterating'
  BY <1>1, <1>7 DEF Iterating
<1>10. Kept'
  BY <1>1, <1>3, <1>4 DEF Kept, TypeOK
<1>11. Counted'
  <2>1. \A q : Current(q)' <=> Current(q)
    BY <1>5, <1>7 DEF Current
  <2>2. \A q \in Promises : q \notin done' /\ ~Current(q)' => \A f \in Functions : told'[<<q, f>>] = 0
    BY <1>1, <2>1 DEF Counted
  <2>3. \A q \in done' : \A f \in due'[q] : ToldUnlessCut(q, f)'
    BY <1>1, ToldStays
  <2>4. ASSUME promiseAt' # 0
        PROVE  ToldSoFar(observers, observerAt, calling, due[pending[promiseAt]], pending[promiseAt], told)'
    BY <1>1, <1>5, <1>7, <2>4 DEF Counted, ToldSoFar
  <2>5. QED
    BY <2>2, <2>3, <2>4 DEF Counted
<1>12. Excused'
  <2>1. calling => pending'[promiseAt'] = pending[promiseAt]
    BY <1>1, <1>5 DEF Iterating
  <2>2. QED
    BY <1>1, <2>1, ExcusedStays
<1>13. QED
  BY <1>8, <1>9, <1>10, <1>11, <1>12 DEF IInv

\* A promise that is handled leaves the map; if it is the one that is told, the iterator is
\* left behind.
LEMMA RemoveRejectionKeeps ==
    ASSUME IInv, NEW p \in Promises, RemoveRejection(p)
    PROVE  IInv'
<1>1. /\ TypeOK /\ Iterating /\ Kept /\ Counted /\ Excused
      /\ settled[p] = "rejected" /\ ~dangling /\ (calling \/ promiseAt = 0)
      /\ settled' = [settled EXCEPT ![p] = "handled"]
      /\ UNCHANGED <<observers, observerAt, calling, due, told, done, cut, refusing>>
  BY DEF IInv, RemoveRejection, Script
<1>2. CASE p \notin ToSet(pending) /\ UNCHANGED <<pending, promiseAt, dangling>>
  <2>1. TypeOK'
    BY <1>1, <1>2 DEF TypeOK
  <2>2. Iterating'
    BY <1>1, <1>2 DEF Iterating
  <2>3. Kept'
    BY <1>1, <1>2 DEF Kept, TypeOK
  <2>4. Counted'
    BY <1>1, <1>2 DEF Counted, Current, ToldSoFar, ToldUnlessCut
  <2>5. Excused'
    BY <1>1, <1>2, ExcusedStays
  <2>6. QED
    BY <2>1, <2>2, <2>3, <2>4, <2>5 DEF IInv
<1>3. ASSUME NEW k \in DOMAIN pending,
             pending[k] = p, pending' = RemoveAt(pending, k),
             promiseAt' = IF k = promiseAt THEN 0 ELSE AfterErase(promiseAt, k),
             dangling' = (k = promiseAt)
      PROVE  IInv'
  <2>1. /\ pending \in Seq(Promises) /\ IsInjective(pending)
        /\ Len(pending) \in Nat /\ k \in 1..Len(pending)
        /\ promiseAt \in 0..Len(pending)
    BY <1>1, LenProperties DEF TypeOK
  <2>2. /\ pending' \in Seq(Promises) /\ Len(pending') = Len(pending) - 1
        /\ IsInjective(pending') /\ ToSet(pending') = ToSet(pending) \ {p}
    BY <1>3, <2>1, EraseMoves
  <2>3. ASSUME NEW j \in 1..Len(pending), j # k
        PROVE  AfterErase(j, k) \in 1..Len(pending') /\ pending'[AfterErase(j, k)] = pending[j]
    <3>1. /\ AfterErase(j, k) \in 1..(Len(pending) - 1)
          /\ RemoveAt(pending, k)[AfterErase(j, k)] = pending[j]
      BY <2>1, <2>3, EraseMoves
    <3>2. QED
      BY <1>3, <2>2, <3>1
  <2>4. ASSUME k # promiseAt
        PROVE  /\ promiseAt' \in 0..Len(pending') /\ (promiseAt' = 0 <=> promiseAt = 0)
               /\ promiseAt # 0 => pending'[promiseAt'] = pending[promiseAt]
    <3>1. CASE promiseAt = 0
      <4>1. promiseAt' = 0
        BY <1>3, <2>1, <2>4, <3>1 DEF AfterErase
      <4>2. QED
        BY <2>1, <2>2, <3>1, <4>1
    <3>2. CASE promiseAt # 0
      <4>1. promiseAt \in 1..Len(pending) /\ promiseAt' = AfterErase(promiseAt, k)
        BY <1>3, <2>1, <2>4, <3>2
      <4>2. promiseAt' \in 1..Len(pending') /\ pending'[promiseAt'] = pending[promiseAt]
        BY <2>3, <2>4, <4>1
      <4>3. QED
        BY <2>1, <2>2, <3>2, <4>2
    <3>3. QED
      BY <3>1, <3>2
  <2>5. promiseAt' \in 0..Len(pending')
    BY <1>3, <2>1, <2>2, <2>4
  <2>6. TypeOK'
    <3>1. dangling' \in BOOLEAN
      BY <1>3
    <3>2. QED
      BY <1>1, <2>2, <2>5, <3>1 DEF TypeOK
  <2>7. Iterating'
    <3>1. CASE k = promiseAt
      <4>1. promiseAt # 0
        BY <2>1, <3>1
      <4>2. QED
        BY <1>1, <1>3, <3>1, <4>1 DEF Iterating
    <3>2. CASE k # promiseAt
      BY <1>1, <1>3, <2>4, <3>2 DEF Iterating
    <3>3. QED
      BY <3>1, <3>2
  <2>8. ASSUME ~dangling' PROVE Kept' /\ Counted' /\ Excused'
    <3>1. k # promiseAt
      BY <1>3, <2>8
    <3>2. Kept'
      BY <1>1, <2>2 DEF Kept, TypeOK
    <3>3. \A q : Current(q)' <=> Current(q)
      BY <2>4, <3>1 DEF Current
    <3>4. \A q \in Promises : q \notin done' /\ ~Current(q)' => \A f \in Functions : told'[<<q, f>>] = 0
      BY <1>1, <3>3 DEF Counted
    <3>5. \A q \in done' : \A f \in due'[q] : ToldUnlessCut(q, f)'
      BY <1>1, ToldStays
    <3>6. ASSUME promiseAt' # 0
          PROVE  ToldSoFar(observers, observerAt, calling, due[pending[promiseAt]], pending[promiseAt], told)'
      BY <1>1, <2>4, <3>1, <3>6 DEF Counted, ToldSoFar
    <3>7. Excused'
      <4>1. calling => pending'[promiseAt'] = pending[promiseAt]
        BY <1>1, <2>4, <3>1 DEF Iterating
      <4>2. QED
        BY <1>1, <4>1, ExcusedStays
    <3>8. QED
      BY <3>2, <3>4, <3>5, <3>6, <3>7 DEF Counted
  <2>9. QED
    BY <2>6, <2>7, <2>8 DEF IInv
<1>4. QED
  BY <1>2, <1>3 DEF RemoveRejection

\* An observer that goes is owed nothing; if it is the one that is told, the iterator is left
\* behind.
LEMMA OffKeeps ==
    ASSUME IInv, NEW f \in Functions, Off(f)
    PROVE  IInv'
<1> DEFINE k == IndexIn(observers, f)
<1>1. /\ TypeOK /\ Iterating /\ Kept /\ Counted /\ Excused
      /\ ~dangling /\ (calling \/ promiseAt = 0) /\ f \in ToSet(observers)
      /\ dangling' = (calling /\ k = observerAt)
      /\ due' = [p \in Promises |-> due[p] \ {f}]
      /\ observers' = Without(observers, f)
      /\ observerAt' = AfterErase(observerAt, k)
      /\ UNCHANGED <<pending, settled, promiseAt, calling, told, done, cut, refusing>>
  BY DEF IInv, Off, Script, EraseObserver
<1>2. /\ observers \in Seq(Functions) /\ IsInjective(observers) /\ Len(observers) \in Nat
      /\ observerAt \in 1..(Len(observers) + 1)
  BY <1>1, LenProperties DEF TypeOK
<1>3. k \in 1..Len(observers) /\ observers[k] = f /\ observers' = RemoveAt(observers, k)
  BY <1>1, <1>2, WithoutOne
<1> HIDE DEF k
<1>4. /\ observers' \in Seq(Functions) /\ Len(observers') = Len(observers) - 1
      /\ IsInjective(observers') /\ ToSet(observers') = ToSet(observers) \ {f}
  BY <1>2, <1>3, EraseMoves
<1>5. TypeOK'
  <2>1. observerAt' \in 1..(Len(observers') + 1)
    BY <1>1, <1>2, <1>3, <1>4 DEF AfterErase
  <2>2. dangling' \in BOOLEAN
    BY <1>1
  <2>3. due' \in [Promises -> SUBSET Functions]
    BY <1>1 DEF TypeOK
  <2>4. QED
    BY <1>1, <1>4, <2>1, <2>2, <2>3 DEF TypeOK
<1>6. Iterating'
  <2>1. ASSUME calling, k # observerAt, observerAt <= Len(observers)
        PROVE  observerAt' <= Len(observers')
    BY <1>1, <1>2, <1>3, <1>4, <2>1 DEF AfterErase
  <2>2. QED
    BY <1>1, <2>1 DEF Iterating
<1>7. ASSUME ~dangling' PROVE Counted'
  <2>1. \A q \in Promises : q \notin done' /\ ~Current(q)' => \A g \in Functions : told'[<<q, g>>] = 0
    BY <1>1 DEF Counted, Current
  <2>2. \A q \in done' : \A g \in due'[q] : ToldUnlessCut(q, g)'
    BY <1>1, ToldStays DEF TypeOK
  <2>3. ASSUME promiseAt # 0
        PROVE  ToldSoFar(observers', observerAt', calling, due'[pending[promiseAt]], pending[promiseAt], told)
    <3>1. calling = TRUE /\ k # observerAt
      BY <1>1, <1>7, <2>3 DEF TypeOK
    <3>2. ToldSoFar(observers, observerAt, TRUE, due[pending[promiseAt]], pending[promiseAt], told)
      BY <1>1, <2>3, <3>1 DEF Counted
    <3>3. due'[pending[promiseAt]] = due[pending[promiseAt]] \ {f}
      BY <1>1, <2>3, CurrentIsPending
    <3>4. observerAt \in Nat
      BY <1>2
    <3>5. ToldSoFar(observers', AfterErase(observerAt, k), TRUE,
                    due[pending[promiseAt]] \ {observers[k]}, pending[promiseAt], told)
      BY <1>2, <1>3, <3>1, <3>2, <3>4, ToldErase
    <3>6. QED
      BY <1>1, <1>3, <3>1, <3>3, <3>5
  <2>4. QED
    BY <1>1, <2>1, <2>2, <2>3 DEF Counted
<1>8. Kept'
  BY <1>1 DEF Kept
<1>9. Excused'
  BY <1>1, ExcusedStays
<1>10. QED
  BY <1>5, <1>6, <1>7, <1>8, <1>9 DEF IInv

LEMMA OffAllKeeps ==
    ASSUME IInv, OffAll
    PROVE  IInv'
<1>1. /\ TypeOK /\ Iterating /\ Kept /\ Counted /\ Excused
      /\ ~dangling /\ (calling \/ promiseAt = 0)
      /\ dangling' = calling
      /\ due' = [p \in Promises |-> {}]
      /\ observers' = << >> /\ observerAt' = 1
      /\ UNCHANGED <<pending, settled, promiseAt, calling, told, done, cut, refusing>>
  BY DEF IInv, OffAll, Script
<1>2. observers' \in Seq(Functions) /\ Len(observers') = 0 /\ IsInjective(observers')
  BY <1>1 DEF IsInjective
<1>3. TypeOK'
  <2>1. observerAt' \in 1..(Len(observers') + 1)
    BY <1>1, <1>2
  <2>2. due' \in [Promises -> SUBSET Functions]
    BY <1>1
  <2>3. QED
    BY <1>1, <1>2, <2>1, <2>2 DEF TypeOK
<1>4. Iterating'
  BY <1>1 DEF Iterating
<1>5. ASSUME ~dangling' PROVE Counted'
  <2>1. promiseAt' = 0
    BY <1>1, <1>5
  <2>2. \A q \in Promises : q \notin done' /\ ~Current(q)' => \A g \in Functions : told'[<<q, g>>] = 0
    BY <1>1 DEF Counted, Current
  <2>3. \A q \in done' : \A g \in due'[q] : ToldUnlessCut(q, g)'
    BY <1>1 DEF TypeOK
  <2>4. QED
    BY <2>1, <2>2, <2>3 DEF Counted
<1>6. Kept'
  BY <1>1 DEF Kept
<1>7. Excused'
  BY <1>1, ExcusedStays
<1>8. QED
  BY <1>3, <1>4, <1>5, <1>6, <1>7 DEF IInv

\* What is left, and where the iterator is, when the function that comes is taken out first.
LEMMA TakenOut ==
    ASSUME IInv, NEW f \in Functions, On(f), NEW rest, rest = Without(observers, f), NEW at,
           at = IF f \in ToSet(observers)
                THEN AfterErase(observerAt, IndexIn(observers, f)) ELSE observerAt
    PROVE  /\ rest \in Seq(Functions) /\ IsInjective(rest) /\ Len(rest) \in Nat
           /\ f \notin ToSet(rest)
           /\ at \in 1..(Len(rest) + 1)
           /\ ~dangling' /\ calling => at <= Len(rest)
           /\ due' \in [Promises -> SUBSET Functions] /\ dangling' \in BOOLEAN
           /\ \A p \in Promises : due'[p] \subseteq due[p]
           /\ ~dangling' /\ promiseAt # 0 =>
                 ToldSoFar(rest, at, TRUE, due'[pending[promiseAt]], pending[promiseAt], told)
<1>1. TypeOK /\ Iterating /\ Counted /\ ~dangling
  BY DEF IInv, On, Script
<1>2. /\ observers \in Seq(Functions) /\ IsInjective(observers) /\ Len(observers) \in Nat
      /\ observerAt \in 1..(Len(observers) + 1)
  BY <1>1, LenProperties DEF TypeOK
<1>3. due \in [Promises -> SUBSET Functions] /\ (calling => observerAt <= Len(observers))
  BY <1>1 DEF TypeOK, Iterating
<1>4. promiseAt # 0 =>
          /\ calling
          /\ ToldSoFar(observers, observerAt, TRUE, due[pending[promiseAt]], pending[promiseAt], told)
  <2>1. ASSUME promiseAt # 0 PROVE calling = TRUE
    BY <1>1, <2>1 DEF TypeOK, On, Script
  <2>2. QED
    BY <1>1, <2>1 DEF Counted
<1>5. CASE f \notin ToSet(observers)
  <2>1. rest = observers /\ at = observerAt
    BY <1>5 DEF Without
  <2>2. UNCHANGED <<due, dangling>>
    BY <1>5 DEF On
  <2>3. dangling' = FALSE
    BY <1>1, <2>2 DEF TypeOK
  <2>4. at <= Len(rest) \/ ~calling
    BY <1>3, <2>1
  <2>5. due' \in [Promises -> SUBSET Functions] /\ \A p \in Promises : due'[p] \subseteq due[p]
    BY <1>3, <2>2
  <2>6. ASSUME promiseAt # 0
        PROVE  ToldSoFar(rest, at, TRUE, due'[pending[promiseAt]], pending[promiseAt], told)
    BY <1>4, <2>1, <2>2, <2>6
  <2>7. QED
    BY <1>2, <1>5, <2>1, <2>3, <2>4, <2>5, <2>6
<1>6. CASE f \in ToSet(observers)
  <2> DEFINE k == IndexIn(observers, f)
  <2>1. /\ dangling' = (calling /\ k = observerAt)
        /\ due' = [p \in Promises |-> due[p] \ {f}]
        /\ at = AfterErase(observerAt, k)
    BY <1>6 DEF On, EraseObserver
  <2>2. k \in 1..Len(observers) /\ observers[k] = f /\ rest = RemoveAt(observers, k)
    BY <1>2, <1>6, WithoutOne
  <2> HIDE DEF k
  <2>3. /\ rest \in Seq(Functions) /\ Len(rest) = Len(observers) - 1
        /\ IsInjective(rest) /\ ToSet(rest) = ToSet(observers) \ {f}
    BY <1>2, <2>2, EraseMoves
  <2>4. Len(rest) \in Nat /\ at \in 1..(Len(rest) + 1)
    BY <1>2, <2>1, <2>2, <2>3 DEF AfterErase
  <2>5. ASSUME ~dangling', calling PROVE at <= Len(rest)
    <3>1. k # observerAt /\ observerAt <= Len(observers)
      BY <1>3, <2>1, <2>5
    <3>2. QED
      BY <1>2, <2>1, <2>2, <2>3, <3>1 DEF AfterErase
  <2>6. /\ due' \in [Promises -> SUBSET Functions] /\ dangling' \in BOOLEAN
        /\ \A p \in Promises : due'[p] \subseteq due[p]
    BY <1>3, <2>1
  <2>7. ASSUME ~dangling', promiseAt # 0
        PROVE  ToldSoFar(rest, at, TRUE, due'[pending[promiseAt]], pending[promiseAt], told)
    <3>0. observerAt \in Nat
      BY <1>2
    <3>1. k # observerAt
      BY <1>4, <2>1, <2>7
    <3>2. due'[pending[promiseAt]] = due[pending[promiseAt]] \ {observers[k]}
      BY <1>1, <2>1, <2>2, <2>7, CurrentIsPending
    <3>3. ToldSoFar(RemoveAt(observers, k), AfterErase(observerAt, k), TRUE,
                    due[pending[promiseAt]] \ {observers[k]}, pending[promiseAt], told)
      BY <1>2, <1>4, <2>2, <2>7, <3>0, <3>1, ToldErase
    <3>4. QED
      BY <2>1, <2>2, <3>2, <3>3
  <2>8. QED
    BY <2>3, <2>4, <2>5, <2>6, <2>7
<1>7. QED
  BY <1>5, <1>6

\* A function that comes is put anywhere among those that are left.
LEMMA OnKeeps ==
    ASSUME IInv, NEW f \in Functions, On(f)
    PROVE  IInv'
<1> DEFINE rest == Without(observers, f)
           at == IF f \in ToSet(observers)
                 THEN AfterErase(observerAt, IndexIn(observers, f)) ELSE observerAt
<1>1. /\ TypeOK /\ Iterating /\ Kept /\ Counted /\ Excused
      /\ ~dangling /\ (calling \/ promiseAt = 0)
      /\ UNCHANGED <<pending, settled, promiseAt, calling, told, done, cut, refusing>>
  BY DEF IInv, On, Script
<1>2. PICK k \in 1..(Len(rest) + 1) :
          /\ observers' = InsertAt(rest, k, f)
          /\ observerAt' = IF calling THEN AfterInsert(at, k) ELSE at
  BY DEF On
<1>3. /\ rest \in Seq(Functions) /\ IsInjective(rest) /\ Len(rest) \in Nat
      /\ f \notin ToSet(rest)
      /\ at \in 1..(Len(rest) + 1)
      /\ ~dangling' /\ calling => at <= Len(rest)
      /\ due' \in [Promises -> SUBSET Functions] /\ dangling' \in BOOLEAN
      /\ \A p \in Promises : due'[p] \subseteq due[p]
      /\ ~dangling' /\ promiseAt # 0 =>
            ToldSoFar(rest, at, TRUE, due'[pending[promiseAt]], pending[promiseAt], told)
  BY TakenOut
<1> HIDE DEF rest, at
<1>4. /\ observers' \in Seq(Functions) /\ Len(observers') = Len(rest) + 1 /\ IsInjective(observers')
  BY <1>2, <1>3, InsertMoves
<1>5. /\ observerAt' \in 1..(Len(observers') + 1)
      /\ ~dangling' /\ calling => observerAt' <= Len(observers')
  <2>1. k \in 1..(Len(rest) + 1)
    OBVIOUS
  <2>2. CASE calling
    <3>1. observerAt' = AfterInsert(at, k)
      BY <1>2, <2>2
    <3>2. QED
      BY <1>3, <1>4, <3>1 DEF AfterInsert
  <2>3. CASE ~calling
    BY <1>2, <1>3, <1>4, <2>3
  <2>4. QED
    BY <2>2, <2>3
<1>6. TypeOK'
  BY <1>1, <1>3, <1>4, <1>5 DEF TypeOK
<1>7. Iterating'
  <2>1. ASSUME dangling' PROVE calling'
    <3>1. CASE EraseObserver(f)
      BY <1>1, <2>1, <3>1 DEF EraseObserver
    <3>2. CASE UNCHANGED dangling
      BY <1>1, <2>1, <3>2
    <3>3. QED
      BY <3>1, <3>2 DEF On
  <2>2. QED
    BY <1>1, <1>5, <2>1 DEF Iterating
<1>8. Kept'
  BY <1>1 DEF Kept
<1>9. ASSUME ~dangling' PROVE Counted'
  <2>1. \A q \in Promises : q \notin done' /\ ~Current(q)' => \A g \in Functions : told'[<<q, g>>] = 0
    BY <1>1 DEF Counted, Current
  <2>2. \A q \in done' : \A g \in due'[q] : ToldUnlessCut(q, g)'
    BY <1>1, <1>3, ToldStays DEF TypeOK
  <2>3. ASSUME promiseAt # 0
        PROVE  ToldSoFar(observers', observerAt', calling, due'[pending[promiseAt]], pending[promiseAt], told)
    <3>1. calling = TRUE
      BY <1>1, <2>3 DEF TypeOK
    <3>2. ToldSoFar(rest, at, TRUE, due'[pending[promiseAt]], pending[promiseAt], told)
      BY <1>3, <1>9, <2>3
    <3>3. at \in Nat
      BY <1>3
    <3>4. ToldSoFar(InsertAt(rest, k, f), AfterInsert(at, k), TRUE,
                    due'[pending[promiseAt]], pending[promiseAt], told)
      BY <1>3, <3>2, <3>3, ToldInsert
    <3>5. QED
      BY <1>2, <3>1, <3>4
  <2>4. QED
    BY <1>1, <2>1, <2>2, <2>3 DEF Counted
<1>10. Excused'
  BY <1>1, ExcusedStays
<1>11. QED
  BY <1>6, <1>7, <1>8, <1>9, <1>10 DEF IInv

\* The first promise of the map has its turn, and everyone there is to be told of it.
LEMMA NotifyKeeps ==
    ASSUME IInv, NotifyUnhandledRejectionHandler
    PROVE  IInv'
<1> DEFINE p == pending[1]
<1>1. /\ TypeOK /\ Iterating /\ Kept /\ Counted /\ Excused
      /\ promiseAt = 0 /\ calling = FALSE /\ ~dangling
      /\ promiseAt' = 1 /\ observerAt' = 1
      /\ due' = [due EXCEPT ![p] = ToSet(observers)]
      /\ UNCHANGED <<pending, observers, settled, calling, told, done, cut, refusing, dangling>>
  BY DEF IInv, NotifyUnhandledRejectionHandler, GoTo, TypeOK
<1>2. /\ Len(pending) \in Nat /\ DOMAIN pending = 1..Len(pending)
      /\ Len(observers) \in Nat /\ DOMAIN observers = 1..Len(observers)
      /\ observers \in Seq(Functions)
  BY <1>1, LenProperties DEF TypeOK
<1>3. Len(pending) # 0
  BY <1>1, EmptySeq DEF NotifyUnhandledRejectionHandler, TypeOK
<1>4. p \in Promises /\ p \in ToSet(pending)
  <2>1. pending \in Seq(Promises) /\ 1 \in 1..Len(pending)
    BY <1>1, <1>2, <1>3 DEF TypeOK
  <2>2. QED
    BY <1>2, <2>1, ElementOfSeq DEF ToSet
<1>5. p \notin done
  BY <1>1, <1>4 DEF Kept
<1> HIDE DEF p
<1>6. ToSet(observers) \subseteq Functions
  BY <1>2, ElementOfSeq DEF ToSet
<1>7. TypeOK'
  <2>1. promiseAt' \in 0..Len(pending) /\ observerAt' \in 1..(Len(observers) + 1)
    BY <1>1, <1>2, <1>3
  <2>2. due' \in [Promises -> SUBSET Functions]
    BY <1>1, <1>6 DEF TypeOK
  <2>3. QED
    BY <1>1, <2>1, <2>2 DEF TypeOK
<1>8. Iterating'
  BY <1>1 DEF Iterating
<1>9. Kept'
  BY <1>1 DEF Kept
<1>10. Counted'
  <2>1. \A q \in Promises : q \notin done' => \A f \in Functions : told'[<<q, f>>] = 0
    BY <1>1 DEF Counted, Current
  <2>2. \A q \in done' : \A f \in due'[q] : ToldUnlessCut(q, f)'
    BY <1>1, <1>5, ToldStays DEF TypeOK
  <2>3. due'[p] = ToSet(observers)
    BY <1>1, <1>4 DEF TypeOK
  <2>4. ASSUME NEW i \in DOMAIN observers PROVE told[<<p, observers[i]>>] = 0 /\ ~(i < 1)
    BY <1>1, <1>2, <1>4, <1>5, <2>1, ElementOfSeq
  <2>5. ToldSoFar(observers, 1, FALSE, due'[p], p, told)
    BY <2>3, <2>4 DEF ToldSoFar
  <2>6. ToldSoFar(observers, observerAt, calling, due[pending[promiseAt]], pending[promiseAt], told)'
    BY <1>1, <2>5 DEF p
  <2>7. QED
    BY <2>1, <2>2, <2>6 DEF Counted
<1>11. Excused'
  BY <1>1, ExcusedStays
<1>12. QED
  BY <1>7, <1>8, <1>9, <1>10, <1>11 DEF IInv

\* The next observer is told, for the first time.
LEMMA CallKeeps ==
    ASSUME IInv, CallObserver
    PROVE  IInv'
<1> DEFINE p == pending[promiseAt]
           g == observers[observerAt]
<1>1. /\ TypeOK /\ Iterating /\ Kept /\ Counted /\ Excused
      /\ promiseAt # 0 /\ ~calling /\ observerAt <= Len(observers)
      /\ calling' = TRUE
      /\ told' = [told EXCEPT ![<<p, g>>] = IF @ = 0 THEN 1 ELSE 2]
      /\ UNCHANGED <<pending, observers, settled, promiseAt, observerAt, due, done, cut, refusing, dangling>>
  <2>1. ~dangling
    BY DEF IInv, CallObserver, Telling, Iterating
  <2>2. QED
    BY <2>1 DEF IInv, CallObserver, Telling
<1>2. /\ observers \in Seq(Functions) /\ Len(observers) \in Nat
      /\ DOMAIN observers = 1..Len(observers) /\ IsInjective(observers)
      /\ observerAt \in 1..Len(observers)
      /\ told \in [Promises \X Functions -> 0..2]
  BY <1>1, LenProperties DEF TypeOK
<1>3. ~dangling
  BY <1>1 DEF Iterating
<1>4. p \in Promises /\ p \notin done /\ Current(p)
  BY <1>1, <1>3, CurrentIsPending DEF Kept, Current
<1>5. g \in Functions
  BY <1>2, ElementOfSeq
<1>6. ToldSoFar(observers, observerAt, FALSE, due[p], p, told)
  <2>1. calling = FALSE
    BY <1>1 DEF TypeOK
  <2>2. QED
    BY <1>1, <1>3, <2>1 DEF Counted
<1> HIDE DEF p, g
<1>7. TypeOK'
  <2>1. told' \in [Promises \X Functions -> 0..2]
    <3>1. \A x : (IF x = 0 THEN 1 ELSE 2) \in 0..2
      OBVIOUS
    <3>2. QED
      BY <1>1, <1>2, <3>1
  <2>2. QED
    BY <1>1, <2>1 DEF TypeOK
<1>8. Iterating'
  BY <1>1 DEF Iterating
<1>9. Kept'
  BY <1>1, <1>3 DEF Kept
<1>10. Counted'
  <2>1. ASSUME NEW q, NEW f, <<q, f>> # <<p, g>> PROVE told'[<<q, f>>] = told[<<q, f>>]
    BY <1>1, <1>2, <2>1
  <2>2. ASSUME NEW q \in Promises, q \notin done, ~Current(q)', NEW f \in Functions
        PROVE  told'[<<q, f>>] = 0
    <3>1. ~Current(q) /\ q # p
      BY <1>1, <1>4, <2>2 DEF Current
    <3>2. QED
      BY <1>1, <1>3, <2>1, <2>2, <3>1 DEF Counted
  <2>3. ASSUME NEW q \in done, NEW f \in due[q] PROVE ToldUnlessCut(q, f)'
    BY <1>1, <1>3, <1>4, <2>1 DEF Counted, ToldUnlessCut
  <2>4. ASSUME NEW i \in DOMAIN observers, observers[i] \in due[p]
        PROVE  told'[<<p, observers[i]>>] = IF i < observerAt \/ i = observerAt THEN 1 ELSE 0
    <3>1. told[<<p, observers[i]>>] = IF i < observerAt THEN 1 ELSE 0
      BY <1>6, <2>4 DEF ToldSoFar
    <3>2. CASE i = observerAt
      <4>1. told[<<p, g>>] = 0 /\ <<p, g>> \in Promises \X Functions
        BY <1>2, <1>4, <1>5, <3>1, <3>2 DEF g
      <4>2. told'[<<p, g>>] = 1
        BY <1>1, <1>2, <4>1
      <4>3. QED
        BY <3>2, <4>2 DEF g
    <3>3. CASE i # observerAt
      <4>1. observers[i] # g
        BY <1>2, <3>3 DEF IsInjective, g
      <4>2. QED
        BY <2>1, <3>1, <3>3, <4>1
    <3>4. QED
      BY <3>2, <3>3
  <2>5. due[p] \subseteq ToSet(observers)
    BY <1>6 DEF ToldSoFar
  <2>6. ToldSoFar(observers, observerAt, TRUE, due[p], p, told')
    BY <2>4, <2>5 DEF ToldSoFar
  <2>7. ToldSoFar(observers, observerAt, calling, due[pending[promiseAt]], pending[promiseAt], told)'
    BY <1>1, <2>6 DEF p
  <2>8. QED
    BY <1>1, <2>2, <2>3, <2>7 DEF Counted
<1>11. Excused'
  <2>1. told'[<<p, g>>] >= 1
    BY <1>1, <1>2, <1>4, <1>5
  <2>2. ASSUME NEW q \in Promises, NEW f \in Functions, told[<<q, f>>] >= 1
        PROVE  told'[<<q, f>>] >= 1
    BY <1>1, <1>2, <2>1, <2>2
  <2>3. \E f \in Functions : told'[<<pending'[promiseAt'], f>>] >= 1
    BY <1>1, <1>5, <2>1 DEF p
  <2>4. QED
    BY <1>1, <2>2, <2>3 DEF Excused
<1>12. QED
  BY <1>7, <1>8, <1>9, <1>10, <1>11 DEF IInv

LEMMA ReturnKeeps ==
    ASSUME IInv, ObserverReturns
    PROVE  IInv'
<1>1. /\ TypeOK /\ Iterating /\ Kept /\ Counted /\ Excused
      /\ calling = TRUE /\ ~dangling /\ calling' = FALSE
      /\ observerAt' = observerAt + 1
      /\ UNCHANGED <<pending, observers, settled, promiseAt, due, told, done, cut, refusing, dangling>>
  BY DEF IInv, ObserverReturns, TypeOK
<1>2. /\ promiseAt # 0 /\ observerAt <= Len(observers)
      /\ Len(observers) \in Nat /\ DOMAIN observers = 1..Len(observers)
      /\ observerAt \in 1..(Len(observers) + 1)
  BY <1>1, LenProperties DEF Iterating, TypeOK
<1>3. TypeOK'
  <2>1. observerAt' \in 1..(Len(observers) + 1)
    BY <1>1, <1>2
  <2>2. QED
    BY <1>1, <2>1 DEF TypeOK
<1>4. Iterating'
  BY <1>1 DEF Iterating
<1>5. Kept'
  BY <1>1 DEF Kept
<1>6. Counted'
  <2>1. ToldSoFar(observers, observerAt, TRUE, due[pending[promiseAt]], pending[promiseAt], told)
    BY <1>1, <1>2 DEF Counted
  <2>2. \A i \in DOMAIN observers : i < observerAt + 1 <=> i < observerAt \/ i = observerAt
    BY <1>2
  <2>3. ToldSoFar(observers, observerAt + 1, FALSE, due[pending[promiseAt]], pending[promiseAt], told)
    BY <2>1, <2>2 DEF ToldSoFar
  <2>4. QED
    BY <1>1, <2>3 DEF Counted, Current, ToldUnlessCut
<1>7. Excused'
  BY <1>1, ExcusedStays
<1>8. QED
  BY <1>3, <1>4, <1>5, <1>6, <1>7 DEF IInv

\* An observer that throws was told; the promise that it was told of is not done yet.
LEMMA ThrowKeeps ==
    ASSUME IInv, ObserverThrows
    PROVE  IInv'
<1> DEFINE p == pending[promiseAt]
<1>1. /\ TypeOK /\ Iterating /\ Kept /\ Counted /\ Excused
      /\ calling = TRUE /\ ~dangling /\ calling' = FALSE
      /\ observerAt' = observerAt + 1
      /\ cut' = [cut EXCEPT ![p] = "threw"]
      /\ refusing' \in BOOLEAN
      /\ UNCHANGED <<pending, observers, settled, promiseAt, due, told, done, dangling>>
  BY DEF IInv, ObserverThrows, TypeOK
<1>2. /\ promiseAt # 0 /\ observerAt <= Len(observers)
      /\ Len(observers) \in Nat /\ DOMAIN observers = 1..Len(observers)
      /\ observerAt \in 1..(Len(observers) + 1)
      /\ cut \in [Promises -> {"none", "threw", "refused"}]
  BY <1>1, LenProperties DEF Iterating, TypeOK
<1>3. p \in Promises /\ p \notin done
  BY <1>1, <1>2, CurrentIsPending DEF Kept
<1>4. TypeOK'
  <2>1. observerAt' \in 1..(Len(observers) + 1)
    BY <1>1, <1>2
  <2>2. cut' \in [Promises -> {"none", "threw", "refused"}]
    BY <1>1, <1>2
  <2>3. QED
    BY <1>1, <2>1, <2>2 DEF TypeOK
<1>5. Iterating'
  BY <1>1 DEF Iterating
<1>6. Kept'
  BY <1>1 DEF Kept
<1>7. ASSUME NEW q \in Promises, q # p PROVE cut'[q] = cut[q]
  BY <1>1, <1>2, <1>7
<1>8. cut'[p] = "threw"
  BY <1>1, <1>2, <1>3
<1>9. Counted'
  <2>1. ToldSoFar(observers, observerAt, TRUE, due[p], p, told)
    BY <1>1, <1>2 DEF Counted
  <2>2. \A i \in DOMAIN observers : i < observerAt + 1 <=> i < observerAt \/ i = observerAt
    BY <1>2
  <2>3. ToldSoFar(observers, observerAt + 1, FALSE, due[p], p, told)
    BY <2>1, <2>2 DEF ToldSoFar
  <2>4. \A q \in Promises : q \notin done' /\ ~Current(q)' => \A f \in Functions : told'[<<q, f>>] = 0
    BY <1>1 DEF Counted, Current
  <2>5. ASSUME NEW q \in done', NEW f \in due'[q] PROVE ToldUnlessCut(q, f)'
    <3>1. q \in Promises /\ q # p
      BY <1>1, <1>3, <2>5 DEF TypeOK
    <3>2. QED
      BY <1>1, <1>7, <2>5, <3>1 DEF Counted, ToldUnlessCut
  <2>6. ToldSoFar(observers, observerAt, calling, due[pending[promiseAt]], pending[promiseAt], told)'
    BY <1>1, <2>3
  <2>7. QED
    BY <2>4, <2>5, <2>6 DEF Counted
<1>10. Excused'
  <2>1. \E f \in Functions : told'[<<p, f>>] >= 1
    BY <1>1 DEF Excused
  <2>2. ASSUME NEW q \in Promises
        PROVE  /\ cut'[q] = "threw" => \E f \in Functions : told'[<<q, f>>] >= 1
               /\ cut'[q] = "refused" => \E r \in Promises \ {q} : cut'[r] = "threw"
    <3>1. CASE q = p
      BY <1>8, <2>1, <3>1
    <3>2. CASE q # p
      <4>1. cut'[q] = cut[q]
        BY <1>7, <3>2
      <4>2. cut'[q] = "threw" => \E f \in Functions : told'[<<q, f>>] >= 1
        BY <1>1, <4>1 DEF Excused
      <4>3. cut'[q] = "refused" => \E r \in Promises \ {q} : cut'[r] = "threw"
        BY <1>3, <1>8, <3>2
      <4>4. QED
        BY <4>2, <4>3
    <3>3. QED
      BY <3>1, <3>2
  <2>3. \E q \in Promises : cut'[q] = "threw"
    BY <1>3, <1>8
  <2>4. QED
    BY <1>1, <2>2, <2>3 DEF Excused
<1>11. QED
  BY <1>4, <1>5, <1>6, <1>9, <1>10 DEF IInv

\* An observer that is not called is not told: the exception is that of another promise.
LEMMA RefusedKeeps ==
    ASSUME IInv, CallIsRefused
    PROVE  IInv'
<1> DEFINE p == pending[promiseAt]
<1>1. /\ TypeOK /\ Iterating /\ Kept /\ Counted /\ Excused
      /\ promiseAt # 0 /\ ~calling /\ cut[p] = "none" /\ refusing
      /\ cut' = [cut EXCEPT ![p] = "refused"]
      /\ UNCHANGED <<pending, observers, settled, promiseAt, observerAt, calling, due, told, done,
                     refusing, dangling>>
  <2>1. ~dangling
    BY DEF IInv, CallIsRefused, Telling, Iterating
  <2>2. QED
    BY <2>1 DEF IInv, CallIsRefused, Telling
<1>2. ~dangling /\ cut \in [Promises -> {"none", "threw", "refused"}]
  BY <1>1 DEF Iterating, TypeOK
<1>3. p \in Promises /\ p \notin done
  BY <1>1, <1>2, CurrentIsPending DEF Kept
<1>4. TypeOK'
  <2>1. cut' \in [Promises -> {"none", "threw", "refused"}]
    BY <1>1, <1>2
  <2>2. QED
    BY <1>1, <2>1 DEF TypeOK
<1>5. Iterating'
  BY <1>1 DEF Iterating
<1>6. Kept'
  BY <1>1 DEF Kept
<1>7. ASSUME NEW q \in Promises, q # p PROVE cut'[q] = cut[q]
  BY <1>1, <1>2, <1>7
<1>8. cut'[p] = "refused"
  BY <1>1, <1>2, <1>3
<1>9. Counted'
  <2>1. \A q \in Promises : q \notin done' /\ ~Current(q)' => \A f \in Functions : told'[<<q, f>>] = 0
    BY <1>1 DEF Counted, Current
  <2>2. ASSUME NEW q \in done', NEW f \in due'[q] PROVE ToldUnlessCut(q, f)'
    <3>1. q \in Promises /\ q # p
      BY <1>1, <1>3, <2>2 DEF TypeOK
    <3>2. QED
      BY <1>1, <1>7, <2>2, <3>1 DEF Counted, ToldUnlessCut
  <2>3. ToldSoFar(observers, observerAt, calling, due[pending[promiseAt]], pending[promiseAt], told)'
    BY <1>1 DEF Counted, ToldSoFar
  <2>4. QED
    BY <2>1, <2>2, <2>3 DEF Counted
<1>10. Excused'
  <2>1. PICK r \in Promises : cut[r] = "threw"
    BY <1>1 DEF Excused
  <2>2. r # p /\ cut'[r] = "threw"
    BY <1>1, <1>7, <2>1
  <2>3. ASSUME NEW q \in Promises
        PROVE  /\ cut'[q] = "threw" => \E f \in Functions : told'[<<q, f>>] >= 1
               /\ cut'[q] = "refused" => \E s \in Promises \ {q} : cut'[s] = "threw"
    <3>1. cut'[q] = "threw" => \E f \in Functions : told'[<<q, f>>] >= 1
      <4>1. CASE q = p
        BY <1>8, <4>1
      <4>2. CASE q # p
        BY <1>1, <1>7, <4>2 DEF Excused
      <4>3. QED
        BY <4>1, <4>2
    <3>2. cut'[q] = "refused" => \E s \in Promises \ {q} : cut'[s] = "threw"
      BY <2>2
    <3>3. QED
      BY <3>1, <3>2
  <2>4. QED
    BY <1>1, <2>2, <2>3 DEF Excused
<1>11. QED
  BY <1>4, <1>5, <1>6, <1>9, <1>10 DEF IInv

\* Everyone who was due was told, or the calls were cut short; the promise goes, and the next one has its turn.
LEMMA ErasePromiseKeeps ==
    ASSUME IInv, ErasePromise
    PROVE  IInv'
<1> DEFINE p == pending[promiseAt]
           i == IF promiseAt = Len(pending) THEN 0 ELSE promiseAt
           n == pending'[i]
<1>1. /\ TypeOK /\ Iterating /\ Kept /\ Counted /\ Excused
      /\ promiseAt # 0 /\ ~calling
      /\ observerAt > Len(observers) \/ cut[p] # "none"
      /\ pending' = RemoveAt(pending, promiseAt)
      /\ done' = done \cup {p}
      /\ promiseAt' = i /\ observerAt' = 1
      /\ refusing' = (refusing /\ i # 0)
      /\ due' = IF i = 0 THEN due ELSE [due EXCEPT ![n] = ToSet(observers)]
      /\ UNCHANGED <<observers, settled, calling, told, cut, dangling>>
  <2>1. ~dangling
    BY DEF IInv, ErasePromise, Iterating
  <2>2. QED
    BY <2>1 DEF IInv, ErasePromise, AfterTold, GoTo
<1>2. /\ pending \in Seq(Promises) /\ IsInjective(pending) /\ Len(pending) \in Nat
      /\ observers \in Seq(Functions)
      /\ Len(observers) \in Nat /\ DOMAIN observers = 1..Len(observers)
  BY <1>1, LenProperties DEF TypeOK
<1>3. ~dangling
  BY <1>1 DEF Iterating
<1>4. promiseAt \in 1..Len(pending) /\ p \in Promises /\ p \in ToSet(pending)
  BY <1>1, CurrentIsPending
<1>5. /\ pending' \in Seq(Promises) /\ Len(pending') = Len(pending) - 1
      /\ IsInjective(pending') /\ ToSet(pending') = ToSet(pending) \ {p}
  <2> DEFINE s == RemoveAt(pending, promiseAt)
  <2>1. promiseAt \in 1..Len(pending) /\ pending \in Seq(Promises) /\ IsInjective(pending)
    BY <1>2, <1>4
  <2>2. /\ s \in Seq(Promises) /\ Len(s) = Len(pending) - 1
        /\ IsInjective(s) /\ ToSet(s) = ToSet(pending) \ {pending[promiseAt]}
    BY <2>1, EraseMoves
  <2>3. QED
    BY <1>1, <2>2
<1>6. i \in 0..Len(pending')
  BY <1>2, <1>4, <1>5
<1>7. i # 0 => n \in Promises /\ n \in ToSet(pending')
  <2>1. DOMAIN pending' = 1..Len(pending')
    BY <1>5, LenProperties
  <2>2. i # 0 => i \in 1..Len(pending')
    BY <1>2, <1>5, <1>6
  <2>3. QED
    BY <1>5, <2>1, <2>2, ElementOfSeq DEF ToSet
<1>8. p \notin done /\ settled[p] = "rejected"
  BY <1>1, <1>3, <1>4 DEF Kept
<1>9. i # 0 => n # p /\ n \notin done
  BY <1>1, <1>3, <1>5, <1>7 DEF Kept
<1>10. calling = FALSE /\ ToldSoFar(observers, observerAt, FALSE, due[p], p, told)
  <2>1. calling = FALSE
    BY <1>1 DEF TypeOK
  <2>2. QED
    BY <1>1, <1>3, <2>1 DEF Counted
<1> HIDE DEF p, i, n
<1>11. ToSet(observers) \subseteq Functions
  BY <1>2, ElementOfSeq DEF ToSet
<1>12. TypeOK'
  <2>1. observerAt' \in 1..(Len(observers) + 1)
    BY <1>1, <1>2
  <2>2. due' \in [Promises -> SUBSET Functions]
    BY <1>1, <1>7, <1>11 DEF TypeOK
  <2>3. done' \subseteq Promises
    BY <1>1, <1>4 DEF TypeOK
  <2>4. refusing' \in BOOLEAN
    BY <1>1
  <2>5. QED
    BY <1>1, <1>5, <1>6, <2>1, <2>2, <2>3, <2>4 DEF TypeOK
<1>13. Iterating'
  BY <1>1, <1>3 DEF Iterating
<1>14. Kept'
  BY <1>1, <1>3, <1>4, <1>5, <1>8 DEF Kept
<1>15. Counted'
  <2>1. ASSUME NEW q \in Promises, q \notin done' PROVE \A f \in Functions : told[<<q, f>>] = 0
    <3>1. q \notin done /\ ~Current(q)
      BY <1>1, <2>1 DEF Current, p
    <3>2. QED
      BY <1>1, <1>3, <3>1 DEF Counted
  <2>2. ASSUME NEW q \in done', NEW f \in due'[q] PROVE ToldUnlessCut(q, f)'
    <3>1. due'[q] = due[q]
      BY <1>1, <1>4, <1>9 DEF TypeOK
    <3>2. CASE q = p
      <4>1. f \in ToSet(observers)
        BY <1>10, <2>2, <3>1, <3>2 DEF ToldSoFar
      <4>2. PICK j \in DOMAIN observers : observers[j] = f
        BY <4>1 DEF ToSet
      <4>3. told[<<p, f>>] = IF j < observerAt THEN 1 ELSE 0
        BY <1>10, <2>2, <3>1, <3>2, <4>2 DEF ToldSoFar
      <4>4. j < observerAt \/ cut[p] # "none"
        <5>1. observerAt \in Nat
          BY <1>1, <1>2 DEF TypeOK
        <5>2. QED
          BY <1>1, <1>2, <5>1
      <4>5. QED
        BY <1>1, <3>2, <4>3, <4>4 DEF ToldUnlessCut
    <3>3. CASE q # p
      BY <1>1, <1>3, <3>1, <3>3, <2>2 DEF Counted, ToldUnlessCut
    <3>4. QED
      BY <3>2, <3>3
  <2>3. ASSUME i # 0
        PROVE  ToldSoFar(observers, 1, FALSE, due'[n], n, told)
    <3>1. due'[n] = ToSet(observers)
      BY <1>1, <1>7, <2>3 DEF TypeOK
    <3>2. n \in Promises /\ n \notin done'
      BY <1>1, <1>7, <1>9, <2>3
    <3>3. ASSUME NEW j \in DOMAIN observers PROVE told[<<n, observers[j]>>] = 0 /\ ~(j < 1)
      BY <1>2, <2>1, <3>2, ElementOfSeq
    <3>4. QED
      BY <3>1, <3>3 DEF ToldSoFar
  <2>4. ASSUME promiseAt' # 0
        PROVE  ToldSoFar(observers, observerAt, calling, due[pending[promiseAt]], pending[promiseAt], told)'
    BY <1>1, <1>10, <2>3, <2>4 DEF n
  <2>5. QED
    BY <1>1, <2>1, <2>2, <2>4 DEF Counted
<1>16. Excused'
  BY <1>1, ExcusedStays
<1>17. QED
  BY <1>12, <1>13, <1>14, <1>15, <1>16 DEF IInv

LEMMA NextStep == IInv /\ [Next]_vars => IInv'
<1> SUFFICES ASSUME IInv, [Next]_vars PROVE IInv'
  OBVIOUS
<1>1. ASSUME NEW p \in Promises, AddRejection(p) \/ RemoveRejection(p) PROVE IInv'
  BY <1>1, AddRejectionKeeps, RemoveRejectionKeeps
<1>2. ASSUME NEW f \in Functions, On(f) \/ Off(f) PROVE IInv'
  BY <1>2, OnKeeps, OffKeeps
<1>3. CASE OffAll
  BY <1>3, OffAllKeeps
<1>4. CASE NotifyUnhandledRejectionHandler
  BY <1>4, NotifyKeeps
<1>5. CASE CallObserver
  BY <1>5, CallKeeps
<1>6. CASE ObserverReturns
  BY <1>6, ReturnKeeps
<1>7. CASE ErasePromise
  BY <1>7, ErasePromiseKeeps
<1>8. CASE ObserverThrows \/ CallIsRefused
  BY <1>8, ThrowKeeps, RefusedKeeps
<1>9. CASE UNCHANGED vars
  BY <1>9 DEF vars, IInv, TypeOK, Iterating, Kept, Counted, Excused, Current, ToldSoFar, ToldUnlessCut
<1>10. QED
  BY <1>1, <1>2, <1>3, <1>4, <1>5, <1>6, <1>7, <1>8, <1>9 DEF Next

LEMMA Invariance == Spec => []IInv
BY InitHolds, NextStep, PTL DEF Spec

\* What the invariant says of those who observed from the start.
LEMMA IInvTells == IInv => RejectionsTold
<1> SUFFICES ASSUME IInv, ~dangling, NEW p \in Promises
             PROVE  /\ settled[p] = "rejected" => p \in ToSet(pending) \cup done
                    /\ p \in ToSet(pending) => settled[p] = "rejected" /\ p \notin done
                    /\ \A f \in due[p] :
                        /\ told[<<p, f>>] <= 1
                        /\ p \in done => told[<<p, f>>] = 1 \/ cut[p] # "none"
                    /\ cut[p] = "threw" => \E f \in Functions : told[<<p, f>>] >= 1
                    /\ cut[p] = "refused" => \E q \in Promises \ {p} : cut[q] = "threw"
  BY DEF RejectionsTold
<1>1. TypeOK /\ Kept /\ Counted /\ Excused
  BY DEF IInv
<1>2. ASSUME NEW f \in due[p]
      PROVE  told[<<p, f>>] <= 1 /\ (p \in done => told[<<p, f>>] = 1 \/ cut[p] # "none")
  <2>1. f \in Functions
    BY <1>1 DEF TypeOK
  <2>2. CASE p \in done
    BY <1>1, <2>2 DEF Counted, ToldUnlessCut
  <2>3. CASE p \notin done /\ ~Current(p)
    BY <1>1, <2>1, <2>3 DEF Counted
  <2>4. CASE p \notin done /\ Current(p)
    <3>1. ToldSoFar(observers, observerAt, calling, due[p], p, told)
      BY <1>1, <2>4 DEF Counted, Current
    <3>2. PICK i \in DOMAIN observers : observers[i] = f
      BY <3>1 DEF ToldSoFar, ToSet
    <3>3. told[<<p, f>>] \in {0, 1}
      BY <3>1, <3>2 DEF ToldSoFar
    <3>4. QED
      BY <2>4, <3>3
  <2>5. QED
    BY <2>2, <2>3, <2>4
<1>3. QED
  BY <1>1, <1>2 DEF Kept, Excused

\* The types of RejectionManager: the iterators stay within their containers.
THEOREM TypeCorrect == Spec => []TypeOK
BY Invariance, PTL DEF IInv

\* While observers add and handle promises, come and go, no rejection is lost, none that is
\* handled is told, and who observed from the start is told exactly once, or not at all after an
\* observer that threw, unless the element under an iterator was erased.
THEOREM EveryoneIsTold == Spec => []RejectionsTold
BY Invariance, IInvTells, PTL
================================================================================
