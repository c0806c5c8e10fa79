---------------------------- MODULE AppEventsProofs ----------------------------
(***************************************************************************)
(* Proofs about AppEvents, for any number of watchers and events: the types  *)
(* and the invariants that its runs check.  KeepsMappedEvents, which the     *)
(* code violates, and the liveness of the timer are not here.                *)
(***************************************************************************)
EXTENDS AppEvents, SequenceTheorems, FiniteSetTheorems, WellFoundedInduction, TLAPS

\* Every non-empty set of naturals has a least element.
LEMMA LeastNat ==
    ASSUME NEW T \in SUBSET Nat, T # {}
    PROVE  \E m \in T : \A k \in T : m <= k
<1>1. PICK m \in T : \A k \in T : ~(<<k, m>> \in OpToRel(<, Nat))
  BY NatLessThanWellFounded, WFMin
<1>2. \A k \in T : ~(k < m)
  BY <1>1 DEF OpToRel
<1> QED BY <1>2

\* A set of naturals that holds 0 and is closed under successor is Nat.
LEMMA NatClosed ==
    ASSUME NEW T, 0 \in T, \A n \in Nat : n \in T => n + 1 \in T
    PROVE  \A n \in Nat : n \in T
<1> DEFINE Out == {n \in Nat : n \notin T}
<1>1. SUFFICES ASSUME Out # {} PROVE FALSE
  OBVIOUS
<1>2. PICK m \in Out : \A k \in Out : m <= k
  BY <1>1, LeastNat
<1>3. m # 0 /\ m - 1 \in Nat
  OBVIOUS
<1>4. m - 1 \notin Out
  BY <1>2, <1>3
<1>5. m - 1 \in T /\ (m - 1) + 1 = m
  BY <1>3, <1>4
<1>6. QED
  BY <1>3, <1>5

-------------------------------------------------------------------------------
(* The tasks that are sent. *)

LEMMA FunctionIsSeq ==
    ASSUME NEW S, NEW n \in Nat, NEW f \in [1..n -> S]
    PROVE  f \in Seq(S)
BY SeqDef

Holds(s, x) == \E i \in DOMAIN s : s[i] = x

\* The elements of a concatenation are those of its parts.
LEMMA ConcatHolds ==
    ASSUME NEW S, NEW a \in Seq(S), NEW b \in Seq(S)
    PROVE  /\ a \o b \in Seq(S)
           /\ Len(a \o b) = Len(a) + Len(b)
           /\ DOMAIN (a \o b) = 1..(Len(a) + Len(b))
           /\ \A i \in DOMAIN a : (a \o b)[i] = a[i]
           /\ \A i \in DOMAIN (a \o b) :
                 \/ i \in DOMAIN a
                 \/ (i - Len(a) \in DOMAIN b /\ (a \o b)[i] = b[i - Len(a)])
           /\ \A x : Holds(a \o b, x) <=> Holds(a, x) \/ Holds(b, x)
<1> DEFINE c == a \o b
           m == Len(a)
           n == Len(b)
<1>1. /\ m \in Nat /\ n \in Nat /\ DOMAIN a = 1..m /\ DOMAIN b = 1..n
      /\ c \in Seq(S) /\ Len(c) = m + n
      /\ \A i \in 1..(m + n) : c[i] = IF i <= m THEN a[i] ELSE b[i - m]
  BY ConcatProperties, LenProperties
<1>2. DOMAIN c = 1..(m + n)
  BY <1>1, LenProperties
<1> HIDE DEF c, m, n
<1>3. \A i \in 1..m : c[i] = a[i]
  BY <1>1
<1>4. \A i \in 1..(m + n) : i \in 1..m \/ (i - m \in 1..n /\ c[i] = b[i - m])
  BY <1>1
<1>5. \A i \in 1..n : m + i \in 1..(m + n) /\ c[m + i] = b[i]
  <2>1. TAKE i \in 1..n
  <2>2. m + i \in 1..(m + n) /\ ~(m + i <= m) /\ (m + i) - m = i
    BY <1>1
  <2>3. QED
    BY <1>1, <2>2
<1>6. ASSUME NEW x PROVE Holds(c, x) <=> Holds(a, x) \/ Holds(b, x)
  <2>1. ASSUME Holds(c, x) PROVE Holds(a, x) \/ Holds(b, x)
    <3>1. PICK i \in 1..(m + n) : c[i] = x
      BY <1>2, <2>1 DEF Holds
    <3>2. QED
      BY <1>1, <1>3, <1>4, <3>1 DEF Holds
  <2>2. ASSUME Holds(a, x) PROVE Holds(c, x)
    <3>1. PICK i \in 1..m : a[i] = x
      BY <1>1, <2>2 DEF Holds
    <3>2. i \in 1..(m + n)
      BY <1>1
    <3>3. QED
      BY <1>2, <1>3, <3>1, <3>2 DEF Holds
  <2>3. ASSUME Holds(b, x) PROVE Holds(c, x)
    BY <1>1, <1>2, <1>5, <2>3 DEF Holds
  <2>4. QED
    BY <2>1, <2>2, <2>3
<1>7. QED
  BY <1>1, <1>2, <1>3, <1>4, <1>6 DEF c, m, n

Flattens(g, n, parts) ==
    g = [i \in 1..n |-> IF i = 1 THEN parts[i] ELSE g[i - 1] \o parts[i]]

LEMMA FlattensStep ==
    ASSUME NEW g, NEW n \in Nat, NEW parts, Flattens(g, n, parts)
    PROVE  \A i \in 1..n : g[i] = IF i = 1 THEN parts[i] ELSE g[i - 1] \o parts[i]
<1> DEFINE step(i) == IF i = 1 THEN parts[i] ELSE g[i - 1] \o parts[i]
<1>1. g = [i \in 1..n |-> step(i)]
  BY DEF Flattens
<1> HIDE DEF step
<1>2. \A i \in 1..n : g[i] = step(i)
  BY <1>1
<1>3. QED
  BY <1>2 DEF step

\* The recursive function in FlattenSeq is defined on every prefix of its argument.
LEMMA FlattensExists ==
    ASSUME NEW parts, NEW len \in Nat
    PROVE  \E g : Flattens(g, len, parts)
<1> DEFINE T == {n \in Nat : \E g : Flattens(g, n, parts)}
<1>1. 0 \in T
  <2> DEFINE g == [i \in 1..0 |-> << >>]
             step(i) == IF i = 1 THEN parts[i] ELSE g[i - 1] \o parts[i]
  <2>1. g = [i \in 1..0 |-> step(i)]
    <3>1. 1..0 = {}
      OBVIOUS
    <3>2. QED
      BY <3>1
  <2>2. QED
    BY <2>1 DEF Flattens
<1>2. ASSUME NEW n \in Nat, n \in T
      PROVE  n + 1 \in T
  <2>1. PICK g : Flattens(g, n, parts)
    BY <1>2
  <2> DEFINE last == IF n = 0 THEN parts[n + 1] ELSE g[n] \o parts[n + 1]
             h == [i \in 1..(n + 1) |-> IF i <= n THEN g[i] ELSE last]
             step(i) == IF i = 1 THEN parts[i] ELSE h[i - 1] \o parts[i]
  <2>2. \A i \in 1..n : h[i] = g[i]
    OBVIOUS
  <2>3. \A i \in 1..(n + 1) : h[i] = step(i)
    <3>1. TAKE i \in 1..(n + 1)
    <3>2. CASE i \in 1..n
      <4>1. g[i] = IF i = 1 THEN parts[i] ELSE g[i - 1] \o parts[i]
        BY <2>1, <3>2, FlattensStep
      <4>2. h[i] = g[i] /\ (i # 1 => h[i - 1] = g[i - 1])
        BY <3>2, <2>2
      <4>3. QED
        BY <4>1, <4>2
    <3>3. CASE i = n + 1
      <4>1. h[i] = last /\ i - 1 = n /\ (n # 0 => h[n] = g[n]) /\ (n = 0 <=> i = 1)
        BY <3>3
      <4>2. CASE n = 0
        BY <3>3, <4>1, <4>2
      <4>3. CASE n # 0
        <5>1. step(i) = h[i - 1] \o parts[i]
          BY <4>1, <4>3
        <5>2. h[i - 1] = g[n]
          BY <4>1, <4>3
        <5>3. last = g[n] \o parts[i]
          BY <3>3, <4>3
        <5> HIDE DEF h, last, step
        <5>4. QED
          BY <4>1, <5>1, <5>2, <5>3
      <4>4. QED
        BY <4>2, <4>3
    <3>4. QED
      BY <3>1, <3>2, <3>3
  <2>4. h = [i \in 1..(n + 1) |-> step(i)]
    <3>1. h = [i \in 1..(n + 1) |-> h[i]]
      OBVIOUS
    <3> HIDE DEF h
    <3>2. QED
      BY <2>3, <3>1
  <2>5. Flattens(h, n + 1, parts)
    BY <2>4 DEF Flattens
  <2>6. QED
    BY <2>5
<1>3. QED
  <2> HIDE DEF T
  <2>1. len \in T
    BY <1>1, <1>2, NatClosed
  <2>2. QED
    BY <2>1 DEF T

\* The elements of a flattened sequence are those of its parts.
LEMMA FlattenHolds ==
    ASSUME NEW S, NEW parts \in Seq(Seq(S))
    PROVE  /\ FlattenSeq(parts) \in Seq(S)
           /\ \A x : Holds(FlattenSeq(parts), x) <=> \E i \in DOMAIN parts : Holds(parts[i], x)
<1>1. Len(parts) \in Nat /\ DOMAIN parts = 1..Len(parts)
      /\ \A i \in 1..Len(parts) : parts[i] \in Seq(S)
  BY LenProperties, ElementOfSeq
<1>2. CASE Len(parts) = 0
  <2>1. FlattenSeq(parts) = parts /\ parts = << >> /\ DOMAIN parts = {}
    BY <1>1, <1>2, EmptySeq DEF FlattenSeq
  <2>2. QED
    BY <2>1, EmptySeq DEF Holds
<1>3. CASE Len(parts) # 0
  <2> DEFINE g == CHOOSE h : Flattens(h, Len(parts), parts)
             Fine(i) == /\ g[i] \in Seq(S)
                        /\ \A x : Holds(g[i], x) <=> \E j \in 1..i : Holds(parts[j], x)
             T == {n \in Nat : n + 1 <= Len(parts) => Fine(n + 1)}
  <2>1. FlattenSeq(parts) = g[Len(parts)]
    BY <1>3 DEF FlattenSeq, Flattens
  <2>2. Flattens(g, Len(parts), parts)
    BY <1>1, FlattensExists
  <2> HIDE DEF g
  <2>3. 0 \in T
    <3>1. g[1] = parts[1] /\ parts[1] \in Seq(S)
      <4>1. 1 \in 1..Len(parts)
        BY <1>1, <1>3
      <4>2. QED
        BY <1>1, <2>2, <4>1, FlattensStep
    <3>2. Fine(1)
      BY <3>1
    <3>3. QED
      BY <3>2
  <2>4. ASSUME NEW n \in Nat, n \in T PROVE n + 1 \in T
    <3>1. SUFFICES ASSUME (n + 1) + 1 <= Len(parts) PROVE Fine((n + 1) + 1)
      OBVIOUS
    <3>2. /\ (n + 1) + 1 \in 1..Len(parts) /\ (n + 1) + 1 # 1 /\ ((n + 1) + 1) - 1 = n + 1
          /\ n + 1 <= Len(parts)
      BY <1>1, <3>1
    <3>3. Fine(n + 1)
      BY <2>4, <3>2
    <3>4. g[(n + 1) + 1] = g[n + 1] \o parts[(n + 1) + 1]
      <4>1. Len(parts) \in Nat
        BY <1>1
      <4>2. \A i \in 1..Len(parts) : g[i] = IF i = 1 THEN parts[i] ELSE g[i - 1] \o parts[i]
        BY <2>2, <4>1, FlattensStep
      <4>3. QED
        BY <3>2, <4>2
    <3>5. parts[(n + 1) + 1] \in Seq(S)
      BY <1>1, <3>2
    <3>6. /\ g[(n + 1) + 1] \in Seq(S)
          /\ \A x : Holds(g[(n + 1) + 1], x) <=>
                        Holds(g[n + 1], x) \/ Holds(parts[(n + 1) + 1], x)
      BY <3>3, <3>4, <3>5, ConcatHolds
    <3>7. \A x : (\E j \in 1..((n + 1) + 1) : Holds(parts[j], x)) <=>
                    (\E j \in 1..(n + 1) : Holds(parts[j], x)) \/ Holds(parts[(n + 1) + 1], x)
      <4>1. 1..((n + 1) + 1) = 1..(n + 1) \cup {(n + 1) + 1}
        OBVIOUS
      <4>2. QED
        BY <4>1
    <3>8. QED
      BY <3>3, <3>6, <3>7
  <2>5. Len(parts) - 1 \in T
    <3> HIDE DEF T
    <3>1. Len(parts) - 1 \in Nat
      BY <1>1, <1>3
    <3>2. QED
      BY <2>3, <2>4, <3>1, NatClosed
  <2>6. Fine(Len(parts))
    <3>1. (Len(parts) - 1) + 1 = Len(parts)
      BY <1>1
    <3>2. QED
      BY <2>5, <3>1
  <2>7. QED
    BY <1>1, <2>1, <2>6
<1>4. QED
  BY <1>2, <1>3

\* A sequence of all elements of a finite set has each of them.
LEMMA OrderHolds ==
    ASSUME NEW ws, IsFiniteSet(ws), NEW order \in SetToSeqs(ws)
    PROVE  /\ DOMAIN order = 1..Cardinality(ws) /\ Cardinality(ws) \in Nat
           /\ order \in Seq(ws)
           /\ \A w \in ws : \E i \in DOMAIN order : order[i] = w
<1>1. Cardinality(ws) \in Nat
  BY FS_CardinalityType
<1> DEFINE D == 1..Cardinality(ws)
<1>2. order \in [D -> ws] /\ \A i, j \in D : i # j => order[i] # order[j]
  BY DEF SetToSeqs
<1>3. order \in Injection(D, ws)
  BY <1>2 DEF Injection, IsInjective
<1>4. IsFiniteSet(D) /\ Cardinality(D) = Cardinality(ws)
  BY <1>1, FS_Interval
<1>5. order \in Surjection(D, ws)
  BY <1>3, <1>4, FS_Injection
<1>6. order \in Seq(ws)
  BY <1>1, <1>2, SeqDef
<1>7. QED
  BY <1>1, <1>2, <1>5, <1>6 DEF Surjection
-------------------------------------------------------------------------------
(* The inductive invariant. *)

\* What is assumed of the constants: receivers are watchers, and every watcher has a
\* natural row and timeout.
EventsAssumption ==
    /\ IsFiniteSet(Watchers) /\ Receivers \subseteq Watchers
    /\ MaxEvents \in Nat /\ MaxClears \in Nat
    /\ RowOf \in [Watchers -> Nat] /\ TimeoutOf \in [Watchers -> Nat]

Typed ==
    /\ kinds \in Seq(Kinds) /\ Len(kinds) <= MaxEvents
    /\ eventMap \subseteq DOMAIN kinds
    /\ mapping \subseteq (DOMAIN kinds) \X ObserverSeqs
    /\ observerSeq \in [Names -> 0..lastSeq]
    /\ lastSeq \in Nat /\ lastSeq <= Cardinality(Watchers \ Unused)
    /\ watchers \in [ObserverSeqs -> SUBSET Watchers]
    /\ seqOf \in [Watchers -> 0..lastSeq]
    /\ row \in [Watchers -> Nat]
    /\ \A w \in Watchers : row[w] <= Len(kinds)
    /\ \A w \in Watchers : RowOf[w] > 0 => row[w] < RowOf[w]
    /\ waited \in [Watchers -> Nat]
    /\ \A w \in Watchers : waited[w] <= TimeoutOf[w]
    /\ batch \in [Watchers -> SUBSET DOMAIN kinds]
    /\ freed \subseteq Watchers
    /\ hasHandleTimeout \in BOOLEAN /\ timers \in Nat
    /\ tasks \in Seq(Tasks)
    /\ delivered \in [Watchers -> SUBSET DOMAIN kinds]
    /\ clears \in Nat /\ clears <= MaxClears

\* The context of the watcher is deleted, or a task will.
Gone(w) == w \in freed \/ Holds(tasks, Task("destroy", w))

\* Nothing has been sent for the watcher, or it has run.
TaskFree(w) == \A i \in DOMAIN tasks : tasks[i].watcher # w

\* A watcher is where its row and its name say, as long as it lives: one at each row, ...
RowsAgree ==
    \A s \in ObserverSeqs : \A w \in watchers[s] :
        /\ \A v \in watchers[s] : v = w
        /\ seqOf[w] = s /\ observerSeq[NameOf[w]] = s
        /\ ~Gone(w)
        /\ js.at = "publish" => js.watcher # w

\* ... or between its two steps of registration.
PublishAgrees ==
    js.at = "publish" =>
        /\ js.watcher \in Watchers /\ js.watcher \notin Unused
        /\ observerSeq[NameOf[js.watcher]] = seqOf[js.watcher]
        /\ ~Gone(js.watcher)

\* Nothing has happened to a watcher that is not registered yet.
UnusedIsNew == \A w \in Unused : TaskFree(w) /\ w \notin freed /\ row[w] = 0

IInv ==
    /\ Typed
    /\ OneTimer
    /\ RowsAgree
    /\ PublishAgrees
    /\ UnusedIsNew
    /\ NoTaskAfterDestroy
    /\ LastBatchDelivered

-------------------------------------------------------------------------------
(* Tasks come and go. *)

\* Numbers of events that are counted.
LEMMA CountFacts ==
    ASSUME NEW a \in Nat, NEW b \in Nat, b > 0
    PROVE  a % b \in Nat /\ a % b < b /\ a % b <= a /\ a \div b \in Nat
<1>1. a = b * (a \div b) + (a % b) /\ 0 <= a % b /\ a % b < b /\ a \div b \in Int /\ a % b \in Int
  OBVIOUS
<1> DEFINE q == a \div b
           r == a % b
<1>2. q \in Int /\ r \in Int /\ a = b * q + r /\ 0 <= r /\ r < b
  BY <1>1
<1> HIDE DEF q, r
<1>3. q >= 0
  <2>1. SUFFICES ASSUME q <= -1 PROVE FALSE
    BY <1>2
  <2>2. b * q <= b * (-1)
    BY <1>2, <2>1
  <2>3. QED
    BY <1>2, <2>2
<1>4. b * q >= 0
  BY <1>2, <1>3
<1>5. QED
  BY <1>2, <1>3, <1>4 DEF q, r

\* Tasks that are sent for watchers whose contexts are kept.
LEMMA AddTasks ==
    ASSUME tasks \in Seq(Tasks), NEW more \in Seq(Tasks), tasks' = tasks \o more,
           UNCHANGED <<freed, delivered>>,
           \A i \in DOMAIN more : ~Gone(more[i].watcher),
           \A i, j \in DOMAIN more :
                i < j /\ more[i].kind = "destroy" => more[j].watcher # more[i].watcher,
           \A w \in Receivers : batch'[w] = batch[w] \/ Holds(more, Task("receive", w)),
           NoTaskAfterDestroy, LastBatchDelivered
    PROVE  /\ tasks' \in Seq(Tasks) /\ NoTaskAfterDestroy' /\ LastBatchDelivered'
           /\ \A w : Gone(w)' <=> Gone(w) \/ Holds(more, Task("destroy", w))
           /\ \A w : TaskFree(w) /\ (\A i \in DOMAIN more : more[i].watcher # w) => TaskFree(w)'
<1> DEFINE m == Len(tasks)
           n == Len(more)
<1>1. /\ m \in Nat /\ n \in Nat /\ DOMAIN tasks = 1..m /\ DOMAIN more = 1..n
      /\ tasks' \in Seq(Tasks) /\ DOMAIN tasks' = 1..(m + n)
      /\ \A i \in 1..m : tasks'[i] = tasks[i]
      /\ \A i \in 1..(m + n) : i \in 1..m \/ (i - m \in 1..n /\ tasks'[i] = more[i - m])
      /\ \A x : Holds(tasks', x) <=> Holds(tasks, x) \/ Holds(more, x)
  BY ConcatHolds, LenProperties
<1>2. \A i \in 1..m : tasks[i] \in Tasks
  BY ElementOfSeq
<1> HIDE DEF m, n
<1>3. ASSUME NEW w PROVE Gone(w)' <=> Gone(w) \/ Holds(more, Task("destroy", w))
  <2>1. Gone(w)' <=> w \in freed \/ Holds(tasks', Task("destroy", w))
    BY DEF Gone, Holds, Task
  <2>2. QED
    BY <1>1, <2>1 DEF Gone
<1>4. NoTaskAfterDestroy'
  <2>1. ASSUME NEW i \in 1..(m + n) PROVE tasks'[i].watcher \notin freed
    BY <1>1 DEF NoTaskAfterDestroy, Gone
  <2>2. ASSUME NEW i \in 1..(m + n), NEW j \in 1..(m + n), i < j, tasks'[i].kind = "destroy"
        PROVE  tasks'[j].watcher # tasks'[i].watcher
    <3>1. CASE j \in 1..m
      <4>1. i \in 1..m
        BY <1>1, <2>2, <3>1
      <4>2. QED
        BY <1>1, <2>2, <3>1, <4>1 DEF NoTaskAfterDestroy
    <3>2. CASE i \in 1..m /\ j \notin 1..m
      <4>1. tasks[i] \in Tasks /\ tasks[i].kind = "destroy" /\ tasks'[i] = tasks[i]
        BY <1>1, <1>2, <2>2, <3>2
      <4>2. tasks[i] = Task("destroy", tasks[i].watcher)
        BY <4>1 DEF Tasks, Task
      <4>3. Gone(tasks[i].watcher)
        BY <1>1, <3>2, <4>2 DEF Gone, Holds
      <4>4. ~Gone(tasks'[j].watcher)
        BY <1>1, <3>2
      <4>5. QED
        BY <4>1, <4>3, <4>4
    <3>3. CASE i \notin 1..m /\ j \notin 1..m
      <4>1. /\ i - m \in 1..n /\ tasks'[i] = more[i - m]
            /\ j - m \in 1..n /\ tasks'[j] = more[j - m] /\ i - m < j - m
        BY <1>1, <2>2, <3>3
      <4>2. \A a, b \in 1..n :
                a < b /\ more[a].kind = "destroy" => more[b].watcher # more[a].watcher
        BY <1>1
      <4>3. more[i - m].kind = "destroy"
        BY <2>2, <4>1
      <4>4. more[j - m].watcher # more[i - m].watcher
        BY <4>1, <4>2, <4>3
      <4>5. QED
        BY <4>1, <4>4
    <3>4. QED
      BY <3>1, <3>2, <3>3
  <2>3. QED
    BY <1>1, <2>1, <2>2 DEF NoTaskAfterDestroy
<1>5. LastBatchDelivered'
  <2>1. ASSUME NEW w \in Receivers
        PROVE  batch'[w] \subseteq delivered[w] \/ Holds(tasks', Task("receive", w))
    BY <1>1 DEF LastBatchDelivered, Holds
  <2>2. QED
    BY <2>1 DEF LastBatchDelivered, Holds, Task
<1>6. ASSUME NEW w, TaskFree(w), \A i \in DOMAIN more : more[i].watcher # w
      PROVE  TaskFree(w)'
  BY <1>1, <1>6 DEF TaskFree
<1>7. QED
  BY <1>1, <1>3, <1>4, <1>5, <1>6

\* The task at the head is taken.
LEMMA TakeTask ==
    ASSUME tasks \in Seq(Tasks), tasks # << >>, tasks' = Tail(tasks)
    PROVE  /\ tasks' \in Seq(Tasks)
           /\ \A i \in DOMAIN tasks' : i + 1 \in DOMAIN tasks /\ tasks'[i] = tasks[i + 1]
           /\ \A i \in DOMAIN tasks : i = 1 \/ (i - 1 \in DOMAIN tasks' /\ tasks[i] = tasks'[i - 1])
           /\ 1 \in DOMAIN tasks /\ Head(tasks) = tasks[1] /\ Head(tasks) \in Tasks
           /\ \A i, j \in DOMAIN tasks' : i < j => i + 1 < j + 1
           /\ \A i \in DOMAIN tasks' : 1 < i + 1
<1> DEFINE m == Len(tasks)
<1>1. m \in Nat /\ m # 0 /\ DOMAIN tasks = 1..m
  BY LenProperties, EmptySeq
<1>2. /\ tasks' \in Seq(Tasks) /\ Len(tasks') = m - 1 /\ Head(tasks) \in Tasks
      /\ \A i \in 1..Len(tasks') : tasks'[i] = tasks[i + 1]
  BY HeadTailProperties
<1>3. DOMAIN tasks' = 1..(m - 1)
  BY <1>2, LenProperties
<1>4. Head(tasks) = tasks[1]
  OBVIOUS
<1> HIDE DEF m
<1>5. \A i \in 1..(m - 1) : i + 1 \in 1..m /\ tasks'[i] = tasks[i + 1]
  BY <1>1, <1>2
<1>6. \A i \in 1..m : i = 1 \/ (i - 1 \in 1..(m - 1) /\ tasks[i] = tasks'[i - 1])
  <2>1. TAKE i \in 1..m
  <2>2. CASE i # 1
    <3>1. i - 1 \in 1..(m - 1) /\ (i - 1) + 1 = i
      BY <1>1, <2>2
    <3>2. QED
      BY <1>5, <3>1
  <2>3. QED
    BY <2>2
<1>7. QED
  BY <1>1, <1>2, <1>3, <1>4, <1>5, <1>6

LEMMA AfterTake ==
    ASSUME tasks \in Seq(Tasks), tasks # << >>, tasks' = Tail(tasks),
           NoTaskAfterDestroy, LastBatchDelivered, UNCHANGED batch,
           \/ UNCHANGED <<freed, delivered>> /\ Head(tasks).kind = "trigger"
           \/ /\ Head(tasks).kind = "receive" /\ UNCHANGED freed
              /\ delivered \in [Watchers -> SUBSET DOMAIN kinds]
              /\ Receivers \subseteq Watchers
              /\ delivered' = [delivered EXCEPT ![Head(tasks).watcher] =
                                    @ \cup batch[Head(tasks).watcher]]
           \/ /\ Head(tasks).kind = "destroy" /\ UNCHANGED delivered
              /\ freed' = freed \cup {Head(tasks).watcher}
    PROVE  /\ NoTaskAfterDestroy' /\ LastBatchDelivered'
           /\ \A w : Gone(w)' => Gone(w)
           /\ \A w : TaskFree(w) => TaskFree(w)' /\ w # Head(tasks).watcher
<1> DEFINE v == Head(tasks).watcher
<1>1. /\ tasks' \in Seq(Tasks)
      /\ \A i \in DOMAIN tasks' : i + 1 \in DOMAIN tasks /\ tasks'[i] = tasks[i + 1]
      /\ \A i \in DOMAIN tasks : i = 1 \/ (i - 1 \in DOMAIN tasks' /\ tasks[i] = tasks'[i - 1])
      /\ 1 \in DOMAIN tasks /\ Head(tasks) = tasks[1] /\ Head(tasks) \in Tasks
      /\ \A i, j \in DOMAIN tasks' : i < j => i + 1 < j + 1
      /\ \A i \in DOMAIN tasks' : 1 < i + 1
  BY TakeTask
<1>2. \A i \in DOMAIN tasks' : tasks'[i].watcher \notin freed'
  BY <1>1 DEF NoTaskAfterDestroy
<1>3. \A i, j \in DOMAIN tasks' :
          i < j /\ tasks'[i].kind = "destroy" => tasks'[j].watcher # tasks'[i].watcher
  BY <1>1 DEF NoTaskAfterDestroy
<1>4. ASSUME NEW w \in Receivers
      PROVE  batch[w] \subseteq delivered'[w] \/ \E i \in DOMAIN tasks' : tasks'[i] = Task("receive", w)
  <2>1. \A x \in delivered[w] : x \in delivered'[w]
    OBVIOUS
  <2>2. CASE batch[w] \subseteq delivered[w]
    BY <2>1, <2>2
  <2>3. CASE \E i \in DOMAIN tasks : tasks[i] = Task("receive", w)
    <3>1. PICK i \in DOMAIN tasks : tasks[i] = Task("receive", w)
      BY <2>3
    <3>2. CASE i = 1
      <4>1. Head(tasks).kind = "receive" /\ v = w
        BY <1>1, <3>1, <3>2 DEF Task
      <4>2. QED
        BY <4>1
    <3>3. CASE i # 1
      BY <1>1, <3>1, <3>3
    <3>4. QED
      BY <3>2, <3>3
  <2>4. QED
    BY <2>2, <2>3 DEF LastBatchDelivered
<1>5. ASSUME NEW w, w \in freed' \/ Holds(tasks', Task("destroy", w)) PROVE Gone(w)
  <2>1. CASE w \in freed'
    <3>1. CASE w \in freed
      BY <3>1 DEF Gone
    <3>2. CASE w \notin freed
      <4>1. Head(tasks).kind = "destroy" /\ w = v
        BY <2>1, <3>2
      <4>2. tasks[1] = Task("destroy", w)
        BY <1>1, <4>1 DEF Tasks, Task
      <4>3. QED
        BY <1>1, <4>2 DEF Gone, Holds
    <3>3. QED
      BY <3>1, <3>2
  <2>2. CASE Holds(tasks', Task("destroy", w))
    BY <1>1, <2>2 DEF Gone, Holds
  <2>3. QED
    BY <1>5, <2>1, <2>2
<1>6. \A w : TaskFree(w) => TaskFree(w)' /\ w # v
  BY <1>1 DEF TaskFree
<1>7. \A w : Gone(w)' => w \in freed' \/ Holds(tasks', Task("destroy", w))
  BY DEF Gone, Holds, Task
<1>8. NoTaskAfterDestroy' /\ LastBatchDelivered'
  BY <1>2, <1>3, <1>4 DEF NoTaskAfterDestroy, LastBatchDelivered, Task
<1>9. QED
  BY <1>5, <1>6, <1>7, <1>8

\* The tasks that events are sent with.
Sent(ws) == [kind : {"receive", "trigger"}, watcher : ws]

LEMMA TasksForFacts ==
    ASSUME EventsAssumption, Typed, NEW w \in Watchers, NEW n \in Nat, NEW ws, w \in ws
    PROVE  /\ TasksFor(w, n) \in Seq(Sent(ws))
           /\ n # 0 /\ w \in Receivers => Holds(TasksFor(w, n), Task("receive", w))
           /\ RowsAfter(w, n) \in Nat /\ RowsAfter(w, n) <= row[w] + n
           /\ RowOf[w] > 0 => RowsAfter(w, n) < RowOf[w]
<1>1. row[w] \in Nat /\ RowOf[w] \in Nat
  BY DEF EventsAssumption, Typed
<1>2. RowOf[w] > 0 => /\ (row[w] + n) % RowOf[w] \in Nat /\ (row[w] + n) % RowOf[w] < RowOf[w]
                      /\ (row[w] + n) % RowOf[w] <= row[w] + n
                      /\ (row[w] + n) \div RowOf[w] \in Nat
  <2>1. row[w] + n \in Nat
    BY <1>1
  <2>2. QED
    BY <1>1, <2>1, CountFacts
<1>3. TriggersAfter(w, n) \in Nat
  BY <1>1, <1>2 DEF TriggersAfter
<1>4. Task("receive", w) \in Sent(ws) /\ Task("trigger", w) \in Sent(ws)
  BY DEF Sent, Task
<1>5. [i \in 1..TriggersAfter(w, n) |-> Task("trigger", w)] \in Seq(Sent(ws))
  <2> DEFINE t == TriggersAfter(w, n)
             s == [i \in 1..t |-> Task("trigger", w)]
  <2>1. t \in Nat /\ s \in [1..t -> Sent(ws)]
    BY <1>3, <1>4
  <2> HIDE DEF t, s
  <2>2. s \in Seq(Sent(ws))
    BY <2>1, SeqDef
  <2>3. QED
    BY <2>2 DEF t, s
<1>6. /\ << Task("receive", w) >> \in Seq(Sent(ws)) /\ << >> \in Seq(Sent(ws))
      /\ Holds(<< Task("receive", w) >>, Task("receive", w))
  <2>1. << Task("receive", w) >>[1] = Task("receive", w) /\ 1 \in DOMAIN << Task("receive", w) >>
    OBVIOUS
  <2>2. QED
    BY <1>4, <2>1 DEF Holds
<1>7. TasksFor(w, n) \in Seq(Sent(ws))
  BY <1>5, <1>6 DEF TasksFor
<1>8. n # 0 /\ w \in Receivers => Holds(TasksFor(w, n), Task("receive", w))
  BY <1>6 DEF TasksFor
<1>9. RowsAfter(w, n) \in Nat /\ RowsAfter(w, n) <= row[w] + n
      /\ (RowOf[w] > 0 => RowsAfter(w, n) < RowOf[w])
  BY <1>1, <1>2 DEF RowsAfter
<1>10. QED
  BY <1>7, <1>8, <1>9

LEMMA SendFacts ==
    ASSUME EventsAssumption, Typed, NEW ws \in SUBSET Watchers, NEW es, IsFiniteSet(es),
           NEW ks, SendEvents(ws, es, ks)
    PROVE  /\ \A d : DOMAIN kinds \subseteq d /\ es \subseteq d => batch' \in [Watchers -> SUBSET d]
           /\ row' \in [Watchers -> Nat]
           /\ \A w \in Watchers : row'[w] <= row[w] + Cardinality(es)
           /\ \A w \in Watchers : RowOf[w] > 0 => row'[w] < RowOf[w]
           /\ \A w \in Watchers : w \notin ws => row'[w] = row[w]
           /\ waited' \in [Watchers -> Nat]
           /\ \A w \in Watchers : waited'[w] <= TimeoutOf[w]
           /\ \E more \in Seq(Sent(ws)) :
                /\ tasks' = tasks \o more
                /\ \A w \in Receivers : batch'[w] = batch[w] \/ Holds(more, Task("receive", w))
<1> DEFINE mine == [w \in Watchers |-> {e \in es : w \in ws /\ Verifies(w, e, ks)}]
           n == [w \in Watchers |-> Cardinality(mine[w])]
           counts(w) == w \notin Receivers /\ n[w] > 0
<1>1. /\ batch' = [w \in Watchers |->
              IF w \in Receivers /\ n[w] > 0 THEN mine[w] ELSE batch[w]]
      /\ row' = [w \in Watchers |-> IF counts(w) THEN RowsAfter(w, n[w]) ELSE row[w]]
      /\ waited' = [w \in Watchers |->
              IF counts(w) /\ TriggersAfter(w, n[w]) > 0 THEN 0 ELSE waited[w]]
      /\ \E order \in SetToSeqs(ws) :
            tasks' = tasks \o FlattenSeq([i \in DOMAIN order |-> TasksFor(order[i], n[order[i]])])
  BY DEF SendEvents
<1>2. /\ mine \in [Watchers -> SUBSET es]
      /\ \A w \in Watchers : w \notin ws => mine[w] = {}
  OBVIOUS
<1>3. n = [w \in Watchers |-> Cardinality(mine[w])]
  OBVIOUS
<1>4. Cardinality(es) \in Nat
  BY FS_CardinalityType
<1> HIDE DEF mine
<1>5. ASSUME NEW w \in Watchers
      PROVE  /\ n[w] \in Nat /\ n[w] <= Cardinality(es)
             /\ w \notin ws => n[w] = 0
  <2>1. mine[w] \in SUBSET es /\ n[w] = Cardinality(mine[w])
    BY <1>2
  <2>2. IsFiniteSet(mine[w]) /\ Cardinality(mine[w]) <= Cardinality(es)
    BY <2>1, FS_Subset
  <2>3. n[w] \in Nat
    BY <2>1, <2>2, FS_CardinalityType
  <2>4. w \notin ws => n[w] = 0
    BY <1>2, <2>1, FS_EmptySet
  <2>5. QED
    BY <2>1, <2>2, <2>3, <2>4
<1> HIDE DEF n
<1>6. /\ row \in [Watchers -> Nat] /\ waited \in [Watchers -> Nat]
      /\ batch \in [Watchers -> SUBSET DOMAIN kinds]
      /\ RowOf \in [Watchers -> Nat] /\ TimeoutOf \in [Watchers -> Nat]
      /\ Receivers \subseteq Watchers /\ IsFiniteSet(Watchers)
      /\ \A w \in Watchers : waited[w] <= TimeoutOf[w] /\ (RowOf[w] > 0 => row[w] < RowOf[w])
  BY DEF EventsAssumption, Typed
<1>7. ASSUME NEW w \in Watchers
      PROVE  /\ row'[w] \in Nat /\ row'[w] <= row[w] + Cardinality(es)
             /\ RowOf[w] > 0 => row'[w] < RowOf[w]
             /\ w \notin ws => row'[w] = row[w]
             /\ waited'[w] \in Nat /\ waited'[w] <= TimeoutOf[w]
  <2>1. row'[w] = IF counts(w) THEN RowsAfter(w, n[w]) ELSE row[w]
    BY <1>1
  <2>2. /\ RowsAfter(w, n[w]) \in Nat /\ RowsAfter(w, n[w]) <= row[w] + n[w]
        /\ RowOf[w] > 0 => RowsAfter(w, n[w]) < RowOf[w]
    BY <1>5, TasksForFacts
  <2>3. row'[w] \in Nat /\ row'[w] <= row[w] + Cardinality(es)
        /\ (RowOf[w] > 0 => row'[w] < RowOf[w])
    BY <1>4, <1>5, <1>6, <2>1, <2>2
  <2>4. w \notin ws => row'[w] = row[w]
    BY <1>5, <2>1
  <2>5. waited'[w] = 0 \/ waited'[w] = waited[w]
    BY <1>1
  <2>6. QED
    BY <1>6, <2>3, <2>4, <2>5
<1>8. row' \in [Watchers -> Nat] /\ waited' \in [Watchers -> Nat]
  <2>1. /\ row' = [w \in Watchers |-> row'[w]] /\ waited' = [w \in Watchers |-> waited'[w]]
    BY <1>1
  <2>2. QED
    BY <1>7, <2>1
<1>9. ASSUME NEW d, DOMAIN kinds \subseteq d, es \subseteq d
      PROVE  batch' \in [Watchers -> SUBSET d]
  <2>1. \A w \in Watchers : batch'[w] = mine[w] \/ batch'[w] = batch[w]
    BY <1>1
  <2>2. \A w \in Watchers : batch'[w] \in SUBSET d
    BY <1>2, <1>6, <1>9, <2>1
  <2>3. batch' = [w \in Watchers |-> batch'[w]]
    BY <1>1
  <2>4. QED
    BY <2>2, <2>3
<1>10. PICK order \in SetToSeqs(ws) :
          tasks' = tasks \o FlattenSeq([i \in DOMAIN order |-> TasksFor(order[i], n[order[i]])])
  BY <1>1
<1>11. IsFiniteSet(ws)
  BY <1>6, FS_Subset
<1>12. /\ DOMAIN order = 1..Cardinality(ws) /\ Cardinality(ws) \in Nat
       /\ order \in Seq(ws) /\ \A w \in ws : \E i \in DOMAIN order : order[i] = w
  BY <1>11, OrderHolds
<1> DEFINE parts == [i \in DOMAIN order |-> TasksFor(order[i], n[order[i]])]
<1>13. \A i \in DOMAIN order : order[i] \in ws
  BY <1>12, LenProperties
<1>14. /\ DOMAIN parts = DOMAIN order
       /\ \A i \in DOMAIN order : parts[i] = TasksFor(order[i], n[order[i]])
  OBVIOUS
<1>15. parts \in Seq(Seq(Sent(ws)))
  <2>1. \A i \in DOMAIN order : parts[i] \in Seq(Sent(ws))
    BY <1>5, <1>13, <1>14, TasksForFacts
  <2> DEFINE T == Seq(Sent(ws))
  <2>2. parts \in [1..Cardinality(ws) -> T]
    BY <1>12, <2>1
  <2> HIDE DEF parts, T
  <2>3. parts \in Seq(T)
    BY <1>12, <2>2, FunctionIsSeq
  <2>4. QED
    BY <2>3 DEF T
<1> DEFINE more == FlattenSeq(parts)
<1>16. tasks' = tasks \o more
  BY <1>10
<1> HIDE DEF parts
<1>17. /\ more \in Seq(Sent(ws))
       /\ \A x : Holds(more, x) <=> \E i \in DOMAIN parts : Holds(parts[i], x)
  BY <1>15, FlattenHolds
<1>18. ASSUME NEW w \in Receivers
       PROVE  batch'[w] = batch[w] \/ Holds(more, Task("receive", w))
  <2>1. CASE n[w] > 0
    <3>1. w \in Watchers /\ w \in ws
      BY <1>5, <1>6, <2>1
    <3>2. PICK i \in DOMAIN order : order[i] = w
      BY <1>12, <3>1
    <3>3. Holds(TasksFor(w, n[w]), Task("receive", w))
      BY <1>5, <2>1, <3>1, TasksForFacts
    <3>4. i \in DOMAIN parts /\ Holds(parts[i], Task("receive", w))
      BY <1>14, <3>2, <3>3
    <3>5. QED
      BY <1>17, <3>4
  <2>2. CASE ~(n[w] > 0)
    BY <1>1, <1>6, <2>2
  <2>3. QED
    BY <2>1, <2>2
<1> HIDE DEF more
<1>19. \E m \in Seq(Sent(ws)) :
            /\ tasks' = tasks \o m
            /\ \A w \in Receivers : batch'[w] = batch[w] \/ Holds(m, Task("receive", w))
  BY <1>16, <1>17, <1>18
<1>20. QED
  BY <1>7, <1>8, <1>9, <1>19

\* What is sent for watchers that live leaves the order of the tasks right.
LEMMA AfterSend ==
    ASSUME tasks \in Seq(Tasks), NEW ws \in SUBSET Watchers, NEW more \in Seq(Sent(ws)),
           tasks' = tasks \o more,
           UNCHANGED <<freed, delivered>>, \A w \in ws : ~Gone(w),
           \A w \in Receivers : batch'[w] = batch[w] \/ Holds(more, Task("receive", w)),
           NoTaskAfterDestroy, LastBatchDelivered
    PROVE  /\ tasks' \in Seq(Tasks) /\ NoTaskAfterDestroy' /\ LastBatchDelivered'
           /\ \A w : Gone(w)' <=> Gone(w)
           /\ \A w : TaskFree(w) /\ w \notin ws => TaskFree(w)'
<1>1. \A i \in DOMAIN more : /\ more[i] \in Sent(ws) /\ more[i].watcher \in ws
                             /\ more[i].kind # "destroy"
  <2>1. \A i \in DOMAIN more : more[i] \in Sent(ws)
    BY LenProperties
  <2>2. QED
    BY <2>1 DEF Sent
<1>2. more \in Seq(Tasks)
  <2>1. Sent(ws) \subseteq Tasks
    BY DEF Sent, Tasks, TaskKinds
  <2>2. QED
    BY <2>1, SeqMonotonic
<1>3. \A w : ~Holds(more, Task("destroy", w))
  BY <1>1 DEF Holds, Task
<1>4. \A i \in DOMAIN more : ~Gone(more[i].watcher)
  BY <1>1
<1>5. /\ tasks' \in Seq(Tasks) /\ NoTaskAfterDestroy' /\ LastBatchDelivered'
      /\ \A w : Gone(w)' <=> Gone(w) \/ Holds(more, Task("destroy", w))
      /\ \A w : TaskFree(w) /\ (\A i \in DOMAIN more : more[i].watcher # w) => TaskFree(w)'
  <2>1. \A i, j \in DOMAIN more :
            i < j /\ more[i].kind = "destroy" => more[j].watcher # more[i].watcher
    BY <1>1
  <2>2. QED
    BY <1>2, <1>4, <2>1, AddTasks
<1>6. QED
  BY <1>1, <1>3, <1>5

\* The watchers whose contexts are dropped: one, or none.
LEMMA AfterDrop ==
    ASSUME tasks \in Seq(Tasks), NEW ws \in SUBSET Watchers, \A v, w \in ws : v = w,
           tasks' = Dropped(ws),
           UNCHANGED <<freed, delivered, batch>>, \A w \in ws : ~Gone(w),
           NoTaskAfterDestroy, LastBatchDelivered
    PROVE  /\ tasks' \in Seq(Tasks) /\ NoTaskAfterDestroy' /\ LastBatchDelivered'
           /\ \A w : Gone(w)' <=> Gone(w) \/ w \in ws
           /\ \A w : TaskFree(w) /\ w \notin ws => TaskFree(w)'
<1> DEFINE n == Cardinality(ws)
           more == [i \in 1..n |-> Task("destroy", CHOOSE w \in ws : TRUE)]
<1>1. tasks' = tasks \o more
  BY DEF Dropped
<1>2. CASE ws = {}
  <2>1. n = 0
    BY <1>2, FS_EmptySet
  <2>2. more = << >> /\ DOMAIN more = {}
    BY <2>1
  <2>3. more \in Seq(Tasks)
    BY <2>2, EmptySeq
  <2> HIDE DEF more
  <2>4. \A w \in Receivers : batch'[w] = batch[w] \/ Holds(more, Task("receive", w))
    OBVIOUS
  <2>5. /\ tasks' \in Seq(Tasks) /\ NoTaskAfterDestroy' /\ LastBatchDelivered'
        /\ \A w : Gone(w)' <=> Gone(w) \/ Holds(more, Task("destroy", w))
        /\ \A w : TaskFree(w) /\ (\A i \in DOMAIN more : more[i].watcher # w) => TaskFree(w)'
    BY <1>1, <2>2, <2>3, <2>4, AddTasks
  <2>6. QED
    BY <1>2, <2>2, <2>5 DEF Holds
<1>3. CASE ws # {}
  <2>1. PICK v \in ws : ws = {v}
    BY <1>3
  <2>2. n = 1 /\ (CHOOSE w \in ws : TRUE) = v
    BY <2>1, FS_Singleton
  <2>3. DOMAIN more = {1} /\ more[1] = Task("destroy", v)
    BY <2>2
  <2>4. more \in Seq(Tasks)
    <3>1. Task("destroy", v) \in Tasks
      BY DEF Task, Tasks, TaskKinds
    <3>2. more \in [1..1 -> Tasks]
      BY <2>2, <3>1
    <3> HIDE DEF more
    <3>3. QED
      BY <3>2, FunctionIsSeq
  <2> HIDE DEF more
  <2>5. /\ \A i \in DOMAIN more : more[i].watcher = v
        /\ \A i, j \in DOMAIN more : ~(i < j)
        /\ \A x : Holds(more, Task("destroy", x)) <=> x = v
    BY <2>3 DEF Task, Holds
  <2>6. \A w \in Receivers : batch'[w] = batch[w] \/ Holds(more, Task("receive", w))
    OBVIOUS
  <2>7. \A i \in DOMAIN more : ~Gone(more[i].watcher)
    BY <2>5
  <2>8. /\ tasks' \in Seq(Tasks) /\ NoTaskAfterDestroy' /\ LastBatchDelivered'
        /\ \A w : Gone(w)' <=> Gone(w) \/ Holds(more, Task("destroy", w))
        /\ \A w : TaskFree(w) /\ (\A i \in DOMAIN more : more[i].watcher # w) => TaskFree(w)'
    BY <1>1, <2>4, <2>5, <2>6, <2>7, AddTasks
  <2>9. QED
    BY <2>1, <2>5, <2>8
<1>4. QED
  BY <1>2, <1>3

-------------------------------------------------------------------------------
(* One lemma for each action, or for those of a kind. *)

\* The places of the watchers stay right as long as nobody registers or goes.
LEMMA PlacesStay ==
    ASSUME RowsAgree, PublishAgrees, UNCHANGED <<watchers, seqOf, observerSeq>>,
           js' = js \/ js'.at # "publish", \A w : Gone(w)' => Gone(w)
    PROVE  RowsAgree' /\ PublishAgrees'
<1>1. RowsAgree'
  BY DEF RowsAgree, ObserverSeqs
<1>2. PublishAgrees'
  BY DEF PublishAgrees, Unused
<1>3. QED
  BY <1>1, <1>2

LEMMA UnusedStay ==
    ASSUME UnusedIsNew, UNCHANGED seqOf, \A w \in Unused : TaskFree(w) => TaskFree(w)',
           \A w \in Unused : w \in freed' => w \in freed,
           \A w \in Unused : row'[w] = row[w] \/ row'[w] = 0
    PROVE  UnusedIsNew'
<1>1. Unused' = Unused
  BY DEF Unused
<1>2. QED
  BY <1>1 DEF UnusedIsNew

\* The rows and the published watchers.
LEMMA PublishedFacts ==
    ASSUME EventsAssumption, IInv
    PROVE  /\ lastSeq \in Nat /\ Cardinality(Watchers) \in Nat /\ lastSeq <= Cardinality(Watchers)
           /\ 1..lastSeq \subseteq ObserverSeqs
           /\ UNION {watchers[s] : s \in Published} \subseteq Watchers
           /\ \A w \in UNION {watchers[s] : s \in Published} :
                 seqOf[w] \in ObserverSeqs /\ ~Gone(w) /\ w \notin Unused
<1>1. IsFiniteSet(Watchers) /\ lastSeq \in Nat /\ lastSeq <= Cardinality(Watchers \ Unused)
      /\ watchers \in [ObserverSeqs -> SUBSET Watchers]
  BY DEF IInv, Typed, EventsAssumption
<1>2. /\ Cardinality(Watchers) \in Nat /\ Cardinality(Watchers \ Unused) \in Nat
      /\ Cardinality(Watchers \ Unused) <= Cardinality(Watchers)
  BY <1>1, FS_Subset, FS_CardinalityType
<1>3. lastSeq <= Cardinality(Watchers)
  BY <1>1, <1>2
<1>4. 1..lastSeq \subseteq ObserverSeqs /\ \A s \in ObserverSeqs : s # 0
  BY <1>1, <1>2, <1>3 DEF ObserverSeqs
<1>5. ASSUME NEW w \in UNION {watchers[s] : s \in Published}
      PROVE  /\ w \in Watchers /\ seqOf[w] \in ObserverSeqs /\ ~Gone(w) /\ w \notin Unused
  <2>1. PICK s \in ObserverSeqs : w \in watchers[s]
    BY DEF Published
  <2>2. w \in Watchers /\ seqOf[w] = s /\ ~Gone(w)
    BY <1>1, <2>1 DEF IInv, RowsAgree
  <2>3. QED
    BY <1>4, <2>2 DEF Unused
<1>6. QED
  BY <1>1, <1>2, <1>3, <1>4, <1>5

LEMMA HandleEventsStep ==
    ASSUME EventsAssumption, IInv, NEW kind \in Kinds, HandleEvents(kind)
    PROVE  IInv'
<1> DEFINE ks == Append(kinds, kind)
           e == Len(ks)
           ws == UNION {watchers[s] : s \in Published}
           L == Len(kinds)
<1>1. Typed
  BY DEF IInv
<1>2. /\ L < MaxEvents /\ kinds' = ks /\ eventMap' = eventMap \cup {e}
      /\ mapping' = mapping \cup {<<e, seqOf[w]>> : w \in {v \in ws : Verifies(v, e, ks)}}
      /\ SendEvents(ws, {e}, ks)
      /\ UNCHANGED <<observerSeq, lastSeq, watchers, seqOf, freed, js, delivered, clears>>
  BY DEF HandleEvents
<1>3. OneTimer'
  BY DEF HandleEvents, StartTimer, IInv, OneTimer, Typed, timerVars
<1>4. hasHandleTimeout' \in BOOLEAN /\ timers' \in Nat
  <2>1. \/ timers' = timers + 1 /\ hasHandleTimeout' = TRUE
        \/ timers' = timers /\ hasHandleTimeout' = hasHandleTimeout
    BY DEF HandleEvents, StartTimer, timerVars
  <2>2. hasHandleTimeout \in BOOLEAN /\ timers \in Nat
    BY <1>1 DEF Typed
  <2>3. hasHandleTimeout' \in BOOLEAN
    BY <2>1, <2>2, Zenon
  <2>4. timers' \in Nat
    BY <2>1, <2>2
  <2>5. QED
    BY <2>3, <2>4
<1>5. /\ L \in Nat /\ DOMAIN kinds = 1..L /\ ks \in Seq(Kinds) /\ Len(ks) = L + 1
      /\ DOMAIN ks = 1..(L + 1)
  BY <1>1, AppendProperties, LenProperties DEF Typed
<1>6. ws \in SUBSET Watchers /\ \A w \in ws : seqOf[w] \in ObserverSeqs /\ ~Gone(w) /\ w \notin Unused
  BY PublishedFacts
<1> HIDE DEF ks, ws, L
<1>7. e = L + 1 /\ e \in DOMAIN ks /\ DOMAIN kinds \subseteq DOMAIN ks /\ {e} \subseteq DOMAIN ks
  BY <1>5
<1> HIDE DEF e
<1>8. IsFiniteSet({e}) /\ Cardinality({e}) = 1
  BY FS_Singleton
<1>9. /\ \A d : DOMAIN kinds \subseteq d /\ {e} \subseteq d => batch' \in [Watchers -> SUBSET d]
      /\ row' \in [Watchers -> Nat]
      /\ \A w \in Watchers : row'[w] <= row[w] + Cardinality({e})
      /\ \A w \in Watchers : RowOf[w] > 0 => row'[w] < RowOf[w]
      /\ \A w \in Watchers : w \notin ws => row'[w] = row[w]
      /\ waited' \in [Watchers -> Nat]
      /\ \A w \in Watchers : waited'[w] <= TimeoutOf[w]
      /\ \E more \in Seq(Sent(ws)) :
            /\ tasks' = tasks \o more
            /\ \A w \in Receivers : batch'[w] = batch[w] \/ Holds(more, Task("receive", w))
  BY <1>1, <1>2, <1>6, <1>8, SendFacts
<1>10. /\ tasks' \in Seq(Tasks) /\ NoTaskAfterDestroy' /\ LastBatchDelivered'
       /\ \A w : Gone(w)' <=> Gone(w)
       /\ \A w : TaskFree(w) /\ w \notin ws => TaskFree(w)'
  <2>1. PICK more \in Seq(Sent(ws)) :
            /\ tasks' = tasks \o more
            /\ \A w \in Receivers : batch'[w] = batch[w] \/ Holds(more, Task("receive", w))
    BY <1>9
  <2>2. tasks \in Seq(Tasks) /\ NoTaskAfterDestroy /\ LastBatchDelivered
    BY <1>1 DEF IInv, Typed
  <2>3. QED
    BY <1>2, <1>6, <2>1, <2>2, AfterSend
<1>11. RowsAgree' /\ PublishAgrees'
  BY <1>2, <1>10, PlacesStay DEF IInv
<1>12. UnusedIsNew'
  <2>1. UNCHANGED <<seqOf, freed>>
    BY <1>2
  <2>2. \A w \in Unused : w \in Watchers /\ w \notin ws
    BY <1>6 DEF Unused
  <2>3. UnusedIsNew
    BY DEF IInv
  <2>4. QED
    BY <1>9, <1>10, <2>1, <2>2, <2>3, UnusedStay
<1>13. Typed'
  <2>1. mapping' \subseteq (DOMAIN ks) \X ObserverSeqs
    BY <1>1, <1>2, <1>6, <1>7 DEF Typed
  <2>2. \A w \in Watchers : row'[w] <= L + 1
    <3>1. row \in [Watchers -> Nat] /\ \A w \in Watchers : row[w] <= L
      BY <1>1 DEF Typed, L
    <3>2. \A w \in Watchers : row'[w] \in Nat /\ row'[w] <= row[w] + 1
      BY <1>8, <1>9
    <3>3. QED
      BY <1>5, <3>1, <3>2
  <2>3. /\ kinds' \in Seq(Kinds) /\ Len(kinds') <= MaxEvents
        /\ eventMap' \subseteq DOMAIN kinds' /\ Len(kinds') = L + 1
    BY <1>1, <1>2, <1>5, <1>7 DEF Typed, EventsAssumption
  <2>4. delivered' \in [Watchers -> SUBSET DOMAIN kinds']
    BY <1>1, <1>2, <1>7 DEF Typed
  <2>5. batch' \in [Watchers -> SUBSET DOMAIN kinds']
    BY <1>2, <1>7, <1>9
  <2>6. Unused' = Unused /\ ObserverSeqs' = ObserverSeqs
    BY <1>2 DEF Unused, ObserverSeqs
  <2>7. mapping' \subseteq (DOMAIN kinds') \X ObserverSeqs
    BY <1>2, <2>1
  <2>8. /\ observerSeq' \in [Names -> 0..lastSeq'] /\ lastSeq' \in Nat
        /\ lastSeq' <= Cardinality(Watchers \ Unused)
        /\ watchers' \in [ObserverSeqs -> SUBSET Watchers]
        /\ seqOf' \in [Watchers -> 0..lastSeq']
        /\ freed' \subseteq Watchers /\ clears' \in Nat /\ clears' <= MaxClears
    BY <1>1, <1>2 DEF Typed
  <2>9. QED
    BY <1>4, <1>9, <1>10, <2>2, <2>3, <2>4, <2>5, <2>6, <2>7, <2>8 DEF Typed
<1>14. QED
  BY <1>3, <1>10, <1>11, <1>12, <1>13 DEF IInv

\* What most actions leave alone has the types it had.
LEMMA TypesStay ==
    ASSUME EventsAssumption, Typed, UNCHANGED <<kinds, lastSeq, seqOf>>,
           eventMap' \subseteq eventMap, mapping' \subseteq mapping,
           observerSeq' \in [Names -> 0..lastSeq],
           watchers' \in [ObserverSeqs -> SUBSET Watchers],
           row' \in [Watchers -> Nat], \A w \in Watchers : row'[w] = row[w] \/ row'[w] = 0,
           waited' \in [Watchers -> Nat], \A w \in Watchers : waited'[w] <= TimeoutOf[w],
           batch' = batch, freed' \subseteq Watchers,
           hasHandleTimeout' \in BOOLEAN, timers' \in Nat, tasks' \in Seq(Tasks),
           delivered' \in [Watchers -> SUBSET DOMAIN kinds],
           clears' \in Nat, clears' <= MaxClears
    PROVE  Typed'
<1>1. Unused' = Unused /\ ObserverSeqs' = ObserverSeqs
  BY DEF Unused, ObserverSeqs
<1>2. \A w \in Watchers : row'[w] <= Len(kinds) /\ (RowOf[w] > 0 => row'[w] < RowOf[w])
  <2>1. Len(kinds) \in Nat
    BY LenProperties DEF Typed
  <2>2. /\ \A w \in Watchers : row[w] <= Len(kinds) /\ (RowOf[w] > 0 => row[w] < RowOf[w])
        /\ row \in [Watchers -> Nat] /\ RowOf \in [Watchers -> Nat]
    BY DEF Typed, EventsAssumption
  <2>3. QED
    BY <2>1, <2>2
<1>3. /\ kinds' \in Seq(Kinds) /\ Len(kinds') <= MaxEvents
      /\ eventMap' \subseteq DOMAIN kinds' /\ mapping' \subseteq (DOMAIN kinds') \X ObserverSeqs
      /\ lastSeq' \in Nat /\ lastSeq' <= Cardinality(Watchers \ Unused)
      /\ seqOf' \in [Watchers -> 0..lastSeq']
      /\ batch' \in [Watchers -> SUBSET DOMAIN kinds']
      /\ delivered' \in [Watchers -> SUBSET DOMAIN kinds']
      /\ observerSeq' \in [Names -> 0..lastSeq']
      /\ \A w \in Watchers : row'[w] <= Len(kinds')
  BY <1>2 DEF Typed
<1>4. QED
  BY <1>1, <1>2, <1>3 DEF Typed

LEMMA HandleTimeoutStep ==
    ASSUME EventsAssumption, IInv, HandleTimeout
    PROVE  IInv'
<1> DEFINE ws == UNION {watchers[s] : s \in Published}
           ds == {w \in ws : TimedOut(w)}
<1>1. Typed /\ NoTaskAfterDestroy /\ LastBatchDelivered /\ UnusedIsNew
  BY DEF IInv
<1>2. /\ row' = [w \in Watchers |-> IF w \in ds THEN 0 ELSE row[w]]
      /\ waited' = [w \in Watchers |->
            IF w \in ds THEN 0
            ELSE IF w \in ws /\ waited[w] < TimeoutOf[w] THEN waited[w] + 1 ELSE waited[w]]
      /\ \E order \in SetToSeqs(ds) :
            tasks' = tasks \o [i \in DOMAIN order |-> Task("trigger", order[i])]
      /\ UNCHANGED <<storeVars, watchers, seqOf, batch, freed, js, delivered, clears>>
  BY DEF HandleTimeout
<1>3. ws \in SUBSET Watchers /\ \A w \in ws : seqOf[w] \in ObserverSeqs /\ ~Gone(w) /\ w \notin Unused
  BY PublishedFacts
<1>4. OneTimer' /\ hasHandleTimeout' \in BOOLEAN /\ timers' \in Nat
  <2>1. timers > 0 /\ hasHandleTimeout \in BOOLEAN /\ timers \in Nat
        /\ timers = IF hasHandleTimeout THEN 1 ELSE 0
    BY DEF HandleTimeout, IInv, Typed, OneTimer
  <2>2. \/ timers' = timers /\ hasHandleTimeout' = hasHandleTimeout
        \/ timers' = timers - 1 /\ hasHandleTimeout' = FALSE
    BY DEF HandleTimeout, timerVars
  <2>3. hasHandleTimeout' \in BOOLEAN
    BY <2>1, <2>2, Zenon
  <2>4. timers' \in Nat /\ OneTimer'
    BY <2>1, <2>2 DEF OneTimer
  <2>5. QED
    BY <2>3, <2>4
<1>5. ds \in SUBSET Watchers /\ \A w \in ds : ~Gone(w) /\ w \notin Unused
  BY <1>3
<1> HIDE DEF ds, ws
<1>6. /\ tasks' \in Seq(Tasks) /\ NoTaskAfterDestroy' /\ LastBatchDelivered'
      /\ \A w : Gone(w)' <=> Gone(w)
      /\ \A w : TaskFree(w) /\ w \notin ds => TaskFree(w)'
  <2>1. PICK order \in SetToSeqs(ds) :
            tasks' = tasks \o [i \in DOMAIN order |-> Task("trigger", order[i])]
    BY <1>2
  <2> DEFINE more == [i \in DOMAIN order |-> Task("trigger", order[i])]
  <2>2. more \in Seq(Sent(ds))
    <3>1. IsFiniteSet(ds)
      BY <1>5, FS_Subset DEF EventsAssumption
    <3>2. DOMAIN order = 1..Cardinality(ds) /\ Cardinality(ds) \in Nat /\ order \in Seq(ds)
      BY <3>1, OrderHolds
    <3>3. \A i \in DOMAIN order : Task("trigger", order[i]) \in Sent(ds)
      BY <3>2, LenProperties DEF Sent, Task
    <3>4. more \in [1..Cardinality(ds) -> Sent(ds)]
      BY <3>2, <3>3
    <3> HIDE DEF more
    <3>5. QED
      BY <3>2, <3>4, FunctionIsSeq
  <2>3. tasks' = tasks \o more
    BY <2>1
  <2> HIDE DEF more
  <2>4. \A w \in Receivers : batch'[w] = batch[w] \/ Holds(more, Task("receive", w))
    BY <1>2
  <2>5. UNCHANGED <<freed, delivered>> /\ tasks \in Seq(Tasks) /\ \A w \in ds : ~Gone(w)
    BY <1>1, <1>2, <1>5 DEF Typed
  <2>6. QED
    BY <1>1, <1>5, <2>2, <2>3, <2>4, <2>5, AfterSend
<1>7. RowsAgree' /\ PublishAgrees'
  BY <1>2, <1>6, PlacesStay DEF IInv, storeVars
<1>8. UnusedIsNew'
  <2>1. \A w \in Unused : w \in Watchers /\ w \notin ds
    BY <1>5 DEF Unused
  <2>2. \A w \in Unused : row'[w] = row[w] \/ row'[w] = 0
    BY <1>2, <2>1
  <2>3. QED
    BY <1>1, <1>2, <1>6, <2>1, <2>2, UnusedStay
<1>9. Typed'
  <2>1. /\ row \in [Watchers -> Nat] /\ waited \in [Watchers -> Nat]
        /\ TimeoutOf \in [Watchers -> Nat] /\ \A w \in Watchers : waited[w] <= TimeoutOf[w]
    BY <1>1 DEF Typed, EventsAssumption
  <2>2. row' \in [Watchers -> Nat] /\ \A w \in Watchers : row'[w] = row[w] \/ row'[w] = 0
    BY <1>2, <2>1
  <2>3. ASSUME NEW w \in Watchers PROVE waited'[w] \in Nat /\ waited'[w] <= TimeoutOf[w]
    BY <1>2, <2>1
  <2>4. waited' \in [Watchers -> Nat]
    <3>1. waited' = [w \in Watchers |-> waited'[w]]
      BY <1>2
    <3>2. QED
      BY <2>3, <3>1
  <2>5. /\ UNCHANGED <<kinds, lastSeq, seqOf, eventMap, mapping, observerSeq, watchers, batch,
                       freed, delivered, clears>>
    BY <1>2 DEF storeVars
  <2>6. /\ observerSeq \in [Names -> 0..lastSeq] /\ watchers \in [ObserverSeqs -> SUBSET Watchers]
        /\ freed \subseteq Watchers /\ delivered \in [Watchers -> SUBSET DOMAIN kinds]
        /\ clears \in Nat /\ clears <= MaxClears
    BY <1>1 DEF Typed
  <2>7. QED
    BY <1>1, <1>4, <1>6, <2>2, <2>3, <2>4, <2>5, <2>6, TypesStay
<1>10. QED
  BY <1>4, <1>6, <1>7, <1>8, <1>9 DEF IInv

LEMMA InitWatcherStep ==
    ASSUME EventsAssumption, IInv, NEW w \in Watchers, InitWatcher(w)
    PROVE  IInv'
<1> DEFINE s == RowOfName(w)
           es == Queried(s)
           L == Len(kinds)
<1>1. Typed /\ NoTaskAfterDestroy /\ LastBatchDelivered /\ UnusedIsNew /\ OneTimer
      /\ RowsAgree
  BY DEF IInv
<1>2. /\ js = Idle /\ w \in Unused
      /\ seqOf' = [seqOf EXCEPT ![w] = s]
      /\ observerSeq' = [observerSeq EXCEPT ![NameOf[w]] = s]
      /\ lastSeq' = IF s > lastSeq THEN s ELSE lastSeq
      /\ SendEvents({w}, es, kinds)
      /\ js' = [at |-> "publish", watcher |-> w]
      /\ UNCHANGED <<kinds, eventMap, mapping, watchers, freed, timerVars, delivered, clears>>
  BY DEF InitWatcher
<1>3. L \in Nat /\ DOMAIN kinds = 1..L
  BY <1>1, LenProperties DEF Typed
<1>4. es \subseteq DOMAIN kinds
  BY DEF Queried, Mapped
<1>5. NameOf[w] \in Names /\ observerSeq \in [Names -> 0..lastSeq] /\ seqOf \in [Watchers -> 0..lastSeq]
      /\ lastSeq \in Nat
  BY <1>1 DEF Names, Typed
<1>6. /\ s \in 1..(lastSeq + 1)
      /\ observerSeq[NameOf[w]] # 0 => s = observerSeq[NameOf[w]]
  BY <1>5 DEF RowOfName
<1> HIDE DEF s, es, L
<1>7. /\ lastSeq' \in Nat /\ lastSeq <= lastSeq' /\ lastSeq' <= lastSeq + 1
      /\ s \in 0..lastSeq' /\ s # 0 /\ 0..lastSeq \subseteq 0..lastSeq'
  BY <1>2, <1>5, <1>6
<1>8. IsFiniteSet(es) /\ Cardinality(es) \in Nat /\ Cardinality(es) <= L
  <2>1. IsFiniteSet(1..L) /\ Cardinality(1..L) = L
    BY <1>3, FS_Interval
  <2>2. IsFiniteSet(es) /\ Cardinality(es) <= L
    BY <1>3, <1>4, <2>1, FS_Subset
  <2>3. QED
    BY <2>2, FS_CardinalityType
<1>9. /\ \A d : DOMAIN kinds \subseteq d /\ es \subseteq d => batch' \in [Watchers -> SUBSET d]
      /\ row' \in [Watchers -> Nat]
      /\ \A v \in Watchers : row'[v] <= row[v] + Cardinality(es)
      /\ \A v \in Watchers : RowOf[v] > 0 => row'[v] < RowOf[v]
      /\ \A v \in Watchers : v \notin {w} => row'[v] = row[v]
      /\ waited' \in [Watchers -> Nat]
      /\ \A v \in Watchers : waited'[v] <= TimeoutOf[v]
      /\ \E more \in Seq(Sent({w})) :
            /\ tasks' = tasks \o more
            /\ \A v \in Receivers : batch'[v] = batch[v] \/ Holds(more, Task("receive", v))
  <2>1. {w} \in SUBSET Watchers
    OBVIOUS
  <2>2. QED
    BY <1>1, <1>2, <1>8, <2>1, SendFacts
<1>10. TaskFree(w) /\ w \notin freed /\ row[w] = 0 /\ ~Gone(w)
  <2>1. TaskFree(w) /\ w \notin freed /\ row[w] = 0
    BY <1>1, <1>2 DEF UnusedIsNew
  <2>2. QED
    BY <2>1 DEF TaskFree, Gone, Holds, Task
<1>11. /\ tasks' \in Seq(Tasks) /\ NoTaskAfterDestroy' /\ LastBatchDelivered'
       /\ \A v : Gone(v)' <=> Gone(v)
       /\ \A v : TaskFree(v) /\ v \notin {w} => TaskFree(v)'
  <2>1. PICK more \in Seq(Sent({w})) :
            /\ tasks' = tasks \o more
            /\ \A v \in Receivers : batch'[v] = batch[v] \/ Holds(more, Task("receive", v))
    BY <1>9
  <2>2. tasks \in Seq(Tasks) /\ {w} \in SUBSET Watchers /\ \A v \in {w} : ~Gone(v)
    BY <1>1, <1>10 DEF Typed
  <2>3. UNCHANGED <<freed, delivered>>
    BY <1>2
  <2>4. QED
    BY <1>1, <2>1, <2>2, <2>3, AfterSend
<1>12. /\ seqOf' \in [Watchers -> 0..lastSeq'] /\ seqOf'[w] = s
       /\ \A v \in Watchers : v # w => seqOf'[v] = seqOf[v]
       /\ observerSeq' \in [Names -> 0..lastSeq'] /\ observerSeq'[NameOf[w]] = s
       /\ \A n \in Names : n # NameOf[w] => observerSeq'[n] = observerSeq[n]
  BY <1>2, <1>5, <1>7
<1>13. Unused' = Unused \ {w}
  BY <1>7, <1>12 DEF Unused
<1>14. lastSeq' <= Cardinality(Watchers \ Unused')
  <2>1. w \notin Watchers \ Unused /\ Watchers \ Unused' = (Watchers \ Unused) \cup {w}
    BY <1>2, <1>13
  <2>2. IsFiniteSet(Watchers \ Unused)
    BY FS_Subset DEF EventsAssumption
  <2>3. Cardinality(Watchers \ Unused') = Cardinality(Watchers \ Unused) + 1
        /\ Cardinality(Watchers \ Unused) \in Nat
    BY <2>1, <2>2, FS_AddElement, FS_CardinalityType
  <2>4. lastSeq <= Cardinality(Watchers \ Unused)
    BY <1>1 DEF Typed
  <2>5. QED
    BY <1>5, <1>7, <2>3, <2>4
<1>15. RowsAgree'
  <2>1. ASSUME NEW t \in ObserverSeqs, NEW v \in watchers[t]
        PROVE  /\ \A u \in watchers[t] : u = v
               /\ seqOf'[v] = t /\ observerSeq'[NameOf[v]] = t /\ ~Gone(v)' /\ v # w
    <3>1. /\ \A u \in watchers[t] : u = v
          /\ seqOf[v] = t /\ observerSeq[NameOf[v]] = t /\ ~Gone(v)
      BY <1>1 DEF RowsAgree
    <3>2. v \in Watchers /\ t # 0
      <4>1. watchers \in [ObserverSeqs -> SUBSET Watchers] /\ Cardinality(Watchers) \in Nat
        BY <1>1, PublishedFacts DEF Typed
      <4>2. QED
        BY <4>1, <2>1 DEF ObserverSeqs
    <3>3. v # w
      BY <1>2, <3>1, <3>2 DEF Unused
    <3>4. observerSeq'[NameOf[v]] = t
      <4>1. CASE NameOf[v] = NameOf[w]
        BY <1>6, <1>12, <3>1, <3>2, <4>1
      <4>2. CASE NameOf[v] # NameOf[w]
        <5>1. NameOf[v] \in Names
          BY <3>2 DEF Names
        <5>2. QED
          BY <1>12, <3>1, <4>2, <5>1
      <4>3. QED
        BY <4>1, <4>2
    <3>5. QED
      BY <1>11, <1>12, <3>1, <3>2, <3>3, <3>4
  <2>2. watchers' = watchers /\ js'.watcher = w /\ ObserverSeqs' = ObserverSeqs
    BY <1>2 DEF ObserverSeqs
  <2>3. QED
    BY <2>1, <2>2 DEF RowsAgree
<1>16. PublishAgrees'
  BY <1>2, <1>10, <1>11, <1>12, <1>13 DEF PublishAgrees
<1>17. UnusedIsNew'
  <2>1. ASSUME NEW v \in Unused, v # w PROVE TaskFree(v)' /\ v \notin freed' /\ row'[v] = 0
    <3>1. v \in Watchers /\ v \notin {w} /\ TaskFree(v) /\ v \notin freed /\ row[v] = 0
      BY <1>1, <2>1 DEF UnusedIsNew, Unused
    <3>2. QED
      BY <1>2, <1>9, <1>11, <3>1
  <2>2. QED
    BY <1>13, <2>1 DEF UnusedIsNew
<1>18. Typed'
  <2>1. \A v \in Watchers : row'[v] <= Len(kinds')
    <3>1. row \in [Watchers -> Nat] /\ \A v \in Watchers : row[v] <= L
      BY <1>1 DEF Typed, L
    <3>2. ASSUME NEW v \in Watchers PROVE row'[v] <= L
      <4>1. row'[v] \in Nat /\ row'[v] <= row[v] + Cardinality(es) /\ (v # w => row'[v] = row[v])
        BY <1>9
      <4>2. QED
        BY <1>3, <1>8, <1>10, <3>1, <4>1
    <3>3. QED
      BY <1>2, <3>2 DEF L
  <2>2. batch' \in [Watchers -> SUBSET DOMAIN kinds']
    BY <1>2, <1>4, <1>9
  <2>3. /\ kinds' \in Seq(Kinds) /\ Len(kinds') <= MaxEvents
        /\ eventMap' \subseteq DOMAIN kinds' /\ mapping' \subseteq (DOMAIN kinds') \X ObserverSeqs
        /\ watchers' \in [ObserverSeqs -> SUBSET Watchers]
        /\ freed' \subseteq Watchers /\ timers' \in Nat
        /\ delivered' \in [Watchers -> SUBSET DOMAIN kinds'] /\ clears' \in Nat /\ clears' <= MaxClears
    BY <1>1, <1>2 DEF Typed, timerVars
  <2>4. hasHandleTimeout' \in BOOLEAN
    <3>1. hasHandleTimeout' = hasHandleTimeout /\ hasHandleTimeout \in BOOLEAN
      BY <1>1, <1>2 DEF Typed, timerVars
    <3>2. QED
      BY <3>1
  <2>5. ObserverSeqs' = ObserverSeqs
    BY DEF ObserverSeqs
  <2>6. QED
    BY <1>7, <1>9, <1>11, <1>12, <1>14, <2>1, <2>2, <2>3, <2>4, <2>5 DEF Typed
<1>19. OneTimer'
  BY <1>1, <1>2 DEF OneTimer, timerVars
<1>20. QED
  BY <1>11, <1>15, <1>16, <1>17, <1>18, <1>19 DEF IInv

LEMMA PublishWatcherStep ==
    ASSUME EventsAssumption, IInv, PublishWatcher
    PROVE  IInv'
<1> DEFINE w == js.watcher
           s == seqOf[w]
           ws == watchers[s]
<1>1. Typed /\ NoTaskAfterDestroy /\ LastBatchDelivered /\ UnusedIsNew /\ OneTimer
      /\ RowsAgree
  BY DEF IInv
<1>2. /\ watchers' = [watchers EXCEPT ![s] = {w}] /\ tasks' = Dropped(ws) /\ js' = Idle
      /\ UNCHANGED <<storeVars, seqOf, row, waited, batch, freed, timerVars, delivered, clears>>
      /\ js.at = "publish"
  BY DEF PublishWatcher
<1>3. w \in Watchers /\ w \notin Unused /\ observerSeq[NameOf[w]] = s /\ ~Gone(w)
  BY <1>2 DEF IInv, PublishAgrees
<1>4. \A t \in ObserverSeqs : \A v \in watchers[t] : v # w
  BY <1>1, <1>2 DEF RowsAgree
<1> HIDE DEF w
<1>5. s \in ObserverSeqs
  <2>1. s \in 0..lastSeq /\ s # 0 /\ lastSeq \in Nat
    BY <1>1, <1>3 DEF Typed, Unused
  <2>2. s \in 1..lastSeq
    BY <2>1
  <2>3. QED
    BY <2>2, PublishedFacts
<1> HIDE DEF s
<1>6. /\ ws \in SUBSET Watchers /\ \A u, v \in ws : u = v
      /\ \A v \in ws : ~Gone(v) /\ seqOf[v] = s /\ v # w /\ v \notin Unused
  <2>1. ws \in SUBSET Watchers
    BY <1>1, <1>5 DEF Typed
  <2>2. \A v \in ws : (\A u \in ws : u = v) /\ ~Gone(v) /\ seqOf[v] = s
    BY <1>1, <1>5 DEF RowsAgree
  <2>3. s # 0
    BY <1>5, PublishedFacts DEF ObserverSeqs
  <2>4. QED
    BY <1>4, <1>5, <2>1, <2>2, <2>3 DEF Unused
<1>7. /\ tasks' \in Seq(Tasks) /\ NoTaskAfterDestroy' /\ LastBatchDelivered'
      /\ \A v : Gone(v)' <=> Gone(v) \/ v \in ws
      /\ \A v : TaskFree(v) /\ v \notin ws => TaskFree(v)'
  <2>1. tasks \in Seq(Tasks)
    BY <1>1 DEF Typed
  <2>2. UNCHANGED <<freed, delivered, batch>>
    BY <1>2
  <2> HIDE DEF ws
  <2>3. QED
    BY <1>1, <1>2, <1>6, <2>1, <2>2, AfterDrop
<1>8. /\ watchers' \in [ObserverSeqs -> SUBSET Watchers]
      /\ \A t \in ObserverSeqs : watchers'[t] = IF t = s THEN {w} ELSE watchers[t]
  BY <1>1, <1>2, <1>3, <1>5 DEF Typed
<1>9. RowsAgree'
  <2>1. ASSUME NEW t \in ObserverSeqs, NEW v \in watchers'[t]
        PROVE  /\ \A u \in watchers'[t] : u = v
               /\ seqOf[v] = t /\ observerSeq[NameOf[v]] = t /\ ~Gone(v)'
    <3>1. CASE t = s
      <4>1. watchers'[t] = {w} /\ v = w
        BY <1>8, <2>1, <3>1
      <4>2. w \notin ws
        BY <1>6
      <4>3. QED
        BY <1>3, <1>7, <3>1, <4>1, <4>2 DEF s
    <3>2. CASE t # s
      <4>1. watchers'[t] = watchers[t]
        BY <1>8, <3>2
      <4>2. (\A u \in watchers[t] : u = v) /\ seqOf[v] = t /\ observerSeq[NameOf[v]] = t /\ ~Gone(v)
        BY <1>1, <2>1, <4>1 DEF RowsAgree
      <4>3. v \notin ws
        BY <1>6, <3>2, <4>2
      <4>4. QED
        BY <1>7, <4>1, <4>2, <4>3
    <3>3. QED
      BY <3>1, <3>2
  <2>2. seqOf' = seqOf /\ observerSeq' = observerSeq /\ js'.at # "publish"
        /\ ObserverSeqs' = ObserverSeqs
    BY <1>2 DEF storeVars, Idle, ObserverSeqs
  <2>3. QED
    BY <2>1, <2>2 DEF RowsAgree
<1>10. PublishAgrees'
  BY <1>2 DEF PublishAgrees, Idle
<1>11. UnusedIsNew'
  <2>1. \A v \in Unused : v \notin ws
    BY <1>6
  <2>2. QED
    BY <1>1, <1>2, <1>7, <2>1, UnusedStay
<1>12. Typed'
  <2>1. /\ UNCHANGED <<kinds, lastSeq, seqOf, eventMap, mapping, observerSeq, row, waited, batch,
                       freed, hasHandleTimeout, timers, delivered, clears>>
    BY <1>2 DEF storeVars, timerVars
  <2>2. /\ observerSeq \in [Names -> 0..lastSeq]
        /\ row \in [Watchers -> Nat] /\ waited \in [Watchers -> Nat]
        /\ \A v \in Watchers : waited[v] <= TimeoutOf[v]
        /\ freed \subseteq Watchers /\ delivered \in [Watchers -> SUBSET DOMAIN kinds]
        /\ clears \in Nat /\ clears <= MaxClears /\ timers \in Nat /\ hasHandleTimeout \in BOOLEAN
    BY <1>1 DEF Typed
  <2>3. hasHandleTimeout' \in BOOLEAN
    BY <2>1, <2>2, Zenon
  <2>4. QED
    BY <1>1, <1>7, <1>8, <2>1, <2>2, <2>3, TypesStay
<1>13. OneTimer'
  BY <1>1, <1>2 DEF OneTimer, timerVars
<1>14. QED
  BY <1>7, <1>9, <1>10, <1>11, <1>12, <1>13 DEF IInv

LEMMA UnregisterObserverStep ==
    ASSUME EventsAssumption, IInv, NEW n \in Names, UnregisterObserver(n)
    PROVE  IInv'
<1> DEFINE s == observerSeq[n]
           ws == watchers[s]
<1>1. Typed /\ NoTaskAfterDestroy /\ LastBatchDelivered /\ UnusedIsNew /\ OneTimer
      /\ RowsAgree
  BY DEF IInv
<1>2. /\ observerSeq' = [observerSeq EXCEPT ![n] = 0]
      /\ watchers' = [watchers EXCEPT ![s] = {}] /\ tasks' = Dropped(ws)
      /\ js = Idle
      /\ UNCHANGED <<kinds, eventMap, mapping, lastSeq, seqOf, row, waited, batch, freed,
                     timerVars, js, delivered, clears>>
      /\ s \in ObserverSeqs
  BY DEF UnregisterObserver, Published
<1> HIDE DEF s
<1>3. /\ ws \in SUBSET Watchers /\ \A u, v \in ws : u = v
      /\ \A v \in ws : ~Gone(v) /\ seqOf[v] = s /\ v \notin Unused
  <2>1. ws \in SUBSET Watchers
    BY <1>1, <1>2 DEF Typed
  <2>2. \A v \in ws : (\A u \in ws : u = v) /\ ~Gone(v) /\ seqOf[v] = s
    BY <1>1, <1>2 DEF RowsAgree
  <2>3. s # 0
    BY <1>2, PublishedFacts DEF ObserverSeqs
  <2>4. QED
    BY <2>1, <2>2, <2>3 DEF Unused
<1>4. /\ tasks' \in Seq(Tasks) /\ NoTaskAfterDestroy' /\ LastBatchDelivered'
      /\ \A v : Gone(v)' <=> Gone(v) \/ v \in ws
      /\ \A v : TaskFree(v) /\ v \notin ws => TaskFree(v)'
  <2>1. tasks \in Seq(Tasks)
    BY <1>1 DEF Typed
  <2>2. UNCHANGED <<freed, delivered, batch>>
    BY <1>2
  <2> HIDE DEF ws
  <2>3. QED
    BY <1>1, <1>2, <1>3, <2>1, <2>2, AfterDrop
<1>5. /\ watchers' \in [ObserverSeqs -> SUBSET Watchers]
      /\ \A t \in ObserverSeqs : watchers'[t] = IF t = s THEN {} ELSE watchers[t]
  BY <1>1, <1>2 DEF Typed
<1>6. observerSeq' \in [Names -> 0..lastSeq]
      /\ \A m \in Names : m # n => observerSeq'[m] = observerSeq[m]
  <2>1. observerSeq \in [Names -> 0..lastSeq] /\ 0 \in 0..lastSeq
    BY <1>1 DEF Typed
  <2>2. QED
    BY <1>2, <2>1
<1>7. RowsAgree'
  <2>1. ASSUME NEW t \in ObserverSeqs, NEW v \in watchers'[t]
        PROVE  /\ \A u \in watchers'[t] : u = v
               /\ seqOf[v] = t /\ observerSeq'[NameOf[v]] = t /\ ~Gone(v)'
    <3>1. t # s /\ watchers'[t] = watchers[t]
      BY <1>5, <2>1
    <3>2. (\A u \in watchers[t] : u = v) /\ seqOf[v] = t /\ observerSeq[NameOf[v]] = t /\ ~Gone(v)
      BY <1>1, <2>1, <3>1 DEF RowsAgree
    <3>3. v \notin ws /\ NameOf[v] # n /\ v \in Watchers
      BY <1>3, <1>5, <2>1, <3>1, <3>2 DEF s
    <3>4. NameOf[v] \in Names
      BY <3>3 DEF Names
    <3>5. QED
      BY <1>4, <1>6, <3>1, <3>2, <3>3, <3>4
  <2>2. seqOf' = seqOf /\ js'.at # "publish" /\ ObserverSeqs' = ObserverSeqs
    BY <1>2 DEF Idle, ObserverSeqs
  <2>3. QED
    BY <2>1, <2>2 DEF RowsAgree
<1>8. PublishAgrees'
  BY <1>2 DEF PublishAgrees, Idle
<1>9. UnusedIsNew'
  <2>1. \A v \in Unused : v \notin ws
    BY <1>3
  <2>2. QED
    BY <1>1, <1>2, <1>4, <2>1, UnusedStay
<1>10. Typed'
  <2>1. /\ UNCHANGED <<kinds, lastSeq, seqOf, eventMap, mapping, row, waited, batch,
                       freed, hasHandleTimeout, timers, delivered, clears>>
    BY <1>2 DEF timerVars
  <2>2. /\ row \in [Watchers -> Nat] /\ waited \in [Watchers -> Nat]
        /\ \A v \in Watchers : waited[v] <= TimeoutOf[v]
        /\ freed \subseteq Watchers /\ delivered \in [Watchers -> SUBSET DOMAIN kinds]
        /\ clears \in Nat /\ clears <= MaxClears /\ timers \in Nat /\ hasHandleTimeout \in BOOLEAN
    BY <1>1 DEF Typed
  <2>3. hasHandleTimeout' \in BOOLEAN
    BY <2>1, <2>2, Zenon
  <2>4. QED
    BY <1>1, <1>4, <1>5, <1>6, <2>1, <2>2, <2>3, TypesStay
<1>11. OneTimer'
  BY <1>1, <1>2 DEF OneTimer, timerVars
<1>12. QED
  BY <1>4, <1>7, <1>8, <1>9, <1>10, <1>11 DEF IInv

\* Steps of the JavaScript thread that leave the watchers and their rows alone.
LEMMA OtherStep ==
    ASSUME EventsAssumption, IInv,
           UNCHANGED <<kinds, observerSeq, lastSeq, watchers, seqOf, batch, timerVars>>,
           eventMap' \subseteq eventMap, mapping' \subseteq mapping,
           row' \in [Watchers -> Nat], \A w \in Watchers : row'[w] = row[w] \/ row'[w] = 0,
           waited' \in [Watchers -> Nat], \A w \in Watchers : waited'[w] <= TimeoutOf[w],
           freed' \subseteq Watchers, \A w \in Unused : w \in freed' => w \in freed,
           tasks' \in Seq(Tasks), NoTaskAfterDestroy', LastBatchDelivered',
           \A w : Gone(w)' => Gone(w), \A w : TaskFree(w) => TaskFree(w)',
           delivered' \in [Watchers -> SUBSET DOMAIN kinds],
           js'.at # "publish",
           clears' \in Nat, clears' <= MaxClears
    PROVE  IInv'
<1>1. Typed /\ UnusedIsNew /\ RowsAgree /\ PublishAgrees /\ OneTimer
  BY DEF IInv
<1>2. RowsAgree' /\ PublishAgrees'
  BY <1>1, PlacesStay
<1>3. UnusedIsNew'
  <2>1. \A w \in Unused : w \in Watchers
    BY DEF Unused
  <2>2. QED
    BY <1>1, <2>1, UnusedStay
<1>4. Typed'
  <2>1. /\ observerSeq \in [Names -> 0..lastSeq] /\ watchers \in [ObserverSeqs -> SUBSET Watchers]
        /\ timers \in Nat /\ hasHandleTimeout \in BOOLEAN
    BY <1>1 DEF Typed
  <2>2. timers' = timers /\ hasHandleTimeout' = hasHandleTimeout
    BY DEF timerVars
  <2>3. hasHandleTimeout' \in BOOLEAN
    BY <2>1, <2>2, Zenon
  <2>4. QED
    BY <1>1, <2>1, <2>2, <2>3, TypesStay
<1>5. OneTimer'
  BY <1>1 DEF OneTimer, timerVars
<1>6. QED
  BY <1>2, <1>3, <1>4, <1>5 DEF IInv

LEMMA RunTaskStep ==
    ASSUME EventsAssumption, IInv, RunTask
    PROVE  IInv'
<1>1. Typed /\ UnusedIsNew /\ NoTaskAfterDestroy /\ LastBatchDelivered
  BY DEF IInv
<1>2. /\ row \in [Watchers -> Nat] /\ waited \in [Watchers -> Nat]
      /\ \A w \in Watchers : waited[w] <= TimeoutOf[w]
      /\ freed \subseteq Watchers /\ tasks \in Seq(Tasks)
      /\ batch \in [Watchers -> SUBSET DOMAIN kinds]
      /\ delivered \in [Watchers -> SUBSET DOMAIN kinds]
      /\ clears \in Nat /\ clears <= MaxClears /\ Receivers \subseteq Watchers
  BY <1>1 DEF Typed, EventsAssumption
<1>3. ASSUME tasks # << >>, tasks' = Tail(tasks)
      PROVE  tasks' \in Seq(Tasks) /\ Head(tasks).watcher \in Watchers
  <2>1. tasks' \in Seq(Tasks) /\ Head(tasks) \in Tasks
    BY <1>2, <1>3, TakeTask
  <2>2. QED
    BY <2>1 DEF Tasks
<1>4. CASE CallReceiver
  <2> DEFINE w == Head(tasks).watcher
  <2>1. /\ tasks # << >> /\ tasks' = Tail(tasks) /\ Head(tasks).kind = "receive"
        /\ delivered' = [delivered EXCEPT ![w] = @ \cup batch[w]]
        /\ js' = [at |-> "unmap", watcher |-> w]
        /\ UNCHANGED <<storeVars, watcherVars, timerVars, clears>>
    BY <1>4 DEF CallReceiver
  <2>2. /\ UNCHANGED <<kinds, eventMap, mapping, observerSeq, lastSeq, watchers, seqOf, row, waited,
                       batch, freed, timerVars, clears>>
    BY <2>1 DEF storeVars, watcherVars
  <2>3. /\ NoTaskAfterDestroy' /\ LastBatchDelivered' /\ \A v : Gone(v)' => Gone(v)
        /\ \A v : TaskFree(v) => TaskFree(v)' /\ v # Head(tasks).watcher
    BY <1>1, <1>2, <2>1, <2>2, AfterTake
  <2>4. delivered' \in [Watchers -> SUBSET DOMAIN kinds]
    BY <1>2, <1>3, <2>1
  <2>5. js'.at # "publish"
    BY <2>1
  <2>6. QED
    BY <1>2, <1>3, <2>1, <2>2, <2>3, <2>4, <2>5, OtherStep
<1>5. ASSUME UNCHANGED <<kinds, observerSeq, lastSeq, watcherVars, timerVars, tasks, delivered, clears>>,
             eventMap' \subseteq eventMap, mapping' \subseteq mapping, js'.at # "publish"
      PROVE  IInv'
  <2>1. /\ UNCHANGED <<watchers, seqOf, row, waited, batch, freed>>
    BY <1>5 DEF watcherVars
  <2>2. NoTaskAfterDestroy' /\ LastBatchDelivered'
    BY <1>1, <1>5, <2>1 DEF NoTaskAfterDestroy, LastBatchDelivered, Task
  <2>3. \A w : (Gone(w)' => Gone(w)) /\ (TaskFree(w) => TaskFree(w)')
    BY <1>5, <2>1 DEF Gone, Holds, TaskFree, Task
  <2>4. QED
    BY <1>2, <1>5, <2>1, <2>2, <2>3, OtherStep
<1>6. CASE UnmapEvents
  <2>1. eventMap' \subseteq eventMap /\ mapping' \subseteq mapping /\ js'.at # "publish"
    BY <1>6 DEF UnmapEvents
  <2>2. QED
    BY <1>5, <1>6, <2>1 DEF UnmapEvents
<1>7. CASE DeleteEvents
  <2>1. eventMap' \subseteq eventMap /\ mapping' \subseteq mapping /\ js'.at # "publish"
    BY <1>7 DEF DeleteEvents, Idle
  <2>2. QED
    BY <1>5, <1>7, <2>1 DEF DeleteEvents
<1>8. CASE CallTrigger
  <2>1. /\ tasks # << >> /\ tasks' = Tail(tasks) /\ Head(tasks).kind = "trigger" /\ js = Idle
        /\ UNCHANGED <<storeVars, watcherVars, timerVars, js, delivered, clears>>
    BY <1>8 DEF CallTrigger
  <2>2. /\ UNCHANGED <<kinds, eventMap, mapping, observerSeq, lastSeq, watchers, seqOf, row, waited,
                       batch, freed, timerVars, delivered, clears>> /\ js'.at # "publish"
    BY <2>1 DEF storeVars, watcherVars, Idle
  <2>3. /\ NoTaskAfterDestroy' /\ LastBatchDelivered' /\ \A v : Gone(v)' => Gone(v)
        /\ \A v : TaskFree(v) => TaskFree(v)' /\ v # Head(tasks).watcher
    BY <1>1, <1>2, <2>1, <2>2, AfterTake
  <2>4. QED
    BY <1>2, <1>3, <2>1, <2>2, <2>3, OtherStep
<1>9. CASE DestroyContext
  <2>1. /\ tasks # << >> /\ tasks' = Tail(tasks) /\ Head(tasks).kind = "destroy" /\ js = Idle
        /\ freed' = freed \cup {Head(tasks).watcher}
        /\ UNCHANGED <<storeVars, watchers, seqOf, row, waited, batch, timerVars, js, delivered,
                       clears>>
    BY <1>9 DEF DestroyContext
  <2>2. /\ UNCHANGED <<kinds, eventMap, mapping, observerSeq, lastSeq, watchers, seqOf, row, waited,
                       batch, timerVars, delivered, clears>> /\ js'.at # "publish"
    BY <2>1 DEF storeVars, Idle
  <2>3. /\ NoTaskAfterDestroy' /\ LastBatchDelivered' /\ \A v : Gone(v)' => Gone(v)
        /\ \A v : TaskFree(v) => TaskFree(v)' /\ v # Head(tasks).watcher
    BY <1>1, <1>2, <2>1, <2>2, AfterTake
  <2>4. freed' \subseteq Watchers
    BY <1>2, <1>3, <2>1
  <2>5. \A v \in Unused : v \in freed' => v \in freed
    BY <1>1, <2>1, <2>3 DEF UnusedIsNew
  <2>6. QED
    BY <1>2, <1>3, <2>1, <2>2, <2>3, <2>4, <2>5, OtherStep
<1>10. QED
  BY <1>4, <1>6, <1>7, <1>8, <1>9 DEF RunTask

LEMMA ClearStep ==
    ASSUME EventsAssumption, IInv, HandleClearUp \/ ClearAllData
    PROVE  IInv'
<1>1. Typed /\ NoTaskAfterDestroy /\ LastBatchDelivered
  BY DEF IInv
<1>2. /\ row \in [Watchers -> Nat] /\ waited \in [Watchers -> Nat]
      /\ TimeoutOf \in [Watchers -> Nat]
      /\ \A w \in Watchers : waited[w] <= TimeoutOf[w]
      /\ freed \subseteq Watchers /\ tasks \in Seq(Tasks)
      /\ delivered \in [Watchers -> SUBSET DOMAIN kinds]
      /\ clears \in Nat /\ clears <= MaxClears /\ MaxClears \in Nat
  BY <1>1 DEF Typed, EventsAssumption
<1>3. /\ UNCHANGED <<kinds, observerSeq, lastSeq, watchers, seqOf, batch, freed, timerVars, tasks,
                     delivered>>
      /\ eventMap' \subseteq eventMap /\ mapping' \subseteq mapping /\ js'.at # "publish"
  BY DEF HandleClearUp, ClearAllData, storeVars, watcherVars, Idle
<1>4. /\ row' \in [Watchers -> Nat] /\ \A w \in Watchers : row'[w] = row[w] \/ row'[w] = 0
      /\ waited' \in [Watchers -> Nat] /\ \A w \in Watchers : waited'[w] <= TimeoutOf[w]
  <2>1. CASE HandleClearUp
    <3> DEFINE ws == UNION {watchers[s] : s \in Published}
    <3>1. /\ row' = [w \in Watchers |-> IF w \in ws THEN 0 ELSE row[w]]
          /\ waited' = [w \in Watchers |-> IF w \in ws THEN 0 ELSE waited[w]]
      BY <2>1 DEF HandleClearUp
    <3> HIDE DEF ws
    <3>2. QED
      BY <1>2, <3>1
  <2>2. CASE ClearAllData
    BY <1>2, <2>2 DEF ClearAllData, watcherVars
  <2>3. QED
    BY <2>1, <2>2
<1>5. clears' \in Nat /\ clears' <= MaxClears
  BY <1>2 DEF HandleClearUp, ClearAllData
<1>6. NoTaskAfterDestroy' /\ LastBatchDelivered'
  BY <1>1, <1>3 DEF NoTaskAfterDestroy, LastBatchDelivered, Task
<1>7. \A w : (Gone(w)' => Gone(w)) /\ (TaskFree(w) => TaskFree(w)')
  BY <1>3 DEF Gone, Holds, TaskFree, Task
<1>8. QED
  BY <1>2, <1>3, <1>4, <1>5, <1>6, <1>7, OtherStep

LEMMA InitHolds ==
    ASSUME EventsAssumption, Init
    PROVE  IInv
<1>1. tasks = << >> /\ DOMAIN tasks = {} /\ tasks \in Seq(Tasks)
      /\ kinds = << >> /\ Len(kinds) = 0 /\ kinds \in Seq(Kinds)
  BY DEF Init
<1>2. Cardinality(Watchers) \in Nat /\ Cardinality(Watchers \ Unused) \in Nat
  BY FS_CardinalityType, FS_Subset DEF EventsAssumption
<1>3. Typed
  <2>1. /\ lastSeq \in Nat /\ lastSeq <= Cardinality(Watchers \ Unused) /\ lastSeq = 0
    BY <1>2 DEF Init
  <2>2. /\ \A w \in Watchers : row[w] = 0 /\ waited[w] = 0 /\ RowOf[w] \in Nat /\ TimeoutOf[w] \in Nat
        /\ row \in [Watchers -> Nat] /\ waited \in [Watchers -> Nat]
        /\ MaxEvents \in Nat /\ MaxClears \in Nat
    BY DEF Init, EventsAssumption
  <2>3. /\ observerSeq \in [Names -> 0..lastSeq] /\ seqOf \in [Watchers -> 0..lastSeq]
        /\ watchers \in [ObserverSeqs -> SUBSET Watchers]
        /\ batch \in [Watchers -> SUBSET DOMAIN kinds]
        /\ delivered \in [Watchers -> SUBSET DOMAIN kinds]
    BY <2>1 DEF Init
  <2>4. /\ eventMap \subseteq DOMAIN kinds /\ mapping \subseteq (DOMAIN kinds) \X ObserverSeqs
        /\ freed \subseteq Watchers /\ hasHandleTimeout \in BOOLEAN /\ timers \in Nat /\ clears = 0
    BY DEF Init
  <2>5. QED
    BY <1>1, <2>1, <2>2, <2>3, <2>4 DEF Typed
<1>4. OneTimer
  BY DEF Init, OneTimer
<1>5. RowsAgree /\ PublishAgrees
  BY DEF Init, RowsAgree, PublishAgrees, Idle
<1>6. UnusedIsNew
  BY <1>1 DEF Init, UnusedIsNew, TaskFree, Unused
<1>7. NoTaskAfterDestroy /\ LastBatchDelivered
  BY <1>1 DEF Init, NoTaskAfterDestroy, LastBatchDelivered, EventsAssumption
<1>8. QED
  BY <1>3, <1>4, <1>5, <1>6, <1>7 DEF IInv

LEMMA Invariance ==
    ASSUME EventsAssumption
    PROVE  Spec => []IInv
<1>1. Init => IInv
  BY InitHolds
<1>2. IInv /\ [Next]_vars => IInv'
  <2> SUFFICES ASSUME IInv, [Next]_vars PROVE IInv'
    OBVIOUS
  <2>1. CASE UNCHANGED vars
    <3>1. UNCHANGED <<kinds, eventMap, mapping, observerSeq, lastSeq, watchers, seqOf, row, waited,
                      batch, freed, hasHandleTimeout, timers, js, tasks, delivered, clears>>
      BY <2>1 DEF vars, storeVars, watcherVars, timerVars, jsVars
    <3>2. Typed'
      BY <3>1 DEF IInv, Typed, Unused, ObserverSeqs, Tasks
    <3>3. RowsAgree' /\ PublishAgrees' /\ UnusedIsNew'
      BY <3>1 DEF IInv, RowsAgree, PublishAgrees, UnusedIsNew, Gone, Holds, TaskFree, Unused,
                  ObserverSeqs, Task
    <3>4. OneTimer' /\ NoTaskAfterDestroy' /\ LastBatchDelivered'
      BY <3>1 DEF IInv, OneTimer, NoTaskAfterDestroy, LastBatchDelivered, Task
    <3>5. QED
      BY <3>2, <3>3, <3>4 DEF IInv
  <2>2. CASE \E k \in Kinds : HandleEvents(k)
    BY <2>2, HandleEventsStep
  <2>3. CASE HandleTimeout
    BY <2>3, HandleTimeoutStep
  <2>4. CASE JavaScript
    <3>1. CASE \E w \in Watchers : InitWatcher(w)
      BY <3>1, InitWatcherStep
    <3>2. CASE \E n \in Names : UnregisterObserver(n)
      BY <3>2, UnregisterObserverStep
    <3>3. QED
      BY <2>4, <3>1, <3>2, PublishWatcherStep, RunTaskStep, ClearStep DEF JavaScript
  <2>5. QED
    BY <2>1, <2>2, <2>3, <2>4 DEF Next
<1>3. QED
  BY <1>1, <1>2, PTL DEF Spec

-------------------------------------------------------------------------------
(* The theorems. *)

\* The types: a sequence number has one watcher, a watcher's rows are below its threshold
\* when a step ends, its waiting time keeps to its timeout.
THEOREM TypeCorrect ==
    ASSUME EventsAssumption
    PROVE  Spec => []TypeOK
<1>1. ASSUME IInv PROVE TypeOK
  <2>1. Typed /\ RowsAgree
    BY <1>1 DEF IInv
  <2>2. Len(kinds) \in Nat
    BY <2>1, LenProperties DEF Typed
  <2>3. /\ row \in [Watchers -> Nat] /\ MaxEvents \in Nat /\ Len(kinds) <= MaxEvents
        /\ \A w \in Watchers : row[w] <= Len(kinds)
        /\ waited \in [Watchers -> Nat] /\ \A w \in Watchers : waited[w] <= TimeoutOf[w]
        /\ TimeoutOf \in [Watchers -> Nat] /\ MaxClears \in Nat
    BY <2>1 DEF Typed, EventsAssumption
  <2>4. row \in [Watchers -> 0..MaxEvents]
    <3>1. \A w \in Watchers : row[w] \in 0..MaxEvents
      BY <2>2, <2>3
    <3>2. QED
      BY <2>3, <3>1
  <2>5. \A w \in Watchers : waited[w] \in 0..TimeoutOf[w]
    BY <2>3
  <2>6. lastSeq \in 0..Cardinality(Watchers)
    BY <1>1, PublishedFacts
  <2>7. \A s \in ObserverSeqs : Cardinality(watchers[s]) <= 1
    <3>1. TAKE s \in ObserverSeqs
    <3>2. CASE watchers[s] = {}
      BY <3>2, FS_EmptySet
    <3>3. CASE watchers[s] # {}
      <4>1. PICK w \in watchers[s] : \A v \in watchers[s] : v = w
        BY <2>1, <3>3 DEF RowsAgree
      <4>2. watchers[s] = {w}
        BY <4>1
      <4>3. Cardinality({w}) = 1
        BY FS_Singleton
      <4>4. QED
        BY <4>2, <4>3
    <3>4. QED
      BY <3>2, <3>3
  <2>8. clears \in 0..MaxClears
    BY <2>1, <2>3 DEF Typed
  <2>9. QED
    BY <2>1, <2>4, <2>5, <2>6, <2>7, <2>8 DEF TypeOK, Typed
<1>2. QED
  BY <1>1, Invariance, PTL

\* There is one timer at most, each name has one row of the observers' table, no task of a
\* context comes after the one that destroys it, and the last events sent to a receiver
\* are delivered or still on their way.
THEOREM EventsAreSafe ==
    ASSUME EventsAssumption
    PROVE  Spec => []EventsSafe
<1>1. IInv => EventsSafe
  BY DEF IInv, EventsSafe, RowsAgree, EachNameOneRow, Published
<1>2. QED
  BY <1>1, Invariance, PTL
===============================================================================
