---------------------------- MODULE ServicesProofs ----------------------------
(***************************************************************************)
(* Proofs about the components beside the event queue, for all values of   *)
(* their constants: first SyncSend, for any number of runners, clients and *)
(* events; then the table of EventParams; then AbilityDelegator, for any   *)
(* abilities, monitors and calls that are awaited; and last what these and *)
(* the other modules with proofs say of Services' properties.              *)
(***************************************************************************)
EXTENDS Services, SequenceTheorems, FiniteSetTheorems, WellFoundedInduction, TLAPS

\* The event objects in use.
Busy == InFlight \cup Held

Typed ==
    /\ runner \in [Runners -> RunnerStates]
    /\ queue \in [Runners -> SUBSET Events]
    /\ stack \in [Senders -> Seq(Events)]
    /\ pc \in [Senders -> Places]
    /\ target \in [Senders -> Runners]
    /\ holds \in [Senders -> SUBSET Events]
    /\ waiter \in [Events -> SUBSET Senders]
    /\ finished \in [Senders -> BOOLEAN]
    /\ sends \in 0..MaxSends

\* The pool holds no event in use, and counts those that are.
PoolCounts ==
    /\ pool \subseteq Events /\ IsFiniteSet(pool) /\ Cardinality(pool) <= MaxPool
    /\ pool \cap Busy = {}
    /\ IsFiniteSet(Busy) /\ usingCount = Cardinality(Busy)

\* An event object is in one queue, at one place of one stack, or held by one thread.
OnePlace ==
    /\ \A r, s \in Runners : \A e \in queue[r] : e \in queue[s] => r = s
    /\ \A t, u \in Senders : \A e \in holds[t] : e \in holds[u] => t = u
    /\ \A t, u \in Senders : \A i \in DOMAIN stack[t], j \in DOMAIN stack[u] :
          stack[t][i] = stack[u][j] => t = u /\ i = j
    /\ \A r \in Runners : \A e \in queue[r] : \A t \in Senders :
          e \notin holds[t] /\ \A i \in DOMAIN stack[t] : stack[t][i] # e
    /\ \A t, u \in Senders : \A e \in holds[t] : \A i \in DOMAIN stack[u] : stack[u][i] # e

\* A thread holds an event only between the creation of its waiter and the insert.
HeldIsCreated == \A t \in Senders : holds[t] # {} => pc[t] = "created"

IInv ==
    /\ Typed
    /\ PoolCounts
    /\ OnePlace
    /\ HeldIsCreated
    /\ WaitsAreAnswered

-------------------------------------------------------------------------------
(* Where the events are. *)

Somewhere(q, s, h, e) ==
    \/ \E r \in Runners : e \in q[r]
    \/ \E t \in Senders : \E i \in DOMAIN s[t] : s[t][i] = e
    \/ \E t \in Senders : e \in h[t]

LEMMA BusyIsSomewhere ==
    /\ \A e : e \in Busy <=> Somewhere(queue, stack, holds, e)
    /\ \A e : e \in Busy' <=> Somewhere(queue', stack', holds', e)
<1>1. ASSUME NEW e PROVE e \in Busy <=> Somewhere(queue, stack, holds, e)
  <2>1. \A t : e \in Stacked(t) <=> \E i \in DOMAIN stack[t] : stack[t][i] = e
    BY DEF Stacked
  <2>2. e \in UNION {Stacked(t) : t \in Senders} <=> \E t \in Senders : e \in Stacked(t)
    OBVIOUS
  <2>3. /\ e \in InQueue <=> \E r \in Runners : e \in queue[r]
        /\ e \in Held <=> \E t \in Senders : e \in holds[t]
    BY DEF InQueue, Held
  <2>4. QED
    BY <2>1, <2>2, <2>3 DEF Busy, InFlight, Somewhere
<1>2. ASSUME NEW e PROVE e \in Busy' <=> Somewhere(queue', stack', holds', e)
  <2>1. \A t : e \in Stacked(t)' <=> \E i \in DOMAIN stack'[t] : stack'[t][i] = e
    BY DEF Stacked
  <2>2. e \in UNION {Stacked(t)' : t \in Senders} <=> \E t \in Senders : e \in Stacked(t)'
    OBVIOUS
  <2>3. /\ e \in InQueue' <=> \E r \in Runners : e \in queue'[r]
        /\ e \in Held' <=> \E t \in Senders : e \in holds'[t]
    BY DEF InQueue, Held
  <2>4. QED
    BY <2>1, <2>2, <2>3 DEF Busy, InFlight, Somewhere
<1>3. QED
  BY <1>1, <1>2

\* The pool hands out objects that are not in use.
LEMMA GetsFresh ==
    ASSUME PoolCounts, NEW e, Gets(e)
    PROVE  e \notin Busy
BY DEF PoolCounts, Gets, Busy

LEMMA PoolAfterGet ==
    ASSUME PoolCounts, MaxPool \in Nat, NEW e \in Events, Got(e), Busy' = Busy \cup {e}
    PROVE  PoolCounts'
<1>1. e \notin Busy /\ pool' = pool \ {e} /\ usingCount' = usingCount + 1
  BY GetsFresh DEF Got
<1>2. IsFiniteSet(Busy') /\ Cardinality(Busy') = Cardinality(Busy) + 1
  BY <1>1, FS_AddElement DEF PoolCounts
<1>3. IsFiniteSet(pool') /\ Cardinality(pool') <= MaxPool
  <2>1. Cardinality(pool) \in Nat /\ IsFiniteSet(pool)
    BY FS_CardinalityType DEF PoolCounts
  <2>2. IsFiniteSet(pool') /\ Cardinality(pool') = IF e \in pool THEN Cardinality(pool) - 1
                                                   ELSE Cardinality(pool)
    BY <1>1, <2>1, FS_RemoveElement
  <2>3. QED
    BY <2>1, <2>2 DEF PoolCounts
<1>4. QED
  BY <1>1, <1>2, <1>3 DEF PoolCounts

LEMMA PoolAfterPut ==
    ASSUME PoolCounts, MaxPool \in Nat, NEW e \in Events, e \in Busy, Put(e),
           Busy' = Busy \ {e}
    PROVE  PoolCounts'
<1>1. pool' = (IF Cardinality(pool) < MaxPool THEN pool \cup {e} ELSE pool)
      /\ usingCount' = usingCount - 1 /\ e \notin pool
  BY DEF Put, PoolCounts
<1>2. IsFiniteSet(Busy') /\ Cardinality(Busy') = Cardinality(Busy) - 1
  BY FS_RemoveElement DEF PoolCounts
<1>3. IsFiniteSet(pool') /\ Cardinality(pool') <= MaxPool
  <2>1. Cardinality(pool) \in Nat /\ IsFiniteSet(pool) /\ Cardinality(pool) <= MaxPool
    BY FS_CardinalityType DEF PoolCounts
  <2>2. IsFiniteSet(pool \cup {e}) /\ Cardinality(pool \cup {e}) = Cardinality(pool) + 1
    BY <1>1, <2>1, FS_AddElement
  <2>3. QED
    BY <1>1, <2>1, <2>2
<1>4. pool' \subseteq Events /\ pool' \cap Busy' = {}
  BY <1>1 DEF PoolCounts
<1>5. QED
  BY <1>1, <1>2, <1>3, <1>4 DEF PoolCounts

\* A wait ends with the recycling of its event, and no other wait does.
LEMMA DropAnswers ==
    ASSUME Typed, WaitsAreAnswered, NEW e \in Events,
           Notify(waiter[e]), waiter' = [waiter EXCEPT ![e] = {}],
           \A f \in Busy : f # e => f \in Busy'
    PROVE  WaitsAreAnswered'
<1>1. /\ \A t \in Senders : finished'[t] = (finished[t] \/ t \in waiter[e])
      /\ \A t \in Senders : pc'[t] = IF t \in waiter[e] /\ pc[t] = "asleep" THEN "sent"
                                     ELSE pc[t]
      /\ \A f \in Events : waiter'[f] = IF f = e THEN {} ELSE waiter[f]
  BY DEF Notify, Typed
<1>2. \A t \in Senders, f \in Events : t \in waiter[f] =>
          /\ pc[t] # "free" /\ ~finished[t] /\ f \in Busy
          /\ \A g \in Events : t \in waiter[g] => g = f
  BY DEF WaitsAreAnswered, WaiterFollowsEvent, Waiting, Busy
<1>3. ASSUME NEW t \in Senders, NEW f \in Events, t \in waiter'[f]
      PROVE  /\ pc'[t] # "free" /\ ~finished'[t] /\ f \in Busy'
             /\ \A g \in Events : t \in waiter'[g] => g = f
  <2>1. f # e /\ t \in waiter[f]
    BY <1>1, <1>3
  <2>2. t \notin waiter[e]
    BY <1>2, <2>1
  <2>3. pc'[t] # "free" /\ ~finished'[t]
    BY <1>1, <1>2, <2>1, <2>2
  <2>4. f \in Busy'
    BY <1>2, <2>1
  <2>5. \A g \in Events : t \in waiter'[g] => t \in waiter[g]
    BY <1>1
  <2>6. QED
    BY <1>2, <2>1, <2>3, <2>4, <2>5
<1>4. ASSUME NEW t \in Senders
      PROVE  /\ pc'[t] = "asleep" => ~finished'[t]
             /\ pc'[t] # "free" /\ ~finished'[t] => \E f \in Busy' : t \in waiter'[f]
  <2>1. /\ pc[t] = "asleep" => ~finished[t]
        /\ pc[t] # "free" /\ ~finished[t] => \E f \in Busy : t \in waiter[f]
    BY DEF WaitsAreAnswered, NoLostNotify, Waiting, Busy
  <2>2. pc'[t] = "asleep" => ~finished'[t]
    BY <1>1, <2>1
  <2>3. ASSUME pc'[t] # "free", ~finished'[t]
        PROVE  \E f \in Busy' : t \in waiter'[f]
    <3>1. t \notin waiter[e] /\ ~finished[t] /\ pc[t] # "free"
      BY <1>1, <2>3
    <3>2. PICK f \in Busy : t \in waiter[f]
      BY <2>1, <3>1
    <3>3. f # e /\ waiter'[f] = waiter[f]
      BY <3>1, <3>2 DEF Typed
    <3>4. QED
      BY <3>2, <3>3
  <2>4. QED
    BY <2>2, <2>3
<1>5. QED
  BY <1>3, <1>4 DEF WaitsAreAnswered, WaiterFollowsEvent, NoLostNotify, Waiting, Busy

-------------------------------------------------------------------------------
(* One lemma for each action. *)

\* Nobody waits for an event that is not in use.
LEMMA FreshUnwaited ==
    ASSUME Typed, WaitsAreAnswered, NEW e \in Events, e \notin Busy
    PROVE  waiter[e] = {}
BY DEF Typed, WaitsAreAnswered, WaiterFollowsEvent, Busy

\* As long as no wait begins or ends, an event that stays in use keeps its waiter.
LEMMA WaitsGoOn ==
    ASSUME WaitsAreAnswered, UNCHANGED <<pc, finished, waiter>>, \A e \in Busy : e \in Busy'
    PROVE  WaitsAreAnswered'
BY DEF WaitsAreAnswered, WaiterFollowsEvent, NoLostNotify, Waiting, Busy

LEMMA PostStep ==
    ASSUME IInv, MaxPool \in Nat, MaxSends \in Nat,
           NEW t \in Senders, NEW r \in Runners, Post(t, r)
    PROVE  IInv'
<1>1. PICK e \in Events : Got(e) /\ queue' = [queue EXCEPT ![r] = queue[r] \cup {e}]
  BY DEF Post
<1>2. UNCHANGED <<runner, stack, pc, target, holds, finished, waiter>>
      /\ sends < MaxSends /\ sends' = sends + 1
  BY DEF Post, MaySend, threadVars
<1>3. Typed'
  BY <1>1, <1>2 DEF IInv, Typed
<1>4. \A s \in Runners : queue'[s] = IF s = r THEN queue[s] \cup {e} ELSE queue[s]
  BY <1>1 DEF IInv, Typed
<1>5. e \notin Busy
  BY <1>1, GetsFresh DEF Got, IInv
<1>6. Busy' = Busy \cup {e}
  <2>1. \A f : Somewhere(queue', stack', holds', f) <=>
                  f = e \/ Somewhere(queue, stack, holds, f)
    BY <1>2, <1>4 DEF Somewhere
  <2>2. QED
    BY <2>1, BusyIsSomewhere
<1>7. OnePlace'
  <2>1. ~Somewhere(queue, stack, holds, e)
    BY <1>5, BusyIsSomewhere
  <2>2. /\ \A s \in Runners : e \notin queue[s]
        /\ \A u \in Senders : e \notin holds[u] /\ \A i \in DOMAIN stack[u] : stack[u][i] # e
    BY <2>1 DEF Somewhere
  <2>3. \A s \in Runners : \A f \in queue'[s] : (f = e /\ s = r) \/ f \in queue[s]
    BY <1>4
  <2>4. \A s, q \in Runners : \A f \in queue'[s] : f \in queue'[q] => s = q
    BY <2>2, <2>3 DEF OnePlace, IInv
  <2>5. \A s \in Runners : \A f \in queue'[s] : \A u \in Senders :
            f \notin holds[u] /\ \A i \in DOMAIN stack[u] : stack[u][i] # f
    BY <2>2, <2>3 DEF OnePlace, IInv
  <2>6. QED
    BY <1>2, <2>4, <2>5 DEF OnePlace, IInv
<1>8. PoolCounts' /\ HeldIsCreated' /\ WaitsAreAnswered'
  BY <1>1, <1>2, <1>6, PoolAfterGet, WaitsGoOn DEF IInv, HeldIsCreated
<1>9. QED
  BY <1>3, <1>7, <1>8 DEF IInv

LEMMA SendToSelfStep ==
    ASSUME IInv, MaxPool \in Nat, MaxSends \in Nat, NEW t \in Runners, SendToSelf(t)
    PROVE  IInv'
<1>1. PICK e \in Events : Got(e) /\ stack' = [stack EXCEPT ![t] = Append(stack[t], e)]
  BY DEF SendToSelf
<1>2. UNCHANGED <<runner, queue, pc, target, holds, finished, waiter>>
      /\ sends < MaxSends /\ sends' = sends + 1 /\ t \in Senders
  BY DEF SendToSelf, MaySend, queueVars, Senders
<1>3. stack[t] \in Seq(Events) /\ stack \in [Senders -> Seq(Events)]
  BY <1>2 DEF IInv, Typed
<1>4. Typed'
  BY <1>1, <1>2, <1>3, AppendProperties DEF IInv, Typed
<1>5. /\ Len(stack[t]) \in Nat /\ DOMAIN stack[t] = 1..Len(stack[t])
      /\ DOMAIN stack'[t] = 1..(Len(stack[t]) + 1)
      /\ \A i \in DOMAIN stack[t] : stack'[t][i] = stack[t][i]
      /\ stack'[t][Len(stack[t]) + 1] = e
      /\ \A u \in Senders : u # t => stack'[u] = stack[u]
  BY <1>1, <1>2, <1>3, AppendProperties, LenProperties
<1>6. \A i \in DOMAIN stack'[t] :
          i \in DOMAIN stack[t] \/ (stack'[t][i] = e /\ i = Len(stack[t]) + 1)
  <2> DEFINE n == Len(stack[t])
  <2>1. n \in Nat /\ DOMAIN stack[t] = 1..n /\ DOMAIN stack'[t] = 1..(n + 1)
        /\ stack'[t][n + 1] = e
    BY <1>5
  <2> HIDE DEF n
  <2>2. \A i \in 1..(n + 1) : i \in 1..n \/ i = n + 1
    BY <2>1
  <2>3. ASSUME NEW i \in DOMAIN stack'[t]
        PROVE  i \in DOMAIN stack[t] \/ (stack'[t][i] = e /\ i = n + 1)
    <3>1. i \in 1..(n + 1)
      BY <2>1
    <3>2. QED
      BY <2>1, <2>2, <3>1
  <2>4. QED
    BY <2>3 DEF n
<1>7. e \notin Busy
  BY <1>1, GetsFresh DEF Got, IInv
<1>8. Busy' = Busy \cup {e}
  <2>1. \A f : Somewhere(queue', stack', holds', f) <=>
                  f = e \/ Somewhere(queue, stack, holds, f)
    <3>1. ASSUME NEW f, Somewhere(queue', stack', holds', f)
          PROVE  f = e \/ Somewhere(queue, stack, holds, f)
      BY <1>2, <1>5, <1>6, <3>1 DEF Somewhere
    <3>2. ASSUME NEW f, Somewhere(queue, stack, holds, f)
          PROVE  Somewhere(queue', stack', holds', f)
      <4>1. ASSUME NEW u \in Senders, NEW i \in DOMAIN stack[u], stack[u][i] = f
            PROVE  i \in DOMAIN stack'[u] /\ stack'[u][i] = f
        BY <1>5, <4>1
      <4>2. QED
        BY <1>2, <3>2, <4>1 DEF Somewhere
    <3>3. Somewhere(queue', stack', holds', e)
      BY <1>2, <1>5 DEF Somewhere
    <3>4. QED
      BY <3>1, <3>2, <3>3
  <2>2. QED
    BY <2>1, BusyIsSomewhere
<1>9. OnePlace'
  <2>1. ~Somewhere(queue, stack, holds, e)
    BY <1>7, BusyIsSomewhere
  <2>2. /\ \A s \in Runners : e \notin queue[s]
        /\ \A u \in Senders : e \notin holds[u] /\ \A i \in DOMAIN stack[u] : stack[u][i] # e
    BY <2>1 DEF Somewhere
  <2>3. \A u \in Senders : \A i \in DOMAIN stack'[u] :
            \/ i \in DOMAIN stack[u] /\ stack'[u][i] = stack[u][i]
            \/ u = t /\ i = Len(stack[t]) + 1 /\ stack'[u][i] = e
    BY <1>5, <1>6
  <2>4. \A u, v \in Senders : \A i \in DOMAIN stack'[u], j \in DOMAIN stack'[v] :
            stack'[u][i] = stack'[v][j] => u = v /\ i = j
    BY <2>2, <2>3 DEF IInv, OnePlace
  <2>5. QED
    BY <1>2, <2>2, <2>3, <2>4 DEF OnePlace, IInv
<1>10. PoolCounts' /\ HeldIsCreated' /\ WaitsAreAnswered'
  BY <1>1, <1>2, <1>8, PoolAfterGet, WaitsGoOn DEF IInv, HeldIsCreated
<1>11. QED
  BY <1>4, <1>9, <1>10 DEF IInv

LEMMA RefusedStep ==
    ASSUME IInv, MaxPool \in Nat, MaxSends \in Nat,
           NEW t \in Senders, NEW r \in Runners, Refused(t, r)
    PROVE  IInv'
<1>1. PICK e \in Events :
        /\ Gets(e)
        /\ pool' = IF Cardinality(pool) < MaxPool THEN pool \cup {e} ELSE pool
  BY DEF Refused
<1>2. UNCHANGED <<runner, queue, stack, pc, target, holds, finished, waiter, usingCount>>
      /\ sends < MaxSends /\ sends' = sends + 1
  BY DEF Refused, MaySend, queueVars, threadVars
<1>3. Busy' = Busy
  BY <1>2 DEF Busy, InFlight, InQueue, Stacked, Held
<1>4. Typed' /\ OnePlace' /\ HeldIsCreated'
  BY <1>2 DEF IInv, Typed, OnePlace, HeldIsCreated
<1>5. WaitsAreAnswered'
  BY <1>2, <1>3, WaitsGoOn DEF IInv
<1>6. PoolCounts'
  <2>1. e \notin Busy
    BY <1>1, GetsFresh DEF IInv
  <2>2. IsFiniteSet(pool) /\ Cardinality(pool) \in Nat /\ Cardinality(pool) <= MaxPool
    BY FS_CardinalityType DEF IInv, PoolCounts
  <2>3. /\ IsFiniteSet(pool \cup {e})
        /\ Cardinality(pool \cup {e}) = IF e \in pool THEN Cardinality(pool)
                                        ELSE Cardinality(pool) + 1
    BY <2>2, FS_AddElement
  <2>4. IsFiniteSet(pool') /\ Cardinality(pool') <= MaxPool
    BY <1>1, <2>2, <2>3
  <2>5. pool' \subseteq Events /\ pool' \cap Busy = {}
    BY <1>1, <2>1 DEF IInv, PoolCounts
  <2>6. QED
    BY <1>2, <1>3, <2>4, <2>5 DEF IInv, PoolCounts
<1>7. QED
  BY <1>4, <1>5, <1>6 DEF IInv

LEMMA CreateWaiterStep ==
    ASSUME IInv, MaxPool \in Nat, MaxSends \in Nat,
           NEW t \in Senders, NEW r \in Runners, CreateWaiter(t, r)
    PROVE  IInv'
<1>1. PICK e \in Events : /\ Got(e)
                          /\ holds' = [holds EXCEPT ![t] = {e}]
                          /\ waiter' = [waiter EXCEPT ![e] = {t}]
  BY DEF CreateWaiter
<1>2. /\ UNCHANGED <<runner, queue, stack>> /\ pc[t] = "free"
      /\ finished' = [finished EXCEPT ![t] = FALSE]
      /\ target' = [target EXCEPT ![t] = r]
      /\ pc' = [pc EXCEPT ![t] = "created"]
      /\ sends < MaxSends /\ sends' = sends + 1
  BY DEF CreateWaiter, MaySend, Active, queueVars
<1>3. Typed'
  BY <1>1, <1>2 DEF IInv, Typed, Places
<1>4. holds[t] = {} /\ \A u \in Senders : holds'[u] = IF u = t THEN {e} ELSE holds[u]
  BY <1>1, <1>2 DEF IInv, Typed, HeldIsCreated
<1>5. e \notin Busy
  BY <1>1, GetsFresh DEF Got, IInv
<1>6. Busy' = Busy \cup {e}
  <2>1. \A f : Somewhere(queue', stack', holds', f) <=>
                  f = e \/ Somewhere(queue, stack, holds, f)
    BY <1>2, <1>4 DEF Somewhere
  <2>2. QED
    BY <2>1, BusyIsSomewhere
<1>7. OnePlace'
  <2>1. ~Somewhere(queue, stack, holds, e)
    BY <1>5, BusyIsSomewhere
  <2>2. /\ \A s \in Runners : e \notin queue[s]
        /\ \A u \in Senders : e \notin holds[u] /\ \A i \in DOMAIN stack[u] : stack[u][i] # e
    BY <2>1 DEF Somewhere
  <2>3. QED
    BY <1>2, <1>4, <2>2 DEF OnePlace, IInv
<1>8. PoolCounts'
  BY <1>1, <1>6, PoolAfterGet DEF IInv
<1>9. HeldIsCreated'
  BY <1>2, <1>4 DEF HeldIsCreated, IInv, Typed
<1>10. WaitsAreAnswered'
  <2>1. waiter[e] = {} /\ \A f \in Events : t \notin waiter[f]
    BY <1>2, <1>5, FreshUnwaited DEF IInv, WaitsAreAnswered, WaiterFollowsEvent, Waiting
  <2>2. \A f \in Events : waiter'[f] = IF f = e THEN {t} ELSE waiter[f]
    BY <1>1 DEF IInv, Typed
  <2>3. \A u \in Senders : /\ pc'[u] = IF u = t THEN "created" ELSE pc[u]
                           /\ finished'[u] = IF u = t THEN FALSE ELSE finished[u]
    BY <1>2 DEF IInv, Typed
  <2>4. \A u \in Senders, f \in Events : u \in waiter'[f] =>
            IF u = t THEN f = e ELSE u \in waiter[f]
    BY <2>1, <2>2
  <2>5. \A u \in Senders, f \in Events : u \in waiter[f] =>
            /\ pc[u] # "free" /\ ~finished[u] /\ f \in Busy
            /\ \A g \in Events : u \in waiter[g] => g = f
    BY DEF IInv, WaitsAreAnswered, WaiterFollowsEvent, Waiting, Busy
  <2>6. ASSUME NEW u \in Senders, NEW f \in Events, u \in waiter'[f]
        PROVE  /\ pc'[u] # "free" /\ ~finished'[u] /\ f \in Busy'
               /\ \A g \in Events : u \in waiter'[g] => g = f
    <3>1. CASE u = t
      BY <1>6, <2>3, <2>4, <2>6, <3>1
    <3>2. CASE u # t
      BY <1>6, <2>3, <2>4, <2>5, <2>6, <3>2
    <3>3. QED
      BY <3>1, <3>2
  <2>7. ASSUME NEW u \in Senders
        PROVE  /\ pc'[u] = "asleep" => ~finished'[u]
               /\ pc'[u] # "free" /\ ~finished'[u] => \E f \in Busy' : u \in waiter'[f]
    <3>1. CASE u = t
      BY <1>6, <2>2, <2>3, <3>1
    <3>2. CASE u # t
      <4>1. /\ pc[u] = "asleep" => ~finished[u]
            /\ pc[u] # "free" /\ ~finished[u] => \E f \in Busy : u \in waiter[f]
        BY DEF IInv, WaitsAreAnswered, NoLostNotify, Waiting, Busy
      <4>2. ASSUME NEW f \in Busy, u \in waiter[f]
            PROVE  f \in Busy' /\ u \in waiter'[f]
        <5>1. f # e /\ waiter'[f] = waiter[f]
          BY <1>1, <1>5, <4>2 DEF IInv, Typed
        <5>2. QED
          BY <1>6, <4>2, <5>1
      <4>3. QED
        BY <2>3, <3>2, <4>1, <4>2
    <3>3. QED
      BY <3>1, <3>2
  <2>8. QED
    BY <2>6, <2>7 DEF WaitsAreAnswered, WaiterFollowsEvent, NoLostNotify, Waiting, Busy
<1>11. QED
  BY <1>3, <1>7, <1>8, <1>9, <1>10 DEF IInv

LEMMA InsertSyncStep ==
    ASSUME IInv, NEW t \in Senders, InsertSync(t)
    PROVE  IInv'
<1> DEFINE r == target[t]
<1>1. /\ queue' = [queue EXCEPT ![r] = queue[r] \cup holds[t]]
      /\ holds' = [holds EXCEPT ![t] = {}]
      /\ pc' = [pc EXCEPT ![t] = "sent"] /\ pc[t] = "created"
      /\ UNCHANGED <<runner, stack, target, finished, waiter, pool, usingCount, sends>>
  BY DEF InsertSync, poolVars
<1>2. r \in Runners
  BY DEF IInv, Typed
<1> HIDE DEF r
<1>3. Typed'
  BY <1>1, <1>2 DEF IInv, Typed, Places
<1>4. /\ \A s \in Runners : queue'[s] = IF s = r THEN queue[s] \cup holds[t] ELSE queue[s]
      /\ \A u \in Senders : holds'[u] = IF u = t THEN {} ELSE holds[u]
      /\ \A u \in Senders : pc'[u] = IF u = t THEN "sent" ELSE pc[u]
  BY <1>1 DEF IInv, Typed
<1>5. Busy' = Busy
  <2>1. \A f : Somewhere(queue', stack', holds', f) <=> Somewhere(queue, stack, holds, f)
    BY <1>1, <1>2, <1>4 DEF Somewhere
  <2>2. QED
    BY <2>1, BusyIsSomewhere
<1>6. OnePlace'
  <2>1. \A s \in Runners : \A f \in queue'[s] : (s = r /\ f \in holds[t]) \/ f \in queue[s]
    BY <1>4
  <2>2. \A s, q \in Runners : \A f \in queue'[s] : f \in queue'[q] => s = q
    BY <2>1 DEF OnePlace, IInv
  <2>3. \A s \in Runners : \A f \in queue'[s] : \A u \in Senders :
            f \notin holds'[u] /\ \A i \in DOMAIN stack[u] : stack[u][i] # f
    BY <1>4, <2>1 DEF OnePlace, IInv
  <2>4. QED
    BY <1>1, <1>4, <2>2, <2>3 DEF OnePlace, IInv
<1>7. PoolCounts' /\ HeldIsCreated'
  BY <1>1, <1>4, <1>5 DEF IInv, PoolCounts, HeldIsCreated
<1>8. WaitsAreAnswered'
  BY <1>1, <1>4, <1>5
     DEF IInv, WaitsAreAnswered, WaiterFollowsEvent, NoLostNotify, Waiting, Busy
<1>9. QED
  BY <1>3, <1>6, <1>7, <1>8 DEF IInv

LEMMA WaitStep ==
    ASSUME IInv, NEW t \in Senders, Wait(t) \/ WakeSpuriously(t)
    PROVE  IInv'
<1>1. /\ UNCHANGED <<runner, queue, stack, target, holds, finished, waiter, pool, usingCount,
                     sends>>
      /\ pc[t] \in {"sent", "asleep"}
      /\ pc' \in [Senders -> Places]
      /\ \A u \in Senders : u # t => pc'[u] = pc[u]
      /\ pc'[t] = "free" => finished[t]
      /\ pc'[t] = "asleep" => ~finished[t]
  BY DEF Wait, WakeSpuriously, queueVars, poolVars, IInv, Typed, Places
<1>2. Busy' = Busy
  BY <1>1 DEF Busy, InFlight, InQueue, Stacked, Held
<1>3. Typed' /\ OnePlace' /\ PoolCounts' /\ HeldIsCreated'
  <2>1. Typed' /\ PoolCounts'
    BY <1>1, <1>2 DEF IInv, Typed, PoolCounts
  <2>2. OnePlace'
    BY <1>1 DEF IInv, OnePlace
  <2>3. HeldIsCreated'
    BY <1>1 DEF IInv, HeldIsCreated
  <2>4. QED
    BY <2>1, <2>2, <2>3
<1>4. \A u \in Senders : pc'[u] # "free" /\ ~finished[u] => pc[u] # "free"
  BY <1>1
<1>5. WaitsAreAnswered'
  <2>1. WaiterFollowsEvent'
    BY <1>1, <1>2 DEF IInv, WaitsAreAnswered, WaiterFollowsEvent, Waiting, Busy
  <2>2. NoLostNotify'
    BY <1>1, <1>2, <1>4 DEF IInv, WaitsAreAnswered, NoLostNotify, Waiting, Busy
  <2>3. QED
    BY <2>1, <2>2 DEF WaitsAreAnswered
<1>6. QED
  BY <1>3, <1>5 DEF IInv

LEMMA TakeStep ==
    ASSUME IInv, NEW r \in Runners, Take(r)
    PROVE  IInv'
<1>1. PICK e \in queue[r] : /\ queue' = [queue EXCEPT ![r] = queue[r] \ {e}]
                            /\ stack' = [stack EXCEPT ![r] = <<e>>]
  BY DEF Take
<1>2. stack[r] = << >> /\ r \in Senders /\ e \in Events
      /\ UNCHANGED <<runner, pc, target, holds, finished, waiter, pool, usingCount, sends>>
  BY <1>1 DEF Take, poolVars, Senders, IInv, Typed
<1>3. Typed'
  <2>1. <<e>> \in Seq(Events)
    BY <1>2
  <2>2. QED
    BY <1>1, <1>2, <2>1 DEF IInv, Typed
<1>4. /\ \A s \in Runners : queue'[s] = IF s = r THEN queue[s] \ {e} ELSE queue[s]
      /\ \A u \in Senders : u # r => stack'[u] = stack[u]
      /\ DOMAIN stack[r] = {} /\ DOMAIN stack'[r] = {1} /\ stack'[r][1] = e
  <2>1. DOMAIN stack[r] = {}
    BY <1>2
  <2>2. stack'[r] = <<e>>
    BY <1>1, <1>2 DEF IInv, Typed
  <2>3. DOMAIN <<e>> = {1} /\ <<e>>[1] = e
    OBVIOUS
  <2>4. /\ \A s \in Runners : queue'[s] = IF s = r THEN queue[s] \ {e} ELSE queue[s]
        /\ \A u \in Senders : u # r => stack'[u] = stack[u]
    BY <1>1 DEF IInv, Typed
  <2>5. QED
    BY <2>1, <2>2, <2>3, <2>4
<1>5. \A u \in Senders : \A i \in DOMAIN stack'[u] :
          \/ u # r /\ i \in DOMAIN stack[u] /\ stack'[u][i] = stack[u][i]
          \/ u = r /\ i = 1 /\ stack'[u][i] = e
  BY <1>4
<1>6. Busy' = Busy
  <2>1. ASSUME NEW f, Somewhere(queue', stack', holds', f)
        PROVE  Somewhere(queue, stack, holds, f)
    <3>1. CASE \E s \in Runners : f \in queue'[s]
      BY <1>4, <3>1 DEF Somewhere
    <3>2. CASE \E u \in Senders : f \in holds'[u]
      BY <1>2, <3>2 DEF Somewhere
    <3>3. ASSUME NEW u \in Senders, NEW i \in DOMAIN stack'[u], stack'[u][i] = f
          PROVE  Somewhere(queue, stack, holds, f)
      <4>1. CASE u = r
        BY <1>1, <1>5, <3>3, <4>1 DEF Somewhere
      <4>2. CASE u # r
        BY <1>5, <3>3, <4>2 DEF Somewhere
      <4>3. QED
        BY <4>1, <4>2
    <3>4. QED
      BY <2>1, <3>1, <3>2, <3>3 DEF Somewhere
  <2>2. ASSUME NEW f, Somewhere(queue, stack, holds, f)
        PROVE  Somewhere(queue', stack', holds', f)
    <3>1. CASE f = e
      BY <1>2, <1>4, <3>1 DEF Somewhere
    <3>2. CASE f # e
      <4>1. CASE \E s \in Runners : f \in queue[s]
        BY <1>4, <3>2, <4>1 DEF Somewhere
      <4>2. CASE \E u \in Senders : f \in holds[u]
        BY <1>2, <4>2 DEF Somewhere
      <4>3. ASSUME NEW u \in Senders, NEW i \in DOMAIN stack[u], stack[u][i] = f
            PROVE  Somewhere(queue', stack', holds', f)
        <5>1. u # r /\ stack'[u] = stack[u]
          BY <1>4, <4>3
        <5>2. QED
          BY <4>3, <5>1 DEF Somewhere
      <4>4. QED
        BY <2>2, <4>1, <4>2, <4>3 DEF Somewhere
    <3>3. QED
      BY <3>1, <3>2
  <2>3. QED
    BY <2>1, <2>2, BusyIsSomewhere
<1>7. OnePlace'
  <2>1. /\ \A s \in Runners : e \notin queue'[s]
        /\ \A u \in Senders : e \notin holds[u] /\ \A i \in DOMAIN stack[u] : stack[u][i] # e
    BY <1>1, <1>4 DEF IInv, OnePlace
  <2>2. \A s \in Runners : \A f \in queue'[s] : f \in queue[s]
    BY <1>4
  <2>3. \A u, v \in Senders : \A i \in DOMAIN stack'[u], j \in DOMAIN stack'[v] :
            stack'[u][i] = stack'[v][j] => u = v /\ i = j
    BY <1>5, <2>1 DEF IInv, OnePlace
  <2>4. \A s \in Runners : \A f \in queue'[s] : \A u \in Senders :
            f \notin holds[u] /\ \A i \in DOMAIN stack'[u] : stack'[u][i] # f
    BY <1>5, <2>1, <2>2 DEF IInv, OnePlace
  <2>5. \A u, v \in Senders : \A f \in holds[u] : \A i \in DOMAIN stack'[v] : stack'[v][i] # f
    BY <1>5, <2>1 DEF IInv, OnePlace
  <2>6. QED
    BY <1>2, <2>2, <2>3, <2>4, <2>5 DEF IInv, OnePlace
<1>8. PoolCounts' /\ HeldIsCreated' /\ WaitsAreAnswered'
  BY <1>2, <1>6, WaitsGoOn DEF IInv, PoolCounts, HeldIsCreated
<1>9. QED
  BY <1>3, <1>7, <1>8 DEF IInv

\* What Drop does besides the change of the place of its event.
LEMMA DropStep ==
    ASSUME IInv, MaxPool \in Nat, NEW e \in Events, e \in Busy, Drop(e), Busy' = Busy \ {e},
           UNCHANGED <<target, holds, sends>>
    PROVE  /\ PoolCounts' /\ HeldIsCreated' /\ WaitsAreAnswered'
           /\ pc' \in [Senders -> Places] /\ finished' \in [Senders -> BOOLEAN]
           /\ waiter' \in [Events -> SUBSET Senders]
<1>1. Notify(waiter[e]) /\ waiter' = [waiter EXCEPT ![e] = {}] /\ Put(e)
  BY DEF Drop
<1>2. /\ pc' \in [Senders -> Places] /\ finished' \in [Senders -> BOOLEAN]
      /\ waiter' \in [Events -> SUBSET Senders]
      /\ \A t \in Senders : pc[t] = "created" => pc'[t] = "created"
  BY <1>1 DEF Notify, IInv, Typed, Places
<1>3. HeldIsCreated'
  BY <1>2 DEF IInv, HeldIsCreated
<1>4. PoolCounts'
  BY <1>1, PoolAfterPut DEF IInv
<1>5. WaitsAreAnswered'
  BY <1>1, DropAnswers DEF IInv
<1>6. QED
  BY <1>2, <1>3, <1>4, <1>5

LEMMA RemoveStep ==
    ASSUME IInv, MaxPool \in Nat, NEW t \in Senders, NEW r \in Runners, Remove(t, r)
    PROVE  IInv'
<1>1. PICK e \in queue[r] : queue' = [queue EXCEPT ![r] = queue[r] \ {e}] /\ Drop(e)
  BY DEF Remove
<1>2. UNCHANGED <<runner, stack, target, holds, sends>> /\ e \in Events
  BY <1>1 DEF Remove, IInv, Typed
<1>3. \A s \in Runners : queue'[s] = IF s = r THEN queue[s] \ {e} ELSE queue[s]
  BY <1>1 DEF IInv, Typed
<1>4. /\ \A s \in Runners : e \in queue[s] => s = r
      /\ \A u \in Senders : e \notin holds[u] /\ \A i \in DOMAIN stack[u] : stack[u][i] # e
  BY <1>1 DEF IInv, OnePlace
<1>5. Busy' = Busy \ {e} /\ e \in Busy
  <2>1. \A f : Somewhere(queue', stack', holds', f) <=>
                  f # e /\ Somewhere(queue, stack, holds, f)
    BY <1>2, <1>3, <1>4 DEF Somewhere
  <2>2. Somewhere(queue, stack, holds, e)
    BY <1>1 DEF Somewhere
  <2>3. QED
    BY <2>1, <2>2, BusyIsSomewhere
<1>6. OnePlace'
  <2>1. \A s \in Runners : \A f \in queue'[s] : f \in queue[s]
    BY <1>3
  <2>2. \A s, q \in Runners : \A f \in queue'[s] : f \in queue'[q] => s = q
    BY <2>1 DEF IInv, OnePlace
  <2>3. \A s \in Runners : \A f \in queue'[s] : \A u \in Senders :
            f \notin holds[u] /\ \A i \in DOMAIN stack[u] : stack[u][i] # f
    BY <2>1 DEF IInv, OnePlace
  <2>4. QED
    BY <1>2, <2>2, <2>3 DEF IInv, OnePlace
<1>7. /\ PoolCounts' /\ HeldIsCreated' /\ WaitsAreAnswered'
      /\ pc' \in [Senders -> Places] /\ finished' \in [Senders -> BOOLEAN]
      /\ waiter' \in [Events -> SUBSET Senders]
  BY <1>1, <1>2, <1>5, DropStep
<1>8. Typed'
  BY <1>1, <1>2, <1>7 DEF IInv, Typed
<1>9. QED
  BY <1>6, <1>7, <1>8 DEF IInv

LEMMA HandledStep ==
    ASSUME IInv, MaxPool \in Nat, NEW r \in Runners, Handled(r)
    PROVE  IInv'
<1> DEFINE n == Len(stack[r])
           e == stack[r][n]
<1>1. /\ stack[r] # << >> /\ Drop(e)
      /\ stack' = [stack EXCEPT ![r] = SubSeq(stack[r], 1, n - 1)]
      /\ UNCHANGED <<runner, queue, target, holds, sends>> /\ r \in Senders
  BY DEF Handled, queueVars, Senders
<1>2. stack[r] \in Seq(Events) /\ stack \in [Senders -> Seq(Events)]
  BY <1>1 DEF IInv, Typed
<1>3. n \in Nat \ {0} /\ DOMAIN stack[r] = 1..n /\ \A i \in 1..n : stack[r][i] \in Events
  BY <1>1, <1>2, EmptySeq, LenProperties, ElementOfSeq
<1>4. /\ SubSeq(stack[r], 1, n - 1) \in Seq(Events) /\ Len(SubSeq(stack[r], 1, n - 1)) = n - 1
      /\ \A i \in 1..(n - 1) : SubSeq(stack[r], 1, n - 1)[i] = stack[r][i]
  <2> DEFINE m == n - 1
             s == stack[r]
  <2>1. /\ m \in Nat /\ m <= Len(s) /\ \A i \in 1..m : s[i] \in Events /\ 1 + i - 1 = i
        /\ \A i \in 1..m : i \in 1..Len(s)
    BY <1>3
  <2>2. s \in Seq(Events)
    BY <1>2
  <2> HIDE DEF m, s
  <2>3. /\ SubSeq(s, 1, m) \in Seq(Events) /\ Len(SubSeq(s, 1, m)) = m
        /\ \A i \in 1..m : SubSeq(s, 1, m)[i] = s[i]
    BY <2>1, <2>2, SubSeqProperties
  <2>4. QED
    BY <2>3 DEF m, s
<1> HIDE DEF n, e
<1>5. /\ e \in Events /\ n \in DOMAIN stack[r] /\ stack[r][n] = e
      /\ DOMAIN stack'[r] = 1..(n - 1)
      /\ \A i \in DOMAIN stack[r] : i = n \/ i \in DOMAIN stack'[r]
      /\ \A i \in DOMAIN stack'[r] : i \in DOMAIN stack[r] /\ i # n /\ stack'[r][i] = stack[r][i]
      /\ \A u \in Senders : u # r => stack'[u] = stack[u]
  <2>1. stack'[r] = SubSeq(stack[r], 1, n - 1)
    BY <1>1, <1>2
  <2>2. DOMAIN stack'[r] = 1..(n - 1)
    BY <1>4, <2>1, LenProperties
  <2>3. \A i \in 1..n : i = n \/ i \in 1..(n - 1)
    BY <1>3
  <2>4. \A i \in 1..(n - 1) : i \in 1..n /\ i # n
    BY <1>3
  <2>5. n \in 1..n /\ e \in Events /\ stack[r][n] = e
    BY <1>3 DEF e
  <2>6. \A u \in Senders : u # r => stack'[u] = stack[u]
    BY <1>1, <1>2
  <2>7. QED
    BY <1>3, <1>4, <2>1, <2>2, <2>3, <2>4, <2>5, <2>6
<1>6. \A u \in Senders : \A i \in DOMAIN stack'[u] :
          i \in DOMAIN stack[u] /\ stack'[u][i] = stack[u][i] /\ ~(u = r /\ i = n)
  BY <1>5
<1>7. \A u \in Senders : \A i \in DOMAIN stack[u] :
          (u = r /\ i = n) \/ (i \in DOMAIN stack'[u] /\ stack'[u][i] = stack[u][i])
  BY <1>5
<1>8. /\ \A s \in Runners : e \notin queue[s]
      /\ \A u \in Senders : e \notin holds[u]
      /\ \A u \in Senders : \A i \in DOMAIN stack[u] : stack[u][i] = e => u = r /\ i = n
  BY <1>1, <1>5 DEF IInv, OnePlace
<1>9. Busy' = Busy \ {e} /\ e \in Busy
  <2>1. ASSUME NEW f, Somewhere(queue', stack', holds', f)
        PROVE  f # e /\ Somewhere(queue, stack, holds, f)
    <3>1. CASE \E s \in Runners : f \in queue'[s]
      BY <1>1, <1>8, <3>1 DEF Somewhere
    <3>2. CASE \E u \in Senders : f \in holds'[u]
      BY <1>1, <1>8, <3>2 DEF Somewhere
    <3>3. ASSUME NEW u \in Senders, NEW i \in DOMAIN stack'[u], stack'[u][i] = f
          PROVE  f # e /\ Somewhere(queue, stack, holds, f)
      <4>1. i \in DOMAIN stack[u] /\ stack[u][i] = f /\ ~(u = r /\ i = n)
        BY <1>6, <3>3
      <4>2. f # e
        BY <1>8, <4>1
      <4>3. QED
        BY <4>1, <4>2 DEF Somewhere
    <3>4. QED
      BY <2>1, <3>1, <3>2, <3>3 DEF Somewhere
  <2>2. ASSUME NEW f, Somewhere(queue, stack, holds, f), f # e
        PROVE  Somewhere(queue', stack', holds', f)
    <3>1. CASE \E s \in Runners : f \in queue[s]
      BY <1>1, <3>1 DEF Somewhere
    <3>2. CASE \E u \in Senders : f \in holds[u]
      BY <1>1, <3>2 DEF Somewhere
    <3>3. ASSUME NEW u \in Senders, NEW i \in DOMAIN stack[u], stack[u][i] = f
          PROVE  Somewhere(queue', stack', holds', f)
      <4>1. i \in DOMAIN stack'[u] /\ stack'[u][i] = f
        BY <1>5, <1>7, <2>2, <3>3
      <4>2. QED
        BY <4>1 DEF Somewhere
    <3>4. QED
      BY <2>2, <3>1, <3>2, <3>3 DEF Somewhere
  <2>3. Somewhere(queue, stack, holds, e)
    BY <1>1, <1>5 DEF Somewhere
  <2>4. QED
    BY <2>1, <2>2, <2>3, BusyIsSomewhere
<1>10. OnePlace'
  <2>1. \A u, v \in Senders : \A i \in DOMAIN stack'[u], j \in DOMAIN stack'[v] :
            stack'[u][i] = stack'[v][j] => u = v /\ i = j
    BY <1>6 DEF IInv, OnePlace
  <2>2. \A s \in Runners : \A f \in queue[s] : \A u \in Senders :
            f \notin holds[u] /\ \A i \in DOMAIN stack'[u] : stack'[u][i] # f
    BY <1>6 DEF IInv, OnePlace
  <2>3. \A u, v \in Senders : \A f \in holds[u] : \A i \in DOMAIN stack'[v] : stack'[v][i] # f
    BY <1>6 DEF IInv, OnePlace
  <2>4. /\ \A s, q \in Runners : \A f \in queue[s] : f \in queue[q] => s = q
        /\ \A u, v \in Senders : \A f \in holds[u] : f \in holds[v] => u = v
    BY DEF IInv, OnePlace
  <2>5. queue' = queue /\ holds' = holds
    BY <1>1
  <2>6. QED
    BY <2>1, <2>2, <2>3, <2>4, <2>5 DEF OnePlace
<1>11. /\ PoolCounts' /\ HeldIsCreated' /\ WaitsAreAnswered'
       /\ pc' \in [Senders -> Places] /\ finished' \in [Senders -> BOOLEAN]
       /\ waiter' \in [Events -> SUBSET Senders]
  BY <1>1, <1>5, <1>9, DropStep
<1>12. Typed'
  BY <1>1, <1>2, <1>4, <1>11 DEF IInv, Typed
<1>13. QED
  BY <1>10, <1>11, <1>12 DEF IInv

LEMMA RunnerStep ==
    ASSUME IInv, NEW r \in Runners, StopRunner(r) \/ EndRun(r)
    PROVE  IInv'
<1>1. /\ UNCHANGED <<queue, stack, pc, target, holds, finished, waiter, pool, usingCount, sends>>
      /\ runner' \in [Runners -> RunnerStates]
  BY DEF StopRunner, EndRun, threadVars, poolVars, IInv, Typed, RunnerStates
<1>2. Busy' = Busy
  BY <1>1 DEF Busy, InFlight, InQueue, Stacked, Held
<1>3. QED
  BY <1>1, <1>2, WaitsGoOn DEF IInv, Typed, PoolCounts, OnePlace, HeldIsCreated

-------------------------------------------------------------------------------
LEMMA InitHolds ==
    ASSUME Runners # {}, MaxPool \in Nat, MaxSends \in Nat, Init
    PROVE  IInv
<1>1. Typed
  BY EmptySeq DEF Init, Typed, RunnerStates, Places
<1>2. \A t \in Senders : DOMAIN stack[t] = {} /\ holds[t] = {}
  BY DEF Init
<1>3. \A r \in Runners : queue[r] = {}
  BY DEF Init
<1>4. Busy = {}
  BY <1>2, <1>3, BusyIsSomewhere DEF Somewhere
<1>5. PoolCounts
  BY <1>4, FS_EmptySet DEF Init, PoolCounts
<1>6. OnePlace /\ HeldIsCreated
  BY <1>2, <1>3 DEF OnePlace, HeldIsCreated
<1>7. WaitsAreAnswered
  BY DEF Init, WaitsAreAnswered, WaiterFollowsEvent, NoLostNotify, Waiting
<1>8. QED
  BY <1>1, <1>5, <1>6, <1>7 DEF IInv

LEMMA NextStep ==
    ASSUME MaxPool \in Nat, MaxSends \in Nat, IInv, [Next]_vars
    PROVE  IInv'
<1>1. ASSUME NEW t \in Senders, NEW r \in Runners,
             Post(t, r) \/ Refused(t, r) \/ CreateWaiter(t, r) \/ Remove(t, r)
      PROVE  IInv'
  BY <1>1, PostStep, RefusedStep, CreateWaiterStep, RemoveStep
<1>2. ASSUME NEW t \in Senders, InsertSync(t) \/ Wait(t) \/ WakeSpuriously(t)
      PROVE  IInv'
  BY <1>2, InsertSyncStep, WaitStep
<1>3. ASSUME NEW r \in Runners,
             SendToSelf(r) \/ Take(r) \/ Handled(r) \/ StopRunner(r) \/ EndRun(r)
      PROVE  IInv'
  BY <1>3, SendToSelfStep, TakeStep, HandledStep, RunnerStep
<1>4. CASE UNCHANGED vars
  <2>1. UNCHANGED <<runner, queue, stack, pc, target, holds, finished, waiter, pool, usingCount,
                    sends>>
    BY <1>4 DEF vars, queueVars, threadVars, poolVars
  <2>2. Busy' = Busy
    BY <2>1 DEF Busy, InFlight, InQueue, Stacked, Held
  <2>3. QED
    BY <2>1, <2>2, WaitsGoOn DEF IInv, Typed, PoolCounts, OnePlace, HeldIsCreated
<1>5. QED
  BY <1>1, <1>2, <1>3, <1>4 DEF Next

LEMMA Invariance ==
    ASSUME Runners # {}, MaxPool \in Nat, MaxSends \in Nat
    PROVE  Spec => []IInv
BY InitHolds, NextStep, PTL DEF Spec

\* The types of SyncSend: the pool never holds an event that is in use, counts those that
\* are, and keeps to its limit.
THEOREM TypeCorrect ==
    ASSUME Runners # {}, MaxPool \in Nat, MaxSends \in Nat
    PROVE  Spec => []TypeOK
<1>1. IInv => TypeOK
  BY DEF IInv, Typed, PoolCounts, TypeOK, Busy
<1>2. QED
  BY <1>1, Invariance, PTL

\* A thread waits for as long as its event is on its way, though the object comes from a pool
\* and goes back to it, and it never sleeps past the notification.
THEOREM WaitsEndWithEvents ==
    ASSUME Runners # {}, MaxPool \in Nat, MaxSends \in Nat
    PROVE  Spec => []WaitsAreAnswered
BY Invariance, PTL DEF IInv

-------------------------------------------------------------------------------
(* Facts about numbers. *)

\* Every non-empty set of naturals has a least element, ...
LEMMA LeastNat ==
    ASSUME NEW T \in SUBSET Nat, T # {}
    PROVE  \E m \in T : \A k \in T : m <= k
<1>1. PICK m \in T : \A k \in T : ~(<<k, m>> \in OpToRel(<, Nat))
  BY NatLessThanWellFounded, WFMin
<1>2. \A k \in T : ~(k < m)
  BY <1>1 DEF OpToRel
<1> QED BY <1>2

\* ... and one with a bound a greatest.
LEMMA GreatestNat ==
    ASSUME NEW T \in SUBSET Nat, T # {}, NEW n \in Nat, \A k \in T : k <= n
    PROVE  \E m \in T : \A k \in T : k <= m
<1> DEFINE Above == {u \in Nat : \A k \in T : k <= u}
<1>1. PICK u \in Above : \A k \in Above : u <= k
  BY LeastNat
<1>2. CASE u \in T
  BY <1>1, <1>2
<1>3. CASE u \notin T
  <2>1. PICK t \in T : TRUE
    OBVIOUS
  <2>2. \A k \in T : k < u
    BY <1>1, <1>3
  <2>3. u - 1 \in Nat /\ \A k \in T : k <= u - 1
    BY <1>1, <2>1, <2>2
  <2> QED BY <1>1, <2>3
<1> QED BY <1>2, <1>3

-------------------------------------------------------------------------------
(* EventParams: the table of the parameters. *)

\* Row i of a table is for name n and key k.
RowIn(table, i, n, k) == table[i].name = n /\ table[i].key = k
IsRow(i, n, k) == RowIn(customParamMap, i, n, k)

ParamsTyped ==
    /\ customParamMap \in Seq(Params!Rows)
    /\ Len(customParamMap) <= MaxRows
    /\ lastSet \in [EventNames \X Keys -> SUBSET Values]
    /\ \A n \in EventNames, k \in Keys :
        lastSet[<<n, k>>] # {} <=> \E i \in DOMAIN customParamMap : IsRow(i, n, k)

\* The last row for a name and a key has the value that was set last.
LatestIsLast ==
    \A n \in EventNames, k \in Keys : \A i \in DOMAIN customParamMap :
        IsRow(i, n, k) /\ (\A j \in DOMAIN customParamMap : i < j => ~IsRow(j, n, k)) =>
            lastSet[<<n, k>>] = {customParamMap[i].value}

ParamsInv == ParamsTyped /\ LatestIsLast

LEMMA RowFacts ==
    ASSUME customParamMap \in Seq(Params!Rows)
    PROVE  /\ Len(customParamMap) \in Nat /\ DOMAIN customParamMap = 1..Len(customParamMap)
           /\ \A i \in DOMAIN customParamMap :
                 /\ customParamMap[i] \in Params!Rows
                 /\ customParamMap[i].name \in EventNames /\ customParamMap[i].key \in Keys
<1>1. Len(customParamMap) \in Nat /\ DOMAIN customParamMap = 1..Len(customParamMap)
  BY LenProperties
<1>2. \A i \in DOMAIN customParamMap : customParamMap[i] \in Params!Rows
  BY <1>1, ElementOfSeq
<1> QED BY <1>1, <1>2 DEF Params!Rows

\* A key that is found has a row.
LEMMA OldIsRow ==
    ASSUME customParamMap \in Seq(Params!Rows), NEW n, NEW k \in Params!FindOldParamkeys(n)
    PROVE  \E i \in DOMAIN customParamMap : IsRow(i, n, k)
<1>1. Params!RowsOf(n) # {} /\ k = customParamMap[Params!Min(Params!RowsOf(n))].key
  BY DEF Params!FindOldParamkeys
<1>2. Params!RowsOf(n) \in SUBSET Nat
  BY RowFacts DEF Params!RowsOf
<1>3. Params!Min(Params!RowsOf(n)) \in Params!RowsOf(n)
  BY <1>1, <1>2, LeastNat DEF Params!Min
<1> QED BY <1>1, <1>3 DEF Params!RowsOf, IsRow, RowIn

LEMMA InsertParamStep ==
    ASSUME MaxRows \in Nat, ParamsInv, NEW n \in EventNames, NEW k \in Keys, NEW v \in Values,
           Params!InsertCustomEventParams(n, k, v)
    PROVE  ParamsInv'
<1> DEFINE L == Len(customParamMap)
<1>1. /\ L \in Nat /\ DOMAIN customParamMap = 1..L /\ customParamMap \in Seq(Params!Rows)
      /\ \A i \in 1..L : customParamMap[i] \in Params!Rows
  BY RowFacts DEF ParamsInv, ParamsTyped
<1>2. /\ lastSet' = [lastSet EXCEPT ![<<n, k>>] = {v}]
      /\ lastSet \in [EventNames \X Keys -> SUBSET Values]
  BY DEF ParamsInv, ParamsTyped, Params!InsertCustomEventParams
<1>3. /\ lastSet' \in [EventNames \X Keys -> SUBSET Values]
      /\ lastSet'[<<n, k>>] = {v}
      /\ \A m \in EventNames, l \in Keys : <<m, l>> # <<n, k>> => lastSet'[<<m, l>>] = lastSet[<<m, l>>]
  BY <1>2
<1>4. CASE k \in Params!FindOldParamkeys(n)
  <2>1. customParamMap' = [i \in 1..L |->
                IF IsRow(i, n, k) THEN [customParamMap[i] EXCEPT !.value = v] ELSE customParamMap[i]]
    BY <1>1, <1>4 DEF Params!InsertCustomEventParams, IsRow, RowIn
  <2>2. \A i \in 1..L : /\ customParamMap'[i] \in Params!Rows
                        /\ \A m, l : RowIn(customParamMap', i, m, l) <=> IsRow(i, m, l)
                        /\ IsRow(i, n, k) => customParamMap'[i].value = v
                        /\ ~IsRow(i, n, k) => customParamMap'[i] = customParamMap[i]
    BY <1>1, <2>1 DEF Params!Rows, IsRow, RowIn
  <2>3. customParamMap' \in [1..L -> Params!Rows]
    BY <2>1, <2>2
  <2>4. customParamMap' \in Seq(Params!Rows) /\ DOMAIN customParamMap' = 1..L /\ Len(customParamMap') = L
    BY <1>1, <2>1, <2>3, SeqDef, LenProperties
  <2>5. \E i \in 1..L : IsRow(i, n, k)
    BY <1>1, <1>4, OldIsRow
  <2>6. ParamsTyped'
    <3>1. ASSUME NEW m \in EventNames, NEW l \in Keys
          PROVE  lastSet'[<<m, l>>] # {} <=> \E i \in 1..L : RowIn(customParamMap', i, m, l)
      <4>1. CASE <<m, l>> = <<n, k>>
        BY <4>1, <1>3, <2>2, <2>5
      <4>2. CASE <<m, l>> # <<n, k>>
        BY <4>2, <1>1, <1>3, <2>2 DEF ParamsInv, ParamsTyped
      <4> QED BY <4>1, <4>2
    <3> QED BY <3>1, <1>1, <1>3, <2>4 DEF ParamsInv, ParamsTyped, IsRow
  <2>7. ASSUME NEW m \in EventNames, NEW l \in Keys, NEW i \in 1..L,
               RowIn(customParamMap', i, m, l),
               \A j \in 1..L : i < j => ~RowIn(customParamMap', j, m, l)
        PROVE  lastSet'[<<m, l>>] = {customParamMap'[i].value}
    <3>1. IsRow(i, m, l) /\ \A j \in 1..L : i < j => ~IsRow(j, m, l)
      BY <2>2, <2>7
    <3>2. CASE <<m, l>> = <<n, k>>
      BY <3>1, <3>2, <1>3, <2>2
    <3>3. CASE <<m, l>> # <<n, k>>
      <4>1. ~IsRow(i, n, k)
        BY <3>1, <3>3 DEF IsRow, RowIn
      <4> QED BY <3>1, <3>3, <4>1, <1>1, <1>3, <2>2 DEF ParamsInv, LatestIsLast
    <3> QED BY <3>2, <3>3
  <2> QED BY <2>4, <2>6, <2>7 DEF ParamsInv, LatestIsLast, IsRow
<1>5. CASE k \notin Params!FindOldParamkeys(n)
  <2> DEFINE new == [name |-> n, key |-> k, value |-> v]
  <2>1. customParamMap' = Append(customParamMap, new) /\ L < MaxRows
    BY <1>5 DEF Params!InsertCustomEventParams
  <2>2. new \in Params!Rows /\ new.name = n /\ new.key = k /\ new.value = v
    BY DEF Params!Rows
  <2> HIDE DEF new
  <2>3. /\ customParamMap' \in Seq(Params!Rows) /\ Len(customParamMap') = L + 1
        /\ DOMAIN customParamMap' = 1..(L + 1)
        /\ \A i \in 1..L : customParamMap'[i] = customParamMap[i]
        /\ customParamMap'[L + 1] = new
    BY <1>1, <2>1, <2>2, AppendProperties, LenProperties
  <2>4. /\ \A m, l : RowIn(customParamMap', L + 1, m, l) <=> m = n /\ l = k
        /\ \A i \in 1..L : \A m, l : RowIn(customParamMap', i, m, l) <=> IsRow(i, m, l)
    BY <2>2, <2>3 DEF IsRow, RowIn
  <2>5. ParamsTyped'
    <3>1. ASSUME NEW m \in EventNames, NEW l \in Keys
          PROVE  lastSet'[<<m, l>>] # {} <=> \E i \in 1..(L + 1) : RowIn(customParamMap', i, m, l)
      <4>1. CASE <<m, l>> = <<n, k>>
        <5>1. m = n /\ l = k /\ lastSet'[<<m, l>>] = {v}
          BY <4>1, <1>3
        <5>2. L + 1 \in 1..(L + 1) /\ RowIn(customParamMap', L + 1, m, l)
          BY <5>1, <1>1, <2>4
        <5> QED BY <5>1, <5>2
      <4>2. CASE <<m, l>> # <<n, k>>
        <5>1. (\E i \in 1..(L + 1) : RowIn(customParamMap', i, m, l)) <=> \E i \in 1..L : IsRow(i, m, l)
          BY <4>2, <1>1, <2>4
        <5> QED BY <4>2, <5>1, <1>1, <1>3 DEF ParamsInv, ParamsTyped
      <4> QED BY <4>1, <4>2
    <3>2. L + 1 <= MaxRows
      BY <1>1, <2>1
    <3>3. Len(customParamMap') <= MaxRows
      BY <2>3, <3>2
    <3> QED BY <3>1, <3>3, <1>3, <2>3 DEF ParamsTyped, IsRow
  <2>6. ASSUME NEW m \in EventNames, NEW l \in Keys, NEW i \in 1..(L + 1),
               RowIn(customParamMap', i, m, l),
               \A j \in 1..(L + 1) : i < j => ~RowIn(customParamMap', j, m, l)
        PROVE  lastSet'[<<m, l>>] = {customParamMap'[i].value}
    <3>1. CASE i = L + 1
      BY <3>1, <2>2, <2>3, <2>4, <2>6, <1>3
    <3>2. CASE i \in 1..L
      <4>1. <<m, l>> # <<n, k>>
        BY <3>2, <2>4, <2>6, <1>1
      <4>2. IsRow(i, m, l) /\ \A j \in 1..L : i < j => ~IsRow(j, m, l)
        BY <3>2, <2>4, <2>6, <1>1
      <4>3. lastSet[<<m, l>>] = {customParamMap[i].value}
        BY <3>2, <4>2, <1>1 DEF ParamsInv, LatestIsLast
      <4>4. lastSet'[<<m, l>>] = lastSet[<<m, l>>]
        BY <4>1, <1>3
      <4>5. customParamMap'[i] = customParamMap[i]
        BY <3>2, <2>3
      <4> QED BY <4>3, <4>4, <4>5
    <3> QED BY <1>1, <3>1, <3>2
  <2>7. LatestIsLast'
    BY <2>3, <2>6 DEF LatestIsLast, IsRow
  <2> QED BY <2>5, <2>7 DEF ParamsInv
<1> QED BY <1>4, <1>5

LEMMA ParamsInvariance ==
    ASSUME MaxRows \in Nat
    PROVE  Params!Spec => []ParamsInv
<1>1. Params!Init => ParamsInv
  <2> SUFFICES ASSUME Params!Init PROVE ParamsInv
    OBVIOUS
  <2>1. customParamMap \in Seq(Params!Rows) /\ Len(customParamMap) = 0 /\ DOMAIN customParamMap = {}
    BY DEF Params!Init
  <2>2. /\ lastSet \in [EventNames \X Keys -> SUBSET Values]
        /\ \A n \in EventNames, k \in Keys : lastSet[<<n, k>>] = {}
    BY DEF Params!Init
  <2> QED BY <2>1, <2>2 DEF ParamsInv, ParamsTyped, LatestIsLast
<1>2. ParamsInv /\ [Params!Next]_(Params!vars) => ParamsInv'
  <2> SUFFICES ASSUME ParamsInv, [Params!Next]_(Params!vars) PROVE ParamsInv'
    OBVIOUS
  <2>1. CASE Params!DeleteCustomEventParams
    <3>1. customParamMap' \in Seq(Params!Rows) /\ Len(customParamMap') = 0 /\ DOMAIN customParamMap' = {}
      BY <2>1 DEF Params!DeleteCustomEventParams
    <3>2. /\ lastSet' \in [EventNames \X Keys -> SUBSET Values]
          /\ \A n \in EventNames, k \in Keys : lastSet'[<<n, k>>] = {}
      BY <2>1 DEF Params!DeleteCustomEventParams
    <3> QED BY <3>1, <3>2 DEF ParamsInv, ParamsTyped, LatestIsLast
  <2>2. CASE UNCHANGED Params!vars
    BY <2>2 DEF Params!vars, ParamsInv, ParamsTyped, LatestIsLast, IsRow, RowIn
  <2> QED BY <2>1, <2>2, InsertParamStep DEF Params!Next
<1> QED BY <1>1, <1>2, PTL DEF Params!Spec

LEMMA ParamsTypes ==
    ASSUME MaxRows \in Nat
    PROVE  Params!Spec => []Params!TypeOK
<1>1. ParamsInv => Params!TypeOK
  BY DEF ParamsInv, ParamsTyped, Params!TypeOK, IsRow, RowIn
<1> QED BY <1>1, ParamsInvariance, PTL

LEMMA ParamsAreLatest ==
    ASSUME MaxRows \in Nat
    PROVE  Params!Spec => []Params!LatestValue
<1>1. ASSUME ParamsInv PROVE Params!LatestValue
  <2> SUFFICES ASSUME NEW n \in EventNames, NEW k \in Keys
               PROVE  /\ Params!FindParams(n, k) \subseteq lastSet[<<n, k>>] \cup lastSet[<<Params!Every, k>>]
                      /\ lastSet[<<n, k>>] # {} => Params!FindParams(n, k) # {}
    BY DEF Params!LatestValue
  <2>1. customParamMap \in Seq(Params!Rows) /\ DOMAIN customParamMap = 1..Len(customParamMap)
        /\ Len(customParamMap) \in Nat
    BY <1>1, RowFacts DEF ParamsInv, ParamsTyped
  <2>2. lastSet[<<n, k>>] # {} => Params!Found(n, k) # {}
    BY <1>1 DEF ParamsInv, ParamsTyped, Params!Found, IsRow, RowIn
  <2>3. CASE Params!Found(n, k) # {}
    <3> DEFINE i == Params!Max(Params!Found(n, k))
    <3>1. Params!Found(n, k) \in SUBSET Nat /\ \A j \in Params!Found(n, k) : j <= Len(customParamMap)
      BY <2>1 DEF Params!Found
    <3>2. \E m \in Params!Found(n, k) : \A j \in Params!Found(n, k) : j <= m
      BY <2>1, <2>3, <3>1, GreatestNat
    <3>3. i \in Params!Found(n, k) /\ \A j \in Params!Found(n, k) : i >= j
      BY <3>1, <3>2 DEF Params!Max
    <3> HIDE DEF i
    <3>4. Params!FindParams(n, k) = {customParamMap[i].value}
      BY <2>3 DEF Params!FindParams, i
    <3>5. PICK m \in {n, Params!Every} : IsRow(i, m, k)
      BY <3>3 DEF Params!Found, IsRow, RowIn
    <3>6. m \in EventNames /\ i \in DOMAIN customParamMap
      BY <3>3, <3>5, <2>1, RowFacts DEF Params!Found, IsRow, RowIn
    <3>7. \A j \in DOMAIN customParamMap : i < j => ~IsRow(j, m, k)
      BY <3>1, <3>3, <3>6, <2>1 DEF Params!Found, IsRow, RowIn
    <3>8. lastSet[<<m, k>>] = {customParamMap[i].value}
      BY <1>1, <3>5, <3>6, <3>7 DEF ParamsInv, LatestIsLast
    <3> QED BY <3>4, <3>8
  <2> QED BY <2>2, <2>3 DEF Params!FindParams
<1> QED BY <1>1, ParamsInvariance, PTL

-------------------------------------------------------------------------------
(* AbilityDelegator, for any number of abilities, monitors and calls. *)

\* What is assumed of the constants: no object is both an ability and a stage.
DelegatorAssumption ==
    /\ MaxCalls \in Nat
    /\ Abilities \cap Stages = {}

\* The call c is under way for the monitor object m.
UnderWay(c, m) == c \in DOMAIN task /\ Delegator!Pending(c) /\ m \in jsOf[task[c].native]

\* A native monitor is registered for m.
RegisteredFor(n, m) == n \in registered /\ m \in jsOf[n]

DelegatorTyped ==
    /\ life \in [Delegator!Subjects -> Delegator!LifecycleStates]
    /\ properties \in [Abilities -> Delegator!LifecycleStates]
    /\ registered \in SUBSET Delegator!Natives
    /\ record \in [Monitors -> SUBSET Delegator!Natives]
    /\ jsOf \in [Delegator!Natives -> SUBSET Monitors]
    /\ matched \in [Delegator!Natives -> SUBSET Delegator!Subjects]
    /\ abilityRecord \in SUBSET Abilities
    /\ task \in Seq(Delegator!Tasks) /\ Len(task) <= MaxCalls

\* A native monitor belongs to one object and matches one subject, and an object has one
\* native monitor on record.
OneEach ==
    /\ \A n \in Delegator!Natives : \A x, y \in jsOf[n] : x = y
    /\ \A n \in Delegator!Natives : \A x, y \in matched[n] : x = y
    /\ \A m \in Monitors : \A x, y \in record[m] : x = y
    /\ \A m \in Monitors : \A n \in record[m] : m \in jsOf[n]

\* Nothing is known yet of the native monitor that a later call will make, and calls that
\* only ask the platform have none; only a wait waits, and a call that is refused is over.
NewIsNew ==
    /\ \A n \in Delegator!Natives : n > Len(task) => jsOf[n] = {} /\ n \notin registered
    /\ \A c \in DOMAIN task : task[c].native <= Len(task)
    /\ \A c \in DOMAIN task : task[c].kind = "top" => jsOf[task[c].native] = {}
    /\ \A c \in DOMAIN task : task[c].place = "waiting" => task[c].kind = "wait"
    /\ \A c \in DOMAIN task : task[c].kind = "refused" => task[c].place = "rejected"

\* A test has one call under way for an object.
OneCall == \A m \in Monitors : \A c, d \in DOMAIN task : UnderWay(c, m) /\ UnderWay(d, m) => c = d

\* While a call is under way the record is what it will be, and at most the native
\* monitor of the call is registered; it is once the wait has begun.
CallOnRecord ==
    \A m \in Monitors : \A c \in DOMAIN task : UnderWay(c, m) =>
        LET n == task[c].native IN
        /\ record[m] = IF task[c].kind = "remove" THEN {} ELSE {n}
        /\ \A k \in registered : m \in jsOf[k] => k = n
        /\ task[c].kind = "wait" /\ task[c].place # "queued" => n \in registered

MonitorsOK == OneEach /\ NewIsNew /\ OneCall /\ CallOnRecord /\ Delegator!RegisteredAsRecorded

DelegatorInv == DelegatorTyped /\ MonitorsOK /\ Delegator!PropertiesAgree

-------------------------------------------------------------------------------
(* Tasks. *)

\* The task c is somewhere else, and what it has found may have changed.
Moved(c, place) ==
    /\ task' \in Seq(Delegator!Tasks) /\ Len(task') = Len(task) /\ DOMAIN task' = DOMAIN task
    /\ task'[c].kind = task[c].kind /\ task'[c].native = task[c].native
    /\ task'[c].place = place
    /\ \A d \in DOMAIN task : d # c => task'[d] = task[d]

\* A task of the list is one, and its number is one of a native monitor.
LEMMA TaskTypes ==
    ASSUME MaxCalls \in Nat, task \in Seq(Delegator!Tasks), Len(task) <= MaxCalls
    PROVE  /\ Len(task) \in Nat /\ DOMAIN task = 1..Len(task) /\ Delegator!Natives = 1..MaxCalls
           /\ \A c \in DOMAIN task :
                 /\ task[c] \in Delegator!Tasks
                 /\ task[c].native \in Delegator!Natives /\ task[c].place \in Delegator!TaskPlaces
                 /\ task[c].kind \in {"add", "remove", "wait", "top", "refused"}
                 /\ task[c].box \in SUBSET Delegator!Subjects
<1>1. Len(task) \in Nat /\ DOMAIN task = 1..Len(task)
  BY LenProperties
<1>2. \A c \in DOMAIN task : task[c] \in Delegator!Tasks
  BY <1>1, ElementOfSeq
<1> QED BY <1>1, <1>2 DEF Delegator!Tasks, Delegator!Natives, Delegator!Calls

\* What a task of the list is replaced by.
LEMMA Replaced ==
    ASSUME MaxCalls \in Nat, task \in Seq(Delegator!Tasks), Len(task) <= MaxCalls,
           NEW c \in DOMAIN task, NEW place \in Delegator!TaskPlaces,
           NEW box \in SUBSET Delegator!Subjects,
           \/ task' = [task EXCEPT ![c].place = place]
           \/ task' = [task EXCEPT ![c].place = place, ![c].box = box]
    PROVE  Moved(c, place)
<1>1. Len(task) \in Nat /\ DOMAIN task = 1..Len(task) /\ \A d \in DOMAIN task : task[d] \in Delegator!Tasks
  BY TaskTypes
<1> DEFINE new == IF task' = [task EXCEPT ![c].place = place]
                  THEN [task[c] EXCEPT !.place = place]
                  ELSE [task[c] EXCEPT !.place = place, !.box = box]
<1>2. new \in Delegator!Tasks /\ new.kind = task[c].kind /\ new.native = task[c].native /\ new.place = place
  BY <1>1 DEF Delegator!Tasks
<1>3. task' = [task EXCEPT ![c] = new]
  BY <1>1
<1> HIDE DEF new
<1>4. task' = [d \in 1..Len(task) |-> IF d = c THEN new ELSE task[d]]
  BY <1>1, <1>3
<1>5. task' \in [1..Len(task) -> Delegator!Tasks]
  BY <1>1, <1>2, <1>4
<1>6. task' \in Seq(Delegator!Tasks) /\ Len(task') = Len(task)
  BY <1>1, <1>4, <1>5, SeqDef, LenProperties
<1> QED BY <1>1, <1>2, <1>4, <1>6 DEF Moved

\* A call of JavaScript adds a task.
LEMMA Scheduled ==
    ASSUME MaxCalls \in Nat, task \in Seq(Delegator!Tasks), Len(task) < MaxCalls,
           NEW kind \in {"add", "remove", "wait", "top", "refused"}, NEW n \in Delegator!Natives,
           NEW place \in {"queued", "rejected"}, Delegator!Schedule(kind, n, place)
    PROVE  /\ task' \in Seq(Delegator!Tasks) /\ Len(task') = Len(task) + 1
           /\ Len(task') <= MaxCalls /\ DOMAIN task' = 1..(Len(task) + 1)
           /\ \A c \in DOMAIN task : task'[c] = task[c]
           /\ task'[Len(task) + 1].kind = kind /\ task'[Len(task) + 1].native = n
           /\ task'[Len(task) + 1].place = place
<1>1. Len(task) \in Nat /\ DOMAIN task = 1..Len(task)
  BY LenProperties
<1>2. [kind |-> kind, native |-> n, place |-> place, box |-> {}] \in Delegator!Tasks
  BY DEF Delegator!Tasks, Delegator!TaskPlaces
<1> QED BY <1>1, <1>2, AppendProperties, LenProperties DEF Delegator!Schedule

-------------------------------------------------------------------------------
(* The monitors. *)

\* Nothing that concerns the monitors has changed.
LEMMA MonitorsRest ==
    ASSUME MonitorsOK, UNCHANGED <<registered, record, jsOf, task>>,
           \A n \in Delegator!Natives : \A x, y \in matched'[n] : x = y
    PROVE  MonitorsOK'
<1> USE DEF MonitorsOK
<1>1. OneEach'
  BY DEF OneEach
<1>2. NewIsNew'
  BY DEF NewIsNew
<1>3. OneCall' /\ CallOnRecord' /\ Delegator!RegisteredAsRecorded'
  BY DEF OneCall, CallOnRecord, Delegator!RegisteredAsRecorded, Delegator!Asked, UnderWay,
         Delegator!Pending
<1> QED BY <1>1, <1>2, <1>3

\* A call for m makes its task: the record is what the call is to achieve, or it is refused.
LEMMA CallStep ==
    ASSUME MaxCalls \in Nat, Awaited, DelegatorTyped, MonitorsOK, NEW m \in Monitors,
           NEW kind \in {"add", "remove", "wait", "refused"}, NEW place \in {"queued", "rejected"},
           place = "rejected" <=> kind = "refused",
           Delegator!CallWith(m, kind, place, kind # "remove")
    PROVE  MonitorsOK' /\ DelegatorTyped'
<1> DEFINE L == Len(task)
<1>1. PICK n \in Delegator!Natives :
          /\ Delegator!MonitorOf(m, n)
          /\ Delegator!Schedule(kind, n, place)
          /\ record' = [record EXCEPT ![m] = IF kind # "remove" THEN {n} ELSE {}]
  BY DEF Delegator!CallWith
<1>2. L \in Nat /\ DOMAIN task = 1..L /\ Delegator!Natives = 1..MaxCalls /\ L < MaxCalls
  BY TaskTypes DEF DelegatorTyped, Delegator!CallWith, Delegator!MayCall
<1>3. /\ task' \in Seq(Delegator!Tasks) /\ Len(task') = L + 1
      /\ Len(task') <= MaxCalls /\ DOMAIN task' = 1..(L + 1)
      /\ \A c \in 1..L : task'[c] = task[c]
      /\ task'[L + 1].kind = kind /\ task'[L + 1].native = n
      /\ task'[L + 1].place = place
  BY <1>1, <1>2, Scheduled DEF DelegatorTyped
<1>4. /\ registered' = registered /\ matched' = matched /\ UNCHANGED Delegator!appVars
      /\ abilityRecord' = abilityRecord
  BY DEF Delegator!CallWith
<1> HIDE DEF L
<1>5. \A c \in 1..L : task[c].native <= L
  BY <1>2 DEF MonitorsOK, NewIsNew
<1>6. \A c \in 1..L : ~UnderWay(c, m)
  BY <1>2 DEF Delegator!CallWith, Delegator!MayCall, UnderWay
<1>7. \A k \in Delegator!Natives : RegisteredFor(k, m) <=> k \in record[m] /\ Delegator!Asked(k)
  BY <1>2, <1>6 DEF MonitorsOK, Delegator!RegisteredAsRecorded, UnderWay, RegisteredFor,
                    DelegatorTyped
<1>8. \/ n <= L /\ n \in record[m] /\ jsOf' = jsOf
      \/ n = L + 1 /\ record[m] = {} /\ jsOf' = [jsOf EXCEPT ![n] = {m}]
  <2>1. CASE n \in record[m] /\ UNCHANGED jsOf
    BY <2>1, <1>2 DEF MonitorsOK, OneEach, NewIsNew, L
  <2>2. CASE record[m] = {} /\ n = Delegator!NewNative /\ jsOf' = [jsOf EXCEPT ![n] = {m}]
    BY <2>2 DEF Delegator!NewNative, L
  <2> QED BY <1>1, <2>1, <2>2 DEF Delegator!MonitorOf
<1>9. /\ n \in Int /\ m \in jsOf'[n] /\ \A x \in jsOf'[n] : x = m
      /\ \A k \in Delegator!Natives : k <= L => jsOf'[k] = jsOf[k]
      /\ \A k \in Delegator!Natives : k > L + 1 => jsOf'[k] = {}
      /\ \A k \in Delegator!Natives : jsOf'[k] # jsOf[k] => k = L + 1 /\ jsOf'[k] = {m} /\ n = k
      /\ \A k \in Delegator!Natives : k <= L => k \notin record[m] \/ k = n
  <2>1. jsOf \in [Delegator!Natives -> SUBSET Monitors] /\ \A k \in Delegator!Natives : k > L => jsOf[k] = {}
    BY <1>2 DEF DelegatorTyped, MonitorsOK, NewIsNew, L
  <2>2. CASE n <= L /\ n \in record[m] /\ jsOf' = jsOf
    BY <1>2, <2>1, <2>2 DEF MonitorsOK, OneEach
  <2>3. CASE n = L + 1 /\ record[m] = {} /\ jsOf' = [jsOf EXCEPT ![n] = {m}]
    BY <1>2, <2>1, <2>3 DEF DelegatorTyped
  <2> QED BY <1>8, <2>2, <2>3
<1>10. /\ jsOf' \in [Delegator!Natives -> SUBSET Monitors] /\ record' \in [Monitors -> SUBSET Delegator!Natives]
       /\ record'[m] = IF kind # "remove" THEN {n} ELSE {}
       /\ \A k \in Monitors : k # m => record'[k] = record[k]
  BY <1>1, <1>8 DEF DelegatorTyped
<1>11. \A k \in Delegator!Natives : k \in registered => k <= L /\ jsOf'[k] = jsOf[k]
  BY <1>2, <1>9 DEF DelegatorTyped, MonitorsOK, NewIsNew, L
<1>12. \A c \in 1..(L + 1), k \in Monitors :
           UnderWay(c, k)' <=> \/ c = L + 1 /\ k = m /\ place = "queued"
                               \/ c # L + 1 /\ UnderWay(c, k)
  <2> SUFFICES ASSUME NEW c \in 1..(L + 1), NEW k \in Monitors
               PROVE  UnderWay(c, k)' <=> \/ c = L + 1 /\ k = m /\ place = "queued"
                                          \/ c # L + 1 /\ UnderWay(c, k)
    OBVIOUS
  <2>1. CASE c = L + 1
    BY <1>2, <1>3, <1>9, <2>1 DEF UnderWay, Delegator!Pending
  <2>2. CASE c \in 1..L
    <3>1. task'[c] = task[c] /\ task[c].native \in Delegator!Natives /\ task[c].native <= L
      BY <1>2, <1>3, <1>5, <2>2, TaskTypes DEF DelegatorTyped
    <3> QED BY <1>2, <1>3, <1>9, <2>2, <3>1 DEF UnderWay, Delegator!Pending
  <2> QED BY <1>2, <2>1, <2>2
<1>13. DelegatorTyped'
  BY <1>3, <1>4, <1>10 DEF DelegatorTyped, Delegator!appVars
<1>14. OneEach'
  <2>1. \A k \in Delegator!Natives : \A x, y \in jsOf'[k] : x = y
    BY <1>9 DEF MonitorsOK, OneEach
  <2>2. ASSUME NEW k \in Monitors, NEW x \in record'[k], NEW y \in record'[k]
        PROVE  x = y
    BY <2>2, <1>10 DEF MonitorsOK, OneEach
  <2>3. ASSUME NEW k \in Monitors, NEW x \in record'[k]
        PROVE  k \in jsOf'[x]
    <3>1. CASE k = m
      BY <2>3, <3>1, <1>9, <1>10
    <3>2. CASE k # m
      <4>1. x \in Delegator!Natives /\ k \in jsOf[x]
        BY <2>3, <3>2, <1>10 DEF MonitorsOK, OneEach, DelegatorTyped
      <4>2. x <= L
        BY <4>1, <1>2 DEF MonitorsOK, NewIsNew, L
      <4> QED BY <4>1, <4>2, <1>9
    <3> QED BY <3>1, <3>2
  <2> QED BY <2>1, <2>2, <2>3, <1>4 DEF MonitorsOK, OneEach
<1>15. NewIsNew'
  <2>1. \A k \in Delegator!Natives : k > L + 1 => jsOf'[k] = {} /\ k \notin registered'
    BY <1>2, <1>4, <1>9, <1>11
  <2>2. ASSUME NEW c \in 1..(L + 1)
        PROVE  /\ task'[c].native <= L + 1
               /\ task'[c].kind = "top" => jsOf'[task'[c].native] = {}
               /\ task'[c].place = "waiting" => task'[c].kind = "wait"
               /\ task'[c].kind = "refused" => task'[c].place = "rejected"
    <3>1. CASE c = L + 1
      BY <3>1, <1>2, <1>3, <1>8
    <3>2. CASE c \in 1..L
      <4>1. task'[c] = task[c] /\ task[c].native \in Delegator!Natives /\ task[c].native <= L
        BY <1>2, <1>3, <1>5, <3>2, TaskTypes DEF DelegatorTyped
      <4>2. jsOf'[task[c].native] = jsOf[task[c].native]
        BY <4>1, <1>9
      <4>3. c \in DOMAIN task
        BY <3>2, <1>2
      <4> QED BY <4>1, <4>2, <4>3, <1>2 DEF MonitorsOK, NewIsNew
    <3> QED BY <2>2, <1>2, <3>1, <3>2
  <2> QED BY <2>1, <2>2, <1>3 DEF NewIsNew
<1>16. OneCall'
  <2> SUFFICES ASSUME NEW k \in Monitors, NEW c \in 1..(L + 1), NEW d \in 1..(L + 1),
                      UnderWay(c, k)', UnderWay(d, k)'
               PROVE  c = d
    BY <1>3 DEF OneCall
  <2> QED BY <1>2, <1>6, <1>12 DEF MonitorsOK, OneCall
<1>17. CallOnRecord'
  <2> SUFFICES ASSUME NEW k \in Monitors, NEW c \in 1..(L + 1), UnderWay(c, k)'
               PROVE  /\ record'[k] = IF task'[c].kind = "remove" THEN {} ELSE {task'[c].native}
                      /\ \A x \in registered' : k \in jsOf'[x] => x = task'[c].native
                      /\ task'[c].kind = "wait" /\ task'[c].place # "queued"
                            => task'[c].native \in registered'
    BY <1>3 DEF CallOnRecord
  <2>1. CASE c = L + 1 /\ k = m /\ place = "queued"
    <3>1. ASSUME NEW x \in registered', m \in jsOf'[x] PROVE x = n
      <4>1. x \in Delegator!Natives /\ x \in registered /\ x <= L /\ jsOf'[x] = jsOf[x]
        BY <3>1, <1>4, <1>11 DEF DelegatorTyped
      <4>2. x \in record[m]
        BY <4>1, <3>1, <1>7 DEF RegisteredFor
      <4> QED BY <4>1, <4>2, <1>9
    <3> QED BY <2>1, <3>1, <1>3, <1>10
  <2>2. CASE c \in 1..L /\ UnderWay(c, k)
    <3>1. k # m /\ task'[c] = task[c] /\ record'[k] = record[k] /\ c \in DOMAIN task
      BY <2>2, <1>2, <1>3, <1>6, <1>10
    <3>2. \A x \in registered' : x \in Delegator!Natives /\ x \in registered /\ jsOf'[x] = jsOf[x]
      BY <1>4, <1>11 DEF DelegatorTyped
    <3> QED BY <2>2, <3>1, <3>2, <1>4 DEF MonitorsOK, CallOnRecord
  <2> QED BY <2>1, <2>2, <1>2, <1>12
<1>18. \A x \in Delegator!Natives :
           Delegator!Asked(x)' <=> Delegator!Asked(x) \/ (x = n /\ kind \in {"add", "wait"})
  <2> SUFFICES ASSUME NEW x \in Delegator!Natives
               PROVE  Delegator!Asked(x)' <=> Delegator!Asked(x) \/ (x = n /\ kind \in {"add", "wait"})
    OBVIOUS
  <2>1. Delegator!Asked(x)' <=> \E c \in 1..(L + 1) : task'[c].native = x /\ task'[c].kind \in {"add", "wait"}
    BY <1>3 DEF Delegator!Asked
  <2>2. Delegator!Asked(x) <=> \E c \in 1..L : task'[c].native = x /\ task'[c].kind \in {"add", "wait"}
    BY <1>2, <1>3 DEF Delegator!Asked
  <2>3. \A c \in 1..(L + 1) : c \in 1..L \/ c = L + 1
    BY <1>2
  <2>4. 1..L \subseteq 1..(L + 1) /\ L + 1 \in 1..(L + 1)
    BY <1>2
  <2> QED BY <2>1, <2>2, <2>3, <2>4, <1>3
<1>19. Delegator!RegisteredAsRecorded'
  <2> SUFFICES ASSUME NEW k \in Monitors, \A c \in 1..(L + 1) : ~UnderWay(c, k)'
               PROVE  \A x \in Delegator!Natives :
                          x \in registered /\ k \in jsOf'[x] <=> x \in record'[k] /\ Delegator!Asked(x)'
    <3>1. ASSUME NEW k \in Monitors,
                 \A x \in Delegator!Natives :
                     x \in registered /\ k \in jsOf'[x] <=> x \in record'[k] /\ Delegator!Asked(x)'
          PROVE  {x \in registered' : k \in jsOf'[x]} = {x \in record'[k] : Delegator!Asked(x)'}
      BY <3>1, <1>4, <1>10 DEF DelegatorTyped
    <3> QED BY <3>1, <1>3 DEF Delegator!RegisteredAsRecorded, UnderWay
  <2> TAKE x \in Delegator!Natives
  <2>1. x \in registered => jsOf'[x] = jsOf[x]
    BY <1>11
  <2>2. CASE k # m
    <3>1. \A c \in 1..L : ~UnderWay(c, k)
      BY <1>2, <1>12
    <3>2. x \in registered /\ k \in jsOf[x] <=> x \in record[k] /\ Delegator!Asked(x)
      BY <3>1, <1>2 DEF MonitorsOK, Delegator!RegisteredAsRecorded, UnderWay, DelegatorTyped
    <3>3. x \in record'[k] => x # n
      BY <2>2, <1>9, <1>14 DEF OneEach
    <3> QED BY <2>1, <2>2, <3>2, <3>3, <1>10, <1>18
  <2>3. CASE k = m
    <3>1. kind = "refused"
      BY <2>3, <1>2, <1>12
    <3>2. x \in registered /\ m \in jsOf[x] <=> x \in record[m] /\ Delegator!Asked(x)
      BY <1>7 DEF RegisteredFor
    <3>3. record'[m] = {n} /\ (Delegator!Asked(x)' <=> Delegator!Asked(x))
      BY <3>1, <1>10, <1>18
    <3>4. CASE n \in record[m]
      <4>1. record[m] = {n}
        BY <3>4 DEF MonitorsOK, OneEach
      <4> QED BY <2>1, <2>3, <3>2, <3>3, <4>1
    <3>5. CASE n = L + 1 /\ record[m] = {}
      <4>1. ~Delegator!Asked(n)
        BY <3>5, <1>2, <1>5 DEF Delegator!Asked
      <4>2. x \in record'[m] => x = n
        BY <3>3
      <4> QED BY <2>1, <2>3, <3>2, <3>3, <3>5, <4>1, <4>2
    <3> QED BY <1>8, <3>4, <3>5
  <2> QED BY <2>2, <2>3
<1> QED BY <1>13, <1>14, <1>15, <1>16, <1>17, <1>19 DEF MonitorsOK

\* A call that only asks the platform has no monitor.
LEMMA TopStep ==
    ASSUME MaxCalls \in Nat, DelegatorTyped, MonitorsOK, Delegator!OnGetCurrentTopAbility
    PROVE  MonitorsOK' /\ DelegatorTyped'
<1> DEFINE L == Len(task)
<1>1. /\ Delegator!Schedule("top", L + 1, "queued") /\ L < MaxCalls
      /\ UNCHANGED <<Delegator!appVars, Delegator!monitorVars, abilityRecord>>
  BY DEF Delegator!OnGetCurrentTopAbility, Delegator!NewNative
<1>2. L \in Nat /\ DOMAIN task = 1..L /\ Delegator!Natives = 1..MaxCalls /\ L + 1 \in Delegator!Natives
  BY <1>1, TaskTypes DEF DelegatorTyped
<1>3. /\ task' \in Seq(Delegator!Tasks) /\ Len(task') = L + 1
      /\ Len(task') <= MaxCalls /\ DOMAIN task' = 1..(L + 1)
      /\ \A c \in 1..L : task'[c] = task[c]
      /\ task'[L + 1].kind = "top" /\ task'[L + 1].native = L + 1
      /\ task'[L + 1].place = "queued"
  BY <1>1, <1>2, Scheduled DEF DelegatorTyped
<1>4. jsOf[L + 1] = {} /\ \A k \in Delegator!Natives : k > L => jsOf[k] = {} /\ k \notin registered
  BY <1>2 DEF MonitorsOK, NewIsNew
<1> HIDE DEF L
<1>5. UNCHANGED <<registered, record, jsOf, matched>>
  BY <1>1 DEF Delegator!monitorVars
<1>6. \A c \in 1..(L + 1), k \in Monitors : UnderWay(c, k)' <=> c # L + 1 /\ UnderWay(c, k)
  <2> SUFFICES ASSUME NEW c \in 1..(L + 1), NEW k \in Monitors
               PROVE  UnderWay(c, k)' <=> c # L + 1 /\ UnderWay(c, k)
    OBVIOUS
  <2>1. CASE c = L + 1
    BY <1>3, <1>4, <1>5, <2>1 DEF UnderWay
  <2>2. CASE c \in 1..L
    BY <1>2, <1>3, <1>5, <2>2 DEF UnderWay, Delegator!Pending
  <2> QED BY <1>2, <2>1, <2>2
<1>7. DelegatorTyped'
  BY <1>1, <1>3, <1>5 DEF DelegatorTyped, Delegator!appVars
<1>8. OneEach'
  BY <1>5 DEF MonitorsOK, OneEach
<1>9. NewIsNew'
  <2>1. \A k \in Delegator!Natives : k > L + 1 => jsOf'[k] = {} /\ k \notin registered'
    BY <1>2, <1>4, <1>5
  <2>2. ASSUME NEW c \in 1..(L + 1)
        PROVE  /\ task'[c].native <= L + 1
               /\ task'[c].kind = "top" => jsOf'[task'[c].native] = {}
               /\ task'[c].place = "waiting" => task'[c].kind = "wait"
               /\ task'[c].kind = "refused" => task'[c].place = "rejected"
    <3>1. CASE c = L + 1
      BY <3>1, <1>2, <1>3, <1>4, <1>5
    <3>2. CASE c \in 1..L
      <4>1. task'[c] = task[c] /\ task[c].native \in Delegator!Natives /\ task[c].native <= L
        BY <1>2, <1>3, <3>2, TaskTypes DEF DelegatorTyped, MonitorsOK, NewIsNew, L
      <4>2. c \in DOMAIN task
        BY <3>2, <1>2
      <4> QED BY <4>1, <4>2, <1>2, <1>5 DEF MonitorsOK, NewIsNew
    <3> QED BY <2>2, <1>2, <3>1, <3>2
  <2> QED BY <2>1, <2>2, <1>3 DEF NewIsNew
<1>10. OneCall'
  BY <1>2, <1>3, <1>6 DEF MonitorsOK, OneCall
<1>11. CallOnRecord'
  <2> SUFFICES ASSUME NEW k \in Monitors, NEW c \in 1..(L + 1), UnderWay(c, k)'
               PROVE  /\ record'[k] = IF task'[c].kind = "remove" THEN {} ELSE {task'[c].native}
                      /\ \A x \in registered' : k \in jsOf'[x] => x = task'[c].native
                      /\ task'[c].kind = "wait" /\ task'[c].place # "queued"
                            => task'[c].native \in registered'
    BY <1>3 DEF CallOnRecord
  <2>1. c \in DOMAIN task /\ UnderWay(c, k) /\ task'[c] = task[c]
    BY <1>2, <1>3, <1>6
  <2> QED BY <2>1, <1>5 DEF MonitorsOK, CallOnRecord
<1>12. \A x : Delegator!Asked(x)' <=> Delegator!Asked(x)
  <2>1. \A x : Delegator!Asked(x)' <=> \E c \in 1..L : task'[c].native = x /\ task'[c].kind \in {"add", "wait"}
    BY <1>2, <1>3 DEF Delegator!Asked
  <2> QED BY <2>1, <1>2, <1>3 DEF Delegator!Asked
<1>13. Delegator!RegisteredAsRecorded'
  <2> SUFFICES ASSUME NEW k \in Monitors, \A c \in 1..(L + 1) : ~UnderWay(c, k)'
               PROVE  {x \in registered' : k \in jsOf'[x]} = {x \in record'[k] : Delegator!Asked(x)'}
    BY <1>3 DEF Delegator!RegisteredAsRecorded, UnderWay
  <2>1. \A c \in DOMAIN task : ~UnderWay(c, k)
    BY <1>2, <1>6
  <2>2. {x \in registered : k \in jsOf[x]} = {x \in record[k] : Delegator!Asked(x)}
    BY <2>1 DEF MonitorsOK, Delegator!RegisteredAsRecorded, UnderWay
  <2> QED BY <2>2, <1>5, <1>12
<1> QED BY <1>7, <1>8, <1>9, <1>10, <1>11, <1>13 DEF MonitorsOK

\* What a task does to the registrations when it moves on, and when it ends.
Registers(c, place) ==
    LET n == task[c].native IN
    /\ place \in {"waiting", "executed"} =>
          /\ registered' = IF place = "waiting" THEN registered \cup {n} ELSE registered
          /\ place = "waiting" => task[c].kind = "wait"
          /\ place = "executed" /\ task[c].kind = "wait" => task[c].place = "waiting"
    /\ place \in {"resolved", "rejected"} =>
          /\ task[c].place = "executed"
          /\ registered' = CASE task[c].kind = "add" -> registered \cup {n}
                             [] task[c].kind = "remove" -> registered \ {n}
                             [] OTHER -> registered

\* A task moves on or ends: when it ends, what is registered is what is on record.
LEMMA MoveStep ==
    ASSUME MaxCalls \in Nat, DelegatorTyped, MonitorsOK, NEW c \in DOMAIN task,
           Delegator!Pending(c),
           NEW place \in {"waiting", "executed", "resolved", "rejected"},
           Moved(c, place), Registers(c, place), UNCHANGED <<record, jsOf, matched>>
    PROVE  MonitorsOK' /\ registered' \in SUBSET Delegator!Natives
<1> DEFINE n == task[c].native
<1>1. /\ n \in Delegator!Natives /\ n <= Len(task) /\ Len(task) \in Nat /\ Delegator!Natives \subseteq Nat
      /\ \A d \in DOMAIN task : task[d].native \in Delegator!Natives
      /\ task[c].kind \in {"add", "remove", "wait", "top", "refused"}
  BY TaskTypes DEF DelegatorTyped, MonitorsOK, NewIsNew
<1>2. /\ registered' \in SUBSET Delegator!Natives
      /\ \A k \in Delegator!Natives : k \in registered' /\ k \notin registered => k = n
      /\ \A k \in Delegator!Natives : k \in registered /\ k \notin registered' => k = n
  BY <1>1 DEF Registers, DelegatorTyped
<1>3. /\ Len(task') = Len(task) /\ DOMAIN task' = DOMAIN task
      /\ \A d \in DOMAIN task : task'[d].kind = task[d].kind /\ task'[d].native = task[d].native
      /\ \A d \in DOMAIN task : d # c => task'[d] = task[d]
      /\ task'[c].place = place
  BY DEF Moved
<1>4. UNCHANGED <<record, jsOf, matched>>
  OBVIOUS
<1>5. \A d \in DOMAIN task, m \in Monitors :
          UnderWay(d, m)' <=> UnderWay(d, m) /\ (d = c => place \in {"waiting", "executed"})
  BY <1>3, <1>4 DEF UnderWay, Delegator!Pending
<1>6. \A m \in Monitors : m \in jsOf[n] <=> UnderWay(c, m)
  BY DEF UnderWay
<1>13. task[c].kind # "refused"
  BY DEF MonitorsOK, NewIsNew, Delegator!Pending
<1>14. \A x : Delegator!Asked(x)' <=> Delegator!Asked(x)
  BY <1>3 DEF Delegator!Asked
<1> HIDE DEF n
<1>7. OneEach'
  BY <1>4 DEF MonitorsOK, OneEach
<1>8. NewIsNew'
  <2>1. \A k \in Delegator!Natives : k > Len(task') => jsOf'[k] = {} /\ k \notin registered'
    BY <1>1, <1>2, <1>3, <1>4 DEF MonitorsOK, NewIsNew
  <2>2. ASSUME NEW d \in DOMAIN task
        PROVE  /\ task'[d].native <= Len(task')
               /\ task'[d].kind = "top" => jsOf'[task'[d].native] = {}
               /\ task'[d].place = "waiting" => task'[d].kind = "wait"
               /\ task'[d].kind = "refused" => task'[d].place = "rejected"
    <3>1. task'[d].place = "waiting" => task'[d].kind = "wait"
      BY <1>3 DEF MonitorsOK, NewIsNew, Registers
    <3>2. task'[d].kind = "refused" => task'[d].place = "rejected"
      BY <1>3, <1>13 DEF MonitorsOK, NewIsNew
    <3> QED BY <3>1, <3>2, <1>3, <1>4 DEF MonitorsOK, NewIsNew
  <2> QED BY <2>1, <2>2, <1>3 DEF NewIsNew
<1>9. OneCall'
  BY <1>3, <1>5 DEF MonitorsOK, OneCall
<1>10. CallOnRecord'
  <2> SUFFICES ASSUME NEW m \in Monitors, NEW d \in DOMAIN task, UnderWay(d, m)'
               PROVE  /\ record'[m] = IF task'[d].kind = "remove" THEN {} ELSE {task'[d].native}
                      /\ \A x \in registered' : m \in jsOf'[x] => x = task'[d].native
                      /\ task'[d].kind = "wait" /\ task'[d].place # "queued"
                            => task'[d].native \in registered'
    BY <1>3 DEF CallOnRecord
  <2>1. UnderWay(d, m)
    BY <1>5
  <2>2. /\ record[m] = IF task[d].kind = "remove" THEN {} ELSE {task[d].native}
        /\ \A x \in registered : m \in jsOf[x] => x = task[d].native
        /\ task[d].kind = "wait" /\ task[d].place # "queued" => task[d].native \in registered
    BY <2>1 DEF MonitorsOK, CallOnRecord
  <2>3. CASE d = c
    <3>1. \A x \in registered' : m \in jsOf'[x] => x = n
      BY <1>2, <1>4, <2>2, <2>3 DEF n
    <3>2. task[c].kind = "wait" => n \in registered'
      BY <1>5, <2>2, <2>3 DEF Registers, n
    <3> QED BY <3>1, <3>2, <2>2, <2>3, <1>3, <1>4 DEF n
  <2>4. CASE d # c
    <3>1. m \notin jsOf[n]
      BY <2>1, <2>4, <1>6 DEF MonitorsOK, OneCall
    <3>2. m \in jsOf[task[d].native]
      BY <2>1 DEF UnderWay
    <3>3. \A x \in Delegator!Natives : m \in jsOf[x] => (x \in registered' <=> x \in registered)
      BY <3>1, <1>2
    <3> QED BY <3>1, <3>2, <3>3, <2>2, <2>4, <1>1, <1>2, <1>3, <1>4
  <2> QED BY <2>3, <2>4
<1>11. Delegator!RegisteredAsRecorded'
  <2> SUFFICES ASSUME NEW m \in Monitors, \A d \in DOMAIN task : ~UnderWay(d, m)'
               PROVE  {x \in registered' : m \in jsOf'[x]} = {x \in record'[m] : Delegator!Asked(x)'}
    BY <1>3 DEF Delegator!RegisteredAsRecorded, UnderWay
  <2>1. CASE UnderWay(c, m)
    <3>1. place \in {"resolved", "rejected"} /\ m \in jsOf[n]
      BY <2>1, <1>5, <1>6
    <3>2. /\ record[m] = IF task[c].kind = "remove" THEN {} ELSE {n}
          /\ \A x \in registered : m \in jsOf[x] => x = n
          /\ task[c].kind = "wait" /\ task[c].place # "queued" => n \in registered
      BY <2>1 DEF MonitorsOK, CallOnRecord, n
    <3>3. task[c].kind # "top" /\ task[c].place = "executed"
      BY <3>1 DEF MonitorsOK, NewIsNew, n, Registers
    <3>4. registered' = IF task[c].kind = "add" THEN registered \cup {n}
                        ELSE IF task[c].kind = "remove" THEN registered \ {n} ELSE registered
      BY <3>1 DEF Registers, n
    <3>5. task[c].kind \in {"add", "wait"} => Delegator!Asked(n)
      BY DEF Delegator!Asked, n
    <3>6. CASE task[c].kind = "remove"
      BY <3>6, <1>4, <3>1, <3>2, <3>4
    <3>7. CASE task[c].kind \in {"add", "wait"}
      <4>1. registered' \subseteq registered \cup {n} /\ n \in registered'
        BY <3>2, <3>3, <3>4, <3>7
      <4>2. record'[m] = {n} /\ \A x : x = n => Delegator!Asked(x)'
        BY <3>2, <3>5, <3>7, <1>4, <1>14
      <4> QED BY <4>1, <4>2, <3>1, <3>2, <1>4
    <3> QED BY <1>1, <1>13, <3>3, <3>6, <3>7
  <2>2. CASE ~UnderWay(c, m)
    <3>1. m \notin jsOf[n] /\ \A d \in DOMAIN task : ~UnderWay(d, m)
      BY <2>2, <1>5, <1>6
    <3>2. {x \in registered : m \in jsOf[x]} = {x \in record[m] : Delegator!Asked(x)}
      BY <3>1 DEF MonitorsOK, Delegator!RegisteredAsRecorded, UnderWay
    <3>3. \A x \in Delegator!Natives : m \in jsOf[x] => (x \in registered' <=> x \in registered)
      BY <3>1, <1>2
    <3>4. registered \in SUBSET Delegator!Natives
      BY DEF DelegatorTyped
    <3> QED BY <3>2, <3>3, <3>4, <1>2, <1>4, <1>14
  <2> QED BY <2>1, <2>2
<1> QED BY <1>2, <1>7, <1>8, <1>9, <1>10, <1>11 DEF MonitorsOK

\* A task keeps its kind and its place, and holds no more than subjects.
LEMMA TaskStep ==
    ASSUME MaxCalls \in Nat, DelegatorTyped, MonitorsOK, NEW c \in DOMAIN task,
           \/ Delegator!Execute(c) \/ Delegator!WaitEnds(c)
           \/ Delegator!CompleteWait(c) \/ Delegator!CompleteAdd(c) \/ Delegator!CompleteRemove(c) \/ Delegator!CompleteTop(c)
    PROVE  MonitorsOK' /\ DelegatorTyped' /\ UNCHANGED Delegator!appVars
<1> DEFINE n == task[c].native
<1>1. /\ task[c] \in Delegator!Tasks /\ n \in Delegator!Natives /\ task \in Seq(Delegator!Tasks) /\ Len(task) <= MaxCalls
      /\ task[c].kind \in {"add", "remove", "wait", "top", "refused"}
      /\ {} \in SUBSET Delegator!Subjects
  BY TaskTypes DEF DelegatorTyped
<1> SUFFICES \E place \in {"waiting", "executed", "resolved", "rejected"} :
                 /\ Delegator!Pending(c) /\ Moved(c, place) /\ Registers(c, place)
                 /\ UNCHANGED <<record, jsOf, matched>> /\ UNCHANGED Delegator!appVars
                 /\ abilityRecord' \in SUBSET Abilities
  <2>1. PICK place \in {"waiting", "executed", "resolved", "rejected"} :
                 /\ Delegator!Pending(c) /\ Moved(c, place) /\ Registers(c, place)
                 /\ UNCHANGED <<record, jsOf, matched>> /\ UNCHANGED Delegator!appVars
                 /\ abilityRecord' \in SUBSET Abilities
    OBVIOUS
  <2>2. MonitorsOK' /\ registered' \in SUBSET Delegator!Natives
    BY <2>1, MoveStep
  <2>3. task' \in Seq(Delegator!Tasks) /\ Len(task') <= MaxCalls
    BY <2>1, <1>1 DEF Moved
  <2> QED BY <2>1, <2>2, <2>3 DEF DelegatorTyped, Delegator!appVars
<1>2. CASE Delegator!Execute(c)
  <2>1. CASE task[c].kind = "wait" /\ registered' = registered \cup {n} /\ Delegator!Move(c, "waiting")
    <3>1. Moved(c, "waiting")
      BY <2>1, <1>1, Replaced DEF Delegator!Move, Delegator!TaskPlaces
    <3>2. Registers(c, "waiting") /\ Delegator!Pending(c)
      BY <2>1, <1>2 DEF Registers, Delegator!Pending, Delegator!Execute
    <3> QED BY <1>2, <3>1, <3>2 DEF Delegator!Execute, DelegatorTyped
  <2>2. CASE task[c].kind # "wait" /\ Delegator!Move(c, "executed") /\ UNCHANGED registered
    <3>1. Moved(c, "executed")
      BY <2>2, <1>1, Replaced DEF Delegator!Move, Delegator!TaskPlaces
    <3>2. Registers(c, "executed") /\ Delegator!Pending(c)
      BY <2>2, <1>2 DEF Registers, Delegator!Pending, Delegator!Execute
    <3> QED BY <1>2, <3>1, <3>2 DEF Delegator!Execute, DelegatorTyped
  <2> QED BY <1>2, <2>1, <2>2 DEF Delegator!Execute
<1>3. CASE Delegator!WaitEnds(c)
  <2> DEFINE found == {s \in matched[n] : life[s] # "stopped"}
  <2>1. found \in SUBSET Delegator!Subjects
    BY <1>1 DEF DelegatorTyped
  <2>2. /\ task' = [task EXCEPT ![c].place = "executed", ![c].box = found]
        /\ abilityRecord' = abilityRecord \cup (found \cap Abilities)
        /\ task[c].place = "waiting" /\ UNCHANGED <<Delegator!appVars, Delegator!monitorVars>>
    BY <1>3 DEF Delegator!WaitEnds
  <2> HIDE DEF found
  <2>3. Moved(c, "executed")
    BY <2>1, <2>2, <1>1, Replaced DEF Delegator!TaskPlaces
  <2>4. Registers(c, "executed") /\ Delegator!Pending(c)
    BY <2>2 DEF Registers, Delegator!Pending, Delegator!monitorVars
  <2>5. abilityRecord' \in SUBSET Abilities
    BY <2>2 DEF DelegatorTyped
  <2> QED BY <2>2, <2>3, <2>4, <2>5 DEF Delegator!monitorVars
<1>4. CASE Delegator!CompleteWait(c)
  <2>1. PICK place \in {"resolved", "rejected"} : Delegator!Move(c, place)
    BY <1>4 DEF Delegator!CompleteWait
  <2>2. Moved(c, place)
    BY <2>1, <1>1, Replaced DEF Delegator!Move, Delegator!TaskPlaces
  <2>3. Registers(c, place) /\ Delegator!Pending(c)
    BY <1>4 DEF Delegator!CompleteWait, Registers, Delegator!Pending, Delegator!monitorVars
  <2> QED BY <1>4, <2>2, <2>3 DEF Delegator!CompleteWait, DelegatorTyped, Delegator!monitorVars
<1>5. CASE Delegator!CompleteAdd(c)
  <2>1. Moved(c, "resolved")
    BY <1>5, <1>1, Replaced DEF Delegator!CompleteAdd, Delegator!Move, Delegator!TaskPlaces
  <2>2. Registers(c, "resolved") /\ Delegator!Pending(c)
    BY <1>5 DEF Delegator!CompleteAdd, Registers, Delegator!Pending
  <2> QED BY <1>5, <2>1, <2>2 DEF Delegator!CompleteAdd, DelegatorTyped
<1>6. CASE Delegator!CompleteRemove(c)
  <2>1. Moved(c, "resolved")
    BY <1>6, <1>1, Replaced DEF Delegator!CompleteRemove, Delegator!Move, Delegator!TaskPlaces
  <2>2. Registers(c, "resolved") /\ Delegator!Pending(c)
    BY <1>6 DEF Delegator!CompleteRemove, Registers, Delegator!Pending
  <2> QED BY <1>6, <2>1, <2>2 DEF Delegator!CompleteRemove, DelegatorTyped
<1>7. CASE Delegator!CompleteTop(c)
  <2>1. PICK place \in {"resolved", "rejected"} :
            /\ Moved(c, place)
            /\ abilityRecord' \in SUBSET Abilities
    <3>1. CASE \E a \in Abilities :
                  /\ abilityRecord' = abilityRecord \cup {a}
                  /\ task' = [task EXCEPT ![c].place = "resolved", ![c].box = {a}]
      <4>1. PICK a \in Abilities :
                  /\ abilityRecord' = abilityRecord \cup {a}
                  /\ task' = [task EXCEPT ![c].place = "resolved", ![c].box = {a}]
        BY <3>1
      <4>2. {a} \in SUBSET Delegator!Subjects
        BY DEF Delegator!Subjects
      <4>3. Moved(c, "resolved")
        BY <4>1, <4>2, <1>1, Replaced DEF Delegator!TaskPlaces
      <4> QED BY <4>1, <4>3 DEF DelegatorTyped
    <3>2. CASE Delegator!Move(c, "rejected") /\ UNCHANGED abilityRecord
      <4>1. Moved(c, "rejected")
        BY <3>2, <1>1, Replaced DEF Delegator!Move, Delegator!TaskPlaces
      <4> QED BY <3>2, <4>1 DEF DelegatorTyped
    <3> QED BY <1>7, <3>1, <3>2 DEF Delegator!CompleteTop
  <2>2. Registers(c, place) /\ Delegator!Pending(c)
    BY <1>7 DEF Delegator!CompleteTop, Registers, Delegator!Pending, Delegator!monitorVars
  <2> QED BY <1>7, <2>1, <2>2 DEF Delegator!CompleteTop, Delegator!monitorVars
<1> QED BY <1>2, <1>3, <1>4, <1>5, <1>6, <1>7

-------------------------------------------------------------------------------
(* The lifecycle. *)

\* The lifecycle of a subject says nothing of monitors and tasks, but of what was matched.
LEMMA LifecycleStep ==
    ASSUME MaxCalls \in Nat, DelegatorTyped, MonitorsOK, NEW s \in Delegator!Subjects,
           Delegator!Start(s) \/ Delegator!StageStart(s) \/ Delegator!Foreground(s) \/ Delegator!Background(s) \/ Delegator!Stop(s)
    PROVE  MonitorsOK' /\ DelegatorTyped'
<1>1. \/ UNCHANGED matched
      \/ matched' = [n \in Delegator!Natives |-> IF n \in Delegator!Matching(s) THEN {s} ELSE matched[n]]
  BY DEF Delegator!Start, Delegator!StageStart, Delegator!Foreground, Delegator!Background,
         Delegator!Stop, Delegator!Match, Delegator!monitorVars
<1>2. UNCHANGED <<registered, record, jsOf, task>>
  BY DEF Delegator!Start, Delegator!StageStart, Delegator!Foreground, Delegator!Background,
         Delegator!Stop, Delegator!Match, Delegator!monitorVars
<1>3. MonitorsOK'
  <2>1. \A n \in Delegator!Natives : \A x, y \in matched'[n] : x = y
    BY <1>1 DEF MonitorsOK, OneEach, DelegatorTyped
  <2> QED BY <2>1, <1>2, MonitorsRest
<1>4. matched' \in [Delegator!Natives -> SUBSET Delegator!Subjects]
  BY <1>1 DEF DelegatorTyped
<1>5. \E state \in Delegator!LifecycleStates : life' = [life EXCEPT ![s] = state]
  BY DEF Delegator!Start, Delegator!StageStart, Delegator!Foreground, Delegator!Background,
         Delegator!Stop, Delegator!LifecycleStates
<1>6. \/ UNCHANGED properties
      \/ s \in Abilities /\ \E state \in Delegator!LifecycleStates : properties' = [properties EXCEPT ![s] = state]
  BY DEF Delegator!Start, Delegator!StageStart, Delegator!Foreground, Delegator!Background,
         Delegator!Stop, Delegator!LifecycleStates, Delegator!Recorded
<1>7. abilityRecord' \in SUBSET Abilities
  BY DEF Delegator!Start, Delegator!StageStart, Delegator!Foreground, Delegator!Background,
         Delegator!Stop, DelegatorTyped
<1>8. life' \in [Delegator!Subjects -> Delegator!LifecycleStates] /\ properties' \in [Abilities -> Delegator!LifecycleStates]
  BY <1>5, <1>6 DEF DelegatorTyped
<1> QED BY <1>2, <1>3, <1>4, <1>7, <1>8 DEF DelegatorTyped

\* The state on record changes with the state of the ability.
LEMMA PropertiesStep ==
    ASSUME DelegatorAssumption, DelegatorTyped, Delegator!PropertiesAgree,
           NEW s \in Delegator!Subjects,
           Delegator!Start(s) \/ Delegator!StageStart(s) \/ Delegator!Foreground(s) \/ Delegator!Background(s) \/ Delegator!Stop(s)
    PROVE  Delegator!PropertiesAgree'
<1> SUFFICES ASSUME NEW a \in Abilities
             PROVE  /\ properties'[a] # "none" => properties'[a] = life'[a]
                    /\ life'[a] \notin {"none", "stopped"} => properties'[a] # "none"
  BY DEF Delegator!PropertiesAgree, Delegator!Alive
<1>1. /\ life \in [Delegator!Subjects -> Delegator!LifecycleStates] /\ properties \in [Abilities -> Delegator!LifecycleStates]
      /\ a \in Delegator!Subjects
      /\ properties[a] # "none" => properties[a] = life[a]
      /\ life[a] \notin {"none", "stopped"} => properties[a] # "none"
  BY DEF DelegatorTyped, Delegator!Subjects, Delegator!PropertiesAgree, Delegator!Alive
<1>2. CASE Delegator!StageStart(s)
  <2>1. s # a /\ life' = [life EXCEPT ![s] = "started"] /\ properties' = properties
    BY <1>2 DEF Delegator!StageStart, DelegatorAssumption
  <2> QED BY <2>1, <1>1
<1>3. CASE ~Delegator!StageStart(s)
  <2>1. CASE Delegator!Stop(s)
    <3>1. /\ life' = [life EXCEPT ![s] = "stopped"]
          /\ \/ properties' = [properties EXCEPT ![s] = "stopped"]
             \/ properties' = [properties EXCEPT ![s] = "none"]
      BY <2>1 DEF Delegator!Stop, Delegator!Recorded
    <3> QED BY <3>1, <1>1
  <2>2. ASSUME NEW state \in {"started", "foreground", "background"},
               life' = [life EXCEPT ![s] = state] /\ properties' = [properties EXCEPT ![s] = state]
        PROVE  /\ properties'[a] # "none" => properties'[a] = life'[a]
               /\ life'[a] \notin {"none", "stopped"} => properties'[a] # "none"
    BY <2>2, <1>1
  <2> QED BY <1>3, <2>1, <2>2 DEF Delegator!Start, Delegator!Foreground, Delegator!Background,
                                  Delegator!Recorded
<1> QED BY <1>2, <1>3

-------------------------------------------------------------------------------
(* The invariant. *)

LEMMA DelegatorInit ==
    ASSUME DelegatorAssumption, Delegator!Init
    PROVE  DelegatorInv
<1>1. DelegatorTyped
  BY DEF Delegator!Init, DelegatorTyped, DelegatorAssumption, Delegator!LifecycleStates
<1>2. Len(task) = 0 /\ DOMAIN task = {}
  BY DEF Delegator!Init
<1>3. MonitorsOK
  BY <1>2 DEF Delegator!Init, MonitorsOK, OneEach, NewIsNew, OneCall, CallOnRecord,
              Delegator!RegisteredAsRecorded, Delegator!Asked, UnderWay
<1>4. Delegator!PropertiesAgree
  BY DEF Delegator!Init, Delegator!PropertiesAgree, Delegator!Alive, Delegator!Subjects
<1> QED BY <1>1, <1>3, <1>4 DEF DelegatorInv

LEMMA DelegatorStep ==
    ASSUME DelegatorAssumption, Awaited, DelegatorInv, [Delegator!Next]_(Delegator!vars)
    PROVE  DelegatorInv'
<1> USE DEF DelegatorInv, DelegatorAssumption
<1>1. ASSUME NEW m \in Monitors,
             \/ Delegator!OnAddAbilityMonitor(m) \/ Delegator!OnAddAbilityStageMonitor(m)
             \/ Delegator!OnRemoveAbilityMonitor(m) \/ Delegator!OnRemoveAbilityStageMonitor(m)
             \/ Delegator!OnWaitAbilityMonitor(m) \/ Delegator!OnWaitAbilityStageMonitor(m)
             \/ Delegator!CallIsRefused(m)
      PROVE  DelegatorInv'
  <2>1. PICK kind \in {"add", "remove", "wait", "refused"}, place \in {"queued", "rejected"} :
            /\ place = "rejected" <=> kind = "refused"
            /\ Delegator!CallWith(m, kind, place, kind # "remove")
    BY <1>1 DEF Delegator!OnAddAbilityMonitor, Delegator!OnAddAbilityStageMonitor,
                Delegator!OnRemoveAbilityMonitor, Delegator!CallIsRefused,
                Delegator!OnRemoveAbilityStageMonitor, Delegator!OnWaitAbilityMonitor, Delegator!OnWaitAbilityStageMonitor
  <2>2. MonitorsOK' /\ DelegatorTyped'
    BY <2>1, CallStep
  <2>3. UNCHANGED <<life, properties>>
    BY <2>1 DEF Delegator!CallWith, Delegator!appVars
  <2> QED BY <2>2, <2>3 DEF Delegator!PropertiesAgree, Delegator!Alive
<1>2. CASE Delegator!OnGetCurrentTopAbility
  <2>1. UNCHANGED <<life, properties>>
    BY <1>2 DEF Delegator!OnGetCurrentTopAbility, Delegator!appVars
  <2> QED BY <1>2, <2>1, TopStep DEF Delegator!PropertiesAgree, Delegator!Alive
<1>3. ASSUME NEW c \in DOMAIN task,
             \/ Delegator!Execute(c) \/ Delegator!WaitEnds(c)
             \/ Delegator!CompleteWait(c) \/ Delegator!CompleteAdd(c) \/ Delegator!CompleteRemove(c) \/ Delegator!CompleteTop(c)
      PROVE  DelegatorInv'
  <2>1. MonitorsOK' /\ DelegatorTyped' /\ UNCHANGED Delegator!appVars
    BY <1>3, TaskStep
  <2> QED BY <2>1 DEF Delegator!PropertiesAgree, Delegator!Alive, Delegator!appVars
<1>4. ASSUME NEW s \in Delegator!Subjects,
             Delegator!Start(s) \/ Delegator!StageStart(s) \/ Delegator!Foreground(s) \/ Delegator!Background(s) \/ Delegator!Stop(s)
      PROVE  DelegatorInv'
  BY <1>4, LifecycleStep, PropertiesStep
<1>5. CASE UNCHANGED Delegator!vars
  <2>1. MonitorsOK'
    BY <1>5, MonitorsRest DEF Delegator!vars, Delegator!monitorVars, MonitorsOK, OneEach
  <2> QED BY <1>5, <2>1 DEF Delegator!vars, Delegator!appVars, Delegator!monitorVars,
                            DelegatorTyped, Delegator!PropertiesAgree, Delegator!Alive
<1> QED BY <1>1, <1>2, <1>3, <1>4, <1>5 DEF Delegator!Next

\* A delegator whose tests await their calls keeps all of it.
LEMMA DelegatorInvariance ==
    ASSUME DelegatorAssumption, Awaited
    PROVE  Delegator!Spec => []DelegatorInv
<1>1. Delegator!Init => DelegatorInv
  BY DelegatorInit
<1>2. DelegatorInv /\ [Delegator!Next]_(Delegator!vars) => DelegatorInv'
  BY DelegatorStep
<1> QED BY <1>1, <1>2, PTL DEF Delegator!Spec

\* The instance counts as its module does.
LEMMA SameCardinality == \A S : Delegator!Cardinality(S) = Cardinality(S)
BY DEF Delegator!Cardinality, Cardinality

\* Types: an object has one native monitor on record, which belongs to it.
LEMMA DelegatorTypes ==
    ASSUME DelegatorAssumption, Awaited
    PROVE  Delegator!Spec => []Delegator!TypeOK
<1>1. ASSUME DelegatorInv PROVE Delegator!TypeOK
  <2>1. ASSUME NEW S, \A x, y \in S : x = y PROVE Delegator!Cardinality(S) <= 1
    <3>1. S = {} \/ \E x : S = {x}
      BY <2>1
    <3>2. Cardinality(S) = 0 \/ Cardinality(S) = 1
      BY <3>1, FS_EmptySet, FS_Singleton
    <3>3. Delegator!Cardinality(S) = Cardinality(S)
      BY SameCardinality
    <3> QED BY <3>2, <3>3
  <2>2. \A n \in Delegator!Natives : Delegator!Cardinality(matched[n]) <= 1
    BY <1>1, <2>1 DEF DelegatorInv, MonitorsOK, OneEach
  <2>3. \A m \in Monitors : Delegator!Cardinality(record[m]) <= 1 /\ \A n \in record[m] : m \in jsOf[n]
    BY <1>1, <2>1 DEF DelegatorInv, MonitorsOK, OneEach
  <2> QED BY <1>1, <2>2, <2>3 DEF DelegatorInv, DelegatorTyped, Delegator!TypeOK
<1> QED BY <1>1, DelegatorInvariance, PTL

\* Between the calls for an object its native monitor is registered if and only if it is
\* on record and not only because of refused calls, in whatever order the tasks leave the pool, and the delegator answers with
\* the state of the ability.
LEMMA DelegatorHolds ==
    ASSUME DelegatorAssumption, Awaited
    PROVE  Delegator!Spec => []Delegator!DelegatorSafe
<1>1. DelegatorInv => Delegator!DelegatorSafe
  BY DEF DelegatorInv, MonitorsOK, Delegator!DelegatorSafe
<1> QED BY <1>1, DelegatorInvariance, PTL

-------------------------------------------------------------------------------
(* The instances. *)

\* The collector owns each thread once, joins each once, and nothing outlives the exit.
THEOREM CollectorIsSafe == Collector!Spec => []CollectorSafe
BY Collector!CollectorIsSafe DEF CollectorSafe

\* Monitors are registered as they are on record, those of refused calls apart, between the
\* calls of a test that awaits them, and the delegator answers with the state of each ability.
THEOREM DelegatorIsSafe ==
    ASSUME DelegatorAssumption, Awaited
    PROVE  Delegator!Spec => []DelegatorSafe
BY DelegatorHolds DEF DelegatorSafe

\* One timer serves the watchers, each name has one row, no task comes after the one that
\* destroys its context, the last events of a receiver get through; and an event gets the
\* latest value of each parameter.
THEOREM EventsAreSafe ==
    ASSUME AppEvent!EventsAssumption, MaxRows \in Nat
    PROVE  AppEvent!Spec /\ Params!Spec => []EventsSafe
<1>1. AppEvent!Spec => []AppEvent!EventsSafe
  BY AppEvent!EventsAreSafe
<1>2. AppEvent!EventsSafe /\ Params!LatestValue => EventsSafe
  BY DEF EventsSafe
<1>3. QED
  BY <1>1, <1>2, ParamsAreLatest, PTL

\* Rejections are told once to everyone, whatever the observers do, or not at all to those that
\* come after one that throws.
THEOREM EveryoneIsTold == Rejections!Spec => []RejectionsTold
BY Rejections!EveryoneIsTold DEF RejectionsTold

\* The types of the six components, and what the components keep beside them: counts of the
\* pool, one owner of a thread, one native monitor of an object, one watcher at a row, a row
\* for each parameter that was set, iterators within their containers.
THEOREM TypesAreRight ==
    ASSUME Runners # {}, MaxPool \in Nat, MaxSends \in Nat,
           DelegatorAssumption, Awaited,
           AppEvent!EventsAssumption, MaxRows \in Nat
    PROVE  /\ Collector!Spec /\ Spec /\ Delegator!Spec
           /\ AppEvent!Spec /\ Params!Spec /\ Rejections!Spec
           => []TypesOK
<1>1. Collector!Spec => []Collector!TypeOK
  BY Collector!TypeCorrect
<1>2. Spec => []TypeOK
  BY TypeCorrect
<1>3. AppEvent!Spec => []AppEvent!TypeOK
  BY AppEvent!TypeCorrect
<1>4. Rejections!Spec => []Rejections!TypeOK
  BY Rejections!TypeCorrect
<1>5. /\ Collector!TypeOK /\ TypeOK /\ Delegator!TypeOK
      /\ AppEvent!TypeOK /\ Params!TypeOK /\ Rejections!TypeOK
      => TypesOK
  BY DEF TypesOK
<1>6. QED
  BY <1>1, <1>2, <1>3, <1>4, <1>5, DelegatorTypes, ParamsTypes, PTL
===============================================================================
