------------------------- MODULE ThreadCollectorProofs -------------------------
(***************************************************************************)
(* Proofs about ThreadCollector, for any number of threads.                *)
(***************************************************************************)
EXTENDS ThreadCollector, SequenceTheorems, FiniteSetTheorems, TLAPS

\* A thread is past the point where it puts itself in reclaims_.
PastReclaim == {"reclaimed", "locking", "gone"}

\* The creator owns a thread up to Deposit; from then on the map, the daemon or the exit, and
\* last nobody, as it is joined.
Owners ==
    /\ \A t \in Threads :
          /\ creator[t] = "idle" <=> thread[t] = "none"
          /\ creator[t] = "done" <=>
                t \in depositMap \/ t \in daemonJoins \/ t \in exitJoins \/ t \in joined
    /\ \A t \in depositMap : t \notin daemonJoins /\ t \notin exitJoins /\ t \notin joined
    /\ \A t \in daemonJoins : t \notin exitJoins /\ t \notin joined
    /\ \A t \in exitJoins : t \notin joined

\* What the joined threads, and those on their way to be joined by the daemon, have done.
Progressed ==
    /\ \A i \in 1..Len(reclaims) : thread[reclaims[i]] \in PastReclaim
    /\ \A t \in daemonJoins : thread[t] \in PastReclaim
    /\ \A t \in joined : thread[t] = "gone"

\* The ids in reclaims_ are those of threads that are still to be joined.
ReclaimsFresh ==
    ~destroying => \A i \in 1..Len(reclaims) :
        /\ reclaims[i] \notin joined /\ reclaims[i] \notin daemonJoins
        /\ \A j \in 1..Len(reclaims) : i # j => reclaims[i] # reclaims[j]

\* The order of the exit: no deposit, then no daemon, then no deposited thread.
ExitOrder ==
    /\ \A t \in Threads : creator[t] = "refused" => destroying
    /\ ~needCreate => daemon \in {"none", "ended"}
    /\ exiting = "done" => depositMap = {}

IInv == TypeOK /\ Owners /\ Progressed /\ ReclaimsFresh /\ ExitOrder

-------------------------------------------------------------------------------
\* What is left of reclaims_ once its last id is popped.
LEMMA Popped ==
    ASSUME NEW s \in Seq(Threads), s # << >>
    PROVE  /\ Len(s) \in Nat \ {0} /\ s[Len(s)] \in Threads
           /\ SubSeq(s, 1, Len(s) - 1) \in Seq(Threads)
           /\ Len(SubSeq(s, 1, Len(s) - 1)) = Len(s) - 1
           /\ \A i \in 1..(Len(s) - 1) : SubSeq(s, 1, Len(s) - 1)[i] = s[i]
<1>1. Len(s) \in Nat \ {0}
  BY EmptySeq
<1>2. \A i \in 1..Len(s) : s[i] \in Threads
  BY ElementOfSeq
<1> DEFINE n == Len(s) - 1
<1>3. /\ 1 \in Nat /\ n \in Nat /\ n <= Len(s) /\ \A i \in 1..n : s[i] \in Threads
      /\ \A i \in 1..n : 1 + i - 1 = i
  BY <1>1, <1>2
<1> HIDE DEF n
<1>4. \A i \in 1..n : i \in 1..Len(s)
  BY <1>1, <1>3
<1>5. /\ SubSeq(s, 1, n) \in Seq(Threads) /\ Len(SubSeq(s, 1, n)) = n
      /\ \A i \in 1..n : SubSeq(s, 1, n)[i] = s[i]
  BY <1>1, <1>3, <1>4, SubSeqProperties
<1>6. QED
  BY <1>1, <1>2, <1>5 DEF n

\* Every step keeps the types, and what goes with each place.
LEMMA TypeStep ==
    ASSUME TypeOK, Owners, Next
    PROVE  TypeOK'
<1>1. ASSUME NEW t \in Threads, StartThread(t)
      PROVE  TypeOK'
  BY <1>1 DEF StartThread, TypeOK, Owners, ThreadPlaces, CreatorPlaces, DaemonPlaces,
         ExitPlaces, workerVars, collectorVars, daemonVars, exitVars
<1>2. ASSUME NEW t \in Threads, Deposit(t)
      PROVE  TypeOK'
  BY <1>2 DEF Deposit, Finished, TypeOK, Owners, ThreadPlaces, CreatorPlaces, DaemonPlaces,
         ExitPlaces, workerVars, collectorVars, daemonVars, exitVars
<1>3. ASSUME NEW t \in Threads, JoinRefused(t)
      PROVE  TypeOK'
  BY <1>3 DEF JoinRefused, TypeOK, Owners, ThreadPlaces, CreatorPlaces, DaemonPlaces,
         ExitPlaces, workerVars, collectorVars, daemonVars, exitVars
<1>4. ASSUME NEW t \in Threads, ReleaseRunner(t)
      PROVE  TypeOK'
  BY <1>4 DEF ReleaseRunner, Finished, TypeOK, Owners, ThreadPlaces, CreatorPlaces,
         DaemonPlaces, ExitPlaces, workerVars, collectorVars, daemonVars, exitVars
<1>5. ASSUME NEW t \in Threads, Prepare(t)
      PROVE  TypeOK'
  BY <1>5 DEF Prepare, TypeOK, Owners, ThreadPlaces, CreatorPlaces, DaemonPlaces, ExitPlaces,
         workerVars, collectorVars, daemonVars, exitVars
<1>6. ASSUME NEW t \in Threads, EnterLoop(t)
      PROVE  TypeOK'
  BY <1>6 DEF EnterLoop, TypeOK, Owners, ThreadPlaces, CreatorPlaces, DaemonPlaces, ExitPlaces,
         workerVars, collectorVars, daemonVars, exitVars
<1>7. ASSUME NEW t \in Threads, LeaveLoop(t)
      PROVE  TypeOK'
  BY <1>7 DEF LeaveLoop, TypeOK, Owners, ThreadPlaces, CreatorPlaces, DaemonPlaces, ExitPlaces,
         workerVars, collectorVars, daemonVars, exitVars
<1>8. ASSUME NEW t \in Threads, ReclaimCurrentThread(t)
      PROVE  TypeOK'
  <2>1. reclaims' \in Seq(Threads)
    BY <1>8, AppendProperties DEF ReclaimCurrentThread, TypeOK
  <2>2. /\ thread' \in [Threads -> ThreadPlaces]
        /\ \A u \in Threads : thread'[u] = "locking" <=> thread[u] = "locking"
    BY <1>8 DEF ReclaimCurrentThread, TypeOK, ThreadPlaces
  <2>3. /\ daemon' \in DaemonPlaces /\ (daemon' = "joining" <=> daemon = "joining")
        /\ isWaiting <=> daemon' \in {"waiting", "woken"}
    BY <1>8 DEF ReclaimCurrentThread, Notified, TypeOK, DaemonPlaces
  <2>4. /\ UNCHANGED <<owner, finish, creator, depositMap, destroying, daemonJoins, isWaiting,
                       threadLock, exitVars, joined>>
    BY <1>8 DEF ReclaimCurrentThread
  <2>5. QED
    BY <2>1, <2>2, <2>3, <2>4 DEF TypeOK, exitVars
<1>9. ASSUME NEW t \in Threads, TryThreadLock(t)
      PROVE  TypeOK'
  BY <1>9 DEF TryThreadLock, TypeOK, Owners, ThreadPlaces, CreatorPlaces, DaemonPlaces,
         ExitPlaces, workerVars, collectorVars, daemonVars, exitVars
<1>10. ASSUME NEW t \in Threads, CreateDaemon(t)
      PROVE  TypeOK'
  BY <1>10 DEF CreateDaemon, TypeOK, Owners, ThreadPlaces, CreatorPlaces, DaemonPlaces,
         ExitPlaces, workerVars, collectorVars, daemonVars, exitVars
<1>11. CASE PopReclaim
  BY <1>11, Popped DEF PopReclaim, TypeOK, Owners, ThreadPlaces, CreatorPlaces, DaemonPlaces,
         ExitPlaces, workerVars, collectorVars, daemonVars, exitVars
<1>12. CASE DaemonJoined
  BY <1>12 DEF DaemonJoined, TypeOK, Owners, ThreadPlaces, CreatorPlaces, DaemonPlaces,
         ExitPlaces, workerVars, collectorVars, daemonVars, exitVars
<1>13. CASE WaitOrEnd
  BY <1>13 DEF WaitOrEnd, TypeOK, Owners, ThreadPlaces, CreatorPlaces, DaemonPlaces,
         ExitPlaces, workerVars, collectorVars, daemonVars, exitVars
<1>14. CASE WakeUp
  BY <1>14 DEF WakeUp, TypeOK, Owners, ThreadPlaces, CreatorPlaces, DaemonPlaces, ExitPlaces,
         workerVars, collectorVars, daemonVars, exitVars
<1>15. CASE WakeSpuriously
  BY <1>15 DEF WakeSpuriously, TypeOK, Owners, ThreadPlaces, CreatorPlaces, DaemonPlaces,
         ExitPlaces, workerVars, collectorVars, daemonVars, exitVars
<1>16. CASE SetDestroying
  BY <1>16 DEF SetDestroying, Notified, TypeOK, Owners, ThreadPlaces, CreatorPlaces,
         DaemonPlaces, ExitPlaces, workerVars, collectorVars, daemonVars, exitVars
<1>17. CASE LockDaemon
  BY <1>17 DEF LockDaemon, TypeOK, Owners, ThreadPlaces, CreatorPlaces, DaemonPlaces,
         ExitPlaces, workerVars, collectorVars, daemonVars, exitVars
<1>18. CASE JoinDaemon
  BY <1>18 DEF JoinDaemon, TypeOK, Owners, ThreadPlaces, CreatorPlaces, DaemonPlaces,
         ExitPlaces, workerVars, collectorVars, daemonVars, exitVars
<1>19. CASE ReclaimNext
  BY <1>19 DEF ReclaimNext, Finished, TypeOK, Owners, ThreadPlaces, CreatorPlaces,
         DaemonPlaces, ExitPlaces, workerVars, collectorVars, daemonVars, exitVars
<1>20. CASE ExitJoined
  BY <1>20 DEF ExitJoined, TypeOK, Owners, ThreadPlaces, CreatorPlaces, DaemonPlaces,
         ExitPlaces, workerVars, collectorVars, daemonVars, exitVars
<1>21. CASE EndExit
  BY <1>21 DEF EndExit, TypeOK, Owners, ThreadPlaces, CreatorPlaces, DaemonPlaces, ExitPlaces,
         workerVars, collectorVars, daemonVars, exitVars
<1>22. QED
  BY <1>1, <1>2, <1>3, <1>4, <1>5, <1>6, <1>7, <1>8, <1>9, <1>10, <1>11, <1>12, <1>13, <1>14,
     <1>15, <1>16, <1>17, <1>18, <1>19, <1>20, <1>21
     DEF Next, Worker, Daemon, Stop

\* Every step hands each thread on to one owner.
LEMMA OwnersStep ==
    ASSUME TypeOK, Owners, Next
    PROVE  Owners'
<1>1. ASSUME NEW t \in Threads, StartThread(t)
      PROVE  Owners'
  BY <1>1 DEF StartThread, Owners, TypeOK, DaemonPlaces, workerVars, collectorVars, daemonVars,
         exitVars
<1>2. ASSUME NEW t \in Threads, Deposit(t)
      PROVE  Owners'
  BY <1>2 DEF Deposit, Finished, Owners, TypeOK, DaemonPlaces, workerVars, collectorVars,
         daemonVars, exitVars
<1>3. ASSUME NEW t \in Threads, JoinRefused(t)
      PROVE  Owners'
  BY <1>3 DEF JoinRefused, Owners, TypeOK, DaemonPlaces, workerVars, collectorVars, daemonVars,
         exitVars
<1>4. ASSUME NEW t \in Threads, ReleaseRunner(t)
      PROVE  Owners'
  BY <1>4 DEF ReleaseRunner, Finished, Owners, TypeOK, DaemonPlaces, workerVars, collectorVars,
         daemonVars, exitVars
<1>5. ASSUME NEW t \in Threads, Prepare(t)
      PROVE  Owners'
  BY <1>5 DEF Prepare, Owners, TypeOK, DaemonPlaces, workerVars, collectorVars, daemonVars,
         exitVars
<1>6. ASSUME NEW t \in Threads, EnterLoop(t)
      PROVE  Owners'
  BY <1>6 DEF EnterLoop, Owners, TypeOK, DaemonPlaces, workerVars, collectorVars, daemonVars,
         exitVars
<1>7. ASSUME NEW t \in Threads, LeaveLoop(t)
      PROVE  Owners'
  BY <1>7 DEF LeaveLoop, Owners, TypeOK, DaemonPlaces, workerVars, collectorVars, daemonVars,
         exitVars
<1>8. ASSUME NEW t \in Threads, ReclaimCurrentThread(t)
      PROVE  Owners'
  BY <1>8 DEF ReclaimCurrentThread, Notified, Owners, TypeOK, DaemonPlaces, workerVars,
         collectorVars, daemonVars, exitVars
<1>9. ASSUME NEW t \in Threads, TryThreadLock(t)
      PROVE  Owners'
  BY <1>9 DEF TryThreadLock, Owners, TypeOK, DaemonPlaces, workerVars, collectorVars,
         daemonVars, exitVars
<1>10. ASSUME NEW t \in Threads, CreateDaemon(t)
      PROVE  Owners'
  BY <1>10 DEF CreateDaemon, Owners, TypeOK, DaemonPlaces, workerVars, collectorVars,
         daemonVars, exitVars
<1>11. CASE PopReclaim
  BY <1>11 DEF PopReclaim, Owners, TypeOK, DaemonPlaces, workerVars, collectorVars, daemonVars,
         exitVars
<1>12. CASE DaemonJoined
  BY <1>12 DEF DaemonJoined, Owners, TypeOK, DaemonPlaces, workerVars, collectorVars,
         daemonVars, exitVars
<1>13. CASE WaitOrEnd
  BY <1>13 DEF WaitOrEnd, Owners, TypeOK, DaemonPlaces, workerVars, collectorVars, daemonVars,
         exitVars
<1>14. CASE WakeUp
  BY <1>14 DEF WakeUp, Owners, TypeOK, DaemonPlaces, workerVars, collectorVars, daemonVars,
         exitVars
<1>15. CASE WakeSpuriously
  BY <1>15 DEF WakeSpuriously, Owners, TypeOK, DaemonPlaces, workerVars, collectorVars,
         daemonVars, exitVars
<1>16. CASE SetDestroying
  BY <1>16 DEF SetDestroying, Notified, Owners, TypeOK, DaemonPlaces, workerVars,
         collectorVars, daemonVars, exitVars
<1>17. CASE LockDaemon
  BY <1>17 DEF LockDaemon, Owners, TypeOK, DaemonPlaces, workerVars, collectorVars, daemonVars,
         exitVars
<1>18. CASE JoinDaemon
  BY <1>18 DEF JoinDaemon, Owners, TypeOK, DaemonPlaces, workerVars, collectorVars, daemonVars,
         exitVars
<1>19. CASE ReclaimNext
  BY <1>19 DEF ReclaimNext, Finished, Owners, TypeOK, DaemonPlaces, workerVars, collectorVars,
         daemonVars, exitVars
<1>20. CASE ExitJoined
  BY <1>20 DEF ExitJoined, Owners, TypeOK, DaemonPlaces, workerVars, collectorVars, daemonVars,
         exitVars
<1>21. CASE EndExit
  BY <1>21 DEF EndExit, Owners, TypeOK, DaemonPlaces, workerVars, collectorVars, daemonVars,
         exitVars
<1>22. QED
  BY <1>1, <1>2, <1>3, <1>4, <1>5, <1>6, <1>7, <1>8, <1>9, <1>10, <1>11, <1>12, <1>13, <1>14,
     <1>15, <1>16, <1>17, <1>18, <1>19, <1>20, <1>21
     DEF Next, Worker, Daemon, Stop

\* A thread that is past ReclaimCurrentThread stays so, and none is joined before it is gone.
LEMMA ProgressStep ==
    ASSUME TypeOK, Owners, Progressed, Next
    PROVE  Progressed'
<1>1. ASSUME NEW t \in Threads, StartThread(t)
      PROVE  Progressed'
  BY <1>1 DEF StartThread, Progressed, PastReclaim, TypeOK, Owners, workerVars, collectorVars,
         daemonVars, exitVars
<1>2. ASSUME NEW t \in Threads, Deposit(t)
      PROVE  Progressed'
  BY <1>2 DEF Deposit, Finished, Progressed, PastReclaim, TypeOK, Owners, workerVars,
         collectorVars, daemonVars, exitVars
<1>3. ASSUME NEW t \in Threads, JoinRefused(t)
      PROVE  Progressed'
  BY <1>3 DEF JoinRefused, Progressed, PastReclaim, TypeOK, Owners, workerVars, collectorVars,
         daemonVars, exitVars
<1>4. ASSUME NEW t \in Threads, ReleaseRunner(t)
      PROVE  Progressed'
  BY <1>4 DEF ReleaseRunner, Finished, Progressed, PastReclaim, TypeOK, Owners, workerVars,
         collectorVars, daemonVars, exitVars
<1>5. ASSUME NEW t \in Threads, Prepare(t)
      PROVE  Progressed'
  BY <1>5 DEF Prepare, Progressed, PastReclaim, TypeOK, Owners, workerVars, collectorVars,
         daemonVars, exitVars
<1>6. ASSUME NEW t \in Threads, EnterLoop(t)
      PROVE  Progressed'
  BY <1>6 DEF EnterLoop, Progressed, PastReclaim, TypeOK, Owners, workerVars, collectorVars,
         daemonVars, exitVars
<1>7. ASSUME NEW t \in Threads, LeaveLoop(t)
      PROVE  Progressed'
  BY <1>7 DEF LeaveLoop, Progressed, PastReclaim, TypeOK, Owners, workerVars, collectorVars,
         daemonVars, exitVars
<1>8. ASSUME NEW t \in Threads, ReclaimCurrentThread(t)
      PROVE  Progressed'
  <2>1. /\ \A u \in Threads : thread[u] \in PastReclaim => thread'[u] \in PastReclaim
        /\ \A u \in Threads : thread[u] = "gone" => thread'[u] = "gone"
        /\ thread'[t] \in PastReclaim /\ daemonJoins' = daemonJoins /\ joined' = joined
    BY <1>8 DEF ReclaimCurrentThread, PastReclaim, TypeOK
  <2>2. ASSUME NEW i \in 1..Len(reclaims') PROVE thread'[reclaims'[i]] \in PastReclaim
    <3>1. reclaims' = reclaims \/ reclaims' = Append(reclaims, t)
      BY <1>8 DEF ReclaimCurrentThread
    <3>2. Len(reclaims) \in Nat /\ \A j \in 1..Len(reclaims) : reclaims[j] \in Threads
      BY ElementOfSeq, LenProperties DEF TypeOK
    <3>3. CASE reclaims' = reclaims
      BY <2>1, <3>2, <3>3 DEF Progressed
    <3>4. CASE reclaims' = Append(reclaims, t)
      <4>1. CASE i \in 1..Len(reclaims)
        <5>1. reclaims'[i] = reclaims[i]
          BY <3>4, <4>1, AppendProperties DEF TypeOK
        <5>2. QED
          BY <2>1, <3>2, <4>1, <5>1 DEF Progressed
      <4>2. CASE i \notin 1..Len(reclaims)
        <5>1. i = Len(reclaims) + 1 /\ reclaims'[i] = t
          BY <3>2, <3>4, <4>2, AppendProperties DEF TypeOK
        <5>2. QED
          BY <2>1, <5>1
      <4>3. QED
        BY <4>1, <4>2
    <3>5. QED
      BY <3>1, <3>3, <3>4
  <2>3. QED
    BY <2>1, <2>2 DEF Progressed, TypeOK
<1>9. ASSUME NEW t \in Threads, TryThreadLock(t)
      PROVE  Progressed'
  BY <1>9 DEF TryThreadLock, Progressed, PastReclaim, TypeOK, Owners, workerVars,
         collectorVars, daemonVars, exitVars
<1>10. ASSUME NEW t \in Threads, CreateDaemon(t)
      PROVE  Progressed'
  BY <1>10 DEF CreateDaemon, Progressed, PastReclaim, TypeOK, Owners, workerVars,
         collectorVars, daemonVars, exitVars
<1>11. CASE PopReclaim
  BY <1>11, Popped DEF PopReclaim, Progressed, PastReclaim, TypeOK, Owners, workerVars,
         collectorVars, daemonVars, exitVars
<1>12. CASE DaemonJoined
  BY <1>12 DEF DaemonJoined, Progressed, PastReclaim, TypeOK, Owners, workerVars,
         collectorVars, daemonVars, exitVars
<1>13. CASE WaitOrEnd
  BY <1>13 DEF WaitOrEnd, Progressed, PastReclaim, TypeOK, Owners, workerVars, collectorVars,
         daemonVars, exitVars
<1>14. CASE WakeUp
  BY <1>14 DEF WakeUp, Progressed, PastReclaim, TypeOK, Owners, workerVars, collectorVars,
         daemonVars, exitVars
<1>15. CASE WakeSpuriously
  BY <1>15 DEF WakeSpuriously, Progressed, PastReclaim, TypeOK, Owners, workerVars,
         collectorVars, daemonVars, exitVars
<1>16. CASE SetDestroying
  BY <1>16 DEF SetDestroying, Notified, Progressed, PastReclaim, TypeOK, Owners, workerVars,
         collectorVars, daemonVars, exitVars
<1>17. CASE LockDaemon
  BY <1>17 DEF LockDaemon, Progressed, PastReclaim, TypeOK, Owners, workerVars, collectorVars,
         daemonVars, exitVars
<1>18. CASE JoinDaemon
  BY <1>18 DEF JoinDaemon, Progressed, PastReclaim, TypeOK, Owners, workerVars, collectorVars,
         daemonVars, exitVars
<1>19. CASE ReclaimNext
  BY <1>19 DEF ReclaimNext, Finished, Progressed, PastReclaim, TypeOK, Owners, workerVars,
         collectorVars, daemonVars, exitVars
<1>20. CASE ExitJoined
  BY <1>20 DEF ExitJoined, Progressed, PastReclaim, TypeOK, Owners, workerVars, collectorVars,
         daemonVars, exitVars
<1>21. CASE EndExit
  BY <1>21 DEF EndExit, Progressed, PastReclaim, TypeOK, Owners, workerVars, collectorVars,
         daemonVars, exitVars
<1>22. QED
  BY <1>1, <1>2, <1>3, <1>4, <1>5, <1>6, <1>7, <1>8, <1>9, <1>10, <1>11, <1>12, <1>13, <1>14,
     <1>15, <1>16, <1>17, <1>18, <1>19, <1>20, <1>21
     DEF Next, Worker, Daemon, Stop

\* No step leaves the id of a joined thread in reclaims_.
LEMMA FreshStep ==
    ASSUME TypeOK, Owners, Progressed, ExitOrder, ReclaimsFresh, Next
    PROVE  ReclaimsFresh'
<1>1. ASSUME NEW t \in Threads, StartThread(t)
      PROVE  ReclaimsFresh'
  BY <1>1 DEF StartThread, ReclaimsFresh, Progressed, PastReclaim, TypeOK, Owners, ExitOrder,
         workerVars, collectorVars, daemonVars, exitVars
<1>2. ASSUME NEW t \in Threads, Deposit(t)
      PROVE  ReclaimsFresh'
  BY <1>2 DEF Deposit, Finished, ReclaimsFresh, Progressed, PastReclaim, TypeOK, Owners,
         ExitOrder, workerVars, collectorVars, daemonVars, exitVars
<1>3. ASSUME NEW t \in Threads, JoinRefused(t)
      PROVE  ReclaimsFresh'
  BY <1>3 DEF JoinRefused, ReclaimsFresh, Progressed, PastReclaim, TypeOK, Owners, ExitOrder,
         workerVars, collectorVars, daemonVars, exitVars
<1>4. ASSUME NEW t \in Threads, ReleaseRunner(t)
      PROVE  ReclaimsFresh'
  BY <1>4 DEF ReleaseRunner, Finished, ReclaimsFresh, Progressed, PastReclaim, TypeOK, Owners,
         ExitOrder, workerVars, collectorVars, daemonVars, exitVars
<1>5. ASSUME NEW t \in Threads, Prepare(t)
      PROVE  ReclaimsFresh'
  BY <1>5 DEF Prepare, ReclaimsFresh, Progressed, PastReclaim, TypeOK, Owners, ExitOrder,
         workerVars, collectorVars, daemonVars, exitVars
<1>6. ASSUME NEW t \in Threads, EnterLoop(t)
      PROVE  ReclaimsFresh'
  BY <1>6 DEF EnterLoop, ReclaimsFresh, Progressed, PastReclaim, TypeOK, Owners, ExitOrder,
         workerVars, collectorVars, daemonVars, exitVars
<1>7. ASSUME NEW t \in Threads, LeaveLoop(t)
      PROVE  ReclaimsFresh'
  BY <1>7 DEF LeaveLoop, ReclaimsFresh, Progressed, PastReclaim, TypeOK, Owners, ExitOrder,
         workerVars, collectorVars, daemonVars, exitVars
<1>8. ASSUME NEW t \in Threads, ReclaimCurrentThread(t)
      PROVE  ReclaimsFresh'
  <2>1. SUFFICES ASSUME ~destroying PROVE ReclaimsFresh'
    BY <1>8 DEF ReclaimCurrentThread, ReclaimsFresh
  <2>2. /\ thread[t] = "leaving" /\ reclaims' = Append(reclaims, t)
        /\ daemonJoins' = daemonJoins /\ joined' = joined
    BY <1>8, <2>1 DEF ReclaimCurrentThread
  <2>3. /\ t \notin joined /\ t \notin daemonJoins
        /\ \A i \in 1..Len(reclaims) : reclaims[i] # t
    BY <2>2 DEF Progressed, PastReclaim
  <2>4. /\ Len(reclaims) \in Nat /\ Len(reclaims') = Len(reclaims) + 1
        /\ \A i \in 1..Len(reclaims) : reclaims'[i] = reclaims[i]
        /\ reclaims'[Len(reclaims) + 1] = t
    BY <2>2, AppendProperties, LenProperties DEF TypeOK
  <2>5. \A i \in 1..Len(reclaims) :
           /\ reclaims[i] \notin joined /\ reclaims[i] \notin daemonJoins
           /\ \A j \in 1..Len(reclaims) : i # j => reclaims[i] # reclaims[j]
    BY <2>1 DEF ReclaimsFresh
  <2>6. ASSUME NEW i \in 1..Len(reclaims')
        PROVE  /\ reclaims'[i] \notin joined' /\ reclaims'[i] \notin daemonJoins'
               /\ \A j \in 1..Len(reclaims') : i # j => reclaims'[i] # reclaims'[j]
    <3>1. \A j \in 1..Len(reclaims') : j \in 1..Len(reclaims) \/ j = Len(reclaims) + 1
      BY <2>4
    <3>2. QED
      BY <2>2, <2>3, <2>4, <2>5, <3>1
  <2>7. QED
    BY <2>6 DEF ReclaimsFresh
<1>9. ASSUME NEW t \in Threads, TryThreadLock(t)
      PROVE  ReclaimsFresh'
  BY <1>9 DEF TryThreadLock, ReclaimsFresh, Progressed, PastReclaim, TypeOK, Owners, ExitOrder,
         workerVars, collectorVars, daemonVars, exitVars
<1>10. ASSUME NEW t \in Threads, CreateDaemon(t)
      PROVE  ReclaimsFresh'
  BY <1>10 DEF CreateDaemon, ReclaimsFresh, Progressed, PastReclaim, TypeOK, Owners, ExitOrder,
         workerVars, collectorVars, daemonVars, exitVars
<1>11. CASE PopReclaim
  BY <1>11, Popped DEF PopReclaim, ReclaimsFresh, Progressed, PastReclaim, TypeOK, Owners,
         ExitOrder, workerVars, collectorVars, daemonVars, exitVars
<1>12. CASE DaemonJoined
  BY <1>12 DEF DaemonJoined, ReclaimsFresh, Progressed, PastReclaim, TypeOK, Owners, ExitOrder,
         workerVars, collectorVars, daemonVars, exitVars
<1>13. CASE WaitOrEnd
  BY <1>13 DEF WaitOrEnd, ReclaimsFresh, Progressed, PastReclaim, TypeOK, Owners, ExitOrder,
         workerVars, collectorVars, daemonVars, exitVars
<1>14. CASE WakeUp
  BY <1>14 DEF WakeUp, ReclaimsFresh, Progressed, PastReclaim, TypeOK, Owners, ExitOrder,
         workerVars, collectorVars, daemonVars, exitVars
<1>15. CASE WakeSpuriously
  BY <1>15 DEF WakeSpuriously, ReclaimsFresh, Progressed, PastReclaim, TypeOK, Owners,
         ExitOrder, workerVars, collectorVars, daemonVars, exitVars
<1>16. CASE SetDestroying
  BY <1>16 DEF SetDestroying, Notified, ReclaimsFresh, Progressed, PastReclaim, TypeOK, Owners,
         ExitOrder, workerVars, collectorVars, daemonVars, exitVars
<1>17. CASE LockDaemon
  BY <1>17 DEF LockDaemon, ReclaimsFresh, Progressed, PastReclaim, TypeOK, Owners, ExitOrder,
         workerVars, collectorVars, daemonVars, exitVars
<1>18. CASE JoinDaemon
  BY <1>18 DEF JoinDaemon, ReclaimsFresh, Progressed, PastReclaim, TypeOK, Owners, ExitOrder,
         workerVars, collectorVars, daemonVars, exitVars
<1>19. CASE ReclaimNext
  BY <1>19 DEF ReclaimNext, Finished, ReclaimsFresh, Progressed, PastReclaim, TypeOK, Owners,
         ExitOrder, workerVars, collectorVars, daemonVars, exitVars
<1>20. CASE ExitJoined
  BY <1>20 DEF ExitJoined, ReclaimsFresh, Progressed, PastReclaim, TypeOK, Owners, ExitOrder,
         workerVars, collectorVars, daemonVars, exitVars
<1>21. CASE EndExit
  BY <1>21 DEF EndExit, ReclaimsFresh, Progressed, PastReclaim, TypeOK, Owners, ExitOrder,
         workerVars, collectorVars, daemonVars, exitVars
<1>22. QED
  BY <1>1, <1>2, <1>3, <1>4, <1>5, <1>6, <1>7, <1>8, <1>9, <1>10, <1>11, <1>12, <1>13, <1>14,
     <1>15, <1>16, <1>17, <1>18, <1>19, <1>20, <1>21
     DEF Next, Worker, Daemon, Stop

\* Every step of the exit finds the one before it done.
LEMMA ExitStep ==
    ASSUME TypeOK, ExitOrder, Next
    PROVE  ExitOrder'
<1>1. ASSUME NEW t \in Threads, StartThread(t)
      PROVE  ExitOrder'
  BY <1>1 DEF StartThread, ExitOrder, TypeOK, workerVars, collectorVars, daemonVars, exitVars
<1>2. ASSUME NEW t \in Threads, Deposit(t)
      PROVE  ExitOrder'
  BY <1>2 DEF Deposit, Finished, ExitOrder, TypeOK, workerVars, collectorVars, daemonVars,
         exitVars
<1>3. ASSUME NEW t \in Threads, JoinRefused(t)
      PROVE  ExitOrder'
  BY <1>3 DEF JoinRefused, ExitOrder, TypeOK, workerVars, collectorVars, daemonVars, exitVars
<1>4. ASSUME NEW t \in Threads, ReleaseRunner(t)
      PROVE  ExitOrder'
  BY <1>4 DEF ReleaseRunner, Finished, ExitOrder, TypeOK, workerVars, collectorVars,
         daemonVars, exitVars
<1>5. ASSUME NEW t \in Threads, Prepare(t)
      PROVE  ExitOrder'
  BY <1>5 DEF Prepare, ExitOrder, TypeOK, workerVars, collectorVars, daemonVars, exitVars
<1>6. ASSUME NEW t \in Threads, EnterLoop(t)
      PROVE  ExitOrder'
  BY <1>6 DEF EnterLoop, ExitOrder, TypeOK, workerVars, collectorVars, daemonVars, exitVars
<1>7. ASSUME NEW t \in Threads, LeaveLoop(t)
      PROVE  ExitOrder'
  BY <1>7 DEF LeaveLoop, ExitOrder, TypeOK, workerVars, collectorVars, daemonVars, exitVars
<1>8. ASSUME NEW t \in Threads, ReclaimCurrentThread(t)
      PROVE  ExitOrder'
  BY <1>8 DEF ReclaimCurrentThread, Notified, ExitOrder, TypeOK, workerVars, collectorVars,
         daemonVars, exitVars
<1>9. ASSUME NEW t \in Threads, TryThreadLock(t)
      PROVE  ExitOrder'
  BY <1>9 DEF TryThreadLock, ExitOrder, TypeOK, workerVars, collectorVars, daemonVars, exitVars
<1>10. ASSUME NEW t \in Threads, CreateDaemon(t)
      PROVE  ExitOrder'
  BY <1>10 DEF CreateDaemon, ExitOrder, TypeOK, workerVars, collectorVars, daemonVars, exitVars
<1>11. CASE PopReclaim
  BY <1>11 DEF PopReclaim, ExitOrder, TypeOK, workerVars, collectorVars, daemonVars, exitVars
<1>12. CASE DaemonJoined
  BY <1>12 DEF DaemonJoined, ExitOrder, TypeOK, workerVars, collectorVars, daemonVars, exitVars
<1>13. CASE WaitOrEnd
  BY <1>13 DEF WaitOrEnd, ExitOrder, TypeOK, workerVars, collectorVars, daemonVars, exitVars
<1>14. CASE WakeUp
  BY <1>14 DEF WakeUp, ExitOrder, TypeOK, workerVars, collectorVars, daemonVars, exitVars
<1>15. CASE WakeSpuriously
  BY <1>15 DEF WakeSpuriously, ExitOrder, TypeOK, workerVars, collectorVars, daemonVars,
         exitVars
<1>16. CASE SetDestroying
  BY <1>16 DEF SetDestroying, Notified, ExitOrder, TypeOK, workerVars, collectorVars,
         daemonVars, exitVars
<1>17. CASE LockDaemon
  BY <1>17 DEF LockDaemon, ExitOrder, TypeOK, workerVars, collectorVars, daemonVars, exitVars
<1>18. CASE JoinDaemon
  BY <1>18 DEF JoinDaemon, ExitOrder, TypeOK, workerVars, collectorVars, daemonVars, exitVars
<1>19. CASE ReclaimNext
  BY <1>19 DEF ReclaimNext, Finished, ExitOrder, TypeOK, workerVars, collectorVars, daemonVars,
         exitVars
<1>20. CASE ExitJoined
  BY <1>20 DEF ExitJoined, ExitOrder, TypeOK, workerVars, collectorVars, daemonVars, exitVars
<1>21. CASE EndExit
  BY <1>21 DEF EndExit, ExitOrder, TypeOK, workerVars, collectorVars, daemonVars, exitVars
<1>22. QED
  BY <1>1, <1>2, <1>3, <1>4, <1>5, <1>6, <1>7, <1>8, <1>9, <1>10, <1>11, <1>12, <1>13, <1>14,
     <1>15, <1>16, <1>17, <1>18, <1>19, <1>20, <1>21
     DEF Next, Worker, Daemon, Stop

LEMMA InitHolds == Init => IInv
<1> SUFFICES ASSUME Init PROVE IInv
  OBVIOUS
<1>1. reclaims \in Seq(Threads) /\ 1..Len(reclaims) = {}
  BY EmptySeq DEF Init
<1>2. TypeOK
  BY <1>1 DEF Init, TypeOK, ThreadPlaces, CreatorPlaces, DaemonPlaces, ExitPlaces
<1>3. Owners /\ Progressed /\ ReclaimsFresh /\ ExitOrder
  BY <1>1 DEF Init, Owners, Progressed, ReclaimsFresh, ExitOrder
<1>4. QED
  BY <1>2, <1>3 DEF IInv

LEMMA NextHolds == IInv /\ [Next]_vars => IInv'
<1>1. ASSUME IInv, Next PROVE IInv'
  BY <1>1, TypeStep, OwnersStep, ProgressStep, FreshStep, ExitStep DEF IInv
<1>2. ASSUME IInv, UNCHANGED vars PROVE IInv'
  BY <1>2 DEF vars, workerVars, collectorVars, daemonVars, exitVars, IInv, TypeOK, Owners,
              Progressed, ReclaimsFresh, ExitOrder
<1>3. QED
  BY <1>1, <1>2

LEMMA Invariance == Spec => []IInv
BY InitHolds, NextHolds, PTL DEF Spec

-------------------------------------------------------------------------------
\* The collector, the creators, the daemon and the exit agree on who owns and joins each
\* thread, whatever their places: a joinable thread is never dropped nor joined twice.
LEMMA OneOwnerHolds == IInv => OneOwner
<1> SUFFICES ASSUME IInv, NEW t \in Threads, creator[t] # "idle"
             PROVE  Cardinality({p \in {"creator", "map", "daemon", "exit", "joined"} :
                        \/ p = "creator" /\ creator[t] \in {"created", "refused"}
                        \/ p = "map" /\ t \in depositMap
                        \/ p = "daemon" /\ t \in daemonJoins
                        \/ p = "exit" /\ t \in exitJoins
                        \/ p = "joined" /\ t \in joined}) = 1
  BY DEF OneOwner
<1> DEFINE owners == {p \in {"creator", "map", "daemon", "exit", "joined"} :
                        \/ p = "creator" /\ creator[t] \in {"created", "refused"}
                        \/ p = "map" /\ t \in depositMap
                        \/ p = "daemon" /\ t \in daemonJoins
                        \/ p = "exit" /\ t \in exitJoins
                        \/ p = "joined" /\ t \in joined}
<1>1. /\ creator[t] \in {"created", "refused", "done"}
      /\ creator[t] = "done" <=>
             t \in depositMap \/ t \in daemonJoins \/ t \in exitJoins \/ t \in joined
      /\ t \in depositMap => t \notin daemonJoins /\ t \notin exitJoins /\ t \notin joined
      /\ t \in daemonJoins => t \notin exitJoins /\ t \notin joined
      /\ t \in exitJoins => t \notin joined
  BY DEF IInv, TypeOK, CreatorPlaces, Owners
<1>2. \E p : owners = {p}
  <2>1. CASE creator[t] \in {"created", "refused"}
    <3>1. owners = {"creator"}
      BY <1>1, <2>1
    <3>2. QED
      BY <3>1
  <2>2. CASE t \in depositMap
    <3>1. owners = {"map"}
      BY <1>1, <2>2
    <3>2. QED
      BY <3>1
  <2>3. CASE t \in daemonJoins
    <3>1. owners = {"daemon"}
      BY <1>1, <2>3
    <3>2. QED
      BY <3>1
  <2>4. CASE t \in exitJoins
    <3>1. owners = {"exit"}
      BY <1>1, <2>4
    <3>2. QED
      BY <3>1
  <2>5. CASE t \in joined
    <3>1. owners = {"joined"}
      BY <1>1, <2>5
    <3>2. QED
      BY <3>1
  <2>6. QED
    BY <1>1, <2>1, <2>2, <2>3, <2>4, <2>5
<1>3. QED
  <2> HIDE DEF owners
  <2>1. Cardinality(owners) = 1
    BY <1>2, FS_Singleton
  <2>2. QED
    BY <2>1 DEF owners

\* An id in reclaims_ is that of a thread that is still to be joined.
LEMMA NoStaleIdHolds == IInv => NoStaleId
BY DEF IInv, ReclaimsFresh, NoStaleId

\* Past the exit there is neither a daemon nor a deposited thread.
LEMMA ExitIsLast == IInv => NothingRunsAfterExit
<1> SUFFICES ASSUME IInv, exiting = "done" PROVE NothingRunsAfterExit
  BY DEF NothingRunsAfterExit
<1>1. daemon \in {"none", "ended"} /\ depositMap = {} /\ daemonJoins = {} /\ exitJoins = {}
  BY DEF IInv, TypeOK, ExitOrder
<1>2. ASSUME NEW t \in Threads, thread[t] # "none", t \notin joined
      PROVE  creator[t] \in {"created", "refused"}
  BY <1>1, <1>2 DEF IInv, TypeOK, Owners, CreatorPlaces
<1>3. QED
  BY <1>1, <1>2 DEF NothingRunsAfterExit

\* The types of ThreadCollector, and what goes with each place of its threads.
THEOREM TypeCorrect == Spec => []TypeOK
BY Invariance, PTL DEF IInv

\* Every thread has one owner, reclaims_ holds no id twice nor one that is joined, and past
\* the exit nothing runs that was deposited.
THEOREM CollectorIsSafe == Spec => []CollectorSafe
<1>1. IInv => CollectorSafe
  BY OneOwnerHolds, NoStaleIdHolds, ExitIsLast DEF CollectorSafe
<1>2. QED
  BY <1>1, Invariance, PTL
===============================================================================
