---------------------------- MODULE ThreadCollector ----------------------------
(***************************************************************************)
(* The ThreadCollector of event_runner.cpp: it owns the threads of deposited *)
(* runners, joins those that end, on a daemon thread, and at the exit of the *)
(* process ends and joins the others.                                       *)
(*                                                                          *)
(* A critical section of collectorLock_ is one step.  threadLock_ guards the *)
(* daemon; the exiting thread keeps it while it joins the daemon.           *)
(*                                                                          *)
(* A thread stands for its id.  The system gives an id again only after its  *)
(* thread was joined, and reclaims_ never holds the id of a joined thread    *)
(* (NoStaleId), so ids are not reused in the model.                         *)
(***************************************************************************)
EXTENDS Naturals, FiniteSets, Sequences

CONSTANT Threads    \* the threads of deposited runners

VARIABLES
    thread,       \* where each thread of a runner is
    owner,        \* its EventRunner exists
    finish,       \* EventQueue::finished_ of its runner, and whether a Finish was lost
    creator,      \* where EventRunner::Create is with the thread
    depositMap,   \* depositMap_
    reclaims,     \* reclaims_
    daemon,       \* where ThreadCollector::Run is
    daemonJoins,  \* the thread the daemon joins, if any
    isWaiting,    \* isWaiting_
    destroying,   \* destroying_
    threadLock,   \* who holds threadLock_
    needCreate,   \* needCreateThread_
    exiting,      \* where the destructor of the Avatar is
    exitJoins,    \* the thread it joins, if any
    joined        \* the threads joined so far

workerVars == <<thread, owner, finish, creator>>
collectorVars == <<depositMap, reclaims, destroying>>
daemonVars == <<daemon, daemonJoins, isWaiting>>
exitVars == <<needCreate, exiting, exitJoins>>
vars == <<workerVars, collectorVars, daemonVars, threadLock, exitVars, joined>>

\* A thread starts, has prepared its queue, loops, is past the loop, has put
\* itself in reclaims_, holds threadLock_, and its function has returned.
ThreadPlaces ==
    {"none", "starting", "prepared", "looping", "leaving", "reclaimed", "locking", "gone"}

\* Before Create; between the start of the thread and Deposit; Deposit refused;
\* past Create.
CreatorPlaces == {"idle", "created", "refused", "done"}

DaemonPlaces == {"none", "created", "running", "joining", "waiting", "woken", "ended"}
ExitPlaces == {"idle", "destroying", "joinDaemon", "reclaimAll", "joining", "done"}

\* Types, and what goes with each place of the daemon, of the exit and of the
\* threads that hold threadLock_.
TypeOK ==
    /\ thread \in [Threads -> ThreadPlaces]
    /\ owner \in [Threads -> BOOLEAN]
    /\ finish \in [Threads -> {"no", "asked", "lost"}]
    /\ creator \in [Threads -> CreatorPlaces]
    /\ depositMap \subseteq Threads /\ joined \subseteq Threads
    /\ reclaims \in Seq(Threads)
    /\ daemon \in DaemonPlaces /\ exiting \in ExitPlaces
    /\ daemonJoins \in SUBSET Threads /\ exitJoins \in SUBSET Threads
    /\ isWaiting \in BOOLEAN /\ destroying \in BOOLEAN /\ needCreate \in BOOLEAN
    /\ threadLock \in {"free", "worker", "exit"}
    /\ daemonJoins # {} <=> daemon = "joining"
    /\ exitJoins # {} <=> exiting = "joining"
    /\ isWaiting <=> daemon \in {"waiting", "woken"}
    /\ destroying <=> exiting # "idle"
    /\ needCreate <=> exiting \in {"idle", "destroying", "joinDaemon"}
    /\ threadLock = "exit" <=> exiting = "joinDaemon"
    /\ \A t, u \in Threads : thread[t] = "locking" /\ thread[u] = "locking" => t = u
    /\ threadLock = "worker" <=> \E t \in Threads : thread[t] = "locking"

Init ==
    /\ thread = [t \in Threads |-> "none"]
    /\ owner = [t \in Threads |-> TRUE]
    /\ finish = [t \in Threads |-> "no"]
    /\ creator = [t \in Threads |-> "idle"]
    /\ depositMap = {} /\ reclaims = << >> /\ destroying = FALSE
    /\ daemon = "none" /\ daemonJoins = {} /\ isWaiting = FALSE
    /\ threadLock = "free" /\ needCreate = TRUE
    /\ exiting = "idle" /\ exitJoins = {}
    /\ joined = {}

\* EventQueue::Finish
Finished(t) == [finish EXCEPT ![t] = "asked"]

\* condition_ is notified, if the daemon waits on it.
Notified == IF isWaiting THEN "woken" ELSE daemon

-------------------------------------------------------------------------------
(* The creator of a runner, and its last owner. *)

StartThread(t) ==
    /\ creator[t] = "idle"
    /\ creator' = [creator EXCEPT ![t] = "created"]
    /\ thread' = [thread EXCEPT ![t] = "starting"]
    /\ UNCHANGED <<owner, finish, collectorVars, daemonVars, threadLock, exitVars, joined>>

\* Attach: the creator ends a thread that is refused.
Deposit(t) ==
    /\ creator[t] = "created"
    /\ \/ /\ ~destroying
          /\ creator' = [creator EXCEPT ![t] = "done"]
          /\ depositMap' = depositMap \cup {t}
          /\ UNCHANGED finish
       \/ /\ destroying
          /\ creator' = [creator EXCEPT ![t] = "refused"]
          /\ finish' = Finished(t)
          /\ UNCHANGED depositMap
    /\ UNCHANGED <<thread, owner, reclaims, destroying, daemonVars, threadLock, exitVars, joined>>

\* It joins that thread.
JoinRefused(t) ==
    /\ creator[t] = "refused"
    /\ thread[t] = "gone"
    /\ creator' = [creator EXCEPT ![t] = "done"]
    /\ joined' = joined \cup {t}
    /\ UNCHANGED <<thread, owner, finish, collectorVars, daemonVars, threadLock, exitVars>>

\* ~EventRunner of a deposited runner.
ReleaseRunner(t) ==
    /\ creator[t] = "done" /\ owner[t]
    /\ owner' = [owner EXCEPT ![t] = FALSE]
    /\ finish' = Finished(t)
    /\ UNCHANGED <<thread, creator, collectorVars, daemonVars, threadLock, exitVars, joined>>

-------------------------------------------------------------------------------
(* The thread of a runner. *)

\* EventQueue::Prepare takes back a Finish that came first.
Prepare(t) ==
    /\ thread[t] = "starting"
    /\ thread' = [thread EXCEPT ![t] = "prepared"]
    /\ finish' = [finish EXCEPT ![t] = IF @ = "asked" THEN "lost" ELSE @]
    /\ UNCHANGED <<owner, creator, collectorVars, daemonVars, threadLock, exitVars, joined>>

EnterLoop(t) ==
    /\ thread[t] = "prepared" /\ owner[t]
    /\ thread' = [thread EXCEPT ![t] = "looping"]
    /\ UNCHANGED <<owner, finish, creator, collectorVars, daemonVars, threadLock, exitVars,
                   joined>>

\* The loop ends, or the runner was gone before it began.
LeaveLoop(t) ==
    /\ \/ thread[t] \in {"starting", "prepared"} /\ ~owner[t]
       \/ thread[t] = "looping" /\ finish[t] = "asked"
    /\ thread' = [thread EXCEPT ![t] = "leaving"]
    /\ UNCHANGED <<owner, finish, creator, collectorVars, daemonVars, threadLock, exitVars,
                   joined>>

\* ReclaimCurrentThread, its part under collectorLock_.
ReclaimCurrentThread(t) ==
    /\ thread[t] = "leaving"
    /\ \/ /\ destroying
          /\ thread' = [thread EXCEPT ![t] = "gone"]
          /\ UNCHANGED <<reclaims, daemon>>
       \/ /\ ~destroying
          /\ thread' = [thread EXCEPT ![t] = "reclaimed"]
          /\ reclaims' = Append(reclaims, t)
          /\ daemon' = Notified
    /\ UNCHANGED <<owner, finish, creator, depositMap, destroying, daemonJoins, isWaiting,
                   threadLock, exitVars, joined>>

\* Mutant: the thread waits for threadLock_.
WaitForThreadLock(t) ==
    /\ thread[t] = "reclaimed"
    /\ threadLock = "free"
    /\ thread' = [thread EXCEPT ![t] = "locking"]
    /\ threadLock' = "worker"
    /\ UNCHANGED <<owner, finish, creator, collectorVars, daemonVars, exitVars, joined>>

\* threadLock_ is only tried: whoever holds it sees to the daemon.
TryThreadLock(t) ==
    /\ thread[t] = "reclaimed"
    /\ thread' = [thread EXCEPT ![t] = IF threadLock = "free" THEN "locking" ELSE "gone"]
    /\ threadLock' = IF threadLock = "free" THEN "worker" ELSE threadLock
    /\ UNCHANGED <<owner, finish, creator, collectorVars, daemonVars, exitVars, joined>>

\* The first thread starts the daemon; the function of this thread returns.
CreateDaemon(t) ==
    /\ thread[t] = "locking"
    /\ thread' = [thread EXCEPT ![t] = "gone"]
    /\ daemon' = IF daemon = "none" /\ needCreate THEN "created" ELSE daemon
    /\ threadLock' = "free"
    /\ UNCHANGED <<owner, finish, creator, collectorVars, daemonJoins, isWaiting, exitVars,
                   joined>>

Worker(t) ==
    \/ Prepare(t) \/ EnterLoop(t) \/ LeaveLoop(t)
    \/ ReclaimCurrentThread(t) \/ TryThreadLock(t) \/ CreateDaemon(t)

-------------------------------------------------------------------------------
(* The daemon. *)

\* Mutant of PopReclaim: the id is popped only when it is not found any more.
PopReclaimLate ==
    /\ daemon = "running" /\ reclaims # << >>
    /\ LET t == reclaims[Len(reclaims)]
           found == t \in depositMap
       IN  /\ depositMap' = depositMap \ {t}
           /\ daemonJoins' = IF found THEN {t} ELSE {}
           /\ daemon' = IF found THEN "joining" ELSE "running"
           /\ reclaims' = IF found THEN reclaims ELSE SubSeq(reclaims, 1, Len(reclaims) - 1)
    /\ UNCHANGED <<workerVars, destroying, isWaiting, threadLock, exitVars, joined>>

\* Run, in the loop over reclaims_: DoReclaimLocked erases the thread and joins
\* it without the lock.  A thread that has not been deposited yet is passed
\* over, and only the exit of the process joins it.
PopReclaim ==
    /\ daemon = "running" /\ reclaims # << >>
    /\ LET t == reclaims[Len(reclaims)]
           found == t \in depositMap
       IN  /\ depositMap' = depositMap \ {t}
           /\ daemonJoins' = IF found THEN {t} ELSE {}
           /\ daemon' = IF found THEN "joining" ELSE "running"
    /\ reclaims' = SubSeq(reclaims, 1, Len(reclaims) - 1)
    /\ UNCHANGED <<workerVars, destroying, isWaiting, threadLock, exitVars, joined>>

DaemonJoined ==
    /\ daemon = "joining"
    /\ \A t \in daemonJoins : thread[t] = "gone"
    /\ joined' = joined \cup daemonJoins
    /\ daemon' = "running"
    /\ daemonJoins' = {}
    /\ UNCHANGED <<workerVars, collectorVars, isWaiting, threadLock, exitVars>>

\* Nothing is left to reclaim.
WaitOrEnd ==
    /\ daemon = "running" /\ reclaims = << >>
    /\ daemon' = IF destroying THEN "ended" ELSE "waiting"
    /\ isWaiting' = ~destroying
    /\ UNCHANGED <<workerVars, collectorVars, daemonJoins, threadLock, exitVars, joined>>

\* The loop of Run begins, or its wait is over: destroying_ is looked at before
\* reclaims_.
WakeUp ==
    /\ daemon \in {"created", "woken"}
    /\ daemon' = IF destroying THEN "ended" ELSE "running"
    /\ isWaiting' = FALSE
    /\ UNCHANGED <<workerVars, collectorVars, daemonJoins, threadLock, exitVars, joined>>

\* A condition variable may wake up by itself.
WakeSpuriously ==
    /\ daemon = "waiting"
    /\ daemon' = "woken"
    /\ UNCHANGED <<workerVars, collectorVars, daemonJoins, isWaiting, threadLock, exitVars,
                   joined>>

Daemon == PopReclaim \/ DaemonJoined \/ WaitOrEnd \/ WakeUp

-------------------------------------------------------------------------------
(* The exit of the process: Stop, called by the destructor of the Avatar. *)

SetDestroying ==
    /\ exiting = "idle"
    /\ exiting' = "destroying"
    /\ destroying' = TRUE
    /\ daemon' = Notified
    /\ UNCHANGED <<workerVars, depositMap, reclaims, daemonJoins, isWaiting, threadLock,
                   needCreate, exitJoins, joined>>

\* Stop takes threadLock_.
LockDaemon ==
    /\ exiting = "destroying" /\ threadLock = "free"
    /\ exiting' = "joinDaemon"
    /\ threadLock' = "exit"
    /\ UNCHANGED <<workerVars, collectorVars, daemonVars, needCreate, exitJoins, joined>>

\* Mutant: needCreateThread_ stays as it is.
JoinDaemonOnly ==
    /\ exiting = "joinDaemon" /\ daemon \in {"none", "ended"}
    /\ exiting' = "reclaimAll"
    /\ threadLock' = "free"
    /\ UNCHANGED <<workerVars, collectorVars, daemonVars, needCreate, exitJoins, joined>>

\* The daemon, if there is one, has ended, and there will be no other.
JoinDaemon ==
    /\ exiting = "joinDaemon" /\ daemon \in {"none", "ended"}
    /\ exiting' = "reclaimAll"
    /\ threadLock' = "free"
    /\ needCreate' = FALSE
    /\ UNCHANGED <<workerVars, collectorVars, daemonVars, exitJoins, joined>>

\* ReclaimAll takes the next thread; the order of the map is not known.
ReclaimNext ==
    /\ exiting = "reclaimAll"
    /\ \E t \in depositMap :
          /\ depositMap' = depositMap \ {t}
          /\ exitJoins' = {t}
          /\ exiting' = "joining"
          /\ finish' = Finished(t)
    /\ UNCHANGED <<thread, owner, creator, reclaims, destroying, daemonVars, threadLock,
                   needCreate, joined>>

ExitJoined ==
    /\ exiting = "joining"
    /\ \A t \in exitJoins : thread[t] = "gone"
    /\ joined' = joined \cup exitJoins
    /\ exiting' = "reclaimAll"
    /\ exitJoins' = {}
    /\ UNCHANGED <<workerVars, collectorVars, daemonVars, threadLock, needCreate>>

EndExit ==
    /\ exiting = "reclaimAll" /\ depositMap = {}
    /\ exiting' = "done"
    /\ UNCHANGED <<workerVars, collectorVars, daemonVars, threadLock, needCreate, exitJoins,
                   joined>>

Stop == LockDaemon \/ JoinDaemon \/ ReclaimNext \/ ExitJoined \/ EndExit

-------------------------------------------------------------------------------
Next ==
    \/ \E t \in Threads :
          \/ StartThread(t) \/ Deposit(t) \/ JoinRefused(t) \/ ReleaseRunner(t)
          \/ Worker(t)
    \/ Daemon \/ WakeSpuriously
    \/ SetDestroying \/ Stop

Spec == Init /\ [][Next]_vars

-------------------------------------------------------------------------------
(* What the collector promises. *)

\* A thread object belongs to one party at a time: to its creator, to the map,
\* to the daemon or the exit while they join it.  It is never dropped while it
\* is joinable, which would end the process, and it is joined once.
OneOwner ==
    \A t \in Threads :
        creator[t] # "idle" =>
            Cardinality({p \in {"creator", "map", "daemon", "exit", "joined"} :
                \/ p = "creator" /\ creator[t] \in {"created", "refused"}
                \/ p = "map" /\ t \in depositMap
                \/ p = "daemon" /\ t \in daemonJoins
                \/ p = "exit" /\ t \in exitJoins
                \/ p = "joined" /\ t \in joined}) = 1

\* An id in reclaims_ is there once and is not that of a joined thread, which
\* the system may have given to another one.  (Nothing is deposited any more
\* once the exit has begun.)
NoStaleId ==
    ~destroying => \A i \in 1..Len(reclaims) :
        /\ reclaims[i] \notin joined
        /\ \A j \in 1..Len(reclaims) : i # j => reclaims[i] # reclaims[j]

\* After Stop no deposited thread and no daemon runs: what the collector and
\* the runners use may be destroyed.
NothingRunsAfterExit ==
    exiting = "done" =>
        /\ daemon \in {"none", "ended"}
        /\ \A t \in Threads : thread[t] # "none" /\ t \notin joined =>
                                  creator[t] \in {"created", "refused"}

\* The three together.
CollectorSafe == OneOwner /\ NoStaleId /\ NothingRunsAfterExit

\* A deposited thread that ends is joined, though the process goes on.
EndedIsJoined ==
    \A t \in Threads :
        thread[t] = "leaving" /\ t \in depositMap ~> t \in joined \/ destroying

\* The exit comes to its end, unless a thread has lost the Finish it was sent
\* before it was ready (EventLoop, StopIsObeyed).
ExitEnds ==
    exiting # "idle" ~> exiting = "done" \/ \E t \in exitJoins : finish[t] = "lost"

\* Both: what the collector has to join, it joins.
CollectorEnds == EndedIsJoined /\ ExitEnds
=============================================================================
