---------------------------- MODULE RejectionManager ----------------------------
(***************************************************************************)
(* The observers of unhandled rejections of one JavaScript thread             *)
(* (js_error_manager.cpp).  The engine reports promises that are rejected and *)
(* promises that get a handler after all, and asks from time to time for what *)
(* is pending to be told to the observers.  Observers are JavaScript: while    *)
(* one runs, promises are rejected and handled, and observers come and go.     *)
(* Both containers are ordered by the addresses of references, so that a new   *)
(* element may be anywhere in them.                                           *)
(***************************************************************************)
EXTENDS Integers, SequencesExt

CONSTANTS Promises, Functions

VARIABLES
    pending,    \* pendingUnHandledRejections, in the order of the map
    observers,  \* unhandledRejectionObservers, in the order of the set
    settled,    \* per promise: "pending", "rejected" or "handled"
    promiseAt,  \* the element of pending that is told; 0 if none is
    observerAt, \* the observer that is told, or told next
    calling,    \* it is running
    due,        \* per promise: who has been an observer since before it was first told
    told,       \* per promise and observer: how often it was told (2 for more)
    done,       \* promises whose turn is over, and that were erased
    cut,        \* per promise: "threw" if one of its observers threw, "refused" if the engine
                \* refused to call one
    refusing,   \* external: an exception is pending in the engine, which calls nobody until
                \* the check is over
    dangling    \* the element that an iterator points to was erased

vars == <<pending, observers, settled, promiseAt, observerAt, calling, due, told, done, cut, refusing,
          dangling>>

TypeOK ==
    /\ pending \in Seq(Promises) /\ IsInjective(pending)
    /\ observers \in Seq(Functions) /\ IsInjective(observers)
    /\ settled \in [Promises -> {"pending", "rejected", "handled"}]
    /\ promiseAt \in 0 .. Len(pending)
    /\ observerAt \in 1 .. Len(observers) + 1
    /\ calling \in BOOLEAN /\ dangling \in BOOLEAN
    /\ due \in [Promises -> SUBSET Functions]
    /\ told \in [Promises \X Functions -> 0 .. 2]
    /\ done \in SUBSET Promises
    /\ cut \in [Promises -> {"none", "threw", "refused"}] /\ refusing \in BOOLEAN

Init ==
    /\ pending = << >> /\ observers = << >>
    /\ settled = [p \in Promises |-> "pending"]
    /\ promiseAt = 0 /\ observerAt = 1 /\ calling = FALSE
    /\ due = [p \in Promises |-> {}]
    /\ told = [x \in Promises \X Functions |-> 0]
    /\ done = {} /\ dangling = FALSE
    /\ cut = [p \in Promises |-> "none"] /\ refusing = FALSE

\* JavaScript runs: an observer, or anything else between two checks.  What follows the
\* use of an erased element is undefined.
Script == (calling \/ promiseAt = 0) /\ ~dangling

IndexIn(s, x) == CHOOSE k \in DOMAIN s : s[k] = x

\* What std::set::erase leaves of a set that x may be in.
Without(s, x) == IF x \in ToSet(s) THEN RemoveAt(s, IndexIn(s, x)) ELSE s

\* Where an iterator at position i is after an element was inserted or erased at k.
AfterInsert(i, k) == IF k <= i THEN i + 1 ELSE i
AfterErase(i, k) == IF k < i THEN i - 1 ELSE i

\* OnUnhandledRejection with REJECT: AddRejection.
AddRejection(p) ==
    /\ Script /\ settled[p] = "pending"
    /\ settled' = [settled EXCEPT ![p] = "rejected"]
    /\ \E k \in 1 .. Len(pending) + 1 :
        /\ pending' = InsertAt(pending, k, p)
        /\ promiseAt' = IF promiseAt = 0 THEN 0 ELSE AfterInsert(promiseAt, k)
    /\ UNCHANGED <<observers, observerAt, calling, due, told, done, cut, refusing, dangling>>

\* OnUnhandledRejection with HANDLE: RemoveRejection, if the promise is still there.
RemoveRejection(p) ==
    /\ Script /\ settled[p] = "rejected"
    /\ settled' = [settled EXCEPT ![p] = "handled"]
    /\ \/ /\ p \notin ToSet(pending)
          /\ UNCHANGED <<pending, promiseAt, dangling>>
       \/ \E k \in DOMAIN pending :
            /\ pending[k] = p
            /\ pending' = RemoveAt(pending, k)
            /\ promiseAt' = IF k = promiseAt THEN 0 ELSE AfterErase(promiseAt, k)
            /\ dangling' = (k = promiseAt)
    /\ UNCHANGED <<observers, observerAt, calling, due, told, done, cut, refusing>>

\* An observer that is there is erased.
EraseObserver(f) ==
    LET k == IndexIn(observers, f) IN
    /\ dangling' = (calling /\ k = observerAt)
    /\ due' = [p \in Promises |-> due[p] \ {f}]

\* OffUnhandledRejection with a function.
Off(f) ==
    /\ Script /\ f \in ToSet(observers)
    /\ EraseObserver(f)
    /\ observers' = Without(observers, f)
    /\ observerAt' = AfterErase(observerAt, IndexIn(observers, f))
    /\ UNCHANGED <<pending, settled, promiseAt, calling, told, done, cut, refusing>>

\* OffUnhandledRejection without one.
OffAll ==
    /\ Script /\ observers # << >>
    /\ dangling' = calling
    /\ due' = [p \in Promises |-> {}]
    /\ observers' = << >> /\ observerAt' = 1
    /\ UNCHANGED <<pending, settled, promiseAt, calling, told, done, cut, refusing>>

\* OnUnhandledRejection: the reference of a function that is there is replaced.
On(f) ==
    /\ Script
    /\ LET rest == Without(observers, f)
           at == IF f \in ToSet(observers)
                 THEN AfterErase(observerAt, IndexIn(observers, f)) ELSE observerAt
       IN \E k \in 1 .. Len(rest) + 1 :
            /\ observers' = InsertAt(rest, k, f)
            /\ observerAt' = IF calling THEN AfterInsert(at, k) ELSE at
    /\ \/ f \in ToSet(observers) /\ EraseObserver(f)
       \/ f \notin ToSet(observers) /\ UNCHANGED <<due, dangling>>
    /\ UNCHANGED <<pending, settled, promiseAt, calling, told, done, cut, refusing>>

-------------------------------------------------------------------------------
\* NotifyUnhandledRejectionHandler goes to a promise and to its first observer.
GoTo(i, promises) ==
    /\ promiseAt' = i
    /\ observerAt' = 1
    /\ due' = IF i = 0 THEN due ELSE [due EXCEPT ![promises[i]] = ToSet(observers)]

NotifyUnhandledRejectionHandler ==
    /\ promiseAt = 0 /\ ~calling /\ ~dangling /\ pending # << >>
    /\ GoTo(1, pending)
    /\ UNCHANGED <<pending, observers, settled, calling, told, done, cut, refusing, dangling>>

\* The loop of UnhandledRejectionHandler has not been left yet.
Telling == promiseAt # 0 /\ ~calling /\ cut[pending[promiseAt]] = "none"

\* UnhandledRejectionHandler calls the next observer.
CallObserver ==
    /\ Telling /\ observerAt <= Len(observers) /\ ~refusing
    /\ calling' = TRUE
    /\ told' = [told EXCEPT ![<<pending[promiseAt], observers[observerAt]>>] = IF @ = 0 THEN 1 ELSE 2]
    /\ UNCHANGED <<pending, observers, settled, promiseAt, observerAt, due, done, cut, refusing, dangling>>

ObserverReturns ==
    /\ calling /\ ~dangling
    /\ calling' = FALSE
    /\ observerAt' = observerAt + 1
    /\ UNCHANGED <<pending, observers, settled, promiseAt, due, told, done, cut, refusing, dangling>>

\* NAPI_CALL returns for an observer that throws: nobody after it is called.  (What an
\* observer leaves behind that took itself away and then throws is not followed.)
ObserverThrows ==
    /\ calling /\ ~dangling
    /\ calling' = FALSE
    /\ observerAt' = observerAt + 1
    /\ cut' = [cut EXCEPT ![pending[promiseAt]] = "threw"]
    /\ refusing' \in BOOLEAN
    /\ UNCHANGED <<pending, observers, settled, promiseAt, due, told, done, dangling>>

\* And for one that the engine does not call, while the exception is pending.
CallIsRefused ==
    /\ Telling /\ observerAt <= Len(observers) /\ refusing
    /\ cut' = [cut EXCEPT ![pending[promiseAt]] = "refused"]
    /\ UNCHANGED <<pending, observers, settled, promiseAt, observerAt, calling, due, told, done,
                   refusing, dangling>>

\* Mutant of AfterTold: the map is cleared once its last element was told.
AllAfterTold == IF promiseAt = Len(pending) THEN << >> ELSE RemoveAt(pending, promiseAt)

\* What is left of the map: everything but the promise that all observers were told of.
AfterTold == RemoveAt(pending, promiseAt)

\* The promise is erased, whether all observers were told or not, and the iterator goes on to
\* the next one; the exception goes with the end of the check.
ErasePromise ==
    /\ promiseAt # 0 /\ ~calling
    /\ observerAt > Len(observers) \/ cut[pending[promiseAt]] # "none"
    /\ pending' = AfterTold
    /\ done' = done \cup {pending[promiseAt]}
    /\ GoTo(IF promiseAt = Len(pending) THEN 0 ELSE promiseAt, pending')
    /\ refusing' = (refusing /\ promiseAt' # 0)
    /\ UNCHANGED <<observers, settled, calling, told, cut, dangling>>

Next ==
    \/ \E p \in Promises : AddRejection(p) \/ RemoveRejection(p)
    \/ \E f \in Functions : On(f) \/ Off(f)
    \/ OffAll
    \/ NotifyUnhandledRejectionHandler \/ CallObserver \/ ObserverReturns
    \/ ObserverThrows \/ CallIsRefused \/ ErasePromise

Spec == Init /\ [][Next]_vars

-------------------------------------------------------------------------------
\* Whatever observers do while they are told, short of taking away the promise or the
\* observer the iterators point to: no rejection is lost, none that is handled is told, and
\* who observed from the start is told once, or never if an observer before it threw, of this
\* promise or of one before it in the same check.
RejectionsTold ==
    ~dangling =>
        \A p \in Promises :
            /\ settled[p] = "rejected" => p \in ToSet(pending) \cup done
            /\ p \in ToSet(pending) => settled[p] = "rejected" /\ p \notin done
            /\ \A f \in due[p] :
                /\ told[<<p, f>>] <= 1
                /\ p \in done => told[<<p, f>>] = 1 \/ cut[p] # "none"
            /\ cut[p] = "threw" => \E f \in Functions : told[<<p, f>>] >= 1
            /\ cut[p] = "refused" => \E q \in Promises \ {p} : cut[q] = "threw"
================================================================================
