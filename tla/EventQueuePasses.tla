--------------------------- MODULE EventQueuePasses ---------------------------
(***************************************************************************)
(* EventQueue with a history variable that counts how often the front of a *)
(* sub queue is passed over while it competes, and the bound that the      *)
(* turns of handledEventsCount put on that.                                *)
(***************************************************************************)
EXTENDS EventQueue

VARIABLE passes

PassesVars == <<vars, passes>>

PassesInit == Init /\ passes = [p \in SubQueues |-> 0]

\* The sub queue the step picks from, if it picks from one.
Picked == {q \in SubQueues : PickEvent(q)}

\* A pass is counted for a list that competes and is not picked from; the
\* count starts again once the list is picked from or does not compete.
PassesNext ==
    /\ Next
    /\ LET picked == Picked
       IN  passes' = [p \in SubQueues |->
                         IF picked = {} THEN passes[p]
                         ELSE IF p \notin picked /\ Candidate(p) THEN passes[p] + 1
                         ELSE 0]

PassesSpec == PassesInit /\ [][PassesNext]_PassesVars

\* Every list that is in use multiplies the turns of the lists before it.
Factor(q, p) == IF q < p /\ q \in Sendable THEN MaxHandled + 1 ELSE 1

\* The longest run of picks from the lists before p.
TurnsBefore(p) == Factor(HIGH, p) * (Factor(IMMEDIATE, p) * Factor(VIP, p)) - 1

\* "To avoid starvation of lower priority event queue": an event that competes
\* is passed over a bounded number of times, however many more urgent events
\* keep arriving.  A pick from a list after p, which p has to grant once its
\* own turns are used up, gives the lists before p all their turns again.
BoundedPasses ==
    \A p \in SubQueues :
        passes[p] <= IF \E q \in Sendable \cap SubQueues : p < q THEN 2 * TurnsBefore(p) + 1
                     ELSE TurnsBefore(p)
===============================================================================
