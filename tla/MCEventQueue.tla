----------------------------- MODULE MCEventQueue -----------------------------
(* An instance of EventQueuePasses for TLC: three events, which may compete. *)
EXTENDS EventQueuePasses, TLC

CONSTANTS e1, e2, e3

MCEvents == {e1, e2, e3}
MCFilters == {{e} : e \in MCEvents}
MCSymmetry == Permutations(MCEvents)

\* One of the two middle priorities stands for both.
MCSendable == SubQueues \ {IMMEDIATE}
===============================================================================
