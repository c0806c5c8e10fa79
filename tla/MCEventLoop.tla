------------------------------ MODULE MCEventLoop ------------------------------
(* Instances of EventLoop for TLC. *)
EXTENDS EventLoop, TLC

CONSTANTS e1, e2, s1, s2

MCEvents == {e1, e2}
MCFilters == {{e} : e \in MCEvents}
MCStoppers == {s1, s2}
MCSymmetry == Permutations(MCEvents) \cup Permutations(MCStoppers)

\* A sub queue and the idle events: LOW and IDLE of EventQueue, by value because
\* the instance Q depends on this constant.
MCSendable == {3, 4}

MCOneEvent == {e1}
MCOneStopper == {s1}

===============================================================================
