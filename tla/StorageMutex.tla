---------------------------- MODULE StorageMutex ----------------------------
(* What slhwid promises of its storage lock: "A short-lived interprocess    *)
(* lock serializes enrollment and refresh" (README): at most one process    *)
(* is inside prepare's or commit's critical section.                        *)
EXTENDS FiniteSets

CONSTANT Processes
VARIABLE inside   \* the processes in the critical section

Init == inside = {}

Acquire(p) == inside = {} /\ inside' = {p}
Leave(p)   == p \in inside /\ inside' = inside \ {p}

Next == \E p \in Processes : Acquire(p) \/ Leave(p)
Spec == Init /\ [][Next]_inside
=============================================================================
