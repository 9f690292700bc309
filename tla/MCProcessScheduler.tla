-------------------------- MODULE MCProcessScheduler --------------------------
(* Instances of ProcessScheduler for TLC.                                     *)
EXTENDS ProcessScheduler

CONSTANTS p1, p2, p3, p4, p5, p6

\* An idle process at the lowest priority, two processes that share the next
\* one, and one process alone at the top priority.
FourProcesses == {p1, p2, p3, p4}
IdleSharedTop ==
    [p \in FourProcesses |-> CASE p = p4 -> 1 [] p = p3 -> 3 [] OTHER -> 2]

\* Four processes that share one ready list, so that three of them can be in
\* it at once, and two processes of the top priority, which has no list.
SixProcesses == {p1, p2, p3, p4, p5, p6}
SharedAndTwoTop == [p \in SixProcesses |-> IF p \in {p5, p6} THEN 2 ELSE 1]
=============================================================================
