-------------------------- MODULE MCTimerInterrupts --------------------------
(* A small instance of TimerInterrupts: an idle process, a worker and the     *)
(* process that waits for the timer, at three priorities.                     *)
EXTENDS TimerInterrupts

CONSTANTS idle, worker, delayProcess

ThreeProcesses == {idle, worker, delayProcess}
ThreePriorities ==
    [p \in ThreeProcesses |->
        CASE p = idle -> 1 [] p = worker -> 2 [] OTHER -> 3]
=============================================================================
