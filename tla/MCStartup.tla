------------------------------ MODULE MCStartup ------------------------------
(* Instances of Startup: the image's active process, its idle process, a      *)
(* process of a higher priority, and the process made for the code.           *)
EXTENDS Startup

CONSTANTS ui, idle, delayProcess, code

FourProcesses == {ui, idle, delayProcess, code}
FourPriorities ==
    [p \in FourProcesses |->
        CASE p = idle -> 1 [] p = delayProcess -> 3 [] OTHER -> 2]
=============================================================================
