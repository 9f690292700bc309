\* The VM stops on an error: Next is then disabled.
CHECK_DEADLOCK FALSE
SPECIFICATION Spec
CONSTANTS
    p1 = p1
    p2 = p2
    p3 = p3
    p4 = p4
    p5 = p5
    p6 = p6
    Nil = Nil
    Process <- SixProcesses
    Semaphore = {s1}
    NumLists = 2
    priority <- SharedAndTwoTop
    Initial = p1
    NumFrames = 1
    MaxExcess = 1
    SuspendScope = {"first", "last", "inner"}
    ResumeQueued = FALSE
INVARIANTS ListsSound SuspendedStaysOut
