\* The VM stops on an error: Next is then disabled.
CHECK_DEADLOCK FALSE
SPECIFICATION Spec
CONSTANTS
    p1 = p1
    p2 = p2
    p3 = p3
    p4 = p4
    p5 = p5
    p6 = p6
    Nil = Nil
    Process <- FourProcesses
    Semaphore = {s1, s2}
    NumLists = 3
    priority <- IdleSharedTop
    Initial = p1
    NumFrames = 2
    MaxExcess = 1
    SuspendScope = {"first", "last", "blocked"}
    ResumeQueued = FALSE
INVARIANTS TypeOK NoProcessLost FailuresJustified PriorityRespected
PROPERTIES ImplementsQueues
