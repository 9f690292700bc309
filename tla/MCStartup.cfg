\* The VM stops on an error: StartupNext is then disabled.
CHECK_DEADLOCK FALSE
SPECIFICATION StartupSpec
CONSTANTS
    ui = ui
    idle = idle
    delayProcess = delayProcess
    code = code
    Nil = Nil
    Process <- FourProcesses
    Semaphore = {s1, s2}
    NumLists = 4
    priority <- FourPriorities
    Initial = ui
    NumFrames = 2
    MaxExcess = 1
    SuspendScope = {"first", "last", "blocked"}
    ResumeQueued = FALSE
    NewProcess = code
INVARIANTS RunnableHaveContext
PROPERTIES ImageContextKept
