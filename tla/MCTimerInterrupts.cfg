\* The VM stops on an error: only the clock then goes on, and it is bounded.
CHECK_DEADLOCK FALSE
SPECIFICATION TimerSpec
CONSTANTS
    idle = idle
    worker = worker
    delayProcess = delayProcess
    Nil = Nil
    Process <- ThreeProcesses
    Semaphore = {s1, s2}
    NumLists = 4
    priority <- ThreePriorities
    Initial = worker
    NumFrames = 1
    MaxExcess = 1
    SuspendScope = {}
    ResumeQueued = FALSE
    CounterSize = 2
    MaxClock = 2
    MaxTraceStep = 2
PROPERTIES TimerFires TimerWakesWaiter InterruptConsumesTick
