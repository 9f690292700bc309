SPECIFICATION Spec
CONSTANTS
    MaxContexts = 6
    Nil = Nil
    ImageDoes = {"switch", "return_cleanup"}
INVARIANTS NoReturnedContextRuns CleanupRuns EndsForAReason
CHECK_DEADLOCK FALSE
