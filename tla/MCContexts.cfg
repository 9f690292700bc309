SPECIFICATION Spec
CONSTANTS
    MaxContexts = 4
    Nil = Nil
    ImageDoes = {"switch", "switch_cleanup", "return_unwind", "sender", "stray", "orphan"}
INVARIANTS FramesMatchStates SendersMatchFrames ReturnsArrive
CHECK_DEADLOCK FALSE
