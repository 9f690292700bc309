SPECIFICATION Spec
CONSTANTS
    A = A
    B = B
    None = None
    WordSize = 4
    Calls <- MCCalls
INVARIANTS DrawnInside
PROPERTIES ImplementsPixelCopy
\* A call ends.
CHECK_DEADLOCK FALSE
