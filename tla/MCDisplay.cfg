SPECIFICATION Spec
CONSTANTS
    Forms = {f1, f2}
    Extents <- SomeExtents
    Ink = {ink}
    Blank = Blank
    None = None
    Keys <- SomeKeys
    Buttons = {1, 3}
    Points <- SomePoints
    InterruptKeys <- Interrupts_
    MaxInputs = 3
    MaxSteps = 4
    MaxMixed = 1
    ImageDoes = {}
INVARIANTS ScreenSound EventsInOrder KeysTakenInOrder
PROPERTIES ButtonsAsHeld WhatIsDrawnIsShown
\* Image and user may stop.
CHECK_DEADLOCK FALSE
