SPECIFICATION Spec
CONSTANTS
    Context = {c, d}
    Object = {nil, true}
    Nil = nil
    True = true
    False = false
    FrameSize = 3
    MaxArgs = 2
    MaxTemps = 1
    MaxListed = 1
    MaxArrays = 1
    MaxBoxes = 1
    PerformOutcome = {"primitive", "method"}
SYMMETRY Symmetry
INVARIANTS SlotsSound
PROPERTIES ImplementsEvaluation
