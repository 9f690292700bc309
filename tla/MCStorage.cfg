SPECIFICATION Spec
CONSTANTS
    Array = Array
    WeakArray = WeakArray
    a = a
    b = b
    i = i
    Object = {a, b}
    Class = {Array, WeakArray}
    SmallInteger = {i, maxint}
    Float = {f, maxfloat}
    MaxInt = maxint
    MaxFloat = maxfloat
    Nil = Nil
    Dead = Dead
    instsize <- MCinstsize
    isvariable <- MCisvariable
    isweak <- MCisweak
    MaxSize = 2
    Spans <- MCSpans
    BecomeArrays <- MCBecomeArrays
SYMMETRY Symmetry
INVARIANTS StoragesSound BulkStoresArrive FailedBecomeUndone
PROPERTIES ImplementsMemory
