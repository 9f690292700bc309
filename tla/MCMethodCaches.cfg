SPECIFICATION Spec
CONSTANTS
    Classes = {A, B}
    Selectors = {s1, s2}
    Methods = {m1, m2}
    Updaters = {p}
    ImageDoes = {"grow"}
    MaxMade = 3
    Nil = Nil
SYMMETRY Symmetry
INVARIANTS ChangesAreNoticed SendsFindCurrentMethods CompiledSendsCurrent NoClassShadowError
CHECK_DEADLOCK FALSE
