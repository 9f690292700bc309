SPECIFICATION Spec
CONSTANTS
    nil = nil
    true = true
    display = display
    doesNotUnderstand = doesNotUnderstand
    Float = Float
    LargePositiveInteger = LargePositiveInteger
    SmallInteger = SmallInteger
    BlockClosure = BlockClosure
    Metaclass = Metaclass
    asSymbol = asSymbol
    Images <- MCImages
    ObjectSlots <- MCObjectSlots
    ClassSlots <- MCClassSlots
    Prebuilt = {nil, true, Float, LargePositiveInteger, SmallInteger, BlockClosure}
    CompactClassesArray = 8
    CompactClasses = 2
    PossibleOffset = 512
    DnuBytes <- MCDnuBytes
    AsSymbolBytes <- MCAsSymbolBytes
    MaxInt = 1073741823
    MaxFloat <- MCMaxFloat
\* Reading ends, one way or the other.
INVARIANTS ImageAsWritten DamagedRefused
PROPERTIES ImagesLoad
CHECK_DEADLOCK FALSE
