SPECIFICATION Spec
CONSTANTS
    Texts <- SmallTexts
    FileNames <- PlainNames
INVARIANTS Lossless
CHECK_DEADLOCK FALSE
