SPECIFICATION FairSpec
CONSTANTS
    Texts <- SmallTexts
    FileNames <- SomeNames
INVARIANTS InPlace PrefixFree Optimal SeparatedAtDelimiter Restored
PROPERTIES Finishes
CHECK_DEADLOCK FALSE
