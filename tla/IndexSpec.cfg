SPECIFICATION Spec
CONSTANTS
    MaxInt32 = 34
    Specs <- MCSpecs
    Stored <- MCStored
CHECK_DEADLOCK FALSE
INVARIANTS
    KeyElsInPlace
    DifferencesTold
    VerdictJustified
