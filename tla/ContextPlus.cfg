CONSTANTS
    Ctxs = {x1, x2}
    Background = background
    None = none
    Readers = {r1, r2}
    CauseErrors <- MCCauseErrors
SPECIFICATION Spec
INVARIANTS TypeOK BuiltInErrorsFound EndedTellsAll
CHECK_DEADLOCK FALSE
