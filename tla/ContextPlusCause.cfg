CONSTANTS
    Ctxs = {x1}
    Background = background
    None = none
    Readers = {r1}
    CauseErrors <- MCCauseErrors
SPECIFICATION Spec
INVARIANT ErrIncludesCause
CHECK_DEADLOCK FALSE
