SPECIFICATION Spec
CONSTANTS
    MaxInt32 = 20
    MaxWords = 22
    Buffers <- MCBuffers
    NewValues <- MCNewValues
    Values <- MCValues
    Pointers <- MCPointers
    Targets <- MCTargets
INVARIANTS
    TypeOK
    RoundTrip
    LengthsChecked
    EditsMatchTree
    SortMatchesTree
    LookupsMatchTree
