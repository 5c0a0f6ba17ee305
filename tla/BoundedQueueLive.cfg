CONSTANTS
    Producers = {p1, p2}
    Consumers = {c1, c2}
    Items = {x}
    NoItem = none
    ItemSizes = {0, 1, 3}
    MaxCount = 2
    MaxMem = 2
    MaxInt64 = 4
SPECIFICATION LiveSpec
INVARIANTS BytesBounded
PROPERTIES CancelShutsDown CloseDrains SendersProceed
CHECK_DEADLOCK FALSE
