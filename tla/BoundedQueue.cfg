CONSTANTS
    Producers = {p1, p2}
    Consumers = {c1}
    Items = {x, y}
    NoItem = none
    ItemSizes <- SizesToOverflow
    MaxCount = 3
    MaxMem = 3
    MaxInt64 = 4
SPECIFICATION Spec
INVARIANTS TypeOK RingAssertionsHold Accounting DrainedIsZero
PROPERTY ChannelSpec
CHECK_DEADLOCK FALSE
