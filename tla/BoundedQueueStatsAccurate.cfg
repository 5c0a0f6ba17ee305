CONSTANTS
    Producers = {p1}
    Consumers = {c1}
    Items = {x}
    NoItem = none
    ItemSizes = {1, 3}
    MaxCount = 2
    MaxMem = 3
    MaxInt64 = 5
SPECIFICATION StatsSpec
INVARIANTS StatsAccurate
CHECK_DEADLOCK FALSE
