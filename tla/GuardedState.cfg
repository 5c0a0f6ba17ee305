SPECIFICATION LiveSpec
CONSTANTS
    Threads = {t1, t2}
    Items = {a, b}
    None = None
    Kinds <- AllKinds
    MaxStores = 2
CHECK_DEADLOCK FALSE
INVARIANTS
    TypeOK
    StoresAtomic
    SetOnce
    ClonesKeep
PROPERTIES
    CallsReturn
    ReentryIsForGood
