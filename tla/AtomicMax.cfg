CONSTANTS
    low = low
    high = high
    peer = peer
    top = top
    Threads = {t1, t2}
    Values <- MCValues
    Zero = low
    AtLeast <- MCAtLeast
    Addrs = {a1, a2, a3, a4, a5}
    Nil = nil
SPECIFICATION LiveSpec
INVARIANTS TypeOK NewIsPrivate
PROPERTIES MaxSpec CallsReturn
CHECK_DEADLOCK FALSE
