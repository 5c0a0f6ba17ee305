CONSTANTS
    Threads = {t1, t2, t3}
    Data = {d1}
    TTLs <- MCTTLs
    None = none
    MaxTime = 2
    MaxAdds = 3
SPECIFICATION LiveSpec
INVARIANTS TypeOK OnlyExpiredReaped
PROPERTIES HistorySpec CallsReturn
CHECK_DEADLOCK FALSE
