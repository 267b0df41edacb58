SPECIFICATION Spec
CONSTANTS
    Readers = {r1, r2}
    MaxReadTries = 2
    Payers = {p1, p2}
    Operators = {o1}
    NoEntry = NoEntry
    BadSeqRetries = 1
    MaxSends = 2
    MaxPolls = 2
    MaxEntries = 1
    MaxSeq = 1
    Recorders = {t1, t2}
    LagThreshold = 1
    MaxLedger = 2
    MaxLagFaults = 1
INVARIANTS ConfirmedIsApplied
PROPERTIES RefusalIsTrue EveryCallEnds LagIsWatched
CHECK_DEADLOCK FALSE
