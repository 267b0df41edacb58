SPECIFICATION Spec
CONSTANTS
    Readers = {r1}
    MaxReadTries = 1
    Payers = {p1, p2}
    Operators = {o1}
    NoEntry = NoEntry
    BadSeqRetries = 1
    MaxSends = 1
    MaxPolls = 1
    MaxEntries = 1
    MaxSeq = 1
    Recorders = {t1, t2}
    LagThreshold = 1
    MaxLedger = 2
    MaxLagFaults = 1
INVARIANT OnlySignedIsSubmitted
CHECK_DEADLOCK FALSE
