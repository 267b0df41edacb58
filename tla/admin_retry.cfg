SPECIFICATION Spec
CONSTANTS
    t1 = t1  t2 = t2
    p1 = p1  p2 = p2  s1 = s1  s2 = s2  a1 = a1  None = None
    Txs = {t1, t2}
    Events = {1, 2, 3}
    TxOf <- MCTxOf
    LedgerOf <- MCLedgerOf
    Pollers = {p1, p2}
    Sweepers = {s1, s2}
    Admins = {a1}
    Scenes <- WithOperator
    MaxAttempts = 2
    BaseDelay = 1
    MaxDelay = 1
    Lease = 2
    BatchSize = 2
    MaxLedger = 2
    MaxFaults = 1
    MaxRedrives = 1
INVARIANT OneAttemptAtATime
CHECK_DEADLOCK FALSE
