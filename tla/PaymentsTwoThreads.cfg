SPECIFICATION Spec

CONSTANTS
    Threads <- TwoThreads
    MaxTxns = 1
    MaxRefunds = 2
    Amounts = {1, 2}
    Methods <- WithUnsupported
    Forced <- Outcome
    MaxCharges = 1
    MaxPayouts = 2
    t1 = t1
    t2 = t2
    NoTxn = NoTxn
    NoRefund = NoRefund

INVARIANTS
    OverRefundBounded
    RecordedWasPaidOut
