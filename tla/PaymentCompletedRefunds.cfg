SPECIFICATION Spec

CONSTANTS
    Threads <- OneThread
    MaxTxns = 1
    MaxRefunds = 2
    Amounts = {1, 2}
    Methods <- OneMethod
    Forced <- NoStatus
    MaxCharges = 1
    MaxPayouts = 1
    t1 = t1
    t2 = t2
    NoTxn = NoTxn
    NoRefund = NoRefund

INVARIANTS
    CompletedWithinAmount
