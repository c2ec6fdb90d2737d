SPECIFICATION Spec

CONSTANTS
    Threads <- OneThread
    MaxTxns = 1
    MaxRefunds = 2
    Amounts = {0, 1, 2}
    Methods <- TwoGateways
    Forced <- NoStatus
    MaxCharges = 2
    MaxPayouts = 2
    t1 = t1
    t2 = t2
    NoTxn = NoTxn
    NoRefund = NoRefund

INVARIANTS
    RefundedWithinAmount
    RefundStatusAgrees
    CancelledNotCharged
