------------------------------- MODULE Payments -------------------------------
(***************************************************************************)
(* PaymentManager (src/src/payment/payment.cpp): transactions, refunds and *)
(* the gateways that move the money.                                       *)
(*                                                                         *)
(* The manager's mutex guards its maps, not the objects in them: a lookup  *)
(* returns a raw pointer, and process_payment, retry_failed_transaction,   *)
(* the check of create_refund and all of process_refund then read and      *)
(* write the object with no lock.  Each such access that another thread    *)
(* can observe is an action of its own; a lookup is not, because nothing   *)
(* is ever erased from the maps while the manager is in use.               *)
(***************************************************************************)
EXTENDS Integers, FiniteSets, FiniteSetsExt

CONSTANTS
    Threads,     \* threads that call the manager
    MaxTxns,     \* bound on the transactions created
    MaxRefunds,  \* bound on the refunds created
    Amounts,     \* amounts of transactions and of requested refunds
    Methods,     \* payment methods customers use
    Forced,      \* statuses callers pass to update_transaction_status
    MaxCharges,  \* bound on the gateway's successes per transaction
    MaxPayouts,  \* bound on the gateway's payouts per refund
    NoTxn,       \* the id is not a key of transactions_
    NoRefund     \* the id is not a key of refunds_

TxnIds == 1..MaxTxns
RefundIds == 1..MaxRefunds

TransactionStatus == {"PENDING", "PROCESSING", "SUCCESS", "FAILED", "REFUNDED",
                      "PARTIALLY_REFUNDED", "CANCELLED", "EXPIRED"}

RefundStatus == {"REQUESTED", "COMPLETED", "REJECTED"}

PaymentMethod == {"UNKNOWN", "CREDIT_CARD", "DEBIT_CARD", "ALIPAY", "WECHAT_PAY",
                  "BANK_TRANSFER", "PAYPAL", "APPLE_PAY", "QR_CODE", "MINI_PROGRAM"}

Transaction == [amount   : Amounts,
                method   : Methods,
                status   : TransactionStatus,
                refunded : Nat]

RefundRequest == [txn : TxnIds, amount : Nat, status : RefundStatus]

ASSUME ConstantsAssumption ==
    /\ MaxTxns \in Nat
    /\ MaxRefunds \in Nat
    /\ Amounts \subseteq Nat
    /\ Methods \subseteq PaymentMethod
    /\ Forced \subseteq TransactionStatus
    /\ MaxCharges \in Nat
    /\ MaxPayouts \in Nat
    /\ NoTxn \notin Transaction
    /\ NoRefund \notin RefundRequest

VARIABLES
    transactions,  \* transactions_: id -> amount, method, status, refunded
    refunds,       \* refunds_: id -> transaction, amount, status
    pend,          \* how far each thread is in its operation
    charged,       \* how often the gateway took the transaction's amount
    paidOut        \* how often the gateway returned the refund's amount

vars == <<transactions, refunds, pend, charged, paidOut>>

(* A step an operation still has to make, on a transaction or a refund,     *)
(* with the amount it carries in a local variable.                          *)
Steps == {"none", "insert_refund", "set_cancelled", "set_pending", "pay",
          "check_completed", "add_refunded", "set_refunded"}

Pending == [step : Steps, id : Nat, amount : Nat]

Idle == [step |-> "none", id |-> 0, amount |-> 0]

Txns == {x \in TxnIds : transactions[x] # NoTxn}
Refunds == {r \in RefundIds : refunds[r] # NoRefund}

Init ==
    /\ transactions = [x \in TxnIds |-> NoTxn]
    /\ refunds = [r \in RefundIds |-> NoRefund]
    /\ pend = [t \in Threads |-> Idle]
    /\ charged = [x \in TxnIds |-> 0]
    /\ paidOut = [r \in RefundIds |-> 0]

-------------------------------------------------------------------------------
(* The definitions named ..._Faulty are variants with one mistake in them;  *)
(* no action uses them.  Each shows that a property notices that mistake.   *)

(* init() gives these methods a default gateway; any other keeps the        *)
(* constructor's ALIPAY.                                                    *)
GatewayOf(m) ==
    CASE m \in {"WECHAT_PAY", "MINI_PROGRAM"} -> "WECHAT_PAY"
      [] m \in {"CREDIT_CARD", "DEBIT_CARD"} -> "CREDIT_CARD"
      [] OTHER -> "ALIPAY"

Supports(g, m) ==
    CASE g = "ALIPAY" -> m \in {"ALIPAY", "QR_CODE"}
      [] g = "WECHAT_PAY" -> m \in {"WECHAT_PAY", "MINI_PROGRAM"}
      [] OTHER -> m \in {"CREDIT_CARD", "DEBIT_CARD"}

(* The outcomes of gateway->process_payment: each gateway can decline at    *)
(* random, and only Alipay's looks at its minimum amount, 1.                *)
Outcomes(x) ==
    IF /\ GatewayOf(transactions[x].method) = "ALIPAY"
       /\ transactions[x].amount < 1
    THEN {"FAILED"} ELSE {"FAILED", "SUCCESS"}

(* Transaction::can_refund. *)
CanRefund_Faulty(x, amount) ==
    /\ transactions[x].status = "SUCCESS"
    /\ amount > 0

CanRefund(x, amount) ==
    /\ transactions[x].status = "SUCCESS"
    /\ amount <= transactions[x].amount - transactions[x].refunded
    /\ amount > 0

(* The status record_refund ends with. *)
StatusAfterRefund_Faulty(x, refunded) ==
    IF refunded > transactions[x].amount THEN "REFUNDED" ELSE "PARTIALLY_REFUNDED"

StatusAfterRefund(x, refunded) ==
    IF refunded >= transactions[x].amount THEN "REFUNDED" ELSE "PARTIALLY_REFUNDED"

Cancellable_Faulty(status) == status \in {"PENDING", "PROCESSING", "SUCCESS"}

Cancellable(status) == status \in {"PENDING", "PROCESSING"}

Starts(t) == pend[t] = Idle
At(t, step) == pend[t].step = step
Goto(t, step, id, amount) ==
    pend' = [pend EXCEPT ![t] = [step |-> step, id |-> id, amount |-> amount]]
Finish(t) == pend' = [pend EXCEPT ![t] = Idle]

SetStatus(x, status) == transactions' = [transactions EXCEPT ![x].status = status]

(* cancel_payment is the only section under the exclusive lock with two     *)
(* observable accesses; the other sections that write a status under that   *)
(* lock wait for it.                                                        *)
MutexFree == \A t \in Threads : ~At(t, "set_cancelled")

-------------------------------------------------------------------------------
NewTxnId == Cardinality(Txns) + 1
NewRefundId == Cardinality(Refunds) + 1

(* The two index lists it appends to are the ids in creation order; nothing *)
(* removes from them, so they carry no state of their own.                  *)
CreateTransaction(t, amount, m) ==
    /\ Starts(t)
    /\ NewTxnId \in TxnIds
    /\ transactions' = [transactions EXCEPT ![NewTxnId] =
          [amount |-> amount, method |-> m, status |-> "PENDING", refunded |-> 0]]
    /\ UNCHANGED <<refunds, pend, charged, paidOut>>

(* The gateway's answer, written without a lock and without a look at the   *)
(* status the transaction has.                                              *)
Pay(x) ==
    /\ Supports(GatewayOf(transactions[x].method), transactions[x].method)
    /\ \E outcome \in Outcomes(x) :
         /\ SetStatus(x, outcome)
         /\ charged' = [charged EXCEPT ![x] = IF outcome = "SUCCESS" THEN @ + 1 ELSE @]
         /\ charged'[x] <= MaxCharges

ProcessPayment(t, x) ==
    /\ Starts(t)
    /\ Pay(x)
    /\ UNCHANGED <<refunds, pend, paidOut>>

CheckFailed(t, x) ==
    /\ Starts(t)
    /\ transactions[x].status = "FAILED"
    /\ Goto(t, "set_pending", x, 0)
    /\ UNCHANGED <<transactions, refunds, charged, paidOut>>

SetPending(t) ==
    /\ At(t, "set_pending")
    /\ SetStatus(pend[t].id, "PENDING")
    /\ Goto(t, "pay", pend[t].id, 0)
    /\ UNCHANGED <<refunds, charged, paidOut>>

RetryPay(t) ==
    /\ At(t, "pay")
    /\ Pay(pend[t].id)
    /\ Finish(t)
    /\ UNCHANGED <<refunds, paidOut>>

(* process_payment rejects the transaction's gateway.                       *)
RetryUnsupported(t) ==
    /\ At(t, "pay")
    /\ LET m == transactions[pend[t].id].method IN ~Supports(GatewayOf(m), m)
    /\ Finish(t)
    /\ UNCHANGED <<transactions, refunds, charged, paidOut>>

CheckCancellable(t, x) ==
    /\ Starts(t)
    /\ MutexFree
    /\ Cancellable(transactions[x].status)
    /\ Goto(t, "set_cancelled", x, 0)
    /\ UNCHANGED <<transactions, refunds, charged, paidOut>>

SetCancelled(t) ==
    /\ At(t, "set_cancelled")
    /\ SetStatus(pend[t].id, "CANCELLED")
    /\ Finish(t)
    /\ UNCHANGED <<refunds, charged, paidOut>>

UpdateTransactionStatus(t, x, status) ==
    /\ Starts(t)
    /\ MutexFree
    /\ SetStatus(x, status)
    /\ UNCHANGED <<refunds, pend, charged, paidOut>>

-------------------------------------------------------------------------------
CheckRefundable(t, x, amount) ==
    /\ Starts(t)
    /\ CanRefund(x, amount)
    /\ Cardinality(Refunds)
         + Cardinality({u \in Threads : At(u, "insert_refund")}) < MaxRefunds
    /\ Goto(t, "insert_refund", x, amount)
    /\ UNCHANGED <<transactions, refunds, charged, paidOut>>

InsertRefund(t) ==
    /\ At(t, "insert_refund")
    /\ NewRefundId \in RefundIds
    /\ refunds' = [refunds EXCEPT ![NewRefundId] =
          [txn |-> pend[t].id, amount |-> pend[t].amount, status |-> "REQUESTED"]]
    /\ Finish(t)
    /\ UNCHANGED <<transactions, charged, paidOut>>

RejectRefund(t, r) ==
    /\ Starts(t)
    /\ refunds' = [refunds EXCEPT ![r].status = "REJECTED"]
    /\ UNCHANGED <<transactions, pend, charged, paidOut>>

(* process_refund: the gateway pays out and completes the refund, whatever  *)
(* status the refund has.                                                   *)
GatewayRefund(t, r) ==
    /\ Starts(t)
    /\ paidOut[r] < MaxPayouts
    /\ refunds' = [refunds EXCEPT ![r].status = "COMPLETED"]
    /\ paidOut' = [paidOut EXCEPT ![r] = @ + 1]
    /\ Goto(t, "check_completed", r, 0)
    /\ UNCHANGED <<transactions, charged>>

(* The refund is still COMPLETED and record_refund's own check passes: it   *)
(* goes on with the refunded amount it has read.                            *)
CheckRecordable(t) ==
    LET r == refunds[pend[t].id] IN
    /\ At(t, "check_completed")
    /\ r.status = "COMPLETED"
    /\ CanRefund(r.txn, r.amount)
    /\ Goto(t, "add_refunded", pend[t].id, transactions[r.txn].refunded)
    /\ UNCHANGED <<transactions, refunds, charged, paidOut>>

(* Otherwise process_refund still returns ok, and nothing is recorded.      *)
LeaveUnrecorded(t) ==
    LET r == refunds[pend[t].id] IN
    /\ At(t, "check_completed")
    /\ ~(r.status = "COMPLETED" /\ CanRefund(r.txn, r.amount))
    /\ Finish(t)
    /\ UNCHANGED <<transactions, refunds, charged, paidOut>>

(* What record_refund makes of the refunded amount it has read. *)
Recorded_Faulty(base, r) == base + transactions[r.txn].amount

Recorded(base, r) == base + r.amount

(* An unlocked read-modify-write: the amount added to is the one the check  *)
(* read or the one there now.                                               *)
AddRefunded(t) ==
    LET r == refunds[pend[t].id] IN
    /\ At(t, "add_refunded")
    /\ \E base \in {pend[t].amount, transactions[r.txn].refunded} :
         /\ transactions' = [transactions EXCEPT ![r.txn].refunded = Recorded(base, r)]
         /\ Goto(t, "set_refunded", pend[t].id, Recorded(base, r))
    /\ UNCHANGED <<refunds, charged, paidOut>>

SetRefunded(t) ==
    LET r == refunds[pend[t].id] IN
    /\ At(t, "set_refunded")
    /\ \E total \in {pend[t].amount, transactions[r.txn].refunded} :
         SetStatus(r.txn, StatusAfterRefund(r.txn, total))
    /\ Finish(t)
    /\ UNCHANGED <<refunds, charged, paidOut>>

ProcessRefund(t) ==
    \/ \E r \in Refunds : GatewayRefund(t, r)
    \/ CheckRecordable(t)
    \/ LeaveUnrecorded(t)
    \/ AddRefunded(t)
    \/ SetRefunded(t)

Next ==
    \E t \in Threads :
        \/ \E a \in Amounts, m \in Methods : CreateTransaction(t, a, m)
        \/ \E x \in Txns : ProcessPayment(t, x)
        \/ \E x \in Txns : CheckFailed(t, x)
        \/ SetPending(t)
        \/ RetryPay(t)
        \/ RetryUnsupported(t)
        \/ \E x \in Txns : CheckCancellable(t, x)
        \/ SetCancelled(t)
        \/ \E x \in Txns, s \in Forced : UpdateTransactionStatus(t, x, s)
        \/ \E x \in Txns, a \in Amounts : CheckRefundable(t, x, a)
        \/ InsertRefund(t)
        \/ \E r \in Refunds : RejectRefund(t, r)
        \/ ProcessRefund(t)

Spec == Init /\ [][Next]_vars

-------------------------------------------------------------------------------
(* Every variable has its type; no recorded amount is negative. *)
TypeOK ==
    /\ transactions \in [TxnIds -> Transaction \cup {NoTxn}]
    /\ refunds \in [RefundIds -> RefundRequest \cup {NoRefund}]
    /\ pend \in [Threads -> Pending]
    /\ charged \in [TxnIds -> 0..MaxCharges]
    /\ paidOut \in [RefundIds -> 0..MaxPayouts]

(* A refund request names an existing transaction and asks for a positive   *)
(* amount, never more than the whole transaction, however create_refund's   *)
(* unlocked check is interleaved with other operations.                     *)
RefundRequestSound ==
    \A r \in Refunds :
        /\ refunds[r].txn \in Txns
        /\ refunds[r].amount \in 1..transactions[refunds[r].txn].amount

(* The inductive invariant behind it: ids are issued in order, a thread in  *)
(* the middle of an operation holds an existing id, and the amount it is    *)
(* about to request is one the check allowed.                               *)
IdsIssued ==
    /\ \E n \in 0..MaxTxns : Txns = 1..n
    /\ \E n \in 0..MaxRefunds : Refunds = 1..n

PendingSound ==
    \A t \in Threads :
        /\ pend[t].step \in {"set_pending", "pay", "set_cancelled", "insert_refund"}
              => pend[t].id \in Txns
        /\ At(t, "insert_refund")
              => pend[t].amount \in 1..transactions[pend[t].id].amount
        /\ pend[t].step \in {"check_completed", "add_refunded", "set_refunded"}
              => pend[t].id \in Refunds

MoneyInv == TypeOK /\ IdsIssued /\ PendingSound /\ RefundRequestSound

(* The amount recorded as refunded never exceeds the transaction's amount.  *)
(* record_refund checks it again, so it holds for as long as one thread at  *)
(* a time uses the manager, whatever status callers force meanwhile.        *)
RefundedWithinAmount ==
    \A x \in Txns : transactions[x].refunded <= transactions[x].amount

(* With more threads the unlocked check lets each of them add one refund    *)
(* too many, and no more than that.                                         *)
OverRefundBounded ==
    \A x \in Txns :
        transactions[x].refunded <= Cardinality(Threads) * transactions[x].amount

(* The inductive invariant behind it: what a thread is about to add fitted  *)
(* when it looked; and each thread that is adding to the transaction still  *)
(* has one amount of its own to use up, but for the one (if any) whose      *)
(* refund fits into what the others leave.                                  *)
AddingTo(x) == {t \in Threads : At(t, "add_refunded") /\ refunds[pend[t].id].txn = x}

Unused(x) == Cardinality(Threads) - Cardinality(AddingTo(x))

OverRefund(x) ==
    LET a == transactions[x].amount
        paid == transactions[x].refunded IN
    /\ \A t \in AddingTo(x) : pend[t].amount + refunds[pend[t].id].amount <= a
    /\ \/ paid <= Unused(x) * a
       \/ \E t \in AddingTo(x) :
             paid + refunds[pend[t].id].amount <= (Unused(x) + 1) * a

ThreadsInv == MoneyInv /\ \A x \in Txns : OverRefund(x)

RefundsOf(x) == {r \in Refunds : refunds[r].txn = x}

PaidOut(x) == SumFunction([r \in RefundsOf(x) |-> paidOut[r] * refunds[r].amount])

(* What is recorded as refunded has been paid out by the gateway before.    *)
RecordedWasPaidOut == \A x \in Txns : transactions[x].refunded <= PaidOut(x)

(* The inductive invariant behind it: what the threads that were paid out   *)
(* for the transaction have not recorded yet fits into what was paid out,   *)
(* on top of the recorded amount and of every amount read to be added to.   *)
Unrecorded(t, x) ==
    IF pend[t].step \in {"check_completed", "add_refunded"} /\ refunds[pend[t].id].txn = x
    THEN refunds[pend[t].id].amount
    ELSE 0

InFlight(x) == SumFunction([t \in Threads |-> Unrecorded(t, x)])

PayoutsCover(x) ==
    /\ transactions[x].refunded + InFlight(x) <= PaidOut(x)
    /\ \A t \in AddingTo(x) : pend[t].amount + InFlight(x) <= PaidOut(x)

PaidOutInv == MoneyInv /\ \A x \in Txns : PayoutsCover(x)

(* Unless a caller forces the status, it tells how much was refunded.       *)
RefundStatusAgrees ==
    \A x \in Txns : LET y == transactions[x] IN
        /\ y.status = "REFUNDED" => y.refunded = y.amount
        /\ y.status = "PARTIALLY_REFUNDED" => y.refunded \in 1..(y.amount - 1)

(* No amount was taken for a payment that is cancelled: the rule of         *)
(* cancel_payment, "Only pending or processing payments can be cancelled".  *)
CancelledNotCharged ==
    \A x \in Txns : transactions[x].status = "CANCELLED" => charged[x] = 0

(* The inductive invariant behind the three where one thread at a time uses *)
(* the manager: what process_refund carries is still true of the            *)
(* transaction, and a transaction that was charged is on no way to          *)
(* CANCELLED.                                                               *)
Sequential == \A t, u \in Threads : t = u

RefundInProgress ==
    \A t \in Threads : LET r == refunds[pend[t].id] IN
        /\ At(t, "add_refunded") =>
              /\ pend[t].amount = transactions[r.txn].refunded
              /\ CanRefund(r.txn, r.amount)
        /\ At(t, "set_refunded") =>
              /\ pend[t].amount = transactions[r.txn].refunded
              /\ transactions[r.txn].status = "SUCCESS"
              /\ transactions[r.txn].refunded > 0

Settled(x) ==
    charged[x] > 0 =>
        /\ x \in Txns
        /\ Supports(GatewayOf(transactions[x].method), transactions[x].method)
        /\ \/ transactions[x].status \notin {"PENDING", "PROCESSING", "CANCELLED"}
           \/ /\ transactions[x].status = "PENDING"
              /\ \E t \in Threads : At(t, "pay") /\ pend[t].id = x
        /\ \A t \in Threads : ~(At(t, "set_cancelled") /\ pend[t].id = x)

ChargedSettled == \A x \in TxnIds : Settled(x)

SequentialInv == MoneyInv /\ RefundedWithinAmount /\ RefundInProgress

UnforcedInv == SequentialInv /\ RefundStatusAgrees /\ ChargedSettled

(* "Refund amount exceeds available amount": the completed refunds of a     *)
(* transaction stay within its amount.                                      *)
CompletedWithinAmount ==
    \A x \in Txns :
        SumFunction([r \in {q \in RefundsOf(x) : refunds[q].status = "COMPLETED"} |->
                        refunds[r].amount]) <= transactions[x].amount

===============================================================================
