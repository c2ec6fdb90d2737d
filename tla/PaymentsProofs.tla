---------------------------- MODULE PaymentsProofs ----------------------------
(***************************************************************************)
(* Proofs about Payments.  MoneyInv holds for any number of threads, and   *)
(* the bound on what they refund too much for any finite number; the other *)
(* invariants about refunded amounts hold where one thread at a time uses  *)
(* the manager, the last two also where no caller forces a status.         *)
(***************************************************************************)
EXTENDS Payments, Sums, TLAPS

(* The ids in use are 1..n, so that size() + 1 is not in use yet.           *)
LEMMA FreshIds ==
    ASSUME IdsIssued
    PROVE  /\ NewTxnId \notin Txns
           /\ NewTxnId \in TxnIds => \E n \in 0..MaxTxns : Txns \cup {NewTxnId} = 1..n
           /\ NewRefundId \notin Refunds
           /\ NewRefundId \in RefundIds =>
                 \E n \in 0..MaxRefunds : Refunds \cup {NewRefundId} = 1..n
<1>1. PICK n \in 0..MaxTxns : Txns = 1..n
  BY DEF IdsIssued
<1>2. PICK m \in 0..MaxRefunds : Refunds = 1..m
  BY DEF IdsIssued
<1>3. NewTxnId = n + 1 /\ NewRefundId = m + 1
  <2>1. Cardinality(1..n) = n /\ Cardinality(1..m) = m
    BY FS_Interval, ConstantsAssumption
  <2> QED BY <1>1, <1>2, <2>1 DEF NewTxnId, NewRefundId
<1>4. NewTxnId \notin Txns /\ NewRefundId \notin Refunds
  BY <1>1, <1>2, <1>3, ConstantsAssumption
<1>5. NewTxnId \in TxnIds => \E k \in 0..MaxTxns : Txns \cup {NewTxnId} = 1..k
  <2>1. SUFFICES ASSUME NewTxnId \in TxnIds
                 PROVE  \E k \in 0..MaxTxns : Txns \cup {NewTxnId} = 1..k
    OBVIOUS
  <2>2. n + 1 \in 0..MaxTxns
    BY <1>3, <2>1, ConstantsAssumption DEF TxnIds
  <2>3. Txns \cup {NewTxnId} = 1..(n + 1)
    BY <1>1, <1>3, ConstantsAssumption
  <2> QED BY <2>2, <2>3
<1>6. NewRefundId \in RefundIds =>
         \E k \in 0..MaxRefunds : Refunds \cup {NewRefundId} = 1..k
  <2>1. SUFFICES ASSUME NewRefundId \in RefundIds
                 PROVE  \E k \in 0..MaxRefunds : Refunds \cup {NewRefundId} = 1..k
    OBVIOUS
  <2>2. m + 1 \in 0..MaxRefunds
    BY <1>3, <2>1, ConstantsAssumption DEF RefundIds
  <2>3. Refunds \cup {NewRefundId} = 1..(m + 1)
    BY <1>2, <1>3, ConstantsAssumption
  <2> QED BY <2>2, <2>3
<1> QED BY <1>4, <1>5, <1>6

-------------------------------------------------------------------------------
(* What a step may do to the transactions and refunds that exist: their ids *)
(* stay, and so do the amounts and methods they were created with.          *)
KeepsTxns ==
    \A x \in Txns : /\ x \in Txns'
                    /\ transactions'[x].amount = transactions[x].amount
                    /\ transactions'[x].method = transactions[x].method

KeepsRefunds ==
    \A r \in Refunds : /\ r \in Refunds'
                       /\ refunds'[r].txn = refunds[r].txn
                       /\ refunds'[r].amount = refunds[r].amount

(* SetStatus changes one transaction's status and nothing else.             *)
LEMMA StatusWritten ==
    ASSUME TypeOK, NEW x \in Txns, NEW s \in TransactionStatus, SetStatus(x, s)
    PROVE  /\ transactions' \in [TxnIds -> Transaction \cup {NoTxn}]
           /\ Txns' = Txns
           /\ KeepsTxns
           /\ \A y \in Txns : transactions'[y].refunded = transactions[y].refunded
           /\ transactions'[x].status = s
           /\ \A y \in Txns : y # x => transactions'[y] = transactions[y]
<1>1. transactions[x] \in Transaction /\ x \in TxnIds
  BY DEF TypeOK, Txns
<1>2. [transactions[x] EXCEPT !.status = s] \in Transaction
  BY <1>1 DEF Transaction
<1>3. transactions' = [transactions EXCEPT ![x] = [transactions[x] EXCEPT !.status = s]]
  BY DEF SetStatus
<1>4. transactions' \in [TxnIds -> Transaction \cup {NoTxn}]
  BY <1>2, <1>3 DEF TypeOK
<1>5. transactions'[x] = [transactions[x] EXCEPT !.status = s]
  BY <1>1, <1>3 DEF TypeOK
<1>6. \A y \in TxnIds : y # x => transactions'[y] = transactions[y]
  BY <1>3 DEF TypeOK
<1>7. Txns' = Txns
  BY <1>2, <1>5, <1>6, ConstantsAssumption DEF Txns
<1>8. /\ transactions'[x].amount = transactions[x].amount
      /\ transactions'[x].method = transactions[x].method
      /\ transactions'[x].refunded = transactions[x].refunded
      /\ transactions'[x].status = s
  BY <1>1, <1>5 DEF Transaction
<1> QED
  BY <1>4, <1>6, <1>7, <1>8 DEF KeepsTxns, Txns

(* Where the objects stay and one thread moves on to a sound step.          *)
LEMMA PendingKept ==
    ASSUME MoneyInv, KeepsTxns, KeepsRefunds, NEW t \in Threads, NEW q \in Pending,
           pend' = [pend EXCEPT ![t] = q],
           q.step \in {"set_pending", "pay", "set_cancelled", "insert_refund"}
              => q.id \in Txns',
           q.step = "insert_refund" => q.amount \in 1..transactions'[q.id].amount,
           q.step \in {"check_completed", "add_refunded", "set_refunded"}
              => q.id \in Refunds'
    PROVE  /\ pend' \in [Threads -> Pending]
           /\ PendingSound'
<1>1. pend \in [Threads -> Pending]
  BY DEF MoneyInv, TypeOK
<1>2. pend' \in [Threads -> Pending]
  BY <1>1
<1>3. ASSUME NEW u \in Threads
      PROVE  /\ pend'[u].step \in {"set_pending", "pay", "set_cancelled", "insert_refund"}
                   => pend'[u].id \in Txns'
             /\ pend'[u].step = "insert_refund"
                   => pend'[u].amount \in 1..transactions'[pend'[u].id].amount
             /\ pend'[u].step \in {"check_completed", "add_refunded", "set_refunded"}
                   => pend'[u].id \in Refunds'
  <2>1. CASE u = t
    BY <1>1, <2>1
  <2>2. CASE u # t
    <3>1. pend'[u] = pend[u]
      BY <1>1, <2>2
    <3> QED
      BY <3>1 DEF MoneyInv, PendingSound, At, KeepsTxns, KeepsRefunds
  <2> QED BY <2>1, <2>2
<1> QED
  BY <1>2, <1>3 DEF PendingSound, At

(* Where the objects stay and no thread moves.                              *)
LEMMA PendingUnchanged ==
    ASSUME MoneyInv, KeepsTxns, KeepsRefunds, pend' = pend
    PROVE  PendingSound'
BY DEF MoneyInv, PendingSound, At, KeepsTxns, KeepsRefunds

(* Where no object is added and ids, amounts and methods stay.              *)
LEMMA RequestsKept ==
    ASSUME MoneyInv, KeepsTxns, KeepsRefunds, Txns' = Txns, Refunds' = Refunds
    PROVE  IdsIssued' /\ RefundRequestSound'
<1>1. IdsIssued'
  BY DEF MoneyInv, IdsIssued
<1>2. RefundRequestSound'
  BY DEF MoneyInv, RefundRequestSound, KeepsTxns, KeepsRefunds
<1> QED BY <1>1, <1>2

(* Objects that are left alone stay.                                        *)
LEMMA Untouched ==
    /\ UNCHANGED transactions => KeepsTxns /\ Txns' = Txns
    /\ UNCHANGED refunds => KeepsRefunds /\ Refunds' = Refunds
BY DEF KeepsTxns, KeepsRefunds, Txns, Refunds

(* A status written by one thread keeps MoneyInv, whatever it does with its *)
(* own step, as long as that ends the operation or goes on to pay.          *)
LEMMA StatusKeepsMoney ==
    ASSUME MoneyInv, NEW x \in Txns, NEW s \in TransactionStatus, SetStatus(x, s),
           UNCHANGED <<refunds, paidOut>>, charged' \in [TxnIds -> 0..MaxCharges],
           NEW t \in Threads, NEW q \in Pending,
           pend' = pend \/ pend' = [pend EXCEPT ![t] = q],
           q = Idle \/ (q.step = "pay" /\ q.id = x)
    PROVE  MoneyInv'
<1>1. /\ transactions' \in [TxnIds -> Transaction \cup {NoTxn}]
      /\ Txns' = Txns
      /\ KeepsTxns
  BY StatusWritten DEF MoneyInv
<1>2. KeepsRefunds /\ Refunds' = Refunds
  BY Untouched
<1>3. IdsIssued' /\ RefundRequestSound'
  BY <1>1, <1>2, RequestsKept
<1>4. pend' \in [Threads -> Pending] /\ PendingSound'
  <2>1. CASE pend' = pend
    BY <1>1, <1>2, <2>1, PendingUnchanged DEF MoneyInv, TypeOK
  <2>2. CASE pend' = [pend EXCEPT ![t] = q]
    BY <1>1, <1>2, <2>2, PendingKept DEF Idle
  <2> QED BY <2>1, <2>2
<1> QED
  BY <1>1, <1>3, <1>4 DEF MoneyInv, TypeOK

(* A thread between operations has no step left to make.                    *)
LEMMA IdleSound == Idle \in Pending /\ Idle.step = "none"
BY DEF Idle, Pending, Steps

(* A step to a sound Pending is a Pending.                                  *)
LEMMA GotoTyped ==
    ASSUME NEW step \in Steps, NEW id \in Nat, NEW amount \in Nat
    PROVE  [step |-> step, id |-> id, amount |-> amount] \in Pending
BY DEF Pending

(* The ids in use are natural numbers, and their objects have their types.  *)
LEMMA ObjectTypes ==
    ASSUME TypeOK
    PROVE  /\ \A x \in Txns : x \in TxnIds /\ x \in Nat /\ transactions[x] \in Transaction
           /\ \A r \in Refunds : r \in RefundIds /\ r \in Nat /\ refunds[r] \in RefundRequest
BY ConstantsAssumption DEF TypeOK, Txns, Refunds, TxnIds, RefundIds

(* The gateway's answer is a status.                                        *)
LEMMA PayWrites ==
    ASSUME TypeOK, NEW x \in Txns, Pay(x)
    PROVE  /\ \E s \in {"FAILED", "SUCCESS"} :
                /\ SetStatus(x, s)
                /\ charged' = [charged EXCEPT ![x] = IF s = "SUCCESS" THEN @ + 1 ELSE @]
           /\ charged' \in [TxnIds -> 0..MaxCharges]
           /\ Supports(GatewayOf(transactions[x].method), transactions[x].method)
<1>1. PICK s \in Outcomes(x) :
         /\ SetStatus(x, s)
         /\ charged' = [charged EXCEPT ![x] = IF s = "SUCCESS" THEN @ + 1 ELSE @]
         /\ charged'[x] <= MaxCharges
  BY DEF Pay
<1>2. s \in {"FAILED", "SUCCESS"}
  BY DEF Outcomes
<1>3. charged' \in [TxnIds -> 0..MaxCharges]
  <2>1. charged[x] \in 0..MaxCharges /\ x \in TxnIds
    BY ObjectTypes DEF TypeOK
  <2>2. charged'[x] = IF s = "SUCCESS" THEN charged[x] + 1 ELSE charged[x]
    BY <1>1, <2>1 DEF TypeOK
  <2>3. charged'[x] \in 0..MaxCharges
    BY <1>1, <2>1, <2>2, ConstantsAssumption
  <2>4. \A y \in TxnIds : y # x => charged'[y] = charged[y]
    BY <1>1 DEF TypeOK
  <2>5. \A y \in TxnIds : charged'[y] \in 0..MaxCharges
    BY <2>3, <2>4 DEF TypeOK
  <2> QED
    BY <1>1, <2>5 DEF TypeOK
<1> QED
  BY <1>1, <1>2, <1>3 DEF Pay

(* The initial state satisfies MoneyInv.                                    *)
LEMMA MoneyInit == Init => MoneyInv
<1> SUFFICES ASSUME Init PROVE MoneyInv
  OBVIOUS
<1>1. Txns = {} /\ Refunds = {}
  BY DEF Init, Txns, Refunds
<1>2. TypeOK
  BY IdleSound, ConstantsAssumption DEF Init, TypeOK
<1>3. IdsIssued
  BY <1>1, ConstantsAssumption DEF IdsIssued
<1>4. PendingSound
  BY IdleSound DEF Init, PendingSound, At
<1> QED
  BY <1>1, <1>2, <1>3, <1>4 DEF MoneyInv, RefundRequestSound

(* A step that only moves one thread, to a sound step.                      *)
LEMMA MoveKeepsMoney ==
    ASSUME MoneyInv, UNCHANGED <<transactions, refunds, charged, paidOut>>,
           NEW t \in Threads, NEW q \in Pending, pend' = [pend EXCEPT ![t] = q],
           q.step \in {"set_pending", "pay", "set_cancelled", "insert_refund"}
              => q.id \in Txns,
           q.step = "insert_refund" => q.amount \in 1..transactions[q.id].amount,
           q.step \in {"check_completed", "add_refunded", "set_refunded"}
              => q.id \in Refunds
    PROVE  MoneyInv'
<1>1. KeepsTxns /\ Txns' = Txns /\ KeepsRefunds /\ Refunds' = Refunds
  BY Untouched
<1>2. IdsIssued' /\ RefundRequestSound'
  BY <1>1, RequestsKept
<1>3. pend' \in [Threads -> Pending] /\ PendingSound'
  BY <1>1, PendingKept
<1> QED
  BY <1>2, <1>3 DEF MoneyInv, TypeOK

(* The new transaction gets the next id, and every other object stays.      *)
LEMMA CreateKeepsMoney ==
    ASSUME MoneyInv, NEW t \in Threads, NEW a \in Amounts, NEW m \in Methods,
           CreateTransaction(t, a, m)
    PROVE  MoneyInv'
<1> DEFINE x == NewTxnId
           new == [amount |-> a, method |-> m, status |-> "PENDING", refunded |-> 0]
<1>1. /\ x \in TxnIds /\ x \notin Txns
      /\ \E n \in 0..MaxTxns : Txns \cup {x} = 1..n
  BY FreshIds DEF MoneyInv, CreateTransaction
<1>2. new \in Transaction
  BY ConstantsAssumption DEF Transaction, TransactionStatus
<1>3. transactions' = [transactions EXCEPT ![x] = new]
  BY DEF CreateTransaction
<1>4. transactions' \in [TxnIds -> Transaction \cup {NoTxn}]
  BY <1>2, <1>3 DEF MoneyInv, TypeOK
<1>5. Txns' = Txns \cup {x}
  BY <1>1, <1>2, <1>3, ConstantsAssumption DEF MoneyInv, TypeOK, Txns
<1>6. \A y \in Txns : y \in Txns' /\ transactions'[y] = transactions[y]
  BY <1>1, <1>3, <1>5 DEF MoneyInv, TypeOK, Txns
<1>7. KeepsTxns
  BY <1>6 DEF KeepsTxns
<1>8. KeepsRefunds /\ Refunds' = Refunds
  BY Untouched DEF CreateTransaction
<1>9. IdsIssued'
  BY <1>1, <1>5, <1>8 DEF MoneyInv, IdsIssued
<1>10. PendingSound'
  BY <1>7, <1>8, PendingUnchanged DEF CreateTransaction
<1>11. RefundRequestSound'
  BY <1>7, <1>8 DEF MoneyInv, RefundRequestSound, KeepsTxns, KeepsRefunds
<1> QED
  BY <1>4, <1>9, <1>10, <1>11 DEF MoneyInv, TypeOK, CreateTransaction

(* The new refund is the one the check allowed: its thread held it.         *)
LEMMA InsertKeepsMoney ==
    ASSUME MoneyInv, NEW t \in Threads, InsertRefund(t)
    PROVE  MoneyInv'
<1> DEFINE r == NewRefundId
           new == [txn |-> pend[t].id, amount |-> pend[t].amount, status |-> "REQUESTED"]
<1>1. /\ r \in RefundIds /\ r \notin Refunds
      /\ \E n \in 0..MaxRefunds : Refunds \cup {r} = 1..n
  BY FreshIds DEF MoneyInv, InsertRefund
<1>2. /\ pend[t].id \in Txns
      /\ pend[t].amount \in 1..transactions[pend[t].id].amount
  BY DEF InsertRefund, At, MoneyInv, PendingSound
<1>3. new \in RefundRequest
  <2>1. pend[t].amount \in Nat /\ pend[t].id \in TxnIds
    BY <1>2, ObjectTypes DEF MoneyInv, TypeOK, Pending
  <2> QED BY <2>1 DEF RefundRequest, RefundStatus
<1>4. refunds' = [refunds EXCEPT ![r] = new]
  BY DEF InsertRefund
<1>5. refunds' \in [RefundIds -> RefundRequest \cup {NoRefund}]
  BY <1>3, <1>4 DEF MoneyInv, TypeOK
<1>6. Refunds' = Refunds \cup {r} /\ refunds'[r] = new
  BY <1>1, <1>3, <1>4, ConstantsAssumption DEF MoneyInv, TypeOK, Refunds
<1>7. \A y \in Refunds : y \in Refunds' /\ refunds'[y] = refunds[y]
  BY <1>1, <1>4, <1>6 DEF MoneyInv, TypeOK, Refunds
<1>8. KeepsRefunds
  BY <1>7 DEF KeepsRefunds
<1>9. KeepsTxns /\ Txns' = Txns
  BY Untouched DEF InsertRefund
<1>10. IdsIssued'
  BY <1>1, <1>6, <1>9 DEF MoneyInv, IdsIssued
<1>11. pend' \in [Threads -> Pending] /\ PendingSound'
  BY <1>8, <1>9, PendingKept, IdleSound DEF InsertRefund, Finish
<1>12. RefundRequestSound'
  <2>1. \A y \in Refunds' : y = r \/ y \in Refunds
    BY <1>6
  <2>2. /\ refunds'[r].txn \in Txns'
        /\ refunds'[r].amount \in 1..transactions'[refunds'[r].txn].amount
    BY <1>2, <1>6, <1>9 DEF InsertRefund
  <2>3. \A y \in Refunds : /\ refunds'[y].txn \in Txns'
                            /\ refunds'[y].amount \in 1..transactions'[refunds'[y].txn].amount
    BY <1>8, <1>9 DEF MoneyInv, RefundRequestSound, KeepsTxns, KeepsRefunds
  <2> QED BY <2>1, <2>2, <2>3 DEF RefundRequestSound
<1> QED
  BY <1>5, <1>10, <1>11, <1>12 DEF MoneyInv, TypeOK, InsertRefund

(* reject_refund and the gateway change the status of one refund only.      *)
LEMMA RefundStatusWritten ==
    ASSUME TypeOK, NEW r \in Refunds, NEW s \in RefundStatus,
           refunds' = [refunds EXCEPT ![r].status = s]
    PROVE  /\ refunds' \in [RefundIds -> RefundRequest \cup {NoRefund}]
           /\ Refunds' = Refunds
           /\ KeepsRefunds
<1>1. refunds[r] \in RefundRequest /\ r \in RefundIds
  BY ObjectTypes
<1>2. [refunds[r] EXCEPT !.status = s] \in RefundRequest
  BY <1>1 DEF RefundRequest
<1>3. refunds' = [refunds EXCEPT ![r] = [refunds[r] EXCEPT !.status = s]]
  OBVIOUS
<1>4. refunds' \in [RefundIds -> RefundRequest \cup {NoRefund}]
  BY <1>2, <1>3 DEF TypeOK
<1>5. refunds'[r] = [refunds[r] EXCEPT !.status = s]
  BY <1>1, <1>3 DEF TypeOK
<1>6. \A y \in RefundIds : y # r => refunds'[y] = refunds[y]
  BY <1>3 DEF TypeOK
<1>7. Refunds' = Refunds
  BY <1>2, <1>5, <1>6, ConstantsAssumption DEF Refunds
<1>8. refunds'[r].txn = refunds[r].txn /\ refunds'[r].amount = refunds[r].amount
  BY <1>1, <1>5 DEF RefundRequest
<1> QED
  BY <1>4, <1>6, <1>7, <1>8 DEF KeepsRefunds, Refunds

(* record_refund's addition changes one refunded amount only.               *)
LEMMA RefundedWritten ==
    ASSUME TypeOK, NEW x \in Txns, NEW n \in Nat,
           transactions' = [transactions EXCEPT ![x].refunded = n]
    PROVE  /\ transactions' \in [TxnIds -> Transaction \cup {NoTxn}]
           /\ Txns' = Txns
           /\ KeepsTxns
           /\ transactions'[x].refunded = n
           /\ transactions'[x].status = transactions[x].status
           /\ \A y \in Txns : y # x => transactions'[y] = transactions[y]
<1>1. transactions[x] \in Transaction /\ x \in TxnIds
  BY ObjectTypes
<1>2. [transactions[x] EXCEPT !.refunded = n] \in Transaction
  BY <1>1 DEF Transaction
<1>3. transactions' = [transactions EXCEPT ![x] = [transactions[x] EXCEPT !.refunded = n]]
  OBVIOUS
<1>4. transactions' \in [TxnIds -> Transaction \cup {NoTxn}]
  BY <1>2, <1>3 DEF TypeOK
<1>5. transactions'[x] = [transactions[x] EXCEPT !.refunded = n]
  BY <1>1, <1>3 DEF TypeOK
<1>6. \A y \in TxnIds : y # x => transactions'[y] = transactions[y]
  BY <1>3 DEF TypeOK
<1>7. Txns' = Txns
  BY <1>2, <1>5, <1>6, ConstantsAssumption DEF Txns
<1>8. /\ transactions'[x].amount = transactions[x].amount
      /\ transactions'[x].method = transactions[x].method
      /\ transactions'[x].refunded = n
      /\ transactions'[x].status = transactions[x].status
  BY <1>1, <1>5 DEF Transaction
<1> QED
  BY <1>4, <1>6, <1>7, <1>8 DEF KeepsTxns, Txns

(* The payout changes one refund and one thread.                            *)
LEMMA GatewayRefundKeepsMoney ==
    ASSUME MoneyInv, NEW t \in Threads, NEW r \in Refunds, GatewayRefund(t, r)
    PROVE  MoneyInv'
<1> DEFINE q == [step |-> "check_completed", id |-> r, amount |-> 0]
<1>1. /\ refunds' \in [RefundIds -> RefundRequest \cup {NoRefund}]
      /\ Refunds' = Refunds
      /\ KeepsRefunds
  BY RefundStatusWritten DEF MoneyInv, GatewayRefund, RefundStatus
<1>2. KeepsTxns /\ Txns' = Txns
  BY Untouched DEF GatewayRefund
<1>3. IdsIssued' /\ RefundRequestSound'
  BY <1>1, <1>2, RequestsKept
<1>4. pend' \in [Threads -> Pending] /\ PendingSound'
  <2>1. q \in Pending
    BY ObjectTypes DEF Steps, Pending, MoneyInv
  <2>2. pend' = [pend EXCEPT ![t] = q]
    BY DEF GatewayRefund, Goto
  <2>3. q.step = "check_completed" /\ q.id \in Refunds'
    BY <1>1
  <2> QED BY <1>1, <1>2, <2>1, <2>2, <2>3, PendingKept
<1>5. paidOut' \in [RefundIds -> 0..MaxPayouts]
  <2>1. paidOut[r] \in 0..MaxPayouts /\ paidOut[r] < MaxPayouts /\ r \in RefundIds
    BY ObjectTypes DEF MoneyInv, TypeOK, GatewayRefund
  <2>2. paidOut[r] + 1 \in 0..MaxPayouts
    BY <2>1, ConstantsAssumption
  <2>3. paidOut' = [paidOut EXCEPT ![r] = paidOut[r] + 1]
    BY DEF GatewayRefund
  <2> QED BY <2>2, <2>3 DEF MoneyInv, TypeOK
<1> QED
  BY <1>1, <1>3, <1>4, <1>5 DEF MoneyInv, TypeOK, GatewayRefund

(* A rejection changes the status of one refund.                            *)
LEMMA RejectKeepsMoney ==
    ASSUME MoneyInv, NEW t \in Threads, NEW r \in Refunds, RejectRefund(t, r)
    PROVE  MoneyInv'
<1>1. /\ refunds' \in [RefundIds -> RefundRequest \cup {NoRefund}]
      /\ Refunds' = Refunds
      /\ KeepsRefunds
  BY RefundStatusWritten DEF MoneyInv, RejectRefund, RefundStatus
<1>2. KeepsTxns /\ Txns' = Txns
  BY Untouched DEF RejectRefund
<1>3. IdsIssued' /\ RefundRequestSound'
  BY <1>1, <1>2, RequestsKept
<1>4. PendingSound'
  BY <1>1, <1>2, PendingUnchanged DEF RejectRefund
<1> QED
  BY <1>1, <1>3, <1>4 DEF MoneyInv, TypeOK, RejectRefund

(* What a thread that is recording a refund holds.                          *)
LEMMA RecordingTypes ==
    ASSUME MoneyInv, NEW t \in Threads,
           pend[t].step \in {"check_completed", "add_refunded", "set_refunded"}
    PROVE  /\ pend[t].id \in Refunds
           /\ refunds[pend[t].id].txn \in Txns
           /\ refunds[pend[t].id].amount \in Nat
           /\ refunds[pend[t].id].amount > 0
           /\ pend[t].amount \in Nat
<1>1. pend[t].id \in Refunds
  BY DEF MoneyInv, PendingSound
<1>2. /\ refunds[pend[t].id].txn \in Txns
      /\ refunds[pend[t].id].amount \in 1..transactions[refunds[pend[t].id].txn].amount
  BY <1>1 DEF MoneyInv, RefundRequestSound
<1>3. refunds[pend[t].id].amount \in Nat
  BY <1>1, ObjectTypes DEF MoneyInv, RefundRequest
<1> QED
  BY <1>1, <1>2, <1>3 DEF MoneyInv, TypeOK, Pending

(* The addition, from either amount it may start with, keeps the types.     *)
LEMMA AddKeepsMoney ==
    ASSUME MoneyInv, NEW t \in Threads, AddRefunded(t)
    PROVE  MoneyInv'
<1> DEFINE r == refunds[pend[t].id]
<1>1. PICK base \in {pend[t].amount, transactions[r.txn].refunded} :
         /\ transactions' = [transactions EXCEPT ![r.txn].refunded = base + r.amount]
         /\ Goto(t, "set_refunded", pend[t].id, base + r.amount)
  BY DEF AddRefunded, Recorded
<1>2. /\ pend[t].id \in Refunds
      /\ r.txn \in Txns
      /\ r.amount \in Nat
      /\ pend[t].amount \in Nat
  BY RecordingTypes DEF AddRefunded, At
<1>3. base + r.amount \in Nat
  <2>1. transactions[r.txn].refunded \in Nat
    BY <1>2, ObjectTypes DEF MoneyInv, Transaction
  <2>2. base \in Nat
    BY <1>2, <2>1
  <2> QED BY <1>2, <2>2
<1>4. /\ transactions' \in [TxnIds -> Transaction \cup {NoTxn}]
      /\ Txns' = Txns
      /\ KeepsTxns
  BY <1>1, <1>2, <1>3, RefundedWritten DEF MoneyInv
<1>5. KeepsRefunds /\ Refunds' = Refunds
  BY Untouched DEF AddRefunded
<1>6. IdsIssued' /\ RefundRequestSound'
  BY <1>4, <1>5, RequestsKept
<1>7. pend' \in [Threads -> Pending] /\ PendingSound'
  <2> DEFINE q == [step |-> "set_refunded", id |-> pend[t].id, amount |-> base + r.amount]
  <2>1. q \in Pending
    BY <1>2, <1>3, ObjectTypes DEF Steps, Pending, MoneyInv
  <2>2. pend' = [pend EXCEPT ![t] = q]
    BY <1>1 DEF Goto
  <2>3. q.step = "set_refunded" /\ q.id \in Refunds'
    BY <1>2, <1>5
  <2> HIDE DEF q
  <2> QED BY <1>4, <1>5, <2>1, <2>2, <2>3, PendingKept
<1> QED
  BY <1>4, <1>6, <1>7 DEF MoneyInv, TypeOK, AddRefunded

(* Each action keeps MoneyInv.                                              *)
LEMMA MoneyNext == MoneyInv /\ [Next]_vars => MoneyInv'
<1> SUFFICES ASSUME MoneyInv, [Next]_vars PROVE MoneyInv'
  OBVIOUS
<1>1. ASSUME NEW t \in Threads, NEW a \in Amounts, NEW m \in Methods,
             CreateTransaction(t, a, m)
      PROVE  MoneyInv'
  BY <1>1, CreateKeepsMoney
<1>2. ASSUME NEW t \in Threads, NEW x \in Txns, ProcessPayment(t, x)
      PROVE  MoneyInv'
  <2>1. PICK s \in {"FAILED", "SUCCESS"} : SetStatus(x, s)
    BY <1>2, PayWrites DEF MoneyInv, ProcessPayment
  <2>2. charged' \in [TxnIds -> 0..MaxCharges]
    BY <1>2, PayWrites DEF MoneyInv, ProcessPayment
  <2> QED
    BY <1>2, <2>1, <2>2, StatusKeepsMoney, IdleSound DEF ProcessPayment, TransactionStatus
<1>3. ASSUME NEW t \in Threads, NEW x \in Txns, CheckFailed(t, x)
      PROVE  MoneyInv'
  <2> DEFINE q == [step |-> "set_pending", id |-> x, amount |-> 0]
  <2>1. q \in Pending
    BY ObjectTypes, GotoTyped DEF MoneyInv, Steps
  <2>2. pend' = [pend EXCEPT ![t] = q] /\ q.step = "set_pending" /\ q.id = x
    BY <1>3 DEF CheckFailed, Goto
  <2> HIDE DEF q
  <2> QED
    BY <1>3, <2>1, <2>2, MoveKeepsMoney DEF CheckFailed
<1>4. ASSUME NEW t \in Threads, SetPending(t)
      PROVE  MoneyInv'
  <2> DEFINE q == [step |-> "pay", id |-> pend[t].id, amount |-> 0]
  <2>1. pend[t].id \in Txns
    BY <1>4 DEF MoneyInv, PendingSound, SetPending, At
  <2>2. q \in Pending
    BY <2>1, ObjectTypes, GotoTyped DEF MoneyInv, Steps
  <2>3. /\ pend' = [pend EXCEPT ![t] = q]
        /\ q.step = "pay" /\ q.id = pend[t].id
        /\ SetStatus(pend[t].id, "PENDING")
        /\ UNCHANGED <<refunds, charged, paidOut>>
    BY <1>4 DEF SetPending, Goto
  <2>4. charged' \in [TxnIds -> 0..MaxCharges]
    BY <2>3 DEF MoneyInv, TypeOK
  <2>5. "PENDING" \in TransactionStatus
    BY DEF TransactionStatus
  <2> HIDE DEF q
  <2> QED
    BY <2>1, <2>2, <2>3, <2>4, <2>5, StatusKeepsMoney
<1>5. ASSUME NEW t \in Threads, RetryPay(t)
      PROVE  MoneyInv'
  <2>1. pend[t].id \in Txns
    BY <1>5 DEF MoneyInv, PendingSound, RetryPay, At
  <2>2. PICK s \in {"FAILED", "SUCCESS"} : SetStatus(pend[t].id, s)
    BY <1>5, <2>1, PayWrites DEF MoneyInv, RetryPay
  <2>3. charged' \in [TxnIds -> 0..MaxCharges]
    BY <1>5, <2>1, PayWrites DEF MoneyInv, RetryPay
  <2>4. pend' = [pend EXCEPT ![t] = Idle] /\ UNCHANGED <<refunds, paidOut>>
    BY <1>5 DEF RetryPay, Finish
  <2> QED
    BY <2>1, <2>2, <2>3, <2>4, StatusKeepsMoney, IdleSound DEF TransactionStatus
<1>6. ASSUME NEW t \in Threads, RetryUnsupported(t)
      PROVE  MoneyInv'
  BY <1>6, MoveKeepsMoney, IdleSound DEF RetryUnsupported, Finish
<1>7. ASSUME NEW t \in Threads, NEW x \in Txns, CheckCancellable(t, x)
      PROVE  MoneyInv'
  <2> DEFINE q == [step |-> "set_cancelled", id |-> x, amount |-> 0]
  <2>1. q \in Pending
    BY ObjectTypes, GotoTyped DEF MoneyInv, Steps
  <2>2. pend' = [pend EXCEPT ![t] = q] /\ q.step = "set_cancelled" /\ q.id = x
    BY <1>7 DEF CheckCancellable, Goto
  <2> HIDE DEF q
  <2> QED
    BY <1>7, <2>1, <2>2, MoveKeepsMoney DEF CheckCancellable
<1>8. ASSUME NEW t \in Threads, SetCancelled(t)
      PROVE  MoneyInv'
  <2>1. pend[t].id \in Txns
    BY <1>8 DEF MoneyInv, PendingSound, SetCancelled, At
  <2>2. /\ pend' = [pend EXCEPT ![t] = Idle]
        /\ SetStatus(pend[t].id, "CANCELLED")
        /\ UNCHANGED <<refunds, charged, paidOut>>
    BY <1>8 DEF SetCancelled, Finish
  <2>3. charged' \in [TxnIds -> 0..MaxCharges]
    BY <2>2 DEF MoneyInv, TypeOK
  <2> QED
    BY <2>1, <2>2, <2>3, StatusKeepsMoney, IdleSound DEF TransactionStatus
<1>9. ASSUME NEW t \in Threads, NEW x \in Txns, NEW s \in Forced,
             UpdateTransactionStatus(t, x, s)
      PROVE  MoneyInv'
  <2>1. /\ SetStatus(x, s)
        /\ UNCHANGED <<refunds, charged, paidOut>>
        /\ pend' = pend
    BY <1>9 DEF UpdateTransactionStatus
  <2>2. charged' \in [TxnIds -> 0..MaxCharges] /\ s \in TransactionStatus
    BY <2>1, ConstantsAssumption DEF MoneyInv, TypeOK
  <2> QED
    BY <2>1, <2>2, StatusKeepsMoney, IdleSound
<1>10. ASSUME NEW t \in Threads, NEW x \in Txns, NEW a \in Amounts,
              CheckRefundable(t, x, a)
       PROVE  MoneyInv'
  <2> DEFINE q == [step |-> "insert_refund", id |-> x, amount |-> a]
  <2>1. x \in Nat /\ a \in Nat /\ transactions[x] \in Transaction
    BY ObjectTypes, ConstantsAssumption DEF MoneyInv
  <2>2. q \in Pending
    BY <2>1, GotoTyped DEF Steps
  <2>3. a \in 1..transactions[x].amount
    <3>1. /\ transactions[x].amount \in Nat
          /\ transactions[x].refunded \in Nat
      BY <2>1, ConstantsAssumption DEF Transaction
    <3>2. a <= transactions[x].amount - transactions[x].refunded /\ a > 0
      BY <1>10 DEF CheckRefundable, CanRefund
    <3> QED BY <2>1, <3>1, <3>2
  <2>4. /\ pend' = [pend EXCEPT ![t] = q]
        /\ q.step = "insert_refund" /\ q.id = x /\ q.amount = a
    BY <1>10 DEF CheckRefundable, Goto
  <2> HIDE DEF q
  <2> QED
    BY <1>10, <2>2, <2>3, <2>4, MoveKeepsMoney DEF CheckRefundable
<1>11. ASSUME NEW t \in Threads, InsertRefund(t)
       PROVE  MoneyInv'
  BY <1>11, InsertKeepsMoney
<1>12. ASSUME NEW t \in Threads, NEW r \in Refunds, RejectRefund(t, r)
       PROVE  MoneyInv'
  BY <1>12, RejectKeepsMoney
<1>13. ASSUME NEW t \in Threads, NEW r \in Refunds, GatewayRefund(t, r)
       PROVE  MoneyInv'
  BY <1>13, GatewayRefundKeepsMoney
<1>14. ASSUME NEW t \in Threads, CheckRecordable(t)
       PROVE  MoneyInv'
  <2> DEFINE base == transactions[refunds[pend[t].id].txn].refunded
             q == [step |-> "add_refunded", id |-> pend[t].id, amount |-> base]
  <2>1. pend[t].id \in Refunds /\ refunds[pend[t].id].txn \in Txns
    BY <1>14, RecordingTypes DEF CheckRecordable, At
  <2>2. base \in Nat /\ pend[t].id \in Nat
    BY <2>1, ObjectTypes DEF MoneyInv, Transaction
  <2>3. q \in Pending
    BY <2>2, GotoTyped DEF Steps
  <2>4. /\ pend' = [pend EXCEPT ![t] = q]
        /\ q.step = "add_refunded" /\ q.id = pend[t].id
    BY <1>14 DEF CheckRecordable, Goto
  <2> HIDE DEF q
  <2> QED
    BY <1>14, <2>1, <2>3, <2>4, MoveKeepsMoney DEF CheckRecordable
<1>15. ASSUME NEW t \in Threads, LeaveUnrecorded(t)
       PROVE  MoneyInv'
  BY <1>15, MoveKeepsMoney, IdleSound DEF LeaveUnrecorded, Finish
<1>16. ASSUME NEW t \in Threads, AddRefunded(t)
       PROVE  MoneyInv'
  BY <1>16, AddKeepsMoney
<1>17. ASSUME NEW t \in Threads, SetRefunded(t)
       PROVE  MoneyInv'
  <2> DEFINE x == refunds[pend[t].id].txn
  <2>1. x \in Txns
    BY <1>17, RecordingTypes DEF SetRefunded, At
  <2>2. PICK total \in {pend[t].amount, transactions[x].refunded} :
           SetStatus(x, StatusAfterRefund(x, total))
    BY <1>17 DEF SetRefunded
  <2>3. StatusAfterRefund(x, total) \in TransactionStatus
    BY DEF StatusAfterRefund, TransactionStatus
  <2>4. /\ pend' = [pend EXCEPT ![t] = Idle]
        /\ UNCHANGED <<refunds, charged, paidOut>>
    BY <1>17 DEF SetRefunded, Finish
  <2>5. charged' \in [TxnIds -> 0..MaxCharges]
    BY <2>4 DEF MoneyInv, TypeOK
  <2> QED
    BY <2>1, <2>2, <2>3, <2>4, <2>5, StatusKeepsMoney, IdleSound
<1>18. CASE UNCHANGED vars
  BY <1>18 DEF vars, MoneyInv, TypeOK, IdsIssued, PendingSound, RefundRequestSound,
               Txns, Refunds, At
<1> QED
  BY <1>1, <1>2, <1>3, <1>4, <1>5, <1>6, <1>7, <1>8, <1>9, <1>10, <1>11, <1>12,
     <1>13, <1>14, <1>15, <1>16, <1>17, <1>18 DEF Next, ProcessRefund

-------------------------------------------------------------------------------
(* Any number of threads: the ids, the requests and what every thread is    *)
(* about to do stay sound, however the unlocked accesses of the operations  *)
(* interleave.                                                              *)
THEOREM MoneyCorrect == Spec => []MoneyInv
<1> QED BY MoneyInit, MoneyNext, PTL DEF Spec

(* The maps, the counters and the threads' local values keep their types:   *)
(* no interleaving makes a recorded amount negative.                        *)
THEOREM PaymentTypeCorrect == Spec => []TypeOK
<1>1. MoneyInv => TypeOK
  BY DEF MoneyInv
<1> QED BY <1>1, MoneyCorrect, PTL

(* Every refund create_refund makes names an existing transaction and asks  *)
(* for at most its amount, although the transaction was checked without a   *)
(* lock.                                                                    *)
THEOREM RefundRequestsAreSound == Spec => []RefundRequestSound
<1>1. MoneyInv => RefundRequestSound
  BY DEF MoneyInv
<1> QED BY <1>1, MoneyCorrect, PTL

-------------------------------------------------------------------------------
(* From here on one thread at a time uses the manager.                      *)
Recording(t) == pend[t].step \in {"add_refunded", "set_refunded"}

(* While the only thread records nothing, no refund is in progress.         *)
LEMMA NothingInProgress ==
    ASSUME Sequential, NEW t \in Threads, ~Recording(t)'
    PROVE  RefundInProgress'
BY DEF Sequential, Recording, RefundInProgress, At

(* Where no refunded amount changes, they stay within the amounts.          *)
LEMMA WithinKept ==
    ASSUME RefundedWithinAmount, KeepsTxns, Txns' = Txns,
           \A y \in Txns : transactions'[y].refunded = transactions[y].refunded
    PROVE  RefundedWithinAmount'
BY DEF RefundedWithinAmount, KeepsTxns

(* A status write by a thread that then records nothing.                    *)
LEMMA StatusKeepsSequential ==
    ASSUME Sequential, SequentialInv, NEW x \in Txns, NEW s \in TransactionStatus,
           SetStatus(x, s), NEW t \in Threads, ~Recording(t)'
    PROVE  RefundedWithinAmount' /\ RefundInProgress'
BY NothingInProgress, WithinKept, StatusWritten DEF SequentialInv, MoneyInv

(* A step that leaves the transactions, by a thread that records nothing    *)
(* afterwards.                                                              *)
LEMMA MoveKeepsSequential ==
    ASSUME Sequential, SequentialInv, UNCHANGED transactions,
           NEW t \in Threads, ~Recording(t)'
    PROVE  RefundedWithinAmount' /\ RefundInProgress'
<1>1. KeepsTxns /\ Txns' = Txns
  BY Untouched
<1> QED
  BY <1>1, NothingInProgress, WithinKept DEF SequentialInv

(* Where the thread goes, or stays.                                         *)
LEMMA StepAfter ==
    ASSUME TypeOK, NEW t \in Threads
    PROVE  /\ \A step \in Steps : \A id, amount :
                /\ Goto(t, step, id, amount) =>
                      pend'[t] = [step |-> step, id |-> id, amount |-> amount]
                /\ Goto(t, step, id, amount) /\ step \notin {"add_refunded", "set_refunded"}
                      => ~Recording(t)'
           /\ Finish(t) => pend'[t] = Idle /\ ~Recording(t)'
           /\ Starts(t) /\ pend' = pend => ~Recording(t)'
           /\ Starts(t) => pend[t].step = "none"
BY DEF TypeOK, Goto, Finish, Starts, Recording, Idle

(* CheckRecordable sees the refunded amount it carries on, and the refund   *)
(* fits.                                                                    *)
LEMMA CheckKeepsSequential ==
    ASSUME Sequential, SequentialInv, NEW t \in Threads, CheckRecordable(t)
    PROVE  RefundedWithinAmount' /\ RefundInProgress'
<1> DEFINE r == refunds[pend[t].id]
<1>1. /\ pend'[t].step = "add_refunded"
      /\ pend'[t].id = pend[t].id
      /\ pend'[t].amount = transactions[r.txn].refunded
  <2>1. Goto(t, "add_refunded", pend[t].id, transactions[r.txn].refunded)
    BY DEF CheckRecordable
  <2> HIDE DEF r
  <2> QED
    BY <2>1 DEF SequentialInv, MoneyInv, TypeOK, Goto
<1>2. /\ UNCHANGED <<transactions, refunds>>
      /\ CanRefund(r.txn, r.amount)
  BY DEF CheckRecordable
<1>3. KeepsTxns /\ Txns' = Txns
  BY <1>2, Untouched
<1>4. RefundInProgress'
  BY <1>1, <1>2 DEF Sequential, RefundInProgress, At, CanRefund
<1> QED
  BY <1>2, <1>3, <1>4, WithinKept DEF SequentialInv

(* What AddRefunded does when nobody interferes: it adds to the amount that *)
(* is recorded, and the sum fits.                                           *)
LEMMA AddedWithin ==
    ASSUME Sequential, SequentialInv, NEW t \in Threads, AddRefunded(t)
    PROVE  LET r == refunds[pend[t].id]
               total == transactions[r.txn].refunded + r.amount IN
           /\ r.txn \in Txns
           /\ total \in 1..transactions[r.txn].amount
           /\ transactions[r.txn].status = "SUCCESS"
           /\ transactions' = [transactions EXCEPT ![r.txn].refunded = total]
           /\ pend'[t] = [step |-> "set_refunded", id |-> pend[t].id, amount |-> total]
<1> DEFINE r == refunds[pend[t].id]
           total == transactions[r.txn].refunded + r.amount
<1>1. /\ r.txn \in Txns
      /\ r.amount \in Nat
  BY RecordingTypes DEF SequentialInv, AddRefunded, At
<1>2. /\ pend[t].amount = transactions[r.txn].refunded
      /\ CanRefund(r.txn, r.amount)
  BY DEF SequentialInv, RefundInProgress, AddRefunded
<1>3. /\ transactions[r.txn].refunded \in Nat
      /\ transactions[r.txn].amount \in Nat
  BY <1>1, ObjectTypes, ConstantsAssumption DEF SequentialInv, MoneyInv, Transaction
<1>4. total \in 1..transactions[r.txn].amount /\ transactions[r.txn].status = "SUCCESS"
  BY <1>1, <1>2, <1>3 DEF CanRefund
<1>5. /\ transactions' = [transactions EXCEPT ![r.txn].refunded = total]
      /\ Goto(t, "set_refunded", pend[t].id, total)
  BY <1>2 DEF AddRefunded, Recorded
<1>6. pend'[t] = [step |-> "set_refunded", id |-> pend[t].id, amount |-> total]
  <2> HIDE DEF total
  <2>1. pend' = [pend EXCEPT ![t] = [step |-> "set_refunded", id |-> pend[t].id,
                                     amount |-> total]]
    BY <1>5 DEF Goto
  <2>2. pend \in [Threads -> Pending]
    BY DEF SequentialInv, MoneyInv, TypeOK
  <2> QED BY <2>1, <2>2
<1> QED
  BY <1>1, <1>4, <1>5, <1>6

(* The addition keeps every refunded amount within its transaction's.       *)
LEMMA AddKeepsSequential ==
    ASSUME Sequential, SequentialInv, NEW t \in Threads, AddRefunded(t)
    PROVE  RefundedWithinAmount' /\ RefundInProgress'
<1> DEFINE x == refunds[pend[t].id].txn
           total == transactions[x].refunded + refunds[pend[t].id].amount
<1>1. /\ x \in Txns
      /\ total \in 1..transactions[x].amount
      /\ transactions[x].status = "SUCCESS"
      /\ transactions' = [transactions EXCEPT ![x].refunded = total]
      /\ pend'[t] = [step |-> "set_refunded", id |-> pend[t].id, amount |-> total]
  BY AddedWithin
<1>2. total \in Nat /\ total > 0 /\ total <= transactions[x].amount
  <2>1. transactions[x].amount \in Nat
    BY <1>1, ObjectTypes, ConstantsAssumption DEF SequentialInv, MoneyInv, Transaction
  <2>2. total \in 1..transactions[x].amount
    BY <1>1
  <2> HIDE DEF total
  <2> QED BY <2>1, <2>2
<1>3. /\ Txns' = Txns
      /\ KeepsTxns
      /\ transactions'[x].refunded = total
      /\ transactions'[x].status = "SUCCESS"
      /\ \A y \in Txns : y # x => transactions'[y] = transactions[y]
  BY <1>1, <1>2, RefundedWritten DEF SequentialInv, MoneyInv
<1> HIDE DEF total
<1>4. RefundedWithinAmount'
  BY <1>1, <1>2, <1>3 DEF SequentialInv, RefundedWithinAmount, KeepsTxns
<1>5. refunds' = refunds
  BY DEF AddRefunded
<1>6. RefundInProgress'
  BY <1>1, <1>2, <1>3, <1>5 DEF Sequential, RefundInProgress, At
<1> QED BY <1>4, <1>6

(* A new transaction has nothing refunded.                                  *)
LEMMA CreateKeepsSequential ==
    ASSUME Sequential, SequentialInv, NEW t \in Threads, NEW a \in Amounts,
           NEW m \in Methods, CreateTransaction(t, a, m)
    PROVE  RefundedWithinAmount' /\ RefundInProgress'
<1> DEFINE x == NewTxnId
           new == [amount |-> a, method |-> m, status |-> "PENDING", refunded |-> 0]
<1>1. transactions' = [transactions EXCEPT ![x] = new] /\ x \in TxnIds
  BY DEF CreateTransaction
<1>2. /\ transactions'[x] = new
      /\ \A y \in TxnIds : y # x => transactions'[y] = transactions[y]
  BY <1>1 DEF SequentialInv, MoneyInv, TypeOK
<1>3. \A y \in Txns' : y = x \/ y \in Txns
  BY <1>2 DEF Txns
<1>4. 0 <= a
  BY ConstantsAssumption
<1>5. RefundedWithinAmount'
  BY <1>2, <1>3, <1>4 DEF SequentialInv, RefundedWithinAmount, Txns
<1>6. ~Recording(t)'
  BY StepAfter DEF CreateTransaction, SequentialInv, MoneyInv
<1> QED
  BY <1>5, <1>6, NothingInProgress

(* Each action keeps SequentialInv.                                         *)
LEMMA SequentialNext ==
    ASSUME Sequential, SequentialInv, [Next]_vars
    PROVE  SequentialInv'
<1> USE DEF SequentialInv
<1>0. MoneyInv' /\ TypeOK
  BY MoneyNext DEF MoneyInv
<1> DEFINE Kept == RefundedWithinAmount' /\ RefundInProgress'
<1>1. ASSUME NEW t \in Threads, NEW a \in Amounts, NEW m \in Methods,
             CreateTransaction(t, a, m)
      PROVE  Kept
  BY <1>1, CreateKeepsSequential
<1>2. ASSUME NEW t \in Threads, NEW x \in Txns, ProcessPayment(t, x)
      PROVE  Kept
  BY <1>0, <1>2, PayWrites, StepAfter, StatusKeepsSequential
     DEF ProcessPayment, TransactionStatus
<1>3. ASSUME NEW t \in Threads, NEW x \in Txns, CheckFailed(t, x)
      PROVE  Kept
  BY <1>0, <1>3, StepAfter, MoveKeepsSequential DEF CheckFailed, Steps
<1>4. ASSUME NEW t \in Threads, SetPending(t)
      PROVE  Kept
  <2>1. pend[t].id \in Txns
    BY <1>4 DEF MoneyInv, PendingSound, SetPending, At
  <2> QED
    BY <1>0, <1>4, <2>1, StepAfter, StatusKeepsSequential
       DEF SetPending, Steps, TransactionStatus
<1>5. ASSUME NEW t \in Threads, RetryPay(t)
      PROVE  Kept
  <2>1. pend[t].id \in Txns
    BY <1>5 DEF MoneyInv, PendingSound, RetryPay, At
  <2> QED
    BY <1>0, <1>5, <2>1, PayWrites, StepAfter, StatusKeepsSequential
       DEF RetryPay, TransactionStatus
<1>6. ASSUME NEW t \in Threads, RetryUnsupported(t)
      PROVE  Kept
  BY <1>0, <1>6, StepAfter, MoveKeepsSequential DEF RetryUnsupported
<1>7. ASSUME NEW t \in Threads, NEW x \in Txns, CheckCancellable(t, x)
      PROVE  Kept
  BY <1>0, <1>7, StepAfter, MoveKeepsSequential DEF CheckCancellable, Steps
<1>8. ASSUME NEW t \in Threads, SetCancelled(t)
      PROVE  Kept
  <2>1. pend[t].id \in Txns
    BY <1>8 DEF MoneyInv, PendingSound, SetCancelled, At
  <2> QED
    BY <1>0, <1>8, <2>1, StepAfter, StatusKeepsSequential
       DEF SetCancelled, TransactionStatus
<1>9. ASSUME NEW t \in Threads, NEW x \in Txns, NEW s \in Forced,
             UpdateTransactionStatus(t, x, s)
      PROVE  Kept
  <2>1. s \in TransactionStatus
    BY ConstantsAssumption
  <2> QED
    BY <1>0, <1>9, <2>1, StepAfter, StatusKeepsSequential DEF UpdateTransactionStatus
<1>10. ASSUME NEW t \in Threads, NEW x \in Txns, NEW a \in Amounts,
              CheckRefundable(t, x, a)
       PROVE  Kept
  BY <1>0, <1>10, StepAfter, MoveKeepsSequential DEF CheckRefundable, Steps
<1>11. ASSUME NEW t \in Threads, InsertRefund(t)
       PROVE  Kept
  BY <1>0, <1>11, StepAfter, MoveKeepsSequential DEF InsertRefund
<1>12. ASSUME NEW t \in Threads, NEW r \in Refunds, RejectRefund(t, r)
       PROVE  Kept
  BY <1>0, <1>12, StepAfter, MoveKeepsSequential DEF RejectRefund
<1>13. ASSUME NEW t \in Threads, NEW r \in Refunds, GatewayRefund(t, r)
       PROVE  Kept
  BY <1>0, <1>13, StepAfter, MoveKeepsSequential DEF GatewayRefund, Steps
<1>14. ASSUME NEW t \in Threads, CheckRecordable(t)
       PROVE  Kept
  BY <1>14, CheckKeepsSequential
<1>15. ASSUME NEW t \in Threads, LeaveUnrecorded(t)
       PROVE  Kept
  BY <1>0, <1>15, StepAfter, MoveKeepsSequential DEF LeaveUnrecorded
<1>16. ASSUME NEW t \in Threads, AddRefunded(t)
       PROVE  Kept
  BY <1>16, AddKeepsSequential
<1>17. ASSUME NEW t \in Threads, SetRefunded(t)
       PROVE  Kept
  <2> DEFINE x == refunds[pend[t].id].txn
  <2>1. x \in Txns
    BY <1>17, RecordingTypes DEF SetRefunded, At
  <2>2. PICK total \in {pend[t].amount, transactions[x].refunded} :
           SetStatus(x, StatusAfterRefund(x, total))
    BY <1>17 DEF SetRefunded
  <2>3. StatusAfterRefund(x, total) \in TransactionStatus
    BY DEF StatusAfterRefund, TransactionStatus
  <2>4. ~Recording(t)'
    BY <1>0, <1>17, StepAfter DEF SetRefunded
  <2> QED
    BY <2>1, <2>2, <2>3, <2>4, StatusKeepsSequential
<1>18. ASSUME UNCHANGED vars
       PROVE  Kept
  BY <1>18 DEF vars, RefundedWithinAmount, RefundInProgress, Txns, At, CanRefund
<1>19. Kept
  BY <1>1, <1>2, <1>3, <1>4, <1>5, <1>6, <1>7, <1>8, <1>9, <1>10, <1>11, <1>12,
     <1>13, <1>14, <1>15, <1>16, <1>17, <1>18 DEF Next, ProcessRefund
<1> QED
  BY <1>0, <1>19

(* The initial state satisfies SequentialInv.                               *)
LEMMA SequentialInit == Init => SequentialInv
<1> SUFFICES ASSUME Init PROVE SequentialInv
  OBVIOUS
<1>1. Txns = {}
  BY DEF Init, Txns
<1>2. RefundInProgress
  BY IdleSound DEF Init, RefundInProgress, At
<1> QED
  BY <1>1, <1>2, MoneyInit DEF SequentialInv, RefundedWithinAmount

(* One thread at a time: what is recorded as refunded never exceeds the     *)
(* transaction's amount, whatever refunds are requested and processed again *)
(* and whatever statuses callers force in between.                          *)
THEOREM RefundsStayWithinAmount ==
    ASSUME Sequential
    PROVE  Spec => []RefundedWithinAmount
<1>1. SequentialInv /\ [Next]_vars => SequentialInv'
  BY SequentialNext
<1>2. SequentialInv => RefundedWithinAmount
  BY DEF SequentialInv
<1> QED BY SequentialInit, <1>1, <1>2, PTL DEF Spec

-------------------------------------------------------------------------------
(* From here on no caller forces a status either.                           *)

(* A status that says nothing about refunds.                                *)
LEMMA AgreesKept ==
    ASSUME TypeOK, RefundStatusAgrees, NEW x \in Txns,
           NEW s \in {"PENDING", "FAILED", "SUCCESS", "CANCELLED"}, SetStatus(x, s)
    PROVE  RefundStatusAgrees'
<1>1. /\ Txns' = Txns /\ KeepsTxns
      /\ \A y \in Txns : transactions'[y].refunded = transactions[y].refunded
      /\ transactions'[x].status = s
      /\ \A y \in Txns : y # x => transactions'[y] = transactions[y]
  BY StatusWritten DEF TransactionStatus
<1> QED
  BY <1>1 DEF RefundStatusAgrees, KeepsTxns

(* One transaction stays settled when its status and its charges stay, its  *)
(* retry goes on and no cancellation starts.                                *)
LEMMA SettledKept ==
    ASSUME Sequential, NEW t \in Threads, NEW y \in TxnIds, Settled(y),
           charged'[y] = charged[y],
           y \in Txns => /\ y \in Txns'
                         /\ transactions'[y].status = transactions[y].status
                         /\ transactions'[y].method = transactions[y].method,
           At(t, "pay") /\ pend[t].id = y => At(t, "pay")' /\ pend'[t].id = y,
           At(t, "set_cancelled")' => pend'[t].id # y
    PROVE  Settled(y)'
BY DEF Sequential, Settled, At

(* A step that leaves the transactions, of a thread that neither pays nor   *)
(* is about to cancel.                                                      *)
LEMMA MoveKeepsSettled ==
    ASSUME Sequential, ChargedSettled, UNCHANGED <<transactions, charged>>,
           NEW t \in Threads, ~At(t, "pay"), ~At(t, "set_cancelled")'
    PROVE  ChargedSettled'
<1>1. Txns' = Txns
  BY Untouched
<1> QED
  BY <1>1, SettledKept DEF ChargedSettled

(* A status written by a thread that is at no other transaction.            *)
LEMMA StatusKeepsSettled ==
    ASSUME Sequential, TypeOK, ChargedSettled, NEW x \in Txns,
           NEW s \in TransactionStatus, SetStatus(x, s),
           NEW t \in Threads, At(t, "pay") => pend[t].id = x, ~At(t, "set_cancelled")',
           \A y \in TxnIds : y # x => charged'[y] = charged[y],
           Settled(x)'
    PROVE  ChargedSettled'
<1>1. /\ Txns' = Txns
      /\ \A y \in Txns : y # x => transactions'[y] = transactions[y]
  BY StatusWritten
<1>2. ASSUME NEW y \in TxnIds, y # x
      PROVE  Settled(y)'
  BY <1>1, <1>2, SettledKept DEF ChargedSettled
<1> QED
  BY <1>2 DEF ChargedSettled

(* A transaction whose status is final enough is settled.                   *)
LEMMA SettledByStatus ==
    ASSUME Sequential, TypeOK, NEW x \in Txns, NEW s \in TransactionStatus,
           SetStatus(x, s), s \notin {"PENDING", "PROCESSING", "CANCELLED"},
           NEW t \in Threads, ~At(t, "set_cancelled")',
           Supports(GatewayOf(transactions[x].method), transactions[x].method)
    PROVE  Settled(x)'
<1>1. /\ x \in Txns'
      /\ transactions'[x].status = s
      /\ transactions'[x].method = transactions[x].method
  BY StatusWritten DEF KeepsTxns
<1> QED
  BY <1>1 DEF Sequential, Settled, At

(* The gateway's answer settles the transaction.                            *)
LEMMA PayKeepsUnforced ==
    ASSUME Sequential, UnforcedInv, NEW x \in Txns, Pay(x),
           NEW t \in Threads, At(t, "pay") => pend[t].id = x, ~At(t, "set_cancelled")'
    PROVE  RefundStatusAgrees' /\ ChargedSettled'
<1>1. TypeOK /\ ChargedSettled /\ RefundStatusAgrees
  BY DEF UnforcedInv, SequentialInv, MoneyInv
<1>2. PICK s \in {"FAILED", "SUCCESS"} :
         /\ SetStatus(x, s)
         /\ charged' = [charged EXCEPT ![x] = IF s = "SUCCESS" THEN @ + 1 ELSE @]
  BY <1>1, PayWrites
<1>3. Supports(GatewayOf(transactions[x].method), transactions[x].method)
  BY DEF Pay
<1>4. RefundStatusAgrees'
  BY <1>1, <1>2, AgreesKept
<1>5. \A y \in TxnIds : y # x => charged'[y] = charged[y]
  BY <1>1, <1>2 DEF TypeOK
<1>6. Settled(x)'
  BY <1>1, <1>2, <1>3, SettledByStatus DEF TransactionStatus
<1> QED
  BY <1>1, <1>2, <1>4, <1>5, <1>6, StatusKeepsSettled DEF TransactionStatus

(* A retry makes the transaction PENDING and goes on to pay it.             *)
LEMMA SetPendingKeepsUnforced ==
    ASSUME Sequential, UnforcedInv, NEW t \in Threads, SetPending(t)
    PROVE  RefundStatusAgrees' /\ ChargedSettled'
<1> DEFINE x == pend[t].id
<1>1. TypeOK /\ ChargedSettled /\ RefundStatusAgrees
  BY DEF UnforcedInv, SequentialInv, MoneyInv
<1>2. /\ x \in Txns
      /\ SetStatus(x, "PENDING")
      /\ charged' = charged
      /\ At(t, "set_pending")
  BY DEF UnforcedInv, SequentialInv, MoneyInv, PendingSound, SetPending, At
<1>3. pend'[t].step = "pay" /\ pend'[t].id = x
  BY <1>1 DEF TypeOK, SetPending, Goto
<1>4. RefundStatusAgrees'
  BY <1>1, <1>2, AgreesKept
<1>5. /\ x \in Txns'
      /\ transactions'[x].status = "PENDING"
      /\ transactions'[x].method = transactions[x].method
  BY <1>1, <1>2, StatusWritten DEF KeepsTxns, TransactionStatus
<1>6. Settled(x)'
  <2>1. Settled(x)
    BY <1>1, <1>2, ObjectTypes DEF ChargedSettled
  <2> QED
    BY <1>2, <1>3, <1>5, <2>1 DEF Sequential, Settled, At
<1>7. ChargedSettled'
  BY <1>1, <1>2, <1>3, <1>6, StatusKeepsSettled DEF At, TransactionStatus
<1> QED BY <1>4, <1>7

(* The transaction cancel_payment checked was not charged.                  *)
LEMMA SetCancelledKeepsUnforced ==
    ASSUME Sequential, UnforcedInv, NEW t \in Threads, SetCancelled(t)
    PROVE  RefundStatusAgrees' /\ ChargedSettled'
<1>0. PICK x \in Txns : x = pend[t].id
  BY DEF UnforcedInv, SequentialInv, MoneyInv, PendingSound, SetCancelled, At
<1>1. TypeOK /\ ChargedSettled /\ RefundStatusAgrees
  BY DEF UnforcedInv, SequentialInv, MoneyInv
<1>2. /\ SetStatus(x, "CANCELLED")
      /\ charged' = charged
      /\ At(t, "set_cancelled")
  BY <1>0 DEF SetCancelled, At
<1>3. ~At(t, "set_cancelled")'
  BY <1>1, StepAfter, IdleSound DEF SetCancelled, At
<1>4. RefundStatusAgrees'
  BY <1>1, <1>2, AgreesKept
<1>5. Settled(x)'
  <2>1. Settled(x)
    BY <1>1, <1>2, ObjectTypes DEF ChargedSettled
  <2>2. ~(charged[x] > 0)
    BY <1>0, <1>2, <2>1 DEF Settled
  <2> QED
    BY <1>2, <2>2 DEF Settled
<1>6. ChargedSettled'
  BY <1>0, <1>1, <1>2, <1>3, <1>5, StatusKeepsSettled DEF At, TransactionStatus
<1> QED BY <1>4, <1>6

(* cancel_payment's check passes only for what was not charged.             *)
LEMMA CheckCancellableKeepsSettled ==
    ASSUME Sequential, UnforcedInv, NEW t \in Threads, NEW x \in Txns,
           CheckCancellable(t, x)
    PROVE  ChargedSettled'
<1>1. TypeOK /\ ChargedSettled
  BY DEF UnforcedInv, SequentialInv, MoneyInv
<1>2. /\ UNCHANGED <<transactions, charged>>
      /\ pend'[t] = [step |-> "set_cancelled", id |-> x, amount |-> 0]
      /\ transactions[x].status \in {"PENDING", "PROCESSING"}
  BY <1>1 DEF TypeOK, CheckCancellable, Goto, Cancellable
<1>3. pend[t].step = "none"
  BY <1>1, StepAfter DEF CheckCancellable
<1>4. ~(charged[x] > 0)
  <2>1. Settled(x)
    BY <1>1, ObjectTypes DEF ChargedSettled
  <2> QED
    BY <1>2, <1>3, <2>1 DEF Sequential, Settled, At
<1>5. ASSUME NEW y \in TxnIds
      PROVE  Settled(y)'
  <2>1. CASE y = x
    BY <1>2, <1>4, <2>1 DEF Settled
  <2>2. CASE y # x
    <3>1. Txns' = Txns /\ Settled(y)
      BY <1>1, <1>2, Untouched DEF ChargedSettled
    <3> QED
      BY <1>2, <1>3, <2>2, <3>1, SettledKept DEF At
  <2> QED BY <2>1, <2>2
<1> QED BY <1>5 DEF ChargedSettled

(* A new transaction is not charged yet.                                    *)
LEMMA CreateKeepsUnforced ==
    ASSUME Sequential, UnforcedInv, NEW t \in Threads, NEW a \in Amounts,
           NEW m \in Methods, CreateTransaction(t, a, m)
    PROVE  RefundStatusAgrees' /\ ChargedSettled'
<1> DEFINE x == NewTxnId
           new == [amount |-> a, method |-> m, status |-> "PENDING", refunded |-> 0]
<1>1. TypeOK /\ ChargedSettled /\ RefundStatusAgrees
  BY DEF UnforcedInv, SequentialInv, MoneyInv
<1>2. x \in TxnIds /\ x \notin Txns
  BY FreshIds DEF UnforcedInv, SequentialInv, MoneyInv, CreateTransaction
<1>3. /\ transactions'[x] = new
      /\ \A y \in TxnIds : y # x => transactions'[y] = transactions[y]
      /\ charged' = charged
      /\ pend' = pend
  BY <1>1, <1>2 DEF TypeOK, CreateTransaction
<1>4. \A y \in TxnIds : y # x => (y \in Txns' <=> y \in Txns)
  BY <1>3 DEF Txns
<1>5. RefundStatusAgrees'
  BY <1>1, <1>3, <1>4 DEF RefundStatusAgrees, Txns
<1>6. pend[t].step = "none"
  BY <1>1, StepAfter DEF CreateTransaction
<1>7. ASSUME NEW y \in TxnIds
      PROVE  Settled(y)'
  <2>1. Settled(y)
    BY <1>1 DEF ChargedSettled
  <2>2. CASE y = x
    BY <1>2, <1>3, <2>1, <2>2 DEF Settled
  <2>3. CASE y # x
    BY <1>3, <1>4, <1>6, <2>1, <2>3, SettledKept DEF At
  <2> QED BY <2>2, <2>3
<1> QED BY <1>5, <1>7 DEF ChargedSettled

(* While a refund is added the status stays SUCCESS.                        *)
LEMMA AddKeepsUnforced ==
    ASSUME Sequential, UnforcedInv, NEW t \in Threads, AddRefunded(t)
    PROVE  RefundStatusAgrees' /\ ChargedSettled'
<1> DEFINE x == refunds[pend[t].id].txn
           total == transactions[x].refunded + refunds[pend[t].id].amount
<1>1. TypeOK /\ ChargedSettled /\ RefundStatusAgrees /\ SequentialInv
  BY DEF UnforcedInv, SequentialInv, MoneyInv
<1>2. /\ x \in Txns
      /\ total \in 1..transactions[x].amount
      /\ transactions[x].status = "SUCCESS"
      /\ transactions' = [transactions EXCEPT ![x].refunded = total]
      /\ pend'[t] = [step |-> "set_refunded", id |-> pend[t].id, amount |-> total]
  BY <1>1, AddedWithin
<1>3. total \in Nat
  <2>1. transactions[x].amount \in Nat
    BY <1>1, <1>2, ObjectTypes, ConstantsAssumption DEF Transaction
  <2> QED BY <1>2, <2>1
<1>4. /\ Txns' = Txns /\ KeepsTxns
      /\ transactions'[x].status = transactions[x].status
      /\ \A y \in Txns : y # x => transactions'[y] = transactions[y]
  BY <1>1, <1>2, <1>3, RefundedWritten
<1> HIDE DEF total
<1>5. RefundStatusAgrees'
  BY <1>1, <1>2, <1>4 DEF RefundStatusAgrees
<1>6. charged' = charged /\ pend[t].step = "add_refunded"
  BY DEF AddRefunded, At
<1>7. \A y \in Txns : /\ transactions'[y].status = transactions[y].status
                       /\ transactions'[y].method = transactions[y].method
  BY <1>2, <1>4 DEF KeepsTxns
<1>8. ChargedSettled'
  BY <1>1, <1>2, <1>4, <1>6, <1>7, SettledKept DEF ChargedSettled, At
<1> QED BY <1>5, <1>8

(* The status record_refund ends with agrees with the amount it recorded.   *)
LEMMA SetRefundedKeepsUnforced ==
    ASSUME Sequential, UnforcedInv, NEW t \in Threads, SetRefunded(t)
    PROVE  RefundStatusAgrees' /\ ChargedSettled'
<1>2. PICK x \in Txns : x = refunds[pend[t].id].txn
  BY RecordingTypes DEF UnforcedInv, SequentialInv, SetRefunded, At
<1> DEFINE y == transactions[x]
           s == StatusAfterRefund(x, y.refunded)
<1>1. TypeOK /\ ChargedSettled /\ RefundStatusAgrees /\ RefundedWithinAmount
  BY DEF UnforcedInv, SequentialInv, MoneyInv
<1>3. /\ pend[t].amount = y.refunded
      /\ y.status = "SUCCESS"
      /\ y.refunded > 0
      /\ pend[t].step = "set_refunded"
  BY <1>2 DEF UnforcedInv, SequentialInv, RefundInProgress, SetRefunded, At
<1>4. SetStatus(x, s) /\ charged' = charged
  BY <1>2, <1>3 DEF SetRefunded
<1>5. s \in {"REFUNDED", "PARTIALLY_REFUNDED"}
  BY DEF StatusAfterRefund
<1>6. ~At(t, "set_cancelled")'
  BY <1>1, StepAfter, IdleSound DEF SetRefunded, At
<1>7. /\ Txns' = Txns /\ KeepsTxns
      /\ transactions'[x].refunded = y.refunded
      /\ transactions'[x].status = s
      /\ \A z \in Txns : z # x => transactions'[z] = transactions[z]
  BY <1>1, <1>2, <1>4, <1>5, StatusWritten DEF TransactionStatus
<1>8. RefundStatusAgrees'
  <2>1. y.refunded \in Nat /\ y.amount \in Nat /\ y.refunded <= y.amount
    BY <1>1, <1>2, ObjectTypes, ConstantsAssumption DEF Transaction, RefundedWithinAmount
  <2>2. /\ s = "REFUNDED" => y.refunded = y.amount
        /\ s = "PARTIALLY_REFUNDED" => y.refunded \in 1..(y.amount - 1)
    BY <1>3, <2>1 DEF StatusAfterRefund
  <2>3. transactions'[x].amount = y.amount
    BY <1>2, <1>7 DEF KeepsTxns
  <2> HIDE DEF s
  <2> QED
    BY <1>1, <1>7, <2>2, <2>3 DEF RefundStatusAgrees
<1>9. Settled(x)'
  <2>1. Settled(x)
    BY <1>1, <1>2, ObjectTypes DEF ChargedSettled
  <2> HIDE DEF s
  <2>2. x \in Txns' /\ transactions'[x].method = y.method
    BY <1>2, <1>7 DEF KeepsTxns
  <2> QED
    BY <1>4, <1>5, <1>6, <1>7, <2>1, <2>2 DEF Sequential, Settled, At
<1>10. ChargedSettled'
  <2> HIDE DEF s
  <2> QED
    BY <1>1, <1>2, <1>3, <1>4, <1>5, <1>6, <1>9, StatusKeepsSettled
       DEF At, TransactionStatus
<1> QED BY <1>8, <1>10

(* Each action keeps UnforcedInv.                                           *)
LEMMA UnforcedNext ==
    ASSUME Sequential, Forced = {}, UnforcedInv, [Next]_vars
    PROVE  UnforcedInv'
<1>0. SequentialInv' /\ MoneyInv /\ TypeOK /\ RefundStatusAgrees /\ ChargedSettled
  BY SequentialNext DEF UnforcedInv, SequentialInv, MoneyInv
<1> DEFINE Kept == RefundStatusAgrees' /\ ChargedSettled'
<1>1. ASSUME UNCHANGED transactions
      PROVE  RefundStatusAgrees'
  BY <1>0, <1>1 DEF RefundStatusAgrees, Txns
<1>2. ASSUME NEW t \in Threads, NEW a \in Amounts, NEW m \in Methods,
             CreateTransaction(t, a, m)
      PROVE  Kept
  BY <1>2, CreateKeepsUnforced
<1>3. ASSUME NEW t \in Threads, NEW x \in Txns, ProcessPayment(t, x)
      PROVE  Kept
  <2>1. pend[t].step = "none" /\ pend' = pend
    BY <1>0, <1>3, StepAfter DEF ProcessPayment
  <2> QED
    BY <1>3, <2>1, PayKeepsUnforced DEF ProcessPayment, At
<1>4. ASSUME NEW t \in Threads, NEW x \in Txns, CheckFailed(t, x)
      PROVE  Kept
  <2>1. pend[t].step = "none" /\ pend'[t].step = "set_pending"
    BY <1>0, <1>4, StepAfter DEF CheckFailed, Goto, TypeOK
  <2> QED
    BY <1>0, <1>1, <1>4, <2>1, MoveKeepsSettled DEF CheckFailed, At
<1>5. ASSUME NEW t \in Threads, SetPending(t)
      PROVE  Kept
  BY <1>5, SetPendingKeepsUnforced
<1>6. ASSUME NEW t \in Threads, RetryPay(t)
      PROVE  Kept
  <2>1. pend[t].id \in Txns
    BY <1>0, <1>6 DEF MoneyInv, PendingSound, RetryPay, At
  <2>2. pend'[t].step = "none"
    BY <1>0, <1>6, StepAfter, IdleSound DEF RetryPay
  <2> QED
    BY <1>6, <2>1, <2>2, PayKeepsUnforced DEF RetryPay, At
<1>7. ASSUME NEW t \in Threads, RetryUnsupported(t)
      PROVE  Kept
  <2> DEFINE x == pend[t].id
  <2>1. /\ UNCHANGED <<transactions, charged>>
        /\ pend[t].step = "pay"
        /\ ~Supports(GatewayOf(transactions[x].method), transactions[x].method)
    BY <1>7 DEF RetryUnsupported, At
  <2>2. pend'[t].step = "none" /\ Txns' = Txns
    BY <1>0, <1>7, <2>1, StepAfter, IdleSound, Untouched DEF RetryUnsupported
  <2>3. ASSUME NEW y \in TxnIds
        PROVE  Settled(y)'
    <3>1. Settled(y)
      BY <1>0 DEF ChargedSettled
    <3>2. CASE y = x
      BY <2>1, <3>1, <3>2 DEF Settled
    <3>3. CASE y # x
      BY <2>1, <2>2, <3>1, <3>3, SettledKept DEF At
    <3> QED BY <3>2, <3>3
  <2> QED
    BY <1>1, <2>1, <2>3 DEF ChargedSettled
<1>8. ASSUME NEW t \in Threads, NEW x \in Txns, CheckCancellable(t, x)
      PROVE  Kept
  BY <1>1, <1>8, CheckCancellableKeepsSettled DEF CheckCancellable
<1>9. ASSUME NEW t \in Threads, SetCancelled(t)
      PROVE  Kept
  BY <1>9, SetCancelledKeepsUnforced
<1>10. ASSUME NEW t \in Threads, NEW x \in Txns, NEW a \in Amounts,
              CheckRefundable(t, x, a)
       PROVE  Kept
  <2>1. pend[t].step = "none" /\ pend'[t].step = "insert_refund"
    BY <1>0, <1>10, StepAfter DEF CheckRefundable, Goto, TypeOK
  <2> QED
    BY <1>0, <1>1, <1>10, <2>1, MoveKeepsSettled DEF CheckRefundable, At
<1>11. ASSUME NEW t \in Threads, InsertRefund(t)
       PROVE  Kept
  <2>1. pend[t].step = "insert_refund" /\ pend'[t].step = "none"
    BY <1>0, <1>11, StepAfter, IdleSound DEF InsertRefund, At
  <2> QED
    BY <1>0, <1>1, <1>11, <2>1, MoveKeepsSettled DEF InsertRefund, At
<1>12. ASSUME NEW t \in Threads, NEW r \in Refunds, RejectRefund(t, r)
       PROVE  Kept
  <2>1. pend[t].step = "none" /\ pend' = pend
    BY <1>0, <1>12, StepAfter DEF RejectRefund
  <2> QED
    BY <1>0, <1>1, <1>12, <2>1, MoveKeepsSettled DEF RejectRefund, At
<1>13. ASSUME NEW t \in Threads, NEW r \in Refunds, GatewayRefund(t, r)
       PROVE  Kept
  <2>1. pend[t].step = "none" /\ pend'[t].step = "check_completed"
    BY <1>0, <1>13, StepAfter DEF GatewayRefund, Goto, TypeOK
  <2> QED
    BY <1>0, <1>1, <1>13, <2>1, MoveKeepsSettled DEF GatewayRefund, At
<1>14. ASSUME NEW t \in Threads, CheckRecordable(t)
       PROVE  Kept
  <2>1. pend[t].step = "check_completed" /\ pend'[t].step = "add_refunded"
    BY <1>0, <1>14 DEF CheckRecordable, Goto, TypeOK, At
  <2>2. UNCHANGED <<transactions, charged>>
    BY <1>14 DEF CheckRecordable
  <2> QED
    BY <1>0, <1>1, <2>1, <2>2, MoveKeepsSettled DEF At
<1>15. ASSUME NEW t \in Threads, LeaveUnrecorded(t)
       PROVE  Kept
  <2>1. pend[t].step = "check_completed" /\ pend'[t].step = "none"
    BY <1>0, <1>15, StepAfter, IdleSound DEF LeaveUnrecorded, At
  <2> QED
    BY <1>0, <1>1, <1>15, <2>1, MoveKeepsSettled DEF LeaveUnrecorded, At
<1>16. ASSUME NEW t \in Threads, AddRefunded(t)
       PROVE  Kept
  BY <1>16, AddKeepsUnforced
<1>17. ASSUME NEW t \in Threads, SetRefunded(t)
       PROVE  Kept
  BY <1>17, SetRefundedKeepsUnforced
<1>18. ASSUME UNCHANGED vars
       PROVE  Kept
  BY <1>0, <1>1, <1>18 DEF vars, ChargedSettled, Settled, Txns, At
<1>19. Kept
  BY <1>2, <1>3, <1>4, <1>5, <1>6, <1>7, <1>8, <1>9, <1>10, <1>11, <1>12, <1>13,
     <1>14, <1>15, <1>16, <1>17, <1>18 DEF Next, ProcessRefund
<1> QED
  BY <1>0, <1>19 DEF UnforcedInv

(* The initial state satisfies UnforcedInv.                                 *)
LEMMA UnforcedInit == Init => UnforcedInv
<1> SUFFICES ASSUME Init PROVE UnforcedInv
  OBVIOUS
<1>1. Txns = {} /\ \A x \in TxnIds : charged[x] = 0
  BY DEF Init, Txns
<1> QED
  BY <1>1, SequentialInit DEF UnforcedInv, RefundStatusAgrees, ChargedSettled, Settled

(* One thread at a time and no forced status: the status tells how much was *)
(* refunded.                                                                *)
THEOREM RefundStatusAgreesUnforced ==
    ASSUME Sequential, Forced = {}
    PROVE  Spec => []RefundStatusAgrees
<1>1. UnforcedInv /\ [Next]_vars => UnforcedInv'
  BY UnforcedNext
<1>2. UnforcedInv => RefundStatusAgrees
  BY DEF UnforcedInv
<1> QED BY UnforcedInit, <1>1, <1>2, PTL DEF Spec

(* One thread at a time and no forced status: cancel_payment never cancels  *)
(* what the gateway has charged, however often a payment is retried.        *)
THEOREM CancelledNotChargedUnforced ==
    ASSUME Sequential, Forced = {}
    PROVE  Spec => []CancelledNotCharged
<1>1. UnforcedInv /\ [Next]_vars => UnforcedInv'
  BY UnforcedNext
<1>2. UnforcedInv => CancelledNotCharged
  <2> SUFFICES ASSUME UnforcedInv, NEW x \in Txns, transactions[x].status = "CANCELLED"
               PROVE  charged[x] = 0
    BY DEF CancelledNotCharged
  <2>1. Settled(x) /\ charged[x] \in Nat
    BY ObjectTypes, ConstantsAssumption
       DEF UnforcedInv, SequentialInv, MoneyInv, TypeOK, ChargedSettled
  <2> QED BY <2>1 DEF Settled
<1> QED BY UnforcedInit, <1>1, <1>2, PTL DEF Spec

-------------------------------------------------------------------------------
(* Any number of threads again, and how far the unlocked additions can get. *)

(* One thread's worth of the amount.                                        *)
LEMMA OneMore ==
    ASSUME NEW n \in Nat, NEW a \in Nat
    PROVE  /\ n * a \in Nat
           /\ (n + 1) * a = n * a + a
           /\ (n + 2) * a = n * a + a + a
OBVIOUS

LEMMA Monotone ==
    ASSUME NEW n \in Nat, NEW m \in Nat, NEW a \in Nat, n <= m
    PROVE  n * a <= m * a
<1>1. (m - n) * a \in Nat
  OBVIOUS
<1>2. m * a = n * a + (m - n) * a
  OBVIOUS
<1> QED BY <1>1, <1>2

(* How many threads are adding, and how many amounts are unused.            *)
LEMMA UnusedTyped ==
    ASSUME IsFiniteSet(Threads), NEW x
    PROVE  /\ AddingTo(x) \subseteq Threads
           /\ IsFiniteSet(AddingTo(x))
           /\ Cardinality(Threads) \in Nat
           /\ Unused(x) \in Nat
           /\ Unused(x) <= Cardinality(Threads)
           /\ AddingTo(x) # {} => Unused(x) + 1 <= Cardinality(Threads)
           /\ AddingTo(x) # Threads => Unused(x) > 0
<1>1. AddingTo(x) \subseteq Threads
  BY DEF AddingTo
<1>2. IsFiniteSet(AddingTo(x)) /\ Cardinality(AddingTo(x)) <= Cardinality(Threads)
  BY <1>1, FS_Subset
<1>3. Cardinality(Threads) \in Nat /\ Cardinality(AddingTo(x)) \in Nat
  BY <1>2, FS_CardinalityType
<1>4. AddingTo(x) # {} => Cardinality(AddingTo(x)) > 0
  BY <1>2, <1>3, FS_EmptySet
<1>5. AddingTo(x) # Threads => Cardinality(AddingTo(x)) # Cardinality(Threads)
  BY <1>1, FS_Subset
<1> QED
  BY <1>1, <1>2, <1>3, <1>4, <1>5 DEF Unused

(* What the invariant promises.                                             *)
LEMMA OverRefundMeans ==
    ASSUME IsFiniteSet(Threads), ThreadsInv
    PROVE  OverRefundBounded
<1> SUFFICES ASSUME NEW x \in Txns
             PROVE  transactions[x].refunded <= Cardinality(Threads) * transactions[x].amount
  BY DEF OverRefundBounded
<1> DEFINE a == transactions[x].amount
           paid == transactions[x].refunded
           n == Cardinality(Threads)
<1>1. a \in Nat /\ paid \in Nat
  BY ObjectTypes, ConstantsAssumption DEF ThreadsInv, MoneyInv, Transaction
<1>2. n \in Nat /\ Unused(x) \in Nat /\ Unused(x) <= n
  BY UnusedTyped
<1>3. CASE paid <= Unused(x) * a
  <2>1. Unused(x) * a <= n * a /\ Unused(x) * a \in Nat /\ n * a \in Nat
    BY <1>1, <1>2, Monotone, OneMore
  <2> QED BY <1>1, <1>3, <2>1
<1>4. CASE \E t \in AddingTo(x) : paid + refunds[pend[t].id].amount <= (Unused(x) + 1) * a
  <2>1. PICK t \in AddingTo(x) : paid + refunds[pend[t].id].amount <= (Unused(x) + 1) * a
    BY <1>4
  <2>2. Unused(x) + 1 <= n /\ Unused(x) + 1 \in Nat
    BY <1>2, UnusedTyped
  <2>3. (Unused(x) + 1) * a <= n * a /\ (Unused(x) + 1) * a \in Nat /\ n * a \in Nat
    BY <1>1, <1>2, <2>2, Monotone, OneMore
  <2>4. refunds[pend[t].id].amount \in Nat
    BY RecordingTypes DEF AddingTo, At, ThreadsInv
  <2> QED BY <1>1, <2>1, <2>3, <2>4
<1> QED BY <1>3, <1>4 DEF ThreadsInv, OverRefund

(* A step that touches no refunded amount and no thread that is adding.     *)
LEMMA QuietKeepsOverRefund ==
    ASSUME ThreadsInv, KeepsTxns, KeepsRefunds, NEW x \in Txns,
           transactions'[x].refunded = transactions[x].refunded,
           \A u \in Threads : \/ pend'[u] = pend[u]
                              \/ ~At(u, "add_refunded") /\ ~At(u, "add_refunded")'
    PROVE  OverRefund(x)'
<1>1. \A u \in Threads : At(u, "add_refunded") => pend[u].id \in Refunds
  BY RecordingTypes DEF ThreadsInv, At
<1>2. AddingTo(x)' = AddingTo(x)
  BY <1>1 DEF AddingTo, At, KeepsRefunds
<1>3. Unused(x)' = Unused(x)
  BY <1>2 DEF Unused
<1>4. transactions'[x].amount = transactions[x].amount
  BY DEF KeepsTxns
<1>5. \A u \in AddingTo(x) : /\ pend'[u] = pend[u]
                              /\ refunds'[pend'[u].id].amount = refunds[pend[u].id].amount
  BY <1>1 DEF AddingTo, KeepsRefunds, At
<1>6. OverRefund(x)
  BY DEF ThreadsInv
<1> QED
  BY <1>2, <1>3, <1>4, <1>5, <1>6 DEF OverRefund

(* A thread that has checked its refund: it fits into one amount, and this  *)
(* thread's own amount was unused.                                          *)
LEMMA CheckKeepsOverRefund ==
    ASSUME IsFiniteSet(Threads), ThreadsInv, NEW t \in Threads, CheckRecordable(t),
           NEW x \in Txns
    PROVE  OverRefund(x)'
<1> DEFINE r == refunds[pend[t].id]
           q == [step |-> "add_refunded", id |-> pend[t].id,
                 amount |-> transactions[r.txn].refunded]
<1>0. /\ UNCHANGED <<transactions, refunds>>
      /\ pend' = [pend EXCEPT ![t] = q]
      /\ CanRefund(r.txn, r.amount)
      /\ At(t, "check_completed")
  BY DEF CheckRecordable, Goto
<1>1. /\ pend'[t] = q
      /\ \A u \in Threads : u # t => pend'[u] = pend[u]
  BY <1>0 DEF ThreadsInv, MoneyInv, TypeOK
<1>2. KeepsTxns /\ KeepsRefunds
  BY <1>0, Untouched
<1>3. /\ r.txn \in Txns
      /\ r.amount \in Nat
  BY <1>0, RecordingTypes DEF ThreadsInv, At
<1>4. CASE r.txn # x
  <2>1. AddingTo(x)' = AddingTo(x) /\ t \notin AddingTo(x)
    BY <1>0, <1>1, <1>4 DEF AddingTo, At
  <2>2. Unused(x)' = Unused(x)
    BY <2>1 DEF Unused
  <2>3. \A u \in AddingTo(x) : pend'[u] = pend[u]
    BY <1>1, <2>1 DEF AddingTo
  <2> QED
    BY <1>0, <2>1, <2>2, <2>3 DEF ThreadsInv, OverRefund
<1>5. CASE r.txn = x
  <2> DEFINE a == transactions[x].amount
             paid == transactions[x].refunded
  <2>1. /\ a \in Nat /\ paid \in Nat
        /\ paid + r.amount <= a
    <3>1. a \in Nat /\ paid \in Nat
      BY ObjectTypes, ConstantsAssumption DEF ThreadsInv, MoneyInv, Transaction
    <3>2. r.amount <= a - paid
      BY <1>0, <1>5 DEF CanRefund
    <3> QED BY <1>3, <3>1, <3>2
  <2>2. AddingTo(x)' = AddingTo(x) \cup {t} /\ t \notin AddingTo(x)
    BY <1>0, <1>1, <1>5 DEF AddingTo, At
  <2>3. Unused(x)' \in Nat
    <3>1. (Unused(x) \in Nat)'
      BY UnusedTyped, PTL
    <3> QED BY <3>1
  <2>4. a <= (Unused(x)' + 1) * a
    <3>1. a = 1 * a
      BY <2>1
    <3>2. 1 * a <= (Unused(x)' + 1) * a
      BY <2>1, <2>3, Monotone
    <3> QED BY <3>1, <3>2
  <2>5. (Unused(x)' + 1) * a \in Nat
    BY <2>1, <2>3, OneMore
  <2>6. paid + r.amount <= (Unused(x)' + 1) * a
    BY <1>3, <2>1, <2>4, <2>5
  <2>7. \A u \in AddingTo(x)' :
           pend'[u].amount + refunds'[pend'[u].id].amount <= transactions'[x].amount
    <3>1. pend'[t].amount + refunds'[pend'[t].id].amount <= transactions'[x].amount
      BY <1>0, <1>1, <1>5, <2>1
    <3>2. \A u \in AddingTo(x) :
             pend[u].amount + refunds[pend[u].id].amount <= transactions[x].amount
      BY DEF ThreadsInv, OverRefund
    <3>3. \A u \in AddingTo(x) : pend'[u] = pend[u]
      BY <1>1, <2>2 DEF AddingTo
    <3> QED BY <1>0, <2>2, <3>1, <3>2, <3>3
  <2>8. /\ t \in AddingTo(x)'
        /\ transactions'[x].refunded + refunds'[pend'[t].id].amount
              <= (Unused(x)' + 1) * transactions'[x].amount
    BY <1>0, <1>1, <2>2, <2>6
  <2> QED
    BY <2>7, <2>8 DEF OverRefund
<1> QED BY <1>4, <1>5

(* The addition uses up this thread's own amount, or the one another thread *)
(* had fitted its refund into: then that thread has this one's instead.     *)
LEMMA AddKeepsOverRefund ==
    ASSUME IsFiniteSet(Threads), ThreadsInv, NEW t \in Threads, AddRefunded(t),
           NEW x \in Txns
    PROVE  OverRefund(x)'
<1> DEFINE r == refunds[pend[t].id]
<1>0. PICK base \in {pend[t].amount, transactions[r.txn].refunded} :
         /\ transactions' = [transactions EXCEPT ![r.txn].refunded = base + r.amount]
         /\ pend' = [pend EXCEPT ![t] = [step |-> "set_refunded", id |-> pend[t].id,
                                         amount |-> base + r.amount]]
  BY DEF AddRefunded, Recorded, Goto
<1>1. /\ pend'[t].step = "set_refunded"
      /\ \A u \in Threads : u # t => pend'[u] = pend[u]
  BY <1>0 DEF ThreadsInv, MoneyInv, TypeOK
<1>2. At(t, "add_refunded") /\ refunds' = refunds
  BY DEF AddRefunded
<1>3. /\ r.txn \in Txns
      /\ r.amount \in Nat
      /\ pend[t].amount \in Nat
      /\ transactions[r.txn].refunded \in Nat
      /\ base + r.amount \in Nat
  <2>1. r.txn \in Txns /\ r.amount \in Nat /\ pend[t].amount \in Nat
    BY <1>2, RecordingTypes DEF ThreadsInv, At
  <2>2. transactions[r.txn].refunded \in Nat
    BY <2>1, ObjectTypes DEF ThreadsInv, MoneyInv, Transaction
  <2>3. base \in Nat
    BY <2>1, <2>2
  <2> QED BY <2>1, <2>2, <2>3
<1>4. /\ transactions'[r.txn].refunded = base + r.amount
      /\ \A y \in Txns : y # r.txn => transactions'[y] = transactions[y]
      /\ KeepsTxns
  BY <1>0, <1>3, RefundedWritten DEF ThreadsInv, MoneyInv
<1>5. CASE r.txn # x
  <2>1. AddingTo(x)' = AddingTo(x) /\ t \notin AddingTo(x)
    BY <1>1, <1>2, <1>5 DEF AddingTo, At
  <2>2. Unused(x)' = Unused(x)
    BY <2>1 DEF Unused
  <2>3. \A u \in AddingTo(x) : pend'[u] = pend[u]
    BY <1>1, <2>1 DEF AddingTo
  <2>4. transactions'[x] = transactions[x]
    BY <1>4, <1>5
  <2> QED
    BY <1>2, <2>1, <2>2, <2>3, <2>4 DEF ThreadsInv, OverRefund
<1>6. CASE r.txn = x
  <2> DEFINE a == transactions[x].amount
             paid == transactions[x].refunded
             n == Unused(x)
  <2>1. a \in Nat /\ paid \in Nat
    BY ObjectTypes, ConstantsAssumption DEF ThreadsInv, MoneyInv, Transaction
  <2>2. AddingTo(x)' = AddingTo(x) \ {t} /\ t \in AddingTo(x)
    BY <1>1, <1>2, <1>6 DEF AddingTo, At
  <2>3. n \in Nat /\ Unused(x)' = n + 1
    <3>1. /\ n \in Nat
          /\ IsFiniteSet(AddingTo(x))
          /\ Cardinality(Threads) \in Nat
      BY UnusedTyped
    <3>2. /\ Cardinality(AddingTo(x) \ {t}) = Cardinality(AddingTo(x)) - 1
          /\ Cardinality(AddingTo(x)) \in Nat
      BY <2>2, <3>1, FS_RemoveElement, FS_CardinalityType
    <3> QED BY <2>2, <3>1, <3>2 DEF Unused
  <2>4. transactions'[x].amount = a /\ transactions'[x].refunded = base + r.amount
    BY <1>4, <1>6 DEF KeepsTxns
  <2>5. \A u \in AddingTo(x)' : u \in AddingTo(x) /\ u # t /\ pend'[u] = pend[u]
    BY <1>1, <2>2 DEF AddingTo
  <2>6. \A u \in AddingTo(x) : pend[u].amount + refunds[pend[u].id].amount <= a
    BY DEF ThreadsInv, OverRefund
  <2>7. /\ n * a \in Nat
        /\ (n + 1) * a = n * a + a
        /\ ((n + 1) + 1) * a = n * a + a + a
    BY <2>1, <2>3, OneMore
  <2>8. \/ base + r.amount <= (n + 1) * a
        \/ \E u \in AddingTo(x)' :
             base + r.amount + refunds[pend[u].id].amount <= ((n + 1) + 1) * a
    <3>1. CASE base = pend[t].amount
      <4>1. base + r.amount <= a
        BY <2>2, <2>6, <3>1
      <4> HIDE DEF a, n, r
      <4> QED BY <1>3, <2>1, <2>7, <4>1
    <3>2. CASE base = paid /\ paid <= n * a
      <4>1. r.amount <= a
        <5>1. pend[t].amount + r.amount <= a
          BY <2>2, <2>6
        <5> HIDE DEF a, r
        <5> QED BY <1>3, <2>1, <5>1
      <4> HIDE DEF a, n, r, paid
      <4> QED BY <1>3, <2>1, <2>7, <3>2, <4>1
    <3>3. ASSUME base = paid, NEW u \in AddingTo(x),
                 paid + refunds[pend[u].id].amount <= (n + 1) * a
          PROVE  \/ base + r.amount <= (n + 1) * a
                 \/ \E v \in AddingTo(x)' :
                      base + r.amount + refunds[pend[v].id].amount <= ((n + 1) + 1) * a
      <4>1. CASE u = t
        BY <3>3, <4>1
      <4>2. CASE u # t
        <5> DEFINE s == refunds[pend[u].id].amount
        <5>1. s \in Nat
          BY RecordingTypes DEF AddingTo, At, ThreadsInv
        <5>2. r.amount <= a
          <6>1. pend[t].amount + r.amount <= a
            BY <2>2, <2>6
          <6> HIDE DEF a, r
          <6> QED BY <1>3, <2>1, <6>1
        <5>3. base + s <= (n + 1) * a
          BY <3>3
        <5>4. base \in Nat
          BY <2>1, <3>3
        <5>5. base + r.amount + s <= ((n + 1) + 1) * a
          <6> HIDE DEF a, n, r, s
          <6> QED BY <1>3, <2>1, <2>7, <5>1, <5>2, <5>3, <5>4
        <5> QED BY <2>2, <4>2, <5>5
      <4> QED BY <4>1, <4>2
    <3>4. OverRefund(x)
      BY DEF ThreadsInv
    <3>5. base = pend[t].amount \/ base = paid
      BY <1>6
    <3> QED BY <3>1, <3>2, <3>3, <3>4, <3>5 DEF OverRefund
  <2> QED
    BY <1>2, <2>3, <2>4, <2>5, <2>6, <2>8 DEF OverRefund
<1> QED BY <1>5, <1>6

(* A step that leaves the transactions, by a thread that is not adding.     *)
LEMMA MoveKeepsOverRefund ==
    ASSUME ThreadsInv, UNCHANGED transactions, KeepsRefunds,
           \A u \in Threads : \/ pend'[u] = pend[u]
                              \/ ~At(u, "add_refunded") /\ ~At(u, "add_refunded")'
    PROVE  \A x \in Txns' : OverRefund(x)'
<1>1. KeepsTxns /\ Txns' = Txns
  BY Untouched
<1> QED BY <1>1, QuietKeepsOverRefund

(* A new transaction has nothing refunded, and no thread adds to it.        *)
LEMMA CreateKeepsOverRefund ==
    ASSUME IsFiniteSet(Threads), ThreadsInv, NEW t \in Threads, NEW a \in Amounts,
           NEW m \in Methods, CreateTransaction(t, a, m)
    PROVE  \A x \in Txns' : OverRefund(x)'
<1>0. PICK z : z = NewTxnId
  OBVIOUS
<1> DEFINE new == [amount |-> a, method |-> m, status |-> "PENDING", refunded |-> 0]
<1>1. z \in TxnIds /\ z \notin Txns
  BY <1>0, FreshIds DEF ThreadsInv, MoneyInv, CreateTransaction
<1>2. transactions' = [transactions EXCEPT ![z] = new] /\ UNCHANGED <<refunds, pend>>
  BY <1>0 DEF CreateTransaction
<1>3. /\ transactions'[z] = new
      /\ \A y \in TxnIds : y # z => transactions'[y] = transactions[y]
  BY <1>1, <1>2 DEF ThreadsInv, MoneyInv, TypeOK
<1>4. \A y \in Txns : y # z /\ y \in TxnIds
  BY <1>1 DEF Txns
<1>5. new # NoTxn
  BY ConstantsAssumption DEF Transaction, TransactionStatus
<1>6. \A y \in Txns' : y = z \/ y \in Txns
  BY <1>3 DEF Txns
<1>7. KeepsTxns
  BY <1>3, <1>4 DEF KeepsTxns, Txns
<1>8. KeepsRefunds
  BY <1>2, Untouched
<1>9. \A y \in Txns : OverRefund(y)'
  BY <1>2, <1>3, <1>4, <1>7, <1>8, QuietKeepsOverRefund
<1>10. OverRefund(z)'
  <2>1. AddingTo(z)' = {}
    <3>1. \A u \in Threads : At(u, "add_refunded") => refunds[pend[u].id].txn \in Txns
      BY RecordingTypes DEF ThreadsInv, At
    <3> QED BY <1>1, <1>2, <3>1 DEF AddingTo, At
  <2>2. Unused(z)' \in Nat
    <3>1. (Unused(z) \in Nat)'
      BY <1>2, UnusedTyped, <2>1, FS_EmptySet, FS_CardinalityType DEF Unused
    <3> QED BY <3>1
  <2>3. transactions'[z].amount = a /\ transactions'[z].refunded = 0 /\ a \in Nat
    BY <1>3, ConstantsAssumption
  <2>4. Unused(z)' * a \in Nat
    BY <2>2, <2>3, OneMore
  <2> QED BY <2>1, <2>3, <2>4 DEF OverRefund
<1> QED BY <1>6, <1>9, <1>10

-------------------------------------------------------------------------------
(* A thread that has paid a refund out and has not recorded it yet.         *)
Owing(t) == pend[t].step \in {"check_completed", "add_refunded"}

(* A step in which nothing is paid out or recorded, and no thread that was  *)
(* paid out for goes on.                                                    *)
NothingRecorded ==
    /\ KeepsTxns /\ Txns' = Txns
    /\ KeepsRefunds
    /\ paidOut' = paidOut
    /\ \A x \in Txns : transactions'[x].refunded = transactions[x].refunded
    /\ \A u \in Threads : pend'[u] = pend[u] \/ (~Owing(u) /\ ~Owing(u)')

(* A status written by a thread that owes nothing.                          *)
LEMMA StatusRecordsNothing ==
    ASSUME MoneyInv, NEW y \in Txns, NEW s \in TransactionStatus, SetStatus(y, s),
           UNCHANGED <<refunds, paidOut>>,
           \A u \in Threads : pend'[u] = pend[u] \/ (~Owing(u) /\ ~Owing(u)')
    PROVE  NothingRecorded
BY StatusWritten, Untouched DEF NothingRecorded, MoneyInv

(* Every step records nothing, creates a transaction, or is a step of       *)
(* process_refund up to its addition.                                       *)
LEMMA StepShape ==
    ASSUME MoneyInv, [Next]_vars
    PROVE  \/ NothingRecorded
           \/ \E t \in Threads :
                 \/ \E a \in Amounts, m \in Methods : CreateTransaction(t, a, m)
                 \/ \E r \in Refunds : GatewayRefund(t, r)
                 \/ CheckRecordable(t)
                 \/ LeaveUnrecorded(t)
                 \/ AddRefunded(t)
<1> DEFINE Quiet == \A u \in Threads : pend'[u] = pend[u] \/ (~Owing(u) /\ ~Owing(u)')
<1>0. TypeOK
  BY DEF MoneyInv
<1>00. ASSUME NEW t \in Threads, ~Owing(t),
              \/ pend' = pend
              \/ Finish(t)
              \/ \E step \in Steps \ {"check_completed", "add_refunded"} : \E id, amount :
                    Goto(t, step, id, amount)
       PROVE  Quiet
  BY <1>0, <1>00, IdleSound DEF TypeOK, Finish, Goto, Owing
<1>01. \A t \in Threads : Starts(t) => ~Owing(t)
  BY IdleSound DEF Starts, Owing
<1> HIDE DEF Quiet
<1>2. ASSUME NEW t \in Threads, NEW x \in Txns, ProcessPayment(t, x)
      PROVE  NothingRecorded
  <2>1. PICK s \in {"FAILED", "SUCCESS"} : SetStatus(x, s)
    BY <1>0, <1>2, PayWrites DEF ProcessPayment
  <2>2. Quiet /\ UNCHANGED <<refunds, paidOut>>
    BY <1>00, <1>01, <1>2 DEF ProcessPayment
  <2> QED
    BY <2>1, <2>2, StatusRecordsNothing DEF TransactionStatus, Quiet
<1>3. ASSUME NEW t \in Threads, NEW x \in Txns, CheckFailed(t, x)
      PROVE  NothingRecorded
  <2>1. Quiet
    BY <1>00, <1>01, <1>3 DEF CheckFailed, Steps
  <2> QED
    BY <1>3, <2>1, Untouched DEF CheckFailed, Quiet, NothingRecorded
<1>4. ASSUME NEW t \in Threads, SetPending(t)
      PROVE  NothingRecorded
  <2>1. Quiet
    BY <1>00, <1>4 DEF SetPending, At, Steps, Owing
  <2>2. pend[t].id \in Txns
    BY <1>4 DEF MoneyInv, PendingSound, SetPending, At
  <2>3. SetStatus(pend[t].id, "PENDING") /\ UNCHANGED <<refunds, paidOut>>
    BY <1>4 DEF SetPending
  <2> QED
    BY <2>1, <2>2, <2>3, StatusRecordsNothing DEF TransactionStatus, Quiet
<1>5. ASSUME NEW t \in Threads, RetryPay(t)
      PROVE  NothingRecorded
  <2>1. Quiet /\ UNCHANGED <<refunds, paidOut>>
    BY <1>00, <1>5 DEF RetryPay, At, Owing
  <2>2. pend[t].id \in Txns
    BY <1>5 DEF MoneyInv, PendingSound, RetryPay, At
  <2>3. PICK s \in {"FAILED", "SUCCESS"} : SetStatus(pend[t].id, s)
    BY <1>0, <1>5, <2>2, PayWrites DEF RetryPay
  <2> QED
    BY <2>1, <2>2, <2>3, StatusRecordsNothing DEF TransactionStatus, Quiet
<1>6. ASSUME NEW t \in Threads, RetryUnsupported(t)
      PROVE  NothingRecorded
  <2>1. Quiet
    BY <1>00, <1>6 DEF RetryUnsupported, At, Owing
  <2> QED
    BY <1>6, <2>1, Untouched DEF RetryUnsupported, Quiet, NothingRecorded
<1>7. ASSUME NEW t \in Threads, NEW x \in Txns, CheckCancellable(t, x)
      PROVE  NothingRecorded
  <2>1. Quiet
    BY <1>00, <1>01, <1>7 DEF CheckCancellable, Steps
  <2> QED
    BY <1>7, <2>1, Untouched DEF CheckCancellable, Quiet, NothingRecorded
<1>8. ASSUME NEW t \in Threads, SetCancelled(t)
      PROVE  NothingRecorded
  <2>1. Quiet
    BY <1>00, <1>8 DEF SetCancelled, At, Owing
  <2>2. pend[t].id \in Txns
    BY <1>8 DEF MoneyInv, PendingSound, SetCancelled, At
  <2>3. SetStatus(pend[t].id, "CANCELLED") /\ UNCHANGED <<refunds, paidOut>>
    BY <1>8 DEF SetCancelled
  <2> QED
    BY <2>1, <2>2, <2>3, StatusRecordsNothing DEF TransactionStatus, Quiet
<1>9. ASSUME NEW t \in Threads, NEW x \in Txns, NEW s \in Forced,
             UpdateTransactionStatus(t, x, s)
      PROVE  NothingRecorded
  <2>1. Quiet
    BY <1>00, <1>01, <1>9 DEF UpdateTransactionStatus
  <2>2. SetStatus(x, s) /\ UNCHANGED <<refunds, paidOut>> /\ s \in TransactionStatus
    BY <1>9, ConstantsAssumption DEF UpdateTransactionStatus
  <2> QED
    BY <2>1, <2>2, StatusRecordsNothing DEF Quiet
<1>10. ASSUME NEW t \in Threads, NEW x \in Txns, NEW a \in Amounts,
              CheckRefundable(t, x, a)
       PROVE  NothingRecorded
  <2>1. Quiet
    BY <1>00, <1>01, <1>10 DEF CheckRefundable, Steps
  <2> QED
    BY <1>10, <2>1, Untouched DEF CheckRefundable, Quiet, NothingRecorded
<1>11. ASSUME NEW t \in Threads, InsertRefund(t)
       PROVE  NothingRecorded
  <2>1. Quiet
    BY <1>00, <1>11 DEF InsertRefund, At, Owing
  <2>2. KeepsRefunds
    <3>1. NewRefundId \notin Refunds
      BY FreshIds DEF MoneyInv
    <3>2. \A y \in Refunds : refunds'[y] = refunds[y] /\ y \in Refunds'
      BY <1>0, <1>11, <3>1 DEF InsertRefund, TypeOK, Refunds
    <3> QED BY <3>2 DEF KeepsRefunds
  <2> QED
    BY <1>11, <2>1, <2>2, Untouched DEF InsertRefund, Quiet, NothingRecorded
<1>12. ASSUME NEW t \in Threads, NEW r \in Refunds, RejectRefund(t, r)
       PROVE  NothingRecorded
  <2>1. Quiet
    BY <1>00, <1>01, <1>12 DEF RejectRefund
  <2>2. KeepsRefunds
    BY <1>0, <1>12, RefundStatusWritten DEF RejectRefund, RefundStatus
  <2> QED
    BY <1>12, <2>1, <2>2, Untouched DEF RejectRefund, Quiet, NothingRecorded
<1>13. ASSUME NEW t \in Threads, SetRefunded(t)
       PROVE  NothingRecorded
  <2> DEFINE x == refunds[pend[t].id].txn
  <2>1. Quiet
    BY <1>00, <1>13 DEF SetRefunded, At, Owing
  <2>2. x \in Txns
    BY <1>13, RecordingTypes DEF SetRefunded, At
  <2>3. PICK total : SetStatus(x, StatusAfterRefund(x, total))
    BY <1>13 DEF SetRefunded
  <2>4. StatusAfterRefund(x, total) \in TransactionStatus
    BY DEF StatusAfterRefund, TransactionStatus
  <2>5. UNCHANGED <<refunds, paidOut>>
    BY <1>13 DEF SetRefunded
  <2> QED
    BY <2>1, <2>2, <2>3, <2>4, <2>5, StatusRecordsNothing DEF Quiet
<1>14. CASE UNCHANGED vars
  BY <1>14, Untouched DEF vars, NothingRecorded
<1> QED
  BY <1>2, <1>3, <1>4, <1>5, <1>6, <1>7, <1>8, <1>9, <1>10, <1>11, <1>12, <1>13, <1>14
  DEF Next, ProcessRefund

-------------------------------------------------------------------------------
(* Each step keeps ThreadsInv.                                              *)
LEMMA ThreadsNext ==
    ASSUME IsFiniteSet(Threads), ThreadsInv, [Next]_vars
    PROVE  ThreadsInv'
<1> DEFINE Kept == \A x \in Txns' : OverRefund(x)'
           Quiet == \A u \in Threads : \/ pend'[u] = pend[u]
                                       \/ ~At(u, "add_refunded") /\ ~At(u, "add_refunded")'
<1>0. MoneyInv' /\ MoneyInv /\ TypeOK
  BY MoneyNext DEF ThreadsInv, MoneyInv
<1>00. ASSUME NEW t \in Threads, ~At(t, "add_refunded"),
              \/ Finish(t)
              \/ \E step \in Steps \ {"add_refunded"} : \E id, amount :
                    Goto(t, step, id, amount)
       PROVE  Quiet
  BY <1>0, <1>00, IdleSound DEF TypeOK, Finish, Goto, At
<1> HIDE DEF Quiet
<1>1. ASSUME NothingRecorded PROVE Kept
  BY <1>1, QuietKeepsOverRefund DEF NothingRecorded, Owing, At
<1>2. ASSUME NEW t \in Threads, NEW a \in Amounts, NEW m \in Methods,
             CreateTransaction(t, a, m)
      PROVE  Kept
  BY <1>2, CreateKeepsOverRefund
<1>3. ASSUME NEW t \in Threads, NEW r \in Refunds, GatewayRefund(t, r)
      PROVE  Kept
  <2>1. Quiet
    BY <1>0, <1>00, <1>3, StepAfter DEF GatewayRefund, At, Steps
  <2>2. KeepsRefunds
    BY <1>0, <1>3, RefundStatusWritten DEF GatewayRefund, RefundStatus
  <2> QED
    BY <1>3, <2>1, <2>2, MoveKeepsOverRefund DEF GatewayRefund, Quiet
<1>4. ASSUME NEW t \in Threads, CheckRecordable(t)
      PROVE  Kept
  <2>1. Txns' = Txns
    BY <1>4, Untouched DEF CheckRecordable
  <2> QED BY <1>4, <2>1, CheckKeepsOverRefund
<1>5. ASSUME NEW t \in Threads, LeaveUnrecorded(t)
      PROVE  Kept
  <2>1. Quiet
    BY <1>00, <1>5 DEF LeaveUnrecorded, At
  <2> QED
    BY <1>5, <2>1, Untouched, MoveKeepsOverRefund DEF LeaveUnrecorded, Quiet
<1>6. ASSUME NEW t \in Threads, AddRefunded(t)
      PROVE  Kept
  <2> DEFINE r == refunds[pend[t].id]
  <2>1. PICK n : transactions' = [transactions EXCEPT ![r.txn].refunded = n]
    BY <1>6 DEF AddRefunded
  <2>2. r.txn \in Txns
    BY <1>0, <1>6, RecordingTypes DEF AddRefunded, At
  <2>3. Txns' \subseteq Txns
    BY <1>0, <2>1, <2>2 DEF Txns, TypeOK
  <2> QED BY <1>6, <2>3, AddKeepsOverRefund
<1>7. Kept
  BY <1>0, <1>1, <1>2, <1>3, <1>4, <1>5, <1>6, StepShape
<1> QED
  BY <1>0, <1>7 DEF ThreadsInv

(* Finitely many threads: record_refund's unlocked check lets each further  *)
(* thread exceed the amount by one refund at most, never by more, however   *)
(* their reads and additions interleave.                                    *)
THEOREM OverRefundsAreBounded ==
    ASSUME IsFiniteSet(Threads)
    PROVE  Spec => []OverRefundBounded
<1>1. Init => ThreadsInv
  <2> SUFFICES ASSUME Init PROVE ThreadsInv
    OBVIOUS
  <2>1. Txns = {}
    BY DEF Init, Txns
  <2> QED BY <2>1, MoneyInit DEF ThreadsInv
<1>2. ThreadsInv /\ [Next]_vars => ThreadsInv'
  BY ThreadsNext
<1>3. ThreadsInv => OverRefundBounded
  BY OverRefundMeans
<1> QED BY <1>1, <1>2, <1>3, PTL DEF Spec

-------------------------------------------------------------------------------
(* What was paid out for a transaction, refund by refund.                   *)
Payout(r, x) == IF r \in RefundsOf(x) THEN paidOut[r] * refunds[r].amount ELSE 0

(* One payout more adds one amount.                                         *)
LEMMA ProductNat ==
    ASSUME NEW n \in Nat, NEW a \in Nat
    PROVE  n * a \in Nat /\ (n + 1) * a = n * a + a
OBVIOUS

(* Payouts are amounts, of finitely many refunds.                           *)
LEMMA PayoutTypes ==
    MoneyInv => \A x : /\ \A r \in RefundIds : Payout(r, x) \in Nat
                       /\ RefundsOf(x) \subseteq RefundIds
                       /\ IsFiniteSet(RefundIds)
<1> SUFFICES ASSUME MoneyInv, NEW x
             PROVE  /\ \A r \in RefundIds : Payout(r, x) \in Nat
                    /\ RefundsOf(x) \subseteq RefundIds
                    /\ IsFiniteSet(RefundIds)
  OBVIOUS
<1>1. IsFiniteSet(RefundIds)
  BY ConstantsAssumption, FS_Interval DEF RefundIds
<1>2. ASSUME NEW r \in RefundsOf(x)
      PROVE  r \in RefundIds /\ paidOut[r] * refunds[r].amount \in Nat
  <2>1. r \in Refunds
    BY DEF RefundsOf
  <2>2. r \in RefundIds /\ refunds[r].amount \in Nat
    BY <2>1, ObjectTypes DEF MoneyInv, RefundRequest
  <2>3. paidOut[r] \in Nat
    BY <2>2, ConstantsAssumption DEF MoneyInv, TypeOK
  <2> QED BY <2>2, <2>3, ProductNat
<1> QED BY <1>1, <1>2 DEF Payout

(* The sum over the refunds of a transaction, as one over all refund ids.   *)
LEMMA PaidOutIs ==
    MoneyInv => \A x : /\ PaidOut(x) = SumFunctionOnSet([r \in RefundIds |-> Payout(r, x)], RefundIds)
                       /\ PaidOut(x) \in Nat
<1> SUFFICES ASSUME MoneyInv, NEW x
             PROVE  /\ PaidOut(x) = SumFunctionOnSet([r \in RefundIds |-> Payout(r, x)], RefundIds)
                    /\ PaidOut(x) \in Nat
  OBVIOUS
<1> DEFINE S == RefundsOf(x)
           f == [r \in S |-> paidOut[r] * refunds[r].amount]
           g == [r \in RefundIds |-> Payout(r, x)]
<1>1. /\ \A r \in RefundIds : g[r] \in Nat
      /\ S \subseteq RefundIds /\ IsFiniteSet(RefundIds)
  BY PayoutTypes
<1>2. \A r \in S : f[r] = g[r]
  BY <1>1 DEF Payout
<1>3. \A r \in RefundIds \ S : g[r] = 0
  BY DEF Payout
<1>4. PaidOut(x) = SumFunctionOnSet(f, S)
  BY DEF PaidOut, SumFunction
<1> HIDE DEF S, f, g
<1>5. IsFiniteSet(S)
  BY <1>1, FS_Subset
<1>6. SumFunctionOnSet(f, S) = SumFunctionOnSet(g, S)
  <2>1. \A r \in S : g[r] \in Int /\ f[r] = g[r]
    BY <1>1, <1>2
  <2> QED BY <2>1, <1>5, SumSame
<1>7. SumFunctionOnSet(g, RefundIds) = SumFunctionOnSet(g, S)
  <2>1. \A r \in S : g[r] \in Int
    BY <1>1
  <2> QED BY <2>1, <1>1, <1>3, SumPadded
<1>8. SumFunctionOnSet(g, RefundIds) \in Nat
  BY <1>1, SumNat
<1> QED BY <1>4, <1>6, <1>7, <1>8 DEF g

(* The same after a step.                                                   *)
LEMMA PaidOutAfter ==
    ASSUME MoneyInv'
    PROVE  \A x : /\ PaidOut(x)' = SumFunctionOnSet([r \in RefundIds |-> Payout(r, x)'], RefundIds)
                  /\ \A r \in RefundIds : Payout(r, x)' \in Nat
                  /\ PaidOut(x)' \in Nat
<1>1. (\A x : /\ \A r \in RefundIds : Payout(r, x) \in Nat
              /\ RefundsOf(x) \subseteq RefundIds
              /\ IsFiniteSet(RefundIds))'
  BY PayoutTypes, PTL
<1>2. (\A x : /\ PaidOut(x) = SumFunctionOnSet([r \in RefundIds |-> Payout(r, x)], RefundIds)
              /\ PaidOut(x) \in Nat)'
  BY PaidOutIs, PTL
<1> QED BY <1>1, <1>2

(* While refunds stay as they are, what was paid out for a transaction does *)
(* not get less.                                                            *)
LEMMA PaidOutStays ==
    ASSUME MoneyInv, MoneyInv', KeepsRefunds, \A r \in Refunds : paidOut'[r] = paidOut[r], NEW x
    PROVE  PaidOut(x) <= PaidOut(x)'
<1> DEFINE f == [r \in RefundIds |-> Payout(r, x)]
           g == [r \in RefundIds |-> Payout(r, x)']
<1>1. PaidOut(x) = SumFunctionOnSet(f, RefundIds) /\ IsFiniteSet(RefundIds)
  BY PaidOutIs, PayoutTypes
<1>2. PaidOut(x)' = SumFunctionOnSet(g, RefundIds)
  BY PaidOutAfter
<1>3. \A r \in RefundIds : f[r] \in Nat
  BY PayoutTypes
<1>4. \A r \in RefundIds : g[r] \in Nat
  BY PaidOutAfter
<1>5. \A r \in RefundsOf(x) : r \in RefundIds => g[r] = f[r]
  BY DEF Payout, RefundsOf, KeepsRefunds
<1>6. \A r \in RefundIds \ RefundsOf(x) : f[r] = 0
  BY DEF Payout
<1> HIDE DEF f, g
<1>7. \A r \in RefundIds : f[r] \in Int /\ g[r] \in Int /\ f[r] <= g[r]
  BY <1>3, <1>4, <1>5, <1>6
<1> QED BY <1>1, <1>2, <1>7, SumOrdered

(* A payout adds the refund's amount to what was paid out for its           *)
(* transaction.                                                             *)
LEMMA PaidOutGrows ==
    ASSUME MoneyInv, MoneyInv', KeepsRefunds, Refunds' = Refunds, NEW r \in Refunds,
           paidOut' = [paidOut EXCEPT ![r] = @ + 1]
    PROVE  \A x : PaidOut(x)' = PaidOut(x) + (IF x = refunds[r].txn THEN refunds[r].amount ELSE 0)
<1>0. r \in RefundIds /\ refunds[r].amount \in Nat /\ paidOut[r] \in Nat
  BY ObjectTypes, ConstantsAssumption DEF MoneyInv, TypeOK, RefundRequest
<1>1. paidOut'[r] = paidOut[r] + 1 /\ \A q \in RefundIds : q # r => paidOut'[q] = paidOut[q]
  BY <1>0 DEF MoneyInv, TypeOK
<1>2. ASSUME NEW x
      PROVE  PaidOut(x)' = PaidOut(x) + (IF x = refunds[r].txn THEN refunds[r].amount ELSE 0)
  <2> DEFINE f == [q \in RefundIds |-> Payout(q, x)]
             g == [q \in RefundIds |-> Payout(q, x)']
  <2>1. PaidOut(x) = SumFunctionOnSet(f, RefundIds) /\ IsFiniteSet(RefundIds) /\ PaidOut(x) \in Nat
    BY PaidOutIs, PayoutTypes
  <2>2. PaidOut(x)' = SumFunctionOnSet(g, RefundIds)
    BY PaidOutAfter
  <2>3. \A q \in RefundIds : f[q] \in Nat
    BY PayoutTypes
  <2>4. \A q \in RefundIds : g[q] \in Nat
    BY PaidOutAfter
  <2>5. RefundsOf(x)' = RefundsOf(x)
    BY DEF RefundsOf, KeepsRefunds
  <2>6. \A q \in RefundIds \ {r} : g[q] = f[q]
    BY <1>1, <2>5 DEF Payout, RefundsOf, KeepsRefunds
  <2>7. g[r] = f[r] + (IF x = refunds[r].txn THEN refunds[r].amount ELSE 0)
    <3>1. CASE x = refunds[r].txn
      <4>1. f[r] = paidOut[r] * refunds[r].amount /\ g[r] = (paidOut[r] + 1) * refunds[r].amount
        BY <1>0, <1>1, <2>5, <3>1 DEF Payout, RefundsOf, KeepsRefunds
      <4> QED BY <1>0, <3>1, <4>1, ProductNat
    <3>2. CASE x # refunds[r].txn
      BY <1>0, <2>5, <3>2 DEF Payout, RefundsOf
    <3> QED BY <3>1, <3>2
  <2> HIDE DEF f, g
  <2>8. SumFunctionOnSet(g, RefundIds) = SumFunctionOnSet(f, RefundIds) - f[r] + g[r]
    <3>1. \A q \in RefundIds : f[q] \in Int /\ g[q] \in Int
      BY <2>3, <2>4
    <3> QED BY <1>0, <2>1, <2>6, <3>1, SumChanged
  <2>9. f[r] \in Int
    BY <1>0, <2>3
  <2> QED BY <1>0, <2>1, <2>2, <2>7, <2>8, <2>9
<1> QED BY <1>2

(* What the threads have not recorded yet.                                  *)
LEMMA UnrecordedTypes ==
    MoneyInv => \A t \in Threads : \A x : /\ Unrecorded(t, x) \in Nat
                                          /\ ~Owing(t) => Unrecorded(t, x) = 0
BY RecordingTypes DEF Unrecorded, Owing

(* What a thread has still to record after a step is an amount.             *)
LEMMA UnrecordedAfter ==
    ASSUME MoneyInv'
    PROVE  \A t \in Threads : \A x : /\ Unrecorded(t, x)' \in Nat
                                     /\ ~Owing(t)' => Unrecorded(t, x)' = 0
<1>1. (\A t \in Threads : \A x : /\ Unrecorded(t, x) \in Nat
                                 /\ ~Owing(t) => Unrecorded(t, x) = 0)'
  BY UnrecordedTypes, PTL
<1> QED BY <1>1

(* What is in flight to a transaction is an amount.                         *)
LEMMA InFlightTyped ==
    ASSUME IsFiniteSet(Threads), MoneyInv
    PROVE  \A x : InFlight(x) \in Nat
<1> SUFFICES ASSUME NEW x PROVE InFlight(x) \in Nat
  OBVIOUS
<1> DEFINE f == [t \in Threads |-> Unrecorded(t, x)]
<1>1. InFlight(x) = SumFunctionOnSet(f, Threads)
  BY DEF InFlight, SumFunction
<1>2. \A t \in Threads : f[t] \in Nat
  BY UnrecordedTypes
<1> HIDE DEF f
<1> QED BY <1>1, <1>2, SumNat

(* Of a step that leaves the other threads alone, and their refunds, only   *)
(* what its own thread has not recorded counts.                             *)
LEMMA InFlightMoves ==
    ASSUME IsFiniteSet(Threads), MoneyInv, MoneyInv', NEW t \in Threads, NEW x,
           \A u \in Threads \ {t} : Unrecorded(u, x)' = Unrecorded(u, x)
    PROVE  InFlight(x)' = InFlight(x) - Unrecorded(t, x) + Unrecorded(t, x)'
<1> DEFINE f == [u \in Threads |-> Unrecorded(u, x)]
           g == [u \in Threads |-> Unrecorded(u, x)']
<1>1. InFlight(x) = SumFunctionOnSet(f, Threads) /\ InFlight(x)' = SumFunctionOnSet(g, Threads)
  BY DEF InFlight, SumFunction
<1>2. \A u \in Threads : f[u] \in Nat /\ g[u] \in Nat
  BY UnrecordedTypes, UnrecordedAfter
<1>3. \A u \in Threads \ {t} : g[u] = f[u]
  OBVIOUS
<1>4. f[t] = Unrecorded(t, x) /\ g[t] = Unrecorded(t, x)'
  OBVIOUS
<1> HIDE DEF f, g
<1>5. \A u \in Threads : f[u] \in Int /\ g[u] \in Int
  BY <1>2
<1> QED BY <1>1, <1>3, <1>4, <1>5, SumChanged

(* A thread that stays where it is, or owes nothing before and after, owes  *)
(* what it did.                                                             *)
LEMMA UnrecordedStays ==
    ASSUME MoneyInv, MoneyInv', KeepsRefunds, NEW u \in Threads, NEW x,
           pend'[u] = pend[u] \/ (~Owing(u) /\ ~Owing(u)')
    PROVE  Unrecorded(u, x)' = Unrecorded(u, x)
<1>1. CASE ~Owing(u) /\ ~Owing(u)'
  BY <1>1, UnrecordedTypes, UnrecordedAfter
<1>2. CASE pend'[u] = pend[u] /\ Owing(u)
  <2>1. pend[u].id \in Refunds
    BY <1>2, RecordingTypes DEF Owing
  <2> QED BY <1>2, <2>1 DEF Unrecorded, KeepsRefunds
<1>3. CASE pend'[u] = pend[u] /\ ~Owing(u)
  BY <1>3 DEF Unrecorded, Owing
<1> QED BY <1>1, <1>2, <1>3

(* Every step keeps the payouts ahead of what is recorded and what is still *)
(* to be: a step that records nothing,                                      *)
LEMMA QuietKeepsCover ==
    ASSUME IsFiniteSet(Threads), PaidOutInv, MoneyInv', NothingRecorded, NEW x \in Txns
    PROVE  PayoutsCover(x)'
<1>1. MoneyInv /\ PayoutsCover(x) /\ KeepsRefunds
  BY DEF PaidOutInv, NothingRecorded
<1>2. \A u \in Threads : Unrecorded(u, x)' = Unrecorded(u, x)
  BY <1>1, UnrecordedStays DEF NothingRecorded
<1>3. InFlight(x)' = InFlight(x)
  BY <1>2 DEF InFlight
<1>4. PaidOut(x) <= PaidOut(x)'
  BY <1>1, PaidOutStays DEF NothingRecorded
<1>5. PaidOut(x) \in Nat /\ PaidOut(x)' \in Nat /\ InFlight(x) \in Nat
  BY <1>1, PaidOutIs, PaidOutAfter, InFlightTyped
<1>6. transactions'[x].refunded = transactions[x].refunded /\ transactions[x].refunded \in Nat
  BY <1>1, ObjectTypes DEF NothingRecorded, MoneyInv, Transaction
<1>7. ASSUME NEW u \in AddingTo(x)'
      PROVE  pend'[u].amount + InFlight(x)' <= PaidOut(x)'
  <2>1. u \in Threads /\ pend'[u] = pend[u] /\ Owing(u)
    BY DEF AddingTo, At, NothingRecorded, Owing
  <2>2. pend[u].id \in Refunds /\ pend[u].amount \in Nat
    BY <1>1, <2>1, RecordingTypes DEF Owing
  <2>3. u \in AddingTo(x)
    BY <1>1, <2>1, <2>2 DEF AddingTo, At, KeepsRefunds
  <2>4. pend[u].amount + InFlight(x) <= PaidOut(x)
    BY <1>1, <2>3 DEF PayoutsCover
  <2> QED BY <1>3, <1>4, <1>5, <2>1, <2>2, <2>4
<1>8. transactions[x].refunded + InFlight(x) <= PaidOut(x)
  BY <1>1 DEF PayoutsCover
<1>9. transactions'[x].refunded + InFlight(x)' <= PaidOut(x)'
  BY <1>3, <1>4, <1>5, <1>6, <1>8
<1> QED BY <1>7, <1>9 DEF PayoutsCover

(* What a step of one thread that is recording does to the sums.            *)
LEMMA OneThreadMoves ==
    ASSUME IsFiniteSet(Threads), MoneyInv, MoneyInv', KeepsRefunds, NEW t \in Threads, NEW q \in Pending,
           pend' = [pend EXCEPT ![t] = q]
    PROVE  /\ pend'[t] = q
           /\ \A u \in Threads \ {t} : pend'[u] = pend[u]
           /\ \A x : \A u \in AddingTo(x)' \ {t} : u \in AddingTo(x)
           /\ \A x : InFlight(x)' = InFlight(x) - Unrecorded(t, x) + Unrecorded(t, x)'
<1>1. pend'[t] = q /\ \A u \in Threads \ {t} : pend'[u] = pend[u]
  BY DEF MoneyInv, TypeOK
<1>2. ASSUME NEW x, NEW u \in AddingTo(x)' \ {t}
      PROVE  u \in AddingTo(x)
  <2>1. u \in Threads /\ pend'[u] = pend[u] /\ At(u, "add_refunded")
    BY <1>1 DEF AddingTo, At
  <2>2. pend[u].id \in Refunds
    BY <2>1, RecordingTypes DEF At
  <2> QED BY <2>1, <2>2 DEF AddingTo, At, KeepsRefunds
<1>3. ASSUME NEW x
      PROVE  InFlight(x)' = InFlight(x) - Unrecorded(t, x) + Unrecorded(t, x)'
  <2>1. \A u \in Threads \ {t} : Unrecorded(u, x)' = Unrecorded(u, x)
    BY <1>1, UnrecordedStays
  <2> QED BY <2>1, InFlightMoves
<1> QED BY <1>1, <1>2, <1>3

(* the gateway's payout, which pays for what its thread will record,        *)
LEMMA GatewayRefundKeepsCover ==
    ASSUME IsFiniteSet(Threads), PaidOutInv, MoneyInv', NEW t \in Threads, NEW r \in Refunds,
           GatewayRefund(t, r)
    PROVE  Txns' = Txns /\ \A x \in Txns : PayoutsCover(x)'
<1> DEFINE q == [step |-> "check_completed", id |-> r, amount |-> 0]
           more(x) == IF x = refunds[r].txn THEN refunds[r].amount ELSE 0
<1>1. MoneyInv /\ r \in Nat /\ refunds[r].amount \in Nat /\ ~Owing(t)
  BY ObjectTypes, IdleSound DEF PaidOutInv, MoneyInv, RefundRequest, GatewayRefund, Starts, Owing
<1>2. KeepsRefunds /\ Refunds' = Refunds
  BY <1>1, RefundStatusWritten DEF GatewayRefund, RefundStatus, MoneyInv
<1>3. KeepsTxns /\ Txns' = Txns /\ UNCHANGED transactions
  BY Untouched DEF GatewayRefund
<1>4. pend' = [pend EXCEPT ![t] = q] /\ q \in Pending
  BY <1>1 DEF GatewayRefund, Goto, Pending, Steps
<1>5. \A x : PaidOut(x)' = PaidOut(x) + more(x)
  BY <1>1, <1>2, PaidOutGrows DEF GatewayRefund
<1>6. /\ pend'[t] = q
      /\ \A u \in Threads \ {t} : pend'[u] = pend[u]
      /\ \A x : \A u \in AddingTo(x)' \ {t} : u \in AddingTo(x)
      /\ \A x : InFlight(x)' = InFlight(x) - Unrecorded(t, x) + Unrecorded(t, x)'
  BY <1>1, <1>2, <1>4, OneThreadMoves
<1>7. \A x : Unrecorded(t, x) = 0 /\ Unrecorded(t, x)' = more(x)
  <2>1. refunds'[r].txn = refunds[r].txn /\ refunds'[r].amount = refunds[r].amount
    BY <1>2 DEF KeepsRefunds
  <2> QED BY <1>1, <1>6, <2>1, UnrecordedTypes DEF Unrecorded
<1> SUFFICES ASSUME NEW x \in Txns PROVE PayoutsCover(x)'
  BY <1>3
<1>8. PaidOut(x) \in Nat /\ InFlight(x) \in Nat /\ more(x) \in Nat
  BY <1>1, PaidOutIs, InFlightTyped
<1>9. InFlight(x)' = InFlight(x) + more(x)
  BY <1>6, <1>7, <1>8
<1>10. transactions[x].refunded \in Nat /\ PayoutsCover(x)
  BY <1>1, ObjectTypes DEF PaidOutInv, MoneyInv, Transaction
<1>11. ASSUME NEW u \in AddingTo(x)'
       PROVE  pend'[u].amount + InFlight(x)' <= PaidOut(x)'
  <2>1. u # t
    BY <1>6 DEF AddingTo, At
  <2>2. u \in AddingTo(x) /\ pend'[u] = pend[u] /\ u \in Threads
    BY <1>6, <2>1 DEF AddingTo
  <2>3. pend[u].amount \in Nat
    BY <1>1, <2>2, RecordingTypes DEF AddingTo, At
  <2> QED BY <1>5, <1>8, <1>9, <1>10, <2>2, <2>3 DEF PayoutsCover
<1>12. transactions'[x].refunded + InFlight(x)' <= PaidOut(x)'
  BY <1>3, <1>5, <1>8, <1>9, <1>10 DEF PayoutsCover
<1> QED BY <1>11, <1>12 DEF PayoutsCover

(* the check, after which the thread carries the recorded amount,           *)
LEMMA CheckKeepsCover ==
    ASSUME IsFiniteSet(Threads), PaidOutInv, MoneyInv', NEW t \in Threads, CheckRecordable(t)
    PROVE  Txns' = Txns /\ \A x \in Txns : PayoutsCover(x)'
<1> DEFINE r == refunds[pend[t].id]
           q == [step |-> "add_refunded", id |-> pend[t].id, amount |-> transactions[r.txn].refunded]
<1>1. MoneyInv /\ UNCHANGED <<transactions, refunds, paidOut>> /\ At(t, "check_completed")
  BY DEF PaidOutInv, CheckRecordable
<1>2. KeepsRefunds /\ KeepsTxns /\ Txns' = Txns
  BY <1>1, Untouched
<1>3. r.txn \in Txns /\ pend[t].id \in Nat
  BY <1>1, RecordingTypes, ObjectTypes DEF At, MoneyInv
<1>4. pend' = [pend EXCEPT ![t] = q] /\ q \in Pending
  <2>1. transactions[r.txn].refunded \in Nat
    BY <1>1, <1>3, ObjectTypes DEF MoneyInv, Transaction
  <2> QED BY <1>3, <2>1 DEF CheckRecordable, Goto, Pending, Steps
<1>5. /\ pend'[t] = q
      /\ \A u \in Threads \ {t} : pend'[u] = pend[u]
      /\ \A x : \A u \in AddingTo(x)' \ {t} : u \in AddingTo(x)
      /\ \A x : InFlight(x)' = InFlight(x) - Unrecorded(t, x) + Unrecorded(t, x)'
  BY <1>1, <1>2, <1>4, OneThreadMoves
<1>6. \A x : Unrecorded(t, x)' = Unrecorded(t, x)
  BY <1>1, <1>5 DEF Unrecorded, At
<1> SUFFICES ASSUME NEW x \in Txns PROVE PayoutsCover(x)'
  BY <1>2
<1>7. PaidOut(x) \in Nat /\ InFlight(x) \in Nat /\ Unrecorded(t, x) \in Nat
  BY <1>1, PaidOutIs, InFlightTyped, UnrecordedTypes
<1>8. InFlight(x)' = InFlight(x)
  BY <1>5, <1>6, <1>7
<1>9. PaidOut(x)' = PaidOut(x)
  BY <1>1 DEF PaidOut, RefundsOf, Refunds
<1>10. PayoutsCover(x)
  BY DEF PaidOutInv
<1>11. ASSUME NEW u \in AddingTo(x)'
       PROVE  pend'[u].amount + InFlight(x)' <= PaidOut(x)'
  <2>1. CASE u = t
    <3>1. x = r.txn
      BY <1>1, <1>5, <2>1 DEF AddingTo
    <3> QED BY <1>5, <1>8, <1>9, <1>10, <2>1, <3>1 DEF PayoutsCover
  <2>2. CASE u # t
    <3>1. u \in AddingTo(x) /\ pend'[u] = pend[u]
      BY <1>5, <2>2 DEF AddingTo
    <3> QED BY <1>8, <1>9, <1>10, <3>1 DEF PayoutsCover
  <2> QED BY <2>1, <2>2
<1> QED BY <1>1, <1>8, <1>9, <1>10, <1>11 DEF PayoutsCover

(* the end of a refund that is not recorded,                                *)
LEMMA LeaveKeepsCover ==
    ASSUME IsFiniteSet(Threads), PaidOutInv, MoneyInv', NEW t \in Threads, LeaveUnrecorded(t)
    PROVE  Txns' = Txns /\ \A x \in Txns : PayoutsCover(x)'
<1>1. MoneyInv /\ UNCHANGED <<transactions, refunds, paidOut>>
  BY DEF PaidOutInv, LeaveUnrecorded
<1>2. KeepsRefunds /\ KeepsTxns /\ Txns' = Txns
  BY <1>1, Untouched
<1>3. pend' = [pend EXCEPT ![t] = Idle] /\ Idle \in Pending /\ Idle.step = "none"
  BY IdleSound DEF LeaveUnrecorded, Finish
<1>4. /\ pend'[t] = Idle
      /\ \A u \in Threads \ {t} : pend'[u] = pend[u]
      /\ \A x : \A u \in AddingTo(x)' \ {t} : u \in AddingTo(x)
      /\ \A x : InFlight(x)' = InFlight(x) - Unrecorded(t, x) + Unrecorded(t, x)'
  BY <1>1, <1>2, <1>3, OneThreadMoves
<1>5. \A x : Unrecorded(t, x)' = 0
  BY <1>3, <1>4 DEF Unrecorded
<1> SUFFICES ASSUME NEW x \in Txns PROVE PayoutsCover(x)'
  BY <1>2
<1>6. PaidOut(x) \in Nat /\ InFlight(x) \in Nat /\ Unrecorded(t, x) \in Nat
  BY <1>1, PaidOutIs, InFlightTyped, UnrecordedTypes
<1>7. InFlight(x)' \in Int /\ InFlight(x)' <= InFlight(x)
  BY <1>4, <1>5, <1>6
<1>8. PaidOut(x)' = PaidOut(x)
  BY <1>1 DEF PaidOut, RefundsOf, Refunds
<1>9. PayoutsCover(x) /\ transactions[x].refunded \in Nat
  BY <1>1, ObjectTypes DEF PaidOutInv, MoneyInv, Transaction
<1>10. ASSUME NEW u \in AddingTo(x)'
       PROVE  pend'[u].amount + InFlight(x)' <= PaidOut(x)'
  <2>1. u # t
    BY <1>3, <1>4 DEF AddingTo, At
  <2>2. u \in AddingTo(x) /\ pend'[u] = pend[u] /\ u \in Threads
    BY <1>4, <2>1 DEF AddingTo
  <2>3. pend[u].amount \in Nat
    BY <1>1, <2>2, RecordingTypes DEF AddingTo, At
  <2> QED BY <1>6, <1>7, <1>8, <1>9, <2>2, <2>3 DEF PayoutsCover
<1>11. transactions'[x].refunded + InFlight(x)' <= PaidOut(x)'
  BY <1>1, <1>6, <1>7, <1>8, <1>9 DEF PayoutsCover
<1> QED BY <1>10, <1>11 DEF PayoutsCover

(* the addition, to either amount: the thread's own refund was still in     *)
(* what the invariant had left room for,                                    *)
LEMMA AddKeepsCover ==
    ASSUME IsFiniteSet(Threads), PaidOutInv, MoneyInv', NEW t \in Threads, AddRefunded(t)
    PROVE  Txns' = Txns /\ \A x \in Txns : PayoutsCover(x)'
<1> DEFINE r == refunds[pend[t].id]
<1>1. MoneyInv /\ UNCHANGED <<refunds, paidOut>> /\ At(t, "add_refunded") /\ t \in AddingTo(r.txn)
  BY DEF PaidOutInv, AddRefunded, AddingTo
<1>2. PICK base \in {pend[t].amount, transactions[r.txn].refunded} :
         /\ transactions' = [transactions EXCEPT ![r.txn].refunded = base + r.amount]
         /\ pend' = [pend EXCEPT ![t] = [step |-> "set_refunded", id |-> pend[t].id,
                                         amount |-> base + r.amount]]
  BY DEF AddRefunded, Recorded, Goto
<1> DEFINE q == [step |-> "set_refunded", id |-> pend[t].id, amount |-> base + r.amount]
<1>3. /\ r.txn \in Txns /\ r.amount \in Nat /\ pend[t].id \in Nat /\ base \in Nat
      /\ base + r.amount \in Nat
  <2>1. r.txn \in Txns /\ r.amount \in Nat /\ pend[t].amount \in Nat /\ pend[t].id \in Nat
    BY <1>1, RecordingTypes, ObjectTypes DEF At, MoneyInv
  <2>2. transactions[r.txn].refunded \in Nat
    BY <1>1, <2>1, ObjectTypes DEF MoneyInv, Transaction
  <2> QED BY <2>1, <2>2
<1>4. /\ Txns' = Txns /\ KeepsTxns
      /\ transactions'[r.txn].refunded = base + r.amount
      /\ \A y \in Txns : y # r.txn => transactions'[y] = transactions[y]
  BY <1>1, <1>2, <1>3, RefundedWritten DEF MoneyInv
<1>5. KeepsRefunds /\ q \in Pending
  BY <1>1, <1>3, Untouched DEF Pending, Steps
<1>6. /\ pend'[t] = q
      /\ \A u \in Threads \ {t} : pend'[u] = pend[u]
      /\ \A x : \A u \in AddingTo(x)' \ {t} : u \in AddingTo(x)
      /\ \A x : InFlight(x)' = InFlight(x) - Unrecorded(t, x) + Unrecorded(t, x)'
  BY <1>1, <1>2, <1>5, OneThreadMoves
<1>7. \A x : /\ Unrecorded(t, x)' = 0
             /\ Unrecorded(t, x) = IF x = r.txn THEN r.amount ELSE 0
  BY <1>1, <1>6 DEF Unrecorded, At
<1> SUFFICES ASSUME NEW x \in Txns PROVE PayoutsCover(x)'
  BY <1>4
<1>8. PaidOut(x) \in Nat /\ InFlight(x) \in Nat
  BY <1>1, PaidOutIs, InFlightTyped
<1>9. InFlight(x)' = InFlight(x) - (IF x = r.txn THEN r.amount ELSE 0)
  BY <1>3, <1>6, <1>7, <1>8
<1>10. PaidOut(x)' = PaidOut(x)
  BY <1>1 DEF PaidOut, RefundsOf, Refunds
<1>11. PayoutsCover(x) /\ transactions[x].refunded \in Nat
  BY <1>1, ObjectTypes DEF PaidOutInv, MoneyInv, Transaction
<1>12. ASSUME NEW u \in AddingTo(x)'
       PROVE  pend'[u].amount + InFlight(x)' <= PaidOut(x)'
  <2>1. u # t
    BY <1>6 DEF AddingTo, At
  <2>2. u \in AddingTo(x) /\ pend'[u] = pend[u] /\ u \in Threads
    BY <1>6, <2>1 DEF AddingTo
  <2>3. pend[u].amount \in Nat
    BY <1>1, <2>2, RecordingTypes DEF AddingTo, At
  <2>4. pend[u].amount + InFlight(x) <= PaidOut(x)
    BY <1>11, <2>2 DEF PayoutsCover
  <2> QED BY <1>3, <1>8, <1>9, <1>10, <2>2, <2>3, <2>4
<1>13. transactions'[x].refunded + InFlight(x)' <= PaidOut(x)'
  <2>1. CASE x = r.txn
    <3>1. base + InFlight(x) <= PaidOut(x)
      BY <1>1, <1>2, <1>11, <2>1 DEF PayoutsCover
    <3>2. transactions'[x].refunded = base + r.amount /\ InFlight(x)' = InFlight(x) - r.amount
      BY <1>4, <1>9, <2>1
    <3> QED BY <1>3, <1>8, <1>10, <3>1, <3>2
  <2>2. CASE x # r.txn
    BY <1>4, <1>8, <1>9, <1>10, <1>11, <2>2 DEF PayoutsCover
  <2> QED BY <2>1, <2>2
<1> QED BY <1>12, <1>13 DEF PayoutsCover

(* and a new transaction, for which nothing has been recorded or requested. *)
LEMMA CreateKeepsCover ==
    ASSUME IsFiniteSet(Threads), PaidOutInv, MoneyInv', NEW t \in Threads, NEW a \in Amounts,
           NEW m \in Methods, CreateTransaction(t, a, m)
    PROVE  \A x \in Txns' : PayoutsCover(x)'
<1>0. PICK z : z = NewTxnId
  OBVIOUS
<1>1. MoneyInv /\ z \in TxnIds /\ z \notin Txns /\ UNCHANGED <<refunds, pend, paidOut>>
  BY <1>0, FreshIds DEF PaidOutInv, MoneyInv, CreateTransaction
<1>2. /\ transactions'[z] = [amount |-> a, method |-> m, status |-> "PENDING", refunded |-> 0]
      /\ \A y \in TxnIds : y # z => transactions'[y] = transactions[y]
  BY <1>0, <1>1 DEF CreateTransaction, MoneyInv, TypeOK
<1>3. \A y \in Txns' : y = z \/ y \in Txns
  BY <1>2 DEF Txns
<1>4. \A x : InFlight(x)' = InFlight(x) /\ PaidOut(x)' = PaidOut(x) /\ AddingTo(x)' = AddingTo(x)
  BY <1>1 DEF InFlight, Unrecorded, PaidOut, RefundsOf, Refunds, AddingTo, At
<1>5. ASSUME NEW x \in Txns PROVE PayoutsCover(x)'
  <2>1. transactions'[x] = transactions[x] /\ PayoutsCover(x)
    BY <1>1, <1>2 DEF Txns, PaidOutInv
  <2> QED BY <1>1, <1>4, <2>1 DEF PayoutsCover
<1>6. PayoutsCover(z)'
  <2>1. \A u \in Threads : Owing(u) => refunds[pend[u].id].txn # z
    BY <1>1, RecordingTypes DEF Owing
  <2>2. \A u \in Threads : Unrecorded(u, z) = 0
    BY <2>1 DEF Unrecorded, Owing
  <2>3. InFlight(z) = 0
    BY <2>2, SumZeros DEF InFlight, SumFunction
  <2>4. AddingTo(z) = {}
    BY <2>1 DEF AddingTo, Owing, At
  <2>5. PaidOut(z) \in Nat
    BY <1>1, PaidOutIs
  <2> QED BY <1>2, <1>4, <2>3, <2>4, <2>5 DEF PayoutsCover
<1> QED BY <1>3, <1>5, <1>6

(* Every step keeps PaidOutInv.                                             *)
LEMMA PaidOutNext ==
    ASSUME IsFiniteSet(Threads), PaidOutInv, [Next]_vars
    PROVE  PaidOutInv'
<1>1. MoneyInv /\ MoneyInv'
  BY MoneyNext DEF PaidOutInv
<1>2. \A x \in Txns' : PayoutsCover(x)'
  <2>1. CASE NothingRecorded
    BY <1>1, <2>1, QuietKeepsCover DEF NothingRecorded
  <2>2. ASSUME NEW t \in Threads, NEW a \in Amounts, NEW m \in Methods, CreateTransaction(t, a, m)
        PROVE  \A x \in Txns' : PayoutsCover(x)'
    BY <1>1, <2>2, CreateKeepsCover
  <2>3. ASSUME NEW t \in Threads, NEW r \in Refunds, GatewayRefund(t, r)
        PROVE  \A x \in Txns' : PayoutsCover(x)'
    BY <1>1, <2>3, GatewayRefundKeepsCover
  <2>4. ASSUME NEW t \in Threads, CheckRecordable(t) \/ LeaveUnrecorded(t) \/ AddRefunded(t)
        PROVE  \A x \in Txns' : PayoutsCover(x)'
    BY <1>1, <2>4, CheckKeepsCover, LeaveKeepsCover, AddKeepsCover
  <2> QED BY <1>1, <2>1, <2>2, <2>3, <2>4, StepShape
<1> QED BY <1>1, <1>2 DEF PaidOutInv

(* Finitely many threads: what is recorded as refunded of a transaction has *)
(* been paid out by the gateway before, however the unlocked reads and      *)
(* additions of record_refund overtake each other.                          *)
THEOREM RecordedRefundsWerePaidOut ==
    ASSUME IsFiniteSet(Threads)
    PROVE  Spec => []RecordedWasPaidOut
<1>1. Init => PaidOutInv
  <2> SUFFICES ASSUME Init PROVE PaidOutInv
    OBVIOUS
  <2>1. Txns = {}
    BY DEF Init, Txns
  <2> QED BY <2>1, MoneyInit DEF PaidOutInv
<1>2. PaidOutInv /\ [Next]_vars => PaidOutInv'
  BY PaidOutNext
<1>3. PaidOutInv => RecordedWasPaidOut
  <2> SUFFICES ASSUME PaidOutInv, NEW x \in Txns
               PROVE  transactions[x].refunded <= PaidOut(x)
    BY DEF RecordedWasPaidOut
  <2>1. transactions[x].refunded \in Nat /\ InFlight(x) \in Nat /\ PaidOut(x) \in Nat
    BY PaidOutIs, InFlightTyped, ObjectTypes DEF PaidOutInv, MoneyInv, Transaction
  <2>2. transactions[x].refunded + InFlight(x) <= PaidOut(x)
    BY DEF PaidOutInv, PayoutsCover
  <2> QED BY <2>1, <2>2
<1> QED BY <1>1, <1>2, <1>3, PTL DEF Spec

===============================================================================
