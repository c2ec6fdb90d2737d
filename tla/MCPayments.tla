------------------------------ MODULE MCPayments ------------------------------
(***************************************************************************)
(* Instances of Payments for TLC.                                          *)
(***************************************************************************)
EXTENDS Payments

CONSTANTS t1, t2

OneThread == {t1}
TwoThreads == {t1, t2}
NoStatus == {}
TwoGateways == {"ALIPAY", "WECHAT_PAY"}
OneMethod == {"WECHAT_PAY"}
WithUnsupported == {"WECHAT_PAY", "BANK_TRANSFER"}
Outcome == {"SUCCESS", "FAILED"}

===============================================================================
