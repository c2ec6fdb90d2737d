---------------------------- MODULE MCOrderManager ----------------------------
(***************************************************************************)
(* Instances of OrderManager for TLC.                                      *)
(***************************************************************************)
EXTENDS OrderManager

CONSTANTS t1, t2, u1, u2, x1, x2, home, office, c1, p1

VARIABLE part

OneThread == {t1}
TwoThreads == {t1, t2}
NoThread == {}
AllStatuses == OrderStatus
PaymentPath == {"PENDING_PAYMENT", "PAID"}
ShortPath == {"PAID"}

InitWhole == Init /\ part = "whole"
SpecWhole == InitWhole /\ [][Next /\ UNCHANGED part]_<<vars, part>>

(* No operation on the lines and the address of an order looks at its       *)
(* discounts, and none on these looks at the lines but to choose whether    *)
(* the discount applies; a behaviour explores one of the two.  Orders whose *)
(* contents are edited follow each other at one address, orders that take   *)
(* discounts live side by side.                                             *)
InitParts == Init /\ part \in {"contents", "discounts"}

NextParts ==
    /\ Next
    /\ part = "contents" => known' = {} /\ \A i \in Live' : orders'[i].addr = x1
    /\ part = "discounts" => \A i \in Live' :
         /\ orders'[i].items = [q \in Quantities |-> 0]
         /\ orders'[i].shipping = home
         /\ orders'[i].status \in {"CREATED", "PAID"}
    /\ UNCHANGED part

SpecParts == InitParts /\ [][NextParts]_<<vars, part>>

===============================================================================
