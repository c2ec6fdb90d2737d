---------------------------- MODULE OrderLifecycle ----------------------------
(***************************************************************************)
(* What the order store promises about the status of an order, stated      *)
(* without threads, pointers or indexes.  An id is issued once; its order  *)
(* starts as CREATED, follows the business rules on every later change,    *)
(* and once gone never comes back.  The detailed specification is          *)
(* OrderManager, which implements this one.                                *)
(***************************************************************************)

CONSTANTS Ids   \* the order ids that can be issued

VARIABLE status \* the status of each id, or "absent" before and "gone" after

Final == {"CANCELLED", "REFUNDED"}

OrderStatus == {"CREATED", "PENDING_PAYMENT", "PAID", "PROCESSING", "SHIPPED",
                "DELIVERED", "COMPLETED", "CANCELLED", "REFUNDED", "CLOSED"}

(***************************************************************************)
(* The business rules: a final order is frozen, only an order waiting for  *)
(* payment is paid, only a paid or processed order ships, and an order is  *)
(* not cancelled between shipping and delivery.                            *)
(***************************************************************************)
Legal(old, new) ==
    /\ old \notin Final
    /\ new = "PAID" => old \in {"CREATED", "PENDING_PAYMENT"}
    /\ new = "SHIPPED" => old \in {"PAID", "PROCESSING"}
    /\ new = "CANCELLED" => old \notin {"SHIPPED", "DELIVERED"}

Init == status = [i \in Ids |-> "absent"]

Open(i) ==
    /\ status[i] = "absent"
    /\ status' = [status EXCEPT ![i] = "CREATED"]

Move(i, new) ==
    /\ status[i] \in OrderStatus
    /\ Legal(status[i], new)
    /\ status' = [status EXCEPT ![i] = new]

(* Deleting one order, or all of them at shutdown. *)
Forget(S) ==
    /\ \A i \in S : status[i] \in OrderStatus
    /\ status' = [i \in Ids |-> IF i \in S THEN "gone" ELSE status[i]]

Next ==
    \/ \E i \in Ids : Open(i)
    \/ \E i \in Ids, new \in OrderStatus : Move(i, new)
    \/ \E S \in SUBSET Ids : Forget(S)

Spec == Init /\ [][Next]_status

===============================================================================
