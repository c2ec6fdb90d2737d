------------------------------- MODULE MCPricing -------------------------------
(***************************************************************************)
(* Values for the run of the lines and the discounts of an order.  Lines   *)
(* and discounts meet only where conditions and amounts are computed from  *)
(* the lines, so that a behaviour first changes the lines, with every      *)
(* discount evaluated on them, and then the discounts, on a given order.   *)
(***************************************************************************)
EXTENDS Discounts

VARIABLE part

vars == <<itemVars, discountVars, part>>

AtLeast(kind, n) == [kind |-> kind, least |-> n]
All(parts) == [kind |-> "all", parts |-> parts]

FewQuantities == {-1, 2}

SomeApplications ==
    {[kind |-> "percent", percentage |-> 50, most |-> 3], [kind |-> "fixed", amount |-> 2],
     [kind |-> "reduction", threshold |-> 8, reduction |-> 2]}
      \cup [kind : {"free"}, buy : {1}, free : {1, 2}, product : {0, 1}]

FewSettings == [
    active    |-> BOOLEAN,
    period    |-> {<<1, 2>>},
    condition |-> {All({AtLeast("amount", 4), AtLeast("quantity", 2), AtLeast("role", 2),
                        [kind |-> "product", products |-> {1}],
                        [kind |-> "time", period |-> <<2, 2>>]})}]

Baskets == {<<>>, <<[id |-> 1, product |-> 1, quantity |-> 2, price |-> 2],
                    [id |-> 2, product |-> 1, quantity |-> 2, price |-> 2]>>}

Init ==
    /\ InitOrderItems /\ InitDiscounts
    /\ part = "items"

Next ==
    \/ part = "items" /\ NextOrderItems /\ UNCHANGED <<discountVars, part>>
    \/ /\ part = "items" /\ part' = "discounts"
       /\ items \in Baskets /\ gone = 0
       /\ UNCHANGED <<itemVars, discountVars>>
    \/ part = "discounts" /\ NextDiscounts /\ UNCHANGED <<itemVars, part>>

Spec == Init /\ [][Next]_vars

===============================================================================
