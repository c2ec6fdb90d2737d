------------------------------ MODULE MCInventory ------------------------------
(***************************************************************************)
(* Values for the run of the inventory.  WarehouseManager and              *)
(* ProductCatalog call each other nowhere and have no state in common, so  *)
(* that a behaviour explores one part, with the other at rest: warehouses  *)
(* that come and go, with any quantities of one product; warehouses that   *)
(* only come, with two products that are never taken unchecked and orders  *)
(* of both; or the catalog.                                                *)
(***************************************************************************)
EXTENDS Warehouses, Catalog

CONSTANTS north, south, p, q

VARIABLE part

vars == <<warehouseVars, catalogVars, part>>

TwoCodes == {north, south}
TwoProducts == {p, q}
FewQuantities == {-1, 1, 2}

Line(product, quantity) == [product |-> product, quantity |-> quantity]
FewOrders == {
    <<Line(p, 1)>>, <<Line(p, 1), Line(p, 2)>>, <<Line(p, 1), Line(q, 1)>>,
    <<Line(q, 1), Line(p, 2)>>, <<Line(p, 1), Line(q, 1), Line(p, 1)>>}

Init ==
    /\ InitWarehouses /\ InitCatalog
    /\ part \in {"one product", "two products", "catalog"}
    /\ part # "catalog" => walk = NoWalk("products")

Untouched(product) ==
    \A w \in Live : warehouses[w].stock[product] = 0 /\ warehouses[w].reserved[product] = 0

(* Nothing goes unchecked or is deleted, and at most one unit of q is there. *)
Simple ==
    /\ default = 0 /\ ~deleted
    /\ \A w \in WarehouseIds : unchecked[w] = None
    /\ \A w \in Live : warehouses[w].stock[q] <= 1

Next ==
    \/ /\ part = "one product"
       /\ NextWarehouses /\ Untouched(q)'
       /\ UNCHANGED <<catalogVars, part>>
    \/ /\ part = "two products"
       /\ NextWarehouses /\ Simple'
       /\ UNCHANGED <<catalogVars, part>>
    \/ part = "catalog" /\ NextCatalog /\ UNCHANGED <<warehouseVars, part>>

Spec == Init /\ [][Next]_vars

===============================================================================
