------------------------------- MODULE Warehouses -------------------------------
(***************************************************************************)
(* Warehouse and WarehouseManager (src/src/inventory/warehouse.cpp): the   *)
(* stock and the reservations of each warehouse, the index of codes, the   *)
(* default warehouse and the choice of a warehouse for an order.           *)
(*                                                                         *)
(* No operation takes the mutex the class declares, so that the callers    *)
(* must take turns: an operation is one step.  set_code, set_reserved_stock *)
(* and set_product_stock have no caller and are left out.                  *)
(***************************************************************************)
EXTENDS Integers, Sequences, FiniteSets, Functions

CONSTANTS
    Codes,        \* codes of warehouses
    Products,     \* products
    MaxWarehouse, \* bound on the warehouses there are at a time
    Quantities,   \* quantities that callers pass, negative ones too
    Orders,       \* sequences of order lines to allocate
    MaxUnits,     \* bound on stock, reservations and what they may lack
    NoWarehouse   \* the id is not a key of warehouses_

WarehouseIds == 1..MaxWarehouse

Units == -MaxUnits..MaxUnits

Warehouse == [code : Codes, active : BOOLEAN,
              stock : [Products -> Units], reserved : [Products -> Units]]

ASSUME WarehousesAssumption ==
    /\ MaxWarehouse \in Nat /\ MaxUnits \in Nat
    /\ Quantities \subseteq Int /\ Codes # {}
    /\ NoWarehouse \notin Warehouse

ASSUME OrdersAssumption == Orders \subseteq Seq([product : Products, quantity : Int])

VARIABLES
    warehouses, \* warehouses_: id -> warehouse
    codes,      \* code_index_: code -> id, 0 for none
    default,    \* default_warehouse_id_
    chosen,     \* history: the code of the warehouse made the default
    issued,     \* history: how often an id has been given out
    deleted,    \* history: delete_warehouse has succeeded
    unchecked   \* history: units taken from a warehouse with no look at what is there

warehouseVars == <<warehouses, codes, default, chosen, issued, deleted, unchecked>>

registry == <<codes, default, chosen, issued, deleted>>

Live == {w \in WarehouseIds : warehouses[w] # NoWarehouse}

None == [p \in Products |-> 0]

InitWarehouses ==
    /\ warehouses = [w \in WarehouseIds |-> NoWarehouse]
    /\ codes = [c \in Codes |-> 0]
    /\ default = 0
    /\ chosen = CHOOSE c \in Codes : TRUE
    /\ issued = [w \in WarehouseIds |-> 0]
    /\ deleted = FALSE
    /\ unchecked = [w \in WarehouseIds |-> None]

-------------------------------------------------------------------------------
(* An id is the number of warehouses plus one: after a deletion it can be   *)
(* that of a live warehouse, which is replaced and loses its stock.         *)
NextId == Cardinality(Live) + 1

CreateWarehouse(c) ==
    /\ codes[c] = 0
    /\ NextId \in WarehouseIds
    /\ warehouses' = [warehouses EXCEPT ![NextId] =
                         [code |-> c, active |-> TRUE, stock |-> None, reserved |-> None]]
    /\ codes' = [codes EXCEPT ![c] = NextId]
    /\ issued' = [issued EXCEPT ![NextId] = IF @ = 0 THEN 1 ELSE 2]
    /\ unchecked' = [unchecked EXCEPT ![NextId] = None]
    /\ UNCHANGED <<default, chosen, deleted>>

(* The definitions named ..._Faulty are variants with one mistake in them;  *)
(* no action uses them.  Each shows that a property notices that mistake.   *)
CodesWithout_Faulty(w) == codes

CodesWithout(w) == [codes EXCEPT ![warehouses[w].code] = 0]

(* The default stays, whether it was this warehouse or not. *)
DeleteWarehouse(w) ==
    /\ w \in Live
    /\ codes' = CodesWithout(w)
    /\ warehouses' = [warehouses EXCEPT ![w] = NoWarehouse]
    /\ unchecked' = [unchecked EXCEPT ![w] = None]
    /\ deleted' = TRUE
    /\ UNCHANGED <<default, chosen, issued>>

SetActive(w, a) ==
    /\ w \in Live
    /\ warehouses' = [warehouses EXCEPT ![w].active = a]
    /\ UNCHANGED <<registry, unchecked>>

SetDefault(w) ==
    /\ w \in Live
    /\ default' = w
    /\ chosen' = warehouses[w].code
    /\ UNCHANGED <<warehouses, codes, issued, deleted, unchecked>>

-------------------------------------------------------------------------------
Available_Faulty(w, p) == warehouses[w].stock[p]

Available(w, p) == warehouses[w].stock[p] - warehouses[w].reserved[p]

(* Stock and reservations of a product in one warehouse change. *)
Book(w, p, dStock, dReserved) ==
    /\ warehouses[w].stock[p] + dStock \in Units
    /\ warehouses[w].reserved[p] + dReserved \in Units
    /\ warehouses' = [warehouses EXCEPT ![w].stock[p] = @ + dStock,
                                        ![w].reserved[p] = @ + dReserved]
    /\ UNCHANGED registry

(* Units that leave a warehouse, or its reservations' cover, unchecked. *)
TakeUnchecked(w, p, n) ==
    /\ unchecked[w][p] + n <= MaxUnits
    /\ unchecked' = [unchecked EXCEPT ![w][p] = @ + n]

Loss(q) == IF q < 0 THEN -q ELSE 0

ReserveStock(w, p, q) ==
    /\ w \in Live
    /\ Available(w, p) >= q
    /\ Book(w, p, 0, q)
    /\ UNCHANGED unchecked

(* A negative quantity passes the test and adds to the reservations. *)
ReleaseStock(w, p, q) ==
    /\ w \in Live
    /\ warehouses[w].reserved[p] >= q
    /\ Book(w, p, 0, -q)
    /\ TakeUnchecked(w, p, Loss(q))

ConfirmDeduction(w, p, q) ==
    /\ w \in Live
    /\ warehouses[w].reserved[p] >= q
    /\ Book(w, p, -q, -q)
    /\ UNCHANGED unchecked

(* receive_stock and adjust_inventory do the same. *)
AdjustInventory(w, p, q) ==
    /\ w \in Live
    /\ Book(w, p, q, 0)
    /\ TakeUnchecked(w, p, Loss(q))

(* With a negative quantity it is the receiver that gives, unchecked. *)
TransferStock(from, to, p, q) ==
    /\ from \in Live /\ to \in Live
    /\ Available(from, p) >= q
    /\ warehouses[from].stock[p] - q \in Units
    /\ warehouses[to].stock[p] + q \in Units
    /\ warehouses' = IF from = to
                     THEN warehouses
                     ELSE [warehouses EXCEPT ![from].stock[p] = @ - q,
                                             ![to].stock[p] = @ + q]
    /\ IF from = to THEN UNCHANGED unchecked ELSE TakeUnchecked(to, p, Loss(q))
    /\ UNCHANGED registry

(* shutdown keeps the default, like everything else that is not a map. *)
ShutdownWarehouses ==
    /\ Live # {}
    /\ warehouses' = [w \in WarehouseIds |-> NoWarehouse]
    /\ codes' = [c \in Codes |-> 0]
    /\ unchecked' = [w \in WarehouseIds |-> None]
    /\ deleted' = TRUE
    /\ UNCHANGED <<default, chosen, issued>>

NextWarehouses ==
    \/ \E c \in Codes : CreateWarehouse(c)
    \/ \E w \in WarehouseIds : DeleteWarehouse(w)
    \/ \E w \in WarehouseIds, a \in BOOLEAN : SetActive(w, a)
    \/ \E w \in WarehouseIds : SetDefault(w)
    \/ \E w \in WarehouseIds, p \in Products, q \in Quantities : ReserveStock(w, p, q)
    \/ \E w \in WarehouseIds, p \in Products, q \in Quantities : ReleaseStock(w, p, q)
    \/ \E w \in WarehouseIds, p \in Products, q \in Quantities : ConfirmDeduction(w, p, q)
    \/ \E w \in WarehouseIds, p \in Products, q \in Quantities : AdjustInventory(w, p, q)
    \/ \E from, to \in WarehouseIds, p \in Products, q \in Quantities :
           TransferStock(from, to, p, q)
    \/ ShutdownWarehouses

SpecWarehouses == InitWarehouses /\ [][NextWarehouses]_warehouseVars

-------------------------------------------------------------------------------
(* allocate_order, for lines of a product and a quantity.                   *)
(* find_warehouses_with_product *)
Serves(w, line) == warehouses[w].active /\ Available(w, line.product) >= line.quantity

LinesServed(w, lines) == Cardinality({n \in DOMAIN lines : Serves(w, lines[n])})

(* The first warehouse that serves a line. *)
Allocates_Faulty(lines, w) ==
    /\ \A n \in DOMAIN lines : \E u \in Live : Serves(u, lines[n])
    /\ w \in Live
    /\ LinesServed(w, lines) > 0
    /\ \A u \in Live : LinesServed(u, lines) > 0 => w <= u

(* The first of the warehouses that serve most lines, if each line can be   *)
(* served by some warehouse.                                                *)
Allocates(lines, w) ==
    /\ \A n \in DOMAIN lines : \E u \in Live : Serves(u, lines[n])
    /\ w \in Live
    /\ \A u \in Live : /\ LinesServed(u, lines) <= LinesServed(w, lines)
                       /\ LinesServed(u, lines) = LinesServed(w, lines) => w <= u

-------------------------------------------------------------------------------
(* Every variable has its type. *)
TypeOKWarehouses ==
    /\ warehouses \in [WarehouseIds -> Warehouse \cup {NoWarehouse}]
    /\ codes \in [Codes -> 0..MaxWarehouse]
    /\ default \in 0..MaxWarehouse
    /\ chosen \in Codes
    /\ issued \in [WarehouseIds -> 0..2]
    /\ deleted \in BOOLEAN
    /\ unchecked \in [WarehouseIds -> [Products -> 0..MaxUnits]]

(* What is reserved is there, in every warehouse and through every sequence *)
(* of reservations, releases, deductions and transfers, but for the units   *)
(* that went without a check: by a negative adjustment, a transfer of a     *)
(* negative quantity or a release of one.                                   *)
ReservedIsThere ==
    \A w \in Live, p \in Products : Available(w, p) >= -unchecked[w][p]

(* The warehouse an id stands for.  A live warehouse is found by its code;  *)
(* a code and the default lead to the warehouse they were given to, or the  *)
(* default to none, unless its id was given out twice.  No id is, as long   *)
(* as no warehouse was deleted.                                             *)
LookupsReach ==
    /\ \A w \in Live : codes[warehouses[w].code] = w
    /\ \A c \in Codes : codes[c] # 0 /\ issued[codes[c]] < 2 =>
           codes[c] \in Live /\ warehouses[codes[c]].code = c
    /\ default \in Live /\ issued[default] < 2 => warehouses[default].code = chosen
    /\ ~deleted => \A w \in WarehouseIds : issued[w] < 2

LinesOf(lines, p) == {n \in DOMAIN lines : lines[n].product = p}

Ordered(lines, p) == SumFunction([n \in LinesOf(lines, p) |-> lines[n].quantity])

(* If some warehouse serves every line of an order, the warehouse that      *)
(* allocate_order returns, which need not be the same, can reserve the      *)
(* whole of it, product by product, when its lines are of different         *)
(* products.  Lines of one product are counted against the same stock each  *)
(* on its own: that promises the stock at most once for each of them.       *)
AllocatedCanReserve ==
    \A lines \in Orders, w \in Live :
        /\ Allocates(lines, w)
        /\ \E u \in Live : LinesServed(u, lines) = Len(lines)
        => \A p \in Products :
              Ordered(lines, p) <= Cardinality(LinesOf(lines, p)) * Available(w, p)

===============================================================================
