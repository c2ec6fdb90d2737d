---------------------------- MODULE InventoryProofs ----------------------------
(***************************************************************************)
(* Proofs about Warehouses, for every set of codes, products, quantities   *)
(* and orders and every bound on the warehouses, and about Catalog, for    *)
(* every number of rows, every page size and every width of size_t.        *)
(*                                                                         *)
(* Warehouses: ReservedIsThere is inductive together with the types.       *)
(* LookupsReach is not: it also needs to know which ids have been given    *)
(* out, and that without deletions these are the first ones, so that the   *)
(* number of warehouses plus one is a new id.  That an allocation can be   *)
(* reserved is counted: each line of the order is one that some warehouse  *)
(* of the allocation serves.                                               *)
(*                                                                         *)
(* Catalog: a list is the ranking of its ids, so that a row's position is  *)
(* the number of the rows ahead of it plus one.  A row that goes moves the *)
(* rows behind it up by one, a row that comes in moves them down by one.   *)
(* The invariant therefore counts, for a walk that has read n rows: kept   *)
(* rows in the first n positions that were never seen (Passed) are no more *)
(* than the rows lost, and the rows shown again together with those behind *)
(* position n that have been seen and are due to be shown again (Due) are  *)
(* no more than the rows gained.                                           *)
(***************************************************************************)
EXTENDS Warehouses, Catalog, Sums, FunctionTheorems, SequenceTheorems

-------------------------------------------------------------------------------
(* Warehouses.                                                              *)

(* The ids of warehouses are positive numbers.                              *)
LEMMA IdsAreNumbers ==
    /\ WarehouseIds \subseteq Nat \ {0}
    /\ \A w \in Live : w \in WarehouseIds
    BY WarehousesAssumption DEF WarehouseIds, Live

(* A warehouse that exists is a record whose quantities are integers.       *)
LEMMA LiveIsRecord ==
    ASSUME TypeOKWarehouses, NEW w \in Live
    PROVE  /\ warehouses[w] \in Warehouse
           /\ \A p \in Products : /\ warehouses[w].stock[p] \in Int
                                  /\ warehouses[w].reserved[p] \in Int
                                  /\ Available(w, p) \in Int
<1>1. warehouses[w] \in Warehouse
    BY DEF TypeOKWarehouses, Live
<1>2. Units \subseteq Int
    BY WarehousesAssumption DEF Units
<1>3. /\ warehouses[w].stock \in [Products -> Units]
      /\ warehouses[w].reserved \in [Products -> Units]
    BY <1>1 DEF Warehouse
<1>4. ASSUME NEW p \in Products
      PROVE  /\ warehouses[w].stock[p] \in Int
             /\ warehouses[w].reserved[p] \in Int
    BY <1>2, <1>3
<1> QED
    BY <1>1, <1>4 DEF Available

(* The initial state has every type and no warehouse. *)
LEMMA InitType ==
    InitWarehouses => TypeOKWarehouses /\ ReservedIsThere
<1> SUFFICES ASSUME InitWarehouses PROVE TypeOKWarehouses /\ ReservedIsThere
    OBVIOUS
<1> USE WarehousesAssumption
<1>1. Live = {}
    BY DEF InitWarehouses, Live
<1>2. chosen \in Codes
    BY DEF InitWarehouses
<1>3. None \in [Products -> 0..MaxUnits]
    BY DEF None
<1>4. TypeOKWarehouses
    <2>1. 0 \in 0..MaxWarehouse /\ 0 \in 0..2
        OBVIOUS
    <2> QED
        BY <1>2, <1>3, <2>1, Zenon DEF InitWarehouses, TypeOKWarehouses
<1> QED
    BY <1>1, <1>4 DEF ReservedIsThere

(* What Book changes: the amounts of one product in one warehouse. *)
LEMMA BookChanges ==
    ASSUME TypeOKWarehouses,
           NEW w \in Live, NEW p \in Products, NEW d \in Int, NEW e \in Int,
           Book(w, p, d, e)
    PROVE  /\ warehouses' \in [WarehouseIds -> Warehouse \cup {NoWarehouse}]
           /\ Live' = Live
           /\ \A u \in Live : warehouses'[u].code = warehouses[u].code
           /\ Available(w, p)' = Available(w, p) + d - e
           /\ \A u \in Live, r \in Products :
                  u # w \/ r # p => Available(u, r)' = Available(u, r)
<1> DEFINE old == warehouses[w]
           new == [old EXCEPT !.stock = [old.stock EXCEPT ![p] = @ + d],
                              !.reserved = [old.reserved EXCEPT ![p] = @ + e]]
<1>1. w \in WarehouseIds
    BY DEF Live
<1>2. old \in Warehouse
    BY LiveIsRecord
<1>3. warehouses' = [warehouses EXCEPT ![w] = new]
    BY <1>1, <1>2 DEF Book, Warehouse, TypeOKWarehouses
<1>4. old.stock[p] + d \in Units /\ old.reserved[p] + e \in Units
    BY DEF Book
<1>5. new \in Warehouse
    BY <1>2, <1>4 DEF Warehouse
<1>6. new # NoWarehouse
    BY <1>5, WarehousesAssumption
<1>7. warehouses' \in [WarehouseIds -> Warehouse \cup {NoWarehouse}]
    BY <1>3, <1>5 DEF TypeOKWarehouses
<1>8. /\ warehouses'[w] = new
      /\ \A u \in WarehouseIds \ {w} : warehouses'[u] = warehouses[u]
    BY <1>1, <1>3 DEF TypeOKWarehouses
<1>9. Live' = Live
    BY <1>6, <1>8 DEF Live
<1>10. /\ new.code = old.code
       /\ new.stock[p] = old.stock[p] + d
       /\ new.reserved[p] = old.reserved[p] + e
       /\ \A r \in Products \ {p} : /\ new.stock[r] = old.stock[r]
                                    /\ new.reserved[r] = old.reserved[r]
    BY <1>2 DEF Warehouse
<1>11. \A u \in Live : warehouses'[u].code = warehouses[u].code
    BY <1>8, <1>10 DEF Live
<1>12. Available(w, p)' = Available(w, p) + d - e
    <2>1. old.stock[p] \in Int /\ old.reserved[p] \in Int
        BY LiveIsRecord
    <2> HIDE DEF old, new
    <2>2. (new.stock[p] - new.reserved[p]) = (old.stock[p] - old.reserved[p]) + d - e
        BY <2>1, <1>10
    <2> QED
        BY <2>2, <1>8 DEF Available, old
<1>13. ASSUME NEW u \in Live, NEW r \in Products, u # w \/ r # p
       PROVE  Available(u, r)' = Available(u, r)
    <2> HIDE DEF new
    <2>1. CASE u # w
        BY <2>1, <1>8 DEF Available, Live
    <2>2. CASE u = w /\ r # p
        BY <2>2, <1>8, <1>10 DEF Available
    <2> QED
        BY <2>1, <2>2, <1>13
<1> QED
    BY <1>7, <1>9, <1>11, <1>12, <1>13

(* What a transfer takes without looking is counted for that product of     *)
(* that warehouse and for no other.                                         *)
LEMMA TakenIsCounted ==
    ASSUME TypeOKWarehouses,
           NEW w \in Live, NEW p \in Products, NEW q \in Quantities,
           TakeUnchecked(w, p, Loss(q))
    PROVE  /\ unchecked' \in [WarehouseIds -> [Products -> 0..MaxUnits]]
           /\ unchecked'[w][p] = unchecked[w][p] + Loss(q)
           /\ \A u \in Live, r \in Products :
                  u # w \/ r # p => unchecked'[u][r] = unchecked[u][r]
<1> USE WarehousesAssumption
<1>1. w \in WarehouseIds /\ \A u \in Live : u \in WarehouseIds
    BY DEF Live
<1>2. q \in Int /\ Loss(q) \in Nat
    BY DEF Loss
<1>3. unchecked[w] \in [Products -> 0..MaxUnits]
    BY <1>1 DEF TypeOKWarehouses
<1>4. unchecked[w][p] \in Nat /\ unchecked[w][p] + Loss(q) \in 0..MaxUnits
    BY <1>2, <1>3 DEF TakeUnchecked
<1>5. [unchecked[w] EXCEPT ![p] = @ + Loss(q)] \in [Products -> 0..MaxUnits]
    BY <1>3, <1>4
<1>6. unchecked' = [unchecked EXCEPT ![w] = [unchecked[w] EXCEPT ![p] = @ + Loss(q)]]
    BY <1>1 DEF TakeUnchecked, TypeOKWarehouses
<1> QED
    BY <1>1, <1>3, <1>5, <1>6 DEF TypeOKWarehouses

(* What was taken without looking is a natural number.                      *)
LEMMA UncheckedIsNumber ==
    ASSUME TypeOKWarehouses, NEW w \in Live, NEW p \in Products
    PROVE  unchecked[w][p] \in Nat
    BY WarehousesAssumption DEF TypeOKWarehouses, Live

(* A warehouse created or deleted has nothing reserved, and the others keep *)
(* what they have.                                                          *)
LEMMA ReplacedOne ==
    ASSUME TypeOKWarehouses, ReservedIsThere,
           NEW w \in WarehouseIds, NEW r \in {NoWarehouse} \cup Warehouse,
           r \in Warehouse => r.stock = None /\ r.reserved = None,
           warehouses' = [warehouses EXCEPT ![w] = r],
           unchecked' = [unchecked EXCEPT ![w] = None]
    PROVE  /\ warehouses' \in [WarehouseIds -> Warehouse \cup {NoWarehouse}]
           /\ unchecked' \in [WarehouseIds -> [Products -> 0..MaxUnits]]
           /\ ReservedIsThere'
<1> USE WarehousesAssumption
<1>1. warehouses' \in [WarehouseIds -> Warehouse \cup {NoWarehouse}]
    BY DEF TypeOKWarehouses
<1>2. None \in [Products -> 0..MaxUnits]
    BY DEF None
<1>3. unchecked' \in [WarehouseIds -> [Products -> 0..MaxUnits]]
    BY <1>2 DEF TypeOKWarehouses
<1>4. ASSUME NEW u \in Live', NEW p \in Products
      PROVE  Available(u, p)' >= -unchecked'[u][p]
    <2>1. u \in WarehouseIds /\ warehouses'[u] # NoWarehouse
        BY DEF Live
    <2>2. CASE u = w
        <3>1. warehouses'[u] = r /\ r \in Warehouse
            BY <2>1, <2>2 DEF TypeOKWarehouses
        <3>2. Available(u, p)' = 0
            BY <3>1 DEF Available, None
        <3>3. unchecked'[u][p] = 0
            BY <2>1, <2>2 DEF TypeOKWarehouses, None
        <3> QED
            BY <3>2, <3>3
    <2>3. CASE u # w
        <3>1. warehouses'[u] = warehouses[u] /\ unchecked'[u] = unchecked[u]
            BY <2>1, <2>3 DEF TypeOKWarehouses
        <3>2. u \in Live
            BY <2>1, <3>1 DEF Live
        <3> QED
            BY <3>1, <3>2 DEF ReservedIsThere, Available
    <2> QED
        BY <2>2, <2>3
<1> QED
    BY <1>1, <1>3, <1>4 DEF ReservedIsThere

(* An action that changes stock or reservations and counts what it must.    *)
LEMMA BookedIsCounted ==
    ASSUME TypeOKWarehouses, ReservedIsThere,
           NEW w \in Live, NEW p \in Products, NEW d \in Int, NEW e \in Int,
           NEW q \in Quantities,
           Book(w, p, d, e),
           \/ TakeUnchecked(w, p, Loss(q)) /\ d - e >= -Loss(q)
           \/ UNCHANGED unchecked /\ (Available(w, p) + d - e >= 0 \/ d = e)
    PROVE  TypeOKWarehouses' /\ ReservedIsThere'
<1>1. /\ Available(w, p) \in Int /\ unchecked[w][p] \in Nat
      /\ Available(w, p) >= -unchecked[w][p]
    BY LiveIsRecord, UncheckedIsNumber DEF ReservedIsThere
<1>2. Loss(q) \in Nat
    BY WarehousesAssumption DEF Loss
<1>3. /\ unchecked' \in [WarehouseIds -> [Products -> 0..MaxUnits]]
      /\ \A u \in Live, r \in Products :
             u # w \/ r # p => unchecked'[u][r] = unchecked[u][r]
    BY TakenIsCounted DEF TypeOKWarehouses
<1>4. Available(w, p)' >= -unchecked'[w][p]
    <2>1. Available(w, p)' = Available(w, p) + d - e
        BY BookChanges
    <2>2. CASE TakeUnchecked(w, p, Loss(q)) /\ d - e >= -Loss(q)
        <3>1. unchecked'[w][p] = unchecked[w][p] + Loss(q)
            BY <2>2, TakenIsCounted
        <3> QED
            BY <1>1, <1>2, <2>1, <2>2, <3>1
    <2>3. CASE UNCHANGED unchecked /\ (Available(w, p) + d - e >= 0 \/ d = e)
        BY <1>1, <2>1, <2>3
    <2> QED
        BY <2>2, <2>3
<1>5. ReservedIsThere'
    <2>1. ASSUME NEW u \in Live', NEW r \in Products
          PROVE  Available(u, r)' >= -unchecked'[u][r]
        <3>1. u \in Live
            BY BookChanges
        <3>2. CASE u = w /\ r = p
            BY <1>4, <3>2
        <3>3. CASE u # w \/ r # p
            BY <1>3, <3>1, <3>3, BookChanges DEF ReservedIsThere
        <3> QED
            BY <3>2, <3>3
    <2> QED
        BY <2>1 DEF ReservedIsThere
<1>6. TypeOKWarehouses'
    BY <1>3, BookChanges DEF TypeOKWarehouses, Book, registry
<1> QED
    BY <1>5, <1>6

(* transfer_stock, which checks the stock but not what of it is reserved:   *)
(* what it takes beyond is counted.                                         *)
LEMMA TransferIsCounted ==
    ASSUME TypeOKWarehouses, ReservedIsThere,
           NEW from \in WarehouseIds, NEW to \in WarehouseIds,
           NEW p \in Products, NEW q \in Quantities,
           TransferStock(from, to, p, q)
    PROVE  TypeOKWarehouses' /\ ReservedIsThere'
<1> USE WarehousesAssumption
<1>1. from \in Live /\ to \in Live /\ q \in Int
    BY DEF TransferStock
<1>2. CASE from = to
    BY <1>2 DEF TransferStock, TypeOKWarehouses, ReservedIsThere, registry, Live, Available
<1>3. CASE from # to
    <2> DEFINE giver == [warehouses[from] EXCEPT
                          !.stock = [warehouses[from].stock EXCEPT ![p] = @ - q]]
               taker == [warehouses[to] EXCEPT
                          !.stock = [warehouses[to].stock EXCEPT ![p] = @ + q]]
    <2>1. warehouses[from] \in Warehouse /\ warehouses[to] \in Warehouse
        BY <1>1, LiveIsRecord
    <2>2. warehouses[from].stock[p] - q \in Units /\ warehouses[to].stock[p] + q \in Units
        BY DEF TransferStock
    <2>3. giver \in Warehouse /\ taker \in Warehouse
        BY <2>1, <2>2 DEF Warehouse
    <2>4. warehouses' = [warehouses EXCEPT ![from] = giver, ![to] = taker]
        BY <1>3, <2>1 DEF TransferStock, TypeOKWarehouses, Warehouse
    <2>5. /\ warehouses'[from] = giver /\ warehouses'[to] = taker
          /\ \A u \in WarehouseIds : u # from /\ u # to => warehouses'[u] = warehouses[u]
        BY <1>3, <2>4 DEF TypeOKWarehouses
    <2>6. warehouses' \in [WarehouseIds -> Warehouse \cup {NoWarehouse}]
        BY <2>3, <2>4 DEF TypeOKWarehouses
    <2>7. Live' = Live
        BY <1>1, <2>3, <2>5 DEF Live
    <2>8. TakeUnchecked(to, p, Loss(q)) /\ UNCHANGED registry
        BY <1>3 DEF TransferStock
    <2>9. TypeOKWarehouses'
        BY <1>1, <2>6, <2>8, TakenIsCounted DEF TypeOKWarehouses, registry
    <2>10. /\ giver.reserved = warehouses[from].reserved
           /\ taker.reserved = warehouses[to].reserved
           /\ giver.stock[p] = warehouses[from].stock[p] - q
           /\ taker.stock[p] = warehouses[to].stock[p] + q
           /\ \A r \in Products \ {p} : /\ giver.stock[r] = warehouses[from].stock[r]
                                        /\ taker.stock[r] = warehouses[to].stock[r]
        BY <2>1 DEF Warehouse
    <2>11. Available(from, p)' >= -unchecked'[from][p]
        <3>1. /\ warehouses[from].stock[p] \in Int /\ warehouses[from].reserved[p] \in Int
              /\ unchecked[from][p] \in Nat
            BY <1>1, LiveIsRecord, UncheckedIsNumber
        <3>2. warehouses[from].stock[p] - warehouses[from].reserved[p] >= q
            BY DEF TransferStock, Available
        <3>3. unchecked'[from][p] = unchecked[from][p]
            BY <1>1, <1>3, <2>8, TakenIsCounted
        <3> HIDE DEF giver, taker
        <3>4. (giver.stock[p] - giver.reserved[p]) >= 0
            BY <2>10, <3>1, <3>2, <1>1
        <3> QED
            BY <2>5, <2>10, <3>1, <3>3, <3>4 DEF Available
    <2>12. Available(to, p)' >= -unchecked'[to][p]
        <3>1. /\ warehouses[to].stock[p] \in Int /\ warehouses[to].reserved[p] \in Int
              /\ unchecked[to][p] \in Nat
            BY <1>1, LiveIsRecord, UncheckedIsNumber
        <3>2. warehouses[to].stock[p] - warehouses[to].reserved[p] >= -unchecked[to][p]
            BY <1>1 DEF ReservedIsThere, Available
        <3>3. unchecked'[to][p] = unchecked[to][p] + Loss(q)
            BY <1>1, <2>8, TakenIsCounted
        <3>4. q >= -Loss(q) /\ Loss(q) \in Nat
            BY <1>1 DEF Loss
        <3> HIDE DEF giver, taker
        <3>5. (taker.stock[p] - taker.reserved[p]) >= -(unchecked[to][p] + Loss(q))
            BY <2>10, <3>1, <3>2, <3>4, <1>1
        <3> QED
            BY <2>5, <3>3, <3>5 DEF Available
    <2>13. ASSUME NEW u \in Live, NEW r \in Products, (u # from /\ u # to) \/ r # p
           PROVE  Available(u, r)' >= -unchecked'[u][r]
        <3> HIDE DEF giver, taker
        <3>1. unchecked'[u][r] = unchecked[u][r]
            BY <1>1, <2>8, <2>13, TakenIsCounted
        <3>2. Available(u, r)' = Available(u, r)
            BY <2>5, <2>10, <2>13 DEF Available, Live
        <3> QED
            BY <3>1, <3>2 DEF ReservedIsThere
    <2> QED
        BY <2>7, <2>9, <2>11, <2>12, <2>13 DEF ReservedIsThere
<1> QED
    BY <1>2, <1>3

-------------------------------------------------------------------------------
(* Every operation of the manager keeps the types and ReservedIsThere.      *)
LEMMA NextKeepsReserved ==
    ASSUME TypeOKWarehouses, ReservedIsThere, NextWarehouses
    PROVE  TypeOKWarehouses' /\ ReservedIsThere'
<1> USE WarehousesAssumption
<1>1. ASSUME NEW c \in Codes, CreateWarehouse(c)
      PROVE  TypeOKWarehouses' /\ ReservedIsThere'
    <2> DEFINE fresh == [code |-> c, active |-> TRUE, stock |-> None, reserved |-> None]
    <2>1. fresh \in Warehouse
        <3>1. 0 \in Units
            BY DEF Units
        <3> QED
            BY <3>1 DEF Warehouse, None
    <2>2. NextId \in WarehouseIds /\ NextId \in 0..MaxWarehouse
        BY <1>1 DEF CreateWarehouse, WarehouseIds
    <2>3. /\ warehouses' \in [WarehouseIds -> Warehouse \cup {NoWarehouse}]
          /\ unchecked' \in [WarehouseIds -> [Products -> 0..MaxUnits]]
          /\ ReservedIsThere'
        BY <1>1, <2>1, <2>2, ReplacedOne DEF CreateWarehouse
    <2>4. issued' \in [WarehouseIds -> 0..2] /\ codes' \in [Codes -> 0..MaxWarehouse]
        BY <1>1, <2>2 DEF CreateWarehouse, TypeOKWarehouses
    <2> QED
        BY <1>1, <2>3, <2>4 DEF CreateWarehouse, TypeOKWarehouses
<1>2. ASSUME NEW w \in WarehouseIds, DeleteWarehouse(w)
      PROVE  TypeOKWarehouses' /\ ReservedIsThere'
    <2>1. /\ warehouses' \in [WarehouseIds -> Warehouse \cup {NoWarehouse}]
          /\ unchecked' \in [WarehouseIds -> [Products -> 0..MaxUnits]]
          /\ ReservedIsThere'
        BY <1>2, ReplacedOne DEF DeleteWarehouse
    <2>2. codes' \in [Codes -> 0..MaxWarehouse]
        <3>1. 0 \in 0..MaxWarehouse
            OBVIOUS
        <3> QED
            BY <1>2, <3>1 DEF DeleteWarehouse, CodesWithout, TypeOKWarehouses
    <2> QED
        BY <1>2, <2>1, <2>2 DEF DeleteWarehouse, TypeOKWarehouses
<1>3. ASSUME NEW w \in WarehouseIds, NEW a \in BOOLEAN, SetActive(w, a)
      PROVE  TypeOKWarehouses' /\ ReservedIsThere'
    <2>1. warehouses[w] \in Warehouse
        BY <1>3, LiveIsRecord DEF SetActive
    <2> DEFINE new == [warehouses[w] EXCEPT !.active = a]
    <2>2. /\ new \in Warehouse
          /\ new.stock = warehouses[w].stock /\ new.reserved = warehouses[w].reserved
        BY <2>1 DEF Warehouse
    <2>3. warehouses' = [warehouses EXCEPT ![w] = new] /\ UNCHANGED <<registry, unchecked>>
        BY <1>3 DEF SetActive, TypeOKWarehouses
    <2> HIDE DEF new
    <2>4. TypeOKWarehouses'
        BY <2>2, <2>3 DEF TypeOKWarehouses, registry
    <2>5. Live' = Live /\ \A u \in Live, p \in Products : Available(u, p)' = Available(u, p)
        BY <1>3, <2>2, <2>3 DEF SetActive, Live, Available, TypeOKWarehouses
    <2> QED
        BY <2>3, <2>4, <2>5 DEF ReservedIsThere
<1>4. ASSUME NEW w \in WarehouseIds, SetDefault(w)
      PROVE  TypeOKWarehouses' /\ ReservedIsThere'
    <2>1. warehouses[w].code \in Codes /\ w \in 0..MaxWarehouse
        BY <1>4, LiveIsRecord DEF SetDefault, Warehouse, WarehouseIds
    <2> QED
        BY <1>4, <2>1 DEF SetDefault, TypeOKWarehouses, ReservedIsThere, Live, Available
<1>5. ASSUME NEW w \in WarehouseIds, NEW p \in Products, NEW q \in Quantities,
             \/ ReserveStock(w, p, q) \/ ReleaseStock(w, p, q)
             \/ ConfirmDeduction(w, p, q) \/ AdjustInventory(w, p, q)
      PROVE  TypeOKWarehouses' /\ ReservedIsThere'
    <2> q \in Int /\ -q \in Int
        OBVIOUS
    <2>1. CASE ReserveStock(w, p, q)
        <3>1. Available(w, p) \in Int
            BY <2>1, LiveIsRecord DEF ReserveStock
        <3>2. Available(w, p) + 0 - q >= 0
            BY <2>1, <3>1 DEF ReserveStock
        <3> QED
            BY <2>1, <3>2, BookedIsCounted DEF ReserveStock
    <2>2. CASE ReleaseStock(w, p, q)
        <3>1. 0 - (-q) >= -Loss(q)
            BY DEF Loss
        <3> QED
            BY <2>2, <3>1, BookedIsCounted DEF ReleaseStock
    <2>3. CASE ConfirmDeduction(w, p, q)
        BY <2>3, BookedIsCounted DEF ConfirmDeduction
    <2>4. CASE AdjustInventory(w, p, q)
        <3>1. q - 0 >= -Loss(q)
            BY DEF Loss
        <3> QED
            BY <2>4, <3>1, BookedIsCounted DEF AdjustInventory
    <2> QED
        BY <1>5, <2>1, <2>2, <2>3, <2>4
<1>6. ASSUME NEW from \in WarehouseIds, NEW to \in WarehouseIds,
             NEW p \in Products, NEW q \in Quantities, TransferStock(from, to, p, q)
      PROVE  TypeOKWarehouses' /\ ReservedIsThere'
    BY <1>6, TransferIsCounted
<1>7. CASE ShutdownWarehouses
    <2>1. None \in [Products -> 0..MaxUnits] /\ 0 \in 0..MaxWarehouse
        BY DEF None
    <2>2. Live' = {}
        BY <1>7 DEF ShutdownWarehouses, Live
    <2> QED
        BY <1>7, <2>1, <2>2 DEF ShutdownWarehouses, TypeOKWarehouses, ReservedIsThere
<1> QED
    BY <1>1, <1>2, <1>3, <1>4, <1>5, <1>6, <1>7 DEF NextWarehouses

(* So does a step of something else.                                        *)
LEMMA StutterKeepsReserved ==
    ASSUME TypeOKWarehouses, ReservedIsThere, UNCHANGED warehouseVars
    PROVE  TypeOKWarehouses' /\ ReservedIsThere'
    BY DEF warehouseVars, TypeOKWarehouses, ReservedIsThere, Live, Available

(* Every variable keeps its type, and what is reserved in a warehouse is    *)
(* there, but for the units that were taken without a check, whatever the   *)
(* sequence of warehouse.cpp's operations.                                  *)
THEOREM StockCoversReservations ==
    SpecWarehouses => [](TypeOKWarehouses /\ ReservedIsThere)
<1>1. InitWarehouses => TypeOKWarehouses /\ ReservedIsThere
    BY InitType
<1>2. /\ TypeOKWarehouses /\ ReservedIsThere
      /\ [NextWarehouses]_warehouseVars
      => (TypeOKWarehouses /\ ReservedIsThere)'
    BY NextKeepsReserved, StutterKeepsReserved
<1> QED
    BY <1>1, <1>2, PTL DEF SpecWarehouses

-------------------------------------------------------------------------------
(* Which ids were given out: those of the warehouses and of the default,    *)
(* and without deletions just the first ones, each once.                    *)
IdsIssued ==
    /\ \A w \in Live : issued[w] >= 1
    /\ default # 0 => issued[default] >= 1
    /\ ~deleted => /\ \A w \in WarehouseIds \ Live : issued[w] = 0
                   /\ \E n \in Nat : Live = 1..n

(* The inductive invariant of the lookups.                                  *)
LookupsInv == TypeOKWarehouses /\ LookupsReach /\ IdsIssued

(* Without deletions, size() + 1 is the id after the last.                  *)
LEMMA NextIdIsNew ==
    ASSUME TypeOKWarehouses, IdsIssued, ~deleted, NextId \in WarehouseIds
    PROVE  NextId \notin Live /\ \E n \in Nat : Live \cup {NextId} = 1..n
<1>1. PICK n \in Nat : Live = 1..n
    BY DEF IdsIssued
<1>2. Cardinality(1..n) = n
    <2>1. Cardinality(1..n) = IF 1 > n THEN 0 ELSE n - 1 + 1
        BY FS_Interval
    <2> QED
        BY <2>1
<1>3. NextId = n + 1
    BY <1>1, <1>2 DEF NextId
<1>4. Live \cup {NextId} = 1..(n + 1)
    BY <1>1, <1>3
<1> QED
    BY <1>1, <1>3, <1>4

(* create_warehouse: the id it takes is new, or ids were deleted before.    *)
LEMMA CreateKeepsLookups ==
    ASSUME LookupsInv, NEW c \in Codes, CreateWarehouse(c)
    PROVE  LookupsReach' /\ IdsIssued'
<1> DEFINE i == NextId
<1> USE WarehousesAssumption, IdsAreNumbers
<1>1. /\ i \in WarehouseIds /\ codes[c] = 0
      /\ codes' = [codes EXCEPT ![c] = i]
      /\ default' = default /\ chosen' = chosen /\ deleted' = deleted
      /\ issued' = [issued EXCEPT ![i] = IF @ = 0 THEN 1 ELSE 2]
    BY DEF CreateWarehouse
<1>2. /\ codes'[c] = i /\ \A d \in Codes \ {c} : codes'[d] = codes[d]
      /\ \A w \in WarehouseIds \ {i} : issued'[w] = issued[w]
      /\ issued'[i] = IF issued[i] = 0 THEN 1 ELSE 2
      /\ issued'[i] \in {1, 2}
      /\ issued[i] \in 0..2
    BY <1>1 DEF LookupsInv, TypeOKWarehouses
<1>3. /\ warehouses'[i].code = c
      /\ \A w \in WarehouseIds \ {i} : warehouses'[w] = warehouses[w]
      /\ warehouses'[i] # NoWarehouse
    <2> DEFINE fresh == [code |-> c, active |-> TRUE, stock |-> None, reserved |-> None]
    <2>1. 0 \in Units
        BY DEF Units
    <2>2. fresh \in Warehouse
        BY <2>1 DEF Warehouse, None
    <2> QED
        BY <1>1, <2>2 DEF CreateWarehouse, LookupsInv, TypeOKWarehouses
<1>4. Live' = Live \cup {i}
    BY <1>1, <1>3 DEF Live
<1>5. \A w \in Live : warehouses[w].code \in Codes
    BY LiveIsRecord DEF LookupsInv, Warehouse
<1> HIDE DEF i
<1>6. \A w \in Live' : codes'[warehouses'[w].code] = w
    <2> SUFFICES ASSUME NEW w \in Live' PROVE codes'[warehouses'[w].code] = w
        OBVIOUS
    <2>1. CASE w = i
        BY <1>2, <1>3, <2>1
    <2>2. CASE w # i
        <3>1. w \in Live /\ warehouses'[w] = warehouses[w] /\ w # 0
            BY <1>3, <1>4, <2>2
        <3>2. codes[warehouses[w].code] = w
            BY <3>1 DEF LookupsInv, LookupsReach
        <3> QED
            BY <1>1, <1>2, <1>5, <3>1, <3>2
    <2> QED
        BY <2>1, <2>2
<1>7. \A d \in Codes : codes'[d] # 0 /\ issued'[codes'[d]] < 2 =>
          codes'[d] \in Live' /\ warehouses'[codes'[d]].code = d
    <2> SUFFICES ASSUME NEW d \in Codes, d # c, codes[d] # 0, issued'[codes[d]] < 2
                 PROVE  codes[d] \in Live' /\ warehouses'[codes[d]].code = d
        BY <1>2, <1>3, <1>4
    <2>1. codes[d] \in WarehouseIds
        BY DEF LookupsInv, TypeOKWarehouses, WarehouseIds
    <2>2. CASE codes[d] = i
        <3>1. issued[i] = 0
            BY <1>2, <2>2
        <3>2. i \in Live
            BY <2>2, <3>1 DEF LookupsInv, LookupsReach
        <3> QED
            BY <3>1, <3>2 DEF LookupsInv, IdsIssued
    <2>3. CASE codes[d] # i
        BY <1>2, <1>3, <1>4, <2>1, <2>3 DEF LookupsInv, LookupsReach
    <2> QED
        BY <2>2, <2>3
<1>8. default' \in Live' /\ issued'[default'] < 2 => warehouses'[default'].code = chosen'
    <2>1. CASE default = i
        <3>1. issued[i] >= 1
            BY <1>1, <2>1 DEF LookupsInv, IdsIssued
        <3> QED
            BY <1>1, <1>2, <2>1, <3>1
    <2>2. CASE default # i
        <3> SUFFICES ASSUME default \in Live', issued'[default] < 2
                     PROVE  warehouses'[default].code = chosen
            BY <1>1
        <3>1. default \in Live
            BY <1>4, <2>2
        <3>2. issued'[default] = issued[default] /\ warehouses'[default] = warehouses[default]
            BY <1>2, <1>3, <2>2, <3>1
        <3> QED
            BY <3>1, <3>2 DEF LookupsInv, LookupsReach
    <2> QED
        BY <2>1, <2>2
<1>9. ~deleted => i \notin Live /\ \E n \in Nat : Live \cup {i} = 1..n
    BY <1>1, NextIdIsNew DEF LookupsInv, i
<1>10. ~deleted' => \A w \in WarehouseIds : issued'[w] < 2
    BY <1>1, <1>2, <1>9 DEF LookupsInv, LookupsReach, IdsIssued
<1>11. IdsIssued'
    <2>1. ASSUME NEW w \in Live' PROVE issued'[w] >= 1
        <3>1. CASE w = i
            BY <1>2, <3>1
        <3>2. CASE w # i
            BY <1>2, <1>4, <3>2 DEF LookupsInv, IdsIssued
        <3> QED
            BY <3>1, <3>2
    <2>2. default' # 0 => issued'[default'] >= 1
        <3> SUFFICES ASSUME default # 0 PROVE issued'[default] >= 1
            BY <1>1
        <3>1. default \in WarehouseIds
            BY DEF LookupsInv, TypeOKWarehouses, WarehouseIds
        <3>2. CASE default = i
            BY <1>2, <3>2
        <3>3. CASE default # i
            BY <1>2, <3>1, <3>3 DEF LookupsInv, IdsIssued
        <3> QED
            BY <3>2, <3>3
    <2>3. ~deleted' => /\ \A w \in WarehouseIds \ Live' : issued'[w] = 0
                       /\ \E n \in Nat : Live' = 1..n
        BY <1>1, <1>2, <1>4, <1>9 DEF LookupsInv, IdsIssued
    <2> QED
        BY <2>1, <2>2, <2>3 DEF IdsIssued
<1> QED
    BY <1>6, <1>7, <1>8, <1>10, <1>11 DEF LookupsReach

(* delete_warehouse: the other warehouses keep their ids and codes.         *)
LEMMA DeleteKeepsLookups ==
    ASSUME LookupsInv, NEW w \in WarehouseIds, DeleteWarehouse(w)
    PROVE  LookupsReach' /\ IdsIssued'
<1> USE WarehousesAssumption, IdsAreNumbers
<1> DEFINE c == warehouses[w].code
<1>1. /\ w \in Live /\ deleted' = TRUE
      /\ default' = default /\ chosen' = chosen /\ issued' = issued
      /\ codes' = [codes EXCEPT ![c] = 0]
      /\ warehouses' = [warehouses EXCEPT ![w] = NoWarehouse]
    BY DEF DeleteWarehouse, CodesWithout
<1>2. c \in Codes /\ codes[c] = w
    BY <1>1, LiveIsRecord DEF LookupsInv, Warehouse, LookupsReach
<1>3. /\ codes'[c] = 0 /\ \A d \in Codes \ {c} : codes'[d] = codes[d]
      /\ warehouses'[w] = NoWarehouse
      /\ \A u \in WarehouseIds \ {w} : warehouses'[u] = warehouses[u]
    BY <1>1, <1>2 DEF LookupsInv, TypeOKWarehouses
<1>4. Live' = Live \ {w}
    BY <1>3 DEF Live
<1>5. \A u \in Live : warehouses[u].code \in Codes
    BY LiveIsRecord DEF LookupsInv, Warehouse
<1> HIDE DEF c
<1>6. ASSUME NEW u \in Live' PROVE codes'[warehouses'[u].code] = u
    <2>1. u \in Live /\ u # w /\ warehouses'[u] = warehouses[u]
        BY <1>3, <1>4
    <2>2. codes[warehouses[u].code] = u
        BY <2>1 DEF LookupsInv, LookupsReach
    <2>3. warehouses[u].code # c
        BY <1>2, <2>1, <2>2
    <2> QED
        BY <1>3, <1>5, <2>1, <2>2, <2>3
<1>7. ASSUME NEW d \in Codes, codes'[d] # 0, issued'[codes'[d]] < 2
      PROVE  codes'[d] \in Live' /\ warehouses'[codes'[d]].code = d
    <2>1. d # c /\ codes'[d] = codes[d] /\ codes[d] # 0
        BY <1>3, <1>7
    <2>2. codes[d] \in Live /\ warehouses[codes[d]].code = d
        BY <1>1, <1>7, <2>1 DEF LookupsInv, LookupsReach
    <2>3. codes[d] # w
        BY <2>1, <2>2 DEF c
    <2> QED
        BY <1>3, <1>4, <2>1, <2>2, <2>3
<1>8. default' \in Live' /\ issued'[default'] < 2 => warehouses'[default'].code = chosen'
    BY <1>1, <1>3, <1>4 DEF LookupsInv, LookupsReach
<1>9. IdsIssued'
    BY <1>1, <1>4 DEF LookupsInv, IdsIssued
<1> QED
    BY <1>1, <1>6, <1>7, <1>8, <1>9 DEF LookupsReach

(* An action that changes neither a code nor which warehouses there are.    *)
LEMMA SameCodesKeepLookups ==
    ASSUME LookupsInv, Live' = Live, UNCHANGED registry,
           \A w \in Live : warehouses'[w].code = warehouses[w].code
    PROVE  LookupsReach' /\ IdsIssued'
    BY DEF LookupsInv, LookupsReach, IdsIssued, registry

(* Stock that is reserved, released or set moves no warehouse.              *)
LEMMA BookKeepsLookups ==
    ASSUME LookupsInv,
           NEW w \in WarehouseIds, NEW p \in Products, NEW q \in Quantities,
           \/ ReserveStock(w, p, q) \/ ReleaseStock(w, p, q)
           \/ ConfirmDeduction(w, p, q) \/ AdjustInventory(w, p, q)
    PROVE  LookupsReach' /\ IdsIssued'
<1> q \in Int /\ -q \in Int
    BY WarehousesAssumption
<1>1. /\ w \in Live
      /\ \E d, e \in {0, q, -q} : Book(w, p, d, e)
    BY DEF ReserveStock, ReleaseStock, ConfirmDeduction, AdjustInventory
<1>2. PICK d \in {0, q, -q}, e \in {0, q, -q} : Book(w, p, d, e)
    BY <1>1
<1>3. Live' = Live /\ \A u \in Live : warehouses'[u].code = warehouses[u].code
    BY <1>1, <1>2, BookChanges DEF LookupsInv
<1> QED
    BY <1>2, <1>3, SameCodesKeepLookups DEF Book

(* Nor does a transfer of stock.                                            *)
LEMMA TransferKeepsLookups ==
    ASSUME LookupsInv, NEW from \in WarehouseIds, NEW to \in WarehouseIds,
           NEW p \in Products, NEW q \in Quantities, TransferStock(from, to, p, q)
    PROVE  LookupsReach' /\ IdsIssued'
<1>1. from \in Live /\ to \in Live /\ UNCHANGED registry
    BY DEF TransferStock
<1>2. CASE from = to
    BY <1>1, <1>2, SameCodesKeepLookups DEF TransferStock, Live
<1>3. CASE from # to
    <2>1. warehouses[from] \in Warehouse /\ warehouses[to] \in Warehouse
        BY <1>1, LiveIsRecord DEF LookupsInv
    <2> DEFINE giver == [warehouses[from] EXCEPT
                          !.stock = [warehouses[from].stock EXCEPT ![p] = @ - q]]
               taker == [warehouses[to] EXCEPT
                          !.stock = [warehouses[to].stock EXCEPT ![p] = @ + q]]
    <2>2. warehouses' = [warehouses EXCEPT ![from] = giver, ![to] = taker]
        BY <1>3, <2>1 DEF TransferStock, LookupsInv, TypeOKWarehouses, Warehouse
    <2>3. giver.code = warehouses[from].code /\ taker.code = warehouses[to].code
        BY <2>1 DEF Warehouse
    <2>4. giver \in Warehouse /\ taker \in Warehouse
        BY <2>1 DEF TransferStock, Warehouse
    <2>5. giver # NoWarehouse /\ taker # NoWarehouse
        BY <2>4, WarehousesAssumption
    <2> HIDE DEF giver, taker
    <2>6. /\ warehouses'[from] = giver /\ warehouses'[to] = taker
          /\ \A u \in WarehouseIds : u # from /\ u # to => warehouses'[u] = warehouses[u]
        BY <1>3, <2>2 DEF LookupsInv, TypeOKWarehouses
    <2>7. Live' = Live
        BY <1>1, <2>5, <2>6 DEF Live
    <2>8. \A u \in Live : warehouses'[u].code = warehouses[u].code
        BY <2>3, <2>6 DEF Live
    <2> QED
        BY <1>1, <2>7, <2>8, SameCodesKeepLookups
<1> QED
    BY <1>2, <1>3

(* Every operation of the manager keeps the lookups.                        *)
LEMMA NextKeepsLookups ==
    ASSUME LookupsInv, NextWarehouses
    PROVE  LookupsReach' /\ IdsIssued'
<1> USE WarehousesAssumption
<1>1. ASSUME NEW w \in WarehouseIds, NEW a \in BOOLEAN, SetActive(w, a)
      PROVE  LookupsReach' /\ IdsIssued'
    <2> DEFINE new == [warehouses[w] EXCEPT !.active = a]
    <2>1. warehouses[w] \in Warehouse
        BY <1>1, LiveIsRecord DEF SetActive, LookupsInv
    <2>2. new \in Warehouse /\ new.code = warehouses[w].code
        BY <2>1 DEF Warehouse
    <2>3. warehouses' = [warehouses EXCEPT ![w] = new] /\ UNCHANGED registry
        BY <1>1 DEF SetActive, LookupsInv, TypeOKWarehouses
    <2> HIDE DEF new
    <2>4. Live' = Live /\ \A u \in Live : warehouses'[u].code = warehouses[u].code
        BY <1>1, <2>2, <2>3 DEF SetActive, Live, LookupsInv, TypeOKWarehouses
    <2> QED
        BY <2>3, <2>4, SameCodesKeepLookups
<1>2. ASSUME NEW w \in WarehouseIds, SetDefault(w)
      PROVE  LookupsReach' /\ IdsIssued'
    <2>1. /\ w \in Live /\ default' = w /\ chosen' = warehouses[w].code
          /\ Live' = Live
          /\ UNCHANGED <<warehouses, codes, issued, deleted>>
        BY <1>2 DEF SetDefault, Live
    <2> QED
        BY <2>1 DEF LookupsInv, LookupsReach, IdsIssued
<1>3. CASE ShutdownWarehouses
    <2>1. /\ Live' = {} /\ deleted' /\ \A c \in Codes : codes'[c] = 0
          /\ UNCHANGED <<default, chosen, issued>>
        BY <1>3 DEF ShutdownWarehouses, Live
    <2> QED
        BY <2>1 DEF LookupsInv, LookupsReach, IdsIssued
<1> QED
    BY <1>1, <1>2, <1>3, CreateKeepsLookups, DeleteKeepsLookups, BookKeepsLookups,
       TransferKeepsLookups DEF NextWarehouses

(* A live warehouse is found by its code; codes and the default lead to the *)
(* warehouse they were given to, unless its id was given out twice, and     *)
(* without a deletion no id is: create_warehouse's size() + 1 is new then.  *)
THEOREM CodesAndDefaultReach == SpecWarehouses => []LookupsReach
<1>1. InitWarehouses => LookupsReach /\ IdsIssued
    <2> SUFFICES ASSUME InitWarehouses PROVE LookupsReach /\ IdsIssued
        OBVIOUS
    <2>1. Live = {}
        BY DEF InitWarehouses, Live
    <2>2. Live = 1..0
        BY <2>1
    <2> QED
        BY <2>1, <2>2 DEF InitWarehouses, LookupsReach, IdsIssued
<1>2. /\ TypeOKWarehouses /\ ReservedIsThere /\ LookupsReach /\ IdsIssued
      /\ [NextWarehouses]_warehouseVars
      => LookupsReach' /\ IdsIssued'
    <2>1. ASSUME TypeOKWarehouses, LookupsReach, IdsIssued, UNCHANGED warehouseVars
          PROVE  LookupsReach' /\ IdsIssued'
        BY <2>1 DEF warehouseVars, LookupsReach, IdsIssued, Live
    <2> QED
        BY <2>1, NextKeepsLookups DEF LookupsInv
<1>3. SpecWarehouses => [](TypeOKWarehouses /\ ReservedIsThere)
    BY StockCoversReservations
<1> QED
    BY <1>1, <1>2, <1>3, PTL DEF SpecWarehouses

-------------------------------------------------------------------------------
(* An order is a sequence of lines, finitely many. *)
LEMMA LinesAreNumbered ==
    ASSUME NEW lines \in Orders
    PROVE  /\ Len(lines) \in Nat /\ DOMAIN lines = 1..Len(lines)
           /\ IsFiniteSet(1..Len(lines))
           /\ Cardinality(1..Len(lines)) = Len(lines)
<1>1. lines \in Seq([product : Products, quantity : Int])
    BY OrdersAssumption
<1>2. Len(lines) \in Nat /\ DOMAIN lines = 1..Len(lines)
    <2> DEFINE Line == [product : Products, quantity : Int]
    <2> HIDE DEF Line
    <2>1. lines \in Seq(Line)
        BY <1>1 DEF Line
    <2> QED
        BY <2>1
<1>3. ASSUME NEW n \in Nat
      PROVE  IsFiniteSet(1..n) /\ Cardinality(1..n) = n
    <2>1. /\ IsFiniteSet(1..n)
          /\ Cardinality(1..n) = IF 1 > n THEN 0 ELSE n - 1 + 1
        BY FS_Interval
    <2> QED
        BY <2>1
<1> QED
    BY <1>2, <1>3

(* Each line orders a number of a product. *)
LEMMA LinesAreTyped ==
    ASSUME NEW lines \in Orders, NEW n \in 1..Len(lines)
    PROVE  lines[n].product \in Products /\ lines[n].quantity \in Int
<1> DEFINE Line == [product : Products, quantity : Int]
<1>1. \A line \in Line : line.product \in Products /\ line.quantity \in Int
    OBVIOUS
<1>2. lines \in Seq(Line)
    BY OrdersAssumption
<1> HIDE DEF Line
<1>3. lines[n] \in Line
    BY <1>2
<1> QED
    BY <1>1, <1>3

(* A warehouse serves no more lines than an order has, and each of them if  *)
(* it serves as many.                                                       *)
LEMMA LinesServedCounts ==
    ASSUME NEW lines \in Orders, NEW w
    PROVE  /\ LinesServed(w, lines) \in Nat
           /\ LinesServed(w, lines) <= Len(lines)
           /\ LinesServed(w, lines) = Len(lines) =>
                  \A n \in DOMAIN lines : Serves(w, lines[n])
<1> DEFINE served == {n \in DOMAIN lines : Serves(w, lines[n])}
           all == 1..Len(lines)
<1>1. /\ DOMAIN lines = all /\ IsFiniteSet(all) /\ Cardinality(all) = Len(lines)
    BY LinesAreNumbered
<1>2. served \in SUBSET all
    BY <1>1
<1>3. /\ IsFiniteSet(served) /\ Cardinality(served) <= Cardinality(all)
      /\ Cardinality(served) = Cardinality(all) => served = all
    <2> HIDE DEF served, all
    <2> QED
        BY <1>1, <1>2, FS_Subset
<1>4. Cardinality(served) \in Nat
    BY <1>3, FS_CardinalityType
<1>5. LinesServed(w, lines) = Cardinality(served)
    BY DEF LinesServed
<1>6. served = all => \A n \in DOMAIN lines : Serves(w, lines[n])
    BY <1>1
<1> HIDE DEF served, all
<1> QED
    BY <1>1, <1>3, <1>4, <1>5, <1>6

(* What an order has of a product, if no line has more of it than m.        *)
LEMMA OrderedBounded ==
    ASSUME NEW lines \in Orders, NEW p \in Products, NEW m \in Int,
           \A n \in LinesOf(lines, p) : lines[n].quantity <= m
    PROVE  Ordered(lines, p) <= Cardinality(LinesOf(lines, p)) * m
<1> DEFINE S == LinesOf(lines, p)
           f == [n \in S |-> lines[n].quantity]
<1>1. S \in SUBSET (1..Len(lines))
    BY LinesAreNumbered DEF LinesOf
<1>2. IsFiniteSet(S)
    BY <1>1, LinesAreNumbered, FS_Subset
<1>3. \A n \in S : lines[n].quantity \in Int
    BY <1>1, LinesAreTyped
<1>4. Ordered(lines, p) = SumFunctionOnSet(f, S)
    BY DEF Ordered, SumFunction
<1>5. \A n \in S : f[n] \in Int /\ f[n] <= m
    BY <1>3
<1>6. Cardinality(S) \in Nat
    BY <1>2, FS_CardinalityType
<1> HIDE DEF S, f
<1>7. SumFunctionOnSet(f, S) <= m * Cardinality(S)
    BY <1>2, <1>5, SumBounded
<1>8. m * Cardinality(S) = Cardinality(S) * m
    BY <1>6
<1>9. Ordered(lines, p) <= Cardinality(S) * m
    BY <1>4, <1>7, <1>8
<1> QED
    BY <1>9 DEF S

(* For all orders, codes, products and quantities: if one warehouse can     *)
(* serve every line of an order, so can the warehouse that allocate_order   *)
(* returns, as the one that serves most lines; it has the whole order if    *)
(* the lines are of different products, and of a product in several lines   *)
(* no less than its part of what they order.                                *)
THEOREM AllocationsCanBeReserved == SpecWarehouses => []AllocatedCanReserve
<1>1. TypeOKWarehouses => AllocatedCanReserve
    <2> SUFFICES ASSUME TypeOKWarehouses, NEW lines \in Orders, NEW w \in Live,
                        Allocates(lines, w), NEW u \in Live,
                        LinesServed(u, lines) = Len(lines), NEW p \in Products
                 PROVE  Ordered(lines, p)
                           <= Cardinality(LinesOf(lines, p)) * Available(w, p)
        BY DEF AllocatedCanReserve
    <2>1. Len(lines) <= LinesServed(w, lines)
        BY DEF Allocates
    <2>2. \A n \in DOMAIN lines : Serves(w, lines[n])
        BY <2>1, LinesServedCounts, LinesAreNumbered
    <2>3. \A n \in LinesOf(lines, p) : lines[n].quantity <= Available(w, p)
        <3> TAKE n \in LinesOf(lines, p)
        <3>1. n \in DOMAIN lines /\ lines[n].product = p
            BY DEF LinesOf
        <3>2. lines[n].quantity \in Int /\ Available(w, p) \in Int
            BY <3>1, LinesAreTyped, LinesAreNumbered, LiveIsRecord
        <3> QED
            BY <2>2, <3>1, <3>2 DEF Serves
    <2>4. Available(w, p) \in Int
        BY LiveIsRecord
    <2> QED
        BY <2>3, <2>4, OrderedBounded
<1>2. SpecWarehouses => []TypeOKWarehouses
    BY StockCoversReservations, PTL
<1> QED
    BY <1>1, <1>2, PTL

-------------------------------------------------------------------------------
(* Positions in a list.                                                     *)

(* Which of two rows is ahead: a strict order, in which no two are equal.   *)
LEMMA AheadOrders ==
    ASSUME NEW list
    PROVE  /\ Ids \subseteq Nat \ {0}
           /\ \A i \in Ids : ~Ahead(list, i, i)
           /\ \A i, j \in Ids : Ahead(list, i, j) \/ Ahead(list, j, i) \/ i = j
           /\ \A i, j \in Ids : Ahead(list, i, j) => ~Ahead(list, j, i)
           /\ \A i, j, k \in Ids : Ahead(list, i, j) /\ Ahead(list, j, k) => Ahead(list, i, k)
<1>1. Ids \subseteq Nat \ {0}
    BY CatalogAssumption DEF Ids
<1> QED
    BY <1>1 DEF Ahead

(* Any set of ids can be counted.                                           *)
LEMMA IdsFinite ==
    ASSUME NEW S \in SUBSET Ids
    PROVE  IsFiniteSet(S) /\ Cardinality(S) \in Nat /\ Cardinality(S) <= MaxId
<1>1. 1 \in Int /\ MaxId \in Int /\ MaxId \in Nat
    BY CatalogAssumption
<1>2. /\ IsFiniteSet(1..MaxId)
      /\ Cardinality(1..MaxId) = IF 1 > MaxId THEN 0 ELSE MaxId - 1 + 1
    BY <1>1, FS_Interval
<1>3. Cardinality(Ids) = MaxId /\ IsFiniteSet(Ids)
    BY <1>1, <1>2 DEF Ids
<1> QED
    BY <1>3, FS_Subset, FS_CardinalityType

(* The positions of n rows are the numbers from 1 to n, in the order of the *)
(* rows: those ahead of a row are fewer than those ahead of a later one.    *)
LEMMA PositionsOrder ==
    ASSUME NEW list, NEW S \in SUBSET Ids
    PROVE  /\ \A i \in S : Position(list, S, i) \in 1..Cardinality(S)
           /\ \A i, j \in S : Ahead(list, i, j) => Position(list, S, i) < Position(list, S, j)
           /\ \A i, j \in S : Position(list, S, i) = Position(list, S, j) => i = j
           /\ \A n \in 1..Cardinality(S) : \E i \in S : Position(list, S, i) = n
<1> DEFINE Prior(i) == {j \in S : Ahead(list, j, i)}
           P(i) == Position(list, S, i)
           c == Cardinality(S)
<1>1. IsFiniteSet(S) /\ c \in Nat
    BY IdsFinite
<1>2. \A i \in S : /\ Prior(i) \in SUBSET Ids
                   /\ IsFiniteSet(Prior(i)) /\ Cardinality(Prior(i)) \in Nat
                   /\ P(i) = Cardinality(Prior(i)) + 1
    BY IdsFinite DEF Position
<1>3. ASSUME NEW i \in S PROVE P(i) \in 1..c
    <2>1. i \in Ids /\ Prior(i) \subseteq S \ {i}
        BY AheadOrders
    <2>2. IsFiniteSet(S \ {i}) /\ Cardinality(S \ {i}) = c - 1
        BY <1>1, FS_RemoveElement
    <2>3. Cardinality(Prior(i)) <= Cardinality(S \ {i})
        <3> HIDE DEF Prior
        <3> QED
            BY <2>1, <2>2, FS_Subset
    <2> HIDE DEF P, c, Prior
    <2> QED
        BY <1>1, <1>2, <2>2, <2>3
<1>4. ASSUME NEW i \in S, NEW j \in S, Ahead(list, i, j) PROVE P(i) < P(j)
    <2>1. i \in Ids /\ j \in Ids /\ \A k \in S : k \in Ids
        OBVIOUS
    <2>2. Prior(i) \subseteq Prior(j)
        BY <1>4, <2>1, AheadOrders
    <2>3. i \in Prior(j) /\ i \notin Prior(i)
        BY <1>4, <2>1, AheadOrders
    <2>4. Prior(i) # Prior(j)
        BY <2>3
    <2>5. Cardinality(Prior(i)) < Cardinality(Prior(j))
        <3>1. IsFiniteSet(Prior(j)) /\ Cardinality(Prior(i)) \in Nat
              /\ Cardinality(Prior(j)) \in Nat
            BY <1>2
        <3> HIDE DEF Prior
        <3>2. /\ Cardinality(Prior(i)) <= Cardinality(Prior(j))
              /\ Cardinality(Prior(i)) = Cardinality(Prior(j)) => Prior(i) = Prior(j)
            BY <2>2, <3>1, FS_Subset
        <3> QED
            BY <2>4, <3>1, <3>2
    <2> HIDE DEF P, Prior
    <2> QED
        BY <1>2, <2>5
<1>5. ASSUME NEW i \in S, NEW j \in S, P(i) = P(j) PROVE i = j
    <2>1. P(i) \in Int /\ ~(P(i) < P(j)) /\ ~(P(j) < P(i))
        <3> HIDE DEF P
        <3> QED
            BY <1>1, <1>3, <1>5
    <2>2. ~Ahead(list, i, j) /\ ~Ahead(list, j, i)
        <3> HIDE DEF P
        <3> QED
            BY <1>4, <2>1
    <2>3. i \in Ids /\ j \in Ids
        OBVIOUS
    <2> QED
        BY <2>2, <2>3, AheadOrders
<1>6. \A n \in 1..c : \E i \in S : P(i) = n
    <2> DEFINE f == [i \in S |-> P(i)]
               N == 1..c
    <2>1. IsFiniteSet(N) /\ Cardinality(N) = c
        <3>1. 1 \in Int /\ c \in Int
            BY <1>1
        <3>2. IsFiniteSet(1..c) /\ Cardinality(1..c) = IF 1 > c THEN 0 ELSE c - 1 + 1
            <4> HIDE DEF c
            <4> QED
                BY <3>1, FS_Interval
        <3> QED
            BY <1>1, <3>2
    <2> HIDE DEF P
    <2>2. f \in [S -> N]
        BY <1>3
    <2>3. \A i, j \in S : f[i] = f[j] => i = j
        BY <1>5
    <2> HIDE DEF f
    <2>4. f \in Injection(S, N)
        BY <2>2, <2>3, Fun_IsInj
    <2>5. f \in Surjection(S, N)
        <3>1. Cardinality(S) = Cardinality(N)
            BY <2>1
        <3> HIDE DEF N, c
        <3> QED
            BY <1>1, <2>1, <2>4, <3>1, FS_Injection
    <2>6. \A n \in N : \E i \in S : f[i] = n
        BY <2>5 DEF Surjection
    <2> QED
        BY <2>6 DEF f
<1> QED
    BY <1>3, <1>4, <1>5, <1>6

(* A new row moves the rows behind it down by one.                          *)
LEMMA PositionWith ==
    ASSUME NEW list, NEW S \in SUBSET Ids, NEW x \in Ids \ S, NEW i \in S
    PROVE  Position(list, S \cup {x}, i) =
               Position(list, S, i) + (IF Ahead(list, x, i) THEN 1 ELSE 0)
<1> DEFINE Prior == {j \in S : Ahead(list, j, i)}
           More == {j \in S \cup {x} : Ahead(list, j, i)}
<1>1. Prior \in SUBSET Ids
    OBVIOUS
<1>2. IsFiniteSet(Prior) /\ Cardinality(Prior) \in Nat
    BY <1>1, IdsFinite
<1>3. /\ Position(list, S, i) = Cardinality(Prior) + 1
      /\ Position(list, S \cup {x}, i) = Cardinality(More) + 1
    BY DEF Position
<1>4. CASE Ahead(list, x, i)
    <2>1. More = Prior \cup {x} /\ x \notin Prior
        BY <1>4
    <2>2. Cardinality(More) = Cardinality(Prior) + 1
        <3> HIDE DEF More, Prior
        <3> QED
            BY <1>2, <2>1, FS_AddElement
    <2> QED
        BY <1>2, <1>4, <1>3, <2>2
<1>5. CASE ~Ahead(list, x, i)
    <2>1. More = Prior
        BY <1>5
    <2> HIDE DEF More, Prior
    <2> QED
        BY <1>2, <1>5, <1>3, <2>1
<1> QED
    BY <1>4, <1>5

(* A list has each row at its position and nothing else.                    *)
LEMMA ListingLists ==
    ASSUME NEW list, NEW S \in SUBSET Ids
    PROVE  /\ Listing(list, S) \in Seq(S)
           /\ Len(Listing(list, S)) = Cardinality(S)
           /\ \A n \in 1..Cardinality(S) :
                  /\ Listing(list, S)[n] \in S
                  /\ \A i \in S : Listing(list, S)[n] = i <=> Position(list, S, i) = n
<1> DEFINE c == Cardinality(S)
           l == Listing(list, S)
           P(i) == Position(list, S, i)
<1>1. c \in Nat
    BY IdsFinite
<1>2. l = [n \in 1..c |-> CHOOSE i \in S : P(i) = n]
    BY DEF Listing
<1>3. \A n \in 1..c : \E i \in S : P(i) = n
    BY PositionsOrder
<1>4. \A i, j \in S : P(i) = P(j) => i = j
    BY PositionsOrder
<1> HIDE DEF l, c, P
<1>5. \A n \in 1..c : l[n] \in S /\ P(l[n]) = n
    BY <1>2, <1>3
<1>6. l \in [1..c -> S]
    BY <1>2, <1>5
<1>7. l \in Seq(S) /\ Len(l) = c
    BY <1>1, <1>6
<1>8. \A n \in 1..c, i \in S : l[n] = i <=> P(i) = n
    BY <1>4, <1>5
<1> QED
    BY <1>5, <1>7, <1>8 DEF l, c, P

-------------------------------------------------------------------------------
(* What a walk has passed and what lies before it.                          *)

(* The kept rows that lie before position n and have not been seen.         *)
PassedOf(list, ids, kept, seen, n) ==
    {i \in kept : seen[i] = 0 /\ Position(list, ids, i) <= n}

(* The rows seen before that lie behind position n: they will come again.   *)
DueOf(list, ids, seen, n) == {i \in ids : seen[i] >= 1 /\ Position(list, ids, i) > n}

(* One more element at most makes a set larger by one at most.              *)
LEMMA OneMore ==
    ASSUME NEW A, NEW B, IsFiniteSet(B), \E e : A \subseteq B \cup {e}
    PROVE  IsFiniteSet(A) /\ Cardinality(A) <= Cardinality(B) + 1
<1>1. PICK e : A \subseteq B \cup {e}
    OBVIOUS
<1>2. /\ IsFiniteSet(B \cup {e})
      /\ Cardinality(B \cup {e}) \in {Cardinality(B), Cardinality(B) + 1}
    <2>1. CASE e \in B
        <3>1. B \cup {e} = B
            BY <2>1
        <3> QED
            BY <3>1
    <2>2. CASE e \notin B
        BY <2>2, FS_AddElement
    <2> QED
        BY <2>1, <2>2
<1>3. IsFiniteSet(A) /\ Cardinality(A) <= Cardinality(B \cup {e})
    BY <1>1, <1>2, FS_Subset
<1>4. Cardinality(A) \in Nat /\ Cardinality(B) \in Nat
    BY <1>3, FS_CardinalityType
<1> QED
    BY <1>2, <1>3, <1>4

(* What a row that comes in means: no kept row gets before position n, and  *)
(* one row seen gets behind it at most: the new one or the one at n.  A new *)
(* row that nobody has seen and that is the last moves none.                *)
LEMMA InsertMoves ==
    ASSUME NEW list, NEW S \in SUBSET Ids, NEW x \in Ids \ S, NEW kept \in SUBSET S,
           NEW seen \in [Ids -> Nat], NEW n \in Nat
    PROVE  /\ PassedOf(list, S \cup {x}, kept, seen, n) \subseteq PassedOf(list, S, kept, seen, n)
           /\ \E e : DueOf(list, S \cup {x}, seen, n) \subseteq DueOf(list, S, seen, n) \cup {e}
           /\ seen[x] = 0 /\ (\A i \in S : ~Ahead(list, x, i)) =>
                  DueOf(list, S \cup {x}, seen, n) \subseteq DueOf(list, S, seen, n)
<1> DEFINE T == S \cup {x}
           P(i) == Position(list, S, i)
           Q(i) == Position(list, T, i)
<1>1. \A i \in S : /\ Q(i) = P(i) + (IF Ahead(list, x, i) THEN 1 ELSE 0)
                   /\ P(i) \in Nat
    <2>1. \A i \in S : Q(i) = P(i) + (IF Ahead(list, x, i) THEN 1 ELSE 0)
        BY PositionWith
    <2>2. \A i \in S : P(i) \in 1..Cardinality(S)
        BY PositionsOrder
    <2> HIDE DEF P, Q
    <2> QED
        BY <2>1, <2>2
<1>2. \A i \in S : P(i) <= Q(i) /\ Q(i) <= P(i) + 1 /\ Q(i) \in Nat
    <2> HIDE DEF P, Q
    <2> QED
        BY <1>1
<1>3. PassedOf(list, T, kept, seen, n) \subseteq PassedOf(list, S, kept, seen, n)
    <2> SUFFICES ASSUME NEW i \in kept, Q(i) <= n PROVE P(i) <= n
        BY DEF PassedOf
    <2>1. i \in S
        OBVIOUS
    <2> HIDE DEF P, Q
    <2> QED
        BY <1>1, <1>2, <2>1
<1>4. \E e : DueOf(list, T, seen, n) \subseteq DueOf(list, S, seen, n) \cup {e}
    <2>1. CASE Q(x) > n
        <3>1. ASSUME NEW i \in S, seen[i] >= 1, Q(i) > n PROVE P(i) > n
            <4>1. CASE Ahead(list, x, i)
                <5>1. Q(x) < Q(i) /\ Q(x) \in Nat
                    <6>1. T \in SUBSET Ids /\ x \in T /\ i \in T
                        OBVIOUS
                    <6>2. Q(x) \in 1..Cardinality(T) /\ Cardinality(T) \in Nat
                        BY <6>1, PositionsOrder, IdsFinite
                    <6>3. Q(x) < Q(i)
                        BY <4>1, <6>1, PositionsOrder
                    <6> HIDE DEF Q, T
                    <6> QED
                        BY <6>2, <6>3
                <5>2. Q(i) = P(i) + 1
                    BY <1>1, <4>1
                <5> HIDE DEF P, Q
                <5> QED
                    BY <1>1, <2>1, <5>1, <5>2
            <4>2. CASE ~Ahead(list, x, i)
                <5>1. Q(i) = P(i)
                    BY <1>1, <4>2
                <5> HIDE DEF P, Q
                <5> QED
                    BY <3>1, <5>1
            <4> QED
                BY <4>1, <4>2
        <3>2. DueOf(list, T, seen, n) \subseteq DueOf(list, S, seen, n) \cup {x}
            BY <3>1 DEF DueOf
        <3> QED
            BY <3>2
    <2>2. CASE ~(Q(x) > n)
        <3> DEFINE e == CHOOSE i \in S : P(i) = n
        <3>1. ASSUME NEW i \in S, Q(i) > n, ~(P(i) > n) PROVE i = e
            <4>1. P(i) = n
                <5> HIDE DEF P, Q
                <5> QED
                    BY <1>1, <1>2, <3>1
            <4>2. \A j, k \in S : P(j) = P(k) => j = k
                BY PositionsOrder
            <4> HIDE DEF P
            <4> QED
                BY <4>1, <4>2
        <3> HIDE DEF e
        <3>2. DueOf(list, T, seen, n) \subseteq DueOf(list, S, seen, n) \cup {e}
            BY <2>2, <3>1 DEF DueOf
        <3> QED
            BY <3>2
    <2> QED
        BY <2>1, <2>2
<1>5. ASSUME seen[x] = 0, \A i \in S : ~Ahead(list, x, i)
      PROVE  DueOf(list, T, seen, n) \subseteq DueOf(list, S, seen, n)
    <2>1. \A i \in S : Q(i) = P(i)
        <3> HIDE DEF P, Q
        <3> QED
            BY <1>1, <1>5
    <2> QED
        BY <1>5, <2>1 DEF DueOf
<1> QED
    BY <1>3, <1>4, <1>5

(* What a row that goes means: one kept row gets before position n at most, *)
(* the next one, and none gets behind it.                                   *)
LEMMA RemoveMoves ==
    ASSUME NEW list, NEW S \in SUBSET Ids, NEW x \in S, NEW kept \in SUBSET S,
           NEW seen \in [Ids -> Nat], NEW n \in Nat
    PROVE  /\ \E e : PassedOf(list, S \ {x}, kept \ {x}, seen, n)
                         \subseteq PassedOf(list, S, kept, seen, n) \cup {e}
           /\ DueOf(list, S \ {x}, seen, n) \subseteq DueOf(list, S, seen, n)
<1> DEFINE T == S \ {x}
           P(i) == Position(list, T, i)
           Q(i) == Position(list, S, i)
<1>1. \A i \in T : /\ Q(i) = P(i) + (IF Ahead(list, x, i) THEN 1 ELSE 0)
                   /\ P(i) \in Nat
    <2>1. T \in SUBSET Ids /\ x \in Ids \ T /\ T \cup {x} = S
        OBVIOUS
    <2> HIDE DEF T
    <2>2. \A i \in T : Position(list, T \cup {x}, i) =
                           Position(list, T, i) + (IF Ahead(list, x, i) THEN 1 ELSE 0)
        BY <2>1, PositionWith
    <2>3. \A i \in T : Position(list, T, i) \in 1..Cardinality(T)
        BY <2>1, PositionsOrder
    <2>4. Cardinality(T) \in Nat
        BY <2>1, IdsFinite
    <2> QED
        BY <2>1, <2>2, <2>3, <2>4
<1>2. \A i \in T : P(i) <= Q(i) /\ Q(i) <= P(i) + 1 /\ Q(i) \in Nat
    <2> HIDE DEF P, Q
    <2> QED
        BY <1>1
<1>3. \E e : PassedOf(list, T, kept \ {x}, seen, n) \subseteq PassedOf(list, S, kept, seen, n) \cup {e}
    <2> DEFINE e == CHOOSE i \in T : P(i) = n
    <2>1. ASSUME NEW i \in T, P(i) <= n, ~(Q(i) <= n) PROVE i = e
        <3>1. P(i) = n
            <4> HIDE DEF P, Q
            <4> QED
                BY <1>1, <1>2, <2>1
        <3>2. \A j, k \in T : P(j) = P(k) => j = k
            BY PositionsOrder
        <3> HIDE DEF P
        <3> QED
            BY <3>1, <3>2
    <2>2. kept \ {x} \subseteq T
        OBVIOUS
    <2> HIDE DEF e
    <2>3. PassedOf(list, T, kept \ {x}, seen, n) \subseteq PassedOf(list, S, kept, seen, n) \cup {e}
        BY <2>1, <2>2 DEF PassedOf
    <2> QED
        BY <2>3
<1>4. DueOf(list, T, seen, n) \subseteq DueOf(list, S, seen, n)
    <2> SUFFICES ASSUME NEW i \in T, P(i) > n PROVE Q(i) > n
        BY DEF DueOf
    <2> HIDE DEF P, Q
    <2> QED
        BY <1>1, <1>2
<1> QED
    BY <1>3, <1>4

-------------------------------------------------------------------------------
(* Pages.                                                                   *)

(* The numbers of size_t.                                                   *)
LEMMA WrapKeeps ==
    /\ 2 ^ Width \in Nat /\ 2 * MaxId <= 2 ^ Width
    /\ \A n \in Nat : n < 2 ^ Width => Wrap(n) = n
    /\ \A n \in Nat : 2 ^ Width > 0 => Wrap(n) \in Nat
<1> DEFINE m == 2 ^ Width
<1>1. m \in Int /\ 2 * MaxId <= m
    BY CatalogAssumption
<1>2. \A n : Wrap(n) = n % m
    BY DEF Wrap
<1>3. MaxId \in Nat
    BY CatalogAssumption
<1> HIDE DEF m
<1>4. m \in Nat
    BY <1>1, <1>3
<1>5. \A n \in Nat : n < m => n % m = n
    BY <1>4
<1>6. \A n \in Nat : m > 0 => n % m \in Nat
    BY <1>4
<1>7. /\ m \in Nat /\ 2 * MaxId <= m
      /\ \A n \in Nat : n < m => Wrap(n) = n
      /\ \A n \in Nat : m > 0 => Wrap(n) \in Nat
    BY <1>1, <1>2, <1>4, <1>5, <1>6
<1> QED
    BY <1>7 DEF m

(* A page that starts within the list is the part of the list it stands     *)
(* for, and one that starts behind the end is empty: as a client asks for   *)
(* the page after one that was not empty, neither number has wrapped.       *)
LEMMA PageIs ==
    ASSUME NEW S, NEW rows \in Seq(S), Len(rows) <= MaxId,
           NEW page \in Nat, NEW size \in 1..(2 ^ Width - 1),
           page = 0 \/ (page - 1) * size < MaxId
    PROVE  /\ page * size \in Nat
           /\ page * size >= Len(rows) => Page(rows, page, size) = <<>>
           /\ page * size < Len(rows) =>
                  Page(rows, page, size) =
                      SubSeq(rows, page * size + 1, Least(page * size + size, Len(rows)))
<1> DEFINE m == 2 ^ Width
           start == page * size
           len == Len(rows)
<1>1. /\ m \in Nat /\ 2 * MaxId <= m
      /\ \A n \in Nat : n < m => Wrap(n) = n
      /\ \A n \in Nat : m > 0 => Wrap(n) \in Nat
    BY WrapKeeps
<1>2. size \in Nat /\ size >= 1 /\ size < m
    <2> HIDE DEF m
    <2>1. size \in 1..(m - 1)
        BY DEF m
    <2> QED
        BY <1>1, <2>1
<1>3. MaxId \in Nat /\ len \in Nat /\ len <= MaxId
    BY CatalogAssumption
<1>4. Page(rows, page, size) =
          SubSeq(rows, Wrap(start) + 1, Least(Wrap(Wrap(start) + size), len))
    BY DEF Page
<1>5. /\ start \in Nat
      /\ page # 0 => start = (page - 1) * size + size /\ size <= start
      /\ page # 0 /\ page # 1 => size <= (page - 1) * size
    <2>1. \A a, b \in Nat : a * b \in Nat
        OBVIOUS
    <2>2. start \in Nat
        BY <1>2, <2>1
    <2>3. start = (page - 1) * size + size
        BY <1>2
    <2>4. page # 0 => page - 1 \in Nat /\ (page - 1) * size \in Nat
        BY <1>2, <2>1
    <2>5. page # 0 /\ page # 1 => (page - 2) * size \in Nat
        <3>1. page # 0 /\ page # 1 => page - 2 \in Nat
            OBVIOUS
        <3> QED
            BY <1>2, <2>1, <3>1
    <2>6. (page - 1) * size = (page - 2) * size + size
        BY <1>2
    <2> HIDE DEF start
    <2> QED
        BY <1>2, <2>2, <2>3, <2>4, <2>5, <2>6
<1>6. start < m
    <2>1. CASE page = 0
        <3>1. start = 0
            BY <1>2, <2>1
        <3> HIDE DEF start, m
        <3> QED
            BY <1>1, <1>2, <3>1
    <2>2. CASE page = 1
        <3>1. start = size
            BY <1>2, <2>2
        <3> HIDE DEF start, m
        <3> QED
            BY <1>2, <3>1, Zenon
    <2>3. CASE page # 0 /\ page # 1
        <3> DEFINE q == (page - 1) * size
        <3>1. q < MaxId /\ size <= q /\ start = q + size /\ q \in Int
            BY <1>2, <1>5, <2>3
        <3> HIDE DEF q, start, m
        <3> QED
            BY <1>1, <1>2, <1>3, <3>1
    <2> QED
        BY <2>1, <2>2, <2>3
<1> HIDE DEF m, start, len
<1>7. Wrap(start) = start
    BY <1>1, <1>5, <1>6
<1>8. ASSUME start >= len PROVE Page(rows, page, size) = <<>>
    <2> DEFINE w == Wrap(start + size)
    <2>1. w \in Nat
        BY <1>1, <1>2, <1>5
    <2> HIDE DEF w
    <2>2. Least(w, len) \in Nat /\ Least(w, len) < start + 1
        BY <1>3, <1>5, <1>8, <2>1 DEF Least
    <2>3. \A a, b \in Nat : b < a => SubSeq(rows, a, b) = <<>>
        OBVIOUS
    <2>4. start + 1 \in Nat
        BY <1>5
    <2> QED
        BY <1>4, <1>7, <2>2, <2>3, <2>4 DEF w
<1>9. ASSUME start < len
      PROVE  Page(rows, page, size) = SubSeq(rows, start + 1, Least(start + size, len))
    <2>1. start + size < m \/ page = 0
        BY <1>1, <1>2, <1>3, <1>5, <1>9
    <2>2. start + size < m
        <3>1. page = 0 => start = 0
            BY <1>2 DEF start
        <3> QED
            BY <1>2, <2>1, <3>1
    <2>3. Wrap(start + size) = start + size
        BY <1>1, <1>2, <1>5, <2>2
    <2> QED
        BY <1>4, <1>7, <2>3
<1> QED
    BY <1>5, <1>8, <1>9 DEF start, len

(* A part of a sequence.                                                    *)
LEMMA PartIs ==
    ASSUME NEW S, NEW s \in Seq(S), NEW a \in Nat, NEW b \in Nat, a < b, b <= Len(s)
    PROVE  /\ SubSeq(s, a + 1, b) # <<>>
           /\ Len(SubSeq(s, a + 1, b)) = b - a
           /\ DOMAIN SubSeq(s, a + 1, b) = 1..(b - a)
           /\ \A k \in 1..(b - a) : SubSeq(s, a + 1, b)[k] = s[a + k]
<1>1. a + 1 \in 1..(Len(s) + 1) /\ b >= a + 1 - 1 /\ b - (a + 1) + 1 = b - a
    OBVIOUS
<1>2. \A k \in 1..(b - a) : (a + 1) + k - 1 = a + k
    OBVIOUS
<1>3. SubSeq(s, a + 1, b) \in Seq(S)
    OBVIOUS
<1>4. Len(SubSeq(s, a + 1, b)) = b - a
    BY <1>1
<1>5. \A k \in 1..(b - a) : SubSeq(s, a + 1, b)[k] = s[a + k]
    BY <1>1, <1>2
<1> QED
    BY <1>3, <1>4, <1>5

(* It shows the rows of these positions, each once, where P is the position *)
(* of each row in the whole.                                                *)
LEMMA PartShows ==
    ASSUME NEW S, NEW P, NEW c \in Nat, NEW l \in Seq(S), Len(l) = c,
           \A k \in 1..c : l[k] \in S /\ \A i \in S : l[k] = i <=> P[i] = k,
           \A i \in S : P[i] \in 1..c,
           NEW n \in Nat, NEW top \in Nat, n < top, top <= c
    PROVE  \A i : Times(SubSeq(l, n + 1, top), i) =
                      IF i \in S /\ n < P[i] /\ P[i] <= top THEN 1 ELSE 0
<1> DEFINE part == SubSeq(l, n + 1, top)
           d == top - n
<1>1. /\ DOMAIN part = 1..d
      /\ \A k \in 1..d : part[k] = l[n + k]
    BY PartIs
<1>2. d \in Nat /\ \A k \in 1..d : k \in Int /\ n + k \in 1..c
    OBVIOUS
<1> HIDE DEF part
<1>3. \A k \in 1..d : part[k] \in S
    BY <1>1, <1>2
<1>4. \A k \in 1..d, i \in S : part[k] = i <=> P[i] = n + k
    BY <1>1, <1>2
<1>5. ASSUME NEW i \in S, n < P[i], P[i] <= top
      PROVE  Cardinality({k \in DOMAIN part : part[k] = i}) = 1
    <2> DEFINE e == P[i] - n
    <2>1. P[i] \in Int /\ e \in 1..d /\ \A k \in Int : P[i] = n + k <=> k = e
        BY <1>5
    <2> HIDE DEF e, d
    <2>2. \A k \in 1..d : part[k] = i <=> k = e
        BY <1>2, <1>4, <2>1
    <2>3. {k \in DOMAIN part : part[k] = i} = {e}
        BY <1>1, <2>1, <2>2
    <2> QED
        BY <2>3, FS_Singleton
<1>6. ASSUME NEW i, ~(i \in S /\ n < P[i] /\ P[i] <= top)
      PROVE  Cardinality({k \in DOMAIN part : part[k] = i}) = 0
    <2>1. ASSUME NEW k \in 1..d, part[k] = i PROVE FALSE
        <3>1. i \in S
            BY <1>3, <2>1
        <3>2. P[i] = n + k
            BY <1>4, <2>1, <3>1
        <3> QED
            BY <1>6, <3>1, <3>2
    <2>2. {k \in DOMAIN part : part[k] = i} = {}
        BY <1>1, <2>1
    <2> QED
        BY <2>2, FS_EmptySet
<1> QED
    BY <1>5, <1>6 DEF part, Times

(* The rows of one page of a list, by their positions.                      *)
ShownOf(list, ids, n, size) ==
    {i \in ids : n < Position(list, ids, i) /\ Position(list, ids, i) <= n + size}

(* A page that starts within the list is not empty and shows each row       *)
(* behind position n, up to the size of a page, once.                       *)
LEMMA PageShows ==
    ASSUME NEW list, NEW S \in SUBSET Ids, NEW n \in Nat, NEW size \in Nat \ {0},
           n < Cardinality(S)
    PROVE  LET part == SubSeq(Listing(list, S), n + 1, Least(n + size, Cardinality(S)))
           IN  /\ part # <<>>
               /\ \A i : Times(part, i) =
                             IF i \in ShownOf(list, S, n, size) THEN 1 ELSE 0
<1> DEFINE c == Cardinality(S)
           l == Listing(list, S)
           P == [i \in S |-> Position(list, S, i)]
           top == Least(n + size, c)
<1>1. c \in Nat
    BY IdsFinite
<1>2. /\ l \in Seq(S) /\ Len(l) = c
      /\ \A k \in 1..c : l[k] \in S /\ \A i \in S : l[k] = i <=> P[i] = k
    BY ListingLists
<1>3. \A i \in S : P[i] \in 1..c
    BY PositionsOrder
<1>4. top \in Nat /\ n < top /\ top <= c /\ top <= n + size /\ (top = c \/ top = n + size)
    <2> HIDE DEF c
    <2>1. n < c
        BY DEF c
    <2> QED
        BY <1>1, <2>1 DEF Least
<1>5. \A i : i \in ShownOf(list, S, n, size) <=> i \in S /\ n < P[i] /\ P[i] <= top
    <2>1. \A i : i \in ShownOf(list, S, n, size) <=> i \in S /\ n < P[i] /\ P[i] <= n + size
        BY DEF ShownOf
    <2> HIDE DEF c, P, top
    <2>2. \A i \in S : P[i] <= n + size <=> P[i] <= top
        BY <1>1, <1>3, <1>4
    <2> QED
        BY <2>1, <2>2
<1> DEFINE part == SubSeq(l, n + 1, top)
<1> HIDE DEF c, l, P, top
<1>6. part # <<>>
    BY <1>2, <1>4, PartIs
<1>7. \A i : Times(part, i) =
                 IF i \in S /\ n < P[i] /\ P[i] <= top THEN 1 ELSE 0
    BY <1>1, <1>2, <1>3, <1>4, PartShows
<1> HIDE DEF part
<1>8. \A i : Times(part, i) =
                 IF i \in ShownOf(list, S, n, size) THEN 1 ELSE 0
    BY <1>5, <1>7
<1> QED
    BY <1>6, <1>8 DEF part, c, l, top

(* The rows shown again are counted by a natural number.                    *)
LEMMA AgainCounts ==
    ASSUME NEW seen \in [Ids -> Nat]
    PROVE  /\ SumFunctionOnSet(Again(seen), Ids) \in Nat
           /\ (\A i \in Ids : seen[i] = 0) => SumFunctionOnSet(Again(seen), Ids) = 0
<1> DEFINE f == Again(seen)
<1>1. IsFiniteSet(Ids)
    BY IdsFinite
<1>2. \A i \in Ids : f[i] \in Nat
    BY DEF Again
<1>3. ASSUME \A i \in Ids : seen[i] = 0 PROVE \A i \in Ids : f[i] = 0
    BY <1>3 DEF Again
<1> HIDE DEF f
<1>4. SumFunctionOnSet(f, Ids) \in Nat
    BY <1>1, <1>2, SumNat
<1>5. ASSUME \A i \in Ids : seen[i] = 0 PROVE SumFunctionOnSet(f, Ids) = 0
    BY <1>1, <1>3, <1>5, SumZeros
<1> QED
    BY <1>4, <1>5 DEF f

(* What has been seen when a page has been read.                            *)
SeenAfter(list, ids, seen, n, size) ==
    [i \in Ids |-> seen[i] + (IF i \in ShownOf(list, ids, n, size) THEN 1 ELSE 0)]

(* From one place in a walk to another the rows that it has shown again and *)
(* those that are due to be are as many.                                    *)
AsManyAgain(list, ids, seen, n, seen2, n2) ==
    SumFunctionOnSet(Again(seen2), Ids) + Cardinality(DueOf(list, ids, seen2, n2))
        = SumFunctionOnSet(Again(seen), Ids) + Cardinality(DueOf(list, ids, seen, n))

(* What reading a page means: no kept row is passed unseen, and the rows on *)
(* it that had been seen before are no longer due but shown again.          *)
LEMMA ReadMoves ==
    ASSUME NEW list, NEW S \in SUBSET Ids, NEW kept \in SUBSET S,
           NEW n \in Nat, NEW size \in Nat, NEW seen \in [Ids -> Nat],
           NEW seen2, seen2 = SeenAfter(list, S, seen, n, size)
    PROVE  /\ PassedOf(list, S, kept, seen2, n + size) \subseteq PassedOf(list, S, kept, seen, n)
           /\ AsManyAgain(list, S, seen, n, seen2, n + size)
<1>0. /\ seen2 \in [Ids -> Nat]
      /\ \A i \in Ids : seen2[i] = seen[i] + (IF i \in ShownOf(list, S, n, size) THEN 1 ELSE 0)
    BY DEF SeenAfter
<1> DEFINE shown == ShownOf(list, S, n, size)
           due == DueOf(list, S, seen, n)
           due2 == DueOf(list, S, seen2, n + size)
           P(i) == Position(list, S, i)
<1>1. \A i \in S : P(i) \in Nat /\ i \in Ids
    <2>1. \A i \in S : P(i) \in 1..Cardinality(S)
        BY PositionsOrder
    <2> HIDE DEF P
    <2> QED
        BY <2>1
<1>2. \A i : i \in shown <=> i \in S /\ n < P(i) /\ P(i) <= n + size
    BY DEF ShownOf
<1>3. \A i : i \in due <=> i \in S /\ seen[i] >= 1 /\ P(i) > n
    BY DEF DueOf
<1>4. \A i : i \in due2 <=> i \in S /\ seen2[i] >= 1 /\ P(i) > n + size
    BY DEF DueOf
<1>5. PassedOf(list, S, kept, seen2, n + size) \subseteq PassedOf(list, S, kept, seen, n)
    <2> SUFFICES ASSUME NEW i \in kept, seen2[i] = 0, P(i) <= n + size
                 PROVE  seen[i] = 0 /\ P(i) <= n
        BY DEF PassedOf
    <2>1. i \in S /\ i \in Ids
        OBVIOUS
    <2> HIDE DEF P, shown
    <2>2. i \notin shown /\ seen[i] = 0
        BY <1>0, <2>1 DEF shown
    <2> QED
        BY <1>1, <1>2, <2>1, <2>2
<1> HIDE DEF shown, due, due2, P
<1>6. \A i \in Ids : seen2[i] = seen[i] + (IF i \in shown THEN 1 ELSE 0)
    BY <1>0 DEF shown
<1>7. due2 = due \ shown
    <2>1. ASSUME NEW i \in S PROVE i \in due2 <=> i \in due /\ i \notin shown
        BY <1>0, <1>1, <1>2, <1>3, <1>4, <1>6
    <2>2. due2 \subseteq S /\ due \subseteq S
        BY <1>3, <1>4
    <2> QED
        BY <2>1, <2>2
<1>8. due \in SUBSET Ids /\ due2 \in SUBSET Ids
    BY <1>3, <1>4
<1>9. /\ IsFiniteSet(due) /\ Cardinality(due) \in Nat
      /\ IsFiniteSet(due \cap shown) /\ Cardinality(due \cap shown) \in Nat
      /\ Cardinality(due2) = Cardinality(due) - Cardinality(due \cap shown)
    <2>1. IsFiniteSet(due) /\ Cardinality(due) \in Nat
        BY <1>8, IdsFinite
    <2>2. due \cap shown \in SUBSET Ids
        BY <1>8
    <2>3. IsFiniteSet(due \cap shown) /\ Cardinality(due \cap shown) \in Nat
        BY <2>2, IdsFinite
    <2>4. Cardinality(due \ shown) = Cardinality(due) - Cardinality(due \cap shown)
        BY <2>1, FS_Difference
    <2> QED
        BY <1>7, <2>1, <2>3, <2>4
<1>10. SumFunctionOnSet(Again(seen2), Ids)
           = SumFunctionOnSet(Again(seen), Ids) + Cardinality(due \cap shown)
    <2> DEFINE f == Again(seen)
               g == Again(seen2)
               R == due \cap shown
    <2>1. R \in SUBSET Ids /\ IsFiniteSet(Ids)
        BY <1>8, IdsFinite
    <2>2. \A i \in Ids : i \in R <=> i \in shown /\ seen[i] >= 1
        BY <1>1, <1>2, <1>3
    <2>3. ASSUME NEW i \in Ids PROVE f[i] \in Int /\ g[i] = f[i] + (IF i \in R THEN 1 ELSE 0)
        <3>1. /\ f[i] = IF seen[i] > 1 THEN seen[i] - 1 ELSE 0
              /\ g[i] = IF seen2[i] > 1 THEN seen2[i] - 1 ELSE 0
            BY DEF Again
        <3>2. seen2[i] = seen[i] + (IF i \in shown THEN 1 ELSE 0) /\ seen[i] \in Nat
            BY <1>0, <1>6
        <3> HIDE DEF f, g, R
        <3> QED
            BY <2>2, <3>1, <3>2
    <2> HIDE DEF f, g, R
    <2>4. SumFunctionOnSet(g, Ids) = SumFunctionOnSet(f, Ids) + Cardinality(R)
        BY <2>1, <2>3, SumRaised
    <2> QED
        BY <2>4 DEF f, g, R
<1>11. SumFunctionOnSet(Again(seen), Ids) \in Nat
    BY AgainCounts
<1>12. SumFunctionOnSet(Again(seen2), Ids) + Cardinality(due2)
         = SumFunctionOnSet(Again(seen), Ids) + Cardinality(due)
    BY <1>9, <1>10, <1>11
<1>13. AsManyAgain(list, S, seen, n, seen2, n + size)
    BY <1>12 DEF AsManyAgain, due, due2
<1> QED
    BY <1>5, <1>13

-------------------------------------------------------------------------------
(* The invariant of the lists.                                              *)

(* A walk through a list, of any length.                                    *)
Walk == [list : Lists, page : Nat, size : Nat, seen : [Ids -> Nat], kept : SUBSET Ids,
         gained : Nat, lost : Nat, over : BOOLEAN]

(* The ids of live rows were issued, and the list shows live rows.          *)
TypeOKCatalog ==
    /\ nextId \in 1..(MaxId + 1)
    /\ live \subseteq 1..(nextId - 1)
    /\ matching \subseteq live
    /\ walk \in Walk

(* The rows on the pages read so far.                                       *)
RowsRead == walk.page * walk.size

(* Rows kept all the time that the walk has passed and not seen.            *)
Passed == PassedOf(walk.list, matching, walk.kept, walk.seen, RowsRead)

(* Rows seen that the walk has yet to reach, again.                         *)
Due == DueOf(walk.list, matching, walk.seen, RowsRead)

(* What a walk will miss and see again it has passed and is due.            *)
WalkCounts ==
    /\ walk.kept \subseteq matching
    /\ Cardinality(Passed) <= walk.lost
    /\ Repeats + Cardinality(Due) <= walk.gained

(* The inductive invariant: nobody has seen an id not yet issued, the pages *)
(* asked for do not overflow, and WalkFaithful as it is counted on the way. *)
CatalogInv ==
    /\ TypeOKCatalog
    /\ \A i \in Ids : i >= nextId => walk.seen[i] = 0
    /\ walk.size = 0 \/ walk.size < 2 ^ Width
    /\ walk.page = 0 \/ (walk.page - 1) * walk.size < MaxId
    /\ Walking => WalkCounts
    /\ WalkFaithful

(* The bound on ids is a number.                                            *)
LEMMA MaxIdNat == MaxId \in Nat
BY CatalogAssumption

(* Issuing ids: what was not issued yet was not before.                     *)
LEMMA IdsGrow ==
    ASSUME TypeOKCatalog, nextId' \in nextId..(MaxId + 1), live' \subseteq 1..(nextId' - 1),
           matching' \subseteq live'
    PROVE  /\ nextId' \in 1..(MaxId + 1)
           /\ \A i \in Ids : i >= nextId' => i >= nextId
           /\ matching' \in SUBSET Ids
<1>1. nextId \in Nat /\ nextId >= 1 /\ MaxId \in Nat
    BY MaxIdNat DEF TypeOKCatalog
<1>2. nextId' \in Nat /\ nextId <= nextId' /\ nextId' <= MaxId + 1
    BY <1>1
<1>3. \A m, n \in Nat : n <= m + 1 => 1..(n - 1) \subseteq 1..m
    OBVIOUS
<1>4. matching' \in SUBSET Ids
    <2>1. 1..(nextId' - 1) \subseteq Ids
        BY <1>1, <1>2, <1>3 DEF Ids
    <2> QED
        BY <2>1
<1> QED
    BY <1>1, <1>2, <1>4 DEF Ids

(* The rows, live and shown, are ids.                                       *)
LEMMA LiveAreIds ==
    ASSUME TypeOKCatalog
    PROVE  live \in SUBSET Ids /\ matching \in SUBSET Ids
BY CatalogAssumption DEF TypeOKCatalog, Ids

(* A walk that has just begun has seen, passed and missed nothing.          *)
LEMMA NoWalkIsClean ==
    ASSUME NEW list \in Lists
    PROVE  /\ NoWalk(list) \in Walk
           /\ NoWalk(list).seen = [i \in Ids |-> 0]
           /\ SumFunctionOnSet(Again([i \in Ids |-> 0]), Ids) = 0
<1>1. NoWalk(list) \in Walk
    BY DEF NoWalk, Walk
<1>2. NoWalk(list).seen = [i \in Ids |-> 0]
    BY DEF NoWalk
<1> DEFINE seen == [i \in Ids |-> 0]
<1>3. seen \in [Ids -> Nat] /\ \A i \in Ids : seen[i] = 0
    OBVIOUS
<1> HIDE DEF seen
<1>4. SumFunctionOnSet(Again(seen), Ids) = 0
    BY <1>3, AgainCounts
<1> QED
    BY <1>1, <1>2, <1>4 DEF seen

(* In the initial states there are no rows and no walk.                     *)
LEMMA InitCatalogInv == InitCatalog => CatalogInv
<1> SUFFICES ASSUME InitCatalog PROVE CatalogInv
    OBVIOUS
<1>1. PICK list \in Lists : walk = NoWalk(list)
    BY DEF InitCatalog
<1>2. /\ walk \in Walk /\ walk.page = 0 /\ walk.size = 0 /\ walk.gained = 0 /\ walk.lost = 0
      /\ ~walk.over /\ \A i \in Ids : walk.seen[i] = 0
    BY <1>1, NoWalkIsClean DEF NoWalk
<1>3. Repeats = 0
    BY <1>1, NoWalkIsClean DEF Repeats
<1>4. TypeOKCatalog
    BY <1>2, CatalogAssumption DEF TypeOKCatalog, InitCatalog
<1>5. ~Walking
    BY <1>2 DEF Walking
<1>6. WalkFaithful
    BY <1>2, <1>3 DEF WalkFaithful
<1> QED
    BY <1>2, <1>4, <1>5, <1>6 DEF CatalogInv

(* A change of the list that is counted as one in gain and gone.            *)
LEMMA CountingKeeps ==
    ASSUME CatalogInv,
           nextId' \in nextId..(MaxId + 1), live' \subseteq 1..(nextId' - 1),
           matching' \subseteq live',
           NEW gain \in Nat, NEW gone \in SUBSET Ids, Counting(gain, gone),
           Walking =>
               /\ walk.kept \ gone \subseteq matching'
               /\ Cardinality(PassedOf(walk.list, matching', walk.kept \ gone, walk.seen, RowsRead))
                      <= Cardinality(Passed) + Cardinality(gone)
               /\ Cardinality(DueOf(walk.list, matching', walk.seen, RowsRead))
                      <= Cardinality(Due) + gain
    PROVE  CatalogInv'
<1>1. /\ walk \in Walk /\ nextId' \in 1..(MaxId + 1) /\ matching' \in SUBSET Ids
      /\ \A i \in Ids : i >= nextId' => walk.seen[i] = 0
    <2>1. TypeOKCatalog /\ \A i \in Ids : i >= nextId => walk.seen[i] = 0
        BY DEF CatalogInv
    <2>2. walk \in Walk
        BY <2>1 DEF TypeOKCatalog
    <2> QED
        BY <2>1, <2>2, IdsGrow
<1>9. Cardinality(gone) \in Nat
    BY IdsFinite
<1>2. CASE ~Walking
    <2>1. walk' = walk
        BY <1>2 DEF Counting
    <2>2. TypeOKCatalog'
        BY <1>1, <2>1 DEF TypeOKCatalog
    <2>3. (\A i \in Ids : i >= nextId => walk.seen[i] = 0)'
        BY <1>1, <2>1
    <2>4. ~Walking' /\ WalkFaithful'
        BY <1>2, <2>1 DEF Walking, CatalogInv, WalkFaithful, Missed, Repeats
    <2> QED
        BY <2>1, <2>2, <2>3, <2>4 DEF CatalogInv
<1>3. CASE Walking
    <2>1. walk' = [walk EXCEPT !.gained = @ + gain, !.lost = @ + Cardinality(gone),
                               !.kept = @ \ gone]
        BY <1>3 DEF Counting
    <2>2. /\ walk' \in Walk
          /\ walk'.list = walk.list /\ walk'.page = walk.page /\ walk'.size = walk.size
          /\ walk'.seen = walk.seen /\ walk'.over = walk.over
          /\ walk'.gained = walk.gained + gain
          /\ walk'.lost = walk.lost + Cardinality(gone)
          /\ walk'.kept = walk.kept \ gone
        <3>1. /\ walk.gained + gain \in Nat /\ walk.lost + Cardinality(gone) \in Nat
              /\ walk.kept \ gone \in SUBSET Ids
            BY <1>1, <1>9 DEF Walk
        <3> QED
            BY <1>1, <2>1, <3>1, Zenon DEF Walk
    <2>3. /\ walk.gained \in Nat /\ walk.lost \in Nat /\ walk.seen \in [Ids -> Nat]
          /\ walk.kept \in SUBSET Ids /\ walk.list \in Lists
        BY <1>1 DEF Walk
    <2>4. TypeOKCatalog'
        BY <1>1, <2>2 DEF TypeOKCatalog
    <2>5. (\A i \in Ids : i >= nextId => walk.seen[i] = 0)'
        BY <1>1, <2>2
    <2>6. RowsRead' = RowsRead /\ Repeats' = Repeats /\ Repeats \in Nat
        BY <2>2, <2>3, AgainCounts DEF RowsRead, Repeats
    <2>7. /\ Passed' = PassedOf(walk.list, matching', walk.kept \ gone, walk.seen, RowsRead)
          /\ Due' = DueOf(walk.list, matching', walk.seen, RowsRead)
        BY <2>2, <2>6 DEF Passed, Due, PassedOf, DueOf
    <2>8. /\ Cardinality(Passed) \in Nat /\ Cardinality(Due) \in Nat
          /\ Cardinality(Passed') \in Nat /\ Cardinality(Due') \in Nat
        <3>1. Passed \in SUBSET Ids /\ Due \in SUBSET Ids
            BY <2>3, LiveAreIds DEF Passed, Due, PassedOf, DueOf, CatalogInv
        <3>2. Passed' \in SUBSET Ids /\ Due' \in SUBSET Ids
            BY <1>1, <2>3, <2>7 DEF PassedOf, DueOf
        <3> QED
            BY <3>1, <3>2, IdsFinite
    <2>9. WalkCounts'
        <3>1. WalkCounts
            BY <1>3 DEF CatalogInv
        <3>2. Cardinality(Passed') <= walk.lost + Cardinality(gone)
            BY <1>9, <1>3, <2>3, <2>7, <2>8, <3>1 DEF WalkCounts
        <3>3. Repeats + Cardinality(Due') <= walk.gained + gain
            BY <1>3, <2>3, <2>6, <2>7, <2>8, <3>1 DEF WalkCounts
        <3>4. walk.kept \ gone \subseteq matching'
            BY <1>3
        <3> QED
            BY <2>2, <2>6, <3>2, <3>3, <3>4 DEF WalkCounts
    <2>10. WalkFaithful'
        <3>1. ~walk'.over
            BY <1>3, <2>2 DEF Walking
        <3>2. Repeats' <= walk'.gained
            BY <2>2, <2>3, <2>6, <2>8, <2>9 DEF WalkCounts
        <3> QED
            BY <3>1, <3>2 DEF WalkFaithful
    <2> QED
        BY <2>2, <2>4, <2>5, <2>9, <2>10 DEF CatalogInv
<1> QED
    BY <1>2, <1>3

(* A smaller set of ids has no more elements.                               *)
LEMMA NoMore ==
    ASSUME NEW A, NEW B \in SUBSET Ids, A \subseteq B
    PROVE  Cardinality(A) \in Nat /\ Cardinality(B) \in Nat /\ Cardinality(A) <= Cardinality(B)
BY IdsFinite, FS_Subset

(* So are the rows passed and the rows due.                                 *)
LEMMA PartsAreIds ==
    ASSUME NEW list, NEW S \in SUBSET Ids, NEW kept \in SUBSET Ids, NEW seen, NEW n
    PROVE  PassedOf(list, S, kept, seen, n) \in SUBSET Ids /\ DueOf(list, S, seen, n) \in SUBSET Ids
BY DEF PassedOf, DueOf

(* What a walk in progress is.                                              *)
LEMMA WalkIs ==
    ASSUME CatalogInv
    PROVE  /\ TypeOKCatalog /\ matching \in SUBSET Ids
           /\ walk.seen \in [Ids -> Nat] /\ walk.kept \in SUBSET Ids /\ walk.list \in Lists
           /\ walk.page \in Nat /\ walk.size \in Nat /\ RowsRead \in Nat
           /\ Walking => walk.kept \in SUBSET matching
           /\ Passed \in SUBSET Ids /\ Due \in SUBSET Ids
           /\ Cardinality(Passed) \in Nat /\ Cardinality(Due) \in Nat
<1>1. TypeOKCatalog /\ walk \in Walk /\ matching \in SUBSET Ids
    BY LiveAreIds DEF CatalogInv, TypeOKCatalog
<1>2. /\ walk.seen \in [Ids -> Nat] /\ walk.kept \in SUBSET Ids /\ walk.list \in Lists
      /\ walk.page \in Nat /\ walk.size \in Nat
    BY <1>1 DEF Walk
<1>3. RowsRead \in Nat
    <2>1. \A a, b \in Nat : a * b \in Nat
        OBVIOUS
    <2> QED
        BY <1>2, <2>1 DEF RowsRead
<1>4. Walking => walk.kept \in SUBSET matching
    BY DEF CatalogInv, WalkCounts
<1>5. Passed \in SUBSET Ids /\ Due \in SUBSET Ids
    BY <1>1, <1>2, PartsAreIds DEF Passed, Due
<1> QED
    BY <1>1, <1>2, <1>3, <1>4, <1>5, IdsFinite

(* An id that comes into the list counts as one gained, or as none when it  *)
(* is new and comes last.                                                   *)
LEMMA InsertKeeps ==
    ASSUME CatalogInv, NEW x \in Ids \ matching, NEW gain \in Nat,
           \/ gain = 1
           \/ walk.seen[x] = 0 /\ \A i \in matching : ~Ahead(walk.list, x, i),
           Walking, NEW S, S = matching \cup {x}
    PROVE  /\ walk.kept \ {} \subseteq S
           /\ Cardinality(PassedOf(walk.list, S, walk.kept \ {}, walk.seen, RowsRead))
                  <= Cardinality(Passed) + Cardinality({})
           /\ Cardinality(DueOf(walk.list, S, walk.seen, RowsRead)) <= Cardinality(Due) + gain
<1> DEFINE A == PassedOf(walk.list, S, walk.kept, walk.seen, RowsRead)
           B == DueOf(walk.list, S, walk.seen, RowsRead)
<1>1. walk.kept \ {} = walk.kept /\ Cardinality({}) = 0
    BY FS_EmptySet
<1>2. /\ matching \in SUBSET Ids /\ walk.kept \in SUBSET matching /\ walk.seen \in [Ids -> Nat]
      /\ RowsRead \in Nat
      /\ Passed \in SUBSET Ids /\ Due \in SUBSET Ids
      /\ Cardinality(Passed) \in Nat /\ Cardinality(Due) \in Nat
    BY WalkIs
<1>3. /\ A \subseteq Passed
      /\ \E e : B \subseteq Due \cup {e}
      /\ walk.seen[x] = 0 /\ (\A i \in matching : ~Ahead(walk.list, x, i)) => B \subseteq Due
    BY <1>2, InsertMoves DEF Passed, Due
<1> HIDE DEF A, B
<1>4. Cardinality(A) <= Cardinality(Passed)
    BY <1>2, <1>3, NoMore
<1>5. Cardinality(B) <= Cardinality(Due) + gain
    <2>1. CASE gain = 1
        BY <1>2, <1>3, <2>1, OneMore, IdsFinite
    <2>2. CASE walk.seen[x] = 0 /\ \A i \in matching : ~Ahead(walk.list, x, i)
        <3>1. Cardinality(B) \in Nat /\ Cardinality(B) <= Cardinality(Due)
            BY <1>2, <1>3, <2>2, NoMore
        <3> QED
            BY <1>2, <3>1
    <2> QED
        BY <2>1, <2>2
<1> QED
    BY <1>1, <1>2, <1>4, <1>5 DEF A, B

(* Rows that go count as lost: one moves the next one up, and when all go   *)
(* nothing is left.                                                         *)
LEMMA RemoveKeeps ==
    ASSUME CatalogInv, Walking, NEW x \in matching
    PROVE  /\ walk.kept \ {x} \subseteq matching \ {x}
           /\ Cardinality(PassedOf(walk.list, matching \ {x}, walk.kept \ {x}, walk.seen, RowsRead))
                  <= Cardinality(Passed) + Cardinality({x})
           /\ Cardinality(DueOf(walk.list, matching \ {x}, walk.seen, RowsRead))
                  <= Cardinality(Due) + 0
<1> DEFINE A == PassedOf(walk.list, matching \ {x}, walk.kept \ {x}, walk.seen, RowsRead)
           B == DueOf(walk.list, matching \ {x}, walk.seen, RowsRead)
<1>1. Cardinality({x}) = 1
    BY FS_Singleton
<1>2. /\ matching \in SUBSET Ids /\ walk.kept \in SUBSET matching /\ walk.seen \in [Ids -> Nat]
      /\ RowsRead \in Nat
      /\ Passed \in SUBSET Ids /\ Due \in SUBSET Ids
      /\ Cardinality(Passed) \in Nat /\ Cardinality(Due) \in Nat
    BY WalkIs
<1>3. (\E e : A \subseteq Passed \cup {e}) /\ B \subseteq Due
    BY <1>2, RemoveMoves DEF Passed, Due
<1> HIDE DEF A, B
<1>4. Cardinality(A) <= Cardinality(Passed) + 1
    BY <1>2, <1>3, OneMore, IdsFinite
<1>5. Cardinality(B) <= Cardinality(Due)
    BY <1>2, <1>3, NoMore
<1>6. Cardinality(Due) + 0 = Cardinality(Due)
    BY <1>2
<1> QED
    BY <1>1, <1>2, <1>4, <1>5, <1>6 DEF A, B

(* When no row goes or comes in before others, nothing is passed or due     *)
(* anew.                                                                    *)
LEMMA UnchangedKeeps ==
    ASSUME CatalogInv, Walking
    PROVE  /\ walk.kept \ {} \subseteq matching
           /\ Cardinality(PassedOf(walk.list, matching, walk.kept \ {}, walk.seen, RowsRead))
                  <= Cardinality(Passed) + Cardinality({})
           /\ \A gain \in Nat : Cardinality(DueOf(walk.list, matching, walk.seen, RowsRead))
                  <= Cardinality(Due) + gain
<1>1. walk.kept \ {} = walk.kept /\ Cardinality({}) = 0
    BY FS_EmptySet
<1>2. walk.kept \in SUBSET matching /\ Cardinality(Passed) \in Nat /\ Cardinality(Due) \in Nat
    BY WalkIs
<1> QED
    BY <1>1, <1>2 DEF Passed, Due

(* add_product and create_order. *)
LEMMA AddRowKeeps ==
    ASSUME CatalogInv, NEW shown \in BOOLEAN, AddRow(shown)
    PROVE  CatalogInv'
<1> DEFINE gain == IF walk.list = "orders" THEN 1 ELSE 0
<1>1. /\ nextId <= MaxId /\ nextId' = nextId + 1
      /\ live' = live \cup {nextId}
      /\ matching' = IF shown THEN matching \cup {nextId} ELSE matching
      /\ Counting(gain, {})
    BY DEF AddRow, NewId
<1>2. /\ TypeOKCatalog /\ matching \in SUBSET Ids
    BY WalkIs
<1>3. /\ nextId \in Nat /\ nextId >= 1 /\ MaxId \in Nat /\ live \subseteq 1..(nextId - 1)
      /\ matching \subseteq live
    BY <1>2, MaxIdNat DEF TypeOKCatalog
<1>4. nextId \in Ids /\ nextId \notin live /\ \A i \in matching : i < nextId /\ i \in Nat
    BY <1>1, <1>3 DEF Ids
<1>5. nextId' \in nextId..(MaxId + 1) /\ live' \subseteq 1..(nextId' - 1) /\ matching' \subseteq live'
    <2>1. nextId' \in nextId..(MaxId + 1)
        BY <1>1, <1>3
    <2>2. \A n \in Nat : n >= 1 => 1..(n - 1) \subseteq 1..n /\ n \in 1..n
        OBVIOUS
    <2>3. live' \subseteq 1..(nextId' - 1)
        BY <1>1, <1>3, <2>2
    <2>4. matching' \subseteq live'
        BY <1>1, <1>3
    <2> QED
        BY <2>1, <2>3, <2>4
<1>6. gain \in Nat /\ (gain = 1 \/ walk.list # "orders")
    OBVIOUS
<1> HIDE DEF gain
<1>7. \/ gain = 1
      \/ walk.seen[nextId] = 0 /\ \A i \in matching : ~Ahead(walk.list, nextId, i)
    <2> SUFFICES ASSUME walk.list # "orders"
                 PROVE  walk.seen[nextId] = 0 /\ \A i \in matching : ~Ahead(walk.list, nextId, i)
        BY <1>6
    <2>1. walk.seen[nextId] = 0
        BY <1>3, <1>4 DEF CatalogInv
    <2>2. \A i \in matching : ~Ahead(walk.list, nextId, i)
        BY <1>3, <1>4 DEF Ahead
    <2> QED
        BY <2>1, <2>2
<1>8. Walking =>
          /\ walk.kept \ {} \subseteq matching'
          /\ Cardinality(PassedOf(walk.list, matching', walk.kept \ {}, walk.seen, RowsRead))
                 <= Cardinality(Passed) + Cardinality({})
          /\ Cardinality(DueOf(walk.list, matching', walk.seen, RowsRead)) <= Cardinality(Due) + gain
    <2>1. CASE shown
        <3>1. nextId \in Ids \ matching /\ matching' = matching \cup {nextId}
            BY <1>1, <1>3, <1>4, <2>1
        <3> QED
            BY <1>6, <1>7, <3>1, InsertKeeps
    <2>2. CASE ~shown
        BY <1>1, <1>6, <2>2, UnchangedKeeps
    <2> QED
        BY <2>1, <2>2
<1> QED
    BY <1>1, <1>5, <1>6, <1>8, CountingKeeps

(* remove_product and delete_order. *)
LEMMA RemoveRowKeeps ==
    ASSUME CatalogInv, NEW x \in Ids, RemoveRow(x)
    PROVE  CatalogInv'
<1> DEFINE gone == matching \cap {x}
<1>1. /\ live' = live \ {x} /\ matching' = matching \ {x} /\ nextId' = nextId
      /\ Counting(0, gone)
    BY DEF RemoveRow
<1>2. TypeOKCatalog /\ matching \in SUBSET Ids
    BY WalkIs
<1>3. nextId' \in nextId..(MaxId + 1) /\ live' \subseteq 1..(nextId' - 1) /\ matching' \subseteq live'
    <2>1. nextId \in Nat /\ nextId <= MaxId + 1
        BY <1>2, MaxIdNat DEF TypeOKCatalog
    <2>2. nextId' \in nextId..(MaxId + 1)
        BY <1>1, <2>1, MaxIdNat
    <2> QED
        BY <1>1, <1>2, <2>2 DEF TypeOKCatalog
<1>4. Walking =>
          /\ walk.kept \ gone \subseteq matching'
          /\ Cardinality(PassedOf(walk.list, matching', walk.kept \ gone, walk.seen, RowsRead))
                 <= Cardinality(Passed) + Cardinality(gone)
          /\ Cardinality(DueOf(walk.list, matching', walk.seen, RowsRead)) <= Cardinality(Due) + 0
    <2>1. CASE x \in matching
        <3>1. gone = {x}
            BY <2>1
        <3> HIDE DEF gone
        <3> QED
            BY <1>1, <2>1, <3>1, RemoveKeeps
    <2>2. CASE x \notin matching
        <3>1. gone = {} /\ matching' = matching /\ 0 \in Nat
            BY <1>1, <2>2
        <3> HIDE DEF gone
        <3> QED
            BY <3>1, UnchangedKeeps
    <2> QED
        BY <2>1, <2>2
<1>5. gone \in SUBSET Ids /\ 0 \in Nat
    OBVIOUS
<1> HIDE DEF gone
<1> QED
    BY <1>1, <1>3, <1>4, <1>5, CountingKeeps

(* update_product. *)
LEMMA UpdateRowKeeps ==
    ASSUME CatalogInv, NEW x \in Ids, UpdateRow(x)
    PROVE  CatalogInv'
<1>1. x \in live /\ live' = live /\ nextId' = nextId
    BY DEF UpdateRow
<1>2. TypeOKCatalog /\ matching \in SUBSET Ids
    BY WalkIs
<1>3. nextId' \in nextId..(MaxId + 1) /\ live' \subseteq 1..(nextId' - 1) /\ matching \subseteq live'
    <2>1. nextId \in Nat /\ nextId <= MaxId + 1
        BY <1>2, MaxIdNat DEF TypeOKCatalog
    <2>2. nextId' \in nextId..(MaxId + 1)
        BY <1>1, <2>1, MaxIdNat
    <2> QED
        BY <1>1, <1>2, <2>2 DEF TypeOKCatalog
<1>4. CASE x \in matching
    <2>1. matching' = matching \ {x} /\ Counting(0, {x})
        BY <1>4 DEF UpdateRow
    <2>2. {x} \in SUBSET Ids /\ 0 \in Nat /\ matching' \subseteq live'
        BY <1>3, <2>1
    <2>3. Walking =>
              /\ walk.kept \ {x} \subseteq matching'
              /\ Cardinality(PassedOf(walk.list, matching', walk.kept \ {x}, walk.seen, RowsRead))
                     <= Cardinality(Passed) + Cardinality({x})
              /\ Cardinality(DueOf(walk.list, matching', walk.seen, RowsRead)) <= Cardinality(Due) + 0
        BY <1>4, <2>1, RemoveKeeps
    <2> QED
        BY <1>3, <2>1, <2>2, <2>3, CountingKeeps
<1>5. CASE x \notin matching
    <2>1. matching' = matching \cup {x} /\ Counting(1, {})
        BY <1>5 DEF UpdateRow
    <2>2. {} \in SUBSET Ids /\ 1 \in Nat /\ matching' \subseteq live' /\ x \in Ids \ matching
        BY <1>1, <1>3, <1>5, <2>1
    <2>3. Walking =>
              /\ walk.kept \ {} \subseteq matching'
              /\ Cardinality(PassedOf(walk.list, matching', walk.kept \ {}, walk.seen, RowsRead))
                     <= Cardinality(Passed) + Cardinality({})
              /\ Cardinality(DueOf(walk.list, matching', walk.seen, RowsRead)) <= Cardinality(Due) + 1
        BY <2>1, <2>2, InsertKeeps
    <2> QED
        BY <1>3, <2>1, <2>2, <2>3, CountingKeeps
<1> QED
    BY <1>4, <1>5

(* ProductCatalog::shutdown. *)
LEMMA ClearKeeps ==
    ASSUME CatalogInv, Clear
    PROVE  CatalogInv'
<1>1. live' = {} /\ matching' = {} /\ nextId' = nextId /\ Counting(0, matching)
    BY DEF Clear
<1>2. TypeOKCatalog /\ matching \in SUBSET Ids
    BY WalkIs
<1>3. nextId' \in nextId..(MaxId + 1) /\ live' \subseteq 1..(nextId' - 1) /\ matching' \subseteq live'
    <2>1. nextId \in Nat /\ nextId <= MaxId + 1
        BY <1>2, MaxIdNat DEF TypeOKCatalog
    <2>2. nextId' \in nextId..(MaxId + 1)
        BY <1>1, <2>1, MaxIdNat
    <2> QED
        BY <1>1, <2>2
<1>4. ASSUME Walking
      PROVE  /\ walk.kept \ matching \subseteq matching'
             /\ Cardinality(PassedOf(walk.list, matching', walk.kept \ matching, walk.seen, RowsRead))
                    <= Cardinality(Passed) + Cardinality(matching)
             /\ Cardinality(DueOf(walk.list, matching', walk.seen, RowsRead)) <= Cardinality(Due) + 0
    <2>1. walk.kept \ matching = {}
        BY <1>4, WalkIs
    <2>2. /\ PassedOf(walk.list, matching', walk.kept \ matching, walk.seen, RowsRead) = {}
          /\ DueOf(walk.list, matching', walk.seen, RowsRead) = {}
        BY <1>1, <2>1 DEF PassedOf, DueOf
    <2>3. /\ Cardinality(Passed) \in Nat /\ Cardinality(Due) \in Nat /\ Cardinality(matching) \in Nat
          /\ Cardinality({}) = 0
        BY <1>2, WalkIs, IdsFinite, FS_EmptySet
    <2>4. /\ Cardinality({}) <= Cardinality(Passed) + Cardinality(matching)
          /\ Cardinality({}) <= Cardinality(Due) + 0
        BY <2>3
    <2> QED
        BY <2>1, <2>2, <2>4
<1>5. 0 \in Nat
    OBVIOUS
<1> QED
    BY <1>1, <1>2, <1>3, <1>4, <1>5, CountingKeeps

(* The first page is asked for. *)
LEMMA BeginKeeps ==
    ASSUME CatalogInv, NEW size \in Sizes, Begin(size)
    PROVE  CatalogInv'
<1> DEFINE list == walk.list
<1>1. /\ walk' = [NoWalk(list) EXCEPT !.size = size, !.kept = matching]
      /\ live' = live /\ matching' = matching /\ nextId' = nextId
    BY DEF Begin
<1>2. TypeOKCatalog /\ matching \in SUBSET Ids /\ list \in Lists
    BY WalkIs
<1>3. NoWalk(list) \in Walk
    BY <1>2, NoWalkIsClean
<1>4. size \in Nat /\ size < 2 ^ Width
    <2> DEFINE m == 2 ^ Width
    <2>1. m \in Nat /\ size \in 1..(m - 1)
        BY WrapKeeps, CatalogAssumption
    <2> HIDE DEF m
    <2>2. size \in Nat /\ size < m
        BY <2>1
    <2> QED
        BY <2>2 DEF m
<1>5. /\ walk'.list = list /\ walk'.page = 0 /\ walk'.size = size
      /\ walk'.seen = [i \in Ids |-> 0] /\ walk'.kept = matching
      /\ walk'.gained = 0 /\ walk'.lost = 0 /\ ~walk'.over
    BY <1>1 DEF NoWalk
<1>6. walk' \in Walk
    BY <1>1, <1>2, <1>3, <1>4, Zenon DEF Walk
<1>7. TypeOKCatalog'
    BY <1>1, <1>2, <1>6 DEF TypeOKCatalog
<1>8. Repeats' = 0
    BY <1>2, <1>5, NoWalkIsClean DEF Repeats
<1>9. RowsRead' = 0
    BY <1>4, <1>5 DEF RowsRead
<1>10. Passed' = {} /\ Due' = {}
    <2>1. Passed' = PassedOf(list, matching, matching, walk'.seen, 0)
        BY <1>1, <1>5, <1>9 DEF Passed, PassedOf
    <2>2. \A i \in matching : Position(list, matching, i) \in 1..Cardinality(matching)
        BY <1>2, PositionsOrder
    <2>3. \A i \in matching : ~(Position(list, matching, i) <= 0)
        BY <1>2, <2>2, IdsFinite
    <2>4. Due' = DueOf(list, matching, walk'.seen, 0)
        BY <1>1, <1>5, <1>9 DEF Due, DueOf
    <2>5. \A i \in matching : ~(walk'.seen[i] >= 1)
        BY <1>2, <1>5
    <2> QED
        BY <2>1, <2>3, <2>4, <2>5 DEF PassedOf, DueOf
<1>11. WalkCounts'
    BY <1>1, <1>5, <1>8, <1>10, FS_EmptySet DEF WalkCounts
<1>12. WalkFaithful'
    BY <1>5, <1>8 DEF WalkFaithful
<1>13. \A i \in Ids : walk'.seen[i] = 0
    BY <1>5
<1> QED
    BY <1>4, <1>5, <1>7, <1>11, <1>12, <1>13 DEF CatalogInv

(* A page is read. *)
LEMMA ReadKeeps ==
    ASSUME CatalogInv, Read
    PROVE  CatalogInv'
<1> DEFINE n == RowsRead
           size == walk.size
           c == Cardinality(matching)
           page == Page(Rows, walk.page, size)
<1>1. /\ TypeOKCatalog /\ matching \in SUBSET Ids
      /\ walk.seen \in [Ids -> Nat] /\ walk.kept \in SUBSET Ids /\ walk.list \in Lists
      /\ walk.page \in Nat /\ size \in Nat /\ n \in Nat
      /\ walk.kept \in SUBSET matching
      /\ Passed \in SUBSET Ids /\ Due \in SUBSET Ids
      /\ Walking /\ walk \in Walk /\ WalkCounts
    BY WalkIs DEF Read, CatalogInv, TypeOKCatalog
<1>2. /\ size > 0 /\ ~walk.over /\ size \in 1..(2 ^ Width - 1)
      /\ walk.page = 0 \/ (walk.page - 1) * size < MaxId
    <2> DEFINE m == 2 ^ Width
    <2>1. size > 0 /\ ~walk.over /\ size < m
        BY <1>1 DEF Walking, CatalogInv
    <2>2. m \in Nat
        BY WrapKeeps
    <2> HIDE DEF m
    <2>3. size \in 1..(m - 1)
        BY <1>1, <2>1, <2>2
    <2> QED
        BY <2>1, <2>3 DEF m, CatalogInv
<1>3. /\ Rows \in Seq(matching) /\ Len(Rows) = c /\ c \in Nat /\ c <= MaxId
    BY <1>1, ListingLists, IdsFinite DEF Rows
<1>4. /\ n = walk.page * size
      /\ n >= c => page = <<>>
      /\ n < c => page = SubSeq(Rows, n + 1, Least(n + size, c))
    <2>1. /\ walk.page * size >= Len(Rows) => page = <<>>
          /\ walk.page * size < Len(Rows) =>
                 page = SubSeq(Rows, walk.page * size + 1, Least(walk.page * size + size, Len(Rows)))
        BY <1>1, <1>2, <1>3, PageIs
    <2> QED
        BY <1>3, <2>1 DEF RowsRead
<1>5. ASSUME n < c
      PROVE  /\ page # <<>>
             /\ \A i : Times(page, i) =
                           IF i \in ShownOf(walk.list, matching, n, size) THEN 1 ELSE 0
    <2> DEFINE part == SubSeq(Listing(walk.list, matching), n + 1, Least(n + size, c))
    <2>1. size \in Nat \ {0} /\ n \in Nat /\ matching \in SUBSET Ids
        BY <1>1, <1>2
    <2>2. /\ part # <<>>
          /\ \A i : Times(part, i) =
                        IF i \in ShownOf(walk.list, matching, n, size) THEN 1 ELSE 0
        <3> HIDE DEF n, size
        <3> QED
            BY <1>5, <2>1, PageShows
    <2>3. page = part
        BY <1>4, <1>5 DEF Rows
    <2> HIDE DEF part, page
    <2> QED
        BY <2>2, <2>3
<1>6. /\ live' = live /\ matching' = matching /\ nextId' = nextId
      /\ walk' = IF page = <<>>
                 THEN [walk EXCEPT !.over = TRUE]
                 ELSE [walk EXCEPT !.page = @ + 1,
                                   !.seen = [i \in Ids |-> @[i] + Times(page, i)]]
    BY DEF Read
<1>7. Repeats \in Nat
    BY <1>1, AgainCounts DEF Repeats
<1> HIDE DEF page
<1>8. CASE page = <<>>
    <2>1. /\ walk' \in Walk /\ walk'.over = TRUE /\ walk'.seen = walk.seen
          /\ walk'.kept = walk.kept /\ walk'.lost = walk.lost /\ walk'.gained = walk.gained
          /\ walk'.page = walk.page /\ walk'.size = walk.size
        BY <1>1, <1>6, <1>8 DEF Walk
    <2>2. TypeOKCatalog'
        BY <1>1, <1>6, <2>1 DEF TypeOKCatalog
    <2>3. ~(n < c)
        BY <1>8, <1>5
    <2>4. Missed = Passed
        <3>1. \A i \in matching : Position(walk.list, matching, i) \in 1..c
            BY <1>1, PositionsOrder
        <3>2. \A i \in walk.kept : Position(walk.list, matching, i) <= n
            <4> TAKE i \in walk.kept
            <4> DEFINE q == Position(walk.list, matching, i)
            <4>1. q \in 1..c
                BY <1>1, <3>1
            <4> HIDE DEF n, c, q
            <4>2. q <= n
                BY <1>1, <1>3, <2>3, <4>1
            <4> QED
                BY <4>2 DEF q, n
        <3> QED
            BY <3>2 DEF Missed, Passed, PassedOf
    <2>5. WalkFaithful'
        <3>1. Missed' = Missed /\ Repeats' = Repeats
            BY <2>1 DEF Missed, Repeats
        <3>2. Cardinality(Missed) <= walk.lost
            BY <1>1, <2>4 DEF WalkCounts
        <3>3. Repeats <= walk.gained
            BY DEF CatalogInv, WalkFaithful
        <3> QED
            BY <2>1, <3>1, <3>2, <3>3 DEF WalkFaithful
    <2>6. ~Walking'
        BY <2>1 DEF Walking
    <2> QED
        BY <1>6, <2>1, <2>2, <2>5, <2>6 DEF CatalogInv
<1>9. CASE page # <<>>
    <2> DEFINE seen2 == [i \in Ids |-> walk.seen[i] + Times(page, i)]
    <2>1. n < c
        BY <1>1, <1>3, <1>4, <1>9
    <2>2. \A i : Times(page, i) = IF i \in ShownOf(walk.list, matching, n, size) THEN 1 ELSE 0
        BY <1>5, <2>1
    <2>3. /\ seen2 \in [Ids -> Nat]
          /\ \A i \in Ids : seen2[i] = walk.seen[i]
                 + (IF i \in ShownOf(walk.list, matching, n, size) THEN 1 ELSE 0)
        BY <1>1, <2>2
    <2>4. walk' = [walk EXCEPT !.page = walk.page + 1, !.seen = seen2]
        BY <1>1, <1>6, <1>9 DEF Walk
    <2> HIDE DEF seen2
    <2>5. walk.page + 1 \in Nat
        BY <1>1
    <2>6. /\ walk' \in Walk /\ walk'.page = walk.page + 1 /\ walk'.seen = seen2
          /\ walk'.list = walk.list /\ walk'.size = size /\ walk'.kept = walk.kept
          /\ walk'.gained = walk.gained /\ walk'.lost = walk.lost /\ walk'.over = walk.over
        BY <1>1, <2>3, <2>4, <2>5, Zenon DEF Walk
    <2>7. TypeOKCatalog'
        BY <1>1, <1>6, <2>6 DEF TypeOKCatalog
    <2>8. \A i \in Ids : i >= nextId' => walk'.seen[i] = 0
        <3> SUFFICES ASSUME NEW i \in Ids, i >= nextId PROVE seen2[i] = 0
            BY <1>6, <2>6
        <3>1. walk.seen[i] = 0
            BY DEF CatalogInv
        <3>2. i \notin matching
            BY <1>1, MaxIdNat DEF TypeOKCatalog, Ids
        <3> QED
            BY <2>3, <3>1, <3>2 DEF ShownOf
    <2>9. RowsRead' = n + size
        <3>1. (walk.page + 1) * size = walk.page * size + size
            BY <1>1
        <3> QED
            BY <1>4, <2>6, <3>1 DEF RowsRead
    <2>10. (walk'.page - 1) * walk'.size < MaxId
        <3>1. walk'.page - 1 = walk.page
            BY <1>1, <2>6
        <3>2. (walk'.page - 1) * walk'.size = n
            BY <1>4, <2>6, <3>1
        <3> HIDE DEF n, c
        <3> QED
            BY <1>1, <1>3, <2>1, <3>2, MaxIdNat
    <2>11. /\ Passed' = PassedOf(walk.list, matching, walk.kept, seen2, n + size)
           /\ Due' = DueOf(walk.list, matching, seen2, n + size)
           /\ Repeats' = SumFunctionOnSet(Again(seen2), Ids)
        BY <1>6, <2>6, <2>9 DEF Passed, Due, PassedOf, DueOf, Repeats
    <2>12. seen2 = SeenAfter(walk.list, matching, walk.seen, n, size)
        BY <2>3 DEF SeenAfter
    <2>13. /\ Passed' \subseteq Passed
           /\ Repeats' + Cardinality(Due') = Repeats + Cardinality(Due)
        <3>1. /\ PassedOf(walk.list, matching, walk.kept, seen2, n + size)
                     \subseteq PassedOf(walk.list, matching, walk.kept, walk.seen, n)
              /\ AsManyAgain(walk.list, matching, walk.seen, n, seen2, n + size)
            <4>1. /\ matching \in SUBSET Ids /\ walk.kept \in SUBSET matching
                  /\ n \in Nat /\ size \in Nat /\ walk.seen \in [Ids -> Nat]
                BY <1>1
            <4> HIDE DEF n, size
            <4> QED
                BY <2>12, <4>1, ReadMoves
        <3> QED
            BY <2>11, <3>1 DEF Passed, Due, Repeats, AsManyAgain
    <2>14. Cardinality(Passed') \in Nat /\ Cardinality(Passed) \in Nat
           /\ Cardinality(Passed') <= Cardinality(Passed)
        BY <1>1, <2>13, NoMore
    <2>15. WalkCounts'
        <3>1. Cardinality(Passed') <= walk.lost
            <4>1. walk.lost \in Nat /\ Cardinality(Passed) <= walk.lost
                BY <1>1 DEF Walk, WalkCounts
            <4> QED
                BY <2>14, <4>1
        <3> QED
            BY <1>1, <1>6, <2>6, <2>13, <3>1 DEF WalkCounts
    <2>16. WalkFaithful'
        <3>1. Repeats' \in Nat
            BY <2>3, <2>11, AgainCounts
        <3>2. Cardinality(Due') \in Nat
            BY <1>1, <2>11, PartsAreIds, IdsFinite
        <3>3. walk.gained \in Nat
            BY <1>1 DEF Walk
        <3>4. Repeats' <= walk'.gained
            BY <2>6, <2>15, <3>1, <3>2, <3>3 DEF WalkCounts
        <3> QED
            BY <1>2, <2>6, <3>4 DEF WalkFaithful
    <2> QED
        BY <1>2, <2>6, <2>7, <2>8, <2>10, <2>15, <2>16 DEF CatalogInv
<1> QED
    BY <1>8, <1>9

(* Every change of a list and every page read keeps the invariant.          *)
LEMMA NextCatalogKeeps ==
    CatalogInv /\ [NextCatalog]_catalogVars => CatalogInv'
<1> SUFFICES ASSUME CatalogInv, [NextCatalog]_catalogVars PROVE CatalogInv'
    OBVIOUS
<1>1. CASE UNCHANGED catalogVars
    BY <1>1 DEF catalogVars, CatalogInv, TypeOKCatalog, Walking, WalkCounts, WalkFaithful,
                Missed, Repeats, Passed, Due, RowsRead, PassedOf, DueOf
<1> QED
    BY <1>1, AddRowKeeps, RemoveRowKeeps, UpdateRowKeeps, ClearKeeps, BeginKeeps, ReadKeeps
       DEF NextCatalog

(* The inductive invariant of the lists and of the walk through one.        *)
THEOREM CatalogCorrect == SpecCatalog => []CatalogInv
<1> QED
    BY InitCatalogInv, NextCatalogKeeps, PTL DEF SpecCatalog

(* Whatever changes between the pages, for any page size and any number of  *)
(* rows: list_products and get_user_orders hide no more rows from a client  *)
(* than were lost meanwhile, and show no more again than came in.           *)
THEOREM WalksAreFaithful == SpecCatalog => []WalkFaithful
<1>1. CatalogInv => WalkFaithful
    BY DEF CatalogInv
<1> QED
    BY <1>1, CatalogCorrect, PTL

-------------------------------------------------------------------------------
(* The pages of a list that does not change.                                *)

(* A list up to one place, followed by what comes between it and another,   *)
(* is the list up to the other.                                             *)
LEMMA PartsJoin ==
    ASSUME NEW S, NEW rows \in Seq(S), NEW a \in Nat, NEW b \in Nat,
           a <= b, b <= Len(rows)
    PROVE  SubSeq(rows, 1, a) \o SubSeq(rows, a + 1, b) = SubSeq(rows, 1, b)
<1>1. CASE a = b
    <2>1. SubSeq(rows, a + 1, b) = <<>>
        BY <1>1
    <2>2. SubSeq(rows, 1, a) \in Seq(S)
        OBVIOUS
    <2> QED
        BY <1>1, <2>1, <2>2
<1>2. CASE a < b
    <2> DEFINE d == a + 1
    <2>1. d \in Nat /\ 0 < d /\ d <= Len(rows) + 1 /\ b >= d /\ a = d - 1
        BY <1>2
    <2> HIDE DEF d
    <2>2. SubSeq(rows, 1, d - 1) \o SubSeq(rows, d, b) = SubSeq(rows, 1, b)
        BY <2>1
    <2> QED
        BY <2>1, <2>2 DEF d
<1> QED
    BY <1>1, <1>2

(* Pages that cut a list at ascending places, one after the other, are the  *)
(* list again when they are put together.                                   *)
LEMMA CutsFlatten ==
    ASSUME NEW S, NEW rows \in Seq(S), NEW N \in Nat \ {0},
           NEW cut \in [0..N -> 0..Len(rows)], cut[0] = 0, cut[N] = Len(rows),
           \A n \in 1..N : cut[n - 1] <= cut[n],
           NEW pages, Len(pages) = N,
           \A n \in 1..N : pages[n] = SubSeq(rows, cut[n - 1] + 1, cut[n])
    PROVE  FlattenSeq(pages) = rows
<1> DEFINE g == [n \in 1..N |-> SubSeq(rows, 1, cut[n])]
           Flat(f) == [n \in 1..N |-> IF n = 1 THEN pages[n] ELSE f[n - 1] \o pages[n]]
           flat == CHOOSE f : f = Flat(f)
<1>1. ASSUME NEW n \in 1..N, n # 1 PROVE g[n] = g[n - 1] \o pages[n]
    <2>1. /\ n - 1 \in 1..N /\ n \in 0..N /\ n - 1 \in 0..N
        BY <1>1
    <2> DEFINE a == cut[n - 1]
               b == cut[n]
    <2>2. a \in Nat /\ b \in Nat /\ a <= b /\ b <= Len(rows) /\ Len(rows) \in Nat
        BY <2>1
    <2>3. g[n] = SubSeq(rows, 1, b) /\ g[n - 1] = SubSeq(rows, 1, a)
        BY <2>1
    <2>4. pages[n] = SubSeq(rows, a + 1, b)
        OBVIOUS
    <2> HIDE DEF a, b, g
    <2>5. SubSeq(rows, 1, a) \o SubSeq(rows, a + 1, b) = SubSeq(rows, 1, b)
        BY <2>2, PartsJoin
    <2> QED
        BY <2>3, <2>4, <2>5
<1>2. g[1] = pages[1]
    <2>1. 1 \in 1..N /\ 1 - 1 = 0
        OBVIOUS
    <2>2. pages[1] = SubSeq(rows, cut[0] + 1, cut[1])
        BY <2>1
    <2>3. cut[0] + 1 = 1
        OBVIOUS
    <2>4. pages[1] = SubSeq(rows, 1, cut[1])
        BY <2>2, <2>3
    <2> QED
        BY <2>1, <2>4
<1>3. g = Flat(g)
    <2>1. ASSUME NEW n \in 1..N
          PROVE  g[n] = IF n = 1 THEN pages[n] ELSE g[n - 1] \o pages[n]
        <3> HIDE DEF g
        <3> QED
            BY <1>1, <1>2
    <2>2. g = [n \in 1..N |-> g[n]]
        OBVIOUS
    <2> HIDE DEF g
    <2> QED
        BY <2>1, <2>2
<1>4. flat = Flat(flat)
    <2> HIDE DEF g, Flat
    <2> QED
        BY <1>3, Zenon
<1>5. \A n \in 1..N : flat[n] = IF n = 1 THEN pages[n] ELSE flat[n - 1] \o pages[n]
    <2> DEFINE h == flat
    <2>1. h = [n \in 1..N |-> IF n = 1 THEN pages[n] ELSE h[n - 1] \o pages[n]]
        BY <1>4, Zenon
    <2> HIDE DEF h
    <2>2. \A n \in 1..N : h[n] = IF n = 1 THEN pages[n] ELSE h[n - 1] \o pages[n]
        BY <2>1, Zenon
    <2> QED
        BY <2>2, Zenon DEF h
<1> HIDE DEF flat, Flat, g
<1>6. \A n \in 1..N : n \in {k \in 1..N : flat[k] = g[k]}
    <2> DEFINE Good == {k \in 1..N : flat[k] = g[k]}
    <2>1. ASSUME NEW n \in 1..N, \A k \in 1..N : k < n => k \in Good PROVE n \in Good
        <3>1. CASE n = 1
            BY <1>2, <1>5, <3>1
        <3>2. CASE n # 1
            <4>1. n - 1 \in 1..N /\ n - 1 < n
                BY <3>2
            <4>2. flat[n - 1] = g[n - 1]
                BY <2>1, <4>1
            <4>3. flat[n] = g[n]
                BY <1>1, <1>5, <3>2, <4>2
            <4> QED
                BY <4>3
        <3> QED
            BY <3>1, <3>2
    <2> HIDE DEF Good
    <2>2. \A n \in 1..N : n \in Good
        BY <2>1, UpTo
    <2> QED
        BY <2>2 DEF Good
<1>7. N \in 1..N
    OBVIOUS
<1>8. flat[N] = g[N]
    BY <1>6, <1>7
<1>9. g[N] = rows
    BY <1>7 DEF g
<1>10. FlattenSeq(pages) = flat[Len(pages)]
    BY Zenon DEF FlattenSeq, flat, Flat
<1> QED
    BY <1>8, <1>9, <1>10

(* The pages of a list, for one page size.                                  *)
LEMMA PagesAreRows ==
    ASSUME NEW S, NEW rows \in Seq(S), Len(rows) <= MaxId, NEW size \in 1..(2 ^ Width - 1)
    PROVE  FlattenSeq([n \in 1..(Len(rows) \div size + 1) |-> Page(rows, n - 1, size)]) = rows
<1> DEFINE len == Len(rows)
           full == len \div size
           pages == [n \in 1..(full + 1) |-> Page(rows, n - 1, size)]
           cut == [n \in 0..(full + 1) |-> Least(n * size, len)]
<1>1. len \in Nat /\ MaxId \in Nat /\ len <= MaxId
    BY MaxIdNat
<1>2. size \in Nat /\ size >= 1
    BY CatalogAssumption
<1>3. full \in Nat /\ full * size <= len /\ len < full * size + size
    <2> HIDE DEF len
    <2> QED
        BY <1>1, <1>2
<1> HIDE DEF full
<1>4. (full + 1) * size = full * size + size /\ full * size \in Nat
    BY <1>2, <1>3
<1>5. \A n \in Nat : n * size \in Nat /\ (n + 1) * size = n * size + size
    BY <1>2
<1>6. \A n \in 0..(full + 1) : cut[n] = Least(n * size, len) /\ cut[n] \in 0..len
    <2> TAKE n \in 0..(full + 1)
    <2>1. n * size \in Nat
        BY <1>3, <1>5
    <2> DEFINE x == n * size
    <2> HIDE DEF x, len
    <2>2. Least(x, len) \in 0..len
        BY <1>1, <2>1 DEF Least, x
    <2> QED
        BY <2>2 DEF x
<1>7. cut \in [0..(full + 1) -> 0..len]
    BY <1>6
<1>8. cut[0] = 0
    <2>1. 0 \in 0..(full + 1) /\ 0 * size = 0
        BY <1>2, <1>3
    <2>2. cut[0] = Least(0, len)
        BY <1>6, <2>1
    <2> HIDE DEF cut, len
    <2> QED
        BY <1>1, <2>2 DEF Least
<1>9. cut[full + 1] = len
    <2>1. full + 1 \in 0..(full + 1)
        BY <1>3
    <2>2. cut[full + 1] = Least((full + 1) * size, len)
        BY <1>6, <2>1
    <2> DEFINE x == (full + 1) * size
    <2>3. x \in Nat /\ len < x
        BY <1>1, <1>3, <1>4
    <2> HIDE DEF cut, len, x
    <2>4. Least(x, len) = len
        BY <1>1, <2>3 DEF Least
    <2> QED
        BY <2>2, <2>4 DEF x
<1> HIDE DEF cut
<1>10. ASSUME NEW n \in 1..(full + 1)
       PROVE  /\ cut[n - 1] <= cut[n]
              /\ Page(rows, n - 1, size) = SubSeq(rows, cut[n - 1] + 1, cut[n])
    <2> DEFINE p == n - 1
               x == p * size
    <2>1. p \in Nat /\ p \in 0..(full + 1) /\ n \in 0..(full + 1) /\ n = p + 1 /\ p <= full
        BY <1>3
    <2>2. x \in Nat /\ n * size = x + size
        BY <1>5, <2>1
    <2>3. x <= len
        <3>1. full - p \in Nat /\ full = p + (full - p)
            BY <1>3, <2>1
        <3>2. (full - p) * size \in Nat
            BY <1>5, <3>1
        <3>3. full * size = x + (full - p) * size
            BY <1>2, <1>3, <2>1, <3>1
        <3> HIDE DEF x, p, len
        <3> QED
            BY <1>1, <1>3, <1>4, <2>2, <3>2, <3>3
    <2>4. p = 0 \/ (p - 1) * size < MaxId
        <3>1. CASE p # 0
            <4>1. (p - 1) * size = x - size
                BY <1>2, <2>1
            <4> HIDE DEF x, p, len
            <4> QED
                BY <1>1, <1>2, <2>2, <2>3, <4>1
        <3> QED
            BY <3>1
    <2>5. /\ x >= len => Page(rows, p, size) = <<>>
          /\ x < len => Page(rows, p, size) = SubSeq(rows, x + 1, Least(x + size, len))
        <3> HIDE DEF p
        <3> QED
            BY <2>1, <2>4, PageIs
    <2>6. cut[p] = x /\ cut[n] = Least(x + size, len)
        <3>1. cut[p] = Least(x, len)
            BY <1>6, <2>1
        <3>2. cut[n] = Least(x + size, len)
            BY <1>6, <2>1, <2>2
        <3> HIDE DEF x, len, p
        <3>3. Least(x, len) = x
            BY <1>1, <2>2, <2>3 DEF Least
        <3> QED
            BY <3>1, <3>2, <3>3
    <2> DEFINE b == Least(x + size, len)
    <2>7. b \in Nat /\ x <= b /\ b <= len /\ (x = len => b = len)
        <3> HIDE DEF x, len
        <3> QED
            BY <1>1, <1>2, <2>2, <2>3 DEF Least
    <2> HIDE DEF x, p, b
    <2>8. Page(rows, p, size) = SubSeq(rows, x + 1, b)
        <3>1. CASE x < len
            BY <2>5, <3>1 DEF b
        <3>2. CASE x = len
            <4>1. Page(rows, p, size) = <<>>
                BY <1>1, <2>5, <3>2
            <4>2. SubSeq(rows, x + 1, b) = <<>>
                BY <1>1, <2>2, <2>7, <3>2
            <4> QED
                BY <4>1, <4>2
        <3> QED
            BY <1>1, <2>2, <2>3, <3>1, <3>2
    <2>9. cut[p] <= cut[n]
        BY <2>6, <2>7 DEF b
    <2> QED
        BY <2>6, <2>8, <2>9 DEF p, b
<1>11. Len(pages) = full + 1 /\ \A n \in 1..(full + 1) : pages[n] = Page(rows, n - 1, size)
    BY <1>3
<1> DEFINE N == full + 1
<1>12. N \in Nat \ {0}
    BY <1>3
<1> HIDE DEF pages
<1>13. FlattenSeq(pages) = rows
    <2>1. /\ cut \in [0..N -> 0..Len(rows)] /\ cut[0] = 0 /\ cut[N] = Len(rows)
          /\ \A n \in 1..N : cut[n - 1] <= cut[n]
          /\ Len(pages) = N
          /\ \A n \in 1..N : pages[n] = SubSeq(rows, cut[n - 1] + 1, cut[n])
        BY <1>7, <1>8, <1>9, <1>10, <1>11
    <2> HIDE DEF N
    <2> QED
        BY <1>12, <2>1, CutsFlatten
<1> QED
    BY <1>13 DEF pages, full

(* Whatever the page size, also one whose end overflows size_t: the pages   *)
(* of list_products and of get_user_orders, one after the other, are the    *)
(* list, when it does not change meanwhile.                                 *)
THEOREM PagesTileRows == SpecCatalog => []PagesTile
<1>1. CatalogInv => PagesTile
    <2> SUFFICES ASSUME CatalogInv, NEW size \in 1..(2 ^ Width - 1)
                 PROVE  FlattenSeq(Pages(size)) = Rows
        BY DEF PagesTile
    <2>1. matching \in SUBSET Ids
        BY LiveAreIds DEF CatalogInv
    <2>2. /\ Rows \in Seq(matching) /\ Len(Rows) = Cardinality(matching)
          /\ Cardinality(matching) <= MaxId
        BY <2>1, ListingLists, IdsFinite DEF Rows
    <2>3. Len(Rows) <= MaxId
        BY <2>2
    <2> QED
        BY <2>2, <2>3, PagesAreRows DEF Pages
<1> QED
    BY <1>1, CatalogCorrect, PTL

===============================================================================
