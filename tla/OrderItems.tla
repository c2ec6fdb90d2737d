------------------------------ MODULE OrderItems ------------------------------
(***************************************************************************)
(* OrderItemCollection (src/src/order/order_item.cpp): the lines of one    *)
(* order with an index by line id and one by product, both rebuilt after   *)
(* every change of the vector.                                             *)
(*                                                                         *)
(* A new line gets the id size() + 1.  Once a line has gone, that can be   *)
(* the id of a line still there; the index then reaches the last of the    *)
(* two.  Names, attributes, snapshots and remarks are left out.            *)
(***************************************************************************)
EXTENDS Integers, Sequences, FiniteSets, Functions, SequencesExt, FiniteSetsExt

CONSTANTS
    Products,    \* product ids
    Quantities,  \* quantities callers give, negative ones too
    Prices,      \* unit prices callers give
    MaxLines,    \* bound on the lines of an order
    MaxQuantity, \* bound on the quantity of a merged line, either way
    MaxGone      \* bound on gone

ASSUME OrderItemsAssumption ==
    /\ Products \subseteq Nat /\ Quantities \subseteq Int /\ Prices \subseteq Nat
    /\ MaxLines \in Nat /\ MaxQuantity \in Nat /\ MaxGone \in Nat

VARIABLES
    items,         \* items_
    id_index,      \* id_index_: id -> position
    product_index, \* product_index_: product -> positions, ascending
    gone           \* lines removed or merged into others since the last clear

itemVars == <<items, id_index, product_index, gone>>

Subtotal(item) == item.price * item.quantity

InitOrderItems ==
    /\ items = <<>> /\ id_index = <<>> /\ product_index = <<>>
    /\ gone = 0

-------------------------------------------------------------------------------
(* The definitions named ..._Faulty are variants with one mistake in them;  *)
(* no action uses them.  Each shows that a property notices that mistake.   *)

(* The numbers in S, smallest first. *)
InOrder(S) == CHOOSE s \in [1..Cardinality(S) -> S] :
                  \A m, n \in 1..Cardinality(S) : m < n => s[m] < s[n]

(* rebuild_indexes; of lines with one id, the last one stays in id_index_.  *)
Rebuilt(seq) ==
    /\ items' = seq
    /\ id_index' = [i \in {seq[n].id : n \in DOMAIN seq} |->
                      Max({n \in DOMAIN seq : seq[n].id = i})]
    /\ product_index' = [p \in {seq[n].product : n \in DOMAIN seq} |->
                           InOrder({n \in DOMAIN seq : seq[n].product = p})]

NewLineId_Faulty == Cardinality(DOMAIN product_index) + 1

NewLineId == Len(items) + 1

AddItem(product, quantity, price) ==
    /\ Len(items) < MaxLines
    /\ Rebuilt(Append(items, [id |-> NewLineId, product |-> product,
                              quantity |-> quantity, price |-> price]))
    /\ UNCHANGED gone

RemoveItem(id) ==
    /\ id \in DOMAIN id_index
    /\ gone < MaxGone
    /\ Rebuilt(RemoveAt(items, id_index[id]))
    /\ gone' = gone + 1

(* The order in which remove_item_by_product erases the lines. *)
Erased_Faulty(positions) == positions

Erased(positions) == Reverse(positions)

RemoveByProduct(p) ==
    /\ p \in DOMAIN product_index
    /\ gone + Len(product_index[p]) <= MaxGone
    /\ Rebuilt(FoldLeft(RemoveAt, items, Erased(product_index[p])))
    /\ gone' = gone + Len(product_index[p])

UpdateQuantity(id, quantity) ==
    /\ id \in DOMAIN id_index
    /\ items' = [items EXCEPT ![id_index[id]].quantity = quantity]
    /\ UNCHANGED <<id_index, product_index, gone>>

UpdatePrice(id, price) ==
    /\ id \in DOMAIN id_index
    /\ items' = [items EXCEPT ![id_index[id]].price = price]
    /\ UNCHANGED <<id_index, product_index, gone>>

CountProduct(p) ==
    IF p \in DOMAIN product_index
    THEN SumFunction([k \in DOMAIN product_index[p] |-> items[product_index[p][k]].quantity])
    ELSE 0

(* The first line of a product takes over the quantities of the others, at  *)
(* its own price; the lines come in the order of the products.              *)
MergeDuplicateProducts ==
    LET products == InOrder(DOMAIN product_index)
        Merged(p) == [items[Head(product_index[p])] EXCEPT !.quantity = CountProduct(p)]
        merges == Len(items) - Len(products)
    IN  /\ \A p \in DOMAIN product_index : CountProduct(p) \in -MaxQuantity..MaxQuantity
        /\ gone + merges <= MaxGone
        /\ Rebuilt([n \in DOMAIN products |-> Merged(products[n])])
        /\ gone' = gone + merges

(* sort_by_price, sort_by_quantity; std::sort may leave equal lines in any  *)
(* order.                                                                   *)
SortedBy(field, ascending, seq) ==
    \A m, n \in DOMAIN seq :
        (IF ascending THEN m < n ELSE m > n) => seq[m][field] <= seq[n][field]

SortItems ==
    /\ \E order \in SetToSeqs(DOMAIN items) :
         LET sorted == [n \in DOMAIN items |-> items[order[n]]]
         IN  /\ \E field \in {"price", "quantity"}, ascending \in BOOLEAN :
                  SortedBy(field, ascending, sorted)
             /\ Rebuilt(sorted)
    /\ UNCHANGED gone

(* clear, clear_items. *)
ClearItems ==
    /\ Rebuilt(<<>>)
    /\ gone' = 0

NextOrderItems ==
    \/ \E p \in Products, q \in Quantities, x \in Prices : AddItem(p, q, x)
    \/ \E i \in 1..MaxLines : RemoveItem(i)
    \/ \E p \in Products : RemoveByProduct(p)
    \/ \E i \in 1..MaxLines, q \in Quantities : UpdateQuantity(i, q)
    \/ \E i \in 1..MaxLines, x \in Prices : UpdatePrice(i, x)
    \/ MergeDuplicateProducts
    \/ SortItems
    \/ ClearItems

SpecOrderItems == InitOrderItems /\ [][NextOrderItems]_itemVars

-------------------------------------------------------------------------------
Unreached == {n \in DOMAIN items : id_index[items[n].id] # n}

(* A line that its own id does not reach was hidden by another that took    *)
(* its id: there are no more of them than lines went away before, and both  *)
(* indexes lead to lines of the id and of the product they are asked for.   *)
IdsReach ==
    /\ Cardinality(Unreached) <= gone
    /\ \A i \in DOMAIN id_index : items[id_index[i]].id = i
    /\ \A n \in DOMAIN items : n \in Range(product_index[items[n].product])

Ordered(p) ==
    SumFunction([n \in DOMAIN items |-> IF items[n].product = p THEN items[n].quantity ELSE 0])

(* The lines of other products, in order. *)
Others(p) ==
    LET left == InOrder({n \in DOMAIN items : items[n].product # p})
    IN  [k \in DOMAIN left |-> items[left[k]]]

(* Taking a product off the order takes all of its lines and leaves the     *)
(* others as they were, in order, wherever the lines stood.  What changes   *)
(* how much is ordered of a product is neither a merge nor a sort, upwards  *)
(* or downwards.                                                            *)
ContentsKept ==
    [][/\ \A p \in Products :
            RemoveByProduct(p) => items' = Others(p)
       /\ (\E p \in Products : Ordered(p)' # Ordered(p)) =>
            ~ MergeDuplicateProducts /\ ~ SortItems]_itemVars

===============================================================================
