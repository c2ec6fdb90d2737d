----------------------------- MODULE OrderManager -----------------------------
(***************************************************************************)
(* OrderManager (src/src/order/order.cpp): the order store, its two        *)
(* indexes and the threads that call it.                                   *)
(*                                                                         *)
(* All operations but create_order, delete_order and shutdown work in two  *)
(* critical sections: get_order looks the id up under a shared lock and    *)
(* releases it; the rest runs under the exclusive lock on the raw pointer  *)
(* get_order returned.  Between the two the order can be deleted, and its  *)
(* memory can hold a younger order.  Each critical section is one action,  *)
(* but for apply_discount: it asks the DiscountManager for the discount in *)
(* the middle, and that manager's lock is its own.                         *)
(***************************************************************************)
EXTENDS Naturals, FiniteSets

CONSTANTS
    Threads,    \* threads that call the manager
    Deleters,   \* those of them that also call delete_order and shutdown
    Users,      \* user ids
    Addrs,      \* heap addresses an Order object can be allocated at
    MaxOrders,  \* bound on the number of orders ever created
    Requested,  \* the statuses callers pass to update_order_status
    Quantities, \* quantities an order item can have
    MaxItems,   \* bound on the items of one quantity in an order
    Addresses,  \* shipping addresses
    MaxDiscounts, \* bound on the discounts the DiscountManager has at once
    MaxUsage,   \* bound on a discount's usage counter
    Coupons,    \* coupon codes
    Payments,   \* payment ids
    None,       \* no coupon, no payment
    NoOrder,    \* the id is not a key of orders_
    Idle        \* the thread holds no order pointer

OrderIds == 1..MaxOrders

Discounts == 1..MaxDiscounts

OrderStatus == {"CREATED", "PENDING_PAYMENT", "PAID", "PROCESSING", "SHIPPED",
                "DELIVERED", "COMPLETED", "CANCELLED", "REFUNDED", "CLOSED"}

ItemBag == [Quantities -> 0..MaxItems]

Order == [user      : Users,
          addr      : Addrs,
          status    : OrderStatus,
          items     : ItemBag,
          shipping  : Addresses,
          discounts : SUBSET Discounts,
          coupon    : Coupons \cup {None},
          payment   : Payments \cup {None}]

(* What get_order returned: the id asked for and the address of its object. *)
Pointer == [id : OrderIds, addr : Addrs]

(* An apply_discount past its lookup: the discount asked for, and the one   *)
(* whose object is now where it was found; 0 is freed memory.               *)
Application == [by : Threads, id : Discounts, target : 0..MaxDiscounts]

ASSUME ConstantsAssumption ==
    /\ MaxOrders \in Nat
    /\ MaxItems \in Nat
    /\ MaxUsage \in Nat
    /\ MaxDiscounts \in Nat
    /\ Deleters \subseteq Threads
    /\ Requested \subseteq OrderStatus
    /\ NoOrder \notin Order
    /\ Idle \notin Pointer \cup Application

VARIABLES
    orders,           \* orders_: id -> order
    user_order_index, \* user_order_index_: how often a user's list has an id
    status_index,     \* status_index_: how often a status' list has an id
    next_order_id,    \* next_order_id_
    pend,             \* the pointer a thread holds between its two sections
    applying,         \* the apply_discount that holds mutex_ with a discount found
    known,            \* the keys of discounts_ in the DiscountManager
    usage,            \* usage_count_ of each of them
    former            \* history: <<order, discount>>, counted on no discount known

orderVars == <<orders, user_order_index, status_index, next_order_id, pend>>
discountVars == <<known, usage, former>>
vars == <<orderVars, applying, discountVars>>

Live == {i \in OrderIds : orders[i] # NoOrder}

-------------------------------------------------------------------------------
(* The definitions named ..._Faulty are variants with one mistake in them;  *)
(* no action uses them.  Each shows that a property notices that mistake.   *)

(* Order::can_transition_to. *)
CanTransition_Faulty(old, new) ==
    \/ old = new
    \/ /\ old # "CANCELLED"
       /\ new = "PAID" => old \in {"CREATED", "PENDING_PAYMENT"}
       /\ new = "SHIPPED" => old \in {"PAID", "PROCESSING"}
       /\ new = "CANCELLED" => old \notin {"DELIVERED", "SHIPPED"}

CanTransition(old, new) ==
    \/ old = new
    \/ /\ old \notin {"CANCELLED", "REFUNDED"}
       /\ new = "PAID" => old \in {"CREATED", "PENDING_PAYMENT"}
       /\ new = "SHIPPED" => old \in {"PAID", "PROCESSING"}
       /\ new = "CANCELLED" => old \notin {"DELIVERED", "SHIPPED"}

CanModify_Faulty(o) == o.status \in {"CREATED", "PENDING_PAYMENT"}

CanModify(o) == o.status = "CREATED"

CanApplyDiscount(o) == o.status \in {"CREATED", "PENDING_PAYMENT"}

(* The lists of an index, abstracted to how often each id is in them. *)
NoLists(keys) == [k \in keys |-> [i \in OrderIds |-> 0]]

Push(index, k, id) == [index EXCEPT ![k][id] = @ + 1]

Erase_Faulty(index, k, id) == index

Erase(index, k, id) == [index EXCEPT ![k][id] = 0]

(* update_order_status takes the id out of the old list, then appends it. *)
Reindex_Faulty(id, old, new) == Push(status_index, new, id)

Reindex(id, old, new) == Push(Erase(status_index, old, id), new, id)

NewId_Faulty == Cardinality(Live) + 1

NewId == next_order_id

(* The objects a pointer reaches: the live order now at its address, if any. *)
Aim(p) == {i \in Live : orders[i].addr = p.addr}

Init ==
    /\ orders = [i \in OrderIds |-> NoOrder]
    /\ user_order_index = NoLists(Users)
    /\ status_index = NoLists(OrderStatus)
    /\ next_order_id = 1
    /\ pend = [t \in Threads |-> Idle]
    /\ applying = Idle
    /\ known = {}
    /\ usage = [d \in Discounts |-> 0]
    /\ former = {}

-------------------------------------------------------------------------------
(* Operations that are one critical section; none can begin while an        *)
(* apply_discount holds the mutex.                                          *)

CreateOrder(t, u) ==
    /\ pend[t] = Idle /\ applying = Idle
    /\ NewId \in OrderIds
    /\ \E a \in Addrs, b \in ItemBag, s \in Addresses :
         /\ \A i \in Live : orders[i].addr # a
         /\ orders' = [orders EXCEPT ![NewId] =
                [user |-> u, addr |-> a, status |-> "CREATED", items |-> b,
                 shipping |-> s, discounts |-> {}, coupon |-> None,
                 payment |-> None]]
    /\ user_order_index' = Push(user_order_index, u, NewId)
    /\ status_index' = Push(status_index, "CREATED", NewId)
    /\ next_order_id' = next_order_id + 1
    /\ UNCHANGED <<pend, applying, discountVars>>

DeleteOrder(t, i) ==
    /\ t \in Deleters
    /\ pend[t] = Idle /\ applying = Idle
    /\ i \in Live
    /\ user_order_index' = Erase(user_order_index, orders[i].user, i)
    /\ status_index' = Erase(status_index, orders[i].status, i)
    /\ orders' = [orders EXCEPT ![i] = NoOrder]
    /\ UNCHANGED <<next_order_id, pend, applying, discountVars>>

Shutdown(t) ==
    /\ t \in Deleters
    /\ pend[t] = Idle /\ applying = Idle
    /\ orders' = [i \in OrderIds |-> NoOrder]
    /\ user_order_index' = NoLists(Users)
    /\ status_index' = NoLists(OrderStatus)
    /\ UNCHANGED <<next_order_id, pend, applying, discountVars>>

(* The first section of every other operation; an unknown id is an error    *)
(* that changes nothing.                                                    *)
GetOrder(t, i) ==
    /\ pend[t] = Idle /\ applying = Idle
    /\ i \in Live
    /\ pend' = [pend EXCEPT ![t] = [id |-> i, addr |-> orders[i].addr]]
    /\ UNCHANGED <<orders, user_order_index, status_index, next_order_id, applying>>
    /\ UNCHANGED discountVars

-------------------------------------------------------------------------------
(* The second section of the operations that follow get_order. *)

Return(t) ==
    /\ pend[t] # Idle /\ applying = Idle
    /\ pend' = [pend EXCEPT ![t] = Idle]
    /\ UNCHANGED applying

UpdateOrderStatus(t, new) ==
    /\ Return(t)
    /\ \E i \in Aim(pend[t]) :
         /\ CanTransition(orders[i].status, new)
         /\ orders' = [orders EXCEPT ![i].status = new]
         /\ status_index' = Reindex(pend[t].id, orders[i].status, new)
    /\ UNCHANGED <<user_order_index, next_order_id, discountVars>>

(* The same on freed memory: the status read there is arbitrary, the status *)
(* written there is lost, but the index is still updated.                   *)
UpdateFreedStatus(t, new) ==
    /\ Return(t)
    /\ Aim(pend[t]) = {}
    /\ \E old \in OrderStatus :
         /\ CanTransition(old, new)
         /\ status_index' = Reindex(pend[t].id, old, new)
    /\ UNCHANGED <<orders, user_order_index, next_order_id, discountVars>>

(* cancel_order sets the status and leaves status_index_ alone. *)
CancelOrder(t) ==
    /\ Return(t)
    /\ \E i \in Aim(pend[t]) :
         /\ CanTransition(orders[i].status, "CANCELLED")
         /\ orders' = [orders EXCEPT ![i].status = "CANCELLED"]
    /\ UNCHANGED <<user_order_index, status_index, next_order_id, discountVars>>

(* The order the pointer reaches becomes one of `edits` of itself. *)
Edit(t, edits(_)) ==
    /\ Return(t)
    /\ \E i \in Aim(pend[t]) :
         \E o \in edits(orders[i]) : orders' = [orders EXCEPT ![i] = o]
    /\ UNCHANGED <<user_order_index, status_index, next_order_id, discountVars>>

AddOrderItem(t) ==
    Edit(t, LAMBDA o : {[o EXCEPT !.items[q] = @ + 1] :
                           q \in {q \in Quantities : /\ CanModify(o)
                                                     /\ o.items[q] < MaxItems}})

RemoveOrderItem(t) ==
    Edit(t, LAMBDA o : {[o EXCEPT !.items[q] = @ - 1] :
                           q \in {q \in Quantities : /\ CanModify(o)
                                                     /\ o.items[q] > 0}})

(* No check of the status here. *)
UpdateItemQuantity(t) ==
    Edit(t, LAMBDA o : {[o EXCEPT !.items[q[1]] = @ - 1, !.items[q[2]] = @ + 1] :
                           q \in {q \in Quantities \X Quantities :
                                      /\ o.items[q[1]] > 0
                                      /\ q[1] # q[2]
                                      /\ o.items[q[2]] < MaxItems}})

UpdateShippingInfo(t) ==
    Edit(t, LAMBDA o : {[o EXCEPT !.shipping = s] :
                           s \in {s \in Addresses : CanModify(o)}})

ApplyCoupon(t) ==
    Edit(t, LAMBDA o : {[o EXCEPT !.coupon = c] : c \in Coupons})

SetPaymentInfo(t) ==
    Edit(t, LAMBDA o : {[o EXCEPT !.payment = p] : p \in Payments})

RemoveDiscount(t) ==
    Edit(t, LAMBDA o : {[o EXCEPT !.discounts = @ \ {d}] : d \in o.discounts})

(* apply_discount and Order::apply_discount up to get_discount: the checks  *)
(* of the order, which read garbage in freed memory, and the lookup.        *)
FindDiscount(t, d) ==
    /\ pend[t] # Idle /\ applying = Idle
    /\ \A i \in Aim(pend[t]) : CanApplyDiscount(orders[i]) /\ d \notin orders[i].discounts
    /\ d \in known
    /\ applying' = [by |-> t, id |-> d, target |-> d]
    /\ UNCHANGED <<orderVars, discountVars>>

Count_Faulty(d) == usage

(* increment_usage of the discount d, if it is one. *)
Count(d) == [e \in Discounts |-> IF e = d THEN usage[e] + 1 ELSE usage[e]]

(* The end of an apply_discount. *)
Finish(t) ==
    /\ applying # Idle /\ applying.by = t
    /\ pend[t] # Idle
    /\ pend' = [pend EXCEPT ![t] = Idle]
    /\ applying' = Idle
    /\ UNCHANGED <<user_order_index, status_index, next_order_id, known>>

(* The use is counted on the object the pointer now leads to, and nowhere   *)
(* if the memory is free.                                                   *)
CountUse ==
    /\ applying.target # 0 => usage[applying.target] < MaxUsage
    /\ usage' = Count(applying.target)

ApplyDiscount(t) ==
    /\ Finish(t)
    /\ CountUse
    /\ \E i \in Aim(pend[t]) :
         LET pair == <<i, applying.id>>
         IN  /\ orders' = [orders EXCEPT ![i].discounts = @ \cup {applying.id}]
             /\ former' = IF applying.target = applying.id
                          THEN former \ {pair}
                          ELSE former \cup {pair}

(* An order in freed memory takes nothing, but the use is counted. *)
ApplyDiscountToFreed(t) ==
    /\ Finish(t)
    /\ CountUse
    /\ Aim(pend[t]) = {}
    /\ UNCHANGED <<orders, former>>

(* The discount is not active or not applicable. *)
RefuseDiscount(t) ==
    /\ Finish(t)
    /\ UNCHANGED <<orders, usage, former>>

(* recalculate_order, validate_order, every error return, and every write   *)
(* that only reaches freed memory.                                          *)
ReturnUnchanged(t) ==
    /\ Return(t)
    /\ UNCHANGED <<orders, user_order_index, status_index, next_order_id, discountVars>>

EditOrder(t) ==
    \/ AddOrderItem(t)
    \/ RemoveOrderItem(t)
    \/ UpdateItemQuantity(t)
    \/ UpdateShippingInfo(t)
    \/ ApplyCoupon(t)
    \/ SetPaymentInfo(t)
    \/ RemoveDiscount(t)

-------------------------------------------------------------------------------
(* The DiscountManager, called by anybody at any time: its mutex is not the *)
(* OrderManager's.                                                          *)

(* The discounts of `ids` are destroyed: orders that hold one of these ids  *)
(* were counted on an object that is no more, and a pointer to it dangles.  *)
Destroyed(ids) ==
    /\ usage' = [d \in Discounts |-> IF d \in ids THEN 0 ELSE usage[d]]
    /\ former' = former \cup {p \in Live \X ids : p[2] \in orders[p[1]].discounts}

(* Where the pointer of an apply_discount leads when `ids` are destroyed.   *)
Left(ids) ==
    IF applying # Idle /\ applying.target \in ids
    THEN [applying EXCEPT !.target = 0]
    ELSE applying

NewDiscountId == Cardinality(known) + 1

(* create_discount: the new id can be that of a live discount, which is     *)
(* replaced, and its object can be where a dangling pointer leads.          *)
CreateDiscount ==
    LET new == NewDiscountId
    IN  /\ new \in Discounts
        /\ known' = known \cup {new}
        /\ Destroyed({new})
        /\ \/ applying' = Left({new})
           \/ /\ applying # Idle /\ applying.target = 0
              /\ applying' = [applying EXCEPT !.target = new]
        /\ UNCHANGED orderVars

DeleteDiscount(d) ==
    /\ d \in known
    /\ known' = known \ {d}
    /\ Destroyed({d})
    /\ applying' = Left({d})
    /\ UNCHANGED orderVars

ShutdownDiscounts ==
    /\ known' = {}
    /\ Destroyed(Discounts)
    /\ applying' = Left(Discounts)
    /\ UNCHANGED orderVars

DiscountStep ==
    \/ CreateDiscount
    \/ \E d \in Discounts : DeleteDiscount(d)
    \/ ShutdownDiscounts

ThreadStep ==
    \E t \in Threads :
        \/ \E u \in Users : CreateOrder(t, u)
        \/ \E i \in OrderIds : DeleteOrder(t, i)
        \/ Shutdown(t)
        \/ \E i \in OrderIds : GetOrder(t, i)
        \/ \E new \in Requested : UpdateOrderStatus(t, new)
        \/ \E new \in Requested : UpdateFreedStatus(t, new)
        \/ CancelOrder(t)
        \/ EditOrder(t)
        \/ \E d \in Discounts : FindDiscount(t, d)
        \/ ApplyDiscount(t)
        \/ ApplyDiscountToFreed(t)
        \/ RefuseDiscount(t)
        \/ ReturnUnchanged(t)

Next == ThreadStep \/ DiscountStep

Spec == Init /\ [][Next]_vars

-------------------------------------------------------------------------------
(* Every variable has its type; an index never counts below zero. *)
TypeOK ==
    /\ orders \in [OrderIds -> Order \cup {NoOrder}]
    /\ user_order_index \in [Users -> [OrderIds -> Nat]]
    /\ status_index \in [OrderStatus -> [OrderIds -> Nat]]
    /\ next_order_id \in 1..(MaxOrders + 1)
    /\ pend \in [Threads -> Pointer \cup {Idle}]
    /\ applying \in Application \cup {Idle}
    /\ known \subseteq Discounts
    /\ usage \in [Discounts -> 0..MaxUsage]
    /\ former \subseteq OrderIds \X Discounts

(* Each order is exactly once in the list of its owner and in no other      *)
(* list, whatever the threads do: get_user_orders and get_user_order_count  *)
(* answer from exactly the user's orders.                                   *)
UserIndexExact ==
    \A u \in Users, i \in OrderIds :
        user_order_index[u][i] =
            IF i \in Live /\ orders[i].user = u THEN 1 ELSE 0

(* No order is lost to get_orders_by_status: it is in the list of some      *)
(* status, even when operations on deleted orders corrupt the index.        *)
IndexComplete ==
    \A i \in Live : \E s \in OrderStatus : status_index[s][i] > 0

(* While an order lives, a pointer to it that a thread still holds reaches  *)
(* that order and no other.                                                 *)
PointersValid ==
    \A t \in Threads :
        pend[t] # Idle /\ pend[t].id \in Live => Aim(pend[t]) = {pend[t].id}

(* An operation changes only the order it names, unless that order was      *)
(* deleted after the operation looked it up.                                *)
EditsReachNamedOrder ==
    [][\A i \in Live :
          orders'[i] \notin {orders[i], NoOrder} =>
              \E t \in Threads : /\ pend[t] # Idle
                                 /\ pend'[t] = Idle
                                 /\ \/ pend[t].id = i
                                    \/ pend[t].id \notin Live]_vars

(* The contents of an order settle: from CREATED on neither its lines, but  *)
(* for the quantities, nor its address change, and once paid it takes no    *)
(* discount, also when an operation reaches another order than the one it   *)
(* names, and though apply_discount asks another manager between the check  *)
(* and the change.                                                          *)
LineCount(b) == Cardinality({e \in Quantities \X (1..MaxItems) : e[2] <= b[e[1]]})

ContentsSettled ==
    [][\A i \in Live : orders'[i] # NoOrder =>
          /\ orders[i].status # "CREATED" =>
                /\ orders'[i].shipping = orders[i].shipping
                /\ LineCount(orders'[i].items) = LineCount(orders[i].items)
          /\ orders[i].status \notin {"CREATED", "PENDING_PAYMENT"} =>
                orders'[i].discounts \subseteq orders[i].discounts]_vars

(* A discount was used at least as often as there are orders that hold it,  *)
(* whatever is removed, deleted, replaced or applied through pointers that  *)
(* dangle.  Not counted here are the orders that hold its id from a         *)
(* discount which was destroyed since they found it: a new one of the same  *)
(* id begins at 0 (CreateDiscount).                                         *)
HoldersOf(d) == {i \in Live : d \in orders[i].discounts /\ <<i, d>> \notin former}

UsageCoversHolders == \A d \in Discounts : Cardinality(HoldersOf(d)) <= usage[d]

(* The inductive invariant behind the three: ids are issued in order, live  *)
(* objects have addresses of their own, and a pointer that outlived its     *)
(* order can only name an id that was issued before.                        *)
IdsIssued == \A i \in Live : i < next_order_id

AddressesDistinct ==
    \A i, j \in Live : orders[i].addr = orders[j].addr => i = j

PointersIssued ==
    \A t \in Threads : pend[t] # Idle =>
        /\ pend[t].id < next_order_id
        /\ pend[t].id \in Live => orders[pend[t].id].addr = pend[t].addr

(* What apply_discount checked still holds when it applies the discount:    *)
(* it has held the mutex since.                                             *)
AppliesWhereAllowed ==
    applying # Idle => \A i \in Aim(pend[applying.by]) : CanApplyDiscount(orders[i])

StoreInv ==
    /\ TypeOK
    /\ IdsIssued
    /\ AddressesDistinct
    /\ PointersIssued
    /\ UserIndexExact
    /\ IndexComplete

-------------------------------------------------------------------------------
(* Where no thread deletes an order another thread may be working on.       *)
DeletesExclusive == \A d \in Deleters, t \in Threads : d = t

(* The index is exact for every order that is not cancelled: it is once in  *)
(* the list of its status and in no other list.                             *)
StatusIndexExact ==
    \A i \in Live : orders[i].status # "CANCELLED" =>
        \A s \in OrderStatus :
            status_index[s][i] = IF s = orders[i].status THEN 1 ELSE 0

(* What cancel_order leaves behind is bounded: outside the CANCELLED list   *)
(* an id that is cancelled or deleted has at most one entry, and a deleted  *)
(* one none in the CANCELLED list.                                          *)
StaleEntriesBounded ==
    \A i \in OrderIds :
        i \notin Live \/ orders[i].status = "CANCELLED" =>
            /\ \A s \in OrderStatus : status_index[s][i] \in {0, 1}
            /\ \A s1, s2 \in OrderStatus \ {"CANCELLED"} :
                  status_index[s1][i] = 1 /\ status_index[s2][i] = 1 => s1 = s2
            /\ i \notin Live => status_index["CANCELLED"][i] = 0

(* The inductive invariant behind StatusIndexExact: a pointer in use names  *)
(* a live order, and an id not issued yet is in no list.                    *)
PointersLive == \A t \in Threads : pend[t] # Idle => pend[t].id \in Live

UnissuedUnlisted ==
    \A i \in OrderIds, s \in OrderStatus :
        i >= next_order_id => status_index[s][i] = 0

ExclusiveInv == StoreInv /\ PointersLive /\ UnissuedUnlisted /\ StatusIndexExact

-------------------------------------------------------------------------------
(* The store implements the abstract lifecycle: every critical section is   *)
(* one legal step of one order, a deletion, or a stutter.  It holds also    *)
(* for an operation that reaches a younger order through a stale pointer,   *)
(* because can_transition_to reads the status it is about to overwrite.     *)
AbstractStatus ==
    [i \in OrderIds |-> IF i \in Live THEN orders[i].status
                       ELSE IF i < next_order_id THEN "gone" ELSE "absent"]

Lifecycle == INSTANCE OrderLifecycle WITH Ids <- OrderIds, status <- AbstractStatus

LifecycleSpec == Lifecycle!Spec

===============================================================================
