-------------------------- MODULE OrderManagerProofs --------------------------
(***************************************************************************)
(* Theorems about OrderManager, for every set of threads, users, addresses *)
(* and statuses requested, and every bound.                                *)
(***************************************************************************)
EXTENDS OrderManager, FiniteSetTheorems, TLAPS

(* One item of a bag gets another quantity.                                 *)
Requantified(b, c) ==
    \E q, r \in Quantities :
        /\ q # r /\ b[q] > 0 /\ b[r] < MaxItems
        /\ c = [[b EXCEPT ![q] = @ - 1] EXCEPT ![r] = @ + 1]

(* What can_modify protects in an order that is not CREATED.                *)
SettledIn(o, n) ==
    o.status # "CREATED" =>
        /\ n.shipping = o.shipping
        /\ n.items = o.items \/ Requantified(o.items, n.items)

(* What every operation on the contents of an order leaves alone: it        *)
(* replaces one live order by one with the same owner, address and status,  *)
(* with no other discount, and with the same contents if they are settled.  *)
EditOf(o, n) ==
    /\ n \in Order
    /\ n.user = o.user
    /\ n.addr = o.addr
    /\ n.status = o.status
    /\ n.discounts \subseteq o.discounts
    /\ SettledIn(o, n)

(* Every operation on the contents makes such a change.                     *)
LEMMA EditsKeepIdentity ==
    ASSUME TypeOK, NEW t \in Threads, EditOrder(t)
    PROVE  \E i \in Aim(pend[t]) : \E n \in Order :
              /\ EditOf(orders[i], n)
              /\ orders' = [orders EXCEPT ![i] = n]
<1> USE DEF EditOf
<1>0. \A i \in Aim(pend[t]) : orders[i] \in Order
  BY DEF TypeOK, Aim, Live
<1>1. CASE AddOrderItem(t)
  <2>1. PICK i \in Aim(pend[t]), q \in Quantities :
          /\ orders[i].items[q] < MaxItems /\ orders[i].status = "CREATED"
          /\ orders' = [orders EXCEPT ![i] = [orders[i] EXCEPT !.items[q] = @ + 1]]
    BY <1>1 DEF AddOrderItem, Edit, CanModify
  <2>2. [orders[i] EXCEPT !.items[q] = @ + 1] \in Order
    BY <1>0, <2>1, ConstantsAssumption DEF Order, ItemBag
  <2>3. EditOf(orders[i], [orders[i] EXCEPT !.items[q] = @ + 1])
    BY <1>0, <2>1, <2>2 DEF Order, SettledIn
  <2> QED BY <2>1, <2>2, <2>3
<1>2. CASE RemoveOrderItem(t)
  <2>1. PICK i \in Aim(pend[t]), q \in Quantities :
          /\ orders[i].items[q] > 0 /\ orders[i].status = "CREATED"
          /\ orders' = [orders EXCEPT ![i] = [orders[i] EXCEPT !.items[q] = @ - 1]]
    BY <1>2 DEF RemoveOrderItem, Edit, CanModify
  <2>2. [orders[i] EXCEPT !.items[q] = @ - 1] \in Order
    BY <1>0, <2>1, ConstantsAssumption DEF Order, ItemBag
  <2>3. EditOf(orders[i], [orders[i] EXCEPT !.items[q] = @ - 1])
    BY <1>0, <2>1, <2>2 DEF Order, SettledIn
  <2> QED BY <2>1, <2>2, <2>3
<1>3. CASE UpdateItemQuantity(t)
  <2>1. PICK i \in Aim(pend[t]), q \in Quantities \X Quantities :
          /\ orders[i].items[q[1]] > 0
          /\ q[1] # q[2]
          /\ orders[i].items[q[2]] < MaxItems
          /\ orders' = [orders EXCEPT ![i] =
                [orders[i] EXCEPT !.items[q[1]] = @ - 1, !.items[q[2]] = @ + 1]]
    BY <1>3 DEF UpdateItemQuantity, Edit
  <2> DEFINE n == [orders[i] EXCEPT !.items[q[1]] = @ - 1, !.items[q[2]] = @ + 1]
  <2> DEFINE b == [[orders[i].items EXCEPT ![q[1]] = @ - 1] EXCEPT ![q[2]] = @ + 1]
  <2>4. orders[i].items \in [Quantities -> 0..MaxItems]
    BY <1>0 DEF Order, ItemBag
  <2>5. b \in ItemBag
    BY <2>1, <2>4, ConstantsAssumption DEF ItemBag
  <2>6. n = [orders[i] EXCEPT !.items = b]
    BY <1>0, <2>1, <2>4 DEF Order
  <2>2. n \in Order
    <3> HIDE DEF n, b
    <3> QED BY <1>0, <2>5, <2>6 DEF Order
  <2>7. SettledIn(orders[i], n)
    <3>1. n.items = b /\ n.shipping = orders[i].shipping
      <4> HIDE DEF n, b
      <4> QED BY <1>0, <2>6 DEF Order
    <3>2. q[1] \in Quantities /\ q[2] \in Quantities
      BY <2>1
    <3>3. Requantified(orders[i].items, b)
      BY <2>1, <3>2 DEF Requantified
    <3> HIDE DEF n, b
    <3> QED BY <3>1, <3>3 DEF SettledIn
  <2>3. EditOf(orders[i], n)
    <3> HIDE DEF n, b
    <3> QED BY <1>0, <2>2, <2>6, <2>7 DEF Order
  <2> QED BY <2>1, <2>2, <2>3
<1>4. CASE UpdateShippingInfo(t)
  <2>1. PICK i \in Aim(pend[t]), s \in Addresses :
          /\ orders[i].status = "CREATED"
          /\ orders' = [orders EXCEPT ![i] = [orders[i] EXCEPT !.shipping = s]]
    BY <1>4 DEF UpdateShippingInfo, Edit, CanModify
  <2>2. EditOf(orders[i], [orders[i] EXCEPT !.shipping = s])
    BY <1>0, <2>1 DEF Order, SettledIn
  <2> QED BY <2>1, <2>2
<1>5. CASE ApplyCoupon(t)
  <2>1. PICK i \in Aim(pend[t]), c \in Coupons :
          orders' = [orders EXCEPT ![i] = [orders[i] EXCEPT !.coupon = c]]
    BY <1>5 DEF ApplyCoupon, Edit
  <2>2. EditOf(orders[i], [orders[i] EXCEPT !.coupon = c])
    BY <1>0 DEF Order, SettledIn
  <2> QED BY <2>1, <2>2
<1>6. CASE SetPaymentInfo(t)
  <2>1. PICK i \in Aim(pend[t]), p \in Payments :
          orders' = [orders EXCEPT ![i] = [orders[i] EXCEPT !.payment = p]]
    BY <1>6 DEF SetPaymentInfo, Edit
  <2>2. EditOf(orders[i], [orders[i] EXCEPT !.payment = p])
    BY <1>0 DEF Order, SettledIn
  <2> QED BY <2>1, <2>2
<1>7. CASE RemoveDiscount(t)
  <2>1. PICK i \in Aim(pend[t]), d \in Discounts :
          orders' = [orders EXCEPT ![i] = [orders[i] EXCEPT !.discounts = @ \ {d}]]
    BY <1>0, <1>7 DEF RemoveDiscount, Edit, Order
  <2>2. EditOf(orders[i], [orders[i] EXCEPT !.discounts = @ \ {d}])
    BY <1>0 DEF Order, SettledIn
  <2> QED BY <2>1, <2>2
<1> QED
  BY <1>1, <1>2, <1>3, <1>4, <1>5, <1>6, <1>7 DEF EditOrder
-------------------------------------------------------------------------------
(* Push and Erase on an index, and what an id's entries are afterwards.     *)
LEMMA PushEntries ==
    ASSUME NEW K, NEW index \in [K -> [OrderIds -> Nat]],
           NEW k \in K, NEW id \in OrderIds
    PROVE  /\ Push(index, k, id) \in [K -> [OrderIds -> Nat]]
           /\ \A j \in K, i \in OrderIds : Push(index, k, id)[j][i] =
                  IF j = k /\ i = id THEN index[j][i] + 1 ELSE index[j][i]
BY DEF Push

(* Erase clears one entry of one list and keeps the others.                 *)
LEMMA EraseEntries ==
    ASSUME NEW K, NEW index \in [K -> [OrderIds -> Nat]],
           NEW k \in K, NEW id \in OrderIds
    PROVE  /\ Erase(index, k, id) \in [K -> [OrderIds -> Nat]]
           /\ \A j \in K, i \in OrderIds : Erase(index, k, id)[j][i] =
                  IF j = k /\ i = id THEN 0 ELSE index[j][i]
BY DEF Erase

(* A cleared index counts every id zero times in every list.                *)
LEMMA NoListsEntries ==
    ASSUME NEW K
    PROVE  /\ NoLists(K) \in [K -> [OrderIds -> Nat]]
           /\ \A k \in K, i \in OrderIds : NoLists(K)[k][i] = 0
BY DEF NoLists

(* After an update the id is in the new list, no longer in the old one, and *)
(* every other entry is as it was.                                          *)
LEMMA ReindexEntries ==
    ASSUME status_index \in [OrderStatus -> [OrderIds -> Nat]],
           NEW id \in OrderIds, NEW old \in OrderStatus, NEW new \in OrderStatus
    PROVE  /\ Reindex(id, old, new) \in [OrderStatus -> [OrderIds -> Nat]]
           /\ \A s \in OrderStatus, i \in OrderIds : i # id =>
                  Reindex(id, old, new)[s][i] = status_index[s][i]
           /\ \A s \in OrderStatus : Reindex(id, old, new)[s][id] =
                  IF s = new THEN (IF s = old THEN 1 ELSE status_index[s][id] + 1)
                  ELSE IF s = old THEN 0 ELSE status_index[s][id]
<1> DEFINE erased == Erase(status_index, old, id)
<1>1. /\ erased \in [OrderStatus -> [OrderIds -> Nat]]
      /\ \A s \in OrderStatus, i \in OrderIds :
            erased[s][i] = IF s = old /\ i = id THEN 0 ELSE status_index[s][i]
  BY DEF Erase
<1>2. Reindex(id, old, new) = Push(erased, new, id)
  BY DEF Reindex
<1> HIDE DEF erased
<1>3. /\ Push(erased, new, id) \in [OrderStatus -> [OrderIds -> Nat]]
      /\ \A s \in OrderStatus, i \in OrderIds : Push(erased, new, id)[s][i] =
            IF s = new /\ i = id THEN erased[s][i] + 1 ELSE erased[s][i]
  BY <1>1 DEF Push
<1> QED BY <1>1, <1>2, <1>3

-------------------------------------------------------------------------------
(* The members of Next, named, for the case splits below.                   *)
LEMMA NextCases ==
    ASSUME [Next]_vars
    PROVE  \/ \E t \in Threads, u \in Users : CreateOrder(t, u)
           \/ \E t \in Threads, i \in OrderIds : DeleteOrder(t, i)
           \/ \E t \in Threads : Shutdown(t)
           \/ \E t \in Threads, i \in OrderIds : GetOrder(t, i)
           \/ \E t \in Threads, s \in OrderStatus : UpdateOrderStatus(t, s)
           \/ \E t \in Threads, s \in OrderStatus : UpdateFreedStatus(t, s)
           \/ \E t \in Threads : CancelOrder(t)
           \/ \E t \in Threads : EditOrder(t)
           \/ \E t \in Threads : ApplyDiscount(t)
           \/ \E t \in Threads : ApplyDiscountToFreed(t)
           \/ \E t \in Threads : RefuseDiscount(t)
           \/ \E t \in Threads : ReturnUnchanged(t)
           \/ \E t \in Threads, d \in Discounts : FindDiscount(t, d)
           \/ DiscountStep
           \/ UNCHANGED vars
BY ConstantsAssumption DEF Next, ThreadStep

(* The initial state has the right types.                                   *)
LEMMA TypeInit == Init => TypeOK
<1> SUFFICES ASSUME Init PROVE TypeOK
  OBVIOUS
<1>1. /\ user_order_index \in [Users -> [OrderIds -> Nat]]
      /\ status_index \in [OrderStatus -> [OrderIds -> Nat]]
  BY NoListsEntries DEF Init
<1> QED
  BY <1>1, ConstantsAssumption DEF Init, TypeOK

(* Every step keeps the types.                                              *)
LEMMA TypeNext == TypeOK /\ [Next]_vars => TypeOK'
<1> SUFFICES ASSUME TypeOK, [Next]_vars PROVE TypeOK'
  OBVIOUS
<1>1. ASSUME NEW t \in Threads, NEW u \in Users, CreateOrder(t, u)
      PROVE  TypeOK'
  <2>1. next_order_id \in OrderIds /\ next_order_id' \in 1..(MaxOrders + 1)
    BY <1>1, ConstantsAssumption DEF CreateOrder, NewId, OrderIds, TypeOK
  <2>2. orders' \in [OrderIds -> Order \cup {NoOrder}]
    BY <1>1 DEF CreateOrder, NewId, TypeOK, Order, OrderStatus
  <2>3. /\ user_order_index' \in [Users -> [OrderIds -> Nat]]
        /\ status_index' \in [OrderStatus -> [OrderIds -> Nat]]
    BY <1>1, <2>1 DEF CreateOrder, NewId, TypeOK, Push, OrderStatus
  <2> QED
    BY <1>1, <2>1, <2>2, <2>3 DEF CreateOrder, discountVars, TypeOK
<1>2. ASSUME NEW t \in Threads, NEW i \in OrderIds, DeleteOrder(t, i)
      PROVE  TypeOK'
  <2>1. orders' \in [OrderIds -> Order \cup {NoOrder}]
    BY <1>2 DEF DeleteOrder, TypeOK
  <2>2. /\ user_order_index' \in [Users -> [OrderIds -> Nat]]
        /\ status_index' \in [OrderStatus -> [OrderIds -> Nat]]
    BY <1>2 DEF DeleteOrder, TypeOK, Erase
  <2> QED
    BY <1>2, <2>1, <2>2 DEF DeleteOrder, discountVars, TypeOK
<1>3. ASSUME NEW t \in Threads, Shutdown(t)
      PROVE  TypeOK'
  <2>1. /\ user_order_index' \in [Users -> [OrderIds -> Nat]]
        /\ status_index' \in [OrderStatus -> [OrderIds -> Nat]]
    BY <1>3, NoListsEntries DEF Shutdown
  <2> QED
    BY <1>3, <2>1 DEF Shutdown, discountVars, TypeOK
<1>4. ASSUME NEW t \in Threads, NEW i \in OrderIds, GetOrder(t, i)
      PROVE  TypeOK'
  <2>1. [id |-> i, addr |-> orders[i].addr] \in Pointer
    BY <1>4 DEF GetOrder, Live, TypeOK, Order, Pointer
  <2> QED
    BY <1>4, <2>1 DEF GetOrder, discountVars, TypeOK
<1>5. ASSUME NEW t \in Threads, NEW s \in OrderStatus, UpdateOrderStatus(t, s)
      PROVE  TypeOK'
  <2>1. PICK i \in Aim(pend[t]) :
          /\ orders' = [orders EXCEPT ![i].status = s]
          /\ status_index' = Reindex(pend[t].id, orders[i].status, s)
    BY <1>5 DEF UpdateOrderStatus
  <2>2. i \in OrderIds /\ orders[i] \in Order /\ pend[t].id \in OrderIds
    BY <1>5 DEF UpdateOrderStatus, Return, Aim, Live, TypeOK, Pointer
  <2>3. orders' \in [OrderIds -> Order \cup {NoOrder}]
    BY <2>1, <2>2 DEF TypeOK, Order
  <2>4. status_index' \in [OrderStatus -> [OrderIds -> Nat]]
    BY <2>1, <2>2, ReindexEntries DEF TypeOK, Order
  <2>5. pend' \in [Threads -> Pointer \cup {Idle}] /\ UNCHANGED applying
    BY <1>5 DEF UpdateOrderStatus, Return, TypeOK
  <2> QED
    BY <1>5, <2>3, <2>4, <2>5 DEF UpdateOrderStatus, discountVars, TypeOK
<1>6. ASSUME NEW t \in Threads, NEW s \in OrderStatus, UpdateFreedStatus(t, s)
      PROVE  TypeOK'
  <2>1. PICK old \in OrderStatus : status_index' = Reindex(pend[t].id, old, s)
    BY <1>6 DEF UpdateFreedStatus
  <2>2. pend[t].id \in OrderIds
    BY <1>6 DEF UpdateFreedStatus, Return, TypeOK, Pointer
  <2>3. status_index' \in [OrderStatus -> [OrderIds -> Nat]]
    BY <2>1, <2>2, ReindexEntries DEF TypeOK
  <2> QED
    BY <1>6, <2>3 DEF UpdateFreedStatus, Return, discountVars, TypeOK
<1>7. ASSUME NEW t \in Threads, CancelOrder(t)
      PROVE  TypeOK'
  <2>1. PICK i \in Aim(pend[t]) : orders' = [orders EXCEPT ![i].status = "CANCELLED"]
    BY <1>7 DEF CancelOrder
  <2>2. orders[i] \in Order
    BY DEF Aim, Live, TypeOK
  <2>3. orders' \in [OrderIds -> Order \cup {NoOrder}]
    BY <2>1, <2>2 DEF TypeOK, Order, OrderStatus
  <2> QED
    BY <1>7, <2>3 DEF CancelOrder, Return, discountVars, TypeOK
<1>8. ASSUME NEW t \in Threads, EditOrder(t)
      PROVE  TypeOK'
  <2>1. orders' \in [OrderIds -> Order \cup {NoOrder}]
    BY <1>8, EditsKeepIdentity DEF EditOf, TypeOK, Aim, Live
  <2>2. /\ pend' \in [Threads -> Pointer \cup {Idle}]
        /\ UNCHANGED <<user_order_index, status_index, next_order_id, applying, discountVars>>
    BY <1>8 DEF EditOrder, AddOrderItem, RemoveOrderItem, UpdateItemQuantity,
                UpdateShippingInfo, ApplyCoupon, SetPaymentInfo, RemoveDiscount,
                Edit, Return, TypeOK
  <2> QED
    BY <2>1, <2>2 DEF discountVars, TypeOK
<1>9. ASSUME NEW t \in Threads, Finish(t) PROVE
            /\ applying \in Application
            /\ pend' \in [Threads -> Pointer \cup {Idle}]
            /\ CountUse => usage' \in [Discounts -> 0..MaxUsage]
            /\ orders' \in [OrderIds -> Order \cup {NoOrder}]
               /\ usage' \in [Discounts -> 0..MaxUsage]
               /\ former' \subseteq OrderIds \X Discounts
               => TypeOK'
  <2>1. applying \in Application
    BY <1>9 DEF Finish, TypeOK
  <2>2. CountUse => usage' \in [Discounts -> 0..MaxUsage]
    BY <2>1, ConstantsAssumption DEF CountUse, Count, TypeOK, Application, Discounts
  <2> QED
    BY <1>9, <2>1, <2>2 DEF Finish, TypeOK
<1>10. ASSUME NEW t \in Threads, ApplyDiscount(t)
       PROVE  TypeOK'
  <2>1. Finish(t) /\ applying.id \in Discounts
    BY <1>9, <1>10 DEF ApplyDiscount, Application
  <2>2. PICK i \in Aim(pend[t]) :
          /\ orders' = [orders EXCEPT ![i].discounts = @ \cup {applying.id}]
          /\ former' \subseteq former \cup {<<i, applying.id>>}
    BY <1>10 DEF ApplyDiscount
  <2>3. orders[i] \in Order /\ i \in OrderIds
    BY DEF Aim, Live, TypeOK
  <2>4. orders' \in [OrderIds -> Order \cup {NoOrder}]
    BY <2>1, <2>2, <2>3 DEF TypeOK, Order
  <2>5. former' \subseteq OrderIds \X Discounts
    BY <2>1, <2>2, <2>3 DEF TypeOK
  <2> QED
    BY <1>9, <1>10, <2>1, <2>4, <2>5 DEF ApplyDiscount
<1>11. ASSUME NEW t \in Threads, ApplyDiscountToFreed(t) \/ RefuseDiscount(t)
       PROVE  TypeOK'
  BY <1>9, <1>11 DEF ApplyDiscountToFreed, RefuseDiscount, TypeOK
<1>12. ASSUME NEW t \in Threads, ReturnUnchanged(t)
       PROVE  TypeOK'
  BY <1>12 DEF ReturnUnchanged, Return, discountVars, TypeOK
<1>13. ASSUME NEW t \in Threads, NEW d \in Discounts, FindDiscount(t, d)
       PROVE  TypeOK'
  <2>1. applying' \in Application
    BY <1>13, ConstantsAssumption DEF FindDiscount, Application, Discounts
  <2> QED
    BY <1>13, <2>1 DEF FindDiscount, orderVars, discountVars, TypeOK
<1>14. CASE DiscountStep
  <2>1. UNCHANGED orderVars
    BY <1>14 DEF DiscountStep, CreateDiscount, DeleteDiscount, ShutdownDiscounts
  <2>2. ASSUME NEW ids \in SUBSET Discounts
        PROVE  /\ Destroyed(ids) => /\ usage' \in [Discounts -> 0..MaxUsage]
                                    /\ former' \subseteq OrderIds \X Discounts
               /\ Left(ids) \in Application \cup {Idle}
    <3>1. Live \subseteq OrderIds
      BY DEF Live
    <3>2. Left(ids) \in Application \cup {Idle}
      BY ConstantsAssumption DEF Left, TypeOK, Application
    <3> QED
      BY <3>1, <3>2, ConstantsAssumption DEF Destroyed, TypeOK
  <2>3. CASE CreateDiscount
    <3>1. PICK new \in Discounts :
            /\ known' = known \cup {new} /\ Destroyed({new})
            /\ \/ applying' = Left({new})
               \/ /\ applying # Idle
                  /\ applying' = [applying EXCEPT !.target = new]
      BY <2>3 DEF CreateDiscount
    <3>2. ASSUME applying # Idle, applying' = [applying EXCEPT !.target = new]
          PROVE  applying' \in Application
      <4>1. applying \in Application /\ new \in 0..MaxDiscounts
        BY <3>2, ConstantsAssumption DEF TypeOK, Discounts
      <4> QED
        BY <3>2, <4>1 DEF Application
    <3>3. applying' \in Application \cup {Idle}
      BY <2>2, <3>1, <3>2
    <3> QED
      BY <2>1, <2>2, <3>1, <3>3 DEF orderVars, TypeOK
  <2>4. ASSUME NEW d \in Discounts, DeleteDiscount(d)
        PROVE  TypeOK'
    BY <2>1, <2>2, <2>4 DEF DeleteDiscount, orderVars, TypeOK
  <2>5. CASE ShutdownDiscounts
    BY <2>1, <2>2, <2>5 DEF ShutdownDiscounts, orderVars, TypeOK
  <2> QED
    BY <1>14, <2>3, <2>4, <2>5 DEF DiscountStep
<1>15. CASE UNCHANGED vars
  BY <1>15 DEF vars, orderVars, discountVars, TypeOK
<1> QED
  BY NextCases, <1>1, <1>2, <1>3, <1>4, <1>5, <1>6, <1>7, <1>8, <1>10,
     <1>11, <1>12, <1>13, <1>14, <1>15

(* Every reachable state of the store satisfies its type invariant.         *)
THEOREM TypeCorrect == Spec => []TypeOK
BY TypeInit, TypeNext, PTL DEF Spec

-------------------------------------------------------------------------------
(* Every second section leaves the set of orders, their owners and their    *)
(* addresses alone, and changes at most one order, by a legal transition.   *)
SecondSection(t) ==
    \/ \E s \in OrderStatus : UpdateOrderStatus(t, s)
    \/ \E s \in OrderStatus : UpdateFreedStatus(t, s)
    \/ CancelOrder(t)
    \/ EditOrder(t)
    \/ ApplyDiscount(t)
    \/ ApplyDiscountToFreed(t)
    \/ RefuseDiscount(t)
    \/ ReturnUnchanged(t)

OneOrderMoves ==
    \E i \in OrderIds :
        /\ orders' = [orders EXCEPT ![i] = orders'[i]]
        /\ i \in Live => /\ orders'[i] \in Order
                         /\ orders'[i].user = orders[i].user
                         /\ orders'[i].addr = orders[i].addr
                         /\ CanTransition(orders[i].status, orders'[i].status)
        /\ i \notin Live => orders'[i] = orders[i]

(* A second section changes at most the status and contents of the orders   *)
(* its pointer reaches, each by a transition can_transition_to allows.      *)
LEMMA SecondSectionMoves ==
    ASSUME TypeOK, NEW t \in Threads, SecondSection(t)
    PROVE  /\ pend[t] \in Pointer
           /\ pend' = [pend EXCEPT ![t] = Idle]
           /\ UNCHANGED <<user_order_index, next_order_id>>
           /\ OneOrderMoves
<1>1. /\ pend[t] # Idle
      /\ pend' = [pend EXCEPT ![t] = Idle]
      /\ UNCHANGED <<user_order_index, next_order_id>>
  BY DEF SecondSection, UpdateOrderStatus, UpdateFreedStatus, CancelOrder, EditOrder,
         ApplyDiscount, ApplyDiscountToFreed, RefuseDiscount, Finish, ReturnUnchanged,
         Return, AddOrderItem,
         RemoveOrderItem, UpdateItemQuantity, UpdateShippingInfo, ApplyCoupon,
         SetPaymentInfo, RemoveDiscount, Edit
<1>2. pend[t] \in Pointer /\ pend[t].id \in OrderIds
  BY <1>1 DEF TypeOK, Pointer
<1>3. \A i \in Aim(pend[t]) : i \in Live /\ i \in OrderIds /\ orders[i] \in Order
  BY DEF Aim, Live, TypeOK
<1>4. ASSUME UNCHANGED orders
      PROVE  OneOrderMoves
  <2>1. orders' = [orders EXCEPT ![pend[t].id] = orders'[pend[t].id]]
    BY <1>4 DEF TypeOK
  <2>2. pend[t].id \in Live => orders[pend[t].id] \in Order
    BY DEF Live, TypeOK
  <2> QED
    BY <1>2, <1>4, <2>1, <2>2 DEF OneOrderMoves, CanTransition
<1>5. ASSUME NEW i \in Aim(pend[t]), NEW n \in Order,
             orders' = [orders EXCEPT ![i] = n],
             n.user = orders[i].user, n.addr = orders[i].addr,
             CanTransition(orders[i].status, n.status)
      PROVE  OneOrderMoves
  <2>1. orders'[i] = n
    BY <1>3, <1>5 DEF TypeOK
  <2> QED
    BY <1>3, <1>5, <2>1 DEF OneOrderMoves
<1>6. ASSUME NEW s \in OrderStatus, UpdateOrderStatus(t, s)
      PROVE  OneOrderMoves
  <2>1. PICK i \in Aim(pend[t]) : /\ CanTransition(orders[i].status, s)
                                 /\ orders' = [orders EXCEPT ![i].status = s]
    BY <1>6 DEF UpdateOrderStatus
  <2> DEFINE n == [orders[i] EXCEPT !.status = s]
  <2>2. /\ n \in Order /\ n.user = orders[i].user /\ n.addr = orders[i].addr
        /\ n.status = s
    BY <1>3 DEF Order
  <2>3. orders' = [orders EXCEPT ![i] = n]
    BY <2>1
  <2> HIDE DEF n
  <2> QED BY <1>5, <2>1, <2>2, <2>3
<1>7. ASSUME CancelOrder(t)
      PROVE  OneOrderMoves
  <2>1. PICK i \in Aim(pend[t]) :
          /\ CanTransition(orders[i].status, "CANCELLED")
          /\ orders' = [orders EXCEPT ![i].status = "CANCELLED"]
    BY <1>7 DEF CancelOrder
  <2> DEFINE n == [orders[i] EXCEPT !.status = "CANCELLED"]
  <2>2. /\ n \in Order /\ n.user = orders[i].user /\ n.addr = orders[i].addr
        /\ n.status = "CANCELLED"
    BY <1>3 DEF Order, OrderStatus
  <2>3. orders' = [orders EXCEPT ![i] = n]
    BY <2>1
  <2> HIDE DEF n
  <2> QED BY <1>5, <2>1, <2>2, <2>3
<1>8. ASSUME EditOrder(t)
      PROVE  OneOrderMoves
  BY <1>5, <1>8, EditsKeepIdentity DEF EditOf, CanTransition
<1>9. ASSUME ApplyDiscount(t)
      PROVE  OneOrderMoves
  <2> DEFINE d == applying.id
  <2>0. d \in Discounts
    BY <1>9 DEF ApplyDiscount, Finish, TypeOK, Application
  <2>1. PICK i \in Aim(pend[t]) :
          orders' = [orders EXCEPT ![i].discounts = @ \cup {d}]
    BY <1>9 DEF ApplyDiscount
  <2> HIDE DEF d
  <2> DEFINE n == [orders[i] EXCEPT !.discounts = @ \cup {d}]
  <2>2. /\ n \in Order /\ n.user = orders[i].user /\ n.addr = orders[i].addr
        /\ n.status = orders[i].status
    BY <1>3, <2>0 DEF Order
  <2>3. orders' = [orders EXCEPT ![i] = n]
    BY <2>1
  <2> HIDE DEF n
  <2> QED BY <1>5, <2>2, <2>3 DEF CanTransition
<1>10. ASSUME \/ \E s \in OrderStatus : UpdateFreedStatus(t, s)
              \/ ApplyDiscountToFreed(t)
              \/ RefuseDiscount(t)
              \/ ReturnUnchanged(t)
       PROVE  OneOrderMoves
  BY <1>4, <1>10 DEF UpdateFreedStatus, ApplyDiscountToFreed, RefuseDiscount, ReturnUnchanged
<1> QED
  BY <1>1, <1>2, <1>6, <1>7, <1>8, <1>9, <1>10 DEF SecondSection

(* A step is a creation, a deletion, a shutdown, a lookup, a second section *)
(* or one of the DiscountManager, which touches no order.                   *)
LEMMA StepCases ==
    ASSUME [Next]_vars
    PROVE  \/ \E t \in Threads, u \in Users : CreateOrder(t, u)
           \/ \E t \in Threads, i \in OrderIds : DeleteOrder(t, i)
           \/ \E t \in Threads : Shutdown(t)
           \/ \E t \in Threads, i \in OrderIds : GetOrder(t, i)
           \/ \E t \in Threads : SecondSection(t)
           \/ UNCHANGED orderVars
BY NextCases DEF SecondSection, FindDiscount, DiscountStep, CreateDiscount, DeleteDiscount,
                 ShutdownDiscounts, vars

(* Such a change keeps the set of live orders, their owners and addresses.  *)
LEMMA MovesKeepIdentity ==
    ASSUME TypeOK, OneOrderMoves
    PROVE  /\ Live' = Live
           /\ \A i \in Live : /\ orders'[i].user = orders[i].user
                             /\ orders'[i].addr = orders[i].addr
<1>1. PICK i \in OrderIds :
        /\ orders' = [orders EXCEPT ![i] = orders'[i]]
        /\ i \in Live => /\ orders'[i] \in Order
                         /\ orders'[i].user = orders[i].user
                         /\ orders'[i].addr = orders[i].addr
        /\ i \notin Live => orders'[i] = orders[i]
  BY DEF OneOrderMoves
<1>2. \A j \in OrderIds : j # i => orders'[j] = orders[j]
  BY <1>1 DEF TypeOK
<1> QED
  BY <1>1, <1>2, ConstantsAssumption DEF Live

(* A created order is the only new one, at a fresh id and a fresh address.  *)
LEMMA CreateAdds ==
    ASSUME TypeOK, NEW t \in Threads, NEW u \in Users, CreateOrder(t, u)
    PROVE  LET n == next_order_id IN
           /\ n \in OrderIds /\ next_order_id' = n + 1 /\ UNCHANGED pend
           /\ \A j \in OrderIds : j # n => orders'[j] = orders[j]
           /\ orders'[n] \in Order
           /\ orders'[n].user = u /\ orders'[n].status = "CREATED"
           /\ \A j \in Live : orders[j].addr # orders'[n].addr
           /\ Live' = Live \cup {n}
<1>1. next_order_id \in OrderIds
  BY DEF CreateOrder, NewId
<1>2. PICK a \in Addrs, b \in ItemBag, s \in Addresses :
         /\ \A j \in Live : orders[j].addr # a
         /\ orders' = [orders EXCEPT ![next_order_id] =
                [user |-> u, addr |-> a, status |-> "CREATED", items |-> b,
                 shipping |-> s, discounts |-> {}, coupon |-> None,
                 payment |-> None]]
  BY DEF CreateOrder, NewId
<1>3. /\ orders'[next_order_id] \in Order
      /\ orders'[next_order_id].user = u
      /\ orders'[next_order_id].addr = a
      /\ orders'[next_order_id].status = "CREATED"
  BY <1>1, <1>2 DEF TypeOK, Order, OrderStatus
<1>4. \A j \in OrderIds : j # next_order_id => orders'[j] = orders[j]
  BY <1>2 DEF TypeOK
<1>5. Live' = Live \cup {next_order_id}
  BY <1>1, <1>3, <1>4, ConstantsAssumption DEF Live
<1> QED
  BY <1>1, <1>2, <1>3, <1>4, <1>5 DEF CreateOrder

(* A second section leaves status_index alone, or moves the id it was given *)
(* from one list to another: no other id is touched, and this one is listed.*)
LEMMA SecondSectionIndex ==
    ASSUME TypeOK, NEW t \in Threads, SecondSection(t),
           NEW i \in OrderIds, NEW s \in OrderStatus, status_index[s][i] > 0
    PROVE  \E r \in OrderStatus : status_index'[r][i] > 0
<1>1. ASSUME NEW new \in OrderStatus, NEW old \in OrderStatus,
             pend[t].id \in OrderIds,
             status_index' = Reindex(pend[t].id, old, new)
      PROVE  \E r \in OrderStatus : status_index'[r][i] > 0
  <2> DEFINE id == pend[t].id
  <2>1. /\ \A r \in OrderStatus, j \in OrderIds : j # id =>
              status_index'[r][j] = status_index[r][j]
        /\ status_index'[new][id] =
              IF new = old THEN 1 ELSE status_index[new][id] + 1
        /\ status_index[new][id] \in Nat
    BY <1>1, ReindexEntries DEF TypeOK
  <2> HIDE DEF id
  <2>2. CASE i = id
    BY <2>1, <2>2
  <2>3. CASE i # id
    BY <2>1, <2>3
  <2> QED
    BY <2>2, <2>3
<1>2. ASSUME NEW new \in OrderStatus, UpdateOrderStatus(t, new)
      PROVE  \E r \in OrderStatus : status_index'[r][i] > 0
  <2>1. PICK j \in Aim(pend[t]) :
          status_index' = Reindex(pend[t].id, orders[j].status, new)
    BY <1>2 DEF UpdateOrderStatus
  <2>2. orders[j].status \in OrderStatus /\ pend[t].id \in OrderIds
    BY <1>2 DEF UpdateOrderStatus, Return, Aim, Live, TypeOK, Order, Pointer
  <2> QED
    BY <1>1, <2>1, <2>2
<1>3. ASSUME NEW new \in OrderStatus, UpdateFreedStatus(t, new)
      PROVE  \E r \in OrderStatus : status_index'[r][i] > 0
  <2>1. pend[t].id \in OrderIds
    BY <1>3 DEF UpdateFreedStatus, Return, TypeOK, Pointer
  <2> QED
    BY <1>1, <1>3, <2>1 DEF UpdateFreedStatus
<1>4. ASSUME UNCHANGED status_index
      PROVE  \E r \in OrderStatus : status_index'[r][i] > 0
  BY <1>4
<1>5. ASSUME \/ CancelOrder(t)
             \/ EditOrder(t)
             \/ ApplyDiscount(t)
             \/ ApplyDiscountToFreed(t)
             \/ RefuseDiscount(t)
             \/ ReturnUnchanged(t)
      PROVE  UNCHANGED status_index
  BY <1>5 DEF CancelOrder, EditOrder, ApplyDiscount, ApplyDiscountToFreed,
              RefuseDiscount, Finish, ReturnUnchanged, AddOrderItem, RemoveOrderItem, UpdateItemQuantity,
              UpdateShippingInfo, ApplyCoupon, SetPaymentInfo, RemoveDiscount, Edit
<1> QED
  BY <1>2, <1>3, <1>4, <1>5 DEF SecondSection

(* The initial state satisfies the store's inductive invariant.             *)
LEMMA StoreInit == Init => StoreInv
<1> SUFFICES ASSUME Init, TypeOK PROVE StoreInv
  BY TypeInit
<1>1. Live = {}
  BY DEF Init, Live
<1>2. \A u \in Users, i \in OrderIds : user_order_index[u][i] = 0
  BY NoListsEntries DEF Init
<1> QED
  BY <1>1, <1>2 DEF Init, StoreInv, IdsIssued, AddressesDistinct, PointersIssued,
                    UserIndexExact, IndexComplete

(* Every step keeps the store's inductive invariant.                        *)
LEMMA StoreNext == StoreInv /\ [Next]_vars => StoreInv'
<1> SUFFICES ASSUME StoreInv, TypeOK, TypeOK', [Next]_vars PROVE StoreInv'
  BY TypeNext DEF StoreInv
<1> USE DEF StoreInv
<1>n. next_order_id \in Nat /\ \A i \in OrderIds : i \in Nat
  BY ConstantsAssumption DEF TypeOK, OrderIds
<1>1. ASSUME NEW t \in Threads, NEW u \in Users, CreateOrder(t, u)
      PROVE  StoreInv'
  <2> DEFINE n == next_order_id
  <2>1. /\ n \in OrderIds /\ next_order_id' = n + 1 /\ UNCHANGED pend
        /\ \A j \in OrderIds : j # n => orders'[j] = orders[j]
        /\ orders'[n] \in Order
        /\ orders'[n].user = u /\ orders'[n].status = "CREATED"
        /\ \A j \in Live : orders[j].addr # orders'[n].addr
        /\ Live' = Live \cup {n}
    BY <1>1, CreateAdds
  <2>2. n \notin Live /\ Live \subseteq OrderIds
    BY <1>n DEF IdsIssued, Live
  <2> HIDE DEF n
  <2>3. IdsIssued'
    BY <1>n, <2>1, <2>2 DEF IdsIssued, n
  <2>4. AddressesDistinct'
    BY <2>1, <2>2 DEF AddressesDistinct
  <2>5. PointersIssued'
    <3> SUFFICES ASSUME NEW v \in Threads, pend[v] # Idle
                 PROVE  /\ pend[v].id < next_order_id'
                        /\ pend[v].id \in Live' =>
                              orders'[pend[v].id].addr = pend[v].addr
      BY <2>1 DEF PointersIssued
    <3>1. pend[v].id \in OrderIds /\ pend[v].id < n
      BY DEF PointersIssued, n, TypeOK, Pointer
    <3>2. pend[v].id # n /\ pend[v].id < n + 1
      BY <1>n, <2>1, <3>1
    <3> QED
      BY <2>1, <3>1, <3>2 DEF PointersIssued
  <2>6. UserIndexExact'
    <3>1. user_order_index' = Push(user_order_index, u, n)
      BY <1>1 DEF CreateOrder, NewId, n
    <3>2. \A v \in Users, i \in OrderIds : user_order_index'[v][i] =
            IF v = u /\ i = n THEN user_order_index[v][i] + 1
            ELSE user_order_index[v][i]
      BY <2>1, <3>1 DEF Push, TypeOK
    <3> QED
      BY <2>1, <2>2, <3>2 DEF UserIndexExact
  <2>7. IndexComplete'
    <3>1. status_index' = Push(status_index, "CREATED", n)
      BY <1>1 DEF CreateOrder, NewId, n
    <3>2. /\ \A s \in OrderStatus, i \in OrderIds : i # n =>
                status_index'[s][i] = status_index[s][i]
          /\ status_index'["CREATED"][n] > 0 /\ "CREATED" \in OrderStatus
      BY <2>1, <3>1 DEF Push, TypeOK, OrderStatus
    <3> QED
      BY <2>1, <2>2, <3>2 DEF IndexComplete
  <2> QED
    BY <2>3, <2>4, <2>5, <2>6, <2>7
<1>2. ASSUME NEW t \in Threads, NEW i \in OrderIds, DeleteOrder(t, i)
      PROVE  StoreInv'
  <2>1. /\ i \in Live /\ orders[i] \in Order
        /\ \A j \in OrderIds : j # i => orders'[j] = orders[j]
        /\ Live' = Live \ {i}
        /\ UNCHANGED <<next_order_id, pend>>
    BY <1>2 DEF DeleteOrder, Live, TypeOK
  <2>2. Live \subseteq OrderIds
    BY DEF Live
  <2>3. IdsIssued' /\ AddressesDistinct'
    BY <2>1, <2>2 DEF IdsIssued, AddressesDistinct
  <2>4. PointersIssued'
    BY <2>1, <2>2 DEF PointersIssued
  <2>5. UserIndexExact'
    <3>1. \A v \in Users, j \in OrderIds : user_order_index'[v][j] =
            IF v = orders[i].user /\ j = i THEN 0 ELSE user_order_index[v][j]
      BY <1>2, <2>1 DEF DeleteOrder, Erase, TypeOK, Order
    <3> QED
      BY <2>1, <2>2, <3>1 DEF UserIndexExact
  <2>6. IndexComplete'
    <3>1. \A s \in OrderStatus, j \in OrderIds : j # i =>
            status_index'[s][j] = status_index[s][j]
      BY <1>2, <2>1 DEF DeleteOrder, Erase, TypeOK, Order
    <3> QED
      BY <2>1, <2>2, <3>1 DEF IndexComplete
  <2> QED
    BY <2>3, <2>4, <2>5, <2>6
<1>3. ASSUME NEW t \in Threads, Shutdown(t)
      PROVE  StoreInv'
  <2>1. Live' = {} /\ UNCHANGED <<next_order_id, pend>>
    BY <1>3 DEF Shutdown, Live
  <2>2. UserIndexExact'
    BY <1>3, <2>1, NoListsEntries DEF Shutdown, UserIndexExact
  <2> QED
    BY <2>1, <2>2 DEF IdsIssued, AddressesDistinct, PointersIssued, IndexComplete
<1>4. ASSUME NEW t \in Threads, NEW i \in OrderIds, GetOrder(t, i)
      PROVE  StoreInv'
  <2>1. /\ i \in Live /\ Live' = Live
        /\ pend' = [pend EXCEPT ![t] = [id |-> i, addr |-> orders[i].addr]]
        /\ UNCHANGED <<orders, user_order_index, status_index, next_order_id>>
    BY <1>4 DEF GetOrder, Live
  <2>2. IdsIssued' /\ AddressesDistinct' /\ UserIndexExact' /\ IndexComplete'
    BY <2>1 DEF IdsIssued, AddressesDistinct, UserIndexExact, IndexComplete
  <2>3. PointersIssued'
    BY <2>1 DEF PointersIssued, IdsIssued, TypeOK
  <2> QED
    BY <2>2, <2>3
<1>5. ASSUME NEW t \in Threads, SecondSection(t)
      PROVE  StoreInv'
  <2>1. /\ pend[t] \in Pointer
        /\ pend' = [pend EXCEPT ![t] = Idle]
        /\ UNCHANGED <<user_order_index, next_order_id>>
        /\ OneOrderMoves
    BY <1>5, SecondSectionMoves
  <2>2. /\ Live' = Live
        /\ \A i \in Live : /\ orders'[i].user = orders[i].user
                          /\ orders'[i].addr = orders[i].addr
    BY <2>1, MovesKeepIdentity
  <2>3. IdsIssued' /\ AddressesDistinct' /\ UserIndexExact'
    BY <2>1, <2>2 DEF IdsIssued, AddressesDistinct, UserIndexExact
  <2>4. PointersIssued'
    BY <2>1, <2>2 DEF PointersIssued, TypeOK
  <2>5. IndexComplete'
    <3> SUFFICES ASSUME NEW i \in Live
                 PROVE  \E r \in OrderStatus : status_index'[r][i] > 0
      BY <2>2 DEF IndexComplete
    <3>1. i \in OrderIds /\ \E s \in OrderStatus : status_index[s][i] > 0
      BY DEF Live, IndexComplete
    <3> QED
      BY <1>5, <3>1, SecondSectionIndex
  <2> QED
    BY <2>3, <2>4, <2>5
<1>6. CASE UNCHANGED orderVars
  BY <1>6 DEF orderVars, IdsIssued, AddressesDistinct, PointersIssued, UserIndexExact,
              IndexComplete, Live
<1> QED
  BY StepCases, <1>1, <1>2, <1>3, <1>4, <1>5, <1>6

(* The inductive invariant of the store: ids, addresses and pointers, and   *)
(* with them the user index and the completeness of the status index, for   *)
(* every number of threads, all of which may delete orders in use.          *)
THEOREM StoreCorrect == Spec => []StoreInv
BY StoreInit, StoreNext, PTL DEF Spec

(* get_user_orders and get_user_order_count answer from exactly the orders  *)
(* of the user, whatever the threads do.                                    *)
THEOREM UserIndexIsExact == Spec => []UserIndexExact
<1>1. StoreInv => UserIndexExact
  BY DEF StoreInv
<1> QED
  BY <1>1, StoreCorrect, PTL

(* No live order is missing from every status list.                         *)
THEOREM StatusIndexIsComplete == Spec => []IndexComplete
<1>1. StoreInv => IndexComplete
  BY DEF StoreInv
<1> QED
  BY <1>1, StoreCorrect, PTL

(* Distinct addresses make a pointer to a live order unambiguous.           *)
LEMMA ValidPointers == StoreInv => PointersValid
<1> SUFFICES ASSUME StoreInv, NEW t \in Threads, pend[t] # Idle, pend[t].id \in Live
             PROVE  Aim(pend[t]) = {pend[t].id}
  BY DEF PointersValid
<1>1. orders[pend[t].id].addr = pend[t].addr
  BY DEF StoreInv, PointersIssued
<1> QED
  BY <1>1 DEF Aim, StoreInv, AddressesDistinct

(* A pointer held between the two critical sections reaches its own order   *)
(* for as long as that order lives.                                         *)
THEOREM PointersStayValid == Spec => []PointersValid
BY StoreCorrect, ValidPointers, PTL

(* An order a second section changes is one its pointer reaches.            *)
LEMMA SecondSectionTouchesAim ==
    ASSUME TypeOK, NEW t \in Threads, SecondSection(t)
    PROVE  /\ pend[t] # Idle /\ pend'[t] = Idle
           /\ \A j \in OrderIds \ Aim(pend[t]) : orders'[j] = orders[j]
<1>1. /\ pend[t] # Idle
      /\ pend' = [pend EXCEPT ![t] = Idle]
  BY DEF SecondSection, UpdateOrderStatus, UpdateFreedStatus, CancelOrder, EditOrder,
         ApplyDiscount, ApplyDiscountToFreed, RefuseDiscount, Finish, ReturnUnchanged,
         Return, AddOrderItem,
         RemoveOrderItem, UpdateItemQuantity, UpdateShippingInfo, ApplyCoupon,
         SetPaymentInfo, RemoveDiscount, Edit
<1>2. ASSUME NEW i \in Aim(pend[t]), NEW o, orders' = [orders EXCEPT ![i] = o]
      PROVE  \A j \in OrderIds \ Aim(pend[t]) : orders'[j] = orders[j]
  BY <1>2 DEF TypeOK
<1>3. ASSUME NEW s \in OrderStatus, UpdateOrderStatus(t, s)
      PROVE  \A j \in OrderIds \ Aim(pend[t]) : orders'[j] = orders[j]
  BY <1>2, <1>3 DEF UpdateOrderStatus
<1>4. ASSUME CancelOrder(t)
      PROVE  \A j \in OrderIds \ Aim(pend[t]) : orders'[j] = orders[j]
  BY <1>2, <1>4 DEF CancelOrder
<1>5. ASSUME EditOrder(t)
      PROVE  \A j \in OrderIds \ Aim(pend[t]) : orders'[j] = orders[j]
  BY <1>2, <1>5, EditsKeepIdentity
<1>6. ASSUME ApplyDiscount(t)
      PROVE  \A j \in OrderIds \ Aim(pend[t]) : orders'[j] = orders[j]
  BY <1>2, <1>6 DEF ApplyDiscount
<1>7. ASSUME UNCHANGED orders
      PROVE  \A j \in OrderIds \ Aim(pend[t]) : orders'[j] = orders[j]
  BY <1>7
<1> QED
  BY <1>1, <1>3, <1>4, <1>5, <1>6, <1>7
     DEF SecondSection, UpdateFreedStatus, ApplyDiscountToFreed, RefuseDiscount,
         ReturnUnchanged, TypeOK

(* No operation changes another order than the one it names, as long as the *)
(* named order lives: the hazard of the two critical sections is confined   *)
(* to orders deleted between them.                                          *)
THEOREM EditsStayOnTarget == Spec => EditsReachNamedOrder
<1> DEFINE OnTarget ==
      \A i \in Live :
          orders'[i] \notin {orders[i], NoOrder} =>
              \E t \in Threads : /\ pend[t] # Idle
                                 /\ pend'[t] = Idle
                                 /\ \/ pend[t].id = i
                                    \/ pend[t].id \notin Live
<1>1. ASSUME StoreInv, [Next]_vars
      PROVE  [OnTarget]_vars
  <2>1. ASSUME NEW t \in Threads, NEW u \in Users, CreateOrder(t, u)
        PROVE  OnTarget
    <3>1. \A j \in OrderIds : j # next_order_id => orders'[j] = orders[j]
      BY <1>1, <2>1, CreateAdds DEF StoreInv
    <3>2. \A i \in Live : i \in OrderIds /\ i # next_order_id
      BY <1>1, ConstantsAssumption DEF StoreInv, TypeOK, IdsIssued, Live, OrderIds
    <3> QED
      BY <3>1, <3>2
  <2>2. ASSUME NEW t \in Threads, NEW i \in OrderIds, DeleteOrder(t, i)
        PROVE  OnTarget
    BY <1>1, <2>2 DEF DeleteOrder, Live, StoreInv, TypeOK
  <2>3. ASSUME NEW t \in Threads, Shutdown(t)
        PROVE  OnTarget
    BY <2>3 DEF Shutdown, Live
  <2>4. ASSUME NEW t \in Threads, NEW i \in OrderIds, GetOrder(t, i)
        PROVE  OnTarget
    BY <2>4 DEF GetOrder
  <2>5. ASSUME NEW t \in Threads, SecondSection(t)
        PROVE  OnTarget
    <3>1. /\ pend[t] # Idle /\ pend'[t] = Idle
          /\ \A j \in OrderIds \ Aim(pend[t]) : orders'[j] = orders[j]
      BY <1>1, <2>5, SecondSectionTouchesAim DEF StoreInv
    <3>2. pend[t].id \in Live => Aim(pend[t]) = {pend[t].id}
      BY <1>1, <3>1, ValidPointers DEF PointersValid
    <3> QED
      BY <3>1, <3>2 DEF Live
  <2>6. CASE UNCHANGED orderVars
    BY <2>6 DEF orderVars
  <2> QED
    BY <1>1, StepCases, <2>1, <2>2, <2>3, <2>4, <2>5, <2>6
<1> QED
  BY <1>1, StoreCorrect, PTL DEF Spec, EditsReachNamedOrder

-------------------------------------------------------------------------------
(* The store implements the abstract lifecycle.                             *)
LEMMA LifecycleInit == Init => Lifecycle!Init
<1> SUFFICES ASSUME Init PROVE Lifecycle!Init
  OBVIOUS
<1>1. Live = {} /\ next_order_id = 1 /\ \A i \in OrderIds : ~(i < 1)
  BY ConstantsAssumption DEF Init, Live, OrderIds
<1> QED
  BY <1>1 DEF Lifecycle!Init, AbstractStatus

(* A step of the store is a step of the lifecycle or leaves it alone.       *)
LEMMA LifecycleNext ==
    ASSUME StoreInv, StoreInv', [Next]_vars
    PROVE  [Lifecycle!Next]_AbstractStatus
<1> DEFINE S == AbstractStatus
<1>n. next_order_id \in Nat /\ \A i \in OrderIds : i \in Nat
  BY ConstantsAssumption DEF StoreInv, TypeOK, OrderIds
<1>l. /\ Live \subseteq OrderIds
      /\ \A i \in Live : orders[i] \in Order /\ i < next_order_id
      /\ \A i \in Live : orders[i].status \in OrderStatus
  BY DEF StoreInv, TypeOK, Live, IdsIssued, Order
<1>s. \A i \in Live : S[i] \in Lifecycle!OrderStatus
  BY <1>l DEF AbstractStatus, Lifecycle!OrderStatus, OrderStatus
<1>1. ASSUME NEW t \in Threads, NEW u \in Users, CreateOrder(t, u)
      PROVE  Lifecycle!Next
  <2> DEFINE n == next_order_id
  <2>1. /\ n \in OrderIds /\ next_order_id' = n + 1
        /\ \A j \in OrderIds : j # n => orders'[j] = orders[j]
        /\ orders'[n].status = "CREATED"
        /\ Live' = Live \cup {n}
    BY <1>1, CreateAdds DEF StoreInv
  <2>2. n \notin Live
    BY <1>n, <1>l
  <2>3. S[n] = "absent" /\ S'[n] = "CREATED"
    BY <1>n, <2>1, <2>2 DEF AbstractStatus
  <2>4. ASSUME NEW j \in OrderIds, j # n
        PROVE  S'[j] = S[j]
    <3>1. j < n + 1 <=> j < n
      BY <1>n, <2>4
    <3> QED
      BY <2>1, <2>4, <3>1 DEF AbstractStatus
  <2>5. S' = [S EXCEPT ![n] = "CREATED"]
    BY <2>3, <2>4 DEF AbstractStatus
  <2> QED
    BY <2>1, <2>3, <2>5 DEF Lifecycle!Next, Lifecycle!Open
<1>2. ASSUME NEW D \in SUBSET Live, Live' = Live \ D,
             \A j \in Live' : orders'[j] = orders[j], UNCHANGED next_order_id
      PROVE  Lifecycle!Next
  <2>1. S' = [i \in OrderIds |-> IF i \in D THEN "gone" ELSE S[i]]
    BY <1>l, <1>2 DEF AbstractStatus
  <2>2. Lifecycle!Forget(D)
    BY <1>s, <1>2, <2>1 DEF Lifecycle!Forget
  <2> QED
    BY <1>l, <1>2, <2>2 DEF Lifecycle!Next
<1>3. ASSUME NEW t \in Threads, NEW i \in OrderIds, DeleteOrder(t, i)
      PROVE  Lifecycle!Next
  <2>1. /\ {i} \in SUBSET Live /\ Live' = Live \ {i} /\ UNCHANGED next_order_id
        /\ \A j \in Live' : orders'[j] = orders[j]
    BY <1>3 DEF DeleteOrder, Live, StoreInv, TypeOK
  <2> QED
    BY <1>2, <2>1
<1>4. ASSUME NEW t \in Threads, Shutdown(t)
      PROVE  Lifecycle!Next
  <2>1. Live' = Live \ Live /\ UNCHANGED next_order_id
    BY <1>4 DEF Shutdown, Live
  <2> QED
    BY <1>2, <2>1
<1>5. ASSUME NEW t \in Threads, NEW i \in OrderIds, GetOrder(t, i)
      PROVE  UNCHANGED S
  BY <1>5 DEF GetOrder, AbstractStatus, Live
<1>6. ASSUME NEW t \in Threads, SecondSection(t)
      PROVE  Lifecycle!Next \/ UNCHANGED S
  <2>1. UNCHANGED next_order_id /\ OneOrderMoves /\ Live' = Live
    BY <1>6, SecondSectionMoves, MovesKeepIdentity DEF StoreInv
  <2>2. PICK i \in OrderIds :
          /\ orders' = [orders EXCEPT ![i] = orders'[i]]
          /\ i \in Live => /\ orders'[i] \in Order
                           /\ CanTransition(orders[i].status, orders'[i].status)
          /\ i \notin Live => orders'[i] = orders[i]
    BY <2>1 DEF OneOrderMoves
  <2>3. \A j \in OrderIds : j # i => S'[j] = S[j]
    BY <2>1, <2>2 DEF AbstractStatus, StoreInv, TypeOK
  <2>4. CASE i \notin Live \/ orders'[i].status = orders[i].status
    <3>1. S'[i] = S[i]
      BY <2>1, <2>4 DEF AbstractStatus
    <3> QED
      BY <2>3, <3>1 DEF AbstractStatus
  <2>5. CASE i \in Live /\ orders'[i].status # orders[i].status
    <3>1. /\ S[i] = orders[i].status /\ S'[i] = orders'[i].status
          /\ orders'[i].status \in Lifecycle!OrderStatus
      BY <2>1, <2>2, <2>5 DEF AbstractStatus, Order, OrderStatus, Lifecycle!OrderStatus
    <3>2. Lifecycle!Legal(S[i], S'[i])
      BY <2>2, <2>5, <3>1 DEF Lifecycle!Legal, Lifecycle!Final, CanTransition
    <3>3. S' = [S EXCEPT ![i] = S'[i]]
      BY <2>3 DEF AbstractStatus
    <3> QED
      BY <1>s, <2>5, <3>1, <3>2, <3>3 DEF Lifecycle!Next, Lifecycle!Move
  <2> QED
    BY <2>4, <2>5
<1>7. CASE UNCHANGED orderVars
  BY <1>7 DEF orderVars, AbstractStatus, Live
<1> QED
  BY StepCases, <1>1, <1>3, <1>4, <1>5, <1>6, <1>7

(* Every behaviour of the store, with any number of threads and with        *)
(* operations on deleted orders, is one of the abstract lifecycle: statuses *)
(* change by the business rules alone, CANCELLED and REFUNDED are final,    *)
(* and an id that is gone never comes back.                                 *)
THEOREM ImplementsLifecycle == Spec => LifecycleSpec
<1>1. Init => Lifecycle!Init
  BY LifecycleInit
<1>2. StoreInv /\ StoreInv' /\ [Next]_vars => [Lifecycle!Next]_AbstractStatus
  BY LifecycleNext
<1> QED
  BY <1>1, <1>2, StoreCorrect, PTL DEF Spec, LifecycleSpec, Lifecycle!Spec

-------------------------------------------------------------------------------
(* The status index, where deletions are exclusive.                         *)
(* A creation keeps the exact status index.                                 *)
LEMMA CreateKeepsExclusive ==
    ASSUME ExclusiveInv, NEW t \in Threads, NEW u \in Users, CreateOrder(t, u)
    PROVE  PointersLive' /\ UnissuedUnlisted' /\ StatusIndexExact'
<1> USE DEF ExclusiveInv
<1> DEFINE n == next_order_id
<1>0. TypeOK /\ n \in Nat /\ \A i \in OrderIds : i \in Nat
  BY ConstantsAssumption DEF StoreInv, TypeOK, OrderIds
<1>1. /\ n \in OrderIds /\ next_order_id' = n + 1 /\ UNCHANGED pend
      /\ \A j \in OrderIds : j # n => orders'[j] = orders[j]
      /\ orders'[n].status = "CREATED"
      /\ Live' = Live \cup {n}
  BY <1>0, CreateAdds
<1>2. n \notin Live /\ Live \subseteq OrderIds
  BY <1>0 DEF StoreInv, IdsIssued, Live
<1>3. \A s \in OrderStatus, i \in OrderIds : status_index'[s][i] =
        IF i = n /\ s = "CREATED" THEN status_index[s][i] + 1 ELSE status_index[s][i]
  BY <1>0, <1>1 DEF CreateOrder, NewId, Push, TypeOK, OrderStatus
<1>4. \A s \in OrderStatus : status_index[s][n] = 0
  BY <1>0, <1>1 DEF UnissuedUnlisted
<1> HIDE DEF n
<1>5. PointersLive'
  BY <1>1 DEF PointersLive
<1>6. UnissuedUnlisted'
  <2> SUFFICES ASSUME NEW i \in OrderIds, NEW s \in OrderStatus, i >= n + 1
               PROVE  status_index'[s][i] = 0
    BY <1>1 DEF UnissuedUnlisted
  <2>1. i # n /\ i >= next_order_id
    BY <1>0 DEF n
  <2> QED
    BY <1>3, <2>1 DEF UnissuedUnlisted
<1>7. StatusIndexExact'
  BY <1>1, <1>2, <1>3, <1>4 DEF StatusIndexExact
<1> QED
  BY <1>5, <1>6, <1>7

(* A deletion keeps the exact status index.                                 *)
LEMMA DeleteKeepsExclusive ==
    ASSUME DeletesExclusive, ExclusiveInv,
           NEW t \in Threads, NEW i \in OrderIds, DeleteOrder(t, i)
    PROVE  PointersLive' /\ UnissuedUnlisted' /\ StatusIndexExact'
<1> USE DEF ExclusiveInv
<1>0. TypeOK
  BY DEF StoreInv
<1>1. \A v \in Threads : v = t /\ pend[v] = Idle /\ pend'[v] = Idle
  BY DEF DeleteOrder, DeletesExclusive
<1>2. /\ i \in Live /\ orders[i] \in Order
      /\ \A j \in OrderIds : j # i => orders'[j] = orders[j]
      /\ Live' = Live \ {i} /\ Live \subseteq OrderIds
      /\ UNCHANGED next_order_id
  BY <1>0 DEF DeleteOrder, Live, TypeOK
<1>3. \A s \in OrderStatus, j \in OrderIds :
        /\ j # i => status_index'[s][j] = status_index[s][j]
        /\ status_index'[s][j] \in {0, status_index[s][j]}
  BY <1>0, <1>2 DEF DeleteOrder, Erase, TypeOK, Order
<1>4. PointersLive'
  BY <1>1 DEF PointersLive
<1>5. UnissuedUnlisted'
  BY <1>2, <1>3 DEF UnissuedUnlisted
<1>6. StatusIndexExact'
  BY <1>2, <1>3 DEF StatusIndexExact
<1> QED
  BY <1>4, <1>5, <1>6

(* A shutdown keeps the exact status index.                                 *)
LEMMA ShutdownKeepsExclusive ==
    ASSUME DeletesExclusive, ExclusiveInv, NEW t \in Threads, Shutdown(t)
    PROVE  PointersLive' /\ UnissuedUnlisted' /\ StatusIndexExact'
<1>1. \A v \in Threads : v = t /\ pend'[v] = Idle
  BY DEF Shutdown, DeletesExclusive
<1>2. Live' = {} /\ \A s \in OrderStatus, j \in OrderIds : status_index'[s][j] = 0
  BY NoListsEntries DEF Shutdown, Live
<1> QED
  BY <1>1, <1>2 DEF PointersLive, UnissuedUnlisted, StatusIndexExact

(* A second section keeps the exact status index.                           *)
LEMMA SecondSectionKeepsExclusive ==
    ASSUME ExclusiveInv, NEW t \in Threads, SecondSection(t)
    PROVE  PointersLive' /\ UnissuedUnlisted' /\ StatusIndexExact'
<1> USE DEF ExclusiveInv
<1> DEFINE id == pend[t].id
<1>0. TypeOK /\ next_order_id \in Nat /\ \A i \in OrderIds : i \in Nat
  BY ConstantsAssumption DEF StoreInv, TypeOK, OrderIds
<1>1. /\ pend[t] \in Pointer /\ pend' = [pend EXCEPT ![t] = Idle]
      /\ UNCHANGED next_order_id /\ OneOrderMoves /\ Live' = Live
      /\ Live \subseteq OrderIds
  BY <1>0, SecondSectionMoves, MovesKeepIdentity DEF Live
<1>2. pend[t] # Idle /\ id \in Live /\ Aim(pend[t]) = {id}
  BY <1>1, ConstantsAssumption, ValidPointers DEF PointersLive, PointersValid
<1>3. id < next_order_id /\ id \in OrderIds
  BY <1>1, <1>2 DEF StoreInv, IdsIssued
<1>4. orders[id] \in Order /\ orders[id].status \in OrderStatus
  BY <1>0, <1>2, <1>3 DEF TypeOK, Live, Order
<1>5. PointersLive'
  BY <1>0, <1>1 DEF PointersLive, TypeOK
<1>6. ASSUME UNCHANGED status_index,
             \A i \in Live : orders'[i].status \in {orders[i].status, "CANCELLED"}
      PROVE  UnissuedUnlisted' /\ StatusIndexExact'
  BY <1>1, <1>6 DEF UnissuedUnlisted, StatusIndexExact
<1>7. ASSUME NEW s \in OrderStatus, UpdateOrderStatus(t, s)
      PROVE  UnissuedUnlisted' /\ StatusIndexExact'
  <2>1. /\ CanTransition(orders[id].status, s)
        /\ orders' = [orders EXCEPT ![id].status = s]
        /\ status_index' = Reindex(id, orders[id].status, s)
    BY <1>2, <1>7 DEF UpdateOrderStatus
  <2>2. /\ \A i \in OrderIds : i # id => orders'[i] = orders[i]
        /\ orders'[id].status = s
    BY <1>0, <1>3, <1>4, <2>1 DEF TypeOK, Order
  <2>3. /\ \A r \in OrderStatus, i \in OrderIds : i # id =>
              status_index'[r][i] = status_index[r][i]
        /\ \A r \in OrderStatus : status_index'[r][id] =
              IF r = s
              THEN (IF r = orders[id].status THEN 1 ELSE status_index[r][id] + 1)
              ELSE IF r = orders[id].status THEN 0 ELSE status_index[r][id]
    BY <1>0, <1>3, <1>4, <2>1, ReindexEntries DEF TypeOK
  <2>4. UnissuedUnlisted'
    BY <1>0, <1>1, <1>3, <2>3 DEF UnissuedUnlisted
  <2>5. CASE s = "CANCELLED"
    BY <1>1, <2>2, <2>3, <2>4, <2>5 DEF StatusIndexExact
  <2>6. CASE s # "CANCELLED"
    <3>1. orders[id].status # "CANCELLED"
      BY <2>1, <2>6 DEF CanTransition
    <3>2. \A r \in OrderStatus : status_index'[r][id] = IF r = s THEN 1 ELSE 0
      BY <1>2, <2>3, <3>1 DEF StatusIndexExact
    <3> QED
      BY <1>1, <2>2, <2>3, <2>4, <3>2 DEF StatusIndexExact
  <2> QED
    BY <2>5, <2>6
<1>8. ASSUME CancelOrder(t)
      PROVE  UnissuedUnlisted' /\ StatusIndexExact'
  <2>1. /\ orders' = [orders EXCEPT ![id].status = "CANCELLED"]
        /\ UNCHANGED status_index
    BY <1>2, <1>8 DEF CancelOrder
  <2>2. \A i \in Live : orders'[i].status \in {orders[i].status, "CANCELLED"}
    BY <1>0, <1>1, <1>3, <1>4, <2>1 DEF TypeOK, Order
  <2> QED
    BY <1>6, <2>1, <2>2
<1>9. ASSUME EditOrder(t)
      PROVE  UnissuedUnlisted' /\ StatusIndexExact'
  <2>1. UNCHANGED status_index
    BY <1>9 DEF EditOrder, AddOrderItem, RemoveOrderItem, UpdateItemQuantity,
                UpdateShippingInfo, ApplyCoupon, SetPaymentInfo, RemoveDiscount, Edit
  <2>2. \E n \in Order : EditOf(orders[id], n) /\ orders' = [orders EXCEPT ![id] = n]
    BY <1>0, <1>2, <1>9, EditsKeepIdentity
  <2>3. \A i \in Live : orders'[i].status = orders[i].status
    BY <1>0, <1>1, <1>3, <2>2 DEF EditOf, TypeOK
  <2> QED
    BY <1>6, <2>1, <2>3
<1>10. ASSUME ApplyDiscount(t)
       PROVE  UnissuedUnlisted' /\ StatusIndexExact'
  <2>1. /\ orders' = [orders EXCEPT ![id].discounts = @ \cup {applying.id}]
        /\ UNCHANGED status_index
    BY <1>2, <1>10 DEF ApplyDiscount, Finish
  <2>2. \A i \in Live : orders'[i].status = orders[i].status
    BY <1>0, <1>1, <1>3, <1>4, <2>1 DEF TypeOK, Order
  <2> QED
    BY <1>6, <2>1, <2>2
<1>11. ASSUME ReturnUnchanged(t) \/ RefuseDiscount(t)
       PROVE  UnissuedUnlisted' /\ StatusIndexExact'
  BY <1>6, <1>11 DEF ReturnUnchanged, RefuseDiscount, Finish
<1>12. /\ \A s \in OrderStatus : ~UpdateFreedStatus(t, s)
       /\ ~ApplyDiscountToFreed(t)
  BY <1>2 DEF UpdateFreedStatus, ApplyDiscountToFreed
<1> QED
  BY <1>5, <1>7, <1>8, <1>9, <1>10, <1>11, <1>12 DEF SecondSection

(* Where no order is deleted under another thread, ExclusiveInv is          *)
(* inductive.                                                               *)
LEMMA ExclusiveInit == Init => ExclusiveInv
<1> SUFFICES ASSUME Init PROVE ExclusiveInv
  OBVIOUS
<1>1. /\ Live = {}
      /\ \A s \in OrderStatus, i \in OrderIds : status_index[s][i] = 0
  BY NoListsEntries DEF Init, Live
<1>2. StoreInv
  BY StoreInit
<1> QED
  BY <1>1, <1>2 DEF Init, ExclusiveInv, PointersLive, UnissuedUnlisted, StatusIndexExact

LEMMA ExclusiveNext ==
    ASSUME DeletesExclusive
    PROVE  ExclusiveInv /\ [Next]_vars => ExclusiveInv'
<1> SUFFICES ASSUME ExclusiveInv, [Next]_vars PROVE ExclusiveInv'
  OBVIOUS
<1>1. StoreInv'
  BY StoreNext DEF ExclusiveInv
<1>2. ASSUME NEW t \in Threads, NEW i \in OrderIds, GetOrder(t, i)
      PROVE  PointersLive' /\ UnissuedUnlisted' /\ StatusIndexExact'
  <2>1. /\ UNCHANGED <<orders, status_index, next_order_id>> /\ Live' = Live
        /\ \A v \in Threads : pend'[v] = pend[v] \/ (v = t /\ pend'[v].id = i)
        /\ i \in Live
    BY <1>2 DEF GetOrder, Live, ExclusiveInv, StoreInv, TypeOK
  <2> QED
    BY <2>1 DEF ExclusiveInv, PointersLive, UnissuedUnlisted, StatusIndexExact
<1>3. CASE UNCHANGED orderVars
  BY <1>1, <1>3 DEF orderVars, Live, ExclusiveInv, PointersLive, UnissuedUnlisted,
                    StatusIndexExact
<1> QED
  BY <1>1, <1>2, <1>3, StepCases, CreateKeepsExclusive, DeleteKeepsExclusive,
     ShutdownKeepsExclusive, SecondSectionKeepsExclusive DEF ExclusiveInv

(* The status index is then exact for every order that is not cancelled,    *)
(* with any number of threads and any interleaving of their operations.     *)
THEOREM StatusIndexIsExact ==
    ASSUME DeletesExclusive
    PROVE  Spec => []StatusIndexExact
<1>1. ExclusiveInv => StatusIndexExact
  BY DEF ExclusiveInv
<1> QED
  BY <1>1, ExclusiveInit, ExclusiveNext, PTL DEF Spec

-------------------------------------------------------------------------------
(* What cancelled and deleted orders leave in the lists: it is what was     *)
(* there of them when they were cancelled, and an order in no list but      *)
(* CANCELLED gets into no other.                                            *)
Leaves(index, i) ==
    /\ \A s \in OrderStatus : index[s][i] \in {0, 1}
    /\ \A s1, s2 \in OrderStatus \ {"CANCELLED"} :
          index[s1][i] = 1 /\ index[s2][i] = 1 => s1 = s2

Stale(i) == i \notin Live \/ orders[i].status = "CANCELLED"

LEMMA StaleIsBounded ==
    StaleEntriesBounded <=>
        \A i \in OrderIds : Stale(i) =>
            /\ Leaves(status_index, i)
            /\ i \notin Live => status_index["CANCELLED"][i] = 0
  BY DEF StaleEntriesBounded, Stale, Leaves

(* An exact entry leaves one entry at most. *)
LEMMA ExactLeaves ==
    ASSUME StatusIndexExact, NEW i \in Live, orders[i].status # "CANCELLED", i \in OrderIds
    PROVE  Leaves(status_index, i) /\ status_index["CANCELLED"][i] = 0
  BY DEF StatusIndexExact, Leaves, OrderStatus

LEMMA CreateKeepsStale ==
    ASSUME ExclusiveInv, StaleEntriesBounded, NEW t \in Threads, NEW u \in Users,
           CreateOrder(t, u)
    PROVE  StaleEntriesBounded'
<1> USE DEF ExclusiveInv
<1> DEFINE n == next_order_id
<1>0. TypeOK /\ n \in Nat /\ \A i \in OrderIds : i \in Nat
  BY ConstantsAssumption DEF StoreInv, TypeOK, OrderIds
<1>1. /\ n \in OrderIds
      /\ \A j \in OrderIds : j # n => orders'[j] = orders[j]
      /\ orders'[n].status = "CREATED"
      /\ Live' = Live \cup {n}
  BY <1>0, CreateAdds
<1>2. \A s \in OrderStatus, i \in OrderIds : i # n => status_index'[s][i] = status_index[s][i]
  BY <1>0, <1>1 DEF CreateOrder, NewId, Push, TypeOK, OrderStatus
<1> HIDE DEF n
<1>3. ASSUME NEW i \in OrderIds, Stale(i)'
      PROVE  i # n /\ Stale(i) /\ (i \notin Live' <=> i \notin Live)
  BY <1>1, <1>3 DEF Stale
<1> QED
  BY <1>2, <1>3 DEF StaleEntriesBounded, Stale, OrderStatus

LEMMA DeleteKeepsStale ==
    ASSUME ExclusiveInv, StaleEntriesBounded, NEW t \in Threads, NEW i \in OrderIds,
           DeleteOrder(t, i)
    PROVE  StaleEntriesBounded'
<1> USE DEF ExclusiveInv
<1>0. TypeOK
  BY DEF StoreInv
<1>1. /\ i \in Live /\ orders[i] \in Order
      /\ \A j \in OrderIds : j # i => orders'[j] = orders[j]
      /\ Live' = Live \ {i} /\ Live \subseteq OrderIds
  BY <1>0 DEF DeleteOrder, Live, TypeOK
<1>2. \A s \in OrderStatus, j \in OrderIds :
        /\ j # i => status_index'[s][j] = status_index[s][j]
        /\ status_index'[s][j] \in {0, status_index[s][j]}
        /\ s = orders[i].status => status_index'[s][i] = 0
  BY <1>0, <1>1 DEF DeleteOrder, Erase, TypeOK, Order
<1>3. Leaves(status_index, i)
  BY <1>1, ExactLeaves, StaleIsBounded DEF Stale
<1>4. Leaves(status_index', i) /\ status_index'["CANCELLED"][i] = 0
  <2>1. Leaves(status_index', i)
    BY <1>2, <1>3 DEF Leaves
  <2>2. CASE orders[i].status = "CANCELLED"
    BY <1>2, <2>1, <2>2 DEF OrderStatus
  <2>3. CASE orders[i].status # "CANCELLED"
    <3>1. status_index["CANCELLED"][i] = 0 /\ "CANCELLED" \in OrderStatus
      BY <1>1, <2>3, ExactLeaves DEF OrderStatus
    <3> QED
      BY <1>2, <2>1, <3>1
  <2> QED
    BY <2>2, <2>3
<1>5. ASSUME NEW j \in OrderIds, j # i, Stale(j)'
      PROVE  /\ Leaves(status_index', j)
             /\ j \notin Live' => status_index'["CANCELLED"][j] = 0
  <2>1. Stale(j) /\ (j \notin Live' => j \notin Live)
    BY <1>1, <1>5 DEF Stale
  <2>2. Leaves(status_index, j) /\ (j \notin Live => status_index["CANCELLED"][j] = 0)
    BY <2>1, StaleIsBounded
  <2> QED
    BY <1>2, <1>5, <2>1, <2>2 DEF Leaves, OrderStatus
<1> QED
  BY <1>4, <1>5 DEF StaleEntriesBounded, Leaves, Stale

LEMMA SecondSectionKeepsStale ==
    ASSUME ExclusiveInv, StaleEntriesBounded, NEW t \in Threads, SecondSection(t)
    PROVE  StaleEntriesBounded'
<1> USE DEF ExclusiveInv
<1> DEFINE id == pend[t].id
<1>0. TypeOK
  BY DEF StoreInv
<1>1. /\ pend[t] \in Pointer /\ Live' = Live /\ Live \subseteq OrderIds
  BY <1>0, SecondSectionMoves, MovesKeepIdentity DEF Live
<1>2. pend[t] # Idle /\ id \in Live /\ Aim(pend[t]) = {id} /\ id \in OrderIds
  BY <1>1, ConstantsAssumption, ValidPointers DEF PointersLive, PointersValid, SecondSection,
     StoreInv
<1>3. orders[id] \in Order /\ orders[id].status \in OrderStatus
  BY <1>0, <1>2 DEF TypeOK, Live, Order
<1>4. ASSUME UNCHANGED status_index,
             \A i \in Live : orders'[i].status \in {orders[i].status, "CANCELLED"}
      PROVE  StaleEntriesBounded'
  <2>1. ASSUME NEW i \in OrderIds, Stale(i)'
        PROVE  /\ Leaves(status_index, i)
               /\ i \notin Live => status_index["CANCELLED"][i] = 0
    BY <1>1, <2>1, ExactLeaves, StaleIsBounded DEF Stale
  <2> QED
    BY <1>1, <1>4, <2>1 DEF StaleEntriesBounded, Leaves, Stale
<1>5. ASSUME NEW s \in OrderStatus, UpdateOrderStatus(t, s)
      PROVE  StaleEntriesBounded'
  <2>1. /\ CanTransition(orders[id].status, s)
        /\ orders' = [orders EXCEPT ![id].status = s]
        /\ status_index' = Reindex(id, orders[id].status, s)
    BY <1>2, <1>5 DEF UpdateOrderStatus
  <2>2. /\ \A i \in OrderIds : i # id => orders'[i] = orders[i]
        /\ orders'[id].status = s
        /\ orders[id].status # "CANCELLED" \/ s = "CANCELLED"
    BY <1>0, <1>2, <1>3, <2>1 DEF TypeOK, Order, CanTransition
  <2>3. /\ \A r \in OrderStatus, i \in OrderIds : i # id =>
              status_index'[r][i] = status_index[r][i]
        /\ \A r \in OrderStatus : status_index'[r][id] =
              IF r = s
              THEN (IF r = orders[id].status THEN 1 ELSE status_index[r][id] + 1)
              ELSE IF r = orders[id].status THEN 0 ELSE status_index[r][id]
    BY <1>0, <1>2, <1>3, <2>1, ReindexEntries DEF TypeOK
  <2>4. ASSUME orders[id].status # "CANCELLED"
        PROVE  Leaves(status_index', id)
    <3>1. \A r \in OrderStatus : status_index'[r][id] = IF r = s THEN 1 ELSE 0
      BY <1>2, <2>3, <2>4 DEF StatusIndexExact
    <3> QED
      BY <3>1 DEF Leaves
  <2>5. ASSUME orders[id].status = "CANCELLED"
        PROVE  Leaves(status_index', id)
    <3>1. Leaves(status_index, id)
      BY <1>2, <2>5, StaleIsBounded DEF Stale
    <3>2. /\ status_index'["CANCELLED"][id] = 1
          /\ \A r \in OrderStatus \ {"CANCELLED"} : status_index'[r][id] = status_index[r][id]
      BY <2>2, <2>3, <2>5 DEF OrderStatus
    <3> QED
      BY <3>1, <3>2 DEF Leaves
  <2>6. ASSUME NEW i \in OrderIds, i # id, Stale(i)'
        PROVE  /\ Leaves(status_index', i)
               /\ i \notin Live' => status_index'["CANCELLED"][i] = 0
    <3>1. Stale(i)
      BY <1>1, <2>2, <2>6 DEF Stale
    <3>2. Leaves(status_index, i) /\ (i \notin Live => status_index["CANCELLED"][i] = 0)
      BY <3>1, StaleIsBounded
    <3> QED
      BY <1>1, <2>3, <2>6, <3>2 DEF Leaves, OrderStatus
  <2> QED
    BY <1>1, <1>2, <2>4, <2>5, <2>6 DEF StaleEntriesBounded, Leaves, Stale
<1>6. ASSUME CancelOrder(t)
      PROVE  StaleEntriesBounded'
  <2>1. /\ orders' = [orders EXCEPT ![id].status = "CANCELLED"]
        /\ UNCHANGED status_index
    BY <1>2, <1>6 DEF CancelOrder
  <2>2. \A i \in Live : orders'[i].status \in {orders[i].status, "CANCELLED"}
    BY <1>0, <1>1, <1>2, <1>3, <2>1 DEF TypeOK, Order
  <2> QED
    BY <1>4, <2>1, <2>2
<1>7. ASSUME EditOrder(t)
      PROVE  StaleEntriesBounded'
  <2>1. UNCHANGED status_index
    BY <1>7 DEF EditOrder, AddOrderItem, RemoveOrderItem, UpdateItemQuantity,
                UpdateShippingInfo, ApplyCoupon, SetPaymentInfo, RemoveDiscount, Edit
  <2>2. \E n \in Order : EditOf(orders[id], n) /\ orders' = [orders EXCEPT ![id] = n]
    BY <1>0, <1>2, <1>7, EditsKeepIdentity
  <2>3. \A i \in Live : orders'[i].status = orders[i].status
    BY <1>0, <1>1, <1>2, <2>2 DEF EditOf, TypeOK
  <2> QED
    BY <1>4, <2>1, <2>3
<1>8. ASSUME ApplyDiscount(t)
      PROVE  StaleEntriesBounded'
  <2>1. /\ orders' = [orders EXCEPT ![id].discounts = @ \cup {applying.id}]
        /\ UNCHANGED status_index
    BY <1>2, <1>8 DEF ApplyDiscount, Finish
  <2>2. \A i \in Live : orders'[i].status = orders[i].status
    BY <1>0, <1>1, <1>2, <1>3, <2>1 DEF TypeOK, Order
  <2> QED
    BY <1>4, <2>1, <2>2
<1>9. ASSUME ReturnUnchanged(t) \/ RefuseDiscount(t)
      PROVE  StaleEntriesBounded'
  BY <1>4, <1>9 DEF ReturnUnchanged, RefuseDiscount, Finish
<1>10. /\ \A s \in OrderStatus : ~UpdateFreedStatus(t, s)
       /\ ~ApplyDiscountToFreed(t)
  BY <1>2 DEF UpdateFreedStatus, ApplyDiscountToFreed
<1> QED
  BY <1>5, <1>6, <1>7, <1>8, <1>9, <1>10 DEF SecondSection

(* What cancel_order leaves behind in the status index stays bounded: an id *)
(* that is cancelled or deleted has one entry at most beside CANCELLED, and *)
(* a deleted one none in CANCELLED, with any number of threads if none of   *)
(* them deletes, and with one that does.                                    *)
THEOREM StaleEntriesAreBounded ==
    ASSUME DeletesExclusive
    PROVE  Spec => []StaleEntriesBounded
<1>1. Init => StaleEntriesBounded
  BY NoListsEntries DEF Init, StaleEntriesBounded, Live, OrderStatus
<1>2. ExclusiveInv /\ StaleEntriesBounded /\ [Next]_vars => StaleEntriesBounded'
  <2> SUFFICES ASSUME ExclusiveInv, StaleEntriesBounded, [Next]_vars
               PROVE  StaleEntriesBounded'
    OBVIOUS
  <2>1. UNCHANGED <<orders, status_index>> => StaleEntriesBounded'
    BY DEF StaleEntriesBounded, Live
  <2>2. ASSUME NEW t \in Threads, NEW i \in OrderIds, GetOrder(t, i)
        PROVE  StaleEntriesBounded'
    BY <2>1, <2>2 DEF GetOrder
  <2>3. ASSUME NEW t \in Threads, Shutdown(t)
        PROVE  StaleEntriesBounded'
    BY <2>3, NoListsEntries DEF Shutdown, StaleEntriesBounded, Live, OrderStatus
  <2>4. CASE UNCHANGED orderVars
    BY <2>1, <2>4 DEF orderVars
  <2> QED
    BY <2>2, <2>3, <2>4, StepCases, CreateKeepsStale, DeleteKeepsStale,
       SecondSectionKeepsStale DEF ExclusiveInv
<1> QED
  BY <1>1, <1>2, ExclusiveInit, ExclusiveNext, PTL DEF Spec

-------------------------------------------------------------------------------
(* How often a discount was used.                                           *)
LEMMA FewHolders ==
    ASSUME TypeOK, NEW d
    PROVE  IsFiniteSet(HoldersOf(d)) /\ Cardinality(HoldersOf(d)) \in Nat
<1>1. IsFiniteSet(OrderIds)
  BY ConstantsAssumption, FS_Interval DEF OrderIds
<1>2. HoldersOf(d) \subseteq OrderIds
  BY DEF HoldersOf, Live
<1> HIDE DEF HoldersOf
<1> QED
  BY <1>1, <1>2, FS_Subset, FS_CardinalityType

(* No holder is counted away where no order joins those that hold d.        *)
LEMMA FewerHolders ==
    ASSUME TypeOK, UsageCoversHolders, NEW d \in Discounts,
           usage[d] <= usage'[d], usage'[d] \in Nat, HoldersOf(d)' \subseteq HoldersOf(d)
    PROVE  Cardinality(HoldersOf(d)') <= usage'[d]
<1> DEFINE S == HoldersOf(d)
           T == HoldersOf(d)'
<1>1. Cardinality(S) <= usage[d] /\ usage[d] \in Nat
  BY ConstantsAssumption DEF UsageCoversHolders, TypeOK
<1>2. IsFiniteSet(S) /\ Cardinality(S) \in Nat /\ T \subseteq S
  BY FewHolders
<1> HIDE DEF S, T
<1>3. Cardinality(T) <= Cardinality(S) /\ Cardinality(T) \in Nat
  BY <1>2, FS_Subset, FS_CardinalityType
<1> QED
  BY <1>1, <1>2, <1>3 DEF S, T

(* One order more holds d, and one use more is counted. *)
LEMMA OneHolderMore ==
    ASSUME TypeOK, UsageCoversHolders, NEW d \in Discounts, NEW i,
           usage'[d] = usage[d] + 1, HoldersOf(d)' \subseteq HoldersOf(d) \cup {i}
    PROVE  Cardinality(HoldersOf(d)') <= usage'[d]
<1> DEFINE S == HoldersOf(d)
           T == HoldersOf(d)'
           U == S \cup {i}
<1>1. Cardinality(S) <= usage[d] /\ usage[d] \in Nat
  BY ConstantsAssumption DEF UsageCoversHolders, TypeOK
<1>2. IsFiniteSet(S) /\ Cardinality(S) \in Nat /\ T \subseteq U
  BY FewHolders
<1> HIDE DEF S, T
<1>3. /\ IsFiniteSet(U)
      /\ Cardinality(U) = IF i \in S THEN Cardinality(S) ELSE Cardinality(S) + 1
  BY <1>2, FS_AddElement
<1> HIDE DEF U
<1>4. Cardinality(T) <= Cardinality(U) /\ Cardinality(T) \in Nat
  BY <1>2, <1>3, FS_Subset, FS_CardinalityType
<1> QED
  BY <1>1, <1>2, <1>3, <1>4 DEF S, T

(* Whoever neither counts a use nor destroys a discount makes nobody hold   *)
(* one.                                                                     *)
LEMMA NoNewHolders ==
    ASSUME TypeOK, UsageCoversHolders, UNCHANGED <<usage, former>>,
           \A i \in Live' :
               \/ i \in Live /\ orders'[i].discounts \subseteq orders[i].discounts
               \/ orders'[i].discounts = {}
    PROVE  UsageCoversHolders'
<1> SUFFICES ASSUME NEW d \in Discounts
             PROVE  Cardinality(HoldersOf(d)') <= usage'[d]
  BY DEF UsageCoversHolders
<1>1. HoldersOf(d)' \subseteq HoldersOf(d)
  BY DEF HoldersOf
<1>2. usage'[d] = usage[d] /\ usage[d] \in Nat
  BY ConstantsAssumption DEF TypeOK
<1> QED
  BY <1>1, <1>2, FewerHolders

(* A discount that is destroyed takes its holders with it: they are former. *)
LEMMA DestroyedCounts ==
    ASSUME TypeOK, UsageCoversHolders, NEW ids \in SUBSET Discounts,
           Destroyed(ids), UNCHANGED orders
    PROVE  UsageCoversHolders'
<1> SUFFICES ASSUME NEW d \in Discounts
             PROVE  Cardinality(HoldersOf(d)') <= usage'[d]
  BY DEF UsageCoversHolders
<1>1. Live' = Live
  BY DEF Live
<1>2. CASE d \in ids
  <2>1. HoldersOf(d)' = {} /\ usage'[d] = 0
    BY <1>1, <1>2 DEF HoldersOf, Destroyed
  <2> QED
    BY <2>1, FS_EmptySet
<1>3. CASE d \notin ids
  <2>1. HoldersOf(d)' \subseteq HoldersOf(d) /\ usage'[d] = usage[d] /\ usage[d] \in Nat
    BY <1>1, <1>3, ConstantsAssumption DEF HoldersOf, Destroyed, TypeOK
  <2> QED
    BY <2>1, FewerHolders
<1> QED
  BY <1>2, <1>3

(* The use is counted on the discount the order then holds, or the order is *)
(* not among those counted on it.                                           *)
LEMMA ApplyCounts ==
    ASSUME TypeOK, UsageCoversHolders, NEW t \in Threads,
           ApplyDiscount(t) \/ ApplyDiscountToFreed(t)
    PROVE  UsageCoversHolders'
<1> SUFFICES ASSUME NEW e \in Discounts
             PROVE  Cardinality(HoldersOf(e)') <= usage'[e]
  BY DEF UsageCoversHolders
<1> DEFINE d == applying.id
<1>1. /\ usage[e] \in Nat
      /\ usage'[e] = IF e = applying.target THEN usage[e] + 1 ELSE usage[e]
  BY ConstantsAssumption DEF ApplyDiscount, ApplyDiscountToFreed, CountUse, Count, TypeOK
<1>2. usage[e] <= usage'[e] /\ usage'[e] \in Nat
  BY <1>1
<1>3. CASE ApplyDiscountToFreed(t)
  <2>1. HoldersOf(e)' = HoldersOf(e)
    BY <1>3 DEF ApplyDiscountToFreed, HoldersOf, Live
  <2> QED
    BY <1>2, <2>1, FewerHolders
<1>4. CASE ApplyDiscount(t)
  <2>1. PICK i \in Aim(pend[t]) :
          /\ orders' = [orders EXCEPT ![i].discounts = @ \cup {d}]
          /\ former' = IF applying.target = d THEN former \ {<<i, d>>} ELSE former \cup {<<i, d>>}
    BY <1>4 DEF ApplyDiscount
  <2>2. i \in Live /\ i \in OrderIds /\ orders[i] \in Order
    BY DEF Aim, TypeOK, Live
  <2>3. Live' = Live
    BY <1>4, SecondSectionMoves, MovesKeepIdentity DEF SecondSection
  <2>4. /\ orders'[i].discounts = orders[i].discounts \cup {d}
        /\ \A j \in Live \ {i} : orders'[j] = orders[j]
    BY <2>1, <2>2 DEF TypeOK, Order, Live
  <2> HIDE DEF d
  <2>5. CASE applying.target = d /\ e = d
    <3>1. HoldersOf(e)' \subseteq HoldersOf(e) \cup {i}
      BY <2>1, <2>3, <2>4, <2>5 DEF HoldersOf
    <3> QED
      BY <1>1, <2>5, <3>1, OneHolderMore
  <2>6. CASE ~(applying.target = d /\ e = d)
    <3>1. HoldersOf(e)' \subseteq HoldersOf(e)
      BY <2>1, <2>2, <2>3, <2>4, <2>6 DEF HoldersOf
    <3> QED
      BY <1>2, <3>1, FewerHolders
  <2> QED
    BY <2>5, <2>6
<1> QED
  BY <1>3, <1>4

(* The usage counter of a discount is never below the number of orders that *)
(* hold its id and were counted on it, whatever threads apply, remove and   *)
(* delete, also through stale pointers, and whatever discounts are created, *)
(* replaced and destroyed meanwhile.                                        *)
THEOREM UsageCountsHolders == Spec => []UsageCoversHolders
<1>1. Init => UsageCoversHolders
  <2> SUFFICES ASSUME Init, NEW d \in Discounts PROVE Cardinality(HoldersOf(d)) <= usage[d]
    BY DEF UsageCoversHolders
  <2>1. HoldersOf(d) = {} /\ usage[d] = 0
    BY DEF Init, HoldersOf, Live
  <2> QED
    BY <2>1, FS_EmptySet
<1>2. TypeOK /\ UsageCoversHolders /\ [Next]_vars => UsageCoversHolders'
  <2> SUFFICES ASSUME TypeOK, UsageCoversHolders, [Next]_vars PROVE UsageCoversHolders'
    OBVIOUS
  <2>1. UNCHANGED <<orders, usage, former>> => UsageCoversHolders'
    BY DEF UsageCoversHolders, HoldersOf, Live
  <2>2. ASSUME NEW t \in Threads, NEW u \in Users, CreateOrder(t, u)
        PROVE  UsageCoversHolders'
    <3>1. \A i \in Live' : (i \in Live /\ orders'[i] = orders[i]) \/ orders'[i].discounts = {}
      BY <2>2 DEF CreateOrder, TypeOK, Live
    <3> QED
      BY <2>2, <3>1, NoNewHolders DEF CreateOrder, discountVars
  <2>3. ASSUME NEW t \in Threads, NEW i \in OrderIds, DeleteOrder(t, i)
        PROVE  UsageCoversHolders'
    <3>1. \A j \in Live' : j \in Live /\ orders'[j] = orders[j]
      BY <2>3 DEF DeleteOrder, TypeOK, Live
    <3> QED
      BY <2>3, <3>1, NoNewHolders DEF DeleteOrder, discountVars
  <2>4. ASSUME NEW t \in Threads, Shutdown(t)
        PROVE  UsageCoversHolders'
    BY <2>4, NoNewHolders DEF Shutdown, Live, discountVars
  <2>5. ASSUME NEW t \in Threads,
               \/ \E i \in OrderIds : GetOrder(t, i)
               \/ \E d \in Discounts : FindDiscount(t, d)
        PROVE  UsageCoversHolders'
    BY <2>1, <2>5 DEF GetOrder, FindDiscount, orderVars, discountVars
  <2>6. ASSUME NEW t \in Threads, SecondSection(t)
        PROVE  UsageCoversHolders'
    <3>0. Live' = Live /\ Live \subseteq OrderIds
      BY <2>6, SecondSectionMoves, MovesKeepIdentity DEF Live
    <3>1. CASE \E s \in OrderStatus : UpdateOrderStatus(t, s) \/ UpdateFreedStatus(t, s)
      <4>1. UNCHANGED <<usage, former>>
        BY <3>1 DEF UpdateOrderStatus, UpdateFreedStatus, discountVars
      <4>2. \A i \in Live : orders'[i].discounts = orders[i].discounts
        BY <3>0, <3>1 DEF UpdateOrderStatus, UpdateFreedStatus, TypeOK, Order, Live
      <4> QED
        BY <3>0, <4>1, <4>2, NoNewHolders
    <3>2. CASE CancelOrder(t)
      <4>1. /\ UNCHANGED <<usage, former>>
            /\ \A i \in Live : orders'[i].discounts = orders[i].discounts
        BY <3>0, <3>2 DEF CancelOrder, TypeOK, Order, Live, discountVars
      <4> QED
        BY <3>0, <4>1, NoNewHolders
    <3>3. CASE EditOrder(t)
      <4>1. UNCHANGED <<usage, former>>
        BY <3>3 DEF EditOrder, AddOrderItem, RemoveOrderItem, UpdateItemQuantity,
                    UpdateShippingInfo, ApplyCoupon, SetPaymentInfo, RemoveDiscount, Edit,
                    discountVars
      <4>2. \A i \in Live : orders'[i].discounts \subseteq orders[i].discounts
        BY <3>0, <3>3, EditsKeepIdentity DEF EditOf, TypeOK
      <4> QED
        BY <3>0, <4>1, <4>2, NoNewHolders
    <3>4. CASE RefuseDiscount(t) \/ ReturnUnchanged(t)
      BY <2>1, <3>4 DEF RefuseDiscount, ReturnUnchanged, discountVars
    <3> QED
      BY <2>6, <3>1, <3>2, <3>3, <3>4, ApplyCounts DEF SecondSection
  <2>7. CASE DiscountStep
    <3>1. \E ids \in SUBSET Discounts : Destroyed(ids)
      BY <2>7 DEF DiscountStep, CreateDiscount, DeleteDiscount, ShutdownDiscounts
    <3>2. UNCHANGED orders
      BY <2>7 DEF DiscountStep, CreateDiscount, DeleteDiscount, ShutdownDiscounts, orderVars
    <3> QED
      BY <3>1, <3>2, DestroyedCounts
  <2>8. CASE UNCHANGED vars
    BY <2>1, <2>8 DEF vars, orderVars, discountVars
  <2> QED
    BY <2>2, <2>3, <2>4, <2>5, <2>6, <2>7, <2>8, NextCases DEF SecondSection
<1> QED
  BY <1>1, <1>2, TypeCorrect, PTL DEF Spec

-------------------------------------------------------------------------------
(* The settled contents of an order.                                        *)

(* One item less of one quantity and one more of another: as many lines.    *)
LEMMA SameCount ==
    ASSUME IsFiniteSet(Quantities), NEW b \in ItemBag, NEW c, Requantified(b, c)
    PROVE  LineCount(c) = LineCount(b)
<1> DEFINE E(x) == {e \in Quantities \X (1..MaxItems) : e[2] <= x[e[1]]}
<1>1. PICK q \in Quantities, r \in Quantities :
        /\ q # r /\ b[q] > 0 /\ b[r] < MaxItems
        /\ c = [[b EXCEPT ![q] = @ - 1] EXCEPT ![r] = @ + 1]
  BY DEF Requantified
<1>2. /\ MaxItems \in Nat /\ b \in [Quantities -> 0..MaxItems]
      /\ \A k \in Quantities : b[k] \in Nat /\ b[k] <= MaxItems
  BY ConstantsAssumption DEF ItemBag
<1>3. \A k \in Quantities :
        c[k] = IF k = q THEN b[q] - 1 ELSE IF k = r THEN b[r] + 1 ELSE b[k]
  BY <1>1, <1>2
<1> DEFINE out == <<q, b[q]>>
           in == <<r, b[r] + 1>>
<1>4. E(c) = (E(b) \ {out}) \cup {in}
  <2>1. ASSUME NEW k \in Quantities, NEW m \in 1..MaxItems
        PROVE  m <= c[k] <=> \/ m <= b[k] /\ <<k, m>> # out
                             \/ <<k, m>> = in
    BY <1>1, <1>2, <1>3
  <2>2. in \in Quantities \X (1..MaxItems)
    BY <1>1, <1>2
  <2> HIDE DEF out, in
  <2> QED
    BY <2>1, <2>2
<1>5. out \in E(b) /\ in \notin E(b)
  BY <1>1, <1>2
<1>6. IsFiniteSet(E(b))
  <2>1. IsFiniteSet(1..MaxItems)
    BY <1>2, FS_Interval
  <2>2. IsFiniteSet(Quantities \X (1..MaxItems))
    BY <2>1, FS_Product
  <2> QED
    BY <2>2, FS_Subset
<1>7. LineCount(c) = Cardinality(E(c)) /\ LineCount(b) = Cardinality(E(b))
  BY DEF LineCount
<1> HIDE DEF E, out, in
<1>8. /\ IsFiniteSet(E(b) \ {out}) /\ Cardinality(E(b) \ {out}) = Cardinality(E(b)) - 1
      /\ Cardinality(E(b)) \in Nat
  BY <1>5, <1>6, FS_RemoveElement, FS_CardinalityType
<1>9. Cardinality((E(b) \ {out}) \cup {in}) = Cardinality(E(b) \ {out}) + 1
  BY <1>5, <1>8, FS_AddElement
<1> QED
  BY <1>4, <1>7, <1>8, <1>9

(* What happens to a live order in a second section, other than through an  *)
(* operation on its contents, changes neither shipping nor items.           *)
LEMMA SecondSectionSettles ==
    ASSUME TypeOK, NEW t \in Threads, SecondSection(t)
    PROVE  \A i \in Live : SettledIn(orders[i], orders'[i])
<1>1. orders \in [OrderIds -> Order \cup {NoOrder}] /\ \A i \in Live : i \in OrderIds /\ orders[i] \in Order
  BY DEF TypeOK, Live
<1>2. \A o : SettledIn(o, o)
  BY DEF SettledIn
<1>3. ASSUME NEW j \in Live, NEW n, orders' = [orders EXCEPT ![j] = n], SettledIn(orders[j], n)
      PROVE  \A i \in Live : SettledIn(orders[i], orders'[i])
  BY <1>1, <1>2, <1>3
<1>4. CASE EditOrder(t)
  <2>1. PICK i \in Aim(pend[t]), n \in Order :
          EditOf(orders[i], n) /\ orders' = [orders EXCEPT ![i] = n]
    BY <1>4, EditsKeepIdentity
  <2> QED
    BY <1>3, <2>1 DEF EditOf, Aim
<1>5. CASE UNCHANGED orders
  BY <1>2, <1>5
<1>6. ASSUME NEW s, NEW i \in Aim(pend[t]), orders' = [orders EXCEPT ![i].status = s]
      PROVE  \A j \in Live : SettledIn(orders[j], orders'[j])
  <2>1. SettledIn(orders[i], [orders[i] EXCEPT !.status = s])
    BY <1>1 DEF SettledIn, Order, Aim
  <2> QED
    BY <1>3, <1>6, <2>1 DEF Aim
<1>7. ASSUME NEW d, NEW i \in Aim(pend[t]),
             orders' = [orders EXCEPT ![i].discounts = @ \cup {d}]
      PROVE  \A j \in Live : SettledIn(orders[j], orders'[j])
  <2>1. SettledIn(orders[i], [orders[i] EXCEPT !.discounts = @ \cup {d}])
    BY <1>1 DEF SettledIn, Order, Aim
  <2> QED
    BY <1>3, <1>7, <2>1 DEF Aim
<1> QED
  BY <1>4, <1>5, <1>6, <1>7
  DEF SecondSection, UpdateOrderStatus, UpdateFreedStatus, CancelOrder, ApplyDiscount,
      ApplyDiscountToFreed, RefuseDiscount, ReturnUnchanged

(* Only apply_discount adds a discount to an order, and only to one that    *)
(* its check allowed.                                                       *)
LEMMA DiscountsSettle ==
    ASSUME TypeOK, AppliesWhereAllowed, NEW t \in Threads, SecondSection(t)
    PROVE  \A i \in Live : orders[i].status \notin {"CREATED", "PENDING_PAYMENT"} =>
               orders'[i].discounts \subseteq orders[i].discounts
<1>1. orders \in [OrderIds -> Order \cup {NoOrder}] /\ \A i \in Live : i \in OrderIds /\ orders[i] \in Order
  BY DEF TypeOK, Live
<1>2. CASE EditOrder(t)
  <2>1. PICK i \in Aim(pend[t]), n \in Order :
          EditOf(orders[i], n) /\ orders' = [orders EXCEPT ![i] = n]
    BY <1>2, EditsKeepIdentity
  <2> QED
    BY <1>1, <2>1 DEF EditOf, Aim
<1>3. CASE UNCHANGED orders
  BY <1>3
<1>4. ASSUME NEW s, NEW i \in Aim(pend[t]), orders' = [orders EXCEPT ![i].status = s]
      PROVE  \A j \in Live : orders'[j].discounts = orders[j].discounts
  BY <1>1, <1>4 DEF Aim, Order
<1>5. CASE ApplyDiscount(t)
  <2>1. PICK i \in Aim(pend[t]) :
          orders' = [orders EXCEPT ![i].discounts = @ \cup {applying.id}]
    BY <1>5 DEF ApplyDiscount
  <2>2. CanApplyDiscount(orders[i])
    BY <1>5, <2>1 DEF AppliesWhereAllowed, ApplyDiscount, Finish
  <2> QED
    BY <1>1, <2>1, <2>2 DEF CanApplyDiscount, Aim
<1> QED
  BY <1>2, <1>3, <1>4, <1>5
  DEF SecondSection, UpdateOrderStatus, UpdateFreedStatus, CancelOrder,
      ApplyDiscountToFreed, RefuseDiscount, ReturnUnchanged

(* At first nobody applies a discount.                                      *)
LEMMA AllowedInit == Init => AppliesWhereAllowed
BY DEF Init, AppliesWhereAllowed

(* Between the check of apply_discount and its end no order changes: all    *)
(* that changes one needs the mutex.                                        *)
LEMMA AllowedNext == TypeOK /\ AppliesWhereAllowed /\ [Next]_vars => AppliesWhereAllowed'
<1> SUFFICES ASSUME TypeOK, AppliesWhereAllowed, [Next]_vars PROVE AppliesWhereAllowed'
  OBVIOUS
<1>1. applying' = Idle => AppliesWhereAllowed'
  BY DEF AppliesWhereAllowed
<1>2. ASSUME NEW t \in Threads,
             \/ \E u \in Users : CreateOrder(t, u)
             \/ \E i \in OrderIds : DeleteOrder(t, i) \/ GetOrder(t, i)
             \/ Shutdown(t)
      PROVE  applying' = Idle
  BY <1>2 DEF CreateOrder, DeleteOrder, Shutdown, GetOrder
<1>3. ASSUME NEW t \in Threads, SecondSection(t) PROVE applying' = Idle
  BY <1>3 DEF SecondSection, UpdateOrderStatus, UpdateFreedStatus, CancelOrder, EditOrder,
         ApplyDiscount, ApplyDiscountToFreed, RefuseDiscount, Finish, ReturnUnchanged,
         Return, AddOrderItem, RemoveOrderItem, UpdateItemQuantity, UpdateShippingInfo,
         ApplyCoupon, SetPaymentInfo, RemoveDiscount, Edit
<1>4. ASSUME NEW t \in Threads, NEW d \in Discounts, FindDiscount(t, d)
      PROVE  AppliesWhereAllowed'
  <2>1. applying' = [by |-> t, id |-> d, target |-> d] /\ UNCHANGED <<orders, pend>>
    BY <1>4 DEF FindDiscount, orderVars
  <2>2. applying'.by = t
    BY <2>1
  <2>3. \A i \in Aim(pend[t]) : CanApplyDiscount(orders[i])
    BY <1>4 DEF FindDiscount
  <2> QED
    BY <2>1, <2>2, <2>3 DEF AppliesWhereAllowed, Aim, Live, CanApplyDiscount
<1>5. CASE DiscountStep \/ UNCHANGED vars
  <2>1. UNCHANGED <<orders, pend>>
    BY <1>5 DEF DiscountStep, CreateDiscount, DeleteDiscount, ShutdownDiscounts, orderVars, vars
  <2>2. applying' = applying \/ (\E k : applying # Idle /\ applying' = [applying EXCEPT !.target = k])
    BY <1>5 DEF DiscountStep, CreateDiscount, DeleteDiscount, ShutdownDiscounts, Left, vars
  <2>3. applying # Idle => applying \in Application
    BY DEF TypeOK
  <2>4. applying' # Idle => applying # Idle /\ applying'.by = applying.by
    BY <2>2, <2>3 DEF Application
  <2> QED
    BY <2>1, <2>4 DEF AppliesWhereAllowed, Aim, Live, CanApplyDiscount
<1> QED
  BY <1>1, <1>2, <1>3, <1>4, <1>5, NextCases DEF SecondSection

(* Finitely many quantities: whatever the threads do, also through pointers *)
(* to freed memory, an order that is not CREATED keeps its shipping address *)
(* and the number of its lines, and one that is paid takes no discount.     *)
THEOREM ContentsStaySettled ==
    ASSUME IsFiniteSet(Quantities)
    PROVE  Spec => ContentsSettled
<1> DEFINE Kept(i) ==
      orders'[i] # NoOrder =>
          /\ orders[i].status # "CREATED" =>
                /\ orders'[i].shipping = orders[i].shipping
                /\ LineCount(orders'[i].items) = LineCount(orders[i].items)
          /\ orders[i].status \notin {"CREATED", "PENDING_PAYMENT"} =>
                orders'[i].discounts \subseteq orders[i].discounts
<1>1. ASSUME StoreInv, AppliesWhereAllowed, [Next]_vars
      PROVE  [\A i \in Live : Kept(i)]_vars
  <2>0. \A i \in Live : i \in OrderIds /\ orders[i] \in Order
    BY <1>1 DEF StoreInv, TypeOK, Live
  <2>1. ASSUME NEW i \in Live, SettledIn(orders[i], orders'[i]),
               orders[i].status \notin {"CREATED", "PENDING_PAYMENT"} =>
                  orders'[i].discounts \subseteq orders[i].discounts
        PROVE  Kept(i)
    <3>1. orders[i].items \in ItemBag
      BY <2>0 DEF Order
    <3> QED
      BY <2>1, <3>1, SameCount DEF SettledIn
  <2>2. ASSUME NEW t \in Threads, NEW u \in Users, CreateOrder(t, u)
        PROVE  \A i \in Live : Kept(i)
    <3>1. \A j \in OrderIds : j # next_order_id => orders'[j] = orders[j]
      BY <1>1, <2>2, CreateAdds DEF StoreInv
    <3>2. \A i \in Live : i \in OrderIds /\ i # next_order_id
      BY <1>1, ConstantsAssumption DEF StoreInv, TypeOK, IdsIssued, Live, OrderIds
    <3> QED
      BY <3>1, <3>2
  <2>3. ASSUME NEW t \in Threads, NEW j \in OrderIds, DeleteOrder(t, j)
        PROVE  \A i \in Live : Kept(i)
    BY <1>1, <2>3 DEF DeleteOrder, Live, StoreInv, TypeOK
  <2>4. ASSUME NEW t \in Threads, Shutdown(t)
        PROVE  \A i \in Live : Kept(i)
    BY <2>4 DEF Shutdown, Live
  <2>5. ASSUME NEW t \in Threads, NEW i \in OrderIds, GetOrder(t, i)
        PROVE  \A j \in Live : Kept(j)
    BY <2>5 DEF GetOrder
  <2>6. ASSUME NEW t \in Threads, SecondSection(t)
        PROVE  \A i \in Live : Kept(i)
    BY <1>1, <2>1, <2>6, SecondSectionSettles, DiscountsSettle DEF StoreInv
  <2>7. CASE UNCHANGED orderVars
    BY <2>7 DEF orderVars
  <2> HIDE DEF Kept
  <2> QED
    BY <1>1, StepCases, <2>2, <2>3, <2>4, <2>5, <2>6, <2>7
<1>2. Spec => []AppliesWhereAllowed
  BY AllowedInit, AllowedNext, TypeCorrect, PTL DEF Spec
<1> QED
  BY <1>1, <1>2, StoreCorrect, PTL DEF Spec, ContentsSettled

===============================================================================
