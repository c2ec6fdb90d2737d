------------------------------- MODULE Discounts -------------------------------
(***************************************************************************)
(* DiscountManager, the conditions and calculations of a discount          *)
(* (src/src/order/discount.cpp) and the discounts an order holds           *)
(* (Order::apply_discount in src/src/order/order.cpp).                     *)
(*                                                                         *)
(* An order holds the ids of its discounts.  A new discount gets the id    *)
(* discounts_.size() + 1, which after a deletion can be the id of another  *)
(* discount that is live, which it then replaces.  Nothing writes          *)
(* code_index_, so that no code is ever found: codes are left out, as are  *)
(* the names, the types, is_stackable and usage_limit, which nothing       *)
(* enforces.                                                               *)
(***************************************************************************)
EXTENDS OrderItems

CONSTANTS
    MaxDiscounts, \* bound on the discounts ever created
    MaxUsage,     \* bound on the usage counter
    LastDay,      \* bound on the clock
    Applications, \* calculations callers build
    Caps,         \* values of max_discount_amount_
    Settings,     \* field of a discount -> the values callers set it to
    Role,         \* rank of the role of the order's user
    Nothing       \* no condition, no application, no discount

(* What a setter leaves in a field. *)
Setting(field, initial) ==
    {initial} \cup (IF field \in DOMAIN Settings THEN Settings[field] ELSE {})

Discount == [
    serial      : Nat,
    active      : Setting("active", TRUE),
    cap         : Setting("cap", 0),
    period      : Setting("period", <<0, 0>>),
    condition   : Setting("condition", Nothing),
    application : Setting("application", Nothing),
    usage       : Nat]

(* Calculations with amounts that make sense: nothing is negative, and      *)
(* groups are not empty, as BuyNGetMDiscount divides by their size.         *)
IsApplication(a) ==
    \/ a.kind = "percent" /\ {a.percentage, a.most} \subseteq Nat
    \/ a.kind = "fixed" /\ a.amount \in Nat
    \/ a.kind = "free" /\ {a.buy, a.free} \subseteq Nat /\ a.buy + a.free > 0
    \/ a.kind = "reduction" /\ {a.threshold, a.reduction} \subseteq Nat

ASSUME DiscountsAssumption ==
    /\ MaxDiscounts \in Nat /\ MaxUsage \in Nat /\ LastDay \in Nat /\ Role \in Nat
    /\ Caps \subseteq Nat
    /\ DOMAIN Settings \subseteq {"active", "cap", "period", "condition", "application"}
    /\ Nothing \notin Nat \cup Discount
    /\ Nothing \notin Applications
    /\ \A a \in Applications : IsApplication(a)

VARIABLES
    discounts, \* discounts_: id -> discount
    created,   \* how many were ever created: the identity of an object
    held,      \* applied_discounts_ of the order: id -> the discount it was then
    today,     \* the system clock, at least one day after its epoch
    thinned    \* a discount was deleted, or all by a shutdown

discountVars == <<discounts, created, held, today, thinned>>

DiscountIds == 1..MaxDiscounts

Live == {i \in DiscountIds : discounts[i] # Nothing}

Held == {i \in DiscountIds : held[i] # Nothing}

InitDiscounts ==
    /\ discounts = [i \in DiscountIds |-> Nothing]
    /\ created = 0
    /\ held = [i \in DiscountIds |-> Nothing]
    /\ today = 1
    /\ thinned = FALSE

-------------------------------------------------------------------------------
(* The definitions named ..._Faulty are variants with one mistake in them;  *)
(* no action uses them.  Each shows that a property notices that mistake.   *)

OrderSubtotal == SumFunction([n \in DOMAIN items |-> Subtotal(items[n])])

Within(period) == period[1] <= today /\ today <= period[2]

(* is_satisfied of the conditions; all and any are AndCondition and         *)
(* OrCondition, of conditions that are neither.                             *)
Satisfied(condition) ==
    LET Leaf(c) ==
          \/ c.kind = "amount" /\ OrderSubtotal >= c.least
          \/ c.kind = "quantity" /\ Len(items) >= c.least
          \/ c.kind = "product" /\ \E n \in DOMAIN items : items[n].product \in c.products
          \/ c.kind = "category"
          \/ c.kind = "role" /\ Role >= c.least
          \/ c.kind = "time" /\ Within(c.period)
        Branch(c) ==
          \/ c.kind = "all" /\ \A d \in c.parts : Leaf(d)
          \/ c.kind = "any" /\ \E d \in c.parts : Leaf(d)
    IN  Leaf(condition) \/ Branch(condition)

(* The lines BuyNGetMDiscount counts; target_product_ 0 stands for any.     *)
Targets(a) == {n \in DOMAIN items : a.product \in {0, items[n].product}}

Quantity(lines) == SumFunction([n \in lines |-> items[n].quantity])

(* The quotient of integers in C++. *)
Truncated(m, n) == IF m >= 0 THEN m \div n ELSE -((-m) \div n)

(* It gives away whole groups, at the first price that is not 0. *)
FreeItems_Faulty(a) == Truncated(Quantity(Targets(a)), a.buy) * a.free

FreeItems(a) == Truncated(Quantity(Targets(a)), a.buy + a.free) * a.free

FirstPrice(lines) ==
    LET priced == {n \in lines : items[n].price # 0}
    IN  IF priced = {} THEN 0 ELSE items[Min(priced)].price

Limited(amount, cap) == IF cap > 0 /\ amount > cap THEN cap ELSE amount

(* calculate of the four applications; amounts in cents. *)
Calculate(a) ==
    CASE a = Nothing          -> 0
      [] a.kind = "percent"   -> Limited((OrderSubtotal * a.percentage) \div 100, a.most)
      [] a.kind = "fixed"     -> a.amount
      [] a.kind = "free"      -> FreeItems(a) * FirstPrice(Targets(a))
      [] a.kind = "reduction" -> IF OrderSubtotal >= a.threshold THEN a.reduction ELSE 0

(* calculate_discount with an application and max_discount_amount_. *)
CalculateDiscount(a, cap) == Limited(Calculate(a), cap)

IsApplicable(d) ==
    /\ d.active
    /\ Within(d.period)
    /\ d.condition # Nothing => Satisfied(d.condition)

NewDiscountId_Faulty == IF Live = {} THEN 1 ELSE Cardinality(Live)

NewDiscountId == Cardinality(Live) + 1

(* create_discount; a new discount is active, its period is the epoch. *)
CreateDiscount ==
    /\ created < MaxDiscounts
    /\ created' = created + 1
    /\ discounts' = [discounts EXCEPT ![NewDiscountId] =
                       [serial |-> created', active |-> TRUE, cap |-> 0, period |-> <<0, 0>>,
                        condition |-> Nothing, application |-> Nothing, usage |-> 0]]
    /\ UNCHANGED <<held, today, thinned>>

DeleteDiscount(id) ==
    /\ id \in Live
    /\ discounts' = [discounts EXCEPT ![id] = Nothing]
    /\ thinned' = TRUE
    /\ UNCHANGED <<created, held, today>>

(* activate_discount, deactivate_discount, and the setters through the      *)
(* pointer that get_discount returns.                                       *)
Configure(id, field, value) ==
    /\ id \in Live
    /\ discounts' = [discounts EXCEPT ![id][field] = value]
    /\ UNCHANGED <<created, held, today, thinned>>

ApplyDiscount(id) ==
    /\ id \in Live \ Held
    /\ IsApplicable(discounts[id])
    /\ discounts[id].usage < MaxUsage
    /\ held' = [held EXCEPT ![id] = discounts[id].serial]
    /\ discounts' = [discounts EXCEPT ![id].usage = @ + 1]
    /\ UNCHANGED <<created, today, thinned>>

RemoveDiscount(id) ==
    /\ id \in Held
    /\ held' = [held EXCEPT ![id] = Nothing]
    /\ UNCHANGED <<discounts, created, today, thinned>>

ClearDiscounts ==
    /\ Held # {}
    /\ held' = [i \in DiscountIds |-> Nothing]
    /\ UNCHANGED <<discounts, created, today, thinned>>

ShutdownDiscounts ==
    /\ discounts' = [i \in DiscountIds |-> Nothing]
    /\ thinned' = TRUE
    /\ UNCHANGED <<created, held, today>>

NextDay ==
    /\ today < LastDay
    /\ today' = today + 1
    /\ UNCHANGED <<discounts, created, held, thinned>>

NextDiscounts ==
    \/ CreateDiscount
    \/ \E i \in DiscountIds : DeleteDiscount(i) \/ ApplyDiscount(i) \/ RemoveDiscount(i)
    \/ \E i \in DiscountIds : \E field \in DOMAIN Settings :
         \E value \in Settings[field] : Configure(i, field, value)
    \/ ClearDiscounts
    \/ ShutdownDiscounts
    \/ NextDay

(* One thread changes lines and discounts in any order. *)
SpecPricing ==
    /\ InitOrderItems /\ InitDiscounts
    /\ [][ \/ NextOrderItems /\ UNCHANGED discountVars
           \/ NextDiscounts /\ UNCHANGED itemVars ]_<<itemVars, discountVars>>

-------------------------------------------------------------------------------
(* As long as no discount is deleted, every id an order holds is that of    *)
(* the discount that was applied, and its use has been counted.             *)
HeldAsApplied ==
    thinned \/ \A i \in Held : i \in Live /\ discounts[i].serial = held[i] /\ discounts[i].usage > 0

Dearest(lines) == Max({items[n].price : n \in lines})

CheapestFirst(lines) ==
    \A n \in lines : items[n].quantity >= 0 /\ FirstPrice(lines) <= items[n].price

(* What is taken off has been earned, whatever lines the order has, of      *)
(* mixed prices and negative quantities too.  No limit is passed; a         *)
(* percentage is one of what is ordered; a reduction needs its threshold,   *)
(* but a fixed amount nothing.  Of every group only the free articles are   *)
(* free, at the dearest price at most.  Who gets them has paid for the      *)
(* others of the group if the price they go at, the first that is not 0, is *)
(* the cheapest, which the code does not look for.                          *)
DiscountEarned ==
    \A a \in Applications, cap \in Caps :
       LET off == CalculateDiscount(a, cap)
           targets == Targets(a)
       IN  /\ cap > 0 => off <= cap
           /\ a.kind = "percent" => off * 100 <= OrderSubtotal * a.percentage
           /\ a.kind = "percent" /\ a.most > 0 => off <= a.most
           /\ a.kind = "reduction" /\ off > 0 => OrderSubtotal >= a.threshold /\ off <= a.reduction
           /\ a.kind = "fixed" => off <= a.amount
           /\ a.kind = "free" /\ off > 0 =>
                 off * (a.buy + a.free) <= (Quantity(targets) * a.free) * Dearest(targets)
           /\ a.kind = "free" /\ CheapestFirst(targets) =>
                 off * a.buy <= (SumFunction([n \in targets |-> Subtotal(items[n])]) - off) * a.free

===============================================================================
