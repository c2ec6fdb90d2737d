# A verification project for the order management system

The repository is an order management system in C++17: a set of managers, each
a process-wide singleton (`instance()`) around in-memory maps, most with a
`std::shared_mutex`, called from a console program (`src/main.cpp`) and meant
to be called from several threads. Nothing is persisted. This directory holds
TLA+ models of its managers, the TLC runs that check them on small instances,
and theorems about them that TLAPS checks for every size.

Paths below are relative to the repository; `order.cpp` stands for
`src/order/order.cpp` and so on.

## 1. Inventory

### The components and their state

| Component | State | Operations that change it | Calls |
|---|---|---|---|
| OrderManager (order.cpp) | `orders_`, `user_order_index_`, `status_index_`, `next_order_id_` | create, delete, update status, cancel, edit items, discounts, coupon, shipping, payment, shutdown | Order, DiscountManager |
| Order, OrderItemCollection (order.cpp, order_item.cpp) | status, items with two position indexes, discounts, addresses | transitions, add / remove / merge / sort items | Discount |
| DiscountManager (discount.cpp) | `discounts_`, `code_index_` (never filled), per discount `is_active_`, `usage_count_`, period, condition, application | create, delete, activate, configure | Order (reads) |
| PaymentManager (payment.cpp) | `transactions_`, `refunds_`, two index lists, gateways | create, pay, retry, cancel, request / process / reject a refund, force a status | PaymentGateway |
| WarehouseManager (warehouse.cpp) | warehouses with `stock_` and `reserved_stock_`, `code_index_`, default id | reserve, release, confirm, transfer, receive, adjust, create, delete | – |
| ProductCatalog (product.cpp) | products, four indexes | add, update, remove, categories | – |
| SessionManager (session.cpp) | `sessions_`, `user_session_index_`, a cleanup thread | create, destroy, refresh, expire, shut down | – |
| UserManager (user.cpp) | `users_`, `username_index_` | create, delete, role, permissions, password | – |
| RoleManager, PermissionManager (rbac.cpp) | roles with inheritance, a lazily built permission cache | roles, permissions, inheritance | – |
| ConnectionPool, Connection, Transaction (database.cpp) | available and busy connections, transaction depth, savepoints | borrow, return, begin, commit, roll back | – |
| MemoryCache, RedisCache, MultiTierCache, CacheLock (cache.cpp) | entries, byte count, access order | get, set, delete, evict, promote, lock | each other |
| Config (config.cpp) | key/value map | load, set | – |
| Data adapter (data_adapter.cpp, buffer_utils.cpp, config_profile.cpp, data_processor.cpp) | ownership of one buffer | allocate, serialise, free | each other |
| Process metrics (process/*.cpp) | none | pure functions | each other |
| Command line (main.cpp) | the current session | start-up, commands, shutdown | every manager |
| audit_log, notification | – | named in the README's table only; there is no source | – |

Interaction is by direct calls. State is shared between threads through the
singletons, each protected (where it is) by its own mutex; no operation holds
two managers' mutexes but `apply_discount`, which holds OrderManager's while
`get_discount` takes DiscountManager's and gives it back.

### What is hard, and what makes each part correct

* **Two critical sections (OrderManager, UserManager, RoleManager,
  SessionManager).** The operations look an object up under a shared lock,
  release it, then take the exclusive lock and use the raw pointer. Correct
  means: an operation changes the object it names or nothing; the indexes
  follow the objects.
* **Unlocked objects (PaymentManager).** The mutex guards the maps; statuses
  and refunded amounts are read and written without it. Correct means: no more
  is refunded than was paid, nothing cancelled is charged, nothing is paid
  twice.
* **Reused ids.** OrderManager counts ids up; users, roles, warehouses,
  discounts and order items use `size() + 1`, which repeats after a deletion.
* **Indexes and counters kept beside the data.** The status index, the user
  index, the cache's byte count and access order, the code indexes, the
  permission cache.
* **Business rules as checks of the present state.** The order lifecycle, the
  refund rules.
* **Locks taken twice** by nested calls of const-like lookups
  (`get_user_by_username`, `get_discount_by_code`, `get_default_gateway`).
* **Waiting**: the cleanup thread and `shutdown`; cycles of roles; the eviction
  loop of the cache, which ends only if it finds something to evict.
* **Two places for one value** (`MultiTierCache`): every operation calls one
  tier after the other and no lock covers both.
* **What a connection carries**: it goes back to the pool from a destructor,
  whatever state its transaction is in.
* **Pages** of a list that changes between two calls.

`PROJECT.json` lists every hazard with its line and the properties that cover
it.

## 2. What is modelled

| Module | Models | Composed or checked by |
|---|---|---|
| `OrderLifecycle` | what a caller may rely on of an order's status (abstract) | implemented by `OrderManager` |
| `OrderManager` | the order store | `MCOrderManager`, three runs |
| `Payments` | transactions, refunds, gateways | `MCPayments`, three runs |
| `Sessions` | sessions, expiry, cleanup thread | `MCSessions` |
| `LossyMap` | what a cache backend promises (abstract) | implemented by `MemoryCache`, used by `TieredCache` |
| `MemoryCache` | the in-memory cache and its evictions | `MCCaches` |
| `TieredCache` | MultiTierCache over memory and redis, CacheLock | `MCCaches` |
| `ConnectionPool` | pool, connections, transactions, savepoints | `MCConnectionPool` |
| `Warehouses` | stock, reservations, codes, default, allocation | `MCInventory` |
| `Catalog` | lists read page by page | `MCInventory` |
| `Users` | accounts, names, the nested shared lock | `MCAccess` |
| `Roles` | roles, inheritance, permission cache | `MCAccess` |
| `OrderItems` | the lines of an order with their indexes | `MCPricing` |
| `Discounts` | discounts, conditions, amounts, what an order holds; EXTENDS `OrderItems` | `MCPricing` |

The theorems (section 5) are in `OrderManagerProofs`, `PaymentsProofs`,
`ConnectionPoolProofs`, `AuthProofs` (about `Sessions`, `Users` and `Roles`),
`CachesProofs` (`MemoryCache` and `TieredCache`), `InventoryProofs`
(`Warehouses` and `Catalog`) and `PricingProofs` (`OrderItems` and
`Discounts`). `Sums` has what they need to know of sums over finite sets.

Where one run has two modules that share no state in the code (`MCInventory`,
`MCAccess`, `MCCaches`), a behaviour explores one of them with the other at
rest.

Two conventions run through all modules. A variable marked *history* is no
state of the program; it records what happened, so that a property can say
under which circumstances it holds. A definition named `..._Faulty` is the one
after it with one mistake in it; no action uses it; it serves to show that a
property notices that mistake.

### `OrderManager` – the order store

One action is one critical section. An operation with two sections is
`GetOrder` (the lookup; `pend[t]` then holds the id asked for and the address
of the object) followed by the action of its second section, which clears
`pend[t]`.

| Code | Model |
|---|---|
| `orders_` | `orders`: id -> record of owner, address, status, items, shipping, discounts, coupon, payment; `NoOrder` for an id that is no key |
| an index's lists of ids | `user_order_index`, `status_index`: how often each list holds each id; the order inside a list is the subject of `Catalog`. `push_back` is `Push`, erase-remove is `Erase` |
| `Order*` | `Pointer`: `Aim(p)` is the live order now at the address. Addresses (`Addrs`) are reused after deletion |
| an `OrderItemCollection` | how many items have each quantity: enough to tell an added, removed and changed item apart; ids and indexes are in `OrderItems` |
| `DiscountManager`, whose mutex is its own | `known`, the keys of `discounts_`, and `usage`, the counter of each; `former` (history) has the pairs of an order and a discount it holds from an object that is no more |
| `apply_discount` | two steps under one lock: `FindDiscount` up to `get_discount`, then `ApplyDiscount`, `RefuseDiscount` or `ApplyDiscountToFreed`. `applying` is in between the discount asked for and the one whose object is now where the pointer leads, 0 for freed memory |
| an error return before the second section | no step; after it, `ReturnUnchanged` |

*Freed memory.* A thread whose order was deleted between its sections works on
freed memory. The model takes these outcomes: the memory now holds a younger
order, whose state is read and written (`Aim`); or it is free, a status read
there is any status and what is written there is lost (`UpdateFreedStatus`,
`ApplyDiscountToFreed`, `ReturnUnchanged`). `status_index_` and a discount's
counter are live objects, so what the code does to them happens in both cases.
A crash ends the behaviour and is not modelled; memory reused for something
other than an order is not modelled. A garbage status outside the enumeration
acts like a listed status whose list does not hold the id.

*Discounts.* `apply_discount` goes on with the `Discount*` of `get_discount`
after DiscountManager's lock is released, so that `CreateDiscount` (which
replaces a discount when `size() + 1` is in use), `DeleteDiscount` and
`ShutdownDiscounts` may come in between: the pointer then leads to freed memory
or to a younger discount, on which the use is counted. A new discount's counter
is 0, also when orders hold its id from the one before. Whether a discount is
active and applicable is a free choice here, since the order has only part of
what conditions look at, and is computed in `Discounts`; no property of the
orders depends on it. That the memory of a discount is reused for anything
else is not modelled.

*Abstract specification.* `OrderLifecycle` says what a caller may rely on: an
id is issued once, starts as CREATED, moves by the business rules, and once
gone never returns. `OrderManager` implements it (`LifecycleSpec`, through the
mapping `AbstractStatus`); the rules are written out independently of
`CanTransition`.

### `Payments` – transactions and refunds

Where the code reads and writes a transaction or a refund without the mutex,
each access that another thread can observe is an action, and `pend[t]` says
which access the thread makes next and carries its local amount.
`record_refund` is read-check (`CheckRecordable`), add (`AddRefunded`), status
(`SetRefunded`); the unlocked addition starts from the amount the check read
or from the present one. The two reads of one `can_refund` are taken together.
`cancel_payment` is two actions that exclude the other sections which write a
status under the lock (`MutexFree`), because the gateway writes without it.
Lookups are not actions: nothing is erased from the maps while they run. Read
and write of that addition are one step: a base older than the check is not
modelled. Amounts are natural numbers: `Money` is signed, and
`create_transaction` does not look at the sign; what a payment of a negative
amount would do is not modelled.

`charged` and `paidOut` are the gateway's ledger: how often it answered
SUCCESS to a payment, and COMPLETED to a refund. They relate what the program
records to the money that moved.

Gateways decline at random (one payment in twenty in the code), so both
outcomes are possible; Alipay's minimum amount of 1 is kept. Fees, currencies
and statistics are left out. `shutdown` and `register_gateway` are not called
while payments are used.

### `Sessions` – sessions, expiry and the cleanup thread

An operation under the mutex is one action. `refresh_session` and
`set_session_data` keep the pointer `get_session` returned and use it after the
shared lock is gone: `GetSession` leaves id and address in `pend[t]`, and
`RefreshSession` and `SetSessionData` write the session that is at the address
by then (`Aimed`), or freed memory, which changes no session. The expiry is a
number of ticks (`life`, 0 = expired) that `Tick` counts down; durations may be
0. The random session ids are fresh ids.

`cleaner` is where the cleanup thread is in its loop: the test of
`cleanup_running_`, the sleep, the second test (`Wake`) and the sweep.
`shutdown` is two actions, the flag (`StopCleanupThread`) and, once the thread
has ended, the clearing (`FinishShutdown`); the program may be started and
stopped again. `last_activity` is left out because nothing reads it.

### `MemoryCache` and `LossyMap`

Every operation of MemoryCache is one section under its mutex. `set` (whose
tail is the loop of `evict_if_needed`) and `cleanup_expired` loop; they take a
step per round, with `pc` saying which of them holds the mutex, because time
passes and `set_strategy` (which takes no mutex) can be called between rounds.

| Code | Model |
|---|---|
| `entries_` | `entries`: key -> value, seconds left, access count; `Vacant` for no entry |
| `current_memory_bytes_` | `bytes`; `leaked` (history) is what `get` erased without giving it back |
| `access_order_`, `access_order_index_` | `list.order`, and `list.at`: the position of the node the index holds. `set` pushes a node even if the key has one, so that older nodes stay which no index entry reaches |
| the empty key, which `evict_one` takes for "none" | `EmptyKey` |
| `evict_lru`, `evict_lfu`, ... | `Victims`: whom a strategy may choose; ties are open |

`LossyMap` is what the rest may rely on: a key holds the value last set or
none, and what is lost stays lost until it is set again. `LossySpec` is the
refinement, with an expired entry mapped to none.

### `TieredCache` – two tiers and the lock

MultiTierCache has no mutex: `set`, `del`, `clear` and the promotion by a read
are two calls each, one per backend, and every call is an action; `pend[t]`
says which call comes next. The memory tier is a `LossyMap` and nothing else,
which is what `MemoryCache` was shown to be. `RedisCache` is the map the code
has in place of a server: `connected` fails its calls when it is down, an
expired entry (`stale`) is noticed by `get` only. A promotion writes the tier
with its own time to live of 3600 s.

CacheLock is `set_nx` on the redis tier: it looks whether the key is there,
*not* whether the entry has expired, so that the ten seconds of the lock matter
only when somebody reads the key with `get`, which erases it. A second
`acquire` by the holder sets `acquired_` to false and leaves the entry.
`release` deletes the key whether or not this CacheLock has acquired (only the
destructor asks), so that a thread whose `acquire` failed can erase the holder's
entry; `pried` records every erasure by another than the entry's maker. On a
backend other than RedisCache `acquire` always succeeds; that case needs no
model, two threads have the lock at once. Not modelled: `increment` and
`decrement` of RedisCache, which nothing calls.

### `ConnectionPool` – connections and transactions

`get_connection` takes no mutex although everything it touches is shared: the
look at the last available connection, `pop_back` and `push_back` are three
actions (`Look`/`Create`, `Pop`, `Take`); the rest is one section each, but for
`check_connections`, where each round of the loop that erases is a step. A
thread owns one Transaction object at a time. `causes` (history) records what
the code does not guard against: a *race* in the unlocked section, a
Transaction begun *again* (which overwrites its connection), one *reused* after
its commit (whose destructor does not roll back), a *shutdown* under a running
transaction. Each property names the causes it excuses and no other.

After a race the real program has undefined behaviour (`pop_back` of an empty
vector); the run explores nothing beyond one (`BeforeRace`). Within one step the
model has no finer accesses: an unlocked `pop_back` that falls inside an
operation of the vector by another thread is seen before or after it. A shutdown
closes the connections of transactions that are still running, and `execute`
then reconnects silently and runs outside of any transaction; that is part of
the model. `connect` fails only for an empty host, which is left out. Whether a
Transaction can be moved matters nowhere: `begin_transaction` relies on copy
elision.

### `Warehouses` and `Catalog`

WarehouseManager has no mutex, and its operations call nothing that returns to
it: one operation is one action. Quantities may be negative, as nothing checks
them. A warehouse id is `size() + 1`. `unchecked` (history) counts units that
a negative quantity moved past a check; `issued` how often an id was given out.

`Catalog` covers the paged lists: of all products, of products by category,
brand or keyword, and of a user's orders (OrderManager, newest first). What the
lists have in common is modelled once: rows by ascending id, a page cut out with
`size_t` arithmetic (`Wrap`, modulo 2^Width), and a client who walks the pages
while products or orders come and go. A list is the ranking of its ids: the
position of a row (`Position`) is one more than the rows ahead of it (`Ahead`).
`list_products` and the filtered lists count rows up to `end`; `get_user_orders`
indexes the reversed vector.

### `Users` and `Roles`

A change of an account or a role is two sections, as in OrderManager; a
pointer whose object was freed may lead to one allocated since (`later`). An
id is `size() + 1`, so that a creation may replace a live account or role; the
history variables (`usurped`, `given`, `outdated`) say when that happened.

`get_user_by_username` takes the shared mutex and calls `get_user`, which takes
it again. A writer that waits in between blocks the thread for ever on an
implementation that prefers writers; the standard leaves the nested lock
undefined. The model has the lookup in two steps with the mutex shared between
them, and nothing makes it go on: it may stay there for ever and shut every
writer out. The properties hold of that too; progress of a lookup, which is the
library's to give, is not claimed.

`add_inheritance` looks child and parent up in sections of their own (`GetRole`,
`FindParent`) and keeps the pointer of the child and the id of the parent.

`get_all_role_permissions` clears and rebuilds the permission cache under the
*shared* mutex: its begin, each round of the build and its end are actions, and
several readers may be in it. Concurrent modification of the map can corrupt it;
the model takes the outcomes in which each write is whole, and the property
speaks of readers that built the cache alone. `collect` on a cycle of roles does
not return (`Circular`, `Cyclic`): the stack overflows, the process dies and all
roles are lost (`Overflow`).

### `OrderItems` and `Discounts`

`OrderItems` has the vector of lines and both position indexes, with every
operation: add (which only appends: two lines may have one product), remove by
id or product, change quantity or price, merge duplicates, sort by price or
quantity in both directions, clear. Quantities are any `int`, negative ones too,
which nothing refuses; prices are not negative. An item id is
`size() + 1`, which repeats after a removal; `gone` (history) counts lines
removed. `std::sort` leaves equal lines in any order.

`Discounts` has `discounts_` and a discount's setters (through the pointer
`get_discount` returns), the six kinds of conditions including AND and OR, the
four calculations with their cap, and the discounts of an order. Amounts are
whole cents, and the division of quantities is the truncating one of C++
(`Truncated`). The parameters of a calculation are not negative and groups are
not empty: with `buy + free = 0` the code divides by zero. What the code has and
does not use is left out: `code_index_` is never filled, so no code is ever
found; `usage_limit` and `is_stackable` are read by no operation that applies a
discount. As in the code, an applied discount does not change the order's total,
MinimumQuantity counts lines, not articles (so that merging lines can lose a
discount), and a new discount's period is the epoch until it is set.

## 3. Runs

The `MC` modules name the values the `.cfg` files use.

| Run | Instance | Shows |
|---|---|---|
| OrdersOneThread | 1 thread, 2 users, 2 orders, 2 addresses, all statuses | the status index is exact for orders not cancelled; stale entries bounded; refinement of the lifecycle |
| OrdersDeletingThreads | 2 threads that also delete, 2 users, 3 orders, 2 addresses, one coupon, one payment | the user index is exact, and only operations on deleted orders go astray |
| OrderContents | 2 threads, one deletes; 2 orders; either items and shipping, or 2 discounts that are created, deleted and replaced | contents are settled once the order has left CREATED, and discounts once it is paid; the usage counter covers the holders |
| PaymentsUnforced | 1 thread, 1 transaction, 2 refunds, amounts 0..2, two gateways, nothing forced | recorded refunds within the amount; the status tells the refunded amount; nothing cancelled was charged |
| PaymentsTwoThreads | 2 threads, 1 transaction, 2 refunds, statuses forced, a method without a gateway of its own | recorded refunds exceed the amount by at most one refund per further thread and were paid out before |
| PaymentCompletedRefunds | violation | two full refunds, both requested before either is processed, are both paid out |
| Sessions | 2 threads with pointers, 2 users, 2 sessions, 2 addresses, durations 0..2 | index exact; writes through kept pointers; what revives an expired session; expired sessions are removed and shutdown returns |
| Caches | memory: 2 keys (one empty), values of 1 and 2 bytes, limit 2 bytes, 3 nodes, ttl 0 and 1, 5 strategies; tiers: 2 threads, 1 key, 2 values | bytes accounted; the eviction loop ends unless strategy or empty key stop it; refinement of LossyMap; tiers hold the last value or none; the lock is exclusive until pried open |
| ConnectionPool | 2 threads, 3 connections, limits 0 and 2, depth 2 | a connection has one owner, is clean when pooled, and is not lost, each but for named causes |
| Inventory | 2 warehouses, 2 products, quantities -1, 1, 2, at most 2 units, five orders of 1 to 3 lines, of one and of two products; lists of 4 ids, page sizes 1 and 2, 3-bit size_t | reserved stock is there; codes and the default lead where they should; an allocated order can be reserved product by product, with the stock promised once per line; pages tile a list; a walk misses and repeats no more rows than moved |
| Access | 2 threads, 3 names, 3 accounts; 2 roles, 1 permission, one thread that edits | names reach accounts; edits reach whom they name; answers of the permission cache are current; roles inherit only what was joined, and only a join makes a circle |
| Pricing | 3 lines, 2 products, quantities -1 and 2, prices 0, 2 and 4; 3 discounts, 7 calculations, with and without a cap, an AND of five conditions | ids reach lines; what is removed, merged or sorted keeps the rest; discounts are earned; held discounts are those applied |

*Bounds.* Two threads are enough for one operation to fall between the two
sections of another; three ids and two addresses let an address be reused while
a pointer to its former order is held, with a third order alive. Two users tell
the owner's list from another's. One transaction suffices, since no operation
relates two; two refunds compete for it. Amounts up to 2 distinguish a partial
from a full refund, and 0 tests the positive check. `MaxItems`, `MaxUsage`,
`MaxCharges` and `MaxPayouts` cap counters in the guards of the actions that
raise them. For `Sessions` two sessions and two addresses are enough: a pointer
to the first may reach the second at a reused address, and a sweep may meet an
expired session beside a valid one.

The cache's limit of two bytes is met by two small entries and exceeded by a
large one; three nodes allow a key with an old node and another between.
Operations on one key of the tiers touch no other, but for `clear`, which treats
all alike; the run with two keys and one value (1.5 million states) passes as
well. Three connections are one more than two threads can hold, so that a lost
one shows. A deletion of the first of two warehouses (accounts, roles) already
makes `size() + 1` an id in use; with three names the account that was replaced,
the one that replaced it and a bystander differ. Four rows make two pages of
two, and with a 3-bit `size_t` (0..7) the end of a later page wraps around.
Three lines let one stand between two of the same product; groups of one bought
with one or two free cover whole, partial and no groups, prices 0, 2 and 4 a
first price that is cheapest, dearest or none. `Inventory` takes quantities of
one product that go unchecked, or two products that do not and warehouses that
are not deleted: the allocation of an order looks at the stock only.
`OrderContents` takes the lines and the address of orders, or their discounts:
no operation relates the two but to refuse a discount. `MaxUnits`, `MaxHits`,
`MaxNodes`, `MaxDepth`, `Changes`, `MaxGone`, `MaxQuantity` and `LastDay` cap
what would otherwise grow, each in the guard of the action that raises it.

Deadlock is checked in every run: there is always a call that can be made or an
operation to finish.

*Fairness.* The orders, payments, pool, inventory and prices have no operation
that waits for another but for the mutex, and no liveness property. `Sessions`
assumes weak fairness of the cleanup thread and of the step that ends
`shutdown`: the thread is scheduled, `sleep_for` returns after its five
minutes, and `join` returns when the thread has ended. No section under the
mutex waits for anything, so the sweep gets the mutex. `MemoryCache` assumes it
of the rounds of the eviction loop, which the thread that holds the mutex
executes; of the RANDOM strategy that it does not choose the empty key for
ever. Nothing is assumed of callers or of the clock: `ExpiredIsRemoved` speaks
of sessions that have expired already. Of a lookup's nested lock in `Users`
nothing is assumed, and nothing is claimed.

### What the model says of the code

Most properties hold as the code's author would want them; many hold with a
condition, and the condition is the finding. The one violation run,
PaymentCompletedRefunds, contradicts the message "Refund amount exceeds
available amount" (payment.cpp). Beside it:

* `cancel_order` leaves the id in the list of its old status.
  `StatusIndexExact` therefore speaks of orders that are not cancelled, and
  `StaleEntriesBounded` bounds what is left behind. `get_orders_by_status` and
  the distribution count such orders under the old status.
* When two threads delete and update the same order, a dead id returns to the
  status index. Only completeness (`IndexComplete`) survives; this is why
  `StatusIndexIsExact` assumes exclusive deletions.
* `update_item_quantity` (order.cpp:569) lacks the check "Order cannot be
  modified" of its siblings; `ContentsSettled` excludes quantities.
* A discount's counter is never decremented and no limit is compared with it,
  so that `UsageCoversHolders` bounds it from below only. After a deletion a new
  discount of the same id begins at 0 while orders still hold the id (`former`).
* `allocate_order` counts two lines of one product against the same stock each
  on its own; `AllocatedCanReserve` bounds what it promises by once per line.
* PROCESSING is a way around PAID (order.cpp:51), so that an order is shipped
  unpaid, and a shipped order can be cancelled after a detour (order.cpp:56);
  the lifecycle states the rules as the code has them.
* `process_payment` pays a paid transaction again (payment.cpp:461), and a
  payment cancelled while its gateway answers ends CANCELLED with the amount
  taken (payment.cpp:482); `CancelledNotCharged` is about one thread.
* After a deletion, `size() + 1` gives out the id of a live account, role,
  warehouse or discount, which is replaced; `NamesReach`, `InheritsAsJoined`,
  `LookupsReach` and `HeldAsApplied` hold until then.
* `create_role` does not invalidate the permission cache (`outdated`), and
  `add_inheritance` refuses no circle; `CirclesAreJoined` says that nothing else
  makes one.
* `release` of a CacheLock erases the key also when its `acquire` failed
  (`pried`).
* The price at which free articles go is the first that is not 0, not the
  cheapest: with mixed prices more can be taken off than the cheapest articles
  cost (`DiscountEarned` says which part holds anyway).
* `MemoryCache::get` never gives the bytes of an expired entry back (`leaked`),
  and `set_strategy` or an empty key can make `set` hang with the mutex held.
* A promotion or two overlapping writes can leave the tiers with different
  values until the next write (`mixed`).
* A client of a paged list misses as many rows as were lost before his page.

## 4. Properties and mutants

For every property of a passing run `PROJECT.json` names a definition and a
mutation of it (a dropped guard, an index not updated, a reset left out) under
which TLC finds the property violated, so that no property holds by the shape
of the model alone.


## 5. Proofs

Every theorem holds for every value of the constants that satisfies the named
`ConstantsAssumption` of the component, whatever the number of threads, users,
orders, keys, and so on. TLC had found each invariant true on the instances of
the runs before it was proved. `PROJECT.json` lists the theorems.
Of the modules that a run explores together with another, the theorems are
about the specification of the module alone (`SpecWarehouses`, `SpecCatalog`,
`SpecUsers`, `SpecRoles`, `SpecTiers`, `SpecOrderItems`); the two share no
variable. `SpecPricing` has the lines of an order and its discounts together.

| Theorem | States | Assumes besides |
|---|---|---|
| **OrderManagerProofs** | | |
| `TypeCorrect`, `StoreCorrect` | `TypeOK`; `StoreInv`, the inductive invariant | – |
| `UserIndexIsExact`, `StatusIndexIsComplete`, `PointersStayValid` | `UserIndexExact`, `IndexComplete`, `PointersValid` | – |
| `EditsStayOnTarget` | `EditsReachNamedOrder` | – |
| `ImplementsLifecycle` | `LifecycleSpec`: every step is a lifecycle step or a stutter | – |
| `UsageCountsHolders` | `UsageCoversHolders` | – |
| `ContentsStaySettled` | `ContentsSettled` | finitely many quantities |
| `StatusIndexIsExact`, `StaleEntriesAreBounded` | `StatusIndexExact`, `StaleEntriesBounded` | `DeletesExclusive` |
| **PaymentsProofs** | | |
| `PaymentTypeCorrect`, `MoneyCorrect` | `TypeOK`; `MoneyInv`, the inductive invariant | – |
| `RefundRequestsAreSound` | `RefundRequestSound` | – |
| `OverRefundsAreBounded` | `OverRefundBounded` | finitely many threads |
| `RecordedRefundsWerePaidOut` | `RecordedWasPaidOut` | finitely many threads |
| `RefundsStayWithinAmount` | `RefundedWithinAmount` | `Sequential` |
| `RefundStatusAgreesUnforced` | `RefundStatusAgrees` | `Sequential`, `Forced = {}` |
| `CancelledNotChargedUnforced` | `CancelledNotCharged` | `Sequential`, `Forced = {}` |
| **ConnectionPoolProofs** | | |
| `PoolCorrect` | `PoolInv`, the inductive invariant | – |
| `ConnectionsAgree` | `DepthAgrees`: flag, depth and savepoint of a connection agree | – |
| `ConnectionsHaveOneOwner` | `SoleOwner` | – |
| `PooledConnectionsAreClean` | `PooledClean` | – |
| `ConnectionsAreNotLost` | `NoneLost` | – |
| **AuthProofs** | | |
| `SessionTypeCorrect`, `SessionCorrect` | `TypeOK` of the sessions; `SessionInv`, the inductive invariant | – |
| `SessionIndexIsExact` | `IndexExact` | – |
| `WritesStayOnTarget` | `WritesReachNamed` | – |
| `RevivedOnlyByRefresh` | `RevivedOnlyInFlight` | – |
| `UsersCorrect` | `UserInv`, the inductive invariant of the accounts | – |
| `NamesReachAccounts` | `NamesReach` | – |
| `EditsStayOnAccount` | `EditsReachNamed` | – |
| `RolesCorrect` | `RolesInv`, the inductive invariant of the roles and their cache | – |
| `InheritanceIsJoined` | `InheritsAsJoined` | – |
| `CirclesAreMade` | `CirclesAreJoined` | – |
| `AnswersAreCurrent` | `AnswersCurrent` | – |
| **CachesProofs** | | |
| `LockIsExclusive` | `LockExclusive` | – |
| `TiersNeverStale` | `NeverStale` | – |
| `HangsHaveACause` | `HangNeedsCause` | – |
| `CacheIsALossyMap` | `LossySpec`: every step is a step of LossyMap or a stutter | – |
| `BytesAreAccountedFor` | `BytesAccounted` | – |
| **InventoryProofs** | | |
| `StockCoversReservations` | `ReservedIsThere` and the types | – |
| `CodesAndDefaultReach` | `LookupsReach` | – |
| `AllocationsCanBeReserved` | `AllocatedCanReserve` | – |
| `CatalogCorrect` | `CatalogInv`, the inductive invariant of a list and of the walk through it | – |
| `WalksAreFaithful` | `WalkFaithful` | – |
| `PagesTileRows` | `PagesTile` | – |
| **PricingProofs** | | |
| `CollectionReaches` | `IdsReach`, of the collection by itself | – |
| `IdsReachHolds` | `IdsReach`, of an order with discounts | – |
| `ContentsKeptHolds` | `ContentsKept` | – |
| `HeldAsAppliedHolds` | `HeldAsApplied` | – |
| `DiscountEarnedHolds` | `DiscountEarned` | – |

*Orders.* `UserIndexExact` and `PointersValid` are not inductive alone: a
creation could hit a listed id or an address in use, and a pointer could come to
name a younger order. `StoreInv` adds that ids are below `next_order_id`
(`IdsIssued`), live addresses differ (`AddressesDistinct`), and a held pointer
names an issued id and, while that order lives, its address (`PointersIssued`).
The lemmas `SecondSectionMoves` and `SecondSectionIndex` reduce the dozen second
sections to one fact each: at most one order changes, keeping owner and address,
by an allowed transition; the status index moves at most the id it was given.
The proofs of the invariants then have one case per kind of step (`StepCases`).
`ExclusiveInv` adds, where deletions are exclusive (`DeletesExclusive`: nobody
deletes, or there is one thread), that a held pointer names a live order and
that an id not issued is in no list; a stale entry then stems from a
cancellation, which leaves one. `UsageCountsHolders` compares the counter with
the cardinality of the holders, one order at a time; whoever held the id of a
discount that is destroyed is in `former` from then on, so that a counter that
begins at 0 has no holders yet. For `ContentsStaySettled`, whatever a second
section does to an order past CREATED leaves its items alone or gives one of
them another quantity (`SettledIn`), which keeps the number of lines, counted as
pairs of a quantity and a number (`SameCount`). For its discounts, what
`FindDiscount` checked of the order still holds when the discount is applied
(`AppliesWhereAllowed`), since no other section has run in between but
DiscountManager's.

*Payments.* Three invariants contain each the one before. `MoneyInv` adds
to the types that ids are issued in order, so that `size() + 1` is unused here
(nothing is erased), and that what a thread holds between two accesses exists;
the amount it is about to request was checked against a transaction amount
that never changes, which makes `RefundRequestSound` survive every
interleaving. `SequentialInv` adds that the refunded amount `record_refund`
carries is still the recorded one (`RefundInProgress`), so its check covers
its addition; `Sequential` says that one thread uses the manager, and the run
PaymentsTwoThreads shows what is lost without it. `UnforcedInv` adds that a
charged transaction is neither cancellable nor about to be cancelled, except
while its own retry pays it again (`ChargedSettled`); `Forced = {}` says that
nobody calls `update_transaction_status`. For several threads `ThreadsInv`
(beside `MoneyInv`) counts the threads that have checked their refund and are
about to add it: each still has one amount of its own to use up, but for the
last one to check, whose refund fitted into what was there (`OverRefund`); an
addition uses up one amount at most, whichever thread it is. `PaidOutInv` adds
to what is recorded what is paid out and not recorded yet, the sum of the
amounts of the refunds that threads still have to add (`Unrecorded`): the two
together stay within what the gateway has paid, so that a lost addition leaves
the record too low and never too high.

*Sessions.* As for the orders: ids are issued once (`IdsIssued`), live sessions
have addresses of their own (`AddrsDistinct`), and a kept pointer is where its
session is for as long as that lives (`PointersIssued`); so what a pointer
reaches is its session (`AimedIsNamed`). `IndexExact` is what makes
`destroy_all_user_sessions`, which follows the list, remove all of them
(`DestroyAllRemoves`).

*Warehouses and lists.* `ReservedIsThere` is inductive with the types: each
operation moves stock and reservation of one product of at most two warehouses,
by an amount its check covered or that `unchecked` counts. `LookupsReach` needs
`IdsIssued`: while nothing was deleted the warehouses have the first ids, so
that `size() + 1` is a new one. For `AllocatedCanReserve`, the lines a warehouse
serves are a set of line numbers; a set of as many numbers as there are lines is
all of them. The quantities of one product's lines are each within what is
available, so that their sum is within that many times as much.

`WalkFaithful` is not inductive: before the walk is over it says nothing of
what was missed. `CatalogInv` counts both ways on the way: the kept rows among
the positions already read that were not seen (`Passed`) are at most the rows
lost, and the rows shown again together with those that were seen and lie
ahead once more (`Due`) are at most the rows gained. A row that goes moves at
most one row over the place where the reader stands, and so does one that
comes in; reading a page adds nothing to `Passed` and turns rows due into rows
shown again, one for one (`ReadMoves`). No page asked for overflows, since the
one before it was not empty (`PageIs`). For `PagesTile` the pages are cuts of
the list at multiples of the page size; `FlattenSeq` is a recursive function,
and the list up to each cut solves its equation (`CutsFlatten`).

*Connections.* `PoolInv` holds each part as long as the causes it excuses have
not happened. `Apart` and `Distinct` say that no two users have one connection
and that none in use is available: a connection gets a user only when it leaves
`available_` (or is new) and becomes available only when its user gives it up
(`ApartGrows`, `ApartMoves`, `GiveUp`). `PooledClean` is not inductive, since
what a connection is like when it comes back is decided while it is lent:
`Clean` adds that a connection in a transaction belongs to a Transaction object
whose destructor will roll it back (`Unfinished`), and that depth and savepoint
stay at 1, so that one commit ends the transaction. `NoneLost` needs that a
connection is in `busy_` once at most (`Counted`). All are in one invariant, as
`Clean` and `Counted` rest on `Apart`: a second user could leave what the first
does not clean up.

*Users and roles.* `NamesReach` is not inductive: a name may lead to an id that
nobody has at present, and the next account may get it. `NamesLead` says of
every name where it leads, `IdsGiven` that without a deletion the accounts have
the first ids, `PointersLead` that a pointer leads to what it was got for or to
what was allocated since. `RoleInv` says the same of the roles, and that every
parent's id was given out (`ParentsGiven`). `CacheInv` describes the permission
cache in the middle of any number of builds: each role's entry is right, or a
reader is building who still has to make it; a reader that built alone leaves
every entry right, which is `AnswersCurrent`. For `CirclesAreJoined`, only a
write adds a parent, a new role has none, and a role that inherits from itself
after one was added either did so before or by way of the new parent.

*Caches.* `LockIsExclusive` rests on the fact that the entry of a lock was made
by its holder (`HolderMadeEntry`) unless somebody erased it. For `NeverStale`,
`SharedKeys` says which operations overlap, and `Fresh` what each tier holds and
what the operations in progress will put there: a thread between the two calls
of a write excuses the tier it has not reached yet. `MemoryInv` has the types,
that the two halves of the access order agree on the nodes the index reaches
(`Linked`), and that every entry is among them (`OrderCoversEntries`), so that
an eviction finds a victim as long as there is an entry and the strategy keeps
an order. For `LossySpec`, each round of an operation sets one key, removes
some, or lets them expire (`SettingStep`, `LosingStep`, `Fades`).

`BytesAccounted` holds the whole time, also between the rounds of an eviction
or a cleanup: the counter is the sum of the sizes of the entries and of what
`get` leaked, each step changes one term of the sum (`SumChanged`), and what
the cleanup has still to visit are entries there are, so that none is given
back twice.

*Lines and discounts.* `IdsReach` is not inductive, as it does not say which ids
are taken. `ItemsInv` says that both indexes are exact and that at most `gone`
of the ids 1..`Len(items)` have no line: when the id `Len(items) + 1` of a new
line is taken, one below it was missing. `ContentsKept` is about lines erased
one by one in descending order: the fold is restated as a recursion over sets of
positions (`Erasure`), by induction over which exactly the other lines are left,
in order (`ErasureKeeps`); for merging and sorting, the quantity of a product is
a sum over its lines, which merging gathers into one line and sorting permutes
(`SumPadded`, `SumRenamed`). `HeldAsApplied` needs that the live discounts have
the ids 1..`created` until one is deleted (`HeldInv`). `DiscountEarned` is
integer arithmetic over the sums of the lines, one lemma per calculation and
bound (`PercentEarned`, `ReductionEarned`, `FixedEarned`, `FreeAtDearest`,
`FreeEarned`), with the cap in `LimitedFacts`; where the first price is the
cheapest, the sum of what the lines cost is at least that of the quantities at
that price.

*Sums and induction.* The induction theorems of the library take the property
as an operator, which the installed provers cannot instantiate. `Sums` derives
induction over the subsets of a finite set (`SubsetInduction`) and over numbers
(`UpTo`) from well-foundedness, with the property as the *set* of those that
have it. With it, the `CHOOSE` behind the community module's sum over a set is
shown to exist and to be unique, which gives its recursion equation
(`SumUnfold`); the same argument serves the folds of `PricingProofs` and
`FlattenSeq`.

*Only model-checked.* The liveness properties (`ExpiredIsRemoved`,
`ShutdownEnds`, `EvictionEnds`) rest on fairness and ENABLED,
which the proof system does not reach; TLC checks them. `CompletedWithinAmount`
is what the violation run refutes. Every other property of a run is proved.

## 6. Not modelled

* **PermissionManager and RBACService** (rbac.cpp). The first is a map with two
  indexes to which nothing else refers; the operations of the second are stubs
  without state.
* **Config** (config.cpp): a map of strings and its parser.
* **Data adapter, buffers, configuration profile**: one call chain without a
  loop or a second actor that passes a buffer on. What matters there is who
  frees it, which needs a memory model more than interleavings.
* **Process metrics**: five pure functions.
* **Command line** (main.cpp): it calls one manager after the other on one
  thread; a composition of orders and payments would have no step in common
  but the caller's.
* **audit_log, notification**: the README's table names them; there is no
  source.

Of the modelled components, these parts are left out:

* Order: `mark_as_*` and the metadata have no caller.
* PaymentManager: `shutdown` and `register_gateway` while payments run; fees.
* ProductCatalog: setters, attributes, variants and the category tree.
  `Product::update_stock` with a warehouse clears a `std::map` with `memset`
  (product.cpp), after which no outcome is defined.
* Discounts: `calculate_optimal_discounts` and `validate_discount_combination`
  only read.
* ConnectionPool: the release of a savepoint has no caller; results and
  QueryBuilder are formatting.
* Caches: `increment` and `decrement` of RedisCache have no caller.
* Statistics, formatting and JSON of all components.
