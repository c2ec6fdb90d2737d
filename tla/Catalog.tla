-------------------------------- MODULE Catalog --------------------------------
(***************************************************************************)
(* Lists that a client reads page by page while others change them: the    *)
(* products of ProductCatalog, all or those that match a category, a brand *)
(* or a keyword (src/src/inventory/product.cpp, ascending ids), and the    *)
(* orders of a user (src/src/order/order.cpp, newest first).               *)
(*                                                                         *)
(* A page is computed from the list as it is at that moment: nothing ties  *)
(* the pages of a walk together.  Ids are issued in ascending order and    *)
(* never again (next_product_id_, next_order_id_).                         *)
(***************************************************************************)
EXTENDS Naturals, Sequences, FiniteSets, Functions, SequencesExt

CONSTANTS
    MaxId,    \* bound on the ids issued
    Changes,  \* bound on the rows that updates move during a walk
    Sizes,    \* page sizes a walk may use
    Width     \* bits of size_t

ASSUME CatalogAssumption ==
    /\ MaxId \in Nat /\ Changes \in Nat
    /\ Width \in Nat /\ 2 * MaxId <= 2 ^ Width
    /\ Sizes \subseteq 1..(2 ^ Width - 1)

VARIABLES
    live,     \* ids of the products, or of the orders of the user
    matching, \* those of them that the list shows
    nextId,   \* next_product_id_, next_order_id_
    walk      \* the client: what he reads and has read

catalogVars == <<live, matching, nextId, walk>>

Ids == 1..MaxId

(* Products by id, matching products by id, the orders of a user.           *)
Lists == {"products", "matches", "orders"}

(* gained and lost count the changes since the first page that can move the *)
(* rows: one that comes in anywhere but behind the last, one that goes.     *)
(* kept are the rows that have been in the list all the time.               *)
NoWalk(list) ==
    [list |-> list, page |-> 0, size |-> 0, seen |-> [i \in Ids |-> 0],
     kept |-> {}, gained |-> 0, lost |-> 0, over |-> FALSE]

(* A walk is in progress from its first page to the first empty one.        *)
Walking == walk.size > 0 /\ ~walk.over

(* Orders come newest first, products oldest first. *)
Ahead(list, i, j) == IF list = "orders" THEN i > j ELSE i < j

(* The place of a row is one behind those ahead of it.                      *)
Position(list, ids, i) == Cardinality({j \in ids : Ahead(list, j, i)}) + 1

Listing(list, ids) ==
    [n \in 1..Cardinality(ids) |-> CHOOSE i \in ids : Position(list, ids, i) = n]

Rows == Listing(walk.list, matching)

InitCatalog ==
    /\ live = {} /\ matching = {}
    /\ nextId = 1
    /\ \E list \in Lists : walk = NoWalk(list)

-------------------------------------------------------------------------------
(* The definitions named ..._Faulty are variants with one mistake in them;  *)
(* no action uses them.  Each shows that a property notices that mistake.   *)
Wrap(n) == n % (2 ^ Width)

Least(m, n) == IF m < n THEN m ELSE n

(* A page of rows; start and end are size_t and wrap.  list_products counts *)
(* the rows and stops at end; get_user_orders indexes the reversed list.    *)
Page_Faulty(rows, page, size) ==
    LET start == Wrap(page * size)
    IN SubSeq(rows, start + 1, Least(Wrap(start + size) + 1, Len(rows)))

Page(rows, page, size) ==
    LET start == Wrap(page * size)
    IN SubSeq(rows, start + 1, Least(Wrap(start + size), Len(rows)))

(* What a change means for a walk in progress. *)
Counting(gain, gone) ==
    walk' = IF Walking
            THEN [walk EXCEPT !.gained = @ + gain, !.lost = @ + Cardinality(gone),
                              !.kept = @ \ gone]
            ELSE walk

NewId_Faulty == Cardinality(live) + 1

NewId == nextId

(* add_product with a new SKU, create_order.  A new order is the first row, *)
(* a new product the last one.                                              *)
AddRow(shown) ==
    /\ nextId <= MaxId
    /\ walk.list # "matches" => shown
    /\ live' = live \cup {NewId}
    /\ matching' = IF shown THEN matching \cup {NewId} ELSE matching
    /\ nextId' = nextId + 1
    /\ Counting(IF walk.list = "orders" THEN 1 ELSE 0, {})

(* remove_product, delete_order. *)
RemoveRow(i) ==
    /\ i \in live
    /\ live' = live \ {i}
    /\ matching' = matching \ {i}
    /\ Counting(0, matching \cap {i})
    /\ UNCHANGED nextId

(* update_product changes the category, the brand or the name.              *)
UpdateRow(i) ==
    /\ walk.list = "matches"
    /\ i \in live
    /\ walk.gained + walk.lost < Changes
    /\ IF i \in matching
       THEN matching' = matching \ {i} /\ Counting(0, {i})
       ELSE matching' = matching \cup {i} /\ Counting(1, {})
    /\ UNCHANGED <<live, nextId>>

(* ProductCatalog::shutdown; the next id stays. *)
Clear ==
    /\ live # {}
    /\ live' = {} /\ matching' = {}
    /\ Counting(0, matching)
    /\ UNCHANGED nextId

(* The client asks for the first page, also after an earlier walk. *)
Begin(size) ==
    /\ ~Walking
    /\ walk' = [NoWalk(walk.list) EXCEPT !.size = size, !.kept = matching]
    /\ UNCHANGED <<live, matching, nextId>>

(* How often a row is on a page.                                            *)
Times(rows, i) == Cardinality({n \in DOMAIN rows : rows[n] = i})

(* He reads page after page, until one is empty. *)
Read ==
    /\ Walking
    /\ LET page == Page(Rows, walk.page, walk.size)
       IN walk' = IF page = <<>>
                  THEN [walk EXCEPT !.over = TRUE]
                  ELSE [walk EXCEPT
                          !.page = @ + 1,
                          !.seen = [i \in Ids |-> @[i] + Times(page, i)]]
    /\ UNCHANGED <<live, matching, nextId>>

NextCatalog ==
    \/ \E shown \in BOOLEAN : AddRow(shown)
    \/ \E i \in Ids : RemoveRow(i)
    \/ \E i \in Ids : UpdateRow(i)
    \/ Clear
    \/ \E size \in Sizes : Begin(size)
    \/ Read

SpecCatalog == InitCatalog /\ [][NextCatalog]_catalogVars

-------------------------------------------------------------------------------
(* Every row, page for page, whatever the page size, up to the largest.     *)
Pages(size) == [n \in 1..(Len(Rows) \div size + 1) |-> Page(Rows, n - 1, size)]

(* The pages of a list that does not change are its rows, nothing missing   *)
(* and nothing twice, although the end of a page may overflow size_t.       *)
PagesTile == \A size \in 1..(2 ^ Width - 1) : FlattenSeq(Pages(size)) = Rows

(* Rows that were in the list all the time and on none of the pages.        *)
Missed == {i \in walk.kept : walk.seen[i] = 0}

(* How often each row was shown again.                                      *)
Again(seen) == [i \in Ids |-> IF seen[i] > 1 THEN seen[i] - 1 ELSE 0]

Repeats == SumFunctionOnSet(Again(walk.seen), Ids)

(* A walk misses no more of the rows that were in the list all the time     *)
(* than rows were lost meanwhile, each of which moves the rest up by one,   *)
(* and shows no more rows again than came in before others: a new product   *)
(* disturbs no walk, a new order shows one row again.                       *)
WalkFaithful ==
    /\ walk.over => Cardinality(Missed) <= walk.lost
    /\ Repeats <= walk.gained

===============================================================================
