----------------------------- MODULE PricingProofs -----------------------------
(***************************************************************************)
(* Proofs about OrderItems and Discounts, for every set of products,       *)
(* quantities and prices, every set of calculations and settings and every *)
(* bound.  The theorems are about SpecPricing, in which one thread changes *)
(* the lines and the discounts of an order.                                *)
(*                                                                         *)
(* IdsReach is not inductive: it does not say which ids are taken, and a   *)
(* new line gets the id Len(items) + 1 whether or not it is.  What is      *)
(* inductive (ItemsInv) says what each index holds, and that at most gone  *)
(* of the ids 1..Len(items) have no line: when the id of a new line is     *)
(* taken, one of these was missing all along.                              *)
(*                                                                         *)
(* ContentsKept is about FoldLeft over the positions of a product.  That   *)
(* fold is restated as a recursion over sets of positions (Erasure); by    *)
(* induction over these, erasing in descending order leaves exactly the    *)
(* other lines in their order (ErasureKeeps).                              *)
(*                                                                         *)
(* HeldAsApplied needs that, as long as nothing was deleted, the live ids  *)
(* are 1..created, so that a new discount replaces none.                   *)
(***************************************************************************)
EXTENDS Discounts, Sums, FunctionTheorems, SequenceTheorems

-------------------------------------------------------------------------------
(* Sets of numbers and their ascending listings.                            *)

(* A finite set of numbers has a largest: the CHOOSE of Max finds one.      *)
LEMMA LargestThere ==
    ASSUME NEW S, IsFiniteSet(S), S # {}, S \subseteq Int
    PROVE  Max(S) \in S /\ \A x \in S : x <= Max(S)
<1> DEFINE Good == {T \in SUBSET S : T # {} => \E m \in T : \A x \in T : m >= x}
<1>1. \A T \in SUBSET S : (\A U \in SUBSET T : U # T => U \in Good) => T \in Good
    <2> SUFFICES ASSUME NEW T \in SUBSET S, \A U \in SUBSET T : U # T => U \in Good, T # {}
                 PROVE  \E m \in T : \A x \in T : m >= x
        OBVIOUS
    <2>1. PICK e \in T : TRUE
        OBVIOUS
    <2>2. T \ {e} \in Good
        OBVIOUS
    <2>3. CASE T \ {e} = {}
        <3>1. \A x \in T : e >= x
            BY <2>3
        <3> QED
            BY <3>1
    <2>4. CASE T \ {e} # {}
        <3>1. PICK m \in T \ {e} : \A x \in T \ {e} : m >= x
            BY <2>2, <2>4
        <3>2. CASE m >= e
            <4>1. \A x \in T : m >= x
                BY <3>1, <3>2
            <4> QED
                BY <4>1
        <3>3. CASE ~(m >= e)
            <4>1. \A x \in T : e >= x
                BY <3>1, <3>3
            <4> QED
                BY <4>1
        <3> QED
            BY <3>2, <3>3
    <2> QED
        BY <2>3, <2>4
<1>2. \A T \in SUBSET S : T \in Good
    <2> HIDE DEF Good
    <2> QED
        BY <1>1, SubsetInduction
<1>3. PICK m \in S : \A x \in S : m >= x
    BY <1>2
<1>4. Max(S) \in S /\ \A x \in S : Max(S) >= x
    BY <1>3 DEF Max
<1> QED
    BY <1>4

(* A finite set of numbers has a smallest: the CHOOSE of Min finds one.     *)
LEMMA SmallestThere ==
    ASSUME NEW S, IsFiniteSet(S), S # {}, S \subseteq Int
    PROVE  Min(S) \in S /\ \A x \in S : Min(S) <= x
<1> DEFINE Good == {T \in SUBSET S : T # {} => \E m \in T : \A x \in T : m =< x}
<1>1. \A T \in SUBSET S : (\A U \in SUBSET T : U # T => U \in Good) => T \in Good
    <2> SUFFICES ASSUME NEW T \in SUBSET S, \A U \in SUBSET T : U # T => U \in Good, T # {}
                 PROVE  \E m \in T : \A x \in T : m =< x
        OBVIOUS
    <2>1. PICK e \in T : TRUE
        OBVIOUS
    <2>2. T \ {e} \in Good
        OBVIOUS
    <2>3. CASE T \ {e} = {}
        <3>1. \A x \in T : e =< x
            BY <2>3
        <3> QED
            BY <3>1
    <2>4. CASE T \ {e} # {}
        <3>1. PICK m \in T \ {e} : \A x \in T \ {e} : m =< x
            BY <2>2, <2>4
        <3>2. CASE m =< e
            <4>1. \A x \in T : m =< x
                BY <3>1, <3>2
            <4> QED
                BY <4>1
        <3>3. CASE ~(m =< e)
            <4>1. \A x \in T : e =< x
                BY <3>1, <3>3
            <4> QED
                BY <4>1
        <3> QED
            BY <3>2, <3>3
    <2> QED
        BY <2>3, <2>4
<1>2. \A T \in SUBSET S : T \in Good
    <2> HIDE DEF Good
    <2> QED
        BY <1>1, SubsetInduction
<1>3. PICK m \in S : \A x \in S : m =< x
    BY <1>2
<1>4. Min(S) \in S /\ \A x \in S : Min(S) =< x
    BY <1>3 DEF Min
<1> QED
    BY <1>4

(* s goes through the elements of S upwards. *)
Ascending(s, S) ==
    /\ s \in [1..Cardinality(S) -> S]
    /\ \A m, n \in 1..Cardinality(S) : m < n => s[m] < s[n]
    /\ \A x \in S : \E n \in 1..Cardinality(S) : s[n] = x

(* A finite set of numbers can be listed in ascending order: its largest    *)
(* goes to the end of a listing of the rest.                                *)
LEMMA AscendingThere ==
    ASSUME NEW S, IsFiniteSet(S), S \subseteq Int
    PROVE  \E s : Ascending(s, S)
<1> DEFINE Good == {T \in SUBSET S : \E s : Ascending(s, T)}
<1>1. \A T \in SUBSET S : (\A U \in SUBSET T : U # T => U \in Good) => T \in Good
    <2> SUFFICES ASSUME NEW T \in SUBSET S, \A U \in SUBSET T : U # T => U \in Good
                 PROVE  \E s : Ascending(s, T)
        OBVIOUS
    <2>1. IsFiniteSet(T) /\ Cardinality(T) \in Nat
        BY FS_Subset, FS_CardinalityType
    <2>2. CASE T = {}
        <3> DEFINE s == [n \in 1..0 |-> 0]
        <3>1. Ascending(s, T)
            BY <2>2, FS_EmptySet DEF Ascending
        <3> QED
            BY <3>1
    <2>3. CASE T # {}
        <3> DEFINE m == Max(T)
                   c == Cardinality(T)
        <3>1. m \in T /\ \A x \in T : x <= m
            BY <2>1, <2>3, LargestThere
        <3>2. T \ {m} \in Good
            BY <3>1
        <3>3. PICK r : Ascending(r, T \ {m})
            BY <3>2
        <3>4. Cardinality(T \ {m}) = c - 1 /\ c \in Nat
            BY <2>1, <3>1, FS_RemoveElement
        <3>5. c - 1 \in Nat
            BY <2>1, <2>3, <3>4, FS_EmptySet
        <3> DEFINE s == [n \in 1..c |-> IF n = c THEN m ELSE r[n]]
        <3> HIDE DEF c, m
        <3>6. /\ r \in [1..(c - 1) -> T \ {m}]
              /\ \A i, j \in 1..(c - 1) : i < j => r[i] < r[j]
              /\ \A x \in T \ {m} : \E n \in 1..(c - 1) : r[n] = x
            BY <3>3, <3>4 DEF Ascending
        <3>7. s \in [1..c -> T]
            <4>1. \A n \in 1..c : n # c => n \in 1..(c - 1) /\ r[n] \in T
                BY <3>4, <3>6
            <4> QED
                BY <3>1, <4>1
        <3>8. \A i, j \in 1..c : i < j => s[i] < s[j]
            <4> SUFFICES ASSUME NEW i \in 1..c, NEW j \in 1..c, i < j PROVE s[i] < s[j]
                OBVIOUS
            <4>1. i \in 1..(c - 1) /\ s[i] = r[i] /\ r[i] \in T \ {m}
                BY <3>4, <3>6
            <4>2. CASE j = c
                <5>1. r[i] <= m /\ r[i] # m /\ r[i] \in Int /\ m \in Int
                    BY <3>1, <4>1
                <5>2. s[j] = m
                    BY <4>2
                <5> HIDE DEF s
                <5> QED
                    BY <4>1, <5>1, <5>2
            <4>3. CASE j # c
                <5>1. j \in 1..(c - 1) /\ s[j] = r[j]
                    BY <3>4, <4>3
                <5> QED
                    BY <3>6, <4>1, <5>1
            <4> QED
                BY <4>2, <4>3
        <3>9. \A x \in T : \E n \in 1..c : s[n] = x
            <4> SUFFICES ASSUME NEW x \in T PROVE \E n \in 1..c : s[n] = x
                OBVIOUS
            <4>1. CASE x = m
                <5>1. c \in 1..c /\ s[c] = m
                    BY <3>4, <3>5
                <5> QED
                    BY <4>1, <5>1
            <4>2. CASE x # m
                <5>1. PICK n \in 1..(c - 1) : r[n] = x
                    BY <3>6, <4>2
                <5>2. n \in 1..c /\ s[n] = r[n]
                    BY <3>4
                <5> QED
                    BY <5>1, <5>2
            <4> QED
                BY <4>1, <4>2
        <3> QED
            BY <3>7, <3>8, <3>9 DEF Ascending, c
    <2> QED
        BY <2>2, <2>3
<1>2. \A T \in SUBSET S : T \in Good
    <2> HIDE DEF Good
    <2> QED
        BY <1>1, SubsetInduction
<1> QED
    BY <1>2

(* There are n numbers from 1 to n.                                         *)
LEMMA CountTo ==
    ASSUME NEW n \in Nat
    PROVE  Cardinality(1..n) = n
<1>1. 1 \in Int /\ n \in Int
    OBVIOUS
<1>2. Cardinality(1..n) = IF 1 > n THEN 0 ELSE n - 1 + 1
    BY <1>1, FS_Interval
<1> QED
    BY <1>2

(* A function on 1..n is a sequence of length n.                            *)
LEMMA LenOfListing ==
    ASSUME NEW n \in Nat, NEW S, NEW s \in [1..n -> S]
    PROVE  Len(s) = n /\ s \in Seq(S)
OBVIOUS

(* The CHOOSE of InOrder finds an ascending listing, and every element of   *)
(* the set is in it.                                                        *)
LEMMA InOrderAscends ==
    ASSUME NEW S, IsFiniteSet(S), S \subseteq Int
    PROVE  Ascending(InOrder(S), S)
<1> DEFINE N == 1..Cardinality(S)
           s == InOrder(S)
<1>1. PICK a : Ascending(a, S)
    BY AscendingThere
<1>2. s \in [N -> S] /\ \A m, n \in N : m < n => s[m] < s[n]
    BY <1>1 DEF InOrder, Ascending
<1>3. Cardinality(S) \in Nat
    BY FS_CardinalityType
<1> HIDE DEF s
<1>4. \A m, n \in N : s[m] = s[n] => m = n
    <2> SUFFICES ASSUME NEW m \in N, NEW n \in N, s[m] = s[n], m # n PROVE FALSE
        OBVIOUS
    <2>1. s[m] \in Int
        BY <1>2
    <2>2. m < n \/ n < m
        BY <1>3
    <2> QED
        BY <1>2, <2>1, <2>2
<1>5. s \in Injection(N, S)
    BY <1>2, <1>4, Fun_IsInj
<1>6. IsFiniteSet(N) /\ Cardinality(N) = Cardinality(S)
    BY <1>3, FS_Interval
<1>7. s \in Surjection(N, S)
    BY <1>5, <1>6, FS_Injection
<1> HIDE DEF N
<1>8. \A x \in S : \E n \in N : s[n] = x
    BY <1>7 DEF Surjection
<1> QED
    BY <1>2, <1>8 DEF Ascending, s, N

(* A set has one ascending listing: at the first position where two differ, *)
(* the smaller of the two elements would be missing from the other.         *)
LEMMA AscendingUnique ==
    ASSUME NEW S, IsFiniteSet(S), S \subseteq Int, NEW a, NEW b, Ascending(a, S), Ascending(b, S)
    PROVE  a = b
<1> DEFINE N == 1..Cardinality(S)
           D == {n \in N : a[n] # b[n]}
<1>1. Cardinality(S) \in Nat /\ IsFiniteSet(N) /\ N \subseteq Int
    BY FS_CardinalityType, FS_Interval
<1>2. ASSUME D # {} PROVE FALSE
    <2>1. IsFiniteSet(D) /\ D \subseteq Int
        BY <1>1, FS_Subset
    <2> DEFINE n == Min(D)
    <2>2. n \in D /\ \A m \in D : n <= m
        BY <1>2, <2>1, SmallestThere
    <2> HIDE DEF n
    <2>3. ASSUME NEW f, NEW g, Ascending(f, S), Ascending(g, S), f[n] < g[n],
                 \A m \in N : m < n => f[m] = g[m]
          PROVE  FALSE
        <3>1. n \in N /\ f[n] \in S
            BY <2>2, <2>3 DEF Ascending
        <3>2. PICK m \in N : g[m] = f[n]
            BY <2>3, <3>1 DEF Ascending
        <3>3. m < n
            <4>1. n < m => g[n] < g[m]
                BY <2>3, <3>1 DEF Ascending
            <4>2. g[n] \in S /\ g[m] \in S
                BY <2>3, <3>1 DEF Ascending
            <4>3. g[n] \in Int /\ f[n] \in Int /\ m \in Int /\ n \in Int
                BY <1>1, <3>1, <4>2
            <4> QED
                BY <2>3, <3>2, <4>1, <4>3
        <3>4. f[m] < f[n] /\ f[m] = f[n]
            BY <2>3, <3>1, <3>2, <3>3 DEF Ascending
        <3>5. f[n] \in Int
            BY <3>1
        <3> QED
            BY <3>4, <3>5
    <2>4. \A m \in N : m < n => a[m] = b[m] /\ b[m] = a[m]
        BY <1>1, <2>2
    <2>5. a[n] \in Int /\ b[n] \in Int /\ a[n] # b[n]
        BY <2>2 DEF Ascending
    <2>6. a[n] < b[n] \/ b[n] < a[n]
        BY <2>5
    <2> QED
        BY <2>3, <2>4, <2>6
<1>3. \A n \in N : a[n] = b[n]
    BY <1>2
<1>4. a \in [N -> S] /\ b \in [N -> S]
    BY DEF Ascending
<1> HIDE DEF N
<1> QED
    BY <1>3, <1>4

(* An ascending listing has no element twice, and a smaller element stands  *)
(* further to the front.                                                    *)
LEMMA AscendingInjects ==
    ASSUME NEW S, IsFiniteSet(S), S \subseteq Int, NEW a, Ascending(a, S)
    PROVE  \A m, n \in 1..Cardinality(S) : /\ a[m] = a[n] => m = n
                                           /\ a[m] < a[n] => m < n
                                           /\ a[m] \in S
<1> TAKE m, n \in 1..Cardinality(S)
<1>1. Cardinality(S) \in Nat
    BY FS_CardinalityType
<1>2. a[m] \in S /\ a[n] \in S
    BY DEF Ascending
<1>3. m < n => a[m] < a[n]
    BY DEF Ascending
<1>4. n < m => a[n] < a[m]
    BY DEF Ascending
<1>5. a[m] \in Int /\ a[n] \in Int
    BY <1>2
<1> QED
    BY <1>1, <1>2, <1>3, <1>4, <1>5

(* An ascending listing without its r-th element is one of the set without  *)
(* that element.                                                            *)
LEMMA TakingOut ==
    ASSUME NEW S, IsFiniteSet(S), S \subseteq Int, NEW a, Ascending(a, S),
           NEW r \in 1..Cardinality(S), NEW b,
           b = [j \in 1..(Cardinality(S) - 1) |-> IF j < r THEN a[j] ELSE a[j + 1]]
    PROVE  /\ Ascending(b, S \ {a[r]})
           /\ Cardinality(S \ {a[r]}) = Cardinality(S) - 1
<1> DEFINE c == Cardinality(S)
           T == S \ {a[r]}
<1>1. c \in Nat
    BY FS_CardinalityType
<1>2. a[r] \in S
    BY DEF Ascending
<1>3. Cardinality(T) = c - 1
    BY <1>2, FS_RemoveElement
<1>4. \A m, n \in 1..c : /\ a[m] = a[n] => m = n
                         /\ a[m] \in S
                         /\ m < n => a[m] < a[n]
    BY AscendingInjects DEF Ascending
<1> HIDE DEF c
<1>5. \A j \in 1..(c - 1) : b[j] = IF j < r THEN a[j] ELSE a[j + 1]
    BY DEF c
<1>6. \A j \in 1..(c - 1) : b[j] \in T
    <2> TAKE j \in 1..(c - 1)
    <2>1. CASE j < r
        <3>1. j \in 1..c /\ r \in 1..c /\ j # r
            BY <1>1, <2>1 DEF c
        <3> QED
            BY <1>4, <1>5, <2>1, <3>1
    <2>2. CASE ~(j < r)
        <3>1. j + 1 \in 1..c /\ r \in 1..c /\ j + 1 # r
            BY <1>1, <2>2 DEF c
        <3> QED
            BY <1>4, <1>5, <2>2, <3>1
    <2> QED
        BY <2>1, <2>2
<1>7. \A m, n \in 1..(c - 1) : m < n => b[m] < b[n]
    <2> SUFFICES ASSUME NEW m \in 1..(c - 1), NEW n \in 1..(c - 1), m < n PROVE b[m] < b[n]
        OBVIOUS
    <2>1. m \in 1..c /\ n \in 1..c /\ m + 1 \in 1..c /\ n + 1 \in 1..c /\ r \in 1..c
        BY <1>1 DEF c
    <2>2. CASE n < r
        <3>1. m < r
            BY <1>1, <2>1, <2>2
        <3> QED
            BY <1>4, <1>5, <2>1, <2>2, <3>1
    <2>3. CASE ~(n < r) /\ m < r
        <3>1. m < n + 1
            BY <2>1
        <3> QED
            BY <1>4, <1>5, <2>1, <2>3, <3>1
    <2>4. CASE ~(n < r) /\ ~(m < r)
        <3>1. m + 1 < n + 1
            BY <2>1
        <3> QED
            BY <1>4, <1>5, <2>1, <2>4, <3>1
    <2> QED
        BY <2>2, <2>3, <2>4
<1>8. \A x \in T : \E j \in 1..(c - 1) : b[j] = x
    <2> SUFFICES ASSUME NEW x \in T PROVE \E j \in 1..(c - 1) : b[j] = x
        OBVIOUS
    <2>1. PICK m \in 1..c : a[m] = x
        BY DEF Ascending, c
    <2>2. m # r /\ r \in 1..c
        BY <2>1 DEF c
    <2>3. CASE m < r
        <3>1. m \in 1..(c - 1) /\ b[m] = a[m]
            BY <1>1, <1>5, <2>2, <2>3
        <3> QED
            BY <2>1, <3>1
    <2>4. CASE m > r
        <3>1. m - 1 \in 1..(c - 1) /\ ~(m - 1 < r) /\ (m - 1) + 1 = m
            BY <1>1, <2>2, <2>4
        <3>2. b[m - 1] = a[m]
            BY <1>5, <3>1
        <3> QED
            BY <2>1, <3>1, <3>2
    <2> QED
        BY <1>1, <2>2, <2>3, <2>4
<1>9. b \in [1..(c - 1) -> T]
    BY <1>6 DEF c
<1> QED
    BY <1>3, <1>7, <1>8, <1>9 DEF Ascending, c

-------------------------------------------------------------------------------
(* The lines and their indexes.                                             *)

(* A line of an order.                                                      *)
Item == [id : Nat, product : Products, quantity : Int, price : Nat]

Lines == 1..Len(items)
Ids == {items[n].id : n \in Lines}
(* The products that the order has lines of.                                *)
ProductsOrdered == {items[n].product : n \in Lines}
LinesWithId(i) == {n \in Lines : items[n].id = i}
LinesOf(p) == {n \in Lines : items[n].product = p}

(* What rebuild_indexes makes the two indexes.                              *)
IndexesExact ==
    /\ id_index = [i \in Ids |-> Max(LinesWithId(i))]
    /\ product_index = [p \in ProductsOrdered |-> InOrder(LinesOf(p))]

(* The ids a fresh order of this length would have and this one has not. *)
Missing == Lines \ Ids

(* The inductive invariant of the lines.                                    *)
ItemsInv ==
    /\ items \in Seq(Item) /\ gone \in Nat
    /\ IndexesExact
    /\ Cardinality(Missing) <= gone

(* The positions are finitely many, and what a line holds are numbers.      *)
LEMMA LinesFacts ==
    items \in Seq(Item) =>
      /\ Len(items) \in Nat /\ DOMAIN items = Lines /\ IsFiniteSet(Lines)
      /\ Cardinality(Lines) = Len(items)
      /\ \A n \in Lines : /\ items[n] \in Item /\ items[n].id \in Nat /\ items[n].product \in Nat
                          /\ items[n].product \in Products
                          /\ items[n].quantity \in Int /\ items[n].price \in Nat
<1> SUFFICES ASSUME items \in Seq(Item)
             PROVE  /\ Len(items) \in Nat /\ DOMAIN items = Lines /\ IsFiniteSet(Lines)
                    /\ Cardinality(Lines) = Len(items)
                    /\ \A n \in Lines : /\ items[n] \in Item /\ items[n].id \in Nat
                                        /\ items[n].product \in Nat
                                        /\ items[n].product \in Products
                                        /\ items[n].quantity \in Int /\ items[n].price \in Nat
    OBVIOUS
<1>1. Len(items) \in Nat /\ DOMAIN items = Lines
    BY DEF Lines
<1>2. IsFiniteSet(Lines) /\ Cardinality(Lines) = Len(items)
    BY <1>1, FS_Interval DEF Lines
<1>3. \A n \in Lines : items[n] \in Item
    BY <1>1
<1> QED
    BY <1>1, <1>2, <1>3, OrderItemsAssumption DEF Item

(* product_index lists the positions of the lines of each product, in       *)
(* ascending order.                                                         *)
LEMMA ProductIndexFacts ==
    ASSUME ItemsInv
    PROVE  /\ DOMAIN product_index = ProductsOrdered
           /\ IsFiniteSet(ProductsOrdered) /\ ProductsOrdered \subseteq Nat
           /\ \A p \in ProductsOrdered :
                /\ Ascending(product_index[p], LinesOf(p))
                /\ Len(product_index[p]) = Cardinality(LinesOf(p))
                /\ DOMAIN product_index[p] = 1..Cardinality(LinesOf(p))
           /\ \A p : IsFiniteSet(LinesOf(p)) /\ Cardinality(LinesOf(p)) \in Nat
<1>1. IsFiniteSet(Lines) /\ \A n \in Lines : items[n].product \in Nat
    BY LinesFacts DEF ItemsInv
<1>2. \A p : LinesOf(p) \in SUBSET Lines
    BY DEF LinesOf
<1>3. \A p : IsFiniteSet(LinesOf(p)) /\ Cardinality(LinesOf(p)) \in Nat
    BY <1>1, <1>2, FS_Subset, FS_CardinalityType
<1>4. \A p : LinesOf(p) \subseteq Int
    BY DEF LinesOf, Lines
<1>5. \A p : Ascending(InOrder(LinesOf(p)), LinesOf(p))
    BY <1>3, <1>4, InOrderAscends
<1>6. \A p \in ProductsOrdered : Ascending(product_index[p], LinesOf(p))
    BY <1>5 DEF ItemsInv, IndexesExact
<1>7. IsFiniteSet(ProductsOrdered)
    <2> DEFINE f == [n \in Lines |-> items[n].product]
    <2>1. f \in Surjection(Lines, ProductsOrdered)
        <3>1. f \in [Lines -> ProductsOrdered] /\ \A p \in ProductsOrdered : \E n \in Lines : f[n] = p
            BY DEF ProductsOrdered
        <3> QED
            BY <3>1, Fun_IsSurj
    <2> QED
        BY <1>1, <2>1, FS_Surjection
<1>8. \A p \in ProductsOrdered :
         /\ Len(product_index[p]) = Cardinality(LinesOf(p))
         /\ DOMAIN product_index[p] = 1..Cardinality(LinesOf(p))
    <2> SUFFICES ASSUME NEW p \in ProductsOrdered
                 PROVE  /\ Len(product_index[p]) = Cardinality(LinesOf(p))
                        /\ DOMAIN product_index[p] = 1..Cardinality(LinesOf(p))
        OBVIOUS
    <2>1. product_index[p] \in [1..Cardinality(LinesOf(p)) -> LinesOf(p)]
        BY <1>6 DEF Ascending
    <2> QED
        BY <1>3, <2>1, LenOfListing
<1> QED
    BY <1>1, <1>3, <1>6, <1>7, <1>8 DEF ProductsOrdered, ItemsInv, IndexesExact

(* id_index leads from every id to a line that has it.                      *)
LEMMA IdIndexFacts ==
    ASSUME ItemsInv
    PROVE  /\ DOMAIN id_index = Ids
           /\ \A i \in Ids : id_index[i] \in Lines /\ items[id_index[i]].id = i
<1>1. IsFiniteSet(Lines)
    BY LinesFacts DEF ItemsInv
<1>2. \A i \in Ids : Max(LinesWithId(i)) \in LinesWithId(i)
    <2> SUFFICES ASSUME NEW i \in Ids PROVE Max(LinesWithId(i)) \in LinesWithId(i)
        OBVIOUS
    <2>1. LinesWithId(i) \in SUBSET Lines /\ LinesWithId(i) # {} /\ LinesWithId(i) \subseteq Int
        BY DEF Ids, LinesWithId, Lines
    <2>2. IsFiniteSet(LinesWithId(i))
        BY <1>1, <2>1, FS_Subset
    <2> QED
        BY <2>1, <2>2, LargestThere
<1> QED
    BY <1>2 DEF ItemsInv, IndexesExact, LinesWithId

(* The state predicate. *)
LEMMA InvGivesIdsReach == ItemsInv => IdsReach
<1> SUFFICES ASSUME ItemsInv PROVE IdsReach
    OBVIOUS
<1>1. /\ Len(items) \in Nat /\ DOMAIN items = Lines /\ IsFiniteSet(Lines)
      /\ Cardinality(Lines) = Len(items)
    BY LinesFacts DEF ItemsInv
<1>2. DOMAIN id_index = Ids /\ \A i \in Ids : id_index[i] \in Lines /\ items[id_index[i]].id = i
    BY IdIndexFacts
<1>3. \A n \in DOMAIN items : n \in Range(product_index[items[n].product])
    <2> SUFFICES ASSUME NEW n \in Lines PROVE n \in Range(product_index[items[n].product])
        BY <1>1
    <2> DEFINE p == items[n].product
    <2>1. p \in ProductsOrdered /\ n \in LinesOf(p)
        BY DEF ProductsOrdered, LinesOf
    <2>2. /\ Ascending(product_index[p], LinesOf(p))
          /\ DOMAIN product_index[p] = 1..Cardinality(LinesOf(p))
        BY <2>1, ProductIndexFacts
    <2>3. PICK k \in 1..Cardinality(LinesOf(p)) : product_index[p][k] = n
        BY <2>1, <2>2 DEF Ascending
    <2> QED
        BY <2>2, <2>3 DEF Range
<1>4. Cardinality(Unreached) <= gone
    <2> DEFINE Reached == {n \in Lines : id_index[items[n].id] = n}
    <2>1. Unreached = Lines \ Reached /\ Reached \in SUBSET Lines
        BY <1>1 DEF Unreached
    <2>2. IsFiniteSet(Reached) /\ Cardinality(Reached) \in Nat
        BY <1>1, <2>1, FS_Subset, FS_CardinalityType
    <2>3. Cardinality(Unreached) = Len(items) - Cardinality(Reached)
        <3>1. Lines \cap Reached = Reached
            OBVIOUS
        <3> HIDE DEF Reached
        <3>2. Cardinality(Lines \ Reached) = Cardinality(Lines) - Cardinality(Lines \cap Reached)
            BY <1>1, FS_Difference
        <3> QED
            BY <1>1, <2>1, <3>1, <3>2
    <2> DEFINE f == [i \in Ids |-> id_index[i]]
    <2>4. f \in Injection(Ids, Reached)
        <3>1. \A i \in Ids : f[i] \in Reached /\ items[f[i]].id = i
            BY <1>2
        <3>2. f \in [Ids -> Reached] /\ \A i, j \in Ids : f[i] = f[j] => i = j
            BY <3>1
        <3> QED
            BY <3>2, Fun_IsInj
    <2>5. IsFiniteSet(Ids) /\ Cardinality(Ids) <= Cardinality(Reached) /\ Cardinality(Ids) \in Nat
        BY <2>2, <2>4, FS_Injection, FS_CardinalityType
    <2>6. IsFiniteSet(Missing) /\ Cardinality(Missing) = Len(items) - Cardinality(Lines \cap Ids)
        BY <1>1, FS_Difference DEF Missing
    <2>7. Cardinality(Lines \cap Ids) <= Cardinality(Ids) /\ Cardinality(Lines \cap Ids) \in Nat
        BY <2>5, FS_Intersection, FS_CardinalityType
    <2> HIDE DEF Reached
    <2>8. Cardinality(Missing) <= gone /\ gone \in Nat
        BY DEF ItemsInv
    <2> QED
        BY <1>1, <2>2, <2>3, <2>5, <2>6, <2>7, <2>8
<1> QED
    BY <1>1, <1>2, <1>3, <1>4 DEF IdsReach

(* rebuild_indexes makes both indexes exact, whatever they were.            *)
LEMMA ExactAfterRebuilt ==
    ASSUME NEW s, Rebuilt(s), s \in Seq(Item)
    PROVE  items' = s /\ IndexesExact'
<1>1. DOMAIN s = 1..Len(s)
    OBVIOUS
<1> QED
    BY <1>1 DEF Rebuilt, IndexesExact, Ids, ProductsOrdered, LinesOf, LinesWithId, Lines

(* Lines that go, or are merged into others, take an id each with them at   *)
(* most.                                                                    *)
LEMMA LosingLines ==
    ASSUME ItemsInv, NEW s \in Seq(Item), Rebuilt(s), Len(s) <= Len(items),
           NEW L \in SUBSET Lines, gone' = gone + Cardinality(L),
           \A n \in Lines \ L : \E m \in 1..Len(s) : s[m].id = items[n].id
    PROVE  ItemsInv'
<1>1. items' = s /\ IndexesExact'
    BY ExactAfterRebuilt
<1>2. IsFiniteSet(Lines) /\ Len(items) \in Nat /\ Len(s) \in Nat
    BY LinesFacts DEF ItemsInv
<1>3. IsFiniteSet(L) /\ Cardinality(L) \in Nat
    BY <1>2, FS_Subset, FS_CardinalityType
<1> DEFINE LostIds == {items[n].id : n \in L}
           f == [n \in L |-> items[n].id]
<1>4. f \in Surjection(L, LostIds)
    <2>1. f \in [L -> LostIds] /\ \A i \in LostIds : \E n \in L : f[n] = i
        OBVIOUS
    <2> QED
        BY <2>1, Fun_IsSurj
<1>5. IsFiniteSet(LostIds) /\ Cardinality(LostIds) <= Cardinality(L) /\ Cardinality(LostIds) \in Nat
    BY <1>3, <1>4, FS_Surjection, FS_CardinalityType
<1>6. Missing' \in SUBSET (Missing \cup LostIds)
    <2> SUFFICES ASSUME NEW i \in 1..Len(s), \A m \in 1..Len(s) : s[m].id # i,
                        i \notin LostIds
                 PROVE  i \in Missing
        BY <1>1 DEF Missing, Lines, Ids
    <2>1. i \in Lines
        BY <1>2 DEF Lines
    <2>2. \A n \in Lines : items[n].id # i
        OBVIOUS
    <2> QED
        BY <2>1, <2>2 DEF Missing, Ids
<1>7. IsFiniteSet(Missing) /\ Cardinality(Missing) \in Nat
    BY <1>2, FS_Subset, FS_CardinalityType DEF Missing
<1> HIDE DEF LostIds
<1>8. /\ IsFiniteSet(Missing \cup LostIds)
      /\ Cardinality(Missing \cup LostIds) <= Cardinality(Missing) + Cardinality(LostIds)
    <2>1. Cardinality(Missing \cap LostIds) \in Nat
        BY <1>7, FS_Intersection, FS_CardinalityType
    <2>2. /\ IsFiniteSet(Missing \cup LostIds)
          /\ Cardinality(Missing \cup LostIds)
               = Cardinality(Missing) + Cardinality(LostIds) - Cardinality(Missing \cap LostIds)
        BY <1>5, <1>7, FS_Union
    <2> QED
        BY <1>5, <1>7, <2>1, <2>2
<1>9. Cardinality(Missing') <= Cardinality(Missing \cup LostIds) /\ Cardinality(Missing') \in Nat
    BY <1>6, <1>8, FS_Subset, FS_CardinalityType
<1>10. Cardinality(Missing \cup LostIds) \in Nat
    BY <1>8, FS_CardinalityType
<1>11. gone \in Nat /\ Cardinality(Missing) <= gone
    BY DEF ItemsInv
<1>12. Cardinality(Missing') <= gone' /\ gone' \in Nat
    BY <1>3, <1>5, <1>7, <1>8, <1>9, <1>10, <1>11
<1> QED
    BY <1>1, <1>12 DEF ItemsInv

(* The lines behind the one that is erased move up by one.                  *)
LEMMA RemovalFacts ==
    ASSUME NEW S, NEW s \in Seq(S), NEW k \in 1..Len(s)
    PROVE  /\ RemoveAt(s, k) \in Seq(S)
           /\ Len(RemoveAt(s, k)) = Len(s) - 1
           /\ \A j \in 1..(Len(s) - 1) :
                 RemoveAt(s, k)[j] = IF j < k THEN s[j] ELSE s[j + 1]
<1>1. SubSeq(s, 1, k - 1) \in Seq(S) /\ Len(SubSeq(s, 1, k - 1)) = k - 1
    OBVIOUS
<1>2. SubSeq(s, k + 1, Len(s)) \in Seq(S) /\ Len(SubSeq(s, k + 1, Len(s))) = Len(s) - k
    OBVIOUS
<1>3. \A j \in 1..(k - 1) : SubSeq(s, 1, k - 1)[j] = s[j]
    OBVIOUS
<1>4. \A j \in 1..(Len(s) - k) : SubSeq(s, k + 1, Len(s))[j] = s[k + j]
    OBVIOUS
<1> DEFINE a == SubSeq(s, 1, k - 1)
           b == SubSeq(s, k + 1, Len(s))
<1> HIDE DEF a, b
<1>5. /\ a \o b \in Seq(S) /\ Len(a \o b) = Len(s) - 1
      /\ \A j \in 1..(Len(s) - 1) : (a \o b)[j] = IF j < k THEN a[j] ELSE b[j - (k - 1)]
    <2>1. a \in Seq(S) /\ Len(a) = k - 1 /\ b \in Seq(S) /\ Len(b) = Len(s) - k
        BY <1>1, <1>2 DEF a, b
    <2>2. /\ a \o b \in Seq(S)
          /\ Len(a \o b) = Len(a) + Len(b)
          /\ \A i \in 1..(Len(a) + Len(b)) : (a \o b)[i] = IF i <= Len(a) THEN a[i] ELSE b[i - Len(a)]
        BY <2>1, ConcatProperties
    <2>3. Len(a) + Len(b) = Len(s) - 1 /\ \A j \in 1..(Len(s) - 1) : j <= k - 1 <=> j < k
        BY <2>1
    <2> QED
        BY <2>1, <2>2, <2>3
<1>6. \A j \in 1..(Len(s) - 1) : j < k => a[j] = s[j]
    BY <1>3 DEF a
<1>7. \A j \in 1..(Len(s) - 1) : ~(j < k) => b[j - (k - 1)] = s[j + 1]
    <2> SUFFICES ASSUME NEW j \in 1..(Len(s) - 1), ~(j < k) PROVE b[j - (k - 1)] = s[j + 1]
        OBVIOUS
    <2>1. j - (k - 1) \in 1..(Len(s) - k) /\ k + (j - (k - 1)) = j + 1
        OBVIOUS
    <2> QED
        BY <1>4, <2>1 DEF b
<1>8. RemoveAt(s, k) = a \o b
    BY DEF RemoveAt, a, b
<1> QED
    BY <1>5, <1>6, <1>7, <1>8

(* add_item: the id of the new line is missing neither before nor after; of *)
(* the smaller ids none goes missing.                                       *)
LEMMA AddKeeps ==
    ASSUME ItemsInv, NEW p \in Products, NEW q \in Quantities, NEW x \in Prices,
           AddItem(p, q, x)
    PROVE  ItemsInv'
<1> DEFINE new == [id |-> NewLineId, product |-> p, quantity |-> q, price |-> x]
           s == Append(items, new)
<1>1. Len(items) \in Nat /\ IsFiniteSet(Lines) /\ items \in Seq(Item)
    BY LinesFacts DEF ItemsInv
<1>2. new \in Item /\ new.id = Len(items) + 1
    BY <1>1, OrderItemsAssumption DEF Item, NewLineId
<1> HIDE DEF new
<1>3. s \in Seq(Item) /\ Len(s) = Len(items) + 1 /\ s[Len(items) + 1] = new
      /\ \A n \in Lines : s[n] = items[n]
    BY <1>1, <1>2 DEF Lines
<1>4. items' = s /\ IndexesExact'
    BY <1>3, ExactAfterRebuilt DEF AddItem, new
<1> HIDE DEF s
<1>5. Missing' \in SUBSET Missing
    <2> SUFFICES ASSUME NEW i \in 1..(Len(items) + 1), \A m \in 1..(Len(items) + 1) : s[m].id # i
                 PROVE  i \in Missing
        BY <1>3, <1>4 DEF Missing, Lines, Ids
    <2>1. i # Len(items) + 1
        BY <1>1, <1>2, <1>3
    <2>2. i \in Lines
        BY <1>1, <2>1 DEF Lines
    <2>3. \A n \in Lines : items[n].id # i
        BY <1>1, <1>3 DEF Lines
    <2> QED
        BY <2>2, <2>3 DEF Missing, Ids
<1>6. IsFiniteSet(Missing) /\ Cardinality(Missing) \in Nat
    BY <1>1, FS_Subset, FS_CardinalityType DEF Missing
<1>7. Cardinality(Missing') <= Cardinality(Missing) /\ Cardinality(Missing') \in Nat
    BY <1>5, <1>6, FS_Subset, FS_CardinalityType
<1>8. gone' = gone /\ gone \in Nat /\ Cardinality(Missing) <= gone
    BY DEF AddItem, ItemsInv
<1> QED
    BY <1>3, <1>4, <1>6, <1>7, <1>8 DEF ItemsInv

(* remove_item erases one line, and at most one id goes missing.            *)
LEMMA RemoveKeeps ==
    ASSUME ItemsInv, NEW id, RemoveItem(id)
    PROVE  ItemsInv'
<1> DEFINE k == id_index[id]
           s == RemoveAt(items, k)
<1>1. Len(items) \in Nat /\ items \in Seq(Item)
    BY LinesFacts DEF ItemsInv
<1>2. k \in Lines
    BY IdIndexFacts DEF RemoveItem
<1> HIDE DEF k
<1>3. /\ s \in Seq(Item) /\ Len(s) = Len(items) - 1
      /\ \A j \in 1..(Len(items) - 1) : s[j] = IF j < k THEN items[j] ELSE items[j + 1]
    BY <1>1, <1>2, RemovalFacts DEF Lines
<1>4. Rebuilt(s) /\ gone' = gone + Cardinality({k})
    BY FS_Singleton DEF RemoveItem, k
<1> HIDE DEF s
<1>5. \A n \in Lines \ {k} : \E m \in 1..Len(s) : s[m].id = items[n].id
    <2> SUFFICES ASSUME NEW n \in Lines, n # k PROVE \E m \in 1..Len(s) : s[m].id = items[n].id
        OBVIOUS
    <2>1. CASE n < k
        <3>1. n \in 1..Len(s) /\ s[n] = items[n]
            BY <1>1, <1>2, <1>3, <2>1 DEF Lines
        <3> QED
            BY <3>1
    <2>2. CASE n > k
        <3>1. n - 1 \in 1..Len(s) /\ s[n - 1] = items[n]
            BY <1>1, <1>2, <1>3, <2>2 DEF Lines
        <3> QED
            BY <3>1
    <2> QED
        BY <1>1, <1>2, <2>1, <2>2 DEF Lines
<1> QED
    BY <1>1, <1>2, <1>3, <1>4, <1>5, LosingLines

(* update_quantity and update_price leave ids, products and indexes alone.  *)
LEMMA UpdateKeeps ==
    ASSUME ItemsInv, NEW id,
           \/ \E q \in Quantities : UpdateQuantity(id, q)
           \/ \E x \in Prices : UpdatePrice(id, x)
    PROVE  ItemsInv'
<1>1. Len(items) \in Nat /\ items \in Seq(Item)
    BY LinesFacts DEF ItemsInv
<1>2. id_index[id] \in Lines
    BY IdIndexFacts DEF UpdateQuantity, UpdatePrice
<1> DEFINE k == id_index[id]
<1> HIDE DEF k
<1>8. \E new \in Item : /\ items' = [items EXCEPT ![k] = new]
                       /\ new.id = items[k].id /\ new.product = items[k].product
    <2>1. items[k] \in Item
        BY <1>1, <1>2 DEF Lines, k
    <2>2. ASSUME NEW q \in Quantities, UpdateQuantity(id, q)
          PROVE  \E new \in Item : /\ items' = [items EXCEPT ![k] = new]
                                   /\ new.id = items[k].id /\ new.product = items[k].product
        <3> DEFINE new == [items[k] EXCEPT !.quantity = q]
        <3>1. new \in Item /\ new.id = items[k].id /\ new.product = items[k].product
            BY <2>1, OrderItemsAssumption DEF Item
        <3>2. items' = [items EXCEPT ![k] = new]
            BY <2>2 DEF UpdateQuantity, k
        <3> QED
            BY <3>1, <3>2
    <2>3. ASSUME NEW x \in Prices, UpdatePrice(id, x)
          PROVE  \E new \in Item : /\ items' = [items EXCEPT ![k] = new]
                                   /\ new.id = items[k].id /\ new.product = items[k].product
        <3> DEFINE new == [items[k] EXCEPT !.price = x]
        <3>1. new \in Item /\ new.id = items[k].id /\ new.product = items[k].product
            BY <2>1, OrderItemsAssumption DEF Item
        <3>2. items' = [items EXCEPT ![k] = new]
            BY <2>3 DEF UpdatePrice, k
        <3> QED
            BY <3>1, <3>2
    <2> QED
        BY <2>2, <2>3
<1>3. /\ items' \in Seq(Item) /\ Len(items') = Len(items)
      /\ \A n \in Lines : items'[n].id = items[n].id /\ items'[n].product = items[n].product
    BY <1>1, <1>2, <1>8 DEF Lines, k
<1>4. UNCHANGED <<id_index, product_index, gone>>
    BY DEF UpdateQuantity, UpdatePrice
<1>5. /\ Lines' = Lines /\ Ids' = Ids /\ ProductsOrdered' = ProductsOrdered
      /\ \A i : LinesWithId(i)' = LinesWithId(i)
      /\ \A p : LinesOf(p)' = LinesOf(p)
    BY <1>3 DEF Lines, Ids, ProductsOrdered, LinesWithId, LinesOf
<1>6. IndexesExact'
    BY <1>4, <1>5 DEF ItemsInv, IndexesExact
<1>7. Missing' = Missing
    BY <1>5 DEF Missing
<1> QED
    BY <1>3, <1>4, <1>6, <1>7 DEF ItemsInv

(* After clear nothing is missing.                                          *)
LEMMA ClearKeeps ==
    ASSUME ItemsInv, ClearItems
    PROVE  ItemsInv'
<1>1. <<>> \in Seq(Item) /\ Len(<<>>) = 0
    OBVIOUS
<1>2. items' = <<>> /\ IndexesExact' /\ gone' = 0
    BY <1>1, ExactAfterRebuilt DEF ClearItems
<1>3. Missing' = {}
    BY <1>2 DEF Missing, Lines
<1>4. Cardinality(Missing') = 0
    BY <1>3, FS_EmptySet
<1> QED
    BY <1>1, <1>2, <1>4 DEF ItemsInv

(* A new order has no lines, and no id is missing.                          *)
LEMMA ItemsInit == InitOrderItems => ItemsInv
<1> SUFFICES ASSUME InitOrderItems PROVE ItemsInv
    OBVIOUS
<1>1. items = <<>> /\ Lines = {} /\ Ids = {} /\ ProductsOrdered = {} /\ Missing = {}
    BY DEF InitOrderItems, Lines, Ids, ProductsOrdered, Missing
<1>2. IndexesExact
    BY <1>1 DEF InitOrderItems, IndexesExact
<1>3. Cardinality(Missing) = 0
    BY <1>1, FS_EmptySet
<1> QED
    BY <1>1, <1>2, <1>3 DEF InitOrderItems, ItemsInv

-------------------------------------------------------------------------------
(* Erasing lines one after the other: FoldLeft as a recursion over the set  *)
(* of positions.                                                            *)

(* A finite set of numbers. *)
Numbered(S) == IsFiniteSet(S) /\ S \subseteq Int

(* A non-empty subset of a finite set of numbers has its Max in it.         *)
LEMMA NumberedSubset ==
    ASSUME NEW S, Numbered(S), NEW T \in SUBSET S
    PROVE  Numbered(T) /\ IsFiniteSet(T) /\ (T # {} => Max(T) \in T)
BY FS_Subset, LargestThere DEF Numbered

(* What is left after the erasures in s, given what the smaller sets leave. *)
Left(l, q, g, s) == IF s = {} THEN l ELSE RemoveAt(g[s \ {Max(s)}], q[Max(s)])

(* g is a table of what is left of l after the erasures at each subset of   *)
(* S, those at smaller positions of q first.                                *)
Trace(l, q, S, g) == g = [s \in SUBSET S |-> Left(l, q, g, s)]

(* What is left of l after the erasures at the positions S of q.            *)
Erasure(l, q, S) == (CHOOSE g : Trace(l, q, S, g))[S]

(* FoldLeft over a sequence is the recursion over its domain.               *)
LEMMA FoldIsErasure ==
    ASSUME NEW l, NEW q
    PROVE  FoldLeft(RemoveAt, l, q) = Erasure(l, q, DOMAIN q)
BY DEF FoldLeft, MapThenFoldSet, Erasure, Trace, Left

(* Two tables agree on the sets that both describe.                         *)
LEMMA TracesAgree ==
    ASSUME NEW l, NEW q, NEW A, Numbered(A), NEW g, Trace(l, q, A, g),
           NEW T \in SUBSET A, NEW h, Trace(l, q, T, h)
    PROVE  g[T] = h[T]
<1>0. IsFiniteSet(T) /\ \A U \in SUBSET T : U # {} => Max(U) \in U
    BY NumberedSubset
<1> DEFINE Good == {U \in SUBSET T : g[U] = h[U]}
<1>1. \A U \in SUBSET T : (\A V \in SUBSET U : V # U => V \in Good) => U \in Good
    <2> SUFFICES ASSUME NEW U \in SUBSET T, \A V \in SUBSET U : V # U => V \in Good
                 PROVE  g[U] = h[U]
        OBVIOUS
    <2>1. g[U] = Left(l, q, g, U) /\ h[U] = Left(l, q, h, U)
        BY DEF Trace
    <2>2. CASE U = {}
        BY <2>1, <2>2 DEF Left
    <2>3. CASE U # {}
        <3>1. Max(U) \in U
            BY <1>0, <2>3
        <3>2. U \ {Max(U)} \in Good
            BY <3>1
        <3> QED
            BY <2>1, <2>3, <3>2 DEF Left
    <2> QED
        BY <2>2, <2>3
<1>2. \A U \in SUBSET T : U \in Good
    <2> HIDE DEF Good
    <2> QED
        BY <1>0, <1>1, SubsetInduction
<1> QED
    BY <1>2

(* Every finite set has a table, made of the tables of its subsets.         *)
LEMMA TraceExists ==
    ASSUME NEW l, NEW q, NEW S, Numbered(S)
    PROVE  \E g : Trace(l, q, S, g)
<1> DEFINE Good == {T \in SUBSET S : \E g : Trace(l, q, T, g)}
<1>1. \A T \in SUBSET S : (\A U \in SUBSET T : U # T => U \in Good) => T \in Good
    <2> SUFFICES ASSUME NEW T \in SUBSET S, \A U \in SUBSET T : U # T => U \in Good
                 PROVE  \E g : Trace(l, q, T, g)
        OBVIOUS
    <2> DEFINE W(u) == CHOOSE g : Trace(l, q, u, g)
               h == [s \in SUBSET T |-> IF s = {} THEN l ELSE RemoveAt(W(s \ {Max(s)})[s \ {Max(s)}], q[Max(s)])]
    <2>1. \A u \in SUBSET T : u # T => Trace(l, q, u, W(u))
        OBVIOUS
    <2>2. \A s \in SUBSET T : s # {} => Max(s) \in s
        BY NumberedSubset
    <2>3. ASSUME NEW u \in SUBSET T, u # T PROVE h[u] = W(u)[u]
        <3>1. W(u)[u] = Left(l, q, W(u), u)
            BY <2>1, <2>3 DEF Trace
        <3>2. CASE u = {}
            BY <3>1, <3>2 DEF Left
        <3>3. CASE u # {}
            <4> DEFINE v == u \ {Max(u)}
            <4>1. v \in SUBSET T /\ v # T /\ v \subseteq u /\ IsFiniteSet(v) /\ Numbered(u)
                BY NumberedSubset, FS_Subset, <2>3
            <4>2. Trace(l, q, u, W(u)) /\ Trace(l, q, v, W(v))
                BY <2>1, <4>1, <2>3
            <4>3. h[u] = RemoveAt(W(v)[v], q[Max(u)])
                BY <3>3
            <4>4. W(u)[u] = RemoveAt(W(u)[v], q[Max(u)])
                BY <3>1, <3>3 DEF Left
            <4> HIDE DEF h, W, v
            <4>5. W(u)[v] = W(v)[v]
                BY <4>1, <4>2, TracesAgree
            <4> QED
                BY <4>3, <4>4, <4>5
        <3> QED
            BY <3>2, <3>3
    <2>4. \A s \in SUBSET T : h[s] = Left(l, q, h, s)
        <3> TAKE s \in SUBSET T
        <3>1. CASE s = {}
            BY <3>1 DEF Left
        <3>2. CASE s # {}
            <4>1. s \ {Max(s)} \in SUBSET T /\ s \ {Max(s)} # T
                BY <2>2, <3>2
            <4>2. h[s \ {Max(s)}] = W(s \ {Max(s)})[s \ {Max(s)}]
                BY <2>3, <4>1
            <4>3. h[s] = RemoveAt(W(s \ {Max(s)})[s \ {Max(s)}], q[Max(s)])
                BY <3>2
            <4> HIDE DEF h, W
            <4> QED
                BY <4>2, <4>3, <3>2 DEF Left
        <3> QED
            BY <3>1, <3>2
    <2>5. h = [s \in SUBSET T |-> h[s]]
        OBVIOUS
    <2>6. Trace(l, q, T, h)
        <3> HIDE DEF h
        <3> QED
            BY <2>4, <2>5 DEF Trace
    <2> HIDE DEF h
    <2> QED
        BY <2>6
<1>2. \A T \in SUBSET S : T \in Good
    <2> HIDE DEF Good
    <2> QED
        BY <1>1, NumberedSubset, SubsetInduction
<1> QED
    BY <1>2

(* One trace has the erasures of all sets of positions. *)
LEMMA TheTrace ==
    ASSUME NEW l, NEW q, NEW S, Numbered(S)
    PROVE  \E g : Trace(l, q, S, g) /\ \A T \in SUBSET S : g[T] = Erasure(l, q, T)
<1>1. PICK g : Trace(l, q, S, g)
    BY TraceExists
<1>2. ASSUME NEW T \in SUBSET S PROVE g[T] = Erasure(l, q, T)
    <2> DEFINE h == CHOOSE u : Trace(l, q, T, u)
    <2>1. Numbered(T)
        BY NumberedSubset
    <2>2. Trace(l, q, T, h)
        BY <2>1, TraceExists
    <2>3. Erasure(l, q, T) = h[T]
        BY DEF Erasure
    <2> HIDE DEF h
    <2> QED
        BY <1>1, <2>2, <2>3, TracesAgree
<1> QED
    BY <1>1, <1>2

(* The recursion equation of the erasures.                                  *)
LEMMA ErasureUnfolds ==
    ASSUME NEW l, NEW q, NEW S, Numbered(S)
    PROVE  Erasure(l, q, S) =
             IF S = {} THEN l ELSE RemoveAt(Erasure(l, q, S \ {Max(S)}), q[Max(S)])
<1>1. PICK g : Trace(l, q, S, g) /\ \A T \in SUBSET S : g[T] = Erasure(l, q, T)
    BY TheTrace
<1>2. g[S] = Left(l, q, g, S)
    BY <1>1 DEF Trace
<1>3. S \in SUBSET S /\ S \ {Max(S)} \in SUBSET S
    OBVIOUS
<1> QED
    BY <1>1, <1>2, <1>3 DEF Left

(* l without the lines at the first k positions of q. *)
FirstErased(q, k) == {q[i] : i \in 1..k}

(* s is l without the lines at the first k positions that q names, in the   *)
(* order they have in l, and what stands before all of these has not moved. *)
Kept(l, q, k, s) ==
    \E a : /\ Ascending(a, (1..Len(l)) \ FirstErased(q, k))
           /\ s \in Seq(Item) /\ Len(s) = Cardinality((1..Len(l)) \ FirstErased(q, k))
           /\ \A j \in 1..Len(s) : s[j] = l[a[j]]
           /\ \A j \in 1..Len(l) : (\A i \in 1..k : j < q[i]) => a[j] = j

(* Before the first erasure nothing has gone.                               *)
LEMMA KeptAtFirst ==
    ASSUME NEW l \in Seq(Item), NEW q
    PROVE  Kept(l, q, 0, l)
<1> DEFINE a == [j \in 1..Len(l) |-> j]
<1>1. FirstErased(q, 0) = {} /\ (1..Len(l)) \ {} = 1..Len(l) /\ Len(l) \in Nat
    BY DEF FirstErased
<1>2. Cardinality(1..Len(l)) = Len(l)
    BY <1>1, CountTo
<1>3. Ascending(a, 1..Len(l))
    BY <1>2 DEF Ascending
<1>4. \A j \in 1..Len(l) : l[j] = l[a[j]] /\ a[j] = j
    OBVIOUS
<1> HIDE DEF a
<1> QED
    BY <1>1, <1>2, <1>3, <1>4 DEF Kept

(* One more erasure, further to the front than those before, takes the line *)
(* that stood there in l.                                                   *)
LEMMA KeptOneLess ==
    ASSUME NEW l \in Seq(Item), NEW q, NEW k \in Nat, NEW s, Kept(l, q, k, s),
           q[k + 1] \in 1..Len(l), \A i \in 1..k : q[i] \in Int /\ q[k + 1] < q[i]
    PROVE  Kept(l, q, k + 1, RemoveAt(s, q[k + 1]))
<1> DEFINE A == (1..Len(l)) \ FirstErased(q, k)
           r == q[k + 1]
           c == Cardinality(A)
           t == RemoveAt(s, r)
<1>1. PICK a : /\ Ascending(a, A)
               /\ s \in Seq(Item) /\ Len(s) = c
               /\ \A j \in 1..Len(s) : s[j] = l[a[j]]
               /\ \A j \in 1..Len(l) : (\A i \in 1..k : j < q[i]) => a[j] = j
    BY DEF Kept
<1>2. Len(l) \in Nat /\ r \in 1..Len(l)
    OBVIOUS
<1>3. IsFiniteSet(A) /\ A \subseteq Int /\ c \in Nat
    <2>1. IsFiniteSet(1..Len(l)) /\ A \in SUBSET (1..Len(l)) /\ A \subseteq Int
        BY <1>2, FS_Interval
    <2> QED
        BY <2>1, FS_Subset, FS_CardinalityType
<1>4. 1..r \subseteq A
    <2> SUFFICES ASSUME NEW j \in 1..r PROVE j \in 1..Len(l) /\ \A i \in 1..k : q[i] # j
        BY DEF FirstErased
    <2> QED
        BY <1>2
<1>5. r \in 1..c
    <2> HIDE DEF A
    <2>2. r \in Nat /\ r >= 1
        BY <1>2
    <2> HIDE DEF r
    <2>3. Cardinality(1..r) = r
        BY <2>2, FS_Interval
    <2>4. Cardinality(1..r) <= c
        BY <1>3, <1>4, FS_Subset
    <2>1. Cardinality(1..r) = r /\ Cardinality(1..r) <= c
        BY <2>3, <2>4
    <2> QED
        BY <1>2, <1>3, <2>1
<1>6. a[r] = r
    BY <1>1, <1>2
<1> DEFINE b == [j \in 1..(c - 1) |-> IF j < r THEN a[j] ELSE a[j + 1]]
<1>7. Ascending(b, A \ {r}) /\ Cardinality(A \ {r}) = c - 1
    <2> HIDE DEF A, r
    <2>1. b = [j \in 1..(Cardinality(A) - 1) |-> IF j < r THEN a[j] ELSE a[j + 1]]
        OBVIOUS
    <2>2. r \in 1..Cardinality(A)
        BY <1>5
    <2> HIDE DEF b, c
    <2>3. Ascending(b, A \ {a[r]}) /\ Cardinality(A \ {a[r]}) = Cardinality(A) - 1
        BY <1>1, <1>3, <2>1, <2>2, TakingOut
    <2> QED
        BY <1>6, <2>3 DEF c
<1>8. A \ {r} = (1..Len(l)) \ FirstErased(q, k + 1)
    <2>1. FirstErased(q, k + 1) = FirstErased(q, k) \cup {r}
        <3>1. 1..(k + 1) = (1..k) \cup {k + 1}
            OBVIOUS
        <3> QED
            BY <3>1 DEF FirstErased
    <2> QED
        BY <2>1
<1> HIDE DEF A, c, r
<1>9. /\ t \in Seq(Item) /\ Len(t) = c - 1
      /\ \A j \in 1..(c - 1) : t[j] = IF j < r THEN s[j] ELSE s[j + 1]
    <2>1. s \in Seq(Item) /\ r \in 1..Len(s) /\ Len(s) = c
        BY <1>1, <1>5
    <2> HIDE DEF t, b
    <2>2. /\ RemoveAt(s, r) \in Seq(Item) /\ Len(RemoveAt(s, r)) = Len(s) - 1
          /\ \A j \in 1..(Len(s) - 1) :
                RemoveAt(s, r)[j] = IF j < r THEN s[j] ELSE s[j + 1]
        BY <2>1, RemovalFacts
    <2> QED
        BY <2>1, <2>2 DEF t
<1> HIDE DEF t
<1>10. \A j \in 1..Len(t) : t[j] = l[b[j]]
    <2> TAKE j \in 1..Len(t)
    <2>1. j \in 1..(c - 1) /\ j \in 1..Len(s) /\ j + 1 \in 1..Len(s)
        BY <1>1, <1>3, <1>9
    <2>2. CASE j < r
        BY <1>1, <1>9, <2>1, <2>2
    <2>3. CASE ~(j < r)
        BY <1>1, <1>9, <2>1, <2>3
    <2> QED
        BY <2>2, <2>3
<1>11. \A j \in 1..Len(l) : (\A i \in 1..(k + 1) : j < q[i]) => b[j] = j
    <2> SUFFICES ASSUME NEW j \in 1..Len(l), \A i \in 1..(k + 1) : j < q[i] PROVE b[j] = j
        OBVIOUS
    <2>1. j < r /\ \A i \in 1..k : j < q[i]
        <3>1. k + 1 \in 1..(k + 1) /\ \A i \in 1..k : i \in 1..(k + 1)
            OBVIOUS
        <3> QED
            BY <3>1 DEF r
    <2>2. a[j] = j
        BY <1>1, <2>1
    <2>3. j \in 1..(c - 1)
        BY <1>2, <1>3, <1>5, <2>1
    <2> QED
        BY <2>1, <2>2, <2>3
<1> HIDE DEF b
<1> QED
    BY <1>7, <1>8, <1>9, <1>10, <1>11 DEF Kept, t, r

(* Erasing at descending positions takes exactly the lines that stood at    *)
(* these positions at first: by induction over the number of erasures.      *)
LEMMA ErasureKeeps ==
    ASSUME NEW l \in Seq(Item), NEW q, NEW c \in Nat,
           \A i \in 1..c : q[i] \in 1..Len(l),
           \A i, j \in 1..c : i < j => q[j] < q[i]
    PROVE  Kept(l, q, c, Erasure(l, q, 1..c))
<1> DEFINE D == 1..c
           Good == {T \in SUBSET D : \A k \in 0..c : T = 1..k => Kept(l, q, k, Erasure(l, q, T))}
<1>1. IsFiniteSet(D) /\ D \subseteq Int
    BY FS_Interval
<1>2. \A T \in SUBSET D : (\A U \in SUBSET T : U # T => U \in Good) => T \in Good
    <2> SUFFICES ASSUME NEW T \in SUBSET D, \A U \in SUBSET T : U # T => U \in Good,
                        NEW k \in 0..c, T = 1..k
                 PROVE  Kept(l, q, k, Erasure(l, q, T))
        OBVIOUS
    <2>1. IsFiniteSet(T) /\ T \subseteq Int
        BY <1>1, FS_Subset
    <2>2. CASE k = 0
        <3>1. T = {}
            BY <2>2
        <3>2. Erasure(l, q, T) = l
            BY <2>1, <3>1, ErasureUnfolds DEF Numbered
        <3> QED
            BY <2>2, <3>2, KeptAtFirst
    <2>3. CASE k # 0
        <3> DEFINE U == 1..(k - 1)
        <3>1. U \in SUBSET T /\ U # T
            <4>1. k \in T /\ k \notin U
                BY <2>3
            <4> QED
                BY <4>1
        <3>2. U \in Good /\ k - 1 \in 0..c
            BY <2>3, <3>1
        <3>3. Kept(l, q, k - 1, Erasure(l, q, U))
            BY <3>2
        <3>4. Max(T) = k /\ T \ {k} = U
            <4>1. T # {} /\ k \in T
                <5>1. k \in Nat /\ k >= 1
                    BY <2>3
                <5>2. k \in 1..k
                    BY <5>1
                <5> QED
                    BY <5>2
            <4>2. Max(T) \in T /\ \A x \in T : x <= Max(T)
                BY <2>1, <4>1, LargestThere
            <4>3. Max(T) <= k /\ k <= Max(T) /\ Max(T) \in Int
                BY <4>1, <4>2
            <4> QED
                BY <2>3, <4>3
        <3>5. Erasure(l, q, T) = RemoveAt(Erasure(l, q, U), q[k])
            <4>1. T # {} /\ Numbered(T)
                BY <2>1, <2>3 DEF Numbered
            <4> HIDE DEF U
            <4>2. \A Z : Numbered(Z) /\ Z # {} =>
                         Erasure(l, q, Z) = RemoveAt(Erasure(l, q, Z \ {Max(Z)}), q[Max(Z)])
                BY ErasureUnfolds
            <4> QED
                BY <3>4, <4>1, <4>2
        <3> DEFINE m == k - 1
        <3>6. m \in Nat /\ m + 1 = k /\ k \in 1..c
            BY <2>3
        <3>7. q[m + 1] \in 1..Len(l) /\ \A i \in 1..m : q[i] \in Int /\ q[m + 1] < q[i]
            BY <3>6
        <3> HIDE DEF m, U
        <3>8. Kept(l, q, m, Erasure(l, q, U))
            BY <3>3 DEF m
        <3> QED
            BY <3>5, <3>6, <3>7, <3>8, KeptOneLess
    <2> QED
        BY <2>2, <2>3
<1>3. D \in Good
    <2> HIDE DEF Good, D
    <2>1. \A T \in SUBSET D : T \in Good
        BY <1>1, <1>2, SubsetInduction
    <2> QED
        BY <2>1
<1> QED
    BY <1>3

-------------------------------------------------------------------------------
(* Removing a product, sorting and merging.                                 *)

(* The lines of other products, as ContentsKept lists them.                 *)
LEMMA OthersListed ==
    ASSUME ItemsInv, NEW p
    PROVE  /\ Others(p) \in Seq(Item) /\ Len(Others(p)) = Cardinality(Lines \ LinesOf(p))
           /\ Len(Others(p)) <= Len(items)
           /\ \A j \in 1..Len(Others(p)) : Others(p)[j] = items[InOrder(Lines \ LinesOf(p))[j]]
           /\ Ascending(InOrder(Lines \ LinesOf(p)), Lines \ LinesOf(p))
<1> DEFINE O == Lines \ LinesOf(p)
           c == Cardinality(O)
           left == InOrder(O)
<1>1. /\ DOMAIN items = Lines /\ IsFiniteSet(Lines) /\ Cardinality(Lines) = Len(items)
      /\ \A n \in Lines : items[n] \in Item
    BY LinesFacts DEF ItemsInv
<1>2. IsFiniteSet(O) /\ O \subseteq Int /\ c <= Len(items) /\ c \in Nat
    <2>1. O \in SUBSET Lines /\ O \subseteq Int
        BY DEF Lines
    <2>2. IsFiniteSet(O) /\ Cardinality(O) <= Cardinality(Lines)
        BY <1>1, <2>1, FS_Subset
    <2> QED
        BY <1>1, <2>1, <2>2, FS_CardinalityType
<1>3. Ascending(left, O)
    BY <1>2, InOrderAscends
<1>4. left \in [1..c -> O]
    BY <1>3 DEF Ascending
<1>5. {n \in DOMAIN items : items[n].product # p} = O
    BY <1>1 DEF LinesOf
<1>6. Others(p) = [k \in DOMAIN left |-> items[left[k]]]
    BY <1>5 DEF Others
<1> HIDE DEF O, c, left
<1>7. Others(p) = [k \in 1..c |-> items[left[k]]]
    BY <1>4, <1>6
<1>8. Others(p) \in [1..c -> Item]
    <2>1. \A k \in 1..c : items[left[k]] \in Item
        BY <1>1, <1>4 DEF O
    <2> QED
        BY <1>7, <2>1
<1>9. Others(p) \in Seq(Item) /\ Len(Others(p)) = c
    BY <1>2, <1>8, LenOfListing
<1> QED
    BY <1>2, <1>3, <1>7, <1>9 DEF O, c, left

(* Erasing the positions of a product from the last to the first leaves the *)
(* lines of other products.                                                 *)
LEMMA ErasedIsOthers ==
    ASSUME ItemsInv, NEW p \in ProductsOrdered
    PROVE  FoldLeft(RemoveAt, items, Erased(product_index[p])) = Others(p)
<1> DEFINE P == product_index[p]
           c == Cardinality(LinesOf(p))
           q == Erased(P)
           O == Lines \ LinesOf(p)
           s == Erasure(items, q, 1..c)
<1>1. Len(items) \in Nat /\ items \in Seq(Item) /\ IsFiniteSet(Lines)
    BY LinesFacts DEF ItemsInv
<1>2. Ascending(P, LinesOf(p)) /\ Len(P) = c /\ c \in Nat
    BY ProductIndexFacts
<1> HIDE DEF P, c
<1>3. q = [i \in 1..c |-> P[(c - i) + 1]]
    BY <1>2 DEF Erased, Reverse
<1>4. \A i \in 1..c : (c - i) + 1 \in 1..c /\ (c - ((c - i) + 1)) + 1 = i
    BY <1>2
<1>5. /\ \A i \in 1..c : P[i] \in LinesOf(p)
      /\ \A i, j \in 1..c : i < j => P[i] < P[j]
      /\ \A n \in LinesOf(p) : \E i \in 1..c : P[i] = n
    BY <1>2 DEF Ascending, c
<1> HIDE DEF q
<1>6. \A i \in 1..c : q[i] = P[(c - i) + 1]
    BY <1>3
<1>7. \A i \in 1..c : q[i] \in LinesOf(p) /\ q[i] \in 1..Len(items)
    BY <1>4, <1>5, <1>6 DEF LinesOf, Lines
<1>8. \A i, j \in 1..c : i < j => q[j] < q[i]
    <2> SUFFICES ASSUME NEW i \in 1..c, NEW j \in 1..c, i < j PROVE q[j] < q[i]
        OBVIOUS
    <2>1. (c - j) + 1 < (c - i) + 1
        BY <1>2
    <2> QED
        BY <1>4, <1>5, <1>6, <2>1
<1>9. FirstErased(q, c) = LinesOf(p)
    <2>1. ASSUME NEW n \in LinesOf(p) PROVE \E i \in 1..c : q[i] = n
        <3>1. PICK i \in 1..c : P[i] = n
            BY <1>5
        <3>2. (c - i) + 1 \in 1..c /\ q[(c - i) + 1] = n
            BY <1>4, <1>6, <3>1
        <3> QED
            BY <3>2
    <2> QED
        BY <1>7, <2>1 DEF FirstErased
<1>10. FoldLeft(RemoveAt, items, q) = s
    <2>1. DOMAIN q = 1..c
        BY <1>3
    <2> QED
        BY <2>1, FoldIsErasure
<1>11. Kept(items, q, c, s)
    BY <1>1, <1>2, <1>7, <1>8, ErasureKeeps
<1> HIDE DEF s
<1>12. PICK a : /\ Ascending(a, O) /\ s \in Seq(Item) /\ Len(s) = Cardinality(O)
                /\ \A j \in 1..Len(s) : s[j] = items[a[j]]
    BY <1>9, <1>11 DEF Kept, Lines
<1>13. IsFiniteSet(O) /\ O \subseteq Int
    <2>1. O \in SUBSET Lines /\ O \subseteq Int
        BY DEF Lines
    <2> QED
        BY <1>1, <2>1, FS_Subset
<1>14. /\ Others(p) \in Seq(Item) /\ Len(Others(p)) = Cardinality(O)
       /\ \A j \in 1..Len(Others(p)) : Others(p)[j] = items[InOrder(O)[j]]
       /\ Ascending(InOrder(O), O)
    BY OthersListed
<1> HIDE DEF O
<1>15. a = InOrder(O)
    BY <1>12, <1>13, <1>14, AscendingUnique
<1>16. \A j \in 1..Len(s) : s[j] = Others(p)[j]
    BY <1>12, <1>14, <1>15
<1>17. s = Others(p)
    BY <1>12, <1>14, <1>16, SeqEqual
<1> QED
    BY <1>10, <1>17 DEF q, P

(* remove_item_by_product leaves the lines of other products, indexed anew; *)
(* as many have gone as the product had lines.                              *)
LEMMA RemoveByProductGives ==
    ASSUME ItemsInv, NEW p, RemoveByProduct(p)
    PROVE  /\ p \in ProductsOrdered
           /\ Rebuilt(Others(p)) /\ items' = Others(p)
           /\ gone' = gone + Cardinality(LinesOf(p))
<1>1. p \in ProductsOrdered /\ Len(product_index[p]) = Cardinality(LinesOf(p))
    BY ProductIndexFacts DEF RemoveByProduct
<1>2. FoldLeft(RemoveAt, items, Erased(product_index[p])) = Others(p)
    BY <1>1, ErasedIsOthers
<1> QED
    BY <1>1, <1>2 DEF RemoveByProduct, Rebuilt

(* remove_item_by_product keeps the invariant: the ids that go missing are  *)
(* those of lines that go.                                                  *)
LEMMA RemoveByProductKeeps ==
    ASSUME ItemsInv, NEW p, RemoveByProduct(p)
    PROVE  ItemsInv'
<1> DEFINE s == Others(p)
           O == Lines \ LinesOf(p)
<1>1. Rebuilt(s) /\ gone' = gone + Cardinality(LinesOf(p))
    BY RemoveByProductGives
<1>2. /\ s \in Seq(Item) /\ Len(s) = Cardinality(O) /\ Len(s) <= Len(items)
      /\ \A j \in 1..Len(s) : s[j] = items[InOrder(O)[j]]
      /\ Ascending(InOrder(O), O)
    BY OthersListed
<1>3. LinesOf(p) \in SUBSET Lines
    BY DEF LinesOf
<1> HIDE DEF s, O
<1>4. \A n \in O : \E m \in 1..Len(s) : s[m].id = items[n].id
    BY <1>2 DEF Ascending
<1>5. \A n \in Lines \ LinesOf(p) : \E m \in 1..Len(s) : s[m].id = items[n].id
    BY <1>4 DEF O
<1> QED
    BY <1>1, <1>2, <1>3, <1>5, LosingLines

(* Every line of a sorted order is one of the lines there were. *)
LEMMA SortGives ==
    ASSUME ItemsInv, SortItems
    PROVE  \E b \in [Lines -> Lines] :
              /\ \A m, n \in Lines : b[m] = b[n] => m = n
              /\ \A n \in Lines : \E m \in Lines : b[m] = n
              /\ Rebuilt([n \in Lines |-> items[b[n]]])
              /\ gone' = gone
<1>1. /\ DOMAIN items = Lines /\ IsFiniteSet(Lines) /\ Cardinality(Lines) = Len(items)
      /\ Len(items) \in Nat
    BY LinesFacts DEF ItemsInv
<1>2. PICK b \in SetToSeqs(Lines) : Rebuilt([n \in Lines |-> items[b[n]]])
    BY <1>1 DEF SortItems
<1>3. b \in [Lines -> Lines] /\ \A m, n \in Lines : b[m] = b[n] => m = n
    BY <1>1, <1>2 DEF SetToSeqs, Lines
<1>4. b \in Injection(Lines, Lines)
    BY <1>3, Fun_IsInj
<1>5. b \in Surjection(Lines, Lines)
    BY <1>1, <1>4, FS_Injection
<1>6. \A n \in Lines : \E m \in Lines : b[m] = n
    BY <1>5 DEF Surjection
<1>7. gone' = gone
    BY DEF SortItems
<1> QED
    BY <1>2, <1>3, <1>6, <1>7

(* Sorting keeps every line, so that no id goes missing.                    *)
LEMMA SortKeeps ==
    ASSUME ItemsInv, SortItems
    PROVE  ItemsInv'
<1>1. PICK b \in [Lines -> Lines] :
              /\ \A m, n \in Lines : b[m] = b[n] => m = n
              /\ \A n \in Lines : \E m \in Lines : b[m] = n
              /\ Rebuilt([n \in Lines |-> items[b[n]]])
              /\ gone' = gone
    BY SortGives
<1>2. /\ Len(items) \in Nat /\ \A n \in Lines : items[n] \in Item
    BY LinesFacts DEF ItemsInv
<1> DEFINE s == [n \in Lines |-> items[b[n]]]
<1>3. s \in [1..Len(items) -> Item]
    BY <1>1, <1>2 DEF Lines
<1>4. s \in Seq(Item) /\ Len(s) = Len(items)
    BY <1>2, <1>3, LenOfListing
<1>5. \A n \in Lines : \E m \in 1..Len(s) : s[m].id = items[n].id
    <2> TAKE n \in Lines
    <2>1. PICK m \in Lines : b[m] = n
        BY <1>1
    <2>2. s[m] = items[n] /\ m \in 1..Len(s)
        BY <1>4, <2>1 DEF Lines
    <2> QED
        BY <2>2
<1>6. {} \in SUBSET Lines /\ Cardinality({}) = 0 /\ gone \in Nat
    BY FS_EmptySet DEF ItemsInv
<1>7. gone' = gone + Cardinality({})
    BY <1>1, <1>6
<1>8. Rebuilt(s)
    BY <1>1
<1> HIDE DEF s
<1>10. Len(s) <= Len(items)
    BY <1>2, <1>4
<1>9. \A n \in Lines \ {} : \E m \in 1..Len(s) : s[m].id = items[n].id
    BY <1>5
<1> QED
    BY <1>4, <1>6, <1>7, <1>8, <1>9, <1>10, LosingLines

(* The position of the first line of a product. *)
First(p) == product_index[p][1]

(* The line that merging makes of all those of a product.                   *)
Gathered(p) == [items[First(p)] EXCEPT !.quantity = CountProduct(p)]

(* The first line of a product is one of its lines, and takes over the      *)
(* product and its id.                                                      *)
LEMMA CountFacts ==
    ASSUME ItemsInv
    PROVE  \A p \in ProductsOrdered :
              /\ First(p) \in LinesOf(p) /\ First(p) \in Lines
              /\ Head(product_index[p]) = First(p)
              /\ CountProduct(p) \in Int
              /\ Gathered(p) \in Item
              /\ Gathered(p).id = items[First(p)].id /\ Gathered(p).product = p
              /\ Gathered(p).quantity = CountProduct(p)
<1> SUFFICES ASSUME NEW p \in ProductsOrdered
             PROVE  /\ First(p) \in LinesOf(p) /\ First(p) \in Lines
                    /\ Head(product_index[p]) = First(p)
                    /\ CountProduct(p) \in Int
                    /\ Gathered(p) \in Item
                    /\ Gathered(p).id = items[First(p)].id /\ Gathered(p).product = p
                    /\ Gathered(p).quantity = CountProduct(p)
    OBVIOUS
<1> DEFINE c == Cardinality(LinesOf(p))
           P == product_index[p]
           f == [k \in DOMAIN P |-> items[P[k]].quantity]
<1>1. /\ p \in DOMAIN product_index /\ Ascending(P, LinesOf(p)) /\ DOMAIN P = 1..c
      /\ Len(P) = c /\ c \in Nat /\ IsFiniteSet(LinesOf(p))
    BY ProductIndexFacts
<1>2. \A n \in LinesOf(p) : n \in Lines /\ items[n] \in Item /\ items[n].quantity \in Int
                            /\ items[n].product = p
    BY LinesFacts DEF ItemsInv, LinesOf
<1>3. P \in [1..c -> LinesOf(p)]
    BY <1>1 DEF Ascending
<1>4. 1 \in 1..c
    <2>1. LinesOf(p) # {}
        BY DEF ProductsOrdered, LinesOf
    <2>2. c # 0
        BY <1>1, <2>1, FS_EmptySet
    <2> QED
        BY <1>1, <2>2
<1> HIDE DEF c
<1>5. First(p) \in LinesOf(p) /\ First(p) \in Lines /\ items[First(p)] \in Item
    BY <1>2, <1>3, <1>4 DEF First
<1>6. Head(P) = P[1]
    <2>1. P \in Seq(LinesOf(p))
        BY <1>1, <1>3, LenOfListing
    <2> QED
        BY <1>1, <1>4, <2>1
<1>7. CountProduct(p) \in Int
    <2>1. IsFiniteSet(1..c)
        BY <1>1, FS_Interval
    <2>2. \A k \in 1..c : f[k] \in Int
        BY <1>1, <1>2, <1>3
    <2>3. DOMAIN f = 1..c
        BY <1>1
    <2>4. CountProduct(p) = SumFunctionOnSet(f, DOMAIN f)
        BY <1>1 DEF CountProduct, SumFunction
    <2> HIDE DEF f
    <2> QED
        BY <2>1, <2>2, <2>3, <2>4, SumInt
<1>8. /\ Gathered(p) \in Item /\ Gathered(p).id = items[First(p)].id
      /\ Gathered(p).product = items[First(p)].product
      /\ Gathered(p).quantity = CountProduct(p)
    BY <1>5, <1>7 DEF Gathered, Item
<1> QED
    BY <1>2, <1>5, <1>6, <1>7, <1>8 DEF First

(* merge_duplicate_products leaves one line for each product, in the order  *)
(* of the products.                                                         *)
LEMMA MergeGives ==
    ASSUME ItemsInv, MergeDuplicateProducts
    PROVE  LET K == Cardinality(ProductsOrdered)
               q == InOrder(ProductsOrdered)
           IN  /\ Ascending(q, ProductsOrdered) /\ K \in Nat
               /\ q \in [1..K -> ProductsOrdered]
               /\ Rebuilt([n \in 1..K |-> Gathered(q[n])])
               /\ gone' = gone + (Len(items) - K)
<1> DEFINE K == Cardinality(ProductsOrdered)
           q == InOrder(ProductsOrdered)
           Merged(p) == [items[Head(product_index[p])] EXCEPT !.quantity = CountProduct(p)]
<1>1. DOMAIN product_index = ProductsOrdered /\ IsFiniteSet(ProductsOrdered) /\ ProductsOrdered \subseteq Int
    BY ProductIndexFacts
<1>2. Ascending(q, ProductsOrdered)
    BY <1>1, InOrderAscends
<1>3. K \in Nat /\ q \in [1..K -> ProductsOrdered]
    BY <1>1, <1>2, FS_CardinalityType DEF Ascending
<1>4. Rebuilt([n \in DOMAIN q |-> Merged(q[n])]) /\ gone' = gone + (Len(items) - Len(q))
    BY <1>1 DEF MergeDuplicateProducts
<1> HIDE DEF q, K
<1>5. Len(q) = K /\ DOMAIN q = 1..K
    BY <1>3, LenOfListing
<1>6. \A n \in 1..K : Merged(q[n]) = Gathered(q[n])
    <2> SUFFICES ASSUME NEW n \in 1..K PROVE Merged(q[n]) = Gathered(q[n])
        OBVIOUS
    <2>1. Head(product_index[q[n]]) = First(q[n])
        BY <1>3, CountFacts
    <2> QED
        BY <2>1 DEF Gathered
<1>7. [n \in DOMAIN q |-> Merged(q[n])] = [n \in 1..K |-> Gathered(q[n])]
    BY <1>5, <1>6
<1> HIDE DEF Merged
<1>8. Rebuilt([n \in 1..K |-> Gathered(q[n])])
    BY <1>4, <1>7
<1> QED
    BY <1>2, <1>3, <1>4, <1>5, <1>8 DEF q, K

(* merge_duplicate_products keeps the ids of the first lines; the others    *)
(* are counted as gone.                                                     *)
LEMMA MergeKeeps ==
    ASSUME ItemsInv, MergeDuplicateProducts
    PROVE  ItemsInv'
<1> DEFINE K == Cardinality(ProductsOrdered)
           q == InOrder(ProductsOrdered)
           s == [n \in 1..K |-> Gathered(q[n])]
           heads == {First(p) : p \in ProductsOrdered}
           L == Lines \ heads
<1>1. /\ Ascending(q, ProductsOrdered) /\ K \in Nat /\ q \in [1..K -> ProductsOrdered]
      /\ Rebuilt(s) /\ gone' = gone + (Len(items) - K)
    BY MergeGives
<1>2. \A p \in ProductsOrdered :
         /\ First(p) \in LinesOf(p) /\ First(p) \in Lines /\ Gathered(p) \in Item
         /\ Gathered(p).id = items[First(p)].id
    BY CountFacts
<1>3. /\ Len(items) \in Nat /\ IsFiniteSet(Lines) /\ Cardinality(Lines) = Len(items)
    BY LinesFacts DEF ItemsInv
<1>4. IsFiniteSet(ProductsOrdered)
    BY ProductIndexFacts
<1>5. IsFiniteSet(heads) /\ Cardinality(heads) = K
    <2> DEFINE f == [p \in ProductsOrdered |-> First(p)]
    <2>1. \A p \in ProductsOrdered : items[f[p]].product = p
        BY <1>2 DEF LinesOf
    <2>2. f \in [ProductsOrdered -> heads] /\ \A p, r \in ProductsOrdered : f[p] = f[r] => p = r
        BY <2>1
    <2>3. \A n \in heads : \E p \in ProductsOrdered : f[p] = n
        OBVIOUS
    <2>4. f \in Injection(ProductsOrdered, heads) /\ f \in Surjection(ProductsOrdered, heads)
        BY <2>2, <2>3, Fun_IsInj, Fun_IsSurj
    <2> HIDE DEF f, heads, K
    <2>5. IsFiniteSet(heads) /\ Cardinality(heads) <= Cardinality(ProductsOrdered)
        BY <1>4, <2>4, FS_Surjection
    <2>6. Cardinality(ProductsOrdered) <= Cardinality(heads)
        BY <2>4, <2>5, FS_Injection
    <2> QED
        BY <1>1, <1>4, <2>5, <2>6, FS_CardinalityType DEF K
<1>6. heads \in SUBSET Lines /\ L \in SUBSET Lines
    BY <1>2
<1> HIDE DEF K
<1>7. Cardinality(L) = Len(items) - K
    <2>1. Lines \cap heads = heads
        BY <1>6
    <2> HIDE DEF heads
    <2>2. Cardinality(Lines \ heads) = Cardinality(Lines) - Cardinality(Lines \cap heads)
        BY <1>3, FS_Difference
    <2> QED
        BY <1>3, <1>5, <2>1, <2>2
<1>8. K <= Len(items)
    <2> HIDE DEF heads
    <2>1. Cardinality(heads) <= Cardinality(Lines)
        BY <1>3, <1>6, FS_Subset
    <2> QED
        BY <1>3, <1>5, <2>1
<1> HIDE DEF q
<1>9. s \in [1..K -> Item] /\ \A n \in 1..K : s[n] = Gathered(q[n])
    BY <1>1, <1>2
<1> HIDE DEF s
<1>10. s \in Seq(Item) /\ Len(s) = K
    BY <1>1, <1>9, LenOfListing
<1>11. \A n \in heads : \E m \in 1..Len(s) : s[m].id = items[n].id
    <2> TAKE n \in heads
    <2>1. PICK p \in ProductsOrdered : n = First(p)
        OBVIOUS
    <2>2. PICK m \in 1..K : q[m] = p
        BY <1>1 DEF Ascending, K
    <2>3. s[m].id = items[n].id
        BY <1>2, <1>9, <2>1, <2>2
    <2> QED
        BY <1>10, <2>3
<1>12. \A n \in Lines \ L : \E m \in 1..Len(s) : s[m].id = items[n].id
    BY <1>11
<1>13. gone' = gone + Cardinality(L) /\ Len(s) <= Len(items) /\ Rebuilt(s)
    BY <1>1, <1>7, <1>8, <1>10
<1> HIDE DEF L
<1> QED
    BY <1>6, <1>10, <1>12, <1>13, LosingLines

(* Every step of the collection keeps its invariant.                        *)
LEMMA NextKeeps == ItemsInv /\ NextOrderItems => ItemsInv'
<1> SUFFICES ASSUME ItemsInv, NextOrderItems PROVE ItemsInv'
    OBVIOUS
<1>1. ASSUME NEW p \in Products, NEW q \in Quantities, NEW x \in Prices, AddItem(p, q, x)
      PROVE  ItemsInv'
    BY <1>1, AddKeeps
<1>2. ASSUME NEW i \in 1..MaxLines, RemoveItem(i) PROVE ItemsInv'
    BY <1>2, RemoveKeeps
<1>3. ASSUME NEW p \in Products, RemoveByProduct(p) PROVE ItemsInv'
    BY <1>3, RemoveByProductKeeps
<1>4. ASSUME NEW i \in 1..MaxLines, NEW q \in Quantities, UpdateQuantity(i, q) PROVE ItemsInv'
    BY <1>4, UpdateKeeps
<1>5. ASSUME NEW i \in 1..MaxLines, NEW x \in Prices, UpdatePrice(i, x) PROVE ItemsInv'
    BY <1>5, UpdateKeeps
<1>6. ASSUME SortItems PROVE ItemsInv'
    BY <1>6, SortKeeps
<1> QED
    BY <1>1, <1>2, <1>3, <1>4, <1>5, <1>6, MergeKeeps, ClearKeeps DEF NextOrderItems

(* So does a step that leaves the lines alone.                              *)
LEMMA StutterKeeps == ItemsInv /\ UNCHANGED itemVars => ItemsInv'
BY DEF ItemsInv, IndexesExact, Missing, Lines, Ids, ProductsOrdered, LinesWithId, LinesOf, itemVars

(* The ids of an order's lines reach them as far as its history allows,     *)
(* both indexes never lead to a wrong line: for the collection              *)
(* (order_item.cpp) by itself.                                              *)
THEOREM CollectionReaches == SpecOrderItems => []IdsReach
<1>1. ItemsInv /\ [NextOrderItems]_itemVars => ItemsInv'
    BY NextKeeps, StutterKeeps
<1>2. SpecOrderItems => []ItemsInv
    BY <1>1, ItemsInit, PTL DEF SpecOrderItems
<1> QED
    BY <1>2, InvGivesIdsReach, PTL

(* A step of the thread that changes an order.                              *)
PricingNext ==
    \/ NextOrderItems /\ UNCHANGED discountVars
    \/ NextDiscounts /\ UNCHANGED itemVars

(* Every step of that thread keeps the invariant of the lines.              *)
LEMMA ItemsStep == ItemsInv /\ [PricingNext]_<<itemVars, discountVars>> => ItemsInv'
BY NextKeeps, StutterKeeps DEF PricingNext

(* The invariant of the lines holds in every state of SpecPricing.          *)
LEMMA LinesStayWell == SpecPricing => []ItemsInv
<1>1. SpecPricing => InitOrderItems /\ [][PricingNext]_<<itemVars, discountVars>>
    BY DEF SpecPricing, PricingNext
<1> QED
    BY <1>1, ItemsStep, ItemsInit, PTL

(* No more lines of an order are hidden from their ids than lines went      *)
(* before, and neither index leads to a wrong line, also with discounts     *)
(* applied in between.                                                      *)
THEOREM IdsReachHolds == SpecPricing => []IdsReach
BY LinesStayWell, InvGivesIdsReach, PTL

-------------------------------------------------------------------------------
(* How much is ordered of a product.                                        *)

(* What each line of l adds to the ordered quantity of p.                   *)
Amount(l, p) == [n \in DOMAIN l |-> IF l[n].product = p THEN l[n].quantity ELSE 0]

(* The ordered quantity as a sum, before a step and after it.               *)
LEMMA OrderedIsSum ==
    \A p : /\ Ordered(p) = SumFunctionOnSet(Amount(items, p), DOMAIN items)
           /\ Ordered(p)' = SumFunctionOnSet(Amount(items', p), DOMAIN items')
<1>1. \A l, p : DOMAIN Amount(l, p) = DOMAIN l
    BY DEF Amount
<1>2. \A p : Ordered(p) = SumFunction(Amount(items, p)) /\ Ordered(p)' = SumFunction(Amount(items', p))
    BY DEF Ordered, Amount
<1>3. \A f : SumFunction(f) = SumFunctionOnSet(f, DOMAIN f)
    BY DEF SumFunction
<1> QED
    BY <1>1, <1>2, <1>3

(* What a line adds is an integer.                                          *)
LEMMA AmountFacts ==
    ASSUME ItemsInv, NEW p
    PROVE  \A n \in Lines : Amount(items, p)[n] \in Int
BY LinesFacts DEF ItemsInv, Amount

(* count_product counts by the index and gives what all lines add up to.    *)
LEMMA OrderedIsCounted ==
    ASSUME ItemsInv, NEW p
    PROVE  Ordered(p) = IF p \in ProductsOrdered THEN CountProduct(p) ELSE 0
<1> DEFINE g == Amount(items, p)
<1>1. /\ DOMAIN items = Lines /\ IsFiniteSet(Lines)
    BY LinesFacts DEF ItemsInv
<1>2. Ordered(p) = SumFunctionOnSet(g, Lines)
    BY <1>1, OrderedIsSum
<1>3. \A n \in Lines : g[n] \in Int
    BY AmountFacts
<1>4. \A n \in Lines : g[n] = IF n \in LinesOf(p) THEN items[n].quantity ELSE 0
    BY <1>1 DEF Amount, LinesOf
<1> HIDE DEF g
<1>5. CASE p \notin ProductsOrdered
    <2>1. \A n \in Lines : g[n] = 0
        BY <1>4, <1>5 DEF LinesOf, ProductsOrdered
    <2>2. SumFunctionOnSet(g, Lines) = 0
        BY <1>1, <2>1, SumZeros
    <2> QED
        BY <1>2, <1>5, <2>2
<1>6. CASE p \in ProductsOrdered
    <2> DEFINE P == product_index[p]
               c == Cardinality(LinesOf(p))
               f == [k \in DOMAIN P |-> items[P[k]].quantity]
    <2>1. /\ p \in DOMAIN product_index /\ Ascending(P, LinesOf(p)) /\ DOMAIN P = 1..c
          /\ c \in Nat /\ IsFiniteSet(LinesOf(p))
        BY <1>6, ProductIndexFacts
    <2>12. LinesOf(p) \subseteq Int
        BY DEF LinesOf, Lines
    <2>2. \A k, m \in 1..c : /\ P[k] = P[m] => k = m
                             /\ P[k] \in LinesOf(p)
        BY <2>1, <2>12, AscendingInjects
    <2>3. CountProduct(p) = SumFunctionOnSet(f, DOMAIN f)
        BY <2>1 DEF CountProduct, SumFunction
    <2>4. DOMAIN f = 1..c /\ \A k \in 1..c : f[k] = items[P[k]].quantity
        BY <2>1
    <2> HIDE DEF f
    <2>5. \A k \in 1..c : f[k] \in Int /\ g[P[k]] = f[k]
        <3> TAKE k \in 1..c
        <3>1. P[k] \in LinesOf(p) /\ P[k] \in Lines
            BY <2>2 DEF LinesOf
        <3>2. g[P[k]] = items[P[k]].quantity
            BY <1>4, <3>1
        <3>3. g[P[k]] \in Int
            BY <1>3, <3>1
        <3> QED
            BY <2>4, <3>2, <3>3
    <2>6. IsFiniteSet(1..c)
        BY <2>1, FS_Interval
    <2>7. {P[k] : k \in 1..c} = LinesOf(p)
        <3>1. \A n \in LinesOf(p) : \E k \in 1..c : P[k] = n
            BY <2>1 DEF Ascending
        <3> QED
            BY <2>2, <3>1
    <2> HIDE DEF P, c
    <2>13. \A k, m \in 1..c : P[k] = P[m] => k = m
        BY <2>2
    <2> DEFINE D == 1..c
    <2>8. SumFunctionOnSet(g, {P[k] : k \in D}) = SumFunctionOnSet(f, D)
        <3>1. /\ IsFiniteSet(D) /\ \A k \in D : f[k] \in Int /\ g[P[k]] = f[k]
              /\ \A k, m \in D : P[k] = P[m] => k = m
            BY <2>5, <2>6, <2>13
        <3> HIDE DEF D
        <3> QED
            BY <3>1, SumRenamed
    <2>9. LinesOf(p) \in SUBSET Lines /\ \A n \in Lines \ LinesOf(p) : g[n] = 0
        BY <1>4 DEF LinesOf
    <2>10. \A n \in LinesOf(p) : g[n] \in Int
        BY <1>3, <2>9
    <2>11. SumFunctionOnSet(g, Lines) = SumFunctionOnSet(g, LinesOf(p))
        BY <1>1, <2>9, <2>10, SumPadded
    <2> QED
        BY <1>2, <1>6, <2>3, <2>4, <2>7, <2>8, <2>11
<1> QED
    BY <1>5, <1>6

(* Merging puts all of a product into one line.                             *)
LEMMA MergeKeepsOrdered ==
    ASSUME ItemsInv, MergeDuplicateProducts, NEW p
    PROVE  Ordered(p)' = Ordered(p)
<1> DEFINE K == Cardinality(ProductsOrdered)
           q == InOrder(ProductsOrdered)
           g == Amount(items', p)
<1>1. /\ Ascending(q, ProductsOrdered) /\ K \in Nat /\ q \in [1..K -> ProductsOrdered]
      /\ items' = [n \in 1..K |-> Gathered(q[n])]
    BY MergeGives DEF Rebuilt
<1>2. /\ IsFiniteSet(1..K) /\ IsFiniteSet(ProductsOrdered) /\ ProductsOrdered \subseteq Int
    BY <1>1, FS_Interval, ProductIndexFacts
<1>3. Ordered(p)' = SumFunctionOnSet(g, 1..K)
    BY <1>1, OrderedIsSum
<1>4. \A n \in 1..K : g[n] = IF q[n] = p THEN CountProduct(p) ELSE 0
    <2> SUFFICES ASSUME NEW n \in 1..K
                 PROVE  g[n] = IF q[n] = p THEN CountProduct(p) ELSE 0
        OBVIOUS
    <2>1. Gathered(q[n]).product = q[n] /\ Gathered(q[n]).quantity = CountProduct(q[n])
        BY <1>1, CountFacts
    <2> QED
        BY <1>1, <2>1 DEF Amount
<1>5. \A m, n \in 1..K : q[m] = q[n] => m = n
    BY <1>1, <1>2, AscendingInjects
<1>6. \A r \in ProductsOrdered : \E n \in 1..K : q[n] = r
    BY <1>1 DEF Ascending
<1> HIDE DEF g, q, K
<1>7. CASE p \notin ProductsOrdered
    <2>1. \A n \in 1..K : g[n] = 0
        BY <1>1, <1>4, <1>7
    <2>2. SumFunctionOnSet(g, 1..K) = 0
        BY <1>2, <2>1, SumZeros
    <2> QED
        BY <1>3, <1>7, <2>2, OrderedIsCounted
<1>8. CASE p \in ProductsOrdered
    <2>1. PICK e \in 1..K : q[e] = p
        BY <1>6, <1>8
    <2>2. g[e] = CountProduct(p) /\ CountProduct(p) \in Int
        BY <1>4, <1>8, <2>1, CountFacts
    <2>3. \A n \in (1..K) \ {e} : g[n] = 0
        BY <1>4, <1>5, <2>1
    <2>4. {e} \in SUBSET (1..K) /\ \A n \in {e} : g[n] \in Int
        BY <2>2
    <2>5. SumFunctionOnSet(g, 1..K) = SumFunctionOnSet(g, {e})
        BY <1>2, <2>3, <2>4, SumPadded
    <2>6. SumFunctionOnSet(g, {e}) = g[e]
        BY <2>2, SumSingle
    <2> QED
        BY <1>3, <1>8, <2>2, <2>5, <2>6, OrderedIsCounted
<1> QED
    BY <1>7, <1>8

(* Sorting renames the lines of the sum.                                    *)
LEMMA SortKeepsOrdered ==
    ASSUME ItemsInv, SortItems, NEW p
    PROVE  Ordered(p)' = Ordered(p)
<1> DEFINE g == Amount(items, p)
           f == Amount(items', p)
<1>1. PICK b \in [Lines -> Lines] :
              /\ \A m, n \in Lines : b[m] = b[n] => m = n
              /\ \A n \in Lines : \E m \in Lines : b[m] = n
              /\ Rebuilt([n \in Lines |-> items[b[n]]])
    BY SortGives
<1>2. items' = [n \in Lines |-> items[b[n]]]
    BY <1>1 DEF Rebuilt
<1>3. DOMAIN items = Lines /\ IsFiniteSet(Lines)
    BY LinesFacts DEF ItemsInv
<1>4. \A n \in Lines : g[b[n]] = f[n]
    BY <1>1, <1>2, <1>3 DEF Amount
<1>5. \A n \in Lines : g[n] \in Int
    BY AmountFacts
<1>6. /\ Ordered(p)' = SumFunctionOnSet(f, Lines)
      /\ Ordered(p) = SumFunctionOnSet(g, Lines)
    BY <1>2, <1>3, OrderedIsSum
<1> HIDE DEF f, g
<1>7. \A n \in Lines : f[n] \in Int /\ g[b[n]] = f[n]
    BY <1>1, <1>4, <1>5
<1>8. {b[n] : n \in Lines} = Lines
    BY <1>1
<1>9. \A m, n \in Lines : b[m] = b[n] => m = n
    BY <1>1
<1>10. SumFunctionOnSet(g, {b[n] : n \in Lines}) = SumFunctionOnSet(f, Lines)
    BY <1>3, <1>7, <1>9, SumRenamed
<1> QED
    BY <1>6, <1>8, <1>10

(* From a state of the invariant every step does what ContentsKept says.    *)
LEMMA ContentsStep ==
    ItemsInv =>
      /\ \A p \in Products : RemoveByProduct(p) => items' = Others(p)
      /\ (\E p \in Products : Ordered(p)' # Ordered(p)) =>
            ~ MergeDuplicateProducts /\ ~ SortItems
BY RemoveByProductGives, MergeKeepsOrdered, SortKeepsOrdered

(* Removing a product takes its lines and leaves the others in order,       *)
(* merging and sorting (order_item.cpp) change the ordered quantity of no   *)
(* product.                                                                 *)
THEOREM ContentsKeptHolds == SpecPricing => ContentsKept
<1>1. [](ItemsInv) => ContentsKept
    BY ContentsStep, PTL DEF ContentsKept
<1> QED
    BY <1>1, LinesStayWell, PTL

-------------------------------------------------------------------------------
(* The discounts an order holds.                                            *)

(* Types of the discounts; an order holds serials.                          *)
DiscountsTyped ==
    /\ discounts \in [DiscountIds -> Discount \cup {Nothing}]
    /\ held \in [DiscountIds -> Nat \cup {Nothing}]
    /\ created \in Nat

(* The discount under an id that an order holds is the one it was, and has  *)
(* been used.                                                               *)
Counted == \A i \in Held : i \in Live /\ discounts[i].serial = held[i] /\ discounts[i].usage > 0

(* The inductive invariant of the discounts.                                *)
HeldInv ==
    /\ DiscountsTyped
    /\ thinned \/ (Live = 1..created /\ Counted)

(* What is not Nothing is a discount, or a serial.                          *)
LEMMA LiveFacts ==
    DiscountsTyped =>
      /\ \A i \in DiscountIds : i \in Live <=> discounts[i] \in Discount
      /\ \A i \in Live : /\ i \in DiscountIds /\ discounts[i] \in Discount
                         /\ discounts[i].serial \in Nat /\ discounts[i].usage \in Nat
      /\ \A i \in DiscountIds : i \in Held <=> held[i] \in Nat
      /\ Nothing \notin Nat /\ Nothing \notin Discount
BY DiscountsAssumption DEF DiscountsTyped, Live, Held, Discount

(* create_discount: while nothing has been deleted, size() + 1 is a new id. *)
LEMMA CreateKeeps ==
    ASSUME HeldInv, CreateDiscount
    PROVE  HeldInv'
<1> DEFINE new == [serial |-> created', active |-> TRUE, cap |-> 0, period |-> <<0, 0>>,
                   condition |-> Nothing, application |-> Nothing, usage |-> 0]
           k == NewDiscountId
<1>1. DiscountsTyped /\ created' = created + 1 /\ created' \in Nat /\ created < MaxDiscounts
    BY DEF HeldInv, CreateDiscount, DiscountsTyped
<1>2. new \in Discount
    BY <1>1 DEF Discount, Setting
<1>3. /\ discounts' = [discounts EXCEPT ![k] = new]
      /\ UNCHANGED <<held, thinned>>
    BY DEF CreateDiscount
<1> HIDE DEF new, k
<1>4. DiscountsTyped'
    BY <1>1, <1>2, <1>3 DEF DiscountsTyped
<1>5. CASE thinned
    BY <1>3, <1>4, <1>5 DEF HeldInv
<1>6. CASE Live = 1..created /\ Counted
    <2>1. k = created + 1 /\ k \in DiscountIds /\ k \notin Live
        <3>1. Cardinality(1..created) = created /\ MaxDiscounts \in Nat
            BY <1>1, FS_Interval, DiscountsAssumption DEF DiscountsTyped
        <3> QED
            BY <1>1, <1>6, <3>1 DEF k, NewDiscountId, DiscountIds, DiscountsTyped
    <2>2. /\ discounts'[k] = new
          /\ \A i \in DiscountIds : i # k => discounts'[i] = discounts[i]
        BY <1>1, <1>3, <2>1 DEF DiscountsTyped
    <2>3. Live' = Live \cup {k}
        BY <1>1, <1>2, <2>1, <2>2, LiveFacts DEF Live
    <2>4. Live' = 1..created'
        <3>1. 1..(created + 1) = (1..created) \cup {created + 1}
            BY <1>1 DEF DiscountsTyped
        <3> QED
            BY <1>1, <1>6, <2>1, <2>3, <3>1
    <2>5. Held' = Held
        BY <1>3 DEF Held
    <2>6. Counted'
        <3> SUFFICES ASSUME NEW i \in Held
                     PROVE  i \in Live' /\ discounts'[i].serial = held'[i] /\ discounts'[i].usage > 0
            BY <2>5 DEF Counted
        <3>1. i \in Live /\ discounts[i].serial = held[i] /\ discounts[i].usage > 0
            BY <1>6 DEF Counted
        <3>2. i \in DiscountIds /\ i # k
            BY <2>1, <3>1 DEF Live
        <3> QED
            BY <1>3, <2>2, <2>3, <3>1, <3>2
    <2> QED
        BY <1>4, <2>4, <2>6 DEF HeldInv
<1> QED
    BY <1>5, <1>6 DEF HeldInv

(* After delete_discount and shutdown only the types are claimed.           *)
LEMMA ThinnedKeeps ==
    ASSUME HeldInv, ShutdownDiscounts \/ \E i \in DiscountIds : DeleteDiscount(i)
    PROVE  HeldInv'
<1>1. DiscountsTyped'
    <2>1. CASE ShutdownDiscounts
        BY <2>1 DEF HeldInv, DiscountsTyped, ShutdownDiscounts
    <2>2. CASE \E i \in DiscountIds : DeleteDiscount(i)
        BY <2>2 DEF HeldInv, DiscountsTyped, DeleteDiscount
    <2> QED
        BY <2>1, <2>2
<1>2. thinned' = TRUE
    BY DEF ShutdownDiscounts, DeleteDiscount
<1> QED
    BY <1>1, <1>2 DEF HeldInv

(* A live discount changes in what is neither its serial nor its usage, or  *)
(* is used once more.                                                       *)
LEMMA ConfigureKeeps ==
    ASSUME HeldInv, NEW id \in DiscountIds, NEW field \in DOMAIN Settings,
           NEW value \in Settings[field], Configure(id, field, value)
    PROVE  HeldInv'
<1> DEFINE new == [discounts[id] EXCEPT ![field] = value]
<1>1. DiscountsTyped /\ id \in Live /\ discounts[id] \in Discount
    BY LiveFacts DEF HeldInv, Configure
<1>2. /\ discounts' = [discounts EXCEPT ![id] = new]
      /\ UNCHANGED <<created, held, thinned>>
    BY DEF Configure
<1>3. /\ new \in Discount /\ new.serial = discounts[id].serial
      /\ new.usage = discounts[id].usage
    <2>1. field \in {"active", "cap", "period", "condition", "application"}
        BY DiscountsAssumption
    <2>2. CASE field = "active"
        BY <1>1, <2>2 DEF Discount, Setting
    <2>3. CASE field = "cap"
        BY <1>1, <2>3 DEF Discount, Setting
    <2>4. CASE field = "period"
        BY <1>1, <2>4 DEF Discount, Setting
    <2>5. CASE field = "condition"
        BY <1>1, <2>5 DEF Discount, Setting
    <2>6. CASE field = "application"
        BY <1>1, <2>6 DEF Discount, Setting
    <2> QED
        BY <2>1, <2>2, <2>3, <2>4, <2>5, <2>6
<1> HIDE DEF new
<1>4. DiscountsTyped'
    BY <1>1, <1>2, <1>3 DEF DiscountsTyped
<1>5. /\ discounts'[id] = new
      /\ \A i \in DiscountIds : i # id => discounts'[i] = discounts[i]
    BY <1>1, <1>2 DEF DiscountsTyped
<1>6. Live' = Live
    BY <1>1, <1>3, <1>5, LiveFacts DEF Live
<1>7. Held' = Held
    BY <1>2 DEF Held
<1>8. CASE Live = 1..created /\ Counted
    <2>1. Counted'
        BY <1>2, <1>3, <1>5, <1>6, <1>7, <1>8 DEF Counted, Live
    <2> QED
        BY <1>2, <1>4, <1>6, <1>8, <2>1 DEF HeldInv
<1>9. CASE thinned
    BY <1>2, <1>4, <1>9 DEF HeldInv
<1> QED
    BY <1>8, <1>9 DEF HeldInv

(* apply_discount records the serial of the discount and counts its use.    *)
LEMMA ApplyKeeps ==
    ASSUME HeldInv, NEW id \in DiscountIds, ApplyDiscount(id)
    PROVE  HeldInv'
<1> DEFINE new == [discounts[id] EXCEPT !.usage = @ + 1]
<1>1. /\ DiscountsTyped /\ id \in Live /\ discounts[id] \in Discount
      /\ discounts[id].serial \in Nat /\ discounts[id].usage \in Nat
    BY LiveFacts DEF HeldInv, ApplyDiscount
<1>2. /\ discounts' = [discounts EXCEPT ![id] = new]
      /\ held' = [held EXCEPT ![id] = discounts[id].serial]
      /\ UNCHANGED <<created, thinned>>
    BY DEF ApplyDiscount
<1>3. new \in Discount /\ new.serial = discounts[id].serial /\ new.usage > 0
    <2>1. "usage" \in DOMAIN discounts[id]
        BY <1>1 DEF Discount
    <2>2. new.serial = discounts[id].serial /\ new.usage = discounts[id].usage + 1
        BY <2>1
    <2>3. discounts[id].usage + 1 \in Nat /\ discounts[id].usage + 1 > 0
        BY <1>1
    <2>4. \A d \in Discount, n \in Nat : [d EXCEPT !.usage = n] \in Discount
        BY DEF Discount
    <2> QED
        BY <1>1, <2>2, <2>3, <2>4
<1> HIDE DEF new
<1>4. DiscountsTyped'
    BY <1>1, <1>2, <1>3 DEF DiscountsTyped
<1>5. /\ discounts'[id] = new /\ held'[id] = discounts[id].serial
      /\ \A i \in DiscountIds : i # id => discounts'[i] = discounts[i] /\ held'[i] = held[i]
    BY <1>1, <1>2 DEF DiscountsTyped
<1>6. Live' = Live
    BY <1>1, <1>3, <1>5, LiveFacts DEF Live
<1>7. CASE Live = 1..created /\ Counted
    <2>1. Counted'
        BY <1>1, <1>3, <1>5, <1>6, <1>7 DEF Counted, Held
    <2> QED
        BY <1>2, <1>4, <1>6, <1>7, <2>1 DEF HeldInv
<1>8. CASE thinned
    BY <1>2, <1>4, <1>8 DEF HeldInv
<1> QED
    BY <1>7, <1>8 DEF HeldInv

(* remove_discount and clear_discounts only make the order hold less.       *)
LEMMA DroppingKeeps ==
    ASSUME HeldInv, ClearDiscounts \/ \E i \in DiscountIds : RemoveDiscount(i)
    PROVE  HeldInv'
<1>1. UNCHANGED <<discounts, created, thinned>>
    BY DEF ClearDiscounts, RemoveDiscount
<1>2. /\ held' \in [DiscountIds -> Nat \cup {Nothing}]
      /\ \A i \in DiscountIds : held'[i] # Nothing => held'[i] = held[i]
    <2>1. CASE ClearDiscounts
        BY <2>1 DEF ClearDiscounts
    <2>2. CASE \E i \in DiscountIds : RemoveDiscount(i)
        BY <2>2 DEF RemoveDiscount, HeldInv, DiscountsTyped
    <2> QED
        BY <2>1, <2>2
<1>3. DiscountsTyped' /\ Live' = Live
    BY <1>1, <1>2 DEF HeldInv, DiscountsTyped, Live
<1>4. Counted => Counted'
    BY <1>1, <1>2, <1>3 DEF Counted, Held
<1>5. CASE Live = 1..created /\ Counted
    BY <1>1, <1>3, <1>4, <1>5 DEF HeldInv
<1>6. CASE thinned
    BY <1>1, <1>3, <1>6 DEF HeldInv
<1> QED
    BY <1>5, <1>6 DEF HeldInv

(* A step that leaves the discounts alone, like that of the clock.          *)
LEMMA HeldStutter ==
    ASSUME HeldInv, UNCHANGED <<discounts, created, held, thinned>>
    PROVE  HeldInv'
<1>1. DiscountsTyped' /\ Live' = Live /\ Held' = Held
    BY DEF HeldInv, DiscountsTyped, Live, Held
<1>2. Counted => Counted'
    BY <1>1 DEF Counted
<1>3. CASE Live = 1..created /\ Counted
    BY <1>1, <1>2, <1>3 DEF HeldInv
<1>4. CASE thinned
    BY <1>1, <1>4 DEF HeldInv
<1> QED
    BY <1>3, <1>4 DEF HeldInv

(* There are no discounts at first.                                         *)
LEMMA HeldInit == InitDiscounts => HeldInv
<1> SUFFICES ASSUME InitDiscounts PROVE HeldInv
    OBVIOUS
<1>1. DiscountsTyped /\ Live = {} /\ Held = {} /\ created = 0
    BY DEF InitDiscounts, DiscountsTyped, Live, Held
<1>2. Counted /\ 1..created = {}
    BY <1>1 DEF Counted
<1> QED
    BY <1>1, <1>2 DEF HeldInv

(* Every step keeps the invariant of the discounts.                         *)
LEMMA HeldStep == HeldInv /\ [PricingNext]_<<itemVars, discountVars>> => HeldInv'
<1> SUFFICES ASSUME HeldInv, [PricingNext]_<<itemVars, discountVars>> PROVE HeldInv'
    OBVIOUS
<1>1. CASE UNCHANGED discountVars
    BY <1>1, HeldStutter DEF discountVars
<1>2. CASE NextDiscounts
    <2>1. ASSUME NEW i \in DiscountIds, NEW field \in DOMAIN Settings,
                 NEW value \in Settings[field], Configure(i, field, value)
          PROVE  HeldInv'
        BY <2>1, ConfigureKeeps
    <2>2. CASE NextDay
        BY <2>2, HeldStutter DEF NextDay
    <2> QED
        BY <1>2, <2>1, <2>2, CreateKeeps, ThinnedKeeps, ApplyKeeps, DroppingKeeps
        DEF NextDiscounts
<1> QED
    BY <1>1, <1>2 DEF PricingNext

(* As long as no discount is deleted, the ids an order holds (order.cpp)    *)
(* are those of the discounts that were applied to it, and their uses are   *)
(* counted (discount.cpp).                                                  *)
THEOREM HeldAsAppliedHolds == SpecPricing => []HeldAsApplied
<1>1. SpecPricing => InitDiscounts /\ [][PricingNext]_<<itemVars, discountVars>>
    BY DEF SpecPricing, PricingNext
<1>2. HeldInv => HeldAsApplied
    BY DEF HeldInv, Counted, HeldAsApplied
<1> QED
    BY <1>1, <1>2, HeldInit, HeldStep, PTL

-------------------------------------------------------------------------------
(* What a discount takes off.                                               *)

(* A limit only lowers an amount, to the limit if there is one.             *)
LEMMA LimitedFacts ==
    ASSUME NEW x \in Int, NEW cap \in Nat
    PROVE  /\ Limited(x, cap) \in Int /\ Limited(x, cap) <= x
           /\ cap > 0 => Limited(x, cap) <= cap
BY DEF Limited

(* Of an amount that is not negative, nothing negative is left.             *)
LEMMA LimitedNat ==
    ASSUME NEW x \in Nat, NEW cap \in Nat
    PROVE  Limited(x, cap) \in Nat
BY DEF Limited

(* Products of natural numbers are natural.                                 *)
LEMMA Product ==
    ASSUME NEW x \in Nat, NEW y \in Nat
    PROVE  x * y \in Nat
OBVIOUS

(* A greater factor makes no smaller product.                               *)
LEMMA ProductOrdered ==
    ASSUME NEW x \in Nat, NEW y \in Nat, NEW z \in Nat, x <= y
    PROVE  x * z <= y * z
OBVIOUS

(* The whole groups of k in x are no more than x.                           *)
LEMMA WholeGroups ==
    ASSUME NEW x \in Nat, NEW k \in Nat, k > 0
    PROVE  x \div k \in Nat /\ (x \div k) * k <= x
OBVIOUS

(* What lines cost together.  No line of a negative quantity and all prices *)
(* at least r: they cost at least r for each piece.                         *)
LEMMA SubtotalsFacts ==
    ASSUME ItemsInv, NEW T \in SUBSET Lines
    PROVE  /\ IsFiniteSet(T)
           /\ SumFunction([n \in T |-> Subtotal(items[n])]) \in Int
           /\ Quantity(T) \in Int
           /\ \A r \in Nat : (\A n \in T : items[n].quantity >= 0 /\ r <= items[n].price) =>
                 /\ Quantity(T) \in Nat
                 /\ r * Quantity(T) <= SumFunction([n \in T |-> Subtotal(items[n])])
<1> DEFINE f == [n \in T |-> items[n].quantity]
           g == [n \in T |-> Subtotal(items[n])]
<1>1. IsFiniteSet(T) /\ DOMAIN f = T /\ DOMAIN g = T
    BY LinesFacts, FS_Subset DEF ItemsInv
<1>2. \A n \in T : items[n].price \in Nat /\ items[n].quantity \in Int
    BY LinesFacts DEF ItemsInv
<1>3. \A n \in T : f[n] = items[n].quantity /\ g[n] = items[n].price * items[n].quantity
    BY DEF Subtotal
<1>4. SumFunction(g) = SumFunctionOnSet(g, T) /\ Quantity(T) = SumFunctionOnSet(f, T)
    BY <1>1 DEF SumFunction, Quantity
<1> HIDE DEF f, g
<1>5. \A n \in T : f[n] \in Int /\ g[n] \in Int
    BY <1>2, <1>3
<1>6. SumFunctionOnSet(f, T) \in Int /\ SumFunctionOnSet(g, T) \in Int
    BY <1>1, <1>5, SumInt
<1>7. ASSUME NEW r \in Nat, \A n \in T : items[n].quantity >= 0 /\ r <= items[n].price
      PROVE  /\ SumFunctionOnSet(f, T) \in Nat
             /\ r * SumFunctionOnSet(f, T) <= SumFunctionOnSet(g, T)
    <2> DEFINE h == [n \in T |-> r * f[n]]
    <2>1. \A n \in T : f[n] \in Nat
        BY <1>2, <1>3, <1>7
    <2>2. SumFunctionOnSet(f, T) \in Nat
        BY <1>1, <2>1, SumNat
    <2>3. \A n \in T : f[n] \in Int /\ h[n] = r * f[n]
        BY <1>5
    <2>4. \A n \in T : h[n] \in Int /\ g[n] \in Int /\ h[n] <= g[n]
        <3> TAKE n \in T
        <3>1. r * items[n].quantity <= items[n].price * items[n].quantity
            BY <1>2, <1>3, <1>7, <2>1, ProductOrdered
        <3> QED
            BY <1>3, <1>5, <2>3, <3>1
    <2> HIDE DEF h
    <2>5. SumFunctionOnSet(h, T) = r * SumFunctionOnSet(f, T)
        BY <1>1, <2>3, SumScaled
    <2>6. SumFunctionOnSet(h, T) <= SumFunctionOnSet(g, T)
        BY <1>1, <2>4, SumOrdered
    <2> QED
        BY <2>2, <2>5, <2>6
<1>8. /\ SumFunction(g) \in Int /\ Quantity(T) \in Int
      /\ \A r \in Nat : (\A n \in T : items[n].quantity >= 0 /\ r <= items[n].price) =>
            Quantity(T) \in Nat /\ r * Quantity(T) <= SumFunction(g)
    BY <1>4, <1>6, <1>7
<1> QED
    BY <1>1, <1>8 DEF g

(* The first price that is not 0 is that of a line, and the dearest is no   *)
(* less.                                                                    *)
LEMMA FirstPriceFacts ==
    ASSUME ItemsInv, NEW T \in SUBSET Lines
    PROVE  /\ FirstPrice(T) \in Nat
           /\ FirstPrice(T) > 0 => Dearest(T) \in Nat /\ FirstPrice(T) <= Dearest(T)
<1> DEFINE priced == {n \in T : items[n].price # 0}
           prices == {items[n].price : n \in T}
           f == [n \in T |-> items[n].price]
<1>1. FirstPrice(T) = IF priced = {} THEN 0 ELSE items[Min(priced)].price
    BY DEF FirstPrice
<1>2. \A n \in T : items[n].price \in Nat
    BY LinesFacts DEF ItemsInv
<1>3. priced # {} => Min(priced) \in priced
    <2>3. priced \in SUBSET Lines
        OBVIOUS
    <2>4. Lines \subseteq Int
        BY DEF Lines
    <2> HIDE DEF priced
    <2>1. priced \in SUBSET Lines /\ priced \subseteq Int
        BY <2>3, <2>4
    <2>2. IsFiniteSet(priced)
        BY <2>1, LinesFacts, FS_Subset DEF ItemsInv
    <2> QED
        BY <2>1, <2>2, SmallestThere
<1>4. CASE priced = {}
    BY <1>1, <1>4
<1>5. CASE priced # {}
    <2> DEFINE n == Min(priced)
    <2>1. n \in T /\ FirstPrice(T) = items[n].price
        BY <1>1, <1>3, <1>5
    <2> HIDE DEF n
    <2>2. FirstPrice(T) \in prices /\ FirstPrice(T) \in Nat
        BY <1>2, <2>1
    <2>3. f \in Surjection(T, prices)
        <3>1. f \in [T -> prices] /\ \A x \in prices : \E m \in T : f[m] = x
            OBVIOUS
        <3> QED
            BY <3>1, Fun_IsSurj
    <2>4. IsFiniteSet(T)
        BY LinesFacts, FS_Subset DEF ItemsInv
    <2>5. prices \subseteq Nat
        BY <1>2
    <2>6. Dearest(T) = Max(prices)
        BY DEF Dearest
    <2> HIDE DEF prices, f
    <2>7. IsFiniteSet(prices) /\ prices \subseteq Int /\ prices # {}
        BY <2>2, <2>3, <2>4, <2>5, FS_Surjection
    <2>8. Max(prices) \in prices /\ \A x \in prices : x <= Max(prices)
        BY <2>7, LargestThere
    <2> QED
        BY <2>2, <2>5, <2>6, <2>8
<1> QED
    BY <1>4, <1>5

(* The ordered lines cost an integer.                                       *)
LEMMA SubtotalIsInt ==
    ASSUME ItemsInv
    PROVE  OrderSubtotal \in Int
<1>1. DOMAIN items = Lines
    BY LinesFacts DEF ItemsInv
<1> QED
    BY <1>1, SubtotalsFacts DEF OrderSubtotal

(* PercentageDiscount takes off no more than the percentage, nor than its   *)
(* own maximum.                                                             *)
LEMMA PercentEarned ==
    ASSUME ItemsInv, NEW a \in Applications, NEW cap \in Caps, a.kind = "percent"
    PROVE  /\ CalculateDiscount(a, cap) * 100 <= OrderSubtotal * a.percentage
           /\ a.most > 0 => CalculateDiscount(a, cap) <= a.most
           /\ cap > 0 => CalculateDiscount(a, cap) <= cap
<1> DEFINE x == (OrderSubtotal * a.percentage) \div 100
           y == Limited(x, a.most)
           off == Limited(y, cap)
<1>1. a.percentage \in Nat /\ a.most \in Nat /\ cap \in Nat /\ a # Nothing
    BY DiscountsAssumption DEF IsApplication
<1>2. CalculateDiscount(a, cap) = off
    BY <1>1 DEF CalculateDiscount, Calculate
<1>3. OrderSubtotal * a.percentage \in Int
    BY <1>1, SubtotalIsInt
<1>4. x \in Int /\ x * 100 <= OrderSubtotal * a.percentage
    BY <1>3
<1> HIDE DEF x
<1>5. y \in Int /\ y <= x /\ (a.most > 0 => y <= a.most)
    BY <1>1, <1>4, LimitedFacts
<1> HIDE DEF y
<1>6. off \in Int /\ off <= y /\ (cap > 0 => off <= cap)
    BY <1>1, <1>5, LimitedFacts
<1> HIDE DEF off
<1>7. off * 100 <= x * 100
    BY <1>4, <1>5, <1>6
<1>8. off * 100 <= OrderSubtotal * a.percentage
    BY <1>3, <1>4, <1>6, <1>7
<1>9. a.most > 0 => off <= a.most
    BY <1>1, <1>5, <1>6
<1> QED
    BY <1>2, <1>6, <1>8, <1>9

(* FullReductionDiscount takes nothing off below its threshold, and its     *)
(* reduction at most.                                                       *)
LEMMA ReductionEarned ==
    ASSUME ItemsInv, NEW a \in Applications, NEW cap \in Caps, a.kind = "reduction"
    PROVE  /\ CalculateDiscount(a, cap) > 0 =>
                OrderSubtotal >= a.threshold /\ CalculateDiscount(a, cap) <= a.reduction
           /\ cap > 0 => CalculateDiscount(a, cap) <= cap
<1>1. a.threshold \in Nat /\ a.reduction \in Nat /\ cap \in Nat /\ a # Nothing
    BY DiscountsAssumption DEF IsApplication
<1>2. Calculate(a) = IF OrderSubtotal >= a.threshold THEN a.reduction ELSE 0
    BY <1>1 DEF Calculate
<1>3. Limited(0, cap) = 0
    BY <1>1 DEF Limited
<1>4. /\ Limited(a.reduction, cap) <= a.reduction
      /\ cap > 0 => Limited(a.reduction, cap) <= cap
    <2>1. a.reduction \in Int
        BY <1>1
    <2> QED
        BY <1>1, <2>1, LimitedFacts
<1> QED
    BY <1>1, <1>2, <1>3, <1>4 DEF CalculateDiscount

(* FixedAmountDiscount takes off its amount at most.                        *)
LEMMA FixedEarned ==
    ASSUME NEW a \in Applications, NEW cap \in Caps, a.kind = "fixed"
    PROVE  /\ CalculateDiscount(a, cap) <= a.amount
           /\ cap > 0 => CalculateDiscount(a, cap) <= cap
<1>1. a.amount \in Nat /\ cap \in Nat /\ a # Nothing
    BY DiscountsAssumption DEF IsApplication
<1>2. CalculateDiscount(a, cap) = Limited(a.amount, cap)
    BY <1>1 DEF CalculateDiscount, Calculate
<1>3. a.amount \in Int
    BY <1>1
<1> QED
    BY <1>1, <1>2, <1>3, LimitedFacts

(* BuyNGetMDiscount: of Q pieces in groups of k, at most (Q / k) * free are *)
(* given away, at the first price r that is not 0; k times what is taken    *)
(* off is at most r * Q * free.  Of a negative Q the quotient is not        *)
(* positive, and nothing is taken off.                                      *)
LEMMA FreeBounded ==
    ASSUME ItemsInv, NEW a \in Applications, NEW cap \in Caps, a.kind = "free"
    PROVE  LET Q == Quantity(Targets(a))
               r == FirstPrice(Targets(a))
               off == CalculateDiscount(a, cap)
           IN  /\ off \in Int
               /\ cap > 0 => off <= cap
               /\ off > 0 => Q \in Nat /\ r > 0
               /\ Q \in Nat => off \in Nat /\ off * (a.buy + a.free) <= (r * Q) * a.free
<1> DEFINE T == Targets(a)
           Q == Quantity(T)
           k == a.buy + a.free
           t == Truncated(Q, k)
           r == FirstPrice(T)
           off == CalculateDiscount(a, cap)
<1>1. a.buy \in Nat /\ a.free \in Nat /\ k > 0 /\ k \in Nat /\ cap \in Nat /\ a # Nothing
    BY DiscountsAssumption DEF IsApplication
<1>2. off = Limited((t * a.free) * r, cap)
    BY <1>1 DEF CalculateDiscount, Calculate, FreeItems
<1>3. T \in SUBSET Lines
    BY LinesFacts DEF ItemsInv, Targets
<1> HIDE DEF T
<1>4. Q \in Int /\ r \in Nat
    BY <1>3, SubtotalsFacts, FirstPriceFacts
<1> HIDE DEF Q, r, k
<1>5. Q \in Nat => t \in Nat /\ t * k <= Q
    <2> HAVE Q \in Nat
    <2>1. t = Q \div k
        BY DEF Truncated
    <2> QED
        BY <1>1, <2>1, WholeGroups
<1>6. Q \notin Nat => t \in Int /\ t <= 0
    <2> HAVE Q \notin Nat
    <2>1. t = -((-Q) \div k) /\ -Q \in Nat
        BY <1>4 DEF Truncated
    <2>2. (-Q) \div k \in Nat
        BY <1>1, <2>1, WholeGroups
    <2> QED
        BY <2>1, <2>2
<1> HIDE DEF t
<1>7. t \in Int /\ t * a.free \in Int /\ (t * a.free) * r \in Int
    BY <1>1, <1>4, <1>5, <1>6
<1>8. off \in Int /\ off <= (t * a.free) * r /\ (cap > 0 => off <= cap)
    BY <1>1, <1>2, <1>7, LimitedFacts
<1>9. off > 0 => Q \in Nat /\ r > 0
    <2> HAVE off > 0
    <2>1. (t * a.free) * r > 0
        BY <1>7, <1>8
    <2>2. r # 0
        <3> SUFFICES ASSUME r = 0 PROVE FALSE
            OBVIOUS
        <3>1. (t * a.free) * r = 0
            BY <1>7
        <3> QED
            BY <2>1, <3>1
    <2>3. ASSUME Q \notin Nat PROVE FALSE
        <3>1. t \in Int /\ t <= 0
            BY <1>6, <2>3
        <3>2. (-t) * a.free \in Nat
            BY <1>1, <3>1, Product
        <3>3. ((-t) * a.free) * r \in Nat
            BY <1>4, <3>2, Product
        <3>4. ((-t) * a.free) * r = -((t * a.free) * r)
            BY <1>1, <1>4, <3>1
        <3> QED
            BY <1>7, <2>1, <3>3, <3>4
    <2> QED
        BY <1>4, <2>2, <2>3
<1>10. ASSUME Q \in Nat PROVE off \in Nat /\ off * k <= (r * Q) * a.free
    <2>1. t \in Nat /\ t * k <= Q
        BY <1>5, <1>10
    <2>2. t * a.free \in Nat /\ (t * a.free) * r \in Nat
        BY <1>1, <1>4, <2>1, Product
    <2>3. off \in Nat
        BY <1>1, <1>2, <2>2, LimitedNat
    <2>4. off * k <= ((t * a.free) * r) * k
        BY <1>1, <1>8, <2>2, <2>3, ProductOrdered
    <2>5. ((t * a.free) * r) * k = (t * k) * (a.free * r)
        BY <1>1, <1>4, <2>1
    <2>6. (t * k) * (a.free * r) <= Q * (a.free * r)
        <3>1. t * k \in Nat /\ a.free * r \in Nat
            BY <1>1, <1>4, <2>1, Product
        <3> QED
            BY <1>10, <2>1, <3>1, ProductOrdered
    <2>7. Q * (a.free * r) = (r * Q) * a.free
        BY <1>1, <1>4, <1>10
    <2>8. off * k \in Nat /\ (t * k) * (a.free * r) \in Nat /\ Q * (a.free * r) \in Nat
        BY <1>1, <1>4, <1>10, <2>1, <2>3, Product
    <2> QED
        BY <2>3, <2>4, <2>5, <2>6, <2>7, <2>8
<1> HIDE DEF off
<1>11. /\ off \in Int /\ (cap > 0 => off <= cap)
       /\ off > 0 => Q \in Nat /\ r > 0
       /\ Q \in Nat => off \in Nat /\ off * k <= (r * Q) * a.free
    BY <1>8, <1>9, <1>10
<1> QED
    BY <1>11 DEF Q, r, k, off, T

(* No more is taken off than the free part of all groups costs at the       *)
(* dearest price.                                                           *)
LEMMA FreeAtDearest ==
    ASSUME ItemsInv, NEW a \in Applications, NEW cap \in Caps, a.kind = "free",
           CalculateDiscount(a, cap) > 0
    PROVE  CalculateDiscount(a, cap) * (a.buy + a.free)
              <= (Quantity(Targets(a)) * a.free) * Dearest(Targets(a))
<1> DEFINE T == Targets(a)
           Q == Quantity(T)
           r == FirstPrice(T)
           D == Dearest(T)
           off == CalculateDiscount(a, cap)
<1>1. a.buy \in Nat /\ a.free \in Nat
    BY DiscountsAssumption DEF IsApplication
<1>2. T \in SUBSET Lines
    BY LinesFacts DEF ItemsInv, Targets
<1>3. /\ off \in Int /\ Q \in Nat /\ r > 0 /\ off \in Nat
      /\ off * (a.buy + a.free) <= (r * Q) * a.free
    BY FreeBounded
<1> HIDE DEF T
<1>4. r \in Nat /\ D \in Nat /\ r <= D
    BY <1>2, <1>3, FirstPriceFacts
<1> HIDE DEF Q, r, D, off
<1>5. Q * a.free \in Nat
    BY <1>1, <1>3, Product
<1>6. r * (Q * a.free) <= D * (Q * a.free)
    BY <1>4, <1>5, ProductOrdered
<1>7. (r * Q) * a.free = r * (Q * a.free) /\ D * (Q * a.free) = (Q * a.free) * D
    BY <1>1, <1>3, <1>4
<1>8. /\ off * (a.buy + a.free) \in Nat /\ r * (Q * a.free) \in Nat /\ D * (Q * a.free) \in Nat
      /\ (Q * a.free) * D \in Nat
    BY <1>1, <1>3, <1>4, <1>5, Product
<1>9. off * (a.buy + a.free) <= (Q * a.free) * D
    BY <1>3, <1>6, <1>7, <1>8
<1> QED
    BY <1>9 DEF Q, D, off, T

(* When the price the free pieces go at is the cheapest of the lines, which *)
(* cost S together, r * Q is at most S, so that what is paid covers the     *)
(* other pieces of the groups.                                              *)
LEMMA FreeEarned ==
    ASSUME ItemsInv, NEW a \in Applications, NEW cap \in Caps, a.kind = "free",
           CheapestFirst(Targets(a))
    PROVE  CalculateDiscount(a, cap) * a.buy
              <= (SumFunction([n \in Targets(a) |-> Subtotal(items[n])])
                    - CalculateDiscount(a, cap)) * a.free
<1> DEFINE T == Targets(a)
           Q == Quantity(T)
           k == a.buy + a.free
           r == FirstPrice(T)
           off == CalculateDiscount(a, cap)
           S == SumFunction([n \in T |-> Subtotal(items[n])])
<1>1. a.buy \in Nat /\ a.free \in Nat
    BY DiscountsAssumption DEF IsApplication
<1>2. T \in SUBSET Lines
    BY LinesFacts DEF ItemsInv, Targets
<1>3. \A n \in T : items[n].quantity >= 0 /\ r <= items[n].price
    BY DEF CheapestFirst
<1>4. Q \in Nat => off \in Nat /\ off * k <= (r * Q) * a.free
    BY FreeBounded
<1> HIDE DEF T
<1>5. Q \in Nat /\ r \in Nat /\ S \in Int /\ r * Q <= S
    BY <1>2, <1>3, SubtotalsFacts, FirstPriceFacts
<1>6. k \in Nat
    BY <1>1
<1> HIDE DEF Q, r, S, off
<1>7. r * Q \in Nat /\ S \in Nat
    BY <1>5, Product
<1>8. (r * Q) * a.free <= S * a.free
    BY <1>1, <1>5, <1>7, ProductOrdered
<1>9. off * k = off * a.buy + off * a.free
    BY <1>1, <1>4, <1>5
<1>10. (S - off) * a.free = S * a.free - off * a.free
    BY <1>1, <1>4, <1>5, <1>7
<1>11. /\ off * a.buy \in Nat /\ off * a.free \in Nat /\ (r * Q) * a.free \in Nat
       /\ S * a.free \in Nat /\ off * k \in Nat
    BY <1>1, <1>4, <1>5, <1>6, <1>7, Product
<1> HIDE DEF k
<1>12. off * a.buy <= (S - off) * a.free
    BY <1>4, <1>5, <1>8, <1>9, <1>10, <1>11
<1> QED
    BY <1>12 DEF off, S, T

(* No calculation of discount.cpp takes off more than its limits and the    *)
(* lines of the order allow, whatever lines it has: of mixed prices, free   *)
(* of charge, of a quantity below zero.                                     *)
THEOREM DiscountEarnedHolds == SpecPricing => []DiscountEarned
<1>1. ASSUME ItemsInv, NEW a \in Applications, NEW cap \in Caps
      PROVE  cap > 0 => CalculateDiscount(a, cap) <= cap
    BY <1>1, PercentEarned, ReductionEarned, FixedEarned, FreeBounded, DiscountsAssumption
       DEF IsApplication
<1>2. ItemsInv => DiscountEarned
    BY <1>1, PercentEarned, ReductionEarned, FixedEarned, FreeAtDearest, FreeEarned
       DEF DiscountEarned
<1> QED
    BY <1>2, LinesStayWell, PTL

===============================================================================
