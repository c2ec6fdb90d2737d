-------------------------------- MODULE Sums --------------------------------
(***************************************************************************)
(* Facts about the sums SumFunctionOnSet(f, S) of the community module     *)
(* Functions over a finite set S, for every f that is an integer on S.     *)
(*                                                                         *)
(* The sum is defined by recursion over the subsets of S, as the CHOOSE of *)
(* a function on SUBSET S: Table describes that function.  That the choice *)
(* exists and that two such functions agree on what they both describe     *)
(* gives the recursion equation SumUnfold; the other facts follow from it. *)
(* Each is proved by induction over the subsets of S, in the form of       *)
(* SubsetInduction: the property is the set Good of the subsets that have  *)
(* it.  UpTo is induction over numbers in the same form.                   *)
(***************************************************************************)
EXTENDS Integers, FiniteSets, Functions, FiniteSetTheorems, WellFoundedInduction, TLAPS

(* The element of s that the recursion takes first.                         *)
SomeOf(s) == CHOOSE x \in s : TRUE

(* What the sum over s is, given the sums g over the smaller sets.          *)
Peeled(f, g, s) == IF s = {} THEN 0 ELSE f[SomeOf(s)] + g[s \ {SomeOf(s)}]

(* g is a table of the sums of f over the subsets of S.                     *)
Table(f, S, g) == g = [s \in SUBSET S |-> Peeled(f, g, s)]

(* The sum is read off a table that is chosen.                              *)
LEMMA SumIsTable ==
    ASSUME NEW f, NEW S
    PROVE  SumFunctionOnSet(f, S) = (CHOOSE g : Table(f, S, g))[S]
BY DEF SumFunctionOnSet, FoldFunctionOnSet, MapThenFoldSet, Table, Peeled, SomeOf

(* Induction over the subsets of a finite set: what holds of a set as soon  *)
(* as it holds of its proper subsets holds of all.                          *)
LEMMA SubsetInduction ==
    ASSUME NEW S, IsFiniteSet(S), NEW Good,
           \A T \in SUBSET S : (\A U \in SUBSET T : U # T => U \in Good) => T \in Good
    PROVE  \A T \in SUBSET S : T \in Good
<1> DEFINE Bad == {T \in SUBSET S : T \notin Good}
<1>1. IsWellFoundedOn(StrictSubsetOrdering(S), SUBSET S)
    BY FS_StrictSubsetOrderingWellFounded, FS_FiniteSubsetsOfFinite
<1>2. ASSUME Bad # {} PROVE FALSE
    <2>1. \E x \in Bad : \A y \in Bad : ~(<<y, x>> \in StrictSubsetOrdering(S))
        <3>1. Bad \subseteq SUBSET S
            OBVIOUS
        <3> HIDE DEF Bad
        <3> QED
            BY <1>1, <1>2, <3>1, WFMin
    <2>2. PICK x \in Bad : \A y \in Bad : ~(<<y, x>> \in StrictSubsetOrdering(S))
        BY <2>1
    <2>3. \A U \in SUBSET x : U # x => U \in Good
        BY <2>2 DEF StrictSubsetOrdering
    <2> QED
        BY <2>2, <2>3
<1> QED
    BY <1>2

(* Two tables agree on the sets that both describe.                         *)
LEMMA TablesAgree ==
    ASSUME NEW f, NEW A, NEW B, NEW g, NEW h, Table(f, A, g), Table(f, B, h),
           NEW T, IsFiniteSet(T), T \subseteq A, T \subseteq B
    PROVE  g[T] = h[T]
<1> DEFINE Good == {U \in SUBSET T : g[U] = h[U]}
<1>1. \A U \in SUBSET T : (\A V \in SUBSET U : V # U => V \in Good) => U \in Good
    <2> SUFFICES ASSUME NEW U \in SUBSET T, \A V \in SUBSET U : V # U => V \in Good
                 PROVE  g[U] = h[U]
        OBVIOUS
    <2>1. g[U] = Peeled(f, g, U) /\ h[U] = Peeled(f, h, U)
        BY DEF Table
    <2>2. CASE U = {}
        BY <2>1, <2>2 DEF Peeled
    <2>3. CASE U # {}
        <3>1. SomeOf(U) \in U
            BY <2>3 DEF SomeOf
        <3>2. U \ {SomeOf(U)} \in Good
            BY <3>1
        <3> QED
            BY <2>1, <2>3, <3>2 DEF Peeled
    <2> QED
        BY <2>2, <2>3
<1>2. \A U \in SUBSET T : U \in Good
    <2> HIDE DEF Good
    <2> QED
        BY <1>1, SubsetInduction
<1> QED
    BY <1>2

(* Every finite set has a table, made of the tables of its subsets.         *)
LEMMA TableExists ==
    ASSUME NEW f, NEW S, IsFiniteSet(S)
    PROVE  \E g : Table(f, S, g)
<1> DEFINE Good == {T \in SUBSET S : \E g : Table(f, T, g)}
<1>1. \A T \in SUBSET S : (\A U \in SUBSET T : U # T => U \in Good) => T \in Good
    <2> SUFFICES ASSUME NEW T \in SUBSET S, \A U \in SUBSET T : U # T => U \in Good
                 PROVE  \E g : Table(f, T, g)
        OBVIOUS
    <2> DEFINE W(u) == CHOOSE g : Table(f, u, g)
               h == [s \in SUBSET T |-> IF s = {} THEN 0 ELSE f[SomeOf(s)] + W(s \ {SomeOf(s)})[s \ {SomeOf(s)}]]
    <2>1. \A u \in SUBSET T : u # T => Table(f, u, W(u))
        OBVIOUS
    <2>2. \A s \in SUBSET T : s # {} => SomeOf(s) \in s
        BY DEF SomeOf
    <2>3. ASSUME NEW u \in SUBSET T, u # T PROVE h[u] = W(u)[u]
        <3>1. W(u)[u] = Peeled(f, W(u), u)
            BY <2>1, <2>3 DEF Table
        <3>2. CASE u = {}
            BY <3>1, <3>2 DEF Peeled
        <3>3. CASE u # {}
            <4> DEFINE v == u \ {SomeOf(u)}
            <4>1. v \in SUBSET T /\ v # T /\ v \subseteq u /\ IsFiniteSet(v)
                BY FS_Subset, <2>3
            <4>2. Table(f, u, W(u)) /\ Table(f, v, W(v))
                BY <2>1, <4>1, <2>3
            <4>3. h[u] = f[SomeOf(u)] + W(v)[v]
                BY <3>3
            <4>4. W(u)[u] = f[SomeOf(u)] + W(u)[v]
                BY <3>1, <3>3 DEF Peeled
            <4> HIDE DEF h, W, v
            <4>5. W(u)[v] = W(v)[v]
                BY <4>1, <4>2, TablesAgree
            <4> QED
                BY <4>3, <4>4, <4>5
        <3> QED
            BY <3>2, <3>3
    <2>4. \A s \in SUBSET T : h[s] = Peeled(f, h, s)
        <3> TAKE s \in SUBSET T
        <3>1. CASE s = {}
            BY <3>1 DEF Peeled
        <3>2. CASE s # {}
            <4>1. s \ {SomeOf(s)} \in SUBSET T /\ s \ {SomeOf(s)} # T
                BY <2>2, <3>2
            <4>2. h[s \ {SomeOf(s)}] = W(s \ {SomeOf(s)})[s \ {SomeOf(s)}]
                BY <2>3, <4>1
            <4>3. h[s] = f[SomeOf(s)] + W(s \ {SomeOf(s)})[s \ {SomeOf(s)}]
                BY <3>2
            <4> HIDE DEF h, W
            <4> QED
                BY <4>2, <4>3, <3>2 DEF Peeled
        <3> QED
            BY <3>1, <3>2
    <2>5. h = [s \in SUBSET T |-> h[s]]
        OBVIOUS
    <2>6. Table(f, T, h)
        <3> HIDE DEF h
        <3> QED
            BY <2>4, <2>5 DEF Table
    <2> HIDE DEF h
    <2> QED
        BY <2>6
<1>2. \A T \in SUBSET S : T \in Good
    <2> HIDE DEF Good
    <2> QED
        BY <1>1, SubsetInduction
<1> QED
    BY <1>2

(* One table has the sums over all subsets of a finite set.                 *)
LEMMA TheTable ==
    ASSUME NEW f, NEW S, IsFiniteSet(S), NEW T \in SUBSET S
    PROVE  \E g : Table(f, S, g) /\ g[T] = SumFunctionOnSet(f, T)
<1> DEFINE g == CHOOSE u : Table(f, S, u)
           h == CHOOSE u : Table(f, T, u)
<1>1. Table(f, S, g) /\ Table(f, T, h) /\ IsFiniteSet(T)
    BY TableExists, FS_Subset
<1>2. SumFunctionOnSet(f, T) = h[T]
    BY SumIsTable
<1> HIDE DEF g, h
<1>3. g[T] = h[T]
    BY <1>1, TablesAgree
<1> QED
    BY <1>1, <1>2, <1>3

(* The recursion equation of the sum.                                       *)
LEMMA SumUnfold ==
    ASSUME NEW f, NEW S, IsFiniteSet(S)
    PROVE  SumFunctionOnSet(f, S) =
             IF S = {} THEN 0 ELSE f[SomeOf(S)] + SumFunctionOnSet(f, S \ {SomeOf(S)})
<1> DEFINE T == S \ {SomeOf(S)}
<1>1. PICK g : Table(f, S, g) /\ g[S] = SumFunctionOnSet(f, S)
    BY TheTable
<1>2. PICK h : Table(f, S, h) /\ h[T] = SumFunctionOnSet(f, T)
    BY TheTable
<1>3. g[T] = h[T]
    BY <1>1, <1>2, TablesAgree, FS_Subset
<1>4. g[S] = Peeled(f, g, S)
    BY <1>1 DEF Table
<1> QED
    BY <1>1, <1>2, <1>3, <1>4 DEF Peeled

(* Nothing sums up to 0.                                                    *)
LEMMA SumEmpty ==
    ASSUME NEW f
    PROVE  SumFunctionOnSet(f, {}) = 0
BY SumUnfold, FS_EmptySet

(* A sum of integers is an integer.                                         *)
LEMMA SumInt ==
    ASSUME NEW S, IsFiniteSet(S), NEW f, \A x \in S : f[x] \in Int
    PROVE  SumFunctionOnSet(f, S) \in Int
<1> DEFINE Good == {T \in SUBSET S : SumFunctionOnSet(f, T) \in Int}
<1>1. \A T \in SUBSET S : (\A U \in SUBSET T : U # T => U \in Good) => T \in Good
    <2> SUFFICES ASSUME NEW T \in SUBSET S, \A U \in SUBSET T : U # T => U \in Good
                 PROVE  SumFunctionOnSet(f, T) \in Int
        OBVIOUS
    <2>1. CASE T = {}
        BY <2>1, SumEmpty
    <2>2. CASE T # {}
        <3>1. SomeOf(T) \in T
            BY <2>2 DEF SomeOf
        <3>2. T \ {SomeOf(T)} \in Good /\ f[SomeOf(T)] \in Int
            BY <3>1
        <3>3. SumFunctionOnSet(f, T) = f[SomeOf(T)] + SumFunctionOnSet(f, T \ {SomeOf(T)})
            BY <2>2, SumUnfold, FS_Subset
        <3> QED
            BY <3>2, <3>3
    <2> QED
        BY <2>1, <2>2
<1>2. \A T \in SUBSET S : T \in Good
    <2> HIDE DEF Good
    <2> QED
        BY <1>1, SubsetInduction
<1> QED
    BY <1>2

(* Any element can be taken out of the sum first.                           *)
LEMMA SumRest ==
    ASSUME NEW S, IsFiniteSet(S), NEW f, \A x \in S : f[x] \in Int, NEW e \in S
    PROVE  SumFunctionOnSet(f, S) = f[e] + SumFunctionOnSet(f, S \ {e})
<1> DEFINE Good == {T \in SUBSET S : \A x \in T :
                        SumFunctionOnSet(f, T) = f[x] + SumFunctionOnSet(f, T \ {x})}
<1>1. \A T \in SUBSET S : (\A U \in SUBSET T : U # T => U \in Good) => T \in Good
    <2> SUFFICES ASSUME NEW T \in SUBSET S, \A U \in SUBSET T : U # T => U \in Good
                 PROVE  \A x \in T : SumFunctionOnSet(f, T) = f[x] + SumFunctionOnSet(f, T \ {x})
        OBVIOUS
    <2> TAKE x \in T
    <2> DEFINE p == SomeOf(T)
    <2>1. p \in T
        BY DEF SomeOf
    <2>2. SumFunctionOnSet(f, T) = f[p] + SumFunctionOnSet(f, T \ {p})
        BY SumUnfold, FS_Subset
    <2>3. CASE p = x
        BY <2>2, <2>3
    <2>4. CASE p # x
        <3>1. T \ {p} \in Good /\ T \ {x} \in Good /\ x \in T \ {p} /\ p \in T \ {x}
            BY <2>1, <2>4
        <3>2. SumFunctionOnSet(f, T \ {p}) = f[x] + SumFunctionOnSet(f, (T \ {p}) \ {x})
            BY <3>1
        <3>3. SumFunctionOnSet(f, T \ {x}) = f[p] + SumFunctionOnSet(f, (T \ {x}) \ {p})
            BY <3>1
        <3>4. (T \ {x}) \ {p} = (T \ {p}) \ {x}
            OBVIOUS
        <3>5. IsFiniteSet((T \ {p}) \ {x})
            BY FS_Subset
        <3>6. SumFunctionOnSet(f, (T \ {p}) \ {x}) \in Int
            BY <3>5, SumInt
        <3>7. f[p] \in Int /\ f[x] \in Int
            BY <2>1
        <3> HIDE DEF p, Good
        <3>8. \A a, b, c \in Int : a + (b + c) = b + (a + c)
            OBVIOUS
        <3>9. f[p] + (f[x] + SumFunctionOnSet(f, (T \ {p}) \ {x}))
                = f[x] + (f[p] + SumFunctionOnSet(f, (T \ {p}) \ {x}))
            BY <3>6, <3>7, <3>8
        <3> QED
            BY <2>2, <3>2, <3>3, <3>4, <3>9
    <2> QED
        BY <2>3, <2>4
<1>2. \A T \in SUBSET S : T \in Good
    <2> HIDE DEF Good
    <2> QED
        BY <1>1, SubsetInduction
<1> QED
    BY <1>2

(* One more element adds its value.                                         *)
LEMMA SumWith ==
    ASSUME NEW S, IsFiniteSet(S), NEW e, e \notin S, NEW f, \A x \in S \cup {e} : f[x] \in Int
    PROVE  SumFunctionOnSet(f, S \cup {e}) = f[e] + SumFunctionOnSet(f, S)
<1>1. IsFiniteSet(S \cup {e}) /\ (S \cup {e}) \ {e} = S /\ e \in S \cup {e}
    BY FS_AddElement
<1> QED
    BY <1>1, SumRest

(* A function that is nowhere greater has no greater sum.                   *)
LEMMA SumOrdered ==
    ASSUME NEW S, IsFiniteSet(S), NEW f, NEW g,
           \A x \in S : f[x] \in Int /\ g[x] \in Int /\ f[x] <= g[x]
    PROVE  SumFunctionOnSet(f, S) <= SumFunctionOnSet(g, S)
<1> DEFINE Good == {T \in SUBSET S : SumFunctionOnSet(f, T) <= SumFunctionOnSet(g, T)}
<1>1. \A T \in SUBSET S : (\A U \in SUBSET T : U # T => U \in Good) => T \in Good
    <2> SUFFICES ASSUME NEW T \in SUBSET S, \A U \in SUBSET T : U # T => U \in Good
                 PROVE  SumFunctionOnSet(f, T) <= SumFunctionOnSet(g, T)
        OBVIOUS
    <2>1. CASE T = {}
        BY <2>1, SumEmpty
    <2>2. CASE T # {}
        <3>1. PICK x \in T : TRUE
            BY <2>2
        <3>2. T \ {x} \in Good /\ IsFiniteSet(T) /\ IsFiniteSet(T \ {x})
            BY FS_Subset
        <3>3. SumFunctionOnSet(f, T) = f[x] + SumFunctionOnSet(f, T \ {x})
            BY <3>2, SumRest
        <3>4. SumFunctionOnSet(g, T) = g[x] + SumFunctionOnSet(g, T \ {x})
            BY <3>2, SumRest
        <3>5. SumFunctionOnSet(f, T \ {x}) \in Int /\ SumFunctionOnSet(g, T \ {x}) \in Int
            BY <3>2, SumInt
        <3>6. f[x] \in Int /\ g[x] \in Int /\ f[x] <= g[x]
            OBVIOUS
        <3> QED
            BY <3>2, <3>3, <3>4, <3>5, <3>6
    <2> QED
        BY <2>1, <2>2
<1>2. \A T \in SUBSET S : T \in Good
    <2> HIDE DEF Good
    <2> QED
        BY <1>1, SubsetInduction
<1> QED
    BY <1>2

(* The sum depends on the values on the set only.                           *)
LEMMA SumSame ==
    ASSUME NEW S, IsFiniteSet(S), NEW f, NEW g, \A x \in S : f[x] \in Int /\ g[x] = f[x]
    PROVE  SumFunctionOnSet(g, S) = SumFunctionOnSet(f, S)
<1>1. SumFunctionOnSet(f, S) <= SumFunctionOnSet(g, S)
    BY SumOrdered
<1>2. SumFunctionOnSet(g, S) <= SumFunctionOnSet(f, S)
    BY SumOrdered
<1>3. SumFunctionOnSet(f, S) \in Int /\ SumFunctionOnSet(g, S) \in Int
    BY SumInt
<1> QED
    BY <1>1, <1>2, <1>3

(* A sum of natural numbers is one.                                         *)
LEMMA SumNat ==
    ASSUME NEW S, IsFiniteSet(S), NEW f, \A x \in S : f[x] \in Nat
    PROVE  SumFunctionOnSet(f, S) \in Nat
<1> DEFINE Good == {T \in SUBSET S : SumFunctionOnSet(f, T) \in Nat}
<1>1. \A T \in SUBSET S : (\A U \in SUBSET T : U # T => U \in Good) => T \in Good
    <2> SUFFICES ASSUME NEW T \in SUBSET S, \A U \in SUBSET T : U # T => U \in Good
                 PROVE  SumFunctionOnSet(f, T) \in Nat
        OBVIOUS
    <2>1. CASE T = {}
        BY <2>1, SumEmpty
    <2>2. CASE T # {}
        <3>1. PICK x \in T : TRUE
            BY <2>2
        <3>2. T \ {x} \in Good /\ IsFiniteSet(T)
            BY FS_Subset
        <3>3. SumFunctionOnSet(f, T) = f[x] + SumFunctionOnSet(f, T \ {x})
            BY <3>2, SumRest
        <3>6. f[x] \in Nat
            OBVIOUS
        <3> QED
            BY <3>2, <3>3, <3>6
    <2> QED
        BY <2>1, <2>2
<1>2. \A T \in SUBSET S : T \in Good
    <2> HIDE DEF Good
    <2> QED
        BY <1>1, SubsetInduction
<1> QED
    BY <1>2

(* The sum over two disjoint sets is that of their sums.                    *)
LEMMA SumSplit ==
    ASSUME NEW S, IsFiniteSet(S), NEW T, IsFiniteSet(T), S \cap T = {},
           NEW f, \A x \in S \cup T : f[x] \in Int
    PROVE  SumFunctionOnSet(f, S \cup T) = SumFunctionOnSet(f, S) + SumFunctionOnSet(f, T)
<1> DEFINE Good == {U \in SUBSET T :
                      SumFunctionOnSet(f, S \cup U) = SumFunctionOnSet(f, S) + SumFunctionOnSet(f, U)}
<1>1. \A V \in SUBSET T : (\A U \in SUBSET V : U # V => U \in Good) => V \in Good
    <2> SUFFICES ASSUME NEW V \in SUBSET T, \A U \in SUBSET V : U # V => U \in Good
                 PROVE  SumFunctionOnSet(f, S \cup V) = SumFunctionOnSet(f, S) + SumFunctionOnSet(f, V)
        OBVIOUS
    <2>0. SumFunctionOnSet(f, S) \in Int
        BY SumInt
    <2>1. CASE V = {}
        BY <2>0, <2>1, SumEmpty
    <2>2. CASE V # {}
        <3>1. PICK x \in V : TRUE
            BY <2>2
        <3>2. V \ {x} \in Good /\ IsFiniteSet(V) /\ IsFiniteSet(V \ {x}) /\ IsFiniteSet(S \cup V)
            BY FS_Subset, FS_Union
        <3>3. SumFunctionOnSet(f, V) = f[x] + SumFunctionOnSet(f, V \ {x})
            BY <3>2, SumRest
        <3>4. SumFunctionOnSet(f, S \cup V) = f[x] + SumFunctionOnSet(f, (S \cup V) \ {x})
            BY <3>2, SumRest
        <3>5. (S \cup V) \ {x} = S \cup (V \ {x})
            OBVIOUS
        <3>6. SumFunctionOnSet(f, V \ {x}) \in Int
            BY <3>2, SumInt
        <3>7. f[x] \in Int
            OBVIOUS
        <3>8. SumFunctionOnSet(f, S \cup (V \ {x})) = SumFunctionOnSet(f, S) + SumFunctionOnSet(f, V \ {x})
            BY <3>2
        <3> QED
            BY <2>0, <3>3, <3>4, <3>5, <3>6, <3>7, <3>8
    <2> QED
        BY <2>1, <2>2
<1>2. \A V \in SUBSET T : V \in Good
    <2> HIDE DEF Good
    <2> QED
        BY <1>1, SubsetInduction
<1> QED
    BY <1>2

(* Changing the function at one element changes the sum by the difference.  *)
LEMMA SumChanged ==
    ASSUME NEW S, IsFiniteSet(S), NEW e \in S, NEW f, NEW g,
           \A x \in S : f[x] \in Int /\ g[x] \in Int,
           \A x \in S \ {e} : g[x] = f[x]
    PROVE  SumFunctionOnSet(g, S) = SumFunctionOnSet(f, S) - f[e] + g[e]
<1>1. IsFiniteSet(S \ {e})
    BY FS_Subset
<1>2. SumFunctionOnSet(g, S \ {e}) = SumFunctionOnSet(f, S \ {e})
    BY <1>1, SumSame
<1>3. SumFunctionOnSet(f, S) = f[e] + SumFunctionOnSet(f, S \ {e})
    BY SumRest
<1>4. SumFunctionOnSet(g, S) = g[e] + SumFunctionOnSet(g, S \ {e})
    BY SumRest
<1>5. SumFunctionOnSet(f, S \ {e}) \in Int
    BY <1>1, SumInt
<1> QED
    BY <1>2, <1>3, <1>4, <1>5

(* Renaming the elements one to one leaves the sum as it is.                *)
LEMMA SumRenamed ==
    ASSUME NEW S, IsFiniteSet(S), NEW f, NEW g, NEW b, \A x \in S : f[x] \in Int /\ g[b[x]] = f[x],
           \A x, y \in S : b[x] = b[y] => x = y
    PROVE  SumFunctionOnSet(g, {b[x] : x \in S}) = SumFunctionOnSet(f, S)
<1> DEFINE Good == {T \in SUBSET S :
                      SumFunctionOnSet(g, {b[x] : x \in T}) = SumFunctionOnSet(f, T)}
<1>1. \A T \in SUBSET S : (\A U \in SUBSET T : U # T => U \in Good) => T \in Good
    <2> SUFFICES ASSUME NEW T \in SUBSET S, \A U \in SUBSET T : U # T => U \in Good
                 PROVE  SumFunctionOnSet(g, {b[x] : x \in T}) = SumFunctionOnSet(f, T)
        OBVIOUS
    <2>1. CASE T = {}
        <3>1. {b[x] : x \in T} = {}
            BY <2>1
        <3> QED
            BY <2>1, <3>1, SumEmpty
    <2>2. CASE T # {}
        <3>1. PICK e \in T : TRUE
            BY <2>2
        <3>2. T \ {e} \in Good /\ IsFiniteSet(T)
            BY FS_Subset
        <3>3. IsFiniteSet({b[x] : x \in T})
            <4> DEFINE c == [x \in T |-> b[x]]
            <4>1. c \in Surjection(T, {b[x] : x \in T})
                BY DEF Surjection
            <4> QED
                BY <3>2, <4>1, FS_Surjection
        <3>4. {b[x] : x \in T} \ {b[e]} = {b[x] : x \in T \ {e}}
            OBVIOUS
        <3>5. SumFunctionOnSet(f, T) = f[e] + SumFunctionOnSet(f, T \ {e})
            BY <3>2, SumRest
        <3>6. \A y \in {b[x] : x \in T} : g[y] \in Int
            OBVIOUS
        <3>7. b[e] \in {b[x] : x \in T} /\ g[b[e]] = f[e]
            OBVIOUS
        <3>8. SumFunctionOnSet(g, {b[x] : x \in T})
                = g[b[e]] + SumFunctionOnSet(g, {b[x] : x \in T} \ {b[e]})
            BY <3>3, <3>6, <3>7, SumRest
        <3> QED
            BY <3>2, <3>4, <3>5, <3>7, <3>8
    <2> QED
        BY <2>1, <2>2
<1>2. \A T \in SUBSET S : T \in Good
    <2> HIDE DEF Good
    <2> QED
        BY <1>1, SubsetInduction
<1> QED
    BY <1>2

(* Zeros sum up to 0.                                                       *)
LEMMA SumZeros ==
    ASSUME NEW S, IsFiniteSet(S), NEW f, \A x \in S : f[x] = 0
    PROVE  SumFunctionOnSet(f, S) = 0
<1> DEFINE Good == {T \in SUBSET S : SumFunctionOnSet(f, T) = 0}
<1>1. \A T \in SUBSET S : (\A U \in SUBSET T : U # T => U \in Good) => T \in Good
    <2> SUFFICES ASSUME NEW T \in SUBSET S, \A U \in SUBSET T : U # T => U \in Good
                 PROVE  SumFunctionOnSet(f, T) = 0
        OBVIOUS
    <2>1. CASE T = {}
        BY <2>1, SumEmpty
    <2>2. CASE T # {}
        <3>1. PICK x \in T : TRUE
            BY <2>2
        <3>2. T \ {x} \in Good /\ IsFiniteSet(T) /\ \A y \in T : f[y] \in Int
            BY FS_Subset
        <3>3. SumFunctionOnSet(f, T) = f[x] + SumFunctionOnSet(f, T \ {x})
            BY <3>2, SumRest
        <3> QED
            BY <3>2, <3>3
    <2> QED
        BY <2>1, <2>2
<1>2. \A T \in SUBSET S : T \in Good
    <2> HIDE DEF Good
    <2> QED
        BY <1>1, SubsetInduction
<1> QED
    BY <1>2

(* Elements of value 0 do not count.                                        *)
LEMMA SumPadded ==
    ASSUME NEW T, IsFiniteSet(T), NEW S \in SUBSET T, NEW f,
           \A x \in S : f[x] \in Int, \A x \in T \ S : f[x] = 0
    PROVE  SumFunctionOnSet(f, T) = SumFunctionOnSet(f, S)
<1>1. IsFiniteSet(S) /\ IsFiniteSet(T \ S)
    BY FS_Subset
<1>2. T = S \cup (T \ S) /\ S \cap (T \ S) = {} /\ \A x \in S \cup (T \ S) : f[x] \in Int
    OBVIOUS
<1>3. SumFunctionOnSet(f, S \cup (T \ S)) = SumFunctionOnSet(f, S) + SumFunctionOnSet(f, T \ S)
    BY <1>1, <1>2, SumSplit
<1>4. SumFunctionOnSet(f, T \ S) = 0 /\ SumFunctionOnSet(f, S) \in Int
    BY <1>1, SumZeros, SumInt
<1>5. SumFunctionOnSet(f, S \cup (T \ S)) = SumFunctionOnSet(f, T)
    BY <1>2
<1> QED
    BY <1>3, <1>4, <1>5

(* A sum over one element.                                                  *)
LEMMA SumSingle ==
    ASSUME NEW f, NEW e, f[e] \in Int
    PROVE  SumFunctionOnSet(f, {e}) = f[e]
<1>1. IsFiniteSet({}) /\ e \notin {} /\ \A x \in {} \cup {e} : f[x] \in Int
    BY FS_EmptySet
<1>2. SumFunctionOnSet(f, {} \cup {e}) = f[e] + SumFunctionOnSet(f, {})
    BY <1>1, SumWith
<1>3. {} \cup {e} = {e}
    OBVIOUS
<1> QED
    BY <1>2, <1>3, SumEmpty

(* A common factor can be taken out of a sum.                               *)
LEMMA SumScaled ==
    ASSUME NEW S, IsFiniteSet(S), NEW f, NEW g, NEW c \in Int,
           \A x \in S : f[x] \in Int /\ g[x] = c * f[x]
    PROVE  SumFunctionOnSet(g, S) = c * SumFunctionOnSet(f, S)
<1> DEFINE Good == {T \in SUBSET S : SumFunctionOnSet(g, T) = c * SumFunctionOnSet(f, T)}
<1>1. \A T \in SUBSET S : (\A U \in SUBSET T : U # T => U \in Good) => T \in Good
    <2> SUFFICES ASSUME NEW T \in SUBSET S, \A U \in SUBSET T : U # T => U \in Good
                 PROVE  SumFunctionOnSet(g, T) = c * SumFunctionOnSet(f, T)
        OBVIOUS
    <2>1. CASE T = {}
        <3>1. SumFunctionOnSet(g, T) = 0 /\ SumFunctionOnSet(f, T) = 0
            BY <2>1, SumEmpty
        <3> QED
            BY <3>1
    <2>2. CASE T # {}
        <3>1. PICK e \in T : TRUE
            BY <2>2
        <3>2. IsFiniteSet(T) /\ IsFiniteSet(T \ {e})
            BY FS_Subset
        <3>3. SumFunctionOnSet(g, T \ {e}) = c * SumFunctionOnSet(f, T \ {e})
            <4>1. T \ {e} \in SUBSET T /\ T \ {e} # T
                BY <3>1
            <4> QED
                BY <4>1
        <3> DEFINE x == f[e]
                   y == SumFunctionOnSet(f, T \ {e})
        <3>4. x \in Int /\ g[e] = c * x
            OBVIOUS
        <3>5. y \in Int
            BY <3>2, SumInt
        <3>6. \A t \in T : f[t] \in Int /\ g[t] \in Int
            OBVIOUS
        <3>7. SumFunctionOnSet(f, T) = x + y
            BY <3>1, <3>2, <3>6, SumRest
        <3>8. SumFunctionOnSet(g, T) = g[e] + SumFunctionOnSet(g, T \ {e})
            BY <3>1, <3>2, <3>6, SumRest
        <3> HIDE DEF x, y
        <3>9. c * (x + y) = c * x + c * y
            BY <3>4, <3>5
        <3> QED
            BY <3>3, <3>4, <3>7, <3>8, <3>9 DEF y
    <2> QED
        BY <2>1, <2>2
<1> HIDE DEF Good
<1>2. \A T \in SUBSET S : T \in Good
    BY <1>1, SubsetInduction
<1> QED
    BY <1>2 DEF Good

(* Adding one to the value of each element of a part adds their number.     *)
LEMMA SumRaised ==
    ASSUME NEW S, IsFiniteSet(S), NEW f, NEW g, NEW R \in SUBSET S,
           \A x \in S : f[x] \in Int /\ g[x] = f[x] + (IF x \in R THEN 1 ELSE 0)
    PROVE  SumFunctionOnSet(g, S) = SumFunctionOnSet(f, S) + Cardinality(R)
<1> DEFINE Up(T) == [x \in S |-> f[x] + (IF x \in T THEN 1 ELSE 0)]
           Good == {T \in SUBSET R :
                      SumFunctionOnSet(Up(T), S) = SumFunctionOnSet(f, S) + Cardinality(T)}
<1>1. SumFunctionOnSet(f, S) \in Int
    BY SumInt
<1>2. \A T \in SUBSET S, x \in S : Up(T)[x] \in Int
    OBVIOUS
<1>3. \A T \in SUBSET R : (\A U \in SUBSET T : U # T => U \in Good) => T \in Good
    <2> SUFFICES ASSUME NEW T \in SUBSET R, \A U \in SUBSET T : U # T => U \in Good
                 PROVE  SumFunctionOnSet(Up(T), S) = SumFunctionOnSet(f, S) + Cardinality(T)
        OBVIOUS
    <2>1. CASE T = {}
        <3> DEFINE u == Up(T)
        <3>1. \A x \in S : f[x] \in Int /\ u[x] = f[x]
            BY <2>1
        <3> HIDE DEF u
        <3>2. SumFunctionOnSet(u, S) = SumFunctionOnSet(f, S)
            BY <3>1, SumSame
        <3>3. Cardinality(T) = 0
            BY <2>1, FS_EmptySet
        <3> QED
            BY <1>1, <3>2, <3>3 DEF u
    <2>2. CASE T # {}
        <3>1. PICK e \in T : TRUE
            BY <2>2
        <3> DEFINE U == T \ {e}
                   t == Up(T)
                   u == Up(U)
        <3>2. U \in Good
            OBVIOUS
        <3>3. IsFiniteSet(T) /\ Cardinality(U) = Cardinality(T) - 1 /\ Cardinality(T) \in Nat
            BY FS_Subset, FS_RemoveElement, FS_CardinalityType
        <3>4. e \in S /\ \A x \in S : u[x] \in Int /\ t[x] \in Int
            OBVIOUS
        <3>5. \A x \in S \ {e} : t[x] = u[x]
            OBVIOUS
        <3>6. u[e] = f[e] /\ t[e] = f[e] + 1 /\ f[e] \in Int
            BY <3>4
        <3>7. SumFunctionOnSet(u, S) = SumFunctionOnSet(f, S) + Cardinality(U)
            BY <3>2
        <3> HIDE DEF u, t, U
        <3>8. SumFunctionOnSet(t, S) = SumFunctionOnSet(u, S) - u[e] + t[e]
            BY <3>4, <3>5, SumChanged
        <3>9. SumFunctionOnSet(t, S) = SumFunctionOnSet(f, S) + Cardinality(T)
            BY <1>1, <3>3, <3>6, <3>7, <3>8
        <3> QED
            BY <3>9 DEF t
    <2> QED
        BY <2>1, <2>2
<1>4. R \in Good
    <2>1. IsFiniteSet(R)
        BY FS_Subset
    <2> HIDE DEF Good
    <2> QED
        BY <1>3, <2>1, SubsetInduction
<1> DEFINE u == Up(R)
<1>5. \A x \in S : u[x] \in Int /\ g[x] = u[x]
    OBVIOUS
<1>6. SumFunctionOnSet(u, S) = SumFunctionOnSet(f, S) + Cardinality(R)
    BY <1>4
<1> HIDE DEF u
<1>7. SumFunctionOnSet(g, S) = SumFunctionOnSet(u, S)
    BY <1>5, SumSame
<1> QED
    BY <1>6, <1>7

(* A sum of numbers that are at most c is at most c for each of them.       *)
LEMMA SumBounded ==
    ASSUME NEW S, IsFiniteSet(S), NEW f, NEW c \in Int, \A x \in S : f[x] \in Int /\ f[x] <= c
    PROVE  SumFunctionOnSet(f, S) <= c * Cardinality(S)
<1> DEFINE zeros == [x \in S |-> 0]
           ones == [x \in S |-> 1]
           most == [x \in S |-> c]
<1>1. SumFunctionOnSet(ones, S) = SumFunctionOnSet(zeros, S) + Cardinality(S)
    <2>1. \A x \in S : zeros[x] \in Int /\ ones[x] = zeros[x] + (IF x \in S THEN 1 ELSE 0)
        OBVIOUS
    <2> HIDE DEF zeros, ones
    <2> QED
        BY <2>1, SumRaised
<1>2. SumFunctionOnSet(zeros, S) = 0
    BY SumZeros
<1>3. Cardinality(S) \in Nat
    BY FS_CardinalityType
<1>4. SumFunctionOnSet(ones, S) = Cardinality(S)
    BY <1>1, <1>2, <1>3
<1>5. SumFunctionOnSet(most, S) = c * SumFunctionOnSet(ones, S)
    <2>1. \A x \in S : ones[x] \in Int /\ most[x] = c * ones[x]
        OBVIOUS
    <2> HIDE DEF ones, most
    <2> QED
        BY <2>1, SumScaled
<1>6. SumFunctionOnSet(f, S) <= SumFunctionOnSet(most, S)
    <2>1. \A x \in S : most[x] \in Int /\ f[x] <= most[x]
        OBVIOUS
    <2> HIDE DEF most
    <2> QED
        BY <2>1, SumOrdered
<1> HIDE DEF zeros, ones, most
<1> QED
    BY <1>4, <1>5, <1>6

(* What holds of every number up to m as soon as it holds of the smaller    *)
(* ones holds of all.                                                       *)
LEMMA UpTo ==
    ASSUME NEW m \in Nat, NEW Good,
           \A n \in 1..m : (\A k \in 1..m : k < n => k \in Good) => n \in Good
    PROVE  \A n \in 1..m : n \in Good
<1> DEFINE Bad == {n \in 1..m : n \notin Good}
<1>1. ASSUME Bad # {} PROVE FALSE
    <2>1. Bad \subseteq Nat
        OBVIOUS
    <2>2. \E x \in Bad : \A y \in Bad : ~(<<y, x>> \in OpToRel(<, Nat))
        <3> HIDE DEF Bad
        <3> QED
            BY <1>1, <2>1, NatLessThanWellFounded, WFMin
    <2>3. PICK x \in Bad : \A y \in Bad : ~(<<y, x>> \in OpToRel(<, Nat))
        BY <2>2
    <2>4. \A y \in Bad : ~(y < x)
        BY <2>1, <2>3 DEF OpToRel
    <2> QED
        BY <2>4
<1> QED
    BY <1>1

=============================================================================
