------------------------------ MODULE MemoryCache ------------------------------
(***************************************************************************)
(* MemoryCache (src/src/cache/cache.cpp): a map with a limit on the bytes  *)
(* it accounts for, entries that expire, and five ways to choose the entry *)
(* to evict.                                                               *)
(*                                                                         *)
(* Every operation is one section under the mutex.  The two that loop, set *)
(* (over evict_one) and cleanup_expired, take a step per round, so that    *)
(* what happens between the rounds (time passes, set_strategy is called:   *)
(* neither needs the mutex) is part of the model.                          *)
(***************************************************************************)
EXTENDS Integers, Sequences, FiniteSets, FiniteSetsExt

CONSTANTS
    Keys,         \* keys
    EmptyKey,     \* the empty string, which evict_one takes for "no key"
    Values,       \* values
    Size(_, _),   \* bytes of a key with a value
    Ttls,         \* times to live that callers pass, in ticks
    MaxBytes,     \* max_memory_bytes_
    MaxHits,      \* accesses of an entry are counted up to this bound
    MaxNodes,     \* bound on the length of access_order_
    None          \* no value

Strategies == {"LRU", "LFU", "FIFO", "RANDOM", "TTL_ONLY"}

ASSUME ConstantsAssumption ==
    /\ Keys # {} /\ IsFiniteSet(Keys)
    /\ Ttls \subseteq Nat
    /\ MaxBytes \in Nat /\ MaxHits \in Nat /\ MaxNodes \in Nat
    /\ \A k \in Keys, v \in Values : Size(k, v) \in Nat
    /\ None \notin Values

VARIABLES
    entries,   \* entries_: key -> entry; none when the value is None
    bytes,     \* current_memory_bytes_
    list,      \* access_order_ with the index of each key's node in it
    strategy,  \* strategy_
    pc,        \* the operation that holds the mutex
    todo,      \* keys cleanup_expired has not visited yet
    leaked,    \* history: bytes of the entries that get erased
    switched   \* history: set_strategy has been called

vars == <<entries, bytes, list, strategy, pc, todo, leaked, switched>>

(* left is the number of seconds until expires_at_, -1 when that has passed. *)
Entry == [value : Values \cup {None}, left : Int, hits : 0..MaxHits]

Vacant == [value |-> None, left |-> 0, hits |-> 0]

Live == {k \in Keys : entries[k].value # None}

Expired(k) == entries[k].left < 0

SizeOf(k) == IF k \in Live THEN Size(k, entries[k].value) ELSE 0

(* The definitions named ..._Faulty are variants with one mistake in them;  *)
(* no action uses them.  Each shows that a property notices that mistake.   *)
Ordered == strategy \in {"LRU", "FIFO"}

-------------------------------------------------------------------------------
(* access_order_ (front first) and access_order_index_: at[k] is the        *)
(* position of the node the index has for k, 0 when it has none.  A key may *)
(* have older nodes, which no index entry reaches.                          *)
EmptyList == [order |-> <<>>, at |-> [k \in Keys |-> 0]]

PushFront(l, k) ==
    [order |-> <<k>> \o l.order,
     at |-> [j \in Keys |-> IF j = k THEN 1 ELSE IF l.at[j] = 0 THEN 0 ELSE l.at[j] + 1]]

(* Erase the node the index has for k, and the index entry. *)
Unlink(l, k) ==
    LET p == l.at[k]
    IN IF p = 0
       THEN l
       ELSE [order |-> [i \in 1..(Len(l.order) - 1) |->
                            IF i < p THEN l.order[i] ELSE l.order[i + 1]],
             at |-> [j \in Keys |-> IF j = k THEN 0
                                    ELSE IF l.at[j] > p THEN l.at[j] - 1 ELSE l.at[j]]]

(* Erase the last node, and the index entry of its key wherever that points. *)
PopBack(l) ==
    [order |-> SubSeq(l.order, 1, Len(l.order) - 1),
     at |-> [l.at EXCEPT ![l.order[Len(l.order)]] = 0]]

Init ==
    /\ entries = [k \in Keys |-> Vacant]
    /\ bytes = 0
    /\ list = EmptyList
    /\ strategy \in Strategies
    /\ pc = "idle"
    /\ todo = {}
    /\ leaked = 0
    /\ switched = FALSE

-------------------------------------------------------------------------------
(* A hit counts the access and, under LRU, moves the key to the front. *)
GetHit(k) ==
    /\ pc = "idle"
    /\ k \in Live /\ ~Expired(k)
    /\ entries' = [entries EXCEPT ![k].hits = IF @ < MaxHits THEN @ + 1 ELSE @]
    /\ list' = IF strategy = "LRU" THEN PushFront(Unlink(list, k), k) ELSE list
    /\ Len(list'.order) <= MaxNodes
    /\ UNCHANGED <<bytes, strategy, pc, todo, leaked, switched>>

GetExpired_Faulty(k) ==
    /\ pc = "idle"
    /\ k \in Live /\ Expired(k)
    /\ entries' = [entries EXCEPT ![k].left = 0]
    /\ UNCHANGED <<bytes, list, strategy, pc, todo, leaked, switched>>

(* An expired entry is erased; its bytes and its node in the order stay. *)
GetExpired(k) ==
    /\ pc = "idle"
    /\ k \in Live /\ Expired(k)
    /\ entries' = [entries EXCEPT ![k] = Vacant]
    /\ leaked' = leaked + SizeOf(k)
    /\ UNCHANGED <<bytes, list, strategy, pc, todo, switched>>

(* The strategies under which set keeps the order. *)
Tracked_Faulty == strategy = "LRU"

Tracked == Ordered

(* The part of set before evict_if_needed. *)
Set(k, v, ttl) ==
    /\ pc = "idle"
    /\ Len(list.order) < MaxNodes
    /\ entries' = [entries EXCEPT ![k] = [value |-> v, left |-> ttl, hits |-> 0]]
    /\ bytes' = bytes - SizeOf(k) + Size(k, v)
    /\ list' = IF Tracked THEN PushFront(list, k) ELSE list
    /\ pc' = "evicting"
    /\ UNCHANGED <<strategy, todo, leaked, switched>>

Over == bytes > MaxBytes /\ Live # {}

Victims_Faulty ==
    CASE Ordered -> IF list.order = <<>> THEN {} ELSE {list.order[Len(list.order)]}
      [] strategy = "LFU" ->
             {k \in Live : \A j \in Live \ {k} : entries[k].hits < entries[j].hits}
      [] strategy = "RANDOM" -> Live
      [] strategy = "TTL_ONLY" ->
             {k \in Live : \A j \in Live : entries[k].left <= entries[j].left}

(* The keys evict_one may choose; ties are broken by the order of the map. *)
Victims ==
    CASE Ordered -> IF list.order = <<>> THEN {} ELSE {list.order[Len(list.order)]}
      [] strategy = "LFU" ->
             {k \in Live : \A j \in Live : entries[k].hits <= entries[j].hits}
      [] strategy = "RANDOM" -> Live
      [] strategy = "TTL_ONLY" ->
             {k \in Live : \A j \in Live : entries[k].left <= entries[j].left}

Erase_Faulty(k) ==
    /\ entries' = [entries EXCEPT ![k] = Vacant]
    /\ bytes' = bytes

(* Erase an entry and give its bytes back. *)
Erase(k) ==
    /\ entries' = [entries EXCEPT ![k] = Vacant]
    /\ bytes' = bytes - SizeOf(k)

EvictOne ==
    /\ pc = "evicting" /\ Over
    /\ \E k \in Victims :
          /\ IF k \in Live \ {EmptyKey} THEN Erase(k) ELSE UNCHANGED <<entries, bytes>>
          /\ list' = IF Ordered THEN PopBack(list) ELSE list
    /\ UNCHANGED <<strategy, pc, todo, leaked, switched>>

EvictDone ==
    /\ pc = "evicting" /\ ~Over
    /\ pc' = "idle"
    /\ UNCHANGED <<entries, bytes, list, strategy, todo, leaked, switched>>

Del(k) ==
    /\ pc = "idle"
    /\ k \in Live
    /\ Erase(k)
    /\ list' = Unlink(list, k)
    /\ UNCHANGED <<strategy, pc, todo, leaked, switched>>

Clear ==
    /\ pc = "idle"
    /\ entries' = [k \in Keys |-> Vacant]
    /\ bytes' = 0
    /\ list' = EmptyList
    /\ leaked' = 0
    /\ UNCHANGED <<strategy, pc, todo, switched>>

CleanupExpired ==
    /\ pc = "idle"
    /\ Live # {}
    /\ todo' = Live
    /\ pc' = "cleaning"
    /\ UNCHANGED <<entries, bytes, list, strategy, leaked, switched>>

CleanOne(k) ==
    /\ pc = "cleaning" /\ k \in todo
    /\ todo' = todo \ {k}
    /\ IF Expired(k)
       THEN Erase(k) /\ list' = Unlink(list, k)
       ELSE UNCHANGED <<entries, bytes, list>>
    /\ UNCHANGED <<strategy, pc, leaked, switched>>

CleanDone ==
    /\ pc = "cleaning" /\ todo = {}
    /\ pc' = "idle"
    /\ UNCHANGED <<entries, bytes, list, strategy, todo, leaked, switched>>

(* set_strategy takes no mutex and leaves the order as it is. *)
SetStrategy(s) ==
    /\ s # strategy
    /\ strategy' = s
    /\ switched' = TRUE
    /\ UNCHANGED <<entries, bytes, list, pc, todo, leaked>>

(* A second passes. *)
Tick ==
    /\ \E k \in Live : ~Expired(k)
    /\ entries' = [k \in Keys |-> IF k \in Live /\ ~Expired(k)
                                  THEN [entries[k] EXCEPT !.left = @ - 1]
                                  ELSE entries[k]]
    /\ UNCHANGED <<bytes, list, strategy, pc, todo, leaked, switched>>

Next ==
    \/ \E k \in Keys : GetHit(k)
    \/ \E k \in Keys : GetExpired(k)
    \/ \E k \in Keys, v \in Values, ttl \in Ttls : Set(k, v, ttl)
    \/ EvictOne
    \/ EvictDone
    \/ \E k \in Keys : Del(k)
    \/ Clear
    \/ CleanupExpired
    \/ \E k \in Keys : CleanOne(k)
    \/ CleanDone
    \/ \E s \in Strategies : SetStrategy(s)
    \/ Tick

(* The thread that holds the mutex keeps running.  Of a random victim it is *)
(* assumed that it is not the same key for ever.                            *)
Fairness == WF_vars(EvictOne) /\ WF_vars(EvictDone)

Spec == Init /\ [][Next]_vars /\ Fairness

-------------------------------------------------------------------------------
(* Every variable has its type. *)
TypeOK ==
    /\ entries \in [Keys -> Entry]
    /\ bytes \in Int
    /\ list.order \in Seq(Keys)
    /\ list.at \in [Keys -> 0..Len(list.order)]
    /\ strategy \in Strategies
    /\ pc \in {"idle", "evicting", "cleaning"}
    /\ todo \subseteq Keys
    /\ leaked \in Nat
    /\ switched \in BOOLEAN

(* The bytes accounted for are those of the entries and of the expired      *)
(* entries that get erased: set, del, cleanup and eviction give back what   *)
(* they take, whatever replaced an entry in between.                        *)
BytesAccounted == bytes = SumFunction([k \in Keys |-> SizeOf(k)]) + leaked

(* A call that has returned leaves the cache within its limit or empty: set *)
(* must not return over the limit with something left to evict.             *)
WithinLimit == pc # "evicting" => bytes <= MaxBytes \/ Live = {}

(* The index never has a node of another key, whatever was erased from the  *)
(* middle or popped from the end; a node it lost would free another key's.  *)
IndexReachesOwnNode == \A k \in Keys : list.at[k] # 0 => list.order[list.at[k]] = k

(* While the strategy has not been changed, an ordered cache finds every    *)
(* entry in its order, but for the empty key: without it evict_one has      *)
(* nothing to evict while the loop of evict_if_needed goes on.              *)
OrderCoversEntries ==
    Ordered /\ ~switched => \A k \in Live \ {EmptyKey} : list.at[k] # 0

(* The loop of evict_if_needed goes round without changing anything. *)
Stuck ==
    /\ pc = "evicting" /\ Over
    /\ CASE Ordered -> list.order = <<>>
         [] strategy = "RANDOM" -> Live = {EmptyKey}
         [] OTHER -> EmptyKey \in Victims

(* set hangs with the mutex held only if the strategy was changed or the    *)
(* empty key is in the cache.                                               *)
HangNeedsCause == Stuck => switched \/ EmptyKey \in Live

(* set returns, unless its loop is stuck. *)
EvictionEnds == pc = "evicting" ~> pc = "idle" \/ Stuck

(* A reader sees the value last set for the key or none, and once that has  *)
(* expired or was evicted, nothing until the next set.                      *)
Lossy == INSTANCE LossyMap WITH
    store <- [k \in Keys |-> IF k \in Live /\ ~Expired(k) THEN entries[k].value ELSE None],
    writing <- pc = "evicting"

LossySpec == Lossy!Spec

===============================================================================
