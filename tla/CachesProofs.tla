----------------------------- MODULE CachesProofs ------------------------------
(***************************************************************************)
(* Proofs about TieredCache, for every set of threads, keys and values,    *)
(* and about MemoryCache, for all keys, values and sizes and every limit.  *)
(*                                                                         *)
(* LockExclusive follows from HolderMadeEntry, which is inductive.         *)
(* NeverStale needs to know which operations overlap: a write that ran     *)
(* alone shares no key with another operation, and a key that a write and  *)
(* another operation share is among the mixed ones.                        *)
(*                                                                         *)
(* HangNeedsCause rests on the order of keys and its index: the index      *)
(* never has a node of another key, so that popping the last node can only *)
(* take the index entry of the key that gets erased, and every entry stays *)
(* in the order.  BytesAccounted is a sum over the keys, of which every    *)
(* operation changes one at a time; what the eviction loop and the cleanup *)
(* have still to visit are entries there are.                              *)
(***************************************************************************)
EXTENDS MemoryCache, TieredCache, SequenceTheorems, Sums

-------------------------------------------------------------------------------
(* The lock.                                                               *)
LockTypes ==
    /\ lock \in [state : {"none", "fresh", "expired"}, by : CacheThreads \cup {Nobody}]
    /\ acquired \in [CacheThreads -> BOOLEAN]
    /\ pried \in BOOLEAN

LockInv == LockTypes /\ HolderMadeEntry

LEMMA LockStarts == InitTiers => LockInv
<1> SUFFICES ASSUME InitTiers PROVE LockInv
    OBVIOUS
<1>1. lock = NoLock /\ acquired = [t \in CacheThreads |-> FALSE] /\ pried = FALSE
    BY DEF InitTiers
<1> QED
    BY <1>1 DEF LockInv, LockTypes, HolderMadeEntry, NoLock

LEMMA TryAcquireKeepsLock ==
    ASSUME LockInv, NEW t \in CacheThreads, TryAcquire(t)
    PROVE  LockInv'
<1>1. CASE Grants
    <2>1. lock.state = "none"
        BY <1>1 DEF Grants, NoLock
    <2>2. lock' = [state |-> "fresh", by |-> t] /\ acquired' = [acquired EXCEPT ![t] = TRUE]
        BY <1>1 DEF TryAcquire
    <2> QED
        BY <2>1, <2>2 DEF TryAcquire, LockInv, LockTypes, HolderMadeEntry
<1>2. CASE ~Grants
    <2>1. lock' = lock /\ acquired' = [acquired EXCEPT ![t] = FALSE]
        BY <1>2 DEF TryAcquire, Grants
    <2> QED
        BY <2>1 DEF TryAcquire, LockInv, LockTypes, HolderMadeEntry
<1> QED
    BY <1>1, <1>2

LEMMA ReleaseKeepsLock ==
    ASSUME LockInv, NEW t \in CacheThreads, Release(t)
    PROVE  LockInv'
<1>1. LockTypes'
    BY TiersAssumption DEF Release, LockInv, LockTypes, NoLock
<1>2. HolderMadeEntry'
    <2> SUFFICES ASSUME ~pried', NEW u \in CacheThreads, acquired'[u]
                 PROVE  lock'.state # "none" /\ lock'.by = u
        BY DEF HolderMadeEntry
    <2>1. ~pried /\ u # t /\ acquired[u]
        BY DEF Release, LockInv, LockTypes
    <2>2. lock.state # "none" /\ lock.by = u
        BY <2>1 DEF LockInv, HolderMadeEntry
    <2>3. lock # NoLock
        BY <2>2 DEF NoLock
    <2>4. ~connected
        BY <2>1, <2>2, <2>3 DEF Release
    <2> QED
        BY <2>2, <2>4 DEF Release
<1> QED
    BY <1>1, <1>2 DEF LockInv

LEMMA NextKeepsLock == LockInv /\ [NextTiers]_tierVars => LockInv'
<1> SUFFICES ASSUME LockInv, [NextTiers]_tierVars PROVE LockInv'
    OBVIOUS
<1>1. CASE UNCHANGED locks
    BY <1>1 DEF locks, LockInv, LockTypes, HolderMadeEntry
<1>2. ASSUME NEW t \in CacheThreads, WriteRedis(t) PROVE LockInv'
    <2>1. acquired' = acquired
        BY <1>2 DEF WriteRedis
    <2>2. CASE lock' = NoLock /\ pried' = TRUE
        BY <2>1, <2>2 DEF LockInv, LockTypes, HolderMadeEntry, NoLock
    <2>3. CASE UNCHANGED <<lock, pried>>
        BY <2>1, <2>3 DEF LockInv, LockTypes, HolderMadeEntry
    <2> QED
        BY <1>2, <2>2, <2>3 DEF WriteRedis
<1>3. CASE Reinit
    BY <1>3, TiersAssumption DEF Reinit, LockInv, LockTypes, HolderMadeEntry, NoLock
<1>4. CASE ExpireLock
    BY <1>4 DEF ExpireLock, LockInv, LockTypes, HolderMadeEntry
<1>5. CASE LookUpLock
    BY <1>5, TiersAssumption DEF LookUpLock, LockInv, LockTypes, HolderMadeEntry, NoLock
<1>6. CASE UNCHANGED tierVars
    BY <1>1, <1>6 DEF tierVars
<1>7. CASE NextTiers
    <2>1. ASSUME NEW t \in CacheThreads,
                 \/ \E k \in TierKeys : GetMiss(t, k)
                 \/ GetRedis(t)
                 \/ Promote(t)
                 \/ \E k \in TierKeys, v \in TierValues : SetMem(t, k, v)
                 \/ \E k \in TierKeys : DelMem(t, "del", {k})
                 \/ DelMem(t, "clear", TierKeys)
          PROVE  UNCHANGED locks
        BY <2>1 DEF GetMiss, GetRedis, Promote, SetMem, DelMem
    <2>2. \/ LoseMem
          \/ \E k \in TierKeys : ExpireRedis(k)
          \/ \E k \in TierKeys : Expire(k)
          \/ Connect
          \/ Disconnect
          => UNCHANGED locks
        BY DEF LoseMem, ExpireRedis, Expire, Connect, Disconnect
    <2> QED
        BY <1>1, <1>2, <1>3, <1>4, <1>5, <1>7, <2>1, <2>2,
           TryAcquireKeepsLock, ReleaseKeepsLock DEF NextTiers
<1> QED
    BY <1>6, <1>7

(* At most one thread has a CacheLock that has acquired, until an entry is  *)
(* erased by another than its maker; release() erases whatever entry there  *)
(* is, on a CacheLock that has acquired or not.                             *)
THEOREM LockIsExclusive == SpecTiers => []LockExclusive
<1>1. LockInv => LockExclusive
    BY DEF LockInv, HolderMadeEntry, LockExclusive
<1> QED
    BY <1>1, LockStarts, NextKeepsLock, PTL DEF SpecTiers

-------------------------------------------------------------------------------
(* The values.                                                             *)
Calls ==
    [op : {"none", "get", "promote"} \cup Writes, keys : SUBSET TierKeys,
     val : TierValues \cup {Absent}, alone : BOOLEAN]

ValueTypes ==
    /\ mem \in Memory!Contents
    /\ redis \in Memory!Contents
    /\ latest \in Memory!Contents
    /\ stale \subseteq TierKeys
    /\ mixed \subseteq TierKeys
    /\ connected \in BOOLEAN
    /\ pend \in [CacheThreads -> Calls]

(* A read has one key; operations that share a key, one of them a write.    *)
SharedKeys ==
    /\ \A t \in CacheThreads : pend[t].op \in {"get", "promote"} =>
           \E k \in TierKeys : pend[t].keys = {k}
    /\ \A t, u \in CacheThreads :
           t # u /\ pend[t].op \in Writes =>
               /\ pend[t].alone => pend[t].keys \cap pend[u].keys = {}
               /\ pend[t].keys \cap pend[u].keys \subseteq mixed

(* What the tiers hold, and what the operations in progress will put there. *)
Newest(k, v) == v \in {latest[k], Absent}

Fresh ==
    /\ \A k \in TierKeys \ mixed : Newest(k, mem[k])
    /\ \A k \in TierKeys \ mixed : ~Writing(k) => Newest(k, redis[k])
    /\ \A t \in CacheThreads : \A k \in pend[t].keys :
           pend[t].op \in Writes /\ (pend[t].alone \/ k \notin mixed) =>
               pend[t].val = latest[k] /\ Newest(k, mem[k])
    /\ \A t \in CacheThreads : \A k \in pend[t].keys \ mixed :
           pend[t].op = "promote" => Newest(k, pend[t].val)

ValueInv == ValueTypes /\ SharedKeys /\ Fresh

LEMMA ValuesStart == InitTiers => ValueInv
<1> SUFFICES ASSUME InitTiers PROVE ValueInv
    OBVIOUS
<1>1. /\ mem = [k \in TierKeys |-> Absent] /\ redis = [k \in TierKeys |-> Absent]
      /\ latest = [k \in TierKeys |-> Absent]
      /\ stale = {} /\ mixed = {} /\ connected = TRUE
      /\ pend = [t \in CacheThreads |-> Idle]
    BY DEF InitTiers, Memory!Init
<1>2. Idle \in Calls
    BY DEF Idle, Calls
<1>3. /\ Idle.keys = {} /\ Idle.op \notin Writes \cup {"get", "promote"}
    BY DEF Idle, Writes
<1>4. ValueTypes
    BY <1>1, <1>2 DEF ValueTypes, Memory!Contents
<1>5. SharedKeys
    BY <1>1, <1>3 DEF SharedKeys
<1>6. Fresh
    BY <1>1, <1>3 DEF Fresh, Newest
<1> QED
    BY <1>4, <1>5, <1>6 DEF ValueInv

LEMMA Ops ==
    /\ Writes = {"set", "del", "clear"}
    /\ Idle.keys = {} /\ Idle.op = "none" /\ "none" \notin Writes
    /\ Idle \in Calls
    BY DEF Writes, Idle, Calls

(* What starting an operation does to the notes about who shares a key.     *)
Started(t, op, ks, v) ==
    /\ SharedKeys'
    /\ pend' \in [CacheThreads -> Calls]
    /\ mixed \subseteq mixed' /\ mixed' \subseteq TierKeys
    /\ pend'[t].op = op /\ pend'[t].keys = ks /\ pend'[t].val = v
    /\ \A u \in CacheThreads \ {t} :
           /\ pend'[u].op = pend[u].op /\ pend'[u].keys = pend[u].keys
           /\ pend'[u].val = pend[u].val
           /\ pend'[u].alone => pend[u].alone
           /\ op \in Writes \/ pend[u].op \in Writes =>
                 /\ pend[u].keys \cap ks \subseteq mixed'
                 /\ pend'[u].alone => pend[u].keys \cap ks = {}

LEMMA GoOnKeepsShared ==
    ASSUME ValueInv, NEW t \in CacheThreads, pend[t] = Idle,
           NEW op \in {"get"} \cup Writes, NEW ks \in SUBSET TierKeys,
           NEW v \in TierValues \cup {Absent},
           op = "get" => \E k \in TierKeys : ks = {k},
           GoOn(t, op, ks, v)
    PROVE  Started(t, op, ks, v)
<1> DEFINE others == Overlapping(t, op, ks)
<1>1. /\ pend' = [u \in CacheThreads |->
                     IF u = t
                     THEN [op |-> op, keys |-> ks, val |-> v, alone |-> others = {}]
                     ELSE [pend[u] EXCEPT !.alone = @ /\ u \notin others]]
      /\ mixed' = mixed \cup (ks \cap UNION {pend[u].keys : u \in others})
    BY DEF GoOn
<1>2. \A u \in CacheThreads \ {t} :
          u \in others <=> /\ pend[u].keys \cap ks # {}
                           /\ op \in Writes \/ pend[u].op \in Writes
    BY DEF Overlapping
<1>3. others \subseteq CacheThreads \ {t}
    BY DEF Overlapping
<1>4. \A u \in CacheThreads :
          pend[u] \in Calls
    BY DEF ValueInv, ValueTypes
<1> HIDE DEF others
<1>5. /\ pend'[t] = [op |-> op, keys |-> ks, val |-> v, alone |-> others = {}]
      /\ \A u \in CacheThreads \ {t} :
             pend'[u] = [pend[u] EXCEPT !.alone = @ /\ u \notin others]
    BY <1>1
<1>6. /\ pend'[t].op = op /\ pend'[t].keys = ks /\ pend'[t].val = v
      /\ pend'[t].alone = (others = {})
    BY <1>5
<1>7. \A u \in CacheThreads \ {t} :
          /\ pend'[u].op = pend[u].op /\ pend'[u].keys = pend[u].keys
          /\ pend'[u].val = pend[u].val
          /\ pend'[u].alone = (pend[u].alone /\ u \notin others)
    BY <1>4, <1>5 DEF Calls
<1>8. pend' \in [CacheThreads -> Calls]
    <2>1. [op |-> op, keys |-> ks, val |-> v, alone |-> others = {}]
              \in Calls
        BY DEF Calls
    <2>2. \A u \in CacheThreads : [pend[u] EXCEPT !.alone = @ /\ u \notin others]
              \in Calls
        BY <1>4 DEF Calls
    <2> QED
        BY <1>1, <2>1, <2>2
<1>9. mixed \subseteq mixed' /\ mixed' \subseteq TierKeys
    BY <1>1 DEF ValueInv, ValueTypes
<1>10. \A u \in others : pend[u].keys \cap ks \subseteq mixed'
    BY <1>1
<1>11. ASSUME NEW u \in CacheThreads \ {t}, op \in Writes \/ pend[u].op \in Writes
       PROVE  /\ pend[u].keys \cap ks \subseteq mixed'
              /\ pend'[u].alone => pend[u].keys \cap ks = {}
    BY <1>2, <1>7, <1>10, <1>11
<1>12. SharedKeys'
    <2>1. ASSUME NEW u \in CacheThreads, pend'[u].op \in {"get", "promote"}
          PROVE  \E k \in TierKeys : pend'[u].keys = {k}
        <3>1. CASE u = t
            <4>1. op = "get"
                BY <1>6, <2>1, <3>1, Ops
            <4> QED
                BY <1>6, <3>1, <4>1
        <3>2. CASE u # t
            BY <1>7, <2>1, <3>2 DEF ValueInv, SharedKeys
        <3> QED
            BY <3>1, <3>2
    <2>2. ASSUME NEW u \in CacheThreads, NEW x \in CacheThreads, u # x, pend'[u].op \in Writes
          PROVE  /\ pend'[u].alone => pend'[u].keys \cap pend'[x].keys = {}
                 /\ pend'[u].keys \cap pend'[x].keys \subseteq mixed'
        <3>1. CASE u = t
            <4>1. op \in Writes /\ x # t
                BY <1>6, <2>2, <3>1
            <4>2. pend[x].keys \cap ks \subseteq mixed'
                BY <1>11, <4>1
            <4>3. others = {} => pend[x].keys \cap ks = {}
                BY <1>2, <4>1
            <4> QED
                BY <1>6, <1>7, <3>1, <4>1, <4>2, <4>3
        <3>2. CASE x = t
            BY <1>6, <1>7, <1>11, <2>2, <3>2
        <3>3. CASE u # t /\ x # t
            BY <1>7, <1>9, <2>2, <3>3 DEF ValueInv, SharedKeys
        <3> QED
            BY <3>1, <3>2, <3>3
    <2> QED
        BY <2>1, <2>2 DEF SharedKeys
<1> QED
    BY <1>6, <1>7, <1>8, <1>9, <1>11, <1>12 DEF Started

(* Contents that may have lost values. *)
LEMMA LossStaysNewest ==
    ASSUME NEW k, NEW v, NEW w, Newest(k, v), w \in {v, Absent}
    PROVE  Newest(k, w)
    BY DEF Newest

LEMMA ReadKeepsValues ==
    ASSUME ValueInv, NEW t \in CacheThreads, NEW k \in TierKeys, GetMiss(t, k)
    PROVE  ValueInv'
<1>1. /\ pend[t] = Idle /\ GoOn(t, "get", {k}, Absent)
      /\ UNCHANGED <<mem, redis, stale, connected, latest>>
    BY DEF GetMiss, tiers
<1>2. \E j \in TierKeys : {k} = {j}
    OBVIOUS
<1>3. /\ SharedKeys'
      /\ pend' \in [CacheThreads -> Calls]
      /\ mixed \subseteq mixed' /\ mixed' \subseteq TierKeys
      /\ pend'[t].op = "get"
      /\ \A u \in CacheThreads \ {t} :
             /\ pend'[u].op = pend[u].op /\ pend'[u].keys = pend[u].keys
             /\ pend'[u].val = pend[u].val
             /\ pend'[u].alone => pend[u].alone
    <2>1. Started(t, "get", {k}, Absent)
        BY <1>1, <1>2, GoOnKeepsShared
    <2> QED
        BY <2>1 DEF Started
<1>4. ValueTypes'
    BY <1>1, <1>3 DEF ValueInv, ValueTypes
<1>5. \A j \in TierKeys : Writing(j) => Writing(j)'
    BY <1>1, <1>3, Ops DEF Writing
<1>6. "get" \notin Writes
    BY Ops
<1>7. Fresh'
    <2>1. \A j \in TierKeys \ mixed' : Newest(j, mem[j])'
        BY <1>1, <1>3 DEF ValueInv, Fresh, Newest
    <2>2. \A j \in TierKeys \ mixed' : ~Writing(j)' => Newest(j, redis[j])'
        BY <1>1, <1>3, <1>5 DEF ValueInv, Fresh, Newest
    <2>3. ASSUME NEW u \in CacheThreads, NEW j \in pend'[u].keys,
                 pend'[u].op \in Writes, pend'[u].alone \/ j \notin mixed'
          PROVE  pend'[u].val = latest'[j] /\ Newest(j, mem[j])'
        <3>1. u # t
            BY <1>3, <1>6, <2>3
        <3> QED
            BY <1>1, <1>3, <2>3, <3>1 DEF ValueInv, Fresh, Newest
    <2>4. ASSUME NEW u \in CacheThreads, NEW j \in pend'[u].keys \ mixed',
                 pend'[u].op = "promote"
          PROVE  Newest(j, pend[u].val)'
        <3>1. u # t
            BY <1>3, <2>4
        <3> QED
            BY <1>1, <1>3, <2>4, <3>1 DEF ValueInv, Fresh, Newest
    <2> QED
        BY <2>1, <2>2, <2>3, <2>4 DEF Fresh
<1> QED
    BY <1>3, <1>4, <1>7 DEF ValueInv

(* A write starts: what it does to the first tier and to the history.       *)
LEMMA WriteStartKeepsValues ==
    ASSUME ValueInv, NEW t \in CacheThreads, pend[t] = Idle,
           NEW op \in Writes, NEW ks \in SUBSET TierKeys, NEW v \in TierValues \cup {Absent},
           GoOn(t, op, ks, v),
           UNCHANGED <<redis, stale, connected>>,
           mem' \in Memory!Contents, latest' \in Memory!Contents,
           \A k \in ks : latest'[k] = v /\ mem'[k] \in {v, Absent},
           \A k \in TierKeys \ ks : latest'[k] = latest[k] /\ mem'[k] \in {mem[k], Absent}
    PROVE  ValueInv'
<1>1. op # "get"
    BY Ops
<1>2. /\ SharedKeys'
      /\ pend' \in [CacheThreads -> Calls]
      /\ mixed \subseteq mixed' /\ mixed' \subseteq TierKeys
      /\ pend'[t].op = op /\ pend'[t].keys = ks /\ pend'[t].val = v
      /\ \A u \in CacheThreads \ {t} :
             /\ pend'[u].op = pend[u].op /\ pend'[u].keys = pend[u].keys
             /\ pend'[u].val = pend[u].val
             /\ pend'[u].alone => pend[u].alone
             /\ pend[u].keys \cap ks \subseteq mixed'
             /\ pend'[u].alone => pend[u].keys \cap ks = {}
    <2>1. Started(t, op, ks, v)
        BY <1>1, GoOnKeepsShared
    <2> QED
        BY <2>1 DEF Started
<1>3. ValueTypes'
    BY <1>2 DEF ValueInv, ValueTypes
<1>4. \A j \in TierKeys : Writing(j) \/ j \in ks => Writing(j)'
    BY <1>2, Ops DEF Writing
<1>5. \A u \in CacheThreads : pend[u].keys \subseteq TierKeys
    BY DEF ValueInv, ValueTypes, Calls
<1>6. Fresh'
    <2>1. ASSUME NEW j \in TierKeys \ mixed' PROVE Newest(j, mem[j])'
        <3>1. CASE j \in ks
            BY <3>1 DEF Newest
        <3>2. CASE j \notin ks
            BY <1>2, <2>1, <3>2 DEF ValueInv, Fresh, Newest
        <3> QED
            BY <3>1, <3>2
    <2>2. ASSUME NEW j \in TierKeys \ mixed', ~Writing(j)' PROVE Newest(j, redis[j])'
        BY <1>2, <1>4, <2>2 DEF ValueInv, Fresh, Newest
    <2>3. ASSUME NEW u \in CacheThreads, NEW j \in pend'[u].keys,
                 pend'[u].op \in Writes, pend'[u].alone \/ j \notin mixed'
          PROVE  pend'[u].val = latest'[j] /\ Newest(j, mem[j])'
        <3>1. CASE u = t
            BY <1>2, <2>3, <3>1 DEF Newest
        <3>2. CASE u # t
            <4>1. /\ j \in pend[u].keys /\ j \in TierKeys /\ j \notin ks
                  /\ pend[u].alone \/ j \notin mixed
                BY <1>2, <1>5, <2>3, <3>2
            <4>2. pend[u].val = latest[j] /\ Newest(j, mem[j])
                BY <1>2, <2>3, <3>2, <4>1 DEF ValueInv, Fresh
            <4> QED
                BY <1>2, <3>2, <4>1, <4>2 DEF Newest
        <3> QED
            BY <3>1, <3>2
    <2>4. ASSUME NEW u \in CacheThreads, NEW j \in pend'[u].keys \ mixed',
                 pend'[u].op = "promote"
          PROVE  Newest(j, pend[u].val)'
        <3>1. u # t
            BY <1>2, <2>4, Ops
        <3>2. j \in pend[u].keys /\ j \in TierKeys /\ j \notin ks
            BY <1>2, <1>5, <2>4, <3>1
        <3> QED
            BY <1>2, <2>4, <3>1, <3>2 DEF ValueInv, Fresh, Newest
    <2> QED
        BY <2>1, <2>2, <2>3, <2>4 DEF Fresh
<1> QED
    BY <1>2, <1>3, <1>6 DEF ValueInv

LEMMA SetMemKeepsValues ==
    ASSUME ValueInv, NEW t \in CacheThreads, NEW k \in TierKeys, NEW v \in TierValues,
           SetMem(t, k, v)
    PROVE  ValueInv'
<1>1. /\ pend[t] = Idle /\ GoOn(t, "set", {k}, v)
      /\ UNCHANGED <<redis, stale, connected>>
      /\ latest' = [latest EXCEPT ![k] = v]
      /\ mem' \in Memory!Contents /\ mem'[k] \in {v, Absent}
      /\ \A j \in TierKeys \ {k} : mem'[j] \in {mem[j], Absent}
    BY DEF SetMem, Memory!Put, Memory!LoseAllBut
<1>2. latest' \in Memory!Contents /\ latest'[k] = v
      /\ \A j \in TierKeys \ {k} : latest'[j] = latest[j]
    BY <1>1 DEF ValueInv, ValueTypes, Memory!Contents
<1>3. "set" \in Writes /\ {k} \in SUBSET TierKeys
    BY Ops
<1> DEFINE ks == {k}
           op == "set"
<1>4. /\ ks \in SUBSET TierKeys /\ op \in Writes /\ GoOn(t, op, ks, v)
      /\ pend[t] = Idle /\ UNCHANGED <<redis, stale, connected>>
      /\ mem' \in Memory!Contents /\ latest' \in Memory!Contents
    BY <1>1, <1>2, <1>3
<1>5. \A j \in ks : latest'[j] = v /\ mem'[j] \in {v, Absent}
    BY <1>1, <1>2
<1>6. \A j \in TierKeys \ ks : latest'[j] = latest[j] /\ mem'[j] \in {mem[j], Absent}
    BY <1>1, <1>2
<1> HIDE DEF ks, op
<1> QED
    BY <1>4, <1>5, <1>6, WriteStartKeepsValues

LEMMA DelMemKeepsValues ==
    ASSUME ValueInv, NEW t \in CacheThreads, NEW op \in Writes, NEW ks \in SUBSET TierKeys,
           DelMem(t, op, ks)
    PROVE  ValueInv'
<1>1. /\ pend[t] = Idle /\ GoOn(t, op, ks, Absent)
      /\ UNCHANGED <<redis, stale, connected>>
      /\ mem' = [k \in TierKeys |-> IF k \in ks THEN Absent ELSE mem[k]]
      /\ latest' = [k \in TierKeys |-> IF k \in ks THEN Absent ELSE latest[k]]
    BY DEF DelMem
<1>2. mem' \in Memory!Contents /\ latest' \in Memory!Contents
    BY <1>1 DEF ValueInv, ValueTypes, Memory!Contents
<1>3. /\ \A k \in ks : latest'[k] = Absent /\ mem'[k] \in {Absent, Absent}
      /\ \A k \in TierKeys \ ks : latest'[k] = latest[k] /\ mem'[k] \in {mem[k], Absent}
    BY <1>1
<1> QED
    BY <1>1, <1>2, <1>3, WriteStartKeepsValues

(* A thread's operation goes on or ends without writing; the tiers may lose *)
(* values, and mem may get one that is the newest.                          *)
LEMMA ReadStepKeepsValues ==
    ASSUME ValueInv, NEW t \in CacheThreads, pend[t].op \notin Writes,
           NEW q \in Calls,
           pend' = [pend EXCEPT ![t] = q],
           q = Idle \/ (q.op = "promote" /\ pend[t].op = "get" /\ q.keys = pend[t].keys),
           UNCHANGED <<latest, mixed, connected>>, stale' \subseteq TierKeys,
           mem' \in Memory!Contents, redis' \in Memory!Contents,
           \A k \in TierKeys : redis'[k] \in {redis[k], Absent},
           \A k \in TierKeys :
               \/ mem'[k] \in {mem[k], Absent}
               \/ pend[t].op = "promote" /\ pend[t].keys = {k}
                  /\ mem'[k] \in {pend[t].val, Absent},
           \A k \in q.keys \ mixed : q.op = "promote" => Newest(k, q.val)
    PROVE  ValueInv'
<1>1. /\ pend'[t] = q /\ \A u \in CacheThreads \ {t} : pend'[u] = pend[u]
      /\ pend' \in [CacheThreads -> Calls]
    BY DEF ValueInv, ValueTypes
<1>2. ValueTypes'
    BY <1>1 DEF ValueInv, ValueTypes
<1>3. q.op \notin Writes /\ q.keys \subseteq pend[t].keys
    BY Ops
<1>4. \A k \in TierKeys : Writing(k)' <=> Writing(k)
    BY <1>1, <1>3 DEF Writing
<1>5. SharedKeys'
    <2>1. ASSUME NEW u \in CacheThreads, pend'[u].op \in {"get", "promote"}
          PROVE  \E k \in TierKeys : pend'[u].keys = {k}
        BY <1>1, <2>1, Ops DEF ValueInv, SharedKeys
    <2>2. ASSUME NEW u \in CacheThreads, NEW x \in CacheThreads, u # x, pend'[u].op \in Writes
          PROVE  /\ pend'[u].alone => pend'[u].keys \cap pend'[x].keys = {}
                 /\ pend'[u].keys \cap pend'[x].keys \subseteq mixed'
        <3>1. u # t /\ pend'[u] = pend[u] /\ pend'[x].keys \subseteq pend[x].keys
            BY <1>1, <1>3, <2>2
        <3>2. /\ pend[u].alone => pend[u].keys \cap pend[x].keys = {}
              /\ pend[u].keys \cap pend[x].keys \subseteq mixed
            BY <2>2, <3>1 DEF ValueInv, SharedKeys
        <3> QED
            BY <3>1, <3>2
    <2> QED
        BY <2>1, <2>2 DEF SharedKeys
<1>6. \A k \in TierKeys \ mixed : Newest(k, mem[k])'
    <2> SUFFICES ASSUME NEW k \in TierKeys \ mixed PROVE Newest(k, mem[k])'
        OBVIOUS
    <2>1. CASE mem'[k] \in {mem[k], Absent}
        BY <2>1 DEF ValueInv, Fresh, Newest
    <2>2. CASE pend[t].op = "promote" /\ pend[t].keys = {k} /\ mem'[k] \in {pend[t].val, Absent}
        BY <2>2 DEF ValueInv, Fresh, Newest
    <2> QED
        BY <2>1, <2>2
<1>7. \A k \in TierKeys \ mixed : ~Writing(k)' => Newest(k, redis[k])'
    BY <1>4 DEF ValueInv, Fresh, Newest
<1>8. ASSUME NEW u \in CacheThreads, NEW k \in pend'[u].keys,
             pend'[u].op \in Writes, pend'[u].alone \/ k \notin mixed'
      PROVE  pend'[u].val = latest'[k] /\ Newest(k, mem[k])'
    <2>1. u # t /\ pend'[u] = pend[u] /\ k \in TierKeys
        BY <1>1, <1>3, <1>8 DEF Calls
    <2>2. pend[u].val = latest[k] /\ Newest(k, mem[k])
        BY <1>8, <2>1 DEF ValueInv, Fresh
    <2>3. CASE mem'[k] \in {mem[k], Absent}
        BY <2>1, <2>2, <2>3 DEF Newest
    <2>4. CASE pend[t].op = "promote" /\ pend[t].keys = {k} /\ mem'[k] \in {pend[t].val, Absent}
        <3>1. k \in mixed /\ ~pend[u].alone
            BY <1>8, <2>1, <2>4 DEF ValueInv, SharedKeys
        <3> QED
            BY <1>8, <2>1, <3>1
    <2> QED
        BY <2>1, <2>3, <2>4
<1>9. \A u \in CacheThreads : \A k \in pend'[u].keys \ mixed' :
          pend'[u].op = "promote" => Newest(k, pend[u].val)'
    BY <1>1 DEF ValueInv, Fresh, Newest
<1> QED
    BY <1>2, <1>5, <1>6, <1>7, <1>8, <1>9 DEF ValueInv, Fresh

LEMMA GetRedisKeepsValues ==
    ASSUME ValueInv, NEW t \in CacheThreads, GetRedis(t)
    PROVE  ValueInv'
<1>1. PICK k \in pend[t].keys :
          /\ pend' = [pend EXCEPT ![t] = IF Found(k)
                                         THEN [pend[t] EXCEPT !.op = "promote", !.val = redis[k]]
                                         ELSE Idle]
          /\ redis' = IF connected /\ k \in stale THEN [redis EXCEPT ![k] = Absent] ELSE redis
          /\ stale' = IF connected THEN stale \ {k} ELSE stale
    BY DEF GetRedis
<1>2. pend[t].op = "get" /\ UNCHANGED <<mem, connected, latest, mixed>>
    BY DEF GetRedis
<1>3. pend[t].keys = {k} /\ k \in TierKeys
    BY <1>1, <1>2 DEF ValueInv, SharedKeys
<1>4. pend[t] \in Calls
    BY DEF ValueInv, ValueTypes
<1>5. /\ redis \in Memory!Contents /\ mem \in Memory!Contents /\ stale \subseteq TierKeys
      /\ redis[k] \in TierValues \cup {Absent}
    BY <1>3 DEF ValueInv, ValueTypes, Memory!Contents
<1>6. /\ redis' \in Memory!Contents /\ mem' \in Memory!Contents /\ stale' \subseteq TierKeys
      /\ \A j \in TierKeys : redis'[j] \in {redis[j], Absent} /\ mem'[j] \in {mem[j], Absent}
    BY <1>1, <1>2, <1>3, <1>5 DEF Memory!Contents
<1>7. pend[t].op \notin Writes
    BY <1>2, Ops
<1>8. CASE ~Found(k)
    <2>1. pend' = [pend EXCEPT ![t] = Idle]
        BY <1>1, <1>8
    <2>2. \A j \in Idle.keys \ mixed : Idle.op = "promote" => Newest(j, Idle.val)
        BY Ops
    <2> QED
        BY <1>2, <1>6, <1>7, <2>1, <2>2, Ops, ReadStepKeepsValues
<1>9. CASE Found(k)
    <2> DEFINE q == [pend[t] EXCEPT !.op = "promote", !.val = redis[k]]
    <2>1. pend' = [pend EXCEPT ![t] = q]
        BY <1>1, <1>9
    <2>2. /\ q \in Calls
          /\ q.op = "promote" /\ q.keys = {k} /\ q.val = redis[k]
        BY <1>3, <1>4, <1>5 DEF Calls
    <2> HIDE DEF q
    <2>3. k \notin mixed => ~Writing(k)
        BY <1>3, <1>7 DEF Writing, ValueInv, SharedKeys
    <2>4. \A j \in q.keys \ mixed : q.op = "promote" => Newest(j, q.val)
        BY <1>3, <2>2, <2>3 DEF ValueInv, Fresh
    <2> QED
        BY <1>2, <1>3, <1>6, <1>7, <2>1, <2>2, <2>4, ReadStepKeepsValues
<1> QED
    BY <1>8, <1>9

LEMMA PromoteKeepsValues ==
    ASSUME ValueInv, NEW t \in CacheThreads, Promote(t)
    PROVE  ValueInv'
<1>1. PICK k \in pend[t].keys : Memory!Put(k, pend[t].val)
    BY DEF Promote
<1>2. /\ pend[t].op = "promote" /\ pend' = [pend EXCEPT ![t] = Idle]
      /\ UNCHANGED <<redis, stale, connected, latest, mixed>>
    BY DEF Promote
<1>3. pend[t].keys = {k} /\ k \in TierKeys
    BY <1>1, <1>2 DEF ValueInv, SharedKeys
<1>4. /\ mem' \in Memory!Contents /\ mem'[k] \in {pend[t].val, Absent}
      /\ \A j \in TierKeys \ {k} : mem'[j] \in {mem[j], Absent}
    BY <1>1 DEF Memory!Put, Memory!LoseAllBut
<1>5. redis' \in Memory!Contents /\ stale' \subseteq TierKeys
    BY <1>2 DEF ValueInv, ValueTypes
<1>6. pend[t].op \notin Writes
    BY <1>2, Ops
<1>7. \A j \in Idle.keys \ mixed : Idle.op = "promote" => Newest(j, Idle.val)
    BY Ops
<1> QED
    BY <1>2, <1>3, <1>4, <1>5, <1>6, <1>7, Ops, ReadStepKeepsValues

(* A write reaches the second tier.                                         *)
LEMMA WriteRedisKeepsValues ==
    ASSUME ValueInv, NEW t \in CacheThreads, WriteRedis(t)
    PROVE  ValueInv'
<1> DEFINE ks == pend[t].keys
<1>1. /\ pend[t].op \in Writes
      /\ pend' = [pend EXCEPT ![t] = Idle]
      /\ mixed' = IF connected THEN IF pend[t].alone THEN mixed \ ks ELSE mixed
                  ELSE mixed \cup ks
      /\ redis' = IF connected THEN Written(t) ELSE redis
      /\ stale' = IF connected THEN stale \ ks ELSE stale
      /\ UNCHANGED <<mem, connected, latest>>
    BY DEF WriteRedis, EndWrite
<1>2. /\ pend'[t] = Idle /\ \A u \in CacheThreads \ {t} : pend'[u] = pend[u]
      /\ pend' \in [CacheThreads -> Calls]
    BY <1>1, Ops DEF ValueInv, ValueTypes
<1>3. ks \subseteq TierKeys /\ pend[t].val \in TierValues \cup {Absent}
    BY DEF ValueInv, ValueTypes, Calls
<1>4. /\ redis' \in Memory!Contents
      /\ \A k \in TierKeys : redis'[k] = IF connected /\ k \in ks THEN pend[t].val ELSE redis[k]
    BY <1>1, <1>3 DEF Written, ValueInv, ValueTypes, Memory!Contents
<1>5. ValueTypes'
    BY <1>1, <1>2, <1>3, <1>4 DEF ValueInv, ValueTypes
<1>6. \A k \in mixed \ mixed' : k \in ks /\ pend[t].alone /\ connected
    BY <1>1
<1>7. \A u \in CacheThreads \ {t} : \A k \in pend[u].keys : k \in mixed => k \in mixed'
    BY <1>1, <1>6 DEF ValueInv, SharedKeys
<1>8. SharedKeys'
    <2>1. ASSUME NEW u \in CacheThreads, pend'[u].op \in {"get", "promote"}
          PROVE  \E k \in TierKeys : pend'[u].keys = {k}
        BY <1>2, <2>1, Ops DEF ValueInv, SharedKeys
    <2>2. ASSUME NEW u \in CacheThreads, NEW x \in CacheThreads, u # x, pend'[u].op \in Writes
          PROVE  /\ pend'[u].alone => pend'[u].keys \cap pend'[x].keys = {}
                 /\ pend'[u].keys \cap pend'[x].keys \subseteq mixed'
        <3>1. u # t /\ pend'[u] = pend[u]
            BY <1>2, <2>2, Ops
        <3>2. CASE x = t
            BY <1>2, <3>2, Ops
        <3>3. CASE x # t
            BY <1>2, <1>7, <2>2, <3>1, <3>3 DEF ValueInv, SharedKeys
        <3> QED
            BY <3>2, <3>3
    <2> QED
        BY <2>1, <2>2 DEF SharedKeys
<1>9. \A k \in ks : k \notin mixed' =>
          connected /\ (pend[t].alone \/ k \notin mixed)
    BY <1>1
<1>10. \A k \in ks : k \notin mixed' => pend[t].val = latest[k] /\ Newest(k, mem[k])
    BY <1>1, <1>9 DEF ValueInv, Fresh
<1> HIDE DEF ks
<1>11. ASSUME NEW k \in TierKeys \ mixed'
       PROVE  /\ Newest(k, mem[k])'
              /\ ~Writing(k)' => Newest(k, redis[k])'
    <2>1. CASE k \in ks
        BY <1>1, <1>4, <1>9, <1>10, <1>11, <2>1 DEF Newest
    <2>2. CASE k \notin ks
        <3>1. k \notin mixed /\ redis'[k] = redis[k]
            BY <1>4, <1>6, <1>11, <2>2
        <3>2. Writing(k) => Writing(k)'
            BY <1>2, <2>2 DEF Writing, ks
        <3> QED
            BY <1>1, <3>1, <3>2 DEF ValueInv, Fresh, Newest
    <2> QED
        BY <2>1, <2>2
<1>12. ASSUME NEW u \in CacheThreads, NEW k \in pend'[u].keys,
              pend'[u].op \in Writes, pend'[u].alone \/ k \notin mixed'
       PROVE  pend'[u].val = latest'[k] /\ Newest(k, mem[k])'
    <2>1. u # t /\ pend'[u] = pend[u]
        BY <1>2, <1>12, Ops
    <2>2. pend[u].alone \/ k \notin mixed
        BY <1>7, <1>12, <2>1
    <2> QED
        BY <1>1, <1>12, <2>1, <2>2 DEF ValueInv, Fresh, Newest
<1>13. ASSUME NEW u \in CacheThreads, NEW k \in pend'[u].keys \ mixed', pend'[u].op = "promote"
       PROVE  Newest(k, pend[u].val)'
    <2>1. u # t /\ pend'[u] = pend[u]
        BY <1>2, <1>13, Ops
    <2> QED
        BY <1>1, <1>7, <1>13, <2>1 DEF ValueInv, Fresh, Newest
<1> QED
    BY <1>5, <1>8, <1>11, <1>12, <1>13 DEF ValueInv, Fresh

(* Loss in the first tier, expiry, connection: nothing appears.             *)
LEMMA QuietStepKeepsValues ==
    ASSUME ValueInv, UNCHANGED <<redis, pend, latest, mixed>>,
           mem' \in Memory!Contents, stale' \subseteq TierKeys, connected' \in BOOLEAN,
           \A k \in TierKeys : mem'[k] \in {mem[k], Absent}
    PROVE  ValueInv'
<1>1. ValueTypes'
    BY DEF ValueInv, ValueTypes
<1>2. SharedKeys'
    BY DEF ValueInv, SharedKeys
<1>3. \A k \in TierKeys : Writing(k)' <=> Writing(k)
    BY DEF Writing
<1>4. \A u \in CacheThreads : pend[u].keys \subseteq TierKeys
    BY DEF ValueInv, ValueTypes, Calls
<1>5. Fresh'
    BY <1>3, <1>4 DEF ValueInv, Fresh, Newest
<1> QED
    BY <1>1, <1>2, <1>5 DEF ValueInv

LEMMA NextKeepsValues == ValueInv /\ [NextTiers]_tierVars => ValueInv'
<1> SUFFICES ASSUME ValueInv, [NextTiers]_tierVars PROVE ValueInv'
    OBVIOUS
<1>1. /\ mem \in Memory!Contents /\ stale \subseteq TierKeys /\ connected \in BOOLEAN
      /\ \A k \in TierKeys : mem[k] \in TierValues \cup {Absent}
    BY DEF ValueInv, ValueTypes, Memory!Contents
<1>2. CASE UNCHANGED <<tiers, connected, pend, latest, mixed>>
    BY <1>1, <1>2, QuietStepKeepsValues DEF tiers
<1>3. CASE LoseMem
    <2>1. PICK k \in TierKeys : mem' = [mem EXCEPT ![k] = Absent]
        BY <1>3 DEF LoseMem
    <2>2. mem' \in Memory!Contents /\ \A j \in TierKeys : mem'[j] \in {mem[j], Absent}
        BY <1>1, <2>1 DEF Memory!Contents
    <2> QED
        BY <1>1, <1>3, <2>2, QuietStepKeepsValues DEF LoseMem
<1>4. ASSUME NEW k \in TierKeys, ExpireRedis(k) PROVE ValueInv'
    BY <1>1, <1>4, QuietStepKeepsValues DEF ExpireRedis
<1>5. ASSUME NEW k \in TierKeys, Expire(k) PROVE ValueInv'
    BY <1>1, <1>5, QuietStepKeepsValues DEF Expire
<1>6. CASE Connect \/ Disconnect
    BY <1>1, <1>6, QuietStepKeepsValues DEF Connect, Disconnect, tiers
<1>7. CASE Reinit
    <2>1. /\ mem' = [k \in TierKeys |-> Absent] /\ redis' = [k \in TierKeys |-> Absent]
          /\ latest' = [k \in TierKeys |-> Absent]
          /\ stale' = {} /\ mixed' = {} /\ connected' = TRUE /\ pend' = pend
          /\ \A t \in CacheThreads : pend[t] = Idle
        BY <1>7 DEF Reinit
    <2>2. ValueTypes'
        BY <2>1 DEF ValueInv, ValueTypes, Memory!Contents
    <2>3. SharedKeys' /\ Fresh'
        BY <2>1, Ops DEF SharedKeys, Fresh, Newest
    <2> QED
        BY <2>2, <2>3 DEF ValueInv
<1>8. ASSUME NEW t \in CacheThreads PROVE DelMem(t, "clear", TierKeys) => ValueInv'
    BY DelMemKeepsValues, Ops
<1>9. ASSUME NEW t \in CacheThreads, NEW k \in TierKeys
      PROVE  DelMem(t, "del", {k}) => ValueInv'
    <2>1. "del" \in Writes /\ {k} \in SUBSET TierKeys
        BY Ops
    <2> QED
        BY <2>1, DelMemKeepsValues
<1>10. CASE UNCHANGED tierVars
    BY <1>2, <1>10 DEF tierVars
<1>11. CASE NextTiers
    <2>1. \/ \E t \in CacheThreads : TryAcquire(t) \/ Release(t)
          \/ ExpireLock
          \/ LookUpLock
          => UNCHANGED <<tiers, connected, pend, latest, mixed>>
        BY DEF TryAcquire, Release, ExpireLock, LookUpLock
    <2> QED
        BY <1>2, <1>3, <1>4, <1>5, <1>6, <1>7, <1>8, <1>9, <1>11, <2>1,
           ReadKeepsValues, GetRedisKeepsValues, PromoteKeepsValues, SetMemKeepsValues,
           WriteRedisKeepsValues DEF NextTiers
<1> QED
    BY <1>10, <1>11

(* The tiers hold the last value set or none of a key nobody is writing,    *)
(* unless its last write overlapped another operation or missed redis; for  *)
(* every number of threads in MultiTierCache's unlocked operations.         *)
THEOREM TiersNeverStale == SpecTiers => []NeverStale
<1>1. ValueInv => NeverStale
    BY DEF ValueInv, Fresh, Newest, NeverStale
<1> QED
    BY <1>1, ValuesStart, NextKeepsValues, PTL DEF SpecTiers


-------------------------------------------------------------------------------
(* An order of keys with an index that reaches only nodes of the right key. *)
Linked(l) ==
    /\ l.order \in Seq(Keys)
    /\ l.at \in [Keys -> Nat]
    /\ \A k \in Keys : l.at[k] <= Len(l.order)
    /\ \A k \in Keys : l.at[k] # 0 => l.order[l.at[k]] = k

Reaches(l, k) == l.at[k] # 0

LEMMA EmptyListLinked == Linked(EmptyList)
    BY EmptySeq DEF Linked, EmptyList

LEMMA PushFrontLinked ==
    ASSUME NEW l, Linked(l), NEW k \in Keys
    PROVE  /\ Linked(PushFront(l, k))
           /\ Reaches(PushFront(l, k), k)
           /\ \A j \in Keys : Reaches(l, j) => Reaches(PushFront(l, k), j)
<1> DEFINE s == <<k>>
           m == PushFront(l, k)
<1>1. s \in Seq(Keys) /\ Len(s) = 1 /\ s[1] = k
    OBVIOUS
<1>2. l.order \in Seq(Keys) /\ Len(l.order) \in Nat
    BY DEF Linked
<1>3. m.order = s \o l.order
    BY DEF PushFront
<1>4. \A j \in Keys : m.at[j] = IF j = k THEN 1 ELSE IF l.at[j] = 0 THEN 0 ELSE l.at[j] + 1
    BY DEF PushFront
<1>5. m.at \in [Keys -> Nat]
    BY DEF PushFront, Linked
<1> HIDE DEF s, m
<1>6. /\ m.order \in Seq(Keys) /\ Len(m.order) = 1 + Len(l.order)
      /\ \A i \in 1..(1 + Len(l.order)) : m.order[i] = IF i <= 1 THEN s[i] ELSE l.order[i - 1]
    <2> DEFINE o == l.order
    <2>1. o \in Seq(Keys) /\ Len(o) \in Nat /\ m.order = s \o o
        BY <1>2, <1>3
    <2> HIDE DEF o
    <2>2. /\ s \o o \in Seq(Keys) /\ Len(s \o o) = Len(s) + Len(o)
          /\ \A i \in 1..(Len(s) + Len(o)) :
                (s \o o)[i] = IF i <= Len(s) THEN s[i] ELSE o[i - Len(s)]
        BY <1>1, <2>1, ConcatProperties
    <2> QED
        BY <1>1, <2>1, <2>2 DEF o
<1>7. ASSUME NEW j \in Keys
      PROVE  /\ m.at[j] <= Len(m.order)
             /\ m.at[j] # 0 => m.order[m.at[j]] = j
    <2>1. CASE j = k
        BY <1>1, <1>2, <1>4, <1>6, <2>1
    <2>2. CASE j # k
        <3> DEFINE i == l.at[j]
        <3>1. i \in Nat /\ i <= Len(l.order) /\ (i # 0 => l.order[i] = j)
            BY DEF Linked
        <3>2. m.at[j] = IF i = 0 THEN 0 ELSE i + 1
            BY <1>4, <2>2
        <3> HIDE DEF i
        <3>3. CASE i = 0
            BY <1>2, <1>6, <3>2, <3>3
        <3>4. CASE i # 0
            <4> DEFINE d == i + 1
            <4>1. /\ m.at[j] = d /\ d - 1 = i /\ d <= Len(m.order) /\ d # 1
                  /\ d \in 1..(1 + Len(l.order))
                BY <1>2, <1>6, <3>1, <3>2, <3>4
            <4> HIDE DEF d
            <4>2. m.order[d] = l.order[d - 1]
                BY <1>2, <1>6, <4>1
            <4> QED
                BY <3>1, <3>4, <4>1, <4>2
        <3> QED
            BY <3>3, <3>4
    <2> QED
        BY <2>1, <2>2
<1>8. Linked(m)
    BY <1>5, <1>6, <1>7 DEF Linked
<1> QED
    BY <1>4, <1>8 DEF m, Reaches, Linked

LEMMA UnlinkLinked ==
    ASSUME NEW l, Linked(l), NEW k \in Keys
    PROVE  /\ Linked(Unlink(l, k))
           /\ \A j \in Keys \ {k} : Reaches(l, j) => Reaches(Unlink(l, k), j)
<1> DEFINE p == l.at[k]
           n == Len(l.order) - 1
           m == Unlink(l, k)
<1>1. l.order \in Seq(Keys) /\ Len(l.order) \in Nat /\ p \in Nat /\ p <= Len(l.order)
    BY DEF Linked
<1>2. CASE p = 0
    BY <1>2 DEF Unlink
<1>3. CASE p # 0
    <2>1. n \in Nat /\ p \in 1..(n + 1)
        BY <1>1, <1>3
    <2>2. m.order = [i \in 1..n |-> IF i < p THEN l.order[i] ELSE l.order[i + 1]]
        BY <1>3 DEF Unlink
    <2>3. m.at = [j \in Keys |-> IF j = k THEN 0 ELSE IF l.at[j] > p THEN l.at[j] - 1 ELSE l.at[j]]
        BY <1>3 DEF Unlink
    <2>4. \A i \in 1..(n + 1) : l.order[i] \in Keys
        BY <1>1
    <2>5. m.at \in [Keys -> Nat]
        BY <1>1, <2>3 DEF Linked
    <2> HIDE DEF m
    <2>6. m.order \in [1..n -> Keys]
        BY <2>1, <2>2, <2>4
    <2>7. m.order \in Seq(Keys) /\ Len(m.order) = n
        BY <2>1, <2>6, SeqDef
    <2>8. ASSUME NEW j \in Keys \ {k}
          PROVE  l.at[j] # p \/ l.at[j] = 0
        BY <1>3 DEF Linked
    <2>9. ASSUME NEW j \in Keys
          PROVE  /\ m.at[j] <= n
                 /\ m.at[j] # 0 => m.order[m.at[j]] = j
                 /\ j # k /\ l.at[j] # 0 => m.at[j] # 0
        <3>1. CASE j = k
            BY <2>1, <2>3, <3>1
        <3>2. CASE j # k /\ l.at[j] > p
            <4>1. m.at[j] = l.at[j] - 1 /\ l.at[j] \in Nat /\ l.at[j] <= n + 1 /\ l.order[l.at[j]] = j
                BY <1>1, <2>1, <2>3, <3>2 DEF Linked
            <4>2. m.at[j] \in 1..n /\ ~(m.at[j] < p) /\ m.at[j] + 1 = l.at[j]
                BY <2>1, <3>2, <4>1
            <4> QED
                BY <2>2, <4>1, <4>2
        <3>3. CASE j # k /\ ~(l.at[j] > p)
            <4>1. m.at[j] = l.at[j] /\ l.at[j] \in Nat /\ (l.at[j] # 0 => l.order[l.at[j]] = j)
                BY <2>3, <3>3 DEF Linked
            <4>2. l.at[j] < p
                BY <1>3, <2>1, <2>8, <3>3, <4>1
            <4>3. m.at[j] # 0 => m.at[j] \in 1..n /\ m.at[j] < p
                BY <2>1, <4>1, <4>2
            <4> QED
                BY <2>1, <2>2, <4>1, <4>2, <4>3
        <3> QED
            BY <3>1, <3>2, <3>3
    <2> QED
        BY <2>5, <2>7, <2>9 DEF m, Linked, Reaches
<1> QED
    BY <1>2, <1>3

LEMMA PopBackLinked ==
    ASSUME NEW l, Linked(l), l.order # <<>>
    PROVE  /\ l.order[Len(l.order)] \in Keys
           /\ Linked(PopBack(l))
           /\ \A j \in Keys \ {l.order[Len(l.order)]} : Reaches(l, j) => Reaches(PopBack(l), j)
<1> DEFINE n == Len(l.order)
           k == l.order[n]
           m == PopBack(l)
<1>1. l.order \in Seq(Keys) /\ n \in Nat /\ n # 0
    BY EmptySeq DEF Linked
<1>2. k \in Keys
    BY <1>1
<1>3. m.order = SubSeq(l.order, 1, n - 1) /\ m.at = [l.at EXCEPT ![k] = 0]
    BY DEF PopBack
<1>4. \A i \in 1..(n - 1) : l.order[i] \in Keys
    BY <1>1
<1> HIDE DEF m
<1>5. /\ m.order \in Seq(Keys)
      /\ Len(m.order) = IF 1 <= n - 1 THEN n - 1 - 1 + 1 ELSE 0
      /\ \A i \in 1..(n - 1 - 1 + 1) : m.order[i] = l.order[1 + i - 1]
    <2> DEFINE b == n - 1
    <2>1. b \in Int /\ \A i \in 1..b : l.order[i] \in Keys
        BY <1>1, <1>4
    <2>2. m.order = SubSeq(l.order, 1, b)
        BY <1>3
    <2> HIDE DEF b
    <2>3. /\ m.order \in Seq(Keys)
          /\ Len(m.order) = IF 1 <= b THEN b - 1 + 1 ELSE 0
          /\ \A i \in 1..(b - 1 + 1) : m.order[i] = l.order[1 + i - 1]
        BY <2>1, <2>2, SubSeqProperties
    <2> QED
        BY <2>3 DEF b
<1>6. Len(m.order) = n - 1 /\ \A i \in 1..(n - 1) : m.order[i] = l.order[i]
    BY <1>1, <1>5
<1>7. m.at \in [Keys -> Nat] /\ m.at[k] = 0 /\ \A j \in Keys \ {k} : m.at[j] = l.at[j]
    BY <1>2, <1>3 DEF Linked
<1>8. ASSUME NEW j \in Keys
      PROVE  /\ m.at[j] <= Len(m.order)
             /\ m.at[j] # 0 => m.order[m.at[j]] = j
    <2>1. CASE j = k
        BY <1>1, <1>6, <1>7, <2>1
    <2>2. CASE j # k
        <3>1. /\ m.at[j] = l.at[j] /\ l.at[j] \in Nat /\ l.at[j] <= n
              /\ l.at[j] # 0 => l.order[l.at[j]] = j
            BY <1>7, <2>2 DEF Linked
        <3>2. l.at[j] # n
            BY <1>1, <2>2, <3>1
        <3> QED
            BY <1>1, <1>6, <3>1, <3>2
    <2> QED
        BY <2>1, <2>2
<1> QED
    BY <1>2, <1>5, <1>7, <1>8 DEF m, Linked, Reaches

-------------------------------------------------------------------------------
Typed == entries \in [Keys -> Entry] /\ strategy \in Strategies

MemoryInv == Typed /\ Linked(list) /\ OrderCoversEntries

LEMMA VacantIsEntry == Vacant \in Entry /\ Vacant.value = None
    BY ConstantsAssumption DEF Vacant, Entry

(* An operation that makes no entry live and takes from the index only the  *)
(* keys of entries it erases leaves every entry in the order.               *)
LEMMA CoversKept ==
    ASSUME MemoryInv, Live' \subseteq Live, UNCHANGED strategy, switched => switched',
           Ordered => \A k \in Live' \ {EmptyKey} : Reaches(list, k) => Reaches(list', k)
    PROVE  OrderCoversEntries'
    BY DEF MemoryInv, OrderCoversEntries, Ordered, Reaches

LEMMA InitKeeps == Init => MemoryInv
<1> SUFFICES ASSUME Init PROVE MemoryInv
    OBVIOUS
<1>1. Typed
    BY VacantIsEntry DEF Init, Typed
<1>2. Live = {}
    BY VacantIsEntry DEF Init, Live
<1> QED
    BY <1>1, <1>2, EmptyListLinked DEF Init, MemoryInv, OrderCoversEntries

LEMMA GetHitKeeps ==
    ASSUME MemoryInv, NEW k \in Keys, GetHit(k)
    PROVE  MemoryInv'
<1>1. entries[k] \in Entry /\ MaxHits \in Nat
    BY ConstantsAssumption DEF MemoryInv, Typed
<1> DEFINE more == IF entries[k].hits < MaxHits THEN entries[k].hits + 1 ELSE entries[k].hits
           new == [entries[k] EXCEPT !.hits = more]
<1>2. more \in 0..MaxHits
    BY <1>1 DEF Entry
<1>3. new \in Entry /\ new.value = entries[k].value
    <2> HIDE DEF more
    <2> QED
        BY <1>1, <1>2 DEF Entry
<1>4. entries' = [entries EXCEPT ![k] = new]
    BY DEF GetHit
<1> HIDE DEF new, more
<1>5. Typed' /\ Live' = Live
    BY <1>3, <1>4 DEF MemoryInv, Typed, GetHit, Live
<1>6. /\ Linked(list')
      /\ \A j \in Keys : Reaches(list, j) => Reaches(list', j)
    <2>1. CASE strategy = "LRU"
        <3> DEFINE l == Unlink(list, k)
        <3>1. list' = PushFront(l, k)
            BY <2>1 DEF GetHit
        <3>2. Linked(l) /\ \A j \in Keys \ {k} : Reaches(list, j) => Reaches(l, j)
            BY UnlinkLinked DEF MemoryInv
        <3> HIDE DEF l
        <3> QED
            BY <3>1, <3>2, PushFrontLinked
    <2>2. CASE strategy # "LRU"
        BY <2>2 DEF GetHit, MemoryInv
    <2> QED
        BY <2>1, <2>2
<1>7. OrderCoversEntries'
    BY <1>5, <1>6, CoversKept DEF GetHit, Live
<1> QED
    BY <1>5, <1>6, <1>7 DEF MemoryInv, Linked

LEMMA GetExpiredKeeps ==
    ASSUME MemoryInv, NEW k \in Keys, GetExpired(k)
    PROVE  MemoryInv'
<1>1. Typed' /\ Live' \subseteq Live
    BY VacantIsEntry DEF MemoryInv, Typed, GetExpired, Live
<1>2. OrderCoversEntries'
    BY <1>1, CoversKept DEF GetExpired
<1> QED
    BY <1>1, <1>2 DEF GetExpired, MemoryInv, Linked

LEMMA SetKeeps ==
    ASSUME MemoryInv, NEW k \in Keys, NEW v \in Values, NEW ttl \in Ttls, Set(k, v, ttl)
    PROVE  MemoryInv'
<1> DEFINE new == [value |-> v, left |-> ttl, hits |-> 0]
<1>1. new \in Entry
    BY ConstantsAssumption DEF Entry
<1>2. entries' = [entries EXCEPT ![k] = new]
    BY DEF Set
<1> HIDE DEF new
<1>3. Typed' /\ Live' \subseteq Live \cup {k}
    BY <1>1, <1>2 DEF MemoryInv, Typed, Set, Live
<1>4. Linked(list')
    BY PushFrontLinked DEF Set, MemoryInv
<1>5. OrderCoversEntries'
    <2>1. CASE Ordered
        <3>1. list' = PushFront(list, k)
            BY <2>1 DEF Set, Tracked
        <3>2. Reaches(list', k) /\ \A j \in Keys : Reaches(list, j) => Reaches(list', j)
            BY <3>1, PushFrontLinked DEF MemoryInv
        <3> QED
            BY <1>3, <3>2 DEF MemoryInv, OrderCoversEntries, Ordered, Reaches, Set, Live
    <2>2. CASE ~Ordered
        BY <2>2 DEF Set, OrderCoversEntries, Ordered
    <2> QED
        BY <2>1, <2>2
<1> QED
    BY <1>3, <1>4, <1>5 DEF MemoryInv, Linked

LEMMA EvictOneKeeps ==
    ASSUME MemoryInv, EvictOne
    PROVE  MemoryInv'
<1>1. PICK k \in Victims :
          /\ IF k \in Live \ {EmptyKey} THEN Erase(k) ELSE UNCHANGED <<entries, bytes>>
          /\ list' = IF Ordered THEN PopBack(list) ELSE list
    BY DEF EvictOne
<1>2. strategy' = strategy /\ switched' = switched
    BY DEF EvictOne
<1>3. Typed' /\ Live' \subseteq Live /\ k \notin Live' \ {EmptyKey}
    BY <1>1, <1>2, VacantIsEntry DEF MemoryInv, Typed, Erase, Live
<1>4. /\ Linked(list')
      /\ Ordered => \A j \in Live' \ {EmptyKey} : Reaches(list, j) => Reaches(list', j)
    <2>1. CASE Ordered
        <3>1. list.order # <<>> /\ k = list.order[Len(list.order)] /\ list' = PopBack(list)
            BY <1>1, <2>1 DEF Victims, Ordered
        <3> QED
            BY <1>3, <3>1, PopBackLinked DEF MemoryInv, Live
    <2>2. CASE ~Ordered
        BY <1>1, <2>2 DEF MemoryInv
    <2> QED
        BY <2>1, <2>2
<1>5. OrderCoversEntries'
    BY <1>2, <1>3, <1>4, CoversKept
<1> QED
    BY <1>3, <1>4, <1>5 DEF MemoryInv, Linked

LEMMA EraseUnlinkKeeps ==
    ASSUME MemoryInv, NEW k \in Keys, Erase(k), list' = Unlink(list, k),
           UNCHANGED <<strategy, switched>>
    PROVE  MemoryInv'
<1>1. Typed' /\ Live' \subseteq Live \ {k}
    BY VacantIsEntry DEF MemoryInv, Typed, Erase, Live
<1>2. Linked(list') /\ \A j \in Keys \ {k} : Reaches(list, j) => Reaches(list', j)
    BY UnlinkLinked DEF MemoryInv
<1>3. OrderCoversEntries'
    BY <1>1, <1>2, CoversKept DEF Live
<1> QED
    BY <1>1, <1>2, <1>3 DEF MemoryInv, Linked

LEMMA TickKeeps ==
    ASSUME MemoryInv, Tick
    PROVE  MemoryInv'
<1> DEFINE older(k) == [entries[k] EXCEPT !.left = entries[k].left - 1]
<1>1. ASSUME NEW k \in Keys
      PROVE  older(k) \in Entry /\ older(k).value = entries[k].value
    BY DEF MemoryInv, Typed, Entry
<1>2. entries' = [k \in Keys |-> IF k \in Live /\ ~Expired(k) THEN older(k) ELSE entries[k]]
    BY DEF Tick
<1> HIDE DEF older
<1>3. Typed' /\ Live' = Live
    BY <1>1, <1>2 DEF MemoryInv, Typed, Tick, Live
<1>4. OrderCoversEntries'
    BY <1>3, CoversKept DEF Tick
<1> QED
    BY <1>3, <1>4 DEF Tick, MemoryInv, Linked

LEMMA NextKeeps == MemoryInv /\ [Next]_vars => MemoryInv'
<1> SUFFICES ASSUME MemoryInv, [Next]_vars PROVE MemoryInv'
    OBVIOUS
<1> DEFINE Same == UNCHANGED <<entries, list, strategy, switched>>
<1>1. Same => MemoryInv'
    BY DEF MemoryInv, Typed, Linked, OrderCoversEntries, Ordered, Live
<1>2. CASE \E k \in Keys : GetHit(k)
    BY <1>2, GetHitKeeps
<1>3. CASE \E k \in Keys : GetExpired(k)
    BY <1>3, GetExpiredKeeps
<1>4. CASE \E k \in Keys, v \in Values, ttl \in Ttls : Set(k, v, ttl)
    BY <1>4, SetKeeps
<1>5. CASE EvictOne
    BY <1>5, EvictOneKeeps
<1>6. CASE EvictDone
    BY <1>1, <1>6 DEF EvictDone
<1>7. CASE \E k \in Keys : Del(k)
    BY <1>7, EraseUnlinkKeeps DEF Del
<1>8. CASE Clear
    <2>1. Typed' /\ Live' = {}
        BY <1>8, VacantIsEntry DEF Clear, MemoryInv, Typed, Live
    <2>2. Linked(list')
        BY <1>8, EmptyListLinked DEF Clear
    <2> QED
        BY <2>1, <2>2 DEF MemoryInv, Linked, OrderCoversEntries
<1>9. CASE CleanupExpired
    BY <1>1, <1>9 DEF CleanupExpired
<1>10. CASE \E k \in Keys : CleanOne(k)
    <2>1. PICK k \in Keys : CleanOne(k)
        BY <1>10
    <2>2. CASE Expired(k)
        BY <2>1, <2>2, EraseUnlinkKeeps DEF CleanOne
    <2>3. CASE ~Expired(k)
        BY <1>1, <2>1, <2>3 DEF CleanOne
    <2> QED
        BY <2>2, <2>3
<1>11. CASE CleanDone
    BY <1>1, <1>11 DEF CleanDone
<1>12. CASE \E s \in Strategies : SetStrategy(s)
    BY <1>12 DEF SetStrategy, MemoryInv, Typed, Linked, OrderCoversEntries
<1>13. CASE Tick
    BY <1>13, TickKeeps
<1>14. CASE UNCHANGED vars
    BY <1>1, <1>14 DEF vars
<1> QED
    BY <1>2, <1>3, <1>4, <1>5, <1>6, <1>7, <1>8, <1>9, <1>10, <1>11, <1>12, <1>13, <1>14
    DEF Next

LEMMA MemoryInvHolds == Spec => []MemoryInv
    BY InitKeeps, NextKeeps, PTL DEF Spec

LEMMA StuckHasCause == MemoryInv => HangNeedsCause
<1> SUFFICES ASSUME MemoryInv, Stuck, ~switched, EmptyKey \notin Live PROVE FALSE
    BY DEF HangNeedsCause
<1>1. PICK k \in Live : k # EmptyKey
    BY DEF Stuck, Over
<1>2. CASE Ordered
    <2>1. list.order = <<>> /\ list.at[k] # 0 /\ k \in Keys
        BY <1>1, <1>2 DEF Stuck, MemoryInv, OrderCoversEntries, Live
    <2>2. Len(list.order) = 0 /\ list.at[k] \in Nat /\ list.at[k] <= Len(list.order)
        BY <2>1, EmptySeq DEF MemoryInv, Linked
    <2> QED
        BY <2>1, <2>2
<1>3. CASE strategy = "RANDOM"
    BY <1>3 DEF Stuck, Ordered
<1>4. CASE strategy \in {"LFU", "TTL_ONLY"}
    <2>1. EmptyKey \in Victims
        BY <1>4 DEF Stuck, Ordered
    <2> QED
        BY <1>4, <2>1 DEF Victims, Ordered
<1> QED
    BY <1>2, <1>3, <1>4 DEF MemoryInv, Typed, Strategies, Ordered

(* set hangs in its eviction loop only after set_strategy has been called   *)
(* or while the empty key is in the cache: while neither is so, an order    *)
(* that is kept has every entry, and every other strategy finds a victim.   *)
THEOREM HangsHaveACause == Spec => []HangNeedsCause
    BY MemoryInvHolds, StuckHasCause, PTL

-------------------------------------------------------------------------------
Shown == [k \in Keys |-> IF k \in Live /\ ~Expired(k) THEN entries[k].value ELSE None]

Find(k) == IF k \in Live /\ ~Expired(k) THEN entries[k].value ELSE None

LEMMA FindFinds == Shown = [k \in Keys |-> Find(k)]
    BY DEF Shown, Find

(* What a reader finds under a key that a step leaves alone, or takes the   *)
(* value or some of the life of.                                            *)
Fades(k) ==
    \/ entries'[k].value = None
    \/ /\ entries'[k].value = entries[k].value
       /\ entries'[k].left >= 0 => entries[k].left >= 0

LEMMA FadesFinds ==
    ASSUME Typed, Typed', NEW k \in Keys, Fades(k)
    PROVE  Find(k)' \in {Find(k), None}
<1>1. entries[k].left \in Int /\ entries'[k].left \in Int
    BY DEF Typed, Entry
<1> QED
    BY <1>1 DEF Fades, Find, Live, Expired

LEMMA LosingStep ==
    ASSUME Typed, Typed', pc' = "evicting" => pc = "evicting", \A k \in Keys : Fades(k)
    PROVE  Lossy!Next
<1>1. \A k \in Keys : Find(k)' \in Values \cup {None}
    BY DEF Typed, Entry, Find
<1>2. \A k \in Keys : Find(k)' \in {Find(k), None}
    BY FadesFinds
<1>3. Shown' = [k \in Keys |-> Find(k)'] /\ Shown = [k \in Keys |-> Find(k)]
    BY FindFinds DEF Shown, Find
<1> QED
    BY <1>1, <1>2, <1>3 DEF Shown, Lossy!Next, Lossy!Lose, Lossy!LoseAllBut, Lossy!Contents

LEMMA SettingStep ==
    ASSUME Typed, Typed', NEW k \in Keys, NEW v \in Values, entries'[k].value \in {v, None},
           \A j \in Keys \ {k} : Fades(j), pc # "evicting", pc' = "evicting"
    PROVE  Lossy!Next
<1>1. \A j \in Keys : Find(j)' \in Values \cup {None}
    BY DEF Typed, Entry, Find
<1>2. \A j \in Keys \ {k} : Find(j)' \in {Find(j), None}
    BY FadesFinds
<1>3. Find(k)' \in {v, None}
    BY DEF Find
<1>4. Shown' = [j \in Keys |-> Find(j)'] /\ Shown = [j \in Keys |-> Find(j)]
    BY FindFinds DEF Shown, Find
<1>5. Lossy!Put(k, v)
    BY <1>1, <1>2, <1>3, <1>4 DEF Shown, Lossy!Put, Lossy!LoseAllBut, Lossy!Contents
<1> QED
    BY <1>5 DEF Lossy!Next, Lossy!BeginSet

LEMMA ErasedFades ==
    ASSUME Typed, NEW k \in Keys, entries' = [entries EXCEPT ![k] = Vacant], NEW j \in Keys
    PROVE  Fades(j)
<1>1. CASE j = k
    BY <1>1, VacantIsEntry DEF Typed, Fades
<1>2. CASE j # k
    BY <1>2 DEF Typed, Fades
<1> QED
    BY <1>1, <1>2

LEMMA StepRefines ==
    ASSUME MemoryInv, MemoryInv', [Next]_vars
    PROVE  [Lossy!Next]_<<Shown, pc = "evicting">>
<1> USE DEF MemoryInv
<1>1. UNCHANGED entries => \A k \in Keys : Fades(k)
    BY DEF Fades
<1>2. CASE \E k \in Keys : GetHit(k)
    <2>1. \A k \in Keys : Fades(k)
        BY <1>2 DEF GetHit, Typed, Entry, Fades
    <2> QED
        BY <1>2, <2>1, LosingStep DEF GetHit
<1>3. CASE \E k \in Keys : GetExpired(k)
    BY <1>3, ErasedFades, LosingStep DEF GetExpired
<1>4. CASE \E k \in Keys, v \in Values, ttl \in Ttls : Set(k, v, ttl)
    <2>1. PICK k \in Keys, v \in Values, ttl \in Ttls : Set(k, v, ttl)
        BY <1>4
    <2>2. /\ entries'[k].value = v /\ pc # "evicting" /\ pc' = "evicting"
          /\ \A j \in Keys \ {k} : Fades(j)
        BY <2>1 DEF Set, Typed, Fades
    <2> QED
        BY <2>2, SettingStep
<1>5. CASE EvictOne
    <2>1. \A k \in Keys : Fades(k)
        BY <1>1, <1>5, ErasedFades DEF EvictOne, Erase, Live
    <2> QED
        BY <1>5, <2>1, LosingStep DEF EvictOne
<1>6. CASE EvictDone
    BY <1>1, <1>6, LosingStep DEF EvictDone
<1>7. CASE \E k \in Keys : Del(k)
    BY <1>7, ErasedFades, LosingStep DEF Del, Erase
<1>8. CASE Clear
    <2>1. \A k \in Keys : Fades(k)
        BY <1>8, VacantIsEntry DEF Clear, Fades
    <2> QED
        BY <1>8, <2>1, LosingStep DEF Clear
<1>9. CASE CleanupExpired
    BY <1>1, <1>9, LosingStep DEF CleanupExpired
<1>10. CASE \E k \in Keys : CleanOne(k)
    <2>1. PICK k \in Keys : CleanOne(k)
        BY <1>10
    <2>2. \A j \in Keys : Fades(j)
        BY <1>1, <2>1, ErasedFades DEF CleanOne, Erase
    <2> QED
        BY <2>1, <2>2, LosingStep DEF CleanOne
<1>11. CASE CleanDone
    BY <1>1, <1>11, LosingStep DEF CleanDone
<1>12. CASE \E s \in Strategies : SetStrategy(s)
    BY <1>1, <1>12, LosingStep DEF SetStrategy
<1>13. CASE Tick
    <2>1. ASSUME NEW k \in Keys PROVE Fades(k)
        <3>1. entries[k] \in Entry /\ entries[k].left \in Int
            BY DEF Typed, Entry
        <3>2. entries'[k] = IF k \in Live /\ ~Expired(k)
                            THEN [entries[k] EXCEPT !.left = entries[k].left - 1]
                            ELSE entries[k]
            BY <1>13 DEF Tick
        <3> QED
            BY <3>1, <3>2 DEF Fades, Entry
    <2> QED
        BY <1>13, <2>1, LosingStep DEF Tick
<1>14. CASE UNCHANGED vars
    BY <1>14 DEF vars, Shown, Live, Expired
<1> QED
    BY <1>2, <1>3, <1>4, <1>5, <1>6, <1>7, <1>8, <1>9, <1>10, <1>11, <1>12, <1>13, <1>14
    DEF Next

(* The memory cache is a lossy map: a reader of a key finds the value last  *)
(* set for it or nothing, and a value that expired or was evicted never     *)
(* comes back.                                                              *)
THEOREM CacheIsALossyMap == Spec => LossySpec
<1>1. Init => Lossy!Init
    BY VacantIsEntry DEF Init, Lossy!Init, Live
<1>2. MemoryInv /\ MemoryInv' /\ [Next]_vars => [Lossy!Next]_<<Shown, pc = "evicting">>
    BY StepRefines
<1> QED
    BY <1>1, <1>2, MemoryInvHolds, PTL DEF Spec, LossySpec, Lossy!Spec, Shown

-------------------------------------------------------------------------------
(* The bytes of every key, none for a key without an entry. *)
Footprint == [k \in Keys |-> SizeOf(k)]

(* cleanup_expired visits only entries that are still there. *)
BytesInv ==
    /\ bytes \in Int /\ leaked \in Int
    /\ BytesAccounted
    /\ pc = "cleaning" => todo \subseteq Live

(* Every entry has a size.                                                  *)
LEMMA SizesAreNat == Typed => \A k \in Keys : SizeOf(k) \in Int
    BY ConstantsAssumption DEF Typed, Entry, SizeOf, Live

(* BytesAccounted in terms of the sum of the footprints.                    *)
LEMMA Balance ==
    BytesAccounted <=> bytes = SumFunctionOnSet(Footprint, Keys) + leaked
    BY DEF BytesAccounted, Footprint, SumFunction

(* The footprints have an integer sum.                                      *)
LEMMA FootprintInt == Typed => SumFunctionOnSet(Footprint, Keys) \in Int
<1> SUFFICES ASSUME Typed PROVE SumFunctionOnSet(Footprint, Keys) \in Int
    OBVIOUS
<1>1. \A k \in Keys : Footprint[k] \in Int
    BY SizesAreNat DEF Footprint
<1> QED
    BY <1>1, ConstantsAssumption, SumInt

(* A step that leaves all sizes but one as they are changes the sum by the  *)
(* difference of that one.                                                  *)
LEMMA OneSizeChanges ==
    ASSUME Typed, Typed', NEW k \in Keys, \A j \in Keys \ {k} : SizeOf(j)' = SizeOf(j)
    PROVE  SumFunctionOnSet(Footprint', Keys)
             = SumFunctionOnSet(Footprint, Keys) - SizeOf(k) + SizeOf(k)'
<1> DEFINE f == Footprint
           g == Footprint'
<1>1. \A j \in Keys : f[j] = SizeOf(j) /\ g[j] = SizeOf(j)'
    BY DEF Footprint
<1>2. \A j \in Keys : f[j] \in Int /\ g[j] \in Int
    <2>1. \A j \in Keys : SizeOf(j) \in Int /\ SizeOf(j)' \in Int
        BY ConstantsAssumption DEF Typed, Entry, SizeOf, Live
    <2> QED
        BY <1>1, <2>1
<1>3. \A j \in Keys \ {k} : g[j] = f[j]
    BY <1>1
<1> HIDE DEF f, g
<1>4. SumFunctionOnSet(g, Keys) = SumFunctionOnSet(f, Keys) - f[k] + g[k]
    BY <1>2, <1>3, ConstantsAssumption, SumChanged
<1> QED
    BY <1>1, <1>4 DEF f, g

(* The sum changes only with a size.                                        *)
LEMMA SizesKept ==
    ASSUME Typed, Typed', \A j \in Keys : SizeOf(j)' = SizeOf(j)
    PROVE  SumFunctionOnSet(Footprint', Keys) = SumFunctionOnSet(Footprint, Keys)
    BY DEF Footprint

(* Without entries the sum is 0.                                            *)
LEMMA NothingHeld ==
    ASSUME \A k \in Keys : entries[k].value = None
    PROVE  SumFunctionOnSet(Footprint, Keys) = 0
<1>1. \A k \in Keys : Footprint[k] = 0
    BY DEF Footprint, SizeOf, Live
<1> QED
    BY <1>1, ConstantsAssumption, SumZeros

(* An entry is erased and its bytes are given back, or counted as leaked.   *)
LEMMA ErasureBalances ==
    ASSUME MemoryInv, MemoryInv', BytesInv, NEW k \in Live, entries' = [entries EXCEPT ![k] = Vacant],
           \/ bytes' = bytes - SizeOf(k) /\ leaked' = leaked
           \/ bytes' = bytes /\ leaked' = leaked + SizeOf(k)
    PROVE  /\ bytes' \in Int /\ leaked' \in Int
           /\ BytesAccounted'
           /\ Live' = Live \ {k}
<1>1. Typed /\ Typed' /\ k \in Keys
    BY DEF MemoryInv, Live
<1>2. entries'[k] = Vacant /\ \A j \in Keys \ {k} : entries'[j] = entries[j]
    BY <1>1 DEF Typed
<1>3. Live' = Live \ {k}
    BY <1>1, <1>2, VacantIsEntry DEF Live
<1>4. SizeOf(k)' = 0 /\ \A j \in Keys \ {k} : SizeOf(j)' = SizeOf(j)
    BY <1>1, <1>2, <1>3 DEF SizeOf, Live
<1>5. SumFunctionOnSet(Footprint', Keys) = SumFunctionOnSet(Footprint, Keys) - SizeOf(k) + 0
    BY <1>1, <1>4, OneSizeChanges
<1>6. SizeOf(k) \in Int /\ SumFunctionOnSet(Footprint, Keys) \in Int
    BY <1>1, SizesAreNat, FootprintInt
<1>7. bytes = SumFunctionOnSet(Footprint, Keys) + leaked /\ bytes \in Int /\ leaked \in Int
    BY Balance DEF BytesInv
<1>8. bytes' = SumFunctionOnSet(Footprint', Keys) + leaked' /\ bytes' \in Int /\ leaked' \in Int
    BY <1>5, <1>6, <1>7
<1>9. BytesAccounted'
    BY <1>8 DEF BytesAccounted, Footprint, SumFunction
<1> QED
    BY <1>3, <1>8, <1>9

(* A step that leaves the sizes, the balance and the visit list alone.      *)
LEMMA BytesUntouched ==
    ASSUME MemoryInv, MemoryInv', BytesInv, UNCHANGED <<bytes, leaked>>,
           Live' = Live, \A k \in Keys : entries'[k].value = entries[k].value,
           pc' = "cleaning" => (pc = "cleaning" /\ todo' \subseteq todo) \/ todo' \subseteq Live
    PROVE  BytesInv'
<1>1. \A k \in Keys : SizeOf(k)' = SizeOf(k)
    BY DEF SizeOf
<1>2. SumFunctionOnSet(Footprint', Keys) = SumFunctionOnSet(Footprint, Keys)
    BY <1>1, SizesKept DEF MemoryInv
<1>3. bytes' = SumFunctionOnSet(Footprint', Keys) + leaked'
    BY <1>2, Balance DEF BytesInv
<1>4. BytesAccounted'
    BY <1>3 DEF BytesAccounted, Footprint, SumFunction
<1> QED
    BY <1>4 DEF BytesInv

(* An empty cache has no bytes.                                             *)
LEMMA InitBytes == Init => BytesInv
<1> SUFFICES ASSUME Init PROVE BytesInv
    OBVIOUS
<1>1. \A k \in Keys : entries[k].value = None
    BY VacantIsEntry DEF Init
<1>2. SumFunctionOnSet(Footprint, Keys) = 0
    BY <1>1, NothingHeld
<1> QED
    BY <1>2, Balance DEF Init, BytesInv

(* set takes off what it replaces and adds what it stores.                  *)
LEMMA SetBytes ==
    ASSUME MemoryInv, MemoryInv', BytesInv, NEW k \in Keys, NEW v \in Values, NEW ttl \in Ttls,
           Set(k, v, ttl)
    PROVE  BytesInv'
<1>1. Typed /\ Typed'
    BY DEF MemoryInv
<1>2. entries'[k].value = v /\ v # None /\ \A j \in Keys \ {k} : entries'[j] = entries[j]
    BY <1>1, ConstantsAssumption DEF Typed, Set
<1>3. SizeOf(k)' = Size(k, v) /\ \A j \in Keys \ {k} : SizeOf(j)' = SizeOf(j)
    BY <1>2 DEF SizeOf, Live
<1>4. SumFunctionOnSet(Footprint', Keys) = SumFunctionOnSet(Footprint, Keys) - SizeOf(k) + Size(k, v)
    BY <1>1, <1>3, OneSizeChanges
<1>5. SizeOf(k) \in Int /\ SumFunctionOnSet(Footprint, Keys) \in Int /\ Size(k, v) \in Int
    BY <1>1, SizesAreNat, FootprintInt, ConstantsAssumption
<1>6. bytes = SumFunctionOnSet(Footprint, Keys) + leaked /\ bytes \in Int /\ leaked \in Int
    BY Balance DEF BytesInv
<1>7. bytes' = bytes - SizeOf(k) + Size(k, v) /\ leaked' = leaked /\ pc' = "evicting"
    BY DEF Set
<1>8. bytes' = SumFunctionOnSet(Footprint', Keys) + leaked' /\ bytes' \in Int /\ leaked' \in Int
    BY <1>4, <1>5, <1>6, <1>7
<1>9. BytesAccounted'
    BY <1>8 DEF BytesAccounted, Footprint, SumFunction
<1> QED
    BY <1>7, <1>8, <1>9 DEF BytesInv

(* clear leaves no entry and no bytes.                                      *)
LEMMA ClearBytes ==
    ASSUME Clear
    PROVE  BytesInv'
<1> DEFINE f == Footprint'
<1>1. \A k \in Keys : f[k] = 0
    BY VacantIsEntry DEF Clear, Footprint, SizeOf, Live
<1> HIDE DEF f
<1>2. SumFunctionOnSet(f, Keys) = 0
    BY <1>1, ConstantsAssumption, SumZeros
<1>3. BytesAccounted'
    BY <1>2 DEF BytesAccounted, SumFunction, Clear, f, Footprint
<1> QED
    BY <1>3 DEF BytesInv, Clear

(* Every step keeps the byte count right.                                   *)
LEMMA BytesKept == MemoryInv /\ MemoryInv' /\ BytesInv /\ [Next]_vars => BytesInv'
<1> SUFFICES ASSUME MemoryInv, MemoryInv', BytesInv, [Next]_vars PROVE BytesInv'
    OBVIOUS
<1>1. Typed
    BY DEF MemoryInv
<1>2. CASE \E k \in Keys : GetHit(k)
    <2>1. \A k \in Keys : entries'[k].value = entries[k].value
        BY <1>1, <1>2 DEF GetHit, Typed, Entry
    <2> QED
        BY <1>2, <2>1, BytesUntouched DEF GetHit, Live
<1>3. CASE \E k \in Keys : GetExpired(k)
    BY <1>3, ErasureBalances DEF GetExpired, BytesInv
<1>4. CASE \E k \in Keys, v \in Values, ttl \in Ttls : Set(k, v, ttl)
    BY <1>4, SetBytes
<1>5. CASE EvictOne
    <2>1. PICK k : IF k \in Live \ {EmptyKey} THEN Erase(k) ELSE UNCHANGED <<entries, bytes>>
        BY <1>5 DEF EvictOne
    <2>2. CASE k \in Live \ {EmptyKey}
        BY <1>5, <2>1, <2>2, ErasureBalances DEF EvictOne, Erase, BytesInv
    <2>3. CASE k \notin Live \ {EmptyKey}
        BY <1>5, <2>1, <2>3, BytesUntouched DEF EvictOne, Live
    <2> QED
        BY <2>2, <2>3
<1>6. CASE EvictDone
    BY <1>6, BytesUntouched DEF EvictDone, Live
<1>7. CASE \E k \in Keys : Del(k)
    BY <1>7, ErasureBalances DEF Del, Erase, BytesInv
<1>8. CASE Clear
    BY <1>8, ClearBytes
<1>9. CASE CleanupExpired
    BY <1>9, BytesUntouched DEF CleanupExpired, Live
<1>10. CASE \E k \in Keys : CleanOne(k)
    <2>1. PICK k \in Keys : CleanOne(k)
        BY <1>10
    <2>2. k \in Live /\ todo' = todo \ {k} /\ todo \subseteq Live
        BY <2>1 DEF CleanOne, BytesInv
    <2>3. CASE Expired(k)
        BY <2>1, <2>2, <2>3, ErasureBalances DEF CleanOne, Erase, BytesInv
    <2>4. CASE ~Expired(k)
        BY <2>1, <2>2, <2>4, BytesUntouched DEF CleanOne, Live
    <2> QED
        BY <2>3, <2>4
<1>11. CASE CleanDone
    BY <1>11, BytesUntouched DEF CleanDone, Live
<1>12. CASE \E s \in Strategies : SetStrategy(s)
    BY <1>12, BytesUntouched DEF SetStrategy, Live
<1>13. CASE Tick
    <2>1. \A k \in Keys : entries'[k].value = entries[k].value
        BY <1>1, <1>13 DEF Tick, Typed, Entry
    <2> QED
        BY <1>13, <2>1, BytesUntouched DEF Tick, Live
<1>14. CASE UNCHANGED vars
    BY <1>14, BytesUntouched DEF vars, Live
<1> QED
    BY <1>2, <1>3, <1>4, <1>5, <1>6, <1>7, <1>8, <1>9, <1>10, <1>11, <1>12, <1>13, <1>14
    DEF Next

(* current_memory_bytes_ is at every moment the bytes of the entries there  *)
(* are and of the expired ones get has erased: whatever set replaced, and   *)
(* whatever del, the eviction loop and the cleanup erased in between.       *)
THEOREM BytesAreAccountedFor == Spec => []BytesAccounted
<1>1. BytesInv => BytesAccounted
    BY DEF BytesInv
<1> QED
    BY <1>1, InitBytes, BytesKept, MemoryInvHolds, PTL DEF Spec

===============================================================================
