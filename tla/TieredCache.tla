------------------------------ MODULE TieredCache ------------------------------
(***************************************************************************)
(* The cache of CacheManager::init with tier MEMORY_REDIS                  *)
(* (src/src/cache/cache.cpp): MultiTierCache over a MemoryCache and a      *)
(* RedisCache, and CacheLock on the RedisCache.                            *)
(*                                                                         *)
(* MultiTierCache has no mutex: an operation calls one backend after the   *)
(* other, each call a section under that backend's mutex, and operations   *)
(* of several threads interleave between the calls.  The memory tier is    *)
(* the LossyMap that MemoryCache implements.                               *)
(***************************************************************************)
EXTENDS FiniteSets, Naturals

CONSTANTS
    CacheThreads,   \* threads that call the cache
    TierKeys,      \* keys
    TierValues,    \* values
    Absent,      \* no value
    Nobody     \* no thread

ASSUME TiersAssumption == Absent \notin TierValues /\ Nobody \notin CacheThreads

VARIABLES
    mem,        \* what the memory tier shows: key -> value
    redis,      \* entries_ of the RedisCache, also those that have expired
    stale,      \* keys whose entry in redis has expired
    connected,  \* connected_
    pend,       \* the call to the second tier, or the promotion, a thread does next
    lock,       \* the entry of the lock's key in redis and who made it
    acquired,   \* acquired_ of each thread's CacheLock
    latest,     \* history: the value of the last set, Absent after a del
    mixed,      \* history: keys an operation on which overlapped or missed redis
    pried       \* history: the lock's entry was erased by another than its maker

tiers == <<mem, redis, stale>>
locks == <<lock, acquired, pried>>
tierVars == <<tiers, connected, pend, locks, latest, mixed>>

Memory == INSTANCE LossyMap WITH
    Keys <- TierKeys, Values <- TierValues, None <- Absent, store <- mem, writing <- FALSE

Idle == [op |-> "none", keys |-> {}, val |-> Absent, alone |-> TRUE]

Writes == {"set", "del", "clear"}

Writing(k) == \E t \in CacheThreads : pend[t].op \in Writes /\ k \in pend[t].keys

NoLock == [state |-> "none", by |-> Nobody]

InitTiers ==
    /\ Memory!Init
    /\ redis = [k \in TierKeys |-> Absent]
    /\ stale = {}
    /\ connected = TRUE
    /\ pend = [t \in CacheThreads |-> Idle]
    /\ lock = NoLock
    /\ acquired = [t \in CacheThreads |-> FALSE]
    /\ latest = [k \in TierKeys |-> Absent]
    /\ mixed = {}
    /\ pried = FALSE

-------------------------------------------------------------------------------
(* Two operations on a key overlap if one of them writes it. *)
Overlapping(t, op, ks) ==
    {u \in CacheThreads \ {t} :
       /\ pend[u].keys \cap ks # {}
       /\ op \in Writes \/ pend[u].op \in Writes}

(* Thread t has called the first tier and goes on with the second. *)
GoOn(t, op, ks, v) ==
    LET others == Overlapping(t, op, ks)
    IN /\ pend' = [u \in CacheThreads |->
                     IF u = t
                     THEN [op |-> op, keys |-> ks, val |-> v, alone |-> others = {}]
                     ELSE [pend[u] EXCEPT !.alone = @ /\ u \notin others]]
       /\ mixed' = mixed \cup (ks \cap UNION {pend[u].keys : u \in others})

(* A write ends.  Both tiers have it if it ran alone and redis took it.     *)
EndWrite(t, took) ==
    /\ pend' = [pend EXCEPT ![t] = Idle]
    /\ mixed' = IF took
                THEN IF pend[t].alone THEN mixed \ pend[t].keys ELSE mixed
                ELSE mixed \cup pend[t].keys

(* get: a hit in the first tier ends it, a miss goes on to the second. *)
GetMiss(t, k) ==
    /\ pend[t] = Idle
    /\ mem[k] = Absent
    /\ GoOn(t, "get", {k}, Absent)
    /\ UNCHANGED <<tiers, connected, locks, latest>>

Found(k) == connected /\ redis[k] # Absent /\ k \notin stale

(* A hit in the second tier is promoted to the first in a step of its own;  *)
(* an expired entry is erased.                                              *)
GetRedis(t) ==
    /\ pend[t].op = "get"
    /\ \E k \in pend[t].keys :
          /\ pend' = [pend EXCEPT ![t] = IF Found(k)
                                         THEN [@ EXCEPT !.op = "promote", !.val = redis[k]]
                                         ELSE Idle]
          /\ redis' = IF connected /\ k \in stale THEN [redis EXCEPT ![k] = Absent] ELSE redis
          /\ stale' = IF connected THEN stale \ {k} ELSE stale
    /\ UNCHANGED <<mem, connected, locks, latest, mixed>>

Promote(t) ==
    /\ pend[t].op = "promote"
    /\ \E k \in pend[t].keys : Memory!Put(k, pend[t].val)
    /\ pend' = [pend EXCEPT ![t] = Idle]
    /\ UNCHANGED <<redis, stale, connected, locks, latest, mixed>>

SetMem(t, k, v) ==
    /\ pend[t] = Idle
    /\ Memory!Put(k, v)
    /\ GoOn(t, "set", {k}, v)
    /\ latest' = [latest EXCEPT ![k] = v]
    /\ UNCHANGED <<redis, stale, connected, locks>>

(* del of one key, clear of all of them. *)
DelMem(t, op, ks) ==
    /\ pend[t] = Idle
    /\ mem' = [k \in TierKeys |-> IF k \in ks THEN Absent ELSE mem[k]]
    /\ GoOn(t, op, ks, Absent)
    /\ latest' = [k \in TierKeys |-> IF k \in ks THEN Absent ELSE latest[k]]
    /\ UNCHANGED <<redis, stale, connected, locks>>

(* The definitions named ..._Faulty are variants with one mistake in them;  *)
(* no action uses them.  Each shows that a property notices that mistake.   *)
Written_Faulty(t) ==
    [k \in TierKeys |-> IF k \in pend[t].keys /\ pend[t].val # Absent THEN pend[t].val ELSE redis[k]]

(* What redis has after thread t's write. *)
Written(t) == [k \in TierKeys |-> IF k \in pend[t].keys THEN pend[t].val ELSE redis[k]]

(* A backend that is not connected returns an error, which the loop over    *)
(* the backends passes over.  clear also takes the lock's entry.            *)
WriteRedis(t) ==
    /\ pend[t].op \in Writes
    /\ EndWrite(t, connected)
    /\ redis' = IF connected THEN Written(t) ELSE redis
    /\ stale' = IF connected THEN stale \ pend[t].keys ELSE stale
    /\ IF connected /\ pend[t].op = "clear" /\ lock # NoLock
       THEN lock' = NoLock /\ pried' = TRUE
       ELSE UNCHANGED <<lock, pried>>
    /\ UNCHANGED <<mem, connected, acquired, latest>>

-------------------------------------------------------------------------------
(* The memory tier evicts, and its entries expire. *)
LoseMem ==
    /\ \E k \in TierKeys :
          /\ mem[k] # Absent
          /\ mem' = [mem EXCEPT ![k] = Absent]
    /\ UNCHANGED <<redis, stale, connected, pend, locks, latest, mixed>>

ExpireRedis(k) ==
    /\ redis[k] # Absent /\ k \notin stale
    /\ stale' = stale \cup {k}
    /\ UNCHANGED <<mem, redis, connected, pend, locks, latest, mixed>>

(* RedisCache::expire gives any entry a new time to live, expired or not. *)
Expire(k) ==
    /\ connected /\ k \in stale
    /\ stale' = stale \ {k}
    /\ UNCHANGED <<mem, redis, connected, pend, locks, latest, mixed>>

Connect ==
    /\ ~connected /\ connected' = TRUE
    /\ UNCHANGED <<tiers, pend, locks, latest, mixed>>

Disconnect ==
    /\ connected /\ connected' = FALSE
    /\ UNCHANGED <<tiers, pend, locks, latest, mixed>>

(* CacheManager::init, also after shutdown, makes new backends; its mutex   *)
(* keeps it away from the operations in progress, not from the locks, which *)
(* must be gone by then.                                                    *)
Reinit ==
    /\ \A t \in CacheThreads : pend[t] = Idle /\ ~acquired[t]
    /\ mem' = [k \in TierKeys |-> Absent]
    /\ redis' = [k \in TierKeys |-> Absent]
    /\ latest' = [k \in TierKeys |-> Absent]
    /\ stale' = {} /\ mixed' = {}
    /\ connected' = TRUE
    /\ lock' = NoLock /\ pried' = FALSE
    /\ UNCHANGED <<pend, acquired>>

-------------------------------------------------------------------------------
Grants_Faulty == connected /\ lock.state # "fresh"

(* set_nx looks whether the key is there, not whether it has expired. *)
Grants == connected /\ lock = NoLock

(* try_acquire, also by a thread that has the lock already. *)
TryAcquire(t) ==
    /\ acquired' = [acquired EXCEPT ![t] = Grants]
    /\ lock' = IF Grants THEN [state |-> "fresh", by |-> t] ELSE lock
    /\ UNCHANGED <<tiers, connected, pend, latest, mixed, pried>>

(* release deletes the key, whoever made it, also on a CacheLock that has   *)
(* not acquired; only the destructor asks for acquired_ before it calls it. *)
Release(t) ==
    /\ acquired' = [acquired EXCEPT ![t] = FALSE]
    /\ lock' = IF connected THEN NoLock ELSE lock
    /\ pried' = (pried \/ (connected /\ lock # NoLock /\ lock.by # t))
    /\ UNCHANGED <<tiers, connected, pend, latest, mixed>>

(* Ten seconds have passed since the lock was acquired. *)
ExpireLock ==
    /\ lock.state = "fresh"
    /\ lock' = [lock EXCEPT !.state = "expired"]
    /\ UNCHANGED <<tiers, connected, pend, acquired, latest, mixed, pried>>

(* get of the lock's key erases it if it has expired. *)
LookUpLock ==
    /\ connected /\ lock.state = "expired"
    /\ lock' = NoLock
    /\ pried' = TRUE
    /\ UNCHANGED <<tiers, connected, pend, acquired, latest, mixed>>

NextTiers ==
    \/ \E t \in CacheThreads, k \in TierKeys : GetMiss(t, k)
    \/ \E t \in CacheThreads : GetRedis(t)
    \/ \E t \in CacheThreads : Promote(t)
    \/ \E t \in CacheThreads, k \in TierKeys, v \in TierValues : SetMem(t, k, v)
    \/ \E t \in CacheThreads, k \in TierKeys : DelMem(t, "del", {k})
    \/ \E t \in CacheThreads : DelMem(t, "clear", TierKeys)
    \/ \E t \in CacheThreads : WriteRedis(t)
    \/ LoseMem
    \/ \E k \in TierKeys : ExpireRedis(k)
    \/ \E k \in TierKeys : Expire(k)
    \/ Connect
    \/ Disconnect
    \/ Reinit
    \/ \E t \in CacheThreads : TryAcquire(t)
    \/ \E t \in CacheThreads : Release(t)
    \/ ExpireLock
    \/ LookUpLock

SpecTiers == InitTiers /\ [][NextTiers]_tierVars

-------------------------------------------------------------------------------
(* Every variable has its type. *)
TypeOKTiers ==
    /\ mem \in Memory!Contents
    /\ redis \in Memory!Contents
    /\ stale \subseteq TierKeys
    /\ connected \in BOOLEAN
    /\ pend \in [CacheThreads -> [op : {"none", "get", "promote"} \cup Writes,
                             keys : SUBSET TierKeys, val : TierValues \cup {Absent},
                             alone : BOOLEAN]]
    /\ lock \in [state : {"none", "fresh", "expired"}, by : CacheThreads \cup {Nobody}]
    /\ acquired \in [CacheThreads -> BOOLEAN]
    /\ latest \in Memory!Contents
    /\ mixed \subseteq TierKeys
    /\ pried \in BOOLEAN

(* What the tiers hold of a key nobody is writing is the value last set or  *)
(* nothing: neither an expired entry that comes back, nor a promotion, nor  *)
(* a reconnection shows an older value or one that was deleted.  It is not  *)
(* so for a key whose last write overlapped another operation on it, or did *)
(* not reach redis: nothing repairs the tiers before the next write.        *)
NeverStale ==
    \A k \in TierKeys \ mixed : ~Writing(k) =>
        /\ mem[k] \in {latest[k], Absent}
        /\ redis[k] \in {latest[k], Absent}

(* No two threads have the lock, until somebody erases an entry that is not *)
(* his: a get of the key after its ten seconds, a clear, or release() of a  *)
(* CacheLock other than the one that made the entry.  That is one whose     *)
(* try_acquire failed, one that never tried since it released, or one       *)
(* whose own entry was erased and replaced.                                 *)
LockExclusive ==
    ~pried => \A t, u \in CacheThreads : acquired[t] /\ acquired[u] => t = u

(* The invariant behind it: a thread that has the lock made its entry. *)
HolderMadeEntry ==
    ~pried => \A t \in CacheThreads : acquired[t] => lock.state # "none" /\ lock.by = t

===============================================================================
