------------------------------- MODULE MCCaches --------------------------------
(***************************************************************************)
(* Values for the run of the caches.  TieredCache uses of the memory tier  *)
(* only what LossyMap promises, which is what the other half of the run    *)
(* shows of MemoryCache; a behaviour explores one of the two, with the     *)
(* other at rest.                                                          *)
(***************************************************************************)
EXTENDS MemoryCache, TieredCache

CONSTANTS e, a, v1, v2, t1, t2, k1

VARIABLE part

TwoKeys == {e, a}
TwoValues == {v1, v2}
TwoThreads == {t1, t2}
OneKey == {k1}
ValueBytes(k, v) == IF v = v1 THEN 1 ELSE 2

InitCaches ==
    /\ Init /\ InitTiers
    /\ part \in {"memory", "tiers"}
    /\ part = "tiers" => strategy = "LRU"

NextCaches ==
    \/ part = "memory" /\ Next /\ UNCHANGED <<tierVars, part>>
    \/ part = "tiers" /\ NextTiers /\ UNCHANGED <<vars, part>>

(* The thread that holds the mutex keeps running. *)
FairnessCaches ==
    /\ WF_vars(part = "memory" /\ EvictOne /\ UNCHANGED <<tierVars, part>>)
    /\ WF_vars(part = "memory" /\ EvictDone /\ UNCHANGED <<tierVars, part>>)

SpecCaches == InitCaches /\ [][NextCaches]_<<vars, tierVars, part>> /\ FairnessCaches

===============================================================================
