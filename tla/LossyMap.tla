------------------------------- MODULE LossyMap -------------------------------
(***************************************************************************)
(* What a cache backend promises of the values it holds                    *)
(* (src/include/cache/cache.h, CacheBackend): a key holds the value last   *)
(* set for it or none; a value may be lost at any time, and then it is     *)
(* gone until the key is set again.                                        *)
(***************************************************************************)
CONSTANTS Keys, Values, None

VARIABLES
    store,   \* the value a reader finds
    writing  \* a set is in progress

Contents == [Keys -> Values \cup {None}]

Init == store = [k \in Keys |-> None] /\ writing = FALSE

(* Values that are not in kept may get lost, and no other value appears. *)
LoseAllBut(kept) ==
    /\ store' \in Contents
    /\ \A k \in Keys \ kept : store'[k] \in {store[k], None}

Put(k, v) ==
    /\ LoseAllBut({k})
    /\ store'[k] \in {v, None}

(* Whatever is not the start of a set. *)
Lose == LoseAllBut({}) /\ (writing' => writing)

BeginSet ==
    /\ ~writing /\ writing'
    /\ \E k \in Keys, v \in Values : Put(k, v)

Next == Lose \/ BeginSet

Spec == Init /\ [][Next]_<<store, writing>>

===============================================================================
