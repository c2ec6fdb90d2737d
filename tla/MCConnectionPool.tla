--------------------------- MODULE MCConnectionPool ---------------------------
(* Values for the run of ConnectionPool.                                    *)
EXTENDS ConnectionPool, TLC

CONSTANTS t1, t2, c1, c2, c3

TwoThreads == {t1, t2}
ThreeConns == {c1, c2, c3}
Symmetric == Permutations(TwoThreads) \cup Permutations(ThreeConns)

(* After a race nothing is claimed of the pool, and nothing is explored. *)
BeforeRace == "race" \notin causes

===============================================================================
