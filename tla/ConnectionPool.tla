----------------------------- MODULE ConnectionPool -----------------------------
(***************************************************************************)
(* ConnectionPool, Connection and Transaction (src/src/db/database.cpp).   *)
(*                                                                         *)
(* get_connection takes no mutex, so that its look at the last available   *)
(* connection, the pop_back and the push_back are three steps, between     *)
(* which other threads lend, return, idle out or close connections.  The   *)
(* other operations of the pool are one section under the mutex, but for   *)
(* the loop of check_connections.                                          *)
(*                                                                         *)
(* A thread has one Transaction object at a time.  It may begin it again,  *)
(* and use it after the pool was shut down: nothing in the code stops it.  *)
(***************************************************************************)
EXTENDS Naturals, Sequences, FiniteSets, SequencesExt

CONSTANTS
    Threads,   \* threads that use the pool
    Conns,     \* connections
    Limits,    \* values of max_connections_
    MaxDepth,  \* bound on transaction_depth_
    NoConn     \* a null pointer

ASSUME ConstantsAssumption ==
    /\ Limits \subseteq Nat /\ Limits # {}
    /\ MaxDepth \in Nat
    /\ NoConn \notin Conns

VARIABLES
    conn,       \* the connections
    available,  \* available_
    busy,       \* busy_: how often a connection is in it
    limit,      \* max_connections_
    tx,         \* the Transaction object of each thread
    pend,       \* the connection a thread is getting, or uses for one statement
    causes      \* history: what has happened that the pool does not guard against

vars == <<conn, available, busy, limit, tx, pend, causes>>

pool == <<conn, available, busy, limit>>

(* in is in_transaction_; save is the depth the savepoint remembers, 0 for  *)
(* no savepoint.                                                            *)
Connection == [up : BOOLEAN, in : BOOLEAN, depth : 0..MaxDepth, save : 0..MaxDepth]

New == [up |-> TRUE, in |-> FALSE, depth |-> 0, save |-> 0]

Fresh == [conn |-> NoConn, active |-> FALSE, committed |-> FALSE]

Idle == [at |-> "idle", for |-> "none", conn |-> NoConn]

Pooled == {available[i] : i \in DOMAIN available}

(* A connection nothing points to has been destroyed. *)
Referenced ==
    Pooled \cup {c \in Conns : busy[c] > 0}
           \cup {tx[t].conn : t \in Threads} \cup {pend[t].conn : t \in Threads}

(* init opens one connection, whatever the limit. *)
Init ==
    /\ conn = [c \in Conns |-> New]
    /\ \E c \in Conns : available = <<c>>
    /\ busy = [c \in Conns |-> 0]
    /\ limit \in Limits
    /\ tx = [t \in Threads |-> Fresh]
    /\ pend = [t \in Threads |-> Idle]
    /\ causes = {}

-------------------------------------------------------------------------------
(* What Connection does.                                                    *)
(*                                                                          *)
(* The definitions named ..._Faulty are variants with one mistake in them;  *)
(* no action uses them.  Each shows that a property notices that mistake.   *)
Begun(n) == [n EXCEPT !.in = TRUE, !.depth = IF n.in THEN @ + 1 ELSE 1]

RolledBack(n) == [n EXCEPT !.in = FALSE, !.depth = 0, !.save = 0]

Committed(n) == IF n.depth = 1 THEN RolledBack(n) ELSE [n EXCEPT !.depth = @ - 1]

(* disconnect rolls back first. *)
Closed(n) == [(IF n.in THEN RolledBack(n) ELSE n) EXCEPT !.up = FALSE]

Reconnected(n) == [n EXCEPT !.up = TRUE]

-------------------------------------------------------------------------------
(* get_connection: for a Transaction that begins, or for one statement.     *)
Uses == {"begin", "once"}

Getting(t, for) ==
    /\ pend[t] = Idle
    /\ for = "begin" => \A c \in Conns : conn[c].depth < MaxDepth

Look(t, for) ==
    /\ Getting(t, for)
    /\ available # <<>>
    /\ pend' = [pend EXCEPT ![t] =
                   [at |-> "pop", for |-> for, conn |-> available[Len(available)]]]
    /\ UNCHANGED <<pool, tx, causes>>

Create(t, for) ==
    /\ Getting(t, for)
    /\ available = <<>>
    /\ \E c \in Conns \ Referenced :
          /\ conn' = [conn EXCEPT ![c] = New]
          /\ pend' = [pend EXCEPT ![t] = [at |-> "take", for |-> for, conn |-> c]]
    /\ UNCHANGED <<available, busy, limit, tx, causes>>

Pop_Faulty(t) ==
    /\ pend[t].at = "pop"
    /\ pend' = [pend EXCEPT ![t].at = "take"]
    /\ UNCHANGED <<pool, tx, causes>>

(* pop_back drops what is last now; of an empty vector it is undefined.     *)
Pop(t) ==
    /\ pend[t].at = "pop"
    /\ LET last == Len(available)
       IN /\ available' = IF last = 0 THEN <<>> ELSE SubSeq(available, 1, last - 1)
          /\ causes' = IF last # 0 /\ available[last] = pend[t].conn
                       THEN causes ELSE causes \cup {"race"}
    /\ pend' = [pend EXCEPT ![t].at = "take"]
    /\ UNCHANGED <<conn, busy, limit, tx>>

(* begin overwrites conn_ and leaves committed_ as it is. *)
Restarted(x, c) == [x EXCEPT !.conn = c, !.active = TRUE]

Misuse(x) == (IF x.conn # NoConn THEN {"again"} ELSE {})
             \cup (IF x.committed THEN {"reused"} ELSE {})

Take(t) ==
    /\ pend[t].at = "take"
    /\ LET c == pend[t].conn
       IN /\ busy[c] < Cardinality(Threads)
          /\ busy' = [busy EXCEPT ![c] = @ + 1]
          /\ IF pend[t].for = "once"
             THEN /\ pend' = [pend EXCEPT ![t].at = "use"]
                  /\ UNCHANGED <<conn, tx, causes>>
             ELSE /\ conn[c].depth < MaxDepth
                  /\ pend' = [pend EXCEPT ![t] = Idle]
                  /\ conn' = [conn EXCEPT ![c] = Begun(@)]
                  /\ tx' = [tx EXCEPT ![t] = Restarted(@, c)]
                  /\ causes' = causes \cup Misuse(tx[t])
    /\ UNCHANGED <<available, limit>>

(* A connection that is open goes back, as long as there is room. *)
Keeps(n) == n.up /\ Len(available) < limit

Release_Faulty(c, n) ==
    /\ busy' = busy
    /\ available' = IF Keeps(n) THEN Append(available, c) ELSE available
    /\ conn' = [conn EXCEPT ![c] = IF Keeps(n) THEN n ELSE Closed(n)]

Release(c, n) ==
    /\ busy' = [busy EXCEPT ![c] = IF @ > 0 THEN @ - 1 ELSE 0]
    /\ available' = IF Keeps(n) THEN Append(available, c) ELSE available
    /\ conn' = [conn EXCEPT ![c] = IF Keeps(n) THEN n ELSE Closed(n)]

(* DatabaseManager::execute reconnects a closed connection, ping does not.  *)
OneStatement(t) ==
    /\ pend[t].at = "use"
    /\ LET c == pend[t].conn
       IN \E n \in {conn[c], Reconnected(conn[c])} : Release(c, n)
    /\ pend' = [pend EXCEPT ![t] = Idle]
    /\ UNCHANGED <<limit, tx, causes>>

-------------------------------------------------------------------------------
(* The Transaction object of a thread that is not in the middle of begin.   *)
Holds(t) == pend[t] = Idle /\ tx[t].conn # NoConn

Commit_Faulty(t) ==
    /\ Holds(t) /\ tx[t].active
    /\ conn[tx[t].conn].in
    /\ conn' = [conn EXCEPT ![tx[t].conn] = Committed(@)]
    /\ tx' = [tx EXCEPT ![t].committed = TRUE]
    /\ UNCHANGED <<available, busy, limit, pend, causes>>

Commit(t) ==
    /\ Holds(t) /\ tx[t].active
    /\ conn[tx[t].conn].in
    /\ conn' = [conn EXCEPT ![tx[t].conn] = Committed(@)]
    /\ tx' = [tx EXCEPT ![t].committed = TRUE, ![t].active = FALSE]
    /\ UNCHANGED <<available, busy, limit, pend, causes>>

Rollback(t) ==
    /\ Holds(t) /\ tx[t].active
    /\ conn[tx[t].conn].in
    /\ conn' = [conn EXCEPT ![tx[t].conn] = RolledBack(@)]
    /\ tx' = [tx EXCEPT ![t].active = FALSE]
    /\ UNCHANGED <<available, busy, limit, pend, causes>>

SetSavepoint(t) ==
    /\ Holds(t)
    /\ conn[tx[t].conn].in
    /\ conn' = [conn EXCEPT ![tx[t].conn].save = conn[tx[t].conn].depth]
    /\ UNCHANGED <<available, busy, limit, tx, pend, causes>>

RollbackToSavepoint(t) ==
    /\ Holds(t)
    /\ conn[tx[t].conn].save # 0
    /\ conn' = [conn EXCEPT ![tx[t].conn].depth = conn[tx[t].conn].save]
    /\ UNCHANGED <<available, busy, limit, tx, pend, causes>>

(* execute on a connection that was closed opens it again. *)
Execute(t) ==
    /\ Holds(t)
    /\ conn' = [conn EXCEPT ![tx[t].conn] = Reconnected(@)]
    /\ UNCHANGED <<available, busy, limit, tx, pend, causes>>

(* The destructor rolls back what is active and was never committed. *)
Unfinished_Faulty(x) == x.active /\ x.committed

Unfinished(x) == x.active /\ ~x.committed

Destroy(t) ==
    /\ Holds(t)
    /\ LET c == tx[t].conn
       IN Release(c, IF Unfinished(tx[t]) /\ conn[c].in THEN RolledBack(conn[c]) ELSE conn[c])
    /\ tx' = [tx EXCEPT ![t] = Fresh]
    /\ UNCHANGED <<limit, pend, causes>>

-------------------------------------------------------------------------------
(* shutdown closes the connections; nothing reads shutdown_ afterwards. *)
Shutdown ==
    /\ conn' = [c \in Conns |-> IF c \in Pooled \/ busy[c] > 0 THEN Closed(conn[c]) ELSE conn[c]]
    /\ available' = <<>>
    /\ busy' = [c \in Conns |-> 0]
    /\ causes' = causes \cup {"shutdown"}
    /\ UNCHANGED <<limit, tx, pend>>

(* A round of the loop that finds a connection idle for 300 seconds: as     *)
(* get_connection does not wait for the mutex, each erase is a step.        *)
CheckConnections(i) ==
    /\ conn' = [conn EXCEPT ![available[i]] = Closed(@)]
    /\ available' = RemoveAt(available, i)
    /\ UNCHANGED <<busy, limit, tx, pend, causes>>

SetMaxConnections(m) ==
    /\ limit' = m
    /\ UNCHANGED <<conn, available, busy, tx, pend, causes>>

Next ==
    \/ \E t \in Threads, for \in Uses : Look(t, for)
    \/ \E t \in Threads, for \in Uses : Create(t, for)
    \/ \E t \in Threads : Pop(t)
    \/ \E t \in Threads : Take(t)
    \/ \E t \in Threads : OneStatement(t)
    \/ \E t \in Threads : Commit(t)
    \/ \E t \in Threads : Rollback(t)
    \/ \E t \in Threads : SetSavepoint(t)
    \/ \E t \in Threads : RollbackToSavepoint(t)
    \/ \E t \in Threads : Execute(t)
    \/ \E t \in Threads : Destroy(t)
    \/ Shutdown
    \/ \E i \in DOMAIN available : CheckConnections(i)
    \/ \E m \in Limits : SetMaxConnections(m)

Spec == Init /\ [][Next]_vars

-------------------------------------------------------------------------------
(* Every variable has its type. *)
TypeOK ==
    /\ conn \in [Conns -> Connection]
    /\ available \in Seq(Conns)
    /\ busy \in [Conns -> Nat]
    /\ limit \in Limits
    /\ tx \in [Threads -> [conn : Conns \cup {NoConn}, active : BOOLEAN, committed : BOOLEAN]]
    /\ pend \in [Threads -> [at : {"idle", "pop", "take", "use"}, for : Uses \cup {"none"},
                             conn : Conns \cup {NoConn}]]
    /\ causes \subseteq {"race", "again", "reused", "shutdown"}

(* The threads that have connection c, in their Transaction or in a call    *)
(* of get_connection or execute that has taken it from the pool.            *)
Owners(c) == {t \in Threads : tx[t].conn = c}
Borrowers(c) == {t \in Threads : pend[t].conn = c /\ pend[t].at # "pop"}

(* A connection is lent to one user at a time and is not available          *)
(* meanwhile, also after a shutdown that emptied the pool under its users,  *)
(* unless two calls of get_connection, or one and another operation, met in *)
(* the unlocked section.                                                    *)
SoleOwner ==
    "race" \notin causes =>
        \A c \in Conns :
            /\ Cardinality(Owners(c)) + Cardinality(Borrowers(c)) <= 1
            /\ Owners(c) \cup Borrowers(c) # {} => c \notin Pooled
            /\ \A i, j \in DOMAIN available : available[i] = available[j] => i = j

(* A connection that is available is open and in no transaction: what its   *)
(* last user left undone cannot become part of the next one's transaction,  *)
(* unless a Transaction object that has committed was begun again, whose    *)
(* destructor does not roll back.                                           *)
PooledClean ==
    causes \cap {"race", "reused"} = {} =>
        \A c \in Pooled : conn[c].up /\ ~conn[c].in

(* A connection that is lent and has no user is lost to the pool for good:  *)
(* only a Transaction begun again before it was destroyed loses one.        *)
NoneLost ==
    causes \cap {"race", "again"} = {} =>
        \A c \in Conns : busy[c] > 0 => Owners(c) \cup Borrowers(c) # {}

(* The two fields that say whether a connection is in a transaction agree,  *)
(* and a savepoint lives in one.                                            *)
DepthAgrees ==
    \A c \in Conns : /\ conn[c].in <=> conn[c].depth > 0
                     /\ conn[c].save > 0 => conn[c].in

===============================================================================
