------------------------- MODULE ConnectionPoolProofs -------------------------
(***************************************************************************)
(* Proofs about ConnectionPool, for any number of threads and connections. *)
(*                                                                         *)
(* SoleOwner counts the users of a connection; what is inductive says it   *)
(* of every pair of them (Apart).  PooledClean is about connections that   *)
(* come back, so that Clean follows them while they are lent; NoneLost     *)
(* needs that a connection is in busy_ once at most (Counted).             *)
(***************************************************************************)
EXTENDS ConnectionPool, FiniteSetTheorems, SequenceTheorems, TLAPS

(* What holds whatever happens: a thread that is getting a connection has   *)
(* one, and the fields of a connection agree.                               *)
PendingSound ==
    \A t \in Threads :
        /\ pend[t].at = "idle" <=> pend[t] = Idle
        /\ pend[t].at # "idle" => pend[t].conn \in Conns /\ pend[t].for \in Uses
        /\ pend[t].at = "use" => pend[t].for = "once"

Agrees(n) == (n.in <=> n.depth > 0) /\ (n.save > 0 => n.in)

Basic == TypeOK /\ PendingSound /\ DepthAgrees

Borrows(t, c) == pend[t].conn = c /\ pend[t].at \in {"take", "use"}

(* No two users have the same connection, and none that is available.       *)
Apart ==
    \A c \in Conns :
        /\ \A t, u \in Threads : t # u => ~(tx[t].conn = c /\ tx[u].conn = c)
        /\ \A t, u \in Threads : t # u => ~(Borrows(t, c) /\ Borrows(u, c))
        /\ \A t, u \in Threads : ~(tx[t].conn = c /\ Borrows(u, c))
        /\ \A t \in Threads : tx[t].conn = c \/ Borrows(t, c) => c \notin Pooled

Distinct == \A i, j \in DOMAIN available : available[i] = available[j] => i = j

(* A connection in a transaction belongs to a Transaction object that will  *)
(* roll it back; transactions on one connection are not nested.             *)
Clean ==
    /\ \A c \in Conns : conn[c].depth <= 1 /\ conn[c].save <= 1
    /\ \A c \in Pooled : conn[c].up /\ ~conn[c].in
    /\ \A t \in Threads, c \in Conns : Borrows(t, c) => ~conn[c].in
    /\ \A t \in Threads, c \in Conns :
           tx[t].conn = c /\ conn[c].in => Unfinished(tx[t])

(* Who is in busy_. *)
Counted ==
    \A c \in Conns :
        busy[c] > 0 =>
            /\ busy[c] = 1
            /\ \E t \in Threads : tx[t].conn = c \/ (pend[t].conn = c /\ pend[t].at = "use")

PoolInv ==
    /\ Basic
    /\ "race" \notin causes => Apart /\ Distinct
    /\ causes \cap {"race", "reused"} = {} => Clean
    /\ causes \cap {"race", "again"} = {} => Counted

-------------------------------------------------------------------------------
(* What happens to available_.                                              *)
LEMMA PooledAre ==
    ASSUME NEW s \in Seq(Conns)
    PROVE  /\ DOMAIN s = 1..Len(s) /\ Len(s) \in Nat
           /\ \A i \in 1..Len(s) : s[i] \in Conns
OBVIOUS

LEMMA FrontOf ==
    ASSUME NEW s \in Seq(Conns), s # <<>>, NEW r, r = SubSeq(s, 1, Len(s) - 1)
    PROVE  /\ r \in Seq(Conns) /\ Len(s) \in 1..Len(s) /\ Len(r) = Len(s) - 1
           /\ \A i \in 1..Len(r) : i \in 1..(Len(s) - 1) /\ r[i] = s[i]
<1> DEFINE n == Len(s) - 1
<1>1. Len(s) \in Nat /\ Len(s) # 0
    BY EmptySeq
<1>2. n \in Nat /\ \A i \in 1..n : s[i] \in Conns
    BY <1>1
<1>3. /\ r \in Seq(Conns)
      /\ Len(r) = IF 1 <= n THEN n - 1 + 1 ELSE 0
      /\ \A i \in 1..(n - 1 + 1) : r[i] = s[1 + i - 1]
    <2>1. r = SubSeq(s, 1, n)
        OBVIOUS
    <2> HIDE DEF n
    <2> QED
        BY <1>2, <2>1, SubSeqProperties
<1>4. n = Len(s) - 1 /\ Len(r) = n /\ \A i \in 1..n : r[i] = s[i]
    <2>1. n = Len(s) - 1
        OBVIOUS
    <2> HIDE DEF n
    <2> QED
        BY <1>2, <1>3, <2>1
<1> HIDE DEF n
<1> QED
    BY <1>1, <1>3, <1>4

LEMMA RemovedFrom ==
    ASSUME NEW s \in Seq(Conns), NEW k \in 1..Len(s), NEW r, r = RemoveAt(s, k)
    PROVE  /\ r \in Seq(Conns) /\ Len(r) = Len(s) - 1
           /\ \A i \in 1..Len(r) : r[i] = IF i < k THEN s[i] ELSE s[i + 1]
<1> DEFINE a == SubSeq(s, 1, k - 1)
           b == SubSeq(s, k + 1, Len(s))
           n == k - 1
           m == k + 1
<1>1. /\ Len(s) \in Nat /\ k \in Nat /\ k >= 1 /\ k <= Len(s)
      /\ \A i \in 1..Len(s) : s[i] \in Conns
    OBVIOUS
<1>2. a \in Seq(Conns) /\ Len(a) = k - 1 /\ \A i \in 1..(k - 1) : a[i] = s[i]
    <2>1. n \in Nat /\ \A i \in 1..n : s[i] \in Conns
        BY <1>1
    <2>2. a = SubSeq(s, 1, n)
        OBVIOUS
    <2>3. /\ a \in Seq(Conns)
          /\ Len(a) = IF 1 <= n THEN n - 1 + 1 ELSE 0
          /\ \A i \in 1..(n - 1 + 1) : a[i] = s[1 + i - 1]
        <3> HIDE DEF n, a
        <3> QED
            BY <2>1, <2>2, SubSeqProperties
    <2>4. n = k - 1
        OBVIOUS
    <2> HIDE DEF n, a
    <2> QED
        BY <2>1, <2>3, <2>4
<1>3. /\ b \in Seq(Conns) /\ Len(b) = Len(s) - k
      /\ \A i \in 1..(Len(s) - k) : b[i] = s[k + i]
    <2>1. m \in Nat /\ \A i \in m..Len(s) : s[i] \in Conns
        BY <1>1
    <2>2. b = SubSeq(s, m, Len(s))
        OBVIOUS
    <2>3. /\ b \in Seq(Conns)
          /\ Len(b) = IF m <= Len(s) THEN Len(s) - m + 1 ELSE 0
          /\ \A i \in 1..(Len(s) - m + 1) : b[i] = s[m + i - 1]
        <3> HIDE DEF m, b
        <3> QED
            BY <1>1, <2>1, <2>2, SubSeqProperties
    <2>4. m = k + 1
        OBVIOUS
    <2> HIDE DEF m, b
    <2> QED
        BY <1>1, <2>1, <2>3, <2>4
<1>4. r = a \o b
    BY DEF RemoveAt
<1> HIDE DEF a, b, n, m
<1>5. /\ r \in Seq(Conns) /\ Len(r) = Len(a) + Len(b)
      /\ \A i \in 1..(Len(a) + Len(b)) : r[i] = IF i <= Len(a) THEN a[i] ELSE b[i - Len(a)]
    <2>1. /\ a \o b \in Seq(Conns) /\ Len(a \o b) = Len(a) + Len(b)
          /\ \A i \in 1..(Len(a) + Len(b)) :
                 (a \o b)[i] = IF i <= Len(a) THEN a[i] ELSE b[i - Len(a)]
        BY <1>2, <1>3, ConcatProperties
    <2> QED
        BY <1>4, <2>1
<1>6. Len(r) = Len(s) - 1 /\ Len(a) + Len(b) = Len(s) - 1
    BY <1>1, <1>2, <1>3, <1>5
<1>7. ASSUME NEW i \in 1..Len(r)
      PROVE  r[i] = IF i < k THEN s[i] ELSE s[i + 1]
    <2>1. CASE i < k
        BY <1>1, <1>2, <1>5, <1>6, <2>1
    <2>2. CASE ~(i < k)
        <3>1. i \in Nat /\ i - (k - 1) \in 1..(Len(s) - k) /\ k + (i - (k - 1)) = i + 1
            BY <1>1, <1>6, <2>2
        <3>2. r[i] = b[i - (k - 1)]
            BY <1>1, <1>2, <1>5, <1>6, <2>2
        <3> QED
            BY <1>3, <2>2, <3>1, <3>2
    <2> QED
        BY <2>1, <2>2
<1> QED
    BY <1>5, <1>6, <1>7

(* pop_back takes out the last, and only that.                              *)
LEMMA PopEffect ==
    ASSUME TypeOK, available # <<>>,
           available' = SubSeq(available, 1, Len(available) - 1)
    PROVE  /\ available' \in Seq(Conns)
           /\ Pooled' \subseteq Pooled
           /\ available[Len(available)] \in Pooled
           /\ Distinct => Distinct' /\ available[Len(available)] \notin Pooled'
<1>1. /\ available \in Seq(Conns) /\ Len(available) \in Nat
      /\ DOMAIN available = 1..Len(available)
    BY DEF TypeOK
<1>2. /\ available' \in Seq(Conns) /\ Len(available) \in 1..Len(available)
      /\ Len(available') = Len(available) - 1
      /\ \A i \in 1..Len(available') :
             i \in 1..(Len(available) - 1) /\ available'[i] = available[i]
    BY <1>1, FrontOf
<1>3. DOMAIN available' = 1..Len(available')
    BY <1>2
<1>4. Pooled' \subseteq Pooled /\ available[Len(available)] \in Pooled
    BY <1>1, <1>2, <1>3 DEF Pooled
<1>5. ASSUME Distinct PROVE Distinct' /\ available[Len(available)] \notin Pooled'
    BY <1>1, <1>2, <1>3, <1>5 DEF Pooled, Distinct
<1> QED
    BY <1>2, <1>4, <1>5

(* An erase takes out the one at its position, and only that.               *)
LEMMA EraseEffect ==
    ASSUME TypeOK, NEW k \in DOMAIN available, available' = RemoveAt(available, k)
    PROVE  /\ available' \in Seq(Conns)
           /\ Pooled' \subseteq Pooled
           /\ available[k] \in Pooled /\ available[k] \in Conns
           /\ Distinct => Distinct' /\ available[k] \notin Pooled'
<1>1. /\ available \in Seq(Conns) /\ Len(available) \in Nat
      /\ DOMAIN available = 1..Len(available) /\ k \in 1..Len(available)
    BY DEF TypeOK
<1>2. /\ available' \in Seq(Conns) /\ Len(available') = Len(available) - 1
      /\ \A i \in 1..Len(available') :
             available'[i] = IF i < k THEN available[i] ELSE available[i + 1]
    BY <1>1, RemovedFrom
<1>3. DOMAIN available' = 1..Len(available')
    BY <1>2
<1> DEFINE from(i) == IF i < k THEN i ELSE i + 1
<1>4. \A i \in DOMAIN available' :
          /\ from(i) \in DOMAIN available /\ available'[i] = available[from(i)]
          /\ from(i) # k
    BY <1>1, <1>2, <1>3
<1>5. \A i, j \in DOMAIN available' : from(i) = from(j) => i = j
    BY <1>2, <1>3
<1> HIDE DEF from
<1>6. Pooled' \subseteq Pooled
    BY <1>4 DEF Pooled
<1>7. available[k] \in Pooled /\ available[k] \in Conns
    BY <1>1 DEF Pooled
<1>8. ASSUME Distinct PROVE Distinct' /\ available[k] \notin Pooled'
    BY <1>4, <1>5, <1>8 DEF Pooled, Distinct
<1> QED
    BY <1>2, <1>6, <1>7, <1>8

(* What Connection's operations make of a connection.                       *)
LEMMA Fields ==
    ASSUME NEW n \in Connection
    PROVE  /\ n.up \in BOOLEAN /\ n.in \in BOOLEAN
           /\ n.depth \in Nat /\ n.depth <= MaxDepth
           /\ n.save \in Nat /\ n.save <= MaxDepth
    BY ConstantsAssumption DEF Connection

LEMMA RolledBackIs ==
    ASSUME NEW n \in Connection
    PROVE  /\ RolledBack(n) \in Connection
           /\ RolledBack(n).up = n.up /\ ~RolledBack(n).in
           /\ RolledBack(n).depth = 0 /\ RolledBack(n).save = 0
<1>1. 0 \in 0..MaxDepth
    BY ConstantsAssumption
<1>2. RolledBack(n) \in Connection
    BY <1>1, Zenon DEF RolledBack, Connection
<1>3. /\ RolledBack(n).up = n.up /\ ~RolledBack(n).in
      /\ RolledBack(n).depth = 0 /\ RolledBack(n).save = 0
    BY DEF RolledBack, Connection
<1> QED
    BY <1>2, <1>3

LEMMA BegunIs ==
    ASSUME NEW n \in Connection, n.depth < MaxDepth
    PROVE  /\ Begun(n) \in Connection
           /\ Begun(n).up = n.up /\ Begun(n).in /\ Begun(n).save = n.save
           /\ Begun(n).depth = IF n.in THEN n.depth + 1 ELSE 1
<1>1. (IF n.in THEN n.depth + 1 ELSE 1) \in 0..MaxDepth
    BY Fields, ConstantsAssumption
<1>2. Begun(n) \in Connection
    BY <1>1, Zenon DEF Begun, Connection
<1>3. /\ Begun(n).up = n.up /\ Begun(n).in /\ Begun(n).save = n.save
      /\ Begun(n).depth = IF n.in THEN n.depth + 1 ELSE 1
    BY DEF Begun, Connection
<1> QED
    BY <1>2, <1>3

LEMMA CommittedIs ==
    ASSUME NEW n \in Connection, n.depth > 0
    PROVE  /\ Committed(n) \in Connection
           /\ n.depth = 1 => Committed(n) = RolledBack(n)
           /\ n.depth # 1 => /\ Committed(n).up = n.up /\ Committed(n).in = n.in
                             /\ Committed(n).save = n.save
                             /\ Committed(n).depth = n.depth - 1
<1>1. n.depth - 1 \in 0..MaxDepth
    BY Fields, ConstantsAssumption
<1>2. CASE n.depth = 1
    BY <1>2, RolledBackIs DEF Committed
<1>3. CASE n.depth # 1
    <2>1. [n EXCEPT !.depth = n.depth - 1] \in Connection
        BY <1>1, Zenon DEF Connection
    <2> QED
        BY <1>3, <2>1 DEF Committed, Connection
<1> QED
    BY <1>2, <1>3

LEMMA ClosedIs ==
    ASSUME NEW n \in Connection
    PROVE  /\ Closed(n) \in Connection
           /\ ~Closed(n).up /\ ~Closed(n).in
           /\ n.in => Closed(n).depth = 0 /\ Closed(n).save = 0
           /\ ~n.in => Closed(n).depth = n.depth /\ Closed(n).save = n.save
<1>1. ASSUME NEW m \in Connection
      PROVE  /\ [m EXCEPT !.up = FALSE] \in Connection
             /\ ~[m EXCEPT !.up = FALSE].up
             /\ [m EXCEPT !.up = FALSE].in = m.in
             /\ [m EXCEPT !.up = FALSE].depth = m.depth
             /\ [m EXCEPT !.up = FALSE].save = m.save
    <2>1. [m EXCEPT !.up = FALSE] \in Connection
        BY Zenon DEF Connection
    <2> QED
        BY <2>1 DEF Connection
<1>2. CASE n.in
    BY <1>1, <1>2, RolledBackIs DEF Closed
<1>3. CASE ~n.in
    BY <1>1, <1>3 DEF Closed
<1> QED
    BY <1>2, <1>3

LEMMA ReconnectedIs ==
    ASSUME NEW n \in Connection
    PROVE  /\ Reconnected(n) \in Connection
           /\ Reconnected(n).up /\ Reconnected(n).in = n.in
           /\ Reconnected(n).depth = n.depth /\ Reconnected(n).save = n.save
<1>1. Reconnected(n) \in Connection
    BY Zenon DEF Reconnected, Connection
<1> QED
    BY <1>1 DEF Reconnected, Connection

LEMMA NewIs ==
    /\ New \in Connection
    /\ New.up /\ ~New.in /\ New.depth = 0 /\ New.save = 0
    BY ConstantsAssumption DEF New, Connection

(* release_connection: the connection goes back open and as it is, or it is *)
(* closed and gone.                                                         *)
LEMMA ReleaseEffect ==
    ASSUME TypeOK, NEW c \in Conns, NEW n \in Connection, Release(c, n)
    PROVE  /\ available' \in Seq(Conns)
           /\ Pooled' \subseteq Pooled \cup {c}
           /\ c \in Pooled' /\ c \notin Pooled => conn'[c] = n /\ n.up
           /\ Distinct /\ c \notin Pooled => Distinct'
           /\ conn' \in [Conns -> Connection]
           /\ conn'[c] \in {n, Closed(n)}
           /\ \A d \in Conns : d # c => conn'[d] = conn[d]
           /\ busy' \in [Conns -> Nat]
           /\ busy'[c] = IF busy[c] > 0 THEN busy[c] - 1 ELSE 0
           /\ \A d \in Conns : d # c => busy'[d] = busy[d]
<1>1. /\ available \in Seq(Conns) /\ Len(available) \in Nat
      /\ DOMAIN available = 1..Len(available)
      /\ conn \in [Conns -> Connection]
    BY DEF TypeOK
<1>2. /\ busy' \in [Conns -> Nat]
      /\ busy'[c] = IF busy[c] > 0 THEN busy[c] - 1 ELSE 0
      /\ \A d \in Conns : d # c => busy'[d] = busy[d]
    BY DEF TypeOK, Release
<1>3. CASE Keeps(n)
    <2>1. available' = Append(available, c) /\ conn' = [conn EXCEPT ![c] = n] /\ n.up
        BY <1>3 DEF Release, Keeps
    <2>2. /\ available' \in Seq(Conns) /\ Len(available') = Len(available) + 1
          /\ available'[Len(available) + 1] = c
          /\ \A i \in 1..Len(available) : available'[i] = available[i]
        BY <1>1, <2>1, AppendProperties
    <2>3. DOMAIN available' = 1..(Len(available) + 1)
        BY <2>2
    <2>4. \A i \in DOMAIN available' :
              \/ i \in DOMAIN available /\ available'[i] = available[i]
              \/ i = Len(available) + 1 /\ available'[i] = c
        BY <1>1, <2>2, <2>3
    <2>5. Pooled' \subseteq Pooled \cup {c}
        BY <2>4 DEF Pooled
    <2>6. Distinct /\ c \notin Pooled => Distinct'
        BY <2>4 DEF Pooled, Distinct
    <2>7. /\ conn' \in [Conns -> Connection] /\ conn'[c] = n
          /\ \A d \in Conns : d # c => conn'[d] = conn[d]
        BY <1>1, <2>1
    <2> QED
        BY <1>2, <2>1, <2>2, <2>5, <2>6, <2>7
<1>4. CASE ~Keeps(n)
    <2>1. available' = available /\ conn' = [conn EXCEPT ![c] = Closed(n)]
        BY <1>4 DEF Release
    <2>2. /\ conn' \in [Conns -> Connection] /\ conn'[c] = Closed(n)
          /\ \A d \in Conns : d # c => conn'[d] = conn[d]
        BY <1>1, <2>1, ClosedIs
    <2>3. Pooled' = Pooled /\ (Distinct => Distinct')
        BY <2>1 DEF Pooled, Distinct
    <2> QED
        BY <1>1, <1>2, <2>1, <2>2, <2>3
<1> QED
    BY <1>3, <1>4

-------------------------------------------------------------------------------
(* Who has a connection.  Where users only give up what they have, and what *)
(* they give up may become available, they stay apart.                      *)
LEMMA ApartShrinks ==
    ASSUME Apart,
           \A t \in Threads, c \in Conns : tx'[t].conn = c => tx[t].conn = c,
           \A t \in Threads, c \in Conns : Borrows(t, c)' => Borrows(t, c),
           \A c \in Conns : c \in Pooled' =>
               \/ c \in Pooled
               \/ \A t \in Threads : tx'[t].conn # c /\ ~Borrows(t, c)'
    PROVE  Apart'
    BY DEF Apart

(* A connection that nobody has and that is not available gets a user.      *)
LEMMA ApartGrows ==
    ASSUME Apart, NEW t \in Threads, NEW c \in Conns,
           \A u \in Threads : tx[u].conn # c /\ ~Borrows(u, c),
           c \notin Pooled', Pooled' \subseteq Pooled,
           tx' = tx,
           \A u \in Threads, d \in Conns : Borrows(u, d)' =>
               Borrows(u, d) \/ (u = t /\ d = c)
    PROVE  Apart'
    BY DEF Apart

(* The new user keeps it in its Transaction.                                *)
LEMMA ApartMoves ==
    ASSUME Apart, NEW t \in Threads, NEW c \in Conns, Borrows(t, c),
           Pooled' = Pooled,
           \A u \in Threads, d \in Conns : tx'[u].conn = d =>
               tx[u].conn = d \/ (u = t /\ d = c),
           \A u \in Threads, d \in Conns : Borrows(u, d)' => Borrows(u, d) /\ u # t
    PROVE  Apart'
    BY DEF Apart

LEMMA Wording ==
    ASSUME Basic
    PROVE  /\ \A t \in Threads : pend[t] = Idle => \A c \in Conns : ~Borrows(t, c)
           /\ \A t \in Threads : pend[t].at = "pop" => \A c \in Conns : ~Borrows(t, c)
           /\ NoConn \notin Conns
           /\ \A c \in Conns : conn[c] \in Connection /\ Agrees(conn[c])
           /\ \A t \in Threads : tx[t].conn # NoConn => tx[t].conn \in Conns
           /\ \A t \in Threads, c \in Conns : Borrows(t, c) => c = pend[t].conn
    BY ConstantsAssumption DEF Basic, TypeOK, DepthAgrees, Agrees, Borrows, Idle

-------------------------------------------------------------------------------
(* The operations of a Transaction on the connection it has.                *)
LEMMA OwnStep ==
    ASSUME PoolInv, NEW t \in Threads, Holds(t),
           NEW c, c = tx[t].conn, NEW n \in Connection, Agrees(n),
           conn' = [conn EXCEPT ![c] = n],
           NEW x \in [conn : Conns \cup {NoConn}, active : BOOLEAN, committed : BOOLEAN],
           x.conn = c, tx' = [tx EXCEPT ![t] = x],
           UNCHANGED <<available, busy, limit, pend, causes>>,
           Clean => n.depth <= 1 /\ n.save <= 1 /\ (n.in => Unfinished(x))
    PROVE  PoolInv'
<1>1. /\ Basic /\ c \in Conns
      /\ conn \in [Conns -> Connection]
      /\ tx \in [Threads -> [conn : Conns \cup {NoConn}, active : BOOLEAN, committed : BOOLEAN]]
    BY Wording DEF PoolInv, Basic, TypeOK, Holds
<1>2. /\ conn' \in [Conns -> Connection] /\ conn'[c] = n
      /\ \A d \in Conns : d # c => conn'[d] = conn[d]
    BY <1>1
<1>3. /\ tx' \in [Threads -> [conn : Conns \cup {NoConn}, active : BOOLEAN,
                              committed : BOOLEAN]]
      /\ tx'[t] = x
      /\ \A u \in Threads : u # t => tx'[u] = tx[u]
    BY <1>1
<1>4. \A u \in Threads : tx'[u].conn = tx[u].conn
    BY <1>3
<1>5. Pooled' = Pooled /\ \A u \in Threads, d \in Conns : Borrows(u, d)' = Borrows(u, d)
    BY DEF Pooled, Borrows
<1>6. Basic'
    <2>1. TypeOK'
        BY <1>1, <1>2, <1>3 DEF Basic, TypeOK
    <2>2. PendingSound'
        BY <1>1 DEF Basic, PendingSound
    <2>3. DepthAgrees'
        BY <1>1, <1>2 DEF Basic, DepthAgrees, Agrees
    <2> QED
        BY <2>1, <2>2, <2>3 DEF Basic
<1>7. ASSUME "race" \notin causes' PROVE Apart' /\ Distinct'
    BY <1>4, <1>5, <1>7, ApartShrinks DEF PoolInv, Distinct
<1>8. ASSUME causes' \cap {"race", "reused"} = {} PROVE Clean'
    <2>1. Clean /\ Apart
        BY <1>8 DEF PoolInv
    <2>2. c \notin Pooled /\ \A u \in Threads : ~Borrows(u, c)
        BY <1>1, <2>1 DEF Apart
    <2>3. \A d \in Conns : conn'[d].depth <= 1 /\ conn'[d].save <= 1
        BY <1>2, <2>1 DEF Clean
    <2>4. Pooled \subseteq Conns
        BY <1>1 DEF Basic, TypeOK, Pooled
    <2>5. \A d \in Pooled' : conn'[d].up /\ ~conn'[d].in
        BY <1>2, <1>5, <2>1, <2>2, <2>4 DEF Clean
    <2>6. \A u \in Threads, d \in Conns : Borrows(u, d)' => ~conn'[d].in
        BY <1>2, <1>5, <2>1, <2>2 DEF Clean
    <2>7. ASSUME NEW u \in Threads, NEW d \in Conns, tx'[u].conn = d, conn'[d].in
          PROVE  Unfinished(tx'[u])
        <3>1. CASE u = t
            BY <1>2, <1>3, <2>1, <2>7, <3>1
        <3>2. CASE u # t
            <4>1. tx[u].conn = d /\ d # c
                BY <1>3, <1>1, <2>1, <2>7, <3>2 DEF Apart
            <4> QED
                BY <1>2, <1>3, <2>1, <2>7, <3>2, <4>1 DEF Clean
        <3> QED
            BY <3>1, <3>2
    <2> QED
        BY <2>3, <2>5, <2>6, <2>7 DEF Clean
<1>9. ASSUME causes' \cap {"race", "again"} = {} PROVE Counted'
    BY <1>4, <1>9 DEF PoolInv, Counted
<1> QED
    BY <1>6, <1>7, <1>8, <1>9 DEF PoolInv

LEMMA Objects ==
    ASSUME PoolInv, NEW t \in Threads, Holds(t)
    PROVE  /\ tx[t].conn \in Conns
           /\ tx \in [Threads -> [conn : Conns \cup {NoConn}, active : BOOLEAN,
                                  committed : BOOLEAN]]
           /\ tx[t] \in [conn : Conns \cup {NoConn}, active : BOOLEAN, committed : BOOLEAN]
           /\ tx = [tx EXCEPT ![t] = tx[t]]
           /\ conn[tx[t].conn] \in Connection /\ Agrees(conn[tx[t].conn])
           /\ Clean => /\ conn[tx[t].conn].depth <= 1
                       /\ conn[tx[t].conn].save <= 1
                       /\ conn[tx[t].conn].in => Unfinished(tx[t])
<1>1. Basic /\ tx[t].conn \in Conns
    BY Wording DEF PoolInv, Holds
<1>2. conn[tx[t].conn] \in Connection /\ Agrees(conn[tx[t].conn])
    BY <1>1, Wording
<1> QED
    BY <1>1, <1>2 DEF Basic, TypeOK, Clean

LEMMA CommitKeeps ==
    ASSUME PoolInv, NEW t \in Threads, Commit(t)
    PROVE  PoolInv'
<1> DEFINE n == conn[tx[t].conn]
           x == [tx[t] EXCEPT !.committed = TRUE, !.active = FALSE]
<1>1. Holds(t) /\ n.in
    BY DEF Commit
<1>2. n \in Connection /\ Agrees(n) /\ n.depth > 0 /\ n.depth \in Nat
    BY <1>1, Objects, Fields DEF Agrees
<1>3. Committed(n) \in Connection /\ Agrees(Committed(n))
    <2>1. CASE n.depth = 1
        BY <1>2, <2>1, CommittedIs, RolledBackIs DEF Agrees
    <2>2. CASE n.depth # 1
        <3>1. n.depth - 1 > 0
            BY <1>2, <2>2
        <3> QED
            BY <1>1, <1>2, <2>2, <3>1, CommittedIs DEF Agrees
    <2> QED
        BY <2>1, <2>2
<1>4. /\ x \in [conn : Conns \cup {NoConn}, active : BOOLEAN, committed : BOOLEAN]
      /\ x.conn = tx[t].conn
    BY <1>1, Objects
<1>5. ASSUME Clean
      PROVE  /\ Committed(n).depth <= 1 /\ Committed(n).save <= 1
             /\ ~Committed(n).in
    <2>1. n.depth = 1
        BY <1>1, <1>2, <1>5, Objects
    <2> QED
        BY <1>2, <2>1, CommittedIs, RolledBackIs
<1>6. /\ conn' = [conn EXCEPT ![tx[t].conn] = Committed(n)]
      /\ tx' = [tx EXCEPT ![t] = x]
      /\ UNCHANGED <<available, busy, limit, pend, causes>>
    BY DEF Commit
<1> HIDE DEF n, x
<1> QED
    BY <1>1, <1>3, <1>4, <1>5, <1>6, OwnStep

LEMMA RollbackKeeps ==
    ASSUME PoolInv, NEW t \in Threads, Rollback(t)
    PROVE  PoolInv'
<1> DEFINE n == RolledBack(conn[tx[t].conn])
           x == [tx[t] EXCEPT !.active = FALSE]
<1>1. Holds(t)
    BY DEF Rollback
<1>2. n \in Connection /\ Agrees(n) /\ n.depth <= 1 /\ n.save <= 1 /\ ~n.in
    BY <1>1, Objects, RolledBackIs DEF Agrees
<1>3. /\ x \in [conn : Conns \cup {NoConn}, active : BOOLEAN, committed : BOOLEAN]
      /\ x.conn = tx[t].conn
    BY <1>1, Objects
<1>4. /\ conn' = [conn EXCEPT ![tx[t].conn] = n]
      /\ tx' = [tx EXCEPT ![t] = x]
      /\ UNCHANGED <<available, busy, limit, pend, causes>>
    BY DEF Rollback
<1> HIDE DEF n, x
<1> QED
    BY <1>1, <1>2, <1>3, <1>4, OwnStep

(* The operations that leave the Transaction object as it is.               *)
LEMMA SameObject ==
    ASSUME PoolInv, NEW t \in Threads, Holds(t), NEW n \in Connection, Agrees(n),
           conn' = [conn EXCEPT ![tx[t].conn] = n],
           tx' = [tx EXCEPT ![t] = tx[t]],
           UNCHANGED <<available, busy, limit, pend, causes>>,
           n.in => conn[tx[t].conn].in,
           Clean => n.depth <= 1 /\ n.save <= 1
    PROVE  PoolInv'
<1> DEFINE x == tx[t]
<1>1. /\ tx' = [tx EXCEPT ![t] = x] /\ x.conn = tx[t].conn
      /\ x \in [conn : Conns \cup {NoConn}, active : BOOLEAN, committed : BOOLEAN]
      /\ Clean /\ n.in => Unfinished(x)
    BY Objects
<1>2. Clean => n.depth <= 1 /\ n.save <= 1 /\ (n.in => Unfinished(x))
    BY <1>1
<1> HIDE DEF x
<1> QED
    BY <1>1, <1>2, OwnStep DEF Unfinished

LEMMA SavepointKeeps ==
    ASSUME PoolInv, NEW t \in Threads, SetSavepoint(t) \/ RollbackToSavepoint(t)
    PROVE  PoolInv'
<1> DEFINE n == conn[tx[t].conn]
<1>1. Holds(t)
    BY DEF SetSavepoint, RollbackToSavepoint
<1>2. n \in Connection /\ Agrees(n) /\ (Clean => n.depth <= 1 /\ n.save <= 1)
    BY <1>1, Objects
<1>3. n.depth \in 0..MaxDepth /\ n.save \in 0..MaxDepth
    BY <1>2 DEF Connection
<1>4. CASE SetSavepoint(t)
    <2> DEFINE m == [n EXCEPT !.save = n.depth]
    <2>1. n.in /\ conn' = [conn EXCEPT ![tx[t].conn] = m]
          /\ tx' = [tx EXCEPT ![t] = tx[t]]
          /\ UNCHANGED <<available, busy, limit, pend, causes>>
        BY <1>1, <1>4, Objects DEF SetSavepoint
    <2>2. m \in Connection
        BY <1>2, <1>3, Zenon DEF Connection
    <2>3. m.in = n.in /\ m.depth = n.depth /\ m.save = n.depth
        BY <1>2 DEF Connection
    <2>4. Agrees(m) /\ (Clean => m.depth <= 1 /\ m.save <= 1)
        BY <1>2, <2>1, <2>3 DEF Agrees
    <2> HIDE DEF m
    <2> QED
        BY <1>1, <2>1, <2>2, <2>3, <2>4, SameObject
<1>5. CASE RollbackToSavepoint(t)
    <2> DEFINE m == [n EXCEPT !.depth = n.save]
    <2>1. n.save # 0 /\ conn' = [conn EXCEPT ![tx[t].conn] = m]
          /\ tx' = [tx EXCEPT ![t] = tx[t]]
          /\ UNCHANGED <<available, busy, limit, pend, causes>>
        BY <1>1, <1>5, Objects DEF RollbackToSavepoint
    <2>2. m \in Connection
        BY <1>2, <1>3, Zenon DEF Connection
    <2>3. m.in = n.in /\ m.depth = n.save /\ m.save = n.save
        BY <1>2 DEF Connection
    <2>4. n.save > 0 /\ n.in
        BY <1>2, <1>3, <2>1, ConstantsAssumption DEF Agrees
    <2>5. Agrees(m) /\ (Clean => m.depth <= 1 /\ m.save <= 1)
        BY <1>2, <2>3, <2>4 DEF Agrees
    <2> HIDE DEF m
    <2> QED
        BY <1>1, <2>1, <2>2, <2>3, <2>5, SameObject
<1> QED
    BY <1>4, <1>5

LEMMA ExecuteKeeps ==
    ASSUME PoolInv, NEW t \in Threads, Execute(t)
    PROVE  PoolInv'
<1> DEFINE n == conn[tx[t].conn]
           m == Reconnected(n)
<1>1. Holds(t)
    BY DEF Execute
<1>2. n \in Connection /\ Agrees(n) /\ (Clean => n.depth <= 1 /\ n.save <= 1)
    BY <1>1, Objects
<1>3. /\ m \in Connection /\ Agrees(m) /\ m.in = n.in
      /\ Clean => m.depth <= 1 /\ m.save <= 1
    BY <1>2, ReconnectedIs DEF Agrees
<1>4. /\ conn' = [conn EXCEPT ![tx[t].conn] = m]
      /\ tx' = [tx EXCEPT ![t] = tx[t]]
      /\ UNCHANGED <<available, busy, limit, pend, causes>>
    BY <1>1, Objects DEF Execute
<1> HIDE DEF m
<1> QED
    BY <1>1, <1>3, <1>4, SameObject

-------------------------------------------------------------------------------
(* get_connection.                                                          *)
Pend == [at : {"idle", "pop", "take", "use"}, for : Uses \cup {"none"},
         conn : Conns \cup {NoConn}]

(* What changes pend[t] alone keeps what is said of every pend[t].          *)
LEMMA PendStep ==
    ASSUME Basic, NEW t \in Threads, NEW p \in Pend, pend' = [pend EXCEPT ![t] = p],
           p.at = "idle" <=> p = Idle,
           p.at # "idle" => p.conn \in Conns /\ p.for \in Uses,
           p.at = "use" => p.for = "once"
    PROVE  /\ pend' \in [Threads -> Pend] /\ PendingSound'
           /\ pend'[t] = p /\ \A u \in Threads : u # t => pend'[u] = pend[u]
           /\ \A u \in Threads, d \in Conns :
                  u # t => (Borrows(u, d)' <=> Borrows(u, d))
           /\ \A d \in Conns :
                  Borrows(t, d)' <=> p.conn = d /\ p.at \in {"take", "use"}
<1>1. /\ pend' \in [Threads -> Pend]
      /\ pend'[t] = p /\ \A u \in Threads : u # t => pend'[u] = pend[u]
    BY DEF Basic, TypeOK, Pend
<1>2. PendingSound'
    BY <1>1 DEF Basic, PendingSound, Idle
<1>3. \A u \in Threads, d \in Conns : u # t => (Borrows(u, d)' <=> Borrows(u, d))
    BY <1>1 DEF Borrows
<1>4. \A d \in Conns : Borrows(t, d)' <=> p.conn = d /\ p.at \in {"take", "use"}
    BY <1>1 DEF Borrows
<1> QED
    BY <1>1, <1>2, <1>3, <1>4

LEMMA LookKeeps ==
    ASSUME PoolInv, NEW t \in Threads, NEW for \in Uses, Look(t, for)
    PROVE  PoolInv'
<1> DEFINE p == [at |-> "pop", for |-> for, conn |-> available[Len(available)]]
<1>1. /\ Basic /\ pend[t] = Idle /\ available # <<>>
      /\ pend' = [pend EXCEPT ![t] = p] /\ UNCHANGED <<conn, available, busy, limit, tx, causes>>
    BY DEF PoolInv, Look, Getting, pool
<1>2. available[Len(available)] \in Conns
    BY <1>1, EmptySeq DEF Basic, TypeOK
<1>3. p \in Pend /\ p.at = "pop" /\ p.conn \in Conns /\ p.for \in Uses /\ p # Idle
    BY <1>2 DEF Pend, Idle
<1> HIDE DEF p
<1>4. /\ pend' \in [Threads -> Pend] /\ PendingSound'
      /\ \A u \in Threads : u # t => pend'[u] = pend[u]
      /\ \A u \in Threads, d \in Conns : Borrows(u, d)' => Borrows(u, d)
    BY <1>1, <1>3, PendStep
<1>5. Basic'
    BY <1>1, <1>4 DEF Basic, TypeOK, DepthAgrees, Pend
<1>6. Pooled' = Pooled /\ (Distinct => Distinct')
    BY <1>1 DEF Pooled, Distinct
<1>7. ASSUME "race" \notin causes' PROVE Apart' /\ Distinct'
    <2>1. Apart /\ Distinct
        BY <1>1, <1>7 DEF PoolInv
    <2> QED
        BY <1>1, <1>4, <1>6, <2>1, ApartShrinks
<1>8. ASSUME causes' \cap {"race", "reused"} = {} PROVE Clean'
    BY <1>1, <1>4, <1>6, <1>8 DEF PoolInv, Clean, Unfinished
<1>9. ASSUME causes' \cap {"race", "again"} = {} PROVE Counted'
    BY <1>1, <1>4, <1>9 DEF PoolInv, Counted, Idle
<1> QED
    BY <1>5, <1>7, <1>8, <1>9 DEF PoolInv

LEMMA CreateKeeps ==
    ASSUME PoolInv, NEW t \in Threads, NEW for \in Uses, Create(t, for)
    PROVE  PoolInv'
<1>1. PICK c \in Conns \ Referenced :
          /\ conn' = [conn EXCEPT ![c] = New]
          /\ pend' = [pend EXCEPT ![t] = [at |-> "take", for |-> for, conn |-> c]]
    BY DEF Create
<1> DEFINE p == [at |-> "take", for |-> for, conn |-> c]
<1>2. Basic /\ pend[t] = Idle /\ UNCHANGED <<available, busy, limit, tx, causes>>
    BY DEF PoolInv, Create, Getting
<1>3. p \in Pend /\ p.at = "take" /\ p.conn = c /\ p.for \in Uses /\ p # Idle
    BY DEF Pend, Idle
<1>4. pend' = [pend EXCEPT ![t] = p]
    BY <1>1
<1> HIDE DEF p
<1>5. /\ pend' \in [Threads -> Pend] /\ PendingSound'
      /\ \A u \in Threads : u # t => pend'[u] = pend[u]
      /\ \A u \in Threads, d \in Conns : Borrows(u, d)' => Borrows(u, d) \/ (u = t /\ d = c)
    BY <1>2, <1>3, <1>4, PendStep
<1>6. /\ conn' \in [Conns -> Connection] /\ conn'[c] = New
      /\ \A d \in Conns : d # c => conn'[d] = conn[d]
    BY <1>1, <1>2, NewIs DEF Basic, TypeOK
<1>7. Basic'
    <2>1. TypeOK'
        BY <1>2, <1>5, <1>6 DEF Basic, TypeOK, Pend
    <2>2. DepthAgrees'
        BY <1>2, <1>6, NewIs DEF Basic, DepthAgrees
    <2> QED
        BY <1>5, <2>1, <2>2 DEF Basic
<1>8. /\ c \notin Pooled
      /\ \A u \in Threads : tx[u].conn # c /\ ~Borrows(u, c)
    BY DEF Referenced, Borrows
<1>9. Pooled' = Pooled /\ (Distinct => Distinct') /\ Pooled \subseteq Conns
    BY <1>2 DEF Pooled, Distinct, Basic, TypeOK
<1>10. ASSUME "race" \notin causes' PROVE Apart' /\ Distinct'
    <2>1. Apart /\ Distinct /\ tx' = tx /\ c \notin Pooled' /\ Pooled' \subseteq Pooled
        BY <1>2, <1>8, <1>9, <1>10 DEF PoolInv
    <2> QED
        BY <1>5, <1>8, <1>9, <2>1, ApartGrows
<1>11. ASSUME causes' \cap {"race", "reused"} = {} PROVE Clean'
    <2>1. Clean
        BY <1>2, <1>11 DEF PoolInv
    <2>2. \A d \in Conns : conn'[d].depth <= 1 /\ conn'[d].save <= 1
        BY <1>6, <2>1, NewIs DEF Clean
    <2>3. \A d \in Pooled' : conn'[d].up /\ ~conn'[d].in
        BY <1>6, <1>8, <1>9, <2>1 DEF Clean
    <2>4. \A u \in Threads, d \in Conns : Borrows(u, d)' => ~conn'[d].in
        BY <1>5, <1>6, <2>1, NewIs DEF Clean
    <2>5. \A u \in Threads, d \in Conns :
              tx'[u].conn = d /\ conn'[d].in => Unfinished(tx'[u])
        BY <1>2, <1>6, <1>8, <2>1 DEF Clean
    <2> QED
        BY <2>2, <2>3, <2>4, <2>5 DEF Clean
<1>12. ASSUME causes' \cap {"race", "again"} = {} PROVE Counted'
    BY <1>2, <1>5, <1>12 DEF PoolInv, Counted, Idle
<1> QED
    BY <1>7, <1>10, <1>11, <1>12 DEF PoolInv

LEMMA PopKeeps ==
    ASSUME PoolInv, NEW t \in Threads, Pop(t)
    PROVE  PoolInv'
<1> DEFINE last == Len(available)
           p == [pend[t] EXCEPT !.at = "take"]
<1>1. /\ Basic /\ pend[t].at = "pop" /\ pend[t] \in Pend /\ pend[t].conn \in Conns
      /\ pend[t].for \in Uses /\ available \in Seq(Conns)
      /\ pend' = [pend EXCEPT ![t] = p] /\ UNCHANGED <<conn, busy, limit, tx>>
      /\ available' = IF last = 0 THEN <<>> ELSE SubSeq(available, 1, last - 1)
    BY DEF PoolInv, Basic, TypeOK, PendingSound, Pop, Pend
<1>2. causes' = IF last # 0 /\ available[last] = pend[t].conn
                THEN causes ELSE causes \cup {"race"}
    BY DEF Pop
<1>3. /\ p \in Pend /\ p.at = "take" /\ p.conn = pend[t].conn /\ p.for \in Uses
      /\ p # Idle
    BY <1>1 DEF Pend, Idle
<1> HIDE DEF p
<1>4. /\ pend' \in [Threads -> Pend] /\ PendingSound'
      /\ \A u \in Threads : u # t => pend'[u] = pend[u]
      /\ \A u \in Threads, d \in Conns :
             Borrows(u, d)' => Borrows(u, d) \/ (u = t /\ d = pend[t].conn)
    BY <1>1, <1>3, PendStep
<1>5. available' \in Seq(Conns)
    <2>1. CASE last = 0
        BY <1>1, <2>1
    <2>2. CASE last # 0
        BY <1>1, <2>2, EmptySeq, PopEffect DEF Basic
    <2> QED
        BY <2>1, <2>2
<1>6. Basic'
    <2>1. TypeOK'
        BY <1>1, <1>2, <1>4, <1>5 DEF Basic, TypeOK, Pend
    <2> QED
        BY <1>1, <1>4, <2>1 DEF Basic, DepthAgrees
<1>7. ASSUME "race" \notin causes'
      PROVE  /\ causes' = causes /\ Apart /\ Distinct /\ Distinct'
             /\ pend[t].conn \in Pooled /\ pend[t].conn \notin Pooled'
             /\ Pooled' \subseteq Pooled /\ Pooled \subseteq Conns
             /\ \A u \in Threads : tx[u].conn # pend[t].conn /\ ~Borrows(u, pend[t].conn)
    <2>1. last # 0 /\ available[last] = pend[t].conn /\ causes' = causes
        BY <1>2, <1>7
    <2>2. available # <<>> /\ available' = SubSeq(available, 1, Len(available) - 1)
        BY <1>1, <2>1, EmptySeq
    <2>3. Apart /\ Distinct
        BY <1>7, <2>1 DEF PoolInv
    <2>4. /\ Distinct' /\ pend[t].conn \in Pooled /\ pend[t].conn \notin Pooled'
          /\ Pooled' \subseteq Pooled
        BY <1>1, <2>1, <2>2, <2>3, PopEffect DEF Basic
    <2>5. \A u \in Threads : tx[u].conn # pend[t].conn /\ ~Borrows(u, pend[t].conn)
        BY <1>1, <2>3, <2>4 DEF Apart
    <2>6. Pooled \subseteq Conns
        BY <1>1 DEF Pooled
    <2> QED
        BY <2>1, <2>3, <2>4, <2>5, <2>6
<1>8. ASSUME "race" \notin causes' PROVE Apart' /\ Distinct'
    BY <1>1, <1>4, <1>7, <1>8, ApartGrows
<1>9. ASSUME causes' \cap {"race", "reused"} = {} PROVE Clean'
    <2>1. Clean
        BY <1>7, <1>9 DEF PoolInv
    <2>2. \A d \in Pooled' : conn'[d].up /\ ~conn'[d].in
        BY <1>1, <1>7, <1>9, <2>1 DEF Clean
    <2>3. \A u \in Threads, d \in Conns : Borrows(u, d)' => ~conn'[d].in
        BY <1>1, <1>4, <1>7, <1>9, <2>1 DEF Clean
    <2> QED
        BY <1>1, <2>1, <2>2, <2>3 DEF Clean, Unfinished
<1>10. ASSUME causes' \cap {"race", "again"} = {} PROVE Counted'
    BY <1>1, <1>4, <1>7, <1>10 DEF PoolInv, Counted
<1> QED
    BY <1>6, <1>8, <1>9, <1>10 DEF PoolInv

LEMMA TakeOnceKeeps ==
    ASSUME PoolInv, NEW t \in Threads, Take(t), pend[t].for = "once"
    PROVE  PoolInv'
<1> DEFINE c == pend[t].conn
           p == [pend[t] EXCEPT !.at = "use"]
<1>1. /\ Basic /\ pend[t].at = "take" /\ pend[t] \in Pend /\ c \in Conns
      /\ pend' = [pend EXCEPT ![t] = p] /\ UNCHANGED <<conn, available, limit, tx, causes>>
      /\ busy \in [Conns -> Nat] /\ busy' = [busy EXCEPT ![c] = busy[c] + 1]
    BY DEF PoolInv, Basic, TypeOK, PendingSound, Take, Pend
<1>2. p \in Pend /\ p.at = "use" /\ p.conn = c /\ p.for = "once" /\ p # Idle
    BY <1>1 DEF Pend, Idle
<1> HIDE DEF p
<1>3. /\ pend' \in [Threads -> Pend] /\ PendingSound' /\ pend'[t] = p
      /\ \A u \in Threads : u # t => pend'[u] = pend[u]
      /\ \A u \in Threads, d \in Conns : Borrows(u, d)' => Borrows(u, d)
    <2>1. p.for \in Uses /\ Borrows(t, c)
        BY <1>1, <1>2 DEF Uses, Borrows
    <2>2. /\ pend' \in [Threads -> Pend] /\ PendingSound' /\ pend'[t] = p
          /\ \A u \in Threads : u # t => pend'[u] = pend[u]
          /\ \A u \in Threads, d \in Conns : u # t => (Borrows(u, d)' <=> Borrows(u, d))
          /\ \A d \in Conns : Borrows(t, d)' => p.conn = d
        <3> HIDE DEF c
        <3> QED
            BY <1>1, <1>2, <2>1, PendStep
    <2>3. ASSUME NEW u \in Threads, NEW d \in Conns, Borrows(u, d)'
          PROVE  Borrows(u, d)
        <3>1. CASE u = t
            <4>1. d = c
                BY <1>2, <2>2, <2>3, <3>1
            <4> QED
                BY <2>1, <3>1, <4>1
        <3>2. CASE u # t
            BY <2>2, <2>3, <3>2
        <3> QED
            BY <3>1, <3>2
    <2> QED
        BY <2>2, <2>3
<1>4. /\ busy' \in [Conns -> Nat] /\ busy'[c] = busy[c] + 1
      /\ \A d \in Conns : d # c => busy'[d] = busy[d]
    BY <1>1
<1>5. Basic'
    BY <1>1, <1>3, <1>4 DEF Basic, TypeOK, DepthAgrees, Pend
<1>6. Pooled' = Pooled /\ (Distinct => Distinct')
    BY <1>1 DEF Pooled, Distinct
<1>7. ASSUME "race" \notin causes' PROVE Apart' /\ Distinct'
    <2>1. Apart /\ Distinct
        BY <1>1, <1>7 DEF PoolInv
    <2> QED
        BY <1>1, <1>3, <1>6, <2>1, ApartShrinks
<1>8. ASSUME causes' \cap {"race", "reused"} = {} PROVE Clean'
    BY <1>1, <1>3, <1>6, <1>8 DEF PoolInv, Clean, Unfinished
<1>9. ASSUME causes' \cap {"race", "again"} = {} PROVE Counted'
    <2>1. Counted /\ Apart
        BY <1>1, <1>9 DEF PoolInv
    <2>2. busy[c] = 0
        BY <1>1, <2>1 DEF Apart, Counted, Borrows
    <2> QED
        BY <1>1, <1>2, <1>3, <1>4, <2>1, <2>2 DEF Counted
<1> QED
    BY <1>5, <1>7, <1>8, <1>9 DEF PoolInv

LEMMA TakeBeginKeeps ==
    ASSUME PoolInv, NEW t \in Threads, Take(t), pend[t].for # "once"
    PROVE  PoolInv'
<1> DEFINE c == pend[t].conn
           n == Begun(conn[c])
           x == Restarted(tx[t], c)
           Object == [conn : Conns \cup {NoConn}, active : BOOLEAN, committed : BOOLEAN]
<1>1. /\ Basic /\ pend[t].at = "take" /\ c \in Conns
      /\ conn[c].depth < MaxDepth
      /\ pend' = [pend EXCEPT ![t] = Idle] /\ UNCHANGED <<available, limit>>
      /\ conn' = [conn EXCEPT ![c] = n] /\ tx' = [tx EXCEPT ![t] = x]
      /\ causes' = causes \cup Misuse(tx[t])
      /\ busy \in [Conns -> Nat] /\ busy' = [busy EXCEPT ![c] = busy[c] + 1]
    BY DEF PoolInv, Basic, TypeOK, PendingSound, Take
<1>2. Borrows(t, c)
    BY <1>1 DEF Borrows
<1>3. /\ Idle \in Pend /\ Idle.at = "idle"
      /\ x \in Object /\ x.conn = c /\ x.active /\ x.committed = tx[t].committed
    <2>1. Idle \in Pend /\ Idle.at = "idle"
        BY DEF Pend, Idle
    <2>2. tx[t] \in Object
        BY <1>1 DEF Basic, TypeOK
    <2>3. x = [tx[t] EXCEPT !.conn = c, !.active = TRUE]
        BY DEF Restarted
    <2>4. x \in Object
        BY <1>1, <2>2, <2>3
    <2>5. x.conn = c /\ x.active /\ x.committed = tx[t].committed
        BY <2>2, <2>3
    <2> QED
        BY <2>1, <2>4, <2>5
<1>4. conn[c] \in Connection /\ Agrees(conn[c])
    BY <1>1, Wording
<1>5. /\ n \in Connection /\ n.up = conn[c].up /\ n.in /\ n.save = conn[c].save
      /\ n.depth = IF conn[c].in THEN conn[c].depth + 1 ELSE 1
    BY <1>1, <1>4, BegunIs
<1>6. Agrees(n)
    BY <1>4, <1>5, Fields DEF Agrees
<1> HIDE DEF c, n, x
<1>7. /\ pend' \in [Threads -> Pend] /\ PendingSound'
      /\ \A u \in Threads : u # t => pend'[u] = pend[u]
      /\ \A u \in Threads, d \in Conns : Borrows(u, d)' => Borrows(u, d) /\ u # t
    BY <1>1, <1>3, PendStep
<1>8. /\ conn' \in [Conns -> Connection] /\ conn'[c] = n
      /\ \A d \in Conns : d # c => conn'[d] = conn[d]
    BY <1>1, <1>5 DEF Basic, TypeOK
<1>9. /\ tx' \in [Threads -> Object] /\ tx'[t] = x
      /\ \A u \in Threads : u # t => tx'[u] = tx[u]
    BY <1>1, <1>3 DEF Basic, TypeOK
<1>10. /\ busy' \in [Conns -> Nat] /\ busy'[c] = busy[c] + 1
       /\ \A d \in Conns : d # c => busy'[d] = busy[d]
    BY <1>1
<1>11. Basic'
    <2>1. TypeOK'
        BY <1>1, <1>7, <1>8, <1>9, <1>10 DEF Basic, TypeOK, Pend, Misuse
    <2>2. DepthAgrees'
        BY <1>1, <1>6, <1>8 DEF Basic, DepthAgrees, Agrees
    <2> QED
        BY <1>7, <2>1, <2>2 DEF Basic
<1>12. Pooled' = Pooled /\ (Distinct => Distinct') /\ Pooled \subseteq Conns
    BY <1>1 DEF Pooled, Distinct, Basic, TypeOK
<1>13. /\ "race" \notin causes' => "race" \notin causes
       /\ "again" \notin causes' => "again" \notin causes /\ tx[t].conn = NoConn
       /\ "reused" \notin causes' => "reused" \notin causes /\ ~tx[t].committed
    BY <1>1 DEF Misuse
<1>14. ASSUME "race" \notin causes' PROVE Apart' /\ Distinct'
    <2>1. Apart /\ Distinct
        BY <1>13, <1>14 DEF PoolInv
    <2>2. \A u \in Threads, d \in Conns : tx'[u].conn = d =>
              tx[u].conn = d \/ (u = t /\ d = c)
        BY <1>3, <1>9
    <2> QED
        BY <1>1, <1>2, <1>7, <1>12, <2>1, <2>2, ApartMoves
<1>15. ASSUME causes' \cap {"race", "reused"} = {} PROVE Clean'
    <2>1. Clean /\ Apart
        BY <1>13, <1>15 DEF PoolInv
    <2>2. c \notin Pooled /\ ~conn[c].in
        BY <1>1, <1>2, <2>1 DEF Apart, Clean
    <2>3. \A d \in Conns : conn'[d].depth <= 1 /\ conn'[d].save <= 1
        BY <1>1, <1>5, <1>8, <2>1, <2>2 DEF Clean
    <2>4. \A d \in Pooled' : conn'[d].up /\ ~conn'[d].in
        BY <1>8, <1>12, <2>1, <2>2 DEF Clean
    <2>5. ASSUME NEW u \in Threads, NEW d \in Conns, Borrows(u, d)'
          PROVE  ~conn'[d].in
        <3>1. Borrows(u, d) /\ u # t
            BY <1>7, <2>5
        <3>2. d # c
            BY <1>1, <1>2, <2>1, <3>1 DEF Apart
        <3> QED
            BY <1>8, <2>1, <3>1, <3>2 DEF Clean
    <2>6. ASSUME NEW u \in Threads, NEW d \in Conns, tx'[u].conn = d, conn'[d].in
          PROVE  Unfinished(tx'[u])
        <3>1. CASE u = t
            BY <1>3, <1>9, <1>13, <1>15, <3>1 DEF Unfinished
        <3>2. CASE u # t
            <4>1. tx[u].conn = d /\ tx'[u] = tx[u]
                BY <1>9, <2>6, <3>2
            <4>2. d # c
                BY <1>1, <1>2, <2>1, <4>1 DEF Apart
            <4> QED
                BY <1>8, <2>1, <2>6, <4>1, <4>2 DEF Clean
        <3> QED
            BY <3>1, <3>2
    <2> QED
        BY <2>3, <2>4, <2>5, <2>6 DEF Clean
<1>16. ASSUME causes' \cap {"race", "again"} = {} PROVE Counted'
    <2>1. Counted /\ Apart /\ tx[t].conn = NoConn
        BY <1>13, <1>16 DEF PoolInv
    <2>2. ASSUME busy[c] > 0 PROVE FALSE
        <3>1. PICK u \in Threads : tx[u].conn = c \/ (pend[u].conn = c /\ pend[u].at = "use")
            BY <1>1, <2>1, <2>2 DEF Counted
        <3>2. CASE tx[u].conn = c
            BY <1>1, <1>2, <2>1, <3>2 DEF Apart
        <3>3. CASE pend[u].conn = c /\ pend[u].at = "use"
            <4>1. u # t /\ Borrows(u, c)
                BY <1>1, <3>3 DEF Borrows
            <4> QED
                BY <1>1, <1>2, <2>1, <4>1 DEF Apart
        <3> QED
            BY <3>1, <3>2, <3>3
    <2>3. busy'[c] = 1
        BY <1>1, <1>10, <2>2
    <2>4. ASSUME NEW d \in Conns, busy'[d] > 0, d # c
          PROVE  /\ busy'[d] = 1
                 /\ \E u \in Threads :
                        tx'[u].conn = d \/ (pend'[u].conn = d /\ pend'[u].at = "use")
        <3>1. busy[d] > 0 /\ busy'[d] = busy[d]
            BY <1>10, <2>4
        <3>2. busy[d] = 1
            BY <2>1, <3>1 DEF Counted
        <3>3. PICK u \in Threads : tx[u].conn = d \/ (pend[u].conn = d /\ pend[u].at = "use")
            BY <2>1, <3>1 DEF Counted
        <3>4. u # t
            BY <1>1, <2>1, <3>3, Wording
        <3> QED
            BY <1>7, <1>9, <3>1, <3>2, <3>3, <3>4
    <2> QED
        BY <1>3, <1>9, <2>3, <2>4 DEF Counted
<1> QED
    BY <1>11, <1>14, <1>15, <1>16 DEF PoolInv

-------------------------------------------------------------------------------
(* release_connection, called by a user that has the connection and gives   *)
(* it up: what the pool looks like afterwards.                              *)
LEMMA GiveUp ==
    ASSUME PoolInv, NEW t \in Threads, NEW c \in Conns,
           tx[t].conn = c \/ Borrows(t, c),
           NEW n \in Connection, Agrees(n), Release(c, n),
           Clean /\ Apart => n.depth <= 1 /\ n.save <= 1 /\ ~n.in,
           UNCHANGED <<limit, causes>>,
           tx' \in [Threads -> [conn : Conns \cup {NoConn}, active : BOOLEAN,
                                committed : BOOLEAN]],
           pend' \in [Threads -> Pend], PendingSound',
           \A u \in Threads : u # t => tx'[u] = tx[u] /\ pend'[u] = pend[u],
           \A d \in Conns :
               /\ tx'[t].conn = d => tx[t].conn = d /\ tx'[t] = tx[t]
               /\ Borrows(t, d)' => Borrows(t, d)
               /\ ~(tx[t].conn = c /\ Borrows(t, c)) => tx'[t].conn # c /\ ~Borrows(t, c)'
               /\ d # c /\ tx[t].conn = d => tx'[t].conn = d
               /\ d # c /\ pend[t].conn = d => pend'[t] = pend[t]
    PROVE  PoolInv'
<1>1. Basic
    BY DEF PoolInv
<1>2. /\ available' \in Seq(Conns)
      /\ Pooled' \subseteq Pooled \cup {c}
      /\ c \in Pooled' /\ c \notin Pooled => conn'[c] = n /\ n.up
      /\ Distinct /\ c \notin Pooled => Distinct'
      /\ conn' \in [Conns -> Connection]
      /\ conn'[c] \in {n, Closed(n)}
      /\ \A d \in Conns : d # c => conn'[d] = conn[d]
      /\ busy' \in [Conns -> Nat]
      /\ busy'[c] = IF busy[c] > 0 THEN busy[c] - 1 ELSE 0
      /\ \A d \in Conns : d # c => busy'[d] = busy[d]
    BY <1>1, ReleaseEffect DEF Basic
<1>3. \A u \in Threads, d \in Conns : Borrows(u, d)' => Borrows(u, d)
    <2>1. \A u \in Threads, d \in Conns : u # t => (Borrows(u, d)' <=> Borrows(u, d))
        BY DEF Borrows
    <2> QED
        BY <2>1
<1>4. /\ Agrees(conn'[c])
      /\ n.depth <= 1 /\ n.save <= 1 => conn'[c].depth <= 1 /\ conn'[c].save <= 1
      /\ ~n.in => ~conn'[c].in
    BY <1>2, ClosedIs DEF Agrees
<1>5. Basic'
    <2>1. TypeOK'
        BY <1>1, <1>2 DEF Basic, TypeOK, Pend
    <2>2. DepthAgrees'
        BY <1>1, <1>2, <1>4 DEF Basic, DepthAgrees, Agrees
    <2> QED
        BY <2>1, <2>2 DEF Basic
<1>6. Pooled \subseteq Conns
    BY <1>1 DEF Pooled, Basic, TypeOK
<1>7. ASSUME Apart
      PROVE  /\ c \notin Pooled
             /\ \A u \in Threads : tx'[u].conn # c /\ ~Borrows(u, c)'
    <2>1. c \notin Pooled /\ ~(tx[t].conn = c /\ Borrows(t, c))
        BY <1>7 DEF Apart
    <2>2. tx'[t].conn # c /\ ~Borrows(t, c)'
        BY <2>1
    <2>3. ASSUME NEW u \in Threads, u # t PROVE tx[u].conn # c /\ ~Borrows(u, c)
        BY <1>7, <2>3 DEF Apart
    <2>4. ASSUME NEW u \in Threads, u # t PROVE tx'[u].conn # c /\ ~Borrows(u, c)'
        BY <1>3, <2>3, <2>4
    <2> QED
        BY <2>1, <2>2, <2>4
<1>8. ASSUME "race" \notin causes' PROVE Apart' /\ Distinct'
    <2>1. Apart /\ Distinct
        BY <1>8 DEF PoolInv
    <2>2. \A u \in Threads, d \in Conns : tx'[u].conn = d => tx[u].conn = d
        OBVIOUS
    <2>3. \A d \in Conns : d \in Pooled' =>
              d \in Pooled \/ \A u \in Threads : tx'[u].conn # d /\ ~Borrows(u, d)'
        BY <1>2, <1>7, <2>1
    <2> QED
        BY <1>2, <1>3, <1>7, <2>1, <2>2, <2>3, ApartShrinks
<1>9. ASSUME causes' \cap {"race", "reused"} = {} PROVE Clean'
    <2>1. Clean /\ Apart
        BY <1>9 DEF PoolInv
    <2>2. n.depth <= 1 /\ n.save <= 1 /\ ~n.in
        BY <2>1
    <2>3. \A d \in Conns : conn'[d].depth <= 1 /\ conn'[d].save <= 1
        BY <1>2, <1>4, <2>1, <2>2 DEF Clean
    <2>4. \A d \in Pooled' : conn'[d].up /\ ~conn'[d].in
        BY <1>2, <1>4, <1>6, <1>7, <2>1, <2>2 DEF Clean
    <2>5. \A u \in Threads, d \in Conns : Borrows(u, d)' => ~conn'[d].in
        BY <1>2, <1>3, <1>4, <2>1, <2>2 DEF Clean
    <2>6. ASSUME NEW u \in Threads, NEW d \in Conns, tx'[u].conn = d, conn'[d].in
          PROVE  Unfinished(tx'[u])
        <3>1. d # c
            BY <1>4, <2>2, <2>6
        <3>2. tx[u].conn = d /\ tx'[u] = tx[u] /\ conn[d].in
            BY <1>2, <2>6, <3>1
        <3> QED
            BY <2>1, <3>2 DEF Clean
    <2> QED
        BY <2>3, <2>4, <2>5, <2>6 DEF Clean
<1>10. ASSUME causes' \cap {"race", "again"} = {} PROVE Counted'
    <2>1. Counted
        BY <1>10 DEF PoolInv
    <2>2. busy[c] \in Nat /\ busy'[c] = 0
        BY <1>1, <1>2, <2>1 DEF Counted, Basic, TypeOK
    <2>3. ASSUME NEW d \in Conns, busy'[d] > 0
          PROVE  /\ busy'[d] = 1
                 /\ \E u \in Threads :
                        tx'[u].conn = d \/ (pend'[u].conn = d /\ pend'[u].at = "use")
        <3>1. d # c /\ busy[d] > 0 /\ busy'[d] = busy[d]
            BY <1>2, <2>2, <2>3
        <3>2. busy[d] = 1
            BY <2>1, <3>1 DEF Counted
        <3>3. PICK u \in Threads : tx[u].conn = d \/ (pend[u].conn = d /\ pend[u].at = "use")
            BY <2>1, <3>1 DEF Counted
        <3>4. tx'[u].conn = d \/ (pend'[u].conn = d /\ pend'[u].at = "use")
            BY <3>1, <3>3
        <3> QED
            BY <3>1, <3>2, <3>4
    <2> QED
        BY <2>3 DEF Counted
<1> QED
    BY <1>5, <1>8, <1>9, <1>10 DEF PoolInv

LEMMA OneStatementKeeps ==
    ASSUME PoolInv, NEW t \in Threads, OneStatement(t)
    PROVE  PoolInv'
<1> DEFINE c == pend[t].conn
           Object == [conn : Conns \cup {NoConn}, active : BOOLEAN, committed : BOOLEAN]
<1>1. /\ Basic /\ pend[t].at = "use" /\ c \in Conns
      /\ pend' = [pend EXCEPT ![t] = Idle] /\ tx' = tx /\ UNCHANGED <<limit, causes>>
      /\ tx \in [Threads -> Object]
    BY DEF PoolInv, Basic, TypeOK, PendingSound, OneStatement
<1>2. PICK n \in {conn[c], Reconnected(conn[c])} : Release(c, n)
    BY DEF OneStatement
<1>3. Borrows(t, c)
    BY <1>1 DEF Borrows
<1>4. Idle \in Pend /\ Idle.at = "idle"
    BY DEF Pend, Idle
<1>5. conn[c] \in Connection /\ Agrees(conn[c])
    BY <1>1, Wording
<1>6. /\ n \in Connection /\ n.in = conn[c].in
      /\ n.depth = conn[c].depth /\ n.save = conn[c].save
    BY <1>2, <1>5, ReconnectedIs
<1>7. Agrees(n)
    BY <1>5, <1>6 DEF Agrees
<1>8. Clean /\ Apart => n.depth <= 1 /\ n.save <= 1 /\ ~n.in
    BY <1>1, <1>3, <1>6 DEF Clean
<1> HIDE DEF c
<1>9. /\ pend' \in [Threads -> Pend] /\ PendingSound'
      /\ \A u \in Threads : u # t => pend'[u] = pend[u]
      /\ \A d \in Conns : ~Borrows(t, d)'
    BY <1>1, <1>4, PendStep
<1>10. Apart \/ ~Apart
    OBVIOUS
<1>11. \A d \in Conns : d # c => pend[t].conn # d
    BY DEF c
<1>12. tx' \in [Threads -> Object] /\ \A u \in Threads : tx'[u] = tx[u]
    BY <1>1
<1> QED
    BY <1>1, <1>2, <1>3, <1>6, <1>7, <1>8, <1>9, <1>11, <1>12, GiveUp

LEMMA DestroyKeeps ==
    ASSUME PoolInv, NEW t \in Threads, Destroy(t)
    PROVE  PoolInv'
<1> DEFINE c == tx[t].conn
           n == IF Unfinished(tx[t]) /\ conn[c].in THEN RolledBack(conn[c]) ELSE conn[c]
           Object == [conn : Conns \cup {NoConn}, active : BOOLEAN, committed : BOOLEAN]
<1>1. /\ Basic /\ Holds(t) /\ pend[t] = Idle /\ c \in Conns
      /\ Release(c, n) /\ tx' = [tx EXCEPT ![t] = Fresh]
      /\ UNCHANGED <<limit, causes>> /\ pend' = pend
      /\ tx \in [Threads -> Object] /\ pend \in [Threads -> Pend]
    BY Wording DEF PoolInv, Basic, TypeOK, Destroy, Holds, Pend
<1>2. conn[c] \in Connection /\ Agrees(conn[c])
    BY <1>1, Wording
<1>3. n \in Connection /\ Agrees(n)
    BY <1>2, RolledBackIs DEF Agrees
<1>4. Clean => n.depth <= 1 /\ n.save <= 1 /\ ~n.in
    BY <1>1, <1>2, RolledBackIs DEF Clean
<1>5. Fresh \in Object /\ Fresh.conn = NoConn
    BY DEF Fresh
<1> HIDE DEF c, n
<1>6. /\ tx' \in [Threads -> Object] /\ tx'[t] = Fresh
      /\ \A u \in Threads : u # t => tx'[u] = tx[u]
    BY <1>1, <1>5
<1>7. NoConn \notin Conns /\ \A d \in Conns : tx'[t].conn # d /\ (d # c => tx[t].conn # d)
    BY <1>5, <1>6, ConstantsAssumption DEF c
<1>8. \A d \in Conns : ~Borrows(t, d) /\ ~Borrows(t, d)'
    BY <1>1, Wording DEF Borrows
<1>9. PendingSound' /\ pend' \in [Threads -> Pend] /\ \A u \in Threads : pend'[u] = pend[u]
    BY <1>1 DEF Basic, PendingSound
<1>10. tx[t].conn = c
    BY DEF c
<1> QED
    BY <1>1, <1>3, <1>4, <1>6, <1>7, <1>8, <1>9, <1>10, GiveUp

-------------------------------------------------------------------------------
(* The operations of the pool itself.                                       *)
LEMMA ShutdownKeeps ==
    ASSUME PoolInv, Shutdown
    PROVE  PoolInv'
<1>1. /\ Basic
      /\ conn' = [c \in Conns |-> IF c \in Pooled \/ busy[c] > 0
                                 THEN Closed(conn[c]) ELSE conn[c]]
      /\ available' = <<>> /\ busy' = [c \in Conns |-> 0]
      /\ causes' = causes \cup {"shutdown"} /\ limit' = limit /\ tx' = tx /\ pend' = pend
    BY DEF PoolInv, Shutdown
<1>2. \A c \in Conns : conn'[c] \in {conn[c], Closed(conn[c])}
    BY <1>1
<1>3. ASSUME NEW c \in Conns
      PROVE  /\ conn'[c] \in Connection /\ Agrees(conn'[c])
             /\ conn'[c].in => conn[c].in
             /\ conn[c].depth <= 1 /\ conn[c].save <= 1 =>
                    conn'[c].depth <= 1 /\ conn'[c].save <= 1
    <2>1. conn[c] \in Connection /\ Agrees(conn[c])
        BY <1>1, Wording
    <2>2. /\ Closed(conn[c]) \in Connection /\ Agrees(Closed(conn[c]))
          /\ ~Closed(conn[c]).in
          /\ conn[c].depth <= 1 /\ conn[c].save <= 1 =>
                 Closed(conn[c]).depth <= 1 /\ Closed(conn[c]).save <= 1
        BY <2>1, ClosedIs DEF Agrees
    <2> QED
        BY <1>2, <2>1, <2>2
<1>4. conn' \in [Conns -> Connection]
    BY <1>1, <1>3
<1>5. Pooled' = {} /\ Distinct' /\ \A t \in Threads, c \in Conns : Borrows(t, c)' <=> Borrows(t, c)
    BY <1>1 DEF Pooled, Distinct, Borrows
<1>6. Basic'
    <2>1. TypeOK'
        BY <1>1, <1>4 DEF Basic, TypeOK
    <2>2. PendingSound' /\ DepthAgrees'
        BY <1>1, <1>3 DEF Basic, PendingSound, DepthAgrees, Agrees
    <2> QED
        BY <2>1, <2>2 DEF Basic
<1>7. ASSUME "race" \notin causes' PROVE Apart'
    <2>1. Apart
        BY <1>1, <1>7 DEF PoolInv
    <2> QED
        BY <1>1, <1>5, <2>1, ApartShrinks
<1>8. ASSUME causes' \cap {"race", "reused"} = {} PROVE Clean'
    <2>1. Clean
        BY <1>1, <1>8 DEF PoolInv
    <2>2. \A c \in Conns : conn'[c].depth <= 1 /\ conn'[c].save <= 1
        BY <1>3, <2>1 DEF Clean
    <2>3. \A t \in Threads, c \in Conns : Borrows(t, c)' => ~conn'[c].in
        BY <1>3, <1>5, <2>1 DEF Clean
    <2>4. \A t \in Threads, c \in Conns : tx'[t].conn = c /\ conn'[c].in => Unfinished(tx'[t])
        BY <1>1, <1>3, <2>1 DEF Clean
    <2> QED
        BY <1>5, <2>2, <2>3, <2>4 DEF Clean
<1>9. Counted'
    BY <1>1 DEF Counted
<1> QED
    BY <1>5, <1>6, <1>7, <1>8, <1>9 DEF PoolInv

LEMMA CheckConnectionsKeeps ==
    ASSUME PoolInv, NEW i \in DOMAIN available, CheckConnections(i)
    PROVE  PoolInv'
<1> DEFINE c == available[i]
<1>1. /\ Basic /\ TypeOK /\ available' = RemoveAt(available, i)
      /\ conn' = [conn EXCEPT ![c] = Closed(conn[c])]
      /\ UNCHANGED <<busy, limit, tx, pend, causes>>
    BY DEF PoolInv, Basic, CheckConnections
<1>2. /\ available' \in Seq(Conns) /\ Pooled' \subseteq Pooled
      /\ c \in Pooled /\ c \in Conns
      /\ Distinct => Distinct' /\ c \notin Pooled'
    BY <1>1, EraseEffect
<1>3. conn[c] \in Connection /\ Agrees(conn[c])
    BY <1>1, <1>2, Wording
<1>4. /\ Closed(conn[c]) \in Connection /\ Agrees(Closed(conn[c]))
      /\ ~Closed(conn[c]).in
      /\ conn[c].depth <= 1 /\ conn[c].save <= 1 =>
             Closed(conn[c]).depth <= 1 /\ Closed(conn[c]).save <= 1
    BY <1>3, ClosedIs DEF Agrees
<1> HIDE DEF c
<1>5. /\ conn' \in [Conns -> Connection] /\ conn'[c] = Closed(conn[c])
      /\ \A d \in Conns : d # c => conn'[d] = conn[d]
    BY <1>1, <1>2, <1>4 DEF TypeOK
<1>6. Basic'
    <2>1. TypeOK'
        BY <1>1, <1>2, <1>5 DEF TypeOK
    <2>2. PendingSound'
        BY <1>1 DEF Basic, PendingSound
    <2>3. DepthAgrees'
        BY <1>1, <1>4, <1>5 DEF Basic, DepthAgrees, Agrees
    <2> QED
        BY <2>1, <2>2, <2>3 DEF Basic
<1>7. \A t \in Threads, d \in Conns : Borrows(t, d)' <=> Borrows(t, d)
    BY <1>1 DEF Borrows
<1>8. Pooled \subseteq Conns
    BY <1>1 DEF TypeOK, Pooled
<1>9. ASSUME "race" \notin causes' PROVE Apart' /\ Distinct'
    <2>1. Apart /\ Distinct
        BY <1>1, <1>9 DEF PoolInv
    <2> QED
        BY <1>1, <1>2, <1>7, <2>1, ApartShrinks
<1>10. ASSUME causes' \cap {"race", "reused"} = {} PROVE Clean'
    <2>1. Clean /\ Distinct
        BY <1>1, <1>10 DEF PoolInv
    <2>2. \A d \in Conns : conn'[d].depth <= 1 /\ conn'[d].save <= 1
        BY <1>2, <1>4, <1>5, <2>1 DEF Clean
    <2>3. \A d \in Pooled' : conn'[d].up /\ ~conn'[d].in
        BY <1>2, <1>5, <1>8, <2>1 DEF Clean
    <2>4. \A t \in Threads, d \in Conns : Borrows(t, d)' => ~conn'[d].in
        BY <1>4, <1>5, <1>7, <2>1 DEF Clean
    <2>5. \A t \in Threads, d \in Conns : tx'[t].conn = d /\ conn'[d].in => Unfinished(tx'[t])
        BY <1>1, <1>4, <1>5, <2>1 DEF Clean
    <2> QED
        BY <2>2, <2>3, <2>4, <2>5 DEF Clean
<1>11. ASSUME causes' \cap {"race", "again"} = {} PROVE Counted'
    BY <1>1, <1>11 DEF PoolInv, Counted
<1> QED
    BY <1>6, <1>9, <1>10, <1>11 DEF PoolInv

(* A new limit changes nothing else.                                        *)
LEMMA QuietStep ==
    ASSUME PoolInv, UNCHANGED <<conn, available, busy, tx, pend, causes>>, limit' \in Limits
    PROVE  PoolInv'
<1>1. Basic'
    BY DEF PoolInv, Basic, TypeOK, PendingSound, DepthAgrees
<1>2. Pooled' = Pooled /\ (Distinct => Distinct')
    BY DEF Pooled, Distinct
<1>3. \A t \in Threads, c \in Conns : Borrows(t, c)' <=> Borrows(t, c)
    BY DEF Borrows
<1>4. Apart => Apart'
    BY <1>2, <1>3, ApartShrinks
<1>5. Clean => Clean'
    BY <1>2, <1>3 DEF Clean, Unfinished
<1>6. Counted => Counted'
    BY DEF Counted
<1> QED
    BY <1>1, <1>2, <1>4, <1>5, <1>6 DEF PoolInv

-------------------------------------------------------------------------------
LEMMA InitPoolInv == Init => PoolInv
<1> SUFFICES ASSUME Init PROVE PoolInv
    OBVIOUS
<1>1. PICK c \in Conns : available = <<c>>
    BY DEF Init
<1>2. /\ available \in Seq(Conns) /\ DOMAIN available = 1..1 /\ available[1] = c
    BY <1>1
<1>3. \A d \in Conns : conn[d] = New
    BY DEF Init
<1>4. /\ \A t \in Threads : tx[t] = Fresh /\ pend[t] = Idle
      /\ tx \in [Threads -> {Fresh}] /\ pend \in [Threads -> {Idle}]
      /\ conn \in [Conns -> {New}] /\ busy = [d \in Conns |-> 0]
      /\ limit \in Limits /\ causes = {}
    BY DEF Init
<1>5. /\ Fresh \in [conn : Conns \cup {NoConn}, active : BOOLEAN, committed : BOOLEAN]
      /\ Fresh.conn = NoConn
      /\ Idle \in Pend /\ Idle.at = "idle"
    BY DEF Fresh, Idle, Pend
<1>6. \A t \in Threads, d \in Conns : ~Borrows(t, d) /\ tx[t].conn # d
    BY <1>4, <1>5, ConstantsAssumption DEF Borrows
<1>7. Basic
    <2>1. TypeOK
        BY <1>2, <1>4, <1>5, NewIs DEF TypeOK, Pend
    <2>2. PendingSound
        BY <1>4, <1>5 DEF PendingSound
    <2>3. DepthAgrees
        BY <1>3, NewIs DEF DepthAgrees
    <2> QED
        BY <2>1, <2>2, <2>3 DEF Basic
<1>8. Apart /\ Distinct
    BY <1>2, <1>6 DEF Apart, Distinct
<1>9. Clean
    <2>1. Pooled \subseteq Conns
        BY <1>2 DEF Pooled
    <2> QED
        BY <1>3, <1>6, <2>1, NewIs DEF Clean
<1>10. Counted
    BY <1>4 DEF Counted
<1> QED
    BY <1>7, <1>8, <1>9, <1>10 DEF PoolInv

LEMMA NextPoolInv == PoolInv /\ [Next]_vars => PoolInv'
<1> SUFFICES ASSUME PoolInv, [Next]_vars PROVE PoolInv'
    OBVIOUS
<1>1. CASE \E t \in Threads, for \in Uses : Look(t, for)
    BY <1>1, LookKeeps
<1>2. CASE \E t \in Threads, for \in Uses : Create(t, for)
    BY <1>2, CreateKeeps
<1>3. CASE \E t \in Threads : Pop(t)
    BY <1>3, PopKeeps
<1>4. CASE \E t \in Threads : Take(t)
    BY <1>4, TakeOnceKeeps, TakeBeginKeeps
<1>5. CASE \E t \in Threads : OneStatement(t)
    BY <1>5, OneStatementKeeps
<1>6. CASE \E t \in Threads : Commit(t)
    BY <1>6, CommitKeeps
<1>7. CASE \E t \in Threads : Rollback(t)
    BY <1>7, RollbackKeeps
<1>8. CASE \E t \in Threads : SetSavepoint(t) \/ RollbackToSavepoint(t)
    BY <1>8, SavepointKeeps
<1>9. CASE \E t \in Threads : Execute(t)
    BY <1>9, ExecuteKeeps
<1>10. CASE \E t \in Threads : Destroy(t)
    BY <1>10, DestroyKeeps
<1>11. CASE Shutdown
    BY <1>11, ShutdownKeeps
<1>12. CASE \E i \in DOMAIN available : CheckConnections(i)
    BY <1>12, CheckConnectionsKeeps
<1>13. CASE \E m \in Limits : SetMaxConnections(m)
    BY <1>13, QuietStep DEF SetMaxConnections
<1>14. CASE UNCHANGED vars
    <2>1. limit' \in Limits /\ UNCHANGED <<conn, available, busy, tx, pend, causes>>
        BY <1>14 DEF vars, PoolInv, Basic, TypeOK
    <2> QED
        BY <2>1, QuietStep
<1> QED
    BY <1>1, <1>2, <1>3, <1>4, <1>5, <1>6, <1>7, <1>8, <1>9, <1>10, <1>11, <1>12, <1>13,
       <1>14 DEF Next

(* What the pool promises, for any number of threads and connections and    *)
(* whatever the limit: the invariant behind the theorems below.             *)
THEOREM PoolCorrect == Spec => []PoolInv
    BY InitPoolInv, NextPoolInv, PTL DEF Spec

(* Every variable has its type, and the two fields of a connection that say *)
(* whether it is in a transaction agree whatever its users do.              *)
THEOREM ConnectionsAgree == Spec => []DepthAgrees
<1>1. PoolInv => DepthAgrees
    BY DEF PoolInv, Basic
<1> QED
    BY <1>1, PoolCorrect, PTL

(* Outside the race of get_connection, no two users have the same           *)
(* connection and none that is available, although a shutdown may empty the *)
(* pool under its users and a Transaction may be begun twice.               *)
THEOREM ConnectionsHaveOneOwner == Spec => []SoleOwner
<1>1. ASSUME PoolInv PROVE SoleOwner
    <2> SUFFICES ASSUME "race" \notin causes, NEW c \in Conns
                 PROVE  /\ Cardinality(Owners(c)) + Cardinality(Borrowers(c)) <= 1
                        /\ Owners(c) \cup Borrowers(c) # {} => c \notin Pooled
                        /\ \A i, j \in DOMAIN available : available[i] = available[j] => i = j
        BY DEF SoleOwner
    <2>1. Apart /\ Distinct /\ Basic
        BY <1>1 DEF PoolInv
    <2>2. \A t \in Threads : t \in Owners(c) <=> tx[t].conn = c
        BY DEF Owners
    <2>3. \A t \in Threads : t \in Borrowers(c) <=> Borrows(t, c)
        BY <2>1, ConstantsAssumption DEF Borrowers, Borrows, Basic, TypeOK, PendingSound, Idle
    <2>4. Owners(c) \subseteq Threads /\ Borrowers(c) \subseteq Threads
        BY DEF Owners, Borrowers
    <2>5. /\ \A t, u \in Owners(c) : t = u
          /\ \A t, u \in Borrowers(c) : t = u
          /\ Owners(c) = {} \/ Borrowers(c) = {}
        BY <2>1, <2>2, <2>3, <2>4 DEF Apart
    <2>6. ASSUME NEW S, \A t, u \in S : t = u
          PROVE  Cardinality(S) \in {0, 1} /\ (S = {} => Cardinality(S) = 0)
        <3>1. CASE S = {}
            BY <3>1, FS_EmptySet
        <3>2. CASE S # {}
            <4>1. PICK t \in S : S = {t}
                BY <2>6, <3>2
            <4> QED
                BY <3>2, <4>1, FS_Singleton
        <3> QED
            BY <3>1, <3>2
    <2>7. /\ Cardinality(Owners(c)) \in {0, 1}
          /\ Owners(c) = {} => Cardinality(Owners(c)) = 0
        BY <2>5, <2>6
    <2>8. /\ Cardinality(Borrowers(c)) \in {0, 1}
          /\ Borrowers(c) = {} => Cardinality(Borrowers(c)) = 0
        BY <2>5, <2>6
    <2>9. Cardinality(Owners(c)) + Cardinality(Borrowers(c)) <= 1
        BY <2>5, <2>7, <2>8
    <2>10. Owners(c) \cup Borrowers(c) # {} => c \notin Pooled
        BY <2>1, <2>2, <2>3, <2>4 DEF Apart
    <2> QED
        BY <2>1, <2>9, <2>10 DEF Distinct
<1> QED
    BY <1>1, PoolCorrect, PTL

(* Outside the race, and unless a Transaction that has committed is begun   *)
(* again, what get_connection lends is open and in no transaction: nothing  *)
(* of one user's work is committed or lost with another's.                  *)
THEOREM PooledConnectionsAreClean == Spec => []PooledClean
<1>1. PoolInv => PooledClean
    BY DEF PoolInv, Clean, PooledClean
<1> QED
    BY <1>1, PoolCorrect, PTL

(* Outside the race, only a Transaction that is begun while it has a        *)
(* connection takes that connection from the pool for good.                 *)
THEOREM ConnectionsAreNotLost == Spec => []NoneLost
<1>1. PoolInv => NoneLost
    BY DEF PoolInv, Counted, NoneLost, Owners, Borrowers
<1> QED
    BY <1>1, PoolCorrect, PTL

===============================================================================
