------------------------------ MODULE AuthProofs ------------------------------
(***************************************************************************)
(* Proofs about the managers of src/src/auth: Sessions, Users and Roles,   *)
(* each about the specification of that module alone, for every set of     *)
(* threads, users, names, addresses, editors and permissions, every        *)
(* duration and every bound on the sessions, the accounts and the roles.   *)
(*                                                                         *)
(* SessionInv is inductive as it stands.                                   *)
(*                                                                         *)
(* NamesReach is not inductive: a name may lead to an id that nobody has   *)
(* at present, and the next account may get it.  NamesLead says of every   *)
(* name that leads anywhere where it leads, and IdsGiven that without a    *)
(* deletion the accounts have the first ids.                               *)
(*                                                                         *)
(* InheritsAsJoined needs that an id somebody inherits from has been given *)
(* out.  AnswersCurrent needs what the cache holds in the middle of a      *)
(* build, of which there may be several at a time: every role's entry is   *)
(* right or one of the builders has still to make it.                      *)
(***************************************************************************)
EXTENDS Sessions, Users, Roles, FiniteSetTheorems, TLAPS

-------------------------------------------------------------------------------
(* The sessions.                                                            *)

(* The pointer of a thread between operations.                              *)
LEMMA IdleTyped ==
    Idle \in [op : Operations, id : 0..MaxSessions, addr : Addrs] /\ Idle.op = "none"
BY ConstantsAssumption DEF Idle, Operations

(* The initial state satisfies SessionInv.                                  *)
LEMMA SessionInit == Init => SessionInv
<1> SUFFICES ASSUME Init PROVE SessionInv
  OBVIOUS
<1>1. Live = {}
  BY DEF Init, Live
<1>2. TypeOK
  <2>1. pend \in [Threads -> [op : Operations, id : 0..MaxSessions, addr : Addrs]]
    BY IdleTyped DEF Init
  <2>2. issued \in 0..MaxSessions /\ duration \in Lives
    BY ConstantsAssumption DEF Init, Lives
  <2>3. /\ sessions \in [Ids -> Session \cup {NoSession}]
        /\ index \in [Users -> [Ids -> Nat]]
    BY DEF Init
  <2> QED
    BY <2>1, <2>2, <2>3 DEF Init, TypeOK
<1>3. IndexExact
  BY <1>1 DEF Init, IndexExact
<1>4. PointersIssued
  BY IdleTyped DEF Init, PointersIssued
<1> QED
  BY <1>1, <1>2, <1>3, <1>4 DEF SessionInv, IdsIssued, AddrsDistinct

(* Remove takes the sessions named, and their entries, and nothing else.    *)
LEMMA Removed ==
    ASSUME SessionInv, NEW ids \in SUBSET Ids, Remove(ids)
    PROVE  /\ Live' = Live \ ids
           /\ \A s \in Live' : sessions'[s] = sessions[s]
           /\ sessions' \in [Ids -> Session \cup {NoSession}]
           /\ index' \in [Users -> [Ids -> Nat]]
           /\ IndexExact'
<1>1. /\ sessions' = [s \in Ids |-> IF s \in ids THEN NoSession ELSE sessions[s]]
      /\ index' = [u \in Users |-> [s \in Ids |->
                      IF s \in ids /\ sessions[s].user = u THEN 0 ELSE index[u][s]]]
  BY DEF Remove, Without
<1>2. sessions \in [Ids -> Session \cup {NoSession}] /\ index \in [Users -> [Ids -> Nat]]
  BY DEF SessionInv, TypeOK
<1>3. Live' = Live \ ids
  BY <1>1 DEF Live
<1>4. \A s \in Live' : sessions'[s] = sessions[s]
  BY <1>1, <1>3 DEF Live
<1>5. IndexExact'
  <2> SUFFICES ASSUME NEW u \in Users, NEW s \in Ids
               PROVE  index'[u][s] = IF s \in Live' /\ sessions'[s].user = u THEN 1 ELSE 0
    BY DEF IndexExact
  <2>1. index[u][s] = IF s \in Live /\ sessions[s].user = u THEN 1 ELSE 0
    BY DEF SessionInv, IndexExact
  <2>2. index'[u][s] = IF s \in ids /\ sessions[s].user = u THEN 0 ELSE index[u][s]
    BY <1>1
  <2> QED BY <1>3, <1>4, <2>1, <2>2
<1> QED
  BY <1>1, <1>2, <1>3, <1>4, <1>5

(* Where sessions only disappear and the pointers stay.                     *)
LEMMA FewerKeeps ==
    ASSUME SessionInv, UNCHANGED <<issued, pend>>,
           Live' \subseteq Live, \A s \in Live' : sessions'[s] = sessions[s]
    PROVE  IdsIssued' /\ AddrsDistinct' /\ PointersIssued'
BY DEF SessionInv, IdsIssued, AddrsDistinct, PointersIssued

(* Where sessions keep their users and addresses, and a thread at most      *)
(* drops its pointer.                                                       *)
LEMMA EditKeeps ==
    ASSUME SessionInv, UNCHANGED <<index, issued>>, Live' = Live,
           \A s \in Live : /\ sessions'[s].user = sessions[s].user
                           /\ sessions'[s].addr = sessions[s].addr,
           \A t \in Threads : pend'[t] = pend[t] \/ pend'[t] = Idle
    PROVE  IndexExact' /\ IdsIssued' /\ AddrsDistinct' /\ PointersIssued'
<1>1. IndexExact' /\ IdsIssued' /\ AddrsDistinct'
  BY DEF SessionInv, IndexExact, IdsIssued, AddrsDistinct
<1>2. PointersIssued'
  BY IdleTyped DEF SessionInv, PointersIssued
<1> QED BY <1>1, <1>2

(* An edit of one field of some sessions that exist.                        *)
LEMMA Edited ==
    ASSUME TypeOK, NEW ids \in SUBSET Live, NEW e \in [Live -> Session],
           \A s \in ids : /\ e[s].user = sessions[s].user
                          /\ e[s].addr = sessions[s].addr,
           sessions' = [s \in Ids |-> IF s \in ids THEN e[s] ELSE sessions[s]]
    PROVE  /\ sessions' \in [Ids -> Session \cup {NoSession}]
           /\ Live' = Live
           /\ \A s \in Live : /\ sessions'[s].user = sessions[s].user
                              /\ sessions'[s].addr = sessions[s].addr
BY ConstantsAssumption DEF TypeOK, Live

(* The two writes through a pointer and the passing of time are such edits. *)
LEMMA RefreshEdits ==
    ASSUME SessionInv, NEW t \in Threads, RefreshSession(t)
    PROVE  /\ sessions' \in [Ids -> Session \cup {NoSession}]
           /\ Live' = Live
           /\ \A s \in Live : /\ sessions'[s].user = sessions[s].user
                              /\ sessions'[s].addr = sessions[s].addr
<1> DEFINE e == [s \in Live |-> [sessions[s] EXCEPT !.life = duration]]
<1>1. /\ TypeOK
      /\ duration \in Nat
      /\ \A s \in Live : s \in Ids /\ sessions[s] \in Session
  BY ConstantsAssumption DEF SessionInv, TypeOK, Live, Lives
<1>2. \A s \in Live : /\ e[s] \in Session
                      /\ e[s].user = sessions[s].user
                      /\ e[s].addr = sessions[s].addr
  BY <1>1 DEF Session
<1>3. sessions' = [s \in Ids |-> IF s \in Aimed(t) THEN e[s] ELSE sessions[s]]
  BY DEF RefreshSession, Aimed
<1>4. Aimed(t) \in SUBSET Live /\ e \in [Live -> Session]
  BY <1>2 DEF Aimed
<1> HIDE DEF e
<1> QED
  BY <1>1, <1>2, <1>3, <1>4, Edited

(* See RefreshEdits.                                                        *)
LEMMA DataEdits ==
    ASSUME SessionInv, NEW t \in Threads, SetSessionData(t)
    PROVE  /\ sessions' \in [Ids -> Session \cup {NoSession}]
           /\ Live' = Live
           /\ \A s \in Live : /\ sessions'[s].user = sessions[s].user
                              /\ sessions'[s].addr = sessions[s].addr
                              /\ sessions'[s].life = sessions[s].life
<1> DEFINE e == [s \in Live |-> [sessions[s] EXCEPT !.data = TRUE]]
<1>1. TypeOK /\ \A s \in Live : s \in Ids /\ sessions[s] \in Session
  BY DEF SessionInv, TypeOK, Live
<1>2. \A s \in Live : /\ e[s] \in Session
                      /\ e[s].user = sessions[s].user
                      /\ e[s].addr = sessions[s].addr
                      /\ e[s].life = sessions[s].life
  BY <1>1 DEF Session
<1>3. sessions' = [s \in Ids |-> IF s \in Aimed(t) THEN e[s] ELSE sessions[s]]
  BY DEF SetSessionData, Aimed
<1>4. Aimed(t) \in SUBSET Live /\ e \in [Live -> Session]
  BY <1>2 DEF Aimed
<1> HIDE DEF e
<1>5. \A s \in Live : sessions'[s].life = sessions[s].life
  BY <1>1, <1>2, <1>3
<1> QED
  BY <1>1, <1>2, <1>3, <1>4, <1>5, Edited

(* See RefreshEdits; a session that has expired stays as it is.             *)
LEMMA TickEdits ==
    ASSUME SessionInv, Tick
    PROVE  /\ sessions' \in [Ids -> Session \cup {NoSession}]
           /\ Live' = Live
           /\ \A s \in Live : /\ sessions'[s].user = sessions[s].user
                              /\ sessions'[s].addr = sessions[s].addr
                              /\ Expired(s) => sessions'[s] = sessions[s]
<1> DEFINE ids == {s \in Live : ~Expired(s)}
           e == [s \in Live |-> IF Expired(s) THEN sessions[s]
                                ELSE [sessions[s] EXCEPT !.life = sessions[s].life - 1]]
<1>1. TypeOK /\ \A s \in Live : s \in Ids /\ sessions[s] \in Session
  BY DEF SessionInv, TypeOK, Live
<1>2. ASSUME NEW s \in Live
      PROVE  /\ e[s] \in Session
             /\ e[s].user = sessions[s].user
             /\ e[s].addr = sessions[s].addr
  <2>1. CASE Expired(s)
    BY <1>1, <2>1
  <2>2. CASE ~Expired(s)
    <3>1. sessions[s].life \in Nat /\ sessions[s].life # 0
      BY <1>1, <2>2 DEF Session, Expired
    <3>2. sessions[s].life - 1 \in Nat
      BY <3>1
    <3> QED BY <1>1, <2>2, <3>2 DEF Session
  <2> QED BY <2>1, <2>2
<1>3. sessions' = [s \in Ids |-> IF s \in ids THEN e[s] ELSE sessions[s]]
  BY DEF Tick
<1>4. ids \in SUBSET Live /\ e \in [Live -> Session]
  BY <1>2
<1>5. \A s \in Live : Expired(s) => s \notin ids
  OBVIOUS
<1> HIDE DEF e, ids
<1>6. \A s \in Live : Expired(s) => sessions'[s] = sessions[s]
  BY <1>1, <1>3, <1>5
<1> QED
  BY <1>1, <1>2, <1>3, <1>4, <1>6, Edited

(* A new session has an id and an address of its own.                       *)
LEMMA CreateAdds ==
    ASSUME SessionInv, NEW u \in Users, NEW a \in Addrs, NEW life \in Lives,
           CreateSession(u, a, life)
    PROVE  /\ NewId \notin Live
           /\ Live' = Live \cup {NewId}
           /\ \A s \in Live : sessions'[s] = sessions[s]
           /\ sessions'[NewId] = NewSession(u, a, life)
           /\ SessionInv'
<1> DEFINE n == NewId
           new == NewSession(u, a, life)
<1>1. TypeOK /\ IndexExact /\ IdsIssued /\ AddrsDistinct /\ PointersIssued
  BY DEF SessionInv
<1>2. n \in Ids /\ n = issued + 1 /\ issued' = n /\ issued \in Nat
  BY <1>1, ConstantsAssumption DEF CreateSession, NewId, TypeOK
<1>3. n \notin Live
  BY <1>1, <1>2 DEF IdsIssued, Live, Ids
<1>4. new \in Session /\ new.addr = a /\ new.user = u
  BY ConstantsAssumption DEF NewSession, Session, Lives
<1>5. /\ sessions' = [sessions EXCEPT ![n] = new]
      /\ index' = [index EXCEPT ![u] = [index[u] EXCEPT ![n] = index[u][n] + 1]]
      /\ \A s \in Live : sessions[s].addr # a
      /\ UNCHANGED <<duration, pend, control>>
  BY DEF CreateSession
<1> HIDE DEF n, new
<1>6. /\ sessions' \in [Ids -> Session \cup {NoSession}]
      /\ sessions'[n] = new
      /\ \A s \in Ids : s # n => sessions'[s] = sessions[s]
  BY <1>1, <1>2, <1>4, <1>5 DEF TypeOK
<1>7. Live' = Live \cup {n}
  BY <1>2, <1>4, <1>6, ConstantsAssumption DEF Live
<1>8. \A s \in Live : sessions'[s] = sessions[s]
  BY <1>3, <1>6 DEF Live
<1>9. IndexExact'
  <2> SUFFICES ASSUME NEW v \in Users, NEW s \in Ids
               PROVE  index'[v][s] = IF s \in Live' /\ sessions'[s].user = v THEN 1 ELSE 0
    BY DEF IndexExact
  <2>1. index[v][s] = IF s \in Live /\ sessions[s].user = v THEN 1 ELSE 0
    BY <1>1 DEF IndexExact
  <2>2. index'[v][s] = IF v = u /\ s = n THEN index[u][n] + 1 ELSE index[v][s]
    BY <1>1, <1>5 DEF TypeOK
  <2>3. CASE s = n
    BY <1>3, <1>4, <1>6, <1>7, <2>1, <2>2, <2>3
  <2>4. CASE s # n
    BY <1>6, <1>7, <2>1, <2>2, <2>4
  <2> QED BY <2>3, <2>4
<1>10. index' \in [Users -> [Ids -> Nat]]
  <2>1. index[u][n] + 1 \in Nat /\ index[u] \in [Ids -> Nat]
    BY <1>1, <1>2 DEF TypeOK
  <2> QED BY <1>1, <1>5, <2>1 DEF TypeOK
<1>11. issued' \in 0..MaxSessions
  BY <1>2, ConstantsAssumption DEF Ids
<1>12. TypeOK'
  BY <1>1, <1>5, <1>6, <1>10, <1>11 DEF TypeOK, control
<1>13. IdsIssued'
  <2>1. \A s \in Live : s \in Nat /\ s <= issued
    BY <1>1 DEF IdsIssued, Live, Ids
  <2> QED BY <1>2, <1>7, <2>1 DEF IdsIssued
<1>14. AddrsDistinct'
  BY <1>1, <1>4, <1>5, <1>6, <1>7, <1>8 DEF AddrsDistinct
<1>15. PointersIssued'
  <2> SUFFICES ASSUME NEW t \in Threads, pend'[t].op # "none"
               PROVE  /\ pend'[t].id \in 1..issued'
                      /\ pend'[t].id \in Live' => sessions'[pend'[t].id].addr = pend'[t].addr
    BY DEF PointersIssued
  <2>1. /\ pend' = pend
        /\ pend[t].id \in 1..issued
        /\ pend[t].id \in Live => sessions[pend[t].id].addr = pend[t].addr
    BY <1>1, <1>5 DEF PointersIssued
  <2>2. pend[t].id # n
    BY <1>2, <2>1
  <2> QED BY <1>2, <1>7, <1>8, <2>1, <2>2
<1>16. SessionInv'
  BY <1>9, <1>12, <1>13, <1>14, <1>15 DEF SessionInv
<1> QED
  BY <1>3, <1>6, <1>7, <1>8, <1>16 DEF n, new

(* A pointer taken under the lock points at its session.                    *)
LEMMA GetKeeps ==
    ASSUME SessionInv, NEW t \in Threads, NEW s \in Ids,
           NEW op \in {"refresh", "set_data"}, GetSession(t, s, op)
    PROVE  SessionInv'
<1> DEFINE q == [op |-> op, id |-> s, addr |-> sessions[s].addr]
<1>1. TypeOK /\ IndexExact /\ IdsIssued /\ AddrsDistinct /\ PointersIssued
  BY DEF SessionInv
<1>2. s \in Live /\ UNCHANGED <<store, duration, control>>
  BY DEF GetSession, Found
<1>3. Live' = Live /\ sessions' = sessions /\ index' = index /\ issued' = issued
  BY <1>2 DEF store, Live
<1>4. q \in [op : Operations, id : 0..MaxSessions, addr : Addrs]
  <2>1. sessions[s] \in Session
    BY <1>1, <1>2 DEF TypeOK, Live
  <2>2. s \in 0..MaxSessions
    BY ConstantsAssumption DEF Ids
  <2> QED BY <2>1, <2>2 DEF Session, Operations
<1>5. pend' = [pend EXCEPT ![t] = q]
  BY DEF GetSession
<1>6. s \in 1..issued
  <2>1. s \in Nat /\ s > 0 /\ s <= issued
    BY <1>1, <1>2 DEF IdsIssued, Ids
  <2> QED BY <1>1, <2>1 DEF TypeOK
<1>7. PointersIssued'
  BY <1>1, <1>3, <1>5, <1>6 DEF PointersIssued, TypeOK
<1>8. TypeOK'
  BY <1>1, <1>2, <1>3, <1>4, <1>5 DEF TypeOK, control
<1>9. IndexExact' /\ IdsIssued' /\ AddrsDistinct'
  BY <1>1, <1>3 DEF IndexExact, IdsIssued, AddrsDistinct
<1> QED BY <1>7, <1>8, <1>9 DEF SessionInv

(* destroy_all_user_sessions follows the list; since that is exact, it      *)
(* takes the user's sessions and no other.                                  *)
LEMMA DestroyAllRemoves ==
    ASSUME SessionInv, NEW u \in Users, DestroyAllUserSessions(u)
    PROVE  /\ Live' = {s \in Live : sessions[s].user # u}
           /\ \A s \in Live' : sessions'[s] = sessions[s]
           /\ sessions' \in [Ids -> Session \cup {NoSession}]
           /\ index' \in [Users -> [Ids -> Nat]]
           /\ IndexExact'
<1>1. /\ sessions' = [s \in Ids |-> IF index[u][s] > 0 THEN NoSession ELSE sessions[s]]
      /\ index' = [index EXCEPT ![u] = [s \in Ids |-> 0]]
  BY DEF DestroyAllUserSessions
<1>2. TypeOK /\ IndexExact
  BY DEF SessionInv
<1>3. \A s \in Ids : index[u][s] > 0 <=> s \in Live /\ sessions[s].user = u
  BY <1>2 DEF IndexExact
<1>4. Live' = {s \in Live : sessions[s].user # u}
  BY <1>1, <1>3 DEF Live
<1>5. \A s \in Live' : sessions'[s] = sessions[s]
  BY <1>1, <1>3, <1>4 DEF Live
<1>6. IndexExact'
  <2> SUFFICES ASSUME NEW v \in Users, NEW s \in Ids
               PROVE  index'[v][s] = IF s \in Live' /\ sessions'[s].user = v THEN 1 ELSE 0
    BY DEF IndexExact
  <2>1. index[v][s] = IF s \in Live /\ sessions[s].user = v THEN 1 ELSE 0
    BY <1>2 DEF IndexExact
  <2>2. index'[v][s] = IF v = u THEN 0 ELSE index[v][s]
    BY <1>1, <1>2 DEF TypeOK
  <2> QED BY <1>4, <1>5, <2>1, <2>2
<1>7. /\ sessions' \in [Ids -> Session \cup {NoSession}]
      /\ index' \in [Users -> [Ids -> Nat]]
  BY <1>1, <1>2 DEF TypeOK
<1> QED BY <1>4, <1>5, <1>6, <1>7

(* Each action keeps SessionInv.                                            *)
LEMMA SessionNext == SessionInv /\ [Next]_vars => SessionInv'
<1> SUFFICES ASSUME SessionInv, [Next]_vars PROVE SessionInv'
  OBVIOUS
<1>0. TypeOK
  BY DEF SessionInv
<1>1. ASSUME NEW u \in Users, NEW a \in Addrs, NEW life \in Lives,
             CreateSession(u, a, life)
      PROVE  SessionInv'
  BY <1>1, CreateAdds
<1>2. ASSUME NEW ids \in SUBSET Ids, Remove(ids), UNCHANGED <<duration, pend, running, stopping>>,
             cleaner' \in {"off", "testing", "asleep", "cleaning"}
      PROVE  SessionInv'
  <2>1. issued' = issued
    BY <1>2 DEF Remove
  <2> QED
    BY <1>0, <1>2, <2>1, Removed, FewerKeeps DEF SessionInv, TypeOK
<1>3. ASSUME NEW s \in Live, DestroySession(s)
      PROVE  SessionInv'
  <2>1. /\ {s} \in SUBSET Ids
        /\ Remove({s})
        /\ UNCHANGED <<duration, pend, running, stopping>>
        /\ cleaner' \in {"off", "testing", "asleep", "cleaning"}
    BY <1>0, <1>3 DEF DestroySession, control, Live, TypeOK
  <2> QED BY <1>2, <2>1
<1>4. ASSUME NEW u \in Users, DestroyAllUserSessions(u)
      PROVE  SessionInv'
  <2>1. UNCHANGED <<issued, duration, pend, control>>
    BY <1>4 DEF DestroyAllUserSessions
  <2> QED
    BY <1>0, <1>4, <2>1, DestroyAllRemoves, FewerKeeps DEF SessionInv, TypeOK, control
<1>5. ASSUME NEW t \in Threads, NEW s \in Ids, NEW op \in {"refresh", "set_data"},
             GetSession(t, s, op)
      PROVE  SessionInv'
  BY <1>5, GetKeeps
<1>6. ASSUME NEW t \in Threads, RefreshSession(t)
      PROVE  SessionInv'
  <2>1. UNCHANGED <<index, issued, duration, control>> /\ pend' = [pend EXCEPT ![t] = Idle]
    BY <1>6 DEF RefreshSession
  <2>2. \A u \in Threads : pend'[u] = pend[u] \/ pend'[u] = Idle
    BY <1>0, <2>1 DEF TypeOK
  <2>3. TypeOK'
    BY <1>0, <1>6, <2>1, RefreshEdits, IdleTyped DEF TypeOK, control
  <2> QED
    BY <1>6, <2>1, <2>2, <2>3, RefreshEdits, EditKeeps DEF SessionInv
<1>7. ASSUME NEW t \in Threads, SetSessionData(t)
      PROVE  SessionInv'
  <2>1. UNCHANGED <<index, issued, duration, control>> /\ pend' = [pend EXCEPT ![t] = Idle]
    BY <1>7 DEF SetSessionData
  <2>2. \A u \in Threads : pend'[u] = pend[u] \/ pend'[u] = Idle
    BY <1>0, <2>1 DEF TypeOK
  <2>3. TypeOK'
    BY <1>0, <1>7, <2>1, DataEdits, IdleTyped DEF TypeOK, control
  <2> QED
    BY <1>7, <2>1, <2>2, <2>3, DataEdits, EditKeeps DEF SessionInv
<1>8. ASSUME Tick
      PROVE  SessionInv'
  <2>1. UNCHANGED <<index, issued, duration, pend, control>>
    BY <1>8 DEF Tick
  <2>2. TypeOK'
    BY <1>0, <1>8, <2>1, TickEdits DEF TypeOK, control
  <2> QED
    BY <1>8, <2>1, <2>2, TickEdits, EditKeeps DEF SessionInv
<1>9. ASSUME Clean
      PROVE  SessionInv'
  <2>1. /\ {s \in Live : Expired(s)} \in SUBSET Ids
        /\ Remove({s \in Live : Expired(s)})
        /\ UNCHANGED <<duration, pend, running, stopping>>
        /\ cleaner' \in {"off", "testing", "asleep", "cleaning"}
    BY <1>9 DEF Clean, CleanupExpiredSessions, Live
  <2> QED BY <1>2, <2>1
<1>10. ASSUME FinishShutdown
       PROVE  SessionInv'
  <2>1. Live' = {}
    BY <1>10 DEF FinishShutdown, Live
  <2>2. /\ sessions' \in [Ids -> Session \cup {NoSession}]
        /\ index' \in [Users -> [Ids -> Nat]]
        /\ \A u \in Users, s \in Ids : index'[u][s] = 0
        /\ UNCHANGED <<issued, duration, pend, running, cleaner>>
        /\ stopping' = "no"
    BY <1>10 DEF FinishShutdown
  <2>3. TypeOK'
    BY <1>0, <2>2 DEF TypeOK
  <2>4. IndexExact'
    BY <2>1, <2>2 DEF IndexExact
  <2> QED
    BY <2>1, <2>2, <2>3, <2>4, FewerKeeps DEF SessionInv
<1>11. ASSUME UNCHANGED <<store, pend>>, TypeOK'
       PROVE  SessionInv'
  BY <1>11 DEF SessionInv, store, IndexExact, IdsIssued, AddrsDistinct, PointersIssued, Live
<1>12. ASSUME NEW d \in Durations, SetDefaultSessionDuration(d)
       PROVE  SessionInv'
  BY <1>0, <1>11, <1>12 DEF SetDefaultSessionDuration, TypeOK, Lives, store, control
<1>13. CASE StartCleanupThread
  BY <1>0, <1>11, <1>13 DEF StartCleanupThread, TypeOK, store
<1>14. CASE TestRunning
  BY <1>0, <1>11, <1>14 DEF TestRunning, TypeOK, store, LoopTest
<1>15. CASE Wake
  BY <1>0, <1>11, <1>15 DEF Wake, TypeOK, store, WakeTest
<1>16. CASE StopCleanupThread
  BY <1>0, <1>11, <1>16 DEF StopCleanupThread, TypeOK, store
<1>17. CASE UNCHANGED vars
  BY <1>0, <1>11, <1>17 DEF vars, TypeOK, store
<1> QED
  BY <1>1, <1>3, <1>4, <1>5, <1>6, <1>7, <1>8, <1>9, <1>10, <1>12, <1>13, <1>14,
     <1>15, <1>16, <1>17 DEF Next

-------------------------------------------------------------------------------
(* The inductive invariant: types, the index, ids, addresses and pointers.  *)
THEOREM SessionCorrect == Spec => []SessionInv
<1> QED BY SessionInit, SessionNext, PTL DEF Spec

(* Whatever the threads, the cleanup thread and shutdown do, each session   *)
(* is exactly once in its user's list and no list holds anything else.      *)
THEOREM SessionIndexIsExact == Spec => []IndexExact
<1>1. SessionInv => IndexExact
  BY DEF SessionInv
<1> QED BY <1>1, SessionCorrect, PTL

(* The type invariant.                                                      *)
THEOREM SessionTypeCorrect == Spec => []TypeOK
<1>1. SessionInv => TypeOK
  BY DEF SessionInv
<1> QED BY <1>1, SessionCorrect, PTL

(* What a pointer reaches is its session, while that lives.                 *)
LEMMA AimedIsNamed ==
    ASSUME SessionInv, NEW t \in Threads, pend[t].op # "none",
           pend[t].id \in Live, NEW s \in Aimed(t)
    PROVE  s = pend[t].id
BY DEF SessionInv, AddrsDistinct, PointersIssued, Aimed

(* A write through a pointer kept after the mutex was released changes the  *)
(* session it was got for, or that session is gone by then.                 *)
THEOREM WritesStayOnTarget == Spec => WritesReachNamed
<1> DEFINE Reaches ==
      \A t \in Threads :
          (RefreshSession(t) \/ SetSessionData(t)) =>
              \A s \in Live : sessions'[s] # sessions[s] =>
                  s = pend[t].id \/ pend[t].id \notin Live
<1>1. SessionInv /\ [Next]_vars => [Reaches]_vars
  <2> SUFFICES ASSUME SessionInv, NEW t \in Threads,
                      RefreshSession(t) \/ SetSessionData(t),
                      NEW s \in Live, sessions'[s] # sessions[s], pend[t].id \in Live
               PROVE  s = pend[t].id
    OBVIOUS
  <2>1. pend[t].op # "none" /\ s \in Aimed(t)
    BY DEF RefreshSession, SetSessionData, Live
  <2> QED BY <2>1, AimedIsNamed
<1> QED BY <1>1, SessionCorrect, PTL DEF Spec, WritesReachNamed

(* An expired session that no refresh in flight aims at stays expired, and  *)
(* no refresh starts on it.                                                 *)
THEOREM RevivedOnlyByRefresh == Spec => RevivedOnlyInFlight
<1> DEFINE Stays ==
      \A s \in Live :
          Expired(s) /\ ~Pending(s) /\ s \in Live' => Expired(s)' /\ ~Pending(s)'
<1>1. SessionInv /\ [Next]_vars => [Stays]_vars
  <2> SUFFICES ASSUME SessionInv, Next,
                      NEW s \in Live, Expired(s), ~Pending(s), s \in Live'
               PROVE  Expired(s)' /\ ~Pending(s)'
    OBVIOUS
  <2>0. TypeOK /\ AddrsDistinct /\ Expired(s)
    BY DEF SessionInv
  <2>1. ASSUME sessions'[s] = sessions[s], pend' = pend
        PROVE  Expired(s)' /\ ~Pending(s)'
    BY <2>1 DEF Expired, Pending, Aimed
  <2>2. ASSUME NEW u \in Users, NEW a \in Addrs, NEW life \in Lives,
               CreateSession(u, a, life)
        PROVE  Expired(s)' /\ ~Pending(s)'
    BY <2>1, <2>2, CreateAdds DEF CreateSession
  <2>3. ASSUME NEW ids \in SUBSET Ids, Remove(ids), UNCHANGED pend
        PROVE  Expired(s)' /\ ~Pending(s)'
    BY <2>1, <2>3, Removed
  <2>4. ASSUME NEW r \in Live, DestroySession(r)
        PROVE  Expired(s)' /\ ~Pending(s)'
    <3>1. {r} \in SUBSET Ids /\ Remove({r}) /\ UNCHANGED pend
      BY <2>4 DEF DestroySession, Live
    <3> QED BY <2>3, <3>1
  <2>5. ASSUME NEW u \in Users, DestroyAllUserSessions(u)
        PROVE  Expired(s)' /\ ~Pending(s)'
    BY <2>1, <2>5, DestroyAllRemoves DEF DestroyAllUserSessions
  <2>6. ASSUME NEW t \in Threads, NEW r \in Ids, NEW op \in {"refresh", "set_data"},
               GetSession(t, r, op)
        PROVE  Expired(s)' /\ ~Pending(s)'
    <3>1. /\ r \in Live /\ ~Expired(r)
          /\ sessions' = sessions
          /\ pend' = [pend EXCEPT ![t] = [op |-> op, id |-> r, addr |-> sessions[r].addr]]
      BY <2>6 DEF GetSession, Found, store
    <3>2. sessions[s].addr # sessions[r].addr
      BY <2>0, <3>1 DEF AddrsDistinct
    <3>3. ASSUME NEW v \in Threads, pend'[v].op = "refresh", s \in Aimed(v)'
          PROVE  FALSE
      <4>1. CASE v = t
        BY <2>0, <3>1, <3>2, <3>3, <4>1 DEF Aimed, TypeOK
      <4>2. CASE v # t
        BY <2>0, <3>1, <3>3, <4>2 DEF Aimed, TypeOK, Pending
      <4> QED BY <4>1, <4>2
    <3> QED BY <2>0, <3>1, <3>3 DEF Expired, Pending
  <2>7. ASSUME NEW t \in Threads, pend' = [pend EXCEPT ![t] = Idle],
               sessions'[s].life = sessions[s].life,
               sessions'[s].addr = sessions[s].addr
        PROVE  Expired(s)' /\ ~Pending(s)'
    <3>1. ASSUME NEW v \in Threads, pend'[v].op = "refresh", s \in Aimed(v)'
          PROVE  FALSE
      <4>1. v # t
        BY <2>0, <2>7, <3>1, IdleTyped DEF TypeOK
      <4> QED BY <2>0, <2>7, <3>1, <4>1 DEF Aimed, TypeOK, Pending
    <3> QED BY <2>0, <2>7, <3>1 DEF Expired, Pending
  <2>8. ASSUME NEW t \in Threads, RefreshSession(t)
        PROVE  Expired(s)' /\ ~Pending(s)'
    <3>1. s \notin Aimed(t)
      BY <2>8 DEF RefreshSession, Pending
    <3>2. sessions'[s] = sessions[s]
      BY <2>8, <3>1 DEF RefreshSession, Live
    <3> QED BY <2>7, <2>8, <3>2 DEF RefreshSession
  <2>9. ASSUME NEW t \in Threads, SetSessionData(t)
        PROVE  Expired(s)' /\ ~Pending(s)'
    BY <2>7, <2>9, DataEdits DEF SetSessionData
  <2>10. ASSUME Tick
         PROVE  Expired(s)' /\ ~Pending(s)'
    BY <2>0, <2>1, <2>10, TickEdits DEF Tick
  <2>11. ASSUME Clean
         PROVE  Expired(s)' /\ ~Pending(s)'
    <3>1. /\ {r \in Live : Expired(r)} \in SUBSET Ids
          /\ Remove({r \in Live : Expired(r)})
          /\ UNCHANGED pend
      BY <2>11 DEF Clean, CleanupExpiredSessions, Live
    <3> QED BY <2>3, <3>1
  <2>12. ASSUME FinishShutdown
         PROVE  Expired(s)' /\ ~Pending(s)'
    <3>1. s \notin Live'
      BY <2>12 DEF FinishShutdown, Live
    <3> QED BY <3>1
  <2>13. ASSUME UNCHANGED <<store, pend>>
         PROVE  Expired(s)' /\ ~Pending(s)'
    BY <2>1, <2>13 DEF store
  <2> QED
    BY <2>2, <2>4, <2>5, <2>6, <2>8, <2>9, <2>10, <2>11, <2>12, <2>13
       DEF Next, SetDefaultSessionDuration, StartCleanupThread, TestRunning, Wake,
           StopCleanupThread
<1> QED BY <1>1, SessionCorrect, PTL DEF Spec, RevivedOnlyInFlight

-------------------------------------------------------------------------------
(* The accounts.                                                            *)

(* Every name that leads anywhere leads to its account or is usurped. *)
NamesLead ==
    /\ \A u \in Accounts : names[users[u].name] = u
    /\ \A n \in Names : names[n] # 0 =>
           n \in usurped \/ (names[n] \in Accounts /\ users[names[n]].name = n)
    /\ usurped # {} => userGone

IdsGiven == ~userGone => \E n \in Nat : Accounts = 1..n

(* A pointer that leads to an account leads to the one it was got for, and  *)
(* only accounts have the memory of another.                                *)
PointersLead ==
    \A t \in UserThreads :
        /\ call[t].at # 0 => call[t].at = call[t].id /\ call[t].at \in Accounts
        /\ call[t].later \subseteq Accounts

UserInv == TypeOKUsers /\ NamesLead /\ IdsGiven /\ PointersLead

Calls == [op : {"none", "create", "delete", "edit", "lookup"}, id : 0..MaxUser,
          name : Names, at : 0..MaxUser, later : SUBSET UserIds]

LEMMA Basics ==
    /\ UserIds \subseteq Nat \ {0} /\ UserIds \subseteq 0..MaxUser /\ 0 \in 0..MaxUser
    /\ AnyName \in Names
    /\ NoCall \in Calls /\ NoCall.at = 0 /\ NoCall.id = 0 /\ NoCall.later = {}
<1>1. AnyName \in Names
    BY UsersAssumption DEF AnyName
<1>2. UserIds \subseteq Nat \ {0} /\ UserIds \subseteq 0..MaxUser /\ 0 \in 0..MaxUser
    BY UsersAssumption DEF UserIds
<1>3. NoCall \in Calls
    BY <1>1, <1>2 DEF NoCall, Calls
<1> QED
    BY <1>1, <1>2, <1>3 DEF NoCall

LEMMA AccountIsRecord ==
    ASSUME TypeOKUsers, NEW u \in Accounts
    PROVE  u \in UserIds /\ users[u] \in User /\ users[u].name \in Names
    BY DEF TypeOKUsers, Accounts, User

LEMMA UsersStart == InitUsers => UserInv
<1> SUFFICES ASSUME InitUsers PROVE UserInv
    OBVIOUS
<1>1. Accounts = {} /\ Accounts = 1..0
    BY DEF InitUsers, Accounts
<1>2. TypeOKUsers
    BY Basics DEF InitUsers, TypeOKUsers, Calls
<1>3. NamesLead /\ IdsGiven /\ PointersLead
    BY <1>1, Basics DEF InitUsers, NamesLead, IdsGiven, PointersLead
<1> QED
    BY <1>2, <1>3 DEF UserInv

(* The end of a call frees and moves pointers, and gives nobody another's.  *)
LEMMA SettleKeepsPointers ==
    ASSUME UserInv, NEW t \in UserThreads,
           NEW gone \in SUBSET UserIds, NEW new \in SUBSET UserIds,
           Settle(t, gone, new), (Accounts \ gone) \cup new \subseteq Accounts'
    PROVE  call' \in [UserThreads -> Calls] /\ PointersLead'
<1> DEFINE at(u) == IF call[u].at \in gone THEN 0 ELSE call[u].at
           moved(u) == [call[u] EXCEPT
                          !.at = at(u),
                          !.later = IF call[u].op = "edit" /\ at(u) = 0
                                    THEN (call[u].later \ gone) \cup new ELSE {}]
<1>1. call' = [u \in UserThreads |-> IF u = t THEN NoCall ELSE moved(u)]
    BY DEF Settle
<1>2. ASSUME NEW u \in UserThreads
      PROVE  /\ moved(u) \in Calls
             /\ moved(u).at = at(u) /\ moved(u).id = call[u].id
             /\ at(u) # 0 => at(u) = call[u].at /\ at(u) \notin gone
             /\ moved(u).later \subseteq (call[u].later \ gone) \cup new
    <2>1. call[u] \in Calls
        BY DEF UserInv, TypeOKUsers, Calls
    <2>2. at(u) \in 0..MaxUser
        BY <2>1, Basics DEF Calls
    <2> HIDE DEF at
    <2>3. /\ moved(u) \in Calls /\ moved(u).at = at(u) /\ moved(u).id = call[u].id
          /\ moved(u).later \subseteq (call[u].later \ gone) \cup new
        BY <2>1, <2>2 DEF Calls
    <2> QED
        BY <2>3 DEF at
<1> HIDE DEF moved, at
<1>3. call' \in [UserThreads -> Calls]
    BY <1>1, <1>2, Basics
<1>4. PointersLead'
    BY <1>1, <1>2, Basics DEF PointersLead, UserInv
<1> QED
    BY <1>3, <1>4

LEMMA SameAccounts ==
    ASSUME UserInv, UNCHANGED <<names, usurped, userGone>>, Accounts' = Accounts,
           users' \in [UserIds -> User \cup {NoUser}],
           \A u \in Accounts : users'[u].name = users[u].name,
           call' \in [UserThreads -> Calls], PointersLead'
    PROVE  UserInv'
<1>1. NamesLead' /\ IdsGiven'
    BY DEF UserInv, NamesLead, IdsGiven
<1>2. TypeOKUsers'
    BY DEF UserInv, TypeOKUsers, Calls
<1> QED
    BY <1>1, <1>2 DEF UserInv

(* A call that ends with nothing done. *)
LEMMA NothingDone ==
    ASSUME UserInv, NEW t \in UserThreads, Settle(t, {}, {}),
           UNCHANGED <<users, names, usurped, userGone>>
    PROVE  UserInv'
<1>1. Accounts' = Accounts
    BY DEF Accounts
<1>2. call' \in [UserThreads -> Calls] /\ PointersLead'
    BY <1>1, SettleKeepsPointers
<1> QED
    BY <1>1, <1>2, SameAccounts DEF UserInv, TypeOKUsers

(* A call starts. *)
LEMMA StartKeepsUsers ==
    ASSUME UserInv, NEW t \in UserThreads, NEW c \in Calls,
           c.at # 0 => c.at = c.id /\ c.at \in Accounts, c.later = {},
           call' = [call EXCEPT ![t] = c],
           UNCHANGED <<users, names, usurped, userGone>>
    PROVE  UserInv'
<1>1. call' \in [UserThreads -> Calls]
    BY DEF UserInv, TypeOKUsers, Calls
<1>2. Accounts' = Accounts
    BY DEF Accounts
<1>3. PointersLead'
    BY <1>2 DEF UserInv, PointersLead, TypeOKUsers
<1> QED
    BY <1>1, <1>2, <1>3, SameAccounts DEF UserInv, TypeOKUsers

LEMMA NextUserIdIsNew ==
    ASSUME UserInv, ~userGone
    PROVE  NextUserId \notin Accounts /\ \E n \in Nat : Accounts \cup {NextUserId} = 1..n
<1>1. PICK n \in Nat : Accounts = 1..n
    BY DEF UserInv, IdsGiven
<1>2. Cardinality(1..n) = n
    <2>1. Cardinality(1..n) = IF 1 > n THEN 0 ELSE n - 1 + 1
        BY FS_Interval
    <2> QED
        BY <2>1
<1>3. NextUserId = n + 1
    BY <1>1, <1>2 DEF NextUserId
<1>4. Accounts \cup {NextUserId} = 1..(n + 1)
    BY <1>1, <1>3
<1> QED
    BY <1>1, <1>3, <1>4

LEMMA CreateUserKeepsUsers ==
    ASSUME UserInv, NEW t \in UserThreads, CreateUser(t)
    PROVE  UserInv'
<1> DEFINE i == NextUserId
           n == call[t].name
<1>1. i \in UserIds /\ userGone' = userGone /\ n \in Names
    BY DEF CreateUser, UserInv, TypeOKUsers
<1>2. CASE \E u \in Accounts : users[u].name = n
    <2>1. Settle(t, {}, {}) /\ UNCHANGED <<users, names, usurped, userGone>>
        BY <1>2 DEF CreateUser
    <2> QED
        BY <2>1, NothingDone
<1>3. CASE ~ \E u \in Accounts : users[u].name = n
    <2>1. /\ users' = [users EXCEPT ![i] = [name |-> n, edited |-> FALSE]]
          /\ names' = [names EXCEPT ![n] = i]
          /\ usurped' = (usurped \ {n}) \cup {users[u].name : u \in Accounts \cap {i}}
          /\ Settle(t, Accounts \cap {i}, {i})
        BY <1>3 DEF CreateUser
    <2>2. [name |-> n, edited |-> FALSE] \in User
        BY <1>1 DEF User
    <2> HIDE DEF n, i
    <2>3. /\ users'[i] = [name |-> n, edited |-> FALSE] /\ users'[i].name = n
          /\ \A u \in UserIds \ {i} : users'[u] = users[u]
          /\ users' \in [UserIds -> User \cup {NoUser}]
          /\ names'[n] = i /\ \A m \in Names \ {n} : names'[m] = names[m]
          /\ names' \in [Names -> 0..MaxUser]
        BY <1>1, <2>1, <2>2, Basics DEF UserInv, TypeOKUsers
    <2>4. Accounts' = Accounts \cup {i}
        BY <1>1, <2>2, <2>3, UsersAssumption DEF Accounts
    <2>5. \A u \in Accounts : u \in UserIds /\ users[u].name \in Names
        BY AccountIsRecord DEF UserInv
    <2>6. usurped' \subseteq Names
        BY <2>1, <2>5 DEF UserInv, TypeOKUsers
    <2>7. call' \in [UserThreads -> Calls] /\ PointersLead'
        <3>1. Accounts \cap {i} \in SUBSET UserIds /\ {i} \in SUBSET UserIds
            BY <1>1
        <3>2. (Accounts \ (Accounts \cap {i})) \cup {i} \subseteq Accounts'
            BY <2>4
        <3> QED
            BY <2>1, <3>1, <3>2, SettleKeepsPointers
    <2>8. TypeOKUsers'
        BY <1>1, <2>3, <2>6, <2>7 DEF TypeOKUsers, UserInv, Calls
    <2>9. ASSUME NEW u \in Accounts' PROVE names'[users'[u].name] = u
        <3>1. CASE u = i
            BY <2>3, <3>1
        <3>2. CASE u # i
            BY <1>3, <2>3, <2>4, <2>5, <3>2 DEF UserInv, NamesLead
        <3> QED
            BY <3>1, <3>2
    <2>10. ASSUME NEW m \in Names, names'[m] # 0
           PROVE  m \in usurped' \/ (names'[m] \in Accounts' /\ users'[names'[m]].name = m)
        <3>1. CASE m = n
            BY <2>3, <2>4, <3>1
        <3>2. CASE m # n
            <4>1. names'[m] = names[m]
                BY <2>3, <3>2
            <4>2. m \in usurped \/ (names[m] \in Accounts /\ users[names[m]].name = m)
                BY <2>10, <4>1 DEF UserInv, NamesLead
            <4>3. CASE m \in usurped
                BY <2>1, <3>2, <4>3
            <4>4. CASE names[m] \in Accounts /\ users[names[m]].name = m
                <5>1. CASE names[m] = i
                    BY <2>1, <4>4, <5>1
                <5>2. CASE names[m] # i
                    BY <2>3, <2>4, <2>5, <4>1, <4>4, <5>2
                <5> QED
                    BY <5>1, <5>2
            <4> QED
                BY <4>2, <4>3, <4>4
        <3> QED
            BY <3>1, <3>2
    <2>11. ~userGone => i \notin Accounts /\ \E k \in Nat : Accounts \cup {i} = 1..k
        BY NextUserIdIsNew DEF i
    <2>12. usurped' # {} => userGone'
        BY <1>1, <2>1, <2>11 DEF UserInv, NamesLead
    <2>13. IdsGiven'
        BY <1>1, <2>4, <2>11 DEF IdsGiven
    <2> QED
        BY <2>7, <2>8, <2>9, <2>10, <2>12, <2>13 DEF UserInv, NamesLead
<1> QED
    BY <1>2, <1>3

LEMMA DeleteUserKeepsUsers ==
    ASSUME UserInv, NEW t \in UserThreads, DeleteUser(t)
    PROVE  UserInv'
<1> DEFINE d == call[t].id
<1>1. CASE d \notin Accounts
    <2>1. Settle(t, {}, {}) /\ UNCHANGED <<users, names, usurped, userGone>>
        BY <1>1 DEF DeleteUser
    <2> QED
        BY <2>1, NothingDone
<1>2. CASE d \in Accounts
    <2> DEFINE n == users[d].name
    <2>1. /\ names' = [names EXCEPT ![n] = 0]
          /\ users' = [users EXCEPT ![d] = NoUser]
          /\ userGone' = TRUE /\ usurped' = usurped
          /\ Settle(t, {d}, {})
        BY <1>2 DEF DeleteUser, NamesWithout
    <2>2. d \in UserIds /\ n \in Names /\ \A u \in Accounts : users[u].name \in Names
        BY <1>2, AccountIsRecord DEF UserInv
    <2> HIDE DEF n, d
    <2>4. /\ users'[d] = NoUser /\ \A u \in UserIds \ {d} : users'[u] = users[u]
          /\ users' \in [UserIds -> User \cup {NoUser}]
          /\ names'[n] = 0 /\ \A m \in Names \ {n} : names'[m] = names[m]
          /\ names' \in [Names -> 0..MaxUser]
        BY <2>1, <2>2, Basics DEF UserInv, TypeOKUsers
    <2>5. Accounts' = Accounts \ {d}
        BY <2>4 DEF Accounts
    <2>3. call' \in [UserThreads -> Calls] /\ PointersLead'
        <3> DEFINE gone == {d}
        <3>1. gone \in SUBSET UserIds /\ (Accounts \ gone) \cup {} \subseteq Accounts'
            BY <2>2, <2>5
        <3>2. Settle(t, gone, {}) /\ {} \in SUBSET UserIds
            BY <2>1
        <3> HIDE DEF gone
        <3> QED
            BY <3>1, <3>2, SettleKeepsPointers
    <2>6. TypeOKUsers'
        BY <2>1, <2>3, <2>4 DEF TypeOKUsers, UserInv, Calls
    <2>7. names[n] = d
        BY <1>2 DEF UserInv, NamesLead, n
    <2>8. ASSUME NEW u \in Accounts' PROVE names'[users'[u].name] = u
        <3>1. u \in Accounts /\ u # d /\ users'[u] = users[u] /\ names[users[u].name] = u
            BY <2>4, <2>5 DEF UserInv, NamesLead, Accounts
        <3>2. users[u].name # n
            BY <2>7, <3>1
        <3> QED
            BY <2>2, <2>4, <3>1, <3>2
    <2>9. ASSUME NEW m \in Names, names'[m] # 0
          PROVE  m \in usurped' \/ (names'[m] \in Accounts' /\ users'[names'[m]].name = m)
        <3>1. m # n /\ names'[m] = names[m]
            BY <2>4, <2>9
        <3>2. m \in usurped \/ (names[m] \in Accounts /\ users[names[m]].name = m)
            BY <2>9, <3>1 DEF UserInv, NamesLead
        <3>3. names[m] \in Accounts /\ users[names[m]].name = m => names[m] # d
            BY <3>1 DEF n
        <3> QED
            BY <2>1, <2>4, <2>5, <3>1, <3>2, <3>3 DEF Accounts
    <2> QED
        BY <2>1, <2>3, <2>6, <2>8, <2>9 DEF UserInv, NamesLead, IdsGiven
<1> QED
    BY <1>1, <1>2

LEMMA EditUserKeepsUsers ==
    ASSUME UserInv, NEW t \in UserThreads, EditUser(t)
    PROVE  UserInv'
<1>1. PICK u \in {call[t].at} \cup call[t].later :
          users' = [i \in UserIds |-> IF i = u THEN [users[i] EXCEPT !.edited = TRUE]
                                      ELSE users[i]]
    BY DEF EditUser
<1>2. Settle(t, {}, {}) /\ UNCHANGED <<names, usurped, userGone>>
    BY DEF EditUser
<1>3. u \in Accounts => users[u] \in User /\ u \in UserIds
    BY AccountIsRecord DEF UserInv
<1>4. u \in Accounts \/ u = 0
    BY DEF UserInv, PointersLead
<1>5. CASE u = 0
    <2>1. users' = users
        BY <1>1, <1>5, Basics DEF UserInv, TypeOKUsers
    <2> QED
        BY <1>2, <2>1, NothingDone
<1>6. CASE u \in Accounts
    <2> DEFINE new == [users[u] EXCEPT !.edited = TRUE]
    <2>1. new \in User /\ new.name = users[u].name /\ new # NoUser
        BY <1>3, <1>6, UsersAssumption DEF User
    <2> HIDE DEF new
    <2>2. \A i \in UserIds : users'[i] = IF i = u THEN new ELSE users[i]
        BY <1>1 DEF new
    <2>3. users' \in [UserIds -> User \cup {NoUser}]
        BY <1>1, <2>1, <2>2 DEF UserInv, TypeOKUsers
    <2>4. Accounts' = Accounts
        BY <1>3, <1>6, <2>1, <2>2 DEF Accounts
    <2>5. \A i \in Accounts : users'[i].name = users[i].name
        BY <2>1, <2>2 DEF Accounts
    <2>6. call' \in [UserThreads -> Calls] /\ PointersLead'
        BY <1>2, <2>4, SettleKeepsPointers
    <2> QED
        BY <1>2, <2>3, <2>4, <2>5, <2>6, SameAccounts
<1> QED
    BY <1>4, <1>5, <1>6

LEMMA ShutdownKeepsUsers ==
    ASSUME UserInv, ShutdownUsers
    PROVE  UserInv'
<1>1. /\ users' = [u \in UserIds |-> NoUser] /\ names' = [n \in Names |-> 0]
      /\ usurped' = {} /\ userGone' = userGone
      /\ call' = [t \in UserThreads |-> [call[t] EXCEPT !.at = 0, !.later = {}]]
    BY DEF ShutdownUsers
<1>2. Accounts' = {} /\ Accounts' = 1..0
    <2>1. Accounts' = {}
        BY <1>1 DEF Accounts
    <2> QED
        BY <2>1
<1>3. call' \in [UserThreads -> Calls]
      /\ \A t \in UserThreads : call'[t].at = 0 /\ call'[t].later = {}
    BY <1>1, Basics DEF UserInv, TypeOKUsers, Calls
<1>4. TypeOKUsers'
    BY <1>1, <1>3, Basics DEF UserInv, TypeOKUsers, Calls
<1>5. PointersLead'
    BY <1>3 DEF PointersLead
<1> QED
    BY <1>1, <1>2, <1>4, <1>5 DEF UserInv, NamesLead, IdsGiven

LEMMA NextKeepsUsers == UserInv /\ [NextUsers]_userVars => UserInv'
<1> SUFFICES ASSUME UserInv, [NextUsers]_userVars PROVE UserInv'
    OBVIOUS
<1>1. ASSUME NEW t \in UserThreads, NEW i \in UserIds, GetUser(t, i) PROVE UserInv'
    <2>1. PICK u \in Reached(i) :
              call' = [call EXCEPT ![t] = [NoCall EXCEPT !.op = "edit", !.id = i, !.at = u]]
        BY <1>1 DEF GetUser
    <2> DEFINE c == [NoCall EXCEPT !.op = "edit", !.id = i, !.at = u]
    <2>2. u = i /\ u \in Accounts
        BY DEF Reached
    <2>3. c \in Calls /\ c.at = u /\ c.id = i /\ c.later = {}
        BY <2>2, Basics DEF Calls
    <2> HIDE DEF c
    <2>4. call' = [call EXCEPT ![t] = c]
        BY <2>1 DEF c
    <2> QED
        BY <1>1, <2>2, <2>3, <2>4, StartKeepsUsers DEF GetUser
<1>2. ASSUME NEW t \in UserThreads, NEW op \in {"create", "delete", "lookup"},
             NEW i \in 0..MaxUser, NEW n \in Names,
             call' = [call EXCEPT ![t] = [NoCall EXCEPT !.op = op, !.id = i, !.name = n]],
             UNCHANGED <<users, names, usurped, userGone>>
      PROVE  UserInv'
    <2> DEFINE c == [NoCall EXCEPT !.op = op, !.id = i, !.name = n]
    <2>1. c \in Calls /\ c.at = 0 /\ c.later = {}
        BY Basics DEF Calls
    <2> HIDE DEF c
    <2>2. call' = [call EXCEPT ![t] = c]
        BY <1>2 DEF c
    <2> QED
        BY <1>2, <2>1, <2>2, StartKeepsUsers
<1>3. ASSUME NEW t \in UserThreads, NEW n \in Names, Ask(t, "create", 0, n) PROVE UserInv'
    BY <1>2, <1>3, Basics DEF Ask
<1>4. ASSUME NEW t \in UserThreads, NEW i \in UserIds, Ask(t, "delete", i, AnyName)
      PROVE  UserInv'
    BY <1>2, <1>4, Basics DEF Ask
<1>5. ASSUME NEW t \in UserThreads, NEW n \in Names, BeginLookup(t, n) PROVE UserInv'
    <2>1. names[n] \in 0..MaxUser
        BY DEF UserInv, TypeOKUsers
    <2> QED
        BY <1>2, <1>5, <2>1 DEF BeginLookup
<1>6. ASSUME NEW t \in UserThreads, EndLookup(t) PROVE UserInv'
    BY <1>6, NothingDone DEF EndLookup
<1>7. CASE UNCHANGED userVars
    BY <1>7 DEF userVars, UserInv, TypeOKUsers, NamesLead, IdsGiven, PointersLead, Accounts
<1> QED
    BY <1>1, <1>3, <1>4, <1>5, <1>6, <1>7, CreateUserKeepsUsers, DeleteUserKeepsUsers,
       EditUserKeepsUsers, ShutdownKeepsUsers DEF NextUsers

(* The inductive invariant, for any number of threads. *)
THEOREM UsersCorrect == SpecUsers => []UserInv
    BY UsersStart, NextKeepsUsers, PTL DEF SpecUsers

(* Whoever asks by name gets the account of that name, until an account was *)
(* deleted and create_user's size() + 1 was the id of a live one.           *)
THEOREM NamesReachAccounts == SpecUsers => []NamesReach
<1>1. UserInv => NamesReach
    <2> SUFFICES ASSUME UserInv PROVE NamesReach
        OBVIOUS
    <2>1. \A u \in Accounts : u # 0
        BY Basics DEF Accounts
    <2> QED
        BY <2>1 DEF UserInv, NamesLead, NamesReach
<1> QED
    BY <1>1, UsersCorrect, PTL

(* An operation in two sections changes the account it was called for, or   *)
(* one that was allocated after that one had been freed, whatever the other *)
(* threads do in between.                                                   *)
THEOREM EditsStayOnAccount == SpecUsers => EditsReachNamed
<1> DEFINE Named ==
       \A u \in Accounts :
          ~users[u].edited /\ users'[u] # NoUser /\ users'[u].edited =>
              \E t \in UserThreads :
                  call[t].op = "edit" /\ (call[t].id = u \/ u \in call[t].later)
<1>1. UserInv /\ [NextUsers]_userVars => [Named]_userVars
    <2> SUFFICES ASSUME UserInv, NextUsers,
                        NEW u \in Accounts, ~users[u].edited,
                        users'[u] # NoUser, users'[u].edited
                 PROVE  \E t \in UserThreads :
                            call[t].op = "edit" /\ (call[t].id = u \/ u \in call[t].later)
        OBVIOUS
    <2>1. u \in UserIds /\ users[u] \in User
        BY AccountIsRecord DEF UserInv
    <2>2. users' # users
        OBVIOUS
    <2>3. ASSUME NEW t \in UserThreads, EditUser(t)
          PROVE  call[t].op = "edit" /\ (call[t].id = u \/ u \in call[t].later)
        <3>1. PICK x \in {call[t].at} \cup call[t].later :
                  users' = [i \in UserIds |-> IF i = x THEN [users[i] EXCEPT !.edited = TRUE]
                                              ELSE users[i]]
            BY <2>3 DEF EditUser
        <3>2. x = u
            BY <2>1, <3>1
        <3> QED
            BY <2>1, <2>3, <3>2, Basics DEF EditUser, UserInv, PointersLead
    <2>4. ASSUME NEW t \in UserThreads, CreateUser(t) PROVE FALSE
        <3>1. users' = [users EXCEPT ![NextUserId] = [name |-> call[t].name, edited |-> FALSE]]
            BY <2>2, <2>4 DEF CreateUser
        <3> QED
            BY <2>1, <3>1 DEF UserInv, TypeOKUsers
    <2>5. ASSUME NEW t \in UserThreads, DeleteUser(t) PROVE FALSE
        <3>1. users' = [users EXCEPT ![call[t].id] = NoUser]
            BY <2>2, <2>5 DEF DeleteUser
        <3> QED
            BY <2>1, <3>1 DEF UserInv, TypeOKUsers
    <2>6. ~ShutdownUsers
        BY <2>1 DEF ShutdownUsers
    <2> QED
        BY <2>2, <2>3, <2>4, <2>5, <2>6
        DEF NextUsers, GetUser, Ask, BeginLookup, EndLookup
<1> QED
    BY <1>1, UsersCorrect, PTL DEF SpecUsers, EditsReachNamed

-------------------------------------------------------------------------------
(* The roles.                                                               *)

(* The least set of present roles that holds r and what they inherit from. *)
Least(f, P, r) ==
    {s \in P : \A S \in SUBSET P :
        r \in S /\ (\A x \in S : f[x].inherited \cap P \subseteq S) => s \in S}

LEMMA LineageIsLeast ==
    /\ \A r : Lineage(r) = Least(roles, Present, r)
    /\ \A r : Lineage(r)' = Least(roles', Present', r)
    BY DEF Lineage, Least

LEMMA LeastCloses ==
    ASSUME NEW f, NEW P, NEW r \in P
    PROVE  /\ r \in Least(f, P, r) /\ Least(f, P, r) \subseteq P
           /\ \A x \in Least(f, P, r) : f[x].inherited \cap P \subseteq Least(f, P, r)
<1>1. r \in Least(f, P, r) /\ Least(f, P, r) \subseteq P
    BY DEF Least
<1>2. ASSUME NEW x \in Least(f, P, r), NEW s \in f[x].inherited \cap P
      PROVE  s \in Least(f, P, r)
    <2> SUFFICES ASSUME NEW S \in SUBSET P, r \in S,
                        \A y \in S : f[y].inherited \cap P \subseteq S
                 PROVE  s \in S
        BY DEF Least
    <2>1. x \in S
        BY DEF Least
    <2> QED
        BY <2>1
<1> QED
    BY <1>1, <1>2

LEMMA LeastIsLeast ==
    ASSUME NEW f, NEW P, NEW r, NEW S \in SUBSET P, r \in S,
           \A x \in S : f[x].inherited \cap P \subseteq S
    PROVE  Least(f, P, r) \subseteq S
    BY DEF Least

(* A new role that inherits from none changes no other's lineage but for    *)
(* itself, where somebody still names its id.                               *)
LEMMA LeastWithNew ==
    ASSUME NEW f, NEW g, NEW P, NEW r \in P, NEW i, i \notin P,
           g[i].inherited = {}, \A x \in P : g[x] = f[x]
    PROVE  /\ Least(f, P, r) \subseteq Least(g, P \cup {i}, r)
           /\ Least(g, P \cup {i}, r) \subseteq Least(f, P, r) \cup {i}
<1> DEFINE Q == P \cup {i}
<1>1. Least(f, P, r) \subseteq Least(g, Q, r)
    <2> SUFFICES ASSUME NEW s \in Least(f, P, r), NEW S \in SUBSET Q, r \in S,
                        \A x \in S : g[x].inherited \cap Q \subseteq S
                 PROVE  s \in S
        BY DEF Least
    <2>1. \A x \in S \cap P : f[x].inherited \cap P \subseteq S \cap P
        OBVIOUS
    <2>2. Least(f, P, r) \subseteq S \cap P
        BY <2>1, LeastIsLeast
    <2> QED
        BY <2>2
<1>2. Least(g, Q, r) \subseteq Least(f, P, r) \cup {i}
    <2> DEFINE S == Least(f, P, r) \cup {i}
    <2>1. /\ r \in Least(f, P, r) /\ Least(f, P, r) \subseteq P
          /\ \A x \in Least(f, P, r) : f[x].inherited \cap P \subseteq Least(f, P, r)
        BY LeastCloses
    <2>2. S \in SUBSET Q /\ r \in S
        BY <2>1
    <2>3. \A x \in S : g[x].inherited \cap Q \subseteq S
        BY <2>1
    <2> HIDE DEF S, Q
    <2>4. Least(g, Q, r) \subseteq S
        BY <2>2, <2>3, LeastIsLeast
    <2> QED
        BY <2>4 DEF S
<1> QED
    BY <1>1, <1>2

LEMMA UnionWithNew ==
    ASSUME NEW f, NEW g, NEW i, NEW A, NEW B, A \subseteq B, B \subseteq A \cup {i},
           g[i].permissions = {}, \A x \in A : g[x] = f[x]
    PROVE  UNION {g[s].permissions : s \in B} = UNION {f[s].permissions : s \in A}
<1>1. ASSUME NEW s \in B, NEW p \in g[s].permissions
      PROVE  s \in A /\ p \in f[s].permissions
    BY <1>1
<1>2. ASSUME NEW s \in A, NEW p \in f[s].permissions
      PROVE  s \in B /\ p \in g[s].permissions
    BY <1>2
<1> QED
    BY <1>1, <1>2

-------------------------------------------------------------------------------
Requests ==
    [op : {"none", "permit", "child", "inherit", "disinherit", "read", "fill", "answer"},
     id : RoleIds \cup {0}, at : RoleIds \cup {0}, later : SUBSET RoleIds,
     what : (SUBSET Permissions) \cup (SUBSET RoleIds), todo : SUBSET RoleIds,
     alone : BOOLEAN]

RoleTypes ==
    /\ roles \in [RoleIds -> Role \cup {NoRole}]
    /\ cache \in [RoleIds -> (SUBSET Permissions) \cup {NoEntry}]
    /\ dirty \in BOOLEAN /\ outdated \in BOOLEAN
    /\ given \in [RoleIds -> 0..2]
    /\ request \in [RoleThreads -> Requests]
    /\ \A t \in RoleThreads :
           /\ request[t].op = "permit" => request[t].what \subseteq Permissions
           /\ request[t].op \in {"child", "inherit", "disinherit"} =>
                  request[t].what \subseteq RoleIds

(* A pointer that leads to a role leads to the one it was got for. *)
RolePointers ==
    \A t \in RoleThreads :
        /\ request[t].at # 0 => request[t].at = request[t].id /\ request[t].at \in Present
        /\ request[t].later \subseteq Present

(* Whatever id anybody inherits from, or is about to, has been given out. *)
ParentsGiven ==
    /\ \A r \in Present : given[r] >= 1
    /\ \A r \in Present : \A p \in roles[r].inherited : given[p] >= 1
    /\ \A t \in RoleThreads : request[t].op = "inherit" =>
           \A p \in request[t].what : given[p] >= 1

RoleInv == RoleTypes /\ RolePointers /\ ParentsGiven /\ InheritsAsJoined

LEMMA RoleBasics ==
    /\ RoleIds \subseteq Nat \ {0} /\ Present \subseteq RoleIds
    /\ \A r \in Role : r # NoRole
    /\ NoRequest \in Requests /\ NoRequest.at = 0 /\ NoRequest.later = {}
    /\ NoRequest.op = "none"
    BY RolesAssumption DEF RoleIds, Present, NoRequest, Requests

LEMMA PresentIsRole ==
    ASSUME RoleTypes, NEW r \in Present
    PROVE  /\ roles[r] \in Role /\ roles[r].permissions \subseteq Permissions
           /\ roles[r].inherited \subseteq RoleIds
    BY DEF RoleTypes, Present, Role

(* The state that a process starts with. *)
Fresh ==
    /\ roles = [r \in RoleIds |-> NoRole]
    /\ cache = [r \in RoleIds |-> NoEntry]
    /\ dirty = FALSE /\ outdated = FALSE /\ links = {}
    /\ request = [t \in RoleThreads |-> NoRequest]
    /\ given = [r \in RoleIds |-> 0]

LEMMA FreshIsRight == Fresh => RoleInv
<1> SUFFICES ASSUME Fresh PROVE RoleInv
    OBVIOUS
<1>1. Present = {}
    BY DEF Fresh, Present
<1>2. RoleTypes
    <2>1. \A t \in RoleThreads : request[t] = NoRequest
        BY DEF Fresh
    <2>2. request \in [RoleThreads -> Requests]
        BY RoleBasics DEF Fresh
    <2>3. given \in [RoleIds -> 0..2] /\ roles \in [RoleIds -> Role \cup {NoRole}]
          /\ cache \in [RoleIds -> (SUBSET Permissions) \cup {NoEntry}]
        BY DEF Fresh
    <2> QED
        BY <2>1, <2>2, <2>3, RoleBasics DEF Fresh, RoleTypes
<1> QED
    BY <1>1, <1>2, RoleBasics DEF Fresh, RoleInv, RolePointers, ParentsGiven, InheritsAsJoined

(* Freed and allocated roles move pointers, and give nobody another's.      *)
LEMMA MovedKeeps ==
    ASSUME RoleInv, NEW gone \in SUBSET RoleIds, NEW new \in SUBSET RoleIds,
           request' = Moved(gone, new), (Present \ gone) \cup new \subseteq Present'
    PROVE  /\ request' \in [RoleThreads -> Requests]
           /\ RolePointers'
           /\ \A t \in RoleThreads :
                  /\ request'[t].op = request[t].op /\ request'[t].what = request[t].what
                  /\ request'[t].todo = request[t].todo
                  /\ request'[t].alone = request[t].alone
                  /\ request'[t].id = request[t].id
<1> DEFINE at(t) == IF request[t].at \in gone THEN 0 ELSE request[t].at
           later(t) == IF request[t].op \in Edits /\ at(t) = 0
                       THEN (request[t].later \ gone) \cup new ELSE {}
           moved(t) == [request[t] EXCEPT !.at = at(t), !.later = later(t)]
<1>1. request' = [t \in RoleThreads |-> moved(t)]
    BY DEF Moved
<1>2. ASSUME NEW t \in RoleThreads
      PROVE  /\ moved(t) \in Requests
             /\ moved(t).at = at(t) /\ moved(t).later = later(t)
             /\ moved(t).op = request[t].op /\ moved(t).what = request[t].what
             /\ moved(t).todo = request[t].todo /\ moved(t).alone = request[t].alone
             /\ moved(t).id = request[t].id
             /\ at(t) # 0 => at(t) = request[t].at /\ at(t) \notin gone
             /\ later(t) \subseteq (request[t].later \ gone) \cup new
    <2>1. request[t] \in Requests
        BY DEF RoleInv, RoleTypes
    <2>2. at(t) \in RoleIds \cup {0} /\ later(t) \in SUBSET RoleIds
        BY <2>1 DEF Requests
    <2>3. /\ at(t) # 0 => at(t) = request[t].at /\ at(t) \notin gone
          /\ later(t) \subseteq (request[t].later \ gone) \cup new
        OBVIOUS
    <2> HIDE DEF at, later
    <2> QED
        BY <2>1, <2>2, <2>3 DEF Requests
<1> HIDE DEF moved, at, later
<1>3. RolePointers'
    BY <1>1, <1>2 DEF RolePointers, RoleInv
<1> QED
    BY <1>1, <1>2, <1>3

LEMMA CreateRoleKeeps ==
    ASSUME RoleInv, CreateRole
    PROVE  RoleInv'
<1> DEFINE i == NextRoleId
           fresh == [permissions |-> {}, inherited |-> {}]
<1>1. /\ i \in RoleIds
      /\ roles' = [roles EXCEPT ![i] = fresh]
      /\ request' = Moved(Present \cap {i}, {i})
      /\ links' = {l \in links : l[1] # i /\ l[2] # i}
      /\ given' = [given EXCEPT ![i] = IF @ = 0 THEN 1 ELSE 2]
      /\ outdated' = (outdated \/ i \in Present)
      /\ cache' = cache /\ dirty' = dirty
    BY DEF CreateRole
<1>2. fresh \in Role /\ fresh # NoRole /\ fresh.inherited = {}
    <2>1. fresh \in Role /\ fresh.inherited = {}
        BY DEF Role
    <2> QED
        BY <2>1, RoleBasics
<1> HIDE DEF i, fresh
<1>3. /\ roles'[i] = fresh /\ \A r \in RoleIds \ {i} : roles'[r] = roles[r]
      /\ roles' \in [RoleIds -> Role \cup {NoRole}]
      /\ given'[i] \in 1..2 /\ (given[i] >= 1 => given'[i] = 2)
      /\ \A r \in RoleIds \ {i} : given'[r] = given[r]
      /\ given' \in [RoleIds -> 0..2]
    BY <1>1, <1>2 DEF RoleInv, RoleTypes
<1>4. Present' = Present \cup {i}
    BY <1>1, <1>2, <1>3 DEF Present
<1>5. /\ request' \in [RoleThreads -> Requests]
      /\ RolePointers'
      /\ \A t \in RoleThreads :
             request'[t].op = request[t].op /\ request'[t].what = request[t].what
    <2>1. Present \cap {i} \in SUBSET RoleIds /\ {i} \in SUBSET RoleIds
        BY <1>1, RoleBasics
    <2>2. (Present \ (Present \cap {i})) \cup {i} \subseteq Present'
        BY <1>4
    <2> QED
        BY <1>1, <2>1, <2>2, MovedKeeps
<1>6. RoleTypes'
    BY <1>1, <1>3, <1>5 DEF RoleInv, RoleTypes
<1>7. \A r \in RoleIds : given[r] >= 1 => given'[r] >= 1
    BY <1>3 DEF RoleInv, RoleTypes
<1>8. \A r \in Present : roles[r].inherited \subseteq RoleIds
    BY PresentIsRole DEF RoleInv
<1>9. ParentsGiven'
    <2>1. \A r \in Present' : given'[r] >= 1
        BY <1>3, <1>4, <1>7, RoleBasics DEF RoleInv, ParentsGiven
    <2>2. ASSUME NEW r \in Present', NEW p \in roles'[r].inherited PROVE given'[p] >= 1
        <3>1. r # i /\ r \in Present /\ roles'[r] = roles[r]
            BY <1>2, <1>3, <1>4, <2>2, RoleBasics
        <3> QED
            BY <1>7, <1>8, <2>2, <3>1 DEF RoleInv, ParentsGiven
    <2>3. ASSUME NEW t \in RoleThreads, request'[t].op = "inherit", NEW p \in request'[t].what
          PROVE  given'[p] >= 1
        BY <1>5, <1>7, <2>3 DEF RoleInv, ParentsGiven, RoleTypes
    <2> QED
        BY <2>1, <2>2, <2>3 DEF ParentsGiven
<1>10. InheritsAsJoined'
    <2> SUFFICES ASSUME NEW r \in Present', NEW p \in roles'[r].inherited \cap Present',
                        given'[p] < 2
                 PROVE  <<r, p>> \in links'
        BY DEF InheritsAsJoined
    <2>1. r # i /\ r \in Present /\ roles'[r] = roles[r]
        BY <1>2, <1>3, <1>4, RoleBasics
    <2>2. given[p] >= 1 /\ p \in RoleIds
        BY <1>8, <2>1 DEF RoleInv, ParentsGiven
    <2>3. p # i
        BY <1>3, <2>2
    <2>4. <<r, p>> \in links
        BY <1>3, <1>4, <2>1, <2>2, <2>3 DEF RoleInv, InheritsAsJoined
    <2> QED
        BY <1>1, <2>1, <2>3, <2>4
<1> QED
    BY <1>5, <1>6, <1>9, <1>10 DEF RoleInv

LEMMA DeleteRoleKeeps ==
    ASSUME RoleInv, NEW d \in RoleIds, DeleteRole(d)
    PROVE  RoleInv'
<1>1. /\ d \in Present
      /\ roles' = [roles EXCEPT ![d] = NoRole]
      /\ request' = Moved({d}, {})
      /\ links' = {l \in links : l[1] # d /\ l[2] # d}
      /\ dirty' = TRUE /\ outdated' = FALSE
      /\ cache' = cache /\ given' = given
    BY DEF DeleteRole, Invalidate
<1>2. /\ roles'[d] = NoRole /\ \A r \in RoleIds \ {d} : roles'[r] = roles[r]
      /\ roles' \in [RoleIds -> Role \cup {NoRole}]
    BY <1>1 DEF RoleInv, RoleTypes
<1>3. Present' = Present \ {d}
    BY <1>2 DEF Present
<1>4. /\ request' \in [RoleThreads -> Requests]
      /\ RolePointers'
      /\ \A t \in RoleThreads :
             request'[t].op = request[t].op /\ request'[t].what = request[t].what
    <2> DEFINE gone == {d}
    <2>1. gone \in SUBSET RoleIds /\ (Present \ gone) \cup {} \subseteq Present'
        BY <1>3
    <2>2. request' = Moved(gone, {}) /\ {} \in SUBSET RoleIds
        BY <1>1
    <2> HIDE DEF gone
    <2> QED
        BY <2>1, <2>2, MovedKeeps
<1>5. RoleTypes'
    BY <1>1, <1>2, <1>4 DEF RoleInv, RoleTypes
<1>6. \A r \in Present' : r \in Present /\ roles'[r] = roles[r] /\ r # d
    BY <1>2, <1>3, RoleBasics
<1>7. ParentsGiven'
    BY <1>1, <1>4, <1>6 DEF RoleInv, ParentsGiven
<1>8. InheritsAsJoined'
    <2> SUFFICES ASSUME NEW r \in Present', NEW p \in roles'[r].inherited \cap Present',
                        given'[p] < 2
                 PROVE  <<r, p>> \in links'
        BY DEF InheritsAsJoined
    <2>1. <<r, p>> \in links /\ r # d /\ p # d
        BY <1>1, <1>6 DEF RoleInv, InheritsAsJoined
    <2> QED
        BY <1>1, <2>1
<1> QED
    BY <1>4, <1>5, <1>7, <1>8 DEF RoleInv

(* A role's own permissions or parents are changed; the pairs that the      *)
(* change adds have parents that were given out.                            *)
Rewritten(t, r, new) ==
    /\ r \in {request[t].at} \cup request[t].later
    /\ roles' = [i \in RoleIds |-> IF i = r THEN new ELSE roles[i]]
    /\ r \in Present =>
           /\ new \in Role
           /\ \A p \in new.inherited :
                  /\ given[p] >= 1
                  /\ p \in Present => p \in roles[r].inherited \/ <<r, p>> \in links'
    /\ links \subseteq links'
    /\ request' = [request EXCEPT ![t] = NoRequest]
    /\ dirty' = TRUE /\ outdated' = FALSE /\ cache' = cache /\ given' = given

LEMMA WriteKeeps ==
    ASSUME RoleInv, NEW t \in RoleThreads, NEW r, NEW new, Rewritten(t, r, new)
    PROVE  RoleInv' /\ Present' = Present
<1> USE DEF Rewritten
<1>1. r \in Present \/ r = 0
    BY DEF RoleInv, RolePointers
<1>2. /\ request'[t] = NoRequest /\ \A u \in RoleThreads \ {t} : request'[u] = request[u]
      /\ request' \in [RoleThreads -> Requests]
    BY RoleBasics DEF RoleInv, RoleTypes
<1>3. \A i \in RoleIds : roles'[i] = IF i = r THEN new ELSE roles[i]
    OBVIOUS
<1>4. Present' = Present
    BY <1>1, <1>3, RoleBasics DEF Present
<1>5. roles' \in [RoleIds -> Role \cup {NoRole}]
    BY <1>1, RoleBasics DEF RoleInv, RoleTypes
<1>6. RoleTypes'
    BY <1>2, <1>5, RoleBasics DEF RoleInv, RoleTypes
<1>7. RolePointers'
    BY <1>2, <1>4, RoleBasics DEF RoleInv, RolePointers
<1>8. ParentsGiven'
    <2>1. ASSUME NEW s \in Present', NEW p \in roles'[s].inherited PROVE given[p] >= 1
        BY <1>3, <1>4, <2>1, RoleBasics DEF RoleInv, ParentsGiven
    <2> QED
        BY <1>2, <1>4, <2>1, RoleBasics DEF RoleInv, ParentsGiven
<1>9. InheritsAsJoined'
    <2> SUFFICES ASSUME NEW s \in Present, NEW p \in roles'[s].inherited \cap Present,
                        given[p] < 2
                 PROVE  <<s, p>> \in links'
        BY <1>4 DEF InheritsAsJoined
    <2>1. CASE s = r
        BY <1>3, <2>1, RoleBasics DEF RoleInv, InheritsAsJoined
    <2>2. CASE s # r
        BY <1>3, <2>2, RoleBasics DEF RoleInv, InheritsAsJoined
    <2> QED
        BY <2>1, <2>2
<1> QED
    BY <1>4, <1>6, <1>7, <1>8, <1>9 DEF RoleInv

LEMMA EditsKeepRoles ==
    ASSUME RoleInv, NEW t \in Editors,
           SetRolePermissions(t) \/ AddInheritance(t) \/ RemoveInheritance(t)
    PROVE  /\ RoleInv' /\ Present' = Present /\ dirty' = TRUE /\ Excluded
           /\ request' = [request EXCEPT ![t] = NoRequest] /\ cache' = cache
<1> t \in RoleThreads
    BY RolesAssumption
<1> DEFINE what == request[t].what
<1>1. CASE SetRolePermissions(t)
    <2>1. PICK r \in {request[t].at} \cup request[t].later :
              /\ roles' = [i \in RoleIds |-> IF i = r THEN [roles[i] EXCEPT !.permissions = what]
                                             ELSE roles[i]]
              /\ links' = links
        BY <1>1 DEF SetRolePermissions, Write
    <2> DEFINE new == [roles[r] EXCEPT !.permissions = what]
    <2>2. /\ request' = [request EXCEPT ![t] = NoRequest] /\ dirty' = TRUE
          /\ outdated' = FALSE /\ cache' = cache /\ given' = given
          /\ Excluded /\ request[t].op = "permit"
        BY <1>1 DEF SetRolePermissions, Write, Invalidate
    <2>3. r \in Present => new \in Role /\ new.inherited = roles[r].inherited
        BY <2>2, PresentIsRole DEF Role, RoleInv, RoleTypes
    <2>4. roles' = [i \in RoleIds |-> IF i = r THEN new ELSE roles[i]]
        BY <2>1
    <2> HIDE DEF new
    <2>5. r \in Present => \A p \in new.inherited :
              given[p] >= 1 /\ (p \in Present => p \in roles[r].inherited \/ <<r, p>> \in links')
        BY <2>3 DEF RoleInv, ParentsGiven
    <2>6. Rewritten(t, r, new)
        BY <2>1, <2>2, <2>3, <2>4, <2>5 DEF Rewritten
    <2> QED
        BY <2>2, <2>6, WriteKeeps
<1>2. CASE AddInheritance(t)
    <2>1. PICK r \in {request[t].at} \cup request[t].later :
              /\ roles' = [i \in RoleIds |-> IF i = r THEN [roles[i] EXCEPT !.inherited = @ \cup what]
                                             ELSE roles[i]]
              /\ links' = IF r \in RoleIds
                          THEN links \cup {<<r, p>> : p \in what \cap Present}
                          ELSE links
        BY <1>2 DEF AddInheritance, Write
    <2> DEFINE new == [roles[r] EXCEPT !.inherited = @ \cup what]
    <2>2. /\ request' = [request EXCEPT ![t] = NoRequest] /\ dirty' = TRUE
          /\ outdated' = FALSE /\ cache' = cache /\ given' = given
          /\ Excluded /\ request[t].op = "inherit"
        BY <1>2 DEF AddInheritance, Write, Invalidate
    <2>3. what \subseteq RoleIds /\ \A p \in what : given[p] >= 1
        BY <2>2 DEF RoleInv, RoleTypes, ParentsGiven
    <2>4. r \in Present => new \in Role /\ new.inherited = roles[r].inherited \cup what
        BY <2>3, PresentIsRole DEF Role, RoleInv
    <2>5. roles' = [i \in RoleIds |-> IF i = r THEN new ELSE roles[i]]
        BY <2>1
    <2> HIDE DEF new
    <2>6. r \in Present => \A p \in new.inherited :
              given[p] >= 1 /\ (p \in Present => p \in roles[r].inherited \/ <<r, p>> \in links')
        BY <2>1, <2>3, <2>4, RoleBasics DEF RoleInv, ParentsGiven
    <2>7. links \subseteq links'
        BY <2>1
    <2>8. Rewritten(t, r, new)
        BY <2>1, <2>2, <2>4, <2>5, <2>6, <2>7 DEF Rewritten
    <2> QED
        BY <2>2, <2>8, WriteKeeps
<1>3. CASE RemoveInheritance(t)
    <2>1. PICK r \in {request[t].at} \cup request[t].later :
              /\ roles' = [i \in RoleIds |-> IF i = r THEN [roles[i] EXCEPT !.inherited = @ \ what]
                                             ELSE roles[i]]
              /\ links' = links
        BY <1>3 DEF RemoveInheritance, Write
    <2> DEFINE new == [roles[r] EXCEPT !.inherited = @ \ what]
    <2>2. /\ request' = [request EXCEPT ![t] = NoRequest] /\ dirty' = TRUE
          /\ outdated' = FALSE /\ cache' = cache /\ given' = given
          /\ Excluded
        BY <1>3 DEF RemoveInheritance, Write, Invalidate
    <2>3. r \in Present => new \in Role /\ new.inherited = roles[r].inherited \ what
        BY PresentIsRole DEF Role, RoleInv
    <2>4. roles' = [i \in RoleIds |-> IF i = r THEN new ELSE roles[i]]
        BY <2>1
    <2> HIDE DEF new
    <2>5. r \in Present => \A p \in new.inherited :
              given[p] >= 1 /\ (p \in Present => p \in roles[r].inherited \/ <<r, p>> \in links')
        BY <2>3 DEF RoleInv, ParentsGiven
    <2>6. Rewritten(t, r, new)
        BY <2>1, <2>2, <2>3, <2>4, <2>5 DEF Rewritten
    <2> QED
        BY <2>2, <2>6, WriteKeeps
<1> QED
    BY <1>1, <1>2, <1>3

(* Requests that start, go on or end without a change of the roles. *)
LEMMA RequestKeeps ==
    ASSUME RoleInv, UNCHANGED <<roles, links, given, outdated>>,
           cache' \in [RoleIds -> (SUBSET Permissions) \cup {NoEntry}], dirty' \in BOOLEAN,
           request' \in [RoleThreads -> Requests],
           \A t \in RoleThreads :
               \/ request'[t] = request[t]
               \/ request'[t] = NoRequest
               \/ /\ request'[t].op \notin {"permit", "child", "inherit", "disinherit"}
                  /\ request'[t].at = request[t].at /\ request'[t].id = request[t].id
                  /\ request'[t].later = request[t].later
               \/ /\ request'[t].at \in Present /\ request'[t].at = request'[t].id
                  /\ request'[t].later = {}
                  /\ request'[t].op = "permit" => request'[t].what \subseteq Permissions
                  /\ request'[t].op \in {"child", "disinherit"} =>
                         request'[t].what \subseteq RoleIds
                  /\ request'[t].op # "inherit"
               \/ /\ request'[t].op = "inherit"
                  /\ request'[t].at = request[t].at /\ request'[t].id = request[t].id
                  /\ request'[t].later = request[t].later
                  /\ request'[t].what \subseteq Present
    PROVE  RoleInv' /\ Present' = Present
<1>1. Present' = Present
    BY DEF Present
<1>2. RoleTypes'
    BY RoleBasics DEF RoleInv, RoleTypes
<1>3. RolePointers'
    BY <1>1, RoleBasics DEF RoleInv, RolePointers
<1>4. ParentsGiven'
    BY <1>1, RoleBasics DEF RoleInv, ParentsGiven
<1>5. InheritsAsJoined'
    BY <1>1 DEF RoleInv, InheritsAsJoined
<1> QED
    BY <1>1, <1>2, <1>3, <1>4, <1>5 DEF RoleInv

LEMMA GetRoleKeeps ==
    ASSUME RoleInv, NEW t \in RoleThreads, NEW r \in RoleIds,
           NEW op \in {"permit", "child", "disinherit", "read"},
           NEW what \in (SUBSET Permissions) \cup (SUBSET RoleIds),
           op = "permit" => what \subseteq Permissions,
           op \in {"child", "disinherit"} => what \subseteq RoleIds,
           GetRole(t, op, r, what)
    PROVE  /\ RoleInv' /\ Present' = Present
           /\ request[t] = NoRequest /\ request'[t].op = op
           /\ \A u \in RoleThreads \ {t} : request'[u] = request[u]
<1> DEFINE new == [NoRequest EXCEPT !.op = op, !.id = r, !.at = r, !.what = what]
<1>1. /\ request[t] = NoRequest /\ r \in Present
      /\ request' = [request EXCEPT ![t] = new]
      /\ UNCHANGED <<roles, cache, dirty, links, given, outdated>>
    BY DEF GetRole
<1>2. /\ new \in Requests /\ new.op = op /\ new.at = r /\ new.id = r /\ new.what = what
      /\ new.later = {}
    BY RoleBasics DEF Requests
<1> HIDE DEF new
<1>3. /\ request' \in [RoleThreads -> Requests] /\ request'[t] = new
      /\ \A u \in RoleThreads \ {t} : request'[u] = request[u]
    BY <1>1, <1>2 DEF RoleInv, RoleTypes
<1>4. cache' \in [RoleIds -> (SUBSET Permissions) \cup {NoEntry}] /\ dirty' \in BOOLEAN
    BY <1>1 DEF RoleInv, RoleTypes
<1>5. RoleInv' /\ Present' = Present
    BY <1>1, <1>2, <1>3, <1>4, RequestKeeps
<1> QED
    BY <1>1, <1>2, <1>3, <1>5

-------------------------------------------------------------------------------
(* What the cache holds.                                                   *)
Filling == {t \in RoleThreads : request[t].op = "fill"}

Right(r) == cache[r] = AllPermissions(r)

CacheInv ==
    /\ ~dirty \/ Filling # {} => \A r \in RoleIds \ Present : cache[r] = NoEntry
    /\ Filling # {} => \A r \in Present : Right(r) \/ \E t \in Filling : r \in request[t].todo
    /\ ~dirty /\ ~outdated /\ Filling = {} => \A r \in Present :
           IF cache[r] = NoEntry THEN roles[r].permissions = AllPermissions(r) ELSE Right(r)
    /\ (\E t \in RoleThreads : request[t].op = "answer") => ~dirty
    /\ \A t \in Filling : request[t].todo \subseteq Present
    /\ \A t \in Reading : request[t].alone => Filling \subseteq {t}

RolesInv == RoleInv /\ CacheInv

LEMMA FreshCacheIsRight == Fresh => CacheInv
<1> SUFFICES ASSUME Fresh PROVE CacheInv
    OBVIOUS
<1>1. Present = {} /\ Filling = {} /\ Reading = {}
    BY RoleBasics DEF Fresh, Present, Filling, Reading
<1> QED
    BY <1>1, RoleBasics DEF Fresh, CacheInv

LEMMA AllPermissionsAreSome ==
    ASSUME RoleTypes, NEW r \in RoleIds
    PROVE  AllPermissions(r) \in SUBSET Permissions /\ AllPermissions(r) # NoEntry
<1>1. Lineage(r) \subseteq Present
    BY DEF Lineage
<1>2. AllPermissions(r) \in SUBSET Permissions
    BY <1>1, PresentIsRole DEF AllPermissions
<1> QED
    BY <1>2, RolesAssumption

LEMMA SameRolesSamePermissions ==
    ASSUME roles' = roles
    PROVE  Present' = Present /\ \A r : AllPermissions(r)' = AllPermissions(r)
<1>1. Present' = Present
    BY DEF Present
<1>2. \A r : Lineage(r)' = Lineage(r)
    BY <1>1, LineageIsLeast
<1> QED
    BY <1>1, <1>2 DEF AllPermissions

(* The roles change while nobody reads: the cache is left to be rebuilt.    *)
LEMMA DirtyKeepsCache ==
    ASSUME dirty' = TRUE, Reading' = {}, Filling' = {}
    PROVE  CacheInv'
    BY DEF CacheInv, Reading, Filling

LEMMA CreateKeepsCache ==
    ASSUME RolesInv, CreateRole
    PROVE  CacheInv'
<1> DEFINE i == NextRoleId
           fresh == [permissions |-> {}, inherited |-> {}]
<1>1. /\ i \in RoleIds /\ Reading = {}
      /\ roles' = [roles EXCEPT ![i] = fresh]
      /\ request' = Moved(Present \cap {i}, {i})
      /\ outdated' = (outdated \/ i \in Present)
      /\ cache' = cache /\ dirty' = dirty
    BY DEF CreateRole, Excluded
<1>2. fresh \in Role /\ fresh # NoRole /\ fresh.inherited = {} /\ fresh.permissions = {}
    <2>1. fresh \in Role /\ fresh.inherited = {} /\ fresh.permissions = {}
        BY DEF Role
    <2> QED
        BY <2>1, RoleBasics
<1> HIDE DEF i, fresh
<1>3. /\ roles'[i] = fresh /\ \A r \in RoleIds \ {i} : roles'[r] = roles[r]
    BY <1>1 DEF RolesInv, RoleInv, RoleTypes
<1>4. Present' = Present \cup {i}
    BY <1>1, <1>2, <1>3 DEF Present
<1>5. Reading' = {} /\ Filling' = {} /\ Filling = {}
    <2>1. \A t \in RoleThreads : request'[t].op = request[t].op
        <3>1. Present \cap {i} \in SUBSET RoleIds /\ {i} \in SUBSET RoleIds
            BY <1>1, RoleBasics
        <3>2. (Present \ (Present \cap {i})) \cup {i} \subseteq Present'
            BY <1>4
        <3> QED
            BY <1>1, <3>1, <3>2, MovedKeeps DEF RolesInv
    <2> QED
        BY <1>1, <2>1 DEF Reading, Filling
<1>6. CASE dirty
    BY <1>1, <1>5, <1>6 DEF CacheInv, Reading, Filling
<1>7. CASE ~dirty
    <2>1. \A r \in RoleIds \ Present : cache[r] = NoEntry
        BY <1>7 DEF RolesInv, CacheInv
    <2>2. ASSUME ~outdated', NEW r \in Present'
          PROVE  IF cache[r] = NoEntry THEN roles'[r].permissions = AllPermissions(r)'
                 ELSE cache[r] = AllPermissions(r)'
        <3>1. i \notin Present /\ ~outdated
            BY <1>1, <2>2
        <3>2. \A x \in Present : roles'[x] = roles[x]
            BY <1>3, <3>1, RoleBasics
        <3>3. AllPermissions(r)' = UNION {roles'[s].permissions : s \in Least(roles', Present \cup {i}, r)}
            BY <1>4, LineageIsLeast DEF AllPermissions
        <3>4. CASE r = i
            <4> DEFINE S == {i}
            <4>1. S \in SUBSET (Present \cup {i}) /\ r \in S
                BY <3>4
            <4>2. \A x \in S : roles'[x].inherited \cap (Present \cup {i}) \subseteq S
                BY <1>2, <1>3
            <4> HIDE DEF S
            <4>3. Least(roles', Present \cup {i}, r) \subseteq S
                BY <4>1, <4>2, LeastIsLeast
            <4>4. AllPermissions(r)' = {}
                BY <1>2, <1>3, <3>3, <4>3 DEF S
            <4> QED
                BY <1>1, <1>2, <1>3, <2>1, <3>1, <3>4, <4>4
        <3>5. CASE r # i
            <4>1. r \in Present
                BY <1>4, <3>5
            <4>2. /\ Least(roles, Present, r) \subseteq Least(roles', Present \cup {i}, r)
                  /\ Least(roles', Present \cup {i}, r) \subseteq Least(roles, Present, r) \cup {i}
                BY <1>2, <1>3, <3>1, <3>2, <4>1, LeastWithNew
            <4>3. Least(roles, Present, r) \subseteq Present
                BY DEF Least
            <4>4. UNION {roles'[s].permissions : s \in Least(roles', Present \cup {i}, r)}
                      = UNION {roles[s].permissions : s \in Least(roles, Present, r)}
                <5> DEFINE A == Least(roles, Present, r)
                           B == Least(roles', Present \cup {i}, r)
                <5>1. A \subseteq B /\ B \subseteq A \cup {i}
                    BY <4>2
                <5>2. roles'[i].permissions = {} /\ \A x \in A : roles'[x] = roles[x]
                    BY <1>2, <1>3, <3>2, <4>3
                <5> HIDE DEF A, B
                <5>3. UNION {roles'[s].permissions : s \in B} = UNION {roles[s].permissions : s \in A}
                    BY <5>1, <5>2, UnionWithNew
                <5> QED
                    BY <5>3 DEF A, B
            <4>5. AllPermissions(r)' = AllPermissions(r)
                BY <3>3, <4>4, LineageIsLeast DEF AllPermissions
            <4> QED
                BY <1>5, <1>7, <3>1, <3>2, <4>1, <4>5 DEF RolesInv, CacheInv, Right
        <3> QED
            BY <3>4, <3>5
    <2>3. \A r \in RoleIds \ Present' : cache'[r] = NoEntry
        BY <1>1, <1>4, <2>1
    <2> QED
        BY <1>1, <1>5, <1>7, <2>2, <2>3 DEF CacheInv, Right, Reading
<1> QED
    BY <1>6, <1>7 DEF RolesInv, RoleInv, RoleTypes

LEMMA EditsKeepCache ==
    ASSUME RolesInv, NEW t \in Editors,
           SetRolePermissions(t) \/ AddInheritance(t) \/ RemoveInheritance(t)
    PROVE  CacheInv'
<1> t \in RoleThreads
    BY RolesAssumption
<1>1. /\ dirty' = TRUE /\ Reading = {}
      /\ request' = [request EXCEPT ![t] = NoRequest]
    BY EditsKeepRoles DEF RolesInv, Excluded
<1>2. \A u \in RoleThreads : request'[u].op \in {request[u].op, "none"}
    BY <1>1, RoleBasics DEF RolesInv, RoleInv, RoleTypes
<1>3. Reading' = {} /\ Filling' = {}
    BY <1>1, <1>2 DEF Reading, Filling
<1> QED
    BY <1>1, <1>3, DirtyKeepsCache

LEMMA DeleteKeepsCache ==
    ASSUME RolesInv, NEW d \in RoleIds, DeleteRole(d)
    PROVE  CacheInv'
<1>1. dirty' = TRUE /\ Reading = {} /\ request' = Moved({d}, {})
    BY DEF DeleteRole, Invalidate, Excluded
<1>2. \A t \in RoleThreads : request'[t].op = request[t].op
    BY <1>1 DEF Moved, RolesInv, RoleInv, RoleTypes, Requests
<1>3. Reading' = {} /\ Filling' = {}
    BY <1>1, <1>2 DEF Reading, Filling
<1> QED
    BY <1>1, <1>3, DirtyKeepsCache

(* Nothing about the cache changes, nor about who builds it. *)
LEMMA QuietKeepsCache ==
    ASSUME CacheInv, UNCHANGED <<roles, cache, dirty, outdated>>,
           Filling' = Filling, Reading' \subseteq Reading,
           \A u \in Reading : request'[u].alone => request[u].alone,
           \A u \in Filling : request'[u].todo = request[u].todo,
           \A u \in RoleThreads : request'[u].op = "answer" => request[u].op = "answer"
    PROVE  CacheInv'
<1>1. Present' = Present /\ \A r : AllPermissions(r)' = AllPermissions(r)
    BY SameRolesSamePermissions
<1> QED
    BY <1>1 DEF CacheInv, Right

LEMMA BeginReadKeeps ==
    ASSUME RolesInv, NEW t \in RoleThreads, BeginRead(t)
    PROVE  RolesInv'
<1> DEFINE mine == [request[t] EXCEPT !.alone = \A u \in RoleThreads : request[u].op # "fill"]
<1>1. /\ request[t].op = "read"
      /\ UNCHANGED <<roles, dirty, links, given, outdated>>
    BY DEF BeginRead
<1>2. request[t] \in Requests /\ \A u \in RoleThreads : request[u] \in Requests
    BY DEF RolesInv, RoleInv, RoleTypes
<1>3. /\ mine \in Requests /\ mine.op = "read" /\ mine.alone = (Filling = {})
      /\ mine.at = request[t].at /\ mine.id = request[t].id /\ mine.later = request[t].later
    BY <1>1, <1>2 DEF Requests, Filling
<1>4. Present' = Present /\ \A r : AllPermissions(r)' = AllPermissions(r)
    BY <1>1, SameRolesSamePermissions
<1> HIDE DEF mine
<1>5. t \notin Reading /\ t \notin Filling
    BY <1>1 DEF Reading, Filling
<1>6. CASE dirty
    <2> DEFINE new == [mine EXCEPT !.op = "fill", !.todo = Present]
               other(u) == [request[u] EXCEPT !.alone = @ /\ u \notin Reading]
    <2>1. /\ cache' = [r \in RoleIds |-> NoEntry]
          /\ request' = [u \in RoleThreads |-> IF u = t THEN new ELSE other(u)]
        BY <1>6 DEF BeginRead, mine
    <2>2. /\ new \in Requests /\ new.op = "fill" /\ new.todo = Present
          /\ new.alone = (Filling = {})
          /\ new.at = request[t].at /\ new.id = request[t].id /\ new.later = request[t].later
        BY <1>3, RoleBasics DEF Requests
    <2>3. ASSUME NEW u \in RoleThreads
          PROVE  /\ other(u) \in Requests /\ other(u).op = request[u].op
                 /\ other(u).todo = request[u].todo
                 /\ other(u).alone => request[u].alone /\ u \notin Reading
                 /\ other(u).at = request[u].at /\ other(u).id = request[u].id
                 /\ other(u).later = request[u].later /\ other(u).what = request[u].what
        BY <1>2 DEF Requests
    <2> HIDE DEF new, other
    <2>4. request' \in [RoleThreads -> Requests]
        BY <2>1, <2>2, <2>3
    <2>5. RoleInv'
        <3>1. RoleTypes'
            BY <1>1, <2>1, <2>2, <2>3, <2>4 DEF RolesInv, RoleInv, RoleTypes
        <3>2. RolePointers'
            BY <1>4, <2>1, <2>2, <2>3 DEF RolesInv, RoleInv, RolePointers
        <3>3. ParentsGiven'
            BY <1>1, <1>4, <2>1, <2>2, <2>3 DEF RolesInv, RoleInv, ParentsGiven
        <3>4. InheritsAsJoined'
            BY <1>1, <1>4 DEF RolesInv, RoleInv, InheritsAsJoined
        <3> QED
            BY <3>1, <3>2, <3>3, <3>4 DEF RoleInv
    <2>6. Filling' = Filling \cup {t} /\ Reading' = Reading \cup {t}
        BY <2>1, <2>2, <2>3 DEF Filling, Reading
    <2>7. ~ \E u \in RoleThreads : request'[u].op = "answer"
        BY <1>6, <2>1, <2>2, <2>3 DEF RolesInv, CacheInv
    <2>8. \A u \in Reading' : request'[u].alone => Filling' \subseteq {u}
        BY <1>5, <2>1, <2>2, <2>3, <2>6 DEF Reading
    <2>9. \A r \in Present : r \in request'[t].todo
        BY <2>1, <2>2
    <2>10. ASSUME NEW u \in Filling'
           PROVE  request'[u].todo \subseteq Present
        <3>1. CASE u = t
            BY <2>1, <2>2, <3>1
        <3>2. CASE u # t
            <4>1. u \in Filling /\ u \in RoleThreads
                BY <2>6, <3>2 DEF Filling
            <4>2. request'[u].todo = request[u].todo
                BY <2>1, <2>3, <3>2, <4>1
            <4> QED
                BY <4>1, <4>2 DEF RolesInv, CacheInv
        <3> QED
            BY <3>1, <3>2
    <2>11. cache' = [r \in RoleIds |-> NoEntry]
        BY <1>6, <2>1 DEF BeginRead
    <2>12. CacheInv'
        BY <1>1, <1>4, <1>6, <2>1, <2>6, <2>7, <2>8, <2>9, <2>10, <2>11, RoleBasics
        DEF RolesInv, CacheInv
    <2> QED
        BY <2>5, <2>12 DEF RolesInv
<1>7. CASE ~dirty
    <2> DEFINE new == [mine EXCEPT !.op = "answer"]
    <2>1. cache' = cache /\ request' = [request EXCEPT ![t] = new]
        BY <1>7 DEF BeginRead, mine
    <2>2. /\ new \in Requests /\ new.op = "answer" /\ (new.alone => Filling = {})
          /\ new.at = request[t].at /\ new.id = request[t].id /\ new.later = request[t].later
        BY <1>3 DEF Requests
    <2> HIDE DEF new
    <2>3. /\ request' \in [RoleThreads -> Requests] /\ request'[t] = new
          /\ \A u \in RoleThreads \ {t} : request'[u] = request[u]
        BY <2>1, <2>2 DEF RolesInv, RoleInv, RoleTypes
    <2>4. RoleInv'
        <3>1. /\ cache' \in [RoleIds -> (SUBSET Permissions) \cup {NoEntry}]
              /\ dirty' \in BOOLEAN
            BY <1>1, <2>1 DEF RolesInv, RoleInv, RoleTypes
        <3> QED
            BY <1>1, <2>2, <2>3, <3>1, RequestKeeps DEF RolesInv
    <2>5. Filling' = Filling /\ Reading' = Reading \cup {t}
        BY <1>1, <2>2, <2>3 DEF Filling, Reading
    <2>6. ASSUME NEW u \in Reading', request'[u].alone PROVE Filling' \subseteq {u}
        <3>1. CASE u = t
            <4>1. new.alone
                BY <2>3, <2>6, <3>1
            <4> QED
                BY <2>2, <2>5, <4>1
        <3>2. CASE u # t
            BY <2>3, <2>5, <2>6, <3>2 DEF RolesInv, CacheInv, Reading
        <3> QED
            BY <3>1, <3>2
    <2>7. \A u \in Filling : request'[u] = request[u]
        BY <1>5, <2>3 DEF Filling
    <2> QED
        BY <1>1, <1>4, <1>7, <2>1, <2>4, <2>5, <2>6, <2>7 DEF RolesInv, CacheInv, Right
<1> QED
    BY <1>6, <1>7 DEF RolesInv, RoleInv, RoleTypes

LEMMA FillOneKeeps ==
    ASSUME RolesInv, NEW t \in RoleThreads, FillOne(t)
    PROVE  RolesInv'
<1>1. PICK x \in request[t].todo :
          /\ cache' = [cache EXCEPT ![x] = AllPermissions(x)]
          /\ request' = [request EXCEPT ![t] = [request[t] EXCEPT !.todo = @ \ {x}]]
    BY DEF FillOne, RolesInv, RoleInv, RoleTypes, Requests
<1>2. request[t].op = "fill" /\ UNCHANGED <<roles, dirty, links, given, outdated>>
    BY DEF FillOne
<1> DEFINE new == [request[t] EXCEPT !.todo = @ \ {x}]
<1>3. request[t] \in Requests /\ x \in RoleIds
    BY DEF RolesInv, RoleInv, RoleTypes, Requests
<1>4. /\ new \in Requests /\ new.op = "fill" /\ new.todo = request[t].todo \ {x}
      /\ new.alone = request[t].alone
      /\ new.at = request[t].at /\ new.id = request[t].id /\ new.later = request[t].later
    BY <1>2, <1>3 DEF Requests
<1> HIDE DEF new
<1>5. /\ request' \in [RoleThreads -> Requests] /\ request'[t] = new
      /\ \A u \in RoleThreads \ {t} : request'[u] = request[u]
    BY <1>1, <1>4 DEF RolesInv, RoleInv, RoleTypes, new
<1>6. /\ cache' \in [RoleIds -> (SUBSET Permissions) \cup {NoEntry}] /\ dirty' \in BOOLEAN
      /\ cache'[x] = AllPermissions(x)
      /\ \A r \in RoleIds \ {x} : cache'[r] = cache[r]
    BY <1>1, <1>2, <1>3, AllPermissionsAreSome DEF RolesInv, RoleInv, RoleTypes
<1>7. RoleInv'
    BY <1>2, <1>4, <1>5, <1>6, RequestKeeps DEF RolesInv
<1>8. Present' = Present /\ \A r : AllPermissions(r)' = AllPermissions(r)
    BY <1>2, SameRolesSamePermissions
<1>9. Filling' = Filling /\ Reading' = Reading /\ t \in Filling
    BY <1>2, <1>4, <1>5 DEF Filling, Reading
<1>10. \A u \in Filling : request[u].todo \subseteq Present
    BY DEF RolesInv, CacheInv
<1>11. x \in Present /\ (\A u \in Filling : request'[u].todo \subseteq request[u].todo)
    <2>1. x \in Present
        BY <1>9, <1>10
    <2>2. ASSUME NEW u \in Filling
          PROVE  request'[u].todo \subseteq request[u].todo
        <3>1. u \in RoleThreads
            BY DEF Filling
        <3>2. CASE u = t
            BY <1>4, <1>5, <3>2
        <3>3. CASE u # t
            BY <1>5, <3>1, <3>3
        <3> QED
            BY <3>2, <3>3
    <2> QED
        BY <2>1, <2>2
<1>12. \A r \in RoleIds \ Present : cache'[r] = NoEntry
    BY <1>6, <1>9, <1>11 DEF RolesInv, CacheInv
<1>13. ASSUME NEW r \in Present
       PROVE  cache'[r] = AllPermissions(r) \/ \E u \in Filling : r \in request'[u].todo
    <2>1. CASE r = x
        BY <1>6, <2>1
    <2>2. CASE r # x
        <3>1. cache'[r] = cache[r]
            BY <1>6, <2>2, RoleBasics
        <3>2. Right(r) \/ \E u \in Filling : r \in request[u].todo
            BY <1>9 DEF RolesInv, CacheInv
        <3> QED
            BY <1>4, <1>5, <2>2, <3>1, <3>2 DEF Right, Filling
    <2> QED
        BY <2>1, <2>2
<1>14. \A u \in Reading : request'[u].alone => request[u].alone
    BY <1>4, <1>5 DEF Reading
<1>15. (\E u \in RoleThreads : request'[u].op = "answer") => ~dirty
    BY <1>4, <1>5 DEF RolesInv, CacheInv
<1>16. CacheInv'
    BY <1>2, <1>8, <1>9, <1>10, <1>11, <1>12, <1>13, <1>14, <1>15
    DEF RolesInv, CacheInv, Right
<1> QED
    BY <1>7, <1>16 DEF RolesInv

LEMMA FillDoneKeeps ==
    ASSUME RolesInv, NEW t \in RoleThreads, FillDone(t)
    PROVE  RolesInv'
<1> DEFINE new == [request[t] EXCEPT !.op = "answer"]
<1>1. /\ request[t].op = "fill" /\ request[t].todo = {}
      /\ dirty' = FALSE
      /\ request' = [request EXCEPT ![t] = new]
      /\ UNCHANGED <<roles, cache, links, given, outdated>>
    BY DEF FillDone, RolesInv, RoleInv, RoleTypes
<1>2. request[t] \in Requests
    BY DEF RolesInv, RoleInv, RoleTypes
<1>3. /\ new \in Requests /\ new.op = "answer" /\ new.alone = request[t].alone
      /\ new.at = request[t].at /\ new.id = request[t].id /\ new.later = request[t].later
    BY <1>2 DEF Requests
<1> HIDE DEF new
<1>4. /\ request' \in [RoleThreads -> Requests] /\ request'[t] = new
      /\ \A u \in RoleThreads \ {t} : request'[u] = request[u]
    BY <1>1, <1>3 DEF RolesInv, RoleInv, RoleTypes
<1>5. RoleInv'
    <2>1. /\ cache' \in [RoleIds -> (SUBSET Permissions) \cup {NoEntry}]
          /\ dirty' \in BOOLEAN
        BY <1>1 DEF RolesInv, RoleInv, RoleTypes
    <2> QED
        BY <1>1, <1>3, <1>4, <2>1, RequestKeeps DEF RolesInv
<1>6. Present' = Present /\ \A r : AllPermissions(r)' = AllPermissions(r)
    BY <1>1, SameRolesSamePermissions
<1>7. Filling' = Filling \ {t} /\ Reading' = Reading /\ t \in Filling
    BY <1>1, <1>3, <1>4 DEF Filling, Reading
<1>8. \A r \in RoleIds \ Present : cache[r] = NoEntry
    BY <1>7 DEF RolesInv, CacheInv
<1>9. \A r \in Present : Right(r) \/ \E u \in Filling' : r \in request'[u].todo
    BY <1>1, <1>4, <1>7 DEF RolesInv, CacheInv
<1>10. \A r \in Present : Filling' = {} => Right(r) /\ cache[r] # NoEntry
    BY <1>9, AllPermissionsAreSome, RoleBasics DEF RolesInv, RoleInv, Right
<1>11. \A u \in Reading : request'[u].alone => request[u].alone
    BY <1>3, <1>4 DEF Reading
<1>12. \A u \in Filling' : request'[u].todo \subseteq Present
    <2> SUFFICES ASSUME NEW u \in Filling'
                 PROVE  request'[u].todo \subseteq Present
        OBVIOUS
    <2>1. u \in Filling /\ u # t
        BY <1>7
    <2>2. u \in RoleThreads
        BY <2>1 DEF Filling
    <2>3. request'[u] = request[u]
        BY <1>4, <2>1, <2>2
    <2> QED
        BY <2>1, <2>3 DEF RolesInv, CacheInv
<1>13. \A u \in Reading' : request'[u].alone => Filling' \subseteq {u}
    BY <1>7, <1>11 DEF RolesInv, CacheInv
<1>14. CacheInv'
    BY <1>1, <1>6, <1>8, <1>9, <1>10, <1>12, <1>13 DEF CacheInv, Right
<1> QED
    BY <1>5, <1>14 DEF RolesInv

LEMMA EndReadKeeps ==
    ASSUME RolesInv, NEW t \in RoleThreads, EndRead(t)
    PROVE  RolesInv'
<1>1. /\ request[t].op = "answer"
      /\ request' = [request EXCEPT ![t] = NoRequest]
      /\ UNCHANGED <<roles, cache, dirty, links, given, outdated>>
    BY DEF EndRead
<1>2. /\ request' \in [RoleThreads -> Requests] /\ request'[t] = NoRequest
      /\ \A u \in RoleThreads \ {t} : request'[u] = request[u]
    BY <1>1, RoleBasics DEF RolesInv, RoleInv, RoleTypes
<1>3. RoleInv'
    <2>1. /\ cache' \in [RoleIds -> (SUBSET Permissions) \cup {NoEntry}]
          /\ dirty' \in BOOLEAN
        BY <1>1 DEF RolesInv, RoleInv, RoleTypes
    <2> QED
        BY <1>1, <1>2, <2>1, RequestKeeps DEF RolesInv
<1>4. Filling' = Filling /\ Reading' = Reading \ {t}
    BY <1>1, <1>2, RoleBasics DEF Filling, Reading
<1>5. /\ \A u \in Reading' : request'[u] = request[u]
      /\ \A u \in Filling : request'[u] = request[u]
      /\ \A u \in RoleThreads : request'[u].op = "answer" => request[u].op = "answer"
    BY <1>1, <1>2, <1>4, RoleBasics DEF Filling, Reading
<1>6. Present' = Present /\ \A r : AllPermissions(r)' = AllPermissions(r)
    BY <1>1, SameRolesSamePermissions
<1>7. CacheInv'
    BY <1>1, <1>4, <1>5, <1>6 DEF RolesInv, CacheInv, Right
<1> QED
    BY <1>3, <1>7 DEF RolesInv

LEMMA ShutdownRolesKeeps ==
    ASSUME RolesInv, ShutdownRoles
    PROVE  RolesInv'
<1>1. /\ roles' = [r \in RoleIds |-> NoRole] /\ cache' = [r \in RoleIds |-> NoEntry]
      /\ request' = Moved(Present, {}) /\ links' = {} /\ Reading = {}
      /\ UNCHANGED <<dirty, given, outdated>>
    BY DEF ShutdownRoles, Excluded
<1>2. Present' = {}
    BY <1>1 DEF Present
<1>3. /\ request' \in [RoleThreads -> Requests] /\ RolePointers'
      /\ \A t \in RoleThreads :
             request'[t].op = request[t].op /\ request'[t].what = request[t].what
    <2>1. Present \in SUBSET RoleIds /\ {} \in SUBSET RoleIds
        BY RoleBasics
    <2>2. (Present \ Present) \cup {} \subseteq Present'
        OBVIOUS
    <2> QED
        BY <1>1, <2>1, <2>2, MovedKeeps DEF RolesInv
<1>4. RoleTypes'
    <2>1. /\ roles' \in [RoleIds -> Role \cup {NoRole}]
          /\ cache' \in [RoleIds -> (SUBSET Permissions) \cup {NoEntry}]
        BY <1>1
    <2> QED
        BY <1>1, <1>3, <2>1 DEF RolesInv, RoleInv, RoleTypes
<1>5. ParentsGiven' /\ InheritsAsJoined'
    BY <1>1, <1>2, <1>3 DEF RolesInv, RoleInv, ParentsGiven, InheritsAsJoined
<1>6. Reading' = {} /\ Filling' = {}
    BY <1>1, <1>3 DEF Reading, Filling
<1>7. CacheInv'
    BY <1>1, <1>2, <1>6 DEF CacheInv, Reading
<1> QED
    BY <1>3, <1>4, <1>5, <1>7 DEF RolesInv, RoleInv

LEMMA GetRoleKeepsAll ==
    ASSUME RolesInv, NEW t \in RoleThreads, NEW r \in RoleIds,
           NEW op \in {"permit", "child", "disinherit", "read"},
           NEW what \in (SUBSET Permissions) \cup (SUBSET RoleIds),
           op = "permit" => what \subseteq Permissions,
           op \in {"child", "disinherit"} => what \subseteq RoleIds,
           GetRole(t, op, r, what)
    PROVE  RolesInv'
<1>1. /\ RoleInv' /\ Present' = Present
      /\ request[t] = NoRequest /\ request'[t].op = op
      /\ \A u \in RoleThreads \ {t} : request'[u] = request[u]
    BY GetRoleKeeps DEF RolesInv
<1>2. UNCHANGED <<roles, cache, dirty, outdated>>
    BY DEF GetRole
<1>3. Filling' = Filling /\ Reading' = Reading
    BY <1>1, RoleBasics DEF Filling, Reading
<1>4. /\ \A u \in Reading : request'[u] = request[u]
      /\ \A u \in Filling : request'[u] = request[u]
      /\ \A u \in RoleThreads : request'[u].op = "answer" => request[u].op = "answer"
    BY <1>1, RoleBasics DEF Filling, Reading
<1>5. CacheInv'
    BY <1>2, <1>3, <1>4, QuietKeepsCache DEF RolesInv
<1> QED
    BY <1>1, <1>5 DEF RolesInv

(* add_inheritance goes on with the parent it found, or ends without one. *)
LEMMA FindParentKeeps ==
    ASSUME RolesInv, NEW t \in RoleThreads, FindParent(t)
    PROVE  RolesInv'
<1> DEFINE on == [request[t] EXCEPT !.op = "inherit"]
           new == IF request[t].what \subseteq Present THEN on ELSE NoRequest
<1>1. /\ request[t].op = "child"
      /\ request' = [request EXCEPT ![t] = new]
      /\ UNCHANGED <<roles, cache, dirty, links, given, outdated>>
    BY DEF FindParent
<1>2. request[t] \in Requests
    BY DEF RolesInv, RoleInv, RoleTypes
<1>3. /\ on \in Requests /\ on.op = "inherit" /\ on.at = request[t].at
      /\ on.id = request[t].id /\ on.later = request[t].later /\ on.what = request[t].what
    BY <1>2 DEF Requests
<1> HIDE DEF on
<1>4. /\ new \in Requests
      /\ new = NoRequest \/ (new = on /\ request[t].what \subseteq Present)
    BY <1>3, RoleBasics
<1> HIDE DEF new
<1>5. /\ request' \in [RoleThreads -> Requests] /\ request'[t] = new
      /\ \A u \in RoleThreads \ {t} : request'[u] = request[u]
    BY <1>1, <1>4 DEF RolesInv, RoleInv, RoleTypes
<1>6. cache' \in [RoleIds -> (SUBSET Permissions) \cup {NoEntry}] /\ dirty' \in BOOLEAN
    BY <1>1 DEF RolesInv, RoleInv, RoleTypes
<1>7. RoleInv'
    BY <1>1, <1>3, <1>4, <1>5, <1>6, RequestKeeps DEF RolesInv
<1>8. new.op \in {"none", "inherit"}
    BY <1>3, <1>4, RoleBasics
<1>9. Filling' = Filling /\ Reading' = Reading
    BY <1>1, <1>5, <1>8 DEF Filling, Reading
<1>10. /\ \A u \in Reading : request'[u] = request[u]
       /\ \A u \in Filling : request'[u] = request[u]
       /\ \A u \in RoleThreads : request'[u].op = "answer" => request[u].op = "answer"
    BY <1>1, <1>5, <1>8 DEF Filling, Reading
<1>11. CacheInv'
    BY <1>1, <1>9, <1>10, QuietKeepsCache DEF RolesInv
<1> QED
    BY <1>7, <1>11 DEF RolesInv

LEMMA RolesStart == InitRoles => RolesInv
    BY FreshIsRight, FreshCacheIsRight DEF InitRoles, Fresh, RolesInv

LEMMA NextKeepsRoles == RolesInv /\ [NextRoles]_roleVars => RolesInv'
<1> SUFFICES ASSUME RolesInv, [NextRoles]_roleVars PROVE RolesInv'
    OBVIOUS
<1>1. CASE CreateRole
    BY <1>1, CreateRoleKeeps, CreateKeepsCache DEF RolesInv
<1>2. ASSUME NEW r \in RoleIds, DeleteRole(r) PROVE RolesInv'
    BY <1>2, DeleteRoleKeeps, DeleteKeepsCache DEF RolesInv
<1>3. ASSUME NEW t \in Editors, NEW r \in RoleIds, NEW ps \in SUBSET Permissions,
             GetRole(t, "permit", r, ps)
      PROVE  RolesInv'
    BY <1>3, GetRoleKeepsAll, RolesAssumption
<1>4. ASSUME NEW t \in Editors, NEW r \in RoleIds, NEW p \in RoleIds,
             GetRole(t, "child", r, {p})
      PROVE  RolesInv'
    <2> DEFINE what == {p}
    <2>1. what \in (SUBSET Permissions) \cup (SUBSET RoleIds) /\ what \subseteq RoleIds
        OBVIOUS
    <2>2. GetRole(t, "child", r, what)
        BY <1>4
    <2> HIDE DEF what
    <2> QED
        BY <2>1, <2>2, GetRoleKeepsAll, RolesAssumption
<1>5. ASSUME NEW t \in Editors, NEW r \in RoleIds, NEW p \in RoleIds,
             GetRole(t, "disinherit", r, {p})
      PROVE  RolesInv'
    <2> DEFINE what == {p}
    <2>1. what \in (SUBSET Permissions) \cup (SUBSET RoleIds) /\ what \subseteq RoleIds
        OBVIOUS
    <2>2. GetRole(t, "disinherit", r, what)
        BY <1>5
    <2> HIDE DEF what
    <2> QED
        BY <2>1, <2>2, GetRoleKeepsAll, RolesAssumption
<1>6. ASSUME NEW t \in RoleThreads, NEW r \in RoleIds, GetRole(t, "read", r, {})
      PROVE  RolesInv'
    <2>1. {} \in (SUBSET Permissions) \cup (SUBSET RoleIds)
        OBVIOUS
    <2> QED
        BY <1>6, <2>1, GetRoleKeepsAll
<1>7. ASSUME NEW t \in Editors,
             SetRolePermissions(t) \/ AddInheritance(t) \/ RemoveInheritance(t)
      PROVE  RolesInv'
    BY <1>7, EditsKeepRoles, EditsKeepCache DEF RolesInv
<1>8. ASSUME NEW t \in RoleThreads, Overflow(t) PROVE RolesInv'
    <2>1. Fresh'
        BY <1>8 DEF Overflow, Fresh
    <2>2. RoleInv'
        BY <2>1, FreshIsRight, PTL
    <2>3. CacheInv'
        BY <2>1, FreshCacheIsRight, PTL
    <2> QED
        BY <2>2, <2>3 DEF RolesInv
<1>9. CASE UNCHANGED roleVars
    BY <1>9, QuietKeepsCache
    DEF roleVars, RolesInv, RoleInv, RoleTypes, RolePointers, ParentsGiven,
        InheritsAsJoined, Present, Filling, Reading
<1>10. ASSUME NEW t \in Editors, FindParent(t) PROVE RolesInv'
    BY <1>10, FindParentKeeps, RolesAssumption
<1> QED
    BY <1>1, <1>2, <1>3, <1>4, <1>5, <1>6, <1>7, <1>8, <1>9, <1>10, BeginReadKeeps,
       FillOneKeeps, FillDoneKeeps, EndReadKeeps, ShutdownRolesKeeps DEF NextRoles

(* The inductive invariant, for any number of threads that read, build the  *)
(* cache and edit roles.                                                    *)
THEOREM RolesCorrect == SpecRoles => []RolesInv
    BY RolesStart, NextKeepsRoles, PTL DEF SpecRoles

(* A role inherits only from roles that add_inheritance joined it with,     *)
(* unless the parent's id was given out again.                              *)
THEOREM InheritanceIsJoined == SpecRoles => []InheritsAsJoined
<1>1. RolesInv => InheritsAsJoined
    BY DEF RolesInv, RoleInv
<1> QED
    BY <1>1, RolesCorrect, PTL

(* get_all_role_permissions answers with what the roles have now, although  *)
(* the cache is built under a shared lock, where nobody else builds it and  *)
(* no role was replaced since the last invalidation.                        *)
THEOREM AnswersAreCurrent == SpecRoles => []AnswersCurrent
<1>1. RolesInv => AnswersCurrent
    <2> SUFFICES ASSUME RolesInv, NEW t \in RoleThreads, request[t].op = "answer",
                        request[t].at # 0, request[t].alone, ~outdated
                 PROVE  Answer(t) = AllPermissions(request[t].id)
        BY DEF AnswersCurrent
    <2>1. ~dirty /\ Filling = {}
        BY DEF RolesInv, CacheInv, Reading, Filling
    <2>2. request[t].at = request[t].id /\ request[t].id \in Present
        BY DEF RolesInv, RoleInv, RolePointers
    <2> QED
        BY <2>1, <2>2 DEF RolesInv, CacheInv, Right, Answer
<1> QED
    BY <1>1, RolesCorrect, PTL

-------------------------------------------------------------------------------
(* Circles of inheritance.                                                  *)

(* The lineage of a role in another's lineage is part of it.                *)
LEMMA LeastNests ==
    ASSUME NEW f, NEW P, NEW r \in P, NEW x \in Least(f, P, r)
    PROVE  Least(f, P, x) \subseteq Least(f, P, r)
    BY LeastCloses, LeastIsLeast

(* With fewer roles and fewer parents a lineage gets no larger.             *)
LEMMA LeastShrinks ==
    ASSUME NEW f, NEW P, NEW g, NEW Q \in SUBSET P, NEW r \in Q,
           \A x \in Q : g[x].inherited \cap Q \subseteq f[x].inherited
    PROVE  Least(g, Q, r) \subseteq Least(f, P, r)
<1> DEFINE S == Least(f, P, r) \cap Q
<1>1. /\ r \in Least(f, P, r)
      /\ \A x \in Least(f, P, r) : f[x].inherited \cap P \subseteq Least(f, P, r)
    BY LeastCloses
<1>2. S \in SUBSET Q /\ r \in S /\ \A x \in S : g[x].inherited \cap Q \subseteq S
    BY <1>1
<1> HIDE DEF S
<1>3. Least(g, Q, r) \subseteq S
    BY <1>2, LeastIsLeast
<1> QED
    BY <1>3 DEF S

(* The roles on a circle, of the roles P with the parents f.                *)
OnCircle(f, P) == {r \in P : \E p \in f[r].inherited \cap P : r \in Least(f, P, p)}

(* Circular is that set now and after the step.                             *)
LEMMA CircularIsOnCircle ==
    Circular = OnCircle(roles, Present) /\ Circular' = OnCircle(roles', Present')
    BY LineageIsLeast DEF Circular, OnCircle

(* With fewer roles and fewer parents there are no more circles.            *)
LEMMA CirclesShrink ==
    ASSUME NEW f, NEW P, NEW g, NEW Q \in SUBSET P,
           \A x \in Q : g[x].inherited \cap Q \subseteq f[x].inherited
    PROVE  OnCircle(g, Q) \subseteq OnCircle(f, P)
<1> SUFFICES ASSUME NEW r \in Q, NEW p \in g[r].inherited \cap Q, r \in Least(g, Q, p)
             PROVE  p \in f[r].inherited \cap P /\ r \in Least(f, P, p)
    BY DEF OnCircle
<1>1. Least(g, Q, p) \subseteq Least(f, P, p)
    BY LeastShrinks
<1> QED
    BY <1>1

(* A role without parents closes no circle, whoever names its id.           *)
LEMMA NewClosesNone ==
    ASSUME NEW f, NEW P, NEW g, NEW i, i \notin P,
           g[i].inherited = {}, \A x \in P : g[x] = f[x]
    PROVE  OnCircle(g, P \cup {i}) \subseteq OnCircle(f, P)
<1> DEFINE Q == P \cup {i}
<1> SUFFICES ASSUME NEW r \in Q, NEW p \in g[r].inherited \cap Q, r \in Least(g, Q, p)
             PROVE  r \in P /\ p \in f[r].inherited \cap P /\ r \in Least(f, P, p)
    BY DEF OnCircle
<1>1. r \in P /\ r # i /\ p \in f[r].inherited
    OBVIOUS
<1>2. p # i
    <2> SUFFICES ASSUME p = i PROVE FALSE
        OBVIOUS
    <2>1. {i} \in SUBSET Q /\ i \in {i} /\ \A x \in {i} : g[x].inherited \cap Q \subseteq {i}
        OBVIOUS
    <2> HIDE DEF Q
    <2>2. Least(g, Q, i) \subseteq {i}
        BY <2>1, LeastIsLeast
    <2> QED
        BY <1>1, <2>2
<1>3. p \in P
    BY <1>2
<1>4. Least(g, Q, p) \subseteq Least(f, P, p) \cup {i}
    BY <1>3, LeastWithNew
<1> QED
    BY <1>1, <1>3, <1>4

(* Parents N given to role c close a circle only if one of them leads to c. *)
LEMMA ParentsClose ==
    ASSUME NEW f, NEW P, NEW g, NEW c \in P, NEW N,
           g[c].inherited = f[c].inherited \cup N, \A x \in P \ {c} : g[x] = f[x],
           \A p \in (N \cap P) \ f[c].inherited : c \notin Least(f, P, p)
    PROVE  OnCircle(g, P) \subseteq OnCircle(f, P)
<1> DEFINE L(x) == Least(f, P, x)
           New == (N \cap P) \ f[c].inherited
<1>1. \A x \in P : /\ x \in L(x) /\ L(x) \subseteq P
                   /\ \A y \in L(x) : f[y].inherited \cap P \subseteq L(x)
    BY LeastCloses
<1>2. \A x \in P : \A y \in L(x) : L(y) \subseteq L(x)
    BY LeastNests
<1>3. \A x \in P, S \in SUBSET P :
          x \in S /\ (\A y \in S : g[y].inherited \cap P \subseteq S) => Least(g, P, x) \subseteq S
    BY LeastIsLeast
<1>4. \A p \in New : p \in P /\ c \notin L(p)
    OBVIOUS
<1>5. g[c].inherited \cap P \subseteq f[c].inherited \cup New
    OBVIOUS
<1> HIDE DEF L, New
<1> SUFFICES ASSUME NEW r \in P, NEW p \in g[r].inherited \cap P, r \in Least(g, P, p)
             PROVE  \E q \in f[r].inherited \cap P : r \in L(q)
    BY DEF OnCircle, L
<1>6. CASE c \notin L(p)
    <2>1. \A y \in L(p) : g[y].inherited \cap P \subseteq L(p)
        BY <1>1, <1>6
    <2>2. r \in L(p)
        BY <1>1, <1>3, <2>1
    <2> QED
        BY <1>1, <1>6, <2>2
<1>7. CASE c \in L(p)
    <2> DEFINE S == L(p) \cup UNION {L(q) : q \in New}
    <2>1. S \subseteq P /\ p \in S
        BY <1>1, <1>4
    <2>2. ASSUME NEW y \in S PROVE g[y].inherited \cap P \subseteq S
        <3>1. CASE y = c
            <4>1. f[c].inherited \cap P \subseteq L(p)
                BY <1>1, <1>7
            <4>2. New \subseteq S
                BY <1>1, <1>4
            <4> QED
                BY <1>5, <3>1, <4>1, <4>2
        <3>2. CASE y # c
            <4>1. g[y] = f[y]
                BY <2>1, <3>2
            <4>2. CASE y \in L(p)
                BY <1>1, <4>1, <4>2
            <4>3. CASE \E q \in New : y \in L(q)
                BY <1>1, <1>4, <4>1, <4>3
            <4> QED
                BY <2>2, <4>2, <4>3
        <3> QED
            BY <3>1, <3>2
    <2> HIDE DEF S
    <2>3. r \in S
        BY <1>3, <2>1, <2>2
    <2>4. CASE r \in L(p) /\ p \in f[r].inherited
        BY <2>4
    <2>5. CASE r \in L(p) /\ p \notin f[r].inherited
        BY <1>4, <1>5, <1>7, <2>5
    <2>6. CASE \E q \in New : r \in L(q)
        <3>1. PICK q \in New : r \in L(q)
            BY <2>6
        <3>2. r # c /\ p \in f[r].inherited
            BY <1>4, <3>1
        <3>3. L(p) \subseteq L(q)
            BY <1>1, <1>2, <1>4, <3>1, <3>2
        <3> QED
            BY <1>4, <1>7, <3>1, <3>3
    <2> QED
        BY <2>3, <2>4, <2>5, <2>6 DEF S
<1> QED
    BY <1>6, <1>7

(* A step that joins no role with a parent makes no circle.                 *)
LEMMA OthersCloseNone ==
    ASSUME RoleInv, NextRoles, \A t \in Editors : ~AddInheritance(t)
    PROVE  Circular' \subseteq Circular
<1>1. CASE CreateRole
    <2> DEFINE i == NextRoleId
               fresh == [permissions |-> {}, inherited |-> {}]
    <2>1. i \in RoleIds /\ roles' = [roles EXCEPT ![i] = fresh]
        BY <1>1 DEF CreateRole
    <2>2. fresh # NoRole /\ fresh.inherited = {}
        <3>1. fresh \in Role /\ fresh.inherited = {}
            BY DEF Role
        <3> QED
            BY <3>1, RoleBasics
    <2> HIDE DEF i, fresh
    <2>3. /\ roles'[i] = fresh /\ roles'[i].inherited = {}
          /\ \A r \in RoleIds \ {i} : roles'[r] = roles[r]
        BY <2>1, <2>2 DEF RoleInv, RoleTypes
    <2>4. Present' = Present \cup {i}
        BY <2>1, <2>2, <2>3 DEF Present
    <2>5. CASE i \in Present
        <3>1. Present' = Present /\ Present' \in SUBSET Present
            BY <2>4, <2>5
        <3>2. \A x \in Present' : roles'[x].inherited \cap Present' \subseteq roles[x].inherited
            BY <2>3, <3>1, RoleBasics
        <3> QED
            BY <3>1, <3>2, CirclesShrink, CircularIsOnCircle
    <2>6. CASE i \notin Present
        <3>1. \A x \in Present : roles'[x] = roles[x]
            BY <2>3, <2>6, RoleBasics
        <3> QED
            BY <2>3, <2>4, <2>6, <3>1, NewClosesNone, CircularIsOnCircle
    <2> QED
        BY <2>5, <2>6
<1>2. ASSUME Present' \in SUBSET Present,
             \A x \in Present' : roles'[x].inherited \subseteq roles[x].inherited
      PROVE  Circular' \subseteq Circular
    BY <1>2, CirclesShrink, CircularIsOnCircle
<1>3. ASSUME roles' = roles PROVE Circular' \subseteq Circular
    BY <1>2, <1>3 DEF Present
<1>4. ASSUME NEW d \in RoleIds, DeleteRole(d) PROVE Circular' \subseteq Circular
    <2>1. roles' = [roles EXCEPT ![d] = NoRole]
        BY <1>4 DEF DeleteRole
    <2>2. \A x \in Present' : x \in Present /\ roles'[x] = roles[x]
        BY <2>1 DEF Present, RoleInv, RoleTypes
    <2> QED
        BY <1>2, <2>2
<1>5. ASSUME roles' = [r \in RoleIds |-> NoRole] PROVE Circular' \subseteq Circular
    BY <1>2, <1>5 DEF Present
<1>6. ASSUME NEW t \in Editors, SetRolePermissions(t) \/ RemoveInheritance(t)
      PROVE  Circular' \subseteq Circular
    <2>1. Present' = Present
        BY <1>6, EditsKeepRoles
    <2>2. ASSUME NEW x \in Present PROVE roles'[x].inherited \subseteq roles[x].inherited
        <3>1. x \in RoleIds /\ roles[x] \in Role
            BY <2>2, PresentIsRole, RoleBasics DEF RoleInv
        <3>2. CASE SetRolePermissions(t)
            <4>1. roles'[x] \in {roles[x], [roles[x] EXCEPT !.permissions = request[t].what]}
                BY <3>1, <3>2 DEF SetRolePermissions, Write
            <4> QED
                BY <3>1, <4>1 DEF Role
        <3>3. CASE RemoveInheritance(t)
            <4>1. roles'[x] \in {roles[x], [roles[x] EXCEPT !.inherited = @ \ request[t].what]}
                BY <3>1, <3>3 DEF RemoveInheritance, Write
            <4> QED
                BY <3>1, <4>1 DEF Role
        <3> QED
            BY <1>6, <3>2, <3>3
    <2> QED
        BY <1>2, <2>1, <2>2
<1> QED
    BY <1>1, <1>3, <1>4, <1>5, <1>6
    DEF NextRoles, GetRole, FindParent, BeginRead, FillOne, FillDone, Overflow, EndRead,
        ShutdownRoles

(* A role comes to inherit from itself only through an add_inheritance      *)
(* whose parent already inherits from the child, for any number of threads  *)
(* and roles: the circles on which the build of the cache does not end are  *)
(* those that somebody asked for.                                           *)
THEOREM CirclesAreMade == SpecRoles => CirclesAreJoined
<1>1. ASSUME RolesInv, NextRoles, Circular' \ Circular # {}
      PROVE  \E t \in Editors, r, p \in Present :
                 /\ request[t].op = "inherit" /\ p \in request[t].what
                 /\ request'[t] = NoRequest
                 /\ p \in roles'[r].inherited \ roles[r].inherited
                 /\ r \in Lineage(p)
    <2>1. PICK t \in Editors : AddInheritance(t)
        BY <1>1, OthersCloseNone DEF RolesInv
    <2>2. t \in RoleThreads
        BY RolesAssumption
    <2>3. /\ request[t].op = "inherit" /\ request'[t] = NoRequest /\ Present' = Present
        BY <1>1, <2>1, <2>2, EditsKeepRoles DEF RolesInv, RoleInv, RoleTypes, AddInheritance, Write
    <2> DEFINE N == request[t].what
    <2>4. PICK r \in {request[t].at} \cup request[t].later :
              roles' = [i \in RoleIds |-> IF i = r THEN [roles[i] EXCEPT !.inherited = @ \cup N]
                                         ELSE roles[i]]
        BY <2>1 DEF AddInheritance, Write
    <2>5. r \in Present
        <3> SUFFICES ASSUME r \notin Present PROVE FALSE
            OBVIOUS
        <3>1. \A x \in Present : roles'[x] = roles[x]
            BY <2>4, RoleBasics
        <3>2. Circular' \subseteq Circular
            BY <2>3, <3>1, CirclesShrink, CircularIsOnCircle
        <3> QED
            BY <1>1, <3>2
    <2>6. roles[r] \in Role /\ r \in RoleIds
        BY <1>1, <2>5, PresentIsRole, RoleBasics DEF RolesInv, RoleInv
    <2>7. /\ roles'[r].inherited = roles[r].inherited \cup N
          /\ \A x \in Present \ {r} : roles'[x] = roles[x]
        BY <2>4, <2>6, RoleBasics DEF Role
    <2> HIDE DEF N
    <2>8. PICK p \in (N \cap Present) \ roles[r].inherited : r \in Least(roles, Present, p)
        <3> SUFFICES ASSUME \A p \in (N \cap Present) \ roles[r].inherited :
                                r \notin Least(roles, Present, p)
                     PROVE  FALSE
            OBVIOUS
        <3>1. OnCircle(roles', Present) \subseteq OnCircle(roles, Present)
            BY <2>5, <2>7, ParentsClose
        <3> QED
            BY <1>1, <2>3, <3>1, CircularIsOnCircle
    <2>9. p \in roles'[r].inherited /\ r \in Lineage(p)
        BY <2>7, <2>8, LineageIsLeast
    <2> QED
        BY <2>2, <2>3, <2>5, <2>8, <2>9 DEF N
<1>2. ASSUME RolesInv, UNCHANGED roleVars PROVE Circular' \ Circular = {}
    BY <1>2 DEF roleVars, Circular, Present, Lineage
<1>3. RolesInv /\ [NextRoles]_roleVars =>
          [Circular' \ Circular # {} =>
              \E t \in Editors, r, p \in Present :
                  /\ request[t].op = "inherit" /\ p \in request[t].what
                  /\ request'[t] = NoRequest
                  /\ p \in roles'[r].inherited \ roles[r].inherited
                  /\ r \in Lineage(p)]_roleVars
    BY <1>1
<1> QED
    BY <1>3, RolesCorrect, PTL DEF SpecRoles, CirclesAreJoined

===============================================================================
