------------------------------- MODULE Sessions -------------------------------
(***************************************************************************)
(* SessionManager (src/src/auth/session.cpp): sessions with an expiry, an  *)
(* index from users to their sessions, and a thread that removes what has  *)
(* expired.                                                                *)
(*                                                                         *)
(* Every operation is one section under the mutex, except those that keep  *)
(* the pointer get_session returns and use it afterwards: refresh_session  *)
(* in a second section, set_session_data without the mutex.                *)
(***************************************************************************)
EXTENDS Integers, FiniteSets

CONSTANTS
    Threads,         \* threads that call the manager
    Users,           \* user ids
    Addrs,           \* addresses sessions are allocated at
    MaxSessions,     \* bound on the sessions created
    Durations,       \* values of default_session_duration_, in ticks of the clock
    PersistentLife,  \* the 24 hours of a persistent session, in ticks
    NoSession        \* the id is not a key of sessions_

Ids == 1..MaxSessions

Lives == Durations \cup {PersistentLife}

(* life is the number of ticks until the session has expired.               *)
Session == [user : Users, addr : Addrs, life : Nat, data : BOOLEAN]

ASSUME ConstantsAssumption ==
    /\ Addrs # {}
    /\ MaxSessions \in Nat
    /\ Durations \subseteq Nat
    /\ PersistentLife \in Nat
    /\ NoSession \notin Session

VARIABLES
    sessions,  \* sessions_: id -> session
    index,     \* user_session_index_: how often a user's list holds an id
    issued,    \* how many ids have been generated
    duration,  \* default_session_duration_
    pend,      \* what a thread does next with a pointer it got
    running,   \* cleanup_running_
    cleaner,   \* where the cleanup thread is
    stopping   \* where shutdown is

vars == <<sessions, index, issued, duration, pend, running, cleaner, stopping>>

store == <<sessions, index, issued>>
control == <<running, cleaner, stopping>>

Live == {s \in Ids : sessions[s] # NoSession}

Expired(s) == sessions[s].life = 0

Idle == [op |-> "none", id |-> 0, addr |-> CHOOSE a \in Addrs : TRUE]

Operations == {"none", "refresh", "set_data"}

Init ==
    /\ sessions = [s \in Ids |-> NoSession]
    /\ index = [u \in Users |-> [s \in Ids |-> 0]]
    /\ issued = 0
    /\ duration = PersistentLife
    /\ pend = [t \in Threads |-> Idle]
    /\ running = FALSE
    /\ cleaner = "off"
    /\ stopping = "no"

-------------------------------------------------------------------------------
(* The definitions named ..._Faulty are variants with one mistake in them;  *)
(* no action uses them.  Each shows that a property notices that mistake.   *)

(* generate_session_id draws 64 random bits and adds the time: no id is     *)
(* drawn twice.                                                             *)
NewId_Faulty == Cardinality(Live) + 1

NewId == issued + 1

NewSession(u, a, life) == [user |-> u, addr |-> a, life |-> life, data |-> FALSE]

(* Erase the ids from every list of their owners. *)
Without_Faulty(ids) ==
    [u \in Users |-> [s \in Ids |->
        IF s \in ids /\ ~Expired(s) /\ sessions[s].user = u THEN 0 ELSE index[u][s]]]

Without(ids) ==
    [u \in Users |-> [s \in Ids |->
        IF s \in ids /\ sessions[s].user = u THEN 0 ELSE index[u][s]]]

(* get_session returns a pointer. *)
Found_Faulty(s) == s \in Live

Found(s) == s \in Live /\ ~Expired(s)

(* The sessions a thread's pointer reaches: the one now at that address, if *)
(* there is one.  A write to freed memory changes no session.               *)
Aimed(t) == {s \in Live : sessions[s].addr = pend[t].addr}

(* The test of the cleanup thread's loop and the one after its sleep. *)
LoopTest_Faulty == "asleep"

LoopTest == IF running THEN "asleep" ELSE "off"

WakeTest_Faulty == IF ~running THEN "cleaning" ELSE "testing"

WakeTest == IF running THEN "cleaning" ELSE "testing"

Remove(ids) ==
    /\ sessions' = [s \in Ids |-> IF s \in ids THEN NoSession ELSE sessions[s]]
    /\ index' = Without(ids)
    /\ UNCHANGED issued

-------------------------------------------------------------------------------
CreateSession(u, a, life) ==
    /\ NewId \in Ids
    /\ \A s \in Live : sessions[s].addr # a
    /\ life \in {duration, PersistentLife}
    /\ sessions' = [sessions EXCEPT ![NewId] = NewSession(u, a, life)]
    /\ index' = [index EXCEPT ![u][NewId] = @ + 1]
    /\ issued' = issued + 1
    /\ UNCHANGED <<duration, pend, control>>

DestroySession(s) ==
    /\ Remove({s})
    /\ UNCHANGED <<duration, pend, control>>

(* It follows the user's list and then drops the list. *)
DestroyAllUserSessions(u) ==
    /\ sessions' = [s \in Ids |-> IF index[u][s] > 0 THEN NoSession ELSE sessions[s]]
    /\ index' = [index EXCEPT ![u] = [s \in Ids |-> 0]]
    /\ UNCHANGED <<issued, duration, pend, control>>

GetSession(t, s, op) ==
    /\ pend[t] = Idle
    /\ Found(s)
    /\ pend' = [pend EXCEPT ![t] = [op |-> op, id |-> s, addr |-> sessions[s].addr]]
    /\ UNCHANGED <<store, duration, control>>

RefreshSession(t) ==
    /\ pend[t].op = "refresh"
    /\ sessions' = [s \in Ids |-> IF s \in Aimed(t)
                                  THEN [sessions[s] EXCEPT !.life = duration]
                                  ELSE sessions[s]]
    /\ pend' = [pend EXCEPT ![t] = Idle]
    /\ UNCHANGED <<index, issued, duration, control>>

SetSessionData(t) ==
    /\ pend[t].op = "set_data"
    /\ sessions' = [s \in Ids |-> IF s \in Aimed(t)
                                  THEN [sessions[s] EXCEPT !.data = TRUE]
                                  ELSE sessions[s]]
    /\ pend' = [pend EXCEPT ![t] = Idle]
    /\ UNCHANGED <<index, issued, duration, control>>

SetDefaultSessionDuration(d) ==
    /\ duration' = d
    /\ UNCHANGED <<store, pend, control>>

CleanupExpiredSessions ==
    /\ Remove({s \in Live : Expired(s)})
    /\ UNCHANGED <<duration, pend>>

-------------------------------------------------------------------------------
(* init starts the thread; starting it twice would terminate the program.   *)
StartCleanupThread ==
    /\ cleaner = "off"
    /\ stopping = "no"
    /\ running' = TRUE
    /\ cleaner' = "testing"
    /\ UNCHANGED <<store, duration, pend, stopping>>

TestRunning ==
    /\ cleaner = "testing"
    /\ cleaner' = LoopTest
    /\ UNCHANGED <<store, duration, pend, running, stopping>>

Wake ==
    /\ cleaner = "asleep"
    /\ cleaner' = WakeTest
    /\ UNCHANGED <<store, duration, pend, running, stopping>>

Clean ==
    /\ cleaner = "cleaning"
    /\ CleanupExpiredSessions
    /\ cleaner' = "testing"
    /\ UNCHANGED <<running, stopping>>

(* shutdown clears the flag, joins the thread and then clears the store.    *)
StopCleanupThread ==
    /\ stopping = "no"
    /\ running' = FALSE
    /\ stopping' = "joining"
    /\ UNCHANGED <<store, duration, pend, cleaner>>

FinishShutdown ==
    /\ stopping = "joining"
    /\ cleaner = "off"
    /\ sessions' = [s \in Ids |-> NoSession]
    /\ index' = [u \in Users |-> [s \in Ids |-> 0]]
    /\ stopping' = "no"
    /\ UNCHANGED <<issued, duration, pend, running, cleaner>>

(* Time passes for every session. *)
Tick ==
    /\ \E s \in Live : ~Expired(s)
    /\ sessions' = [s \in Ids |-> IF s \in Live /\ ~Expired(s)
                                  THEN [sessions[s] EXCEPT !.life = @ - 1]
                                  ELSE sessions[s]]
    /\ UNCHANGED <<index, issued, duration, pend, control>>

Cleaner == TestRunning \/ Wake \/ Clean

Next ==
    \/ \E u \in Users, a \in Addrs, life \in Lives : CreateSession(u, a, life)
    \/ \E s \in Live : DestroySession(s)
    \/ \E u \in Users : DestroyAllUserSessions(u)
    \/ \E t \in Threads, s \in Ids, op \in {"refresh", "set_data"} : GetSession(t, s, op)
    \/ \E t \in Threads : RefreshSession(t)
    \/ \E t \in Threads : SetSessionData(t)
    \/ \E d \in Durations : SetDefaultSessionDuration(d)
    \/ StartCleanupThread
    \/ TestRunning
    \/ Wake
    \/ Clean
    \/ StopCleanupThread
    \/ FinishShutdown
    \/ Tick

(* The cleanup thread is scheduled and its sleep ends; join returns once    *)
(* the thread has ended.  Nothing is assumed of the callers or of time.     *)
Fairness == WF_vars(Cleaner) /\ WF_vars(FinishShutdown)

Spec == Init /\ [][Next]_vars /\ Fairness

-------------------------------------------------------------------------------
(* Every variable has its type. *)
TypeOK ==
    /\ sessions \in [Ids -> Session \cup {NoSession}]
    /\ index \in [Users -> [Ids -> Nat]]
    /\ issued \in 0..MaxSessions
    /\ duration \in Lives
    /\ pend \in [Threads -> [op : Operations, id : 0..MaxSessions, addr : Addrs]]
    /\ running \in BOOLEAN
    /\ cleaner \in {"off", "testing", "asleep", "cleaning"}
    /\ stopping \in {"no", "joining"}

(* Each session is exactly once in its user's list and no list holds        *)
(* anything else, whichever of the four removals took what else was there:  *)
(* otherwise destroy_all_user_sessions, which follows the list, leaves a    *)
(* session behind.                                                          *)
IndexExact ==
    \A u \in Users, s \in Ids :
        index[u][s] = IF s \in Live /\ sessions[s].user = u THEN 1 ELSE 0

(* The inductive invariant behind it and behind the two properties below:   *)
(* ids are issued once, live sessions have addresses of their own, and a    *)
(* thread's pointer is where its session is for as long as that lives.      *)
IdsIssued == \A s \in Live : s <= issued

AddrsDistinct ==
    \A r, s \in Live : sessions[r].addr = sessions[s].addr => r = s

PointersIssued ==
    \A t \in Threads : pend[t].op # "none" =>
        /\ pend[t].id \in 1..issued
        /\ pend[t].id \in Live => sessions[pend[t].id].addr = pend[t].addr

SessionInv == TypeOK /\ IndexExact /\ IdsIssued /\ AddrsDistinct /\ PointersIssued

(* A pointer that outlived the mutex changes the session it was got for, or *)
(* that session is gone by then.                                            *)
WritesReachNamed ==
    [][\A t \in Threads :
          (RefreshSession(t) \/ SetSessionData(t)) =>
              \A s \in Live : sessions'[s] # sessions[s] =>
                  s = pend[t].id \/ pend[t].id \notin Live]_vars

(* A refresh that is in flight at the session. *)
Pending(s) == \E t \in Threads : pend[t].op = "refresh" /\ s \in Aimed(t)

(* An expired session comes back only through a refresh that got its        *)
(* pointer while the session, or its predecessor at the same address, was   *)
(* valid; none starts on an expired session.                                *)
RevivedOnlyInFlight ==
    [][\A s \in Live :
          Expired(s) /\ ~Pending(s) /\ s \in Live' => Expired(s)' /\ ~Pending(s)']_vars

(* While the cleanup thread runs, no session stays expired for ever: it is  *)
(* removed, or a refresh in flight revives it.                              *)
ExpiredIsRemoved ==
    \A s \in Ids : (running /\ s \in Live /\ Expired(s)) ~> ~(s \in Live /\ Expired(s))

(* shutdown returns: the cleanup thread it waits for sees the flag, wherever *)
(* it is in its loop.                                                        *)
ShutdownEnds == stopping = "joining" ~> stopping = "no"

===============================================================================
