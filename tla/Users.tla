--------------------------------- MODULE Users ---------------------------------
(***************************************************************************)
(* UserManager (src/src/auth/user.cpp): the accounts, their index by name, *)
(* and the shared mutex between its callers.                               *)
(*                                                                         *)
(* An operation that changes an account gets a pointer from get_user in    *)
(* one section and writes through it in another.  get_user_by_username     *)
(* calls get_user inside its own section, so that one thread takes the     *)
(* shared mutex twice.                                                     *)
(***************************************************************************)
EXTENDS Naturals, FiniteSets

CONSTANTS
    UserThreads, \* threads that call the manager
    Names,       \* user names
    MaxUser,     \* bound on the accounts there are at a time
    NoUser       \* the id is not a key of users_

UserIds == 1..MaxUser

(* edited says that an operation has changed the account: its profile, its  *)
(* role, its permissions, its password or whether it is active.             *)
User == [name : Names, edited : BOOLEAN]

ASSUME UsersAssumption ==
    /\ MaxUser \in Nat /\ Names # {}
    /\ NoUser \notin User

VARIABLES
    users,     \* users_: id -> account
    names,     \* username_index_: name -> id, 0 for none
    call,      \* the operation each thread is in
    usurped,   \* history: names whose account was replaced by another
    userGone   \* history: an account has been deleted

userVars == <<users, names, call, usurped, userGone>>

Accounts == {u \in UserIds : users[u] # NoUser}

AnyName == CHOOSE n \in Names : TRUE

(* at is the account the thread's pointer leads to, 0 when that has been    *)
(* freed; then later are the accounts allocated since, one of which may     *)
(* have its memory.                                                         *)
NoCall == [op |-> "none", id |-> 0, name |-> AnyName, at |-> 0, later |-> {}]

InitUsers ==
    /\ users = [u \in UserIds |-> NoUser]
    /\ names = [n \in Names |-> 0]
    /\ call = [t \in UserThreads |-> NoCall]
    /\ usurped = {}
    /\ userGone = FALSE

-------------------------------------------------------------------------------
(* The definitions named ..._Faulty are variants with one mistake in them;  *)
(* no action uses them.  Each shows that a property notices that mistake.   *)

(* Threads in get_user_by_username have the mutex shared. *)
Readers == {t \in UserThreads : call[t].op = "lookup"}

Excludes == Readers = {}

Reached_Faulty(i) == {u \in Accounts : u >= i /\ \A v \in Accounts : v >= i => u <= v}

(* get_user *)
Reached(i) == Accounts \cap {i}

GetUser(t, i) ==
    /\ call[t] = NoCall
    /\ \E u \in Reached(i) :
           call' = [call EXCEPT ![t] = [NoCall EXCEPT !.op = "edit", !.id = i, !.at = u]]
    /\ UNCHANGED <<users, names, usurped, userGone>>

Ask(t, op, i, n) ==
    /\ call[t] = NoCall
    /\ call' = [call EXCEPT ![t] = [NoCall EXCEPT !.op = op, !.id = i, !.name = n]]
    /\ UNCHANGED <<users, names, usurped, userGone>>

(* What becomes of the calls when thread t's ends, the accounts in gone are *)
(* freed and those in new allocated.                                        *)
Settle(t, gone, new) ==
    call' = [u \in UserThreads |->
               IF u = t THEN NoCall
               ELSE LET at == IF call[u].at \in gone THEN 0 ELSE call[u].at
                    IN [call[u] EXCEPT
                          !.at = at,
                          !.later = IF call[u].op = "edit" /\ at = 0
                                    THEN (@ \ gone) \cup new ELSE {}]]

NextUserId == Cardinality(Accounts) + 1

(* The id may be that of an account, which is then replaced; the index      *)
(* keeps the name of that account.                                          *)
CreateUser(t) ==
    /\ call[t].op = "create" /\ Excludes
    /\ NextUserId \in UserIds
    /\ LET i == NextUserId
           n == call[t].name
       IN IF \E u \in Accounts : users[u].name = n
          THEN Settle(t, {}, {}) /\ UNCHANGED <<users, names, usurped>>
          ELSE /\ users' = [users EXCEPT ![i] = [name |-> n, edited |-> FALSE]]
               /\ names' = [names EXCEPT ![n] = i]
               /\ usurped' = (usurped \ {n}) \cup {users[u].name : u \in Accounts \cap {i}}
               /\ Settle(t, Accounts \cap {i}, {i})
    /\ UNCHANGED userGone

NamesWithout_Faulty(u) == names

NamesWithout(u) == [names EXCEPT ![users[u].name] = 0]

DeleteUser(t) ==
    /\ call[t].op = "delete" /\ Excludes
    /\ LET u == call[t].id
       IN IF u \in Accounts
          THEN /\ names' = NamesWithout(u)
               /\ users' = [users EXCEPT ![u] = NoUser]
               /\ userGone' = TRUE
               /\ Settle(t, {u}, {})
          ELSE Settle(t, {}, {}) /\ UNCHANGED <<users, names, userGone>>
    /\ UNCHANGED usurped

(* The second section of update_user_profile, update_user_role,             *)
(* activate_user, deactivate_user, grant_permission, revoke_permission and  *)
(* reset_password.  A write to freed memory changes an account that has it  *)
(* by now, or none.                                                         *)
EditUser(t) ==
    /\ call[t].op = "edit" /\ Excludes
    /\ \E u \in {call[t].at} \cup call[t].later :
           users' = [i \in UserIds |-> IF i = u THEN [users[i] EXCEPT !.edited = TRUE]
                                       ELSE users[i]]
    /\ Settle(t, {}, {})
    /\ UNCHANGED <<names, usurped, userGone>>

(* get_user_by_username has the mutex and the id, and asks for the mutex    *)
(* again.  Where a writer that waits goes first it may not get it: then it  *)
(* stays in the lookup for ever, and no writer gets in.                     *)
BeginLookup(t, n) ==
    /\ call[t] = NoCall
    /\ names[n] # 0
    /\ call' = [call EXCEPT ![t] = [NoCall EXCEPT !.op = "lookup", !.id = names[n], !.name = n]]
    /\ UNCHANGED <<users, names, usurped, userGone>>

EndLookup(t) ==
    /\ call[t].op = "lookup"
    /\ Settle(t, {}, {})
    /\ UNCHANGED <<users, names, usurped, userGone>>

ShutdownUsers ==
    /\ Excludes /\ Accounts # {}
    /\ users' = [u \in UserIds |-> NoUser]
    /\ names' = [n \in Names |-> 0]
    /\ usurped' = {}
    /\ call' = [t \in UserThreads |-> [call[t] EXCEPT !.at = 0, !.later = {}]]
    /\ UNCHANGED userGone

NextUsers ==
    \/ \E t \in UserThreads, i \in UserIds : GetUser(t, i)
    \/ \E t \in UserThreads, n \in Names : Ask(t, "create", 0, n)
    \/ \E t \in UserThreads, i \in UserIds : Ask(t, "delete", i, AnyName)
    \/ \E t \in UserThreads : CreateUser(t)
    \/ \E t \in UserThreads : DeleteUser(t)
    \/ \E t \in UserThreads : EditUser(t)
    \/ \E t \in UserThreads, n \in Names : BeginLookup(t, n)
    \/ \E t \in UserThreads : EndLookup(t)
    \/ ShutdownUsers

SpecUsers == InitUsers /\ [][NextUsers]_userVars

-------------------------------------------------------------------------------
(* Every variable has its type. *)
TypeOKUsers ==
    /\ users \in [UserIds -> User \cup {NoUser}]
    /\ names \in [Names -> 0..MaxUser]
    /\ call \in [UserThreads -> [op : {"none", "create", "delete", "edit", "lookup"},
                                 id : 0..MaxUser, name : Names,
                                 at : 0..MaxUser, later : SUBSET UserIds]]
    /\ usurped \subseteq Names
    /\ userGone \in BOOLEAN

(* Every account is found by its name, which no other has.  A name leads to *)
(* another's account only if its own was replaced, which happens only after *)
(* a deletion: whoever logs in by name gets his own account until then.     *)
NamesReach ==
    /\ \A u \in Accounts : names[users[u].name] = u
    /\ \A n \in Names : names[n] \in Accounts /\ users[names[n]].name # n => n \in usurped
    /\ usurped # {} => userGone

(* An operation changes the account it was called for, or, when that was    *)
(* deleted or replaced between its two sections, none or a newer one.       *)
EditsReachNamed ==
    [][\A u \in Accounts :
          ~users[u].edited /\ users'[u] # NoUser /\ users'[u].edited =>
              \E t \in UserThreads :
                  call[t].op = "edit" /\ (call[t].id = u \/ u \in call[t].later)]_userVars

===============================================================================
