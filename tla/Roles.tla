--------------------------------- MODULE Roles ---------------------------------
(***************************************************************************)
(* RoleManager (src/src/auth/rbac.cpp): roles, the roles they inherit      *)
(* from, and the cache of all the permissions of a role.                   *)
(*                                                                         *)
(* An operation that changes a role gets a pointer from get_role in one    *)
(* section under the mutex and writes through it in another.               *)
(* get_all_role_permissions builds the cache under the shared mutex, so    *)
(* that the build is a sequence of steps among those of other readers.     *)
(***************************************************************************)
EXTENDS Naturals, FiniteSets

CONSTANTS
    RoleThreads, \* threads that call the manager
    Editors,     \* those of them that change roles
    Permissions, \* permission ids
    MaxRole,     \* bound on the roles there are at a time
    NoRole,      \* the id is not a key of roles_
    NoEntry      \* the id is not a key of inheritance_cache_

RoleIds == 1..MaxRole

Role == [permissions : SUBSET Permissions, inherited : SUBSET RoleIds]

ASSUME RolesAssumption ==
    /\ Editors \subseteq RoleThreads
    /\ MaxRole \in Nat
    /\ NoRole \notin Role
    /\ \A S \in SUBSET Permissions : NoEntry # S

VARIABLES
    roles,      \* roles_: id -> role
    cache,      \* inheritance_cache_: id -> all its permissions
    dirty,      \* cache_dirty_
    request,    \* the operation each thread is in
    links,      \* history: pairs of present roles that add_inheritance joined
    given,      \* history: how often a role id has been given out
    outdated    \* history: a role was replaced, the cache not invalidated since

roleVars == <<roles, cache, dirty, request, links, given, outdated>>

Present == {r \in RoleIds : roles[r] # NoRole}

(* at is the role the thread's pointer leads to, 0 when that has been       *)
(* freed; then later are the roles allocated since, one of which may have   *)
(* its memory.  alone says that no other thread builds the cache while this *)
(* one reads.                                                               *)
NoRequest == [op |-> "none", id |-> 0, at |-> 0, later |-> {}, what |-> {},
              todo |-> {}, alone |-> TRUE]

Edits == {"permit", "child", "inherit", "disinherit"}

InitRoles ==
    /\ roles = [r \in RoleIds |-> NoRole]
    /\ cache = [r \in RoleIds |-> NoEntry]
    /\ dirty = FALSE
    /\ request = [t \in RoleThreads |-> NoRequest]
    /\ links = {}
    /\ given = [r \in RoleIds |-> 0]
    /\ outdated = FALSE

-------------------------------------------------------------------------------
(* The roles that collect visits: from role r up, those that are present.   *)
Lineage(r) ==
    {s \in Present : \A S \in SUBSET Present :
        r \in S /\ (\A x \in S : roles[x].inherited \cap Present \subseteq S) => s \in S}

AllPermissions(r) == UNION {roles[s].permissions : s \in Lineage(r)}

(* The roles that inherit from themselves. *)
Circular == {r \in Present : \E p \in roles[r].inherited \cap Present : r \in Lineage(p)}

(* On a role that leads to one of these, collect does not come back. *)
Cyclic(r) == Lineage(r) \cap Circular # {}

(* Threads in the section of get_all_role_permissions. *)
Reading == {t \in RoleThreads : request[t].op \in {"fill", "answer"}}

Excluded == Reading = {}

-------------------------------------------------------------------------------
(* What becomes of the pointers when roles are freed and allocated. *)
Moved(gone, new) ==
    [t \in RoleThreads |->
        LET at == IF request[t].at \in gone THEN 0 ELSE request[t].at
        IN [request[t] EXCEPT !.at = at,
                              !.later = IF request[t].op \in Edits /\ at = 0
                                        THEN (@ \ gone) \cup new ELSE {}]]

NextRoleId == Cardinality(Present) + 1

(* The id may be that of a role, which is then replaced; the cache is not   *)
(* invalidated, and who inherits from the id inherits from the new role.    *)
CreateRole ==
    /\ Excluded
    /\ NextRoleId \in RoleIds
    /\ LET i == NextRoleId
       IN /\ roles' = [roles EXCEPT ![i] = [permissions |-> {}, inherited |-> {}]]
          /\ request' = Moved(Present \cap {i}, {i})
          /\ links' = {l \in links : l[1] # i /\ l[2] # i}
          /\ given' = [given EXCEPT ![i] = IF @ = 0 THEN 1 ELSE 2]
          /\ outdated' = (outdated \/ i \in Present)
    /\ UNCHANGED <<cache, dirty>>

(* The definitions named ..._Faulty are variants with one mistake in them;  *)
(* no action uses them.  Each shows that a property notices that mistake.   *)
Invalidate_Faulty == UNCHANGED dirty /\ outdated' = outdated

Invalidate == dirty' = TRUE /\ outdated' = FALSE

DeleteRole(r) ==
    /\ Excluded
    /\ r \in Present
    /\ roles' = [roles EXCEPT ![r] = NoRole]
    /\ request' = Moved({r}, {})
    /\ links' = {l \in links : l[1] # r /\ l[2] # r}
    /\ Invalidate
    /\ UNCHANGED <<cache, given>>

(* get_role, for an operation that goes on; what is its argument. *)
GetRole(t, op, r, what) ==
    /\ request[t] = NoRequest
    /\ r \in Present
    /\ request' = [request EXCEPT ![t] = [NoRequest EXCEPT !.op = op, !.id = r, !.at = r,
                                                           !.what = what]]
    /\ UNCHANGED <<roles, cache, dirty, links, given, outdated>>

(* add_inheritance has looked up the child and looks up the parent. *)
FindParent(t) ==
    /\ request[t].op = "child"
    /\ request' = [request EXCEPT ![t] = IF @.what \subseteq Present
                                        THEN [@ EXCEPT !.op = "inherit"]
                                        ELSE NoRequest]
    /\ UNCHANGED <<roles, cache, dirty, links, given, outdated>>

(* The last section of an operation that changes a role: it writes where    *)
(* the pointer leads, and a freed role may be another's memory by now.      *)
Write(t, op, Changed(_)) ==
    /\ request[t].op = op /\ Excluded
    /\ \E r \in {request[t].at} \cup request[t].later :
          /\ roles' = [i \in RoleIds |-> IF i = r THEN Changed(roles[i]) ELSE roles[i]]
          /\ links' = IF op = "inherit" /\ r \in RoleIds
                      THEN links \cup {<<r, p>> : p \in request[t].what \cap Present}
                      ELSE links
    /\ request' = [request EXCEPT ![t] = NoRequest]
    /\ Invalidate
    /\ UNCHANGED <<cache, given>>

(* set_role_permissions; add_permission_to_role and                         *)
(* remove_permission_from_role change the set by one.                       *)
SetRolePermissions(t) ==
    Write(t, "permit", LAMBDA role : [role EXCEPT !.permissions = request[t].what])

AddInheritance_Faulty(t) ==
    Write(t, "inherit", LAMBDA role : [role EXCEPT !.inherited = @ \cup {request[t].id}])

(* Of the parent, add_inheritance keeps the id only. *)
AddInheritance(t) ==
    Write(t, "inherit", LAMBDA role : [role EXCEPT !.inherited = @ \cup request[t].what])

RemoveInheritance(t) ==
    Write(t, "disinherit", LAMBDA role : [role EXCEPT !.inherited = @ \ request[t].what])

-------------------------------------------------------------------------------
(* The second section of get_all_role_permissions: it clears the cache if   *)
(* that is dirty, and goes on to build it.                                  *)
BeginRead(t) ==
    /\ request[t].op = "read"
    /\ LET mine == [request[t] EXCEPT !.alone = \A u \in RoleThreads : request[u].op # "fill"]
       IN IF dirty
          THEN /\ cache' = [r \in RoleIds |-> NoEntry]
               /\ request' = [u \in RoleThreads |->
                                IF u = t THEN [mine EXCEPT !.op = "fill", !.todo = Present]
                                ELSE [request[u] EXCEPT !.alone = @ /\ u \notin Reading]]
          ELSE /\ request' = [request EXCEPT ![t] = [mine EXCEPT !.op = "answer"]]
               /\ UNCHANGED cache
    /\ UNCHANGED <<roles, dirty, links, given, outdated>>

(* One round of build_inheritance_cache, in the order of the ids. *)
FillOne(t) ==
    /\ request[t].op = "fill"
    /\ \E r \in request[t].todo :
          /\ \A s \in request[t].todo : r <= s
          /\ ~Cyclic(r)
          /\ cache' = [cache EXCEPT ![r] = AllPermissions(r)]
          /\ request' = [request EXCEPT ![t].todo = @ \ {r}]
    /\ UNCHANGED <<roles, dirty, links, given, outdated>>

FillDone(t) ==
    /\ request[t].op = "fill" /\ request[t].todo = {}
    /\ dirty' = FALSE
    /\ request' = [request EXCEPT ![t].op = "answer"]
    /\ UNCHANGED <<roles, cache, links, given, outdated>>

(* The recursion of collect overflows the stack: the process dies, and with *)
(* it everything it knew.                                                   *)
Overflow(t) ==
    /\ request[t].op = "fill"
    /\ \E r \in request[t].todo : Cyclic(r) /\ \A s \in request[t].todo : r <= s
    /\ roles' = [r \in RoleIds |-> NoRole]
    /\ cache' = [r \in RoleIds |-> NoEntry]
    /\ dirty' = FALSE
    /\ request' = [u \in RoleThreads |-> NoRequest]
    /\ links' = {}
    /\ given' = [r \in RoleIds |-> 0]
    /\ outdated' = FALSE

(* The cache's entry, or the role's own permissions if there is none. *)
Answer(t) ==
    IF cache[request[t].id] # NoEntry
    THEN cache[request[t].id]
    ELSE roles[request[t].at].permissions

EndRead(t) ==
    /\ request[t].op = "answer"
    /\ request' = [request EXCEPT ![t] = NoRequest]
    /\ UNCHANGED <<roles, cache, dirty, links, given, outdated>>

(* shutdown clears the cache and leaves cache_dirty_. *)
ShutdownRoles ==
    /\ Excluded /\ Present # {}
    /\ roles' = [r \in RoleIds |-> NoRole]
    /\ cache' = [r \in RoleIds |-> NoEntry]
    /\ request' = Moved(Present, {})
    /\ links' = {}
    /\ UNCHANGED <<dirty, given, outdated>>

NextRoles ==
    \/ CreateRole
    \/ \E r \in RoleIds : DeleteRole(r)
    \/ \E t \in Editors, r \in RoleIds, ps \in SUBSET Permissions : GetRole(t, "permit", r, ps)
    \/ \E t \in Editors, r, p \in RoleIds : GetRole(t, "child", r, {p})
    \/ \E t \in Editors : FindParent(t)
    \/ \E t \in Editors, r, p \in RoleIds : GetRole(t, "disinherit", r, {p})
    \/ \E t \in RoleThreads, r \in RoleIds : GetRole(t, "read", r, {})
    \/ \E t \in Editors : SetRolePermissions(t)
    \/ \E t \in Editors : AddInheritance(t)
    \/ \E t \in Editors : RemoveInheritance(t)
    \/ \E t \in RoleThreads : BeginRead(t)
    \/ \E t \in RoleThreads : FillOne(t)
    \/ \E t \in RoleThreads : FillDone(t)
    \/ \E t \in RoleThreads : Overflow(t)
    \/ \E t \in RoleThreads : EndRead(t)
    \/ ShutdownRoles

SpecRoles == InitRoles /\ [][NextRoles]_roleVars

-------------------------------------------------------------------------------
(* Every variable has its type. *)
TypeOKRoles ==
    /\ roles \in [RoleIds -> Role \cup {NoRole}]
    /\ \A r \in RoleIds : cache[r] = NoEntry \/ cache[r] \subseteq Permissions
    /\ dirty \in BOOLEAN
    /\ links \subseteq RoleIds \X RoleIds
    /\ given \in [RoleIds -> 0..2]
    /\ outdated \in BOOLEAN

(* get_all_role_permissions answers with the permissions of the role and of *)
(* all it inherits from: whatever was changed before shows, and nothing     *)
(* that was taken away.  Not so when the role was deleted in between, when  *)
(* another reader builds the cache at the same time, or when a role was     *)
(* replaced by create_role, which leaves the old one's cache entry.         *)
AnswersCurrent ==
    \A t \in RoleThreads :
        request[t].op = "answer" /\ request[t].at # 0 /\ request[t].alone /\ ~outdated =>
            Answer(t) = AllPermissions(request[t].id)

(* A role inherits from another only if somebody joined these two, unless   *)
(* the id of the parent was given out again: the child still names it.      *)
InheritsAsJoined ==
    \A r \in Present : \A p \in roles[r].inherited \cap Present :
        given[p] < 2 => <<r, p>> \in links

(* A role comes to inherit from itself, which ends the process at the next  *)
(* build of the cache, only through an add_inheritance that gives a role a  *)
(* parent which already inherits from it: no id that is given out again, no *)
(* deletion and no write through a stale pointer closes a circle otherwise. *)
CirclesAreJoined ==
    [][Circular' \ Circular # {} =>
          \E t \in Editors, r, p \in Present :
              /\ request[t].op = "inherit" /\ p \in request[t].what
              /\ request'[t] = NoRequest
              /\ p \in roles'[r].inherited \ roles[r].inherited
              /\ r \in Lineage(p)]_roleVars

===============================================================================
