------------------------------- MODULE MCAccess -------------------------------
(***************************************************************************)
(* Values for the run of the accounts and the roles.  UserManager and      *)
(* RoleManager call each other nowhere and have no state in common (an     *)
(* account has one of the fixed roles of the enum UserRole), so that a     *)
(* behaviour explores one of the two, with the other at rest.              *)
(***************************************************************************)
EXTENDS Users, Roles

CONSTANTS t1, t2, ann, bob, cem, read

VARIABLE part

vars == <<userVars, roleVars, part>>

TwoThreads == {t1, t2}
ThreeNames == {ann, bob, cem}
OnePermission == {read}

Init == InitUsers /\ InitRoles /\ part \in {"users", "roles"}

Next ==
    \/ part = "users" /\ NextUsers /\ UNCHANGED <<roleVars, part>>
    \/ part = "roles" /\ NextRoles /\ UNCHANGED <<userVars, part>>

Spec == Init /\ [][Next]_vars

===============================================================================
