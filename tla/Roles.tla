-------------------------------- MODULE Roles --------------------------------
(***************************************************************************)
(* Roles: RolesService, the permissions an access token carries, and the     *)
(* administrator's assignment of roles.                                      *)
(*                                                                         *)
(* A manager of roles may write only roles below his own highest one, and    *)
(* give only permissions he has.  Each handler decides that over several     *)
(* queries and writes afterwards: between any two of them others edit,       *)
(* delete and assign roles, his own among them.                              *)
(***************************************************************************)
EXTENDS Integers, FiniteSets

CONSTANTS
  Users,
  RoleIds,
  Requests,
  Permissions,
  Forms,        \* the bodies of a creation or an edit
  Assignments,  \* the sets of roles an administrator may name
  Seed,         \* the roles in the table at first
  SeedOf,       \* who has which of them
  MaxWrites,    \* bound on the writes
  Null

Role == [permissions : SUBSET Permissions, priority : Nat]

ASSUME RoleConstants ==
  /\ {"admin", "manage_roles"} \subseteq Permissions
  /\ Forms \subseteq Role
  /\ Assignments \subseteq SUBSET RoleIds
  /\ Seed \in [RoleIds -> Role \cup {Null}]
  /\ SeedOf \in [Users -> SUBSET {k \in RoleIds : Seed[k] # Null}]
  /\ MaxWrites \in Nat
  /\ Null \notin Role \cup Users \cup RoleIds

VARIABLES
  roles,        \* rows of "roles"
  of,           \* rows of "user_roles"
  access,       \* the permissions a user's access token carries
  req,          \* requests in flight
  writes        \* how many there were

vars == <<roles, of, access, req, writes>>

\* "owned", "outranked" and "raced" are for the properties: the permissions the user
\* had at some moment of the request, the priorities that were below one of his roles
\* at some moment of it, and whether anybody else wrote in its time.
Idle == [pc |-> "idle", user |-> Null, role |-> Null, read |-> Null, form |-> Null,
         target |-> Null, assigned |-> {}, owned |-> {}, outranked |-> {}, raced |-> FALSE]

At(r, pc) == req[r].pc = pc
Become(r, rec) == req' = [req EXCEPT ![r] = rec]
Goto(r, pc) == Become(r, [req[r] EXCEPT !.pc = pc])
Done(r) == Become(r, Idle)

-----------------------------------------------------------------------------
(* Access                                                                   *)

\* rolesToAccess
RolesToAccess(ks) == UNION {roles[k].permissions : k \in ks}

PermissionsOf(u) == RolesToAccess(of[u])

\* findOne of a role of the user above a priority.
Outranks(u, priority) == \E k \in of[u] : roles[k].priority > priority

\* The user's first role, by descending priority, among those above a priority.
UserRole(u, priority, k) ==
  /\ k \in of[u]
  /\ roles[k].priority > priority
  /\ \A j \in of[u] : roles[j].priority <= roles[k].priority

\* PermissionsGuard, which trusts the token.
Admits(u, required) == access[u] \cap required # {}

AllOwned(permissions, owned) == permissions \subseteq owned \/ "admin" \in owned

\* checkUserRoleManageAccess
CheckUserRoleManageAccess(permissions, u) == AllOwned(permissions, PermissionsOf(u))

Priorities == {Seed[k].priority : k \in {j \in RoleIds : Seed[j] # Null}}
              \cup {f.priority : f \in Forms}

\* What the properties remember of a request, given the rows as they are now.
Witness(t, rs, us, raced) ==
  IF t.user = Null THEN t
  ELSE [t EXCEPT !.owned = @ \cup UNION {rs[k].permissions : k \in us[t.user]},
                 !.outranked = @ \cup {n \in Priorities :
                                         \E k \in us[t.user] : rs[k].priority > n},
                 !.raced = @ \/ raced]

Begin(r, t) ==
  /\ At(r, "idle")
  /\ Become(r, Witness(t, roles, of, FALSE))

\* A write of a request, which ends it.
Write(r) ==
  /\ writes < MaxWrites
  /\ writes' = writes + 1
  /\ req' = [q \in Requests |-> IF q = r THEN Idle ELSE Witness(req[q], roles', of', TRUE)]
  /\ UNCHANGED access

ManagesRoles(u) == Admits(u, {"manage_roles", "admin"})

\* A login or a refresh: getRolesAccessesForUser.
GetRolesAccessesForUser(u) ==
  /\ access' = [access EXCEPT ![u] = PermissionsOf(u)]
  /\ UNCHANGED <<roles, of, req, writes>>

-----------------------------------------------------------------------------
(* Creation                                                                 *)

\* POST roles: the user with his roles, and the check.  No priority is asked for.
CreateRole(r, u, f) ==
  /\ ManagesRoles(u)
  /\ CheckUserRoleManageAccess(f.permissions, u)
  /\ Begin(r, [Idle EXCEPT !.pc = "create", !.user = u, !.form = f])
  /\ UNCHANGED <<roles, of, access, writes>>

SaveNewRole(r) ==
  /\ At(r, "create")
  /\ \E k \in RoleIds : roles[k] = Null /\ roles' = [roles EXCEPT ![k] = req[r].form]
  /\ UNCHANGED of
  /\ Write(r)

-----------------------------------------------------------------------------
(* Edit                                                                     *)

\* PUT roles/:roleId: the role as it is.
EditRole(r, u, k, f) ==
  /\ ManagesRoles(u)
  /\ roles[k] # Null
  /\ Begin(r, [Idle EXCEPT !.pc = "rank", !.user = u, !.role = k, !.read = roles[k],
                           !.form = f])
  /\ UNCHANGED <<roles, of, access, writes>>

MayEditToOwnRank(u, read, form) ==
  \E k \in of[u] :
    /\ UserRole(u, read.priority, k)
    /\ form.priority # 0 => roles[k].priority >= form.priority

\* His highest role must be above the role he edits, and above what it becomes.  A
\* priority of 0 is not compared.
MayEdit(u, read, form) ==
  \E k \in of[u] :
    /\ UserRole(u, read.priority, k)
    /\ form.priority # 0 => roles[k].priority > form.priority

EditRank(r) ==
  /\ At(r, "rank")
  /\ IF MayEdit(req[r].user, req[r].read, req[r].form) THEN Goto(r, "check") ELSE Done(r)
  /\ UNCHANGED <<roles, of, access, writes>>

EditCheckOldOnly(r) ==
  /\ At(r, "check")
  /\ IF CheckUserRoleManageAccess(req[r].read.permissions, req[r].user)
     THEN Goto(r, "edit") ELSE Done(r)
  /\ UNCHANGED <<roles, of, access, writes>>

\* The user with his roles, and both checks.
EditCheck(r) ==
  /\ At(r, "check")
  /\ IF /\ CheckUserRoleManageAccess(req[r].read.permissions, req[r].user)
        /\ CheckUserRoleManageAccess(req[r].form.permissions, req[r].user)
     THEN Goto(r, "edit") ELSE Done(r)
  /\ UNCHANGED <<roles, of, access, writes>>

\* update, which answers "false" when the role is gone.
EditUpdate(r) ==
  /\ At(r, "edit")
  /\ \/ /\ roles[req[r].role] = Null
        /\ Done(r)
        /\ UNCHANGED <<roles, of, access, writes>>
     \/ /\ roles[req[r].role] # Null
        /\ roles' = [roles EXCEPT ![req[r].role] = req[r].form]
        /\ UNCHANGED of
        /\ Write(r)

-----------------------------------------------------------------------------
(* Deletion                                                                 *)

\* DELETE roles/:roleId: the role as it is.
DeleteRole(r, u, k) ==
  /\ ManagesRoles(u)
  /\ roles[k] # Null
  /\ Begin(r, [Idle EXCEPT !.pc = "deleteRank", !.user = u, !.role = k, !.read = roles[k]])
  /\ UNCHANGED <<roles, of, access, writes>>

DeleteRankOwn(r) ==
  /\ At(r, "deleteRank")
  /\ IF \E k \in of[req[r].user] : roles[k].priority >= req[r].read.priority
     THEN Goto(r, "delete") ELSE Done(r)
  /\ UNCHANGED <<roles, of, access, writes>>

\* findOneOrFail
DeleteRank(r) ==
  /\ At(r, "deleteRank")
  /\ IF Outranks(req[r].user, req[r].read.priority) THEN Goto(r, "delete") ELSE Done(r)
  /\ UNCHANGED <<roles, of, access, writes>>

\* remove: the role, with whatever assigns it.  Removing what is gone is no error.
Remove(r) ==
  LET k == req[r].role IN
  /\ At(r, "delete")
  /\ roles' = [roles EXCEPT ![k] = Null]
  /\ of' = [u \in Users |-> of[u] \ {k}]
  /\ Write(r)

-----------------------------------------------------------------------------
(* Assignment                                                               *)

\* PATCH users/:userId/roles, for administrators: the roles that exist among those he
\* names, and the user he gives them to.
UpdateUserRoles(r, u, v, ks) ==
  /\ Admits(u, {"admin"})
  /\ \A k \in ks : roles[k] # Null
  /\ Begin(r, [Idle EXCEPT !.pc = "assign", !.user = u, !.target = v, !.assigned = ks])
  /\ UNCHANGED <<roles, of, access, writes>>

\* save(user): the foreign key refuses a role that is gone by now.
SaveUserRoles(r) ==
  /\ At(r, "assign")
  /\ \A k \in req[r].assigned : roles[k] # Null
  /\ of' = [of EXCEPT ![req[r].target] = req[r].assigned]
  /\ UNCHANGED roles
  /\ Write(r)

-----------------------------------------------------------------------------

\* A query is rejected: a lost connection, a name that is taken, a role that is gone.
Reject(r) ==
  /\ ~At(r, "idle")
  /\ Done(r)
  /\ UNCHANGED <<roles, of, access, writes>>

Init ==
  /\ roles = Seed
  /\ of = SeedOf
  /\ access = [u \in Users |-> UNION {Seed[k].permissions : k \in SeedOf[u]}]
  /\ req = [r \in Requests |-> Idle]
  /\ writes = 0

Handle(r) ==
  \/ \E u \in Users, f \in Forms :
       \/ CreateRole(r, u, f)
       \/ \E k \in RoleIds : EditRole(r, u, k, f)
  \/ \E u \in Users, k \in RoleIds : DeleteRole(r, u, k)
  \/ \E u, v \in Users, ks \in Assignments : UpdateUserRoles(r, u, v, ks)
  \/ SaveNewRole(r)
  \/ EditRank(r) \/ EditCheck(r) \/ EditUpdate(r)
  \/ DeleteRank(r) \/ Remove(r)
  \/ SaveUserRoles(r)
  \/ Reject(r)

Next ==
  \/ \E r \in Requests : Handle(r)
  \/ \E u \in Users : GetRolesAccessesForUser(u)

Spec == Init /\ [][Next]_vars

-----------------------------------------------------------------------------
(* Properties                                                               *)

\* A step in which request r writes role k: the role it finds, and the role it leaves.
Writes(r, k) == req[r].pc \in {"create", "edit", "delete"} /\ req'[r] = Idle /\ roles'[k] # roles[k]

\* Whatever is edited, deleted and assigned between the checks of a request and its
\* write, what it leaves in a role was within its user's reach: at some moment of the
\* request he has had each permission the role gets or has been an administrator, and at
\* some moment one of his roles was above the priority an edit gives it.
LeavesWithinReach ==
  [][\A r \in Requests, k \in RoleIds :
       Writes(r, k) /\ roles'[k] # Null
         => /\ AllOwned(roles'[k].permissions, req[r].owned)
            /\ At(r, "edit") => roles'[k].priority \in req[r].outranked]_vars

\* The checks of a request are as good as one that is atomic, unless somebody wrote in
\* its time: the role it edits or deletes is below a role of the user as it is written,
\* and he has its permissions if he edits it.
AtomicUnlessRaced ==
  [][\A r \in Requests, k \in RoleIds :
       Writes(r, k) /\ ~req[r].raced /\ roles[k] # Null
         => /\ Outranks(req[r].user, roles[k].priority)
            /\ At(r, "edit") => CheckUserRoleManageAccess(roles[k].permissions, req[r].user)]_vars
===============================================================================
