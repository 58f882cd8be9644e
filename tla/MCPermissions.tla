----------------------------- MODULE MCPermissions -----------------------------
(* Who may do what: Roles and GuildAccess.  Neither reads what the other writes, and   *)
(* each is looked at while the other rests where it began.                             *)
EXTENDS Roles, GuildAccess, TLC

CONSTANTS u1, u2, top, manager, low

\* An administrator, a manager of roles, and a role below his.
AllPermissions == {"admin", "manage_roles", "read_apps"}
MCForms ==
  {[permissions |-> {"read_apps"}, priority |-> 0],
   [permissions |-> {"manage_roles"}, priority |-> 2]}
MCSeed ==
  (top :> [permissions |-> {"admin"}, priority |-> 3])
  @@ (manager :> [permissions |-> {"manage_roles"}, priority |-> 2])
  @@ (low :> [permissions |-> {}, priority |-> 1])
MCSeedOf == (u1 :> {top}) @@ (u2 :> {manager})
MCAssignments == {{manager, low}, {top}}

\* Who is not in the guild, one with the permission it may ask for, an administrator.
MCStandings ==
  {Absent} \cup {[owner |-> FALSE, permissions |-> {f}] : f \in Flags}

MCInit == Init /\ InitAccess
MCNext ==
  \/ /\ standing = Unlinked /\ managerPermission = NoFlag /\ InitAccess
     /\ Next /\ UNCHANGED accessVars
  \/ Init /\ AccessStep /\ UNCHANGED vars
MCSpec == MCInit /\ [][MCNext]_<<vars, accessVars>>

Symmetric == Permutations(Requests) \cup Permutations(Callers)
==============================================================================
