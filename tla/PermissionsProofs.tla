---------------------------- MODULE PermissionsProofs -------------------------
(*****************************************************************************)
(* Who may do what.  What the writes of Roles leave behind, for any users,   *)
(* roles, permissions and number of requests; and that an answer about a     *)
(* guild (GuildAccess) is at most as old as its two caches together may make *)
(* it, for any standings, permissions, limits and number of questions.       *)
(*****************************************************************************)
EXTENDS Roles, GuildAccess, TLAPS

-----------------------------------------------------------------------------
(* Roles                                                                    *)

Pcs == {"idle", "create", "rank", "check", "edit", "deleteRank", "delete", "assign"}
Request ==
  [pc : Pcs, user : Users \cup {Null}, role : RoleIds \cup {Null}, read : Role \cup {Null},
   form : Forms \cup {Null}, target : Users \cup {Null}, assigned : SUBSET RoleIds,
   owned : SUBSET Permissions, outranked : SUBSET Priorities, raced : BOOLEAN]

Tables == [RoleIds -> Role \cup {Null}]
Owners(rs) == [Users -> SUBSET {k \in RoleIds : rs[k] # Null}]

TypesOf(t) ==
  /\ t \in Request
  /\ t.pc = "idle" => t = Idle
  /\ t.pc # "idle" => t.user \in Users
  /\ t.pc \in {"create", "rank", "check", "edit"} => t.form \in Forms
  /\ t.pc \in {"rank", "check", "edit"} => t.read \in Role
  /\ t.pc \in {"rank", "check", "edit", "deleteRank", "delete"} => t.role \in RoleIds
  /\ t.pc \in {"deleteRank", "delete"} => t.read \in Role
  /\ t.pc = "assign" => t.target \in Users

Types ==
  /\ roles \in Tables
  /\ of \in Owners(roles)
  /\ req \in [Requests -> Request]
  /\ \A r \in Requests : TypesOf(req[r])

\* What the user has now counts as had at some moment of the request.
Reaches(t, rs, us) ==
  /\ \A k \in us[t.user] : rs[k].permissions \subseteq t.owned
  /\ \A n \in Priorities : (\E k \in us[t.user] : rs[k].priority > n) => n \in t.outranked

\* What the checks behind a request have found.
Decided(t) ==
  /\ t.pc \in {"create", "edit"} => AllOwned(t.form.permissions, t.owned)
  /\ t.pc \in {"check", "edit"} => t.form.priority \in t.outranked

\* What they have found is so now, unless somebody wrote since.
Fresh(t, rs, us) ==
  t.raced = TRUE \/
  /\ t.pc \in {"rank", "check", "edit", "deleteRank", "delete"} => rs[t.role] = t.read
  /\ t.pc \in {"check", "edit", "delete"} => \E k \in us[t.user] : rs[k].priority > t.read.priority
  /\ t.pc = "edit" =>
       AllOwned(t.read.permissions, UNION {rs[k].permissions : k \in us[t.user]})

Sound(t, rs, us) ==
  t.pc # "idle" => Reaches(t, rs, us) /\ Decided(t) /\ Fresh(t, rs, us)

IInv == Types /\ \A r \in Requests : Sound(req[r], roles, of)

\* Two requests that differ at most in what is remembered for the properties.
SameRequest(w, t) ==
  /\ w.pc = t.pc /\ w.user = t.user /\ w.role = t.role /\ w.read = t.read
  /\ w.form = t.form /\ w.target = t.target /\ w.assigned = t.assigned

\* A request that has a user is remembered with what he has now and had before.
LEMMA WitnessKeeps ==
  ASSUME NEW t \in Request, t.user \in Users, NEW rs \in Tables, NEW us \in Owners(rs),
         NEW b \in BOOLEAN
  PROVE  LET w == Witness(t, rs, us, b)
         IN  /\ w \in Request
             /\ SameRequest(w, t)
             /\ t.owned \subseteq w.owned /\ t.outranked \subseteq w.outranked
             /\ (w.raced = TRUE) <=> (t.raced = TRUE \/ b = TRUE)
             /\ Reaches(w, rs, us)
<1> DEFINE u == t.user
           o == t.owned \cup UNION {rs[k].permissions : k \in us[u]}
           h == t.outranked \cup {n \in Priorities : \E k \in us[u] : rs[k].priority > n}
           w == [t EXCEPT !.owned = o, !.outranked = h, !.raced = t.raced \/ b]
<1>1. u # Null
  BY RoleConstants
<1>2. Witness(t, rs, us, b) = w
  BY <1>1 DEF Witness
<1>3. \A k \in us[u] : rs[k] \in Role
  BY DEF Tables, Owners
<1>4. o \in SUBSET Permissions
  BY <1>3 DEF Role, Request
<1>5. h \in SUBSET Priorities
  BY DEF Request
<1> HIDE DEF o, h
<1>6. /\ w \in Request
      /\ w.owned = o /\ w.outranked = h /\ w.raced = (t.raced \/ b) /\ w.user = u
  BY <1>4, <1>5 DEF Request
<1>7. Reaches(w, rs, us)
  BY <1>6 DEF Reaches, o, h
<1>8. t.owned \subseteq o /\ t.outranked \subseteq h
  BY DEF o, h
<1>9. SameRequest(w, t)
  BY DEF SameRequest, Request
<1> HIDE DEF w, u
<1> QED
  BY <1>2, <1>6, <1>7, <1>8, <1>9

\* Whatever is remembered of a request that begins so is sound.
BeginsSound(t) ==
  \A w \in Request :
    /\ SameRequest(w, t)
    /\ Reaches(w, roles, of) /\ w.raced # TRUE
    => TypesOf(w) /\ Decided(w) /\ Fresh(w, roles, of)

\* What is remembered of it as it begins.
LEMMA WitnessBegins ==
  ASSUME Types, NEW t \in Request, t.user \in Users, t.raced # TRUE
  PROVE  LET w == Witness(t, roles, of, FALSE)
         IN  /\ w \in Request
             /\ SameRequest(w, t)
             /\ w.raced # TRUE /\ Reaches(w, roles, of)
<1>1. roles \in Tables /\ of \in Owners(roles)
  BY DEF Types
<1> QED
  BY <1>1, WitnessKeeps

\* A handler that begins: what it knows is sound if its checks are.
LEMMA BeginKeeps ==
  ASSUME IInv, NEW r \in Requests, NEW t \in Request, Begin(r, t),
         t.user \in Users, t.pc # "idle", t.raced # TRUE,
         BeginsSound(t),
         UNCHANGED <<roles, of>>
  PROVE  IInv'
<1> DEFINE w == Witness(t, roles, of, FALSE)
<1>0. Types
  BY DEF IInv
<1>1. /\ w \in Request
      /\ SameRequest(w, t)
      /\ w.raced # TRUE /\ Reaches(w, roles, of)
  BY <1>0, WitnessBegins
<1>2. req' = [req EXCEPT ![r] = w]
  BY Zenon DEF Begin, Become
<1> HIDE DEF w
<1>3. TypesOf(w) /\ Sound(w, roles, of)
  BY <1>1 DEF Sound, BeginsSound
<1>4. \A q \in Requests : TypesOf(req'[q]) /\ Sound(req'[q], roles, of)
  BY <1>2, <1>3 DEF IInv, Types
<1>5. Types'
  BY <1>1, <1>2, <1>4 DEF IInv, Types
<1>6. \A q \in Requests : Sound(req'[q], roles', of')
  BY <1>4
<1> QED
  BY <1>5, <1>6 DEF IInv

\* A request that goes on to its next query, or ends, and writes nothing.
LEMMA GotoKeeps ==
  ASSUME IInv, NEW r \in Requests, NEW pc, pc \in Pcs, req[r].pc # "idle",
         \/ Done(r)
         \/ /\ Goto(r, pc)
            /\ pc # "idle"
            /\ TypesOf([req[r] EXCEPT !.pc = pc])
            /\ Decided([req[r] EXCEPT !.pc = pc]) /\ Fresh([req[r] EXCEPT !.pc = pc], roles, of),
         UNCHANGED <<roles, of>>
  PROVE  IInv'
<1> DEFINE t == req[r]
           w == [t EXCEPT !.pc = pc]
<1>1. t \in Request /\ Reaches(t, roles, of)
  BY DEF IInv, Types, Sound
<1>2. w \in Request /\ w.user = t.user /\ w.owned = t.owned /\ w.outranked = t.outranked /\ w.pc = pc
  BY <1>1 DEF Request
<1>3. Reaches(w, roles, of)
  BY <1>1, <1>2 DEF Reaches
<1>4. Idle \in Request /\ TypesOf(Idle) /\ Sound(Idle, roles, of)
  BY DEF Idle, Request, Pcs, TypesOf, Sound
<1>5. PICK v \in {w, Idle} : req' = [req EXCEPT ![r] = v] /\ TypesOf(v) /\ Sound(v, roles, of)
  <2>1. CASE Done(r)
    BY <2>1, <1>4 DEF Done, Become
  <2>2. CASE ~Done(r)
    BY <2>2, <1>2, <1>3 DEF Goto, Become, Sound
  <2> QED
    BY <2>1, <2>2
<1> HIDE DEF w, t
<1>6. \A q \in Requests : req'[q] \in Request /\ TypesOf(req'[q]) /\ Sound(req'[q], roles, of)
  BY <1>2, <1>4, <1>5 DEF IInv, Types
<1>7. Types'
  BY <1>2, <1>4, <1>5, <1>6 DEF IInv, Types
<1>8. \A q \in Requests : Sound(req'[q], roles', of')
  BY <1>6
<1> QED
  BY <1>7, <1>8 DEF IInv

\* A write: its request ends, and the others know that somebody wrote.
LEMMA WriteKeeps ==
  ASSUME IInv, NEW r \in Requests, Write(r), roles' \in Tables, of' \in Owners(roles')
  PROVE  IInv'
<1>1. Idle \in Request /\ TypesOf(Idle) /\ Idle.user = Null
  BY DEF Idle, Request, Pcs, TypesOf
<1>2. ASSUME NEW q \in Requests
      PROVE  req'[q] \in Request /\ TypesOf(req'[q]) /\ Sound(req'[q], roles', of')
  <2> DEFINE t == req[q]
             w == Witness(t, roles', of', TRUE)
  <2>1. req'[q] = IF q = r THEN Idle ELSE w
    BY DEF Write
  <2>2. CASE q = r \/ t.pc = "idle"
    <3>1. req'[q] = Idle
      BY <1>1, <2>1, <2>2 DEF IInv, Types, TypesOf, Witness
    <3> QED
      BY <1>1, <3>1 DEF Sound, Idle
  <2>3. CASE q # r /\ t.pc # "idle"
    <3>1. t \in Request /\ TypesOf(t) /\ Decided(t) /\ t.user \in Users
      BY <2>3 DEF IInv, Types, Sound, TypesOf
    <3>2. /\ w \in Request
          /\ SameRequest(w, t)
          /\ t.owned \subseteq w.owned /\ t.outranked \subseteq w.outranked
          /\ w.raced = TRUE
          /\ Reaches(w, roles', of')
      BY <3>1, WitnessKeeps
    <3>3. w = req'[q]
      BY <2>1, <2>3
    <3> HIDE DEF w
    <3>4. /\ w.pc = t.pc /\ w.user = t.user /\ w.form = t.form /\ w.read = t.read
          /\ w.role = t.role /\ w.target = t.target
      BY <3>2 DEF SameRequest
    <3>5. TypesOf(w)
      BY <3>1, <3>2, <3>4, <2>3 DEF TypesOf
    <3>6. Decided(w)
      BY <3>1, <3>2, <3>4 DEF Decided, AllOwned
    <3>7. Sound(req'[q], roles', of')
      BY <3>2, <3>3, <3>6 DEF Sound, Fresh
    <3> QED
      BY <3>2, <3>3, <3>5, <3>7
  <2> QED
    BY <2>2, <2>3
<1>3. req' \in [Requests -> Request]
  BY <1>2 DEF Write
<1> QED
  BY <1>2, <1>3 DEF IInv, Types

LEMMA InitKeeps == Init => IInv
<1> SUFFICES ASSUME Init PROVE IInv
  OBVIOUS
<1>1. Idle \in Request /\ TypesOf(Idle) /\ Sound(Idle, roles, of)
  BY DEF Idle, Request, Pcs, TypesOf, Sound
<1>2. roles \in Tables /\ of \in Owners(roles)
  BY RoleConstants DEF Init, Tables, Owners
<1> QED
  BY <1>1, <1>2 DEF IInv, Types, Init

\* A role a user has is a row.
LEMMA RolesOfRows ==
  ASSUME Types, NEW u \in Users, NEW k \in of[u]
  PROVE  k \in RoleIds /\ roles[k] \in Role
  BY DEF Types, Tables, Owners

\* What the check of permissions finds is remembered.
LEMMA CheckReaches ==
  ASSUME Types, NEW w \in Request, w.user \in Users, Reaches(w, roles, of),
         NEW ps, CheckUserRoleManageAccess(ps, w.user)
  PROVE  AllOwned(ps, w.owned)
<1>1. PermissionsOf(w.user) \subseteq w.owned
  BY RolesOfRows DEF Reaches, PermissionsOf, RolesToAccess
<1> QED
  BY <1>1 DEF CheckUserRoleManageAccess, AllOwned

LEMMA CreateKeeps ==
  ASSUME IInv, NEW r \in Requests, NEW u \in Users, NEW f \in Forms, CreateRole(r, u, f)
  PROVE  IInv'
<1> DEFINE t == [Idle EXCEPT !.pc = "create", !.user = u, !.form = f]
<1>1. /\ t \in Request /\ t.user = u /\ t.pc = "create" /\ t.form = f /\ t.raced # TRUE
  BY DEF Idle, Request, Pcs
<1>2. Begin(r, t) /\ CheckUserRoleManageAccess(f.permissions, u) /\ UNCHANGED <<roles, of>>
  BY DEF CreateRole
<1> HIDE DEF t
<1>3. ASSUME NEW w \in Request, SameRequest(w, t), Reaches(w, roles, of)
      PROVE  TypesOf(w) /\ Decided(w) /\ Fresh(w, roles, of)
  <2>1. w.pc = "create" /\ w.user = u /\ w.form = f
    BY <1>1, <1>3 DEF SameRequest
  <2>2. AllOwned(w.form.permissions, w.owned)
    BY <2>1, <1>2, <1>3, CheckReaches DEF IInv
  <2> QED
    BY <2>1, <2>2 DEF TypesOf, Decided, Fresh
<1>4. BeginsSound(t)
  BY <1>3 DEF BeginsSound
<1> QED
  BY <1>1, <1>2, <1>4, BeginKeeps

LEMMA EditKeeps ==
  ASSUME IInv, NEW r \in Requests, NEW u \in Users, NEW k \in RoleIds, NEW f \in Forms,
         EditRole(r, u, k, f)
  PROVE  IInv'
<1> DEFINE t == [Idle EXCEPT !.pc = "rank", !.user = u, !.role = k, !.read = roles[k], !.form = f]
<1>1. roles[k] \in Role
  BY DEF IInv, Types, Tables, EditRole
<1>2. /\ t \in Request /\ t.user = u /\ t.pc = "rank" /\ t.form = f /\ t.raced # TRUE
      /\ t.role = k /\ t.read = roles[k]
  BY <1>1 DEF Idle, Request, Pcs
<1>3. Begin(r, t) /\ UNCHANGED <<roles, of>>
  BY DEF EditRole
<1> HIDE DEF t
<1>4. BeginsSound(t)
  BY <1>1, <1>2 DEF BeginsSound, SameRequest, TypesOf, Decided, Fresh
<1> QED
  BY <1>2, <1>3, <1>4, BeginKeeps

LEMMA DeleteKeeps ==
  ASSUME IInv, NEW r \in Requests, NEW u \in Users, NEW k \in RoleIds, DeleteRole(r, u, k)
  PROVE  IInv'
<1> DEFINE t == [Idle EXCEPT !.pc = "deleteRank", !.user = u, !.role = k, !.read = roles[k]]
<1>1. roles[k] \in Role
  BY DEF IInv, Types, Tables, DeleteRole
<1>2. /\ t \in Request /\ t.user = u /\ t.pc = "deleteRank" /\ t.raced # TRUE
      /\ t.role = k /\ t.read = roles[k]
  BY <1>1 DEF Idle, Request, Pcs
<1>3. Begin(r, t) /\ UNCHANGED <<roles, of>>
  BY DEF DeleteRole
<1> HIDE DEF t
<1>4. BeginsSound(t)
  BY <1>1, <1>2 DEF BeginsSound, SameRequest, TypesOf, Decided, Fresh
<1> QED
  BY <1>2, <1>3, <1>4, BeginKeeps

LEMMA AssignKeeps ==
  ASSUME IInv, NEW r \in Requests, NEW u \in Users, NEW v \in Users, NEW ks \in Assignments,
         UpdateUserRoles(r, u, v, ks)
  PROVE  IInv'
<1> DEFINE t == [Idle EXCEPT !.pc = "assign", !.user = u, !.target = v, !.assigned = ks]
<1>1. /\ t \in Request /\ t.user = u /\ t.pc = "assign" /\ t.raced # TRUE /\ t.target = v
  BY RoleConstants DEF Idle, Request, Pcs
<1>2. Begin(r, t) /\ UNCHANGED <<roles, of>>
  BY DEF UpdateUserRoles
<1> HIDE DEF t
<1>3. BeginsSound(t)
  BY <1>1 DEF BeginsSound, SameRequest, TypesOf, Decided, Fresh
<1> QED
  BY <1>1, <1>2, <1>3, BeginKeeps

\* The query for a role above the one that is edited.
LEMMA EditRankKeeps == ASSUME IInv, NEW r \in Requests, EditRank(r) PROVE IInv'
<1> DEFINE t == req[r]
           w == [t EXCEPT !.pc = "check"]
<1>1. /\ t \in Request /\ t.pc = "rank" /\ t.user \in Users /\ t.form \in Forms
      /\ t.read \in Role /\ t.role \in RoleIds
      /\ Reaches(t, roles, of) /\ Fresh(t, roles, of)
  BY DEF EditRank, At, IInv, Types, TypesOf, Sound
<1>2. CASE ~MayEdit(t.user, t.read, t.form)
  <2>1. Done(r)
    BY <1>2 DEF EditRank
  <2> QED
    BY <2>1, <1>1, GotoKeeps DEF EditRank, Pcs
<1>3. CASE MayEdit(t.user, t.read, t.form)
  <2>1. PICK k \in of[t.user] :
          /\ roles[k].priority > t.read.priority
          /\ t.form.priority # 0 => roles[k].priority > t.form.priority
    BY <1>3 DEF MayEdit, UserRole
  <2>2. t.form.priority \in Nat /\ t.read.priority \in Nat /\ roles[k].priority \in Nat
    BY <1>1, RolesOfRows, RoleConstants DEF IInv, Role
  <2>3. roles[k].priority > t.form.priority
    BY <2>1, <2>2
  <2>4. t.form.priority \in Priorities
    BY <1>1 DEF Priorities
  <2>5. t.form.priority \in t.outranked
    BY <1>1, <2>3, <2>4 DEF Reaches
  <2>6. /\ w \in Request /\ w.pc = "check" /\ w.user = t.user /\ w.form = t.form
        /\ w.read = t.read /\ w.role = t.role /\ w.outranked = t.outranked /\ w.raced = t.raced
    BY <1>1 DEF Request, Pcs
  <2> HIDE DEF w
  <2>7. TypesOf(w) /\ Decided(w)
    BY <1>1, <2>5, <2>6 DEF TypesOf, Decided
  <2>8. Fresh(w, roles, of)
    BY <1>1, <2>1, <2>6 DEF Fresh
  <2>9. Goto(r, "check") /\ UNCHANGED <<roles, of>> /\ "check" \in Pcs
    BY <1>3 DEF EditRank, Pcs
  <2> QED
    BY <1>1, <2>7, <2>8, <2>9, GotoKeeps DEF w
<1> QED
  BY <1>2, <1>3

\* The query for the user's roles, and both checks.
LEMMA EditCheckKeeps == ASSUME IInv, NEW r \in Requests, EditCheck(r) PROVE IInv'
<1> DEFINE t == req[r]
           w == [t EXCEPT !.pc = "edit"]
           allowed == /\ CheckUserRoleManageAccess(t.read.permissions, t.user)
                      /\ CheckUserRoleManageAccess(t.form.permissions, t.user)
<1>1. /\ t \in Request /\ t.pc = "check" /\ t.user \in Users /\ t.form \in Forms
      /\ t.read \in Role /\ t.role \in RoleIds
      /\ Reaches(t, roles, of) /\ Decided(t) /\ Fresh(t, roles, of)
  BY DEF EditCheck, At, IInv, Types, TypesOf, Sound
<1>2. CASE ~allowed
  <2>1. Done(r)
    BY <1>2 DEF EditCheck
  <2> QED
    BY <2>1, <1>1, GotoKeeps DEF EditCheck, Pcs
<1>3. CASE allowed
  <2>1. AllOwned(t.form.permissions, t.owned)
    BY <1>1, <1>3, CheckReaches DEF IInv
  <2>2. /\ w \in Request /\ w.pc = "edit" /\ w.user = t.user /\ w.form = t.form
        /\ w.read = t.read /\ w.role = t.role /\ w.outranked = t.outranked
        /\ w.owned = t.owned /\ w.raced = t.raced
    BY <1>1 DEF Request, Pcs
  <2> HIDE DEF w
  <2>3. TypesOf(w) /\ Decided(w)
    BY <1>1, <2>1, <2>2 DEF TypesOf, Decided
  <2>4. AllOwned(t.read.permissions, UNION {roles[k].permissions : k \in of[t.user]})
    BY <1>3 DEF CheckUserRoleManageAccess, PermissionsOf, RolesToAccess
  <2>5. Fresh(w, roles, of)
    BY <1>1, <2>2, <2>4 DEF Fresh
  <2>6. Goto(r, "edit") /\ UNCHANGED <<roles, of>> /\ "edit" \in Pcs
    BY <1>3 DEF EditCheck, Pcs
  <2> QED
    BY <1>1, <2>3, <2>5, <2>6, GotoKeeps DEF w
<1> QED
  BY <1>2, <1>3

\* The query for a role above the one that is deleted.
LEMMA DeleteRankKeeps == ASSUME IInv, NEW r \in Requests, DeleteRank(r) PROVE IInv'
<1> DEFINE t == req[r]
           w == [t EXCEPT !.pc = "delete"]
<1>1. /\ t \in Request /\ t.pc = "deleteRank" /\ t.user \in Users
      /\ t.read \in Role /\ t.role \in RoleIds
      /\ Reaches(t, roles, of) /\ Fresh(t, roles, of)
  BY DEF DeleteRank, At, IInv, Types, TypesOf, Sound
<1>2. CASE ~Outranks(t.user, t.read.priority)
  <2>1. Done(r)
    BY <1>2 DEF DeleteRank
  <2> QED
    BY <2>1, <1>1, GotoKeeps DEF DeleteRank, Pcs
<1>3. CASE Outranks(t.user, t.read.priority)
  <2>1. /\ w \in Request /\ w.pc = "delete" /\ w.user = t.user
        /\ w.read = t.read /\ w.role = t.role /\ w.raced = t.raced
    BY <1>1 DEF Request, Pcs
  <2> HIDE DEF w
  <2>2. TypesOf(w) /\ Decided(w)
    BY <1>1, <2>1 DEF TypesOf, Decided
  <2>3. Fresh(w, roles, of)
    BY <1>1, <1>3, <2>1 DEF Fresh, Outranks
  <2>4. Goto(r, "delete") /\ UNCHANGED <<roles, of>> /\ "delete" \in Pcs
    BY <1>3 DEF DeleteRank, Pcs
  <2> QED
    BY <1>1, <2>2, <2>3, <2>4, GotoKeeps DEF w
<1> QED
  BY <1>2, <1>3

\* The tables after a write.
LEMMA WritesKeep ==
  ASSUME IInv, NEW r \in Requests,
         SaveNewRole(r) \/ (EditUpdate(r) /\ Write(r)) \/ Remove(r) \/ SaveUserRoles(r)
  PROVE  IInv'
<1>1. Write(r) /\ TypesOf(req[r]) /\ roles \in Tables /\ of \in Owners(roles)
  BY DEF SaveNewRole, Remove, SaveUserRoles, IInv, Types
<1>2. CASE SaveNewRole(r)
  <2>1. req[r].form \in Role
    BY <1>1, <1>2, RoleConstants DEF SaveNewRole, At, TypesOf
  <2>2. roles' \in Tables /\ of' \in Owners(roles')
    BY <1>1, <1>2, <2>1, RoleConstants DEF SaveNewRole, Tables, Owners
  <2> QED
    BY <1>1, <2>2, WriteKeeps
<1>3. CASE EditUpdate(r)
  <2>1. req[r].form \in Role
    BY <1>1, <1>3, RoleConstants DEF EditUpdate, At, TypesOf
  <2>2. roles' \in Tables /\ of' \in Owners(roles')
    BY <1>1, <1>3, <2>1, RoleConstants DEF EditUpdate, Tables, Owners
  <2> QED
    BY <1>1, <2>2, WriteKeeps
<1>4. CASE Remove(r)
  <2>1. roles' \in Tables /\ of' \in Owners(roles')
    BY <1>1, <1>4 DEF Remove, Tables, Owners
  <2> QED
    BY <1>1, <2>1, WriteKeeps
<1>5. CASE SaveUserRoles(r)
  <2>1. req[r].assigned \in SUBSET {k \in RoleIds : roles[k] # Null} /\ req[r].target \in Users
    BY <1>1, <1>5 DEF SaveUserRoles, At, TypesOf, Request
  <2>2. roles' \in Tables /\ of' \in Owners(roles')
    BY <1>1, <1>5, <2>1 DEF SaveUserRoles, Tables, Owners
  <2> QED
    BY <1>1, <2>2, WriteKeeps
<1> QED
  BY <1>2, <1>3, <1>4, <1>5

LEMMA NextKeeps == IInv /\ [Next]_vars => IInv'
<1> SUFFICES ASSUME IInv, [Next]_vars PROVE IInv'
  OBVIOUS
<1>1. CASE UNCHANGED <<roles, of, req>>
  BY <1>1 DEF IInv, Types
<1>2. ASSUME NEW r \in Requests, Handle(r) PROVE IInv'
  <2>1. CASE EditUpdate(r)
    <3>1. CASE Write(r)
      BY <2>1, <3>1, WritesKeep
    <3>2. CASE ~Write(r)
      <4>1. Done(r) /\ UNCHANGED <<roles, of>> /\ req[r].pc # "idle"
        BY <2>1, <3>2 DEF EditUpdate, At
      <4> QED
        BY <4>1, GotoKeeps DEF Pcs
    <3> QED
      BY <3>1, <3>2
  <2>2. CASE Reject(r)
    <3>1. Done(r) /\ UNCHANGED <<roles, of>> /\ req[r].pc # "idle"
      BY <2>2 DEF Reject, At
    <3> QED
      BY <3>1, GotoKeeps DEF Pcs
  <2>3. CASE \E u \in Users, f \in Forms :
               CreateRole(r, u, f) \/ \E k \in RoleIds : EditRole(r, u, k, f)
    BY <2>3, CreateKeeps, EditKeeps
  <2>4. CASE \E u \in Users, k \in RoleIds : DeleteRole(r, u, k)
    BY <2>4, DeleteKeeps
  <2>5. CASE \E u, v \in Users, ks \in Assignments : UpdateUserRoles(r, u, v, ks)
    BY <2>5, AssignKeeps
  <2>6. CASE SaveNewRole(r) \/ Remove(r) \/ SaveUserRoles(r)
    BY <2>6, WritesKeep
  <2>7. CASE EditRank(r) \/ EditCheck(r) \/ DeleteRank(r)
    BY <2>7, EditRankKeeps, EditCheckKeeps, DeleteRankKeeps
  <2> QED
    BY <1>2, <2>1, <2>2, <2>3, <2>4, <2>5, <2>6, <2>7 DEF Handle
<1> QED
  BY <1>1, <1>2 DEF Next, vars, GetRolesAccessesForUser

LEMMA Invariant == Spec => []IInv
BY InitKeeps, NextKeeps, PTL DEF Spec

\* Another's write leaves a request in flight.
LEMMA WriteLeaves ==
  ASSUME IInv, IInv', NEW q \in Requests, Write(q), NEW r \in Requests, r # q,
         req[r].pc # "idle"
  PROVE  req'[r] # Idle
<1>1. req[r] \in Request /\ req[r].user \in Users /\ roles' \in Tables /\ of' \in Owners(roles')
  BY DEF IInv, Types, TypesOf
<1>2. req'[r] = Witness(req[r], roles', of', TRUE)
  BY DEF Write
<1>3. SameRequest(Witness(req[r], roles', of', TRUE), req[r])
  BY <1>1, WitnessKeeps
<1>4. req'[r].pc = req[r].pc
  BY <1>2, <1>3 DEF SameRequest
<1> QED
  BY <1>4 DEF Idle

\* A role changes in a step of the request that writes it.
LEMMA Writer ==
  ASSUME IInv, IInv', [Next]_vars, NEW r \in Requests, NEW k \in RoleIds, Writes(r, k)
  PROVE  SaveNewRole(r) \/ (EditUpdate(r) /\ Write(r)) \/ Remove(r)
<1>1. roles' # roles /\ req'[r] = Idle /\ req[r].pc # "idle"
  BY DEF Writes
<1>2. PICK q \in Requests : SaveNewRole(q) \/ (EditUpdate(q) /\ Write(q)) \/ Remove(q)
  BY <1>1 DEF Next, Handle, vars, GetRolesAccessesForUser, CreateRole, EditRole, DeleteRole,
     UpdateUserRoles, EditRank, EditCheck, EditUpdate, DeleteRank, SaveUserRoles, Reject
<1>3. Write(q)
  BY <1>2 DEF SaveNewRole, Remove
<1>4. q = r
  BY <1>1, <1>3, WriteLeaves
<1> QED
  BY <1>2, <1>4

\* Whatever is edited, deleted and assigned between the checks of a request and its
\* write, what the write leaves in a role was within its user's reach.
THEOREM WithinReach == Spec => LeavesWithinReach
<1>1. ASSUME IInv, IInv', [Next]_vars, NEW r \in Requests, NEW k \in RoleIds,
             Writes(r, k), roles'[k] # Null
      PROVE  /\ AllOwned(roles'[k].permissions, req[r].owned)
             /\ At(r, "edit") => roles'[k].priority \in req[r].outranked
  <2>1. SaveNewRole(r) \/ (EditUpdate(r) /\ Write(r)) \/ Remove(r)
    BY <1>1, Writer
  <2>2. TypesOf(req[r]) /\ Sound(req[r], roles, of) /\ roles \in Tables
    BY <1>1 DEF IInv, Types
  <2>3. roles'[k] # roles[k]
    BY <1>1 DEF Writes
  <2>4. CASE SaveNewRole(r)
    <3>1. req[r].pc = "create" /\ roles'[k] = req[r].form
      BY <2>2, <2>3, <2>4 DEF SaveNewRole, At, Tables
    <3> QED
      BY <2>2, <3>1 DEF Sound, Decided, At
  <2>5. CASE EditUpdate(r)
    <3>1. req[r].pc = "edit" /\ roles'[k] = req[r].form
      BY <2>2, <2>3, <2>5 DEF EditUpdate, At, Tables
    <3> QED
      BY <2>2, <3>1 DEF Sound, Decided, At
  <2>6. CASE Remove(r)
    BY <1>1, <2>2, <2>3, <2>6 DEF Remove, Tables
  <2> QED
    BY <2>1, <2>4, <2>5, <2>6
<1>2. IInv /\ IInv' /\ [Next]_vars =>
        [\A r \in Requests, k \in RoleIds :
           Writes(r, k) /\ roles'[k] # Null
             => /\ AllOwned(roles'[k].permissions, req[r].owned)
                /\ At(r, "edit") => roles'[k].priority \in req[r].outranked]_vars
  BY <1>1
<1> QED
  BY <1>2, Invariant, PTL DEF Spec, LeavesWithinReach

\* The checks of an edit or a deletion are as good as one that is atomic, unless somebody
\* wrote in its time.
THEOREM AsIfAtomic == Spec => AtomicUnlessRaced
<1>1. ASSUME IInv, IInv', [Next]_vars, NEW r \in Requests, NEW k \in RoleIds,
             Writes(r, k), ~req[r].raced, roles[k] # Null
      PROVE  /\ Outranks(req[r].user, roles[k].priority)
             /\ At(r, "edit") => CheckUserRoleManageAccess(roles[k].permissions, req[r].user)
  <2>1. SaveNewRole(r) \/ (EditUpdate(r) /\ Write(r)) \/ Remove(r)
    BY <1>1, Writer
  <2>2. TypesOf(req[r]) /\ Sound(req[r], roles, of) /\ roles \in Tables
    BY <1>1 DEF IInv, Types
  <2>3. roles'[k] # roles[k] /\ req[r].raced # TRUE
    BY <1>1 DEF Writes
  <2>4. CASE SaveNewRole(r)
    BY <1>1, <2>2, <2>3, <2>4 DEF SaveNewRole, Tables
  <2>5. CASE EditUpdate(r) \/ Remove(r)
    <3>1. req[r].pc \in {"edit", "delete"} /\ k = req[r].role
      BY <2>2, <2>3, <2>5 DEF EditUpdate, Remove, At, Tables
    <3>2. Fresh(req[r], roles, of)
      BY <2>2, <3>1 DEF Sound
    <3>3. roles[k] = req[r].read
      BY <2>3, <3>1, <3>2 DEF Fresh
    <3>4. \E j \in of[req[r].user] : roles[j].priority > roles[k].priority
      BY <2>3, <3>1, <3>2, <3>3 DEF Fresh
    <3>5. At(r, "edit") => AllOwned(roles[k].permissions,
                                    UNION {roles[j].permissions : j \in of[req[r].user]})
      BY <2>3, <3>1, <3>2, <3>3 DEF Fresh, At
    <3> QED
      BY <3>4, <3>5 DEF Outranks, CheckUserRoleManageAccess, PermissionsOf, RolesToAccess
  <2> QED
    BY <2>1, <2>4, <2>5
<1>2. IInv /\ IInv' /\ [Next]_vars =>
        [\A r \in Requests, k \in RoleIds :
           Writes(r, k) /\ ~req[r].raced /\ roles[k] # Null
             => /\ Outranks(req[r].user, roles[k].priority)
                /\ At(r, "edit")
                   => CheckUserRoleManageAccess(roles[k].permissions, req[r].user)]_vars
  BY <1>1
<1> QED
  BY <1>2, Invariant, PTL DEF Spec, AtomicUnlessRaced

-----------------------------------------------------------------------------
(* Guilds                                                                   *)

Stages == {"idle", "guilds", "keep", "row", "store", "listed"}
Held == Standings \cup {Unlinked}
Asked == Flags \cup {NoFlag}

Question == [pc : Stages, kind : Kinds, waited : Nat, standing : Held, answer : BOOLEAN]
Answer == [value : BOOLEAN, left : Nat]

AccessTypes ==
  /\ standing \in Held
  /\ managerPermission \in Asked
  /\ userGuilds \in [value : Standings \cup {Absent}, left : Nat]
  /\ answers \in [Kinds -> Answer]
  /\ question \in [Callers -> Question]
  /\ ago \in [standing : [Held -> Nat], permission : [Asked -> Nat]]

\* What is real now is so since no time at all.
Current == ago.standing[standing] = 0 /\ ago.permission[managerPermission] = 0

GuildsFresh ==
  Live(userGuilds) =>
    /\ userGuilds.value \in Standings
    /\ ago.standing[userGuilds.value] + userGuilds.left <= GuildsTTL + MaxLoad

\* The answer fits a standing and a permission of so long ago.
Fits(k, answer, old, older) ==
  \E s \in Standings, f \in Asked :
    /\ answer = May(k, s, f)
    /\ ago.permission[f] <= old
    /\ ago.standing[s] < older

\* What a question holds is older than the question by no more than the key with the
\* guilds may have been.
QuestionFresh(q) ==
  /\ q.pc # "idle" => q.waited <= MaxLoad
  /\ q.pc = "keep" => q.standing \in Standings /\ ago.standing[q.standing] <= q.waited
  /\ q.pc = "row" =>
       /\ q.standing \in Standings
       /\ ago.standing[q.standing] < GuildsTTL + MaxLoad + q.waited
       /\ q.kind = "list" \/ (q.kind = "user" /\ q.standing # Absent /\ ~IsGuildAdmin(q.standing))
  /\ q.pc = "store" => q.kind # "list"
  /\ q.pc = "listed" => q.kind = "list"
  /\ q.pc \in {"store", "listed"} =>
       Fits(q.kind, q.answer, q.waited, GuildsTTL + MaxLoad + q.waited)

AnswerFresh(k) ==
  Live(answers[k]) =>
    \E s \in Standings, f \in Asked :
      /\ answers[k].value = May(k, s, f)
      /\ ago.permission[f] + answers[k].left <= AccessTTL + MaxLoad
      /\ ago.standing[s] + answers[k].left < AccessTTL + GuildsTTL + 2 * MaxLoad

KeysFresh == GuildsFresh /\ \A k \in Kinds : AnswerFresh(k)

AccessInv ==
  /\ AccessTypes
  /\ Current
  /\ KeysFresh
  /\ \A c \in Callers : QuestionFresh(question[c])

-----------------------------------------------------------------------------
(* The decision                                                             *)

\* A standing is not listed, or is a record.
LEMMA StandingTypes ==
  ASSUME NEW s \in Standings, s # Absent
  PROVE  s \in [owner : BOOLEAN, permissions : SUBSET Flags]
  BY AccessConstants

\* Administrators may do everything, whatever the guild asks for.
LEMMA AdminsMay ==
  ASSUME NEW s \in Standings, s # Absent, NEW k \in Kinds, NEW f \in Asked,
         IsGuildAdmin(s) \/ k = "admin"
  PROVE  IsGuildAdmin(s) = May(k, s, f)
  <1>1. s.owner \in BOOLEAN
    BY StandingTypes
  <1> QED
    BY <1>1 DEF IsGuildAdmin, May, HasDiscordPermission

\* The others, what the guild's permission lets them.
LEMMA OthersMay ==
  ASSUME NEW s \in Standings, s # Absent, ~IsGuildAdmin(s), NEW f \in Asked
  PROVE  MeetsManagerPermission(s, f) = May("user", s, f)
  <1>1. s.permissions \subseteq Flags
    BY StandingTypes
  <1>2. NoFlag \notin s.permissions
    BY <1>1, AccessConstants
  <1> QED
    BY <1>2 DEF IsGuildAdmin, May, HasDiscordPermission, MeetsManagerPermission, Asked

LEMMA ListedMay ==
  ASSUME NEW s \in Standings, NEW f \in Asked
  PROVE  IsListed(s, f) = May("list", s, f)
  <1>1. CASE s = Absent
    BY <1>1 DEF IsListed, May
  <1>2. CASE s # Absent
    <2>1. s.permissions \subseteq Flags /\ s.owner \in BOOLEAN
      BY <1>2, StandingTypes
    <2>2. NoFlag \notin s.permissions
      BY <2>1, AccessConstants
    <2> QED
      BY <1>2, <2>1, <2>2
      DEF IsListed, IsGuildAdmin, May, HasDiscordPermission, MeetsManagerPermission, Asked
  <1> QED
    BY <1>1, <1>2

LEMMA MayTypes ==
  ASSUME NEW s \in Standings, NEW f \in Asked, NEW k \in Kinds
  PROVE  May(k, s, f) \in BOOLEAN /\ IsGuildAdmin(s) \in BOOLEAN
         /\ IsListed(s, f) \in BOOLEAN /\ MeetsManagerPermission(s, f) \in BOOLEAN
  BY DEF May, IsGuildAdmin, IsListed, MeetsManagerPermission, HasDiscordPermission

-----------------------------------------------------------------------------
(* Steps of a question                                                      *)

\* A question goes on, and the keys stay fresh.
LEMMA QuestionStep ==
  ASSUME AccessInv, NEW c \in Callers, NEW q \in Question, QuestionFresh(q), Proceed(c, q),
         UNCHANGED world,
         userGuilds' \in [value : Standings \cup {Absent}, left : Nat],
         answers' \in [Kinds -> Answer],
         KeysFresh'
  PROVE  AccessInv'
  <1>1. question' \in [Callers -> Question]
    BY DEF AccessInv, AccessTypes, Proceed
  <1>2. AccessTypes' /\ Current'
    BY <1>1 DEF AccessInv, AccessTypes, Current, world
  <1>3. ASSUME NEW d \in Callers
        PROVE  QuestionFresh(question[d])'
    <2>1. QuestionFresh(question'[d])
      BY DEF AccessInv, AccessTypes, Proceed
    <2> QED
      BY <2>1 DEF QuestionFresh, Fits, world
  <1> QED
    BY <1>2, <1>3 DEF AccessInv

\* Or they are not touched.
LEMMA QuestionAlone ==
  ASSUME AccessInv, NEW c \in Callers, NEW q \in Question, QuestionFresh(q), Proceed(c, q),
         UNCHANGED <<world, keys>>
  PROVE  AccessInv'
  <1>1. KeysFresh'
    BY DEF AccessInv, KeysFresh, GuildsFresh, AnswerFresh, Live, keys, world
  <1> QED
    BY <1>1, QuestionStep DEF AccessInv, AccessTypes, keys, world

\* Nobody asks.
LEMMA QuietFresh == Quiet \in Question /\ QuestionFresh(Quiet)
  BY DEF Quiet, Question, QuestionFresh, Stages, Kinds, Held

\* The guilds in hand are Discord's of a while ago, and so is what follows from them.
LEMMA ResolvedFresh ==
  ASSUME AccessInv, NEW c \in Callers, question[c].pc \in {"guilds", "keep"},
         NEW s \in Standings,
         ago.standing[s] < GuildsTTL + MaxLoad + question[c].waited
  PROVE  Resolved(c, s) \in Question /\ QuestionFresh(Resolved(c, s))
  <1> DEFINE q == [question[c] EXCEPT !.standing = s]
  <1>1. /\ question[c] \in Question /\ QuestionFresh(question[c])
        /\ ago \in [standing : [Held -> Nat], permission : [Asked -> Nat]]
        /\ managerPermission \in Asked /\ ago.permission[managerPermission] = 0
    BY DEF AccessInv, AccessTypes, Current
  <1>2. question[c].waited \in Nat /\ question[c].waited <= MaxLoad
    BY <1>1 DEF Question, QuestionFresh
  <1>3. CASE question[c].kind = "list"
    <2>1. Resolved(c, s) = [q EXCEPT !.pc = "row"]
      BY <1>1, <1>3 DEF Resolved, Question
    <2>2. [q EXCEPT !.pc = "row"] \in Question
      BY <1>1 DEF Question, Stages, Held
    <2> QED
      BY <1>1, <1>2, <1>3, <2>1, <2>2 DEF Question, QuestionFresh
  <1>4. CASE question[c].kind # "list" /\ s = Absent
    <2>1. Resolved(c, s) = Quiet
      BY <1>1, <1>4 DEF Resolved, Question
    <2> QED
      BY <2>1, QuietFresh
  <1>5. CASE question[c].kind # "list" /\ s # Absent /\ (IsGuildAdmin(s) \/ question[c].kind = "admin")
    <2> DEFINE r == [q EXCEPT !.pc = "store", !.standing = Unlinked, !.answer = IsGuildAdmin(s)]
    <2>1. Resolved(c, s) = r
      BY <1>1, <1>5 DEF Resolved, Question
    <2>2. IsGuildAdmin(s) \in BOOLEAN
      BY DEF IsGuildAdmin, HasDiscordPermission
    <2>3. r \in Question
      BY <1>1, <2>2 DEF Question, Stages, Held
    <2>4. question[c].kind \in Kinds /\ IsGuildAdmin(s) = May(question[c].kind, s, managerPermission)
      BY <1>1, <1>5, AdminsMay DEF Question
    <2>5. Fits(question[c].kind, IsGuildAdmin(s), question[c].waited,
               GuildsTTL + MaxLoad + question[c].waited)
      BY <1>1, <1>2, <2>4 DEF Fits
    <2>6. /\ r.pc = "store" /\ r.kind = question[c].kind /\ r.answer = IsGuildAdmin(s)
          /\ r.waited = question[c].waited
      BY <1>1 DEF Question
    <2>7. QuestionFresh(r)
      BY <1>2, <1>5, <2>5, <2>6 DEF QuestionFresh
    <2> QED
      BY <2>1, <2>3, <2>7
  <1>6. CASE question[c].kind # "list" /\ s # Absent /\ ~IsGuildAdmin(s) /\ question[c].kind # "admin"
    <2>1. Resolved(c, s) = [q EXCEPT !.pc = "row"]
      BY <1>1, <1>6 DEF Resolved, Question
    <2>2. [q EXCEPT !.pc = "row"] \in Question
      BY <1>1 DEF Question, Stages, Held
    <2>3. question[c].kind = "user"
      BY <1>1, <1>6 DEF Question, Kinds
    <2> QED
      BY <1>1, <1>2, <1>6, <2>1, <2>2, <2>3 DEF Question, QuestionFresh
  <1> QED
    BY <1>3, <1>4, <1>5, <1>6

\* A question that begins holds nothing yet.
LEMMA AskedFresh ==
  ASSUME NEW k \in Kinds
  PROVE  [Quiet EXCEPT !.pc = "guilds", !.kind = k] \in Question
         /\ QuestionFresh([Quiet EXCEPT !.pc = "guilds", !.kind = k])
  <1> DEFINE q == [Quiet EXCEPT !.pc = "guilds", !.kind = k]
  <1>1. Quiet \in Question /\ Quiet.waited = 0
    BY QuietFresh DEF Quiet
  <1>2. q \in Question /\ q.pc = "guilds" /\ q.waited = 0
    BY <1>1 DEF Question, Stages
  <1>3. QuestionFresh(q)
    BY <1>2, AccessConstants DEF QuestionFresh
  <1> QED
    BY <1>2, <1>3

LEMMA GetAccessFresh ==
  ASSUME AccessInv, NEW c \in Callers, NEW k \in Kinds, GetAccess(c, k)
  PROVE  AccessInv'
  BY AskedFresh, QuestionAlone DEF GetAccess

LEMMA GetUserGuildsFresh ==
  ASSUME AccessInv, NEW c \in Callers, GetUserGuilds(c)
  PROVE  AccessInv'
  <1>1. "list" \in Kinds
    BY DEF Kinds
  <1> QED
    BY <1>1, AskedFresh, QuestionAlone DEF GetUserGuilds

LEMMA CachedGuildsFresh ==
  ASSUME AccessInv, NEW c \in Callers, CachedGuilds(c)
  PROVE  AccessInv'
  <1>1. /\ question[c].waited \in Nat /\ question[c].pc = "guilds"
        /\ userGuilds.value \in Standings /\ userGuilds.left \in Nat /\ userGuilds.left > 0
        /\ ago.standing[userGuilds.value] + userGuilds.left <= GuildsTTL + MaxLoad
        /\ ago.standing[userGuilds.value] \in Nat
    BY DEF CachedGuilds, AccessInv, AccessTypes, KeysFresh, GuildsFresh, Live, Question, Stands,
           Held
  <1>2. ago.standing[userGuilds.value] < GuildsTTL + MaxLoad + question[c].waited
    BY <1>1, AccessConstants
  <1> QED
    BY <1>1, <1>2, ResolvedFresh, QuestionAlone DEF CachedGuilds

LEMMA FetchUserGuildsFresh ==
  ASSUME AccessInv, NEW c \in Callers, FetchUserGuilds(c)
  PROVE  AccessInv'
  <1> DEFINE q == [question[c] EXCEPT !.pc = "keep", !.standing = standing]
  <1>1. /\ question[c] \in Question /\ QuestionFresh(question[c]) /\ question[c].pc = "guilds"
        /\ standing \in Standings /\ ago.standing[standing] = 0
    BY DEF FetchUserGuilds, AccessInv, AccessTypes, Current, Stands, Held
  <1>2. q \in Question
    BY <1>1 DEF Question, Stages, Held
  <1>3. QuestionFresh(q)
    BY <1>1 DEF QuestionFresh, Question
  <1> QED
    BY <1>2, <1>3, QuestionAlone DEF FetchUserGuilds

LEMMA KeepGuildsFresh ==
  ASSUME AccessInv, NEW c \in Callers, KeepGuilds(c)
  PROVE  AccessInv'
  <1> DEFINE s == question[c].standing
  <1>1. /\ question[c].waited \in Nat /\ question[c].pc = "keep" /\ question[c].waited <= MaxLoad
        /\ s \in Standings /\ ago.standing[s] \in Nat /\ ago.standing[s] <= question[c].waited
    BY DEF KeepGuilds, AccessInv, AccessTypes, QuestionFresh, Question, Stands, Held
  <1>2. ago.standing[s] < GuildsTTL + MaxLoad + question[c].waited
    BY <1>1, AccessConstants
  <1>3. userGuilds' = [value |-> s, left |-> GuildsTTL] /\ UNCHANGED <<world, answers>>
    BY DEF KeepGuilds
  <1>4. GuildsFresh'
    BY <1>1, <1>3, AccessConstants DEF GuildsFresh, world
  <1>5. KeysFresh'
    BY <1>3, <1>4 DEF AccessInv, KeysFresh, AnswerFresh, Live, world
  <1>6. userGuilds' \in [value : Standings \cup {Absent}, left : Nat]
    BY <1>1, <1>3, AccessConstants
  <1> QED
    BY <1>1, <1>2, <1>3, <1>5, <1>6, ResolvedFresh, QuestionStep
    DEF KeepGuilds, AccessInv, AccessTypes

LEMMA FindGuildFresh ==
  ASSUME AccessInv, NEW c \in Callers, FindGuild(c)
  PROVE  AccessInv'
  <1> DEFINE s == question[c].standing
             w == question[c].waited
             p == managerPermission
  <1>1. /\ question[c] \in Question /\ QuestionFresh(question[c]) /\ question[c].pc = "row"
        /\ s \in Standings /\ ago.standing[s] < GuildsTTL + MaxLoad + w
        /\ w \in Nat /\ w <= MaxLoad
        /\ p \in Asked /\ ago.permission[p] = 0
    BY DEF FindGuild, AccessInv, AccessTypes, Current, QuestionFresh, Question, Stands
  <1>2. CASE question[c].kind = "list"
    <2> DEFINE q == [question[c] EXCEPT !.pc = "listed", !.standing = Unlinked,
                                        !.answer = IsListed(s, p)]
    <2>1. IsListed(s, p) \in BOOLEAN /\ IsListed(s, p) = May("list", s, p)
      BY <1>1, ListedMay, MayTypes DEF Kinds
    <2>2. q \in Question
      BY <1>1, <2>1 DEF Question, Stages, Held
    <2>3. Fits("list", IsListed(s, p), w, GuildsTTL + MaxLoad + w)
      BY <1>1, <2>1 DEF Fits
    <2>4. q.pc = "listed" /\ q.kind = "list" /\ q.answer = IsListed(s, p) /\ q.waited = w
      BY <1>1, <1>2 DEF Question
    <2>5. QuestionFresh(q)
      BY <1>1, <2>3, <2>4 DEF QuestionFresh
    <2>6. Proceed(c, q) /\ UNCHANGED <<world, keys>>
      BY <1>2 DEF FindGuild
    <2> QED
      BY <2>2, <2>5, <2>6, QuestionAlone
  <1>3. CASE question[c].kind # "list"
    <2> DEFINE q == [question[c] EXCEPT !.pc = "store", !.standing = Unlinked,
                                        !.answer = MeetsManagerPermission(s, p)]
    <2>1. question[c].kind = "user" /\ s # Absent /\ ~IsGuildAdmin(s)
      BY <1>1, <1>3 DEF QuestionFresh
    <2>2. /\ MeetsManagerPermission(s, p) \in BOOLEAN
          /\ MeetsManagerPermission(s, p) = May("user", s, p)
      BY <1>1, <2>1, OthersMay, MayTypes DEF Kinds
    <2>3. q \in Question
      BY <1>1, <2>2 DEF Question, Stages, Held
    <2>4. Fits("user", MeetsManagerPermission(s, p), w, GuildsTTL + MaxLoad + w)
      BY <1>1, <2>2 DEF Fits
    <2>5. /\ q.pc = "store" /\ q.kind = "user" /\ q.waited = w
          /\ q.answer = MeetsManagerPermission(s, p)
      BY <1>1, <2>1 DEF Question
    <2>6. QuestionFresh(q)
      BY <1>1, <2>4, <2>5 DEF QuestionFresh
    <2>7. Proceed(c, q) /\ UNCHANGED <<world, keys>>
      BY <1>3 DEF FindGuild
    <2> QED
      BY <2>3, <2>6, <2>7, QuestionAlone
  <1> QED
    BY <1>2, <1>3

LEMMA LeaveFresh ==
  ASSUME AccessInv, NEW c \in Callers, Leave(c)
  PROVE  AccessInv'
  BY QuietFresh, QuestionAlone DEF Leave, Quit

\* What is stored is as old as its question and what that held, and the limit begins now.
LEMMA StoreAnswerFresh ==
  ASSUME AccessInv, NEW c \in Callers, StoreAnswer(c)
  PROVE  AccessInv'
  <1> DEFINE q == question[c]
             key == [value |-> q.answer, left |-> AccessTTL]
  <1>1. q \in Question /\ QuestionFresh(q) /\ q.pc = "store"
    BY DEF StoreAnswer, AccessInv, AccessTypes, Stands
  <1>2. q.kind \in Kinds /\ q.waited \in Nat /\ q.waited <= MaxLoad /\ key \in Answer
    BY <1>1, AccessConstants DEF Question, QuestionFresh, Answer
  <1>3. answers' = [answers EXCEPT ![q.kind] = key] /\ UNCHANGED <<world, userGuilds>>
    BY DEF StoreAnswer
  <1>4. answers \in [Kinds -> Answer] /\ answers' \in [Kinds -> Answer]
    BY <1>2, <1>3 DEF AccessInv, AccessTypes
  <1>5. PICK s \in Standings, f \in Asked :
          /\ q.answer = May(q.kind, s, f)
          /\ ago.permission[f] <= q.waited
          /\ ago.standing[s] < GuildsTTL + MaxLoad + q.waited
    BY <1>1 DEF QuestionFresh, Fits
  <1>6. ago.permission[f] \in Nat /\ ago.standing[s] \in Nat
    BY DEF AccessInv, AccessTypes, Held
  <1>7. /\ ago.permission[f] + AccessTTL <= AccessTTL + MaxLoad
        /\ ago.standing[s] + AccessTTL < AccessTTL + GuildsTTL + 2 * MaxLoad
    BY <1>2, <1>5, <1>6, AccessConstants
  <1>8. ASSUME NEW k \in Kinds
        PROVE  AnswerFresh(k)'
    <2>1. CASE k = q.kind
      <3>1. answers'[k] = key
        BY <1>3, <1>4, <2>1
      <3>2. answers'[k].value = May(k, s, f) /\ answers'[k].left = AccessTTL
        BY <1>5, <2>1, <3>1
      <3>3. ago' = ago
        BY <1>3 DEF world
      <3> QED
        BY <1>7, <3>2, <3>3 DEF AnswerFresh
    <2>2. CASE k # q.kind
      <3>1. answers'[k] = answers[k] /\ ago' = ago
        BY <1>3, <1>4, <2>2 DEF world
      <3>2. AnswerFresh(k)
        BY DEF AccessInv, KeysFresh
      <3> QED
        BY <3>1, <3>2 DEF AnswerFresh, Live
    <2> QED
      BY <2>1, <2>2
  <1>9. KeysFresh'
    BY <1>3, <1>8 DEF AccessInv, KeysFresh, GuildsFresh, world
  <1>10. userGuilds' \in [value : Standings \cup {Absent}, left : Nat]
    BY <1>3 DEF AccessInv, AccessTypes
  <1>11. Proceed(c, Quiet)
    BY DEF StoreAnswer, Quit
  <1> QED
    BY <1>3, <1>4, <1>9, <1>10, <1>11, QuietFresh, QuestionStep

-----------------------------------------------------------------------------
(* Changes and time                                                         *)

\* What becomes real was real less long ago than before.
LEMMA YoungerStep ==
  ASSUME AccessInv, UNCHANGED <<keys, question>>,
         standing' \in Held, managerPermission' \in Asked,
         ago' \in [standing : [Held -> Nat], permission : [Asked -> Nat]],
         Current',
         \A s \in Held : ago'.standing[s] <= ago.standing[s],
         \A f \in Asked : ago'.permission[f] <= ago.permission[f]
  PROVE  AccessInv'
  <1>1. AccessTypes'
    BY DEF AccessInv, AccessTypes, keys
  <1>2. /\ userGuilds' = userGuilds /\ answers' = answers /\ question' = question
        /\ userGuilds.left \in Nat /\ \A k \in Kinds : answers[k].left \in Nat
        /\ question \in [Callers -> Question]
        /\ ago \in [standing : [Held -> Nat], permission : [Asked -> Nat]]
        /\ \A s \in Standings : s \in Held
    BY DEF AccessInv, AccessTypes, keys, Answer, Held
  <1>3. /\ \A s \in Standings : ago.standing[s] \in Nat /\ ago'.standing[s] \in Nat
        /\ \A f \in Asked : ago.permission[f] \in Nat /\ ago'.permission[f] \in Nat
    BY <1>2
  <1>4. GuildsFresh'
    BY <1>2, <1>3, AccessConstants DEF AccessInv, KeysFresh, GuildsFresh, Live
  <1>5. ASSUME NEW k \in Kinds
        PROVE  AnswerFresh(k)'
    <2>1. CASE Live(answers[k])
      <3>1. PICK s \in Standings, f \in Asked :
              /\ answers[k].value = May(k, s, f)
              /\ ago.permission[f] + answers[k].left <= AccessTTL + MaxLoad
              /\ ago.standing[s] + answers[k].left < AccessTTL + GuildsTTL + 2 * MaxLoad
        BY <2>1 DEF AccessInv, KeysFresh, AnswerFresh
      <3>2. /\ ago'.permission[f] + answers[k].left <= AccessTTL + MaxLoad
            /\ ago'.standing[s] + answers[k].left < AccessTTL + GuildsTTL + 2 * MaxLoad
        BY <1>2, <1>3, <3>1, AccessConstants
      <3> QED
        BY <1>2, <3>1, <3>2 DEF AnswerFresh
    <2>2. CASE ~Live(answers[k])
      BY <1>2, <2>2 DEF AnswerFresh, Live
    <2> QED
      BY <2>1, <2>2
  <1>6. ASSUME NEW c \in Callers
        PROVE  QuestionFresh(question[c])'
    <2> DEFINE q == question[c]
    <2>1. q \in Question /\ QuestionFresh(q) /\ question'[c] = q /\ q.waited \in Nat
      BY <1>2 DEF AccessInv, Question
    <2>2. ASSUME Fits(q.kind, q.answer, q.waited, GuildsTTL + MaxLoad + q.waited)
          PROVE  Fits(q.kind, q.answer, q.waited, GuildsTTL + MaxLoad + q.waited)'
      <3>1. PICK s \in Standings, f \in Asked :
              /\ q.answer = May(q.kind, s, f)
              /\ ago.permission[f] <= q.waited
              /\ ago.standing[s] < GuildsTTL + MaxLoad + q.waited
        BY <2>2 DEF Fits
      <3>2. ago'.permission[f] <= q.waited /\ ago'.standing[s] < GuildsTTL + MaxLoad + q.waited
        BY <1>2, <1>3, <2>1, <3>1, AccessConstants
      <3> QED
        BY <1>2, <3>1, <3>2 DEF Fits
    <2>3. q.pc = "keep" => q.standing \in Standings /\ ago'.standing[q.standing] <= q.waited
      BY <1>2, <1>3, <2>1 DEF QuestionFresh
    <2>4. q.pc = "row" => ago'.standing[q.standing] < GuildsTTL + MaxLoad + q.waited
      BY <1>2, <1>3, <2>1, AccessConstants DEF QuestionFresh
    <2> QED
      BY <2>1, <2>2, <2>3, <2>4 DEF QuestionFresh
  <1> QED
    BY <1>1, <1>4, <1>5, <1>6 DEF AccessInv, KeysFresh

LEMMA BecomesFresh ==
  ASSUME AccessInv, NEW s \in Held, Becomes(s)
  PROVE  AccessInv'
  <1>1. /\ ago \in [standing : [Held -> Nat], permission : [Asked -> Nat]]
        /\ managerPermission \in Asked /\ ago.permission[managerPermission] = 0
        /\ ago' = [ago EXCEPT !.standing[s] = 0] /\ standing' = s
        /\ managerPermission' = managerPermission /\ UNCHANGED <<keys, question>>
    BY DEF AccessInv, AccessTypes, Current, Becomes
  <1>2. /\ ago'.standing = [ago.standing EXCEPT ![s] = 0] /\ ago'.permission = ago.permission
        /\ ago' \in [standing : [Held -> Nat], permission : [Asked -> Nat]]
    BY <1>1
  <1>3. /\ Current'
        /\ \A t \in Held : ago'.standing[t] <= ago.standing[t]
        /\ \A f \in Asked : ago'.permission[f] <= ago.permission[f]
    BY <1>1, <1>2 DEF Current
  <1> QED
    BY <1>1, <1>2, <1>3, YoungerStep

LEMMA UpdatePermissionFresh ==
  ASSUME AccessInv, NEW f \in Asked, UpdatePermission(f)
  PROVE  AccessInv'
  <1>1. /\ ago \in [standing : [Held -> Nat], permission : [Asked -> Nat]]
        /\ standing \in Held /\ ago.standing[standing] = 0
        /\ ago' = [ago EXCEPT !.permission[f] = 0] /\ managerPermission' = f
        /\ standing' = standing /\ UNCHANGED <<keys, question>>
    BY DEF AccessInv, AccessTypes, Current, UpdatePermission
  <1>2. /\ ago'.permission = [ago.permission EXCEPT ![f] = 0] /\ ago'.standing = ago.standing
        /\ ago' \in [standing : [Held -> Nat], permission : [Asked -> Nat]]
    BY <1>1
  <1>3. /\ Current'
        /\ \A s \in Held : ago'.standing[s] <= ago.standing[s]
        /\ \A g \in Asked : ago'.permission[g] <= ago.permission[g]
    BY <1>1, <1>2 DEF Current
  <1> QED
    BY <1>1, <1>2, <1>3, YoungerStep

LEMMA InvalidateFresh ==
  ASSUME AccessInv, InvalidateGuildCache
  PROVE  AccessInv'
  <1>1. answers' \in [Kinds -> Answer]
    <2>1. NoAnswer \in Answer
      BY DEF NoAnswer, Answer
    <2> QED
      BY <2>1 DEF AccessInv, AccessTypes, InvalidateGuildCache
  <1>2. \A k \in Kinds : answers'[k] = NoAnswer \/ answers'[k] = answers[k]
    BY DEF InvalidateGuildCache
  <1>3. /\ UNCHANGED <<standing, managerPermission, userGuilds, question, ago>>
    BY DEF InvalidateGuildCache
  <1>4. ASSUME NEW k \in Kinds
        PROVE  AnswerFresh(k)'
    BY <1>2, <1>3 DEF AccessInv, KeysFresh, AnswerFresh, Live, NoAnswer
  <1>5. AccessTypes' /\ Current' /\ GuildsFresh'
    BY <1>1, <1>3 DEF AccessInv, AccessTypes, Current, KeysFresh, GuildsFresh
  <1>6. \A c \in Callers : QuestionFresh(question[c])'
    BY <1>3 DEF AccessInv, QuestionFresh, Fits
  <1> QED
    BY <1>4, <1>5, <1>6 DEF AccessInv, KeysFresh

\* What has no time left is gone, and the rest is one older.
LEMMA TickAges ==
  ASSUME AccessInv, Tick
  PROVE  /\ ago' \in [standing : [Held -> Nat], permission : [Asked -> Nat]]
         /\ Current'
         /\ \A s \in Held : ago'.standing[s] <= ago.standing[s] + 1
         /\ \A f \in Asked : ago'.permission[f] <= ago.permission[f] + 1
  <1> DEFINE S == [s \in DOMAIN ago.standing |->
                     IF s = standing THEN 0 ELSE Aged(ago.standing[s])]
             P == [f \in DOMAIN ago.permission |->
                     IF f = managerPermission THEN 0 ELSE Aged(ago.permission[f])]
  <1>1. /\ ago \in [standing : [Held -> Nat], permission : [Asked -> Nat]]
        /\ standing \in Held /\ managerPermission \in Asked
        /\ ago' = [standing |-> S, permission |-> P]
        /\ UNCHANGED <<standing, managerPermission>>
    BY DEF AccessInv, AccessTypes, Tick
  <1>2. ASSUME NEW n \in Nat
        PROVE  Aged(n) \in Nat /\ Aged(n) <= n + 1
    BY DEF Aged
  <1>3. DOMAIN ago.standing = Held /\ DOMAIN ago.permission = Asked
    BY <1>1
  <1>4. S \in [Held -> Nat] /\ \A s \in Held : S[s] <= ago.standing[s] + 1
    BY <1>1, <1>2, <1>3
  <1>5. P \in [Asked -> Nat] /\ \A f \in Asked : P[f] <= ago.permission[f] + 1
    BY <1>1, <1>2, <1>3
  <1>6. S[standing] = 0 /\ P[managerPermission] = 0
    BY <1>1, <1>3
  <1>7. ago'.standing = S /\ ago'.permission = P
    BY <1>1
  <1>8. ago' \in [standing : [Held -> Nat], permission : [Asked -> Nat]]
    BY <1>1, <1>4, <1>5
  <1> QED
    BY <1>1, <1>4, <1>5, <1>6, <1>7, <1>8 DEF Current

\* A question is one older too.
LEMMA TickQuestion ==
  ASSUME AccessInv, Tick, NEW c \in Callers
  PROVE  QuestionFresh(question[c])' /\ question'[c] \in Question
  <1> DEFINE q == question[c]
  <1>1. /\ q \in Question /\ QuestionFresh(q) /\ q.waited \in Nat
        /\ ago \in [standing : [Held -> Nat], permission : [Asked -> Nat]]
    BY DEF AccessInv, AccessTypes, Question
  <1>2. /\ question'[c] = IF q.pc = "idle" THEN Quiet ELSE [q EXCEPT !.waited = @ + 1]
        /\ q.pc = "idle" \/ q.waited < MaxLoad
    BY DEF Tick, Stands
  <1>3. CASE q.pc = "idle"
    <2>1. question'[c] = Quiet
      BY <1>2, <1>3
    <2> QED
      BY <2>1, QuietFresh DEF QuestionFresh, Quiet
  <1>4. CASE q.pc # "idle"
    <2> DEFINE r == question'[c]
    <2>1. r = [q EXCEPT !.waited = @ + 1]
      BY <1>2, <1>4
    <2>2. /\ r \in Question /\ r.pc = q.pc /\ r.kind = q.kind /\ r.standing = q.standing
          /\ r.answer = q.answer /\ r.waited = q.waited + 1
      BY <1>1, <2>1 DEF Question
    <2>3. /\ \A s \in Standings : /\ ago.standing[s] \in Nat /\ ago'.standing[s] \in Nat
                                  /\ ago'.standing[s] <= ago.standing[s] + 1
          /\ \A f \in Asked : /\ ago.permission[f] \in Nat /\ ago'.permission[f] \in Nat
                              /\ ago'.permission[f] <= ago.permission[f] + 1
      BY <1>1, TickAges DEF Held
    <2>4. r.waited <= MaxLoad
      BY <1>1, <1>2, <1>4, <2>2, AccessConstants
    <2>5. r.pc = "keep" => r.standing \in Standings /\ ago'.standing[r.standing] <= r.waited
      BY <1>1, <2>2, <2>3 DEF QuestionFresh
    <2>6. r.pc = "row" => /\ r.standing \in Standings
                          /\ ago'.standing[r.standing] < GuildsTTL + MaxLoad + r.waited
      BY <1>1, <2>2, <2>3, AccessConstants DEF QuestionFresh
    <2>7. ASSUME r.pc \in {"store", "listed"}
          PROVE  \E s \in Standings, f \in Asked :
                   /\ r.answer = May(r.kind, s, f)
                   /\ ago'.permission[f] <= r.waited
                   /\ ago'.standing[s] < GuildsTTL + MaxLoad + r.waited
      <3>1. PICK s \in Standings, f \in Asked :
              /\ q.answer = May(q.kind, s, f)
              /\ ago.permission[f] <= q.waited
              /\ ago.standing[s] < GuildsTTL + MaxLoad + q.waited
        BY <1>1, <2>2, <2>7 DEF QuestionFresh, Fits
      <3>2. ago'.permission[f] <= r.waited /\ ago'.standing[s] < GuildsTTL + MaxLoad + r.waited
        BY <1>1, <2>2, <2>3, <3>1, AccessConstants
      <3> QED
        BY <2>2, <3>1, <3>2
    <2>8. /\ r.pc = "row" => r.kind = "list" \/ (r.kind = "user" /\ r.standing # Absent
                                                  /\ ~IsGuildAdmin(r.standing))
          /\ r.pc = "store" => r.kind # "list"
          /\ r.pc = "listed" => r.kind = "list"
      BY <1>1, <2>2 DEF QuestionFresh
    <2> QED
      BY <2>2, <2>4, <2>5, <2>6, <2>7, <2>8 DEF QuestionFresh, Fits
  <1> QED
    BY <1>3, <1>4

LEMMA TickFresh ==
  ASSUME AccessInv, Tick
  PROVE  AccessInv'
  <1>1. /\ standing \in Held /\ managerPermission \in Asked
        /\ userGuilds \in [value : Standings \cup {Absent}, left : Nat]
        /\ answers \in [Kinds -> Answer]
        /\ UNCHANGED <<standing, managerPermission>>
    BY DEF AccessInv, AccessTypes, Tick
  <1>2. /\ \A s \in Standings : /\ ago.standing[s] \in Nat /\ ago'.standing[s] \in Nat
                                /\ ago'.standing[s] <= ago.standing[s] + 1
        /\ \A f \in Asked : /\ ago.permission[f] \in Nat /\ ago'.permission[f] \in Nat
                            /\ ago'.permission[f] <= ago.permission[f] + 1
    BY TickAges DEF AccessInv, AccessTypes, Held
  <1>3. question' \in [Callers -> Question]
    <2>1. \A c \in Callers : question'[c] \in Question
      BY TickQuestion
    <2>2. question' = [c \in Callers |-> question'[c]]
      BY DEF Tick
    <2> QED
      BY <2>1, <2>2
  <1>4. userGuilds' \in [value : Standings \cup {Absent}, left : Nat] /\ GuildsFresh'
    <2>1. CASE userGuilds.left > 1
      <3>1. userGuilds' = [userGuilds EXCEPT !.left = @ - 1]
        BY <2>1 DEF Tick
      <3>2. /\ userGuilds' \in [value : Standings \cup {Absent}, left : Nat]
            /\ userGuilds'.left = userGuilds.left - 1 /\ userGuilds'.value = userGuilds.value
        BY <1>1, <2>1, <3>1
      <3>3. /\ userGuilds.value \in Standings
            /\ ago.standing[userGuilds.value] + userGuilds.left <= GuildsTTL + MaxLoad
        BY <1>1, <2>1 DEF AccessInv, KeysFresh, GuildsFresh, Live
      <3>4. ago'.standing[userGuilds.value] + userGuilds'.left <= GuildsTTL + MaxLoad
        BY <1>1, <1>2, <3>2, <3>3, AccessConstants
      <3> QED
        BY <3>2, <3>3, <3>4 DEF GuildsFresh
    <2>2. CASE ~(userGuilds.left > 1)
      BY <2>2 DEF Tick, NoGuilds, GuildsFresh, Live
    <2> QED
      BY <2>1, <2>2
  <1>5. ASSUME NEW k \in Kinds
        PROVE  answers'[k] \in Answer /\ AnswerFresh(k)'
    <2>1. answers[k] \in Answer /\ answers[k].left \in Nat
      BY <1>1 DEF Answer
    <2>2. CASE answers[k].left > 1
      <3>1. answers'[k] = [answers[k] EXCEPT !.left = @ - 1]
        BY <2>2 DEF Tick
      <3>2. /\ answers'[k] \in Answer /\ answers'[k].left = answers[k].left - 1
            /\ answers'[k].value = answers[k].value
        BY <2>1, <2>2, <3>1 DEF Answer
      <3>3. PICK s \in Standings, f \in Asked :
              /\ answers[k].value = May(k, s, f)
              /\ ago.permission[f] + answers[k].left <= AccessTTL + MaxLoad
              /\ ago.standing[s] + answers[k].left < AccessTTL + GuildsTTL + 2 * MaxLoad
        BY <2>1, <2>2 DEF AccessInv, KeysFresh, AnswerFresh, Live
      <3>4. /\ ago'.permission[f] + answers'[k].left <= AccessTTL + MaxLoad
            /\ ago'.standing[s] + answers'[k].left < AccessTTL + GuildsTTL + 2 * MaxLoad
        BY <1>2, <2>1, <3>2, <3>3, AccessConstants
      <3> QED
        BY <3>2, <3>3, <3>4 DEF AnswerFresh
    <2>3. CASE ~(answers[k].left > 1)
      <3>1. answers'[k] = NoAnswer
        BY <2>3 DEF Tick
      <3>2. NoAnswer \in Answer /\ NoAnswer.left = 0
        BY DEF NoAnswer, Answer
      <3> QED
        BY <3>1, <3>2 DEF AnswerFresh, Live
    <2> QED
      BY <2>2, <2>3
  <1>6. answers' \in [Kinds -> Answer]
    <2>1. answers' = [k \in Kinds |-> answers'[k]]
      BY DEF Tick
    <2> QED
      BY <1>5, <2>1
  <1>7. AccessTypes'
    BY <1>1, <1>3, <1>4, <1>6, TickAges DEF AccessTypes
  <1> QED
    BY <1>4, <1>5, <1>7, TickAges, TickQuestion DEF AccessInv, KeysFresh

-----------------------------------------------------------------------------
(* The invariant                                                            *)

LEMMA AccessInit == InitAccess => AccessInv
  <1> SUFFICES ASSUME InitAccess PROVE AccessInv
    OBVIOUS
  <1> DEFINE S == [s \in Standings \cup {Unlinked} |-> IF s = standing THEN 0 ELSE Long]
             P == [f \in Flags \cup {NoFlag} |-> IF f = managerPermission THEN 0 ELSE Long]
  <1>1. Long \in Nat
    BY AccessConstants DEF Long
  <1>2. /\ standing \in Held /\ managerPermission \in Asked
        /\ S \in [Held -> Nat] /\ P \in [Asked -> Nat]
        /\ S[standing] = 0 /\ P[managerPermission] = 0
        /\ ago = [standing |-> S, permission |-> P]
    BY <1>1 DEF InitAccess, Held, Asked
  <1>3. ago \in [standing : [Held -> Nat], permission : [Asked -> Nat]] /\ Current
    BY <1>2 DEF Current
  <1>4. userGuilds \in [value : Standings \cup {Absent}, left : Nat] /\ GuildsFresh
    BY DEF InitAccess, NoGuilds, GuildsFresh, Live
  <1>5. answers \in [Kinds -> Answer] /\ \A k \in Kinds : AnswerFresh(k)
    <2>1. NoAnswer \in Answer /\ NoAnswer.left = 0
      BY DEF NoAnswer, Answer
    <2>2. answers = [k \in Kinds |-> NoAnswer]
      BY DEF InitAccess
    <2> QED
      BY <2>1, <2>2 DEF AnswerFresh, Live
  <1>6. question \in [Callers -> Question] /\ \A c \in Callers : QuestionFresh(question[c])
    <2>1. question = [c \in Callers |-> Quiet]
      BY DEF InitAccess
    <2> QED
      BY <2>1, QuietFresh
  <1> QED
    BY <1>2, <1>3, <1>4, <1>5, <1>6 DEF AccessInv, AccessTypes, KeysFresh

LEMMA AccessNext == AccessInv /\ [AccessStep]_accessVars => AccessInv'
  <1> SUFFICES ASSUME AccessInv, [AccessStep]_accessVars PROVE AccessInv'
    OBVIOUS
  <1>1. CASE \E c \in Callers : Ask(c)
    BY <1>1, GetAccessFresh, GetUserGuildsFresh, CachedGuildsFresh, FetchUserGuildsFresh,
       KeepGuildsFresh, FindGuildFresh, StoreAnswerFresh, LeaveFresh DEF Ask
  <1>2. CASE StandingChanges \/ UnlinkDiscord \/ LinkDiscord
    BY <1>2, BecomesFresh DEF StandingChanges, UnlinkDiscord, LinkDiscord, Held
  <1>3. CASE \E f \in Flags \cup {NoFlag} : UpdatePermission(f)
    BY <1>3, UpdatePermissionFresh DEF Asked
  <1>4. CASE InvalidateGuildCache
    BY <1>4, InvalidateFresh
  <1>5. CASE Tick
    BY <1>5, TickFresh
  <1>6. CASE UNCHANGED accessVars
    BY <1>6 DEF accessVars, AccessInv, AccessTypes, Current, KeysFresh, GuildsFresh, AnswerFresh,
                QuestionFresh, Fits, Live
  <1> QED
    BY <1>1, <1>2, <1>3, <1>4, <1>5, <1>6 DEF AccessStep

LEMMA AccessRecent == AccessInv => AnswersAreRecent
  <1> SUFFICES ASSUME AccessInv PROVE AnswersAreRecent
    OBVIOUS
  <1>1. /\ \A s \in Standings : ago.standing[s] \in Nat
        /\ \A f \in Asked : ago.permission[f] \in Nat
        /\ answers \in [Kinds -> Answer] /\ question \in [Callers -> Question]
    BY DEF AccessInv, AccessTypes, Held
  <1>2. ASSUME NEW k \in {"user", "admin"}, Live(answers[k])
        PROVE  AnsweredRecently(k, answers[k].value, AccessTTL)
    <2>1. k \in Kinds /\ answers[k].left \in Nat /\ answers[k].left > 0
      BY <1>1, <1>2 DEF Kinds, Answer, Live
    <2>2. PICK s \in Standings, f \in Asked :
            /\ answers[k].value = May(k, s, f)
            /\ ago.permission[f] + answers[k].left <= AccessTTL + MaxLoad
            /\ ago.standing[s] + answers[k].left < AccessTTL + GuildsTTL + 2 * MaxLoad
      BY <1>2, <2>1 DEF AccessInv, KeysFresh, AnswerFresh
    <2>3. /\ ago.permission[f] < AccessTTL + MaxLoad
          /\ ago.standing[s] < AccessTTL + MaxLoad + GuildsTTL + MaxLoad
      BY <1>1, <2>1, <2>2, AccessConstants
    <2> QED
      BY <2>2, <2>3 DEF AnsweredRecently, Asked
  <1>3. ASSUME NEW c \in Callers, Stands(c, "listed")
        PROVE  AnsweredRecently("list", question[c].answer, 1)
    <2> DEFINE q == question[c]
    <2>1. q.waited \in Nat /\ q.waited <= MaxLoad /\ q.kind = "list"
      BY <1>1, <1>3 DEF AccessInv, QuestionFresh, Question, Stands
    <2>2. PICK s \in Standings, f \in Asked :
            /\ q.answer = May("list", s, f)
            /\ ago.permission[f] <= q.waited
            /\ ago.standing[s] < GuildsTTL + MaxLoad + q.waited
      BY <1>3, <2>1 DEF AccessInv, QuestionFresh, Fits, Stands
    <2>3. ago.permission[f] < 1 + MaxLoad /\ ago.standing[s] < 1 + MaxLoad + GuildsTTL + MaxLoad
      BY <1>1, <2>1, <2>2, AccessConstants
    <2> QED
      BY <2>2, <2>3 DEF AnsweredRecently, Asked
  <1> QED
    BY <1>2, <1>3 DEF AnswersAreRecent

\* Whoever is let into a guild's pages, kept out or shown it (canAccessGuild, canManageGuild,
\* getUserGuilds) was to be so no longer ago than the two caches and their loads take, for
\* any limits, whatever happens at Discord, to the link and to the guild's permission.
THEOREM AnswersStayRecent == AccessSpec => []AnswersAreRecent
  BY AccessInit, AccessNext, AccessRecent, PTL DEF AccessSpec
=============================================================================
