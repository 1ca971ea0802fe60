----------------------------- MODULE Permission -----------------------------
(***************************************************************************)
(* @justwant/permission: the service createPermission builds over a table  *)
(* of role assignments and a table of grant and deny overrides.  A call is *)
(* a sequence of repository calls, each awaited, so the steps of several   *)
(* callers interleave; there is no transaction and no unique constraint.   *)
(*                                                                         *)
(* pcall[c] is the call caller c has in progress: its arguments, the next  *)
(* repository call (at), the id of the row it found and, once it has       *)
(* returned, its outcome, kept until the caller takes it.                  *)
(***************************************************************************)
EXTENDS Rows, Sequences

CONSTANTS
    Callers, Actors, Resources,
    Scopes,         \* the scopes calls are made with, Null for a singular one
    RealmScopes,    \* those whose type a realm governs
    RealmActions,   \* permissionByName of that realm
    RolePerms,      \* its roles, each with the permissions it resolves to
    MayFail         \* whether a repository call may be rejected

VARIABLES assignments, overrides, pcall

(* The rows of the two tables: resource is Null in an override of a scope. *)
AssignmentRows == [id : Nat, actor : Actors, role : STRING, scope : Scopes]
OverrideRows ==
    [id : Nat, type : {"grant", "deny"}, actor : Actors, permission : RealmActions,
     scope : Scopes, resource : Resources \cup {Null}]

NoRow == 0
Idle == [op |-> "none", at |-> "idle"]
OverrideOps == {"grant", "deny", "revokeGrant", "revokeDeny"}
Revokes == {"revokeGrant", "revokeDeny"}
Queries == {"canAll", "canAny"}

(* The calls, as they are when they start. *)
OverrideCall(op, actor, action, scope, resource) ==
    [op |-> op, at |-> "find", actor |-> actor, action |-> action,
     scope |-> scope, resource |-> resource, row |-> NoRow, out |-> "pending"]
RoleCall(op, actor, role, scope) ==
    [op |-> op, at |-> "find", actor |-> actor, role |-> role, scope |-> scope,
     row |-> NoRow, out |-> "pending"]
(* can, assert and explain resolve one action; canMany one action per actor. *)
QueryCall(op, actor, actions, scope, resource) ==
    [op |-> op, at |-> "deny", actor |-> actor, actions |-> actions,
     left |-> actions, scope |-> scope, resource |-> resource, out |-> "pending"]
SweepCall(op, where) ==
    [op |-> op, at |-> "assignments", where |-> where, found |-> {}, out |-> "pending"]

Starts(c, call) == pcall[c] = Idle /\ pcall' = [pcall EXCEPT ![c] = call]
Returns(c, out) ==
    pcall' = [pcall EXCEPT ![c] = [@ EXCEPT !.at = "returned", !.out = out]]
Returned(c, out) == pcall[c].at = "returned" /\ pcall[c].out = out
InFlight(c) == pcall[c].at \notin {"idle", "returned"}
Takes(c) ==
    /\ pcall[c].at = "returned"
    /\ pcall' = [pcall EXCEPT ![c] = Idle]

HeldIds == {pcall[c].row : c \in {d \in Callers : "row" \in DOMAIN pcall[d]}}
           \cup UNION {pcall[c].found : c \in {d \in Callers : "found" \in DOMAIN pcall[d]}}
FreshId(table) == NewId({row.id : row \in table} \cup HeldIds)

-----------------------------------------------------------------------------
(* Resolution. *)

OverrideWhere(k, action) == [actor |-> k.actor, scope |-> k.scope, permission |-> action]

OverriddenScopeOnlyBug(type, k, action) ==
    \E row \in FindMany(overrides, OverrideWhere(k, action)) :
        row.type = type /\ row.resource = Null
(* findDenyOverride and findGrantOverride: the overrides of the actor on the
   action in the scope, for the resource asked about or for none. *)
Overridden(type, k, action) ==
    \E row \in FindMany(overrides, OverrideWhere(k, action)) :
        /\ row.type = type
        /\ row.resource = Null \/ (k.resource # Undefined /\ row.resource = k.resource)

InRealm(k, action) == k.scope \in RealmScopes /\ action \in RealmActions

RoleAllows(role, action) == role \in DOMAIN RolePerms /\ action \in RolePerms[role]
AssignmentWhere(k) == [actor |-> k.actor, scope |-> k.scope]

(* One action of the query is decided: canAll stops at the first that is not
   allowed, canAny at the first that is. *)
Decides(c, allowed) ==
    LET k == pcall[c]
        stop == IF k.op = "canAll" THEN ~allowed ELSE allowed
    IN  IF stop \/ Len(k.left) = 1
        THEN Returns(c, IF allowed THEN "yes" ELSE "no")
        ELSE pcall' = [pcall EXCEPT ![c].at = "deny", ![c].left = Tail(@)]

Query(c, at) ==
    pcall[c].op \in Queries /\ pcall[c].at = at /\ UNCHANGED <<assignments, overrides>>
Asked(c) == Head(pcall[c].left)

ResolveOutside(c) ==
    /\ Query(c, "deny")
    /\ ~InRealm(pcall[c], Asked(c))
    /\ Decides(c, FALSE)

ResolveDeny(c) ==
    /\ Query(c, "deny")
    /\ InRealm(pcall[c], Asked(c))
    /\ IF Overridden("deny", pcall[c], Asked(c))
       THEN Decides(c, FALSE)
       ELSE pcall' = [pcall EXCEPT ![c].at = "grant"]

ResolveGrant(c) ==
    /\ Query(c, "grant")
    /\ IF Overridden("grant", pcall[c], Asked(c))
       THEN Decides(c, TRUE)
       ELSE pcall' = [pcall EXCEPT ![c].at = "role"]

ResolveRole(c) ==
    /\ Query(c, "role")
    /\ \/ /\ FindsNone(assignments, AssignmentWhere(pcall[c]))
          /\ Decides(c, FALSE)
       \/ \E row \in FindMany(assignments, AssignmentWhere(pcall[c])) :
              Decides(c, RoleAllows(row.role, Asked(c)))

-----------------------------------------------------------------------------
(* assign and unassign. *)

RoleStep(c, op, at) == pcall[c].op = op /\ pcall[c].at = at

Found(c, id, at) == pcall' = [pcall EXCEPT ![c].row = id, ![c].at = at]

Assign(c) ==
    LET k == pcall[c] IN
    \/ /\ RoleStep(c, "assign", "find") /\ k.scope \notin RealmScopes
       /\ Returns(c, "threw") /\ UNCHANGED assignments
    \/ /\ RoleStep(c, "assign", "find") /\ k.scope \in RealmScopes
       /\ \/ /\ FindsNone(assignments, AssignmentWhere(k))
             /\ Found(c, NoRow, "create")
          \/ \E row \in FindMany(assignments, AssignmentWhere(k)) : Found(c, row.id, "update")
       /\ UNCHANGED assignments
    \/ /\ RoleStep(c, "assign", "create")
       /\ assignments' = Create(assignments,
              [id |-> FreshId(assignments), actor |-> k.actor, scope |-> k.scope,
               role |-> k.role])
       /\ Returns(c, "done")
    \/ /\ RoleStep(c, "assign", "update")
       /\ assignments' = Update(assignments, k.row, "role", k.role)
       /\ Returns(c, IF Exists(assignments, k.row) THEN "done" ELSE "threw")

Unassign(c) ==
    LET k == pcall[c] IN
    \/ /\ RoleStep(c, "unassign", "find")
       /\ \/ FindsNone(assignments, AssignmentWhere(k)) /\ Returns(c, "done")
          \/ \E row \in FindMany(assignments, AssignmentWhere(k)) : Found(c, row.id, "delete")
       /\ UNCHANGED assignments
    \/ /\ RoleStep(c, "unassign", "delete")
       /\ assignments' = Delete(assignments, k.row)
       /\ Returns(c, "done")

-----------------------------------------------------------------------------
(* grant, deny, revokeGrant and revokeDeny. *)

TypeOf(op) == IF op \in {"grant", "revokeGrant"} THEN "grant" ELSE "deny"

TargetNoTypeBug(k) ==
    [actor |-> k.actor, permission |-> k.action, scope |-> k.scope,
     resource |-> k.resource]
(* The where clause of the findOne the four methods start with. *)
TargetWhere(k) ==
    [type |-> TypeOf(k.op), actor |-> k.actor, permission |-> k.action,
     scope |-> k.scope, resource |-> k.resource]

AddOverride(c) ==
    LET k == pcall[c] IN
    /\ k.op \in OverrideOps \ Revokes
    /\ \/ /\ k.at = "find"
          /\ IF FindsNone(overrides, TargetWhere(k))
             THEN Found(c, NoRow, "create") ELSE Returns(c, "done")
          /\ UNCHANGED overrides
       \/ /\ k.at = "create"
          /\ overrides' = Create(overrides,
                 [id |-> FreshId(overrides), type |-> TypeOf(k.op), actor |-> k.actor,
                  permission |-> k.action, scope |-> k.scope,
                  resource |-> Stored(k.resource)])
          /\ Returns(c, "done")

RevokeOverride(c) ==
    LET k == pcall[c] IN
    /\ k.op \in Revokes
    /\ \/ /\ k.at = "find"
          /\ \/ FindsNone(overrides, TargetWhere(k)) /\ Returns(c, "done")
             \/ \E row \in FindMany(overrides, TargetWhere(k)) : Found(c, row.id, "delete")
          /\ UNCHANGED overrides
       \/ /\ k.at = "delete"
          /\ overrides' = Delete(overrides, k.row)
          /\ Returns(c, "done")

-----------------------------------------------------------------------------
(* revokeScope and revokeAll: list the assignments and delete them one by
   one, in the order the store listed them; then the overrides. *)

SweepListsFirstBug(c, table, next) ==        \* findOne for findMany
    \E ids \in {{row.id} : row \in FindMany(table, pcall[c].where)} \cup {{}} :
        /\ ids = {} => FindsNone(table, pcall[c].where)
        /\ pcall' = [pcall EXCEPT ![c].at = next, ![c].found = ids]
SweepLists(c, table, next) ==
    pcall' = [pcall EXCEPT ![c].at = next,
              ![c].found = {row.id : row \in FindMany(table, pcall[c].where)}]
Swept(c, id) == pcall' = [pcall EXCEPT ![c].found = @ \ {id}]

Sweep(c) ==
    LET k == pcall[c] IN
    \/ /\ k.at = "assignments"
       /\ SweepLists(c, assignments, "unassigning") /\ UNCHANGED <<assignments, overrides>>
    \/ /\ k.at = "unassigning"
       /\ \E id \in k.found : assignments' = Delete(assignments, id) /\ Swept(c, id)
       /\ UNCHANGED overrides
    \/ /\ k.at = "unassigning" /\ k.found = {}
       /\ SweepLists(c, overrides, "lifting") /\ UNCHANGED <<assignments, overrides>>
    \/ /\ k.at = "lifting"
       /\ \E id \in k.found : overrides' = Delete(overrides, id) /\ Swept(c, id)
       /\ UNCHANGED assignments
    \/ /\ k.at = "lifting" /\ k.found = {}
       /\ Returns(c, "done") /\ UNCHANGED <<assignments, overrides>>

(* The store rejects the repository call (or the process dies): nothing after
   it is done. *)
Rejected(c) ==
    /\ MayFail /\ InFlight(c)
    /\ Returns(c, "threw")
    /\ UNCHANGED <<assignments, overrides>>

PermissionStep(c) ==
    \/ ResolveOutside(c) \/ ResolveDeny(c) \/ ResolveGrant(c) \/ ResolveRole(c)
    \/ (Assign(c) \/ Unassign(c)) /\ UNCHANGED overrides
    \/ (AddOverride(c) \/ RevokeOverride(c)) /\ UNCHANGED assignments
    \/ Sweep(c)
    \/ Rejected(c)

(* The documented policy, on the tables of one instant: a deny override wins
   over a grant, a grant over the roles, and the default is no. *)
Has(type, k, action) ==
    \E row \in overrides :
        /\ row.type = type /\ row.actor = k.actor /\ row.permission = action
        /\ row.scope = k.scope /\ row.resource \in {Null, k.resource}
Allowed(k, action) ==
    /\ k.scope \in RealmScopes /\ action \in RealmActions
    /\ ~Has("deny", k, action)
    /\ \/ Has("grant", k, action)
       \/ \E row \in assignments :
              /\ row.actor = k.actor /\ row.scope = k.scope
              /\ row.role \in DOMAIN RolePerms /\ action \in RolePerms[row.role]
=============================================================================
