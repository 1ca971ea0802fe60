---------------------------- MODULE Organisation ----------------------------
(***************************************************************************)
(* @justwant/organisation: the facade createOrganisationService puts over  *)
(* an organisations table, the membership service and the permission       *)
(* service.  ocall[c] is the facade call of client c; while it waits for   *)
(* one of the two services, the service's own call (mcall[c] or pcall[c])  *)
(* runs, and the facade goes on when that one has returned.                *)
(*                                                                         *)
(* An organisation is its id, which is also its group and its scope        *)
(* (toScope, def.group), and its slug; one organisation type is modelled,  *)
(* with the realm createStandardOrganisationPermission builds for it.      *)
(***************************************************************************)
EXTENDS Rows, Sequences

CONSTANTS
    Clients, Members,
    Accepted,       \* the members whose type the groups accept
    OrgIds,         \* the ids organisations get: a bound on how many are created
    Slugs, NoSlug,  \* NoSlug: no slug given
    Elsewhere,      \* a scope whose type no realm governs
    NoMember,       \* an update or a delete made on no member's behalf
    Resources,
    MayFail

ASSUME OrganisationAssumption ==
    /\ NoSlug \notin Slugs
    /\ NoMember \notin Members
    /\ Accepted \subseteq Members
    /\ {Undefined, Null} \cap (Members \cup OrgIds) = {}
    /\ IsFiniteSet(Clients)

VARIABLES organisations, ocall, assignments, overrides, pcall, memberships, mcall,
          deleted       \* history: the organisations deleted so far

(* The standard realm.  "delete" stands for delete and transfer, which only an
   owner may, "member:invite" for what an admin may besides reading, updating
   and listing; the realm has nothing else. *)
Permissions == {"read", "update", "delete", "member:list", "member:invite"}
Resolved(permissions, except) == permissions \ except
StandardRoles ==
    [owner  |-> Resolved(Permissions, {}),
     admin  |-> Resolved({"read", "update", "member:list", "member:invite"}, {}),
     member |-> Resolved({"read", "member:list"}, {}),
     viewer |-> Resolved({"read"}, {})]

(* No argument a call is made with is undefined, or null. *)
ASSUME ArgumentAssumption ==
    /\ {Undefined, Null} \cap ({Elsewhere, "grant", "deny"} \cup Resources \cup Permissions) = {}
    /\ Undefined \notin STRING /\ Null \notin STRING

P == INSTANCE Permission WITH
         Callers <- Clients, Actors <- Members, Scopes <- OrgIds \cup {Elsewhere},
         RealmScopes <- OrgIds, RealmActions <- Permissions, RolePerms <- StandardRoles
M == INSTANCE Membership WITH
         Callers <- Clients, Groups <- OrgIds, Accepts <- [o \in OrgIds |-> Accepted]

ovars == <<organisations, ocall, deleted>>
permissionVars == <<assignments, overrides, pcall>>
membershipVars == <<memberships, mcall>>

OrganisationRows == [id : OrgIds, slug : Slugs \cup {NoSlug}]
Idle == [op |-> "none", at |-> "idle"]
IsOrg(id) == \E org \in organisations : org.id = id
SlugOf(id) == (CHOOSE org \in organisations : org.id = id).slug

(* The calls, as they are when they start. *)
CreateCall(slug) == [op |-> "create", at |-> "find", slug |-> slug]
ChangeCall(op, org, slug, member) ==
    [op |-> op, at |-> "load", org |-> org, slug |-> slug, member |-> member,
     loaded |-> NoSlug]
MemberCall(op, at, org, member, role) ==
    [op |-> op, at |-> at, org |-> org, member |-> member, role |-> role]
ListCall(member) ==
    [op |-> "listForMember", at |-> "groups", member |-> member,
     left |-> {}, listed |-> {}, gone |-> deleted]

Goes(c, at) == ocall' = [ocall EXCEPT ![c].at = at]
Ends(c) == ocall' = [ocall EXCEPT ![c] = Idle]
At(c, op, at) == ocall[c].op = op /\ ocall[c].at = at
Quiet == UNCHANGED <<permissionVars, membershipVars>>
Stored0 == UNCHANGED <<organisations, deleted>>

-----------------------------------------------------------------------------
(* create. *)
Taken(slug) == \E org \in organisations : org.slug = slug

CreateFind(c) ==
    /\ At(c, "create", "find")
    /\ IF ocall[c].slug # NoSlug /\ Taken(ocall[c].slug)
       THEN Ends(c)                                       \* DuplicateSlugError
       ELSE Goes(c, "create")
    /\ Stored0 /\ Quiet

CreateInsert(c) ==
    /\ At(c, "create", "create")
    /\ LET ids == OrgIds \ (deleted \cup {org.id : org \in organisations})
       IN  \E id \in ids :
               organisations' = Create(organisations, [id |-> id, slug |-> ocall[c].slug])
    /\ Ends(c) /\ UNCHANGED deleted /\ Quiet

-----------------------------------------------------------------------------
(* update and delete: load the organisation, ask whether the member may, for
   an update look for the new slug, then write. *)
Perm(op) == op
Changes == {"update", "delete"}

AfterCheck(c, loaded) ==
    IF ocall[c].op = "update" /\ ocall[c].slug # NoSlug /\ ocall[c].slug # loaded
    THEN "find" ELSE "write"

LoadMissing(c) ==
    /\ ocall[c].op \in Changes /\ ocall[c].at = "load"
    /\ ~IsOrg(ocall[c].org)
    /\ Ends(c) /\ Stored0 /\ Quiet                        \* OrganisationNotFoundError

Load(c) ==
    LET k == ocall[c] IN
    /\ k.op \in Changes /\ k.at = "load" /\ IsOrg(k.org)
    /\ ocall' = [ocall EXCEPT ![c].loaded = SlugOf(k.org),
           ![c].at = IF k.member = NoMember THEN AfterCheck(c, SlugOf(k.org)) ELSE "check"]
    /\ IF k.member = NoMember
       THEN UNCHANGED pcall
       ELSE P!Starts(c, P!QueryCall("canAll", k.member, <<Perm(k.op)>>, k.org, Undefined))
    /\ Stored0 /\ UNCHANGED <<assignments, overrides, membershipVars>>

CheckedOpenBug(c) ==                         \* only an answer of no stops it
    /\ ocall[c].op \in Changes /\ ocall[c].at = "check"
    /\ P!Takes(c)
    /\ IF P!Returned(c, "no") THEN Ends(c) ELSE Goes(c, AfterCheck(c, ocall[c].loaded))
    /\ Stored0 /\ UNCHANGED <<assignments, overrides, membershipVars>>
Checked(c) ==
    /\ ocall[c].op \in Changes /\ ocall[c].at = "check"
    /\ P!Takes(c)
    /\ IF P!Returned(c, "yes") THEN Goes(c, AfterCheck(c, ocall[c].loaded)) ELSE Ends(c)
    /\ Stored0 /\ UNCHANGED <<assignments, overrides, membershipVars>>

UpdateFind(c) ==
    /\ At(c, "update", "find")
    /\ IF Taken(ocall[c].slug) THEN Ends(c) ELSE Goes(c, "write")
    /\ Stored0 /\ Quiet

(* repo.update throws when the organisation is gone by now. *)
UpdateWrite(c) ==
    /\ At(c, "update", "write")
    /\ organisations' = IF ocall[c].slug = NoSlug THEN organisations
                        ELSE Update(organisations, ocall[c].org, "slug", ocall[c].slug)
    /\ Ends(c) /\ UNCHANGED deleted /\ Quiet

(* The memberships, assignments and overrides of the organisation stay. *)
DeleteWrite(c) ==
    /\ At(c, "delete", "write")
    /\ organisations' = Delete(organisations, ocall[c].org)
    /\ deleted' = deleted \cup {ocall[c].org}
    /\ Ends(c) /\ Quiet

-----------------------------------------------------------------------------
(* addMember, removeMember and assignRole. *)
Known(role) == role \in DOMAIN StandardRoles

BeginAddMember(c, org, member, role) ==
    /\ ocall' = [ocall EXCEPT ![c] = MemberCall("addMember", "joining", org, member, role)]
    /\ M!Starts(c, M!MembershipCall("add", member, org))
    /\ Stored0 /\ UNCHANGED <<memberships, permissionVars>>

JoinedUnawaitedBug(c) ==                     \* the role whatever add answered
    /\ At(c, "addMember", "joining")
    /\ M!Takes(c)
    /\ Goes(c, "assigning")
    /\ P!Starts(c, P!RoleCall("assign", ocall[c].member, ocall[c].role, ocall[c].org))
    /\ Stored0 /\ UNCHANGED <<memberships, assignments, overrides>>
Joined(c) ==
    LET k == ocall[c] IN
    /\ At(c, "addMember", "joining")
    /\ M!Takes(c)
    /\ IF M!Returned(c, "done") /\ Known(k.role)
       THEN /\ Goes(c, "assigning")
            /\ P!Starts(c, P!RoleCall("assign", k.member, k.role, k.org))
       ELSE Ends(c) /\ UNCHANGED pcall
    /\ Stored0 /\ UNCHANGED <<memberships, assignments, overrides>>

BeginRemoveMember(c, org, member) ==
    /\ ocall' = [ocall EXCEPT ![c] =
           MemberCall("removeMember", "unassigning", org, member, "none")]
    /\ P!Starts(c, P!RoleCall("unassign", member, "none", org))
    /\ Stored0 /\ UNCHANGED <<assignments, overrides, membershipVars>>

Unassigned(c) ==
    LET k == ocall[c] IN
    /\ At(c, "removeMember", "unassigning")
    /\ P!Takes(c)
    /\ IF P!Returned(c, "done")
       THEN /\ Goes(c, "leaving")
            /\ M!Starts(c, M!MembershipCall("remove", k.member, k.org))
       ELSE Ends(c) /\ UNCHANGED mcall
    /\ Stored0 /\ UNCHANGED <<memberships, assignments, overrides>>

Left(c) ==
    /\ At(c, "removeMember", "leaving")
    /\ M!Takes(c) /\ Ends(c)
    /\ Stored0 /\ UNCHANGED <<memberships, permissionVars>>

(* assignRole does not ask whether the member belongs to the organisation. *)
BeginAssignRole(c, org, member, role) ==
    /\ IF Known(role)
       THEN /\ ocall' = [ocall EXCEPT ![c] =
                   MemberCall("assignRole", "assigning", org, member, role)]
            /\ P!Starts(c, P!RoleCall("assign", member, role, org))
       ELSE UNCHANGED <<ocall, pcall>>
    /\ Stored0 /\ UNCHANGED <<assignments, overrides, membershipVars>>

Assigned(c) ==
    /\ ocall[c].op \in {"addMember", "assignRole"} /\ ocall[c].at = "assigning"
    /\ P!Takes(c) /\ Ends(c)
    /\ Stored0 /\ UNCHANGED <<assignments, overrides, membershipVars>>

-----------------------------------------------------------------------------
(* listForMember: the groups of the member, then each organisation by id. *)
BeginList(c, member) ==
    /\ ocall' = [ocall EXCEPT ![c] = ListCall(member)]
    /\ M!Starts(c, M!ListCall(member))
    /\ Stored0 /\ UNCHANGED <<memberships, permissionVars>>

GroupsListed(c) ==
    /\ At(c, "listForMember", "groups")
    /\ M!Takes(c)
    /\ IF M!Returned(c, "done")
       THEN ocall' = [ocall EXCEPT ![c].at = "orgs", ![c].left = mcall[c].groups]
       ELSE Ends(c)
    /\ Stored0 /\ UNCHANGED <<memberships, permissionVars>>

(* An id that findById no longer finds is left out of the answer. *)
Lists(c, id) == {i \in {id} : IsOrg(i)}

ListOne(c) ==
    /\ At(c, "listForMember", "orgs")
    /\ \E id \in ocall[c].left :
           ocall' = [ocall EXCEPT ![c].left = @ \ {id}, ![c].listed = @ \cup Lists(c, id)]
    /\ Stored0 /\ Quiet

Listed(c) ==
    /\ At(c, "listForMember", "orgs") /\ ocall[c].left = {}
    /\ Ends(c) /\ Stored0 /\ Quiet

(* The organisations table rejects the call. *)
Rejected(c) ==
    /\ MayFail
    /\ ocall[c].at \in {"find", "create", "load", "write", "orgs"}
    /\ Ends(c) /\ Stored0 /\ Quiet

OrganisationStep(c) ==
    \/ CreateFind(c) \/ CreateInsert(c)
    \/ LoadMissing(c) \/ Load(c) \/ Checked(c)
    \/ UpdateFind(c) \/ UpdateWrite(c) \/ DeleteWrite(c)
    \/ Joined(c) \/ Unassigned(c) \/ Left(c) \/ Assigned(c)
    \/ GroupsListed(c) \/ ListOne(c) \/ Listed(c)
    \/ Rejected(c)

ServiceStep(c) ==
    \/ P!PermissionStep(c) /\ UNCHANGED <<ovars, membershipVars>>
    \/ M!MembershipStep(c) /\ UNCHANGED <<ovars, permissionVars>>

-----------------------------------------------------------------------------
(***************************************************************************)
(* The clients of one application: each makes the organisation, membership *)
(* and permission calls its duties allow, any number of times, and the     *)
(* repository calls of different clients interleave.  A deployment says    *)
(* which calls each client makes, with which arguments, and what the       *)
(* tables hold when it starts.                                             *)
(***************************************************************************)
CONSTANT Deployments

VARIABLES
    plan,       \* the deployment, fixed from the start
    seen,       \* history: what the policy said of each action while a query ran
    vouched,    \* history: the policy allowed the change a client is making
    calm,       \* history: no call undoing this one overlapped it
    firm        \* history: the overrides added and not revoked since

history == <<seen, vouched, calm, firm>>
vars == <<ovars, permissionVars, membershipVars, plan, history>>

Init ==
    \E d \in Deployments :
        /\ plan = d
        /\ organisations = d.organisations /\ deleted = {}
        /\ memberships \in d.memberships
        /\ assignments \in d.assignments
        /\ overrides \in d.overrides
        /\ ocall = [c \in Clients |-> Idle]
        /\ pcall = [c \in Clients |-> P!Idle]
        /\ mcall = [c \in Clients |-> M!Idle]
        /\ seen = [c \in Clients |-> {}]
        /\ vouched = [c \in Clients |-> FALSE]
        /\ calm = [c \in Clients |-> FALSE]
        /\ firm = {}

-----------------------------------------------------------------------------
(* The calls clients start. *)

May(c, op) == op \in plan.duty[c] /\ ocall[c] = Idle /\ pcall[c] = P!Idle

OnlyOrganisation == UNCHANGED <<organisations, deleted, permissionVars, membershipVars>>
OnlyPermission == UNCHANGED <<ovars, assignments, overrides, membershipVars>>

StartCreate(c) ==
    /\ May(c, "create")
    /\ \E slug \in Slugs \cup {NoSlug} :
           ocall' = [ocall EXCEPT ![c] = CreateCall(slug)]
    /\ OnlyOrganisation

StartChange(c) ==
    /\ \E op \in Changes, org \in OrgIds, member \in plan.members \cup {NoMember},
          slug \in Slugs \cup {NoSlug} :
           /\ May(c, op)
           /\ op = "delete" => slug = NoSlug
           /\ ocall' = [ocall EXCEPT ![c] = ChangeCall(op, org, slug, member)]
    /\ OnlyOrganisation

StartMember(c) ==
    \E org \in plan.orgs, member \in plan.members :
        \/ /\ May(c, "addMember")
           /\ \E role \in plan.roles : BeginAddMember(c, org, member, role)
        \/ May(c, "removeMember") /\ BeginRemoveMember(c, org, member)
        \/ /\ May(c, "assignRole")
           /\ \E role \in plan.roles : BeginAssignRole(c, org, member, role)
        \/ May(c, "listForMember") /\ BeginList(c, member)

StartOverride(c) ==
    /\ \E op \in P!OverrideOps, scope \in plan.scopes, member \in plan.members,
          resource \in plan.levels :
           /\ May(c, op)
           /\ P!Starts(c, P!OverrideCall(op, member, "update", scope, resource))
    /\ OnlyPermission

StartRole(c) ==
    /\ \E scope \in plan.scopes, member \in plan.members :
           \/ /\ May(c, "assign")
              /\ \E role \in plan.roles : P!Starts(c, P!RoleCall("assign", member, role, scope))
           \/ /\ May(c, "unassign")
              /\ P!Starts(c, P!RoleCall("unassign", member, "none", scope))
    /\ OnlyPermission

StartQuery(c) ==
    /\ \E op \in P!Queries, scope \in plan.scopes, member \in plan.members,
          resource \in plan.levels, actions \in plan.questions :
           /\ May(c, op)
           /\ P!Starts(c, P!QueryCall(op, member, actions, scope, resource))
    /\ OnlyPermission

StartSweep(c) ==
    /\ \/ /\ May(c, "revokeScope")
          /\ \E scope \in plan.scopes : P!Starts(c, P!SweepCall("revokeScope", [scope |-> scope]))
       \/ /\ May(c, "revokeAll")
          /\ \E member \in plan.members : P!Starts(c, P!SweepCall("revokeAll", [actor |-> member]))
    /\ OnlyPermission

(* A client that called the permission service itself takes the answer. *)
Answered(c) ==
    /\ ocall[c] = Idle
    /\ P!Takes(c)
    /\ OnlyPermission

ClientStep(c) ==
    \/ StartCreate(c) \/ StartChange(c) \/ StartMember(c)
    \/ StartOverride(c) \/ StartRole(c) \/ StartQuery(c) \/ StartSweep(c)
    \/ Answered(c)

-----------------------------------------------------------------------------
(* The history: what the policy answered at each instant of a query, which   *)
(* calls were overlapped by one that undoes them, which overrides stand.     *)

Target(k) == <<P!TypeOf(k.op), k.actor, k.action, k.scope, k.resource>>

Policy(k) == {<<a, P!Allowed(k, a)>> : a \in {k.actions[i] : i \in DOMAIN k.actions}}

Undoes(other, k) ==
    /\ other.at # "returned"
    /\ \/ /\ k.op \in P!OverrideOps \ P!Revokes /\ other.op \in P!Revokes
          /\ Target(other) = Target(k)
       \/ /\ k.op = "unassign" /\ other.op = "assign"
          /\ other.actor = k.actor /\ other.scope = k.scope
       \/ /\ k.op \in P!OverrideOps \ P!Revokes /\ other.op \in {"revokeScope", "revokeAll"}
          /\ other.where \in {[scope |-> k.scope], [actor |-> k.actor]}
       \/ other.op \in {"assign", "grant", "deny"} /\ k.op \in {"revokeScope", "revokeAll"}

Revoked(target) ==
    \E c \in Clients :
        /\ P!InFlight(c)
        /\ \/ pcall[c].op \in P!Revokes /\ Target(pcall[c]) = target
           \/ /\ pcall[c].op \in {"revokeScope", "revokeAll"}
              /\ pcall[c].where \in {[scope |-> target[4]], [actor |-> target[2]]}

Observe ==
    /\ seen' = [c \in Clients |->
           IF pcall'[c].op \notin P!Queries THEN {}
           ELSE IF pcall'[c].at = "returned" THEN seen[c]
           ELSE seen[c] \cup Policy(pcall[c])']
    /\ vouched' = [c \in Clients |->
           /\ ocall'[c] # Idle
           /\ vouched[c] \/ <<"update", TRUE>> \in seen'[c] \/ <<"delete", TRUE>> \in seen'[c]]
    /\ calm' = [c \in Clients |->
           /\ pcall'[c] # P!Idle
           /\ pcall[c] = P!Idle \/ calm[c]
           /\ ~\E d \in Clients \ {c} : Undoes(pcall[d], pcall[c])']
    /\ firm' =
           LET added == {c \in Clients :
                   /\ pcall'[c].op \in P!OverrideOps \ P!Revokes
                   /\ pcall'[c].at = "returned" /\ pcall'[c].out = "done" /\ calm'[c]}
           IN  {t \in firm \cup {Target(pcall'[c]) : c \in added} : ~Revoked(t)'}

Next ==
    /\ \E c \in Clients : ClientStep(c) \/ OrganisationStep(c) \/ ServiceStep(c)
    /\ Observe
    /\ UNCHANGED plan

Spec == Init /\ [][Next]_vars

-----------------------------------------------------------------------------
TypeOK ==
    /\ organisations \subseteq OrganisationRows /\ deleted \subseteq OrgIds
    /\ memberships \subseteq M!MembershipRows
    /\ assignments \subseteq P!AssignmentRows
    /\ overrides \subseteq P!OverrideRows
    /\ \A table \in {organisations, memberships, assignments, overrides} :
           \A r1, r2 \in table : r1.id = r2.id => r1 = r2

(* A role is held in an organisation only by its members, at every instant:
   addMember joins before it assigns and removeMember unassigns before it
   leaves, so a call that dies between its two halves leaves a member without
   a role and never a stranger with one (createOrganisationService.ts
   218-241), as long as one client at a time changes the membership. *)
RolesOfMembersOnly ==
    \A row \in assignments : M!IsMember(row.actor, row.scope)

(* can, canAll and canAny answer what the documented order of precedence gave
   at some instant of the call, although they read the deny overrides, the
   grants and the role at three different ones, as long as what the others
   write meanwhile is of one kind (permission.ts 170-195, 389-413). *)
AnswerSeen ==
    \A c \in Clients :
        LET k == pcall[c] IN
        (k.op \in P!Queries /\ k.at = "returned" /\ k.out \in {"yes", "no"}) =>
            LET answer == k.out = "yes"
                all == (k.op = "canAll") <=> answer
            IN  IF all THEN \A i \in DOMAIN k.actions : <<k.actions[i], answer>> \in seen[c]
                       ELSE \E i \in DOMAIN k.actions : <<k.actions[i], answer>> \in seen[c]

(* An override a grant or deny call has answered for is in the table until a
   call to revoke that very override starts, whatever other overrides are
   revoked meanwhile (permission.ts 281-387). *)
OverrideStands ==
    \A t \in firm :
        \E row \in overrides :
            <<row.type, row.actor, row.permission, row.scope>> = <<t[1], t[2], t[3], t[4]>>
            /\ row.resource = Stored(t[5])

(* After deny, the action is not allowed on what was denied (basic-usage.mdx
   129-131: a deny wins over grants, can answers false). *)
DenyHonoured ==
    \A t \in firm :
        t[1] = "deny" =>
            ~P!Allowed([actor |-> t[2], scope |-> t[4], resource |-> t[5]], t[3])

(* After unassign the actor holds no role in the scope (api.mdx 77: removes all
   role assignments of the actor), and after revokeScope or revokeAll nothing
   is left of the scope or the actor in either table, although they delete one
   row at a time - if nobody added to it meanwhile. *)
RevocationsHonoured ==
    \A c \in Clients :
        LET k == pcall[c] IN
        (P!Returned(c, "done") /\ calm[c]) =>
            /\ k.op = "unassign" => FindsNone(assignments, P!AssignmentWhere(k))
            /\ k.op \in {"revokeScope", "revokeAll"} =>
                   FindsNone(assignments, k.where) /\ FindsNone(overrides, k.where)

(* listForMember never answers an organisation that was deleted before the
   call began, although delete leaves the memberships behind. *)
DeletedUnlisted ==
    \A c \in Clients :
        ocall[c].op = "listForMember" => ocall[c].listed \cap ocall[c].gone = {}

(* An organisation is updated or deleted on a member's behalf only when the
   policy allowed that member to at some instant of the call. *)
ChangeVouched ==
    [][\A c \in Clients :
           (/\ organisations' # organisations /\ ocall[c].op \in Changes
            /\ ocall'[c] = Idle /\ ocall[c].member # NoMember)
               => vouched[c]]_vars

(* What is answered, is or was so during the call. *)
AnswersTrue == TypeOK /\ AnswerSeen /\ DeletedUnlisted
=============================================================================
