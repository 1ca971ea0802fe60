------------------------- MODULE OrganisationProofs -------------------------
(***************************************************************************)
(* What the facade and the services promise, for every deployment of the   *)
(* kind they are meant for.  First: roles are held by members only.  The   *)
(* invariant says what each suspended call knows of the two tables of the  *)
(* other services it goes between.                                         *)
(***************************************************************************)
EXTENDS Organisation, FiniteSetTheorems, SequenceTheorems, WellFoundedInduction, TLAPS

(***************************************************************************)
(* The deployments the theorem is about.                                   *)
(***************************************************************************)

(* Whoever holds a role at the start is a member. *)
StartsWithMembers(d) ==
    \A ms \in d.memberships, as \in d.assignments : \A row \in as :
        \E m \in ms : m.member = row.actor /\ m.group = row.scope

Typed(d) ==
    /\ d.members \subseteq Members /\ d.orgs \subseteq OrgIds
    /\ \A ms \in d.memberships :
        /\ ms \subseteq M!MembershipRows /\ IsFiniteSet(ms)
        /\ \A i, j \in ms : i.id = j.id => i = j
    /\ \A as \in d.assignments : as \subseteq P!AssignmentRows

(* Nobody is ever removed, and roles are only given to the members there are
   at the start, or by addMember. *)
OnlyJoins(d) ==
    /\ \A c \in Clients : "removeMember" \notin d.duty[c]
    /\ (\E c \in Clients : d.duty[c] \cap {"assign", "assignRole"} # {}) =>
        \A ms \in d.memberships, member \in d.members, org \in d.orgs \cup d.scopes :
            org \in OrgIds => \E m \in ms : m.member = member /\ m.group = org

(* One client changes the membership, and nobody gives a role but through it. *)
OneChanges(d) ==
    /\ \E w \in Clients : \A c \in Clients \ {w} :
        d.duty[c] \cap {"addMember", "removeMember"} = {}
    /\ \A c \in Clients : d.duty[c] \cap {"assign", "assignRole"} = {}
    /\ \A as \in d.assignments : \A i, j \in as :
        i.actor = j.actor /\ i.scope = j.scope => i = j

Careful(d) == Typed(d) /\ StartsWithMembers(d) /\ (OnlyJoins(d) \/ OneChanges(d))

-----------------------------------------------------------------------------
(* The inductive invariant. *)

RoleOps == {"assign", "unassign"}
IsRoleCall(k) ==
    /\ {"op", "at", "actor", "scope", "row", "out"} \subseteq DOMAIN k
    /\ k.at \in {"find", "create", "update", "delete", "returned"}
    /\ k.actor \in Members
MemberCalls ==
    [op : {"add", "remove"}, at : {"find", "create", "delete", "returned"},
     member : Members, group : OrgIds, row : Nat, out : {"pending", "done", "threw"}]
FacadeOps == {"addMember", "removeMember", "assignRole"}
IsFacadeCall(k) ==
    /\ {"op", "at", "org", "member"} \subseteq DOMAIN k
    /\ k.at \in {"joining", "assigning", "unassigning", "leaving"}
    /\ k.org \in OrgIds /\ k.member \in Members

(* The calls the theorem is not about are records with an op and no more. *)
CallOK(c) ==
    /\ "op" \in DOMAIN ocall[c] /\ "op" \in DOMAIN pcall[c] /\ "op" \in DOMAIN mcall[c]
    /\ ocall[c].op \in FacadeOps => IsFacadeCall(ocall[c])
    /\ pcall[c].op \in RoleOps => IsRoleCall(pcall[c])
    /\ mcall[c].op \in {"add", "remove"} => mcall[c] \in MemberCalls

CallsOK ==
    /\ DOMAIN ocall = Clients /\ DOMAIN pcall = Clients /\ DOMAIN mcall = Clients
    /\ \A c \in Clients : CallOK(c)

RowsOK ==
    /\ memberships \subseteq M!MembershipRows /\ IsFiniteSet(memberships)
    /\ \A i, j \in memberships : i.id = j.id => i = j
    /\ \A row \in assignments : {"actor", "scope"} \subseteq DOMAIN row

Holds(actor, scope) ==
    \E row \in assignments : row.actor = actor /\ row.scope = scope

(* Calls are made by the clients whose duty they are. *)
OnDuty(c) ==
    /\ ocall[c].op \in FacadeOps => ocall[c].op \in plan.duty[c]
    /\ pcall[c].op = "assign" =>
        \/ ocall[c].op = "addMember" /\ ocall[c].at = "assigning"
        \/ plan.duty[c] \cap {"assign", "assignRole"} # {}
    /\ pcall[c].op = "assign" /\ pcall[c].at \in {"create", "update"} =>
        pcall[c].scope \in OrgIds

(* What addMember and assign know. *)
Joins(c) ==
    /\ ocall[c].op = "addMember" /\ ocall[c].at = "joining" =>
        /\ mcall[c].op = "add"
        /\ mcall[c].member = ocall[c].member /\ mcall[c].group = ocall[c].org
        /\ M!Returned(c, "done") => M!IsMember(ocall[c].member, ocall[c].org)
    /\ pcall[c].op = "assign" /\ pcall[c].at # "returned" /\ pcall[c].scope \in OrgIds =>
        M!IsMember(pcall[c].actor, pcall[c].scope)

(* What removeMember knows. *)
Leaves(c) ==
    /\ ocall[c].op = "removeMember" /\ ocall[c].at = "unassigning" =>
        /\ pcall[c].op = "unassign"
        /\ pcall[c].actor = ocall[c].member /\ pcall[c].scope = ocall[c].org
        /\ pcall[c].at = "delete" =>
            \A row \in assignments :
                row.actor = pcall[c].actor /\ row.scope = pcall[c].scope => row.id = pcall[c].row
        /\ P!Returned(c, "done") => ~Holds(ocall[c].member, ocall[c].org)
    /\ ocall[c].op = "removeMember" /\ ocall[c].at = "leaving" =>
        /\ mcall[c].op = "remove"
        /\ mcall[c].member = ocall[c].member /\ mcall[c].group = ocall[c].org
        /\ ~Holds(ocall[c].member, ocall[c].org)
    /\ mcall[c].op = "remove" =>
        /\ ocall[c].op = "removeMember" /\ ocall[c].at = "leaving"
        /\ mcall[c].at = "delete" =>
            \A row \in memberships :
                row.id = mcall[c].row => row.member = mcall[c].member /\ row.group = mcall[c].group

(* With one client that changes the membership, no member has two roles. *)
OneRole ==
    OneChanges(plan) =>
        /\ \A i, j \in assignments : i.actor = j.actor /\ i.scope = j.scope => i = j
        /\ \A c \in Clients :
            pcall[c].op = "assign" /\ pcall[c].at = "create" =>
                ~Holds(pcall[c].actor, pcall[c].scope)

(* Members that are there at the start stay where nobody is removed. *)
Stay ==
    OnlyJoins(plan) /\ (\E c \in Clients : plan.duty[c] \cap {"assign", "assignRole"} # {}) =>
        \A member \in plan.members, org \in plan.orgs \cup plan.scopes :
            org \in OrgIds => M!IsMember(member, org)

RInv ==
    /\ plan \in Deployments
    /\ CallsOK
    /\ RowsOK
    /\ \A c \in Clients : OnDuty(c) /\ Joins(c) /\ Leaves(c)
    /\ OneRole
    /\ Stay
    /\ RolesOfMembersOnly

-----------------------------------------------------------------------------
(* A new id is no id in use. *)
LEMMA NewIdFresh ==
    ASSUME NEW used, IsFiniteSet(used)
    PROVE  NewId(used) \in Nat \ used
<1> DEFINE n == Cardinality(used)
           free == (1 .. n + 1) \ used
<1>1. n \in Nat
  BY FS_CardinalityType
<1>2. free # {}
  <2> SUFFICES ASSUME (1 .. n + 1) \subseteq used PROVE FALSE
    OBVIOUS
  <2>1. Cardinality(1 .. n + 1) = n + 1
    BY <1>1, FS_Interval
  <2>2. Cardinality(1 .. n + 1) <= n
    BY FS_Subset
  <2> QED
    BY <1>1, <2>1, <2>2
<1>3. free \subseteq Nat
  BY <1>1
<1> HIDE DEF free
<1> DEFINE R == {ss \in Nat \X Nat : ss[1] < ss[2]}
<1>4. \E id \in free : \A other \in free : <<other, id>> \notin R
  <2>1. IsWellFoundedOn(R, Nat)
    BY NatLessThanWellFounded, Zenon DEF OpToRel
  <2> HIDE DEF R
  <2> QED
    BY <1>2, <1>3, <2>1, WFMin
<1>5. \E id \in free : \A other \in free : id <= other
  <2>1. PICK id \in free : \A other \in free : <<other, id>> \notin R
    BY <1>4
  <2>2. \A other \in free : other \in Nat /\ id \in Nat /\ ~(other < id)
    BY <1>3, <2>1
  <2> QED
    BY <2>2
<1>6. NewId(used) = CHOOSE id \in free : \A other \in free : id <= other
  BY DEF NewId, free
<1>7. NewId(used) \in free
  BY <1>5, <1>6
<1> QED
  BY <1>3, <1>7 DEF free

(* A where clause of a member and an organisation selects the rows of both. *)
LEMMA Selects ==
    ASSUME NEW row, NEW member \in Members, NEW org \in OrgIds
    PROVE  /\ Matches(row, [actor |-> member, scope |-> org])
                <=> row.actor = member /\ row.scope = org
           /\ Matches(row, [member |-> member, group |-> org])
                <=> row.member = member /\ row.group = org
<1>1. member # Undefined /\ member # Null /\ org # Undefined /\ org # Null
  BY OrganisationAssumption
<1> QED
  BY <1>1 DEF Matches

(* The services' tables are read and written by the operators of Rows. *)
LEMMA PermissionRows ==
    \A table, where, row, id, field, value :
        /\ P!FindMany(table, where) = FindMany(table, where)
        /\ P!FindsNone(table, where) <=> FindsNone(table, where)
        /\ P!Create(table, row) = table \cup {row}
        /\ P!Update(table, id, field, value) = Update(table, id, field, value)
        /\ P!Delete(table, id) = Delete(table, id)
BY DEF P!FindMany, P!FindsNone, P!Matches, P!Create, P!Update, P!Delete,
       FindMany, FindsNone, Matches, Update, Delete

(* What a step of the permission service does to the roles and to its call. *)
PermissionMoves(c) ==
    /\ pcall' = [pcall EXCEPT ![c] = pcall'[c]]
    /\ "op" \in DOMAIN pcall'[c]
    /\ pcall'[c].op = pcall[c].op
    /\ pcall[c].op \in RoleOps =>
         /\ IsRoleCall(pcall'[c])
         /\ pcall'[c].actor = pcall[c].actor
         /\ pcall'[c].scope = pcall[c].scope
         /\ pcall[c].at # "returned"
    /\ \/ assignments' \subseteq assignments
       \/ /\ pcall[c].op = "assign" /\ pcall[c].at = "create"
          /\ \E id : assignments' = assignments \cup
                 {[id |-> id, actor |-> pcall[c].actor,
                   scope |-> pcall[c].scope, role |-> pcall[c].role]}
          /\ pcall'[c].at = "returned"
       \/ /\ pcall[c].op = "assign"
          /\ assignments' = Update(assignments, pcall[c].row, "role", pcall[c].role)
          /\ pcall'[c].at = "returned"
    /\ pcall[c].op = "assign" =>
         /\ pcall'[c].at \in {"create", "update"} =>
             /\ pcall[c].scope \in OrgIds
             /\ assignments' = assignments
         /\ pcall'[c].at = "create" => ~Holds(pcall[c].actor, pcall[c].scope)
    /\ pcall[c].op = "unassign" /\ pcall[c].scope \in OrgIds =>
         /\ pcall'[c].at = "delete" =>
             /\ assignments' = assignments
             /\ \E row \in assignments :
                 /\ row.actor = pcall[c].actor /\ row.scope = pcall[c].scope
                 /\ row.id = pcall'[c].row
         /\ P!Returned(c, "done")' =>
             \/ assignments' = assignments /\ ~Holds(pcall[c].actor, pcall[c].scope)
             \/ /\ pcall[c].at = "delete"
                /\ assignments' = Delete(assignments, pcall[c].row)

LEMMA PermissionMove ==
    ASSUME CallsOK, RowsOK, NEW c \in Clients, P!PermissionStep(c)
    PROVE  PermissionMoves(c)
<1> DEFINE k == pcall[c]
<1>0. /\ DOMAIN pcall = Clients /\ "op" \in DOMAIN k
      /\ k.op \in RoleOps => IsRoleCall(k)
  BY DEF CallsOK, CallOK
<1> DEFINE Same == /\ pcall' = [pcall EXCEPT ![c] = pcall'[c]]
                   /\ "op" \in DOMAIN pcall'[c]
                   /\ pcall'[c].op = k.op
<1>r. ASSUME NEW out,
             pcall' = [pcall EXCEPT ![c] = [@ EXCEPT !.at = "returned", !.out = out]]
      PROVE  /\ Same
             /\ k.op \in RoleOps => /\ IsRoleCall(pcall'[c])
                                    /\ pcall'[c].actor = k.actor
                                    /\ pcall'[c].scope = k.scope
             /\ k.op \in RoleOps => pcall'[c].at = "returned" /\ pcall'[c].out = out
  <2>1. pcall'[c] = [k EXCEPT !.at = "returned", !.out = out]
        /\ pcall' = [pcall EXCEPT ![c] = pcall'[c]]
    BY <1>0, <1>r
  <2>2. Same
    BY <1>0, <2>1
  <2>3. ASSUME k.op \in RoleOps
        PROVE  /\ IsRoleCall(pcall'[c])
               /\ pcall'[c].actor = k.actor /\ pcall'[c].scope = k.scope
               /\ pcall'[c].at = "returned" /\ pcall'[c].out = out
    BY <1>0, <2>1, <2>3 DEF IsRoleCall
  <2> QED
    BY <2>2, <2>3
<1>1. CASE P!ResolveOutside(c) \/ P!ResolveDeny(c) \/ P!ResolveGrant(c) \/ P!ResolveRole(c)
  <2>1. k.op \notin RoleOps /\ UNCHANGED assignments
    BY <1>1 DEF P!ResolveOutside, P!ResolveDeny, P!ResolveGrant, P!ResolveRole, P!Query,
                P!Queries, RoleOps
  <2>2. Same
    <3>1. ASSUME NEW x, pcall' = [pcall EXCEPT ![c] = x], "op" \in DOMAIN x, x.op = k.op
          PROVE  Same
      BY <1>0, <3>1
    <3>2. ASSUME NEW allowed, P!Decides(c, allowed) PROVE Same
      <4>1. CASE P!Returns(c, "yes") \/ P!Returns(c, "no")
        <5> HIDE DEF Same
        <5>1. CASE P!Returns(c, "yes")
          BY <1>0, <5>1 DEF P!Returns, Same
        <5>2. CASE P!Returns(c, "no")
          BY <1>0, <5>2 DEF P!Returns, Same
        <5> QED
          BY <4>1, <5>1, <5>2
      <4>2. CASE pcall' = [pcall EXCEPT ![c].at = "deny", ![c].left = Tail(@)]
        BY <1>0, <4>2
      <4> QED
        BY <3>2, <4>1, <4>2 DEF P!Decides
    <3>3. \A at : pcall' = [pcall EXCEPT ![c].at = at] => Same
      BY <1>0
    <3> QED
      BY <1>1, <3>2, <3>3 DEF P!ResolveOutside, P!ResolveDeny, P!ResolveGrant, P!ResolveRole
  <2> QED
    BY <2>1, <2>2 DEF RoleOps, PermissionMoves
<1> HIDE DEF Same
<1>n. ASSUME k.op \notin RoleOps, Same, assignments' \subseteq assignments
      PROVE  PermissionMoves(c)
  BY <1>n DEF Same, PermissionMoves, RoleOps
<1>f. ASSUME k.op \in RoleOps, NEW id, NEW at \in {"create", "update", "delete"},
             pcall' = [pcall EXCEPT ![c].row = id, ![c].at = at]
      PROVE  /\ Same
             /\ IsRoleCall(pcall'[c])
             /\ pcall'[c].actor = k.actor
             /\ pcall'[c].scope = k.scope
             /\ pcall'[c].at = at /\ pcall'[c].row = id
  BY <1>0, <1>f DEF Same, IsRoleCall
<1>h. ASSUME k.op \in RoleOps, k.scope \in OrgIds
      PROVE  /\ \A row : Matches(row, P!AssignmentWhere(k))
                            <=> row.actor = k.actor /\ row.scope = k.scope
             /\ FindsNone(assignments, P!AssignmentWhere(k)) <=> ~Holds(k.actor, k.scope)
  <2>1. k.actor \in Members
    BY <1>0, <1>h DEF IsRoleCall
  <2>2. \A row : Matches(row, [actor |-> k.actor, scope |-> k.scope])
                    <=> row.actor = k.actor /\ row.scope = k.scope
    BY <1>h, <2>1, Selects
  <2> QED
    BY <2>2 DEF P!AssignmentWhere, FindsNone, FindMany, Holds
<1>2. CASE P!Assign(c)
  <2>1. CASE P!RoleStep(c, "assign", "find") /\ k.scope \notin OrgIds
    <3>1. k.op = "assign" /\ k.at = "find" /\ UNCHANGED assignments
      BY <1>2, <2>1 DEF P!Assign, P!RoleStep, P!Found, P!Returns
    <3>2. pcall' = [pcall EXCEPT ![c] = [@ EXCEPT !.at = "returned", !.out = "threw"]]
      BY <1>2, <2>1 DEF P!Assign, P!RoleStep, P!Returns
    <3> QED
      BY <1>r, <3>1, <3>2 DEF PermissionMoves, Same, RoleOps
  <2>2. CASE P!RoleStep(c, "assign", "find") /\ k.scope \in OrgIds
    <3>1. k.op = "assign" /\ k.at = "find" /\ UNCHANGED assignments
      BY <1>2, <2>2 DEF P!Assign, P!RoleStep, P!Found, P!Returns
    <3>2. \/ /\ FindsNone(assignments, P!AssignmentWhere(k))
             /\ pcall' = [pcall EXCEPT ![c].row = P!NoRow, ![c].at = "create"]
          \/ \E row \in FindMany(assignments, P!AssignmentWhere(k)) :
                pcall' = [pcall EXCEPT ![c].row = row.id, ![c].at = "update"]
      <4>1. \/ /\ P!FindsNone(assignments, P!AssignmentWhere(k))
               /\ pcall' = [pcall EXCEPT ![c].row = P!NoRow, ![c].at = "create"]
            \/ \E row \in P!FindMany(assignments, P!AssignmentWhere(k)) :
                  pcall' = [pcall EXCEPT ![c].row = row.id, ![c].at = "update"]
        BY <1>2, <2>2, <3>1 DEF P!Assign, P!RoleStep, P!Found, P!Returns
      <4>2. /\ P!FindsNone(assignments, P!AssignmentWhere(k))
                  <=> FindsNone(assignments, P!AssignmentWhere(k))
            /\ P!FindMany(assignments, P!AssignmentWhere(k))
                  = FindMany(assignments, P!AssignmentWhere(k))
        BY PermissionRows
      <4> QED
        BY <4>1, <4>2
    <3>3. CASE /\ FindsNone(assignments, P!AssignmentWhere(k))
               /\ pcall' = [pcall EXCEPT ![c].row = P!NoRow, ![c].at = "create"]
      <4>1. ~Holds(k.actor, k.scope)
        BY <1>h, <2>2, <3>1, <3>3 DEF RoleOps
      <4>2. Same /\ IsRoleCall(pcall'[c]) /\ pcall'[c].actor = k.actor
            /\ pcall'[c].scope = k.scope /\ pcall'[c].at = "create"
        BY <1>f, <3>1, <3>3 DEF RoleOps
      <4> QED
        BY <2>2, <3>1, <4>1, <4>2 DEF PermissionMoves, Same, RoleOps
    <3>4. ASSUME NEW row, pcall' = [pcall EXCEPT ![c].row = row.id, ![c].at = "update"]
          PROVE  PermissionMoves(c)
      <4>3. Same /\ IsRoleCall(pcall'[c]) /\ pcall'[c].actor = k.actor
            /\ pcall'[c].scope = k.scope /\ pcall'[c].at = "update"
        BY <1>f, <3>1, <3>4 DEF RoleOps
      <4> QED
        BY <2>2, <3>1, <4>3 DEF PermissionMoves, Same, RoleOps
    <3> QED
      BY <3>2, <3>3, <3>4
  <2>3. CASE P!RoleStep(c, "assign", "create")
    <3>1. /\ k.op = "assign" /\ k.at = "create"
          /\ assignments' = assignments \cup
                {[id |-> P!FreshId(assignments), actor |-> k.actor, scope |-> k.scope,
                  role |-> k.role]}
      BY <1>2, <2>3, PermissionRows DEF P!Assign, P!RoleStep, P!Found, P!Returns
    <3>2. pcall' = [pcall EXCEPT ![c] = [@ EXCEPT !.at = "returned", !.out = "done"]]
      BY <1>2, <2>3 DEF P!Assign, P!RoleStep, P!Returns
    <3>3. Same /\ IsRoleCall(pcall'[c]) /\ pcall'[c].actor = k.actor
          /\ pcall'[c].scope = k.scope /\ pcall'[c].at = "returned"
      BY <1>r, <3>1, <3>2 DEF RoleOps
    <3> QED
      BY <3>1, <3>3 DEF PermissionMoves, Same, RoleOps
  <2>4. CASE P!RoleStep(c, "assign", "update")
    <3>1. /\ k.op = "assign" /\ k.at = "update"
          /\ assignments' = Update(assignments, k.row, "role", k.role)
      BY <1>2, <2>4, PermissionRows DEF P!Assign, P!RoleStep, P!Found, P!Returns
    <3>2. \E out :
            pcall' = [pcall EXCEPT ![c] = [@ EXCEPT !.at = "returned", !.out = out]]
      BY <1>2, <2>4, PermissionRows DEF P!Assign, P!RoleStep, P!Returns
    <3>3. Same /\ IsRoleCall(pcall'[c]) /\ pcall'[c].actor = k.actor
          /\ pcall'[c].scope = k.scope /\ pcall'[c].at = "returned"
      BY <1>r, <3>1, <3>2 DEF RoleOps
    <3> QED
      BY <3>1, <3>3 DEF PermissionMoves, Same, RoleOps
  <2> QED
    BY <1>2, <2>1, <2>2, <2>3, <2>4 DEF P!Assign, P!RoleStep, P!Found, P!Returns
<1>3. CASE P!Unassign(c)
  <2>0. k.op = "unassign" /\ IsRoleCall(k)
    BY <1>0, <1>3 DEF P!Unassign, P!RoleStep, RoleOps
  <2>1. CASE P!RoleStep(c, "unassign", "find") /\ FindsNone(assignments, P!AssignmentWhere(k))
             /\ UNCHANGED assignments
             /\ pcall' = [pcall EXCEPT ![c] = [@ EXCEPT !.at = "returned", !.out = "done"]]
    <3>2. Same /\ IsRoleCall(pcall'[c]) /\ pcall'[c].actor = k.actor
          /\ pcall'[c].scope = k.scope /\ pcall'[c].at = "returned"
      BY <1>r, <2>0, <2>1 DEF RoleOps
    <3>3. k.scope \in OrgIds => ~Holds(k.actor, k.scope)
      BY <1>h, <2>0, <2>1 DEF RoleOps
    <3> QED
      BY <2>0, <2>1, <3>2, <3>3 DEF PermissionMoves, Same, P!RoleStep, RoleOps
  <2>2. ASSUME P!RoleStep(c, "unassign", "find"), UNCHANGED assignments,
               NEW row \in FindMany(assignments, P!AssignmentWhere(k)),
               pcall' = [pcall EXCEPT ![c].row = row.id, ![c].at = "delete"]
        PROVE  PermissionMoves(c)
    <3>1. row \in assignments
      BY DEF FindMany
    <3>3. Same /\ IsRoleCall(pcall'[c]) /\ pcall'[c].actor = k.actor
          /\ pcall'[c].scope = k.scope /\ pcall'[c].at = "delete" /\ pcall'[c].row = row.id
      BY <1>f, <2>0, <2>2 DEF RoleOps
    <3>4. k.scope \in OrgIds => row.actor = k.actor /\ row.scope = k.scope
      BY <1>h, <2>0, <2>2 DEF FindMany, RoleOps
    <3> QED
      BY <2>0, <2>2, <3>1, <3>3, <3>4
         DEF PermissionMoves, Same, P!RoleStep, P!Returned, RoleOps
  <2>3. CASE P!RoleStep(c, "unassign", "delete")
    <3>1. /\ k.at = "delete" /\ assignments' = Delete(assignments, k.row)
      BY <1>3, <2>3, PermissionRows DEF P!Unassign, P!RoleStep, P!Found, P!Returns
    <3>2. pcall' = [pcall EXCEPT ![c] = [@ EXCEPT !.at = "returned", !.out = "done"]]
      BY <1>3, <2>3, PermissionRows DEF P!Unassign, P!RoleStep, P!Returns
    <3>3. Same /\ IsRoleCall(pcall'[c]) /\ pcall'[c].actor = k.actor
          /\ pcall'[c].scope = k.scope /\ pcall'[c].at = "returned"
      BY <1>r, <2>0, <3>2 DEF RoleOps
    <3>4. assignments' \subseteq assignments
      BY <3>1 DEF Delete
    <3> QED
      BY <2>0, <3>1, <3>3, <3>4 DEF PermissionMoves, Same, RoleOps
  <2> QED
    BY <1>3, <2>1, <2>2, <2>3, PermissionRows DEF P!Unassign, P!RoleStep, P!Returns, P!Found
<1>4. CASE P!AddOverride(c) /\ UNCHANGED assignments
  <2>1. k.op \notin RoleOps
    <3>1. k.op \in P!OverrideOps \ P!Revokes
      BY <1>4, Zenon DEF P!AddOverride
    <3> QED
      BY <3>1 DEF P!OverrideOps, RoleOps
  <2>2. Same
    <3>1. ASSUME NEW id, NEW at, P!Found(c, id, at) PROVE Same
      BY <1>0, <3>1 DEF Same, P!Found
    <3>2. ASSUME P!Returns(c, "done") PROVE Same
      BY <1>0, <3>2 DEF Same, P!Returns
    <3>3. (\E id, at : P!Found(c, id, at)) \/ P!Returns(c, "done")
      BY <1>4, Zenon DEF P!AddOverride
    <3> QED
      BY <3>1, <3>2, <3>3
  <2> QED
    BY <1>4, <1>n, <2>1, <2>2
<1>5. CASE P!RevokeOverride(c) /\ UNCHANGED assignments
  <2>1. k.op \notin RoleOps
    BY <1>5 DEF P!RevokeOverride, P!OverrideOps, P!Revokes, RoleOps
  <2>2. Same
    <3>1. ASSUME NEW id, NEW at, P!Found(c, id, at) PROVE Same
      BY <1>0, <3>1 DEF Same, P!Found
    <3>2. ASSUME P!Returns(c, "done") PROVE Same
      BY <1>0, <3>2 DEF Same, P!Returns
    <3>3. (\E id, at : P!Found(c, id, at)) \/ P!Returns(c, "done")
      BY <1>5, Zenon DEF P!RevokeOverride
    <3> QED
      BY <3>1, <3>2, <3>3
  <2> QED
    BY <1>5, <1>n, <2>1, <2>2
<1>6. CASE P!Sweep(c)
  <2>1. k.op \notin RoleOps
    BY <1>0, <1>6 DEF P!Sweep, RoleOps, IsRoleCall
  <2>2. Same
    <3>1. ASSUME NEW at, NEW ids, pcall' = [pcall EXCEPT ![c].at = at, ![c].found = ids]
          PROVE  Same
      BY <1>0, <3>1 DEF Same
    <3>2. ASSUME NEW ids, pcall' = [pcall EXCEPT ![c].found = ids] PROVE Same
      BY <1>0, <3>2 DEF Same
    <3>3. ASSUME P!Returns(c, "done") PROVE Same
      BY <1>0, <3>3 DEF Same, P!Returns
    <3>4. \/ \E at, ids : pcall' = [pcall EXCEPT ![c].at = at, ![c].found = ids]
          \/ \E ids : pcall' = [pcall EXCEPT ![c].found = ids]
          \/ P!Returns(c, "done")
      BY <1>6 DEF P!Sweep, P!SweepLists, P!Swept, P!Returns
    <3> QED
      BY <3>1, <3>2, <3>3, <3>4
  <2>3. assignments' \subseteq assignments
    BY <1>6 DEF P!Sweep, P!Delete
  <2> QED
    BY <1>n, <2>1, <2>2, <2>3
<1>7. CASE P!Rejected(c)
  <2>1. /\ pcall' = [pcall EXCEPT ![c] = [@ EXCEPT !.at = "returned", !.out = "threw"]]
        /\ assignments' = assignments /\ k.at # "returned"
    BY <1>7 DEF P!Rejected, P!Returns, P!InFlight
  <2>2. CASE k.op \in RoleOps
    <3>1. Same /\ IsRoleCall(pcall'[c]) /\ pcall'[c].actor = k.actor
          /\ pcall'[c].scope = k.scope /\ pcall'[c].at = "returned" /\ pcall'[c].out = "threw"
      BY <1>r, <2>1, <2>2
    <3> QED
      BY <2>1, <3>1 DEF PermissionMoves, Same, P!Returned
  <2>3. CASE k.op \notin RoleOps
    <3>1. Same
      BY <1>0, <2>1 DEF Same
    <3> QED
      BY <1>n, <2>1, <2>3, <3>1
  <2> QED
    BY <2>2, <2>3
<1> QED
  BY <1>1, <1>2, <1>3, <1>4, <1>5, <1>6, <1>7 DEF P!PermissionStep

-----------------------------------------------------------------------------
(* The membership service. *)

LEMMA ImageFinite ==
    ASSUME NEW S, IsFiniteSet(S), NEW f
    PROVE  IsFiniteSet({f[x] : x \in S})
<1> DEFINE T == {f[x] : x \in S}
           g == [x \in S |-> f[x]]
<1>1. g \in Surjection(S, T)
  BY DEF Surjection
<1> HIDE DEF T, g
<1> QED
  BY <1>1, FS_Surjection DEF T

LEMMA MembershipRowsSame ==
    \A table, where, row, id :
        /\ M!FindMany(table, where) = FindMany(table, where)
        /\ M!FindsNone(table, where) <=> FindsNone(table, where)
        /\ M!Create(table, row) = table \cup {row}
        /\ M!Delete(table, id) = Delete(table, id)
        /\ M!NewId(table) = NewId(table)
<1>1. \A table : M!NewId(table) = NewId(table)
  <2> SUFFICES ASSUME NEW table PROVE M!NewId(table) = NewId(table)
    OBVIOUS
  <2> DEFINE free == (1 .. Cardinality(table) + 1) \ table
  <2>0. M!Cardinality(table) = Cardinality(table)
    BY DEF M!Cardinality, Cardinality
  <2>1. M!NewId(table) = CHOOSE id \in free : \A other \in free : id <= other
    BY <2>0 DEF M!NewId
  <2>2. NewId(table) = CHOOSE id \in free : \A other \in free : id <= other
    BY DEF NewId
  <2> QED
    BY <2>1, <2>2
<1> QED
  BY <1>1 DEF M!FindMany, M!FindsNone, M!Matches, M!Create, M!Delete,
              FindMany, FindsNone, Matches, Delete

(* A new membership has an id that no row has and no call knows. *)
LEMMA FreshMembership ==
    ASSUME CallsOK, RowsOK
    PROVE  /\ M!FreshId \in Nat
           /\ \A row \in memberships : row.id # M!FreshId
           /\ \A d \in Clients : mcall[d].op = "remove" => mcall[d].row # M!FreshId
<1> DEFINE ids == [row \in memberships |-> row.id]
           D == {d \in Clients : "row" \in DOMAIN mcall[d]}
           held == [d \in D |-> mcall[d].row]
           used == {ids[row] : row \in memberships} \cup {held[d] : d \in D}
<1>1. IsFiniteSet(D)
  BY OrganisationAssumption, FS_Subset
<1>2. IsFiniteSet({ids[row] : row \in memberships}) /\ IsFiniteSet({held[d] : d \in D})
  <2> HIDE DEF ids, held, D
  <2> QED
    BY <1>1, ImageFinite DEF RowsOK
<1>3. IsFiniteSet(used)
  <2> HIDE DEF ids, held, D
  <2> QED
    BY <1>2, FS_Union
<1>4. M!FreshId = NewId(used)
  <2>1. {row.id : row \in memberships}
          \cup {mcall[c].row : c \in {d \in Clients : "row" \in DOMAIN mcall[d]}} = used
    OBVIOUS
  <2> HIDE DEF used
  <2> QED
    BY <2>1, MembershipRowsSame DEF M!FreshId
<1>5. M!FreshId \in Nat \ used
  <2> HIDE DEF used
  <2> QED
    BY <1>3, <1>4, NewIdFresh
<1>6. \A d \in Clients : mcall[d].op = "remove" => d \in D
  BY DEF CallsOK, CallOK, MemberCalls
<1> QED
  BY <1>5, <1>6

(* What a step of the membership service does to the rows and to its call. *)
MembershipMoves(c) ==
    /\ mcall' = [mcall EXCEPT ![c] = mcall'[c]]
    /\ "op" \in DOMAIN mcall'[c]
    /\ mcall'[c].op = mcall[c].op
    /\ mcall[c].op \in {"add", "remove"} =>
         /\ mcall'[c] \in MemberCalls
         /\ mcall'[c].member = mcall[c].member
         /\ mcall'[c].group = mcall[c].group
         /\ mcall[c].at # "returned"
    /\ \/ memberships' = memberships
       \/ /\ mcall[c].op = "add" /\ mcall'[c].at = "returned"
          /\ \E id \in Nat :
              /\ \A row \in memberships : row.id # id
              /\ \A d \in Clients : mcall[d].op = "remove" => mcall[d].row # id
              /\ memberships' = memberships \cup
                     {[id |-> id, member |-> mcall[c].member, group |-> mcall[c].group]}
       \/ /\ mcall[c].op = "remove" /\ mcall[c].at = "delete" /\ mcall'[c].at = "returned"
          /\ memberships' = Delete(memberships, mcall[c].row)
    /\ mcall[c].op = "add" /\ M!Returned(c, "done")' =>
         \E row \in memberships' : row.member = mcall[c].member /\ row.group = mcall[c].group
    /\ mcall[c].op = "remove" /\ mcall'[c].at = "delete" =>
         /\ memberships' = memberships
         /\ \E row \in memberships :
             /\ row.member = mcall[c].member /\ row.group = mcall[c].group
             /\ row.id = mcall'[c].row

LEMMA MembershipMove ==
    ASSUME CallsOK, RowsOK, NEW c \in Clients, M!MembershipStep(c)
    PROVE  MembershipMoves(c)
<1> DEFINE k == mcall[c]
           MemberOps == {"add", "remove"}
           Same == /\ mcall' = [mcall EXCEPT ![c] = mcall'[c]]
                   /\ "op" \in DOMAIN mcall'[c]
                   /\ mcall'[c].op = k.op
           Kept == /\ mcall'[c] \in MemberCalls
                   /\ mcall'[c].member = k.member
                   /\ mcall'[c].group = k.group
<1>0. /\ DOMAIN mcall = Clients /\ "op" \in DOMAIN k
      /\ k.op \in MemberOps => k \in MemberCalls
  BY DEF CallsOK, CallOK
<1> DEFINE Ret(out) ==
        mcall' = [mcall EXCEPT ![c] = [@ EXCEPT !.at = "returned", !.out = out]]
<1>r. ASSUME NEW out \in {"done", "threw"}, Ret(out)
      PROVE  Same /\ (k.op \in MemberOps =>
                         Kept /\ mcall'[c].at = "returned" /\ mcall'[c].out = out)
  <2>1. /\ mcall'[c] = [k EXCEPT !.at = "returned", !.out = out]
        /\ mcall' = [mcall EXCEPT ![c] = mcall'[c]]
    BY <1>0, <1>r
  <2>2. Same
    BY <1>0, <2>1
  <2>3. ASSUME k \in MemberCalls
        PROVE  Kept /\ mcall'[c].at = "returned" /\ mcall'[c].out = out
    BY <2>1, <2>3 DEF MemberCalls
  <2> QED
    BY <1>0, <2>2, <2>3
<1> HIDE DEF Same, Kept
<1>1. CASE M!Add(c)
  <2>1. k.op = "add" /\ k \in MemberCalls
    BY <1>0, <1>1 DEF M!Add
  <2>2. CASE k.at = "find" /\ Ret("threw") /\ memberships' = memberships
    BY <1>r, <2>1, <2>2 DEF Same, Kept, MembershipMoves, M!Returned
  <2>3. CASE k.at = "find" /\ mcall' = [mcall EXCEPT ![c].at = "create"]
               /\ memberships' = memberships
    <3>1. Same /\ Kept /\ mcall'[c].at = "create"
      BY <1>0, <2>1, <2>3 DEF Same, Kept, MemberCalls
    <3> QED
      BY <2>1, <2>3, <3>1 DEF Same, Kept, MembershipMoves, M!Returned
  <2>4. CASE /\ k.at = "create" /\ Ret("done")
             /\ memberships' = memberships \cup
                    {[id |-> M!FreshId, member |-> k.member, group |-> k.group]}
    <3>1. Same /\ Kept /\ mcall'[c].at = "returned"
      BY <1>r, <2>1, <2>4
    <3>2. \E row \in memberships' : row.member = k.member /\ row.group = k.group
      <4>1. [id |-> M!FreshId, member |-> k.member, group |-> k.group] \in memberships'
        BY <2>4
      <4> QED
        BY <4>1
    <3> QED
      BY <2>1, <2>4, <3>1, <3>2, FreshMembership DEF Same, Kept, MembershipMoves
  <2> QED
    BY <1>1, <2>2, <2>3, <2>4, MembershipRowsSame DEF M!Add, M!Returns
<1>2. CASE M!Remove(c)
  <2>1. k.op = "remove" /\ k \in MemberCalls
    BY <1>0, <1>2 DEF M!Remove
  <2>2. CASE k.at = "find" /\ Ret("threw") /\ memberships' = memberships
    BY <1>r, <2>1, <2>2 DEF Same, Kept, MembershipMoves, M!Returned
  <2>3. ASSUME k.at = "find", memberships' = memberships,
               NEW row \in FindMany(memberships, M!Where(k)),
               mcall' = [mcall EXCEPT ![c].row = row.id, ![c].at = "delete"]
        PROVE  MembershipMoves(c)
    <3>1. row \in memberships /\ row.member = k.member /\ row.group = k.group
      <4>1. k.member \in Members /\ k.group \in OrgIds
        BY <2>1 DEF MemberCalls
      <4>2. row \in memberships /\ Matches(row, [member |-> k.member, group |-> k.group])
        BY <2>3 DEF FindMany, M!Where
      <4> HIDE DEF k
      <4> QED
        BY <4>1, <4>2, Selects
    <3>2. row.id \in Nat
      BY <3>1 DEF RowsOK, M!MembershipRows
    <3>3. Same /\ Kept /\ mcall'[c].at = "delete" /\ mcall'[c].row = row.id
      BY <1>0, <2>1, <2>3, <3>2 DEF Same, Kept, MemberCalls
    <3> QED
      BY <2>1, <2>3, <3>1, <3>3 DEF Same, Kept, MembershipMoves, M!Returned
  <2>4. CASE k.at = "delete" /\ Ret("done") /\ memberships' = Delete(memberships, k.row)
    <3>1. Same /\ Kept /\ mcall'[c].at = "returned"
      BY <1>r, <2>1, <2>4
    <3> QED
      BY <2>1, <2>4, <3>1 DEF Same, Kept, MembershipMoves
  <2>5. \/ k.at = "find" /\ Ret("threw") /\ memberships' = memberships
        \/ /\ k.at = "find" /\ memberships' = memberships
           /\ \E row \in M!FindMany(memberships, M!Where(k)) :
                 mcall' = [mcall EXCEPT ![c].row = row.id, ![c].at = "delete"]
        \/ k.at = "delete" /\ Ret("done") /\ memberships' = M!Delete(memberships, k.row)
    BY <1>2 DEF M!Remove, M!Returns
  <2>6. /\ M!FindMany(memberships, M!Where(k)) = FindMany(memberships, M!Where(k))
        /\ M!Delete(memberships, k.row) = Delete(memberships, k.row)
    BY MembershipRowsSame
  <2> QED
    BY <2>2, <2>3, <2>4, <2>5, <2>6
<1>3. CASE M!ListGroups(c)
  <2>1. k.op \notin MemberOps
    BY <1>3 DEF M!ListGroups
  <2>2. Same
    BY <1>0, <1>3 DEF M!ListGroups, Same
  <2> QED
    BY <1>3, <2>1, <2>2 DEF Same, MembershipMoves, M!ListGroups
<1>4. CASE M!Rejected(c)
  <2>1. Ret("threw") /\ memberships' = memberships /\ k.at # "returned"
    BY <1>4 DEF M!Rejected, M!InFlight, M!Returns
  <2>2. Same /\ (k.op \in MemberOps =>
                    Kept /\ mcall'[c].at = "returned" /\ mcall'[c].out = "threw")
    BY <1>r, <2>1
  <2> QED
    BY <2>1, <2>2 DEF Same, Kept, MembershipMoves, M!Returned
<1> QED
  BY <1>1, <1>2, <1>3, <1>4 DEF M!MembershipStep

-----------------------------------------------------------------------------
(* What the duties keep apart. *)

(* While a member is being removed nobody gives roles, and nobody else adds or
   removes members. *)
LEMMA LeaverAlone ==
    ASSUME \A d \in Deployments : Careful(d), RInv, NEW c \in Clients,
           ocall[c].op = "removeMember"
    PROVE  /\ OneChanges(plan) /\ ~OnlyJoins(plan)
           /\ \A d \in Clients : pcall[d].op # "assign"
           /\ \A d \in Clients \ {c} : ocall[d].op \notin {"addMember", "removeMember"}
<1>1. "removeMember" \in plan.duty[c]
  BY DEF RInv, OnDuty, FacadeOps
<1>2. OneChanges(plan) /\ ~OnlyJoins(plan)
  BY <1>1 DEF RInv, Careful, OnlyJoins
<1>3. \A d \in Clients \ {c} : plan.duty[d] \cap {"addMember", "removeMember"} = {}
  BY <1>1, <1>2 DEF OneChanges
<1>4. \A d \in Clients \ {c} : ocall[d].op \notin {"addMember", "removeMember"}
  BY <1>3 DEF RInv, OnDuty, FacadeOps
<1>5. ASSUME NEW d \in Clients, pcall[d].op = "assign" PROVE FALSE
  <2>1. ocall[d].op = "addMember"
    BY <1>2, <1>5 DEF RInv, OnDuty, OneChanges
  <2> QED
    BY <1>4, <2>1
<1> QED
  BY <1>2, <1>4, <1>5

(* Where one client changes the membership, one at most gives a role. *)
LEMMA OneAssigns ==
    ASSUME RInv, OneChanges(plan), NEW c \in Clients, NEW d \in Clients,
           pcall[c].op = "assign", pcall[d].op = "assign"
    PROVE  c = d
<1>1. \A e \in {c, d} : ocall[e].op = "addMember"
  BY DEF RInv, OnDuty, OneChanges
<1>2. \A e \in {c, d} : "addMember" \in plan.duty[e]
  BY <1>1 DEF RInv, OnDuty, FacadeOps
<1> QED
  BY <1>2 DEF OneChanges

(* A client whose duty is to give roles gives them to members. *)
LEMMA DutyToMembers ==
    ASSUME \A d \in Deployments : Careful(d), RInv, NEW c \in Clients,
           plan.duty[c] \cap {"assign", "assignRole"} # {},
           NEW member \in plan.members, NEW org \in (plan.orgs \cup plan.scopes) \cap OrgIds
    PROVE  M!IsMember(member, org)
<1>1. OnlyJoins(plan)
  BY DEF RInv, Careful, OneChanges
<1> QED
  BY <1>1 DEF RInv, Stay

-----------------------------------------------------------------------------
(* Steps that leave the rows alone: what they do to the calls of one client. *)

OnlyOf(c) ==
    /\ DOMAIN ocall' = Clients /\ DOMAIN pcall' = Clients /\ DOMAIN mcall' = Clients
    /\ \A d \in Clients \ {c} : ocall'[d] = ocall[d] /\ pcall'[d] = pcall[d] /\ mcall'[d] = mcall[d]

RowsKept == plan' = plan /\ assignments' = assignments /\ memberships' = memberships

LEMMA QuietStep ==
    ASSUME RInv, RowsKept, NEW c \in Clients, OnlyOf(c),
           CallOK(c)', OnDuty(c)', Joins(c)', Leaves(c)',
           pcall'[c].op = "assign" /\ pcall'[c].at = "create" => pcall'[c] = pcall[c]
    PROVE  RInv'
<1>1. /\ plan' \in Deployments /\ RowsOK' /\ Stay' /\ RolesOfMembersOnly'
  BY DEF RInv, RowsKept, RowsOK, Stay, OnlyJoins, RolesOfMembersOnly, M!IsMember
<1>2. ASSUME NEW d \in Clients
      PROVE  CallOK(d)' /\ OnDuty(d)' /\ Joins(d)' /\ Leaves(d)'
  <2>1. CASE d = c
    BY <2>1
  <2>2. CASE d # c
    <3>1. ocall'[d] = ocall[d] /\ pcall'[d] = pcall[d] /\ mcall'[d] = mcall[d]
      BY <2>2 DEF OnlyOf
    <3>2. CallOK(d)'
      BY <3>1 DEF RInv, CallsOK, CallOK
    <3>3. OnDuty(d)'
      BY <3>1 DEF RInv, OnDuty, RowsKept
    <3>4. Joins(d)'
      BY <3>1 DEF RInv, Joins, RowsKept, M!Returned, M!IsMember
    <3>5. Leaves(d)'
      BY <3>1 DEF RInv, Leaves, RowsKept, P!Returned, Holds
    <3> QED
      BY <3>2, <3>3, <3>4, <3>5
  <2> QED
    BY <2>1, <2>2
<1>3. CallsOK'
  BY <1>2 DEF OnlyOf, CallsOK
<1>4. OneRole'
  <2>1. ASSUME NEW d \in Clients, pcall'[d].op = "assign" /\ pcall'[d].at = "create"
        PROVE  pcall'[d] = pcall[d]
    BY <2>1 DEF OnlyOf
  <2> QED
    BY <2>1 DEF RInv, OneRole, OneChanges, RowsKept, Holds
<1> QED
  BY <1>1, <1>2, <1>3, <1>4 DEF RInv

(* Calls that have nothing to do with the membership. *)
Plain(c) ==
    /\ RowsKept /\ OnlyOf(c)
    /\ ocall[c].op \notin FacadeOps
    /\ "op" \in DOMAIN ocall'[c] /\ ocall'[c].op \notin FacadeOps
    /\ \/ pcall'[c] = pcall[c]
       \/ "op" \in DOMAIN pcall'[c] /\ pcall'[c].op \notin RoleOps
    /\ \/ mcall'[c] = mcall[c]
       \/ "op" \in DOMAIN mcall'[c] /\ mcall'[c].op \notin {"add", "remove"}

LEMMA PlainStep ==
    ASSUME RInv, NEW c \in Clients, Plain(c)
    PROVE  RInv'
<1>1. CallOK(c)'
  BY DEF Plain, RInv, CallsOK, CallOK
<1>2. OnDuty(c)'
  BY DEF Plain, RInv, OnDuty, RowsKept, FacadeOps, RoleOps
<1>3. Joins(c)'
  BY DEF Plain, RInv, Joins, RowsKept, FacadeOps, RoleOps, M!IsMember
<1>4. Leaves(c)'
  BY DEF Plain, RInv, Leaves, FacadeOps
<1> QED
  BY <1>1, <1>2, <1>3, <1>4, QuietStep DEF Plain, RoleOps

(* The calls of the organisation service that are not about members, and those
   of the permission service that are not about roles. *)
LEMMA PlainClient ==
    ASSUME CallsOK, plan' = plan, NEW c \in Clients,
           \/ StartCreate(c) \/ StartChange(c) \/ StartOverride(c)
           \/ StartQuery(c) \/ StartSweep(c) \/ Answered(c)
           \/ \E member \in plan.members : May(c, "listForMember") /\ BeginList(c, member)
    PROVE  Plain(c)
<1>0. /\ DOMAIN ocall = Clients /\ DOMAIN pcall = Clients /\ DOMAIN mcall = Clients
  BY DEF CallsOK
<1>1. ASSUME NEW x, ocall[c] = Idle, x.op \notin FacadeOps, "op" \in DOMAIN x,
             ocall' = [ocall EXCEPT ![c] = x], OnlyOrganisation
      PROVE  Plain(c)
  BY <1>0, <1>1 DEF Plain, RowsKept, OnlyOf, OnlyOrganisation, permissionVars, membershipVars,
                    Idle, FacadeOps
<1>2. ASSUME NEW x, ocall[c] = Idle, x.op \notin RoleOps, "op" \in DOMAIN x,
             pcall' = [pcall EXCEPT ![c] = x], OnlyPermission
      PROVE  Plain(c)
  BY <1>0, <1>2 DEF Plain, RowsKept, OnlyOf, OnlyPermission, ovars, membershipVars,
                    Idle, FacadeOps
<1>3. CASE StartCreate(c)
  <2>1. \A slug : CreateCall(slug).op = "create" /\ "op" \in DOMAIN CreateCall(slug)
    BY DEF CreateCall
  <2> QED
    BY <1>1, <1>3, <2>1 DEF StartCreate, May, FacadeOps
<1>4. CASE StartChange(c)
  <2>1. \A op, org, slug, member :
            /\ ChangeCall(op, org, slug, member).op = op
            /\ "op" \in DOMAIN ChangeCall(op, org, slug, member)
    BY DEF ChangeCall
  <2>2. PICK op \in Changes, org \in OrgIds, slug \in Slugs \cup {NoSlug},
             member \in plan.members \cup {NoMember} :
            ocall[c] = Idle /\ ocall' = [ocall EXCEPT ![c] = ChangeCall(op, org, slug, member)]
    BY <1>4 DEF StartChange, May
  <2>3. OnlyOrganisation
    BY <1>4, Zenon DEF StartChange
  <2> QED
    BY <1>1, <2>1, <2>2, <2>3 DEF FacadeOps, Changes
<1>5. CASE StartOverride(c)
  <2>1. \A op, actor, action, scope, resource :
            /\ P!OverrideCall(op, actor, action, scope, resource).op = op
            /\ "op" \in DOMAIN P!OverrideCall(op, actor, action, scope, resource)
    BY DEF P!OverrideCall
  <2>2. PICK op \in P!OverrideOps, actor \in plan.members, scope \in plan.scopes,
             resource \in plan.levels :
            /\ ocall[c] = Idle
            /\ pcall' = [pcall EXCEPT ![c] =
                   P!OverrideCall(op, actor, "update", scope, resource)]
    BY <1>5 DEF StartOverride, May, P!Starts
  <2>3. OnlyPermission
    BY <1>5, Zenon DEF StartOverride
  <2> QED
    BY <1>2, <2>1, <2>2, <2>3 DEF P!OverrideOps, RoleOps
<1>6. CASE StartQuery(c)
  <2>1. \A op, actor, actions, scope, resource :
            /\ P!QueryCall(op, actor, actions, scope, resource).op = op
            /\ "op" \in DOMAIN P!QueryCall(op, actor, actions, scope, resource)
    BY DEF P!QueryCall
  <2>2. PICK op \in P!Queries, actor \in plan.members, actions \in plan.questions,
             scope \in plan.scopes, resource \in plan.levels :
            /\ ocall[c] = Idle
            /\ pcall' = [pcall EXCEPT ![c] =
                   P!QueryCall(op, actor, actions, scope, resource)]
    BY <1>6 DEF StartQuery, May, P!Starts
  <2>3. OnlyPermission
    BY <1>6, Zenon DEF StartQuery
  <2> QED
    BY <1>2, <2>1, <2>2, <2>3 DEF P!Queries, RoleOps
<1>7. CASE StartSweep(c)
  <2>1. \A op, where :
            P!SweepCall(op, where).op = op /\ "op" \in DOMAIN P!SweepCall(op, where)
    BY DEF P!SweepCall
  <2>2. PICK op \in {"revokeScope", "revokeAll"} :
            ocall[c] = Idle /\ \E where : pcall' = [pcall EXCEPT ![c] = P!SweepCall(op, where)]
    BY <1>7 DEF StartSweep, May, P!Starts
  <2>3. OnlyPermission
    BY <1>7, Zenon DEF StartSweep
  <2> QED
    BY <1>2, <2>1, <2>2, <2>3 DEF RoleOps
<1>8. CASE Answered(c)
  <2>1. ocall[c] = Idle /\ pcall' = [pcall EXCEPT ![c] = P!Idle]
    BY <1>8 DEF Answered, P!Takes
  <2>2. OnlyPermission
    BY <1>8, Zenon DEF Answered
  <2>3. P!Idle.op = "none" /\ "op" \in DOMAIN P!Idle
    BY DEF P!Idle
  <2> QED
    BY <1>2, <2>1, <2>2, <2>3 DEF RoleOps
<1>9. CASE \E member \in plan.members : May(c, "listForMember") /\ BeginList(c, member)
  <2>1. PICK member : ocall[c] = Idle /\ BeginList(c, member)
    BY <1>9 DEF May
  <2> QED
    BY <1>0, <2>1 DEF Plain, RowsKept, OnlyOf, BeginList, ListCall, M!Starts, M!ListCall,
                      permissionVars, Idle, FacadeOps
<1> QED
  BY <1>3, <1>4, <1>5, <1>6, <1>7, <1>8, <1>9

LEMMA PlainOrganisation ==
    ASSUME CallsOK, plan' = plan, NEW c \in Clients,
           \/ CreateFind(c) \/ CreateInsert(c) \/ LoadMissing(c) \/ Load(c) \/ Checked(c)
           \/ UpdateFind(c) \/ UpdateWrite(c) \/ DeleteWrite(c)
           \/ GroupsListed(c) \/ ListOne(c) \/ Listed(c) \/ Rejected(c)
    PROVE  Plain(c)
<1> DEFINE k == ocall[c]
<1>0. /\ DOMAIN ocall = Clients /\ DOMAIN pcall = Clients /\ DOMAIN mcall = Clients
      /\ "op" \in DOMAIN k /\ (k.op \in FacadeOps => IsFacadeCall(k))
  BY DEF CallsOK, CallOK
<1>1. ASSUME NEW at, Goes(c, at)
      PROVE  /\ \A d \in Clients \ {c} : ocall'[d] = ocall[d]
             /\ DOMAIN ocall' = Clients /\ "op" \in DOMAIN ocall'[c] /\ ocall'[c].op = k.op
  BY <1>0, <1>1 DEF Goes
<1>2. ASSUME Ends(c)
      PROVE  /\ \A d \in Clients \ {c} : ocall'[d] = ocall[d]
             /\ DOMAIN ocall' = Clients /\ "op" \in DOMAIN ocall'[c]
             /\ ocall'[c].op \notin FacadeOps
  BY <1>0, <1>2 DEF Ends, Idle, FacadeOps
<1>3. CASE Load(c)
  <2>1. P!QueryCall("canAll", k.member, <<Perm(k.op)>>, k.org, Undefined).op = "canAll"
        /\ "op" \in DOMAIN P!QueryCall("canAll", k.member, <<Perm(k.op)>>, k.org, Undefined)
    BY DEF P!QueryCall
  <2>2. k.op \in Changes /\ UNCHANGED <<assignments, memberships, mcall>>
    BY <1>3 DEF Load, membershipVars
  <2>3. \A d \in Clients \ {c} : ocall'[d] = ocall[d]
    BY <1>0, <1>3 DEF Load
  <2>4. DOMAIN ocall' = Clients /\ "op" \in DOMAIN ocall'[c] /\ ocall'[c].op = k.op
    BY <1>0, <1>3 DEF Load
  <2>5. \/ pcall' = pcall
        \/ pcall' = [pcall EXCEPT
               ![c] = P!QueryCall("canAll", k.member, <<Perm(k.op)>>, k.org, Undefined)]
    BY <1>3 DEF Load, P!Starts
  <2> QED
    BY <1>0, <2>1, <2>2, <2>3, <2>4, <2>5
       DEF Plain, RowsKept, OnlyOf, Changes, FacadeOps, RoleOps
<1>4. CASE Checked(c)
  <2>1. k.op \in Changes /\ UNCHANGED <<assignments, memberships, mcall>>
        /\ pcall' = [pcall EXCEPT ![c] = P!Idle]
    BY <1>4 DEF Checked, P!Takes, membershipVars
  <2>2. Ends(c) \/ \E at : Goes(c, at)
    BY <1>4, Zenon DEF Checked
  <2> QED
    BY <1>0, <1>1, <1>2, <2>1, <2>2
       DEF Plain, RowsKept, OnlyOf, Changes, FacadeOps, RoleOps, P!Idle
<1>5. CASE GroupsListed(c)
  <2>1. k.op = "listForMember" /\ UNCHANGED <<assignments, memberships, pcall>>
        /\ mcall' = [mcall EXCEPT ![c] = M!Idle]
    BY <1>5 DEF GroupsListed, At, M!Takes, permissionVars
  <2>2. Ends(c) \/ ocall' = [ocall EXCEPT ![c].at = "orgs", ![c].left = mcall[c].groups]
    BY <1>5, Zenon DEF GroupsListed
  <2>3. CASE Ends(c)
    BY <1>0, <1>2, <2>1, <2>3
       DEF Plain, RowsKept, OnlyOf, FacadeOps, M!Idle
  <2>4. CASE ocall' = [ocall EXCEPT ![c].at = "orgs", ![c].left = mcall[c].groups]
    BY <1>0, <2>1, <2>4
       DEF Plain, RowsKept, OnlyOf, FacadeOps, M!Idle
  <2> QED
    BY <2>2, <2>3, <2>4
<1>6. CASE ListOne(c)
  BY <1>0, <1>6 DEF ListOne, At, Quiet, permissionVars, membershipVars, Plain, RowsKept,
                    OnlyOf, FacadeOps
<1>7. ASSUME k.op \notin FacadeOps, Quiet, Ends(c) \/ \E at : Goes(c, at)
      PROVE  Plain(c)
  BY <1>0, <1>1, <1>2, <1>7
     DEF Quiet, permissionVars, membershipVars, Plain, RowsKept, OnlyOf
<1>8. CASE CreateFind(c) \/ CreateInsert(c) \/ LoadMissing(c) \/ UpdateFind(c)
           \/ UpdateWrite(c) \/ DeleteWrite(c) \/ Listed(c)
  <2>1. k.op \notin FacadeOps
    BY <1>8 DEF CreateFind, CreateInsert, LoadMissing, UpdateFind, UpdateWrite, DeleteWrite,
                Listed, At, Changes, FacadeOps
  <2>2. Quiet /\ (Ends(c) \/ \E at : Goes(c, at))
    BY <1>8, Zenon DEF CreateFind, CreateInsert, LoadMissing, UpdateFind, UpdateWrite,
                DeleteWrite, Listed
  <2> QED
    BY <1>7, <2>1, <2>2
<1>9. CASE Rejected(c)
  <2>1. k.op \notin FacadeOps
    BY <1>0, <1>9 DEF Rejected, IsFacadeCall
  <2> QED
    BY <1>7, <1>9, <2>1 DEF Rejected
<1> QED
  BY <1>3, <1>4, <1>5, <1>6, <1>8, <1>9

-----------------------------------------------------------------------------
(* The calls about members and roles. *)

LEMMA RoleCallIs ==
    ASSUME NEW op, NEW actor \in Members, NEW role, NEW scope
    PROVE  LET k == P!RoleCall(op, actor, role, scope)
           IN  /\ IsRoleCall(k) /\ "op" \in DOMAIN k
               /\ k.op = op /\ k.at = "find" /\ k.actor = actor /\ k.scope = scope
BY DEF P!RoleCall, IsRoleCall

LEMMA MemberCallIs ==
    ASSUME NEW op \in {"add", "remove"}, NEW member \in Members, NEW org \in OrgIds
    PROVE  LET k == M!MembershipCall(op, member, org)
           IN  /\ k \in MemberCalls /\ "op" \in DOMAIN k
               /\ k.op = op /\ k.at = "find" /\ k.member = member /\ k.group = org
BY DEF M!MembershipCall, MemberCalls, M!NoRow

LEMMA FacadeCallIs ==
    ASSUME NEW op \in FacadeOps, NEW at \in {"joining", "assigning", "unassigning", "leaving"},
           NEW org \in OrgIds, NEW member \in Members, NEW role
    PROVE  LET k == MemberCall(op, at, org, member, role)
           IN  /\ IsFacadeCall(k) /\ "op" \in DOMAIN k
               /\ k.op = op /\ k.at = at /\ k.org = org /\ k.member = member
BY DEF MemberCall, IsFacadeCall

LEMMA RoleStarts ==
    ASSUME \A d \in Deployments : Careful(d), RInv, plan' = plan, NEW c \in Clients,
           StartRole(c)
    PROVE  RInv'
<1>0. /\ DOMAIN ocall = Clients /\ DOMAIN pcall = Clients /\ DOMAIN mcall = Clients
      /\ plan.members \subseteq Members /\ Joins(c) /\ Leaves(c) /\ CallOK(c)
  BY DEF RInv, CallsOK, Careful, Typed
<1>1. RowsKept /\ ocall' = ocall /\ mcall' = mcall
  BY DEF StartRole, OnlyPermission, ovars, membershipVars, RowsKept
<1>2. PICK op \in RoleOps, scope \in plan.scopes, member \in plan.members,
             role \in plan.roles \cup {"none"} :
          /\ op \in plan.duty[c] /\ ocall[c] = Idle
          /\ pcall' = [pcall EXCEPT ![c] = P!RoleCall(op, member, role, scope)]
  BY DEF StartRole, May, P!Starts, RoleOps
<1>3. /\ IsRoleCall(pcall'[c]) /\ "op" \in DOMAIN pcall'[c]
      /\ pcall'[c].op = op /\ pcall'[c].at = "find"
      /\ pcall'[c].actor = member /\ pcall'[c].scope = scope
  BY <1>0, <1>2, RoleCallIs
<1>4. OnlyOf(c)
  BY <1>0, <1>1, <1>2 DEF OnlyOf
<1>5. ocall'[c].op = "none" /\ mcall'[c] = mcall[c] /\ "op" \in DOMAIN ocall'[c]
  BY <1>1, <1>2 DEF Idle
<1>6. CallOK(c)'
  BY <1>0, <1>3, <1>5 DEF CallOK, FacadeOps
<1>7. OnDuty(c)'
  BY <1>1, <1>2, <1>3, <1>5 DEF OnDuty, RowsKept, FacadeOps
<1>8. Joins(c)'
  <2>1. ASSUME op = "assign", scope \in OrgIds PROVE M!IsMember(member, scope)
    BY <1>2, <2>1, DutyToMembers
  <2> QED
    BY <1>1, <1>3, <1>5, <2>1 DEF Joins, RowsKept, M!IsMember
<1>9. Leaves(c)'
  BY <1>0, <1>1, <1>2, <1>5 DEF Leaves, Idle
<1> QED
  BY <1>1, <1>3, <1>4, <1>6, <1>7, <1>8, <1>9, QuietStep

LEMMA MemberStarts ==
    ASSUME \A d \in Deployments : Careful(d), RInv, plan' = plan, NEW c \in Clients,
           StartMember(c)
    PROVE  RInv'
<1>0. /\ DOMAIN ocall = Clients /\ DOMAIN pcall = Clients /\ DOMAIN mcall = Clients
      /\ plan.members \subseteq Members /\ plan.orgs \subseteq OrgIds
      /\ CallsOK /\ Joins(c) /\ Leaves(c) /\ CallOK(c) /\ OnDuty(c)
  BY DEF RInv, CallsOK, Careful, Typed
<1>1. PICK org \in plan.orgs, member \in plan.members :
        \/ /\ May(c, "addMember")
           /\ \E role \in plan.roles : BeginAddMember(c, org, member, role)
        \/ May(c, "removeMember") /\ BeginRemoveMember(c, org, member)
        \/ /\ May(c, "assignRole")
           /\ \E role \in plan.roles : BeginAssignRole(c, org, member, role)
        \/ May(c, "listForMember") /\ BeginList(c, member)
  BY DEF StartMember
<1>2. org \in OrgIds /\ member \in Members
  BY <1>0
<1>3. CASE /\ May(c, "addMember")
           /\ \E role \in plan.roles : BeginAddMember(c, org, member, role)
  <2>1. PICK role \in plan.roles :
          /\ ocall' = [ocall EXCEPT ![c] = MemberCall("addMember", "joining", org, member, role)]
          /\ mcall' = [mcall EXCEPT ![c] = M!MembershipCall("add", member, org)]
          /\ pcall' = pcall /\ UNCHANGED <<assignments, memberships>>
    BY <1>3 DEF BeginAddMember, M!Starts, permissionVars
  <2>2. "addMember" \in plan.duty[c] /\ pcall[c].op = "none" /\ pcall'[c] = pcall[c]
    BY <1>3, <2>1 DEF May, P!Idle
  <2>3. /\ IsFacadeCall(ocall'[c]) /\ "op" \in DOMAIN ocall'[c]
        /\ ocall'[c].op = "addMember" /\ ocall'[c].at = "joining"
        /\ ocall'[c].org = org /\ ocall'[c].member = member
    BY <1>0, <1>2, <2>1, FacadeCallIs DEF FacadeOps
  <2>4. /\ mcall'[c] \in MemberCalls /\ "op" \in DOMAIN mcall'[c]
        /\ mcall'[c].op = "add" /\ mcall'[c].at = "find"
        /\ mcall'[c].member = member /\ mcall'[c].group = org
    BY <1>0, <1>2, <2>1, MemberCallIs
  <2>5. RowsKept /\ OnlyOf(c)
    BY <1>0, <2>1 DEF RowsKept, OnlyOf
  <2>6. CallOK(c)'
    BY <1>0, <2>2, <2>3, <2>4 DEF CallOK, RoleOps
  <2>7. OnDuty(c)'
    BY <2>2, <2>3, <2>5 DEF OnDuty, RowsKept
  <2>8. Joins(c)'
    BY <2>2, <2>3, <2>4 DEF Joins, M!Returned
  <2>9. Leaves(c)'
    BY <2>3, <2>4 DEF Leaves
  <2> QED
    BY <2>2, <2>5, <2>6, <2>7, <2>8, <2>9, QuietStep
<1>4. CASE May(c, "removeMember") /\ BeginRemoveMember(c, org, member)
  <2>1. /\ ocall' = [ocall EXCEPT ![c] =
              MemberCall("removeMember", "unassigning", org, member, "none")]
        /\ pcall' = [pcall EXCEPT ![c] = P!RoleCall("unassign", member, "none", org)]
        /\ mcall' = mcall /\ UNCHANGED <<assignments, memberships>>
    BY <1>4 DEF BeginRemoveMember, P!Starts, membershipVars
  <2>2. "removeMember" \in plan.duty[c] /\ mcall'[c] = mcall[c] /\ ocall[c].op = "none"
    BY <1>4, <2>1 DEF May, Idle
  <2>3. /\ IsFacadeCall(ocall'[c]) /\ "op" \in DOMAIN ocall'[c]
        /\ ocall'[c].op = "removeMember" /\ ocall'[c].at = "unassigning"
        /\ ocall'[c].org = org /\ ocall'[c].member = member
    <3>2. "removeMember" \in FacadeOps
      BY DEF FacadeOps
    <3>3. ocall'[c] = MemberCall("removeMember", "unassigning", org, member, "none")
      BY <1>0, <2>1
    <3> QED
      BY <1>2, <3>2, <3>3, FacadeCallIs
  <2>4. /\ IsRoleCall(pcall'[c]) /\ "op" \in DOMAIN pcall'[c]
        /\ pcall'[c].op = "unassign" /\ pcall'[c].at = "find"
        /\ pcall'[c].actor = member /\ pcall'[c].scope = org
    BY <1>0, <1>2, <2>1, RoleCallIs
  <2>5. RowsKept /\ OnlyOf(c)
    BY <1>0, <2>1 DEF RowsKept, OnlyOf
  <2>6. CallOK(c)'
    BY <1>0, <2>2, <2>3, <2>4 DEF CallOK
  <2>7. OnDuty(c)'
    BY <2>2, <2>3, <2>4, <2>5 DEF OnDuty, RowsKept
  <2>8. Joins(c)'
    BY <2>3, <2>4 DEF Joins
  <2>9. Leaves(c)'
    BY <1>0, <2>2, <2>3, <2>4 DEF Leaves, P!Returned
  <2> QED
    BY <2>4, <2>5, <2>6, <2>7, <2>8, <2>9, QuietStep
<1>5. CASE /\ May(c, "assignRole")
           /\ \E role \in plan.roles : BeginAssignRole(c, org, member, role)
  <2>0. CASE UNCHANGED <<ocall, pcall, mcall, assignments, memberships>>
    <3>1. RowsKept /\ OnlyOf(c) /\ ocall'[c] = ocall[c] /\ pcall'[c] = pcall[c]
          /\ mcall'[c] = mcall[c]
      BY <1>0, <2>0 DEF RowsKept, OnlyOf
    <3>2. ocall[c].op \notin FacadeOps
      BY <1>5 DEF May, Idle, FacadeOps
    <3>3. Plain(c)
      BY <1>0, <3>1, <3>2 DEF Plain, CallOK
    <3> QED
      BY <3>3, PlainStep
  <2>1. ASSUME NEW role \in plan.roles,
               /\ ocall' = [ocall EXCEPT ![c] =
                      MemberCall("assignRole", "assigning", org, member, role)]
               /\ pcall' = [pcall EXCEPT ![c] = P!RoleCall("assign", member, role, org)]
               /\ mcall' = mcall /\ UNCHANGED <<assignments, memberships>>
        PROVE  RInv'
    <3>2. "assignRole" \in plan.duty[c] /\ mcall'[c] = mcall[c] /\ ocall[c].op = "none"
      BY <1>5, <2>1 DEF May, Idle
    <3>3. /\ IsFacadeCall(ocall'[c]) /\ "op" \in DOMAIN ocall'[c]
          /\ ocall'[c].op = "assignRole"
      <4>1. "assignRole" \in FacadeOps
        BY DEF FacadeOps
      <4>2. ocall'[c] = MemberCall("assignRole", "assigning", org, member, role)
        BY <1>0, <2>1
      <4> QED
        BY <1>2, <4>1, <4>2, FacadeCallIs
    <3>4. /\ IsRoleCall(pcall'[c]) /\ "op" \in DOMAIN pcall'[c]
          /\ pcall'[c].op = "assign" /\ pcall'[c].at = "find"
          /\ pcall'[c].actor = member /\ pcall'[c].scope = org
      BY <1>0, <1>2, <2>1, RoleCallIs
    <3>5. RowsKept /\ OnlyOf(c)
      BY <1>0, <2>1 DEF RowsKept, OnlyOf
    <3>6. CallOK(c)'
      BY <1>0, <3>2, <3>3, <3>4 DEF CallOK
    <3>7. OnDuty(c)'
      BY <3>2, <3>3, <3>4, <3>5 DEF OnDuty, RowsKept
    <3>8. Joins(c)'
      <4>1. M!IsMember(member, org)
        BY <1>2, <3>2, DutyToMembers
      <4> QED
        BY <3>3, <3>4, <3>5, <4>1 DEF Joins, RowsKept, M!IsMember
    <3>9. Leaves(c)'
      BY <1>0, <3>2, <3>3 DEF Leaves
    <3> QED
      BY <3>4, <3>5, <3>6, <3>7, <3>8, <3>9, QuietStep
  <2>2. PICK role \in plan.roles :
            \/ /\ ocall' = [ocall EXCEPT ![c] =
                      MemberCall("assignRole", "assigning", org, member, role)]
               /\ pcall' = [pcall EXCEPT ![c] = P!RoleCall("assign", member, role, org)]
               /\ mcall' = mcall /\ UNCHANGED <<assignments, memberships>>
            \/ UNCHANGED <<ocall, pcall, mcall, assignments, memberships>>
    BY <1>5 DEF BeginAssignRole, P!Starts, membershipVars
  <2> QED
    BY <2>0, <2>1, <2>2
<1>6. CASE May(c, "listForMember") /\ BeginList(c, member)
  BY <1>0, <1>6, PlainClient, PlainStep
<1> QED
  BY <1>1, <1>3, <1>4, <1>5, <1>6

LEMMA FacadeSteps ==
    ASSUME \A d \in Deployments : Careful(d), RInv, plan' = plan, NEW c \in Clients,
           Joined(c) \/ Unassigned(c) \/ Left(c) \/ Assigned(c)
    PROVE  RInv'
<1> DEFINE k == ocall[c]
<1>0. /\ DOMAIN ocall = Clients /\ DOMAIN pcall = Clients /\ DOMAIN mcall = Clients
      /\ CallOK(c) /\ Joins(c) /\ Leaves(c) /\ OnDuty(c)
  BY DEF RInv, CallsOK
<1>1. k.op \in FacadeOps /\ IsFacadeCall(k)
  BY <1>0 DEF Joined, Unassigned, Left, Assigned, At, FacadeOps, CallOK
<1>2. RowsKept
  BY DEF Joined, Unassigned, Left, Assigned, permissionVars, membershipVars, RowsKept
<1>3. /\ \A at : Goes(c, at) =>
            /\ \A d \in Clients \ {c} : ocall'[d] = ocall[d]
            /\ DOMAIN ocall' = Clients /\ ocall'[c] = [k EXCEPT !.at = at]
      /\ Ends(c) =>
            /\ \A d \in Clients \ {c} : ocall'[d] = ocall[d]
            /\ DOMAIN ocall' = Clients /\ "op" \in DOMAIN ocall'[c] /\ ocall'[c].op = "none"
  BY <1>0 DEF Goes, Ends, Idle
<1>4. /\ P!Idle.op = "none" /\ "op" \in DOMAIN P!Idle
      /\ M!Idle.op = "none" /\ "op" \in DOMAIN M!Idle
  BY DEF P!Idle, M!Idle
<1>5. CASE Joined(c)
  <2>0. k.op = "addMember" /\ k.at = "joining" /\ mcall' = [mcall EXCEPT ![c] = M!Idle]
    BY <1>5 DEF Joined, At, M!Takes
  <2>1. mcall'[c].op = "none" /\ "op" \in DOMAIN mcall'[c]
    BY <1>0, <1>4, <2>0
  <2>2. CASE /\ M!Returned(c, "done") /\ Goes(c, "assigning")
             /\ pcall' = [pcall EXCEPT ![c] = P!RoleCall("assign", k.member, k.role, k.org)]
    <3>1. OnlyOf(c)
      BY <1>0, <1>3, <2>0, <2>2 DEF OnlyOf
    <3>2. /\ IsFacadeCall(ocall'[c]) /\ "op" \in DOMAIN ocall'[c]
          /\ ocall'[c].op = "addMember" /\ ocall'[c].at = "assigning"
      BY <1>1, <1>3, <2>0, <2>2 DEF IsFacadeCall
    <3>3. k.member \in Members
      BY <1>1 DEF IsFacadeCall
    <3>4. /\ IsRoleCall(pcall'[c]) /\ "op" \in DOMAIN pcall'[c]
          /\ pcall'[c].op = "assign" /\ pcall'[c].at = "find"
          /\ pcall'[c].actor = k.member /\ pcall'[c].scope = k.org
      <4>1. pcall'[c] = P!RoleCall("assign", k.member, k.role, k.org)
        BY <1>0, <2>2
      <4> HIDE DEF k
      <4> QED
        BY <3>3, <4>1, RoleCallIs
    <3>5. CallOK(c)'
      BY <2>1, <3>2, <3>4 DEF CallOK
    <3>6. OnDuty(c)'
      BY <1>0, <1>1, <1>2, <2>0, <3>2, <3>4 DEF OnDuty, RowsKept
    <3>7. Joins(c)'
      <4>1. M!IsMember(k.member, k.org)
        BY <1>0, <2>0, <2>2 DEF Joins
      <4> QED
        BY <1>2, <3>2, <3>4, <4>1 DEF Joins, RowsKept, M!IsMember
    <3>8. Leaves(c)'
      BY <2>1, <3>2 DEF Leaves
    <3> QED
      BY <1>2, <3>1, <3>4, <3>5, <3>6, <3>7, <3>8, QuietStep
  <2>3. CASE Ends(c) /\ pcall' = pcall
    <3>1. OnlyOf(c) /\ pcall'[c] = pcall[c]
      BY <1>0, <1>3, <2>0, <2>3 DEF OnlyOf
    <3>2. ocall'[c].op = "none" /\ "op" \in DOMAIN ocall'[c]
      BY <1>3, <2>3
    <3>3. CallOK(c)'
      BY <1>0, <2>1, <3>1, <3>2 DEF CallOK, FacadeOps
    <3>4. OnDuty(c)'
      BY <1>0, <1>2, <2>0, <3>1, <3>2 DEF OnDuty, RowsKept, FacadeOps
    <3>5. Joins(c)'
      BY <1>0, <1>2, <3>1, <3>2 DEF Joins, RowsKept, M!IsMember
    <3>6. Leaves(c)'
      BY <2>1, <3>2 DEF Leaves
    <3> QED
      BY <1>2, <3>1, <3>3, <3>4, <3>5, <3>6, QuietStep
  <2> QED
    BY <1>5, <2>2, <2>3 DEF Joined, P!Starts
<1>6. CASE Unassigned(c)
  <2>0. k.op = "removeMember" /\ k.at = "unassigning" /\ pcall' = [pcall EXCEPT ![c] = P!Idle]
    BY <1>6 DEF Unassigned, At, P!Takes
  <2>1. pcall'[c].op = "none" /\ "op" \in DOMAIN pcall'[c]
    BY <1>0, <1>4, <2>0
  <2>2. CASE /\ P!Returned(c, "done") /\ Goes(c, "leaving")
             /\ mcall' = [mcall EXCEPT ![c] = M!MembershipCall("remove", k.member, k.org)]
    <3>1. OnlyOf(c)
      BY <1>0, <1>3, <2>0, <2>2 DEF OnlyOf
    <3>2. /\ IsFacadeCall(ocall'[c]) /\ "op" \in DOMAIN ocall'[c]
          /\ ocall'[c].op = "removeMember" /\ ocall'[c].at = "leaving"
          /\ ocall'[c].member = k.member /\ ocall'[c].org = k.org
      BY <1>1, <1>3, <2>0, <2>2 DEF IsFacadeCall
    <3>3. k.member \in Members /\ k.org \in OrgIds
      BY <1>1 DEF IsFacadeCall
    <3>4. /\ mcall'[c] \in MemberCalls /\ "op" \in DOMAIN mcall'[c]
          /\ mcall'[c].op = "remove" /\ mcall'[c].at = "find"
          /\ mcall'[c].member = k.member /\ mcall'[c].group = k.org
      <4>1. mcall'[c] = M!MembershipCall("remove", k.member, k.org)
        BY <1>0, <2>2
      <4> HIDE DEF k
      <4> QED
        BY <3>3, <4>1, MemberCallIs
    <3>5. CallOK(c)'
      BY <2>1, <3>2, <3>4 DEF CallOK, RoleOps
    <3>6. OnDuty(c)'
      BY <1>0, <1>1, <1>2, <2>0, <2>1, <3>2 DEF OnDuty, RowsKept
    <3>7. Joins(c)'
      BY <2>1, <3>2 DEF Joins
    <3>8. Leaves(c)'
      <4>1. ~Holds(k.member, k.org)
        BY <1>0, <2>0, <2>2 DEF Leaves
      <4> QED
        BY <1>2, <3>2, <3>4, <4>1 DEF Leaves, RowsKept, Holds
    <3> QED
      BY <1>2, <2>1, <3>1, <3>5, <3>6, <3>7, <3>8, QuietStep
  <2>3. CASE Ends(c) /\ mcall' = mcall
    <3>1. OnlyOf(c) /\ mcall'[c] = mcall[c]
      BY <1>0, <1>3, <2>0, <2>3 DEF OnlyOf
    <3>2. ocall'[c].op = "none" /\ "op" \in DOMAIN ocall'[c]
      BY <1>3, <2>3
    <3>3. CallOK(c)'
      BY <1>0, <2>1, <3>1, <3>2 DEF CallOK, FacadeOps, RoleOps
    <3>4. OnDuty(c)'
      BY <2>1, <3>2 DEF OnDuty, FacadeOps
    <3>5. Joins(c)'
      BY <2>1, <3>2 DEF Joins
    <3>6. Leaves(c)'
      BY <1>0, <2>0, <3>1, <3>2 DEF Leaves
    <3> QED
      BY <1>2, <2>1, <3>1, <3>3, <3>4, <3>5, <3>6, QuietStep
  <2> QED
    BY <1>6, <2>2, <2>3 DEF Unassigned, M!Starts
<1>7. CASE Left(c)
  <2>0. /\ k.op = "removeMember" /\ k.at = "leaving"
        /\ mcall' = [mcall EXCEPT ![c] = M!Idle] /\ pcall' = pcall /\ Ends(c)
    BY <1>7 DEF Left, At, M!Takes, permissionVars
  <2>1. /\ mcall'[c].op = "none" /\ "op" \in DOMAIN mcall'[c] /\ pcall'[c] = pcall[c]
        /\ ocall'[c].op = "none" /\ "op" \in DOMAIN ocall'[c]
    BY <1>0, <1>3, <1>4, <2>0
  <2>2. OnlyOf(c)
    BY <1>0, <1>3, <2>0 DEF OnlyOf
  <2>3. CallOK(c)'
    BY <1>0, <2>1 DEF CallOK, FacadeOps
  <2>4. OnDuty(c)'
    BY <1>0, <1>2, <2>0, <2>1 DEF OnDuty, RowsKept, FacadeOps
  <2>5. Joins(c)'
    BY <1>0, <1>2, <2>1 DEF Joins, RowsKept, M!IsMember
  <2>6. Leaves(c)'
    BY <2>1 DEF Leaves
  <2> QED
    BY <1>2, <2>1, <2>2, <2>3, <2>4, <2>5, <2>6, QuietStep
<1>8. CASE Assigned(c)
  <2>0. /\ k.op # "removeMember" /\ pcall' = [pcall EXCEPT ![c] = P!Idle] /\ mcall' = mcall
        /\ Ends(c)
    BY <1>8 DEF Assigned, P!Takes, membershipVars
  <2>1. /\ pcall'[c].op = "none" /\ "op" \in DOMAIN pcall'[c] /\ mcall'[c] = mcall[c]
        /\ ocall'[c].op = "none" /\ "op" \in DOMAIN ocall'[c]
    BY <1>0, <1>3, <1>4, <2>0
  <2>2. OnlyOf(c)
    BY <1>0, <1>3, <2>0 DEF OnlyOf
  <2>3. CallOK(c)'
    BY <1>0, <2>1 DEF CallOK, FacadeOps, RoleOps
  <2>4. OnDuty(c)' /\ Joins(c)'
    BY <2>1 DEF OnDuty, Joins, FacadeOps
  <2>5. Leaves(c)'
    BY <1>0, <2>0, <2>1 DEF Leaves
  <2> QED
    BY <1>2, <2>1, <2>2, <2>3, <2>4, <2>5, QuietStep
<1> QED
  BY <1>5, <1>6, <1>7, <1>8

-----------------------------------------------------------------------------
(* The steps of the services. *)

LEMMA PermissionKeeps ==
    ASSUME \A d \in Deployments : Careful(d), RInv, plan' = plan, NEW c \in Clients,
           P!PermissionStep(c), UNCHANGED <<ovars, membershipVars>>
    PROVE  RInv'
<1> DEFINE k == pcall[c]
<1>0. /\ CallsOK /\ RowsOK /\ OneRole /\ Stay /\ RolesOfMembersOnly /\ CallOK(c)
      /\ DOMAIN pcall = Clients
      /\ \A d \in Clients : OnDuty(d) /\ Joins(d) /\ Leaves(d)
      /\ plan \in Deployments
  BY DEF RInv, CallsOK
<1>1. PermissionMoves(c)
  BY <1>0, PermissionMove
<1>2. ocall' = ocall /\ mcall' = mcall /\ memberships' = memberships
  BY DEF ovars, membershipVars
<1>3. /\ DOMAIN pcall' = Clients
      /\ \A d \in Clients \ {c} : pcall'[d] = pcall[d]
      /\ pcall'[c].op = k.op
  BY <1>0, <1>1 DEF PermissionMoves
<1>4. CallsOK'
  <2>1. CallOK(c)'
    BY <1>0, <1>1, <1>2 DEF PermissionMoves, CallOK
  <2>2. \A d \in Clients \ {c} : CallOK(d)'
    BY <1>0, <1>2, <1>3 DEF CallsOK, CallOK
  <2> QED
    BY <1>0, <1>2, <1>3, <2>1, <2>2 DEF CallsOK
<1>5. ASSUME NEW d \in Clients PROVE OnDuty(d)'
  <2>1. CASE d = c
    BY <1>0, <1>1, <1>2, <2>1 DEF OnDuty, PermissionMoves, RoleOps
  <2>2. CASE d # c
    BY <1>0, <1>2, <1>3, <2>2 DEF OnDuty
  <2> QED
    BY <2>1, <2>2
<1>6. ASSUME NEW d \in Clients PROVE Joins(d)'
  <2>1. CASE d = c
    BY <1>0, <1>1, <1>2, <2>1 DEF Joins, PermissionMoves, RoleOps, M!IsMember, M!Returned
  <2>2. CASE d # c
    BY <1>0, <1>2, <1>3, <2>2 DEF Joins, M!IsMember, M!Returned
  <2> QED
    BY <2>1, <2>2
(* What becomes of a row: it goes, keeps its actor and scope, or is new. *)
<1>7. \A row \in assignments' :
          /\ {"actor", "scope"} \subseteq DOMAIN row
          /\ \/ \E old \in assignments : row.actor = old.actor /\ row.scope = old.scope
             \/ /\ k.op = "assign" /\ k.at = "create"
                /\ row.actor = k.actor /\ row.scope = k.scope
  <2>1. CASE assignments' \subseteq assignments
    BY <1>0, <2>1 DEF RowsOK
  <2>2. ASSUME k.op = "assign", k.at = "create", NEW id,
               assignments' = assignments \cup
                 {[id |-> id, actor |-> k.actor, scope |-> k.scope, role |-> k.role]}
        PROVE  \A row \in assignments' :
                   /\ {"actor", "scope"} \subseteq DOMAIN row
                   /\ row \in assignments \/ (row.actor = k.actor /\ row.scope = k.scope)
    <3>1. \A row \in assignments' :
              \/ row \in assignments
              \/ row = [id |-> id, actor |-> k.actor, scope |-> k.scope, role |-> k.role]
      BY <2>2
    <3>2. {"actor", "scope"} \subseteq
              DOMAIN [id |-> id, actor |-> k.actor, scope |-> k.scope, role |-> k.role]
      OBVIOUS
    <3> QED
      BY <1>0, <3>1, <3>2 DEF RowsOK
  <2>3. CASE assignments' = Update(assignments, k.row, "role", k.role)
    BY <1>0, <2>3 DEF RowsOK, Update
  <2> QED
    BY <1>1, <2>1, <2>2, <2>3 DEF PermissionMoves
<1>8. RowsOK'
  BY <1>0, <1>2, <1>7 DEF RowsOK
<1>9. RolesOfMembersOnly'
  <2>1. k.op = "assign" /\ k.at = "create" => M!IsMember(k.actor, k.scope)
    BY <1>0 DEF OnDuty, Joins
  <2>2. \A row \in assignments : M!IsMember(row.actor, row.scope)
    BY <1>0 DEF RolesOfMembersOnly
  <2>3. \A row \in assignments' : M!IsMember(row.actor, row.scope)
    BY <1>7, <2>1, <2>2 DEF M!IsMember
  <2> QED
    BY <1>2, <2>3 DEF RolesOfMembersOnly, M!IsMember
<1>10. ASSUME NEW d \in Clients PROVE Leaves(d)'
  <2>0. ocall'[d] = ocall[d] /\ mcall'[d] = mcall[d]
    BY <1>2
  <2>1. CASE ocall[d].op # "removeMember"
    BY <1>0, <1>2, <2>0, <2>1 DEF Leaves
  <2>2. CASE ocall[d].op = "removeMember"
    <3>1. k.op # "assign" /\ OneChanges(plan)
      BY <2>2, LeaverAlone
    <3>2. assignments' \subseteq assignments
      BY <1>1, <3>1 DEF PermissionMoves
    <3>3. CASE d # c
      BY <1>0, <1>2, <1>3, <2>0, <3>2, <3>3 DEF Leaves, Holds, P!Returned
    <3>4. CASE d = c /\ ocall[c].at = "unassigning"
      <4>1. /\ k.op = "unassign" /\ k.actor = ocall[c].member /\ k.scope = ocall[c].org
            /\ (k.at = "delete" =>
                   \A row \in assignments :
                       row.actor = k.actor /\ row.scope = k.scope => row.id = k.row)
        BY <1>0, <2>2, <3>4 DEF Leaves
      <4>2. k.scope \in OrgIds
        BY <1>0, <2>2, <3>4, <4>1 DEF CallOK, FacadeOps, IsFacadeCall
      <4>3. /\ pcall'[c].op = "unassign"
            /\ pcall'[c].actor = ocall[c].member /\ pcall'[c].scope = ocall[c].org
        BY <1>1, <4>1 DEF PermissionMoves, RoleOps
      <4>4. pcall'[c].at = "delete" =>
                \A row \in assignments' :
                    row.actor = k.actor /\ row.scope = k.scope => row.id = pcall'[c].row
        BY <1>0, <1>1, <3>1, <4>1, <4>2 DEF PermissionMoves, OneRole
      <4>5. pcall'[c].at = "returned" /\ pcall'[c].out = "done" =>
                \A row \in assignments' : ~(row.actor = k.actor /\ row.scope = k.scope)
        BY <1>1, <4>1, <4>2 DEF PermissionMoves, P!Returned, Holds, Delete
      <4> QED
        BY <1>0, <1>2, <2>0, <2>2, <3>4, <4>1, <4>3, <4>4, <4>5 DEF Leaves, P!Returned, Holds
    <3>5. CASE d = c /\ ocall[c].at # "unassigning"
      BY <1>0, <1>2, <2>0, <3>2, <3>5 DEF Leaves, Holds
    <3> QED
      BY <3>3, <3>4, <3>5
  <2> QED
    BY <2>1, <2>2
<1>11. OneRole'
  <2> SUFFICES ASSUME OneChanges(plan)
               PROVE  /\ \A i, j \in assignments' :
                             i.actor = j.actor /\ i.scope = j.scope => i = j
                      /\ \A d \in Clients :
                             pcall'[d].op = "assign" /\ pcall'[d].at = "create" =>
                                 ~\E row \in assignments' :
                                     row.actor = pcall'[d].actor /\ row.scope = pcall'[d].scope
    BY DEF OneRole, OneChanges, Holds
  <2>1. /\ \A i, j \in assignments : i.actor = j.actor /\ i.scope = j.scope => i = j
        /\ \A d \in Clients :
            pcall[d].op = "assign" /\ pcall[d].at = "create" =>
                ~Holds(pcall[d].actor, pcall[d].scope)
    BY <1>0 DEF OneRole
  <2>2. \A i, j \in assignments' : i.actor = j.actor /\ i.scope = j.scope => i = j
    <3>1. CASE assignments' \subseteq assignments
      BY <2>1, <3>1
    <3>2. ASSUME k.op = "assign", k.at = "create", NEW id,
                 assignments' = assignments \cup
                   {[id |-> id, actor |-> k.actor, scope |-> k.scope, role |-> k.role]}
          PROVE  \A i, j \in assignments' : i.actor = j.actor /\ i.scope = j.scope => i = j
      <4> DEFINE new == [id |-> id, actor |-> k.actor, scope |-> k.scope, role |-> k.role]
      <4>1. new.actor = k.actor /\ new.scope = k.scope /\ assignments' = assignments \cup {new}
        BY <3>2
      <4>2. \A row \in assignments : ~(row.actor = k.actor /\ row.scope = k.scope)
        BY <2>1, <3>2 DEF Holds
      <4> HIDE DEF new
      <4> QED
        BY <2>1, <4>1, <4>2
    <3>3. CASE assignments' = Update(assignments, k.row, "role", k.role)
      BY <1>0, <2>1, <3>3 DEF RowsOK, Update
    <3> QED
      BY <1>1, <3>1, <3>2, <3>3 DEF PermissionMoves
  <2>3. ASSUME NEW d \in Clients, pcall'[d].op = "assign", pcall'[d].at = "create",
               NEW row \in assignments',
               row.actor = pcall'[d].actor, row.scope = pcall'[d].scope
        PROVE  FALSE
    <3>1. pcall[d].op = "assign"
      BY <1>3, <2>3
    <3>2. CASE d = c
      BY <1>1, <2>3, <3>1, <3>2 DEF PermissionMoves, RoleOps, Holds
    <3>3. CASE d # c
      <4>1. k.op # "assign"
        BY <3>1, <3>3, OneAssigns
      <4>2. assignments' \subseteq assignments
        BY <1>1, <4>1 DEF PermissionMoves
      <4> QED
        BY <1>3, <2>1, <2>3, <3>3, <4>2 DEF Holds
    <3> QED
      BY <3>2, <3>3
  <2> QED
    BY <2>2, <2>3
<1>12. Stay'
  BY <1>0, <1>2 DEF Stay, OnlyJoins, M!IsMember
<1> QED
  BY <1>0, <1>4, <1>5, <1>6, <1>8, <1>9, <1>10, <1>11, <1>12 DEF RInv

LEMMA MembershipKeeps ==
    ASSUME \A d \in Deployments : Careful(d), RInv, plan' = plan, NEW c \in Clients,
           M!MembershipStep(c), UNCHANGED <<ovars, permissionVars>>
    PROVE  RInv'
<1> DEFINE k == mcall[c]
<1>0. /\ CallsOK /\ RowsOK /\ OneRole /\ Stay /\ RolesOfMembersOnly /\ CallOK(c)
      /\ DOMAIN mcall = Clients
      /\ \A d \in Clients : OnDuty(d) /\ Joins(d) /\ Leaves(d)
      /\ plan \in Deployments
  BY DEF RInv, CallsOK
<1>1. MembershipMoves(c)
  BY <1>0, MembershipMove
<1>2. ocall' = ocall /\ pcall' = pcall /\ assignments' = assignments
  BY DEF ovars, permissionVars
<1>3. /\ DOMAIN mcall' = Clients
      /\ \A d \in Clients \ {c} : mcall'[d] = mcall[d]
      /\ mcall'[c].op = k.op
  BY <1>0, <1>1 DEF MembershipMoves
<1>4. CallsOK'
  <2>1. CallOK(c)'
    BY <1>0, <1>1, <1>2 DEF MembershipMoves, CallOK
  <2>2. \A d \in Clients \ {c} : CallOK(d)'
    BY <1>0, <1>2, <1>3 DEF CallsOK, CallOK
  <2> QED
    BY <1>0, <1>2, <1>3, <2>1, <2>2 DEF CallsOK
<1>5. ASSUME NEW d \in Clients PROVE OnDuty(d)'
  BY <1>0, <1>2 DEF OnDuty
<1>6. OneRole'
  BY <1>0, <1>2 DEF OneRole, OneChanges, Holds
(* Who is a member stays one, unless a removal is at its delete. *)
<1>7. ASSUME ~(k.op = "remove" /\ k.at = "delete")
      PROVE  \A member, org : M!IsMember(member, org) => M!IsMember(member, org)'
  BY <1>1, <1>7 DEF MembershipMoves, M!IsMember
<1>8. CASE memberships' = memberships
  <2>1. RowsOK' /\ Stay' /\ RolesOfMembersOnly'
    BY <1>0, <1>2, <1>8 DEF RowsOK, Stay, OnlyJoins, RolesOfMembersOnly, M!IsMember
  <2>2. ASSUME NEW d \in Clients PROVE Joins(d)'
    <3>1. CASE d # c
      BY <1>0, <1>2, <1>3, <1>8, <3>1 DEF Joins, M!IsMember, M!Returned
    <3>2. CASE d = c
      BY <1>0, <1>1, <1>2, <1>8, <3>2 DEF Joins, MembershipMoves, M!IsMember, M!Returned
    <3> QED
      BY <3>1, <3>2
  <2>3. ASSUME NEW d \in Clients PROVE Leaves(d)'
    <3>1. CASE d # c
      BY <1>0, <1>2, <1>3, <1>8, <3>1 DEF Leaves, Holds, P!Returned
    <3>2. CASE d = c
      <4>1. mcall'[c].op = "remove" /\ mcall'[c].at = "delete" =>
                \A row \in memberships' : row.id = mcall'[c].row =>
                    row.member = mcall'[c].member /\ row.group = mcall'[c].group
        BY <1>0, <1>1, <1>8 DEF MembershipMoves, RowsOK
      <4> QED
        BY <1>0, <1>1, <1>2, <3>2, <4>1 DEF Leaves, MembershipMoves, Holds, P!Returned
    <3> QED
      BY <3>1, <3>2
  <2> QED
    BY <1>0, <1>4, <1>5, <1>6, <2>1, <2>2, <2>3 DEF RInv
<1>9. ASSUME k.op = "add", NEW id \in Nat,
             \A row \in memberships : row.id # id,
             \A d \in Clients : mcall[d].op = "remove" => mcall[d].row # id,
             memberships' = memberships \cup {[id |-> id, member |-> k.member, group |-> k.group]}
      PROVE  RInv'
  <2> DEFINE new == [id |-> id, member |-> k.member, group |-> k.group]
  <2>1. new \in M!MembershipRows /\ new.id = id
    BY <1>0, <1>9 DEF CallOK, MemberCalls, M!MembershipRows
  <2>2. memberships' = memberships \cup {new}
    BY <1>9
  <2> HIDE DEF new
  <2>3. RowsOK'
    <3>1. IsFiniteSet(memberships')
      BY <1>0, <2>2, FS_AddElement DEF RowsOK
    <3>2. memberships' \subseteq M!MembershipRows
      BY <1>0, <2>1, <2>2 DEF RowsOK
    <3>3. \A i, j \in memberships' : i.id = j.id => i = j
      BY <1>0, <1>9, <2>1, <2>2 DEF RowsOK
    <3> QED
      BY <1>0, <1>2, <3>1, <3>2, <3>3 DEF RowsOK
  <2>4. Stay' /\ RolesOfMembersOnly'
    BY <1>0, <1>2, <2>2 DEF Stay, OnlyJoins, RolesOfMembersOnly, M!IsMember
  <2>5. ASSUME NEW d \in Clients PROVE Joins(d)'
    <3>1. CASE d # c
      BY <1>0, <1>2, <1>3, <2>2, <3>1 DEF Joins, M!IsMember, M!Returned
    <3>2. CASE d = c
      BY <1>0, <1>1, <1>2, <2>2, <3>2 DEF Joins, MembershipMoves, M!IsMember, M!Returned
    <3> QED
      BY <3>1, <3>2
  <2>6. ASSUME NEW d \in Clients PROVE Leaves(d)'
    <3>1. CASE d # c
      BY <1>0, <1>2, <1>3, <1>9, <2>1, <2>2, <3>1 DEF Leaves, Holds, P!Returned
    <3>2. CASE d = c
      BY <1>0, <1>2, <1>3, <1>9, <3>2 DEF Leaves, Holds, P!Returned
    <3> QED
      BY <3>1, <3>2
  <2> QED
    BY <1>0, <1>4, <1>5, <1>6, <2>3, <2>4, <2>5, <2>6 DEF RInv
<1>10. CASE /\ k.op = "remove" /\ k.at = "delete" /\ mcall'[c].at = "returned"
            /\ memberships' = Delete(memberships, k.row)
  <2>1. /\ ocall[c].op = "removeMember" /\ ocall[c].at = "leaving"
        /\ k.member = ocall[c].member /\ k.group = ocall[c].org
        /\ ~Holds(k.member, k.group)
        /\ \A row \in memberships : row.id = k.row => row.member = k.member /\ row.group = k.group
    BY <1>0, <1>10 DEF Leaves
  <2>2. /\ ~OnlyJoins(plan)
        /\ \A d \in Clients : pcall[d].op # "assign"
        /\ \A d \in Clients \ {c} : ocall[d].op \notin {"addMember", "removeMember"}
    BY <2>1, LeaverAlone
  <2>3. memberships' \subseteq memberships
    BY <1>10 DEF Delete
  <2>4. \A row \in memberships :
            row \in memberships' \/ (row.member = k.member /\ row.group = k.group)
    BY <1>10, <2>1 DEF Delete
  <2>5. RowsOK'
    BY <1>0, <1>2, <2>3, FS_Subset DEF RowsOK
  <2>6. RolesOfMembersOnly'
    <3>1. ASSUME NEW row \in assignments
          PROVE  \E m \in memberships' : m.member = row.actor /\ m.group = row.scope
      <4>1. PICK m \in memberships : m.member = row.actor /\ m.group = row.scope
        BY <1>0 DEF RolesOfMembersOnly, M!IsMember
      <4>2. ~(m.member = k.member /\ m.group = k.group)
        BY <2>1, <4>1 DEF Holds
      <4> QED
        BY <2>4, <4>1, <4>2
    <3> QED
      BY <1>2, <3>1 DEF RolesOfMembersOnly, M!IsMember
  <2>7. Stay'
    BY <2>2 DEF Stay, OnlyJoins
  <2>8. ASSUME NEW d \in Clients PROVE Joins(d)'
    BY <1>2, <2>1, <2>2 DEF Joins
  <2>9. ASSUME NEW d \in Clients PROVE Leaves(d)'
    <3>1. CASE d # c
      BY <1>0, <1>2, <1>3, <2>2, <2>3, <3>1 DEF Leaves, Holds, P!Returned
    <3>2. CASE d = c
      BY <1>0, <1>1, <1>2, <1>10, <3>2 DEF Leaves, MembershipMoves, Holds, P!Returned
    <3> QED
      BY <3>1, <3>2
  <2> QED
    BY <1>0, <1>4, <1>5, <1>6, <2>5, <2>6, <2>7, <2>8, <2>9 DEF RInv
<1> QED
  BY <1>1, <1>8, <1>9, <1>10 DEF MembershipMoves

-----------------------------------------------------------------------------
LEMMA Starting ==
    ASSUME \A d \in Deployments : Careful(d), Init
    PROVE  RInv
<1>1. /\ plan \in Deployments /\ Careful(plan)
      /\ memberships \in plan.memberships /\ assignments \in plan.assignments
      /\ ocall = [c \in Clients |-> [op |-> "none", at |-> "idle"]]
      /\ pcall = [c \in Clients |-> [op |-> "none", at |-> "idle"]]
      /\ mcall = [c \in Clients |-> [op |-> "none", at |-> "idle"]]
  BY DEF Init, Idle, P!Idle, M!Idle
<1>2. CallsOK
  BY <1>1 DEF CallsOK, CallOK, FacadeOps, RoleOps
<1>3. \A c \in Clients : OnDuty(c) /\ Joins(c) /\ Leaves(c)
  BY <1>1 DEF OnDuty, Joins, Leaves, FacadeOps
<1>4. RowsOK
  <2>1. \A row \in assignments : {"actor", "scope"} \subseteq DOMAIN row
    BY <1>1 DEF Careful, Typed, P!AssignmentRows
  <2> QED
    BY <1>1, <2>1 DEF RowsOK, Careful, Typed
<1>5. RolesOfMembersOnly
  BY <1>1 DEF RolesOfMembersOnly, M!IsMember, Careful, StartsWithMembers
<1>6. OneRole
  BY <1>1 DEF OneRole, OneChanges
<1>7. Stay
  BY <1>1 DEF Stay, OnlyJoins, M!IsMember
<1> QED
  BY <1>1, <1>2, <1>3, <1>4, <1>5, <1>6, <1>7 DEF RInv

LEMMA Stepping ==
    ASSUME \A d \in Deployments : Careful(d), RInv, [Next]_vars
    PROVE  RInv'
<1>1. CallsOK
  BY DEF RInv
<1>2. CASE Next
  <2>1. plan' = plan
    BY <1>2 DEF Next
  <2>2. PICK c \in Clients : ClientStep(c) \/ OrganisationStep(c) \/ ServiceStep(c)
    BY <1>2 DEF Next
  <2>3. CASE Plain(c)
    BY <2>3, PlainStep
  <2>4. CASE StartMember(c)
    BY <2>1, <2>4, MemberStarts
  <2>5. CASE StartRole(c)
    BY <2>1, <2>5, RoleStarts
  <2>6. CASE Joined(c) \/ Unassigned(c) \/ Left(c) \/ Assigned(c)
    BY <2>1, <2>6, FacadeSteps
  <2>7. CASE P!PermissionStep(c) /\ UNCHANGED <<ovars, membershipVars>>
    BY <2>1, <2>7, PermissionKeeps
  <2>8. CASE M!MembershipStep(c) /\ UNCHANGED <<ovars, permissionVars>>
    BY <2>1, <2>8, MembershipKeeps
  <2>9. CASE ClientStep(c)
    BY <1>1, <2>1, <2>3, <2>4, <2>5, <2>9, PlainClient DEF ClientStep
  <2>10. CASE OrganisationStep(c)
    BY <1>1, <2>1, <2>3, <2>6, <2>10, PlainOrganisation DEF OrganisationStep
  <2>11. CASE ServiceStep(c)
    BY <2>7, <2>8, <2>11 DEF ServiceStep
  <2> QED
    BY <2>2, <2>9, <2>10, <2>11
<1>3. CASE UNCHANGED vars
  <2>1. /\ ocall' = ocall /\ pcall' = pcall /\ mcall' = mcall /\ plan' = plan
        /\ assignments' = assignments /\ memberships' = memberships
    BY <1>3 DEF vars, ovars, permissionVars, membershipVars
  <2>2. CallsOK' /\ RowsOK'
    BY <2>1 DEF RInv, CallsOK, CallOK, RowsOK
  <2>3. OneRole'
    BY <2>1 DEF RInv, OneRole, OneChanges, Holds
  <2>4. Stay' /\ RolesOfMembersOnly'
    BY <2>1 DEF RInv, Stay, OnlyJoins, RolesOfMembersOnly, M!IsMember
  <2>5. ASSUME NEW c \in Clients PROVE OnDuty(c)' /\ Joins(c)' /\ Leaves(c)'
    <3>1. OnDuty(c)' /\ Joins(c)'
      BY <2>1 DEF RInv, OnDuty, Joins, M!IsMember, M!Returned
    <3>2. Leaves(c)'
      BY <2>1 DEF RInv, Leaves, Holds, P!Returned
    <3> QED
      BY <3>1, <3>2
  <2> QED
    BY <2>1, <2>2, <2>3, <2>4, <2>5 DEF RInv
<1> QED
  BY <1>2, <1>3

(* In every deployment that starts with members, where either nobody removes
   one or one client changes the membership and nobody gives roles but through
   it, a role is held in an organisation only by its members, whatever the
   other clients do meanwhile and wherever a call fails: addMember joins before
   it assigns, removeMember unassigns before it leaves
   (createOrganisationService.ts 218-241). *)
THEOREM RolesKept ==
    ASSUME \A d \in Deployments : Careful(d)
    PROVE  Spec => []RolesOfMembersOnly
<1>1. Init => RInv
  BY Starting
<1>2. RInv /\ [Next]_vars => RInv'
  BY Stepping
<1>3. RInv => RolesOfMembersOnly
  BY DEF RInv
<1> QED
  BY <1>1, <1>2, <1>3, PTL DEF Spec
-----------------------------------------------------------------------------
(***************************************************************************)
(* What the permission service promises its callers while other calls go   *)
(* on, for every deployment of the kind the service is meant for: the      *)
(* overrides added stand, what is revoked is gone, and can answers what    *)
(* the documented policy gave at some instant of the call.                 *)
(***************************************************************************)

(***************************************************************************)
(* The deployments, the types of the calls, and the invariants.            *)
(***************************************************************************)

(* What the arguments of the calls and the rows of the tables are. *)
AllScopes == OrgIds \cup {Elsewhere}
Levels == Resources \cup {Undefined}
Actions == STRING \cup Permissions
Questions == Seq(Actions) \ {<<>>}
UniqueIds(table) == \A r1, r2 \in table : r1.id = r2.id => r1 = r2
TableOf(rows, table) == table \subseteq rows /\ IsFiniteSet(table) /\ UniqueIds(table)

Explicit(d) ==
    /\ d.members \subseteq Members /\ d.orgs \subseteq OrgIds /\ d.scopes \subseteq AllScopes
    /\ d.roles \subseteq STRING /\ d.levels \subseteq Levels /\ d.questions \subseteq Questions
    /\ TableOf(OrganisationRows, d.organisations)
    /\ \A ms \in d.memberships : TableOf(M!MembershipRows, ms)
    /\ \A as \in d.assignments : TableOf(P!AssignmentRows, as)
    /\ \A os \in d.overrides : TableOf(P!OverrideRows, os)

(* The calls of the three services, at every stage. *)
Adds == {"grant", "deny"}
Sweeps == {"revokeScope", "revokeAll"}
Outs == {"pending", "done", "threw"}
OverrideCalls ==
    [op : P!OverrideOps, at : {"find", "create", "delete", "returned"}, actor : Members,
     action : {"update"}, scope : AllScopes, resource : Levels, row : Nat, out : Outs]
RoleCalls ==
    [op : RoleOps, at : {"find", "create", "update", "delete", "returned"}, actor : Members,
     role : STRING \cup {"none"}, scope : AllScopes, row : Nat, out : Outs]
QueryCalls ==
    [op : P!Queries, at : {"deny", "grant", "role", "returned"}, actor : Members,
     actions : Questions, left : Questions, scope : AllScopes, resource : Levels,
     out : {"pending", "yes", "no", "threw"}]
Wheres == [scope : AllScopes] \cup [actor : Members]
SweepCalls ==
    [op : Sweeps, at : {"assignments", "unassigning", "lifting", "returned"}, where : Wheres,
     found : {ids \in SUBSET Nat : IsFiniteSet(ids)}, out : Outs]
PermissionCalls == {P!Idle} \cup OverrideCalls \cup RoleCalls \cup QueryCalls \cup SweepCalls

Slugged == Slugs \cup {NoSlug}
CreateCalls == [op : {"create"}, at : {"find", "create"}, slug : Slugged]
ChangeCalls ==
    [op : Changes, at : {"load", "check", "find", "write"}, org : OrgIds, slug : Slugged,
     member : Members \cup {NoMember}, loaded : Slugged]
FacadeCalls ==
    [op : FacadeOps, at : {"joining", "assigning", "unassigning", "leaving"}, org : OrgIds,
     member : Members, role : STRING \cup {"none"}]
ListCalls ==
    [op : {"listForMember"}, at : {"groups", "orgs"}, member : Members, left : SUBSET OrgIds,
     listed : SUBSET OrgIds, gone : SUBSET OrgIds]
OrganisationCalls == {Idle} \cup CreateCalls \cup ChangeCalls \cup FacadeCalls \cup ListCalls
GroupCalls ==
    [op : {"listGroups"}, at : {"find", "returned"}, member : Members, groups : SUBSET OrgIds,
     out : Outs]
MembershipCalls == {M!Idle} \cup MemberCalls \cup GroupCalls

(* Who writes is who has the duty. *)
Givers == {"assign", "assignRole", "addMember"}
ODuty(c) ==
    /\ ocall[c].op \in FacadeOps \cup Changes => ocall[c].op \in plan.duty[c]
    /\ ocall[c].op \in {"addMember", "assignRole"} => ocall[c].role \in STRING
PDuty(c) ==
    /\ pcall[c].op \in P!OverrideOps =>
           pcall[c].op \in plan.duty[c] /\ pcall[c].resource \in plan.levels
    /\ pcall[c].op \in Sweeps \cup {"canAny"} => pcall[c].op \in plan.duty[c]
    /\ pcall[c].op = "canAll" => plan.duty[c] \cap (Changes \cup {"canAll"}) # {}
    /\ pcall[c].op = "assign" => plan.duty[c] \cap Givers # {} /\ pcall[c].role \in STRING
    /\ pcall[c].op = "unassign" => plan.duty[c] \cap {"unassign", "removeMember"} # {}

Asks(c) ==
    /\ ocall[c].op \in Changes /\ ocall[c].at = "check" =>
           pcall[c].op = "canAll" /\ pcall[c].actions = <<ocall[c].op>>
    /\ ocall[c].op = "listForMember" =>
           ocall[c].gone \subseteq deleted /\ ocall[c].listed \cap ocall[c].gone = {}
    /\ ocall[c].op = "listForMember" /\ ocall[c].at = "groups" => mcall[c].op = "listGroups"

TablesOK ==
    /\ TableOf(OrganisationRows, organisations) /\ deleted \subseteq OrgIds
    /\ TableOf(M!MembershipRows, memberships)
    /\ TableOf(P!AssignmentRows, assignments)
    /\ TableOf(P!OverrideRows, overrides)
    /\ \A org \in organisations : org.id \notin deleted
TInv ==
    /\ plan \in Deployments
    /\ TablesOK
    /\ ocall \in [Clients -> OrganisationCalls]
    /\ pcall \in [Clients -> PermissionCalls]
    /\ mcall \in [Clients -> MembershipCalls]
    /\ \A c \in Clients : ODuty(c) /\ PDuty(c) /\ Asks(c)

(* Overrides. *)
Meets(row, k) ==
    /\ row.type = P!TypeOf(k.op) /\ row.actor = k.actor /\ row.permission = k.action
    /\ row.scope = k.scope /\ (k.resource = Undefined \/ row.resource = k.resource)
Under(row, where) == \A f \in DOMAIN where : row[f] = where[f]

OneLevel(d) ==
    (\E c \in Clients : d.duty[c] \cap Adds # {}) /\ Undefined \in d.levels =>
        /\ d.levels = {Undefined}
        /\ \A os \in d.overrides : \A row \in os : row.resource = Null

HoldsIds(c) ==
    /\ pcall[c].op \in P!Revokes /\ pcall[c].at = "delete" =>
           \A row \in overrides : row.id = pcall[c].row => Meets(row, pcall[c])
    /\ pcall[c].op \in Sweeps /\ pcall[c].at = "lifting" =>
           \A row \in overrides : row.id \in pcall[c].found => Under(row, pcall[c].where)
Targets ==
    {t \in Adds \X Members \X {"update"} \X AllScopes \X Levels : t[5] \in plan.levels}
Stands(t) ==
    \E row \in overrides :
        /\ row.type = t[1] /\ row.actor = t[2] /\ row.permission = t[3] /\ row.scope = t[4]
        /\ row.resource = Stored(t[5])
AddAnswered(c) == pcall[c].op \in Adds /\ P!Returned(c, "done") /\ calm[c]
SInv ==
    /\ (\E c \in Clients : plan.duty[c] \cap Adds # {}) /\ Undefined \in plan.levels =>
           \A row \in overrides : row.resource = Null
    /\ \A c \in Clients : HoldsIds(c)
    /\ firm \subseteq Targets
    /\ firm # {} => \E c \in Clients : plan.duty[c] \cap Adds # {}
    /\ \A t \in firm : Stands(t) /\ ~Revoked(t)
    /\ DOMAIN calm = Clients
    /\ \A c \in Clients : AddAnswered(c) => Target(pcall[c]) \in firm

(* Revocations. *)
OneGiver(d) ==
    /\ \E w \in Clients : \A c \in Clients \ {w} : d.duty[c] \cap Givers = {}
    /\ \A as \in d.assignments : \A i, j \in as : i.actor = j.actor /\ i.scope = j.scope => i = j
OneRoleEach ==
    /\ \A i, j \in assignments : i.actor = j.actor /\ i.scope = j.scope => i = j
    /\ \A c \in Clients : pcall[c].op = "assign" /\ pcall[c].at = "create" =>
           ~Holds(pcall[c].actor, pcall[c].scope)
Undone(c) == \E d \in Clients \ {c} : Undoes(pcall[d], pcall[c])
Clearing(c) ==
    LET k == pcall[c] IN
    /\ k.op = "unassign" /\ k.at = "delete" =>
           \A row \in assignments : row.actor = k.actor /\ row.scope = k.scope => row.id = k.row
    /\ k.op = "unassign" /\ P!Returned(c, "done") => ~Holds(k.actor, k.scope)
    /\ k.op \in Sweeps /\ k.at = "unassigning" =>
           \A row \in assignments : Under(row, k.where) => row.id \in k.found
    /\ k.op \in Sweeps /\ k.at = "lifting" =>
           /\ \A row \in assignments : ~Under(row, k.where)
           /\ \A row \in overrides : Under(row, k.where) => row.id \in k.found
    /\ k.op \in Sweeps /\ P!Returned(c, "done") =>
           /\ \A row \in assignments : ~Under(row, k.where)
           /\ \A row \in overrides : ~Under(row, k.where)
CInv ==
    /\ OneRoleEach
    /\ DOMAIN calm = Clients
    /\ \A c \in Clients : calm[c] => ~Undone(c) /\ Clearing(c)

(* Answers. *)
Others(c) == UNION {plan.duty[d] : d \in Clients \ {c}}
RoleChanges == Givers \cup {"unassign", "removeMember"} \cup Sweeps
OneKind(d) ==
    \A c \in Clients : d.duty[c] \cap ({"canAll", "canAny"} \cup Changes) # {} =>
        LET others == UNION {d.duty[e] : e \in Clients \ {c}} IN
        /\ "deny" \notin others \/ others \cap ({"grant"} \cup Givers) = {}
        /\ "grant" \notin others \/ others \cap RoleChanges = {}
RoleHas(k, a) ==
    \E row \in assignments : row.actor = k.actor /\ row.scope = k.scope /\ P!RoleAllows(row.role, a)
Asking(c) ==
    LET k == pcall[c]
        a == Head(k.left)
        done == Len(k.actions) - Len(k.left)
    IN  /\ Policy(k) \subseteq seen[c]
        /\ Len(k.left) \in 1 .. Len(k.actions)
        /\ \A i \in 1 .. Len(k.left) : k.left[i] = k.actions[done + i]
        /\ \A i \in 1 .. done : <<k.actions[i], k.op = "canAll">> \in seen[c]
        /\ k.at \in {"grant", "role"} =>
               /\ P!InRealm(k, a)
               /\ "deny" \notin Others(c) => ~P!Has("deny", k, a)
               /\ Others(c) \cap ({"grant"} \cup Givers) = {} /\ (P!Has("grant", k, a) \/ RoleHas(k, a))
                      => <<a, TRUE>> \in seen[c]
        /\ k.at = "role" =>
               /\ "grant" \notin Others(c) => ~P!Has("grant", k, a)
               /\ Others(c) \cap RoleChanges = {} /\ ~RoleHas(k, a) => <<a, FALSE>> \in seen[c]
AInv ==
    /\ OneRoleEach
    /\ DOMAIN seen = Clients
    /\ \A c \in Clients : pcall[c].op \in P!Queries /\ pcall[c].at # "returned" => Asking(c)
    /\ AnswerSeen

Vouched(c) ==
    ocall[c].op \in Changes /\ ocall[c].member # NoMember =>
        /\ ocall[c].at \in {"find", "write"} => vouched[c]
        /\ ocall[c].at = "check" /\ P!Returned(c, "yes") => vouched[c]
VInv == DOMAIN vouched = Clients /\ \A c \in Clients : Vouched(c)

-----------------------------------------------------------------------------
TablesSame == assignments' = assignments /\ overrides' = overrides
EndsAs(c, out) == pcall'[c] = [pcall[c] EXCEPT !.at = "returned", !.out = out]
FoundAt(c, id, at) == pcall'[c] = [pcall[c] EXCEPT !.row = id, !.at = at]
Unheld(table, id) ==
    /\ id \in Nat /\ \A row \in table : row.id # id
    /\ \A d \in Clients :
        /\ pcall[d].op \in P!OverrideOps \cup RoleOps => pcall[d].row # id
        /\ pcall[d].op \in Sweeps => id \notin pcall[d].found
DecidesTo(c, allowed) ==
    LET k == pcall[c]
        stop == IF k.op = "canAll" THEN ~allowed ELSE allowed
    IN  pcall'[c] = IF stop \/ Len(k.left) = 1
                    THEN [k EXCEPT !.at = "returned", !.out = IF allowed THEN "yes" ELSE "no"]
                    ELSE [k EXCEPT !.at = "deny", !.left = Tail(@)]

QueryForms(c) ==
    LET k == pcall[c]
        a == Head(k.left)
    IN  /\ k \in QueryCalls /\ TablesSame
        /\ \/ k.at = "deny" /\ (P!InRealm(k, a) => P!Has("deny", k, a)) /\ DecidesTo(c, FALSE)
           \/ /\ k.at = "deny" /\ P!InRealm(k, a) /\ ~P!Has("deny", k, a)
              /\ pcall'[c] = [k EXCEPT !.at = "grant"]
           \/ k.at = "grant" /\ P!Has("grant", k, a) /\ DecidesTo(c, TRUE)
           \/ k.at = "grant" /\ ~P!Has("grant", k, a) /\ pcall'[c] = [k EXCEPT !.at = "role"]
           \/ k.at = "role" /\ ~Holds(k.actor, k.scope) /\ DecidesTo(c, FALSE)
           \/ /\ k.at = "role"
              /\ \E row \in assignments :
                  /\ row.actor = k.actor /\ row.scope = k.scope
                  /\ DecidesTo(c, P!RoleAllows(row.role, a))
AssignForms(c) ==
    LET k == pcall[c] IN
    /\ k \in RoleCalls /\ k.op = "assign" /\ overrides' = overrides
    /\ \/ /\ k.at = "find" /\ ~Holds(k.actor, k.scope) /\ k.scope \in OrgIds
          /\ FoundAt(c, P!NoRow, "create") /\ TablesSame
       \/ /\ k.at = "find" /\ TablesSame
          /\ \E row \in assignments : FoundAt(c, row.id, "update")
       \/ /\ k.at = "create" /\ EndsAs(c, "done")
          /\ \E id : /\ Unheld(assignments, id)
                     /\ assignments' = assignments \cup
                            {[id |-> id, actor |-> k.actor, scope |-> k.scope, role |-> k.role]}
       \/ /\ k.at = "update" /\ (EndsAs(c, "done") \/ EndsAs(c, "threw"))
          /\ assignments' = Update(assignments, k.row, "role", k.role)
UnassignForms(c) ==
    LET k == pcall[c] IN
    /\ k \in RoleCalls /\ k.op = "unassign" /\ overrides' = overrides
    /\ \/ k.at = "find" /\ ~Holds(k.actor, k.scope) /\ EndsAs(c, "done") /\ TablesSame
       \/ /\ k.at = "find" /\ TablesSame
          /\ \E row \in assignments : /\ row.actor = k.actor /\ row.scope = k.scope
                                      /\ FoundAt(c, row.id, "delete")
       \/ k.at = "delete" /\ EndsAs(c, "done") /\ assignments' = Delete(assignments, k.row)
AddForms(c) ==
    LET k == pcall[c] IN
    /\ k \in OverrideCalls /\ k.op \in Adds /\ assignments' = assignments
    /\ \/ k.at = "find" /\ FoundAt(c, P!NoRow, "create") /\ TablesSame
       \/ /\ k.at = "find" /\ (\E row \in overrides : Meets(row, k)) /\ EndsAs(c, "done")
          /\ TablesSame
       \/ /\ k.at = "create" /\ EndsAs(c, "done")
          /\ \E id : /\ Unheld(overrides, id)
                     /\ overrides' = overrides \cup
                            {[id |-> id, type |-> P!TypeOf(k.op), actor |-> k.actor,
                              permission |-> k.action, scope |-> k.scope,
                              resource |-> Stored(k.resource)]}
RevokeForms(c) ==
    LET k == pcall[c] IN
    /\ k \in OverrideCalls /\ k.op \in P!Revokes /\ assignments' = assignments
    /\ \/ k.at = "find" /\ EndsAs(c, "done") /\ TablesSame
       \/ /\ k.at = "find" /\ TablesSame
          /\ \E row \in overrides : Meets(row, k) /\ FoundAt(c, row.id, "delete")
       \/ k.at = "delete" /\ EndsAs(c, "done") /\ overrides' = Delete(overrides, k.row)
SweepForms(c) ==
    LET k == pcall[c] IN
    /\ k \in SweepCalls
    /\ \/ /\ k.at = "assignments" /\ TablesSame
          /\ pcall'[c] = [k EXCEPT !.at = "unassigning",
                  !.found = {row.id : row \in {r \in assignments : Under(r, k.where)}}]
       \/ /\ k.at = "unassigning" /\ overrides' = overrides
          /\ \E id \in k.found : /\ assignments' = Delete(assignments, id)
                                 /\ pcall'[c] = [k EXCEPT !.found = @ \ {id}]
       \/ /\ k.at = "unassigning" /\ k.found = {} /\ TablesSame
          /\ pcall'[c] = [k EXCEPT !.at = "lifting",
                  !.found = {row.id : row \in {r \in overrides : Under(r, k.where)}}]
       \/ /\ k.at = "lifting" /\ assignments' = assignments
          /\ \E id \in k.found : /\ overrides' = Delete(overrides, id)
                                 /\ pcall'[c] = [k EXCEPT !.found = @ \ {id}]
       \/ k.at = "lifting" /\ k.found = {} /\ EndsAs(c, "done") /\ TablesSame
PermissionForms(c) ==
    /\ pcall' = [pcall EXCEPT ![c] = pcall'[c]] /\ pcall[c].at \notin {"idle", "returned"}
    /\ \/ QueryForms(c) \/ AssignForms(c) \/ UnassignForms(c) \/ AddForms(c) \/ RevokeForms(c)
       \/ SweepForms(c)
       \/ EndsAs(c, "threw") /\ TablesSame

(* What a step of a client or of the facade does to the call of the permission service. *)
Begins(c) ==
    /\ pcall[c] = P!Idle /\ pcall'[c].at \in {"find", "deny", "assignments"}
    /\ pcall'[c].op \in P!Queries => pcall'[c].left = pcall'[c].actions
LeavesTables(c) ==
    /\ TablesSame /\ pcall' = [pcall EXCEPT ![c] = pcall'[c]]
    /\ \/ pcall'[c] = pcall[c]
       \/ pcall[c].at = "returned" /\ pcall'[c] = P!Idle
       \/ Begins(c)

-----------------------------------------------------------------------------
(* The where clauses: what they select, and the ids new rows are given. *)

(* The op of a call says which kind of call it is. *)
LEMMA CallKinds ==
    ASSUME NEW k \in PermissionCalls
    PROVE  /\ k.op \in P!OverrideOps <=> k \in OverrideCalls
           /\ k.op \in RoleOps <=> k \in RoleCalls
           /\ k.op \in P!Queries <=> k \in QueryCalls
           /\ k.op \in Sweeps <=> k \in SweepCalls
           /\ k.op = "none" <=> k = P!Idle
           /\ k.at # "idle" => k # P!Idle
BY DEF PermissionCalls, OverrideCalls, RoleCalls, QueryCalls, SweepCalls, P!Idle,
       P!OverrideOps, RoleOps, P!Queries, Sweeps

(* The id of a new row is one no row has and no call in progress knows. *)
LEMMA FreshRow ==
    ASSUME TInv, NEW table, table = assignments \/ table = overrides
    PROVE  Unheld(table, P!FreshId(table))
<1> DEFINE ids == [row \in table |-> row.id]
           R == {d \in Clients : "row" \in DOMAIN pcall[d]}
           F == {d \in Clients : "found" \in DOMAIN pcall[d]}
           rows == [d \in R |-> pcall[d].row]
           founds == [d \in F |-> pcall[d].found]
           used == {ids[row] : row \in table} \cup
                       ({rows[d] : d \in R} \cup UNION {founds[d] : d \in F})
<1>1. IsFiniteSet(R) /\ IsFiniteSet(F)
  BY OrganisationAssumption, FS_Subset
<1>2. IsFiniteSet({ids[row] : row \in table}) /\ IsFiniteSet({rows[d] : d \in R})
      /\ IsFiniteSet({founds[d] : d \in F})
  <2> HIDE DEF ids, rows, founds, R, F
  <2> QED
    BY <1>1, ImageFinite DEF TInv, TablesOK, TableOf
<1>3. \A d \in F : IsFiniteSet(founds[d])
  <2> SUFFICES ASSUME NEW d \in F PROVE pcall[d] \in SweepCalls
    BY DEF SweepCalls
  <2>1. pcall[d] \in PermissionCalls /\ "found" \in DOMAIN pcall[d]
    BY DEF TInv
  <2> HIDE DEF F
  <2> QED
    BY <2>1 DEF PermissionCalls, OverrideCalls, RoleCalls, QueryCalls, P!Idle
<1>4. IsFiniteSet(used)
  <2> HIDE DEF ids, rows, founds, R, F
  <2>1. IsFiniteSet(UNION {founds[d] : d \in F})
    BY <1>2, <1>3, FS_UNION
  <2> QED
    BY <1>2, <2>1, FS_Union
<1>5. P!FreshId(table) = NewId(used)
  <2>0. \A u : P!NewId(u) = NewId(u)
    <3> SUFFICES ASSUME NEW u PROVE P!NewId(u) = NewId(u)
      OBVIOUS
    <3> DEFINE free == (1 .. Cardinality(u) + 1) \ u
    <3>0. P!Cardinality(u) = Cardinality(u)
      BY DEF P!Cardinality, Cardinality
    <3>1. P!NewId(u) = CHOOSE id \in free : \A other \in free : id <= other
      BY <3>0 DEF P!NewId
    <3>2. NewId(u) = CHOOSE id \in free : \A other \in free : id <= other
      BY DEF NewId
    <3> QED
      BY <3>1, <3>2
  <2>1. {row.id : row \in table} \cup P!HeldIds = used
    BY DEF P!HeldIds
  <2> HIDE DEF used
  <2> QED
    BY <2>0, <2>1 DEF P!FreshId
<1>6. P!FreshId(table) \in Nat \ used
  <2> HIDE DEF used
  <2> QED
    BY <1>4, <1>5, NewIdFresh
<1>7. \A d \in Clients : pcall[d].op \in P!OverrideOps \cup RoleOps => d \in R
  BY CallKinds DEF TInv, OverrideCalls, RoleCalls
<1>8. \A d \in Clients : pcall[d].op \in Sweeps => d \in F
  BY CallKinds DEF TInv, SweepCalls
<1> DEFINE id == P!FreshId(table)
<1>9. id \in Nat /\ \A row \in table : row.id # id
  BY <1>6
<1>10. \A d \in R : pcall[d].row # id
  BY <1>6
<1>11. \A d \in F : id \notin pcall[d].found
  BY <1>6
<1> QED
  BY <1>7, <1>8, <1>9, <1>10, <1>11 DEF Unheld

(* The service reads and writes its tables by the operators of Rows. *)
LEMMA RowsOfPermission ==
    /\ \A table, where : P!FindMany(table, where) = {row \in table : Matches(row, where)}
    /\ \A table, where : P!FindsNone(table, where) <=> ~\E row \in table : Matches(row, where)
    /\ \A table, row : P!Create(table, row) = table \cup {row}
    /\ \A table, id, field, value : P!Update(table, id, field, value) = Update(table, id, field, value)
    /\ \A table, id : P!Delete(table, id) = Delete(table, id)
    /\ \A value : P!Stored(value) = Stored(value)
    /\ \A table, id : P!Exists(table, id) = Exists(table, id)
BY DEF P!FindMany, P!FindsNone, P!Matches, P!Create, P!Update, P!Delete, P!Stored, P!Exists,
       Matches, Update, Delete, Stored, Exists

(* The arguments of a call are neither undefined nor null. *)
LEMMA ArgumentsGiven ==
    \A x \in Members \cup AllScopes \cup Resources \cup Actions \cup Adds : x # Undefined /\ x # Null
BY OrganisationAssumption, ArgumentAssumption DEF AllScopes, Actions, Adds

(* The where clause of an assignment selects its actor and its scope. *)
LEMMA SelectsRole ==
    ASSUME NEW k, k.actor \in Members, k.scope \in AllScopes, NEW row
    PROVE  Matches(row, P!AssignmentWhere(k)) <=> row.actor = k.actor /\ row.scope = k.scope
<1>1. k.actor # Undefined /\ k.actor # Null /\ k.scope # Undefined /\ k.scope # Null
  BY ArgumentsGiven
<1> QED
  BY <1>1 DEF Matches, P!AssignmentWhere

(* The where clause of an override selects what Meets it, any resource when
   the call names none. *)
LEMMA SelectsTarget ==
    ASSUME NEW k \in OverrideCalls, NEW row
    PROVE  Matches(row, P!TargetWhere(k)) <=> Meets(row, k)
<1>1. k.actor # Undefined /\ k.actor # Null /\ k.scope # Undefined /\ k.scope # Null
  BY ArgumentsGiven DEF OverrideCalls
<1>2. k.action # Undefined /\ k.action # Null
  <2>1. k.action \in Actions
    BY DEF OverrideCalls, Actions, Permissions
  <2> QED
    BY <2>1, ArgumentsGiven
<1>3. k.resource # Null
  BY ArgumentsGiven, RowsAssumption DEF OverrideCalls, Levels
<1>4. P!TypeOf(k.op) # Undefined /\ P!TypeOf(k.op) # Null
  <2>1. P!TypeOf(k.op) \in Adds
    BY DEF P!TypeOf, Adds
  <2> QED
    BY <2>1, ArgumentsGiven
<1> QED
  BY <1>1, <1>2, <1>3, <1>4 DEF Matches, P!TargetWhere, Meets

(* The where clause of a sweep selects the rows of the scope or the actor. *)
LEMMA SelectsUnder ==
    ASSUME NEW where \in Wheres, NEW row
    PROVE  Matches(row, where) <=> Under(row, where)
<1>1. \A f \in DOMAIN where : where[f] # Undefined /\ where[f] # Null
  BY ArgumentsGiven DEF Wheres
<1> QED
  BY <1>1 DEF Matches, Under

(* findDenyOverride and findGrantOverride find what the policy asks for. *)
LEMMA SelectsOverride ==
    ASSUME NEW k \in QueryCalls, NEW a \in Actions, overrides \subseteq P!OverrideRows, NEW type
    PROVE  P!Overridden(type, k, a) <=> P!Has(type, k, a)
<1>1. /\ k.actor # Undefined /\ k.actor # Null /\ k.scope # Undefined /\ k.scope # Null
      /\ a # Undefined /\ a # Null
  BY ArgumentsGiven DEF QueryCalls
<1>2. \A row : Matches(row, P!OverrideWhere(k, a)) <=>
          row.actor = k.actor /\ row.scope = k.scope /\ row.permission = a
  BY <1>1 DEF Matches, P!OverrideWhere
<1>3. \A row \in overrides : row.resource # Undefined
  BY ArgumentsGiven, RowsAssumption DEF P!OverrideRows
<1> QED
  BY <1>2, <1>3, RowsOfPermission DEF P!Overridden, P!Has

-----------------------------------------------------------------------------
(* What a step of the permission service does, action by action, in the
   forms of PermissionForms. *)

(* A call that returns keeps all but its stage and outcome. *)
LEMMA Returning ==
    ASSUME pcall \in [Clients -> PermissionCalls], NEW c \in Clients, NEW out, P!Returns(c, out)
    PROVE  pcall' = [pcall EXCEPT ![c] = pcall'[c]] /\ EndsAs(c, out)
BY DEF P!Returns, EndsAs

(* A call that has found a row keeps all but its stage and the id. *)
LEMMA Finding ==
    ASSUME pcall \in [Clients -> PermissionCalls], NEW c \in Clients, NEW id, NEW at,
           P!Found(c, id, at)
    PROVE  pcall' = [pcall EXCEPT ![c] = pcall'[c]] /\ FoundAt(c, id, at)
BY DEF P!Found, FoundAt

(* A step of one caller leaves the calls of the others. *)
LEMMA Becoming ==
    ASSUME pcall \in [Clients -> PermissionCalls], NEW c \in Clients, NEW k,
           pcall' = [pcall EXCEPT ![c] = k]
    PROVE  pcall' = [pcall EXCEPT ![c] = pcall'[c]] /\ pcall'[c] = k
OBVIOUS

(* What Decides does to the call of one caller. *)
LEMMA Deciding ==
    ASSUME pcall \in [Clients -> PermissionCalls], NEW c \in Clients, NEW allowed \in BOOLEAN,
           P!Decides(c, allowed)
    PROVE  pcall' = [pcall EXCEPT ![c] = pcall'[c]] /\ DecidesTo(c, allowed)
<1> DEFINE k == pcall[c]
           stop == IF k.op = "canAll" THEN ~allowed ELSE allowed
<1>1. CASE stop \/ Len(k.left) = 1
  <2>1. P!Returns(c, IF allowed THEN "yes" ELSE "no")
    BY <1>1 DEF P!Decides
  <2>2. /\ pcall' = [pcall EXCEPT ![c] = pcall'[c]]
        /\ pcall'[c] = [k EXCEPT !.at = "returned", !.out = IF allowed THEN "yes" ELSE "no"]
    BY <2>1, Returning DEF EndsAs
  <2> QED
    BY <1>1, <2>2 DEF DecidesTo
<1>2. CASE ~(stop \/ Len(k.left) = 1)
  <2>1. pcall' = [pcall EXCEPT ![c].at = "deny", ![c].left = Tail(@)]
    BY <1>2 DEF P!Decides
  <2>2. /\ pcall' = [pcall EXCEPT ![c] = pcall'[c]]
        /\ pcall'[c] = [k EXCEPT !.at = "deny", !.left = Tail(@)]
    BY <2>1
  <2> QED
    BY <1>2, <2>2 DEF DecidesTo
<1> QED
  BY <1>1, <1>2

(* The action asked about next is one of the actions. *)
LEMMA HeadAsked ==
    ASSUME NEW k \in QueryCalls
    PROVE  Head(k.left) \in Actions
<1>1. k.left \in Seq(Actions) /\ k.left # <<>>
  BY DEF QueryCalls, Questions
<1> QED
  BY <1>1

(* The reads of a query are in the forms of QueryForms. *)
LEMMA QueryStep ==
    ASSUME TInv, NEW c \in Clients,
           P!ResolveOutside(c) \/ P!ResolveDeny(c) \/ P!ResolveGrant(c) \/ P!ResolveRole(c)
    PROVE  PermissionForms(c)
<1> DEFINE k == pcall[c]
           a == Head(k.left)
<1>1. k.op \in P!Queries /\ TablesSame /\ k.at \in {"deny", "grant", "role"}
  BY DEF P!ResolveOutside, P!ResolveDeny, P!ResolveGrant, P!ResolveRole, P!Query, TablesSame
<1>2. pcall \in [Clients -> PermissionCalls] /\ k \in QueryCalls
      /\ overrides \subseteq P!OverrideRows
  BY <1>1, CallKinds DEF TInv, TablesOK, TableOf
<1>3. /\ P!Overridden("deny", k, a) <=> P!Has("deny", k, a)
      /\ P!Overridden("grant", k, a) <=> P!Has("grant", k, a)
  <2> HIDE DEF k
  <2>1. a \in Actions
    BY <1>2, HeadAsked
  <2> QED
    BY <1>2, <2>1, SelectsOverride
<1> DEFINE Shape == pcall' = [pcall EXCEPT ![c] = pcall'[c]]
<1>4. SUFFICES Shape /\ QueryForms(c)
  BY <1>1 DEF PermissionForms
<1>5. ASSUME NEW at, pcall' = [pcall EXCEPT ![c].at = at]
      PROVE  Shape /\ pcall'[c] = [k EXCEPT !.at = at]
  BY <1>2, <1>5
<1>6. ASSUME NEW allowed \in BOOLEAN, P!Decides(c, allowed) PROVE Shape /\ DecidesTo(c, allowed)
  BY <1>2, <1>6, Deciding
<1>7. P!Asked(c) = a
  BY DEF P!Asked
<1> HIDE DEF Shape
<1>8. CASE P!ResolveOutside(c)
  <2>1. k.at = "deny" /\ ~P!InRealm(k, a) /\ P!Decides(c, FALSE)
    BY <1>7, <1>8 DEF P!ResolveOutside, P!Query
  <2> QED
    BY <1>1, <1>2, <1>6, <2>1 DEF QueryForms
<1>9. CASE P!ResolveDeny(c)
  <2>1. k.at = "deny" /\ P!InRealm(k, a)
    BY <1>7, <1>9 DEF P!ResolveDeny, P!Query
  <2>2. CASE P!Has("deny", k, a)
    <3>1. P!Decides(c, FALSE)
      BY <1>3, <1>7, <1>9, <2>2 DEF P!ResolveDeny
    <3> QED
      BY <1>1, <1>2, <1>6, <2>1, <2>2, <3>1 DEF QueryForms
  <2>3. CASE ~P!Has("deny", k, a)
    <3>1. pcall' = [pcall EXCEPT ![c].at = "grant"]
      BY <1>3, <1>7, <1>9, <2>3 DEF P!ResolveDeny
    <3> QED
      BY <1>1, <1>2, <1>5, <2>1, <2>3, <3>1 DEF QueryForms
  <2> QED
    BY <2>2, <2>3
<1>10. CASE P!ResolveGrant(c)
  <2>1. k.at = "grant"
    BY <1>10 DEF P!ResolveGrant, P!Query
  <2>2. CASE P!Has("grant", k, a)
    <3>1. P!Decides(c, TRUE)
      BY <1>3, <1>7, <1>10, <2>2 DEF P!ResolveGrant
    <3> QED
      BY <1>1, <1>2, <1>6, <2>1, <2>2, <3>1 DEF QueryForms
  <2>3. CASE ~P!Has("grant", k, a)
    <3>1. pcall' = [pcall EXCEPT ![c].at = "role"]
      BY <1>3, <1>7, <1>10, <2>3 DEF P!ResolveGrant
    <3> QED
      BY <1>1, <1>2, <1>5, <2>1, <2>3, <3>1 DEF QueryForms
  <2> QED
    BY <2>2, <2>3
<1>11. CASE P!ResolveRole(c)
  <2>1. k.at = "role"
    BY <1>11 DEF P!ResolveRole, P!Query
  <2>2. \A row : Matches(row, P!AssignmentWhere(k)) <=> row.actor = k.actor /\ row.scope = k.scope
    <3>1. k.actor \in Members /\ k.scope \in AllScopes
      BY <1>2 DEF QueryCalls
    <3> QED
      BY <3>1, SelectsRole
  <2>3. \/ ~Holds(k.actor, k.scope) /\ P!Decides(c, FALSE)
        \/ \E row \in assignments : /\ row.actor = k.actor /\ row.scope = k.scope
                                    /\ P!Decides(c, P!RoleAllows(row.role, a))
    BY <1>7, <1>11, <2>2, RowsOfPermission DEF P!ResolveRole, Holds
  <2>4. \A row : P!RoleAllows(row.role, a) \in BOOLEAN
    BY DEF P!RoleAllows
  <2>5. CASE ~Holds(k.actor, k.scope) /\ P!Decides(c, FALSE)
    <3>1. Shape /\ DecidesTo(c, FALSE)
      BY <1>6, <2>5
    <3> QED
      BY <1>1, <1>2, <2>1, <2>5, <3>1 DEF QueryForms
  <2>6. ASSUME NEW row \in assignments, row.actor = k.actor, row.scope = k.scope,
               P!Decides(c, P!RoleAllows(row.role, a))
        PROVE  Shape /\ QueryForms(c)
    <3>1. Shape /\ DecidesTo(c, P!RoleAllows(row.role, a))
      BY <1>6, <2>4, <2>6
    <3> QED
      BY <1>1, <1>2, <2>1, <2>6, <3>1 DEF QueryForms
  <2> QED
    BY <2>3, <2>5, <2>6
<1> QED
  BY <1>8, <1>9, <1>10, <1>11

(* The steps of assign are in the forms of AssignForms. *)
LEMMA AssignStep ==
    ASSUME TInv, NEW c \in Clients, P!Assign(c), overrides' = overrides
    PROVE  PermissionForms(c)
<1> DEFINE k == pcall[c]
           Shape == pcall' = [pcall EXCEPT ![c] = pcall'[c]]
<1>1. k.op = "assign" /\ k.at \in {"find", "create", "update"}
  BY DEF P!Assign, P!RoleStep
<1>2. pcall \in [Clients -> PermissionCalls] /\ k \in RoleCalls
  BY <1>1, CallKinds DEF TInv, RoleOps
<1>3. \A row : Matches(row, P!AssignmentWhere(k)) <=> row.actor = k.actor /\ row.scope = k.scope
  <2>1. k.actor \in Members /\ k.scope \in AllScopes
    BY <1>2 DEF RoleCalls
  <2> QED
    BY <2>1, SelectsRole
<1>4. \A out : P!Returns(c, out) => Shape /\ EndsAs(c, out)
  BY <1>2, Returning
<1>5. \A id, at : P!Found(c, id, at) => Shape /\ FoundAt(c, id, at)
  BY <1>2, Finding
<1> HIDE DEF Shape
<1>6. CASE k.at = "find" /\ k.scope \notin OrgIds
  <2>1. P!Returns(c, "threw") /\ assignments' = assignments
    BY <1>6 DEF P!Assign, P!RoleStep
  <2> QED
    BY <1>1, <1>4, <2>1 DEF PermissionForms, TablesSame, Shape
<1>7. CASE k.at = "find" /\ k.scope \in OrgIds
  <2>1. /\ assignments' = assignments
        /\ \/ ~Holds(k.actor, k.scope) /\ P!Found(c, P!NoRow, "create")
           \/ \E row \in assignments : P!Found(c, row.id, "update")
    BY <1>3, <1>7, RowsOfPermission DEF P!Assign, P!RoleStep, Holds
  <2>2. Shape /\ AssignForms(c)
    BY <1>1, <1>2, <1>5, <1>7, <2>1 DEF AssignForms, TablesSame
  <2> QED
    BY <1>1, <2>2 DEF PermissionForms, Shape
<1>8. CASE k.at = "create"
  <2>1. /\ P!Returns(c, "done")
        /\ assignments' = assignments \cup
               {[id |-> P!FreshId(assignments), actor |-> k.actor, scope |-> k.scope,
                 role |-> k.role]}
    BY <1>8, RowsOfPermission DEF P!Assign, P!RoleStep
  <2>2. Unheld(assignments, P!FreshId(assignments))
    BY FreshRow
  <2>3. Shape /\ AssignForms(c)
    BY <1>1, <1>2, <1>4, <1>8, <2>1, <2>2 DEF AssignForms
  <2> QED
    BY <1>1, <2>3 DEF PermissionForms, Shape
<1>9. CASE k.at = "update"
  <2>1. /\ P!Returns(c, "done") \/ P!Returns(c, "threw")
        /\ assignments' = Update(assignments, k.row, "role", k.role)
    BY <1>9, RowsOfPermission DEF P!Assign, P!RoleStep
  <2>3. Shape /\ AssignForms(c)
    BY <1>1, <1>2, <1>4, <1>9, <2>1 DEF AssignForms
  <2> QED
    BY <1>1, <2>3 DEF PermissionForms, Shape
<1> QED
  BY <1>1, <1>6, <1>7, <1>8, <1>9

(* The steps of unassign are in the forms of UnassignForms. *)
LEMMA UnassignStep ==
    ASSUME TInv, NEW c \in Clients, P!Unassign(c), overrides' = overrides
    PROVE  PermissionForms(c)
<1> DEFINE k == pcall[c]
           Shape == pcall' = [pcall EXCEPT ![c] = pcall'[c]]
<1>1. k.op = "unassign" /\ k.at \in {"find", "delete"}
  BY DEF P!Unassign, P!RoleStep
<1>2. pcall \in [Clients -> PermissionCalls] /\ k \in RoleCalls
  BY <1>1, CallKinds DEF TInv, RoleOps
<1>3. \A row : Matches(row, P!AssignmentWhere(k)) <=> row.actor = k.actor /\ row.scope = k.scope
  <2>1. k.actor \in Members /\ k.scope \in AllScopes
    BY <1>2 DEF RoleCalls
  <2> QED
    BY <2>1, SelectsRole
<1>4. \A out : P!Returns(c, out) => Shape /\ EndsAs(c, out)
  BY <1>2, Returning
<1>5. \A id, at : P!Found(c, id, at) => Shape /\ FoundAt(c, id, at)
  BY <1>2, Finding
<1> HIDE DEF Shape
<1>6. CASE k.at = "find"
  <2>1. /\ assignments' = assignments
        /\ \/ ~Holds(k.actor, k.scope) /\ P!Returns(c, "done")
           \/ \E row \in assignments : /\ row.actor = k.actor /\ row.scope = k.scope
                                       /\ P!Found(c, row.id, "delete")
    BY <1>3, <1>6, RowsOfPermission DEF P!Unassign, P!RoleStep, Holds
  <2>2. Shape /\ UnassignForms(c)
    BY <1>1, <1>2, <1>4, <1>5, <1>6, <2>1 DEF UnassignForms, TablesSame
  <2> QED
    BY <1>1, <2>2 DEF PermissionForms, Shape
<1>7. CASE k.at = "delete"
  <2>1. P!Returns(c, "done") /\ assignments' = Delete(assignments, k.row)
    BY <1>7, RowsOfPermission DEF P!Unassign, P!RoleStep
  <2>3. Shape /\ UnassignForms(c)
    BY <1>1, <1>2, <1>4, <1>7, <2>1 DEF UnassignForms
  <2> QED
    BY <1>1, <2>3 DEF PermissionForms, Shape
<1> QED
  BY <1>1, <1>6, <1>7

(* The steps of grant, deny, revokeGrant and revokeDeny are in their forms. *)
LEMMA OverrideStep ==
    ASSUME TInv, NEW c \in Clients, P!AddOverride(c) \/ P!RevokeOverride(c),
           assignments' = assignments
    PROVE  PermissionForms(c)
<1> DEFINE k == pcall[c]
           Shape == pcall' = [pcall EXCEPT ![c] = pcall'[c]]
<1>1. k.op \in P!OverrideOps /\ k.at \in {"find", "create", "delete"}
  <2>1. k.op \in P!OverrideOps \ P!Revokes \/ k.op \in P!Revokes
    BY Zenon DEF P!AddOverride, P!RevokeOverride
  <2>2. k.at = "find" \/ k.at = "create" \/ k.at = "delete"
    BY Zenon DEF P!AddOverride, P!RevokeOverride
  <2> QED
    BY <2>1, <2>2 DEF P!OverrideOps, P!Revokes
<1>2. pcall \in [Clients -> PermissionCalls] /\ k \in OverrideCalls
  BY <1>1, CallKinds DEF TInv
<1>3. \A row : Matches(row, P!TargetWhere(k)) <=> Meets(row, k)
  BY <1>2, SelectsTarget
<1>4. \A out : P!Returns(c, out) => Shape /\ EndsAs(c, out)
  BY <1>2, Returning
<1>5. \A id, at : P!Found(c, id, at) => Shape /\ FoundAt(c, id, at)
  BY <1>2, Finding
<1> HIDE DEF Shape
<1>6. CASE P!AddOverride(c)
  <2>1. k.op \in Adds
    <3>1. k.op \in P!OverrideOps \ P!Revokes
      BY <1>6, Zenon DEF P!AddOverride
    <3> QED
      BY <3>1 DEF P!OverrideOps, P!Revokes, Adds
  <2>2. CASE k.at = "find"
    <3>1. /\ overrides' = overrides
          /\ IF ~\E row \in overrides : Meets(row, k)
             THEN P!Found(c, P!NoRow, "create") ELSE P!Returns(c, "done")
      BY <1>3, <1>6, <2>2, RowsOfPermission DEF P!AddOverride
    <3>2. Shape /\ AddForms(c)
      BY <1>2, <1>4, <1>5, <2>1, <2>2, <3>1 DEF AddForms, TablesSame
    <3> QED
      BY <1>1, <3>2 DEF PermissionForms, Shape
  <2>3. CASE k.at = "create"
    <3>1. /\ P!Returns(c, "done")
          /\ overrides' = overrides \cup
                 {[id |-> P!FreshId(overrides), type |-> P!TypeOf(k.op), actor |-> k.actor,
                   permission |-> k.action, scope |-> k.scope, resource |-> Stored(k.resource)]}
      BY <1>6, <2>3, RowsOfPermission DEF P!AddOverride
    <3>2. Unheld(overrides, P!FreshId(overrides))
      BY FreshRow
    <3>3. Shape /\ AddForms(c)
      BY <1>2, <1>4, <2>1, <2>3, <3>1, <3>2 DEF AddForms
    <3> QED
      BY <1>1, <3>3 DEF PermissionForms, Shape
  <2> QED
    BY <1>6, <2>2, <2>3 DEF P!AddOverride
<1>7. CASE P!RevokeOverride(c)
  <2>1. k.op \in P!Revokes
    BY <1>7 DEF P!RevokeOverride
  <2>2. CASE k.at = "find"
    <3>1. /\ overrides' = overrides
          /\ \/ P!Returns(c, "done")
             \/ \E row \in overrides : Meets(row, k) /\ P!Found(c, row.id, "delete")
      BY <1>3, <1>7, <2>2, RowsOfPermission DEF P!RevokeOverride
    <3>2. Shape /\ RevokeForms(c)
      BY <1>2, <1>4, <1>5, <2>1, <2>2, <3>1 DEF RevokeForms, TablesSame
    <3> QED
      BY <1>1, <3>2 DEF PermissionForms, Shape
  <2>3. CASE k.at = "delete"
    <3>1. P!Returns(c, "done") /\ overrides' = Delete(overrides, k.row)
      BY <1>7, <2>3, RowsOfPermission DEF P!RevokeOverride
    <3>2. Shape /\ RevokeForms(c)
      BY <1>2, <1>4, <2>1, <2>3, <3>1 DEF RevokeForms
    <3> QED
      BY <1>1, <3>2 DEF PermissionForms, Shape
  <2> QED
    BY <1>7, <2>2, <2>3 DEF P!RevokeOverride
<1> QED
  BY <1>6, <1>7

(* The steps of revokeScope and revokeAll are in the forms of SweepForms. *)
LEMMA SweepStep ==
    ASSUME TInv, NEW c \in Clients, P!Sweep(c)
    PROVE  PermissionForms(c)
<1> DEFINE k == pcall[c]
           Shape == pcall' = [pcall EXCEPT ![c] = pcall'[c]]
           Ids(table) == {row.id : row \in {r \in table : Under(r, k.where)}}
<1>1. k.at \in {"assignments", "unassigning", "lifting"}
  BY DEF P!Sweep
<1>2. pcall \in [Clients -> PermissionCalls] /\ k \in SweepCalls
  <2>1. k \in PermissionCalls
    BY DEF TInv
  <2> HIDE DEF k
  <2> QED
    BY <1>1, <2>1 DEF TInv, PermissionCalls, OverrideCalls, RoleCalls, QueryCalls, P!Idle
<1>3. \A row : Matches(row, k.where) <=> Under(row, k.where)
  <2>1. k.where \in Wheres
    BY <1>2 DEF SweepCalls
  <2> QED
    BY <2>1, SelectsUnder
<1>4. \A out : P!Returns(c, out) => Shape /\ EndsAs(c, out)
  BY <1>2, Returning
<1>5. \A table, at : P!SweepLists(c, table, at) =>
            Shape /\ pcall'[c] = [k EXCEPT !.at = at, !.found = Ids(table)]
  <2> SUFFICES ASSUME NEW table, NEW at, P!SweepLists(c, table, at)
               PROVE  Shape /\ pcall'[c] = [k EXCEPT !.at = at, !.found = Ids(table)]
    OBVIOUS
  <2>1. P!FindMany(table, k.where) = {r \in table : Under(r, k.where)}
    BY <1>3, RowsOfPermission
  <2>2. pcall' = [pcall EXCEPT ![c].at = at,
                               ![c].found = {row.id : row \in P!FindMany(table, k.where)}]
    BY DEF P!SweepLists
  <2>3. pcall' = [pcall EXCEPT ![c].at = at, ![c].found = Ids(table)]
    BY <2>1, <2>2
  <2> HIDE DEF Ids
  <2> QED
    BY <1>2, <2>3
<1>6. \A id : P!Swept(c, id) => Shape /\ pcall'[c] = [k EXCEPT !.found = @ \ {id}]
  BY <1>2 DEF P!Swept
<1>7. SUFFICES Shape /\ SweepForms(c)
  BY <1>1 DEF PermissionForms
<1>8. \/ /\ k.at = "assignments" /\ TablesSame
         /\ P!SweepLists(c, assignments, "unassigning")
      \/ /\ k.at = "unassigning" /\ overrides' = overrides
         /\ \E id \in k.found : assignments' = Delete(assignments, id) /\ P!Swept(c, id)
      \/ /\ k.at = "unassigning" /\ k.found = {} /\ TablesSame
         /\ P!SweepLists(c, overrides, "lifting")
      \/ /\ k.at = "lifting" /\ assignments' = assignments
         /\ \E id \in k.found : overrides' = Delete(overrides, id) /\ P!Swept(c, id)
      \/ k.at = "lifting" /\ k.found = {} /\ P!Returns(c, "done") /\ TablesSame
  BY RowsOfPermission DEF P!Sweep, TablesSame
<1> HIDE DEF Shape
<1>9. CASE /\ k.at = "assignments" /\ TablesSame
           /\ P!SweepLists(c, assignments, "unassigning")
  BY <1>2, <1>5, <1>9 DEF SweepForms
<1>10. CASE /\ k.at = "unassigning" /\ overrides' = overrides
            /\ \E id \in k.found : assignments' = Delete(assignments, id) /\ P!Swept(c, id)
  BY <1>2, <1>6, <1>10 DEF SweepForms
<1>11. CASE /\ k.at = "unassigning" /\ k.found = {} /\ TablesSame
            /\ P!SweepLists(c, overrides, "lifting")
  BY <1>2, <1>5, <1>11 DEF SweepForms
<1>12. CASE /\ k.at = "lifting" /\ assignments' = assignments
            /\ \E id \in k.found : overrides' = Delete(overrides, id) /\ P!Swept(c, id)
  BY <1>2, <1>6, <1>12 DEF SweepForms
<1>13. CASE k.at = "lifting" /\ k.found = {} /\ P!Returns(c, "done") /\ TablesSame
  BY <1>2, <1>4, <1>13 DEF SweepForms
<1> QED
  BY <1>8, <1>9, <1>10, <1>11, <1>12, <1>13

(* Every step of the permission service is in one of the forms. *)
LEMMA PermissionStepForms ==
    ASSUME TInv, NEW c \in Clients, P!PermissionStep(c)
    PROVE  PermissionForms(c)
<1>1. CASE P!Rejected(c)
  <2>1. P!Returns(c, "threw") /\ TablesSame /\ pcall[c].at \notin {"idle", "returned"}
    BY <1>1 DEF P!Rejected, P!InFlight, TablesSame
  <2> QED
    BY <2>1, Returning DEF TInv, PermissionForms
<1> QED
  BY <1>1, QueryStep, AssignStep, UnassignStep, OverrideStep, SweepStep DEF P!PermissionStep

-----------------------------------------------------------------------------
(* Typing: the steps of the facade that leave the services alone. *)

(* A row with a new id keeps a table one. *)
LEMMA InsertedTable ==
    ASSUME NEW rows, NEW table, TableOf(rows, table), NEW r \in rows,
           \A row \in table : row.id # r.id
    PROVE  TableOf(rows, table \cup {r})
<1>1. IsFiniteSet(table \cup {r})
  BY FS_AddElement DEF TableOf
<1> QED
  BY <1>1 DEF TableOf, UniqueIds

(* A table stays one without some of its rows. *)
LEMMA DeletedTable ==
    ASSUME NEW rows, NEW table, TableOf(rows, table), NEW id
    PROVE  TableOf(rows, Delete(table, id)) /\ Delete(table, id) \subseteq table
<1>1. Delete(table, id) \in SUBSET table
  BY DEF Delete
<1>2. IsFiniteSet(Delete(table, id))
  BY <1>1, FS_Subset DEF TableOf
<1> QED
  BY <1>1, <1>2 DEF TableOf, UniqueIds

(* A table stays one when a field of a row is given a value of its kind. *)
LEMMA UpdatedTable ==
    ASSUME NEW rows, NEW table, TableOf(rows, table), NEW id, NEW field, NEW value,
           \A row \in table : /\ [row EXCEPT ![field] = value] \in rows
                              /\ [row EXCEPT ![field] = value].id = row.id
    PROVE  TableOf(rows, Update(table, id, field, value))
<1> DEFINE f == [row \in table |->
                    IF row.id = id THEN [row EXCEPT ![field] = value] ELSE row]
<1>1. Update(table, id, field, value) = {f[row] : row \in table}
  BY DEF Update
<1>2. \A row \in table : f[row] \in rows /\ f[row].id = row.id
  BY DEF TableOf
<1> HIDE DEF f
<1>3. IsFiniteSet({f[row] : row \in table})
  BY ImageFinite DEF TableOf
<1> QED
  BY <1>1, <1>2, <1>3 DEF TableOf, UniqueIds

(* A step of one client. *)
LEMMA Settle ==
    ASSUME TInv, NEW c \in Clients, plan' = plan, TablesOK', deleted \subseteq deleted',
           NEW o \in OrganisationCalls, ocall' = [ocall EXCEPT ![c] = o],
           NEW p \in PermissionCalls, pcall' = [pcall EXCEPT ![c] = p],
           NEW m \in MembershipCalls, mcall' = [mcall EXCEPT ![c] = m],
           ODuty(c)', PDuty(c)', Asks(c)'
    PROVE  TInv'
<1>1. /\ ocall' \in [Clients -> OrganisationCalls]
      /\ pcall' \in [Clients -> PermissionCalls]
      /\ mcall' \in [Clients -> MembershipCalls]
  BY DEF TInv
<1>2. ASSUME NEW d \in Clients PROVE ODuty(d)' /\ PDuty(d)' /\ Asks(d)'
  <2>1. CASE d = c
    BY <2>1
  <2>2. CASE d # c
    <3>1. ocall'[d] = ocall[d] /\ pcall'[d] = pcall[d] /\ mcall'[d] = mcall[d]
      BY <2>2 DEF TInv
    <3>2. ODuty(d)' /\ PDuty(d)'
      BY <3>1 DEF TInv, ODuty, PDuty
    <3>3. Asks(d)'
      BY <3>1 DEF TInv, Asks
    <3> QED
      BY <3>2, <3>3
  <2> QED
    BY <2>1, <2>2
<1> QED
  BY <1>1, <1>2 DEF TInv

(* A function of typed values, changed at one argument. *)
LEMMA Shape ==
    ASSUME NEW C, NEW S, NEW f \in [C -> S], NEW c \in C
    PROVE  /\ f[c] \in S
           /\ f = [f EXCEPT ![c] = f[c]]
           /\ \A x : [f EXCEPT ![c] = x][c] = x
OBVIOUS

(* A step of the facade that leaves the services alone. *)
LEMMA QuietFacade ==
    ASSUME TInv, NEW c \in Clients, plan' = plan, Quiet,
           TableOf(OrganisationRows, organisations)', deleted' \subseteq OrgIds,
           deleted \subseteq deleted', \A org \in organisations' : org.id \notin deleted',
           NEW o \in OrganisationCalls, ocall' = [ocall EXCEPT ![c] = o],
           ODuty(c)', Asks(c)'
    PROVE  TInv' /\ LeavesTables(c)
<1>1. /\ pcall' = pcall /\ mcall' = mcall /\ assignments' = assignments
      /\ overrides' = overrides /\ memberships' = memberships
  BY DEF Quiet, permissionVars, membershipVars
<1>2. TablesOK'
  BY <1>1 DEF TInv, TablesOK
<1>3. PDuty(c)'
  BY <1>1 DEF TInv, PDuty
<1>4. /\ pcall' = [pcall EXCEPT ![c] = pcall[c]] /\ pcall[c] \in PermissionCalls
      /\ mcall' = [mcall EXCEPT ![c] = mcall[c]] /\ mcall[c] \in MembershipCalls
  BY <1>1, Shape DEF TInv
<1>5. TInv'
  <2> DEFINE p == pcall[c]  m == mcall[c]
  <2>1. p \in PermissionCalls /\ m \in MembershipCalls
        /\ pcall' = [pcall EXCEPT ![c] = p] /\ mcall' = [mcall EXCEPT ![c] = m]
    BY <1>4
  <2> HIDE DEF p, m
  <2> QED
    BY <1>2, <1>3, <2>1, Settle
<1>6. LeavesTables(c)
  BY <1>1, <1>4 DEF LeavesTables, TablesSame
<1> QED
  BY <1>5, <1>6

(* The op of a facade call says which kind of call it is. *)
LEMMA OCallKinds ==
    ASSUME NEW k \in OrganisationCalls
    PROVE  /\ k.op = "none" <=> k = Idle
           /\ k.op = "create" <=> k \in CreateCalls
           /\ k.op \in Changes <=> k \in ChangeCalls
           /\ k.op \in FacadeOps <=> k \in FacadeCalls
           /\ k.op = "listForMember" <=> k \in ListCalls
BY DEF OrganisationCalls, CreateCalls, ChangeCalls, FacadeCalls, ListCalls, Idle, Changes, FacadeOps

(* The steps of the facade that call neither service. *)
LEMMA QuietSteps ==
    ASSUME TInv, NEW c \in Clients, plan' = plan,
           \/ CreateFind(c) \/ CreateInsert(c) \/ LoadMissing(c)
           \/ UpdateFind(c) \/ UpdateWrite(c) \/ DeleteWrite(c)
           \/ ListOne(c) \/ Listed(c) \/ Rejected(c)
    PROVE  TInv' /\ LeavesTables(c)
<1> DEFINE k == ocall[c]
<1>0. /\ ocall \in [Clients -> OrganisationCalls] /\ k \in OrganisationCalls
      /\ TableOf(OrganisationRows, organisations) /\ deleted \subseteq OrgIds
      /\ \A org \in organisations : org.id \notin deleted
      /\ ODuty(c) /\ Asks(c)
  BY DEF TInv, TablesOK
<1>1. Quiet
  BY Zenon DEF CreateFind, CreateInsert, LoadMissing, UpdateFind, UpdateWrite, DeleteWrite, ListOne,
         Listed, Rejected
<1>2. ASSUME Ends(c), TableOf(OrganisationRows, organisations)', deleted' \subseteq OrgIds,
             deleted \subseteq deleted', \A org \in organisations' : org.id \notin deleted'
      PROVE  TInv' /\ LeavesTables(c)
  <2>1. ocall' = [ocall EXCEPT ![c] = Idle] /\ Idle \in OrganisationCalls
    BY <1>2 DEF Ends, OrganisationCalls
  <2>2. ocall'[c] = Idle
    BY <1>0, <2>1
  <2>3. ODuty(c)' /\ Asks(c)'
    BY <2>2 DEF ODuty, Asks, Idle, FacadeOps, Changes
  <2> QED
    BY <1>1, <1>2, <2>1, <2>3, QuietFacade
<1>3. ASSUME NEW at, Goes(c, at), Stored0, at # "check",
             [k EXCEPT !.at = at] \in OrganisationCalls, k.op # "listForMember"
      PROVE  TInv' /\ LeavesTables(c)
  <2> DEFINE o == [k EXCEPT !.at = at]
  <2>1. ocall' = [ocall EXCEPT ![c] = o]
    BY <1>0, <1>3 DEF Goes
  <2>2. ocall'[c] = o
    BY <1>0, <2>1
  <2>3. o.op = k.op /\ o.at = at /\ (k.op \in FacadeOps => o.role = k.role)
    BY <1>0, OCallKinds DEF FacadeCalls, CreateCalls, ChangeCalls, OrganisationCalls, Idle, ListCalls
  <2>4. ODuty(c)' /\ Asks(c)'
    BY <1>0, <1>3, <2>2, <2>3 DEF ODuty, Asks, FacadeOps
  <2>5. organisations' = organisations /\ deleted' = deleted
    BY <1>3 DEF Stored0
  <2> HIDE DEF o
  <2> QED
    BY <1>0, <1>1, <1>3, <2>1, <2>4, <2>5, QuietFacade DEF o
<1>4. ASSUME Ends(c), Stored0 PROVE TInv' /\ LeavesTables(c)
  BY <1>0, <1>2, <1>4 DEF Stored0
<1>5. CASE CreateFind(c)
  <2>1. k.op = "create" /\ Stored0 /\ (Ends(c) \/ Goes(c, "create"))
    BY <1>5, Zenon DEF CreateFind, At
  <2>2. [k EXCEPT !.at = "create"] \in OrganisationCalls
    <3>1. k \in CreateCalls
      BY <1>0, <2>1, OCallKinds
    <3> QED
      BY <3>1 DEF CreateCalls, OrganisationCalls
  <2> QED
    BY <1>3, <1>4, <2>1, <2>2
<1>6. CASE CreateInsert(c)
  <2>1. k.op = "create" /\ Ends(c) /\ deleted' = deleted
    BY <1>6 DEF CreateInsert, At
  <2>2. PICK id \in OrgIds \ (deleted \cup {org.id : org \in organisations}) :
            organisations' = organisations \cup {[id |-> id, slug |-> k.slug]}
    BY <1>6 DEF CreateInsert, Create
  <2>3. k \in CreateCalls
    BY <1>0, <2>1, OCallKinds
  <2> DEFINE r == [id |-> id, slug |-> k.slug]
  <2>4. r \in OrganisationRows /\ r.id = id /\ r.id \notin deleted
        /\ \A row \in organisations : row.id # r.id
    BY <2>2, <2>3 DEF CreateCalls, OrganisationRows, Slugged
  <2>5. organisations' = organisations \cup {r}
    BY <2>2
  <2> HIDE DEF r
  <2>6. TableOf(OrganisationRows, organisations)'
    BY <1>0, <2>4, <2>5, InsertedTable DEF OrganisationRows
  <2> QED
    BY <1>0, <1>2, <2>1, <2>4, <2>5, <2>6
<1>7. CASE LoadMissing(c)
  BY <1>4, <1>7 DEF LoadMissing
<1>8. CASE UpdateFind(c)
  <2>1. k.op = "update" /\ Stored0 /\ (Ends(c) \/ Goes(c, "write"))
    BY <1>8, Zenon DEF UpdateFind, At
  <2>2. [k EXCEPT !.at = "write"] \in OrganisationCalls
    <3>1. k \in ChangeCalls
      BY <1>0, <2>1, OCallKinds DEF Changes
    <3> QED
      BY <3>1 DEF ChangeCalls, OrganisationCalls
  <2> QED
    BY <1>3, <1>4, <2>1, <2>2
<1>9. CASE UpdateWrite(c)
  <2>1. /\ k.op = "update" /\ Ends(c) /\ deleted' = deleted
        /\ organisations' = IF k.slug = NoSlug THEN organisations
                            ELSE Update(organisations, k.org, "slug", k.slug)
    BY <1>9 DEF UpdateWrite, At
  <2>2. k.slug \in Slugs \cup {NoSlug}
    BY <1>0, <2>1, OCallKinds DEF Changes, ChangeCalls, Slugged
  <2>3. \A row \in organisations : /\ [row EXCEPT !["slug"] = k.slug] \in OrganisationRows
                                   /\ [row EXCEPT !["slug"] = k.slug].id = row.id
    BY <1>0, <2>2 DEF TableOf, OrganisationRows
  <2>4. TableOf(OrganisationRows, Update(organisations, k.org, "slug", k.slug))
    <3> DEFINE org == k.org  slug == k.slug
    <3>1. \A row \in organisations : /\ [row EXCEPT !["slug"] = slug] \in OrganisationRows
                                     /\ [row EXCEPT !["slug"] = slug].id = row.id
      BY <2>3
    <3> HIDE DEF org, slug
    <3> QED
      BY <1>0, <3>1, UpdatedTable DEF org, slug
  <2>5. \A row \in Update(organisations, k.org, "slug", k.slug) :
            \E old \in organisations : row.id = old.id
    BY <2>3 DEF Update
  <2>6. TableOf(OrganisationRows, organisations)' /\ \A org \in organisations' : org.id \notin deleted'
    <3>1. CASE k.slug = NoSlug
      BY <1>0, <2>1, <3>1 DEF OrganisationRows, TableOf, UniqueIds
    <3>2. CASE k.slug # NoSlug
      <4>1. organisations' = Update(organisations, k.org, "slug", k.slug)
        BY <2>1, <3>2
      <4>2. TableOf(OrganisationRows, organisations')
        BY <2>4, <4>1
      <4> QED
        BY <1>0, <2>1, <2>5, <4>1, <4>2 DEF OrganisationRows, TableOf, UniqueIds
    <3> QED
      BY <3>1, <3>2
  <2> QED
    BY <1>0, <1>2, <2>1, <2>6
<1>10. CASE DeleteWrite(c)
  <2>1. /\ k.op = "delete" /\ Ends(c) /\ deleted' = deleted \cup {k.org}
        /\ organisations' = Delete(organisations, k.org)
    BY <1>10 DEF DeleteWrite, At
  <2>2. k.org \in OrgIds
    BY <1>0, <2>1, OCallKinds DEF Changes, ChangeCalls
  <2>3. TableOf(OrganisationRows, organisations') /\ organisations' \subseteq organisations
    BY <1>0, <2>1, DeletedTable
  <2>4. \A org \in organisations' : org.id \notin deleted'
    BY <1>0, <2>1, <2>3 DEF Delete
  <2>5. TableOf(OrganisationRows, organisations)'
    BY <2>3 DEF OrganisationRows, TableOf, UniqueIds
  <2> QED
    BY <1>0, <1>2, <2>1, <2>2, <2>4, <2>5
<1>11. CASE ListOne(c)
  <2>1. /\ k.op = "listForMember" /\ k.at = "orgs" /\ k \in ListCalls
        /\ k.gone \subseteq deleted /\ k.listed \cap k.gone = {}
    BY <1>0, <1>11, OCallKinds DEF ListOne, At, Asks
  <2>2. PICK id \in k.left :
            ocall' = [ocall EXCEPT ![c].left = @ \ {id}, ![c].listed = @ \cup Lists(c, id)]
    BY <1>11 DEF ListOne
  <2> DEFINE o == [k EXCEPT !.left = @ \ {id}, !.listed = @ \cup Lists(c, id)]
  <2>3. ocall' = [ocall EXCEPT ![c] = o] /\ ocall'[c] = o
    BY <1>0, <2>2
  <2>4. Lists(c, id) \subseteq OrgIds /\ Lists(c, id) \cap deleted = {}
    BY <1>0, <2>1, <2>2 DEF ListCalls, Lists, IsOrg
  <2>5. /\ o \in ListCalls /\ o.op = "listForMember" /\ o.at = "orgs" /\ o.gone = k.gone
        /\ o.listed = k.listed \cup Lists(c, id)
    BY <2>1, <2>4 DEF ListCalls
  <2>6. o \in OrganisationCalls
    BY <2>5 DEF OrganisationCalls
  <2>7. organisations' = organisations /\ deleted' = deleted
    BY <1>11 DEF ListOne, Stored0
  <2> HIDE DEF o
  <2>8. ODuty(c)' /\ Asks(c)'
    BY <2>1, <2>3, <2>4, <2>5, <2>7 DEF ODuty, Asks, FacadeOps, Changes
  <2>9. TableOf(OrganisationRows, organisations)'
    BY <1>0, <2>7 DEF TableOf, UniqueIds, OrganisationRows
  <2> QED
    BY <1>0, <1>1, <2>3, <2>6, <2>7, <2>8, <2>9, QuietFacade
<1>12. CASE Listed(c)
  BY <1>4, <1>12 DEF Listed
<1>13. CASE Rejected(c)
  BY <1>4, <1>13 DEF Rejected
<1> QED
  BY <1>5, <1>6, <1>7, <1>8, <1>9, <1>10, <1>11, <1>12, <1>13

-----------------------------------------------------------------------------
(* Typing: the calls clients start. *)

(* grant, deny and the two revokes start as typed calls. *)
LEMMA OverrideCallIs ==
    ASSUME NEW op \in P!OverrideOps, NEW actor \in Members, NEW scope \in AllScopes,
           NEW resource \in Levels
    PROVE  LET k == P!OverrideCall(op, actor, "update", scope, resource)
           IN  k \in PermissionCalls /\ k.op = op /\ k.at = "find" /\ k.resource = resource
BY DEF P!OverrideCall, OverrideCalls, PermissionCalls, Outs, P!NoRow

(* assign and unassign start as typed calls. *)
LEMMA RoleCallTyped ==
    ASSUME NEW op \in RoleOps, NEW actor \in Members, NEW role \in STRING \cup {"none"},
           NEW scope \in AllScopes
    PROVE  LET k == P!RoleCall(op, actor, role, scope)
           IN  k \in PermissionCalls /\ k.op = op /\ k.at = "find" /\ k.role = role
BY DEF P!RoleCall, RoleCalls, PermissionCalls, Outs, P!NoRow

(* canAll and canAny start as typed calls. *)
LEMMA QueryCallIs ==
    ASSUME NEW op \in P!Queries, NEW actor \in Members, NEW actions \in Questions,
           NEW scope \in AllScopes, NEW resource \in Levels
    PROVE  LET k == P!QueryCall(op, actor, actions, scope, resource)
           IN  k \in PermissionCalls /\ k.op = op /\ k.at = "deny" /\ k.actions = actions
               /\ k.left = actions
BY DEF P!QueryCall, QueryCalls, PermissionCalls

(* revokeScope and revokeAll start as typed calls. *)
LEMMA SweepCallIs ==
    ASSUME NEW op \in Sweeps, NEW where \in Wheres
    PROVE  LET k == P!SweepCall(op, where)
           IN  k \in PermissionCalls /\ k.op = op /\ k.at = "assignments"
<1>1. IsFiniteSet({})
  BY FS_EmptySet
<1> QED
  BY <1>1 DEF P!SweepCall, SweepCalls, PermissionCalls, Outs

(* A client calls the permission service itself, or takes its answer. *)
LEMMA OwnCall ==
    ASSUME TInv, NEW c \in Clients, plan' = plan, OnlyPermission, ocall[c] = Idle,
           NEW p \in PermissionCalls, pcall' = [pcall EXCEPT ![c] = p], PDuty(c)',
           \/ pcall[c].at = "returned" /\ p = P!Idle
           \/ /\ pcall[c] = P!Idle /\ p.at \in {"find", "deny", "assignments"}
              /\ p.op \in P!Queries => p.left = p.actions
    PROVE  TInv' /\ LeavesTables(c)
<1>1. /\ organisations' = organisations /\ ocall' = ocall /\ deleted' = deleted
      /\ mcall' = mcall /\ assignments' = assignments
      /\ overrides' = overrides /\ memberships' = memberships
  BY DEF OnlyPermission, ovars, membershipVars
<1>2. TablesOK'
  BY <1>1 DEF TInv, TablesOK, TableOf, UniqueIds, OrganisationRows
<1>3. ODuty(c)' /\ Asks(c)'
  BY <1>1 DEF TInv, ODuty, Asks, Idle, FacadeOps, Changes
<1>4. pcall'[c] = p
  BY DEF TInv
<1>5. LeavesTables(c)
  BY <1>1, <1>4 DEF LeavesTables, TablesSame, Begins
<1>6. TInv'
  <2> DEFINE o == ocall[c]  m == mcall[c]
  <2>1. /\ o \in OrganisationCalls /\ m \in MembershipCalls
        /\ ocall' = [ocall EXCEPT ![c] = o] /\ mcall' = [mcall EXCEPT ![c] = m]
    BY <1>1, Shape DEF TInv
  <2> HIDE DEF o, m
  <2> QED
    BY <1>1, <1>2, <1>3, <2>1, Settle
<1> QED
  BY <1>5, <1>6

(* The calls clients make to the permission service keep the typing. *)
LEMMA OwnCalls ==
    ASSUME \A d \in Deployments : Explicit(d), TInv, NEW c \in Clients, plan' = plan,
           \/ StartOverride(c) \/ StartRole(c) \/ StartQuery(c) \/ StartSweep(c) \/ Answered(c)
    PROVE  TInv' /\ LeavesTables(c)
<1>0. /\ OnlyPermission /\ ocall[c] = Idle /\ pcall \in [Clients -> PermissionCalls]
      /\ plan \in Deployments
      /\ plan.members \subseteq Members /\ plan.scopes \subseteq AllScopes
      /\ plan.roles \subseteq STRING /\ plan.levels \subseteq Levels
      /\ plan.questions \subseteq Questions
  <2>1. OnlyPermission
    BY Zenon DEF StartOverride, StartRole, StartQuery, StartSweep, Answered
  <2>2. ocall[c] = Idle
    BY DEF StartOverride, StartRole, StartQuery, StartSweep, Answered, May
  <2> QED
    BY <2>1, <2>2 DEF TInv, Explicit
<1>1. ASSUME NEW p \in PermissionCalls, pcall[c] = P!Idle, pcall' = [pcall EXCEPT ![c] = p],
             p.at \in {"find", "deny", "assignments"},
             p.op \in P!Queries => p.left = p.actions, PDuty(c)'
      PROVE  TInv' /\ LeavesTables(c)
  BY <1>0, <1>1, OwnCall
<1>2. CASE StartOverride(c)
  <2>1. PICK op \in P!OverrideOps, scope \in plan.scopes, member \in plan.members,
             resource \in plan.levels :
            /\ op \in plan.duty[c] /\ pcall[c] = P!Idle
            /\ pcall' = [pcall EXCEPT ![c] = P!OverrideCall(op, member, "update", scope, resource)]
    BY <1>2 DEF StartOverride, May, P!Starts
  <2> DEFINE p == P!OverrideCall(op, member, "update", scope, resource)
  <2>2. p \in PermissionCalls /\ p.op = op /\ p.at = "find" /\ p.resource = resource
    BY <1>0, OverrideCallIs
  <2>3. pcall'[c] = p /\ pcall' = [pcall EXCEPT ![c] = p]
    BY <1>0, <2>1
  <2> HIDE DEF p
  <2>4. PDuty(c)' /\ p.op \notin P!Queries
    BY <2>1, <2>2, <2>3 DEF PDuty, P!OverrideOps, Sweeps, P!Queries
  <2> QED
    BY <1>1, <2>1, <2>2, <2>3, <2>4
<1>3. CASE StartRole(c)
  <2>1. PICK op \in RoleOps, scope \in plan.scopes, member \in plan.members,
             role \in plan.roles \cup {"none"} :
          /\ op \in plan.duty[c] /\ pcall[c] = P!Idle /\ (op = "assign" => role \in plan.roles)
          /\ pcall' = [pcall EXCEPT ![c] = P!RoleCall(op, member, role, scope)]
    BY <1>3 DEF StartRole, May, P!Starts, RoleOps
  <2> DEFINE p == P!RoleCall(op, member, role, scope)
  <2>2. p \in PermissionCalls /\ p.op = op /\ p.at = "find" /\ p.role = role
    BY <1>0, RoleCallTyped
  <2>3. pcall'[c] = p /\ pcall' = [pcall EXCEPT ![c] = p]
    BY <1>0, <2>1
  <2> HIDE DEF p
  <2>4. PDuty(c)' /\ p.op \notin P!Queries
    BY <1>0, <2>1, <2>2, <2>3 DEF PDuty, P!OverrideOps, Sweeps, P!Queries, RoleOps, Givers
  <2> QED
    BY <1>1, <2>1, <2>2, <2>3, <2>4
<1>4. CASE StartQuery(c)
  <2>1. PICK op \in P!Queries, scope \in plan.scopes, member \in plan.members,
             resource \in plan.levels, actions \in plan.questions :
            /\ op \in plan.duty[c] /\ pcall[c] = P!Idle
            /\ pcall' = [pcall EXCEPT ![c] = P!QueryCall(op, member, actions, scope, resource)]
    BY <1>4 DEF StartQuery, May, P!Starts
  <2> DEFINE p == P!QueryCall(op, member, actions, scope, resource)
  <2>2. p \in PermissionCalls /\ p.op = op /\ p.at = "deny" /\ p.left = p.actions
    BY <1>0, QueryCallIs
  <2>3. pcall'[c] = p /\ pcall' = [pcall EXCEPT ![c] = p]
    BY <1>0, <2>1
  <2> HIDE DEF p
  <2>4. PDuty(c)'
    BY <2>1, <2>2, <2>3 DEF PDuty, P!OverrideOps, Sweeps, P!Queries
  <2> QED
    BY <1>1, <2>1, <2>2, <2>3, <2>4
<1>5. CASE StartSweep(c)
  <2>1. PICK op \in Sweeps, where \in Wheres :
            /\ op \in plan.duty[c] /\ pcall[c] = P!Idle
            /\ pcall' = [pcall EXCEPT ![c] = P!SweepCall(op, where)]
    <3>1. CASE \E scope \in plan.scopes :
                  /\ May(c, "revokeScope")
                  /\ P!Starts(c, P!SweepCall("revokeScope", [scope |-> scope]))
      <4>1. PICK scope \in plan.scopes :
                  /\ May(c, "revokeScope")
                  /\ P!Starts(c, P!SweepCall("revokeScope", [scope |-> scope]))
        BY <3>1
      <4>2. [scope |-> scope] \in Wheres
        BY <1>0 DEF Wheres
      <4> QED
        BY <4>1, <4>2 DEF May, P!Starts, Sweeps
    <3>2. CASE \E member \in plan.members :
                  /\ May(c, "revokeAll")
                  /\ P!Starts(c, P!SweepCall("revokeAll", [actor |-> member]))
      <4>1. PICK member \in plan.members :
                  /\ May(c, "revokeAll")
                  /\ P!Starts(c, P!SweepCall("revokeAll", [actor |-> member]))
        BY <3>2
      <4>2. [actor |-> member] \in Wheres
        BY <1>0 DEF Wheres
      <4> QED
        BY <4>1, <4>2 DEF May, P!Starts, Sweeps
    <3> QED
      BY <1>5, <3>1, <3>2, Zenon DEF StartSweep
  <2> DEFINE p == P!SweepCall(op, where)
  <2>2. p \in PermissionCalls /\ p.op = op /\ p.at = "assignments"
    BY SweepCallIs
  <2>3. pcall'[c] = p /\ pcall' = [pcall EXCEPT ![c] = p]
    BY <1>0, <2>1
  <2> HIDE DEF p
  <2>4. PDuty(c)' /\ p.op \notin P!Queries
    BY <2>1, <2>2, <2>3 DEF PDuty, P!OverrideOps, Sweeps, P!Queries
  <2> QED
    BY <1>1, <2>1, <2>2, <2>3, <2>4
<1>6. CASE Answered(c)
  <2>1. pcall[c].at = "returned" /\ pcall' = [pcall EXCEPT ![c] = P!Idle]
        /\ P!Idle \in PermissionCalls
    BY <1>6 DEF Answered, P!Takes, PermissionCalls
  <2>2. PDuty(c)'
    BY <1>0, <2>1 DEF PDuty, P!Idle, P!OverrideOps, Sweeps
  <2> QED
    BY <1>0, <2>1, <2>2, OwnCall
<1> QED
  BY <1>2, <1>3, <1>4, <1>5, <1>6

(* A client calls the facade. *)
LEMMA ChangeStarts ==
    ASSUME \A d \in Deployments : Explicit(d), TInv, NEW c \in Clients, plan' = plan,
           StartCreate(c) \/ StartChange(c)
    PROVE  TInv' /\ LeavesTables(c)
<1>0. /\ ocall \in [Clients -> OrganisationCalls] /\ plan.members \subseteq Members
      /\ TableOf(OrganisationRows, organisations) /\ deleted \subseteq OrgIds
      /\ \A org \in organisations : org.id \notin deleted
  BY DEF TInv, Explicit, TablesOK
<1>1. OnlyOrganisation
  BY Zenon DEF StartCreate, StartChange
<1>2. organisations' = organisations /\ deleted' = deleted /\ Quiet
  BY <1>1 DEF OnlyOrganisation, Quiet
<1>3. TableOf(OrganisationRows, organisations)'
  BY <1>0, <1>2 DEF TableOf, UniqueIds, OrganisationRows
<1>4. ASSUME NEW o \in OrganisationCalls, ocall' = [ocall EXCEPT ![c] = o], ODuty(c)', Asks(c)'
      PROVE  TInv' /\ LeavesTables(c)
  BY <1>0, <1>2, <1>3, <1>4, QuietFacade
<1>5. CASE StartCreate(c)
  <2>1. PICK slug \in Slugged : ocall' = [ocall EXCEPT ![c] = CreateCall(slug)]
    BY <1>5 DEF StartCreate, Slugged
  <2>2. CreateCall(slug) \in OrganisationCalls /\ CreateCall(slug).op = "create"
    BY DEF CreateCall, OrganisationCalls, CreateCalls
  <2>3. ocall'[c] = CreateCall(slug)
    BY <1>0, <2>1
  <2>4. ODuty(c)' /\ Asks(c)'
    BY <2>2, <2>3 DEF ODuty, Asks, FacadeOps, Changes
  <2> QED
    BY <1>4, <2>1, <2>2, <2>4
<1>6. CASE StartChange(c)
  <2>1. PICK op \in Changes, org \in OrgIds, member \in plan.members \cup {NoMember},
             slug \in Slugged :
            /\ op \in plan.duty[c]
            /\ ocall' = [ocall EXCEPT ![c] = ChangeCall(op, org, slug, member)]
    BY <1>6 DEF StartChange, Slugged, May
  <2> DEFINE o == ChangeCall(op, org, slug, member)
  <2>2. o \in OrganisationCalls /\ o.op = op /\ o.at = "load"
    BY <1>0 DEF ChangeCall, OrganisationCalls, ChangeCalls, Slugged
  <2>3. ocall'[c] = o /\ ocall' = [ocall EXCEPT ![c] = o]
    BY <1>0, <2>1
  <2> HIDE DEF o
  <2>4. ODuty(c)' /\ Asks(c)'
    BY <2>1, <2>2, <2>3 DEF ODuty, Asks, FacadeOps, Changes
  <2> QED
    BY <1>4, <2>2, <2>3, <2>4
<1> QED
  BY <1>5, <1>6

-----------------------------------------------------------------------------
(* Typing: the steps of the facade that call a service. *)

(* A step of the facade that calls one of the services, or takes its answer. *)
LEMMA FacadeStep ==
    ASSUME TInv, NEW c \in Clients, plan' = plan, Stored0,
           UNCHANGED <<assignments, overrides, memberships>>,
           NEW o \in OrganisationCalls, ocall' = [ocall EXCEPT ![c] = o],
           NEW p \in PermissionCalls, pcall' = [pcall EXCEPT ![c] = p],
           NEW m \in MembershipCalls, mcall' = [mcall EXCEPT ![c] = m],
           ODuty(c)', PDuty(c)', Asks(c)',
           \/ p = pcall[c]
           \/ pcall[c].at = "returned" /\ p = P!Idle
           \/ /\ pcall[c] = P!Idle /\ p.at \in {"find", "deny", "assignments"}
              /\ p.op \in P!Queries => p.left = p.actions
    PROVE  TInv' /\ LeavesTables(c)
<1>1. organisations' = organisations /\ deleted' = deleted
  BY DEF Stored0
<1>2. TablesOK'
  BY <1>1 DEF TInv, TablesOK, TableOf, UniqueIds, OrganisationRows
<1>3. pcall'[c] = p
  BY DEF TInv
<1>4. LeavesTables(c)
  BY <1>3 DEF LeavesTables, TablesSame, Begins
<1>5. TInv'
  BY <1>1, <1>2, Settle
<1> QED
  BY <1>4, <1>5

(* update and delete ask the permission service, and take its answer. *)
LEMMA ChecksAsked ==
    ASSUME \A d \in Deployments : Explicit(d), TInv, NEW c \in Clients, plan' = plan,
           Load(c) \/ Checked(c)
    PROVE  TInv' /\ LeavesTables(c)
<1> DEFINE k == ocall[c]
<1>0. /\ ocall \in [Clients -> OrganisationCalls] /\ k \in OrganisationCalls
      /\ pcall \in [Clients -> PermissionCalls] /\ mcall \in [Clients -> MembershipCalls]
      /\ organisations \subseteq OrganisationRows
      /\ ODuty(c) /\ PDuty(c) /\ Asks(c)
  BY DEF TInv, TablesOK, TableOf
<1>1. /\ k.op \in Changes /\ k \in ChangeCalls /\ Stored0
      /\ UNCHANGED <<assignments, overrides, memberships>> /\ mcall' = mcall
  <2>1. k.op \in Changes
    BY DEF Load, Checked
  <2>2. Stored0 /\ UNCHANGED <<assignments, overrides, membershipVars>>
    BY Zenon DEF Load, Checked
  <2> QED
    BY <1>0, <2>1, <2>2, OCallKinds DEF membershipVars
<1> DEFINE m == mcall[c]
<1>2. m \in MembershipCalls /\ mcall' = [mcall EXCEPT ![c] = m]
  BY <1>0, <1>1, Shape
<1> HIDE DEF m
<1>3. CASE Load(c)
  <2> DEFINE o == [k EXCEPT !.loaded = SlugOf(k.org),
                            !.at = IF k.member = NoMember THEN AfterCheck(c, SlugOf(k.org))
                                   ELSE "check"]
             p == IF k.member = NoMember THEN pcall[c]
                  ELSE P!QueryCall("canAll", k.member, <<Perm(k.op)>>, k.org, Undefined)
  <2>1. SlugOf(k.org) \in Slugged
    BY <1>0, <1>3 DEF Load, IsOrg, SlugOf, OrganisationRows, Slugged
  <2>2. AfterCheck(c, SlugOf(k.org)) \in {"find", "write"}
    BY DEF AfterCheck
  <2>3. /\ o \in ChangeCalls /\ o.op = k.op
        /\ o.at = (IF k.member = NoMember THEN AfterCheck(c, SlugOf(k.org)) ELSE "check")
    <3> HIDE DEF k
    <3> QED
      BY <1>1, <2>1, <2>2 DEF ChangeCalls
  <2>4. ocall' = [ocall EXCEPT ![c] = o] /\ ocall'[c] = o
    BY <1>0, <1>3 DEF Load
  <2>5. pcall' = [pcall EXCEPT ![c] = p] /\ pcall'[c] = p /\ (k.member # NoMember => pcall[c] = P!Idle)
    <3>1. CASE k.member = NoMember
      <4>1. pcall' = pcall
        BY <1>3, <3>1 DEF Load
      <4> QED
        BY <1>0, <3>1, <4>1
    <3>2. CASE k.member # NoMember
      <4>1. /\ pcall[c] = P!Idle
            /\ pcall' = [pcall EXCEPT ![c] = P!QueryCall("canAll", k.member, <<Perm(k.op)>>, k.org,
                                                         Undefined)]
        BY <1>3, <3>2 DEF Load, P!Starts
      <4>2. p = P!QueryCall("canAll", k.member, <<Perm(k.op)>>, k.org, Undefined)
        BY <3>2
      <4> HIDE DEF p
      <4> QED
        BY <1>0, <3>2, <4>1, <4>2
    <3> QED
      BY <3>1, <3>2
  <2>6. k.member # NoMember =>
            /\ p \in PermissionCalls /\ p.op = "canAll" /\ p.at = "deny"
            /\ p.actions = <<k.op>> /\ p.left = p.actions
    <3> SUFFICES ASSUME k.member # NoMember
                 PROVE  /\ p \in PermissionCalls /\ p.op = "canAll" /\ p.at = "deny"
                        /\ p.actions = <<k.op>> /\ p.left = p.actions
      OBVIOUS
    <3>1. /\ k.member \in Members /\ k.org \in AllScopes /\ Undefined \in Levels
          /\ "canAll" \in P!Queries
      BY <1>1 DEF ChangeCalls, AllScopes, Levels, P!Queries
    <3>2. <<Perm(k.op)>> \in Questions /\ Perm(k.op) = k.op
      <4>1. Perm(k.op) \in Actions /\ Perm(k.op) = k.op
        BY <1>1 DEF Perm, Changes, Actions, Permissions
      <4> HIDE DEF k
      <4> QED
        BY <4>1 DEF Questions
    <3>3. p = P!QueryCall("canAll", k.member, <<Perm(k.op)>>, k.org, Undefined)
      OBVIOUS
    <3> HIDE DEF p, k
    <3> QED
      BY <3>1, <3>2, <3>3, QueryCallIs
  <2>7. o \in OrganisationCalls /\ p \in PermissionCalls
    <3>1. o \in OrganisationCalls
      BY <2>3 DEF OrganisationCalls
    <3>2. CASE k.member = NoMember
      BY <1>0, <3>1, <3>2
    <3>3. CASE k.member # NoMember
      BY <2>6, <3>1, <3>3
    <3> QED
      BY <3>2, <3>3
  <2>8. /\ k.member = NoMember => p = pcall[c]
        /\ k.op \in plan.duty[c]
    BY <1>0, <1>1 DEF ODuty
  <2> HIDE DEF o, p
  <2>9. ODuty(c)'
    BY <1>1, <2>3, <2>4, <2>8 DEF ODuty, Changes, FacadeOps
  <2>10. PDuty(c)'
    <3>1. CASE k.member = NoMember
      BY <1>0, <2>5, <2>8, <3>1 DEF PDuty
    <3>2. CASE k.member # NoMember
      <4>1. p.op = "canAll" /\ plan.duty[c] \cap (Changes \cup {"canAll"}) # {}
        BY <1>1, <2>6, <2>8, <3>2
      <4> QED
        BY <2>5, <4>1 DEF PDuty, P!OverrideOps, Sweeps
    <3> QED
      BY <3>1, <3>2
  <2>11. Asks(c)'
    <3>1. ocall'[c].op # "listForMember"
      BY <1>1, <2>3, <2>4 DEF Changes
    <3>2. ocall'[c].at = "check" => pcall'[c].op = "canAll" /\ pcall'[c].actions = <<ocall'[c].op>>
      BY <2>2, <2>3, <2>4, <2>5, <2>6
    <3> QED
      BY <3>1, <3>2 DEF Asks
  <2>12. \/ p = pcall[c]
         \/ pcall[c] = P!Idle /\ p.at = "deny" /\ p.left = p.actions
    BY <2>5, <2>6, <2>8
  <2> QED
    BY <1>1, <1>2, <2>4, <2>5, <2>7, <2>9, <2>10, <2>11, <2>12, FacadeStep
<1>4. CASE Checked(c)
  <2>1. /\ pcall[c].at = "returned" /\ pcall' = [pcall EXCEPT ![c] = P!Idle]
        /\ P!Idle \in PermissionCalls
    BY <1>4 DEF Checked, P!Takes, PermissionCalls
  <2>2. pcall'[c] = P!Idle
    BY <1>0, <2>1
  <2>3. PICK o \in OrganisationCalls :
            /\ ocall' = [ocall EXCEPT ![c] = o]
            /\ o = Idle \/ (o.op = k.op /\ o.at \in {"find", "write"})
    <3>1. Ends(c) \/ Goes(c, AfterCheck(c, k.loaded))
      BY <1>4, Zenon DEF Checked
    <3>2. CASE Ends(c)
      BY <3>2 DEF Ends, OrganisationCalls
    <3>3. CASE Goes(c, AfterCheck(c, k.loaded))
      <4> DEFINE at == AfterCheck(c, k.loaded)
                 o == [k EXCEPT !.at = at]
      <4>1. at \in {"find", "write"}
        BY DEF AfterCheck
      <4>2. ocall' = [ocall EXCEPT ![c] = o]
        BY <1>0, <3>3 DEF Goes
      <4> HIDE DEF at, k
      <4>3. o \in ChangeCalls /\ o.op = k.op /\ o.at \in {"find", "write"}
        BY <1>1, <4>1 DEF ChangeCalls
      <4> QED
        BY <4>2, <4>3 DEF OrganisationCalls
    <3> QED
      BY <3>1, <3>2, <3>3
  <2>4. ocall'[c] = o
    BY <1>0, <2>3
  <2>5. ODuty(c)'
    BY <1>0, <1>1, <2>3, <2>4 DEF ODuty, Idle, Changes, FacadeOps
  <2>6. PDuty(c)'
    BY <2>2 DEF PDuty, P!Idle, P!OverrideOps, Sweeps
  <2>7. Asks(c)'
    BY <1>1, <2>3, <2>4 DEF Asks, Idle, Changes
  <2> QED
    BY <1>1, <1>2, <2>1, <2>3, <2>5, <2>6, <2>7, FacadeStep
<1> QED
  BY <1>3, <1>4

(* addMember, removeMember and assignRole start as typed calls. *)
LEMMA MemberCallTyped ==
    ASSUME NEW op \in FacadeOps, NEW at \in {"joining", "assigning", "unassigning", "leaving"},
           NEW org \in OrgIds, NEW member \in Members, NEW role \in STRING \cup {"none"}
    PROVE  LET k == MemberCall(op, at, org, member, role)
           IN  k \in OrganisationCalls /\ k.op = op /\ k.at = at /\ k.role = role
BY DEF MemberCall, FacadeCalls, OrganisationCalls

(* add and remove start as typed calls. *)
LEMMA JoinCallIs ==
    ASSUME NEW op \in {"add", "remove"}, NEW member \in Members, NEW org \in OrgIds
    PROVE  M!MembershipCall(op, member, org) \in MembershipCalls
BY MemberCallIs DEF MembershipCalls

(* The calls about members: what they do to the three calls. *)
LEMMA MemberStep ==
    ASSUME TInv, NEW c \in Clients, plan' = plan, Stored0,
           UNCHANGED <<assignments, overrides, memberships>>,
           NEW o \in OrganisationCalls, ocall' = [ocall EXCEPT ![c] = o],
           o.op \notin Changes, ODuty(c)',
           o.op = "listForMember" => /\ o.gone \subseteq deleted /\ o.listed \cap o.gone = {}
                                     /\ o.at # "groups" \/ mcall'[c].op = "listGroups",
           NEW p \in PermissionCalls, pcall' = [pcall EXCEPT ![c] = p],
           NEW m \in MembershipCalls, mcall' = [mcall EXCEPT ![c] = m],
           \/ p = pcall[c]
           \/ pcall[c].at = "returned" /\ p = P!Idle
           \/ /\ pcall[c] = P!Idle /\ p.at = "find" /\ p.op \in RoleOps
              /\ p.op = "assign" => plan.duty[c] \cap Givers # {} /\ p.role \in STRING
              /\ p.op = "unassign" => "removeMember" \in plan.duty[c]
    PROVE  TInv' /\ LeavesTables(c)
<1>1. ocall'[c] = o /\ pcall'[c] = p
  BY DEF TInv
<1>2. PDuty(c)'
  <2>1. CASE p = pcall[c]
    BY <1>1, <2>1 DEF TInv, PDuty
  <2>2. CASE p = P!Idle
    BY <1>1, <2>2 DEF PDuty, P!Idle, P!OverrideOps, Sweeps
  <2>3. CASE /\ p.op \in RoleOps
             /\ p.op = "assign" => plan.duty[c] \cap Givers # {} /\ p.role \in STRING
             /\ p.op = "unassign" => "removeMember" \in plan.duty[c]
    BY <1>1, <2>3 DEF PDuty, RoleOps, P!OverrideOps, Sweeps
  <2> QED
    BY <2>1, <2>2, <2>3
<1>3. Asks(c)'
  BY <1>1 DEF Asks, Stored0
<1>4. p.op \in RoleOps => p.op \notin P!Queries
  BY DEF RoleOps, P!Queries
<1> QED
  BY <1>2, <1>3, <1>4, FacadeStep

(* The calls about members keep the typing as they start. *)
LEMMA StartMembers ==
    ASSUME \A d \in Deployments : Explicit(d), TInv, NEW c \in Clients, plan' = plan,
           StartMember(c)
    PROVE  TInv' /\ LeavesTables(c)
<1>0. /\ ocall \in [Clients -> OrganisationCalls] /\ pcall \in [Clients -> PermissionCalls]
      /\ mcall \in [Clients -> MembershipCalls]
      /\ plan \in Deployments
      /\ plan.members \subseteq Members /\ plan.orgs \subseteq OrgIds /\ plan.roles \subseteq STRING
  BY DEF TInv, Explicit
<1>1. PICK org \in plan.orgs, member \in plan.members :
          \/ /\ May(c, "addMember")
             /\ \E role \in plan.roles : BeginAddMember(c, org, member, role)
          \/ May(c, "removeMember") /\ BeginRemoveMember(c, org, member)
          \/ /\ May(c, "assignRole")
             /\ \E role \in plan.roles : BeginAssignRole(c, org, member, role)
          \/ May(c, "listForMember") /\ BeginList(c, member)
  BY Zenon DEF StartMember
<1>2. org \in OrgIds /\ member \in Members /\ org \in AllScopes
  BY <1>0 DEF AllScopes
<1>3. /\ ocall[c] \in OrganisationCalls /\ ocall' = ocall => ocall' = [ocall EXCEPT ![c] = ocall[c]]
      /\ pcall[c] \in PermissionCalls /\ pcall' = pcall => pcall' = [pcall EXCEPT ![c] = pcall[c]]
      /\ mcall[c] \in MembershipCalls /\ mcall' = mcall => mcall' = [mcall EXCEPT ![c] = mcall[c]]
  BY <1>0, Shape
<1> DEFINE p0 == pcall[c]
           m0 == mcall[c]
<1>4. /\ p0 \in PermissionCalls /\ pcall' = pcall => pcall' = [pcall EXCEPT ![c] = p0]
      /\ p0 = pcall[c]
      /\ m0 \in MembershipCalls /\ mcall' = mcall => mcall' = [mcall EXCEPT ![c] = m0]
  BY <1>0, Shape
<1>p. p0 \in PermissionCalls /\ m0 \in MembershipCalls
  BY <1>0
<1> HIDE DEF p0, m0
<1>5. ASSUME NEW role \in plan.roles, May(c, "addMember"), BeginAddMember(c, org, member, role)
      PROVE  TInv' /\ LeavesTables(c)
  <2> DEFINE o == MemberCall("addMember", "joining", org, member, role)
             m == M!MembershipCall("add", member, org)
  <2>1. o \in OrganisationCalls /\ o.op = "addMember" /\ o.at = "joining" /\ o.role = role
    <3>1. role \in STRING \cup {"none"} /\ "addMember" \in FacadeOps
      BY <1>0 DEF FacadeOps
    <3> QED
      BY <1>2, <3>1, MemberCallTyped
  <2>2. m \in MembershipCalls
    BY <1>2, JoinCallIs
  <2>3. /\ ocall' = [ocall EXCEPT ![c] = o] /\ mcall' = [mcall EXCEPT ![c] = m]
        /\ Stored0 /\ memberships' = memberships /\ assignments' = assignments
        /\ overrides' = overrides /\ pcall' = pcall
    BY <1>5 DEF BeginAddMember, M!Starts, permissionVars
  <2>4. ocall'[c] = o /\ "addMember" \in plan.duty[c] /\ role \in STRING
    BY <1>0, <1>5, <2>3 DEF May
  <2> HIDE DEF o, m
  <2>5. ODuty(c)'
    BY <2>1, <2>4 DEF ODuty
  <2> QED
    BY <1>4, <1>p, <2>1, <2>2, <2>3, <2>5, MemberStep DEF Changes
<1>6. CASE May(c, "removeMember") /\ BeginRemoveMember(c, org, member)
  <2> DEFINE o == MemberCall("removeMember", "unassigning", org, member, "none")
             p == P!RoleCall("unassign", member, "none", org)
  <2>1. o \in OrganisationCalls /\ o.op = "removeMember" /\ o.at = "unassigning"
    BY <1>2, MemberCallTyped DEF FacadeOps
  <2>2. p \in PermissionCalls /\ p.op = "unassign" /\ p.at = "find"
    BY <1>2, RoleCallTyped DEF RoleOps
  <2>3. /\ ocall' = [ocall EXCEPT ![c] = o] /\ pcall' = [pcall EXCEPT ![c] = p]
        /\ Stored0 /\ memberships' = memberships /\ assignments' = assignments
        /\ overrides' = overrides /\ mcall' = mcall /\ pcall[c] = P!Idle
    BY <1>6 DEF BeginRemoveMember, P!Starts, membershipVars
  <2>4. ocall'[c] = o /\ "removeMember" \in plan.duty[c]
    BY <1>0, <1>6, <2>3 DEF May
  <2> HIDE DEF o, p
  <2>5. ODuty(c)'
    BY <2>1, <2>4 DEF ODuty
  <2> QED
    BY <1>4, <1>p, <2>1, <2>2, <2>3, <2>4, <2>5, MemberStep DEF Changes, RoleOps
<1>7. ASSUME NEW role \in plan.roles, May(c, "assignRole"), BeginAssignRole(c, org, member, role)
      PROVE  TInv' /\ LeavesTables(c)
  <2>0. role \in STRING /\ Stored0 /\ UNCHANGED <<assignments, overrides, memberships>> /\ mcall' = mcall
    BY <1>0, <1>7 DEF BeginAssignRole, membershipVars
  <2>1. CASE Known(role)
    <3> DEFINE o == MemberCall("assignRole", "assigning", org, member, role)
               p == P!RoleCall("assign", member, role, org)
    <3>1. o \in OrganisationCalls /\ o.op = "assignRole" /\ o.at = "assigning" /\ o.role = role
      <4>1. role \in STRING \cup {"none"} /\ "assignRole" \in FacadeOps
        BY <2>0 DEF FacadeOps
      <4> QED
        BY <1>2, <4>1, MemberCallTyped
    <3>2. p \in PermissionCalls /\ p.op = "assign" /\ p.at = "find" /\ p.role = role
      <4>1. role \in STRING \cup {"none"} /\ "assign" \in RoleOps
        BY <2>0 DEF RoleOps
      <4>2. ASSUME NEW op \in RoleOps, op = "assign", NEW r \in STRING \cup {"none"}, r = role
            PROVE  p \in PermissionCalls /\ p.op = "assign" /\ p.at = "find" /\ p.role = role
        <5> DEFINE k == P!RoleCall(op, member, r, org)
        <5>1. k \in PermissionCalls /\ k.op = op /\ k.at = "find" /\ k.role = r
          BY <1>2, RoleCallTyped
        <5>2. p = k
          BY <4>2
        <5> HIDE DEF p, k
        <5> QED
          BY <4>2, <5>1, <5>2
      <4> QED
        BY <4>1, <4>2
    <3>3. /\ ocall' = [ocall EXCEPT ![c] = o] /\ pcall' = [pcall EXCEPT ![c] = p]
          /\ pcall[c] = P!Idle
      BY <1>7, <2>1 DEF BeginAssignRole, P!Starts
    <3>4. ocall'[c] = o /\ "assignRole" \in plan.duty[c]
      BY <1>0, <1>7, <3>3 DEF May
    <3> HIDE DEF o, p
    <3>5. ODuty(c)'
      BY <2>0, <3>1, <3>4 DEF ODuty
    <3>6. plan.duty[c] \cap Givers # {}
      BY <3>4 DEF Givers
    <3> QED
      BY <1>4, <1>p, <2>0, <3>1, <3>2, <3>3, <3>5, <3>6, MemberStep DEF Changes, RoleOps
  <2>2. CASE ~Known(role)
    <3> DEFINE o == Idle
    <3>1. ocall[c] = Idle /\ ocall' = ocall /\ pcall' = pcall
      BY <1>7, <2>2 DEF BeginAssignRole, May
    <3>2. o \in OrganisationCalls /\ o.op \notin Changes /\ o.op # "listForMember"
      BY DEF OrganisationCalls, Idle, Changes
    <3>3. ocall' = [ocall EXCEPT ![c] = o]
      BY <1>0, <3>1
    <3>4. ODuty(c)'
      BY <3>1 DEF ODuty, Idle, FacadeOps, Changes
    <3> HIDE DEF o
    <3> QED
      BY <1>4, <1>p, <2>0, <3>1, <3>2, <3>3, <3>4, MemberStep
  <2> QED
    BY <2>1, <2>2
<1>8. CASE May(c, "listForMember") /\ BeginList(c, member)
  <2> DEFINE o == ListCall(member)
             m == M!ListCall(member)
  <2>1. /\ o \in OrganisationCalls /\ o.op = "listForMember" /\ o.gone = deleted /\ o.listed = {}
    BY <1>2 DEF ListCall, OrganisationCalls, ListCalls, TInv, TablesOK
  <2>2. m \in MembershipCalls /\ m.op = "listGroups"
    BY <1>2 DEF M!ListCall, MembershipCalls, GroupCalls, Outs
  <2>3. /\ ocall' = [ocall EXCEPT ![c] = o] /\ mcall' = [mcall EXCEPT ![c] = m]
        /\ Stored0 /\ memberships' = memberships /\ assignments' = assignments
        /\ overrides' = overrides /\ pcall' = pcall
    BY <1>8 DEF BeginList, M!Starts, permissionVars
  <2>4. ocall'[c] = o /\ mcall'[c] = m
    BY <1>0, <2>3
  <2> HIDE DEF o, m
  <2>5. ODuty(c)'
    BY <2>1, <2>4 DEF ODuty, FacadeOps, Changes
  <2> QED
    BY <1>4, <1>p, <2>1, <2>2, <2>3, <2>4, <2>5, MemberStep DEF Changes
<1> QED
  BY <1>1, <1>5, <1>6, <1>7, <1>8

(* The calls about members keep the typing as they go on. *)
LEMMA MemberGoesOn ==
    ASSUME TInv, NEW c \in Clients, plan' = plan,
           \/ Joined(c) \/ Unassigned(c) \/ Left(c) \/ Assigned(c) \/ GroupsListed(c)
    PROVE  TInv' /\ LeavesTables(c)
<1> DEFINE k == ocall[c]
           p0 == pcall[c]
           m0 == mcall[c]
<1>0. /\ ocall \in [Clients -> OrganisationCalls] /\ k \in OrganisationCalls
      /\ pcall \in [Clients -> PermissionCalls] /\ p0 \in PermissionCalls
      /\ mcall \in [Clients -> MembershipCalls] /\ m0 \in MembershipCalls
      /\ ODuty(c) /\ PDuty(c) /\ Asks(c)
      /\ pcall' = pcall => pcall' = [pcall EXCEPT ![c] = p0]
      /\ mcall' = mcall => mcall' = [mcall EXCEPT ![c] = m0]
  BY DEF TInv
<1>1. Stored0 /\ UNCHANGED <<memberships, assignments, overrides>>
  <2>1. Stored0
    BY Zenon DEF Joined, Unassigned, Left, Assigned, GroupsListed
  <2>2. UNCHANGED <<memberships, assignments, overrides>>
    BY DEF Joined, Unassigned, Left, Assigned, GroupsListed, permissionVars, membershipVars
  <2> QED
    BY <2>1, <2>2
<1>2. ASSUME Ends(c)
      PROVE  \E o \in OrganisationCalls :
                 /\ ocall' = [ocall EXCEPT ![c] = o] /\ o.op \notin Changes \cup {"listForMember"}
                 /\ ODuty(c)'
  <2>1. ocall' = [ocall EXCEPT ![c] = Idle] /\ ocall'[c] = Idle
    BY <1>0, <1>2 DEF Ends
  <2>2. ODuty(c)'
    BY <2>1 DEF ODuty, Idle, FacadeOps, Changes
  <2>3. Idle \in OrganisationCalls /\ Idle.op \notin Changes \cup {"listForMember"}
    BY DEF OrganisationCalls, Idle, Changes
  <2> QED
    BY <2>1, <2>2, <2>3
<1>3. ASSUME NEW at \in {"assigning", "leaving"}, Goes(c, at), k.op \in FacadeOps
      PROVE  \E o \in OrganisationCalls :
                 /\ ocall' = [ocall EXCEPT ![c] = o] /\ o.op \notin Changes \cup {"listForMember"}
                 /\ ODuty(c)'
  <2> DEFINE o == [k EXCEPT !.at = at]
  <2>1. ocall' = [ocall EXCEPT ![c] = o] /\ ocall'[c] = o
    BY <1>0, <1>3 DEF Goes
  <2>2. k \in FacadeCalls
    BY <1>0, <1>3, OCallKinds
  <2>3. o \in FacadeCalls /\ o.op = k.op /\ o.role = k.role
    <3> HIDE DEF k
    <3> QED
      BY <1>3, <2>2 DEF FacadeCalls
  <2>4. o.op \notin Changes \cup {"listForMember"}
    BY <1>3, <2>3 DEF Changes, FacadeOps
  <2>5. ODuty(c)'
    BY <1>0, <1>3, <2>1, <2>3 DEF ODuty
  <2> HIDE DEF o
  <2> QED
    BY <2>1, <2>3, <2>4, <2>5 DEF OrganisationCalls
<1>4. CASE Joined(c)
  <2>1. /\ k.op = "addMember" /\ mcall' = [mcall EXCEPT ![c] = M!Idle]
        /\ \/ /\ Goes(c, "assigning") /\ pcall[c] = P!Idle
              /\ pcall' = [pcall EXCEPT ![c] = P!RoleCall("assign", k.member, k.role, k.org)]
           \/ Ends(c) /\ pcall' = pcall
    <3>1. k.op = "addMember" /\ mcall' = [mcall EXCEPT ![c] = M!Idle]
      BY <1>4 DEF Joined, At, M!Takes
    <3>2. \/ Goes(c, "assigning") /\ P!Starts(c, P!RoleCall("assign", k.member, k.role, k.org))
          \/ Ends(c) /\ UNCHANGED pcall
      BY <1>4, Zenon DEF Joined
    <3>3. CASE Goes(c, "assigning") /\ P!Starts(c, P!RoleCall("assign", k.member, k.role, k.org))
      BY <3>1, <3>3 DEF P!Starts
    <3>4. CASE Ends(c) /\ UNCHANGED pcall
      BY <3>1, <3>4
    <3> QED
      BY <3>2, <3>3, <3>4
  <2>2. M!Idle \in MembershipCalls
    BY DEF MembershipCalls
  <2>3. CASE Ends(c) /\ pcall' = pcall
    <3>1. PICK o \in OrganisationCalls :
              /\ ocall' = [ocall EXCEPT ![c] = o] /\ o.op \notin Changes \cup {"listForMember"}
              /\ ODuty(c)'
      BY <1>2, <2>3
    <3> HIDE DEF p0, m0, k
    <3> QED
      BY <1>0, <1>1, <2>1, <2>2, <2>3, <3>1, MemberStep DEF p0
  <2>4. CASE /\ Goes(c, "assigning") /\ pcall[c] = P!Idle
             /\ pcall' = [pcall EXCEPT ![c] = P!RoleCall("assign", k.member, k.role, k.org)]
    <3>1. PICK o \in OrganisationCalls :
              /\ ocall' = [ocall EXCEPT ![c] = o] /\ o.op \notin Changes \cup {"listForMember"}
              /\ ODuty(c)'
      BY <1>3, <2>1, <2>4 DEF FacadeOps
    <3> DEFINE p == P!RoleCall("assign", k.member, k.role, k.org)
    <3>2. k \in FacadeCalls /\ k.op \in plan.duty[c] /\ k.role \in STRING
      BY <1>0, <2>1, OCallKinds DEF FacadeOps, ODuty
    <3>3. /\ k.member \in Members /\ k.org \in AllScopes /\ k.role \in STRING \cup {"none"}
          /\ "assign" \in RoleOps
      BY <3>2 DEF FacadeCalls, AllScopes, RoleOps
    <3>4. p \in PermissionCalls /\ p.op = "assign" /\ p.at = "find" /\ p.role = k.role
      <4> DEFINE member == k.member
                 role == k.role
                 org == k.org
      <4>1. member \in Members /\ org \in AllScopes /\ role \in STRING \cup {"none"}
        BY <3>3
      <4>2. p = P!RoleCall("assign", member, role, org)
        OBVIOUS
      <4> HIDE DEF member, role, org, p
      <4>3. p \in PermissionCalls /\ p.op = "assign" /\ p.at = "find" /\ p.role = role
        BY <3>3, <4>1, <4>2, RoleCallTyped
      <4> QED
        BY <4>3 DEF role
    <3>5. plan.duty[c] \cap Givers # {}
      BY <2>1, <3>2 DEF Givers
    <3>6. pcall' = [pcall EXCEPT ![c] = p] /\ pcall[c] = P!Idle
      BY <2>4
    <3> HIDE DEF p0, m0, k, p
    <3> QED
      BY <1>1, <2>1, <2>2, <3>1, <3>2, <3>4, <3>5, <3>6, MemberStep DEF RoleOps
  <2> QED
    BY <2>1, <2>3, <2>4
<1>5. CASE Unassigned(c)
  <2>1. /\ k.op = "removeMember" /\ pcall[c].at = "returned"
        /\ pcall' = [pcall EXCEPT ![c] = P!Idle]
        /\ \/ /\ Goes(c, "leaving")
              /\ mcall' = [mcall EXCEPT ![c] = M!MembershipCall("remove", k.member, k.org)]
           \/ Ends(c) /\ mcall' = mcall
    <3>1. /\ k.op = "removeMember" /\ pcall[c].at = "returned"
          /\ pcall' = [pcall EXCEPT ![c] = P!Idle]
      BY <1>5 DEF Unassigned, At, P!Takes
    <3>2. \/ Goes(c, "leaving") /\ M!Starts(c, M!MembershipCall("remove", k.member, k.org))
          \/ Ends(c) /\ UNCHANGED mcall
      BY <1>5, Zenon DEF Unassigned
    <3>3. CASE Goes(c, "leaving") /\ M!Starts(c, M!MembershipCall("remove", k.member, k.org))
      BY <3>1, <3>3 DEF M!Starts
    <3>4. CASE Ends(c) /\ UNCHANGED mcall
      BY <3>1, <3>4
    <3> QED
      BY <3>2, <3>3, <3>4
  <2>2. P!Idle \in PermissionCalls
    BY DEF PermissionCalls
  <2>3. CASE Ends(c) /\ mcall' = mcall
    <3>1. PICK o \in OrganisationCalls :
              /\ ocall' = [ocall EXCEPT ![c] = o] /\ o.op \notin Changes \cup {"listForMember"}
              /\ ODuty(c)'
      BY <1>2, <2>3
    <3> HIDE DEF p0, m0, k
    <3> QED
      BY <1>0, <1>1, <2>1, <2>2, <2>3, <3>1, MemberStep
  <2>4. CASE /\ Goes(c, "leaving")
             /\ mcall' = [mcall EXCEPT ![c] = M!MembershipCall("remove", k.member, k.org)]
    <3>1. PICK o \in OrganisationCalls :
              /\ ocall' = [ocall EXCEPT ![c] = o] /\ o.op \notin Changes \cup {"listForMember"}
              /\ ODuty(c)'
      BY <1>3, <2>1, <2>4 DEF FacadeOps
    <3> DEFINE m == M!MembershipCall("remove", k.member, k.org)
    <3>2. k.member \in Members /\ k.org \in OrgIds
      BY <1>0, <2>1, OCallKinds DEF FacadeOps, FacadeCalls
    <3>3. m \in MembershipCalls
      <4> HIDE DEF k
      <4> QED
        BY <3>2, JoinCallIs
    <3>4. mcall' = [mcall EXCEPT ![c] = m]
      BY <2>4
    <3> HIDE DEF p0, m0, k, m
    <3> QED
      BY <1>1, <2>1, <2>2, <3>1, <3>3, <3>4, MemberStep
  <2> QED
    BY <2>1, <2>3, <2>4
<1>6. CASE Left(c)
  <2>1. Ends(c) /\ mcall' = [mcall EXCEPT ![c] = M!Idle] /\ pcall' = pcall
    BY <1>6 DEF Left, M!Takes, permissionVars
  <2>2. M!Idle \in MembershipCalls
    BY DEF MembershipCalls
  <2>3. PICK o \in OrganisationCalls :
            /\ ocall' = [ocall EXCEPT ![c] = o] /\ o.op \notin Changes \cup {"listForMember"}
            /\ ODuty(c)'
    BY <1>2, <2>1
  <2> HIDE DEF p0, m0, k
  <2> QED
    BY <1>0, <1>1, <2>1, <2>2, <2>3, MemberStep DEF p0
<1>7. CASE Assigned(c)
  <2>1. /\ Ends(c) /\ pcall[c].at = "returned" /\ pcall' = [pcall EXCEPT ![c] = P!Idle]
        /\ mcall' = mcall
    BY <1>7 DEF Assigned, P!Takes, membershipVars
  <2>2. P!Idle \in PermissionCalls
    BY DEF PermissionCalls
  <2>3. PICK o \in OrganisationCalls :
            /\ ocall' = [ocall EXCEPT ![c] = o] /\ o.op \notin Changes \cup {"listForMember"}
            /\ ODuty(c)'
    BY <1>2, <2>1
  <2> HIDE DEF p0, m0, k
  <2> QED
    BY <1>0, <1>1, <2>1, <2>2, <2>3, MemberStep
<1>8. CASE GroupsListed(c)
  <2>1. /\ k.op = "listForMember" /\ k.at = "groups"
        /\ mcall' = [mcall EXCEPT ![c] = M!Idle] /\ pcall' = pcall
        /\ \/ ocall' = [ocall EXCEPT ![c].at = "orgs", ![c].left = mcall[c].groups]
           \/ Ends(c)
    BY <1>8, Zenon DEF GroupsListed, At, M!Takes, permissionVars
  <2>2. M!Idle \in MembershipCalls
    BY DEF MembershipCalls
  <2>3. CASE Ends(c)
    <3>3. PICK o \in OrganisationCalls :
              /\ ocall' = [ocall EXCEPT ![c] = o] /\ o.op \notin Changes \cup {"listForMember"}
              /\ ODuty(c)'
      BY <1>2, <2>3
    <3> HIDE DEF p0, m0, k
    <3> QED
      BY <1>0, <1>1, <2>1, <2>2, <3>3, MemberStep DEF p0
  <2>4. CASE ocall' = [ocall EXCEPT ![c].at = "orgs", ![c].left = mcall[c].groups]
    <3>1. m0.op = "listGroups"
      BY <1>0, <2>1 DEF Asks
    <3>2. m0.groups \subseteq OrgIds
      <4> HIDE DEF m0
      <4> QED
        BY <1>0, <3>1 DEF MembershipCalls, M!Idle, MemberCalls, GroupCalls
    <3> DEFINE o == [k EXCEPT !.at = "orgs", !.left = m0.groups]
    <3>3. ocall' = [ocall EXCEPT ![c] = o] /\ ocall'[c] = o
      BY <1>0, <2>4
    <3>4. k \in ListCalls
      BY <1>0, <2>1, OCallKinds
    <3>5. /\ o \in ListCalls /\ o.op = "listForMember" /\ o.at = "orgs"
          /\ o.gone = k.gone /\ o.listed = k.listed
      <4> HIDE DEF m0, k
      <4> QED
        BY <3>2, <3>4 DEF ListCalls
    <3>6. k.gone \subseteq deleted /\ k.listed \cap k.gone = {}
      BY <1>0, <2>1 DEF Asks
    <3> HIDE DEF o, m0, p0, k
    <3>7. o \in OrganisationCalls /\ o.op \notin Changes
      BY <3>5 DEF OrganisationCalls, Changes
    <3>8. ODuty(c)'
      BY <3>3, <3>5 DEF ODuty, Changes, FacadeOps
    <3> QED
      BY <1>0, <1>1, <2>1, <2>2, <3>3, <3>5, <3>6, <3>7, <3>8, MemberStep DEF p0
  <2> QED
    BY <2>1, <2>3, <2>4
<1> QED
  BY <1>4, <1>5, <1>6, <1>7, <1>8

-----------------------------------------------------------------------------
(* A call keeps its arguments until it is taken. *)

(* A call keeps its arguments. *)
Same(k, l) ==
    /\ l.op = k.op
    /\ k \in QueryCalls =>
           /\ l \in QueryCalls
           /\ l.actor = k.actor /\ l.actions = k.actions /\ l.scope = k.scope
           /\ l.resource = k.resource
    /\ k \in RoleCalls =>
           l \in RoleCalls /\ l.actor = k.actor /\ l.role = k.role /\ l.scope = k.scope
    /\ k \in OverrideCalls =>
           /\ l \in OverrideCalls
           /\ l.actor = k.actor /\ l.action = k.action /\ l.scope = k.scope
           /\ l.resource = k.resource
    /\ k \in SweepCalls => l \in SweepCalls /\ l.where = k.where

(* A call that returns keeps its arguments. *)
LEMMA EndingSame ==
    ASSUME NEW k \in PermissionCalls, k.at # "idle", NEW out \in Outs,
           k \in QueryCalls => out = "threw"
    PROVE  Same(k, [k EXCEPT !.at = "returned", !.out = out])
<1> DEFINE l == [k EXCEPT !.at = "returned", !.out = out]
<1>1. CASE k \in QueryCalls
  BY <1>1 DEF Same, QueryCalls, RoleCalls, OverrideCalls, SweepCalls, RoleOps, P!Queries,
              P!OverrideOps, Sweeps
<1>2. CASE k \in RoleCalls
  BY <1>2 DEF Same, QueryCalls, RoleCalls, OverrideCalls, SweepCalls, RoleOps, P!Queries,
              P!OverrideOps, Sweeps, Outs
<1>3. CASE k \in OverrideCalls
  BY <1>3 DEF Same, QueryCalls, RoleCalls, OverrideCalls, SweepCalls, RoleOps, P!Queries,
              P!OverrideOps, Sweeps, Outs
<1>4. CASE k \in SweepCalls
  BY <1>4 DEF Same, QueryCalls, RoleCalls, OverrideCalls, SweepCalls, RoleOps, P!Queries,
              P!OverrideOps, Sweeps, Outs
<1> QED
  BY <1>1, <1>2, <1>3, <1>4 DEF PermissionCalls, P!Idle

(* A call that has found a row keeps its arguments. *)
LEMMA FindingSame ==
    ASSUME NEW k, k \in RoleCalls \/ k \in OverrideCalls, NEW id \in Nat,
           NEW at \in {"create", "update", "delete"}, at = "update" => k \in RoleCalls
    PROVE  Same(k, [k EXCEPT !.row = id, !.at = at])
BY DEF Same, QueryCalls, RoleCalls, OverrideCalls, SweepCalls, RoleOps, P!Queries,
       P!OverrideOps, Sweeps

(* What is left of a question after its first action. *)
LEMMA LeftOver ==
    ASSUME NEW k \in QueryCalls, Len(k.left) # 1
    PROVE  Tail(k.left) \in Questions /\ Len(Tail(k.left)) = Len(k.left) - 1
<1> DEFINE left == k.left
<1>1. left \in Seq(Actions) /\ left # <<>> /\ Len(left) # 1
  BY DEF QueryCalls, Questions
<1> HIDE DEF left
<1>2. Tail(left) \in Seq(Actions) /\ Len(Tail(left)) = Len(left) - 1
  BY <1>1, HeadTailProperties
<1>3. Len(left) \in Nat \ {0, 1}
  BY <1>1, EmptySeq
<1>4. Tail(left) # <<>>
  <2>1. Len(Tail(left)) # 0
    BY <1>2, <1>3
  <2> QED
    BY <2>1, EmptySeq
<1> QED
  BY <1>2, <1>4 DEF left, Questions

(* A query that goes on keeps its arguments. *)
LEMMA QuerySame ==
    ASSUME NEW k \in QueryCalls
    PROVE  /\ \A out \in {"yes", "no"} : Same(k, [k EXCEPT !.at = "returned", !.out = out])
           /\ \A at \in {"grant", "role"} : Same(k, [k EXCEPT !.at = at])
           /\ Len(k.left) # 1 => Same(k, [k EXCEPT !.at = "deny", !.left = Tail(@)])
<1>1. k \notin RoleCalls /\ k \notin OverrideCalls /\ k \notin SweepCalls
  BY DEF QueryCalls, RoleCalls, OverrideCalls, SweepCalls, RoleOps, P!Queries, P!OverrideOps, Sweeps
<1>2. ASSUME NEW out \in {"yes", "no"} PROVE Same(k, [k EXCEPT !.at = "returned", !.out = out])
  <2> DEFINE l == [k EXCEPT !.at = "returned", !.out = out]
  <2>1. l \in QueryCalls
    BY DEF QueryCalls
  <2>2. /\ l.op = k.op /\ l.actor = k.actor /\ l.actions = k.actions /\ l.scope = k.scope
        /\ l.resource = k.resource
    BY DEF QueryCalls
  <2> HIDE DEF l
  <2>3. Same(k, l)
    BY <1>1, <2>1, <2>2 DEF Same
  <2> QED
    BY <2>3 DEF l
<1>3. ASSUME NEW at \in {"grant", "role"} PROVE Same(k, [k EXCEPT !.at = at])
  <2> DEFINE l == [k EXCEPT !.at = at]
  <2>1. l \in QueryCalls
    BY DEF QueryCalls
  <2>2. /\ l.op = k.op /\ l.actor = k.actor /\ l.actions = k.actions /\ l.scope = k.scope
        /\ l.resource = k.resource
    BY DEF QueryCalls
  <2> HIDE DEF l
  <2>3. Same(k, l)
    BY <1>1, <2>1, <2>2 DEF Same
  <2> QED
    BY <2>3 DEF l
<1>4. ASSUME Len(k.left) # 1 PROVE Same(k, [k EXCEPT !.at = "deny", !.left = Tail(@)])
  <2> DEFINE left == Tail(k.left)
  <2>1. left \in Questions
    BY <1>4, LeftOver
  <2> HIDE DEF left
  <2>2. Same(k, [k EXCEPT !.at = "deny", !.left = left])
    BY <1>1, <2>1 DEF Same, QueryCalls
  <2> QED
    BY <2>2 DEF left
<1> QED
  BY <1>2, <1>3, <1>4

(* A query that has decided an action keeps its arguments. *)
LEMMA DecidesSame ==
    ASSUME NEW c \in Clients, pcall[c] \in QueryCalls, NEW allowed \in BOOLEAN, DecidesTo(c, allowed)
    PROVE  Same(pcall[c], pcall'[c])
<1> DEFINE k == pcall[c]
           out == IF allowed THEN "yes" ELSE "no"
<1>1. out \in {"yes", "no"}
  OBVIOUS
<1>2. \/ pcall'[c] = [k EXCEPT !.at = "returned", !.out = out]
      \/ Len(k.left) # 1 /\ pcall'[c] = [k EXCEPT !.at = "deny", !.left = Tail(@)]
  BY DEF DecidesTo
<1> HIDE DEF k, out
<1>3. k \in QueryCalls
  BY DEF k
<1>4. Same(k, pcall'[c])
  BY <1>1, <1>2, <1>3, QuerySame
<1> QED
  BY <1>4 DEF k

(* A sweep keeps its arguments. *)
LEMMA SweepSame ==
    ASSUME NEW k \in SweepCalls, NEW at \in {"assignments", "unassigning", "lifting"},
           NEW ids, ids \subseteq Nat, IsFiniteSet(ids)
    PROVE  Same(k, [k EXCEPT !.at = at, !.found = ids]) /\ Same(k, [k EXCEPT !.found = ids])
<1>1. k \notin RoleCalls /\ k \notin OverrideCalls /\ k \notin QueryCalls
  BY DEF QueryCalls, RoleCalls, OverrideCalls, SweepCalls, RoleOps, P!Queries, P!OverrideOps, Sweeps
<1>2. ids \in {i \in SUBSET Nat : IsFiniteSet(i)}
  OBVIOUS
<1> QED
  BY <1>1, <1>2 DEF Same, SweepCalls

(* The ids a sweep lists are finitely many. *)
LEMMA ListedIds ==
    ASSUME NEW rows, \A row \in rows : row.id \in Nat, NEW table, TableOf(rows, table), NEW where
    PROVE  LET ids == {row.id : row \in {r \in table : Under(r, where)}}
           IN  ids \subseteq Nat /\ IsFiniteSet(ids)
<1> DEFINE S == {r \in table : Under(r, where)}
           f == [row \in S |-> row.id]
<1>1. IsFiniteSet(S) /\ S \subseteq rows
  BY FS_Subset DEF TableOf
<1>2. IsFiniteSet({f[row] : row \in S})
  <2> HIDE DEF f, S
  <2> QED
    BY <1>1, ImageFinite
<1>3. {f[row] : row \in S} = {row.id : row \in S}
  OBVIOUS
<1> QED
  BY <1>1, <1>2, <1>3

(* Every step of the service keeps the arguments of its call. *)
LEMMA CallMoves ==
    ASSUME TInv, NEW c \in Clients, PermissionForms(c)
    PROVE  Same(pcall[c], pcall'[c])
<1> DEFINE k == pcall[c]
<1>0. k \in PermissionCalls /\ k.at # "idle"
  BY DEF TInv, PermissionForms
<1>1. ASSUME NEW out \in Outs, EndsAs(c, out), k \in QueryCalls => out = "threw"
      PROVE  Same(k, pcall'[c])
  <2>1. pcall'[c] = [k EXCEPT !.at = "returned", !.out = out]
    BY <1>1 DEF EndsAs
  <2> HIDE DEF k
  <2> QED
    BY <1>0, <1>1, <2>1, EndingSame
<1>2. ASSUME NEW id \in Nat, NEW at \in {"create", "update", "delete"}, FoundAt(c, id, at),
             k \in RoleCalls \/ k \in OverrideCalls, at = "update" => k \in RoleCalls
      PROVE  Same(k, pcall'[c])
  <2>1. pcall'[c] = [k EXCEPT !.row = id, !.at = at]
    BY <1>2 DEF FoundAt
  <2> HIDE DEF k
  <2>2. Same(k, [k EXCEPT !.row = id, !.at = at])
    BY <1>2, FindingSame
  <2> QED
    BY <2>1, <2>2
<1>3. "done" \in Outs /\ "threw" \in Outs /\ P!NoRow \in Nat
  BY DEF Outs, P!NoRow
<1>4. /\ \A row \in assignments : row.id \in Nat
      /\ \A row \in overrides : row.id \in Nat
  BY DEF TInv, TablesOK, TableOf, P!AssignmentRows, P!OverrideRows
<1>5. CASE QueryForms(c)
  <2>1. k \in QueryCalls
    BY <1>5 DEF QueryForms
  <2>2. ASSUME NEW allowed \in BOOLEAN, DecidesTo(c, allowed) PROVE Same(k, pcall'[c])
    BY <2>1, <2>2, DecidesSame
  <2>3. ASSUME NEW at \in {"grant", "role"}, pcall'[c] = [k EXCEPT !.at = at]
        PROVE  Same(k, pcall'[c])
    <3> HIDE DEF k
    <3> QED
      BY <2>1, <2>3, QuerySame
  <2>4. \A row : P!RoleAllows(row.role, Head(k.left)) \in BOOLEAN
    BY DEF P!RoleAllows
  <2>5. \/ DecidesTo(c, FALSE) \/ DecidesTo(c, TRUE)
        \/ pcall'[c] = [k EXCEPT !.at = "grant"] \/ pcall'[c] = [k EXCEPT !.at = "role"]
        \/ \E row \in assignments : DecidesTo(c, P!RoleAllows(row.role, Head(k.left)))
    BY <1>5 DEF QueryForms
  <2>6. ASSUME NEW row \in assignments, DecidesTo(c, P!RoleAllows(row.role, Head(k.left)))
        PROVE  Same(k, pcall'[c])
    BY <2>2, <2>4, <2>6
  <2> QED
    BY <2>2, <2>3, <2>5, <2>6
<1>6. CASE AssignForms(c)
  <2>1. k \in RoleCalls /\ k \notin QueryCalls
    BY <1>6 DEF AssignForms, RoleCalls, QueryCalls, P!Queries, RoleOps
  <2>2. \/ EndsAs(c, "done") \/ EndsAs(c, "threw") \/ FoundAt(c, P!NoRow, "create")
        \/ \E row \in assignments : FoundAt(c, row.id, "update")
    BY <1>6 DEF AssignForms
  <2> QED
    BY <1>1, <1>2, <1>3, <1>4, <2>1, <2>2
<1>7. CASE UnassignForms(c)
  <2>1. k \in RoleCalls /\ k \notin QueryCalls
    BY <1>7 DEF UnassignForms, RoleCalls, QueryCalls, P!Queries, RoleOps
  <2>2. EndsAs(c, "done") \/ \E row \in assignments : FoundAt(c, row.id, "delete")
    BY <1>7 DEF UnassignForms
  <2> QED
    BY <1>1, <1>2, <1>3, <1>4, <2>1, <2>2
<1>8. CASE AddForms(c) \/ RevokeForms(c)
  <2>1. k \in OverrideCalls /\ k \notin QueryCalls
    BY <1>8 DEF AddForms, RevokeForms, OverrideCalls, QueryCalls, P!Queries, P!OverrideOps
  <2>2. \/ EndsAs(c, "done") \/ FoundAt(c, P!NoRow, "create")
        \/ \E row \in overrides : FoundAt(c, row.id, "delete")
    BY <1>8 DEF AddForms, RevokeForms
  <2> QED
    BY <1>1, <1>2, <1>3, <1>4, <2>1, <2>2
<1>9. CASE SweepForms(c)
  <2>1. k \in SweepCalls /\ k \notin QueryCalls
    BY <1>9 DEF SweepForms, SweepCalls, QueryCalls, P!Queries, Sweeps
  <2>2. k.found \subseteq Nat /\ IsFiniteSet(k.found)
    BY <2>1 DEF SweepCalls
  <2>3. /\ TableOf(P!AssignmentRows, assignments) /\ TableOf(P!OverrideRows, overrides)
        /\ \A row \in P!AssignmentRows : row.id \in Nat
        /\ \A row \in P!OverrideRows : row.id \in Nat
    BY DEF TInv, TablesOK, P!AssignmentRows, P!OverrideRows
  <2>4. ASSUME NEW ids, ids \subseteq Nat, IsFiniteSet(ids),
               \/ pcall'[c] = [k EXCEPT !.found = ids]
               \/ pcall'[c] = [k EXCEPT !.at = "unassigning", !.found = ids]
               \/ pcall'[c] = [k EXCEPT !.at = "lifting", !.found = ids]
        PROVE  Same(k, pcall'[c])
    <3> HIDE DEF k
    <3> QED
      BY <2>1, <2>4, SweepSame
  <2>5. CASE k.at = "assignments"
    <3> DEFINE ids == {row.id : row \in {r \in assignments : Under(r, k.where)}}
    <3>1. ids \subseteq Nat /\ IsFiniteSet(ids)
      BY <2>3, ListedIds
    <3>2. pcall'[c] = [k EXCEPT !.at = "unassigning", !.found = ids]
      BY <1>9, <2>5 DEF SweepForms
    <3> HIDE DEF ids
    <3> QED
      BY <2>4, <3>1, <3>2
  <2>6. CASE \E id \in k.found : pcall'[c] = [k EXCEPT !.found = @ \ {id}]
    <3>1. PICK id \in k.found : pcall'[c] = [k EXCEPT !.found = @ \ {id}]
      BY <2>6
    <3> DEFINE ids == k.found \ {id}
    <3>2. ids \subseteq Nat /\ IsFiniteSet(ids)
      BY <2>2, FS_Subset
    <3>3. pcall'[c] = [k EXCEPT !.found = ids]
      BY <3>1
    <3> HIDE DEF ids
    <3> QED
      BY <2>4, <3>2, <3>3
  <2>7. CASE /\ k.at = "unassigning"
             /\ pcall'[c] = [k EXCEPT !.at = "lifting",
                    !.found = {row.id : row \in {r \in overrides : Under(r, k.where)}}]
    <3> DEFINE ids == {row.id : row \in {r \in overrides : Under(r, k.where)}}
    <3>1. ids \subseteq Nat /\ IsFiniteSet(ids)
      BY <2>3, ListedIds
    <3>2. pcall'[c] = [k EXCEPT !.at = "lifting", !.found = ids]
      BY <2>7
    <3> HIDE DEF ids
    <3> QED
      BY <2>4, <3>1, <3>2
  <2>8. CASE EndsAs(c, "done")
    BY <1>1, <1>3, <2>1, <2>8
  <2> QED
    BY <1>9, <2>5, <2>6, <2>7, <2>8 DEF SweepForms
<1>10. CASE EndsAs(c, "threw")
  BY <1>1, <1>3, <1>10
<1> QED
  BY <1>5, <1>6, <1>7, <1>8, <1>9, <1>10 DEF PermissionForms

-----------------------------------------------------------------------------
(* Typing: the steps of the two services, and every step. *)

(* An override is a grant or a deny. *)
LEMMA TypeOfCall == \A op : P!TypeOf(op) \in Adds
BY DEF P!TypeOf, Adds

(* The resource of a row is one, or null. *)
LEMMA StoredLevel == \A level \in Levels : Stored(level) \in Resources \cup {Null}
BY DEF Levels, Stored

(* What a step does to the tables. *)
LEMMA TablesMove ==
    ASSUME TInv, NEW c \in Clients, PermissionForms(c)
    PROVE  TableOf(P!AssignmentRows, assignments)' /\ TableOf(P!OverrideRows, overrides)'
<1> DEFINE k == pcall[c]
<1>0. TableOf(P!AssignmentRows, assignments) /\ TableOf(P!OverrideRows, overrides)
  BY DEF TInv, TablesOK
<1>1. ASSUME TablesSame
      PROVE  TableOf(P!AssignmentRows, assignments)' /\ TableOf(P!OverrideRows, overrides)'
  BY <1>0, <1>1 DEF TablesSame, TableOf, UniqueIds, P!AssignmentRows, P!OverrideRows
<1>2. ASSUME overrides' = overrides PROVE TableOf(P!OverrideRows, overrides)'
  BY <1>0, <1>2 DEF TableOf, UniqueIds, P!OverrideRows
<1>3. ASSUME assignments' = assignments PROVE TableOf(P!AssignmentRows, assignments)'
  BY <1>0, <1>3 DEF TableOf, UniqueIds, P!AssignmentRows
<1>4. ASSUME NEW id, assignments' = Delete(assignments, id)
      PROVE  TableOf(P!AssignmentRows, assignments)'
  BY <1>0, <1>4, DeletedTable DEF P!AssignmentRows
<1>5. ASSUME NEW id, overrides' = Delete(overrides, id)
      PROVE  TableOf(P!OverrideRows, overrides)'
  BY <1>0, <1>5, DeletedTable DEF P!OverrideRows
<1>6. CASE AssignForms(c)
  <2>1. k \in RoleCalls /\ k.op = "assign" /\ overrides' = overrides
    BY <1>6 DEF AssignForms
  <2>2. k.role \in STRING
    BY <2>1 DEF TInv, PDuty
  <2>3. CASE TablesSame
    BY <1>1, <2>3
  <2>4. CASE k.at = "create"
    <3>1. PICK id : /\ Unheld(assignments, id)
                    /\ assignments' = assignments \cup
                        {[id |-> id, actor |-> k.actor, scope |-> k.scope, role |-> k.role]}
      BY <1>6, <2>4 DEF AssignForms
    <3> DEFINE r == [id |-> id, actor |-> k.actor, scope |-> k.scope, role |-> k.role]
    <3>2. r \in P!AssignmentRows /\ \A row \in assignments : row.id # r.id
      BY <2>1, <2>2, <3>1 DEF Unheld, P!AssignmentRows, RoleCalls, AllScopes
    <3>3. assignments' = assignments \cup {r}
      BY <3>1
    <3> HIDE DEF r
    <3> QED
      BY <1>0, <1>2, <2>1, <3>2, <3>3, InsertedTable DEF P!AssignmentRows
  <2>5. CASE assignments' = Update(assignments, k.row, "role", k.role)
    <3> DEFINE id == k.row  role == k.role
    <3>1. \A row \in assignments : /\ [row EXCEPT !["role"] = role] \in P!AssignmentRows
                                   /\ [row EXCEPT !["role"] = role].id = row.id
      BY <1>0, <2>2 DEF TableOf, P!AssignmentRows
    <3>2. assignments' = Update(assignments, id, "role", role)
      BY <2>5
    <3> HIDE DEF id, role
    <3>3. TableOf(P!AssignmentRows, Update(assignments, id, "role", role))
      BY <1>0, <3>1, UpdatedTable
    <3> QED
      BY <1>2, <2>1, <3>2, <3>3 DEF P!AssignmentRows
  <2> QED
    BY <1>6, <2>3, <2>4, <2>5 DEF AssignForms
<1>7. CASE UnassignForms(c)
  BY <1>1, <1>2, <1>4, <1>7 DEF UnassignForms
<1>8. CASE AddForms(c)
  <2>1. k \in OverrideCalls /\ assignments' = assignments
    BY <1>8 DEF AddForms
  <2>2. CASE TablesSame
    BY <1>1, <2>2
  <2>3. CASE k.at = "create"
    <3>1. PICK id : /\ Unheld(overrides, id)
                    /\ overrides' = overrides \cup
                            {[id |-> id, type |-> P!TypeOf(k.op), actor |-> k.actor,
                              permission |-> k.action, scope |-> k.scope,
                              resource |-> Stored(k.resource)]}
      BY <1>8, <2>3 DEF AddForms
    <3> DEFINE r == [id |-> id, type |-> P!TypeOf(k.op), actor |-> k.actor,
                     permission |-> k.action, scope |-> k.scope, resource |-> Stored(k.resource)]
    <3>2. /\ id \in Nat /\ P!TypeOf(k.op) \in {"grant", "deny"} /\ k.actor \in Members
          /\ k.action \in Permissions /\ k.scope \in OrgIds \cup {Elsewhere}
          /\ Stored(k.resource) \in Resources \cup {Null}
      BY <2>1, <3>1, TypeOfCall, StoredLevel
         DEF Unheld, OverrideCalls, Adds, AllScopes, Permissions
    <3>3. r \in P!OverrideRows /\ r.id = id
      BY <3>2 DEF P!OverrideRows
    <3>4. overrides' = overrides \cup {r} /\ \A row \in overrides : row.id # r.id
      BY <3>1, <3>3 DEF Unheld
    <3> HIDE DEF r
    <3> QED
      BY <1>0, <1>3, <2>1, <3>3, <3>4, InsertedTable DEF P!OverrideRows
  <2> QED
    BY <1>8, <2>2, <2>3 DEF AddForms
<1>9. CASE RevokeForms(c)
  BY <1>1, <1>3, <1>5, <1>9 DEF RevokeForms
<1>10. CASE SweepForms(c)
  BY <1>1, <1>2, <1>3, <1>4, <1>5, <1>10 DEF SweepForms
<1> QED
  BY <1>1, <1>6, <1>7, <1>8, <1>9, <1>10 DEF PermissionForms, QueryForms

(* A call that keeps its arguments stays within the duty of its client. *)
LEMMA KeptDuty ==
    ASSUME TInv, NEW c \in Clients, plan' = plan, ocall' = ocall, deleted' = deleted, mcall' = mcall,
           Same(pcall[c], pcall'[c])
    PROVE  ODuty(c)' /\ PDuty(c)' /\ Asks(c)'
<1> DEFINE k == pcall[c]
           l == pcall'[c]
<1>1. /\ k \in PermissionCalls /\ l.op = k.op
      /\ ODuty(c) /\ PDuty(c) /\ Asks(c)
  BY DEF TInv, Same
<1>2. /\ k.op \in P!OverrideOps => l.resource = k.resource
      /\ k.op \in RoleOps => l.role = k.role
      /\ k.op \in P!Queries => l.actions = k.actions
  BY <1>1, CallKinds DEF Same
<1>3. ODuty(c)'
  BY <1>1 DEF ODuty
<1>4. PDuty(c)'
  <2> HIDE DEF k
  <2>1. /\ k.op \in P!OverrideOps => k.op \in plan.duty[c] /\ k.resource \in plan.levels
        /\ k.op \in Sweeps \cup {"canAny"} => k.op \in plan.duty[c]
        /\ k.op = "canAll" => plan.duty[c] \cap (Changes \cup {"canAll"}) # {}
        /\ k.op = "assign" => plan.duty[c] \cap Givers # {} /\ k.role \in STRING
        /\ k.op = "unassign" => plan.duty[c] \cap {"unassign", "removeMember"} # {}
    BY <1>1 DEF PDuty, k
  <2>2. k.op = "assign" => l.role = k.role
    BY <1>2 DEF RoleOps
  <2> QED
    BY <1>1, <1>2, <2>1, <2>2 DEF PDuty
<1>5. Asks(c)'
  BY <1>1, <1>2 DEF Asks, P!Queries
<1> QED
  BY <1>3, <1>4, <1>5

(* The steps of the permission service keep the typing. *)
LEMMA PermissionTyped ==
    ASSUME TInv, NEW c \in Clients, PermissionForms(c), plan' = plan,
           UNCHANGED <<ovars, membershipVars>>
    PROVE  TInv'
<1>1. /\ organisations' = organisations /\ ocall' = ocall /\ deleted' = deleted
      /\ memberships' = memberships /\ mcall' = mcall
  BY DEF ovars, membershipVars
<1>2. Same(pcall[c], pcall'[c])
  BY CallMoves
<1>3. ODuty(c)' /\ PDuty(c)' /\ Asks(c)'
  BY <1>1, <1>2, KeptDuty
<1>4. TablesOK'
  BY <1>1, TablesMove DEF TInv, TablesOK, TableOf, UniqueIds, OrganisationRows, P!AssignmentRows,
     P!OverrideRows
<1> DEFINE o == ocall[c]  p == pcall'[c]  m == mcall[c]
<1>5. /\ o \in OrganisationCalls /\ ocall' = [ocall EXCEPT ![c] = o]
      /\ m \in MembershipCalls /\ mcall' = [mcall EXCEPT ![c] = m]
  BY <1>1, Shape DEF TInv
<1>6. p \in PermissionCalls
  <2>1. pcall[c] \in PermissionCalls /\ pcall[c].at # "idle"
    BY DEF TInv, PermissionForms
  <2> QED
    BY <1>2, <2>1 DEF PermissionCalls, P!Idle, Same
<1>7. pcall' = [pcall EXCEPT ![c] = p]
  BY DEF PermissionForms
<1> HIDE DEF o, p, m
<1> QED
  BY <1>1, <1>3, <1>4, <1>5, <1>6, <1>7, Settle

(* The typing implies what the roles' theorem asks of the calls. *)
LEMMA TypedCalls ==
    ASSUME TInv
    PROVE  CallsOK /\ RowsOK
<1>1. /\ ocall \in [Clients -> OrganisationCalls] /\ pcall \in [Clients -> PermissionCalls]
      /\ mcall \in [Clients -> MembershipCalls]
  BY DEF TInv
<1>2. ASSUME NEW c \in Clients PROVE CallOK(c)
  <2> DEFINE o == ocall[c]  p == pcall[c]  m == mcall[c]
  <2>1. o \in OrganisationCalls /\ p \in PermissionCalls /\ m \in MembershipCalls
    BY <1>1
  <2> HIDE DEF o, p, m
  <2>2. "op" \in DOMAIN o /\ (o.op \in FacadeOps => IsFacadeCall(o))
    BY <2>1 DEF OrganisationCalls, CreateCalls, ChangeCalls, FacadeCalls, ListCalls, Idle,
       IsFacadeCall, FacadeOps, Changes
  <2>3. "op" \in DOMAIN p /\ (p.op \in RoleOps => IsRoleCall(p))
    BY <2>1 DEF PermissionCalls, OverrideCalls, RoleCalls, QueryCalls, SweepCalls, P!Idle,
       IsRoleCall, RoleOps, P!OverrideOps, P!Queries, Sweeps
  <2>4. "op" \in DOMAIN m /\ (m.op \in {"add", "remove"} => m \in MemberCalls)
    BY <2>1 DEF MembershipCalls, MemberCalls, GroupCalls, M!Idle
  <2> QED
    BY <2>2, <2>3, <2>4 DEF CallOK, o, p, m
<1>3. CallsOK
  BY <1>1, <1>2 DEF CallsOK
<1>4. RowsOK
  BY DEF TInv, TablesOK, TableOf, UniqueIds, RowsOK, P!AssignmentRows
<1> QED
  BY <1>3, <1>4

(* The steps of the membership service keep the typing. *)
LEMMA MembershipTyped ==
    ASSUME TInv, NEW c \in Clients, M!MembershipStep(c), plan' = plan,
           UNCHANGED <<ovars, permissionVars>>
    PROVE  TInv'
<1> DEFINE k == mcall[c]
<1>1. /\ organisations' = organisations /\ ocall' = ocall /\ deleted' = deleted
      /\ assignments' = assignments /\ overrides' = overrides /\ pcall' = pcall
  BY DEF ovars, permissionVars
<1>2. MembershipMoves(c)
  BY TypedCalls, MembershipMove
<1>3. mcall \in [Clients -> MembershipCalls] /\ k \in MembershipCalls
      /\ TableOf(M!MembershipRows, memberships)
  BY DEF TInv, TablesOK
<1>4. k.op \in {"add", "remove"} => k \in MemberCalls
  <2> HIDE DEF k
  <2> QED
    BY <1>3 DEF MembershipCalls, MemberCalls, GroupCalls, M!Idle
<1>5. TableOf(M!MembershipRows, memberships)'
  <2>1. CASE memberships' = memberships
    BY <1>3, <2>1 DEF TableOf, UniqueIds, M!MembershipRows
  <2>2. CASE /\ k.op = "add"
             /\ \E id \in Nat :
                 /\ \A row \in memberships : row.id # id
                 /\ memberships' = memberships \cup
                        {[id |-> id, member |-> k.member, group |-> k.group]}
    <3>1. PICK id \in Nat :
              /\ \A row \in memberships : row.id # id
              /\ memberships' = memberships \cup
                     {[id |-> id, member |-> k.member, group |-> k.group]}
      BY <2>2
    <3> DEFINE r == [id |-> id, member |-> k.member, group |-> k.group]
    <3>2. r \in M!MembershipRows /\ r.id = id
      BY <1>4, <2>2 DEF M!MembershipRows, MemberCalls
    <3>3. memberships' = memberships \cup {r} /\ \A row \in memberships : row.id # r.id
      BY <3>1, <3>2
    <3> HIDE DEF r
    <3> QED
      BY <1>3, <3>2, <3>3, InsertedTable DEF M!MembershipRows
  <2>3. CASE memberships' = Delete(memberships, k.row)
    BY <1>3, <2>3, DeletedTable DEF M!MembershipRows
  <2> QED
    BY <1>2, <2>1, <2>2, <2>3 DEF MembershipMoves
<1> DEFINE o == ocall[c]  p == pcall[c]  m == mcall'[c]
<1>6. m \in MembershipCalls /\ m.op = k.op
  <2>1. CASE k.op \in {"add", "remove"}
    BY <1>2, <2>1 DEF MembershipMoves, MembershipCalls
  <2>2. CASE k.op \notin {"add", "remove"}
    <3>1. M!ListGroups(c) \/ M!Rejected(c)
      BY <2>2 DEF M!MembershipStep, M!Add, M!Remove
    <3>2. k.at \notin {"idle", "returned"}
      BY <3>1 DEF M!ListGroups, M!Rejected, M!InFlight
    <3>3. k \in GroupCalls
      <4> HIDE DEF k
      <4> QED
        BY <1>3, <2>2, <3>2 DEF MembershipCalls, MemberCalls, GroupCalls, M!Idle
    <3>4. CASE M!Rejected(c)
      <4>1. m = [k EXCEPT !.at = "returned", !.out = "threw"]
        BY <1>3, <3>4 DEF M!Rejected, M!Returns
      <4> HIDE DEF m, k
      <4> QED
        BY <3>3, <4>1 DEF MembershipCalls, GroupCalls, Outs
    <3>5. CASE M!ListGroups(c)
      <4> DEFINE groups == {row.group : row \in M!FindMany(memberships, [member |-> k.member])}
      <4>1. m = [k EXCEPT !.at = "returned", !.out = "done", !.groups = groups]
        BY <1>3, <3>5 DEF M!ListGroups
      <4>2. groups \subseteq OrgIds
        BY <1>3 DEF M!FindMany, TableOf, M!MembershipRows
      <4> HIDE DEF m, k, groups
      <4> QED
        BY <3>3, <4>1, <4>2 DEF MembershipCalls, GroupCalls, Outs
    <3> QED
      BY <3>1, <3>4, <3>5
  <2> QED
    BY <2>1, <2>2
<1>7. ODuty(c)' /\ PDuty(c)' /\ Asks(c)'
  BY <1>1, <1>6 DEF TInv, ODuty, PDuty, Asks
<1>8. TablesOK'
  BY <1>1, <1>5 DEF TInv, TablesOK, TableOf, UniqueIds, OrganisationRows, P!AssignmentRows,
     P!OverrideRows
<1>9. /\ o \in OrganisationCalls /\ ocall' = [ocall EXCEPT ![c] = o]
      /\ p \in PermissionCalls /\ pcall' = [pcall EXCEPT ![c] = p]
  BY <1>1, Shape DEF TInv
<1>10. mcall' = [mcall EXCEPT ![c] = m]
  BY <1>2 DEF MembershipMoves
<1> HIDE DEF o, p, m
<1> QED
  BY <1>1, <1>6, <1>7, <1>8, <1>9, <1>10, Settle

(* Every step is one of a call of the permission service, or leaves its tables alone. *)
LEMMA NextMoves ==
    ASSUME \A d \in Deployments : Explicit(d), TInv, Next
    PROVE  /\ TInv' /\ plan' = plan /\ Observe
           /\ \E c \in Clients :
                  \/ PermissionForms(c) /\ UNCHANGED <<ovars, membershipVars>>
                  \/ LeavesTables(c)
<1>1. plan' = plan /\ Observe
  BY DEF Next
<1>2. PICK c \in Clients : ClientStep(c) \/ OrganisationStep(c) \/ ServiceStep(c)
  BY Zenon DEF Next
<1>3. CASE ClientStep(c)
  <2>1. TInv' /\ LeavesTables(c)
    BY <1>1, <1>3, OwnCalls, ChangeStarts, StartMembers DEF ClientStep
  <2> QED
    BY <1>1, <2>1
<1>4. CASE OrganisationStep(c)
  <2>1. TInv' /\ LeavesTables(c)
    BY <1>1, <1>4, QuietSteps, ChecksAsked, MemberGoesOn DEF OrganisationStep
  <2> QED
    BY <1>1, <2>1
<1>5. CASE P!PermissionStep(c) /\ UNCHANGED <<ovars, membershipVars>>
  <2>1. PermissionForms(c)
    BY <1>5, PermissionStepForms
  <2>2. TInv'
    BY <1>1, <1>5, <2>1, PermissionTyped
  <2> QED
    BY <1>1, <1>5, <2>1, <2>2
<1>6. CASE M!MembershipStep(c) /\ UNCHANGED <<ovars, permissionVars>>
  <2>1. TInv'
    BY <1>1, <1>6, MembershipTyped
  <2>2. LeavesTables(c)
    BY <1>6, Shape DEF TInv, LeavesTables, TablesSame, permissionVars
  <2> QED
    BY <1>1, <2>1, <2>2
<1> QED
  BY <1>2, <1>3, <1>4, <1>5, <1>6, Zenon DEF ServiceStep

(* Every deployment starts typed. *)
LEMMA InitTyped ==
    ASSUME \A d \in Deployments : Explicit(d), Init
    PROVE  TInv
<1>1. plan \in Deployments /\ Explicit(plan)
  BY DEF Init
<1>2. /\ organisations = plan.organisations /\ deleted = {}
      /\ memberships \in plan.memberships /\ assignments \in plan.assignments
      /\ overrides \in plan.overrides
      /\ ocall = [c \in Clients |-> Idle] /\ pcall = [c \in Clients |-> P!Idle]
      /\ mcall = [c \in Clients |-> M!Idle]
  BY DEF Init
<1>3. TablesOK
  BY <1>1, <1>2 DEF Explicit, TablesOK
<1>4. \A c \in Clients : ODuty(c) /\ PDuty(c) /\ Asks(c)
  BY <1>2 DEF ODuty, PDuty, Asks, Idle, P!Idle, FacadeOps, Changes, P!OverrideOps, Sweeps
<1> QED
  BY <1>1, <1>2, <1>3, <1>4 DEF TInv, OrganisationCalls, PermissionCalls, MembershipCalls

-----------------------------------------------------------------------------
(* Overrides: what was added and not revoked is in the table. *)

(* What the history records of a step, for the overrides and the calm calls. *)
LEMMA Observed ==
    ASSUME Observe
    PROVE  /\ DOMAIN calm' = Clients
           /\ \A c \in Clients :
                  calm'[c] => /\ pcall'[c] # P!Idle
                              /\ pcall[c] = P!Idle \/ calm[c]
                              /\ ~\E d \in Clients \ {c} : Undoes(pcall'[d], pcall'[c])
           /\ \A t \in firm' :
                  /\ ~Revoked(t)'
                  /\ \/ t \in firm
                     \/ \E c \in Clients : AddAnswered(c)' /\ t = Target(pcall'[c])
           /\ \A c \in Clients : \A t :
                  AddAnswered(c)' /\ t = Target(pcall'[c]) /\ ~Revoked(t)' => t \in firm'
<1>1. P!OverrideOps \ P!Revokes = Adds
  BY DEF P!OverrideOps, P!Revokes, Adds
<1>2. calm' = [c \in Clients |->
           /\ pcall'[c] # P!Idle
           /\ pcall[c] = P!Idle \/ calm[c]
           /\ ~\E d \in Clients \ {c} : Undoes(pcall'[d], pcall'[c])]
  BY DEF Observe
<1>3. firm' =
           LET added == {c \in Clients :
                   /\ pcall'[c].op \in P!OverrideOps \ P!Revokes
                   /\ pcall'[c].at = "returned" /\ pcall'[c].out = "done" /\ calm'[c]}
           IN  {t \in firm \cup {Target(pcall'[c]) : c \in added} : ~Revoked(t)'}
  BY DEF Observe
<1> DEFINE added == {c \in Clients :
                   /\ pcall'[c].op \in P!OverrideOps \ P!Revokes
                   /\ pcall'[c].at = "returned" /\ pcall'[c].out = "done" /\ calm'[c]}
<1>4. \A c \in Clients : AddAnswered(c)' <=> c \in added
  BY <1>1 DEF AddAnswered, P!Returned
<1>5. firm' = {t \in firm \cup {Target(pcall'[c]) : c \in added} : ~Revoked(t)'}
  BY <1>3
<1> HIDE DEF added
<1>6. \A t \in firm' :
          /\ ~Revoked(t)'
          /\ t \in firm \/ \E c \in Clients : AddAnswered(c)' /\ t = Target(pcall'[c])
  BY <1>4, <1>5 DEF added
<1>7. \A c \in Clients : \A t :
          AddAnswered(c)' /\ t = Target(pcall'[c]) /\ ~Revoked(t)' => t \in firm'
  BY <1>4, <1>5
<1>8. \A c \in Clients :
          calm'[c] => /\ pcall'[c] # P!Idle
                      /\ pcall[c] = P!Idle \/ calm[c]
                      /\ ~\E d \in Clients \ {c} : Undoes(pcall'[d], pcall'[c])
  BY <1>2
<1>9. DOMAIN calm' = Clients
  BY <1>2
<1> QED
  BY <1>6, <1>7, <1>8, <1>9

(* The step of a client, as far as the permission service goes. *)
Steps(c) == PermissionForms(c) \/ LeavesTables(c)

(* What the step of a client does to the overrides. *)
LEMMA OverridesMove ==
    ASSUME TInv, NEW c \in Clients, Steps(c)
    PROVE  /\ \A d \in Clients \ {c} : pcall'[d] = pcall[d]
           /\ \A row \in overrides' :
                  \/ row \in overrides
                  \/ /\ pcall[c] \in OverrideCalls /\ pcall[c].op \in Adds /\ EndsAs(c, "done")
                     /\ Unheld(overrides, row.id)
                     /\ row.type = P!TypeOf(pcall[c].op) /\ row.actor = pcall[c].actor
                     /\ row.permission = pcall[c].action /\ row.scope = pcall[c].scope
                     /\ row.resource = Stored(pcall[c].resource)
           /\ \A row \in overrides :
                  \/ row \in overrides'
                  \/ /\ pcall[c].op \in P!Revokes /\ pcall[c].at = "delete"
                     /\ row.id = pcall[c].row
                  \/ /\ pcall[c].op \in Sweeps /\ pcall[c].at = "lifting"
                     /\ row.id \in pcall[c].found
<1>1. \A d \in Clients \ {c} : pcall'[d] = pcall[d]
  BY DEF Steps, PermissionForms, LeavesTables, TInv
<1>2. CASE overrides' = overrides
  BY <1>1, <1>2
<1>3. CASE AddForms(c) /\ pcall[c].at = "create"
  <2> DEFINE k == pcall[c]
  <2>1. PICK id : /\ Unheld(overrides, id)
                  /\ overrides' = overrides \cup
                         {[id |-> id, type |-> P!TypeOf(k.op), actor |-> k.actor,
                           permission |-> k.action, scope |-> k.scope,
                           resource |-> Stored(k.resource)]}
    BY <1>3 DEF AddForms
  <2>2. k \in OverrideCalls /\ k.op \in Adds /\ EndsAs(c, "done")
    BY <1>3 DEF AddForms
  <2> HIDE DEF k
  <2> QED
    BY <1>1, <2>1, <2>2 DEF k
<1>4. CASE RevokeForms(c) /\ pcall[c].at = "delete"
  BY <1>1, <1>4 DEF RevokeForms, Delete
<1>5. CASE SweepForms(c)
  <2>1. pcall[c].op \in Sweeps
    BY <1>5 DEF SweepForms, SweepCalls
  <2>2. \/ overrides' = overrides
        \/ /\ pcall[c].at = "lifting"
           /\ \E id \in pcall[c].found : overrides' = Delete(overrides, id)
    BY <1>5 DEF SweepForms, TablesSame
  <2> QED
    BY <1>1, <2>1, <2>2 DEF Delete
<1>6. CASE AddForms(c) /\ pcall[c].at # "create"
  <2>1. overrides' = overrides
    BY <1>6 DEF AddForms, TablesSame
  <2> QED
    BY <1>2, <2>1
<1>7. CASE RevokeForms(c) /\ pcall[c].at # "delete"
  <2>1. overrides' = overrides
    BY <1>7 DEF RevokeForms, TablesSame
  <2> QED
    BY <1>2, <2>1
<1>8. CASE QueryForms(c) \/ AssignForms(c) \/ UnassignForms(c) \/ TablesSame \/ LeavesTables(c)
  <2>1. overrides' = overrides
    BY <1>8 DEF QueryForms, AssignForms, UnassignForms, TablesSame, LeavesTables
  <2> QED
    BY <1>2, <2>1
<1> QED
  BY <1>3, <1>4, <1>5, <1>6, <1>7, <1>8 DEF Steps, PermissionForms

(* The ids a revoke or a sweep has listed are of the rows it means to delete. *)
LEMMA HoldsKept ==
    ASSUME TInv, NEW c \in Clients, Steps(c), HoldsIds(c)
    PROVE  HoldsIds(c)'
<1> DEFINE k == pcall[c]
           l == pcall'[c]
<1>0. /\ TableOf(P!OverrideRows, overrides) /\ UniqueIds(overrides)
      /\ pcall \in [Clients -> PermissionCalls] /\ k \in PermissionCalls
  BY DEF TInv, TablesOK, TableOf
<1>1. CASE LeavesTables(c)
  <2>1. overrides' = overrides
    BY <1>1 DEF LeavesTables, TablesSame
  <2>2. CASE l = k
    BY <2>1, <2>2 DEF HoldsIds, Meets, Under
  <2>3. CASE l = P!Idle
    BY <2>3 DEF HoldsIds, P!Idle, P!Revokes, Sweeps
  <2>4. CASE Begins(c)
    BY <2>4 DEF HoldsIds, Begins
  <2> QED
    BY <1>1, <2>2, <2>3, <2>4 DEF LeavesTables
<1>2. CASE PermissionForms(c)
  <2>1. Same(k, l)
    BY <1>2, CallMoves
  <2>2. l.op = k.op /\ k.at # "idle"
    BY <1>2, <2>1 DEF Same, PermissionForms
  <2>3. ASSUME l.op \in P!Revokes, l.at = "delete", NEW row \in overrides', row.id = l.row
        PROVE  Meets(row, l)
    <3>1. /\ k \in OverrideCalls /\ l \in OverrideCalls
          /\ l.actor = k.actor /\ l.action = k.action /\ l.scope = k.scope /\ l.resource = k.resource
      <4>1. k.op \in P!OverrideOps
        BY <2>2, <2>3 DEF P!Revokes, P!OverrideOps
      <4> HIDE DEF k, l
      <4> QED
        BY <1>0, <2>1, <4>1, CallKinds DEF Same
    <3>2. RevokeForms(c)
      <4>1. k.op \in P!Revokes
        BY <2>2, <2>3
      <4>2. ~EndsAs(c, "threw")
        BY <2>3, <3>1 DEF EndsAs, OverrideCalls
      <4>3. ~QueryForms(c) /\ ~AssignForms(c) /\ ~UnassignForms(c) /\ ~AddForms(c) /\ ~SweepForms(c)
        BY <4>1 DEF QueryForms, AssignForms, UnassignForms, AddForms, SweepForms, QueryCalls,
           SweepCalls, P!Revokes, Adds, P!Queries, Sweeps
      <4> QED
        BY <1>2, <4>2, <4>3 DEF PermissionForms
    <3>3. ~EndsAs(c, "done")
      BY <2>3, <3>1 DEF EndsAs, OverrideCalls
    <3>4. PICK r \in overrides : Meets(r, k) /\ FoundAt(c, r.id, "delete") /\ overrides' = overrides
      BY <3>2, <3>3 DEF RevokeForms, TablesSame
    <3>5. l.row = r.id
      BY <3>1, <3>4 DEF FoundAt, OverrideCalls
    <3>6. row = r
      BY <1>0, <2>3, <3>4, <3>5 DEF UniqueIds
    <3> HIDE DEF k, l
    <3> QED
      BY <2>2, <3>1, <3>4, <3>6 DEF Meets
  <2>4. ASSUME l.op \in Sweeps, l.at = "lifting", NEW row \in overrides', row.id \in l.found
        PROVE  Under(row, l.where)
    <3>1. k \in SweepCalls /\ l \in SweepCalls /\ l.where = k.where
      <4>1. k.op \in Sweeps
        BY <2>2, <2>4
      <4> HIDE DEF k, l
      <4> QED
        BY <1>0, <2>1, <4>1, CallKinds DEF Same
    <3>2. SweepForms(c)
      <4>2. ~EndsAs(c, "threw")
        BY <2>4, <3>1 DEF EndsAs, SweepCalls
      <4>3. ~QueryForms(c) /\ ~AssignForms(c) /\ ~UnassignForms(c) /\ ~AddForms(c) /\ ~RevokeForms(c)
        BY <2>2, <2>4 DEF QueryForms, AssignForms, UnassignForms, AddForms, RevokeForms, QueryCalls,
           OverrideCalls, P!OverrideOps, P!Queries, Sweeps
      <4> QED
        BY <1>2, <4>2, <4>3 DEF PermissionForms
    <3>3. CASE k.at = "unassigning" /\ overrides' = overrides
               /\ l = [k EXCEPT !.at = "lifting",
                         !.found = {r.id : r \in {s \in overrides : Under(s, k.where)}}]
      <4>1. l.found = {r.id : r \in {s \in overrides : Under(s, k.where)}}
        BY <3>1, <3>3 DEF SweepCalls
      <4>2. PICK r \in overrides : Under(r, k.where) /\ r.id = row.id
        BY <2>4, <4>1
      <4>3. row = r
        BY <1>0, <2>4, <3>3, <4>2 DEF UniqueIds
      <4> QED
        BY <3>1, <4>2, <4>3
    <3>4. CASE /\ k.at = "lifting"
               /\ \E id \in k.found : /\ overrides' = Delete(overrides, id)
                                      /\ l = [k EXCEPT !.found = @ \ {id}]
      <4>1. row \in overrides /\ row.id \in k.found
        BY <2>4, <3>1, <3>4 DEF Delete, SweepCalls
      <4>2. Under(row, k.where)
        BY <2>2, <2>4, <3>4, <4>1 DEF HoldsIds
      <4> QED
        BY <3>1, <4>2
    <3>5. CASE k.at = "assignments" \/ (k.at = "unassigning" /\ l.at # "lifting") \/ EndsAs(c, "done")
      <4>1. l.at # "lifting"
        BY <3>1, <3>2, <3>5 DEF SweepForms, EndsAs, SweepCalls
      <4> QED
        BY <2>4, <4>1
    <3>6. CASE k.at = "unassigning" /\ l.at = "lifting"
      <4>1. ~\E id \in k.found : l = [k EXCEPT !.found = @ \ {id}]
        BY <3>1, <3>6 DEF SweepCalls
      <4> QED
        BY <3>2, <3>3, <3>6, <4>1 DEF SweepForms, TablesSame
    <3> QED
      BY <3>2, <3>4, <3>5, <3>6 DEF SweepForms
  <2> QED
    BY <2>3, <2>4 DEF HoldsIds
<1> QED
  BY <1>1, <1>2 DEF Steps

(* And stay so whatever the others do. *)
LEMMA HoldsKeptByOthers ==
    ASSUME TInv, NEW c \in Clients, Steps(c), NEW d \in Clients \ {c}, HoldsIds(d)
    PROVE  HoldsIds(d)'
<1>1. pcall'[d] = pcall[d]
  BY OverridesMove
<1>2. \A row \in overrides' : row \in overrides \/ Unheld(overrides, row.id)
  BY OverridesMove
<1>3. \A row \in overrides' :
          /\ pcall[d].op \in P!Revokes /\ row.id = pcall[d].row => row \in overrides
          /\ pcall[d].op \in Sweeps /\ row.id \in pcall[d].found => row \in overrides
  BY <1>2 DEF Unheld, P!Revokes, P!OverrideOps
<1> QED
  BY <1>1, <1>3 DEF HoldsIds, Meets, Under

(* Whoever deletes a row that stands for t is revoking t. *)
LEMMA DeletesRevoked ==
    ASSUME \A d \in Deployments : Explicit(d) /\ OneLevel(d), TInv, SInv, NEW c \in Clients,
           Steps(c), NEW t \in firm
    PROVE  Stands(t)'
<1>1. /\ Stands(t) /\ ~Revoked(t) /\ t \in Targets
      /\ \E d \in Clients : plan.duty[d] \cap Adds # {}
      /\ OneLevel(plan) /\ HoldsIds(c) /\ PDuty(c) /\ pcall[c] \in PermissionCalls
  BY DEF SInv, TInv
<1> DEFINE k == pcall[c]
<1>2. PICK row \in overrides :
          /\ row.type = t[1] /\ row.actor = t[2] /\ row.permission = t[3] /\ row.scope = t[4]
          /\ row.resource = Stored(t[5])
  BY <1>1 DEF Stands
<1>3. SUFFICES row \in overrides'
  BY <1>2 DEF Stands
<1>4. /\ t = <<t[1], t[2], t[3], t[4], t[5]>> /\ t[5] \in plan.levels /\ t[5] \in Levels
  BY <1>1 DEF Targets
<1>5. ASSUME k.op \in P!Revokes, k.at = "delete", row.id = k.row
      PROVE  FALSE
  <2>1. Meets(row, k)
    BY <1>1, <1>5 DEF HoldsIds
  <2>2. k \in OverrideCalls /\ k.resource \in plan.levels
    <3>1. k.op \in P!OverrideOps
      BY <1>5 DEF P!Revokes, P!OverrideOps
    <3> QED
      BY <1>1, <3>1, CallKinds DEF PDuty
  <2>3. k.resource = t[5]
    <3>1. CASE k.resource = Undefined
      <4>1. plan.levels = {Undefined}
        BY <1>1, <2>2, <3>1 DEF OneLevel
      <4> QED
        BY <1>4, <2>2, <4>1
    <3>2. CASE k.resource # Undefined
      <4>1. k.resource = Stored(t[5]) /\ k.resource \in Resources
        BY <1>2, <2>1, <2>2, <3>2 DEF Meets, OverrideCalls, Levels
      <4>2. k.resource # Null
        BY <4>1, ArgumentsGiven
      <4> QED
        BY <4>1, <4>2 DEF Stored
    <3> QED
      BY <3>1, <3>2
  <2>4. Target(k) = t
    <3>1. t = <<P!TypeOf(k.op), k.actor, k.action, k.scope, k.resource>>
      BY <1>2, <1>4, <2>1, <2>3 DEF Meets
    <3> QED
      BY <3>1 DEF Target
  <2>5. P!InFlight(c)
    BY <1>5 DEF P!InFlight
  <2> QED
    BY <1>1, <1>5, <2>4, <2>5 DEF Revoked
<1>6. ASSUME k.op \in Sweeps, k.at = "lifting", row.id \in k.found
      PROVE  FALSE
  <2>1. Under(row, k.where)
    BY <1>1, <1>6 DEF HoldsIds
  <2>2. k.where \in Wheres
    BY <1>1, <1>6, CallKinds DEF SweepCalls
  <2>3. k.where \in {[scope |-> t[4]], [actor |-> t[2]]}
    BY <1>2, <2>1, <2>2 DEF Under, Wheres
  <2>4. P!InFlight(c)
    BY <1>6 DEF P!InFlight
  <2> QED
    BY <1>1, <1>6, <2>3, <2>4 DEF Revoked, Sweeps
<1> QED
  BY <1>5, <1>6, OverridesMove

(* What an add that has just answered leaves. *)
LEMMA AddLeaves ==
    ASSUME \A d \in Deployments : Explicit(d) /\ OneLevel(d), TInv, SInv, NEW c \in Clients,
           PermissionForms(c), pcall'[c].op \in Adds, P!Returned(c, "done")',
           NEW t, t = Target(pcall'[c])
    PROVE  Stands(t)'
<1> DEFINE k == pcall[c]
           l == pcall'[c]
<1>1. Same(k, l)
  BY CallMoves
<1>2. /\ k \in PermissionCalls /\ PDuty(c) /\ OneLevel(plan) /\ l.op = k.op
      /\ k.op \in P!OverrideOps /\ k.op \in Adds
  BY <1>1 DEF TInv, Same, Adds, P!OverrideOps
<1>3. /\ k \in OverrideCalls /\ l \in OverrideCalls /\ k.op \in plan.duty[c]
      /\ k.resource \in plan.levels
      /\ l.actor = k.actor /\ l.action = k.action /\ l.scope = k.scope /\ l.resource = k.resource
  <2>1. k \in OverrideCalls /\ k.op \in plan.duty[c] /\ k.resource \in plan.levels
    BY <1>2, CallKinds DEF PDuty
  <2> QED
    BY <1>1, <2>1 DEF Same
<1>4. l.at = "returned" /\ l.out = "done"
  BY DEF P!Returned
<1>5. AddForms(c)
  <2>1. ~EndsAs(c, "threw")
    BY <1>3, <1>4 DEF EndsAs, OverrideCalls
  <2>2. ~QueryForms(c) /\ ~AssignForms(c) /\ ~UnassignForms(c) /\ ~RevokeForms(c) /\ ~SweepForms(c)
    BY <1>2 DEF QueryForms, AssignForms, UnassignForms, RevokeForms, SweepForms, QueryCalls,
       SweepCalls, P!Revokes, Adds, P!Queries, Sweeps
  <2> QED
    BY <2>1, <2>2 DEF PermissionForms
<1>6. /\ t[1] = P!TypeOf(k.op) /\ t[2] = k.actor /\ t[3] = k.action /\ t[4] = k.scope
      /\ t[5] = k.resource
  BY <1>2, <1>3 DEF Target
<1>7. SUFFICES \E row \in overrides' :
                   /\ row.type = P!TypeOf(k.op) /\ row.actor = k.actor /\ row.permission = k.action
                   /\ row.scope = k.scope /\ row.resource = Stored(k.resource)
  <2> HIDE DEF k
  <2> QED
    BY <1>6 DEF Stands
<1>8. CASE k.at = "find"
  <2>1. overrides' = overrides /\ ~FoundAt(c, P!NoRow, "create")
    BY <1>3, <1>4, <1>5, <1>8 DEF AddForms, TablesSame, FoundAt, OverrideCalls
  <2>2. PICK row \in overrides : Meets(row, k)
    BY <1>5, <1>8, <2>1 DEF AddForms
  <2>3. row.resource = Stored(k.resource)
    <3>1. CASE k.resource = Undefined
      <4>1. row.resource = Null
        BY <1>2, <1>3, <3>1 DEF SInv
      <4> QED
        BY <3>1, <4>1 DEF Stored
    <3>2. CASE k.resource # Undefined
      BY <2>2, <3>2 DEF Meets, Stored
    <3> QED
      BY <3>1, <3>2
  <2> QED
    BY <2>1, <2>2, <2>3 DEF Meets
<1>9. CASE k.at = "create"
  <2>1. PICK id : overrides' = overrides \cup
                         {[id |-> id, type |-> P!TypeOf(k.op), actor |-> k.actor,
                           permission |-> k.action, scope |-> k.scope,
                           resource |-> Stored(k.resource)]}
    BY <1>5, <1>9 DEF AddForms
  <2> DEFINE r == [id |-> id, type |-> P!TypeOf(k.op), actor |-> k.actor,
                   permission |-> k.action, scope |-> k.scope, resource |-> Stored(k.resource)]
  <2>2. /\ r.type = P!TypeOf(k.op) /\ r.actor = k.actor /\ r.permission = k.action
        /\ r.scope = k.scope /\ r.resource = Stored(k.resource)
    OBVIOUS
  <2>3. r \in overrides'
    BY <2>1
  <2> HIDE DEF k, r
  <2> QED
    BY <2>2, <2>3
<1> QED
  BY <1>5, <1>8, <1>9 DEF AddForms

(* An add that has answered, with none revoking it, stands. *)
LEMMA AnsweredOne ==
    ASSUME \A d \in Deployments : Explicit(d) /\ OneLevel(d), TInv, SInv, TInv', plan' = plan,
           Observe, NEW c \in Clients, Steps(c), NEW d \in Clients, AddAnswered(d)',
           NEW t, t = Target(pcall'[d])
    PROVE  /\ t \in Targets' /\ Stands(t)' /\ ~Revoked(t)'
           /\ plan'.duty[d] \cap Adds # {}
<1> DEFINE l == pcall'[d]
<1>1. l.op \in Adds /\ l.at = "returned" /\ l.out = "done" /\ calm'[d]
  BY DEF AddAnswered, P!Returned
<1>2. l \in OverrideCalls /\ l.resource \in plan.levels /\ l.op \in plan.duty[d]
  <2>1. l \in PermissionCalls /\ PDuty(d)'
    BY DEF TInv
  <2>2. l.op \in P!OverrideOps
    BY <1>1 DEF Adds, P!OverrideOps
  <2> QED
    BY <2>1, <2>2, CallKinds DEF PDuty
<1>3. t \in Targets'
  <2>1. /\ P!TypeOf(l.op) \in Adds /\ l.actor \in Members /\ l.action \in {"update"}
        /\ l.scope \in AllScopes /\ l.resource \in Levels
    BY <1>2, TypeOfCall DEF OverrideCalls
  <2>2. t = <<P!TypeOf(l.op), l.actor, l.action, l.scope, l.resource>>
    BY DEF Target
  <2> HIDE DEF l
  <2>3. t \in Adds \X Members \X {"update"} \X AllScopes \X Levels /\ t[5] = l.resource
    BY <2>1, <2>2
  <2> QED
    BY <1>2, <2>3 DEF Targets
<1>4. ~Revoked(t)'
  <2> SUFFICES ASSUME NEW e \in Clients, P!InFlight(e)',
                      \/ pcall'[e].op \in P!Revokes /\ Target(pcall'[e]) = t
                      \/ /\ pcall'[e].op \in Sweeps
                         /\ pcall'[e].where \in {[scope |-> t[4]], [actor |-> t[2]]}
               PROVE  FALSE
    BY DEF Revoked, Sweeps
  <2>1. pcall'[e].at # "returned"
    BY DEF P!InFlight
  <2>2. e # d
    BY <1>1, <2>1
  <2>3. t = Target(l) /\ t[4] = l.scope /\ t[2] = l.actor
    BY DEF Target
  <2>4. l.op \in P!OverrideOps \ P!Revokes
    BY <1>1 DEF Adds, P!OverrideOps, P!Revokes
  <2>5. Undoes(pcall'[e], l)
    <3> HIDE DEF l
    <3> QED
      BY <2>1, <2>3, <2>4 DEF Undoes, Sweeps
  <2>6. ~Undoes(pcall'[e], l)
    BY <1>1, <2>2, Observed
  <2> QED
    BY <2>5, <2>6
<1>5. calm[d] /\ l # P!Idle
  <2>1. pcall[d] # P!Idle
    <3>1. CASE d # c
      BY <1>1, <3>1, OverridesMove DEF P!Idle
    <3>2. CASE d = c
      BY <1>1, <3>2 DEF Steps, LeavesTables, Begins, PermissionForms, P!Idle
    <3> QED
      BY <3>1, <3>2
  <2> QED
    BY <1>1, <2>1, Observed
<1>6. CASE pcall'[d] = pcall[d]
  <2>1. AddAnswered(d)
    BY <1>1, <1>5, <1>6 DEF AddAnswered, P!Returned
  <2>2. t \in firm
    BY <1>6, <2>1 DEF SInv
  <2>3. Stands(t)'
    BY <2>2, DeletesRevoked
  <2> QED
    BY <1>1, <1>2, <1>3, <1>4, <2>3
<1>7. CASE pcall'[d] # pcall[d]
  <2>1. d = c
    BY <1>7, OverridesMove
  <2>2. PermissionForms(c)
    BY <1>1, <1>7, <2>1 DEF Steps, LeavesTables, Begins, P!Idle
  <2>3. Stands(t)'
    BY <1>1, <2>1, <2>2, AddLeaves DEF P!Returned
  <2> QED
    BY <1>1, <1>2, <1>3, <1>4, <2>3
<1> QED
  BY <1>6, <1>7

(* Every step keeps the invariant of the overrides. *)
LEMMA SKept ==
    ASSUME \A d \in Deployments : Explicit(d) /\ OneLevel(d), TInv, SInv, Next
    PROVE  SInv'
<1>0. /\ TInv' /\ plan' = plan /\ Observe
      /\ \A d \in Deployments : Explicit(d)
  BY NextMoves
<1>1. PICK c \in Clients : Steps(c)
  BY NextMoves DEF Steps
<1>2. (\E d \in Clients : plan'.duty[d] \cap Adds # {}) /\ Undefined \in plan'.levels =>
          \A row \in overrides' : row.resource = Null
  <2> SUFFICES ASSUME NEW d \in Clients, plan.duty[d] \cap Adds # {}, Undefined \in plan.levels,
                      NEW row \in overrides'
               PROVE  row.resource = Null
    BY <1>0
  <2>1. CASE row \in overrides
    BY <2>1 DEF SInv
  <2>2. CASE /\ pcall[c] \in OverrideCalls /\ pcall[c].op \in Adds
             /\ row.resource = Stored(pcall[c].resource)
    <3>1. pcall[c].resource \in plan.levels /\ plan \in Deployments
      BY <2>2 DEF TInv, PDuty, OverrideCalls
    <3>2. plan.levels = {Undefined}
      BY <3>1 DEF OneLevel
    <3> QED
      BY <2>2, <3>1, <3>2 DEF Stored
  <2> QED
    BY <1>1, <2>1, <2>2, OverridesMove
<1>3. \A d \in Clients : HoldsIds(d)'
  BY <1>1, HoldsKept, HoldsKeptByOthers DEF SInv
<1>4. \A d \in Clients : \A t : AddAnswered(d)' /\ t = Target(pcall'[d]) =>
          /\ t \in Targets' /\ Stands(t)' /\ ~Revoked(t)'
          /\ plan'.duty[d] \cap Adds # {}
  BY <1>0, <1>1, AnsweredOne
<1>5. ASSUME NEW t \in firm'
      PROVE  /\ t \in Targets' /\ Stands(t)' /\ ~Revoked(t)'
             /\ \E d \in Clients : plan'.duty[d] \cap Adds # {}
  <2>1. ~Revoked(t)'
    BY <1>0, Observed
  <2>2. CASE t \in firm
    <3>1. t \in Targets' /\ \E d \in Clients : plan'.duty[d] \cap Adds # {}
      BY <1>0, <2>2 DEF SInv, Targets
    <3>2. Stands(t)'
      BY <1>1, <2>2, DeletesRevoked
    <3> QED
      BY <2>1, <3>1, <3>2
  <2>3. CASE \E d \in Clients : AddAnswered(d)' /\ t = Target(pcall'[d])
    <3>1. PICK d \in Clients : AddAnswered(d)' /\ t = Target(pcall'[d])
      BY <2>3
    <3> QED
      BY <1>4, <3>1
  <2> QED
    BY <1>0, <2>2, <2>3, Observed
<1>6. DOMAIN calm' = Clients
  BY <1>0, Observed
<1>7. \A d \in Clients : AddAnswered(d)' => Target(pcall'[d]) \in firm'
  BY <1>0, <1>4, Observed
<1> QED
  BY <1>2, <1>3, <1>5, <1>6, <1>7 DEF SInv

(* A stuttering step changes nothing. *)
LEMMA Idling ==
    ASSUME UNCHANGED vars
    PROVE  /\ organisations' = organisations /\ ocall' = ocall /\ deleted' = deleted
           /\ assignments' = assignments /\ overrides' = overrides /\ pcall' = pcall
           /\ memberships' = memberships /\ mcall' = mcall /\ plan' = plan
           /\ seen' = seen /\ vouched' = vouched /\ calm' = calm /\ firm' = firm
BY DEF vars, ovars, permissionVars, membershipVars, history

(* Every step keeps the typing. *)
LEMMA TypedAlways ==
    ASSUME \A d \in Deployments : Explicit(d), TInv, [Next]_vars
    PROVE  TInv'
<1>1. CASE Next
  BY <1>1, NextMoves
<1>2. CASE UNCHANGED vars
  <2>1. TablesOK'
    BY <1>2, Idling DEF TInv, TablesOK, TableOf, UniqueIds, OrganisationRows, P!AssignmentRows,
       P!OverrideRows, M!MembershipRows
  <2>2. ASSUME NEW c \in Clients PROVE ODuty(c)' /\ PDuty(c)' /\ Asks(c)'
    BY <1>2, Idling DEF TInv, ODuty, PDuty, Asks
  <2> QED
    BY <1>2, <2>1, <2>2, Idling DEF TInv
<1> QED
  BY <1>1, <1>2

(* The invariant of the overrides holds at the start. *)
LEMMA InitStands ==
    ASSUME \A d \in Deployments : Explicit(d) /\ OneLevel(d), Init
    PROVE  SInv
<1>1. plan \in Deployments /\ OneLevel(plan)
  BY DEF Init
<1>2. /\ overrides \in plan.overrides /\ pcall = [c \in Clients |-> P!Idle]
      /\ calm = [c \in Clients |-> FALSE] /\ firm = {}
  BY DEF Init
<1>3. \A c \in Clients : HoldsIds(c)
  BY <1>2 DEF HoldsIds, P!Idle
<1>4. \A c \in Clients : ~AddAnswered(c)
  BY <1>2 DEF AddAnswered
<1> QED
  BY <1>1, <1>2, <1>3, <1>4 DEF SInv, OneLevel

(* An override that grant or deny has answered for stays in the table until a
   call that revokes it starts, whatever else is granted, denied, revoked or
   swept meanwhile (permission.ts 281-387), where
   the overrides are all of a scope or all of resources (OneLevel). *)
THEOREM OverridesStand ==
    ASSUME \A d \in Deployments : Explicit(d) /\ OneLevel(d)
    PROVE  Spec => []OverrideStands
<1>1. Init => TInv /\ SInv
  BY InitTyped, InitStands
<1>2. TInv /\ SInv /\ [Next]_vars => (TInv /\ SInv)'
  <2>1. CASE Next
    BY <2>1, TypedAlways, SKept
  <2>2. ASSUME SInv, UNCHANGED vars PROVE SInv'
    <3>1. \A c \in Clients : HoldsIds(c)'
      BY <2>2, Idling DEF SInv, HoldsIds, Meets, Under
    <3>2. \A t \in firm' : Stands(t)' /\ ~Revoked(t)'
      BY <2>2, Idling DEF SInv, Stands, Revoked, P!InFlight
    <3>3. \A c \in Clients : AddAnswered(c)' => Target(pcall'[c]) \in firm'
      BY <2>2, Idling DEF SInv, AddAnswered, P!Returned
    <3> QED
      BY <2>2, <3>1, <3>2, <3>3, Idling DEF SInv, Targets
  <2> QED
    BY <2>1, <2>2, TypedAlways
<1>3. SInv => OverrideStands
  BY DEF SInv, Stands, OverrideStands
<1> QED
  BY <1>1, <1>2, <1>3, PTL DEF Spec

-----------------------------------------------------------------------------
(* Revocations: one role per member and place, and what a sweep leaves. *)

(* A row keeps its id, its actor and its scope. *)
Keeps(row, old) == row.id = old.id /\ row.actor = old.actor /\ row.scope = old.scope
Created(c, row) ==
    LET k == pcall[c] IN
    /\ k \in RoleCalls /\ k.op = "assign" /\ k.at = "create" /\ EndsAs(c, "done")
    /\ Unheld(assignments, row.id)
    /\ row.actor = k.actor /\ row.scope = k.scope /\ row.role = k.role
    /\ assignments' = assignments \cup {row}

(* update changes the role of one row. *)
LEMMA UpdatedRow ==
    ASSUME NEW table, TableOf(P!AssignmentRows, table), NEW id, NEW role,
           NEW row \in Update(table, id, "role", role)
    PROVE  \E old \in table : /\ Keeps(row, old)
                              /\ row = old \/ (old.id = id /\ row.role = role)
<1>1. PICK old \in table : row = IF old.id = id THEN [old EXCEPT !["role"] = role] ELSE old
  BY DEF Update
<1>2. old \in P!AssignmentRows
  BY DEF TableOf
<1>3. Keeps(row, old)
  BY <1>1, <1>2 DEF Keeps, P!AssignmentRows
<1>4. row = old \/ (old.id = id /\ row.role = role)
  BY <1>1, <1>2 DEF P!AssignmentRows
<1> QED
  BY <1>3, <1>4

(* What the step of a client does to the assignments. *)
LEMMA AssignmentsMove ==
    ASSUME TInv, NEW c \in Clients, Steps(c)
    PROVE  /\ \A row \in assignments' :
                  \/ \E old \in assignments :
                         /\ Keeps(row, old)
                         /\ row = old \/ (AssignForms(c) /\ pcall[c].at = "update")
                  \/ Created(c, row)
           /\ \A old \in assignments :
                  \/ old \in assignments'
                  \/ AssignForms(c) /\ pcall[c].at = "update"
                  \/ UnassignForms(c) \/ SweepForms(c)
<1>0. TableOf(P!AssignmentRows, assignments)
  BY DEF TInv, TablesOK
<1>1. CASE assignments' = assignments
  BY <1>1 DEF Keeps
<1>2. CASE AssignForms(c)
  <2> DEFINE k == pcall[c]
  <2>1. CASE TablesSame
    BY <1>1, <2>1 DEF TablesSame
  <2>2. CASE k.at = "create"
    <3>1. PICK id :
              /\ Unheld(assignments, id)
              /\ assignments' = assignments \cup
                     {[id |-> id, actor |-> k.actor, scope |-> k.scope, role |-> k.role]}
      BY <1>2, <2>2 DEF AssignForms
    <3>2. k \in RoleCalls /\ k.op = "assign" /\ EndsAs(c, "done")
      BY <1>2, <2>2 DEF AssignForms
    <3> DEFINE r == [id |-> id, actor |-> k.actor, scope |-> k.scope, role |-> k.role]
    <3>3. r.id = id /\ r.actor = k.actor /\ r.scope = k.scope /\ r.role = k.role
      OBVIOUS
    <3>4. assignments' = assignments \cup {r}
      BY <3>1
    <3> HIDE DEF r
    <3>5. Created(c, r)
      BY <2>2, <3>1, <3>2, <3>3, <3>4 DEF Created
    <3> QED
      BY <3>4, <3>5 DEF Keeps
  <2>3. CASE k.at = "update"
    <3>1. assignments' = Update(assignments, k.row, "role", k.role)
      BY <1>2, <2>3 DEF AssignForms
    <3> HIDE DEF k
    <3>2. \A row \in assignments' : \E old \in assignments : Keeps(row, old)
      BY <1>0, <3>1, UpdatedRow
    <3> QED
      BY <1>2, <2>3, <3>2 DEF k
  <2> QED
    BY <1>2, <2>1, <2>2, <2>3 DEF AssignForms
<1>3. CASE UnassignForms(c)
  <2>1. assignments' \subseteq assignments
    BY <1>3 DEF UnassignForms, TablesSame, Delete
  <2> QED
    BY <1>3, <2>1 DEF Keeps
<1>4. CASE SweepForms(c)
  <2>1. assignments' \subseteq assignments
    BY <1>4 DEF SweepForms, TablesSame, Delete
  <2> QED
    BY <1>4, <2>1 DEF Keeps
<1>5. CASE QueryForms(c) \/ AddForms(c) \/ RevokeForms(c) \/ TablesSame \/ LeavesTables(c)
  <2>1. assignments' = assignments
    BY <1>5 DEF QueryForms, AddForms, RevokeForms, TablesSame, LeavesTables
  <2> QED
    BY <1>1, <2>1
<1> QED
  BY <1>2, <1>3, <1>4, <1>5 DEF Steps, PermissionForms

(* One client gives roles, so no member has two in one place. *)
LEMMA OneRoleKept ==
    ASSUME \A d \in Deployments : OneGiver(d), TInv, TInv', plan' = plan, OneRoleEach,
           NEW c \in Clients, Steps(c)
    PROVE  OneRoleEach'
<1>0. /\ UniqueIds(assignments)' /\ OneGiver(plan)
      /\ pcall \in [Clients -> PermissionCalls] /\ pcall[c] \in PermissionCalls
  BY DEF TInv, TablesOK, TableOf
<1>1. PICK w \in Clients : \A d \in Clients \ {w} : plan.duty[d] \cap Givers = {}
  BY <1>0 DEF OneGiver
<1>2. \A d \in Clients : /\ pcall[d].op = "assign" => d = w
                         /\ pcall'[d].op = "assign" => d = w
  BY <1>1 DEF TInv, PDuty
<1>3. ASSUME NEW i \in assignments', NEW j \in assignments', i.actor = j.actor, i.scope = j.scope
      PROVE  i = j
  <2>1. ASSUME NEW row \in assignments', Created(c, row)
        PROVE  \A old \in assignments : ~(old.actor = row.actor /\ old.scope = row.scope)
    BY <2>1 DEF Created, OneRoleEach, Holds
  <2>2. CASE Created(c, i) \/ Created(c, j)
    <3>1. CASE Created(c, i)
      <4>1. j \in assignments \/ j = i
        BY <3>1 DEF Created
      <4> QED
        BY <1>3, <2>1, <3>1, <4>1
    <3>2. CASE Created(c, j)
      <4>1. i \in assignments \/ i = j
        BY <3>2 DEF Created
      <4> QED
        BY <1>3, <2>1, <3>2, <4>1
    <3> QED
      BY <2>2, <3>1, <3>2
  <2>3. CASE ~Created(c, i) /\ ~Created(c, j)
    <3>1. PICK oi \in assignments : Keeps(i, oi)
      BY <2>3, AssignmentsMove
    <3>2. PICK oj \in assignments : Keeps(j, oj)
      BY <2>3, AssignmentsMove
    <3>3. oi = oj
      BY <1>3, <3>1, <3>2 DEF Keeps, OneRoleEach
    <3> QED
      BY <1>0, <3>1, <3>2, <3>3 DEF Keeps, UniqueIds
  <2> QED
    BY <2>2, <2>3
<1>4. ASSUME NEW d \in Clients, pcall'[d].op = "assign", pcall'[d].at = "create"
      PROVE  ~Holds(pcall[d].actor, pcall[d].scope)'
  <2>1. CASE d # c
    <3>1. pcall'[d] = pcall[d]
      BY <2>1, OverridesMove
    <3>2. \A row \in assignments' : ~Created(c, row)
      BY <1>2, <1>4, <2>1 DEF Created
    <3>3. ~Holds(pcall[d].actor, pcall[d].scope)
      BY <1>4, <3>1 DEF OneRoleEach
    <3> QED
      BY <3>1, <3>2, <3>3, AssignmentsMove DEF Holds, Keeps
  <2>2. CASE d = c /\ LeavesTables(c)
    <3>1. pcall'[c] = pcall[c] /\ assignments' = assignments
      BY <1>4, <2>2 DEF LeavesTables, Begins, TablesSame, P!Idle
    <3> QED
      BY <1>4, <2>2, <3>1 DEF OneRoleEach, Holds
  <2>3. CASE d = c /\ PermissionForms(c)
    <3>1. Same(pcall[c], pcall'[c])
      BY <2>3, CallMoves
    <3>2. pcall[c].op = "assign" /\ pcall[c] \in RoleCalls
      BY <1>0, <1>4, <2>3, <3>1, CallKinds DEF Same, RoleOps
    <3>3. AssignForms(c)
      <4>1. ~EndsAs(c, "threw")
        BY <1>4, <2>3, <3>2 DEF EndsAs, RoleCalls
      <4>2. ~QueryForms(c) /\ ~UnassignForms(c) /\ ~AddForms(c) /\ ~RevokeForms(c) /\ ~SweepForms(c)
        BY <3>2 DEF QueryForms, UnassignForms, AddForms, RevokeForms, SweepForms, QueryCalls,
           SweepCalls, P!Revokes, Adds, P!Queries, Sweeps
      <4> QED
        BY <2>3, <4>1, <4>2 DEF PermissionForms
    <3>4. ~EndsAs(c, "done") /\ ~EndsAs(c, "threw") /\ \A id : ~FoundAt(c, id, "update")
      BY <1>4, <2>3, <3>2 DEF EndsAs, FoundAt, RoleCalls
    <3>5. ~Holds(pcall[c].actor, pcall[c].scope) /\ assignments' = assignments
      BY <3>3, <3>4 DEF AssignForms, TablesSame
    <3>6. pcall'[c].actor = pcall[c].actor /\ pcall'[c].scope = pcall[c].scope
      BY <3>1, <3>2 DEF Same
    <3> QED
      BY <2>3, <3>5, <3>6 DEF Holds
  <2> QED
    BY <2>1, <2>2, <2>3 DEF Steps
<1> QED
  BY <1>3, <1>4 DEF OneRoleEach

(* A row keeps its place under a where clause. *)
LEMMA UnderKept ==
    ASSUME NEW where \in Wheres, NEW row, NEW old, Keeps(row, old)
    PROVE  Under(row, where) <=> Under(old, where)
BY DEF Wheres, Under, Keeps

(* A call that nobody undoes stays clear of what the others add. *)
LEMMA ClearingByOthers ==
    ASSUME TInv, NEW c \in Clients, Steps(c), NEW d \in Clients \ {c}, Clearing(d), ~Undone(d)
    PROVE  Clearing(d)'
<1> DEFINE k == pcall[d]
<1>0. pcall'[d] = k
  BY OverridesMove
<1>1. k \in PermissionCalls /\ pcall[c] \in PermissionCalls
  BY DEF TInv
<1>2. ~Undoes(pcall[c], k)
  BY DEF Undone
<1>3. ASSUME NEW row \in assignments',
             k.op \in Sweeps \/ (k.op = "unassign" /\ row.actor = k.actor /\ row.scope = k.scope)
      PROVE  \E old \in assignments : Keeps(row, old)
  <2>1. ~Created(c, row)
    <3>1. SUFFICES ASSUME Created(c, row) PROVE Undoes(pcall[c], k)
      BY <1>2
    <3>2. pcall[c].op = "assign" /\ pcall[c].at = "create"
          /\ row.actor = pcall[c].actor /\ row.scope = pcall[c].scope
      BY <3>1 DEF Created
    <3> HIDE DEF k
    <3> QED
      BY <1>3, <3>2 DEF Undoes, Sweeps
  <2> QED
    BY <2>1, AssignmentsMove
<1>4. ASSUME NEW row \in overrides', k.op \in Sweeps
      PROVE  row \in overrides
  <2>1. ASSUME pcall[c].op \in Adds, EndsAs(c, "done"), pcall[c] \in OverrideCalls,
               row \notin overrides
        PROVE  FALSE
    <3>1. pcall[c].at # "returned"
      <4>1. overrides' # overrides
        BY <2>1
      <4> QED
        BY <4>1 DEF Steps, LeavesTables, TablesSame, PermissionForms
    <3>2. Undoes(pcall[c], k)
      <4> HIDE DEF k
      <4> QED
        BY <1>4, <2>1, <3>1 DEF Undoes, Sweeps, Adds
    <3> QED
      BY <1>2, <3>2
  <2> QED
    BY <2>1, OverridesMove
<1>5. CASE k.op = "unassign"
  <2>1. k.at = "delete" =>
            \A row \in assignments' : row.actor = k.actor /\ row.scope = k.scope => row.id = k.row
    BY <1>3, <1>5 DEF Clearing, Keeps
  <2>2. P!Returned(d, "done") =>
            \A row \in assignments' : ~(row.actor = k.actor /\ row.scope = k.scope)
    BY <1>3, <1>5 DEF Clearing, Keeps, Holds
  <2> QED
    BY <1>0, <1>5, <2>1, <2>2 DEF Clearing, Sweeps, Holds, P!Returned
<1>6. CASE k.op \in Sweeps
  <2>1. k.where \in Wheres
    BY <1>1, <1>6, CallKinds DEF SweepCalls
  <2>2. \A row \in assignments' : Under(row, k.where) =>
            \E old \in assignments : old.id = row.id /\ Under(old, k.where)
    <3> HIDE DEF k
    <3> QED
      BY <1>3, <1>6, <2>1, UnderKept DEF Keeps
  <2>3. k.at = "unassigning" =>
            \A row \in assignments' : Under(row, k.where) => row.id \in k.found
    BY <1>6, <2>2 DEF Clearing
  <2>4. k.at = "lifting" =>
            /\ \A row \in assignments' : ~Under(row, k.where)
            /\ \A row \in overrides' : Under(row, k.where) => row.id \in k.found
    BY <1>4, <1>6, <2>2 DEF Clearing
  <2>5. P!Returned(d, "done") =>
            /\ \A row \in assignments' : ~Under(row, k.where)
            /\ \A row \in overrides' : ~Under(row, k.where)
    BY <1>4, <1>6, <2>2 DEF Clearing
  <2>6. k.op # "unassign"
    BY <1>6 DEF Sweeps
  <2>7. P!Returned(d, "done")' <=> P!Returned(d, "done")
    BY <1>0 DEF P!Returned
  <2> QED
    BY <1>0, <2>3, <2>4, <2>5, <2>6, <2>7 DEF Clearing
<1>7. CASE k.op \notin Sweeps \cup {"unassign"}
  BY <1>0, <1>7 DEF Clearing
<1> QED
  BY <1>5, <1>6, <1>7

(* unassign deletes the one role its member has there. *)
LEMMA UnassignClears ==
    ASSUME TInv, OneRoleEach, NEW c \in Clients, PermissionForms(c), pcall[c].op = "unassign",
           Clearing(c)
    PROVE  Clearing(c)'
<1> DEFINE k == pcall[c]
           l == pcall'[c]
<1>1. Same(k, l)
  BY CallMoves
<1>2. k \in RoleCalls /\ l \in RoleCalls /\ l.op = "unassign"
      /\ l.actor = k.actor /\ l.scope = k.scope
  <2>1. k \in RoleCalls
    BY CallKinds DEF TInv, RoleOps
  <2> QED
    BY <1>1, <2>1 DEF Same
<1>3. EndsAs(c, "threw") \/ UnassignForms(c)
  BY DEF PermissionForms, QueryForms, AssignForms, AddForms, RevokeForms, SweepForms, QueryCalls,
     OverrideCalls, SweepCalls, P!OverrideOps, P!Queries, Sweeps, P!Revokes, Adds
<1>4. SUFFICES /\ l.at = "delete" =>
                      \A row \in assignments' :
                          row.actor = k.actor /\ row.scope = k.scope => row.id = l.row
               /\ l.at = "returned" /\ l.out = "done" => ~Holds(k.actor, k.scope)'
  BY <1>2 DEF Clearing, Sweeps, P!Returned, Holds
<1>5. CASE EndsAs(c, "threw")
  BY <1>2, <1>5 DEF EndsAs, RoleCalls
<1>6. CASE k.at = "find" /\ ~Holds(k.actor, k.scope) /\ EndsAs(c, "done") /\ TablesSame
  <2>1. l.at = "returned"
    BY <1>2, <1>6 DEF EndsAs, RoleCalls
  <2>2. assignments' = assignments
    BY <1>6 DEF TablesSame
  <2>3. ~Holds(k.actor, k.scope)'
    BY <1>2, <1>6, <2>2 DEF Holds
  <2> QED
    BY <2>1, <2>3
<1>7. ASSUME TablesSame,
             NEW r \in assignments, r.actor = k.actor, r.scope = k.scope, FoundAt(c, r.id, "delete")
      PROVE  <1>4!1
  <2>1. l.at = "delete" /\ l.row = r.id
    BY <1>2, <1>7 DEF FoundAt, RoleCalls
  <2>2. \A row \in assignments' : row.actor = k.actor /\ row.scope = k.scope => row = r
    BY <1>7 DEF TablesSame, OneRoleEach
  <2> QED
    BY <2>1, <2>2
<1>8. CASE k.at = "delete" /\ EndsAs(c, "done") /\ assignments' = Delete(assignments, k.row)
  <2>1. l.at = "returned"
    BY <1>2, <1>8 DEF EndsAs, RoleCalls
  <2>2. \A row \in assignments : row.actor = k.actor /\ row.scope = k.scope => row.id = k.row
    BY <1>8 DEF Clearing
  <2>3. \A row \in assignments' : ~(row.actor = k.actor /\ row.scope = k.scope)
    BY <1>8, <2>2 DEF Delete
  <2>4. ~Holds(k.actor, k.scope)'
    BY <1>2, <2>3 DEF Holds
  <2> QED
    BY <2>1, <2>4
<1> QED
  BY <1>3, <1>5, <1>6, <1>7, <1>8 DEF UnassignForms

(* A sweep deletes all it has listed. *)
LEMMA SweepClears ==
    ASSUME TInv, NEW c \in Clients, PermissionForms(c), pcall[c].op \in Sweeps, Clearing(c)
    PROVE  Clearing(c)'
<1> DEFINE k == pcall[c]
           l == pcall'[c]
<1>1. Same(k, l)
  BY CallMoves
<1>2. k \in SweepCalls /\ l \in SweepCalls /\ l.op \in Sweeps /\ l.where = k.where
  <2>1. k \in SweepCalls
    BY CallKinds DEF TInv
  <2> QED
    BY <1>1, <2>1 DEF Same
<1>3. EndsAs(c, "threw") \/ SweepForms(c)
  BY DEF PermissionForms, QueryForms, AssignForms, UnassignForms, AddForms, RevokeForms, QueryCalls,
     OverrideCalls, RoleCalls, P!OverrideOps, P!Queries, Sweeps, RoleOps
<1>4. SUFFICES
          /\ l.at = "unassigning" =>
                 \A row \in assignments' : Under(row, k.where) => row.id \in l.found
          /\ l.at = "lifting" \/ (l.at = "returned" /\ l.out = "done") =>
                 \A row \in assignments' : ~Under(row, k.where)
          /\ l.at = "lifting" =>
                 \A row \in overrides' : Under(row, k.where) => row.id \in l.found
          /\ l.at = "returned" /\ l.out = "done" =>
                 \A row \in overrides' : ~Under(row, k.where)
  BY <1>2 DEF Clearing, Sweeps, P!Returned, Under
<1>5. CASE EndsAs(c, "threw")
  BY <1>2, <1>5 DEF EndsAs, SweepCalls
<1>6. CASE SweepForms(c)
  <2>1. CASE /\ k.at = "assignments" /\ TablesSame
             /\ l = [k EXCEPT !.at = "unassigning",
                        !.found = {row.id : row \in {r \in assignments : Under(r, k.where)}}]
    <3>1. l.at = "unassigning"
          /\ l.found = {row.id : row \in {r \in assignments : Under(r, k.where)}}
      BY <1>2, <2>1 DEF SweepCalls
    <3> HIDE DEF k, l
    <3> QED
      BY <2>1, <3>1 DEF TablesSame
  <2>2. ASSUME NEW id \in k.found, k.at = "unassigning", assignments' = Delete(assignments, id),
               l = [k EXCEPT !.found = @ \ {id}]
        PROVE  <1>4!1
    <3>1. l.at = "unassigning" /\ l.found = k.found \ {id}
      BY <1>2, <2>2 DEF SweepCalls
    <3>2. \A row \in assignments : Under(row, k.where) => row.id \in k.found
      BY <2>2 DEF Clearing
    <3> HIDE DEF k, l
    <3> QED
      BY <2>2, <3>1, <3>2 DEF Delete
  <2>3. CASE /\ k.at = "unassigning" /\ k.found = {} /\ TablesSame
             /\ l = [k EXCEPT !.at = "lifting",
                        !.found = {row.id : row \in {r \in overrides : Under(r, k.where)}}]
    <3>1. l.at = "lifting"
          /\ l.found = {row.id : row \in {r \in overrides : Under(r, k.where)}}
      BY <1>2, <2>3 DEF SweepCalls
    <3>2. \A row \in assignments : Under(row, k.where) => row.id \in k.found
      BY <2>3 DEF Clearing
    <3> HIDE DEF k, l
    <3> QED
      BY <2>3, <3>1, <3>2 DEF TablesSame
  <2>4. ASSUME NEW id \in k.found, k.at = "lifting", overrides' = Delete(overrides, id),
               assignments' = assignments, l = [k EXCEPT !.found = @ \ {id}]
        PROVE  <1>4!1
    <3>1. l.at = "lifting" /\ l.found = k.found \ {id}
      BY <1>2, <2>4 DEF SweepCalls
    <3>2. /\ \A row \in assignments : ~Under(row, k.where)
          /\ \A row \in overrides : Under(row, k.where) => row.id \in k.found
      BY <2>4 DEF Clearing
    <3> HIDE DEF k, l
    <3> QED
      BY <2>4, <3>1, <3>2 DEF Delete
  <2>5. CASE k.at = "lifting" /\ k.found = {} /\ EndsAs(c, "done") /\ TablesSame
    <3>1. l.at = "returned"
      BY <1>2, <2>5 DEF EndsAs, SweepCalls
    <3>2. /\ \A row \in assignments : ~Under(row, k.where)
          /\ \A row \in overrides : Under(row, k.where) => row.id \in k.found
      BY <2>5 DEF Clearing
    <3> HIDE DEF k, l
    <3> QED
      BY <2>5, <3>1, <3>2 DEF TablesSame
  <2> QED
    BY <1>6, <2>1, <2>2, <2>3, <2>4, <2>5 DEF SweepForms
<1> QED
  BY <1>3, <1>5, <1>6

(* Every step keeps the invariant of the revocations. *)
LEMMA CKept ==
    ASSUME \A d \in Deployments : Explicit(d) /\ OneGiver(d), TInv, CInv, Next
    PROVE  CInv'
<1>0. /\ TInv' /\ plan' = plan /\ Observe
      /\ \A d \in Deployments : Explicit(d) /\ OneGiver(d)
  BY NextMoves
<1>1. PICK c \in Clients : Steps(c)
  BY NextMoves DEF Steps
<1>2. OneRoleEach'
  BY <1>0, <1>1, OneRoleKept DEF CInv
<1>3. ASSUME NEW d \in Clients, calm'[d] PROVE ~Undone(d)' /\ Clearing(d)'
  <2>1. /\ pcall'[d] # P!Idle /\ (pcall[d] = P!Idle \/ calm[d])
        /\ ~\E e \in Clients \ {d} : Undoes(pcall'[e], pcall'[d])
    BY <1>0, <1>3, Observed
  <2>2. ~Undone(d)'
    BY <2>1 DEF Undone
  <2>3. Clearing(d)'
    <3>1. CASE d # c
      <4>1. calm[d]
        BY <1>1, <2>1, <3>1, OverridesMove
      <4> QED
        BY <1>1, <3>1, <4>1, ClearingByOthers DEF CInv
    <3>2. CASE d = c /\ Begins(c)
      BY <3>2 DEF Begins, Clearing, P!Returned
    <3>3. CASE d = c /\ LeavesTables(c) /\ ~Begins(c)
      <4>1. pcall'[c] = pcall[c] /\ TablesSame
        BY <2>1, <3>3 DEF LeavesTables
      <4>2. calm[c]
        BY <2>1, <3>3, <4>1
      <4>3. Clearing(c)
        BY <4>2 DEF CInv
      <4> QED
        BY <3>3, <4>1, <4>3 DEF Clearing, TablesSame, Holds, Under, P!Returned
    <3>4. CASE d = c /\ PermissionForms(c)
      <4>1. pcall[c] # P!Idle
        BY <3>4 DEF PermissionForms, P!Idle
      <4>2. Clearing(c)
        BY <2>1, <3>4, <4>1 DEF CInv
      <4>3. pcall'[c].op = pcall[c].op
        BY <3>4, CallMoves DEF Same
      <4>4. CASE pcall[c].op \notin Sweeps \cup {"unassign"}
        BY <3>4, <4>3, <4>4 DEF Clearing
      <4> QED
        BY <3>4, <4>2, <4>4, UnassignClears, SweepClears DEF CInv
    <3> QED
      BY <1>1, <3>1, <3>2, <3>3, <3>4 DEF Steps
  <2> QED
    BY <2>2, <2>3
<1>4. DOMAIN calm' = Clients
  BY <1>0, Observed
<1> QED
  BY <1>2, <1>3, <1>4 DEF CInv

(* At the start a member has one role in a place. *)
LEMMA OneRoleStart ==
    ASSUME \A d \in Deployments : OneGiver(d), Init
    PROVE  OneRoleEach
<1>1. /\ plan \in Deployments /\ OneGiver(plan) /\ assignments \in plan.assignments
      /\ pcall = [c \in Clients |-> P!Idle]
  BY DEF Init
<1> QED
  BY <1>1 DEF OneRoleEach, OneGiver, P!Idle

(* A stuttering step leaves one role. *)
LEMMA OneRoleStutter ==
    ASSUME OneRoleEach, assignments' = assignments, pcall' = pcall
    PROVE  OneRoleEach'
BY DEF OneRoleEach, Holds

(* After unassign the actor holds no role in the scope, and after revokeScope or
   revokeAll nothing is left of the scope or the actor, unless somebody added to
   it meanwhile (permission.ts 268-279, 445-480), where one client at a time
   gives roles (OneGiver): two could give one member two roles in one place. *)
THEOREM RevocationsDone ==
    ASSUME \A d \in Deployments : Explicit(d) /\ OneGiver(d)
    PROVE  Spec => []RevocationsHonoured
<1>1. Init => TInv /\ CInv
  <2>1. ASSUME Init PROVE CInv
    <3>1. calm = [c \in Clients |-> FALSE]
      BY <2>1 DEF Init
    <3> QED
      BY <2>1, <3>1, OneRoleStart DEF CInv
  <2> QED
    BY <2>1, InitTyped
<1>2. TInv /\ CInv /\ [Next]_vars => (TInv /\ CInv)'
  <2>1. CASE Next
    BY <2>1, TypedAlways, CKept
  <2>2. ASSUME CInv, UNCHANGED vars PROVE CInv'
    <3>1. OneRoleEach'
      BY <2>2, Idling, OneRoleStutter DEF CInv
    <3>2. \A c \in Clients : calm'[c] => ~Undone(c)' /\ Clearing(c)'
      BY <2>2, Idling DEF CInv, Undone, Clearing, Holds, Under, P!Returned
    <3> QED
      BY <2>2, <3>1, <3>2, Idling DEF CInv
  <2> QED
    BY <2>1, <2>2, TypedAlways
<1>3. TInv /\ CInv => RevocationsHonoured
  <2> SUFFICES ASSUME TInv, CInv, NEW c \in Clients, P!Returned(c, "done"), calm[c]
               PROVE  LET k == pcall[c]
                      IN  /\ k.op = "unassign" => FindsNone(assignments, P!AssignmentWhere(k))
                          /\ k.op \in {"revokeScope", "revokeAll"} =>
                                 FindsNone(assignments, k.where) /\ FindsNone(overrides, k.where)
    BY DEF RevocationsHonoured
  <2> DEFINE k == pcall[c]
  <2>1. k \in PermissionCalls /\ Clearing(c)
    BY DEF TInv, CInv
  <2>2. ASSUME k.op = "unassign" PROVE FindsNone(assignments, P!AssignmentWhere(k))
    <3>1. ~Holds(k.actor, k.scope)
      BY <2>1, <2>2 DEF Clearing
    <3>2. k.actor \in Members /\ k.scope \in AllScopes
      BY <2>1, <2>2, CallKinds DEF RoleOps, RoleCalls
    <3> HIDE DEF k
    <3> QED
      BY <3>1, <3>2, SelectsRole DEF FindsNone, FindMany, Holds
  <2>3. ASSUME k.op \in Sweeps
        PROVE  FindsNone(assignments, k.where) /\ FindsNone(overrides, k.where)
    <3>1. /\ \A row \in assignments : ~Under(row, k.where)
          /\ \A row \in overrides : ~Under(row, k.where)
      BY <2>1, <2>3 DEF Clearing
    <3>2. k.where \in Wheres
      BY <2>1, <2>3, CallKinds DEF SweepCalls
    <3> HIDE DEF k
    <3> QED
      BY <3>1, <3>2, SelectsUnder DEF FindsNone, FindMany
  <2> QED
    BY <2>2, <2>3 DEF Sweeps
<1> QED
  BY <1>1, <1>2, <1>3, PTL DEF Spec

-----------------------------------------------------------------------------
(* Answers: what a query has read, and what the policy said meanwhile. *)

(* The policy, by the parts a query reads one after the other. *)
LEMMA AllowedIs ==
    ASSUME NEW k, NEW a
    PROVE  /\ P!Allowed(k, a) \in BOOLEAN
           /\ P!Allowed(k, a) <=> /\ P!InRealm(k, a) /\ ~P!Has("deny", k, a)
                                  /\ P!Has("grant", k, a) \/ RoleHas(k, a)
BY DEF P!Allowed, P!InRealm, RoleHas, P!RoleAllows

(* What the policy says of an action asked about is recorded. *)
LEMMA InPolicy ==
    ASSUME NEW k, NEW i \in DOMAIN k.actions, NEW a, a = k.actions[i]
    PROVE  /\ P!Allowed(k, a) => <<a, TRUE>> \in Policy(k)
           /\ ~P!Allowed(k, a) => <<a, FALSE>> \in Policy(k)
<1>1. <<a, P!Allowed(k, a)>> \in Policy(k)
  BY DEF Policy
<1>2. P!Allowed(k, a) \in BOOLEAN
  BY AllowedIs
<1> QED
  BY <1>1, <1>2

(* What the history records of a step, for the queries. *)
LEMMA Seeing ==
    ASSUME Observe
    PROVE  /\ DOMAIN seen' = Clients
           /\ \A c \in Clients : pcall'[c].op \in P!Queries =>
                  /\ pcall'[c].at = "returned" => seen'[c] = seen[c]
                  /\ pcall'[c].at # "returned" =>
                         /\ seen[c] \subseteq seen'[c]
                         /\ \A k : k = pcall'[c] => Policy(k)' \subseteq seen'[c]
<1>1. seen' = [c \in Clients |->
           IF pcall'[c].op \notin P!Queries THEN {}
           ELSE IF pcall'[c].at = "returned" THEN seen[c]
           ELSE seen[c] \cup Policy(pcall[c])']
  BY DEF Observe
<1>2. ASSUME NEW c \in Clients, pcall'[c].op \in P!Queries, pcall'[c].at # "returned",
             NEW k, k = pcall'[c]
      PROVE  Policy(k)' \subseteq seen'[c]
  <2>1. Policy(k)' = Policy(pcall[c])'
    BY <1>2 DEF Policy, P!Allowed, P!Has
  <2>2. seen'[c] = seen[c] \cup Policy(pcall[c])'
    BY <1>1, <1>2
  <2> QED
    BY <2>1, <2>2
<1>3. ASSUME NEW c \in Clients, pcall'[c].op \in P!Queries
      PROVE  /\ pcall'[c].at = "returned" => seen'[c] = seen[c]
             /\ pcall'[c].at # "returned" => seen[c] \subseteq seen'[c]
  BY <1>1, <1>3
<1> QED
  BY <1>1, <1>2, <1>3

(* What the others write meanwhile is theirs to write. *)
LEMMA OthersWrite ==
    ASSUME TInv, NEW c \in Clients, Steps(c), NEW d \in Clients \ {c}
    PROVE  /\ "deny" \notin Others(d) =>
                  \A row \in overrides' : row.type = "deny" => row \in overrides
           /\ "grant" \notin Others(d) =>
                  \A row \in overrides' : row.type = "grant" => row \in overrides
           /\ Others(d) \cap Givers = {} => assignments' \subseteq assignments
           /\ Others(d) \cap RoleChanges = {} => assignments \subseteq assignments'
<1> DEFINE k == pcall[c]
<1>1. /\ k \in PermissionCalls /\ PDuty(c) /\ plan.duty[c] \subseteq Others(d)
  BY DEF TInv, Others
<1>2. /\ k.op \in Adds => k.op \in Others(d)
      /\ k.op = "assign" => Others(d) \cap Givers # {}
      /\ k.op \in Sweeps => k.op \in Others(d)
      /\ k.op = "unassign" => Others(d) \cap {"unassign", "removeMember"} # {}
  BY <1>1 DEF PDuty, Adds, P!OverrideOps
<1>3. ASSUME NEW row \in overrides', row \notin overrides
      PROVE  k.op \in Adds /\ row.type = k.op
  <2>1. k.op \in Adds /\ row.type = P!TypeOf(k.op)
    BY <1>3, OverridesMove
  <2> QED
    BY <2>1 DEF Adds, P!TypeOf
<1>4. ASSUME Others(d) \cap Givers = {} PROVE assignments' \subseteq assignments
  <2>1. k.op # "assign"
    BY <1>2, <1>4
  <2> QED
    BY <2>1, AssignmentsMove DEF Created, AssignForms
<1>5. ASSUME Others(d) \cap RoleChanges = {} PROVE assignments \subseteq assignments'
  <2>1. k.op # "assign" /\ k.op \notin Sweeps /\ k.op # "unassign"
    BY <1>2, <1>5 DEF RoleChanges
  <2>2. ~AssignForms(c) /\ ~UnassignForms(c) /\ ~SweepForms(c)
    BY <2>1 DEF AssignForms, UnassignForms, SweepForms, SweepCalls
  <2> QED
    BY <2>2, AssignmentsMove
<1> QED
  BY <1>2, <1>3, <1>4, <1>5

(* A query that waits stays right whatever the others write. *)
LEMMA AskingByOthers ==
    ASSUME TInv, NEW c \in Clients, Steps(c), Observe, plan' = plan, NEW d \in Clients \ {c},
           pcall[d].op \in P!Queries, pcall[d].at # "returned", Asking(d)
    PROVE  Asking(d)'
<1>1. PICK k : k = pcall[d]
  OBVIOUS
<1>2. pcall'[d] = k
  BY <1>1, OverridesMove
<1>3. /\ seen[d] \subseteq seen'[d] /\ Policy(k)' \subseteq seen'[d]
  BY <1>1, <1>2, Seeing
<1>4. PICK a : a = Head(k.left)
  OBVIOUS
<1>5. /\ "deny" \notin Others(d) /\ ~P!Has("deny", k, a) => ~P!Has("deny", k, a)'
      /\ "grant" \notin Others(d) /\ ~P!Has("grant", k, a) => ~P!Has("grant", k, a)'
      /\ Others(d) \cap Givers = {} /\ ~RoleHas(k, a) => ~RoleHas(k, a)'
      /\ Others(d) \cap RoleChanges = {} /\ RoleHas(k, a) => RoleHas(k, a)'
  BY OthersWrite DEF P!Has, RoleHas
<1>6. Others(d)' = Others(d)
  BY DEF Others
<1>7. k.at \in {"grant", "role"} =>
          /\ P!InRealm(k, a)
          /\ "deny" \notin Others(d)' => ~P!Has("deny", k, a)'
          /\ Others(d)' \cap ({"grant"} \cup Givers) = {} /\ (P!Has("grant", k, a)' \/ RoleHas(k, a)')
                  => <<a, TRUE>> \in seen'[d]
  BY <1>1, <1>3, <1>4, <1>5, <1>6 DEF Asking
<1>8. k.at = "role" =>
          /\ "grant" \notin Others(d)' => ~P!Has("grant", k, a)'
          /\ Others(d)' \cap RoleChanges = {} /\ ~RoleHas(k, a)' => <<a, FALSE>> \in seen'[d]
  BY <1>1, <1>3, <1>4, <1>5, <1>6 DEF Asking
<1>9. LET done == Len(k.actions) - Len(k.left)
      IN  /\ Len(k.left) \in 1 .. Len(k.actions)
          /\ \A i \in 1 .. Len(k.left) : k.left[i] = k.actions[done + i]
          /\ \A i \in 1 .. done : <<k.actions[i], k.op = "canAll">> \in seen'[d]
  BY <1>1, <1>3 DEF Asking
<1>10. /\ Policy(pcall[d])' = Policy(k)'
       /\ P!InRealm(pcall'[d], a) <=> P!InRealm(k, a)
       /\ P!Has("deny", pcall[d], Head(pcall[d].left))' <=> P!Has("deny", k, a)'
       /\ P!Has("grant", pcall[d], Head(pcall[d].left))' <=> P!Has("grant", k, a)'
       /\ RoleHas(pcall[d], Head(pcall[d].left))' <=> RoleHas(k, a)'
  BY <1>2, <1>4 DEF Policy, P!Has, RoleHas, P!Allowed, P!InRealm
<1> QED
  BY <1>2, <1>3, <1>4, <1>7, <1>8, <1>9, <1>10 DEF Asking

(* While a query waits for one of its three reads, with the tables as they are. *)
LEMMA AskingStays ==
    ASSUME TablesSame, Observe, plan' = plan, NEW d \in Clients, pcall'[d] = pcall[d],
           pcall[d].op \in P!Queries, pcall[d].at # "returned", Asking(d)
    PROVE  Asking(d)'
<1>1. PICK k : k = pcall[d]
  OBVIOUS
<1>2. pcall'[d] = k
  BY <1>1
<1>3. seen[d] \subseteq seen'[d] /\ Policy(k)' \subseteq seen'[d]
  BY <1>1, <1>2, Seeing
<1>4. PICK a : a = Head(k.left)
  OBVIOUS
<1>5. /\ P!Has("deny", k, a)' <=> P!Has("deny", k, a)
      /\ P!Has("grant", k, a)' <=> P!Has("grant", k, a)
      /\ RoleHas(k, a)' <=> RoleHas(k, a)
  BY DEF TablesSame, P!Has, RoleHas
<1>6. Others(d)' = Others(d)
  BY DEF Others
<1>7. /\ Policy(pcall[d])' = Policy(k)'
      /\ P!InRealm(pcall'[d], a) <=> P!InRealm(k, a)
      /\ P!Has("deny", pcall[d], Head(pcall[d].left))' <=> P!Has("deny", k, a)'
      /\ P!Has("grant", pcall[d], Head(pcall[d].left))' <=> P!Has("grant", k, a)'
      /\ RoleHas(pcall[d], Head(pcall[d].left))' <=> RoleHas(k, a)'
  BY <1>2, <1>4 DEF Policy, P!Has, RoleHas, P!Allowed, P!InRealm
<1>8. k.at \in {"grant", "role"} =>
          /\ P!InRealm(k, a)
          /\ "deny" \notin Others(d)' => ~P!Has("deny", k, a)'
          /\ Others(d)' \cap ({"grant"} \cup Givers) = {} /\ (P!Has("grant", k, a)' \/ RoleHas(k, a)')
                  => <<a, TRUE>> \in seen'[d]
  BY <1>1, <1>3, <1>4, <1>5, <1>6 DEF Asking
<1>9. k.at = "role" =>
          /\ "grant" \notin Others(d)' => ~P!Has("grant", k, a)'
          /\ Others(d)' \cap RoleChanges = {} /\ ~RoleHas(k, a)' => <<a, FALSE>> \in seen'[d]
  BY <1>1, <1>3, <1>4, <1>5, <1>6 DEF Asking
<1>10. LET done == Len(k.actions) - Len(k.left)
       IN  /\ Len(k.left) \in 1 .. Len(k.actions)
           /\ \A i \in 1 .. Len(k.left) : k.left[i] = k.actions[done + i]
           /\ \A i \in 1 .. done : <<k.actions[i], k.op = "canAll">> \in seen'[d]
  BY <1>1, <1>3 DEF Asking
<1> QED
  BY <1>2, <1>3, <1>4, <1>7, <1>8, <1>9, <1>10 DEF Asking

(* A query has been told nothing wrong when it starts. *)
LEMMA AskingStarts ==
    ASSUME TInv', Observe, NEW d \in Clients, Begins(d), pcall'[d].op \in P!Queries
    PROVE  pcall'[d].at # "returned" /\ Asking(d)'
<1>1. PICK k : k = pcall'[d]
  OBVIOUS
<1>2. k \in PermissionCalls /\ k.op \in P!Queries
  BY <1>1 DEF TInv
<1>3. k \in QueryCalls
  BY <1>2, CallKinds
<1>4. k.at = "deny" /\ k.left = k.actions
  BY <1>1, <1>3 DEF Begins, QueryCalls
<1>5. Policy(k)' \subseteq seen'[d]
  BY <1>1, <1>2, <1>4, Seeing
<1>6. Len(k.left) \in 1 .. Len(k.actions) /\ Len(k.actions) - Len(k.left) = 0
  <2> DEFINE s == k.actions
  <2>1. s \in Seq(Actions) /\ s # <<>>
    BY <1>3 DEF QueryCalls, Questions
  <2> HIDE DEF s
  <2>2. Len(s) \in Nat /\ Len(s) # 0
    BY <2>1, EmptySeq
  <2>3. Len(s) \in 1 .. Len(s) /\ Len(s) - Len(s) = 0
    BY <2>2
  <2> QED
    BY <1>4, <2>3 DEF s
<1>7. /\ \A i \in 1 .. Len(k.left) :
             k.left[i] = k.actions[(Len(k.actions) - Len(k.left)) + i]
      /\ \A i \in 1 .. (Len(k.actions) - Len(k.left)) :
             <<k.actions[i], k.op = "canAll">> \in seen'[d]
  BY <1>4, <1>6
<1>8. Policy(pcall[d])' = Policy(k)'
  BY <1>1 DEF Policy, P!Allowed, P!Has
<1>9. k.at \notin {"grant", "role", "returned"}
  BY <1>4
<1> QED
  BY <1>1, <1>5, <1>6, <1>7, <1>8, <1>9 DEF Asking

(* Where in the question the action stands that is decided next. *)
LEMMA NextAsked ==
    ASSUME NEW c \in Clients, pcall[c] \in QueryCalls, Asking(c)
    PROVE  LET k == pcall[c]
               i == Len(k.actions) - Len(k.left) + 1
           IN  /\ i \in 1 .. Len(k.actions) /\ i \in DOMAIN k.actions
               /\ DOMAIN k.actions = 1 .. Len(k.actions)
               /\ Len(k.actions) \in Nat /\ Len(k.left) \in Nat
               /\ Head(k.left) = k.actions[i]
<1> DEFINE s == pcall[c].actions
           t == pcall[c].left
<1>1. s \in Seq(Actions) /\ t \in Seq(Actions) /\ t # <<>>
  BY DEF QueryCalls, Questions
<1>2. Len(t) \in 1 .. Len(s) /\ \A i \in 1 .. Len(t) : t[i] = s[(Len(s) - Len(t)) + i]
  BY DEF Asking
<1> HIDE DEF s, t
<1>3. Len(s) \in Nat /\ Len(t) \in Nat /\ DOMAIN s = 1 .. Len(s) /\ Head(t) = t[1]
  BY <1>1
<1>4. t[1] = s[(Len(s) - Len(t)) + 1]
  BY <1>2, <1>3
<1>5. Len(s) - Len(t) + 1 \in 1 .. Len(s)
  BY <1>2, <1>3
<1> QED
  BY <1>3, <1>4, <1>5 DEF s, t

(* What the query concludes from the reads it has made. *)
Concludes(c, b) ==
    LET k == pcall[c]
        a == Head(k.left)
    IN  \/ k.at = "deny" /\ (P!InRealm(k, a) => P!Has("deny", k, a)) /\ ~b
        \/ k.at = "grant" /\ P!Has("grant", k, a) /\ b
        \/ k.at = "role" /\ ~RoleHas(k, a) /\ ~b
        \/ k.at = "role" /\ RoleHas(k, a) /\ b

(* OneKind, of the client that asks. *)
LEMMA KindOfOthers ==
    ASSUME TInv, OneKind(plan), NEW c \in Clients, pcall[c].op \in P!Queries
    PROVE  /\ "deny" \notin Others(c) \/ Others(c) \cap ({"grant"} \cup Givers) = {}
           /\ "grant" \notin Others(c) \/ Others(c) \cap RoleChanges = {}
<1>1. PDuty(c)
  BY DEF TInv
<1>2. plan.duty[c] \cap ({"canAll", "canAny"} \cup Changes) # {}
  BY <1>1 DEF PDuty, P!Queries, Sweeps
<1> QED
  BY <1>2 DEF OneKind, Others

(* What a query concludes the policy said at some instant of the call. *)
LEMMA SeenConcluded ==
    ASSUME TInv, OneKind(plan), NEW c \in Clients, pcall[c].op \in P!Queries,
           Asking(c), NEW b \in BOOLEAN, Concludes(c, b)
    PROVE  <<Head(pcall[c].left), b>> \in seen[c]
<1>1. PICK k : k = pcall[c]
  OBVIOUS
<1>2. PICK a : a = Head(k.left)
  OBVIOUS
<1>3. k \in QueryCalls
  <2>1. k \in PermissionCalls
    BY <1>1 DEF TInv
  <2> QED
    BY <1>1, <2>1, CallKinds
<1>4. \E i \in DOMAIN k.actions : a = k.actions[i]
  BY <1>1, <1>2, <1>3, NextAsked
<1>5. /\ P!Allowed(k, a) => <<a, TRUE>> \in Policy(k)
      /\ ~P!Allowed(k, a) => <<a, FALSE>> \in Policy(k)
  BY <1>4, InPolicy
<1>6. Policy(k) \subseteq seen[c]
  BY <1>1 DEF Asking
<1>7. P!Allowed(k, a) <=> /\ P!InRealm(k, a) /\ ~P!Has("deny", k, a)
                          /\ P!Has("grant", k, a) \/ RoleHas(k, a)
  BY AllowedIs
<1>8. k.at \in {"grant", "role"} =>
          /\ P!InRealm(k, a)
          /\ "deny" \notin Others(c) => ~P!Has("deny", k, a)
          /\ Others(c) \cap ({"grant"} \cup Givers) = {} /\ (P!Has("grant", k, a) \/ RoleHas(k, a))
                 => <<a, TRUE>> \in seen[c]
  BY <1>1, <1>2 DEF Asking
<1>9. k.at = "role" =>
          /\ "grant" \notin Others(c) => ~P!Has("grant", k, a)
          /\ Others(c) \cap RoleChanges = {} /\ ~RoleHas(k, a) => <<a, FALSE>> \in seen[c]
  BY <1>1, <1>2 DEF Asking
<1>10. CASE ~b
  <2>1. ~P!Allowed(k, a) \/ <<a, FALSE>> \in seen[c]
    BY <1>1, <1>2, <1>7, <1>9, <1>10, KindOfOthers DEF Concludes
  <2> QED
    BY <1>1, <1>2, <1>5, <1>6, <1>10, <2>1
<1>11. CASE b
  <2>1. P!Allowed(k, a) \/ <<a, TRUE>> \in seen[c]
    BY <1>1, <1>2, <1>7, <1>8, <1>11, KindOfOthers DEF Concludes
  <2> QED
    BY <1>1, <1>2, <1>5, <1>6, <1>11, <2>1
<1> QED
  BY <1>10, <1>11

(* A step of a query concludes, or goes on to the next read of the same action. *)
LEMMA QueryMoves ==
    ASSUME TInv, OneRoleEach, NEW c \in Clients, QueryForms(c)
    PROVE  LET k == pcall[c]
               a == Head(k.left)
           IN  /\ TablesSame
               /\ \/ \E b \in BOOLEAN : Concludes(c, b) /\ DecidesTo(c, b)
                  \/ /\ k.at = "deny" /\ P!InRealm(k, a) /\ ~P!Has("deny", k, a)
                     /\ pcall'[c] = [k EXCEPT !.at = "grant"]
                  \/ /\ k.at = "grant" /\ ~P!Has("grant", k, a)
                     /\ pcall'[c] = [k EXCEPT !.at = "role"]
<1> DEFINE k == pcall[c]
           a == Head(k.left)
<1>1. TablesSame
  BY DEF QueryForms
<1>2. CASE k.at = "deny" /\ (P!InRealm(k, a) => P!Has("deny", k, a)) /\ DecidesTo(c, FALSE)
  BY <1>1, <1>2 DEF Concludes
<1>3. CASE k.at = "grant" /\ P!Has("grant", k, a) /\ DecidesTo(c, TRUE)
  BY <1>1, <1>3 DEF Concludes
<1>4. CASE k.at = "role" /\ ~Holds(k.actor, k.scope) /\ DecidesTo(c, FALSE)
  <2>1. ~RoleHas(k, a)
    BY <1>4 DEF Holds, RoleHas
  <2> QED
    BY <1>1, <1>4, <2>1 DEF Concludes
<1>5. ASSUME k.at = "role", NEW row \in assignments, row.actor = k.actor, row.scope = k.scope,
             DecidesTo(c, P!RoleAllows(row.role, a))
      PROVE  \E b \in BOOLEAN : Concludes(c, b) /\ DecidesTo(c, b)
  <2>1. P!RoleAllows(row.role, a) \in BOOLEAN
    BY DEF P!RoleAllows
  <2>2. RoleHas(k, a) <=> P!RoleAllows(row.role, a)
    BY <1>5 DEF RoleHas, OneRoleEach
  <2>3. Concludes(c, P!RoleAllows(row.role, a))
    BY <1>5, <2>1, <2>2 DEF Concludes
  <2> QED
    BY <1>5, <2>1, <2>3
<1> QED
  BY <1>1, <1>2, <1>3, <1>4, <1>5 DEF QueryForms

(* A query stays right as it goes on to its next read. *)
LEMMA AskingGoesOn ==
    ASSUME TInv, TablesSame, Observe, plan' = plan, NEW c \in Clients, Asking(c),
           pcall[c] \in QueryCalls,
           LET k == pcall[c]
               a == Head(k.left)
           IN  \/ /\ k.at = "deny" /\ P!InRealm(k, a) /\ ~P!Has("deny", k, a)
                  /\ pcall'[c] = [k EXCEPT !.at = "grant"]
               \/ /\ k.at = "grant" /\ ~P!Has("grant", k, a)
                  /\ pcall'[c] = [k EXCEPT !.at = "role"]
    PROVE  Asking(c)'
<1>1. PICK k : k = pcall[c]
  OBVIOUS
<1>2. PICK m : m = pcall'[c]
  OBVIOUS
<1>3. PICK a : a = Head(k.left)
  OBVIOUS
<1>4. /\ k \in QueryCalls
      /\ \/ k.at = "deny" /\ P!InRealm(k, a) /\ ~P!Has("deny", k, a) /\ m = [k EXCEPT !.at = "grant"]
         \/ k.at = "grant" /\ ~P!Has("grant", k, a) /\ m = [k EXCEPT !.at = "role"]
  BY <1>1, <1>2, <1>3
<1>5. /\ m.op = k.op /\ m.actor = k.actor /\ m.actions = k.actions /\ m.left = k.left
      /\ m.scope = k.scope /\ m.resource = k.resource
      /\ m.at = IF k.at = "deny" THEN "grant" ELSE "role"
      /\ m.at # "returned" /\ m.op \in P!Queries
  BY <1>4 DEF QueryCalls
<1>6. seen[c] \subseteq seen'[c] /\ Policy(m)' \subseteq seen'[c]
  BY <1>2, <1>5, Seeing
<1>7. /\ P!Has("deny", m, a)' <=> P!Has("deny", k, a)
      /\ P!Has("grant", m, a)' <=> P!Has("grant", k, a)
      /\ RoleHas(m, a)' <=> RoleHas(k, a)
      /\ P!InRealm(m, a) <=> P!InRealm(k, a)
  BY <1>5 DEF TablesSame, P!Has, RoleHas, P!InRealm
<1>8. Others(c)' = Others(c)
  BY DEF Others
<1>9. /\ P!Allowed(k, a) => <<a, TRUE>> \in seen[c]
      /\ ~P!Allowed(k, a) => <<a, FALSE>> \in seen[c]
  <2>1. \E i \in DOMAIN k.actions : a = k.actions[i]
    BY <1>1, <1>3, <1>4, NextAsked
  <2>2. Policy(k) \subseteq seen[c]
    BY <1>1 DEF Asking
  <2> QED
    BY <2>1, <2>2, InPolicy
<1>10. P!Allowed(k, a) <=> /\ P!InRealm(k, a) /\ ~P!Has("deny", k, a)
                           /\ P!Has("grant", k, a) \/ RoleHas(k, a)
  BY AllowedIs
<1>11. k.at = "grant" =>
           /\ P!InRealm(k, a)
           /\ "deny" \notin Others(c) => ~P!Has("deny", k, a)
           /\ Others(c) \cap ({"grant"} \cup Givers) = {} /\ (P!Has("grant", k, a) \/ RoleHas(k, a))
                  => <<a, TRUE>> \in seen[c]
  BY <1>1, <1>3 DEF Asking
<1>12. /\ P!InRealm(m, a)
       /\ "deny" \notin Others(c)' => ~P!Has("deny", m, a)'
       /\ Others(c)' \cap ({"grant"} \cup Givers) = {} /\ (P!Has("grant", m, a)' \/ RoleHas(m, a)')
              => <<a, TRUE>> \in seen'[c]
  BY <1>4, <1>6, <1>7, <1>8, <1>9, <1>10, <1>11
<1>13. m.at = "role" =>
           /\ "grant" \notin Others(c)' => ~P!Has("grant", m, a)'
           /\ Others(c)' \cap RoleChanges = {} /\ ~RoleHas(m, a)' => <<a, FALSE>> \in seen'[c]
  BY <1>4, <1>5, <1>6, <1>7, <1>9, <1>10
<1>14. LET done == Len(m.actions) - Len(m.left)
       IN  /\ Len(m.left) \in 1 .. Len(m.actions)
           /\ \A i \in 1 .. Len(m.left) : m.left[i] = m.actions[done + i]
           /\ \A i \in 1 .. done : <<m.actions[i], m.op = "canAll">> \in seen'[c]
  BY <1>1, <1>5, <1>6 DEF Asking
<1>15. /\ Policy(pcall[c])' = Policy(m)'
       /\ P!InRealm(pcall'[c], a) <=> P!InRealm(m, a)
       /\ P!Has("deny", pcall[c], Head(pcall[c].left))' <=> P!Has("deny", m, a)'
       /\ P!Has("grant", pcall[c], Head(pcall[c].left))' <=> P!Has("grant", m, a)'
       /\ RoleHas(pcall[c], Head(pcall[c].left))' <=> RoleHas(m, a)'
  BY <1>2, <1>3, <1>5 DEF Policy, P!Has, RoleHas, P!Allowed, P!InRealm
<1>16. Head(pcall'[c].left) = a
  BY <1>2, <1>3, <1>5
<1> QED
  BY <1>2, <1>6, <1>12, <1>13, <1>14, <1>15, <1>16 DEF Asking

(* canAll goes on after a yes, canAny after a no. *)
LEMMA AskingGoesNext ==
    ASSUME TInv, OneKind(plan), Observe, NEW c \in Clients, Asking(c), pcall[c] \in QueryCalls,
           NEW b \in BOOLEAN, Concludes(c, b), b = (pcall[c].op = "canAll"),
           Len(pcall[c].left) # 1,
           pcall'[c] = [pcall[c] EXCEPT !.at = "deny", !.left = Tail(@)]
    PROVE  pcall'[c].at = "deny" /\ Asking(c)'
<1>1. PICK k : k = pcall[c]
  OBVIOUS
<1>2. PICK m : m = pcall'[c]
  OBVIOUS
<1>3. PICK s : s = k.actions
  OBVIOUS
<1>4. PICK t : t = k.left
  OBVIOUS
<1>5. k \in QueryCalls /\ k.op \in P!Queries /\ m = [k EXCEPT !.at = "deny", !.left = Tail(t)]
  BY <1>1, <1>2, <1>4 DEF QueryCalls
<1>6. /\ m.op = k.op /\ m.actor = k.actor /\ m.actions = s /\ m.left = Tail(t)
      /\ m.scope = k.scope /\ m.resource = k.resource /\ m.at = "deny" /\ m.op \in P!Queries
  BY <1>3, <1>5 DEF QueryCalls
<1>7. seen[c] \subseteq seen'[c] /\ Policy(m)' \subseteq seen'[c]
  BY <1>2, <1>6, Seeing
<1>8. <<Head(t), k.op = "canAll">> \in seen[c]
  <2>1. pcall[c].op \in P!Queries
    BY <1>1, <1>5
  <2>2. <<Head(pcall[c].left), b>> \in seen[c]
    BY <2>1, SeenConcluded
  <2> QED
    BY <2>2, <1>1, <1>4
<1>9. /\ s \in Seq(Actions) /\ t \in Seq(Actions) /\ t # <<>> /\ Len(t) # 1
      /\ Tail(t) \in Seq(Actions) /\ Len(Tail(t)) = Len(t) - 1
  <2>1. s \in Seq(Actions) /\ t \in Seq(Actions) /\ t # <<>> /\ Len(t) # 1
    BY <1>1, <1>3, <1>4, <1>5 DEF QueryCalls, Questions
  <2> QED
    BY <2>1, HeadTailProperties
<1>10. /\ Len(t) \in 1 .. Len(s)
       /\ \A i \in 1 .. Len(t) : t[i] = s[(Len(s) - Len(t)) + i]
       /\ \A i \in 1 .. (Len(s) - Len(t)) : <<s[i], k.op = "canAll">> \in seen[c]
  BY <1>1, <1>3, <1>4 DEF Asking
<1>11. Len(s) \in Nat /\ Len(t) \in Nat /\ Len(t) > 1
  BY <1>9, <1>10
<1>12. \A i \in 1 .. Len(Tail(t)) : Tail(t)[i] = t[i + 1]
  BY <1>9
<1>13. Head(t) = s[(Len(s) - Len(t)) + 1]
  BY <1>9, <1>10, <1>11
<1>14. Len(s) - Len(Tail(t)) = Len(s) - Len(t) + 1
  BY <1>9, <1>11
<1>15. Len(Tail(t)) \in 1 .. Len(s)
  BY <1>9, <1>10, <1>11
<1>16. \A i \in 1 .. Len(Tail(t)) : Tail(t)[i] = s[(Len(s) - Len(Tail(t))) + i]
  <2> SUFFICES ASSUME NEW i \in 1 .. Len(Tail(t))
               PROVE  Tail(t)[i] = s[(Len(s) - Len(Tail(t))) + i]
    OBVIOUS
  <2>1. i \in Nat /\ i + 1 \in 1 .. Len(t)
    BY <1>9, <1>11
  <2>2. Tail(t)[i] = t[i + 1] /\ t[i + 1] = s[(Len(s) - Len(t)) + (i + 1)]
    BY <1>10, <1>12, <2>1
  <2>3. (Len(s) - Len(Tail(t))) + i = (Len(s) - Len(t)) + (i + 1)
    BY <1>11, <1>14, <2>1
  <2> QED
    BY <2>2, <2>3
<1>17. \A i \in 1 .. (Len(s) - Len(Tail(t))) : <<s[i], k.op = "canAll">> \in seen'[c]
  <2> SUFFICES ASSUME NEW i \in 1 .. (Len(s) - Len(Tail(t)))
               PROVE  <<s[i], k.op = "canAll">> \in seen'[c]
    OBVIOUS
  <2>1. i \in 1 .. (Len(s) - Len(t)) \/ i = (Len(s) - Len(t)) + 1
    BY <1>11, <1>14
  <2> QED
    BY <1>7, <1>8, <1>10, <1>13, <2>1
<1>18. /\ Policy(pcall[c])' = Policy(m)'
       /\ pcall'[c].left = Tail(t) /\ pcall'[c].actions = s /\ pcall'[c].op = k.op
       /\ pcall'[c].at = "deny"
  BY <1>2, <1>6 DEF Policy, P!Allowed, P!Has
<1> QED
  BY <1>7, <1>15, <1>16, <1>17, <1>18 DEF Asking

(* The answer k has given is one the policy gave: s is what it said meanwhile. *)
TrueAnswer(k, s) ==
    (k.op \in P!Queries /\ k.at = "returned" /\ k.out \in {"yes", "no"}) =>
        LET answer == k.out = "yes"
        IN  IF (k.op = "canAll") <=> answer
            THEN \A i \in DOMAIN k.actions : <<k.actions[i], answer>> \in s
            ELSE \E i \in DOMAIN k.actions : <<k.actions[i], answer>> \in s

(* AnswerSeen, client by client. *)
LEMMA AnswersAre ==
    /\ AnswerSeen <=> \A c \in Clients : TrueAnswer(pcall[c], seen[c])
    /\ AnswerSeen' <=> \A c \in Clients : TrueAnswer(pcall'[c], seen'[c])
BY DEF AnswerSeen, TrueAnswer

(* The answer of a query is one the policy gave. *)
LEMMA AnswerGiven ==
    ASSUME TInv, OneKind(plan), NEW c \in Clients, Asking(c), pcall[c] \in QueryCalls,
           NEW b \in BOOLEAN, Concludes(c, b),
           (b = (pcall[c].op = "canAll")) => Len(pcall[c].left) = 1
    PROVE  TrueAnswer([pcall[c] EXCEPT !.at = "returned", !.out = IF b THEN "yes" ELSE "no"],
                      seen[c])
<1>1. PICK k : k = pcall[c]
  OBVIOUS
<1>2. PICK s : s = k.actions
  OBVIOUS
<1>3. PICK t : t = k.left
  OBVIOUS
<1>4. k \in QueryCalls /\ k.op \in P!Queries
  BY <1>1 DEF QueryCalls
<1> DEFINE m == [k EXCEPT !.at = "returned", !.out = IF b THEN "yes" ELSE "no"]
<1>5. m.op = k.op /\ m.actions = s /\ (m.out = "yes") = b
  BY <1>2, <1>4 DEF QueryCalls
<1>6. <<Head(t), b>> \in seen[c]
  <2>1. <<Head(pcall[c].left), b>> \in seen[c]
    BY <1>1, <1>4, SeenConcluded
  <2> QED
    BY <2>1, <1>1, <1>3
<1>7. /\ Len(s) \in Nat /\ Len(t) \in Nat /\ DOMAIN s = 1 .. Len(s)
      /\ (Len(s) - Len(t)) + 1 \in DOMAIN s
      /\ Head(t) = s[(Len(s) - Len(t)) + 1]
  BY <1>1, <1>2, <1>3, NextAsked
<1>8. CASE b = (k.op = "canAll")
  <2>1. Len(t) = 1
    BY <1>1, <1>3, <1>8
  <2>2. \A i \in 1 .. (Len(s) - Len(t)) : <<s[i], b>> \in seen[c]
    BY <1>1, <1>2, <1>3, <1>8 DEF Asking
  <2>3. \A i \in DOMAIN s : i \in 1 .. (Len(s) - Len(t)) \/ i = (Len(s) - Len(t)) + 1
    BY <1>7, <2>1
  <2>4. \A i \in DOMAIN s : <<s[i], b>> \in seen[c]
    BY <1>6, <1>7, <2>2, <2>3
  <2>5. (m.op = "canAll") <=> (m.out = "yes")
    BY <1>5, <1>8
  <2> HIDE DEF m
  <2> QED
    BY <1>1, <1>5, <2>4, <2>5 DEF TrueAnswer, m
<1>9. CASE b # (k.op = "canAll")
  <2>1. ~((m.op = "canAll") <=> (m.out = "yes"))
    BY <1>5, <1>9
  <2>2. \E i \in DOMAIN s : <<s[i], b>> \in seen[c]
    BY <1>6, <1>7
  <2> HIDE DEF m
  <2> QED
    BY <1>1, <1>5, <2>1, <2>2 DEF TrueAnswer, m
<1> QED
  BY <1>8, <1>9

(* A step of a query keeps it right, or answers. *)
LEMMA OwnQuery ==
    ASSUME TInv, OneKind(plan), OneRoleEach, Observe, plan' = plan, NEW c \in Clients,
           QueryForms(c), pcall[c].at # "returned", Asking(c)
    PROVE  \/ pcall'[c].at # "returned" /\ Asking(c)'
           \/ pcall'[c].at = "returned" /\ TrueAnswer(pcall'[c], seen'[c])
<1> DEFINE k == pcall[c]
           a == Head(k.left)
           Reads == \/ /\ k.at = "deny" /\ P!InRealm(k, a) /\ ~P!Has("deny", k, a)
                       /\ pcall'[c] = [k EXCEPT !.at = "grant"]
                    \/ /\ k.at = "grant" /\ ~P!Has("grant", k, a)
                       /\ pcall'[c] = [k EXCEPT !.at = "role"]
           Held == pcall'[c].at # "returned" /\ Asking(c)'
           Given == pcall'[c].at = "returned" /\ TrueAnswer(pcall'[c], seen'[c])
<1>2. pcall[c] \in QueryCalls /\ k \in QueryCalls /\ k.op \in P!Queries
  BY DEF QueryForms, QueryCalls
<1>3. ASSUME NEW b \in BOOLEAN, Concludes(c, b), DecidesTo(c, b)
      PROVE  Held \/ Given
  <2>1. CASE ((b = (k.op = "canAll")) => Len(k.left) = 1)
    <3>1. pcall'[c] = [k EXCEPT !.at = "returned", !.out = IF b THEN "yes" ELSE "no"]
      BY <1>2, <1>3, <2>1 DEF DecidesTo, P!Queries
    <3>2. pcall'[c].at = "returned" /\ pcall'[c].op \in P!Queries
      BY <1>2, <3>1 DEF QueryCalls
    <3>3. seen'[c] = seen[c]
      BY <3>2, Seeing
    <3>4. TrueAnswer([k EXCEPT !.at = "returned", !.out = IF b THEN "yes" ELSE "no"], seen[c])
      <4>1. (b = (pcall[c].op = "canAll")) => Len(pcall[c].left) = 1
        BY <2>1
      <4> QED
        BY <1>2, <1>3, <4>1, AnswerGiven
    <3> QED
      BY <3>1, <3>2, <3>3, <3>4
  <2>2. CASE b = (k.op = "canAll") /\ Len(k.left) # 1
    <3>1. pcall'[c] = [k EXCEPT !.at = "deny", !.left = Tail(@)]
      BY <1>2, <1>3, <2>2 DEF DecidesTo, P!Queries
    <3>2. /\ b = (pcall[c].op = "canAll") /\ Len(pcall[c].left) # 1
          /\ pcall'[c] = [pcall[c] EXCEPT !.at = "deny", !.left = Tail(@)]
      BY <2>2, <3>1
    <3>3. pcall'[c].at = "deny" /\ Asking(c)'
      BY <1>2, <1>3, <3>2, AskingGoesNext
    <3> QED
      BY <3>3
  <2> QED
    BY <2>1, <2>2
<1>4. ASSUME Reads PROVE Held
  <2>1. pcall'[c].at # "returned"
    BY <1>2, <1>4 DEF QueryCalls
  <2>2. TablesSame
    BY QueryMoves
  <2>3. Asking(c)'
    BY <1>2, <1>4, <2>2, AskingGoesOn
  <2> QED
    BY <2>1, <2>3
<1>5. CASE \E b \in BOOLEAN : Concludes(c, b) /\ DecidesTo(c, b)
  BY <1>3, <1>5
<1>6. CASE ~\E b \in BOOLEAN : Concludes(c, b) /\ DecidesTo(c, b)
  <2>1. Reads
    BY <1>6, QueryMoves
  <2> QED
    BY <1>4, <2>1
<1>7. Held \/ Given
  BY <1>5, <1>6
<1> QED
  BY <1>7

Asker(k) == k.op \in P!Queries /\ k.at # "returned"

(* The steps of the others keep the queries and the answers right. *)
LEMMA AnswersByOthers ==
    ASSUME TInv, AInv, NEW c \in Clients, Steps(c), Observe, plan' = plan, NEW d \in Clients \ {c}
    PROVE  /\ Asker(pcall'[d]) => Asking(d)'
           /\ TrueAnswer(pcall'[d], seen'[d])
<1>1. pcall'[d] = pcall[d] /\ TrueAnswer(pcall[d], seen[d])
  BY OverridesMove, AnswersAre DEF AInv
<1>2. ASSUME Asker(pcall'[d]) PROVE Asking(d)'
  <2>1. pcall[d].op \in P!Queries /\ pcall[d].at # "returned" /\ Asking(d)
    BY <1>1, <1>2 DEF Asker, AInv
  <2> QED
    BY <2>1, AskingByOthers
<1>3. CASE pcall[d].op \in P!Queries /\ pcall[d].at = "returned"
  <2>1. seen'[d] = seen[d]
    BY <1>1, <1>3, Seeing
  <2> QED
    BY <1>1, <1>2, <2>1
<1>4. CASE ~(pcall[d].op \in P!Queries /\ pcall[d].at = "returned")
  <2>1. TrueAnswer(pcall'[d], seen'[d])
    BY <1>1, <1>4 DEF TrueAnswer
  <2> QED
    BY <1>2, <2>1
<1> QED
  BY <1>3, <1>4

(* So do its own. *)
LEMMA AnswersByMe ==
    ASSUME TInv, TInv', AInv, OneKind(plan), NEW c \in Clients, Steps(c), Observe, plan' = plan
    PROVE  /\ Asker(pcall'[c]) => Asking(c)'
           /\ TrueAnswer(pcall'[c], seen'[c])
<1>1. /\ pcall[c] \in PermissionCalls /\ OneRoleEach
      /\ TrueAnswer(pcall[c], seen[c])
      /\ Asker(pcall[c]) => Asking(c)
  BY AnswersAre DEF TInv, AInv, Asker
<1>2. CASE PermissionForms(c) /\ QueryForms(c)
  <2>1. /\ pcall[c].op \in P!Queries /\ pcall[c].at # "returned" /\ Asking(c)
    BY <1>1, <1>2 DEF PermissionForms, QueryForms, QueryCalls, Asker
  <2>2. \/ pcall'[c].at # "returned" /\ Asking(c)'
        \/ pcall'[c].at = "returned" /\ TrueAnswer(pcall'[c], seen'[c])
    BY <1>1, <1>2, <2>1, OwnQuery
  <2>3. CASE pcall'[c].at # "returned" /\ Asking(c)'
    BY <2>3 DEF Asker, TrueAnswer
  <2>4. CASE pcall'[c].at = "returned" /\ TrueAnswer(pcall'[c], seen'[c])
    BY <2>4 DEF Asker
  <2> QED
    BY <2>2, <2>3, <2>4
<1>3. CASE PermissionForms(c) /\ EndsAs(c, "threw")
  <2>1. pcall'[c].at = "returned" /\ pcall'[c].out = "threw"
    <3>1. pcall[c].at \notin {"idle", "returned"} /\ pcall[c] # P!Idle
      BY <1>1, <1>3, CallKinds DEF PermissionForms
    <3>2. pcall'[c] = [pcall[c] EXCEPT !.at = "returned", !.out = "threw"]
      BY <1>3 DEF EndsAs
    <3> QED
      BY <1>1, <3>1, <3>2
         DEF PermissionCalls, OverrideCalls, RoleCalls, QueryCalls, SweepCalls
  <2> QED
    BY <2>1 DEF Asker, TrueAnswer
<1>4. CASE /\ PermissionForms(c) /\ ~QueryForms(c) /\ ~EndsAs(c, "threw")
  <2>1. pcall[c] \notin QueryCalls
    BY <1>4 DEF PermissionForms, AssignForms, UnassignForms, AddForms, RevokeForms, SweepForms,
       RoleCalls, OverrideCalls, QueryCalls, SweepCalls, P!Queries, P!OverrideOps, RoleOps, Sweeps
  <2>2. pcall[c].op \notin P!Queries
    BY <1>1, <2>1, CallKinds
  <2>3. pcall'[c].op = pcall[c].op
    BY <1>4, CallMoves DEF Same
  <2> QED
    BY <2>2, <2>3 DEF Asker, TrueAnswer
<1>5. CASE LeavesTables(c) /\ pcall'[c] = pcall[c]
  <2>1. ASSUME Asker(pcall'[c]) PROVE Asking(c)'
    <3>1. /\ pcall[c].op \in P!Queries /\ pcall[c].at # "returned" /\ Asking(c)
      BY <1>1, <1>5, <2>1 DEF Asker
    <3> QED
      BY <1>5, <3>1, AskingStays DEF LeavesTables
  <2>2. CASE pcall[c].op \in P!Queries /\ pcall[c].at = "returned"
    <3>1. seen'[c] = seen[c]
      BY <1>5, <2>2, Seeing
    <3> QED
      BY <1>1, <1>5, <2>1, <3>1
  <2>3. CASE ~(pcall[c].op \in P!Queries /\ pcall[c].at = "returned")
    <3>1. TrueAnswer(pcall'[c], seen'[c])
      BY <1>5, <2>3 DEF TrueAnswer
    <3> QED
      BY <2>1, <3>1
  <2> QED
    BY <2>2, <2>3
<1>6. CASE pcall'[c] = P!Idle
  BY <1>6 DEF Asker, TrueAnswer, P!Idle, P!Queries
<1>7. CASE Begins(c)
  <2>1. CASE pcall'[c].op \in P!Queries
    <3>1. pcall'[c].at # "returned" /\ Asking(c)'
      BY <1>7, <2>1, AskingStarts
    <3> QED
      BY <3>1 DEF TrueAnswer
  <2>2. CASE pcall'[c].op \notin P!Queries
    BY <2>2 DEF Asker, TrueAnswer
  <2> QED
    BY <2>1, <2>2
<1> QED
  BY <1>2, <1>3, <1>4, <1>5, <1>6, <1>7 DEF Steps, LeavesTables

(* Every step keeps the invariant of the answers. *)
LEMMA AKept ==
    ASSUME \A d \in Deployments : Explicit(d) /\ OneGiver(d) /\ OneKind(d), TInv, AInv, Next
    PROVE  AInv'
<1>0. /\ TInv' /\ plan' = plan /\ Observe /\ OneKind(plan)
      /\ \A d \in Deployments : Explicit(d) /\ OneGiver(d)
  BY NextMoves DEF TInv
<1>1. PICK c \in Clients : Steps(c)
  BY NextMoves DEF Steps
<1>2. OneRoleEach'
  BY <1>0, <1>1, OneRoleKept DEF AInv
<1>3. ASSUME NEW d \in Clients
      PROVE  (Asker(pcall'[d]) => Asking(d)') /\ TrueAnswer(pcall'[d], seen'[d])
  <2>1. CASE d = c
    BY <1>0, <1>1, <2>1, AnswersByMe
  <2>2. CASE d # c
    BY <1>0, <1>1, <2>2, AnswersByOthers
  <2> QED
    BY <2>1, <2>2
<1>4. DOMAIN seen' = Clients
  BY <1>0, Seeing
<1>5. AnswerSeen'
  BY <1>3, AnswersAre
<1>6. \A d \in Clients : pcall'[d].op \in P!Queries /\ pcall'[d].at # "returned" => Asking(d)'
  BY <1>3 DEF Asker
<1> QED
  BY <1>2, <1>4, <1>5, <1>6 DEF AInv

(* So does a stuttering step. *)
LEMMA AStutter ==
    ASSUME AInv, UNCHANGED vars
    PROVE  AInv'
<1>1. OneRoleEach'
  BY Idling, OneRoleStutter DEF AInv
<1>2. ASSUME NEW c \in Clients, Asker(pcall'[c]) PROVE Asking(c)'
  <2>1. pcall'[c] = pcall[c] /\ seen'[c] = seen[c] /\ Asking(c)
    BY <1>2, Idling DEF AInv, Asker
  <2>2. /\ Policy(pcall[c])' = Policy(pcall[c])
        /\ P!Has("deny", pcall[c], Head(pcall[c].left))'
               <=> P!Has("deny", pcall[c], Head(pcall[c].left))
        /\ P!Has("grant", pcall[c], Head(pcall[c].left))'
               <=> P!Has("grant", pcall[c], Head(pcall[c].left))
        /\ RoleHas(pcall[c], Head(pcall[c].left))' <=> RoleHas(pcall[c], Head(pcall[c].left))
        /\ Others(c)' = Others(c)
    BY Idling DEF Policy, P!Allowed, P!Has, RoleHas, Others
  <2> QED
    BY <2>1, <2>2 DEF Asking
<1>3. AnswerSeen'
  BY Idling DEF AInv, AnswerSeen
<1> QED
  BY <1>1, <1>2, <1>3, Idling DEF AInv, Asker

(* It holds at the start. *)
LEMMA AStart ==
    ASSUME \A d \in Deployments : OneGiver(d), Init
    PROVE  AInv
<1>1. pcall = [c \in Clients |-> P!Idle] /\ seen = [c \in Clients |-> {}]
  BY DEF Init
<1> QED
  BY <1>1, OneRoleStart DEF AInv, AnswerSeen, P!Idle, P!Queries

(* can, canAll and canAny answer what the documented policy gave at some instant
   of the call, although they read the deny overrides, the grants and the role
   at three (permission.ts 170-195, 389-413), as long as what the others write
   meanwhile is of one kind (OneKind); the tables keep their types, and
   listForMember leaves out what was deleted before it began. *)
THEOREM AnswersSeen ==
    ASSUME \A d \in Deployments : Explicit(d) /\ OneGiver(d) /\ OneKind(d)
    PROVE  Spec => []AnswersTrue
<1>1. Init => TInv /\ AInv
  BY InitTyped, AStart
<1>2. TInv /\ AInv /\ [Next]_vars => (TInv /\ AInv)'
  BY TypedAlways, AKept, AStutter
<1>3. TInv /\ AInv => AnswersTrue
  <2> SUFFICES ASSUME TInv, AInv PROVE TypeOK /\ AnswerSeen /\ DeletedUnlisted
    BY DEF AnswersTrue
  <2>1. TypeOK
    <3>1. TablesOK
      BY DEF TInv
    <3> QED
      BY <3>1 DEF TablesOK, TableOf, UniqueIds, TypeOK
  <2>2. DeletedUnlisted
    BY DEF TInv, Asks, DeletedUnlisted
  <2> QED
    BY <2>1, <2>2 DEF AInv
<1> QED
  BY <1>1, <1>2, <1>3, PTL DEF Spec

-----------------------------------------------------------------------------
(* Changes: the organisation is written after an answer of yes. *)

(* A change gets past the check by an answer of yes. *)
Passes(c) ==
    LET k == ocall[c]
        m == ocall'[c]
    IN  m.op \in Changes /\ m.at \in {"find", "write"} /\ m.member # NoMember =>
            \/ m = k
            \/ /\ k.op \in Changes /\ k.member # NoMember
               /\ k.at = "find" \/ (k.at = "check" /\ P!Returned(c, "yes"))
Past(c) ==
    /\ ocall' = [ocall EXCEPT ![c] = ocall'[c]] /\ Passes(c)
    /\ organisations' # organisations /\ ocall[c].op \in Changes => ocall[c].at = "write"

(* No step takes a change past its check otherwise. *)
LEMMA ChangePasses ==
    ASSUME TInv, NEW c \in Clients, ClientStep(c) \/ OrganisationStep(c) \/ ServiceStep(c)
    PROVE  Past(c)
<1> DEFINE k == ocall[c]
<1>0. ocall \in [Clients -> OrganisationCalls] /\ k \in OrganisationCalls
  BY DEF TInv
<1>1. ASSUME ocall' = ocall, organisations' = organisations PROVE Past(c)
  BY <1>0, <1>1 DEF Past, Passes
<1>2. ASSUME NEW o, ocall' = [ocall EXCEPT ![c] = o],
             o.op \in Changes => o.at \notin {"find", "write"} \/ o.member = NoMember,
             organisations' # organisations /\ k.op \in Changes => k.at = "write"
      PROVE  Past(c)
  <2>1. ocall'[c] = o
    BY <1>0, <1>2
  <2> QED
    BY <1>2, <2>1 DEF Past, Passes
<1>3. ASSUME Ends(c), organisations' # organisations /\ k.op \in Changes => k.at = "write"
      PROVE  Past(c)
  BY <1>2, <1>3 DEF Ends, Idle, Changes
<1>4. ASSUME NEW at, Goes(c, at), organisations' = organisations,
             k.op \in Changes =>
                 k.at = "find" \/ (k.at = "check" /\ P!Returned(c, "yes"))
      PROVE  Past(c)
  <2> DEFINE o == [k EXCEPT !.at = at]
  <2>1. ocall' = [ocall EXCEPT ![c] = o] /\ ocall'[c] = o
    BY <1>0, <1>4 DEF Goes
  <2>2. o.op = k.op /\ (k.op \in Changes => o.member = k.member)
    BY <1>0, OCallKinds
       DEF FacadeCalls, CreateCalls, ChangeCalls, OrganisationCalls, Idle, ListCalls
  <2> HIDE DEF o
  <2> QED
    BY <1>4, <2>1, <2>2 DEF Past, Passes
<1>5. CASE ClientStep(c)
  <2>1. CASE StartCreate(c)
    <3>1. PICK slug : ocall' = [ocall EXCEPT ![c] = CreateCall(slug)]
      BY <2>1 DEF StartCreate
    <3>2. CreateCall(slug).op \notin Changes /\ organisations' = organisations
      BY <2>1 DEF StartCreate, CreateCall, Changes, OnlyOrganisation
    <3> QED
      BY <1>2, <3>1, <3>2
  <2>2. CASE StartChange(c)
    <3>1. PICK op, org, slug, member : ocall' = [ocall EXCEPT ![c] = ChangeCall(op, org, slug, member)]
      BY <2>2 DEF StartChange
    <3>2. ChangeCall(op, org, slug, member).at = "load" /\ organisations' = organisations
      BY <2>2 DEF StartChange, ChangeCall, OnlyOrganisation
    <3> QED
      BY <1>2, <3>1, <3>2
  <2>3. CASE StartMember(c)
    <3>1. organisations' = organisations
      BY <2>3 DEF StartMember, BeginAddMember, BeginRemoveMember, BeginAssignRole, BeginList, Stored0
    <3>2. \/ ocall' = ocall
          \/ \E op, at, org, member, role :
                 /\ op \in FacadeOps /\ ocall' = [ocall EXCEPT ![c] = MemberCall(op, at, org, member, role)]
          \/ \E member : ocall' = [ocall EXCEPT ![c] = ListCall(member)]
      BY <2>3 DEF StartMember, BeginAddMember, BeginRemoveMember, BeginAssignRole, BeginList, FacadeOps
    <3>3. ASSUME NEW op \in FacadeOps, NEW at, NEW org, NEW member, NEW role,
                 ocall' = [ocall EXCEPT ![c] = MemberCall(op, at, org, member, role)]
          PROVE  Past(c)
      <4>1. MemberCall(op, at, org, member, role).op \notin Changes
        BY DEF MemberCall, FacadeOps, Changes
      <4> QED
        BY <1>2, <3>1, <3>3, <4>1
    <3>4. ASSUME NEW member, ocall' = [ocall EXCEPT ![c] = ListCall(member)] PROVE Past(c)
      <4>1. ListCall(member).op \notin Changes
        BY DEF ListCall, Changes
      <4> QED
        BY <1>2, <3>1, <3>4, <4>1
    <3> QED
      BY <1>1, <3>1, <3>2, <3>3, <3>4
  <2>4. CASE StartOverride(c) \/ StartRole(c) \/ StartQuery(c) \/ StartSweep(c) \/ Answered(c)
    <3>1. OnlyPermission
      BY <2>4, Zenon DEF StartOverride, StartRole, StartQuery, StartSweep, Answered
    <3> QED
      BY <1>1, <3>1 DEF OnlyPermission, ovars
  <2> QED
    BY <1>5, <2>1, <2>2, <2>3, <2>4, Zenon DEF ClientStep
<1>6. CASE ServiceStep(c)
  BY <1>1, <1>6, Zenon DEF ServiceStep, ovars
<1>7. CASE OrganisationStep(c)
  <2>1. CASE CreateFind(c)
    BY <1>3, <1>4, <2>1 DEF CreateFind, At, Stored0, Changes
  <2>2. CASE CreateInsert(c)
    BY <1>3, <2>2 DEF CreateInsert, At, Changes
  <2>3. CASE LoadMissing(c) \/ Listed(c) \/ Rejected(c) \/ Left(c) \/ Assigned(c)
    <3>1. Ends(c) /\ Stored0
      BY <2>3, Zenon DEF LoadMissing, Listed, Rejected, Left, Assigned
    <3> QED
      BY <1>3, <3>1 DEF Stored0
  <2>4. CASE Load(c)
    <3>1. /\ k.op \in Changes /\ Stored0
          /\ ocall' = [ocall EXCEPT ![c].loaded = SlugOf(k.org),
                 ![c].at = IF k.member = NoMember THEN AfterCheck(c, SlugOf(k.org)) ELSE "check"]
      BY <2>4 DEF Load
    <3>2. k \in ChangeCalls
      BY <1>0, <3>1, OCallKinds
    <3> DEFINE o == [k EXCEPT !.loaded = SlugOf(k.org),
                     !.at = IF k.member = NoMember THEN AfterCheck(c, SlugOf(k.org)) ELSE "check"]
    <3>3. ocall' = [ocall EXCEPT ![c] = o]
      BY <1>0, <3>1
    <3>4. o.at = "check" \/ o.member = NoMember
      BY <3>2 DEF ChangeCalls
    <3> HIDE DEF o
    <3> QED
      BY <1>2, <3>1, <3>3, <3>4 DEF Stored0
  <2>5. CASE Checked(c)
    <3>1. CASE P!Returned(c, "yes")
      <4>1. Goes(c, AfterCheck(c, ocall[c].loaded)) /\ organisations' = organisations /\ k.at = "check"
        BY <2>5, <3>1 DEF Checked, Stored0
      <4> QED
        BY <1>4, <3>1, <4>1
    <3>2. CASE ~P!Returned(c, "yes")
      BY <1>3, <2>5, <3>2 DEF Checked, Stored0
    <3> QED
      BY <3>1, <3>2
  <2>6. CASE UpdateFind(c)
    BY <1>3, <1>4, <2>6 DEF UpdateFind, At, Stored0
  <2>7. CASE UpdateWrite(c) \/ DeleteWrite(c)
    <3>1. Ends(c) /\ k.at = "write"
      BY <2>7 DEF UpdateWrite, DeleteWrite, At
    <3> QED
      BY <1>3, <3>1
  <2>8. CASE Joined(c) \/ Unassigned(c)
    <3>1. k.op \notin Changes /\ Stored0
      BY <2>8 DEF Joined, Unassigned, At, Changes
    <3>2. Ends(c) \/ \E at : Goes(c, at)
      BY <2>8 DEF Joined, Unassigned
    <3> QED
      BY <1>3, <1>4, <3>1, <3>2 DEF Stored0
  <2>9. CASE GroupsListed(c) \/ ListOne(c)
    <3>1. k.op = "listForMember" /\ Stored0
      BY <2>9 DEF GroupsListed, ListOne, At
    <3>2. k \in ListCalls
      BY <1>0, <3>1, OCallKinds
    <3>3. \/ Ends(c)
          \/ \E left : ocall' = [ocall EXCEPT ![c] = [k EXCEPT !.at = "orgs", !.left = left]]
          \/ \E left, listed :
                 ocall' = [ocall EXCEPT ![c] = [k EXCEPT !.left = left, !.listed = listed]]
      <4>1. CASE GroupsListed(c)
        <5>1. \/ Ends(c)
              \/ ocall' = [ocall EXCEPT ![c].at = "orgs", ![c].left = mcall[c].groups]
          BY <4>1 DEF GroupsListed
        <5>2. [ocall EXCEPT ![c].at = "orgs", ![c].left = mcall[c].groups]
                  = [ocall EXCEPT ![c] = [k EXCEPT !.at = "orgs", !.left = mcall[c].groups]]
          BY <1>0, <3>2 DEF ListCalls
        <5> QED
          BY <5>1, <5>2
      <4>2. CASE ListOne(c)
        <5>1. PICK id : ocall' = [ocall EXCEPT ![c].left = @ \ {id}, ![c].listed = @ \cup Lists(c, id)]
          BY <4>2 DEF ListOne
        <5>2. ocall' = [ocall EXCEPT ![c] =
                            [k EXCEPT !.left = k.left \ {id}, !.listed = k.listed \cup Lists(c, id)]]
          BY <1>0, <3>2, <5>1 DEF ListCalls
        <5> QED
          BY <5>2
      <4> QED
        BY <2>9, <4>1, <4>2
    <3>4. /\ \A left : [k EXCEPT !.at = "orgs", !.left = left].op \notin Changes
          /\ \A left, listed : [k EXCEPT !.left = left, !.listed = listed].op \notin Changes
      BY <3>2 DEF ListCalls, Changes
    <3>5. ASSUME NEW o, ocall' = [ocall EXCEPT ![c] = o], o.op \notin Changes PROVE Past(c)
      BY <1>2, <3>1, <3>5 DEF Stored0
    <3> HIDE DEF k
    <3>6. CASE Ends(c)
      BY <1>3, <3>1, <3>6 DEF Stored0
    <3>7. ASSUME NEW left,
                 ocall' = [ocall EXCEPT ![c] = [k EXCEPT !.at = "orgs", !.left = left]]
          PROVE  Past(c)
      BY <3>4, <3>5, <3>7
    <3>8. ASSUME NEW left, NEW listed,
                 ocall' = [ocall EXCEPT ![c] = [k EXCEPT !.left = left, !.listed = listed]]
          PROVE  Past(c)
      BY <3>4, <3>5, <3>8
    <3> QED
      BY <3>3, <3>6, <3>7, <3>8
  <2> QED
    BY <1>7, <2>1, <2>2, <2>3, <2>4, <2>5, <2>6, <2>7, <2>8, <2>9, Zenon DEF OrganisationStep
<1> QED
  BY <1>5, <1>6, <1>7

(* What the history records of a step, for the changes. *)
LEMMA VouchedIs ==
    ASSUME Observe
    PROVE  /\ DOMAIN vouched' = Clients
           /\ \A c \in Clients : vouched'[c] <=>
                  /\ ocall'[c] # Idle
                  /\ vouched[c] \/ <<"update", TRUE>> \in seen'[c] \/ <<"delete", TRUE>> \in seen'[c]
<1>1. vouched' = [c \in Clients |->
           /\ ocall'[c] # Idle
           /\ vouched[c] \/ <<"update", TRUE>> \in seen'[c] \/ <<"delete", TRUE>> \in seen'[c]]
  BY DEF Observe
<1> QED
  BY <1>1

(* The check of a change, answered yes, is vouched for. *)
LEMMA CheckVouched ==
    ASSUME TInv', AnswerSeen', Observe, NEW c \in Clients, ocall'[c].op \in Changes,
           ocall'[c].at = "check", P!Returned(c, "yes")'
    PROVE  vouched'[c]
<1>1. PICK k : k = pcall'[c]
  OBVIOUS
<1>2. PICK op \in Changes : op = ocall'[c].op
  OBVIOUS
<1>3. k.op = "canAll" /\ k.actions = <<op>> /\ k.at = "returned" /\ k.out = "yes"
  BY <1>1, <1>2 DEF TInv, Asks, P!Returned
<1>4. TrueAnswer(k, seen'[c])
  BY <1>1, AnswersAre
<1>5. \A i \in DOMAIN k.actions : <<k.actions[i], TRUE>> \in seen'[c]
  BY <1>3, <1>4 DEF TrueAnswer, P!Queries
<1>6. 1 \in DOMAIN <<op>> /\ <<op>>[1] = op
  OBVIOUS
<1>7. <<op, TRUE>> \in seen'[c]
  BY <1>3, <1>5, <1>6
<1>8. ocall'[c] # Idle
  BY <1>2 DEF Idle, Changes
<1> QED
  BY <1>2, <1>7, <1>8, VouchedIs DEF Changes

(* Every step keeps the invariant of the changes. *)
LEMMA VKept ==
    ASSUME TInv, TInv', AnswerSeen', VInv, Next
    PROVE  VInv'
<1>1. PICK c \in Clients : ClientStep(c) \/ OrganisationStep(c) \/ ServiceStep(c)
  BY Zenon DEF Next
<1>2. Observe /\ Past(c)
  BY <1>1, ChangePasses DEF Next
<1>3. ASSUME NEW d \in Clients, ocall'[d].op \in Changes, ocall'[d].member # NoMember,
             ocall'[d].at \in {"find", "write"}
      PROVE  vouched'[d]
  <2>1. ocall'[d] # Idle
    BY <1>3 DEF Idle, Changes
  <2>2. \/ ocall'[d] = ocall[d]
        \/ /\ ocall[d].op \in Changes /\ ocall[d].member # NoMember
           /\ ocall[d].at = "find" \/ (ocall[d].at = "check" /\ P!Returned(d, "yes"))
    <3>1. CASE d = c
      BY <1>2, <1>3, <3>1 DEF Past, Passes
    <3>2. CASE d # c
      BY <1>2, <3>2 DEF Past, TInv
    <3> QED
      BY <3>1, <3>2
  <2>3. vouched[d]
    BY <1>3, <2>2 DEF VInv, Vouched
  <2> QED
    BY <1>2, <2>1, <2>3, VouchedIs
<1>4. \A d \in Clients : Vouched(d)'
  BY <1>2, <1>3, CheckVouched DEF Vouched
<1> QED
  BY <1>2, <1>4, VouchedIs DEF VInv

(* Who writes an organisation ends a change past its check. *)
LEMMA WriteVouched ==
    ASSUME TInv, VInv, Next, NEW d \in Clients, organisations' # organisations,
           ocall[d].op \in Changes, ocall'[d] = Idle, ocall[d].member # NoMember
    PROVE  vouched[d]
<1>1. PICK c \in Clients : ClientStep(c) \/ OrganisationStep(c) \/ ServiceStep(c)
  BY Zenon DEF Next
<1>2. Past(c)
  BY <1>1, ChangePasses
<1>3. d = c
  <2>1. ocall[d] # ocall'[d]
    BY DEF Idle, Changes
  <2> QED
    BY <1>2, <2>1 DEF Past, TInv
<1>4. ocall[d].at = "write"
  BY <1>2, <1>3 DEF Past
<1> QED
  BY <1>4 DEF VInv, Vouched

(* An organisation is updated or deleted on a member's behalf only when the
   policy allowed that member to at some instant of the call
   (createOrganisationService.ts 153-216), under the same conditions. *)
THEOREM ChangesVouched ==
    ASSUME \A d \in Deployments : Explicit(d) /\ OneGiver(d) /\ OneKind(d)
    PROVE  Spec => ChangeVouched
<1>1. Init => TInv /\ AInv /\ VInv
  <2>1. ASSUME Init PROVE VInv
    <3>1. ocall = [c \in Clients |-> Idle] /\ vouched = [c \in Clients |-> FALSE]
      BY <2>1 DEF Init
    <3> QED
      BY <3>1 DEF VInv, Vouched, Idle, Changes
  <2> QED
    BY <2>1, InitTyped, AStart
<1>2. TInv /\ AInv /\ VInv /\ [Next]_vars => (TInv /\ AInv /\ VInv)'
  <2>1. TInv /\ AInv /\ [Next]_vars => (TInv /\ AInv)'
    BY TypedAlways, AKept, AStutter
  <2>2. ASSUME TInv, AInv, VInv, Next PROVE VInv'
    <3>1. TInv' /\ AnswerSeen'
      BY <2>1, <2>2 DEF AInv
    <3> QED
      BY <2>2, <3>1, VKept
  <2>3. ASSUME VInv, UNCHANGED vars PROVE VInv'
    BY <2>3, Idling DEF VInv, Vouched, P!Returned
  <2> QED
    BY <2>1, <2>2, <2>3
<1> DEFINE Told == \A c \in Clients :
                       (/\ organisations' # organisations /\ ocall[c].op \in Changes
                        /\ ocall'[c] = Idle /\ ocall[c].member # NoMember)
                           => vouched[c]
<1>3. TInv /\ VInv /\ [Next]_vars => [Told]_vars
  BY WriteVouched
<1> QED
  BY <1>1, <1>2, <1>3, PTL DEF Spec, ChangeVouched
=============================================================================
