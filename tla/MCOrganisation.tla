--------------------------- MODULE MCOrganisation ---------------------------
(* Deployments of the organisation services: two clients, one or two members. *)
EXTENDS Organisation, TLC

CONSTANTS c1, c2, alice, robot, o1, o2, s1, s2, r1

Duties(first, second) == (c1 :> first) @@ (c2 :> second)

Org(id, slug) == [id |-> id, slug |-> slug]
MemberOf(org) == [id |-> 1, member |-> alice, group |-> org]
Role(id, role, org) == [id |-> id, actor |-> alice, role |-> role, scope |-> org]
Override(id, type, resource) ==
    [id |-> id, type |-> type, actor |-> alice, permission |-> "update",
     scope |-> o1, resource |-> resource]

Base ==
    [duty |-> Duties({}, {}), members |-> {alice}, orgs |-> {o1}, scopes |-> {o1}, roles |-> {"admin"}, levels |-> {Undefined},
     questions |-> {<<"update">>},
     organisations |-> {Org(o1, s1)}, memberships |-> {{MemberOf(o1)}},
     assignments |-> {{}, {Role(1, "admin", o1)}}, overrides |-> {{}}]

With(fields) == fields @@ Base

(* Denying and allowing again, while the other client denies and asks. *)
Denying == With(
    [duty |-> Duties({"deny", "revokeDeny", "revokeGrant"}, {"deny", "canAny"}),
     overrides |-> SUBSET {Override(1, "grant", Null)},
     questions |-> {<<"update">>, <<"delete", "update">>}])

(* Granting on one resource, while the other client denies on it and asks. *)
Granting == With(
    [duty |-> Duties({"grant", "revokeGrant"}, {"deny", "canAll"}),
     levels |-> {r1},
     questions |-> {<<"update">>, <<"update", "read">>, <<"fly">>}])

(* The membership of one organisation changing, while the other client looks. *)
Joining == With(
    [duty |-> Duties({"addMember", "removeMember", "unassign"}, {"canAll", "listForMember"}),
     members |-> {alice, robot}, roles |-> {"admin", "viewer", "guest"},
     memberships |-> {{}}, assignments |-> {{}}])

(* The roles of the members changing, while the other client acts for them. *)
Promoting == With(
    [duty |-> Duties({"assignRole", "assign", "unassign"}, {"update", "delete", "canAny"}),
     scopes |-> {o1, Elsewhere}, roles |-> {"owner", "viewer", "guest"}])

(* Organisations coming and going, while the other client lists. *)
Registering == With(
    [duty |-> Duties({"create", "update", "delete"}, {"listForMember", "assignRole"}),
     roles |-> {"owner", "viewer"}])

(* Everything of an organisation or an actor revoked, while the other asks. *)
Sweeping == With(
    [duty |-> Duties({"revokeScope", "revokeAll"}, {"canAll", "canAny"}),
     scopes |-> {o1, o2},
     assignments |-> SUBSET {Role(1, "admin", o1), Role(2, "owner", o2)},
     memberships |-> {{MemberOf(o1), [MemberOf(o2) EXCEPT !.id = 2]}},
     overrides |-> SUBSET {Override(1, "grant", Null), Override(2, "deny", Null),
                           Override(3, "deny", r1)}])

Serving == {Denying, Granting, Joining, Promoting, Registering, Sweeping}

(* One client, overrides of both levels. *)
BothLevels == {With([duty |-> Duties({"deny"}, {}), levels |-> {r1, Undefined}])}
(* Two clients assigning roles to the same member. *)
TwoAdmins == {With([duty |-> Duties({"assign", "unassign"}, {"assign"})])}
=============================================================================
