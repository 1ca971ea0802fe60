----------------------------- MODULE Membership -----------------------------
(***************************************************************************)
(* @justwant/membership: the service createMembershipService builds over a *)
(* table of (member, group) rows.  Like the permission service it reads,   *)
(* awaits and writes, with no transaction and no unique constraint.        *)
(***************************************************************************)
EXTENDS Rows

CONSTANTS
    Callers, Members, Groups,
    Accepts,        \* the members whose type each group accepts
    MayFail         \* whether a repository call may be rejected

VARIABLES memberships, mcall

MembershipRows == [id : Nat, member : Members, group : Groups]

NoRow == 0
Idle == [op |-> "none", at |-> "idle"]

MembershipCall(op, member, group) ==
    [op |-> op, at |-> "find", member |-> member, group |-> group, row |-> NoRow,
     out |-> "pending"]
ListCall(member) ==
    [op |-> "listGroups", at |-> "find", member |-> member, groups |-> {}, out |-> "pending"]

Starts(c, call) == mcall[c] = Idle /\ mcall' = [mcall EXCEPT ![c] = call]
Returns(c, out) ==
    mcall' = [mcall EXCEPT ![c] = [@ EXCEPT !.at = "returned", !.out = out]]
Returned(c, out) == mcall[c].at = "returned" /\ mcall[c].out = out
InFlight(c) == mcall[c].at \notin {"idle", "returned"}
Takes(c) ==
    /\ mcall[c].at = "returned"
    /\ mcall' = [mcall EXCEPT ![c] = Idle]

Where(k) == [member |-> k.member, group |-> k.group]
FreshId ==
    NewId({row.id : row \in memberships}
          \cup {mcall[c].row : c \in {d \in Callers : "row" \in DOMAIN mcall[d]}})

IsMember(member, group) ==
    \E row \in memberships : row.member = member /\ row.group = group

(* The member and the group are of types the service knows, and of a pair that
   goes together. *)
MayJoin(member, group) == member \in Accepts[group]

Add(c) ==
    LET k == mcall[c] IN
    /\ k.op = "add"
    /\ \/ /\ k.at = "find"
          /\ IF ~MayJoin(k.member, k.group) \/ ~FindsNone(memberships, Where(k))
             THEN Returns(c, "threw")         \* InvalidMemberType, AlreadyMember
             ELSE mcall' = [mcall EXCEPT ![c].at = "create"]
          /\ UNCHANGED memberships
       \/ /\ k.at = "create"
          /\ memberships' = Create(memberships,
                 [id |-> FreshId, member |-> k.member, group |-> k.group])
          /\ Returns(c, "done")

Remove(c) ==
    LET k == mcall[c] IN
    /\ k.op = "remove"
    /\ \/ /\ k.at = "find"
          /\ \/ FindsNone(memberships, Where(k)) /\ Returns(c, "threw")    \* NotMember
             \/ \E row \in FindMany(memberships, Where(k)) :
                    mcall' = [mcall EXCEPT ![c].row = row.id, ![c].at = "delete"]
          /\ UNCHANGED memberships
       \/ /\ k.at = "delete"
          /\ memberships' = Delete(memberships, k.row)
          /\ Returns(c, "done")

ListGroups(c) ==
    /\ mcall[c].op = "listGroups" /\ mcall[c].at = "find"
    /\ mcall' = [mcall EXCEPT ![c] = [@ EXCEPT !.at = "returned", !.out = "done",
           !.groups = {row.group : row \in FindMany(memberships, [member |-> mcall[c].member])}]]
    /\ UNCHANGED memberships

Rejected(c) ==
    /\ MayFail /\ InFlight(c)
    /\ Returns(c, "threw")
    /\ UNCHANGED memberships

MembershipStep(c) == Add(c) \/ Remove(c) \/ ListGroups(c) \/ Rejected(c)
=============================================================================
