---------------------------- MODULE MCSemaphore ----------------------------
(* Instances of Semaphore. *)
EXTENDS Semaphore, TLC

CONSTANTS p1, p2, p3, k1, u1, u2

owner(u) == [actor |-> u, org |-> NoOrg]

AllOwners == {owner(u1), owner(u2)}

TwoActors == (p1 :> owner(u1)) @@ (p2 :> owner(u2))
(* Two processes that act for the same owner, and one with its own. *)
SharedAndAlone == (p1 :> owner(u1)) @@ (p2 :> owner(u1)) @@ (p3 :> owner(u2))

NoRows == {}
(* The row a mutex acquire with a TTL left, now expired. *)
ExpiredRow == {[key |-> k1, owner |-> owner(u2), count |-> 1, left |-> 0]}

(* The bound on the calls: no process asks for more than MaxUnits in all. *)
FewUnits ==
    \A p \in Procs, k \in Keys :
        At(p, "idle") /\ call'[p].at = "acquireCount" /\ call'[p].key = k =>
            using[p][k] + call'[p].n <= MaxUnits

RowSymmetry == Permutations(Ids)
(* p1 and p2 are alike. *)
Symmetry ==
    {rows @@ shared : rows \in RowSymmetry, shared \in Permutations({p1, p2})}
=============================================================================
