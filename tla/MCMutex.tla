------------------------------ MODULE MCMutex ------------------------------
(* Instances of Mutex: three owners, two of which differ in the org only. *)
EXTENDS Mutex, TLC

CONSTANTS p1, p2, p3, r1, r2, r3, r4, k1, k2, u1, u2, acme

plain1 == [actor |-> u1, org |-> NoOrg]
org1   == [actor |-> u1, org |-> acme]
plain2 == [actor |-> u2, org |-> NoOrg]

AllOwners == {plain1, org1, plain2}

(* Three processes with an owner each. *)
ThreeOwners == (p1 :> plain1) @@ (p2 :> org1) @@ (p3 :> plain2)

(* The bound on how a muddled key is followed: the calls under way go on and
   locks are released, but nothing else starts and nobody dies until nothing
   is left of what muddled it. *)
MuddleEnds ==
    muddled # {} =>
        \A p \in Procs :
            /\ At(p, "idle") => call'[p].at \in {"idle", "releaseFind"}
            /\ ~At(p, "dead") => call'[p].at # "dead"

RowSymmetry == Permutations(Ids)
=============================================================================
