----------------------------- MODULE MCJobLock -----------------------------
(* Instances of JobLock: instance A has one or two execution slots, B one. *)
EXTENDS JobLock, TLC

CONSTANTS p1, p2, p3, k1, A, B, default, workerA, workerB

job(id) == [actor |-> id, org |-> NoOrg]

(* lockPlugin without the owner option. *)
DefaultOwner == [p \in Procs |-> job(default)]
(* lockPlugin with an owner for each instance. *)
OwnerPerInstance == (p1 :> job(workerA)) @@ (p2 :> job(workerA)) @@ (p3 :> job(workerB))

AllOwners == {job(default), job(workerA), job(workerB)}

(* Ids are interchangeable: a new row takes the lowest that is free. *)
LowestFree ==
    \A id \in DOMAIN store' \ DOMAIN store :
        \A free \in Ids \ Referenced : id <= free

TwoInstances == (p1 :> A) @@ (p2 :> B)
TwoSlotsAndOne == (p1 :> A) @@ (p2 :> A) @@ (p3 :> B)
=============================================================================
