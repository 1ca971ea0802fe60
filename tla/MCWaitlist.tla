----------------------------- MODULE MCWaitlist -----------------------------
(* Deployments of Waitlist: two clients, two persons. *)
EXTENDS Waitlist, TLC

CONSTANTS c1, c2, o1

Ann == [type |-> "user", id |-> "ann"]
Bob == [type |-> "user", id |-> "bob"]
AnnO1 == [type |-> "user", id |-> "ann:o1"]
People == {Ann, Bob, AnnO1}
OfAnn == (AnnO1 :> [person |-> Ann, org |-> o1])

Alone(person) == [person |-> person, org |-> Undefined]
Within(person, org) == [person |-> person, org |-> org]

Duties(first, second) == (c1 :> first) @@ (c2 :> second)
IdsAsCodes == [generator |-> Null, type |-> "user"]
MadeCodes == [generator |-> [p \in People |-> IF p = Ann THEN "bob" ELSE "ref-bob"],
              type |-> Null]

Base ==
    [adapter |-> "db", refers |-> FALSE, offer |-> IdsAsCodes, expiries |-> {Never},
     actors |-> {Alone(Ann), Alone(Bob)}, invitees |-> {Alone(Bob)}, duty |-> Duties({}, {}), room |-> 2, time |-> 1]
With(fields) == fields @@ Base

(* Two clients that add, pop and look: over a table, and in memory with two
   actors of one person. *)
Queueing == With([duty |-> Duties({"subscribe", "getPosition"}, {"pop", "unsubscribe"}), room |-> 3])
InMemory == With(
    [duty |-> Duties({"subscribe", "getPosition"}, {"pop", "unsubscribe"}),
     adapter |-> "memory", actors |-> {Alone(Ann), Within(Ann, o1), Alone(AnnO1)}])
Popping == With([duty |-> Duties({"subscribe", "pop"}, {"pop"}), room |-> 3])

(* Entries that expire, in both adapters. *)
Expiring == With(
    [duty |-> Duties({"subscribe", "unsubscribe"}, {"cleanup", "pop"}),
     expiries |-> {0, Never}, actors |-> {Alone(Ann), Within(Ann, o1)}])
ExpiringInMemory == With(
    [duty |-> Duties({"subscribe", "unsubscribe"}, {"cleanup"}),
     expiries |-> {0, 1}, adapter |-> "memory", actors |-> {Alone(Ann), Within(Ann, o1)}])

Bulk == With(
    [duty |-> Duties({"subscribeMany", "unsubscribeMany"}, {"subscribe", "unsubscribe"}),
     room |-> 3, actors |-> {Alone(Ann), Within(AnnO1, o1)}])

(* Invitations with and without the referral service, and codes. *)
Inviting == With([duty |-> Duties({"invite"}, {"invite", "unsubscribe"}), refers |-> TRUE])
Unreferred == With([duty |-> Duties({"invite"}, {"subscribe", "unsubscribe"})])
Coding == With([duty |-> Duties({"refer", "code"}, {"code", "resolve"})])
Generating == [Coding EXCEPT !.offer = MadeCodes]

Waiting ==
    {Queueing, InMemory, Popping, Expiring, ExpiringInMemory, Bulk, Inviting, Unreferred,
     Coding, Generating}
=============================================================================
