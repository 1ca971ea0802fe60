--------------------------- MODULE LockRepository ---------------------------
(***************************************************************************)
(* The rows a LockRepository keeps (packages/lock/src/types/index.ts) and  *)
(* the answers its five methods give to the mutex and the semaphore.       *)
(*                                                                         *)
(* The repository is supplied by the application: the source only fixes    *)
(* its interface.  What is modelled is the contract that the code, the     *)
(* in-memory repositories of the specs and the one of the documentation    *)
(* share, with two switches for what they leave open:                      *)
(*   UniqueKey  create rejects a second row with the same lockableKey (a   *)
(*              UNIQUE constraint); FALSE asks nothing of create, which    *)
(*              may reject the row or insert it beside the other one;      *)
(*   Wildcard   an undefined field of a where clause matches every row, as *)
(*              in the specs' repository (and in a query builder that      *)
(*              skips undefined); FALSE compares it literally, as the      *)
(*              repository of the documentation does.                      *)
(*                                                                         *)
(* Time.  expiresAt is kept as the number of clock ticks left before       *)
(* isExpired turns true: 0 is expired, NoExpiry is an undefined expiresAt. *)
(* A tick ages every remaining time at once, so no clock value is needed.  *)
(***************************************************************************)
EXTENDS Integers

CONSTANTS
    Owners,     \* the actors, records with the fields actor and org
    NoOrg,      \* the org of an owner that has none
    Keys,       \* the lockable keys
    Ids,        \* the row ids; a bound on the rows that exist at once
    NoId,       \* what findOne answers when no row matches
    UniqueKey, Wildcard

ASSUME RepositoryAssumption ==
    /\ NoId \notin Ids
    /\ UniqueKey \in BOOLEAN
    /\ Wildcard \in BOOLEAN

VARIABLE store      \* a function from the ids of the existing rows to rows

NoExpiry == -1
Lefts == {l \in Int : l >= NoExpiry}
Rows == [key : Keys, owner : Owners, count : Nat, left : Lefts]

StoreOK ==
    /\ DOMAIN store \subseteq Ids
    /\ \A id \in DOMAIN store : store[id] \in Rows

(* Operators named ...Bug are broken variants of the definition after them:
   the properties are validated by substituting them.  No module uses them. *)

AgedBug(left) == left - 1       \* an undefined expiry ages too
(* What one tick of the clock does to a remaining time. *)
Aged(left) == IF left > 0 THEN left - 1 ELSE left

(* new Date(Date.now() + ttl): strictly later than ttl ticks it is expired. *)
ExpiresIn(ttl) == ttl + 1

(* `ttlMs ? new Date(...) : undefined`: a ttl of 0 is no ttl at all. *)
ExpiryOf(ttl) == IF ttl = 0 THEN NoExpiry ELSE ExpiresIn(ttl)

IsExpiredEarlyBug(row) == row.left \in {0, 1}              \* <= for <
IsExpiredInvertedBug(row) == row.left \notin {0, NoExpiry}  \* > for <
IsExpired(row) == row.left = 0

OwnerMatchesBug(row, o) == row.owner.actor = o.actor    \* forgets the org
OwnerMatches(row, o) == row.owner = o

(* findMany({ lockableKey }). *)
ByKey(k) == {id \in DOMAIN store : store[id].key = k}

(* The rows selected by the where clause { lockableKey, ownerType, ownerId,
   ownerOrgId } that release, extend and the semaphore build. *)
ByOwner(o, k) ==
    {id \in ByKey(k) :
        /\ store[id].owner.actor = o.actor
        /\ \/ store[id].owner.org = o.org
           \/ Wildcard /\ o.org = NoOrg}

(* findOne answers any one of the matching rows, or null. *)
FindOne(matching) == IF matching = {} THEN {NoId} ELSE matching

Create(id, row) ==
    store' = [i \in DOMAIN store \cup {id} |-> IF i = id THEN row ELSE store[i]]

(* delete of an id that is not there is a no-op. *)
Delete(id) == store' = [i \in DOMAIN store \ {id} |-> store[i]]

Update(id, row) == store' = [store EXCEPT ![id] = row]

AgeRows ==
    store' = [i \in DOMAIN store |-> [store[i] EXCEPT !.left = Aged(@)]]
=============================================================================
