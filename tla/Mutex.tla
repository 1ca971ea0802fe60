------------------------------- MODULE Mutex -------------------------------
(***************************************************************************)
(* createLock (packages/lock/src/lock/createLock.ts): acquire, release,    *)
(* forceRelease and extend (isLocked only reads and is left out), called   *)
(* by processes that share one LockRepository. Every await on the          *)
(* repository or on an after hook is a point where other processes run, so *)
(* a call is a sequence of steps: call[p].at names the await the call of p *)
(* is suspended at. The before hooks run before anything is read: a call   *)
(* that starts has passed them.                                            *)
(*                                                                         *)
(* grant[p][k] is what the client of p may conclude from the answers it    *)
(* got: the row its last acquire or extend of k answered true for, and how *)
(* long that row lasts.  It is given up when the client calls release.     *)
(*                                                                         *)
(* Three things take a lock from under its holder, and the code prevents   *)
(* none of them: create puts a second row beside the first, extend revives *)
(* an expired row that an acquire is about to delete, and two processes    *)
(* that act for one owner use a key at once (the second takes the first    *)
(* one's lock for its own, and whoever releases deletes it for both).      *)
(* muddled is the set of the keys these have happened to, until nothing of *)
(* it is left.  Of every other key the properties speak without condition. *)
(***************************************************************************)
EXTENDS LockRepository

CONSTANTS
    Procs,
    OwnerOf,    \* the owner each process passes to its calls
    Ttls,       \* the ttlMs arguments; 0 stands for 0 and for undefined
    MayThrow,   \* an after hook may throw
    MayCrash    \* a process may die between any two steps

ASSUME MutexAssumption ==
    /\ OwnerOf \in [Procs -> Owners]
    /\ Keys # {}
    /\ Ttls \subseteq Nat /\ Ttls # {}
    /\ MayThrow \in BOOLEAN
    /\ MayCrash \in BOOLEAN

VARIABLES call, grant, muddled

vars == <<store, call, grant, muddled>>

AfterLabels == {"acquireAfter", "releaseAfter", "forceAfter", "extendAfter"}
Labels == {"idle", "dead", "acquireFind", "acquireDelete", "acquireCreate",
           "releaseFind", "releaseDelete", "forceFind", "forceDelete",
           "extendFind", "extendUpdate"} \cup AfterLabels

(* The locals of a call: id is `existing.id` or the id of the created row,
   left the expiry computed for the row or read from it, todo the rows
   forceRelease still has to delete, acquired the result passed to the hook. *)
Calls == [at : Labels, key : Keys, ttl : Ttls, id : Ids \cup {NoId},
          left : Lefts, todo : SUBSET Ids, acquired : BOOLEAN]

NoGrant == [id |-> NoId, left |-> 0]
Grants == [id : Ids \cup {NoId}, left : Lefts]

(* What a client counts on when row id lasts for left: nothing once expired. *)
Lease(id, left) == IF left = 0 THEN NoGrant ELSE [id |-> id, left |-> left]

Begin(at, k, ttl) ==
    [at |-> at, key |-> k, ttl |-> ttl, id |-> NoId, left |-> 0,
     todo |-> {}, acquired |-> FALSE]

(* Between calls a process has no locals: they hold fixed values. *)
Settled(at) == Begin(at, CHOOSE k \in Keys : TRUE, CHOOSE ttl \in Ttls : TRUE)

At(p, label) == call[p].at = label

(* The call of p goes on to its next await, or ends, with the locals c. *)
Await(p, c) == call' = [call EXCEPT ![p] = c]

Finish(p) == Await(p, Settled("idle"))

SetGrant(p, k, g) == grant' = [grant EXCEPT ![p][k] = g]

(* The ids some process still refers to.  The repository never reuses an id;
   the model reuses one that nobody can tell from a new one. *)
Referenced ==
    DOMAIN store \cup {call[p].id : p \in Procs}
                 \cup UNION {call[p].todo : p \in Procs}
                 \cup {grant[p][k].id : p \in Procs, k \in Keys}

Init ==
    /\ store = [i \in {} |-> NoId]
    /\ call = [p \in Procs |-> Settled("idle")]
    /\ grant = [p \in Procs |-> [k \in Keys |-> NoGrant]]
    /\ muddled = {}

-----------------------------------------------------------------------------
(* acquire *)

Acquire(p, k, ttl) ==
    /\ At(p, "idle")
    /\ Await(p, Begin("acquireFind", k, ttl))
    /\ UNCHANGED <<store, grant>>

(* The answer of findOne and everything the call does before its next await. *)
AcquireFind(p) ==
    /\ At(p, "acquireFind")
    /\ \E id \in FindOne(ByKey(call[p].key)) :
        \/ /\ id = NoId
           /\ Await(p, [call[p] EXCEPT !.at = "acquireCreate",
                                       !.left = ExpiryOf(call[p].ttl)])
        \/ /\ id # NoId
           /\ IsExpired(store[id])
           /\ Await(p, [call[p] EXCEPT !.at = "acquireDelete", !.id = id])
        \/ /\ id # NoId
           /\ ~IsExpired(store[id])
           /\ OwnerMatches(store[id], OwnerOf[p])
           /\ Await(p, [call[p] EXCEPT !.at = "acquireAfter", !.id = id,
                                       !.left = store[id].left,
                                       !.acquired = TRUE])
        \/ /\ id # NoId
           /\ ~IsExpired(store[id])
           /\ ~OwnerMatches(store[id], OwnerOf[p])
           /\ Await(p, [call[p] EXCEPT !.at = "acquireAfter",
                                       !.acquired = FALSE])
    /\ UNCHANGED <<store, grant>>

AcquireDelete(p) ==
    /\ At(p, "acquireDelete")
    /\ Delete(call[p].id)
    /\ Await(p, [call[p] EXCEPT !.at = "acquireCreate", !.id = NoId,
                                !.left = ExpiryOf(call[p].ttl)])
    /\ UNCHANGED grant

AcquireCreate(p) ==
    /\ At(p, "acquireCreate")
    /\ UniqueKey => ByKey(call[p].key) = {}
    /\ \E id \in Ids \ Referenced :
        /\ Create(id, [key |-> call[p].key, owner |-> OwnerOf[p],
                       count |-> 1, left |-> call[p].left])
        /\ Await(p, [call[p] EXCEPT !.at = "acquireAfter", !.id = id,
                                    !.acquired = TRUE])
    /\ UNCHANGED grant

(* create rejects a key that has a row by now (always, or as this repository
   does), and acquire throws. *)
AcquireConflict(p) ==
    /\ At(p, "acquireCreate")
    /\ ByKey(call[p].key) # {}
    /\ Finish(p)
    /\ UNCHANGED <<store, grant>>

AcquireReturn(p) ==
    /\ At(p, "acquireAfter")
    /\ SetGrant(p, call[p].key,
                IF call[p].acquired
                THEN Lease(call[p].id, call[p].left)
                ELSE NoGrant)
    /\ Finish(p)
    /\ UNCHANGED store

-----------------------------------------------------------------------------
(* release *)

Release(p, k) ==
    /\ At(p, "idle")
    /\ Await(p, Begin("releaseFind", k, call[p].ttl))
    /\ SetGrant(p, k, NoGrant)
    /\ UNCHANGED store

ReleaseFindBug(p) ==            \* trusts the where clause
    /\ At(p, "releaseFind")
    /\ \E id \in FindOne(ByOwner(OwnerOf[p], call[p].key)) :
        IF id # NoId
        THEN Await(p, [call[p] EXCEPT !.at = "releaseDelete", !.id = id])
        ELSE Finish(p)
    /\ UNCHANGED <<store, grant>>

ReleaseFind(p) ==
    /\ At(p, "releaseFind")
    /\ \E id \in FindOne(ByOwner(OwnerOf[p], call[p].key)) :
        IF id # NoId /\ OwnerMatches(store[id], OwnerOf[p])
        THEN Await(p, [call[p] EXCEPT !.at = "releaseDelete", !.id = id])
        ELSE Finish(p)      \* LockNotHeldError
    /\ UNCHANGED <<store, grant>>

ReleaseDeleteBug(p) ==          \* the delete is forgotten
    /\ At(p, "releaseDelete")
    /\ Await(p, [call[p] EXCEPT !.at = "releaseAfter", !.id = NoId])
    /\ UNCHANGED <<store, grant>>

ReleaseDelete(p) ==
    /\ At(p, "releaseDelete")
    /\ Delete(call[p].id)
    /\ Await(p, [call[p] EXCEPT !.at = "releaseAfter", !.id = NoId])
    /\ UNCHANGED grant

-----------------------------------------------------------------------------
(* forceRelease.  It takes the lock away without asking: a lease on a row it
   deletes is over, whether the client has its answer yet or not. *)

ForceRelease(p, k) ==
    /\ At(p, "idle")
    /\ Await(p, Begin("forceFind", k, call[p].ttl))
    /\ UNCHANGED <<store, grant>>

ForceFind(p) ==
    /\ At(p, "forceFind")
    /\ LET rows == ByKey(call[p].key)
       IN  Await(p, [call[p] EXCEPT !.at = IF rows = {} THEN "forceAfter"
                                           ELSE "forceDelete",
                                    !.todo = rows])
    /\ UNCHANGED <<store, grant>>

ForceDelete(p) ==
    /\ At(p, "forceDelete")
    /\ \E id \in call[p].todo :
        /\ Delete(id)
        /\ call' = [q \in Procs |->
              IF q = p
              THEN [call[p] EXCEPT
                      !.at = IF call[p].todo = {id} THEN "forceAfter" ELSE @,
                      !.todo = @ \ {id}]
              ELSE IF call[q].at \in {"acquireAfter", "extendAfter"}
                      /\ call[q].id = id
              THEN [call[q] EXCEPT !.left = 0]
              ELSE call[q]]
        /\ grant' = [q \in Procs |-> [k \in Keys |->
              IF grant[q][k].id = id THEN NoGrant ELSE grant[q][k]]]

-----------------------------------------------------------------------------
(* extend.  From the moment it asks, a client counts on no more than the new
   ttl, which may be shorter than what it had. *)

Shorter(a, b) == IF a = NoExpiry \/ b < a THEN b ELSE a

Extend(p, k, ttl) ==
    /\ At(p, "idle")
    /\ Await(p, Begin("extendFind", k, ttl))
    /\ SetGrant(p, k, [grant[p][k] EXCEPT !.left = Shorter(@, ExpiresIn(ttl))])
    /\ UNCHANGED store

ExtendFind(p) ==
    /\ At(p, "extendFind")
    /\ \E id \in FindOne(ByOwner(OwnerOf[p], call[p].key)) :
        IF id # NoId /\ OwnerMatches(store[id], OwnerOf[p])
        THEN Await(p, [call[p] EXCEPT !.at = "extendUpdate", !.id = id,
                                      !.left = ExpiresIn(call[p].ttl)])
        ELSE Finish(p)      \* LockNotHeldError
    /\ UNCHANGED <<store, grant>>

ExtendUpdate(p) ==
    /\ At(p, "extendUpdate")
    /\ call[p].id \in DOMAIN store
    /\ Update(call[p].id, [store[call[p].id] EXCEPT !.left = call[p].left])
    /\ Await(p, [call[p] EXCEPT !.at = "extendAfter"])
    /\ UNCHANGED grant

(* update of an id that is not there throws. *)
ExtendLost(p) ==
    /\ At(p, "extendUpdate")
    /\ call[p].id \notin DOMAIN store
    /\ Finish(p)
    /\ UNCHANGED <<store, grant>>

ExtendReturn(p) ==
    /\ At(p, "extendAfter")
    /\ SetGrant(p, call[p].key, Lease(call[p].id, call[p].left))
    /\ Finish(p)
    /\ UNCHANGED store

-----------------------------------------------------------------------------
PlainReturn(p) ==
    /\ call[p].at \in {"releaseAfter", "forceAfter"}
    /\ Finish(p)
    /\ UNCHANGED <<store, grant>>

(* The after hook throws: what the call did stays done, its client gets an
   exception for an answer. *)
HookThrows(p) ==
    /\ MayThrow
    /\ call[p].at \in AfterLabels
    /\ Finish(p)
    /\ UNCHANGED <<store, grant>>

Crash(p) ==
    /\ MayCrash
    /\ ~At(p, "dead")
    /\ Await(p, Settled("dead"))
    /\ grant' = [grant EXCEPT ![p] = [k \in Keys |-> NoGrant]]
    /\ UNCHANGED store

Tick ==
    /\ AgeRows
    /\ call' = [p \in Procs |-> [call[p] EXCEPT !.left = Aged(@)]]
    /\ grant' = [p \in Procs |-> [k \in Keys |->
                    Lease(grant[p][k].id, Aged(grant[p][k].left))]]

(* The rest of a call that has started. *)
Continue(p) ==
    \/ AcquireFind(p) \/ AcquireDelete(p) \/ AcquireCreate(p)
    \/ AcquireConflict(p) \/ AcquireReturn(p)
    \/ ReleaseFind(p) \/ ReleaseDelete(p)
    \/ ForceFind(p) \/ ForceDelete(p)
    \/ ExtendFind(p) \/ ExtendUpdate(p) \/ ExtendLost(p) \/ ExtendReturn(p)
    \/ PlainReturn(p)

Step(p) ==
    \/ \E k \in Keys :
        \/ \E ttl \in Ttls : Acquire(p, k, ttl) \/ Extend(p, k, ttl)
        \/ Release(p, k) \/ ForceRelease(p, k)
    \/ Continue(p)
    \/ HookThrows(p)
    \/ Crash(p)

Holds(p, k) == grant[p][k] # NoGrant

(* p uses k for its owner: it counts on the lock or has a call in flight. *)
Uses(p, k) ==
    \/ Holds(p, k)
    \/ /\ call[p].at \in Labels \ {"idle", "dead", "forceFind", "forceDelete",
                                   "forceAfter"}
       /\ call[p].key = k

(* The history of a step. *)
CreatesBeside(k) ==
    ByKey(k) # {} /\ \E id \in DOMAIN store' \ DOMAIN store : store'[id].key = k

Revives(k) ==
    \E id \in ByKey(k) \cap DOMAIN store' :
        /\ IsExpired(store[id]) /\ ~IsExpired(store'[id])
        /\ \E q \in Procs : At(q, "acquireDelete") /\ call[q].id = id

Shared(k) ==
    \E p, q \in Procs :
        p # q /\ OwnerOf[p] = OwnerOf[q] /\ Uses(p, k) /\ Uses(q, k)

(* Nobody uses k and no row of it is left. *)
Quiet(k) == ByKey(k) = {} /\ \A p \in Procs : ~Uses(p, k)

Remember ==
    muddled' = {k \in Keys :
                  /\ ~Quiet(k)'
                  /\ \/ k \in muddled
                     \/ CreatesBeside(k) \/ Revives(k) \/ Shared(k)'}

Next == (Tick \/ \E p \in Procs : Step(p)) /\ Remember

Spec == Init /\ [][Next]_vars

-----------------------------------------------------------------------------
TypeOK ==
    /\ StoreOK
    /\ call \in [Procs -> Calls]
    /\ grant \in [Procs -> [Keys -> Grants]]
    /\ muddled \subseteq Keys

(* "One holder at a time": two processes that may both conclude from their
   answers that they hold a key act for the same owner, unless a second row,
   a revived one or a shared owner has muddled the key. *)
MutualExclusion ==
    \A p, q \in Procs, k \in Keys \ muddled :
        Holds(p, k) /\ Holds(q, k) => OwnerOf[p] = OwnerOf[q]

(* Row id is the lock of p on k and lasts at least as long as left. *)
Outlasts(a, b) == a = NoExpiry \/ (b # NoExpiry /\ a >= b)
Backed(p, k, id, left) ==
    /\ id \in ByKey(k)
    /\ OwnerMatches(store[id], OwnerOf[p])
    /\ Outlasts(store[id].left, left)

(* A client is never deceived: as long as it counts on a lock, the row it was
   answered with exists, is its owner's, has not expired and lasts at least as
   long as the client believes (of the keys that are not muddled). *)
GrantBacked ==
    \A p \in Procs, k \in Keys \ muddled :
        Holds(p, k) => /\ grant[p][k].left # 0
                       /\ Backed(p, k, grant[p][k].id, grant[p][k].left)

(* While no hook throws no lock is forgotten: a row that has not expired is one
   its owner counts on or has a call in flight for, or the owner is dead. *)
NoOrphan ==
    \A id \in DOMAIN store :
        IsExpired(store[id]) \/
        \E p \in Procs :
            /\ OwnerMatches(store[id], OwnerOf[p])
            /\ \/ Holds(p, store[id].key)
               \/ ~At(p, "idle") /\ call[p].key = store[id].key
               \/ At(p, "dead")

(* A lock that has not expired is taken away only by a release of its own
   owner, which has stopped counting on it, or by a forceRelease that found it
   (of the keys that are not muddled). *)
Removal ==
    \A id \in DOMAIN store \ DOMAIN store' :
        \/ store[id].key \in muddled
        \/ IsExpired(store[id])
        \/ \E p \in Procs :
              /\ At(p, "releaseDelete")
              /\ OwnerMatches(store[id], OwnerOf[p])
              /\ ~Holds(p, store[id].key)
        \/ \E p \in Procs : At(p, "forceDelete") /\ id \in call[p].todo
LiveLockKept == [][Removal]_vars

(* The lock of a dead process that has a TTL. *)
DeadLock(p, k) ==
    /\ At(p, "dead")
    /\ \E id \in ByKey(k) :
        OwnerMatches(store[id], OwnerOf[p]) /\ store[id].left # NoExpiry

-----------------------------------------------------------------------------
(* The promise: a process that may conclude it holds a key stands for its
   owner, and what the owners hold evolves as LockService says.  Of a muddled
   key nothing is promised: nobody counts as holding it. *)
Holders(k) ==
    IF k \in muddled THEN {} ELSE {OwnerOf[p] : p \in {q \in Procs : Holds(q, k)}}

Service == INSTANCE LockService WITH holder <- [k \in Keys |-> Holders(k)]

ImplementsService == Service!Spec

-----------------------------------------------------------------------------
(* Why mutual exclusion holds of the keys that are not muddled. *)

OneRow(k) == \A i, j \in ByKey(k) : i = j

(* Row id, if it still exists, is a lock of p on k. *)
OwnRow(p, k, id) ==
    id \in DOMAIN store =>
        id \in ByKey(k) /\ OwnerMatches(store[id], OwnerOf[p])

(* What a suspended call still knows about what it read before its await. *)
CallBacked(p) ==
    LET c == call[p] IN
    /\ c.at = "acquireDelete" /\ c.id \in DOMAIN store =>
          IsExpired(store[c.id])
    /\ c.at = "acquireAfter" /\ c.acquired /\ c.left # 0 =>
          Backed(p, c.key, c.id, c.left)
    /\ c.at = "extendAfter" /\ c.left # 0 =>
          Backed(p, c.key, c.id, c.left)
    /\ c.at \in {"releaseFind", "releaseDelete"} => ~Holds(p, c.key)
    /\ c.at \in {"releaseDelete", "extendUpdate"} => OwnRow(p, c.key, c.id)
    /\ c.at = "extendFind" /\ Holds(p, c.key) =>
          Outlasts(ExpiresIn(c.ttl), grant[p][c.key].left)
    /\ c.at = "extendUpdate" /\ Holds(p, c.key) =>
          Outlasts(c.left, grant[p][c.key].left)

(* The inductive invariant: a key that is not muddled has one row, no two
   processes use it for one owner, and the locals of every suspended call are
   still true of the rows, whatever ran since they were read. *)
CallsBacked ==
    /\ \A k \in Keys \ muddled : OneRow(k) /\ ~Shared(k)
    /\ GrantBacked
    /\ \A p \in Procs : call[p].key \notin muddled => CallBacked(p)
=============================================================================
