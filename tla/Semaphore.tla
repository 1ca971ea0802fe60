----------------------------- MODULE Semaphore -----------------------------
(***************************************************************************)
(* createSemaphore (packages/lock/src/semaphore/createSemaphore.ts):       *)
(* acquire and release of units of a key, by processes that share one      *)
(* LockRepository.  As in Mutex, call[p].at names the await a call is      *)
(* suspended at; the value it has read from the repository is a local that *)
(* other calls may make stale.                                             *)
(*                                                                         *)
(* using[p][k] is the number of units the client of p may use: acquired    *)
(* with the answer true and not yet asked to be released.                  *)
(*                                                                         *)
(* overtaken is a history: the processes whose acquire has found room for  *)
(* its units, and whose key has been given more units since.               *)
(***************************************************************************)
EXTENDS LockRepository, FiniteSets, FiniteSetsExt

CONSTANTS
    Procs,
    OwnerOf,        \* the owner each process passes to its calls
    MaxUnits,       \* the max option
    Counts,         \* the count arguments
    MayThrow,       \* an after hook may throw
    MayCrash,       \* a process may die between any two steps
    Leftovers       \* the rows that may be there at the start

ASSUME SemaphoreAssumption ==
    /\ IsFiniteSet(Procs)
    /\ OwnerOf \in [Procs -> Owners]
    /\ Keys # {}
    /\ MaxUnits \in Nat
    /\ Counts \subseteq Nat \ {0} /\ Counts # {}
    /\ MayThrow \in BOOLEAN
    /\ MayCrash \in BOOLEAN
    /\ Leftovers \subseteq Rows

VARIABLES call, using, overtaken

vars == <<store, call, using, overtaken>>

AfterLabels == {"acquireAfter", "releaseAfter"}
Labels == {"idle", "dead", "acquireCount", "acquireFind", "acquireUpdate",
           "acquireDelete", "acquireCreate", "releaseFind", "releaseUpdate",
           "releaseDelete"} \cup AfterLabels

(* The locals of a call: n is its count argument, id and have are
   `existing.id` and `existing.count`, acquired the result it returns. *)
Calls == [at : Labels, key : Keys, n : Counts, id : Ids \cup {NoId},
          have : Nat, acquired : BOOLEAN]

Begin(at, k, n) ==
    [at |-> at, key |-> k, n |-> n, id |-> NoId, have |-> 0,
     acquired |-> FALSE]

Settled(at) == Begin(at, CHOOSE k \in Keys : TRUE, CHOOSE n \in Counts : TRUE)

At(p, label) == call[p].at = label

Await(p, c) == call' = [call EXCEPT ![p] = c]

Finish(p) == Await(p, Settled("idle"))

Referenced == DOMAIN store \cup {call[p].id : p \in Procs}

(* The store is empty, or holds one row somebody else left: the repository
   may be the mutex's too, and a mutex row may have expired. *)
Init ==
    /\ \/ store = [i \in {} |-> NoId]
       \/ \E id \in Ids, row \in Leftovers : store = [i \in {id} |-> row]
    /\ call = [p \in Procs |-> Settled("idle")]
    /\ using = [p \in Procs |-> [k \in Keys |-> 0]]
    /\ overtaken = {}

(* getCurrentCount *)
LiveRows(k) == {id \in ByKey(k) : ~IsExpired(store[id])}
CurrentCount(k) == MapThenSumSet(LAMBDA id : store[id].count, LiveRows(k))

(* What available would answer now. *)
Available(k) == Max({0, MaxUnits - CurrentCount(k)})

-----------------------------------------------------------------------------
(* acquire. *)
Acquire(p, k, n) ==
    /\ At(p, "idle")
    /\ Await(p, Begin("acquireCount", k, n))
    /\ UNCHANGED <<store, using>>

AcquireCountBug(p) ==           \* off by one
    /\ At(p, "acquireCount")
    /\ Await(p, [call[p] EXCEPT !.at =
                    IF call[p].n > MaxUnits - CurrentCount(call[p].key) + 1
                    THEN "acquireAfter" ELSE "acquireFind"])
    /\ UNCHANGED <<store, using>>

AcquireCount(p) ==
    /\ At(p, "acquireCount")
    /\ Await(p, [call[p] EXCEPT !.at =
                    IF call[p].n > MaxUnits - CurrentCount(call[p].key)
                    THEN "acquireAfter" ELSE "acquireFind"])
    /\ UNCHANGED <<store, using>>

(* findOne by owner.  Unlike release, acquire does not check ownerMatches. *)
AcquireFind(p) ==
    /\ At(p, "acquireFind")
    /\ \E id \in FindOne(ByOwner(OwnerOf[p], call[p].key)) :
        \/ /\ id = NoId
           /\ Await(p, [call[p] EXCEPT !.at = "acquireCreate"])
        \/ /\ id # NoId
           /\ Await(p, [call[p] EXCEPT !.at = IF IsExpired(store[id])
                                              THEN "acquireDelete"
                                              ELSE "acquireUpdate",
                                       !.id = id,
                                       !.have = store[id].count])
    /\ UNCHANGED <<store, using>>

AcquireUpdateBug(p) ==          \* overwrites the count
    /\ At(p, "acquireUpdate")
    /\ call[p].id \in DOMAIN store
    /\ Update(call[p].id, [store[call[p].id] EXCEPT !.count = call[p].n])
    /\ Await(p, [call[p] EXCEPT !.at = "acquireAfter", !.acquired = TRUE])
    /\ UNCHANGED using

AcquireUpdate(p) ==
    /\ At(p, "acquireUpdate")
    /\ call[p].id \in DOMAIN store
    /\ Update(call[p].id,
              [store[call[p].id] EXCEPT !.count = call[p].have + call[p].n])
    /\ Await(p, [call[p] EXCEPT !.at = "acquireAfter", !.acquired = TRUE])
    /\ UNCHANGED using

AcquireDelete(p) ==
    /\ At(p, "acquireDelete")
    /\ Delete(call[p].id)
    /\ Await(p, [call[p] EXCEPT !.at = "acquireCreate"])
    /\ UNCHANGED using

(* The created row has no expiresAt. *)
AcquireCreate(p) ==
    /\ At(p, "acquireCreate")
    /\ \E id \in Ids \ Referenced :
        Create(id, [key |-> call[p].key, owner |-> OwnerOf[p],
                    count |-> call[p].n, left |-> NoExpiry])
    /\ Await(p, [call[p] EXCEPT !.at = "acquireAfter", !.acquired = TRUE])
    /\ UNCHANGED using

AcquireReturn(p) ==
    /\ At(p, "acquireAfter")
    /\ using' = IF call[p].acquired
                THEN [using EXCEPT ![p][call[p].key] = @ + call[p].n]
                ELSE using
    /\ Finish(p)
    /\ UNCHANGED store

-----------------------------------------------------------------------------
(* release.  The clients release no more than they have acquired. *)
Release(p, k, n) ==
    /\ At(p, "idle")
    /\ n <= using[p][k]
    /\ Await(p, Begin("releaseFind", k, n))
    /\ using' = [using EXCEPT ![p][k] = @ - n]
    /\ UNCHANGED store

ReleaseFind(p) ==
    /\ At(p, "releaseFind")
    /\ \E id \in FindOne(ByOwner(OwnerOf[p], call[p].key)) :
        IF /\ id # NoId
           /\ OwnerMatches(store[id], OwnerOf[p])
           /\ call[p].n <= store[id].count
        THEN Await(p, [call[p] EXCEPT !.at = IF store[id].count = call[p].n
                                             THEN "releaseDelete"
                                             ELSE "releaseUpdate",
                                      !.id = id,
                                      !.have = store[id].count])
        ELSE Finish(p)      \* LockNotHeldError
    /\ UNCHANGED <<store, using>>

ReleaseDelete(p) ==
    /\ At(p, "releaseDelete")
    /\ Delete(call[p].id)
    /\ Await(p, [call[p] EXCEPT !.at = "releaseAfter"])
    /\ UNCHANGED using

ReleaseUpdate(p) ==
    /\ At(p, "releaseUpdate")
    /\ call[p].id \in DOMAIN store
    /\ Update(call[p].id,
              [store[call[p].id] EXCEPT !.count = call[p].have - call[p].n])
    /\ Await(p, [call[p] EXCEPT !.at = "releaseAfter"])
    /\ UNCHANGED using

ReleaseReturn(p) ==
    /\ At(p, "releaseAfter")
    /\ Finish(p)
    /\ UNCHANGED <<store, using>>

-----------------------------------------------------------------------------
(* update of an id that is not there throws. *)
RowLost(p) ==
    /\ call[p].at \in {"acquireUpdate", "releaseUpdate"}
    /\ call[p].id \notin DOMAIN store
    /\ Finish(p)
    /\ UNCHANGED <<store, using>>

HookThrows(p) ==
    /\ MayThrow
    /\ call[p].at \in AfterLabels
    /\ Finish(p)
    /\ UNCHANGED <<store, using>>

Crash(p) ==
    /\ MayCrash
    /\ ~At(p, "dead")
    /\ Await(p, Settled("dead"))
    /\ using' = [using EXCEPT ![p] = [k \in Keys |-> 0]]
    /\ UNCHANGED store

Step(p) ==
    \/ \E k \in Keys, n \in Counts : Acquire(p, k, n) \/ Release(p, k, n)
    \/ AcquireCount(p) \/ AcquireFind(p) \/ AcquireUpdate(p)
    \/ AcquireDelete(p) \/ AcquireCreate(p) \/ AcquireReturn(p)
    \/ ReleaseFind(p) \/ ReleaseDelete(p) \/ ReleaseUpdate(p)
    \/ ReleaseReturn(p)
    \/ RowLost(p) \/ HookThrows(p) \/ Crash(p)

(* Where an acquire that has counted waits until it has written. *)
Checked == {"acquireFind", "acquireUpdate", "acquireDelete", "acquireCreate"}

Grows(k) == CurrentCount(k)' > CurrentCount(k)

Remember ==
    overtaken' =
        {p \in Procs :
            /\ call'[p].at \in Checked
            /\ \/ p \in overtaken
               \/ call[p].at \in Checked /\ Grows(call[p].key)}

Next == (\E p \in Procs : Step(p)) /\ Remember

Spec == Init /\ [][Next]_vars

-----------------------------------------------------------------------------
TypeOK ==
    /\ StoreOK
    /\ call \in [Procs -> Calls]
    /\ using \in [Procs -> [Keys -> Nat]]
    /\ overtaken \subseteq Procs

UsedBy(ps, k) == MapThenSumSet(LAMBDA p : using[p][k], ps)
OwnerCount(o, k) ==
    MapThenSumSet(LAMBDA id : store[id].count,
                  {id \in LiveRows(k) : OwnerMatches(store[id], o)})

(* The processes that act for an owner no other process acts for.  Increments
   of processes that share an owner may be lost; others must not suffer. *)
Alone == {p \in Procs : \A q \in Procs : OwnerOf[p] = OwnerOf[q] => p = q}

(* The rows account for every unit a client may use: whatever is in flight,
   the rows of an owner never count less than its process uses. *)
UnitsBacked ==
    \A p \in Alone, k \in Keys : using[p][k] <= OwnerCount(OwnerOf[p], k)

(* A call that is about to write what it decided by something that no longer
   is so: an acquire whose key has been given more units since it counted
   them, or a release whose row another release has changed. *)
Outdated(p) ==
    \/ p \in overtaken
    \/ /\ At(p, "releaseUpdate")
       /\ call[p].id \in DOMAIN store
       /\ store[call[p].id].count # call[p].have

(* The limit, for all the owners of a key together: only a call whose reading
   is outdated when it writes takes the units in use above max.  The check and
   the write of acquire are awaits apart, so two that race may. *)
LimitKept ==
    [][\A k \in Keys :
            CurrentCount(k)' > MaxUnits /\ Grows(k) =>
                \E p \in Procs :
                    call[p].key = k /\ call'[p] # call[p] /\ Outdated(p)]_store

(* Even when calls of several owners race past the check, no single owner is
   ever given more than max units, and available never advertises a unit that
   some client may be using. *)
SharesBounded ==
    \A k \in Keys :
        /\ \A p \in Alone : OwnerCount(OwnerOf[p], k) <= MaxUnits
        /\ Available(k) > 0 => Available(k) + UsedBy(Alone, k) <= MaxUnits

(* The capacity of a semaphore: never exceeded but by a race, and then not by
   one owner alone. *)
CapacityHonest == LimitKept /\ []SharesBounded

(* Units that were acquired can be released: no LockNotHeldError for a client
   that releases what it holds. *)
ReleaseHonoured ==
    \A p \in Alone :
        At(p, "releaseFind") =>
            \A id \in FindOne(ByOwner(OwnerOf[p], call[p].key)) :
                /\ id # NoId
                /\ OwnerMatches(store[id], OwnerOf[p])
                /\ call[p].n <= store[id].count

(* What a client has acquired it uses, and can give back: the rows account for
   it, and release finds them. *)
UnitsHonoured == TypeOK /\ UnitsBacked /\ ReleaseHonoured
=============================================================================
