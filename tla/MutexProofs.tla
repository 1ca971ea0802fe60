---------------------------- MODULE MutexProofs ----------------------------
(***************************************************************************)
(* Theorems about Mutex, for every set of owners, keys, ids, processes and *)
(* ttls, of every repository and without a condition on how the clients    *)
(* call: what they say of a key they say while it is not muddled.          *)
(*                                                                         *)
(* The last part is about JobLock, whose executions are clients of the     *)
(* mutex.                                                                  *)
(***************************************************************************)
EXTENDS JobLock, TLAPS

(* The values a settled process is given are of the right kind. *)
LEMMA SettledType ==
    ASSUME NEW at \in Labels
    PROVE  Settled(at) \in Calls
<1>1. (CHOOSE k \in Keys : TRUE) \in Keys
  BY MutexAssumption
<1>2. (CHOOSE ttl \in Ttls : TRUE) \in Ttls
  BY MutexAssumption
<1> QED
  BY <1>1, <1>2 DEF Settled, Begin, Calls, Lefts, NoExpiry

(* Ageing and the two ways to compute an expiry stay in Lefts. *)
LEMMA LeftsType ==
    /\ \A l \in Lefts : Aged(l) \in Lefts
    /\ \A ttl \in Nat : ExpiresIn(ttl) \in Lefts /\ ExpiryOf(ttl) \in Lefts
    /\ \A a, b \in Lefts : Shorter(a, b) \in Lefts
    /\ 0 \in Lefts
BY DEF Lefts, Aged, ExpiresIn, ExpiryOf, NoExpiry, Shorter

(* The initial state is typed. *)
LEMMA InitTypeOK == Init => TypeOK
<1> SUFFICES ASSUME Init PROVE TypeOK
  OBVIOUS
<1>1. StoreOK
  BY DEF Init, StoreOK
<1>2. call \in [Procs -> Calls]
  BY SettledType DEF Init, Labels
<1>4. muddled \subseteq Keys
  BY DEF Init
<1>3. grant \in [Procs -> [Keys -> Grants]]
  BY DEF Init, NoGrant, Grants, Lefts, NoExpiry
<1> QED
  BY <1>1, <1>2, <1>3, <1>4 DEF TypeOK

(* Every step keeps the types. *)
LEMMA StepTypeOK == TypeOK /\ [Next]_vars => TypeOK'
<1> SUFFICES ASSUME TypeOK, [Next]_vars PROVE TypeOK'
  OBVIOUS
<1> USE DEF TypeOK
<1>m. muddled' \subseteq Keys
  BY DEF Next, Remember, vars
<1> USE <1>m
<1>t. Ttls \subseteq Nat
  BY MutexAssumption
<1>l. \A at \in {"idle", "dead", "acquireFind", "acquireDelete",
                "acquireCreate", "releaseFind", "releaseDelete", "forceFind",
                "forceDelete", "extendFind", "extendUpdate", "acquireAfter",
                "releaseAfter", "forceAfter", "extendAfter"} : at \in Labels
  BY DEF Labels, AfterLabels
<1>s. Settled("idle") \in Calls /\ Settled("dead") \in Calls
  BY <1>l, SettledType
<1>n. NoGrant \in Grants
  BY LeftsType DEF NoGrant, Grants
<1>e. \A id \in Ids \cup {NoId}, left \in Lefts : Lease(id, left) \in Grants
  BY <1>n DEF Lease, Grants
<1>i. \A p \in Procs : \A k \in Keys : grant[p][k].id \in Ids \cup {NoId} /\ grant[p][k].left \in Lefts
  BY DEF Grants
<1>1. CASE UNCHANGED vars
  BY <1>1 DEF vars, StoreOK
<1>2. CASE Tick
  <2>1. StoreOK'
    BY <1>2, LeftsType DEF Tick, AgeRows, StoreOK, Rows
  <2>2. call' \in [Procs -> Calls]
    BY <1>2, LeftsType DEF Tick, Calls
  <2>3. grant' \in [Procs -> [Keys -> Grants]]
    BY <1>2, <1>e, <1>i, LeftsType DEF Tick
  <2> QED
    BY <2>1, <2>2, <2>3
<1>3. ASSUME NEW p \in Procs, Step(p) PROVE TypeOK'
  <2>0. /\ OwnerOf[p] \in Owners
        /\ call[p] \in Calls
        /\ \A at \in Labels : [call[p] EXCEPT !.at = at] \in Calls
        /\ call[p].key \in Keys /\ call[p].ttl \in Ttls /\ call[p].ttl \in Nat
        /\ call[p].id \in Ids \cup {NoId} /\ call[p].left \in Lefts
        /\ call[p].todo \in SUBSET Ids
    BY <1>t, MutexAssumption DEF Calls
  <2>a. \A c \in Calls : Await(p, c) => call' \in [Procs -> Calls]
    BY DEF Await
  <2>f. Finish(p) => call' \in [Procs -> Calls]
    BY <1>s, <2>a DEF Finish
  <2>b. \A at \in Labels, k \in Keys, ttl \in Ttls : Begin(at, k, ttl) \in Calls
    BY LeftsType DEF Begin, Calls
  <2>u. UNCHANGED store => StoreOK'
    BY DEF StoreOK
  <2>d. \A id : Delete(id) => StoreOK'
    BY DEF Delete, StoreOK
  <2>k. \A k \in Keys : ByKey(k) \subseteq Ids
    BY DEF ByKey, StoreOK
  <2>1. CASE \E k \in Keys, ttl \in Ttls : Acquire(p, k, ttl)
    BY <2>1, <2>a, <2>b, <2>u, <1>l DEF Acquire
  <2>2. CASE \E k \in Keys, ttl \in Ttls : Extend(p, k, ttl)
    <3> PICK k \in Keys, ttl \in Ttls : Extend(p, k, ttl)
      BY <2>2
    <3>1. call' \in [Procs -> Calls]
      BY <2>a, <2>b, <1>l DEF Extend
    <3>2. ExpiresIn(ttl) \in Lefts
      BY <1>t, LeftsType
    <3>3. [grant[p][k] EXCEPT !.left = Shorter(@, ExpiresIn(ttl))] \in Grants
      BY <1>i, <3>2, LeftsType DEF Grants
    <3> QED
      BY <3>1, <3>3, <2>u DEF Extend, SetGrant
  <2>3. CASE \E k \in Keys : Release(p, k)
    BY <2>3, <2>0, <2>a, <2>b, <2>u, <1>l, <1>n DEF Release, SetGrant
  <2>4. CASE \E k \in Keys : ForceRelease(p, k)
    BY <2>4, <2>0, <2>a, <2>b, <2>u, <1>l DEF ForceRelease
  <2>5. CASE AcquireFind(p)
    <3> PICK id \in FindOne(ByKey(call[p].key)) :
        \/ Await(p, [call[p] EXCEPT !.at = "acquireCreate",
                                    !.left = ExpiryOf(call[p].ttl)])
        \/ id # NoId /\ Await(p, [call[p] EXCEPT !.at = "acquireDelete", !.id = id])
        \/ id # NoId /\ Await(p, [call[p] EXCEPT !.at = "acquireAfter", !.id = id,
                                    !.left = store[id].left, !.acquired = TRUE])
        \/ Await(p, [call[p] EXCEPT !.at = "acquireAfter", !.acquired = FALSE])
      BY <2>5 DEF AcquireFind
    <3>1. id # NoId => id \in Ids /\ store[id].left \in Lefts
      BY <2>0, <2>k DEF FindOne, ByKey, StoreOK, Rows
    <3>2. call' \in [Procs -> Calls]
      <4>1. [call[p] EXCEPT !.at = "acquireCreate",
                            !.left = ExpiryOf(call[p].ttl)] \in Calls
        BY <2>0, <1>l, LeftsType DEF Calls
      <4>2. id # NoId => [call[p] EXCEPT !.at = "acquireDelete", !.id = id] \in Calls
        BY <2>0, <3>1, <1>l DEF Calls
      <4>3. id # NoId => [call[p] EXCEPT !.at = "acquireAfter", !.id = id,
                            !.left = store[id].left, !.acquired = TRUE] \in Calls
        BY <2>0, <3>1, <1>l DEF Calls
      <4>4. [call[p] EXCEPT !.at = "acquireAfter", !.acquired = FALSE] \in Calls
        BY <2>0, <1>l DEF Calls
      <4> QED
        BY <4>1, <4>2, <4>3, <4>4, <2>a
    <3> QED
      BY <2>5, <3>2, <2>u DEF AcquireFind
  <2>6. CASE AcquireDelete(p)
    <3>1. [call[p] EXCEPT !.at = "acquireCreate", !.id = NoId,
                          !.left = ExpiryOf(call[p].ttl)] \in Calls
      BY <2>0, <1>l, LeftsType DEF Calls
    <3> QED
      BY <2>6, <3>1, <2>a, <2>d DEF AcquireDelete
  <2>7. CASE AcquireCreate(p)
    <3> PICK id \in Ids \ Referenced :
           /\ Create(id, [key |-> call[p].key, owner |-> OwnerOf[p],
                          count |-> 1, left |-> call[p].left])
           /\ Await(p, [call[p] EXCEPT !.at = "acquireAfter", !.id = id,
                                       !.acquired = TRUE])
      BY <2>7 DEF AcquireCreate
    <3>1. StoreOK'
      BY <2>0 DEF Create, StoreOK, Rows
    <3>2. [call[p] EXCEPT !.at = "acquireAfter", !.id = id,
                          !.acquired = TRUE] \in Calls
      BY <2>0, <1>l DEF Calls
    <3> QED
      BY <2>7, <3>1, <3>2, <2>a DEF AcquireCreate
  <2>8. CASE AcquireConflict(p)
    BY <2>8, <2>f, <2>u DEF AcquireConflict
  <2>9. CASE AcquireReturn(p)
    BY <2>9, <2>0, <2>f, <2>u, <1>e, <1>n DEF AcquireReturn, SetGrant
  <2>10. CASE ReleaseFind(p)
    <3>1. \A id \in FindOne(ByOwner(OwnerOf[p], call[p].key)) : id # NoId =>
             [call[p] EXCEPT !.at = "releaseDelete", !.id = id] \in Calls
      BY <2>0, <2>k, <1>l DEF FindOne, ByOwner, Calls
    <3> QED
      BY <2>10, <3>1, <2>a, <2>f, <2>u DEF ReleaseFind
  <2>11. CASE ReleaseDelete(p)
    <3>1. [call[p] EXCEPT !.at = "releaseAfter", !.id = NoId] \in Calls
      BY <2>0, <1>l DEF Calls
    <3> QED
      BY <2>11, <3>1, <2>a, <2>d DEF ReleaseDelete
  <2>12. CASE ForceFind(p)
    <3>1. \A at \in Labels :
            [call[p] EXCEPT !.at = at, !.todo = ByKey(call[p].key)] \in Calls
      BY <2>0, <2>k DEF Calls
    <3> QED
      BY <2>12, <3>1, <1>l, <2>a, <2>u DEF ForceFind
  <2>13. CASE ForceDelete(p)
    <3> PICK id \in call[p].todo :
          /\ Delete(id)
          /\ call' = [q \in Procs |->
              IF q = p
              THEN [call[p] EXCEPT
                      !.at = IF call[p].todo = {id} THEN "forceAfter" ELSE @,
                      !.todo = @ \ {id}]
              ELSE IF call[q].at \in {"acquireAfter", "extendAfter"}
                      /\ call[q].id = id
              THEN [call[q] EXCEPT !.left = 0]
              ELSE call[q]]
          /\ grant' = [q \in Procs |-> [k \in Keys |->
              IF grant[q][k].id = id THEN NoGrant ELSE grant[q][k]]]
      BY <2>13 DEF ForceDelete
    <3>1. [call[p] EXCEPT
             !.at = IF call[p].todo = {id} THEN "forceAfter" ELSE @,
             !.todo = @ \ {id}] \in Calls
      BY <2>0, <1>l DEF Calls
    <3>2. \A q \in Procs : [call[q] EXCEPT !.left = 0] \in Calls
      BY LeftsType DEF Calls
    <3>3. call' \in [Procs -> Calls]
      BY <3>1, <3>2
    <3>4. grant' \in [Procs -> [Keys -> Grants]]
      BY <1>n
    <3> QED
      BY <3>3, <3>4, <2>d
  <2>14. CASE ExtendFind(p)
    <3>1. \A id \in FindOne(ByOwner(OwnerOf[p], call[p].key)) : id # NoId =>
             [call[p] EXCEPT !.at = "extendUpdate", !.id = id,
                             !.left = ExpiresIn(call[p].ttl)] \in Calls
      BY <2>0, <2>k, <1>l, LeftsType DEF FindOne, ByOwner, Calls
    <3> QED
      BY <2>14, <3>1, <2>a, <2>f, <2>u DEF ExtendFind
  <2>15. CASE ExtendUpdate(p)
    <3>1. [call[p] EXCEPT !.at = "extendAfter"] \in Calls
      BY <2>0, <1>l
    <3>2. StoreOK'
      BY <2>15, <2>0 DEF ExtendUpdate, Update, StoreOK, Rows
    <3> QED
      BY <2>15, <3>1, <3>2, <2>a DEF ExtendUpdate
  <2>16. CASE ExtendLost(p)
    BY <2>16, <2>f, <2>u DEF ExtendLost
  <2>17. CASE ExtendReturn(p)
    BY <2>17, <2>0, <2>f, <2>u, <1>e DEF ExtendReturn, SetGrant
  <2>18. CASE PlainReturn(p)
    BY <2>18, <2>f, <2>u DEF PlainReturn
  <2>19. CASE HookThrows(p)
    BY <2>19, <2>f, <2>u DEF HookThrows
  <2>20. CASE Crash(p)
    BY <2>20, <2>a, <2>u, <1>s, <1>n DEF Crash
  <2> QED
    BY <1>3, <2>1, <2>2, <2>3, <2>4, <2>5, <2>6, <2>7, <2>8, <2>9, <2>10,
       <2>11, <2>12, <2>13, <2>14, <2>15, <2>16, <2>17, <2>18, <2>19, <2>20
    DEF Step, Continue
<1> QED
  BY <1>1, <1>2, <1>3 DEF Next

(* The rows, the suspended calls and the clients' grants are well formed,
   whatever the repository and however the calls interleave. *)
THEOREM Typing == Spec => []TypeOK
<1>1. Init => TypeOK
  BY InitTypeOK
<1>2. TypeOK /\ [Next]_vars => TypeOK'
  BY StepTypeOK
<1> QED
  BY <1>1, <1>2, PTL DEF Spec

-----------------------------------------------------------------------------
(* Mutual exclusion, one key at a time.  A step disturbs what another process
   relies on only by changing rows. *)

(* The locks of q on k that have not expired are left as they are. *)
KeepsLive(q, k) ==
    \A i \in ByKey(k) :
        OwnerMatches(store[i], OwnerOf[q]) /\ ~IsExpired(store[i]) =>
            i \in DOMAIN store' /\ store'[i] = store[i]

(* A row somebody refers to is not turned into another one. *)
KeepsIds ==
    \A i \in DOMAIN store' :
        \/ i \notin Referenced
        \/ /\ i \in DOMAIN store
           /\ store'[i].key = store[i].key
           /\ store'[i].owner = store[i].owner

(* The row a call refers to is one of its key. *)
Known(q) ==
    call[q].id \in DOMAIN store => store[call[q].id].key = call[q].key

(* CallsBacked, of one key. *)
KeyBacked(k) ==
    /\ OneRow(k)
    /\ ~Shared(k)
    /\ \A q \in Procs :
          Holds(q, k) => /\ grant[q][k].left # 0
                         /\ Backed(q, k, grant[q][k].id, grant[q][k].left)
    /\ \A q \in Procs : call[q].key = k => CallBacked(q)

LEMMA KeyByKey ==
    TypeOK => (CallsBacked <=> \A k \in Keys \ muddled : KeyBacked(k))
<1> SUFFICES ASSUME TypeOK
             PROVE  CallsBacked <=> \A k \in Keys \ muddled : KeyBacked(k)
  OBVIOUS
<1>1. \A q \in Procs : call[q].key \in Keys
  BY DEF TypeOK, Calls
<1> QED
  BY <1>1 DEF CallsBacked, GrantBacked, KeyBacked

(* A row that backs a belief backs it after a step that keeps live rows. *)
LEMMA KeepsBacked ==
    ASSUME NEW q \in Procs, NEW k \in Keys, NEW id, NEW left \in Lefts,
           KeepsLive(q, k), Backed(q, k, id, left), left # 0
    PROVE  Backed(q, k, id, left)'
<1>1. ~IsExpired(store[id])
  BY DEF Backed, IsExpired, Outlasts, Lefts, NoExpiry
<1> QED
  BY <1>1 DEF KeepsLive, Backed, ByKey, OwnerMatches

(* So does a client's belief, when its process does not change it. *)
LEMMA KeepsGrant ==
    ASSUME NEW q \in Procs, NEW k \in Keys, TypeOK, KeyBacked(k),
           KeepsLive(q, k), grant'[q][k] = grant[q][k], Holds(q, k)'
    PROVE  /\ grant'[q][k].left # 0
           /\ Backed(q, k, grant[q][k].id, grant[q][k].left)'
<1>1. Holds(q, k)
  BY DEF Holds
<1>2. grant[q][k].left # 0 /\ Backed(q, k, grant[q][k].id, grant[q][k].left)
  BY <1>1 DEF KeyBacked
<1>3. grant[q][k].left \in Lefts
  BY DEF TypeOK, Grants
<1> QED
  BY <1>2, <1>3, KeepsBacked

(* A process that takes no part in a step keeps what it knows. *)
LEMMA KeepsCall ==
    ASSUME NEW q \in Procs, NEW k \in Keys, TypeOK, CallBacked(q), Known(q),
           call[q].key = k, KeepsIds, ~Revives(k), KeepsLive(q, k),
           call'[q] = call[q], grant'[q] = grant[q]
    PROVE  CallBacked(q)'
<1>0. call[q] \in Calls
  BY DEF TypeOK, Calls
<1>1. call[q].id \in Referenced
  BY DEF Referenced
<1>2. (call[q].at = "acquireDelete" /\ call[q].id \in DOMAIN store =>
          IsExpired(store[call[q].id]))'
  BY <1>1 DEF CallBacked, KeepsIds, Known, Revives, ByKey, At
<1>3. (call[q].at = "acquireAfter" /\ call[q].acquired /\ call[q].left # 0 =>
          Backed(q, call[q].key, call[q].id, call[q].left))'
  <2> SUFFICES ASSUME call[q].at = "acquireAfter", call[q].acquired, call[q].left # 0
               PROVE  Backed(q, call[q].key, call[q].id, call[q].left)'
    OBVIOUS
  <2>1. Backed(q, call[q].key, call[q].id, call[q].left)
    BY DEF CallBacked
  <2>2. PICK id \in Ids \cup {NoId}, left \in Lefts :
           id = call[q].id /\ left = call[q].left
    BY <1>0 DEF Calls
  <2>3. Backed(q, k, id, left)'
    BY <2>1, <2>2, KeepsBacked
  <2> QED
    BY <2>2, <2>3 DEF Backed, ByKey
<1>4. (call[q].at = "extendAfter" /\ call[q].left # 0 =>
          Backed(q, call[q].key, call[q].id, call[q].left))'
  <2> SUFFICES ASSUME call[q].at = "extendAfter", call[q].left # 0
               PROVE  Backed(q, call[q].key, call[q].id, call[q].left)'
    OBVIOUS
  <2>1. Backed(q, call[q].key, call[q].id, call[q].left)
    BY DEF CallBacked
  <2>2. PICK id \in Ids \cup {NoId}, left \in Lefts :
           id = call[q].id /\ left = call[q].left
    BY <1>0 DEF Calls
  <2>3. Backed(q, k, id, left)'
    BY <2>1, <2>2, KeepsBacked
  <2> QED
    BY <2>2, <2>3 DEF Backed, ByKey
<1>5. (call[q].at \in {"releaseDelete", "extendUpdate"} =>
          OwnRow(q, call[q].key, call[q].id))'
  BY <1>1 DEF CallBacked, KeepsIds, OwnRow, ByKey, OwnerMatches
<1>6. (/\ call[q].at \in {"releaseFind", "releaseDelete"} => ~Holds(q, call[q].key)
       /\ call[q].at = "extendFind" /\ Holds(q, call[q].key) =>
            Outlasts(ExpiresIn(call[q].ttl), grant[q][call[q].key].left)
       /\ call[q].at = "extendUpdate" /\ Holds(q, call[q].key) =>
            Outlasts(call[q].left, grant[q][call[q].key].left))'
  BY DEF CallBacked, Holds
<1> QED
  BY <1>2, <1>3, <1>4, <1>5, <1>6 DEF CallBacked

(* Only the process that steps has to be looked at. *)
LEMMA OthersBacked ==
    ASSUME NEW p \in Procs, NEW k \in Keys, TypeOK, KeyBacked(k),
           \A q \in Procs : Known(q), KeepsIds, ~Revives(k),
           \A q \in Procs \ {p} : /\ call'[q] = call[q]
                                  /\ grant'[q] = grant[q]
                                  /\ Uses(q, k) => KeepsLive(q, k),
           OneRow(k)', ~Shared(k)', call'[p].key = k => CallBacked(p)',
           Holds(p, k)' => /\ grant'[p][k].left # 0
                           /\ Backed(p, k, grant[p][k].id, grant[p][k].left)'
    PROVE  KeyBacked(k)'
<1>1. ASSUME NEW q \in Procs \ {p}, call'[q].key = k PROVE CallBacked(q)'
  <2>1. CASE Uses(q, k)
    BY <1>1, <2>1, KeepsCall DEF KeyBacked
  <2>2. CASE ~Uses(q, k)
    BY <1>1, <2>2 DEF Uses, CallBacked, Labels, AfterLabels
  <2> QED
    BY <2>1, <2>2
<1>2. ASSUME NEW q \in Procs \ {p}, Holds(q, k)'
      PROVE  /\ grant'[q][k].left # 0
             /\ Backed(q, k, grant[q][k].id, grant[q][k].left)'
  <2>1. Uses(q, k)
    BY <1>2 DEF Uses, Holds
  <2> QED
    BY <1>2, <2>1, KeepsGrant
<1> QED
  BY <1>1, <1>2 DEF KeyBacked

(* The four ways in which a step may treat the rows. *)
LEMMA StepRows ==
    ASSUME NEW p \in Procs, Step(p)
    PROVE  \/ UNCHANGED store
           \/ AcquireDelete(p) \/ ReleaseDelete(p) \/ ForceDelete(p)
           \/ AcquireCreate(p)
           \/ ExtendUpdate(p)
BY DEF Step, Continue, Acquire, Extend, Release, ForceRelease, AcquireFind,
       AcquireConflict, AcquireReturn, ReleaseFind, ForceFind, ExtendFind,
       ExtendLost, ExtendReturn, PlainReturn, HookThrows, Crash

LEMMA StepKeepsIds ==
    ASSUME TypeOK, NEW p \in Procs, Step(p)
    PROVE  KeepsIds
<1>1. CASE UNCHANGED store
  BY <1>1 DEF KeepsIds
<1>2. CASE \E id : Delete(id)
  BY <1>2 DEF Delete, KeepsIds
<1>3. CASE AcquireCreate(p)
  BY <1>3 DEF AcquireCreate, Create, KeepsIds, Referenced
<1>4. CASE ExtendUpdate(p)
  <2>1. store[call[p].id] \in Rows
    BY <1>4 DEF ExtendUpdate, TypeOK, StoreOK
  <2> QED
    BY <1>4, <2>1 DEF ExtendUpdate, Update, KeepsIds, Rows
<1> QED
  BY <1>1, <1>2, <1>3, <1>4, StepRows DEF AcquireDelete, ReleaseDelete, ForceDelete

(* The row a call refers to stays one of its key. *)
LEMMA StepKnown ==
    ASSUME TypeOK, TypeOK', \A q \in Procs : Known(q), NEW p \in Procs, Step(p)
    PROVE  \A q \in Procs : Known(q)'
<1>0. /\ KeepsIds /\ \A q \in Procs : call[q].id \in Referenced
      /\ NoId \notin DOMAIN store'
      /\ call \in [Procs -> Calls] /\ call[p] \in Calls
  BY StepKeepsIds, RepositoryAssumption DEF Referenced, TypeOK, StoreOK
<1>1. ASSUME NEW q \in Procs, call'[q].id = call[q].id, call'[q].key = call[q].key
      PROVE  Known(q)'
  BY <1>0, <1>1 DEF Known, KeepsIds
<1>2. ASSUME NEW q \in Procs, call'[q].id = NoId PROVE Known(q)'
  BY <1>0, <1>2 DEF Known
<1>f. Finish(p) => call'[p].id = NoId
  BY <1>0 DEF Finish, Await, Settled, Begin
<1>3. ASSUME ~ForceDelete(p), NEW q \in Procs \ {p} PROVE call'[q] = call[q]
  BY <1>0, <1>3 DEF Step, Continue, Acquire, Extend, Release, ForceRelease,
     AcquireFind, AcquireDelete, AcquireCreate, AcquireConflict, AcquireReturn,
     ReleaseFind, ReleaseDelete, ForceFind, ExtendFind, ExtendUpdate,
     ExtendLost, ExtendReturn, PlainReturn, HookThrows, Crash, Finish, Await
<1>4. CASE ForceDelete(p)
  <2>1. ASSUME NEW q \in Procs
        PROVE  call'[q].id = call[q].id /\ call'[q].key = call[q].key
    <3>1. call[q] \in Calls
      BY <1>0
    <3>2. PICK id \in call[p].todo, at \in Labels :
             \/ q = p /\ call'[q] = [call[p] EXCEPT !.at = at, !.todo = @ \ {id}]
             \/ call'[q] = [call[q] EXCEPT !.left = 0]
             \/ call'[q] = call[q]
      BY <1>0, <1>4 DEF ForceDelete, Labels, AfterLabels, Calls
    <3> QED
      BY <3>1, <3>2 DEF Calls
  <2> QED
    BY <2>1, <1>1
<1>o. ASSUME ~ForceDelete(p), Known(p)' PROVE \A q \in Procs : Known(q)'
  <2> SUFFICES ASSUME NEW q \in Procs, q # p PROVE Known(q)'
    BY <1>o
  <2>1. call'[q] = call[q]
    BY <1>3, <1>o
  <2> QED
    BY <1>1, <2>1
<1>5. CASE AcquireFind(p) \/ ReleaseFind(p) \/ ExtendFind(p)
  <2>1. PICK id : /\ id = NoId \/ id \in ByKey(call[p].key)
                  /\ UNCHANGED store
                  /\ \/ Finish(p)
                     \/ call'[p].key = call[p].key /\ call'[p].id \in {id, call[p].id}
    <3>1. \A id \in FindOne(ByKey(call[p].key)) \cup FindOne(ByOwner(OwnerOf[p], call[p].key)) :
             id = NoId \/ id \in ByKey(call[p].key)
      BY DEF FindOne, ByOwner
    <3>2. CASE AcquireFind(p)
      <4>1. PICK id \in FindOne(ByKey(call[p].key)) :
               \/ Await(p, [call[p] EXCEPT !.at = "acquireCreate",
                                           !.left = ExpiryOf(call[p].ttl)])
               \/ Await(p, [call[p] EXCEPT !.at = "acquireDelete", !.id = id])
               \/ Await(p, [call[p] EXCEPT !.at = "acquireAfter", !.id = id,
                                           !.left = store[id].left, !.acquired = TRUE])
               \/ Await(p, [call[p] EXCEPT !.at = "acquireAfter", !.acquired = FALSE])
        BY <3>2 DEF AcquireFind
      <4>b. \A c : Await(p, c) => call'[p] = c
        BY <1>0 DEF Await
      <4>2. call'[p].key = call[p].key /\ call'[p].id \in {id, call[p].id}
        <5>1. CASE call'[p] = [call[p] EXCEPT !.at = "acquireCreate",
                                              !.left = ExpiryOf(call[p].ttl)]
          BY <1>0, <5>1 DEF Calls
        <5>2. CASE call'[p] = [call[p] EXCEPT !.at = "acquireDelete", !.id = id]
          BY <1>0, <5>2 DEF Calls
        <5>3. CASE call'[p] = [call[p] EXCEPT !.at = "acquireAfter", !.id = id,
                                       !.left = store[id].left, !.acquired = TRUE]
          BY <1>0, <5>3 DEF Calls
        <5>4. CASE call'[p] = [call[p] EXCEPT !.at = "acquireAfter", !.acquired = FALSE]
          BY <1>0, <5>4 DEF Calls
        <5> QED
          BY <4>1, <4>b, <5>1, <5>2, <5>3, <5>4
      <4>3. (id = NoId \/ id \in ByKey(call[p].key)) /\ UNCHANGED store
        BY <3>1, <3>2 DEF AcquireFind
      <4> HIDE DEF FindOne, ByKey, ByOwner
      <4> QED
        BY <4>2, <4>3
    <3>3. CASE ReleaseFind(p)
      BY <1>0, <3>1, <3>3 DEF ReleaseFind, Await, Calls
    <3>4. CASE ExtendFind(p)
      BY <1>0, <3>1, <3>4 DEF ExtendFind, Await, Calls
    <3> QED
      BY <1>5, <3>2, <3>3, <3>4
  <2>2. Known(p)
    OBVIOUS
  <2>3. ASSUME Finish(p) PROVE Known(p)'
    BY <2>3, <1>f, <1>2
  <2>4. ASSUME call'[p].key = call[p].key, call'[p].id \in {id, call[p].id}
        PROVE  Known(p)'
    BY <1>0, <2>1, <2>2, <2>4 DEF Known, ByKey
  <2>5. Known(p)'
    BY <2>1, <2>3, <2>4
  <2> QED
    BY <1>5, <1>o, <2>5 DEF ForceDelete, AcquireFind, ReleaseFind, ExtendFind, At
<1>6. CASE AcquireCreate(p)
  <2>1. PICK id \in Ids \ Referenced :
         /\ Create(id, [key |-> call[p].key, owner |-> OwnerOf[p],
                        count |-> 1, left |-> call[p].left])
         /\ Await(p, [call[p] EXCEPT !.at = "acquireAfter", !.id = id,
                                     !.acquired = TRUE])
    BY <1>6 DEF AcquireCreate
  <2>2. call'[p].id = id /\ call'[p].key = call[p].key /\ store'[id].key = call[p].key
    BY <1>0, <2>1 DEF Create, Await, Calls
  <2>3. Known(p)'
    BY <2>2 DEF Known
  <2> QED
    BY <1>6, <1>o, <2>3 DEF ForceDelete, AcquireCreate, At
<1>7. CASE \/ AcquireDelete(p) \/ ReleaseDelete(p)
           \/ \E k \in Keys : \/ Release(p, k) \/ ForceRelease(p, k)
                             \/ \E ttl \in Ttls : Acquire(p, k, ttl) \/ Extend(p, k, ttl)
           \/ Crash(p) \/ Finish(p)
  <2>a. \A c : Await(p, c) => call'[p] = c
    BY <1>0 DEF Await
  <2>1. call'[p].id = NoId
    <3>1. CASE AcquireDelete(p) \/ ReleaseDelete(p)
      BY <1>0, <3>1, <2>a DEF AcquireDelete, ReleaseDelete, Calls
    <3>2. CASE \/ \E k \in Keys : Release(p, k) \/ ForceRelease(p, k)
               \/ \E k \in Keys, ttl \in Ttls : Acquire(p, k, ttl) \/ Extend(p, k, ttl)
      <4>1. \E l, k, ttl : Await(p, Begin(l, k, ttl))
        BY <3>2 DEF Release, ForceRelease, Acquire, Extend
      <4> QED
        BY <4>1, <2>a DEF Begin
    <3>3. CASE Crash(p) \/ Finish(p)
      BY <3>3, <1>f, <2>a DEF Crash, Settled, Begin
    <3> QED
      BY <1>7, <3>1, <3>2, <3>3
  <2> QED
    BY <1>2, <1>4, <1>o, <2>1
<1>8. CASE ForceFind(p) \/ ExtendUpdate(p)
  <2>1. call'[p].id = call[p].id /\ call'[p].key = call[p].key
    BY <1>0, <1>8 DEF ForceFind, ExtendUpdate, Await, Calls
  <2> QED
    BY <1>1, <1>4, <1>o, <2>1
<1> QED
  BY <1>4, <1>5, <1>6, <1>7, <1>8
     DEF Step, Continue, AcquireConflict, AcquireReturn, ExtendLost,
         ExtendReturn, PlainReturn, HookThrows

(* The step of one process, on any key it does not muddle. *)
LEMMA StepKeyBacked ==
    ASSUME TypeOK, \A q \in Procs : Known(q), NEW p \in Procs, Step(p),
           NEW k \in Keys, KeyBacked(k),
           ~CreatesBeside(k), ~Revives(k), ~Shared(k)'
    PROVE  KeyBacked(k)'
<1>0. /\ call[p] \in Calls /\ call[p].key \in Keys
      /\ call[p].ttl \in Nat
      /\ call[p].id \in Ids \cup {NoId} /\ call[p].left \in Lefts
      /\ OwnerOf[p] \in Owners
  BY MutexAssumption DEF TypeOK, Calls
<1>b. OneRow(k) /\ (call[p].key = k => CallBacked(p))
  BY DEF KeyBacked
<1>a. call \in [Procs -> Calls] /\ Known(p)
  BY DEF TypeOK
<1>i. KeepsIds
  BY StepKeepsIds
<1>r. \A q \in Procs : call[q].id \in Referenced
  BY DEF Referenced
<1>w. \A c : Await(p, c) => /\ call'[p] = c
                            /\ \A q \in Procs \ {p} : call'[q] = call[q]
  BY <1>a DEF Await
<1>c. Finish(p) => CallBacked(p)' /\ \A q \in Procs \ {p} : call'[q] = call[q]
  BY <1>w DEF Finish, Settled, Begin, CallBacked
<1>g. \A l \in Keys : \A g : SetGrant(p, l, g) =>
         /\ \A q \in Procs \ {p} : grant'[q] = grant[q]
         /\ grant'[p][l] = g
         /\ \A m \in Keys \ {l} : grant'[p][m] = grant[p][m]
  BY DEF SetGrant, TypeOK
<1>o. OneRow(k)'
  <2>1. CASE UNCHANGED store
    BY <1>b, <2>1 DEF OneRow, ByKey
  <2>2. CASE \E id : Delete(id)
    BY <1>b, <2>2 DEF OneRow, ByKey, Delete
  <2>3. CASE AcquireCreate(p)
    <3> PICK id \in Ids \ Referenced :
           Create(id, [key |-> call[p].key, owner |-> OwnerOf[p],
                       count |-> 1, left |-> call[p].left])
      BY <2>3 DEF AcquireCreate
    <3>1. /\ id \notin DOMAIN store /\ id \in DOMAIN store'
          /\ store'[id].key = call[p].key
          /\ \A i \in DOMAIN store' : i = id \/ (i \in DOMAIN store /\ store'[i] = store[i])
      BY DEF Referenced, Create
    <3>2. call[p].key = k => ByKey(k) = {}
      BY <3>1 DEF CreatesBeside
    <3> QED
      BY <1>b, <3>1, <3>2 DEF OneRow, ByKey
  <2>4. CASE ExtendUpdate(p)
    <3>1. DOMAIN store' = DOMAIN store /\ \A i \in DOMAIN store : store'[i].key = store[i].key
      BY <2>4, <1>i, <1>a DEF ExtendUpdate, Update, TypeOK, StoreOK, Rows
    <3> QED
      BY <1>b, <3>1 DEF OneRow, ByKey
  <2> QED
    BY <2>1, <2>2, <2>3, <2>4, StepRows DEF AcquireDelete, ReleaseDelete, ForceDelete
<1>d. \A id : Delete(id) =>
         \A q \in Procs :
            (id \in ByKey(k) /\ OwnerMatches(store[id], OwnerOf[q]) => IsExpired(store[id]))
            => KeepsLive(q, k)
  BY DEF Delete, KeepsLive, ByKey
<1>n. UNCHANGED store => \A q \in Procs : KeepsLive(q, k)
  BY DEF KeepsLive, ByKey
<1>s. ASSUME UNCHANGED <<store, grant>>, call'[p].key = k => CallBacked(p)',
             \A q \in Procs \ {p} : call'[q] = call[q]
      PROVE  KeyBacked(k)'
  BY <1>s, <1>i, <1>o, <1>n, OthersBacked, KeepsGrant
<1>t. ASSUME NEW l \in Keys, NEW g, UNCHANGED store, SetGrant(p, l, g),
             call'[p].key = k => CallBacked(p)',
             l = k /\ g # NoGrant => g.left # 0 /\ Backed(p, k, g.id, g.left),
             \A q \in Procs \ {p} : call'[q] = call[q]
      PROVE  KeyBacked(k)'
  <2>1. ASSUME Holds(p, k)'
        PROVE  /\ grant'[p][k].left # 0
               /\ Backed(p, k, grant[p][k].id, grant[p][k].left)'
    <3>1. CASE l = k
      BY <3>1, <2>1, <1>t, <1>g DEF Holds, Backed, ByKey
    <3>2. CASE l # k
      BY <3>2, <2>1, <1>t, <1>g, <1>n, KeepsGrant
    <3> QED
      BY <3>1, <3>2
  <2> QED
    BY <2>1, <1>t, <1>g, <1>i, <1>o, <1>n, OthersBacked
<1>1. CASE \E l \in Keys, ttl \in Ttls : Acquire(p, l, ttl)
  <2>1. CallBacked(p)' /\ \A q \in Procs \ {p} : call'[q] = call[q]
    BY <1>1, <1>a DEF Await, Acquire, Begin, CallBacked
  <2> QED
    BY <1>1, <2>1, <1>s DEF Acquire
<1>2. CASE \E l \in Keys, ttl \in Ttls : Extend(p, l, ttl)
  <2> PICK l \in Keys, ttl \in Ttls : Extend(p, l, ttl)
    BY <1>2
  <2> DEFINE g == [grant[p][l] EXCEPT !.left = Shorter(@, ExpiresIn(ttl))]
  <2>0. ttl \in Nat /\ grant[p][l] \in Grants
    BY MutexAssumption DEF TypeOK
  <2>1. g \in Grants /\ g.id = grant[p][l].id
                     /\ g.left = Shorter(grant[p][l].left, ExpiresIn(ttl))
    BY <2>0, LeftsType DEF Grants
  <2>2. g # NoGrant => Holds(p, l)
    BY <2>0 DEF Holds, NoGrant, Grants, Shorter, ExpiresIn, NoExpiry
  <2>3. l = k /\ g # NoGrant => g.left # 0 /\ Backed(p, k, g.id, g.left)
    <3> SUFFICES ASSUME l = k, g # NoGrant PROVE g.left # 0 /\ Backed(p, k, g.id, g.left)
      OBVIOUS
    <3>1. grant[p][l].left # 0 /\ Backed(p, k, grant[p][l].id, grant[p][l].left)
      BY <2>2 DEF KeyBacked
    <3>2. grant[p][l].id \in DOMAIN store /\ store[grant[p][l].id].left \in Lefts
      BY <3>1 DEF Backed, ByKey, TypeOK, StoreOK, Rows
    <3> QED
      BY <3>1, <3>2, <2>0, <2>1 DEF Backed, Outlasts, Shorter, ExpiresIn, NoExpiry, Grants, Lefts
  <2>4. /\ call'[p] = Begin("extendFind", l, ttl)
        /\ \A q \in Procs \ {p} : call'[q] = call[q]
    BY <1>a DEF Await, Extend
  <2>5. SetGrant(p, l, g) /\ UNCHANGED store
    BY DEF Extend
  <2>6. grant'[p][l] = g
    BY <2>5, <1>g
  <2>7. Outlasts(ExpiresIn(ttl), g.left)
    BY <2>0, <2>1 DEF Outlasts, Shorter, ExpiresIn, NoExpiry, Grants, Lefts
  <2>8. CallBacked(p)'
    <3>1. /\ call'[p].at = "extendFind" /\ call'[p].key = l
          /\ call'[p].ttl = ttl
      BY <2>4 DEF Begin
    <3>2. Outlasts(ExpiresIn(call[p].ttl), grant[p][call[p].key].left)'
      BY <2>6, <2>7, <3>1 DEF Outlasts, ExpiresIn
    <3> QED
      BY <3>1, <3>2 DEF CallBacked
  <2> HIDE DEF g
  <2> QED
    BY <2>3, <2>4, <2>5, <2>8, <1>t
<1>3. CASE \E l \in Keys : Release(p, l)
  <2> PICK l \in Keys : Release(p, l)
    BY <1>3
  <2>1. /\ call'[p].at = "releaseFind" /\ call'[p].key = l
        /\ \A q \in Procs \ {p} : call'[q] = call[q]
    BY <1>a DEF Await, Release, Begin
  <2>2. grant'[p][l] = NoGrant
    BY <1>g DEF Release
  <2>3. CallBacked(p)'
    <3>1. ~Holds(p, call[p].key)'
      BY <2>1, <2>2 DEF Holds
    <3> QED
      BY <2>1, <3>1 DEF CallBacked
  <2> QED
    BY <2>1, <2>3, <1>t DEF Release
<1>4. CASE \E l \in Keys : ForceRelease(p, l)
  <2>1. CallBacked(p)' /\ \A q \in Procs \ {p} : call'[q] = call[q]
    BY <1>4, <1>a DEF Await, ForceRelease, Begin, CallBacked
  <2> QED
    BY <1>4, <2>1, <1>s DEF ForceRelease
<1>5. CASE AcquireFind(p)
  <2> PICK id \in FindOne(ByKey(call[p].key)) :
        \/ Await(p, [call[p] EXCEPT !.at = "acquireCreate",
                                    !.left = ExpiryOf(call[p].ttl)])
        \/ /\ id # NoId /\ IsExpired(store[id])
           /\ Await(p, [call[p] EXCEPT !.at = "acquireDelete", !.id = id])
        \/ /\ id # NoId /\ ~IsExpired(store[id])
           /\ OwnerMatches(store[id], OwnerOf[p])
           /\ Await(p, [call[p] EXCEPT !.at = "acquireAfter", !.id = id,
                                    !.left = store[id].left, !.acquired = TRUE])
        \/ Await(p, [call[p] EXCEPT !.at = "acquireAfter", !.acquired = FALSE])
    BY <1>5 DEF AcquireFind
  <2>0. /\ \A q \in Procs \ {p} : call'[q] = call[q]
        /\ UNCHANGED <<store, grant>>
    BY <1>5, <1>a DEF Await, AcquireFind
  <2>1. CASE Await(p, [call[p] EXCEPT !.at = "acquireCreate",
                                      !.left = ExpiryOf(call[p].ttl)])
    <3>1. call'[p].at = "acquireCreate"
      BY <2>1, <1>0, <1>a DEF Await, Calls
    <3> QED
      BY <2>0, <3>1, <1>s DEF CallBacked
  <2>2. CASE /\ id # NoId /\ IsExpired(store[id])
             /\ Await(p, [call[p] EXCEPT !.at = "acquireDelete", !.id = id])
    <3>1. call'[p].at = "acquireDelete" /\ call'[p].id = id
      BY <2>2, <1>0, <1>a DEF Await, Calls
    <3>2. CallBacked(p)'
      BY <2>0, <2>2, <3>1 DEF CallBacked, IsExpired
    <3> QED
      BY <2>0, <3>2, <1>s
  <2>3. CASE /\ id # NoId /\ ~IsExpired(store[id])
             /\ OwnerMatches(store[id], OwnerOf[p])
             /\ Await(p, [call[p] EXCEPT !.at = "acquireAfter", !.id = id,
                                    !.left = store[id].left, !.acquired = TRUE])
    <3>1. /\ call'[p].at = "acquireAfter" /\ call'[p].id = id
          /\ call'[p].left = store[id].left /\ call'[p].key = call[p].key
      BY <2>3, <1>0, <1>a DEF Await, Calls
    <3>2. id \in ByKey(call[p].key) /\ store[id].left \in Lefts
      BY <2>3 DEF FindOne, ByKey, TypeOK, StoreOK, Rows
    <3>3. Backed(p, call[p].key, id, store[id].left)
      BY <2>3, <3>2 DEF Backed, Outlasts, Lefts
    <3>4. CallBacked(p)'
      BY <2>0, <3>1, <3>3 DEF CallBacked, Backed, ByKey, OwnerMatches
    <3> QED
      BY <2>0, <3>4, <1>s
  <2>4. CASE Await(p, [call[p] EXCEPT !.at = "acquireAfter", !.acquired = FALSE])
    <3>1. call'[p].at = "acquireAfter" /\ call'[p].acquired = FALSE
      BY <2>4, <1>0, <1>a DEF Await, Calls
    <3> QED
      BY <2>0, <3>1, <1>s DEF CallBacked
  <2> QED
    BY <2>1, <2>2, <2>3, <2>4
<1>6. CASE AcquireDelete(p)
  <2>1. /\ call'[p].at = "acquireCreate"
        /\ \A q \in Procs \ {p} : call'[q] = call[q]
    BY <1>6, <1>0, <1>a DEF Await, AcquireDelete, Calls
  <2>2. call[p].id \in ByKey(k) => IsExpired(store[call[p].id])
    BY <1>6, <1>a, <1>b DEF AcquireDelete, At, CallBacked, Known, ByKey
  <2>3. \A q \in Procs : KeepsLive(q, k)
    BY <1>6, <1>d, <2>2 DEF AcquireDelete
  <2>4. CallBacked(p)' /\ UNCHANGED grant
    BY <1>6, <2>1 DEF CallBacked, AcquireDelete
  <2> QED
    BY <2>1, <2>3, <2>4, <1>i, <1>o, OthersBacked, KeepsGrant
<1>7. CASE AcquireCreate(p)
  <2> PICK id \in Ids \ Referenced :
         /\ Create(id, [key |-> call[p].key, owner |-> OwnerOf[p],
                        count |-> 1, left |-> call[p].left])
         /\ Await(p, [call[p] EXCEPT !.at = "acquireAfter", !.id = id,
                                     !.acquired = TRUE])
    BY <1>7 DEF AcquireCreate
  <2>1. /\ call'[p].at = "acquireAfter" /\ call'[p].id = id
        /\ call'[p].left = call[p].left /\ call'[p].key = call[p].key
        /\ \A q \in Procs \ {p} : call'[q] = call[q]
        /\ UNCHANGED grant
    BY <1>7, <1>0, <1>a DEF Await, AcquireCreate, Calls
  <2>2. id \notin DOMAIN store
    BY DEF Referenced
  <2>3. \A q \in Procs : KeepsLive(q, k)
    BY <2>2 DEF Create, KeepsLive, ByKey
  <2>4. Backed(p, call[p].key, id, call[p].left)'
    BY <1>0, <2>1 DEF Create, Backed, ByKey, OwnerMatches, Outlasts, Lefts
  <2>5. CallBacked(p)'
    BY <2>1, <2>4 DEF CallBacked, Backed, ByKey
  <2> QED
    BY <2>1, <2>3, <2>5, <1>i, <1>o, OthersBacked, KeepsGrant
<1>8. CASE AcquireConflict(p)
  BY <1>8, <1>c, <1>s DEF AcquireConflict
<1>9. CASE AcquireReturn(p)
  <2> DEFINE g == IF call[p].acquired THEN Lease(call[p].id, call[p].left)
                  ELSE NoGrant
  <2>1. SetGrant(p, call[p].key, g) /\ UNCHANGED store
    BY <1>9 DEF AcquireReturn
  <2>2. call[p].key = k /\ g # NoGrant => g.left # 0 /\ Backed(p, k, g.id, g.left)
    BY <1>9, <1>b DEF AcquireReturn, At, Lease, CallBacked
  <2>3. CallBacked(p)' /\ \A q \in Procs \ {p} : call'[q] = call[q]
    BY <1>9, <1>c DEF AcquireReturn
  <2> HIDE DEF g
  <2> QED
    BY <2>1, <2>2, <2>3, <1>0, <1>t
<1>10. CASE ReleaseFind(p)
  <2> PICK id \in FindOne(ByOwner(OwnerOf[p], call[p].key)) :
        \/ /\ id # NoId /\ OwnerMatches(store[id], OwnerOf[p])
           /\ Await(p, [call[p] EXCEPT !.at = "releaseDelete", !.id = id])
        \/ Finish(p)
    BY <1>10 DEF ReleaseFind
  <2>0. UNCHANGED <<store, grant>>
    BY <1>10 DEF ReleaseFind
  <2>1. CASE Finish(p)
    BY <2>0, <2>1, <1>c, <1>s
  <2>2. CASE /\ id # NoId /\ OwnerMatches(store[id], OwnerOf[p])
             /\ Await(p, [call[p] EXCEPT !.at = "releaseDelete", !.id = id])
    <3>1. /\ call'[p].at = "releaseDelete" /\ call'[p].id = id
          /\ call'[p].key = call[p].key
          /\ \A q \in Procs \ {p} : call'[q] = call[q]
      BY <2>2, <1>0, <1>a DEF Await, Calls
    <3>2. OwnRow(p, call[p].key, id) /\ (call[p].key = k => ~Holds(p, k))
      BY <2>2, <1>10, <1>b DEF FindOne, ByOwner, OwnRow, ReleaseFind, At, CallBacked
    <3>3. call'[p].key = k => CallBacked(p)'
      BY <2>0, <3>1, <3>2 DEF CallBacked, OwnRow, ByKey, OwnerMatches, Holds
    <3> QED
      BY <2>0, <3>1, <3>3, <1>s
  <2> QED
    BY <2>1, <2>2
<1>11. CASE ReleaseDelete(p)
  <2>1. /\ call'[p].at = "releaseAfter"
        /\ \A q \in Procs \ {p} : call'[q] = call[q]
    BY <1>11, <1>0, <1>a DEF Await, ReleaseDelete, Calls
  <2>2. call[p].id \in ByKey(k) => /\ call[p].key = k /\ ~Holds(p, k)
                                  /\ OwnerMatches(store[call[p].id], OwnerOf[p])
    BY <1>11, <1>a, <1>b DEF ReleaseDelete, At, CallBacked, OwnRow, Known, ByKey
  <2>3. ASSUME NEW q \in Procs \ {p}, Uses(q, k) PROVE KeepsLive(q, k)
    <3>1. call[p].key = k => Uses(p, k)
      BY <1>11 DEF ReleaseDelete, At, Uses, Labels, AfterLabels
    <3>2. call[p].key = k => OwnerOf[q] # OwnerOf[p]
      BY <2>3, <3>1 DEF KeyBacked, Shared
    <3>3. call[p].id \in ByKey(k) => ~OwnerMatches(store[call[p].id], OwnerOf[q])
      BY <2>2, <3>2 DEF OwnerMatches
    <3> QED
      BY <1>11, <1>d, <3>3 DEF ReleaseDelete
  <2>4. call[p].id \notin ByKey(k) => KeepsLive(p, k)
    BY <1>11, <1>d DEF ReleaseDelete
  <2>5. CallBacked(p)' /\ UNCHANGED grant
    BY <1>11, <2>1 DEF CallBacked, ReleaseDelete
  <2>6. ASSUME Holds(p, k)'
        PROVE  /\ grant'[p][k].left # 0
               /\ Backed(p, k, grant[p][k].id, grant[p][k].left)'
    <3>1. call[p].id \notin ByKey(k)
      BY <2>2, <2>5, <2>6 DEF Holds
    <3> QED
      BY <3>1, <2>4, <2>5, <2>6, KeepsGrant
  <2> QED
    BY <2>1, <2>3, <2>5, <2>6, <1>i, <1>o, OthersBacked
<1>12. CASE ForceFind(p)
  <2>1. /\ call'[p].at \in {"forceAfter", "forceDelete"}
        /\ \A q \in Procs \ {p} : call'[q] = call[q]
        /\ UNCHANGED <<store, grant>>
    BY <1>12, <1>0, <1>a DEF Await, ForceFind, Calls
  <2> QED
    BY <2>1, <1>s DEF CallBacked
<1>13. CASE ForceDelete(p)
  <2> PICK id \in call[p].todo :
        /\ Delete(id)
        /\ call' = [q \in Procs |->
              IF q = p
              THEN [call[p] EXCEPT
                      !.at = IF call[p].todo = {id} THEN "forceAfter" ELSE @,
                      !.todo = @ \ {id}]
              ELSE IF call[q].at \in {"acquireAfter", "extendAfter"}
                      /\ call[q].id = id
              THEN [call[q] EXCEPT !.left = 0]
              ELSE call[q]]
        /\ grant' = [q \in Procs |-> [l \in Keys |->
              IF grant[q][l].id = id THEN NoGrant ELSE grant[q][l]]]
    BY <1>13 DEF ForceDelete
  <2>2. ASSUME NEW q \in Procs, NEW i, NEW left,
               Backed(q, k, i, left), i # id
        PROVE  Backed(q, k, i, left)'
    BY <2>2 DEF Delete, Backed, ByKey, OwnerMatches
  <2>3. ASSUME NEW q \in Procs, Holds(q, k)'
        PROVE  /\ grant'[q][k].left # 0
               /\ Backed(q, k, grant[q][k].id, grant[q][k].left)'
    <3>1. grant[q][k].id # id /\ grant'[q][k] = grant[q][k]
      BY <2>3 DEF Holds
    <3>2. Holds(q, k)
      BY <2>3, <3>1 DEF Holds
    <3>3. grant[q][k].left # 0 /\ Backed(q, k, grant[q][k].id, grant[q][k].left)
      BY <3>2 DEF KeyBacked
    <3>4. PICK i, left : i = grant[q][k].id /\ left = grant[q][k].left
      OBVIOUS
    <3>5. Backed(q, k, i, left)'
      BY <2>2, <3>1, <3>3, <3>4
    <3> QED
      BY <3>1, <3>3, <3>4, <3>5 DEF Backed, ByKey
  <2>4. ASSUME NEW q \in Procs, call'[q].key = k PROVE CallBacked(q)'
    <3>c. call[q] \in Calls
      BY DEF TypeOK
    <3>k. call[q].key = k
      BY <3>c, <2>4 DEF Calls
    <3>0. call[q] \in Calls /\ call[q].key = k /\ CallBacked(q) /\ Known(q)
      BY <3>c, <3>k DEF KeyBacked
    <3>h. Holds(q, k)' => Holds(q, k) /\ grant'[q][k] = grant[q][k]
      BY DEF Holds
    <3>1. CASE q = p
      <4>1. call'[p].at \in {"forceAfter", "forceDelete"}
        BY <1>13, <1>0 DEF ForceDelete, At, Calls
      <4> QED
        BY <3>1, <4>1 DEF CallBacked
    <3>2. CASE /\ q # p /\ call[q].at \in {"acquireAfter", "extendAfter"}
               /\ call[q].id = id
      <4>1. call'[q].at \in {"acquireAfter", "extendAfter"} /\ call'[q].left = 0
        BY <3>0, <3>2 DEF Calls
      <4> QED
        BY <4>1 DEF CallBacked
    <3>3. CASE /\ q # p
               /\ ~(call[q].at \in {"acquireAfter", "extendAfter"} /\ call[q].id = id)
      <4>1. call'[q] = call[q]
        BY <3>3
      <4>2. call[q].id \in Referenced
        BY <1>r
      <4>b. Backed(q, call[q].key, call[q].id, call[q].left) /\ call[q].id # id
               => Backed(q, call[q].key, call[q].id, call[q].left)'
        <5>1. PICK i \in Ids \cup {NoId}, left \in Lefts :
                 i = call[q].id /\ left = call[q].left
          BY <3>0 DEF Calls
        <5>2. Backed(q, k, i, left) /\ i # id => Backed(q, k, i, left)'
          BY <2>2
        <5> QED
          BY <3>0, <4>1, <5>1, <5>2 DEF Backed, ByKey
      <4>3. (call[q].at = "acquireDelete" /\ call[q].id \in DOMAIN store =>
                IsExpired(store[call[q].id]))'
        BY <3>0, <4>1, <4>2, <1>i DEF CallBacked, KeepsIds, Known, Revives, ByKey, At
      <4>4. (call[q].at = "acquireAfter" /\ call[q].acquired /\ call[q].left # 0 =>
                Backed(q, call[q].key, call[q].id, call[q].left))'
        BY <4>1, <4>b, <3>0, <3>3 DEF CallBacked
      <4>5. (call[q].at = "extendAfter" /\ call[q].left # 0 =>
                Backed(q, call[q].key, call[q].id, call[q].left))'
        BY <4>1, <4>b, <3>0, <3>3 DEF CallBacked
      <4>6. (call[q].at \in {"releaseDelete", "extendUpdate"} =>
                OwnRow(q, call[q].key, call[q].id))'
        BY <3>0, <4>1, <4>2, <1>i DEF CallBacked, KeepsIds, OwnRow, ByKey, OwnerMatches
      <4>7. Holds(q, call[q].key)' =>
                Holds(q, call[q].key) /\ grant'[q][call[q].key] = grant[q][call[q].key]
        BY <3>0, <3>h, <4>1 DEF Holds
      <4>8. (/\ call[q].at \in {"releaseFind", "releaseDelete"} => ~Holds(q, call[q].key)
             /\ call[q].at = "extendFind" /\ Holds(q, call[q].key) =>
                  Outlasts(ExpiresIn(call[q].ttl), grant[q][call[q].key].left)
             /\ call[q].at = "extendUpdate" /\ Holds(q, call[q].key) =>
                  Outlasts(call[q].left, grant[q][call[q].key].left))'
        BY <3>0, <4>1, <4>7 DEF CallBacked
      <4> QED
        BY <4>1, <4>3, <4>4, <4>5, <4>6, <4>8 DEF CallBacked
    <3> QED
      BY <3>1, <3>2, <3>3
  <2> QED
    BY <2>3, <2>4, <1>o DEF KeyBacked
<1>14. CASE ExtendFind(p)
  <2> PICK id \in FindOne(ByOwner(OwnerOf[p], call[p].key)) :
        \/ /\ id # NoId /\ OwnerMatches(store[id], OwnerOf[p])
           /\ Await(p, [call[p] EXCEPT !.at = "extendUpdate", !.id = id,
                                       !.left = ExpiresIn(call[p].ttl)])
        \/ Finish(p)
    BY <1>14 DEF ExtendFind
  <2>0. UNCHANGED <<store, grant>>
    BY <1>14 DEF ExtendFind
  <2>1. CASE Finish(p)
    BY <2>0, <2>1, <1>c, <1>s
  <2>2. CASE /\ id # NoId /\ OwnerMatches(store[id], OwnerOf[p])
             /\ Await(p, [call[p] EXCEPT !.at = "extendUpdate", !.id = id,
                                         !.left = ExpiresIn(call[p].ttl)])
    <3>1. /\ call'[p].at = "extendUpdate" /\ call'[p].id = id
          /\ call'[p].key = call[p].key
          /\ call'[p].left = ExpiresIn(call[p].ttl)
          /\ \A q \in Procs \ {p} : call'[q] = call[q]
      BY <2>2, <1>0, <1>a DEF Await, Calls
    <3>2. OwnRow(p, call[p].key, id)
      BY <2>2 DEF FindOne, ByOwner, OwnRow
    <3>3. call[p].key = k /\ Holds(p, k) =>
            Outlasts(ExpiresIn(call[p].ttl), grant[p][k].left)
      BY <1>14, <1>b DEF ExtendFind, At, CallBacked
    <3>4. call'[p].key = k => CallBacked(p)'
      BY <2>0, <3>1, <3>2, <3>3 DEF CallBacked, OwnRow, ByKey, OwnerMatches, Holds
    <3> QED
      BY <2>0, <3>1, <3>4, <1>s
  <2> QED
    BY <2>1, <2>2
<1>15. CASE ExtendUpdate(p)
  <2> PICK id \in Ids \cup {NoId} : id = call[p].id
    BY <1>0
  <2>1. /\ call'[p].at = "extendAfter" /\ call'[p].id = id
        /\ call'[p].key = call[p].key /\ call'[p].left = call[p].left
        /\ \A q \in Procs \ {p} : call'[q] = call[q]
        /\ UNCHANGED grant
    BY <1>15, <1>0, <1>a DEF ExtendUpdate, Await, Calls
  <2>2. /\ id \in DOMAIN store
        /\ DOMAIN store' = DOMAIN store
        /\ \A i \in DOMAIN store : i # id => store'[i] = store[i]
        /\ store[id] \in Rows
        /\ store'[id] = [store[id] EXCEPT !.left = call[p].left]
    BY <1>15 DEF ExtendUpdate, Update, TypeOK, StoreOK
  <2>3. /\ store'[id].key = store[id].key /\ store'[id].owner = store[id].owner
        /\ store'[id].left = call[p].left
    BY <2>2 DEF Rows
  <2>4. /\ store[id].key = call[p].key
        /\ call[p].key = k => id \in ByKey(k) /\ store[id].owner = OwnerOf[p]
    BY <1>15, <1>a, <1>b, <2>2 DEF ExtendUpdate, At, CallBacked, OwnRow, OwnerMatches, ByKey, Known
  <2>5. call[p].key # k => \A q \in Procs : KeepsLive(q, k)
    BY <2>2, <2>4 DEF KeepsLive, ByKey
  <2>7. ASSUME NEW q \in Procs \ {p}, Uses(q, k), call[p].key = k PROVE KeepsLive(q, k)
    <3>1. Uses(p, k)
      BY <1>15, <2>7 DEF ExtendUpdate, At, Uses, Labels, AfterLabels
    <3>2. OwnerOf[q] # OwnerOf[p]
      BY <2>7, <3>1 DEF KeyBacked, Shared
    <3> QED
      BY <2>2, <2>4, <2>7, <3>2 DEF KeepsLive, OwnerMatches, ByKey
  <2>9. call[p].key = k => Backed(p, k, id, call[p].left)'
    <3> SUFFICES ASSUME call[p].key = k PROVE Backed(p, k, id, call[p].left)'
      OBVIOUS
    <3>1. id \in ByKey(k)' /\ OwnerMatches(store[id], OwnerOf[p])'
      BY <2>2, <2>3, <2>4 DEF ByKey, OwnerMatches
    <3>2. store'[id].left = call'[p].left /\ call'[p].left \in Lefts
      BY <2>1, <2>3, <1>0
    <3> QED
      BY <3>1, <3>2 DEF Backed, Outlasts, Lefts
  <2>10. call'[p].key = k => CallBacked(p)'
    <3> SUFFICES ASSUME call'[p].key = k PROVE CallBacked(p)'
      OBVIOUS
    <3>1. Backed(p, call[p].key, call[p].id, call[p].left)'
      BY <2>1, <2>9 DEF Backed, ByKey
    <3> QED
      BY <2>1, <3>1 DEF CallBacked
  <2>11. ASSUME Holds(p, k)'
         PROVE  /\ grant'[p][k].left # 0
                /\ Backed(p, k, grant[p][k].id, grant[p][k].left)'
    <3>1. CASE call[p].key # k
      BY <3>1, <2>1, <2>5, <2>11, KeepsGrant
    <3>2. CASE call[p].key = k
      <4>1. /\ Holds(p, k) /\ grant[p][k].left # 0
            /\ Backed(p, k, grant[p][k].id, grant[p][k].left)
        BY <2>1, <2>11 DEF Holds, KeyBacked
      <4>2. grant[p][k].id = id
        BY <4>1, <3>2, <2>4, <1>b DEF Backed, OneRow
      <4>3. Outlasts(call[p].left, grant[p][k].left)
        BY <1>15, <3>2, <4>1, <1>b DEF ExtendUpdate, At, CallBacked
      <4> QED
        BY <3>2, <4>1, <4>2, <4>3, <2>1, <2>2, <2>3, <2>4
        DEF Backed, ByKey, OwnerMatches
    <3> QED
      BY <3>1, <3>2
  <2> QED
    BY <2>1, <2>5, <2>7, <2>10, <2>11, <1>i, <1>o, OthersBacked
<1>16. CASE ExtendLost(p)
  BY <1>16, <1>c, <1>s DEF ExtendLost
<1>17. CASE ExtendReturn(p)
  <2> DEFINE g == Lease(call[p].id, call[p].left)
  <2>1. SetGrant(p, call[p].key, g) /\ UNCHANGED store
    BY <1>17 DEF ExtendReturn
  <2>2. call[p].key = k /\ g # NoGrant => g.left # 0 /\ Backed(p, k, g.id, g.left)
    BY <1>17, <1>b DEF ExtendReturn, At, Lease, CallBacked
  <2>3. CallBacked(p)' /\ \A q \in Procs \ {p} : call'[q] = call[q]
    BY <1>17, <1>c DEF ExtendReturn
  <2> HIDE DEF g
  <2> QED
    BY <2>1, <2>2, <2>3, <1>0, <1>t
<1>18. CASE PlainReturn(p)
  BY <1>18, <1>c, <1>s DEF PlainReturn
<1>19. CASE HookThrows(p)
  BY <1>19, <1>c, <1>s DEF HookThrows
<1>20. CASE Crash(p)
  <2>1. /\ CallBacked(p)' /\ UNCHANGED store
        /\ \A q \in Procs \ {p} : call'[q] = call[q] /\ grant'[q] = grant[q]
        /\ ~Holds(p, k)'
    BY <1>20, <1>w DEF Crash, Settled, Begin, CallBacked, Holds, TypeOK
  <2> QED
    BY <2>1, <1>i, <1>n, <1>o, OthersBacked
<1> QED
  BY <1>1, <1>2, <1>3, <1>4, <1>5, <1>6, <1>7, <1>8, <1>9, <1>10, <1>11, <1>12,
     <1>13, <1>14, <1>15, <1>16, <1>17, <1>18, <1>19, <1>20 DEF Step, Continue

(* A tick shortens rows and beliefs alike, and revives nothing. *)
LEMMA TickKeyBacked ==
    ASSUME TypeOK, NEW k \in Keys, KeyBacked(k), ~Shared(k)', Tick
    PROVE  KeyBacked(k)'
<1>1. /\ DOMAIN store' = DOMAIN store
      /\ \A i \in DOMAIN store :
            /\ store'[i].key = store[i].key
            /\ store'[i].owner = store[i].owner
            /\ store[i].left \in Lefts
            /\ store'[i].left = Aged(store[i].left)
  BY DEF Tick, AgeRows, TypeOK, StoreOK, Rows
<1>2. ASSUME NEW q \in Procs
      PROVE  /\ call[q] \in Calls
             /\ call'[q].at = call[q].at /\ call'[q].key = call[q].key
             /\ call'[q].ttl = call[q].ttl /\ call'[q].id = call[q].id
             /\ call'[q].acquired = call[q].acquired
             /\ call'[q].left = Aged(call[q].left)
             /\ grant[q][k] \in Grants
             /\ grant'[q][k] = Lease(grant[q][k].id, Aged(grant[q][k].left))
  BY DEF Tick, TypeOK, Calls
<1>3. \A a, b \in Lefts : Outlasts(a, b) => Outlasts(Aged(a), Aged(b)) /\ Outlasts(a, Aged(b))
  BY DEF Outlasts, Aged, Lefts, NoExpiry
<1>4. \A q \in Procs : Holds(q, k)' =>
         /\ Holds(q, k)
         /\ grant'[q][k].id = grant[q][k].id
         /\ grant'[q][k].left = Aged(grant[q][k].left)
         /\ grant'[q][k].left # 0
  <2> SUFFICES ASSUME NEW q \in Procs, Holds(q, k)'
               PROVE  /\ Holds(q, k)
                      /\ grant'[q][k].id = grant[q][k].id
                      /\ grant'[q][k].left = Aged(grant[q][k].left)
                      /\ grant'[q][k].left # 0
    OBVIOUS
  <2>1. grant'[q][k] = Lease(grant[q][k].id, Aged(grant[q][k].left))
    BY <1>2
  <2>2. grant'[q][k] # NoGrant
    BY DEF Holds
  <2>3. /\ Aged(grant[q][k].left) # 0
        /\ grant'[q][k] = [id |-> grant[q][k].id, left |-> Aged(grant[q][k].left)]
    BY <2>1, <2>2 DEF Lease
  <2>4. Holds(q, k)
    BY <2>3 DEF Holds, NoGrant, Aged
  <2> QED
    BY <2>3, <2>4
<1>5. OneRow(k)'
  BY <1>1 DEF KeyBacked, OneRow, ByKey
<1>6. ASSUME NEW q \in Procs, Holds(q, k)'
      PROVE  /\ grant'[q][k].left # 0
             /\ Backed(q, k, grant[q][k].id, grant[q][k].left)'
  <2>1. Backed(q, k, grant[q][k].id, grant[q][k].left)
    BY <1>4, <1>6 DEF KeyBacked
  <2>2. grant[q][k].left \in Lefts
    BY <1>2 DEF Grants
  <2> QED
    BY <2>1, <2>2, <1>1, <1>3, <1>4, <1>6 DEF Backed, ByKey, OwnerMatches
<1>7. ASSUME NEW q \in Procs, call'[q].key = k PROVE CallBacked(q)'
  <2>0. /\ CallBacked(q) /\ call[q].left \in Lefts /\ call[q].key = k
        /\ grant[q][call[q].key].left \in Lefts
        /\ ExpiresIn(call[q].ttl) \in Lefts
    BY <1>2, <1>7, MutexAssumption, LeftsType DEF KeyBacked, Calls, Grants
  <2>1. (call[q].at = "acquireDelete" /\ call[q].id \in DOMAIN store =>
            IsExpired(store[call[q].id]))'
    BY <1>1, <1>2, <2>0 DEF CallBacked, IsExpired, Aged
  <2>2. call'[q].left # 0 /\ Backed(q, call[q].key, call[q].id, call[q].left)
          => Backed(q, call[q].key, call[q].id, call[q].left)'
    BY <1>1, <1>2, <1>3, <2>0 DEF Backed, ByKey, OwnerMatches
  <2>3. call'[q].left # 0 => call[q].left # 0
    BY <1>2 DEF Aged
  <2>4. (/\ call[q].at = "acquireAfter" /\ call[q].acquired /\ call[q].left # 0 =>
               Backed(q, call[q].key, call[q].id, call[q].left)
         /\ call[q].at = "extendAfter" /\ call[q].left # 0 =>
               Backed(q, call[q].key, call[q].id, call[q].left))'
    BY <1>2, <2>0, <2>2, <2>3 DEF CallBacked
  <2>5. (/\ call[q].at \in {"releaseFind", "releaseDelete"} => ~Holds(q, call[q].key)
         /\ call[q].at \in {"releaseDelete", "extendUpdate"} =>
               OwnRow(q, call[q].key, call[q].id))'
    <3>1. Holds(q, call[q].key)' => Holds(q, call[q].key)
      BY <1>2, <1>4, <2>0 DEF Holds
    <3>2. OwnRow(q, call[q].key, call[q].id) => OwnRow(q, call[q].key, call[q].id)'
      BY <1>1, <1>2 DEF OwnRow, ByKey, OwnerMatches
    <3> QED
      BY <1>2, <2>0, <3>1, <3>2 DEF CallBacked
  <2>6. (/\ call[q].at = "extendFind" /\ Holds(q, call[q].key) =>
               Outlasts(ExpiresIn(call[q].ttl), grant[q][call[q].key].left)
         /\ call[q].at = "extendUpdate" /\ Holds(q, call[q].key) =>
               Outlasts(call[q].left, grant[q][call[q].key].left))'
    <3>1. Holds(q, call[q].key)' =>
             /\ Holds(q, call[q].key)
             /\ grant'[q][call[q].key].left = Aged(grant[q][call[q].key].left)
      BY <1>2, <1>4, <2>0 DEF Holds
    <3>2. ExpiresIn(call[q].ttl)' = ExpiresIn(call[q].ttl)
      BY <1>2 DEF ExpiresIn
    <3> QED
      BY <1>2, <1>3, <2>0, <3>1, <3>2 DEF CallBacked
  <2> QED
    BY <2>1, <2>4, <2>5, <2>6 DEF CallBacked
<1> QED
  BY <1>5, <1>6, <1>7 DEF KeyBacked

(* The inductive invariant. *)
MutexInv ==
    /\ TypeOK
    /\ \A q \in Procs : Known(q)
    /\ \A k \in Keys \ muddled : KeyBacked(k)

LEMMA InitMutexInv == Init => MutexInv
<1> SUFFICES ASSUME Init PROVE MutexInv
  OBVIOUS
<1>1. TypeOK
  BY InitTypeOK
<1>2. ASSUME NEW k \in Keys PROVE KeyBacked(k)
  <2>1. ByKey(k) = {} /\ \A q \in Procs : ~Uses(q, k) /\ CallBacked(q) /\ ~Holds(q, k)
    BY DEF Init, Uses, Holds, ByKey, Settled, Begin, CallBacked
  <2> QED
    BY <2>1 DEF KeyBacked, OneRow, Shared
<1>3. \A q \in Procs : Known(q)
  BY DEF Init, Known
<1> QED
  BY <1>1, <1>2, <1>3 DEF MutexInv

LEMMA NextMutexInv == MutexInv /\ [Next]_vars => MutexInv'
<1> SUFFICES ASSUME MutexInv, [Next]_vars PROVE MutexInv'
  OBVIOUS
<1>0. TypeOK /\ \A q \in Procs : Known(q)
  BY DEF MutexInv
<1>1. TypeOK'
  BY <1>0, StepTypeOK
<1>2. CASE UNCHANGED vars
  <2>1. store' = store /\ call' = call /\ grant' = grant /\ muddled' = muddled
    BY <1>2 DEF vars
  <2>2. \A q \in Procs : Known(q)'
    BY <1>0, <2>1 DEF Known
  <2>3. \A k \in Keys : Shared(k)' => Shared(k)
    BY <2>1 DEF Shared, Uses, Holds
  <2>4. ASSUME NEW k \in Keys \ muddled PROVE KeyBacked(k)'
    <3>1. KeyBacked(k) /\ ~Shared(k)'
      BY <2>3 DEF MutexInv, KeyBacked
    <3>2. \A q \in Procs : CallBacked(q) => CallBacked(q)'
      BY <2>1 DEF CallBacked, Backed, OwnRow, ByKey, Holds
    <3>3. \A q \in Procs : \A id, left : Backed(q, k, id, left) => Backed(q, k, id, left)'
      BY <2>1 DEF Backed, ByKey
    <3> QED
      BY <2>1, <3>1, <3>2, <3>3 DEF KeyBacked, OneRow, ByKey, Holds, Backed
  <2> QED
    BY <1>1, <2>1, <2>2, <2>4 DEF MutexInv
<1>3. CASE Next
  <2>1. \A q \in Procs : Known(q)'
    <3>1. CASE Tick
      <4>1. /\ DOMAIN store' = DOMAIN store
            /\ \A i \in DOMAIN store : store'[i].key = store[i].key
            /\ \A q \in Procs : call'[q].id = call[q].id /\ call'[q].key = call[q].key
        BY <1>0, <3>1 DEF Tick, AgeRows, TypeOK, StoreOK, Rows, Calls
      <4> QED
        BY <1>0, <4>1 DEF Known
    <3> QED
      BY <1>0, <1>1, <1>3, <3>1, StepKnown DEF Next
  <2>2. ASSUME NEW k \in Keys \ muddled' PROVE KeyBacked(k)'
    <3>1. CASE Quiet(k)'
      <4>1. \A q \in Procs : ~Holds(q, k)'
        BY <3>1 DEF Quiet, Uses
      <4>2. ASSUME NEW q \in Procs, call'[q].key = k PROVE CallBacked(q)'
        <5>1. call'[q].at \in {"idle", "dead", "forceFind", "forceDelete", "forceAfter"}
          BY <1>1, <3>1, <4>2 DEF Quiet, Uses, TypeOK, Calls
        <5> QED
          BY <5>1 DEF CallBacked
      <4> QED
        BY <3>1, <4>1, <4>2 DEF KeyBacked, Quiet, OneRow, Shared
    <3>2. CASE ~Quiet(k)'
      <4>1. /\ k \notin muddled
            /\ ~CreatesBeside(k) /\ ~Revives(k) /\ ~Shared(k)'
        BY <1>3, <2>2, <3>2 DEF Next, Remember
      <4>2. KeyBacked(k)
        BY <4>1 DEF MutexInv
      <4> QED
        BY <1>0, <1>3, <4>1, <4>2, StepKeyBacked, TickKeyBacked DEF Next
    <3> QED
      BY <3>1, <3>2
  <2> QED
    BY <1>1, <2>1, <2>2 DEF MutexInv
<1> QED
  BY <1>2, <1>3

(* What every suspended call of a key that is not muddled read before its
   await is still true. *)
THEOREM Backing == Spec => []CallsBacked
<1>1. MutexInv => CallsBacked
  BY KeyByKey DEF MutexInv
<1> QED
  BY <1>1, InitMutexInv, NextMutexInv, PTL DEF Spec

(* "One holder at a time": whatever the clients call, whatever hooks throw or
   processes crash, and whatever the repository does with a second row, at
   most one owner may conclude that it holds a key that is not muddled. *)
THEOREM Exclusion == Spec => []MutualExclusion
<1>1. MutexInv => MutualExclusion
  BY DEF MutexInv, KeyBacked, MutualExclusion, Backed, OneRow, OwnerMatches
<1> QED
  BY <1>1, InitMutexInv, NextMutexInv, PTL DEF Spec

(* Nor is a client deceived about its lock of such a key. *)
THEOREM NeverDeceived == Spec => []GrantBacked
<1>1. CallsBacked => GrantBacked
  BY DEF CallsBacked
<1> QED
  BY <1>1, Backing, PTL

-----------------------------------------------------------------------------
(* Only a delete removes rows. *)
LEMMA StepRemoves ==
    ASSUME MutexInv, NEW p \in Procs, Step(p),
           NEW i \in DOMAIN store, i \notin DOMAIN store',
           store[i].key \notin muddled
    PROVE  \/ IsExpired(store[i])
           \/ /\ At(p, "releaseDelete")
              /\ OwnerMatches(store[i], OwnerOf[p])
              /\ ~Holds(p, store[i].key)
           \/ At(p, "forceDelete") /\ i \in call[p].todo
<1>0. i = call[p].id => CallBacked(p) /\ store[i].key = call[p].key
  <2>1. call[p].key \in Keys
    BY DEF MutexInv, TypeOK, Calls
  <2> QED
    BY <2>1 DEF MutexInv, Known, KeyBacked
<1>1. CASE AcquireDelete(p)
  BY <1>0, <1>1 DEF AcquireDelete, Delete, At, CallBacked
<1>2. CASE ReleaseDelete(p)
  <2>1. i = call[p].id
    BY <1>2 DEF ReleaseDelete, Delete
  <2> QED
    BY <1>0, <1>2, <2>1 DEF ReleaseDelete, At, CallBacked, OwnRow, ByKey
<1>3. CASE ForceDelete(p)
  BY <1>3 DEF ForceDelete, Delete
<1>4. CASE AcquireCreate(p)
  BY <1>4 DEF AcquireCreate, Create
<1>5. CASE ExtendUpdate(p)
  BY <1>5 DEF ExtendUpdate, Update
<1>6. CASE UNCHANGED store
  BY <1>6
<1> QED
  BY <1>1, <1>2, <1>3, <1>4, <1>5, <1>6
  DEF Step, Continue, Acquire, Extend, Release, ForceRelease, AcquireFind,
      AcquireConflict, AcquireReturn, ReleaseFind, ForceFind, ExtendFind,
      ExtendLost, ExtendReturn, PlainReturn, HookThrows, Crash

(* A live lock of a key that is not muddled goes only by a release of its own
   owner or by a forceRelease that found it: a reclaim that was decided on an
   expired lock never deletes a live one. *)
THEOREM Kept == Spec => LiveLockKept
<1>1. MutexInv /\ [Next]_vars => [Removal]_vars
  <2> SUFFICES ASSUME MutexInv, Next PROVE Removal
    BY DEF vars
  <2>1. CASE Tick
    BY <2>1 DEF Tick, AgeRows, Removal
  <2>2. CASE \E p \in Procs : Step(p)
    BY <2>2, StepRemoves DEF Removal
  <2> QED
    BY <2>1, <2>2 DEF Next
<1> QED
  BY <1>1, InitMutexInv, NextMutexInv, PTL DEF Spec, LiveLockKept

-----------------------------------------------------------------------------
(* Whose beliefs a step may strengthen: those of its own process on one key. *)
LEMMA StepHolds ==
    ASSUME TypeOK, NEW p \in Procs, Step(p)
    PROVE  \/ \A q \in Procs, k \in Keys : Holds(q, k)' => Holds(q, k)
           \/ /\ AcquireReturn(p) \/ ExtendReturn(p)
              /\ \A q \in Procs, k \in Keys :
                    q # p \/ k # call[p].key => Holds(q, k)' = Holds(q, k)
<1>g. \A k \in Keys : \A g : SetGrant(p, k, g) =>
         /\ grant'[p][k] = g
         /\ \A q \in Procs, l \in Keys : q # p \/ l # k => grant'[q][l] = grant[q][l]
  BY DEF SetGrant, TypeOK
<1>1. CASE AcquireReturn(p) \/ ExtendReturn(p)
  <2>1. call[p].key \in Keys /\ \E g : SetGrant(p, call[p].key, g)
    BY <1>1 DEF AcquireReturn, ExtendReturn, TypeOK, Calls
  <2> QED
    BY <1>1, <1>g, <2>1 DEF Holds
<1>2. CASE UNCHANGED grant
  BY <1>2 DEF Holds
<1>3. CASE ForceDelete(p)
  <2> PICK id \in call[p].todo :
        grant' = [q \in Procs |-> [k \in Keys |->
              IF grant[q][k].id = id THEN NoGrant ELSE grant[q][k]]]
    BY <1>3 DEF ForceDelete
  <2>1. \A q \in Procs, k \in Keys :
           grant'[q][k] = NoGrant \/ grant'[q][k] = grant[q][k]
    OBVIOUS
  <2> QED
    BY <2>1 DEF Holds
<1>4. CASE Crash(p)
  BY <1>4 DEF Crash, Holds, TypeOK
<1>5. CASE \E k \in Keys : Release(p, k)
  BY <1>5, <1>g DEF Release, Holds
<1>6. CASE \E k \in Keys, ttl \in Ttls : Extend(p, k, ttl)
  <2> PICK k \in Keys, ttl \in Ttls : Extend(p, k, ttl)
    BY <1>6
  <2> DEFINE g == [grant[p][k] EXCEPT !.left = Shorter(@, ExpiresIn(ttl))]
  <2>0. ttl \in Nat /\ grant[p][k] \in Grants
    BY MutexAssumption DEF TypeOK
  <2>1. g \in Grants /\ g.id = grant[p][k].id
                     /\ g.left = Shorter(grant[p][k].left, ExpiresIn(ttl))
    BY <2>0, LeftsType DEF Grants
  <2>2. g # NoGrant => Holds(p, k)
    BY <2>0 DEF Holds, NoGrant, Grants, Shorter, ExpiresIn, NoExpiry
  <2>3. SetGrant(p, k, g)
    BY DEF Extend
  <2> HIDE DEF g
  <2> QED
    BY <1>g, <2>2, <2>3 DEF Holds
<1> QED
  BY <1>1, <1>2, <1>3, <1>4, <1>5, <1>6
  DEF Step, Continue, Acquire, ForceRelease, AcquireFind, AcquireDelete,
      AcquireCreate, AcquireConflict, ReleaseFind, ReleaseDelete, ForceFind,
      ExtendFind, ExtendUpdate, ExtendLost, PlainReturn, HookThrows

(* The lock keeps the promise of LockService: what owners may conclude from
   their answers changes hands only through being held by nobody. *)
THEOREM Implementation == Spec => ImplementsService
<1> DEFINE holder == [k \in Keys |-> Holders(k)]
<1>1. Init => Service!Init
  <2>1. Init => \A k \in Keys : Holders(k) = {}
    BY DEF Init, Holders, Holds
  <2> QED
    BY <2>1 DEF Service!Init
<1>2. /\ MutexInv /\ MutualExclusion /\ MutualExclusion'
      /\ [Next]_vars
      => [Service!Next]_holder
  <2> SUFFICES ASSUME MutexInv, MutualExclusion, MutualExclusion', [Next]_vars
               PROVE  Service!Next \/ holder' = holder
    OBVIOUS
  <2>t. TypeOK /\ \A q \in Procs : call[q].key \in Keys
    BY DEF MutexInv, TypeOK, Calls
  <2>0. CASE UNCHANGED vars
    <3>1. store' = store /\ call' = call /\ grant' = grant /\ muddled' = muddled
      BY <2>0 DEF vars
    <3>2. \A k \in Keys : Holders(k)' = Holders(k)
      BY <3>1 DEF Holders, Holds
    <3> QED
      BY <3>2
  <2>a. ASSUME Next, NEW k \in Keys, \A q \in Procs : Holds(q, k)' => Holds(q, k)
        PROVE  Holders(k)' = Holders(k) \/ Holders(k)' = {}
    <3>1. CASE k \in muddled'
      BY <3>1 DEF Holders
    <3>2. CASE Quiet(k)'
      BY <3>2 DEF Holders, Quiet, Uses
    <3>3. CASE k \notin muddled' /\ ~Quiet(k)'
      <4>1. k \notin muddled
        BY <2>a, <3>3 DEF Next, Remember
      <4> QED
        BY <2>a, <3>3, <4>1 DEF Holders, MutualExclusion
    <3> QED
      BY <3>1, <3>2, <3>3
  <2>b. ASSUME \A k \in Keys : Holders(k)' = Holders(k) \/ Holders(k)' = {}
        PROVE  Service!Next
    <3> DEFINE ended == {k \in Keys : Holders(k)' = {}}
    <3>2. Service!Drop(ended)
      BY <2>b DEF Service!Drop
    <3> QED
      BY <3>2 DEF Service!Next
  <2>3. CASE Tick /\ Next
    <3>1. \A q \in Procs, k \in Keys : Holds(q, k)' => Holds(q, k)
      BY <2>3, <2>t DEF Tick, Holds, TypeOK, Lease, NoGrant, Grants, Aged
    <3> QED
      BY <3>1, <2>3, <2>a, <2>b
  <2>4. ASSUME Next, NEW p \in Procs, AcquireReturn(p) \/ ExtendReturn(p),
               NEW l \in Keys, l = call[p].key,
               \A q \in Procs, k \in Keys :
                    q # p \/ k # l => Holds(q, k)' = Holds(q, k)
        PROVE  Service!Next \/ holder' = holder
    <3>0. ASSUME NEW k \in Keys \ {l}
          PROVE  Holders(k)' = Holders(k) \/ Holders(k)' = {}
      BY <2>4, <2>a, <3>0
    <3>1. CASE (Holds(p, l)' => Holds(p, l)) \/ l \in muddled'
      <4>1. Holders(l)' = Holders(l) \/ Holders(l)' = {}
        BY <3>1, <2>4, <2>a DEF Holders
      <4> QED
        BY <3>0, <4>1, <2>b
    <3>2. CASE Holds(p, l)' /\ ~Holds(p, l) /\ l \notin muddled'
      <4>1. l \notin muddled /\ ~Shared(l)'
        <5>1. ~Quiet(l)'
          BY <3>2 DEF Quiet, Uses
        <5> QED
          BY <2>4, <3>2, <5>1 DEF Next, Remember
      <4>2. \A q \in Procs \ {p} : ~Holds(q, l)'
        BY <3>2, <4>1 DEF MutualExclusion, Shared, Uses
      <4>3. Holders(l) = {} /\ Holders(l)' = {OwnerOf[p]}
        BY <2>4, <3>2, <4>1, <4>2 DEF Holders
      <4>4. CASE \A k \in Keys \ {l} : Holders(k)' = Holders(k)
        <5>1. Service!Take(OwnerOf[p], l)
          BY <4>3, <4>4 DEF Service!Take
        <5> QED
          BY <5>1, MutexAssumption DEF Service!Next
      <4>5. ASSUME NEW k \in Keys \ {l} PROVE Holders(k)' = Holders(k)
        <5>1. /\ UNCHANGED store
              /\ \A q \in Procs \ {p} : call'[q] = call[q]
              /\ call'[p].at = "idle"
          BY <2>4, <2>t DEF AcquireReturn, ExtendReturn, Finish, Await, Settled, Begin, TypeOK
        <5>2. \A q \in Procs : Uses(q, k)' => Uses(q, k)
          BY <2>4, <5>1 DEF Uses
        <5>3. ~CreatesBeside(k) /\ ~Revives(k) /\ (Shared(k)' => Shared(k))
          BY <5>1, <5>2 DEF CreatesBeside, Revives, Shared
        <5>4. k \notin muddled => k \notin muddled'
          BY <2>4, <5>3 DEF Next, Remember, MutexInv, KeyBacked
        <5>5. k \in muddled => Holders(k)' = {}
          BY <2>4 DEF Next, Remember, Quiet, Uses, Holders
        <5> QED
          BY <2>4, <5>4, <5>5 DEF Holders
      <4> QED
        BY <4>4, <4>5
    <3> QED
      BY <3>1, <3>2
  <2> QED
    BY <2>0, <2>3, <2>4, <2>a, <2>b, <2>t, StepHolds DEF Next
<1> QED
  BY <1>1, <1>2, InitMutexInv, NextMutexInv, Exclusion, PTL DEF Spec, ImplementsService, Service!Spec

-----------------------------------------------------------------------------
(* The executions of jobs. *)

(* An execution is suspended where its stage allows, in a call on its job. *)
Staged(p) ==
    /\ call[p].at \in StageCalls[exec[p].at]
    /\ exec[p].at \in {"acquiring", "releasing"} => call[p].key = exec[p].job

(* NoExec is one of Execs. *)
LEMMA NoExecType == NoExec \in Execs
BY MutexAssumption, LeftsType DEF NoExec, Execs, Stages

(* The initial state is typed. *)
LEMMA JobInitTypeOK == JobInit => JobTypeOK
<1> SUFFICES ASSUME JobInit PROVE JobTypeOK
  OBVIOUS
<1>1. TypeOK
  BY InitTypeOK DEF JobInit
<1>2. exec \in [Procs -> Execs]
  BY NoExecType DEF JobInit
<1>3. ASSUME NEW p \in Procs PROVE Staged(p)
  BY <1>3 DEF JobInit, Init, Settled, Begin, Staged, StageCalls, NoExec
<1> QED
  BY <1>1, <1>2, <1>3 DEF JobTypeOK, Staged

(* Whatever an execution does is a step of the mutex. *)
LEMMA JobSteps == JobTypeOK /\ JobNext => Next
<1> SUFFICES ASSUME JobTypeOK, JobNext PROVE Next
  OBVIOUS
<1>1. ASSUME NEW p \in Procs,
             \/ \E k \in Keys, ttl \in Ttls : Execute(p, k, ttl)
             \/ Reenters(p) \/ Waits(p) \/ Answered(p) \/ AcquireThrows(p)
             \/ ReleaseEnds(p) \/ JobCrash(p)
      PROVE  Step(p)
  BY <1>1 DEF Execute, Reenters, Waits, Answered, AcquireThrows, ReleaseEnds, JobCrash,
              Step, Continue
<1>2. ASSUME NEW p \in Procs, HandlerEnds(p)
      PROVE  Step(p)
  <2>1. exec[p].job \in Keys
    BY DEF JobTypeOK, Execs
  <2> QED
    BY <1>2, <2>1 DEF HandlerEnds, Step
<1> QED
  BY <1>1, <1>2 DEF JobNext, JobTick, GoesOn, Next

(* Which stage an await belongs to. *)
LEMMA StageOf ==
    ASSUME NEW s \in Stages, NEW l \in StageCalls[s]
    PROVE  /\ l \in {"acquireFind", "acquireDelete", "acquireCreate",
                     "acquireAfter"} => s = "acquiring"
           /\ l \in {"releaseFind", "releaseDelete", "releaseAfter"}
                 => s = "releasing"
BY DEF Stages, StageCalls

(* What a call of p becomes. *)
LEMMA Awaited ==
    ASSUME call \in [Procs -> Calls], NEW p \in Procs, NEW c, Await(p, c)
    PROVE  call'[p] = c /\ \A q \in Procs \ {p} : call'[q] = call[q]
BY DEF Await

(* The awaits of acquire follow one another, about one key. *)
LEMMA AcquireGoesOn ==
    ASSUME call \in [Procs -> Calls], NEW p \in Procs
    PROVE  /\ AcquireFind(p) =>
                /\ call[p].at = "acquireFind"
                /\ \A q \in Procs \ {p} : call'[q] = call[q]
                /\ call'[p].key = call[p].key /\ call'[p].ttl = call[p].ttl
                /\ \/ /\ call'[p].at = "acquireCreate"
                      /\ call'[p].left = ExpiryOf(call[p].ttl)
                   \/ call'[p].at = "acquireDelete"
                   \/ call'[p].at = "acquireAfter"
           /\ AcquireDelete(p) =>
                /\ call[p].at = "acquireDelete"
                /\ \A q \in Procs \ {p} : call'[q] = call[q]
                /\ call'[p].key = call[p].key
                /\ call'[p].at = "acquireCreate"
                /\ call'[p].left = ExpiryOf(call[p].ttl)
           /\ AcquireCreate(p) =>
                /\ call[p].at = "acquireCreate"
                /\ \A q \in Procs \ {p} : call'[q] = call[q]
                /\ call'[p].key = call[p].key
                /\ call'[p].at = "acquireAfter"
                /\ call'[p].left = call[p].left
<1>0. call[p] \in Calls
  OBVIOUS
<1>1. ASSUME AcquireFind(p)
      PROVE  \E c : /\ Await(p, c)
                    /\ c.key = call[p].key /\ c.ttl = call[p].ttl
                    /\ \/ /\ c.at = "acquireCreate"
                          /\ c.left = ExpiryOf(call[p].ttl)
                       \/ c.at = "acquireDelete"
                       \/ c.at = "acquireAfter"
  <2>1. PICK id \in FindOne(ByKey(call[p].key)) :
           \/ Await(p, [call[p] EXCEPT !.at = "acquireCreate",
                                       !.left = ExpiryOf(call[p].ttl)])
           \/ Await(p, [call[p] EXCEPT !.at = "acquireDelete", !.id = id])
           \/ Await(p, [call[p] EXCEPT !.at = "acquireAfter", !.id = id,
                                       !.left = store[id].left,
                                       !.acquired = TRUE])
           \/ Await(p, [call[p] EXCEPT !.at = "acquireAfter",
                                       !.acquired = FALSE])
    BY <1>1, Zenon DEF AcquireFind
  <2> DEFINE created == [call[p] EXCEPT !.at = "acquireCreate",
                                        !.left = ExpiryOf(call[p].ttl)]
             deleted == [call[p] EXCEPT !.at = "acquireDelete", !.id = id]
             owned == [call[p] EXCEPT !.at = "acquireAfter", !.id = id,
                                      !.left = store[id].left,
                                      !.acquired = TRUE]
             refused == [call[p] EXCEPT !.at = "acquireAfter",
                                        !.acquired = FALSE]
  <2>2. /\ created.key = call[p].key /\ created.ttl = call[p].ttl
        /\ created.at = "acquireCreate" /\ created.left = ExpiryOf(call[p].ttl)
    BY <1>0 DEF Calls
  <2>3. /\ deleted.key = call[p].key /\ deleted.ttl = call[p].ttl
        /\ deleted.at = "acquireDelete"
    BY <1>0 DEF Calls
  <2>4. /\ owned.key = call[p].key /\ owned.ttl = call[p].ttl
        /\ owned.at = "acquireAfter"
    BY <1>0 DEF Calls
  <2>5. /\ refused.key = call[p].key /\ refused.ttl = call[p].ttl
        /\ refused.at = "acquireAfter"
    BY <1>0 DEF Calls
  <2>6. Await(p, created) \/ Await(p, deleted) \/ Await(p, owned) \/ Await(p, refused)
    BY <2>1
  <2> HIDE DEF created, deleted, owned, refused
  <2> QED
    BY <2>2, <2>3, <2>4, <2>5, <2>6
<1>2. ASSUME AcquireFind(p)
      PROVE  /\ call[p].at = "acquireFind"
             /\ \A q \in Procs \ {p} : call'[q] = call[q]
             /\ call'[p].key = call[p].key /\ call'[p].ttl = call[p].ttl
             /\ \/ /\ call'[p].at = "acquireCreate"
                   /\ call'[p].left = ExpiryOf(call[p].ttl)
                \/ call'[p].at = "acquireDelete"
                \/ call'[p].at = "acquireAfter"
  <2>1. call[p].at = "acquireFind"
    BY <1>2, Zenon DEF AcquireFind, At
  <2> QED
    BY <1>1, <1>2, <2>1, Awaited
<1>3. ASSUME AcquireDelete(p)
      PROVE  /\ call[p].at = "acquireDelete"
             /\ \A q \in Procs \ {p} : call'[q] = call[q]
             /\ call'[p].key = call[p].key
             /\ call'[p].at = "acquireCreate"
             /\ call'[p].left = ExpiryOf(call[p].ttl)
  <2> DEFINE c == [call[p] EXCEPT !.at = "acquireCreate", !.id = NoId,
                                  !.left = ExpiryOf(call[p].ttl)]
  <2>1. Await(p, c) /\ call[p].at = "acquireDelete"
    BY <1>3, Zenon DEF AcquireDelete, At
  <2>2. /\ c.key = call[p].key /\ c.at = "acquireCreate"
        /\ c.left = ExpiryOf(call[p].ttl)
    BY <1>0 DEF Calls
  <2> HIDE DEF c
  <2> QED
    BY <2>1, <2>2, Awaited
<1>4. ASSUME AcquireCreate(p)
      PROVE  /\ call[p].at = "acquireCreate"
             /\ \A q \in Procs \ {p} : call'[q] = call[q]
             /\ call'[p].key = call[p].key
             /\ call'[p].at = "acquireAfter"
             /\ call'[p].left = call[p].left
  <2>1. PICK id : Await(p, [call[p] EXCEPT !.at = "acquireAfter", !.id = id,
                                           !.acquired = TRUE])
    BY <1>4, Zenon DEF AcquireCreate
  <2>2. call[p].at = "acquireCreate"
    BY <1>4, Zenon DEF AcquireCreate, At
  <2> DEFINE c == [call[p] EXCEPT !.at = "acquireAfter", !.id = id,
                                  !.acquired = TRUE]
  <2>3. /\ c.key = call[p].key /\ c.at = "acquireAfter"
        /\ c.left = call[p].left
    BY <1>0 DEF Calls
  <2>4. Await(p, c)
    BY <2>1
  <2> HIDE DEF c
  <2> QED
    BY <2>2, <2>3, <2>4, Awaited
<1> QED
  BY <1>1, <1>2, <1>3, <1>4

(* So do those of release, unless it ends. *)
LEMMA ReleaseGoesOn ==
    ASSUME call \in [Procs -> Calls], NEW p \in Procs,
           (ReleaseFind(p) /\ call'[p].at # "idle") \/ ReleaseDelete(p)
    PROVE  /\ call[p].at \in {"releaseFind", "releaseDelete"}
           /\ \A q \in Procs \ {p} : call'[q] = call[q]
           /\ call'[p].key = call[p].key
           /\ call'[p].at \in {"releaseDelete", "releaseAfter"}
<1>0. call[p] \in Calls
  OBVIOUS
<1>1. CASE ReleaseFind(p) /\ call'[p].at # "idle"
  <2>1. PICK id : \/ Await(p, [call[p] EXCEPT !.at = "releaseDelete", !.id = id])
                  \/ Finish(p)
    BY <1>1, Zenon DEF ReleaseFind
  <2>2. call[p].at = "releaseFind"
    BY <1>1, Zenon DEF ReleaseFind, At
  <2> DEFINE c == [call[p] EXCEPT !.at = "releaseDelete", !.id = id]
  <2>3. c.key = call[p].key /\ c.at = "releaseDelete"
    BY <1>0 DEF Calls
  <2>4. ~Finish(p)
    BY <1>1, Awaited DEF Finish, Settled, Begin
  <2>5. Await(p, c)
    BY <2>1, <2>4
  <2> HIDE DEF c
  <2> QED
    BY <2>2, <2>3, <2>5, Awaited
<1>2. CASE ReleaseDelete(p)
  <2> DEFINE c == [call[p] EXCEPT !.at = "releaseAfter", !.id = NoId]
  <2>1. Await(p, c) /\ call[p].at = "releaseDelete"
    BY <1>2, Zenon DEF ReleaseDelete, At
  <2>2. c.key = call[p].key /\ c.at = "releaseAfter"
    BY <1>0 DEF Calls
  <2> HIDE DEF c
  <2> QED
    BY <2>1, <2>2, Awaited
<1> QED
  BY <1>1, <1>2

(* The steps of an execution keep it where its stage allows. *)
LEMMA StepStaged ==
    ASSUME JobTypeOK, NEW p \in Procs, call' \in [Procs -> Calls],
           \/ \E k \in Keys, ttl \in Ttls : Execute(p, k, ttl)
           \/ GoesOn(p) \/ JobCrash(p)
    PROVE  /\ exec' \in [Procs -> Execs]
           /\ Staged(p)'
           /\ \A q \in Procs \ {p} : call'[q] = call[q] /\ exec'[q] = exec[q]
<1>t. /\ call \in [Procs -> Calls] /\ exec \in [Procs -> Execs]
      /\ exec[p] \in Execs /\ Staged(p)
  BY DEF JobTypeOK, TypeOK, Staged
<1>a. \A c : Await(p, c) => /\ call'[p] = c
                            /\ \A q \in Procs \ {p} : call'[q] = call[q]
  BY <1>t DEF Await
<1>o. Over(p) => /\ exec' \in [Procs -> Execs] /\ In(p, "idle")'
                 /\ \A q \in Procs \ {p} : exec'[q] = exec[q]
  BY <1>t, NoExecType DEF Over, In, NoExec
<1>f. Finish(p) => /\ call'[p].at = "idle"
                   /\ \A q \in Procs \ {p} : call'[q] = call[q]
  BY <1>a DEF Finish, Settled, Begin
<1>e. Over(p) /\ Finish(p) => Staged(p)'
  BY <1>o, <1>f DEF Staged, In, StageCalls
<1>1. CASE \E k \in Keys, ttl \in Ttls : Execute(p, k, ttl)
  <2> PICK k \in Keys, ttl \in Ttls : Execute(p, k, ttl)
    BY <1>1
  <2>1. call'[p].at = "acquireFind" /\ call'[p].key = k
    BY <1>a DEF Execute, Acquire, Begin
  <2>2. exec'[p] = [at |-> "acquiring", job |-> k, left |-> ExpiryOf(ttl)]
    BY <1>t DEF Execute
  <2>3. ExpiryOf(ttl) \in Lefts
    BY MutexAssumption, LeftsType
  <2> QED
    BY <1>a, <1>t, <2>1, <2>2, <2>3
       DEF Execute, Acquire, Staged, StageCalls, Execs, Stages
<1>0. CASE Reenters(p)
  <2>1. PICK c \in Calls : c = call'[p]
    OBVIOUS
  <2>2. /\ c.at = "acquireAfter" /\ c.key = call[p].key
        /\ call[p].at = "acquireFind"
        /\ \A q \in Procs \ {p} : call'[q] = call[q]
    BY <1>0, <1>t, <2>1, AcquireGoesOn DEF Reenters
  <2>3. exec' = [exec EXCEPT ![p].left =
                   IF Outlasts(c.left, @) THEN @ ELSE c.left]
    BY <1>0, <2>1 DEF Reenters
  <2>4. /\ exec' \in [Procs -> Execs]
        /\ exec'[p].at = exec[p].at /\ exec'[p].job = exec[p].job
        /\ \A q \in Procs \ {p} : exec'[q] = exec[q]
    <3>1. c.left \in Lefts
      BY DEF Calls
    <3> QED
      BY <1>t, <2>3, <3>1 DEF Execs
  <2> QED
    <3>1. exec[p].at = "acquiring"
      BY <1>t, <2>2, StageOf DEF Staged, Execs
    <3> QED
      BY <1>t, <2>1, <2>2, <2>4, <3>1 DEF Staged, StageCalls
<1>2. CASE Waits(p)
  <2>1. exec' = exec
    BY <1>2 DEF Waits
  <2>0. exec[p].at \in Stages
    BY <1>t DEF Execs
  <2>2. CASE AcquireFind(p) \/ AcquireDelete(p) \/ AcquireCreate(p)
    <3>1. exec[p].at = "acquiring"
      BY <1>t, <2>0, <2>2, AcquireGoesOn, StageOf DEF Staged
    <3> QED
      BY <1>t, <2>1, <2>2, <3>1, AcquireGoesOn DEF Staged, StageCalls
  <2>3. CASE (ReleaseFind(p) /\ call'[p].at # "idle") \/ ReleaseDelete(p)
    <3>1. exec[p].at = "releasing"
      BY <1>t, <2>0, <2>3, ReleaseGoesOn, StageOf DEF Staged
    <3> QED
      BY <1>t, <2>1, <2>3, <3>1, ReleaseGoesOn DEF Staged, StageCalls
  <2> QED
    BY <1>2, <2>2, <2>3 DEF Waits
<1>3. CASE Answered(p)
  <2>1. Finish(p) /\ At(p, "acquireAfter")
    BY <1>3 DEF Answered, AcquireReturn
  <2>2. CASE Over(p)
    BY <2>1, <2>2, <1>o, <1>f, <1>e
  <2>3. CASE Reach(p, "running")
    <3>1. /\ exec' \in [Procs -> Execs] /\ exec'[p].at = "running"
          /\ \A q \in Procs \ {p} : exec'[q] = exec[q]
      BY <1>t, <2>3 DEF Reach, Execs, Stages
    <3> QED
      BY <3>1, <2>1, <1>f DEF Staged, StageCalls
  <2> QED
    BY <1>3, <2>2, <2>3 DEF Answered
<1>4. CASE AcquireThrows(p) \/ ReleaseEnds(p)
  <2>1. Over(p) /\ (Finish(p) \/ (ReleaseFind(p) /\ call'[p].at = "idle"))
    BY <1>4 DEF AcquireThrows, ReleaseEnds, AcquireConflict, HookThrows,
                PlainReturn
  <2>2. CASE ReleaseFind(p) /\ call'[p].at = "idle"
    <3>1. PICK c : Await(p, c)
      BY <2>2 DEF ReleaseFind, Finish
    <3> QED
      BY <2>1, <2>2, <3>1, <1>a, <1>o DEF Staged, StageCalls, In
  <2> QED
    BY <2>1, <2>2, <1>o, <1>f, <1>e
<1>5. CASE HandlerEnds(p)
  <2>1. call'[p].at = "releaseFind" /\ call'[p].key = exec[p].job
    BY <1>5, <1>a DEF HandlerEnds, Release, Begin
  <2>2. /\ exec' \in [Procs -> Execs] /\ exec'[p].at = "releasing"
        /\ exec'[p].job = exec[p].job
        /\ \A q \in Procs \ {p} : exec'[q] = exec[q]
    <3>1. exec' = [exec EXCEPT ![p].at = "releasing", ![p].left = 0]
      BY <1>5, Zenon DEF HandlerEnds
    <3> QED
      BY <1>t, <3>1, LeftsType DEF Execs, Stages
  <2> QED
    BY <1>5, <1>a, <2>1, <2>2 DEF HandlerEnds, Release, Staged, StageCalls
<1>6. CASE JobCrash(p)
  BY <1>6, <1>a, <1>o DEF JobCrash, Crash, Settled, Begin, Staged, StageCalls,
                          In
<1> QED
  BY <1>0, <1>1, <1>2, <1>3, <1>4, <1>5, <1>6 DEF GoesOn

(* Every step keeps the types and the stages. *)
LEMMA JobStepTypeOK == JobTypeOK /\ [JobNext]_jobVars => JobTypeOK'
<1> SUFFICES ASSUME JobTypeOK, [JobNext]_jobVars PROVE JobTypeOK'
  OBVIOUS
<1>1. CASE UNCHANGED jobVars
  BY <1>1 DEF jobVars, workVars, JobTypeOK, TypeOK, StoreOK
<1>2. CASE JobNext
  <2>1. TypeOK'
    BY <1>2, JobSteps, StepTypeOK DEF JobTypeOK
  <2>2. \A q \in Procs : Staged(q)
    BY DEF JobTypeOK, Staged
  <2>3. CASE JobTick
    <3>1. \A q \in Procs : /\ call'[q].at = call[q].at
                           /\ call'[q].key = call[q].key
      BY <2>3 DEF JobTick, Tick, JobTypeOK, TypeOK, Calls
    <3>2. /\ exec' \in [Procs -> Execs]
          /\ \A q \in Procs : exec'[q].at = exec[q].at /\ exec'[q].job = exec[q].job
      BY <2>3, LeftsType DEF JobTick, JobTypeOK, Execs
    <3> QED
      BY <2>1, <3>1, <3>2 DEF JobTypeOK
  <2>4. ASSUME NEW p \in Procs,
               \/ \E k \in Keys, ttl \in Ttls : Execute(p, k, ttl)
               \/ GoesOn(p) \/ JobCrash(p)
        PROVE  JobTypeOK'
    <3>1. /\ exec' \in [Procs -> Execs]
          /\ Staged(p)'
          /\ \A q \in Procs \ {p} : call'[q] = call[q] /\ exec'[q] = exec[q]
      BY <2>1, <2>4, StepStaged DEF TypeOK
    <3>2. \A q \in Procs : Staged(q)'
      BY <2>2, <3>1 DEF Staged
    <3> QED
      BY <2>1, <3>1, <3>2 DEF JobTypeOK, Staged
  <2> QED
    BY <1>2, <2>3, <2>4 DEF JobNext
<1> QED
  BY <1>1, <1>2

(* Executions and their calls to the mutex are well typed, and an execution is
   only ever suspended in a call that its stage makes, on its own job. *)
THEOREM JobTyping == JobSpec => []JobTypeOK
<1>1. JobInit => JobTypeOK
  BY JobInitTypeOK
<1>2. JobTypeOK /\ [JobNext]_jobVars => JobTypeOK'
  BY JobStepTypeOK
<1> QED
  BY <1>1, <1>2, PTL DEF JobSpec

(* An execution has no more time than its lock: than the ttl it asks for while
   acquire looks for a row, than the row it creates or is let into, and than
   what its slot counts on while it runs. *)
Covered(p) ==
    /\ In(p, "acquiring") /\ call[p].at \in {"acquireFind", "acquireDelete"} =>
          Outlasts(ExpiryOf(call[p].ttl), exec[p].left)
    /\ /\ In(p, "acquiring")
       /\ At(p, "acquireCreate") \/ (At(p, "acquireAfter") /\ call[p].acquired)
       => Outlasts(call[p].left, exec[p].left)
    /\ In(p, "running") /\ exec[p].left # 0 =>
          /\ Holds(p, exec[p].job)
          /\ Outlasts(grant[p][exec[p].job].left, exec[p].left)

(* Time passes for both alike. *)
LEMMA AgedOutlasts ==
    ASSUME NEW a \in Lefts, NEW b \in Lefts, Outlasts(a, b)
    PROVE  Outlasts(Aged(a), Aged(b)) /\ (Aged(b) # 0 => a # 0 /\ Aged(a) # 0)
BY DEF Lefts, Outlasts, Aged, NoExpiry

(* The step of an execution keeps it covered. *)
LEMMA StepCovered ==
    ASSUME JobTypeOK, JobTypeOK', NEW p \in Procs, Covered(p),
           \/ \E k \in Keys, ttl \in Ttls : Execute(p, k, ttl)
           \/ GoesOn(p) \/ JobCrash(p)
    PROVE  Covered(p)'
<1>t. /\ call \in [Procs -> Calls] /\ exec \in [Procs -> Execs]
      /\ grant \in [Procs -> [Keys -> Grants]]
      /\ exec[p] \in Execs /\ call[p] \in Calls
      /\ call[p].at \in StageCalls[exec[p].at]
      /\ In(p, "acquiring") => call[p].key = exec[p].job
  BY DEF JobTypeOK, TypeOK, In
<1>a. \A c : Await(p, c) => call'[p] = c
  BY <1>t DEF Await
<1>o. Over(p) => Covered(p)'
  BY <1>t DEF Over, NoExec, In, Covered
<1>1. CASE \E k \in Keys, ttl \in Ttls : Execute(p, k, ttl)
  <2> PICK k \in Keys, ttl \in Ttls : Execute(p, k, ttl)
    BY <1>1
  <2>1. call'[p].at = "acquireFind" /\ call'[p].ttl = ttl
    BY <1>a DEF Execute, Acquire, Begin
  <2>2. exec'[p].at = "acquiring" /\ exec'[p].left = ExpiryOf(ttl)
    BY <1>t DEF Execute
  <2>3. ExpiryOf(ttl) \in Lefts
    BY MutexAssumption, LeftsType
  <2>4. Outlasts(ExpiryOf(ttl), ExpiryOf(ttl))
    BY <2>3 DEF Outlasts, Lefts, NoExpiry
  <2> QED
    BY <2>1, <2>2, <2>4 DEF Covered, In, At
<1>2. CASE Reenters(p)
  <2>1. PICK c \in Calls : c = call'[p]
    BY DEF JobTypeOK, TypeOK
  <2>2. c.at = "acquireAfter" /\ c.left \in Lefts
    BY <1>2, <2>1 DEF Reenters, Calls
  <2>3. exec' = [exec EXCEPT ![p].left =
                   IF Outlasts(c.left, @) THEN @ ELSE c.left]
    BY <1>2, <2>1 DEF Reenters
  <2>4. Outlasts(c.left, exec'[p].left)
    BY <1>t, <2>2, <2>3 DEF Outlasts, Lefts, NoExpiry, Execs
  <2>5. exec'[p].at = "acquiring"
    <3>1. call[p].at = "acquireFind"
      BY <1>2, <1>t, AcquireGoesOn DEF Reenters
    <3> QED
      BY <1>t, <2>3, <3>1, StageOf DEF Execs
  <2> QED
    BY <2>1, <2>2, <2>4, <2>5 DEF Covered, In, At
<1>3. CASE Waits(p)
  <2>1. exec' = exec
    BY <1>3 DEF Waits
  <2>2. CASE AcquireFind(p)
    <3>1. In(p, "acquiring") /\ Outlasts(ExpiryOf(call[p].ttl), exec[p].left)
      BY <1>t, <2>2, AcquireGoesOn, StageOf DEF Covered, In, Execs
    <3>2. PICK c \in Calls : c = call'[p]
      BY DEF JobTypeOK, TypeOK
    <3>3. ~(c.at = "acquireAfter" /\ c.acquired)
      BY <1>3, <1>t, <2>2, <3>2, AcquireGoesOn, ReleaseGoesOn DEF Waits
    <3>4. \/ c.at = "acquireCreate" /\ c.left = ExpiryOf(call[p].ttl)
          \/ c.at = "acquireDelete" /\ c.ttl = call[p].ttl
          \/ c.at = "acquireAfter"
      BY <1>t, <2>2, <3>2, AcquireGoesOn
    <3> QED
      BY <2>1, <3>1, <3>2, <3>3, <3>4 DEF Covered, In, At
  <2>3. CASE AcquireDelete(p)
    <3>1. In(p, "acquiring") /\ Outlasts(ExpiryOf(call[p].ttl), exec[p].left)
      BY <1>t, <2>3, AcquireGoesOn, StageOf DEF Covered, In, Execs
    <3>2. call'[p].at = "acquireCreate" /\ call'[p].left = ExpiryOf(call[p].ttl)
      BY <1>t, <2>3, AcquireGoesOn
    <3> QED
      BY <2>1, <3>1, <3>2 DEF Covered, In, At
  <2>4. CASE AcquireCreate(p)
    <3>1. In(p, "acquiring") /\ Outlasts(call[p].left, exec[p].left)
      BY <1>t, <2>4, AcquireGoesOn, StageOf DEF Covered, In, At, Execs
    <3>2. call'[p].at = "acquireAfter" /\ call'[p].left = call[p].left
      BY <1>t, <2>4, AcquireGoesOn
    <3> QED
      BY <2>1, <3>1, <3>2 DEF Covered, In, At
  <2>5. CASE (ReleaseFind(p) /\ call'[p].at # "idle") \/ ReleaseDelete(p)
    <3>1. In(p, "releasing")
      BY <1>t, <2>5, ReleaseGoesOn, StageOf DEF In, Execs
    <3> QED
      BY <2>1, <3>1 DEF Covered, In
  <2> QED
    BY <1>3, <2>2, <2>3, <2>4, <2>5 DEF Waits
<1>4. CASE Answered(p)
  <2>1. At(p, "acquireAfter") /\ In(p, "acquiring") /\ call[p].key = exec[p].job
    <3>1. call[p].at = "acquireAfter"
      BY <1>4, Zenon DEF Answered, AcquireReturn, At
    <3> QED
      BY <1>t, <3>1, StageOf DEF At, In, Execs
  <2>2. CASE call[p].acquired
    <3>1. Outlasts(call[p].left, exec[p].left)
      BY <2>1, <2>2 DEF Covered
    <3>2. /\ exec'[p].at = "running"
          /\ exec'[p].job = exec[p].job /\ exec'[p].left = exec[p].left
      BY <1>4, <1>t, <2>2 DEF Answered, Reach, Execs
    <3>3. grant'[p][exec[p].job] = Lease(call[p].id, call[p].left)
      BY <1>4, <1>t, <2>1, <2>2 DEF Answered, AcquireReturn, SetGrant, Execs
    <3>4. exec[p].left # 0 =>
             /\ Lease(call[p].id, call[p].left) # NoGrant
             /\ Lease(call[p].id, call[p].left).left = call[p].left
      <4>1. exec[p].left # 0 => call[p].left # 0
        <5>1. exec[p].left \in Lefts /\ call[p].left \in Lefts
          BY <1>t DEF Execs, Calls
        <5> QED
          BY <3>1, <5>1 DEF Outlasts, NoExpiry, Lefts
      <4> QED
        BY <4>1 DEF Lease, NoGrant
    <3> QED
      BY <3>1, <3>2, <3>3, <3>4 DEF Covered, In, Holds
  <2>3. CASE ~call[p].acquired
    BY <1>4, <1>o, <2>3 DEF Answered
  <2> QED
    BY <2>2, <2>3
<1>5. CASE AcquireThrows(p) \/ ReleaseEnds(p) \/ JobCrash(p)
  BY <1>5, <1>o DEF AcquireThrows, ReleaseEnds, JobCrash
<1>6. CASE HandlerEnds(p)
  <2>1. exec'[p].at = "releasing"
    BY <1>6, <1>t DEF HandlerEnds, Execs
  <2> QED
    BY <2>1 DEF Covered, In
<1> QED
  BY <1>1, <1>2, <1>3, <1>4, <1>5, <1>6 DEF GoesOn

(* So does every other step. *)
LEMMA JobCovered ==
    /\ JobTypeOK /\ JobTypeOK'
    /\ [JobNext]_jobVars
    /\ \A p \in Procs : Covered(p)
    => \A p \in Procs : Covered(p)'
<1> SUFFICES ASSUME JobTypeOK, JobTypeOK', [JobNext]_jobVars,
                    \A p \in Procs : Covered(p)
             PROVE  \A p \in Procs : Covered(p)'
  OBVIOUS
<1>t. /\ call \in [Procs -> Calls] /\ exec \in [Procs -> Execs]
      /\ grant \in [Procs -> [Keys -> Grants]]
  BY DEF JobTypeOK, TypeOK
<1>1. CASE UNCHANGED jobVars
  <2>1. call' = call /\ grant' = grant /\ exec' = exec
    BY <1>1 DEF jobVars, workVars
  <2> QED
    BY <2>1 DEF Covered, In, At, Holds
<1>2. CASE JobTick
  <2> SUFFICES ASSUME NEW p \in Procs PROVE Covered(p)'
    OBVIOUS
  <2>0. /\ exec[p].job \in Keys /\ exec[p].left \in Lefts
        /\ call[p].left \in Lefts /\ call[p].ttl \in Nat
        /\ grant[p][exec[p].job].left \in Lefts
    <3>1. /\ exec[p] \in Execs /\ call[p] \in Calls
          /\ \A k \in Keys : grant[p][k] \in Grants
      BY <1>t
    <3>2. exec[p].job \in Keys /\ exec[p].left \in Lefts
      BY <3>1 DEF Execs
    <3>3. call[p].left \in Lefts /\ call[p].ttl \in Nat
      BY <3>1, MutexAssumption DEF Calls
    <3> QED
      BY <3>1, <3>2, <3>3 DEF Grants
  <2>1. /\ exec'[p].at = exec[p].at /\ exec'[p].job = exec[p].job
        /\ exec'[p].left = Aged(exec[p].left)
    BY <1>2, <1>t DEF JobTick, Execs
  <2>2. /\ call'[p].at = call[p].at /\ call'[p].ttl = call[p].ttl
        /\ call'[p].acquired = call[p].acquired
        /\ call'[p].left = Aged(call[p].left)
    BY <1>2, <1>t DEF JobTick, Tick, Calls
  <2>3. grant'[p][exec[p].job] = Lease(grant[p][exec[p].job].id,
                                       Aged(grant[p][exec[p].job].left))
    BY <1>2, <1>t, <2>0 DEF JobTick, Tick
  <2>4. In(p, "acquiring") /\ call[p].at \in {"acquireFind", "acquireDelete"}
           => Outlasts(ExpiryOf(call[p].ttl), Aged(exec[p].left))
    <3>1. \A a, b \in Lefts : Outlasts(a, b) => Outlasts(a, Aged(b))
      BY DEF Outlasts, Aged, Lefts, NoExpiry
    <3>2. ExpiryOf(call[p].ttl) \in Lefts
      BY <2>0, LeftsType
    <3> QED
      BY <2>0, <3>1, <3>2 DEF Covered
  <2>5. /\ In(p, "acquiring")
        /\ At(p, "acquireCreate") \/ (At(p, "acquireAfter") /\ call[p].acquired)
        => Outlasts(Aged(call[p].left), Aged(exec[p].left))
    BY <2>0, AgedOutlasts DEF Covered
  <2>6. In(p, "running") /\ Aged(exec[p].left) # 0 =>
           /\ grant'[p][exec[p].job] # NoGrant
           /\ Outlasts(grant'[p][exec[p].job].left, Aged(exec[p].left))
    <3> SUFFICES ASSUME In(p, "running"), Aged(exec[p].left) # 0
                 PROVE  /\ grant'[p][exec[p].job] # NoGrant
                        /\ Outlasts(grant'[p][exec[p].job].left, Aged(exec[p].left))
      OBVIOUS
    <3>1. exec[p].left # 0
      BY DEF Aged
    <3>2. Outlasts(grant[p][exec[p].job].left, exec[p].left)
      BY <3>1 DEF Covered
    <3>3. /\ Aged(grant[p][exec[p].job].left) # 0
          /\ Outlasts(Aged(grant[p][exec[p].job].left), Aged(exec[p].left))
      BY <2>0, <3>2, AgedOutlasts
    <3> QED
      BY <2>3, <3>3 DEF Lease, NoGrant
  <2> QED
    BY <2>1, <2>2, <2>4, <2>5, <2>6 DEF Covered, In, At, Holds
<1>3. ASSUME NEW p \in Procs,
             \/ \E k \in Keys, ttl \in Ttls : Execute(p, k, ttl)
             \/ GoesOn(p) \/ JobCrash(p)
      PROVE  \A q \in Procs : Covered(q)'
  <2>1. Covered(p)'
    BY <1>3, StepCovered
  <2>2. \A q \in Procs \ {p} : call'[q] = call[q] /\ exec'[q] = exec[q]
    BY <1>3, StepStaged DEF JobTypeOK, TypeOK
  <2>3. \A q \in Procs \ {p} : grant'[q] = grant[q]
    <3>1. \A k, g : SetGrant(p, k, g) => \A q \in Procs \ {p} : grant'[q] = grant[q]
      BY <1>t DEF SetGrant
    <3>2. CASE \E k \in Keys, ttl \in Ttls : Execute(p, k, ttl)
      BY <3>2 DEF Execute, Acquire
    <3>3. CASE JobCrash(p)
      BY <1>t, <3>3 DEF JobCrash, Crash
    <3>4. CASE Reenters(p) \/ Waits(p)
      <4>1. grant' = grant
        BY <3>4, Zenon DEF Reenters, Waits, AcquireFind, AcquireDelete,
                           AcquireCreate, ReleaseFind, ReleaseDelete
      <4> QED
        BY <4>1
    <3>5. CASE Answered(p) \/ HandlerEnds(p)
      BY <3>1, <3>5, Zenon DEF Answered, AcquireReturn, HandlerEnds, Release
    <3>6. CASE AcquireThrows(p) \/ ReleaseEnds(p)
      <4>1. grant' = grant
        BY <3>6, Zenon DEF AcquireThrows, ReleaseEnds, AcquireConflict,
                           HookThrows, ReleaseFind, PlainReturn
      <4> QED
        BY <4>1
    <3> QED
      BY <1>3, <3>2, <3>3, <3>4, <3>5, <3>6 DEF GoesOn
  <2> QED
    BY <2>1, <2>2, <2>3 DEF Covered, In, At, Holds
<1> QED
  BY <1>1, <1>2, <1>3 DEF JobNext

(* Whatever owners the plugins are given, whatever the repository does with a
   second row and however slots die, two executions of a job never run at once
   unless one has outlasted its lock or the key is muddled. *)
THEOREM JobExclusion == JobSpec => []NoDoubleExecution
<1> DEFINE JobInv == /\ MutexInv /\ JobTypeOK
                     /\ \A p \in Procs : Covered(p)
<1>1. JobInit => JobInv
  <2> SUFFICES ASSUME JobInit PROVE JobInv
    OBVIOUS
  <2>1. MutexInv /\ JobTypeOK
    BY JobInitTypeOK, InitMutexInv DEF JobInit
  <2>2. \A p \in Procs : Covered(p)
    BY DEF JobInit, Covered, In, NoExec
  <2> QED
    BY <2>1, <2>2
<1>2. JobInv /\ [JobNext]_jobVars => JobInv'
  <2> SUFFICES ASSUME JobInv, [JobNext]_jobVars PROVE JobInv'
    OBVIOUS
  <2>1. JobTypeOK'
    BY JobStepTypeOK
  <2>2. [Next]_vars
    BY JobSteps DEF jobVars, workVars, vars
  <2>3. MutexInv'
    BY <2>2, NextMutexInv
  <2>4. \A p \in Procs : Covered(p)'
    BY <2>1, JobCovered
  <2> QED
    BY <2>1, <2>3, <2>4
<1>3. JobInv => NoDoubleExecution
  <2> SUFFICES ASSUME JobInv, NEW p \in Procs, NEW q \in Procs,
                      NEW k \in Keys \ muddled,
                      RunsInTime(p, k), RunsInTime(q, k), p # q
               PROVE  FALSE
    BY DEF NoDoubleExecution
  <2>1. Holds(p, k) /\ Holds(q, k)
    BY DEF RunsInTime, Running, Covered
  <2>2. KeyBacked(k)
    BY DEF MutexInv
  <2>3. OwnerOf[p] = OwnerOf[q]
    BY <2>1, <2>2 DEF KeyBacked, Backed, OneRow, OwnerMatches
  <2>4. Shared(k)
    BY <2>1, <2>3 DEF Shared, Uses
  <2> QED
    BY <2>2, <2>4 DEF KeyBacked
<1> QED
  BY <1>1, <1>2, <1>3, PTL DEF JobSpec
=============================================================================
