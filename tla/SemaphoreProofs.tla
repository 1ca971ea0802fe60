-------------------------- MODULE SemaphoreProofs --------------------------
(***************************************************************************)
(* Proofs about Semaphore: units that were acquired are accounted for and  *)
(* can be given back (UnitsHonoured), and the capacity check bounds the    *)
(* units of a key unless it races with the writes it allows, and bounds    *)
(* those of one owner even then (CapacityHonest), for every number of      *)
(* processes, keys, rows and units.                                        *)
(*                                                                         *)
(* The first part is about sums over a finite set: facts that need an      *)
(* induction over the set, each proved from a smallest counterexample.     *)
(***************************************************************************)
EXTENDS Semaphore, FiniteSetTheorems, WellFoundedInduction, TLAPS

(* MapThenSumSet picks its elements with CHOOSE and adds f of each: IsSum is
   the recursive function it defines, Total its value, with f a function. *)
Pick(s) == CHOOSE x \in s : TRUE
IsSum(h, f, S) ==
    h = [s \in SUBSET S |-> IF s = {} THEN 0 ELSE f[Pick(s)] + h[s \ {Pick(s)}]]
Total(f, S) == (CHOOSE h : IsSum(h, f, S))[S]

(* A set that is not empty has the element it picks. *)
LEMMA Picks == ASSUME NEW s, s # {} PROVE Pick(s) \in s
BY DEF Pick

(* Of any subsets of a finite set, one has none of the others inside it. *)
LEMMA SmallestSubset ==
    ASSUME NEW S, IsFiniteSet(S), NEW Bad \in SUBSET SUBSET S, Bad # {}
    PROVE  \E T \in Bad : \A U \in Bad : ~(U \subseteq T /\ U # T)
<1>1. IsWellFoundedOn(StrictSubsetOrdering(S), SUBSET S)
  BY FS_StrictSubsetOrderingWellFounded, FS_FiniteSubsetsOfFinite
<1>2. PICK T \in Bad : \A U \in Bad : <<U, T>> \notin StrictSubsetOrdering(S)
  BY <1>1, WFMin
<1>3. \A U \in Bad : U \subseteq T /\ U # T => <<U, T>> \in StrictSubsetOrdering(S)
  BY DEF StrictSubsetOrdering
<1>4. \A U \in Bad : ~(U \subseteq T /\ U # T)
  BY <1>2, <1>3
<1> QED
  BY <1>4

(* The recursion determines the sum, whatever set it is defined on. *)
LEMMA SumUnique ==
    ASSUME NEW f, NEW A, NEW B, IsFiniteSet(A),
           NEW h, NEW g, IsSum(h, f, A), IsSum(g, f, B),
           NEW T \in (SUBSET A) \cap (SUBSET B)
    PROVE  h[T] = g[T]
<1> DEFINE Bad == {U \in (SUBSET A) \cap (SUBSET B) : h[U] # g[U]}
<1> SUFFICES ASSUME h[T] # g[T] PROVE FALSE
  BY Zenon
<1>0. Bad # {}
  OBVIOUS
<1>1. PICK U \in Bad : \A V \in Bad : ~(V \subseteq U /\ V # U)
  <2>1. Bad \in SUBSET SUBSET A
    OBVIOUS
  <2> HIDE DEF Bad
  <2> QED
    BY <1>0, <2>1, SmallestSubset
<1>2. U # {}
  BY DEF IsSum
<1>3. Pick(U) \in U
  BY <1>2, Picks
<1>4. U \ {Pick(U)} \notin Bad
  BY <1>1, <1>3
<1>5. h[U \ {Pick(U)}] = g[U \ {Pick(U)}]
  BY <1>4
<1>6. /\ h[U] = f[Pick(U)] + h[U \ {Pick(U)}]
      /\ g[U] = f[Pick(U)] + g[U \ {Pick(U)}]
  BY <1>2 DEF IsSum
<1> QED
  BY <1>5, <1>6

(* The recursion defines a function. *)
LEMMA SumExists ==
    ASSUME NEW f, NEW S, IsFiniteSet(S)
    PROVE  \E h : IsSum(h, f, S)
<1> DEFINE Bad == {T \in SUBSET S : ~\E h : IsSum(h, f, T)}
<1> SUFFICES ASSUME ~\E h : IsSum(h, f, S) PROVE FALSE
  BY Zenon
<1>0. S \in Bad
  OBVIOUS
<1>1. PICK T \in Bad : \A U \in Bad : ~(U \subseteq T /\ U # T)
  <2>1. Bad \in SUBSET SUBSET S
    OBVIOUS
  <2> HIDE DEF Bad
  <2> QED
    BY <1>0, <2>1, SmallestSubset
<1> DEFINE sum(U) == CHOOSE h : IsSum(h, f, U)
           Less(s) == s \ {Pick(s)}
           g == [s \in SUBSET T |->
                    IF s = {} THEN 0 ELSE f[Pick(s)] + sum(Less(s))[Less(s)]]
<1>2. \A s \in SUBSET T : s # {} => Less(s) \in SUBSET T /\ Less(s) # T
  BY Picks
<1>3. \A s \in SUBSET T : s # {} => IsSum(sum(Less(s)), f, Less(s))
  <2> SUFFICES ASSUME NEW s \in SUBSET T, s # {} PROVE \E h : IsSum(h, f, Less(s))
    BY Zenon
  <2> QED
    BY <1>1, <1>2
<1>4. \A s \in SUBSET T : s # {} => g[Less(s)] = sum(Less(s))[Less(s)]
  <2> SUFFICES ASSUME NEW s \in SUBSET T, s # {}
               PROVE  g[Less(s)] = sum(Less(s))[Less(s)]
    OBVIOUS
  <2> DEFINE t == Less(s)
             h == sum(t)
  <2>1. IsSum(h, f, t)
    BY <1>3
  <2>2. CASE t = {}
    <3>1. h[t] = 0
      BY <2>1, <2>2 DEF IsSum
    <3> QED
      BY <2>2, <3>1, <1>2
  <2>3. CASE t # {}
    <3>1. h[t] = f[Pick(t)] + h[Less(t)]
      BY <2>1, <2>3 DEF IsSum
    <3>2. t \in SUBSET T /\ Less(t) \in SUBSET t
      BY <1>2
    <3>3. IsSum(sum(Less(t)), f, Less(t))
      BY <1>3, <2>3, <3>2
    <3>4. IsFiniteSet(t)
      BY <3>2, FS_Subset
    <3>5. h[Less(t)] = sum(Less(t))[Less(t)]
      <4> HIDE DEF h, t, sum
      <4> QED BY <2>1, <3>2, <3>3, <3>4, SumUnique
    <3>6. g[t] = f[Pick(t)] + sum(Less(t))[Less(t)]
      BY <2>3, <3>2
    <3> QED
      BY <3>1, <3>5, <3>6
  <2> QED
    BY <2>2, <2>3
<1>5. IsSum(g, f, T)
  <2>1. \A s \in SUBSET T :
            g[s] = IF s = {} THEN 0 ELSE f[Pick(s)] + g[Less(s)]
    <3>1. \A s \in SUBSET T :
              g[s] = IF s = {} THEN 0 ELSE f[Pick(s)] + sum(Less(s))[Less(s)]
      OBVIOUS
    <3> HIDE DEF g, sum, Less
    <3> QED
      BY <1>4, <3>1
  <2>2. g = [s \in SUBSET T |-> IF s = {} THEN 0 ELSE f[Pick(s)] + g[Less(s)]]
    <3>1. g = [s \in SUBSET T |-> g[s]]
      OBVIOUS
    <3> HIDE DEF g
    <3> QED
      BY <2>1, <3>1
  <2> HIDE DEF g
  <2> QED
    BY <2>2 DEF IsSum
<1>6. ~\E h : IsSum(h, f, T)
  BY Zenon
<1> HIDE DEF g
<1> QED
  BY <1>5, <1>6

(* Total is the value of every such function. *)
LEMMA TotalIs ==
    ASSUME NEW f, NEW S, IsFiniteSet(S), NEW T \in SUBSET S, NEW h, IsSum(h, f, S)
    PROVE  h[T] = Total(f, T)
<1> DEFINE g == CHOOSE x : IsSum(x, f, T)
<1>1. IsFiniteSet(T)
  BY FS_Subset
<1>2. IsSum(g, f, T)
  BY <1>1, SumExists, Zenon
<1>3. h[T] = g[T]
  <2> HIDE DEF g
  <2> QED
    BY <1>2, SumUnique
<1> QED
  BY <1>3 DEF Total

(* The recursion, in terms of Total. *)
LEMMA TotalStep ==
    ASSUME NEW f, NEW S, IsFiniteSet(S)
    PROVE  Total(f, S) = IF S = {} THEN 0 ELSE f[Pick(S)] + Total(f, S \ {Pick(S)})
<1>1. PICK h : IsSum(h, f, S)
  BY SumExists
<1>2. h[S] = IF S = {} THEN 0 ELSE f[Pick(S)] + h[S \ {Pick(S)}]
  BY <1>1 DEF IsSum
<1>3. S \ {Pick(S)} \in SUBSET S
  OBVIOUS
<1>4. h[S] = Total(f, S) /\ h[S \ {Pick(S)}] = Total(f, S \ {Pick(S)})
  BY <1>1, <1>3, TotalIs
<1> QED
  BY <1>2, <1>4

(* A sum of natural numbers is one. *)
LEMMA TotalNat ==
    ASSUME NEW f, NEW S, IsFiniteSet(S), \A x \in S : f[x] \in Nat
    PROVE  Total(f, S) \in Nat
<1> DEFINE Bad == {T \in SUBSET S : Total(f, T) \notin Nat}
<1> SUFFICES ASSUME Bad # {} PROVE FALSE
  OBVIOUS
<1>1. PICK T \in Bad : \A U \in Bad : ~(U \subseteq T /\ U # T)
  <2>1. Bad \in SUBSET SUBSET S
    OBVIOUS
  <2> HIDE DEF Bad
  <2> QED
    BY <2>1, SmallestSubset
<1>2. Total(f, T) = IF T = {} THEN 0 ELSE f[Pick(T)] + Total(f, T \ {Pick(T)})
  BY TotalStep, FS_Subset
<1>3. T # {}
  BY <1>2
<1>4. Pick(T) \in T
  BY <1>3, Picks
<1>5. Total(f, T \ {Pick(T)}) \in Nat
  BY <1>1, <1>4
<1> QED
  BY <1>2, <1>4, <1>5

(* Any element can be taken out of a sum, not only the one that is picked. *)
LEMMA TotalSplit ==
    ASSUME NEW f, NEW S, IsFiniteSet(S), \A x \in S : f[x] \in Nat, NEW x \in S
    PROVE  Total(f, S) = f[x] + Total(f, S \ {x})
<1> DEFINE Splits(T) == \A y \in T : Total(f, T) = f[y] + Total(f, T \ {y})
           Bad == {T \in SUBSET S : ~Splits(T)}
<1> SUFFICES ASSUME Bad # {} PROVE FALSE
  OBVIOUS
<1>1. PICK T \in Bad : \A U \in Bad : ~(U \subseteq T /\ U # T)
  <2>1. Bad \in SUBSET SUBSET S
    OBVIOUS
  <2> HIDE DEF Bad
  <2> QED
    BY <2>1, SmallestSubset
<1>2. PICK y \in T : Total(f, T) # f[y] + Total(f, T \ {y})
  OBVIOUS
<1> DEFINE p == Pick(T)
<1>3. p \in T
  BY Picks
<1>4. Total(f, T) = f[p] + Total(f, T \ {p})
  BY TotalStep, FS_Subset
<1>5. y # p
  BY <1>2, <1>4
<1> HIDE DEF p
<1>a. Splits(T \ {p}) /\ Splits(T \ {y})
  <2> HIDE DEF Splits
  <2> QED
    BY <1>1, <1>3
<1>6. Total(f, T \ {p}) = f[y] + Total(f, (T \ {p}) \ {y})
  BY <1>a, <1>5
<1>7. Total(f, T \ {y}) = f[p] + Total(f, (T \ {y}) \ {p})
  BY <1>a, <1>3, <1>5
<1>8. (T \ {p}) \ {y} = (T \ {y}) \ {p} /\ IsFiniteSet((T \ {p}) \ {y})
  BY FS_Subset
<1>9. Total(f, (T \ {p}) \ {y}) \in Nat
  BY <1>8, TotalNat
<1>b. f[p] \in Nat /\ f[y] \in Nat
  BY <1>3
<1> HIDE DEF Bad, Splits
<1> QED
  BY <1>2, <1>4, <1>6, <1>7, <1>8, <1>9, <1>b

(* A sum is at most another if its terms but the zeros go, one to one, to terms
   of the other that are no less. *)
LEMMA TotalInject ==
    ASSUME NEW P, IsFiniteSet(P), NEW R, IsFiniteSet(R), NEW f, NEW g, NEW r,
           \A x \in P : f[x] \in Nat,
           \A y \in R : g[y] \in Nat,
           \A x \in P : f[x] # 0 => r[x] \in R /\ f[x] <= g[r[x]],
           \A x, y \in P : f[x] # 0 /\ f[y] # 0 /\ r[x] = r[y] => x = y
    PROVE  Total(f, P) <= Total(g, R)
<1> DEFINE Fits(T, U) == \A x \in T : f[x] # 0 => r[x] \in U
           Bad == {T \in SUBSET P : \E U \in SUBSET R :
                        Fits(T, U) /\ ~(Total(f, T) <= Total(g, U))}
<1> SUFFICES ASSUME Bad # {} PROVE FALSE
  OBVIOUS
<1>1. PICK T \in Bad : \A U \in Bad : ~(U \subseteq T /\ U # T)
  <2>1. Bad \in SUBSET SUBSET P
    OBVIOUS
  <2> HIDE DEF Bad
  <2> QED
    BY <2>1, SmallestSubset
<1>2. PICK U \in SUBSET R : Fits(T, U) /\ ~(Total(f, T) <= Total(g, U))
  OBVIOUS
<1>3. Total(g, U) \in Nat
  BY TotalNat, FS_Subset
<1> DEFINE p == Pick(T)
<1>4. Total(f, T) = IF T = {} THEN 0 ELSE f[p] + Total(f, T \ {p})
  BY TotalStep, FS_Subset
<1>5. T # {}
  BY <1>2, <1>3, <1>4
<1>6. p \in T
  BY <1>5, Picks
<1> HIDE DEF p
<1>7. \A V \in SUBSET R : Fits(T \ {p}, V) => Total(f, T \ {p}) <= Total(g, V)
  BY <1>1, <1>6
<1>8. Total(f, T \ {p}) \in Nat
  BY TotalNat, FS_Subset
<1>9. CASE f[p] = 0
  BY <1>2, <1>3, <1>4, <1>5, <1>7, <1>8, <1>9
<1>10. CASE f[p] # 0
  <2>1. r[p] \in U /\ f[p] <= g[r[p]]
    BY <1>2, <1>6, <1>10
  <2>2. Fits(T \ {p}, U \ {r[p]})
    BY <1>2, <1>6, <1>10
  <2>3. Total(g, U) = g[r[p]] + Total(g, U \ {r[p]})
    BY <2>1, TotalSplit, FS_Subset
  <2>4. Total(f, T \ {p}) <= Total(g, U \ {r[p]})
    BY <1>7, <2>2
  <2>5. Total(g, U \ {r[p]}) \in Nat
    BY TotalNat, FS_Subset
  <2> QED
    BY <1>2, <1>4, <1>5, <1>6, <1>8, <2>1, <2>3, <2>4, <2>5
<1> QED
  BY <1>9, <1>10

(* The counts of the rows. *)
Cnt == [id \in DOMAIN store |-> store[id].count]
(* A sum of counts of rows, as the module writes it, is a Total. *)
LEMMA Counted ==
    ASSUME NEW S \in SUBSET DOMAIN store
    PROVE  MapThenSumSet(LAMBDA id : store[id].count, S) = Total(Cnt, S)
<1> DEFINE body(s, h) == IF s = {} THEN 0 ELSE store[Pick(s)].count + h[s \ {Pick(s)}]
           P(h) == h = [s \in SUBSET S |-> body(s, h)]
<1>1. MapThenSumSet(LAMBDA id : store[id].count, S) = (CHOOSE h : P(h))[S]
  BY DEF MapThenSumSet, MapThenFoldSet, Pick
<1>2. \A h : P(h) <=> IsSum(h, Cnt, S)
  <2> TAKE h
  <2>1. \A s \in SUBSET S :
            body(s, h) = IF s = {} THEN 0 ELSE Cnt[Pick(s)] + h[s \ {Pick(s)}]
    BY Picks DEF Cnt
  <2> HIDE DEF body
  <2> QED
    BY <2>1 DEF IsSum
<1>3. (CHOOSE h : P(h)) = (CHOOSE h : IsSum(h, Cnt, S))
  <2> HIDE DEF P
  <2> QED
    BY <1>2, Zenon
<1> QED
  BY <1>1, <1>3 DEF Total

-----------------------------------------------------------------------------
(* What the theorems assume of the owners and of the rows found at the start. *)

(* The where clause of findOne selects the rows of the owner and no others:
   when an undefined org matches every row, an actor that has no org shares
   its type and id with no owner that has one.  acquire needs it: it does not
   check ownerMatches, so it would add its units to the other owner's row. *)
Selective ==
    \A p \in Procs, o \in Owners :
        /\ o.actor = OwnerOf[p].actor
        /\ \/ o.org = OwnerOf[p].org
           \/ Wildcard /\ OwnerOf[p].org = NoOrg
        => o = OwnerOf[p]

(* No leftover row counts more than max units, unless it has expired. *)
Modest == \A row \in Leftovers : IsExpired(row) \/ row.count <= MaxUnits

-----------------------------------------------------------------------------
(* The inductive invariant. *)

(* The rows of p's owner for a key. *)
Mine(p, k) == {id \in ByKey(k) : store[id].owner = OwnerOf[p]}

(* A call refers to a row of its own owner and key, if it is still there. *)
Refers ==
    \A q \in Procs :
        call[q].id \in DOMAIN store =>
            /\ store[call[q].id].owner = OwnerOf[q]
            /\ store[call[q].id].key = call[q].key

(* An update of release takes no more than the count it has read. *)
Takes == \A q \in Procs : At(q, "releaseUpdate") => call[q].n <= call[q].have

(* The units that are in a row but not used: acquired by a call that has not
   returned, or given up by a release that has not written yet. *)
InFlight(p, k) ==
    IF /\ call[p].key = k
       /\ \/ call[p].at \in {"releaseFind", "releaseUpdate", "releaseDelete"}
          \/ call[p].at = "acquireAfter" /\ call[p].acquired
    THEN call[p].n
    ELSE 0

Owed(p, k) == using[p][k] + InFlight(p, k)

OneRow(p) == \A k \in Keys : \A i, j \in Mine(p, k) : i = j

Bounded(p) ==
    \A k \in Keys : \A i \in Mine(p, k) :
        IsExpired(store[i]) \/ store[i].count <= MaxUnits

Backed(p) ==
    \A k \in Keys :
        Owed(p, k) > 0 =>
            \E i \in Mine(p, k) :
                ~IsExpired(store[i]) /\ Owed(p, k) <= store[i].count

(* What a call knows at each await: nobody else writes the rows of p's owner,
   so what p has read of them still holds. *)
MayAdd(p) ==
    /\ call[p].n <= MaxUnits
    /\ \A i \in Mine(p, call[p].key) :
        IsExpired(store[i]) \/ store[i].count + call[p].n <= MaxUnits

HasRead(p) ==
    /\ call[p].id \in Mine(p, call[p].key)
    /\ call[p].have = store[call[p].id].count

CallOK(p) ==
    /\ At(p, "acquireCount") => ~call[p].acquired
    /\ At(p, "acquireFind") => MayAdd(p)
    /\ At(p, "acquireUpdate") =>
        MayAdd(p) /\ HasRead(p) /\ ~IsExpired(store[call[p].id])
    /\ At(p, "acquireDelete") =>
        MayAdd(p) /\ HasRead(p) /\ IsExpired(store[call[p].id])
    /\ At(p, "acquireCreate") => MayAdd(p) /\ Mine(p, call[p].key) = {}
    /\ At(p, "releaseUpdate") => HasRead(p)
    /\ At(p, "releaseDelete") => HasRead(p) /\ call[p].n = call[p].have

Local(p) == OneRow(p) /\ Bounded(p) /\ Backed(p) /\ CallOK(p)

IInv ==
    /\ TypeOK
    /\ IsFiniteSet(DOMAIN store)
    /\ Refers
    /\ Takes
    /\ \A p \in Alone : Local(p)

-----------------------------------------------------------------------------
(* Types and helpers. *)

(* A call that begins has the type of a call. *)
LEMMA BeginType ==
    /\ \A at \in Labels, k \in Keys, n \in Counts :
            /\ Begin(at, k, n) \in Calls
            /\ Begin(at, k, n).at = at
            /\ Begin(at, k, n).key = k
            /\ Begin(at, k, n).n = n
            /\ Begin(at, k, n).id = NoId
            /\ Begin(at, k, n).acquired = FALSE
    /\ \A at \in Labels :
            Settled(at) \in Calls /\ Settled(at).at = at /\ Settled(at).id = NoId
<1>1. \A at \in Labels, k \in Keys, n \in Counts :
            /\ Begin(at, k, n) \in Calls
            /\ Begin(at, k, n).at = at
            /\ Begin(at, k, n).key = k
            /\ Begin(at, k, n).n = n
            /\ Begin(at, k, n).id = NoId
            /\ Begin(at, k, n).acquired = FALSE
  BY DEF Begin, Calls
<1>2. (CHOOSE k \in Keys : TRUE) \in Keys /\ (CHOOSE n \in Counts : TRUE) \in Counts
  BY SemaphoreAssumption
<1> QED
  BY <1>1, <1>2 DEF Settled

(* What the repository finds for an owner are the owner's rows. *)
LEMMA ByOwnerMine ==
    ASSUME Selective, TypeOK, NEW p \in Procs, NEW k \in Keys
    PROVE  ByOwner(OwnerOf[p], k) = Mine(p, k)
<1>1. \A id \in ByKey(k) : store[id].owner \in Owners
  BY DEF ByKey, TypeOK, StoreOK, Rows
<1> QED
  BY <1>1 DEF ByOwner, Mine, Selective

(* How a step of q may change the rows and what the others may see of it:
   only rows q's call refers to, and new ones of its own owner. *)
Writes(q) ==
    \/ store' = store
    \/ Delete(call[q].id)
    \/ /\ call[q].id \in DOMAIN store
       /\ \E c \in Nat : Update(call[q].id, [store[call[q].id] EXCEPT !.count = c])
    \/ \E id \in Ids \ Referenced, n \in Counts :
            Create(id, [key |-> call[q].key, owner |-> OwnerOf[q],
                        count |-> n, left |-> NoExpiry])

Keeps(q) ==
    \/ call'[q].id = NoId
    \/ call'[q].id = call[q].id /\ call'[q].key = call[q].key
    \/ /\ store' = store
       /\ call'[q].key = call[q].key
       /\ call'[q].id \in Mine(q, call[q].key)

Moves(q) ==
    /\ call' = [call EXCEPT ![q] = call'[q]]
    /\ using' = [using EXCEPT ![q] = using'[q]]
    /\ call'[q] \in Calls
    /\ using'[q] \in [Keys -> Nat]
    /\ Writes(q)
    /\ Keeps(q)
    /\ call'[q].at = "releaseUpdate" => call'[q].n <= call'[q].have

(* Every action of a step is such a move. *)
LEMMA StepMoves ==
    ASSUME TypeOK, Takes, Selective, NEW q \in Procs, Step(q)
    PROVE  Moves(q)
<1> USE DEF At
<1>0. /\ call[q] \in Calls
      /\ call[q].key \in Keys /\ call[q].n \in Counts /\ call[q].n \in Nat
      /\ call[q].have \in Nat
      /\ using[q] \in [Keys -> Nat]
      /\ DOMAIN call = Procs /\ DOMAIN using = Procs
      /\ call = [call EXCEPT ![q] = call[q]]
      /\ using = [using EXCEPT ![q] = using[q]]
  BY SemaphoreAssumption DEF TypeOK, Calls
<1>s. Settled("idle") \in Calls /\ Settled("dead") \in Calls
      /\ Settled("idle").at = "idle" /\ Settled("dead").at = "dead"
      /\ Settled("idle").id = NoId /\ Settled("dead").id = NoId
  BY BeginType DEF Labels
<1>f. ASSUME Finish(q), Writes(q), using' = [using EXCEPT ![q] = using'[q]],
             using'[q] \in [Keys -> Nat]
      PROVE  Moves(q)
  BY <1>0, <1>s, <1>f DEF Finish, Await, Moves, Keeps
<1>w. ASSUME NEW c, c \in Calls, Await(q, c), Writes(q), UNCHANGED using,
             c.id = call[q].id, c.key = call[q].key, c.at # "releaseUpdate"
      PROVE  Moves(q)
  BY <1>0, <1>w DEF Await, Moves, Keeps
<1>1. ASSUME NEW k \in Keys, NEW n \in Counts, Acquire(q, k, n) PROVE Moves(q)
  <2> DEFINE c == Begin("acquireCount", k, n)
  <2>1. c \in Calls /\ c.at = "acquireCount" /\ c.id = NoId
    BY BeginType DEF Labels
  <2>2. Await(q, c) /\ UNCHANGED <<store, using>>
    BY <1>1 DEF Acquire
  <2> HIDE DEF c
  <2> QED
    BY <1>0, <2>1, <2>2 DEF Await, Moves, Keeps, Writes
<1>2. ASSUME NEW k \in Keys, NEW n \in Counts, Release(q, k, n) PROVE Moves(q)
  <2>1. using[q][k] - n \in Nat /\ using'[q] = [using[q] EXCEPT ![k] = @ - n]
    BY <1>0, <1>2, SemaphoreAssumption DEF Release
  <2>2. using'[q] \in [Keys -> Nat] /\ using' = [using EXCEPT ![q] = using'[q]]
    BY <1>0, <1>2, <2>1 DEF Release
  <2> DEFINE c == Begin("releaseFind", k, n)
  <2>3. c \in Calls /\ c.at = "releaseFind" /\ c.id = NoId
    BY BeginType DEF Labels
  <2>4. Await(q, c) /\ UNCHANGED store
    BY <1>2 DEF Release
  <2> HIDE DEF c
  <2> QED
    BY <1>0, <2>2, <2>3, <2>4 DEF Await, Moves, Keeps, Writes
<1>3. CASE AcquireCount(q)
  <2> DEFINE c == [call[q] EXCEPT !.at =
                      IF call[q].n > MaxUnits - CurrentCount(call[q].key)
                      THEN "acquireAfter" ELSE "acquireFind"]
  <2>1. /\ c \in Calls /\ c.id = call[q].id /\ c.key = call[q].key
        /\ c.at # "releaseUpdate"
    BY <1>0 DEF Calls, Labels, AfterLabels
  <2>2. Await(q, c) /\ Writes(q) /\ UNCHANGED using
    BY <1>3 DEF AcquireCount, Writes
  <2> HIDE DEF c
  <2> QED
    BY <1>w, <2>1, <2>2
<1>m. ByOwner(OwnerOf[q], call[q].key) = Mine(q, call[q].key)
  BY <1>0, ByOwnerMine
<1>x. \A id \in FindOne(ByOwner(OwnerOf[q], call[q].key)) :
        id # NoId => /\ id \in Mine(q, call[q].key)
                     /\ id \in Ids
                     /\ store[id].count \in Nat
  BY <1>m DEF FindOne, Mine, ByKey, TypeOK, StoreOK, Rows
<1>4. CASE AcquireFind(q)
  <2>1. PICK id \in FindOne(ByOwner(OwnerOf[q], call[q].key)) :
        \/ /\ id = NoId
           /\ Await(q, [call[q] EXCEPT !.at = "acquireCreate"])
        \/ /\ id # NoId
           /\ Await(q, [call[q] EXCEPT !.at = IF IsExpired(store[id])
                                              THEN "acquireDelete"
                                              ELSE "acquireUpdate",
                                       !.id = id,
                                       !.have = store[id].count])
    BY <1>4 DEF AcquireFind
  <2>2. UNCHANGED <<store, using>> /\ Writes(q)
    BY <1>4 DEF AcquireFind, Writes
  <2>3. CASE Await(q, [call[q] EXCEPT !.at = "acquireCreate"])
    BY <1>0, <1>w, <2>2, <2>3 DEF Calls, Labels
  <2>4. CASE id # NoId /\ Await(q, [call[q] EXCEPT !.at = IF IsExpired(store[id])
                                              THEN "acquireDelete"
                                              ELSE "acquireUpdate",
                                       !.id = id,
                                       !.have = store[id].count])
    <3>1. id \in Mine(q, call[q].key) /\ id \in Ids /\ store[id].count \in Nat
      BY <1>x, <2>4
    <3>2. /\ call'[q] \in Calls /\ call'[q].id = id /\ call'[q].key = call[q].key
          /\ call'[q].at # "releaseUpdate"
          /\ call' = [call EXCEPT ![q] = call'[q]]
      BY <1>0, <2>4, <3>1 DEF Await, Calls, Labels
    <3> QED
      BY <1>0, <2>2, <3>1, <3>2 DEF Moves, Keeps
  <2> QED
    BY <2>1, <2>3, <2>4
<1>5. CASE AcquireUpdate(q)
  <2>1. call[q].have + call[q].n \in Nat
    BY <1>0
  <2>2. Writes(q)
    BY <1>5, <2>1 DEF AcquireUpdate, Writes
  <2> QED
    BY <1>0, <1>5, <1>w, <2>2 DEF AcquireUpdate, Calls, Labels, AfterLabels
<1>6. CASE AcquireDelete(q)
  BY <1>0, <1>6, <1>w DEF AcquireDelete, Writes, Calls, Labels
<1>7. CASE AcquireCreate(q)
  <2>1. Writes(q)
    BY <1>0, <1>7 DEF AcquireCreate, Writes
  <2> QED
    BY <1>0, <1>7, <1>w, <2>1 DEF AcquireCreate, Calls, Labels, AfterLabels
<1>8. CASE AcquireReturn(q)
  <2>1. using' = [using EXCEPT ![q] = using'[q]] /\ using'[q] \in [Keys -> Nat]
    <3>1. CASE call[q].acquired
      <4>1. using' = [using EXCEPT ![q][call[q].key] = @ + call[q].n]
        BY <1>8, <3>1 DEF AcquireReturn
      <4>2. using[q][call[q].key] + call[q].n \in Nat
        BY <1>0
      <4> QED
        BY <1>0, <4>1, <4>2
    <3>2. CASE ~call[q].acquired
      BY <1>0, <1>8, <3>2 DEF AcquireReturn
    <3> QED
      BY <3>1, <3>2
  <2> QED
    BY <1>8, <1>f, <2>1 DEF AcquireReturn, Writes
<1>9. CASE ReleaseFind(q)
  <2>1. PICK id \in FindOne(ByOwner(OwnerOf[q], call[q].key)) :
        IF /\ id # NoId
           /\ OwnerMatches(store[id], OwnerOf[q])
           /\ call[q].n <= store[id].count
        THEN Await(q, [call[q] EXCEPT !.at = IF store[id].count = call[q].n
                                             THEN "releaseDelete"
                                             ELSE "releaseUpdate",
                                      !.id = id,
                                      !.have = store[id].count])
        ELSE Finish(q)
    BY <1>9 DEF ReleaseFind
  <2>2. UNCHANGED <<store, using>> /\ Writes(q)
    BY <1>9 DEF ReleaseFind, Writes
  <2>3. CASE Finish(q)
    BY <1>0, <1>f, <2>2, <2>3
  <2>4. CASE ~Finish(q)
    <3>1. /\ id # NoId
          /\ call[q].n <= store[id].count
          /\ Await(q, [call[q] EXCEPT !.at = IF store[id].count = call[q].n
                                             THEN "releaseDelete"
                                             ELSE "releaseUpdate",
                                      !.id = id,
                                      !.have = store[id].count])
      BY <2>1, <2>4
    <3>2. id \in Mine(q, call[q].key) /\ id \in Ids /\ store[id].count \in Nat
      BY <1>x, <3>1
    <3>3. /\ call'[q] \in Calls /\ call'[q].id = id /\ call'[q].key = call[q].key
          /\ call'[q].n <= call'[q].have
          /\ call' = [call EXCEPT ![q] = call'[q]]
      BY <1>0, <3>1, <3>2 DEF Await, Calls, Labels
    <3> QED
      BY <1>0, <2>2, <3>2, <3>3 DEF Moves, Keeps
  <2> QED
    BY <2>3, <2>4
<1>10. CASE ReleaseDelete(q)
  BY <1>0, <1>10, <1>w DEF ReleaseDelete, Writes, Calls, Labels, AfterLabels
<1>11. CASE ReleaseUpdate(q)
  <2>1. call[q].have - call[q].n \in Nat
    BY <1>0, <1>11 DEF ReleaseUpdate, Takes
  <2>2. Writes(q)
    BY <1>11, <2>1 DEF ReleaseUpdate, Writes
  <2> QED
    BY <1>0, <1>11, <1>w, <2>2 DEF ReleaseUpdate, Calls, Labels, AfterLabels
<1>12. CASE ReleaseReturn(q) \/ RowLost(q) \/ HookThrows(q)
  BY <1>0, <1>12, <1>f DEF ReleaseReturn, RowLost, HookThrows, Writes
<1>13. CASE Crash(q)
  <2>1. using'[q] = [k \in Keys |-> 0] /\ using' = [using EXCEPT ![q] = using'[q]]
    BY <1>0, <1>13 DEF Crash
  <2> QED
    BY <1>0, <1>s, <1>13, <2>1 DEF Crash, Await, Moves, Keeps, Writes
<1> QED
  BY <1>1, <1>2, <1>3, <1>4, <1>5, <1>6, <1>7, <1>8, <1>9, <1>10, <1>11,
     <1>12, <1>13 DEF Step

(* A move keeps the types and what every call refers to. *)
LEMMA MoveType ==
    ASSUME TypeOK, IsFiniteSet(DOMAIN store), Refers, Takes,
           NEW q \in Procs, Moves(q), overtaken' \subseteq Procs
    PROVE  (TypeOK /\ IsFiniteSet(DOMAIN store) /\ Refers /\ Takes)'
<1>1. (call \in [Procs -> Calls] /\ using \in [Procs -> [Keys -> Nat]])'
  BY DEF TypeOK, Moves
<1>2. call[q].key \in Keys
  BY DEF TypeOK, Calls
<1>3. \A p \in Procs : p # q => call'[p] = call[p]
  BY DEF TypeOK, Moves
<1>4. Takes'
  BY <1>1, <1>3 DEF Takes, At, Moves
<1>5. ASSUME store' = store
      PROVE  (StoreOK /\ IsFiniteSet(DOMAIN store) /\ Refers)'
  <2>1. StoreOK' /\ IsFiniteSet(DOMAIN store)'
    BY <1>5 DEF StoreOK, TypeOK
  <2>2. ASSUME NEW p \in Procs, (call[p].id \in DOMAIN store)'
        PROVE  (/\ store[call[p].id].owner = OwnerOf[p]
                /\ store[call[p].id].key = call[p].key)'
    <3>1. CASE p # q
      BY <1>3, <1>5, <2>2, <3>1 DEF Refers
    <3>2. CASE p = q
      BY <1>5, <2>2, <3>2, RepositoryAssumption
         DEF Refers, Moves, Keeps, Mine, ByKey, TypeOK, StoreOK
    <3> QED
      BY <3>1, <3>2
  <2> QED
    BY <2>1, <2>2 DEF Refers
<1>6. ASSUME store' # store, NEW p \in Procs
      PROVE  \/ call'[p].id = NoId
             \/ call'[p].id = call[p].id /\ call'[p].key = call[p].key
  BY <1>3, <1>6 DEF Moves, Keeps
<1>7. ASSUME store' # store, Delete(call[q].id)
      PROVE  (StoreOK /\ IsFiniteSet(DOMAIN store) /\ Refers)'
  <2>1. /\ (DOMAIN store)' \subseteq DOMAIN store
        /\ \A id \in (DOMAIN store)' : store'[id] = store[id]
    BY <1>7 DEF Delete
  <2>2. (StoreOK /\ IsFiniteSet(DOMAIN store))'
    BY <2>1, FS_Subset DEF StoreOK, TypeOK
  <2> QED
    BY <1>6, <1>7, <2>1, <2>2, RepositoryAssumption DEF Refers, StoreOK, TypeOK
<1>8. ASSUME store' # store, call[q].id \in DOMAIN store,
             NEW c \in Nat, Update(call[q].id, [store[call[q].id] EXCEPT !.count = c])
      PROVE  (StoreOK /\ IsFiniteSet(DOMAIN store) /\ Refers)'
  <2>1. store[call[q].id] \in Rows
    BY <1>8 DEF TypeOK, StoreOK
  <2>2. /\ (DOMAIN store)' = DOMAIN store
        /\ \A id \in DOMAIN store : /\ store'[id] \in Rows
                                    /\ store'[id].owner = store[id].owner
                                    /\ store'[id].key = store[id].key
    BY <1>8, <2>1 DEF Update, TypeOK, StoreOK, Rows
  <2> QED
    BY <1>6, <1>8, <2>2, RepositoryAssumption DEF Refers, StoreOK, TypeOK
<1>9. ASSUME store' # store, NEW id \in Ids \ Referenced, NEW n \in Counts,
             Create(id, [key |-> call[q].key, owner |-> OwnerOf[q],
                        count |-> n, left |-> NoExpiry])
      PROVE  (StoreOK /\ IsFiniteSet(DOMAIN store) /\ Refers)'
  <2>1. [key |-> call[q].key, owner |-> OwnerOf[q], count |-> n, left |-> NoExpiry]
            \in Rows
    BY <1>2, SemaphoreAssumption DEF Rows, Lefts, NoExpiry
  <2>2. /\ (DOMAIN store)' = DOMAIN store \cup {id}
        /\ store'[id] \in Rows
        /\ id \notin DOMAIN store
        /\ \A i \in DOMAIN store : store'[i] = store[i]
        /\ \A p \in Procs : call[p].id # id
    BY <1>9, <2>1 DEF Create, Referenced
  <2>3. (StoreOK /\ IsFiniteSet(DOMAIN store))'
    BY <2>2, FS_AddElement DEF StoreOK, TypeOK
  <2> QED
    BY <1>6, <1>9, <2>2, <2>3, RepositoryAssumption DEF Refers, StoreOK, TypeOK
<1>10. (StoreOK /\ IsFiniteSet(DOMAIN store) /\ Refers)'
  BY <1>5, <1>7, <1>8, <1>9 DEF Moves, Writes
<1> QED
  BY <1>1, <1>4, <1>10 DEF TypeOK

(* A move of another process leaves the rows of an owner nobody shares, and
   what its process knows of them. *)
LEMMA Frame ==
    ASSUME TypeOK, Refers, NEW p \in Alone, NEW q \in Procs, q # p, Moves(q), Local(p)
    PROVE  Local(p)'
<1>1. p \in Procs /\ OwnerOf[q] # OwnerOf[p]
  BY DEF Alone
<1>2. call'[p] = call[p] /\ using'[p] = using[p]
  BY <1>1 DEF Moves, TypeOK
<1> DEFINE Same(k) == /\ Mine(p, k)' = Mine(p, k)
                      /\ \A i \in Mine(p, k) : store'[i] = store[i]
<1>3. \A k \in Keys : Same(k)
  <2>1. CASE Delete(call[q].id)
    BY <1>1, <2>1 DEF Delete, Mine, ByKey, Refers
  <2>2. ASSUME call[q].id \in DOMAIN store,
               NEW c \in Nat, Update(call[q].id, [store[call[q].id] EXCEPT !.count = c])
        PROVE  \A k \in Keys : Same(k)
    <3>1. store[call[q].id] \in Rows
      BY <2>2 DEF TypeOK, StoreOK
    <3>2. /\ (DOMAIN store)' = DOMAIN store
          /\ \A id \in DOMAIN store : /\ store'[id].owner = store[id].owner
                                      /\ store'[id].key = store[id].key
                                      /\ id # call[q].id => store'[id] = store[id]
      BY <2>2, <3>1 DEF Update, Rows
    <3> QED
      BY <1>1, <2>2, <3>2 DEF Mine, ByKey, Refers
  <2>3. ASSUME NEW id \in Ids \ Referenced, NEW n \in Counts,
               Create(id, [key |-> call[q].key, owner |-> OwnerOf[q],
                           count |-> n, left |-> NoExpiry])
        PROVE  \A k \in Keys : Same(k)
    <3>1. /\ (DOMAIN store)' = DOMAIN store \cup {id}
          /\ store'[id].owner = OwnerOf[q]
          /\ id \notin DOMAIN store
          /\ \A i \in DOMAIN store : store'[i] = store[i]
      BY <2>3 DEF Create, Referenced
    <3> QED
      BY <1>1, <3>1 DEF Mine, ByKey
  <2>4. CASE store' = store
    BY <2>4 DEF Mine, ByKey
  <2> QED
    BY <2>1, <2>2, <2>3, <2>4 DEF Moves, Writes
<1>4. call[p].key \in Keys
  BY <1>1 DEF TypeOK, Calls
<1>5. \A k \in Keys : Owed(p, k)' = Owed(p, k)
  BY <1>2 DEF Owed, InFlight
<1>6. (OneRow(p) /\ Bounded(p))'
  BY <1>3 DEF Local, OneRow, Bounded, IsExpired
<1>7. Backed(p)'
  BY <1>3, <1>5 DEF Local, Backed, IsExpired
<1>8. CallOK(p)'
  BY <1>2, <1>3, <1>4 DEF Local, CallOK, At, MayAdd, HasRead, IsExpired
<1> QED
  BY <1>6, <1>7, <1>8 DEF Local

(* How the rows of p's owner look after each kind of write of p itself. *)
LEMMA OwnStore ==
    ASSUME TypeOK, Refers, NEW p \in Procs, call[p].key \in Keys
    PROVE  /\ store' = store => \A k \in Keys : Mine(p, k)' = Mine(p, k)
           /\ Delete(call[p].id) =>
                \A k \in Keys :
                    /\ Mine(p, k)' = Mine(p, k) \ {call[p].id}
                    /\ \A i \in Mine(p, k) \ {call[p].id} : store'[i] = store[i]
           /\ \A c \in Nat :
                /\ call[p].id \in DOMAIN store
                /\ Update(call[p].id, [store[call[p].id] EXCEPT !.count = c])
                => /\ \A k \in Keys : Mine(p, k)' = Mine(p, k)
                   /\ \A i \in DOMAIN store :
                        /\ i # call[p].id => store'[i] = store[i]
                        /\ IsExpired(store[i])' = IsExpired(store[i])
                   /\ store'[call[p].id].count = c
           /\ \A id \in Ids \ Referenced, n \in Counts :
                Create(id, [key |-> call[p].key, owner |-> OwnerOf[p],
                            count |-> n, left |-> NoExpiry])
                => /\ \A k \in Keys :
                        /\ k = call[p].key => Mine(p, k)' = Mine(p, k) \cup {id}
                        /\ k # call[p].key => Mine(p, k)' = Mine(p, k)
                        /\ \A i \in Mine(p, k) : store'[i] = store[i]
                   /\ id \notin DOMAIN store
                   /\ store'[id].count = n
                   /\ ~IsExpired(store[id])'
<1>1. store' = store => \A k \in Keys : Mine(p, k)' = Mine(p, k)
  BY DEF Mine, ByKey
<1>2. Delete(call[p].id) =>
                \A k \in Keys :
                    /\ Mine(p, k)' = Mine(p, k) \ {call[p].id}
                    /\ \A i \in Mine(p, k) \ {call[p].id} : store'[i] = store[i]
  BY DEF Delete, Mine, ByKey
<1>3. ASSUME NEW c \in Nat, call[p].id \in DOMAIN store,
             Update(call[p].id, [store[call[p].id] EXCEPT !.count = c])
      PROVE  /\ \A k \in Keys : Mine(p, k)' = Mine(p, k)
             /\ \A i \in DOMAIN store :
                        /\ i # call[p].id => store'[i] = store[i]
                        /\ IsExpired(store[i])' = IsExpired(store[i])
             /\ store'[call[p].id].count = c
  <2>1. store[call[p].id] \in Rows
    BY <1>3 DEF TypeOK, StoreOK
  <2>2. /\ (DOMAIN store)' = DOMAIN store
        /\ \A id \in DOMAIN store : /\ store'[id].owner = store[id].owner
                                    /\ store'[id].key = store[id].key
                                    /\ store'[id].left = store[id].left
                                    /\ id # call[p].id => store'[id] = store[id]
        /\ store'[call[p].id].count = c
    BY <1>3, <2>1 DEF Update, Rows
  <2> QED
    BY <2>2 DEF Mine, ByKey, IsExpired
<1>4. ASSUME NEW id \in Ids \ Referenced, NEW n \in Counts,
             Create(id, [key |-> call[p].key, owner |-> OwnerOf[p],
                            count |-> n, left |-> NoExpiry])
      PROVE  /\ \A k \in Keys :
                        /\ k = call[p].key => Mine(p, k)' = Mine(p, k) \cup {id}
                        /\ k # call[p].key => Mine(p, k)' = Mine(p, k)
                        /\ \A i \in Mine(p, k) : store'[i] = store[i]
             /\ id \notin DOMAIN store
             /\ store'[id].count = n
             /\ ~IsExpired(store[id])'
  <2>1. /\ (DOMAIN store)' = DOMAIN store \cup {id}
        /\ store'[id] = [key |-> call[p].key, owner |-> OwnerOf[p],
                         count |-> n, left |-> NoExpiry]
        /\ id \notin DOMAIN store
        /\ \A i \in DOMAIN store : store'[i] = store[i]
    BY <1>4 DEF Create, Referenced
  <2> QED
    BY <2>1 DEF Mine, ByKey, IsExpired, NoExpiry
<1> QED
  BY <1>1, <1>2, <1>3, <1>4

(* The sum of the live rows of a key is a number no row of it exceeds. *)
LEMMA CountAbove ==
    ASSUME TypeOK, IsFiniteSet(DOMAIN store), NEW k \in Keys
    PROVE  /\ CurrentCount(k) \in Nat
           /\ CurrentCount(k) = Total(Cnt, LiveRows(k))
           /\ IsFiniteSet(LiveRows(k))
           /\ \A i \in LiveRows(k) : Cnt[i] = store[i].count /\ Cnt[i] \in Nat
           /\ \A i \in LiveRows(k) : store[i].count <= CurrentCount(k)
<1> DEFINE R == LiveRows(k)
<1>1. R \in SUBSET DOMAIN store
  BY DEF LiveRows, ByKey
<1>2. IsFiniteSet(R)
  BY <1>1, FS_Subset
<1>3. CurrentCount(k) = Total(Cnt, R)
  BY <1>1, Counted DEF CurrentCount
<1>4. \A i \in R : Cnt[i] = store[i].count /\ Cnt[i] \in Nat
  BY <1>1 DEF Cnt, TypeOK, StoreOK, Rows
<1> HIDE DEF R
<1>5. Total(Cnt, R) \in Nat
  BY <1>2, <1>4, TotalNat
<1>6. ASSUME NEW i \in R PROVE store[i].count <= CurrentCount(k)
  <2>1. Total(Cnt, R) = Cnt[i] + Total(Cnt, R \ {i})
    BY <1>2, <1>4, TotalSplit
  <2>2. IsFiniteSet(R \ {i})
    BY <1>2, FS_Subset
  <2>3. Total(Cnt, R \ {i}) \in Nat
    BY <2>2, <1>4, TotalNat
  <2> QED
    BY <1>3, <1>4, <1>5, <2>1, <2>3
<1> QED
  BY <1>2, <1>3, <1>4, <1>5, <1>6 DEF R

(* A step of a process that shares its owner with nobody keeps what it knows. *)
LEMMA OwnStep ==
    ASSUME TypeOK, Refers, Takes, Selective, IsFiniteSet(DOMAIN store),
           NEW p \in Alone, Step(p), Local(p)
    PROVE  Local(p)'
<1> USE DEF At
<1> DEFINE c == call[p]
           d == call'[p]
           u == using[p]
           K == call[p].key
<1>0. /\ p \in Procs /\ c \in Calls
      /\ K \in Keys /\ c.n \in Nat \ {0} /\ c.n \in Counts
      /\ c.have \in Nat
      /\ u \in [Keys -> Nat]
      /\ \A k \in Keys : u[k] \in Nat
  <2>1. p \in Procs
    BY DEF Alone
  <2>2. c \in Calls /\ u \in [Keys -> Nat]
    BY <2>1 DEF TypeOK
  <2>3. K \in Keys /\ c.n \in Counts /\ c.have \in Nat
    BY <2>2 DEF Calls
  <2>4. c.n \in Nat \ {0}
    BY <2>3, SemaphoreAssumption
  <2> QED
    BY <2>1, <2>2, <2>3, <2>4
<1>1. \A x : Await(p, x) => d = x
  BY <1>0 DEF Await, TypeOK
<1>2. /\ Settled("idle").at = "idle" /\ Settled("dead").at = "dead"
  BY BeginType DEF Labels
<1>3. \A k \in Keys : /\ Mine(p, k) \subseteq DOMAIN store
                      /\ Mine(p, k) \subseteq Ids
                      /\ \A i \in Mine(p, k) : store[i].count \in Nat
  BY DEF Mine, ByKey, TypeOK, StoreOK, Rows
<1>l. OneRow(p) /\ Bounded(p) /\ Backed(p) /\ CallOK(p)
  BY DEF Local
<1>o. \A k \in Keys : InFlight(p, k) \in Nat /\ Owed(p, k) \in Nat /\ u[k] <= Owed(p, k)
  BY <1>0 DEF InFlight, Owed
<1>m. ByOwner(OwnerOf[p], K) = Mine(p, K)
  BY <1>0, ByOwnerMine
(* A step that leaves the rows alone, and owes no more than before. *)
<1>q. ASSUME store' = store, CallOK(p)',
             \A k \in Keys : Owed(p, k)' \in Nat /\ Owed(p, k)' <= Owed(p, k)
      PROVE  Local(p)'
  <2>1. \A k \in Keys : Mine(p, k)' = Mine(p, k)
    BY <1>0, <1>q, OwnStore
  <2>2. (OneRow(p) /\ Bounded(p))'
    BY <1>l, <1>q, <2>1 DEF OneRow, Bounded, IsExpired
  <2>3. Backed(p)'
    BY <1>l, <1>o, <1>3, <1>q, <2>1 DEF Backed, IsExpired
  <2> QED
    BY <1>l, <1>q, <2>2, <2>3 DEF Local
(* A call that ends, or waits for nothing it has read. *)
<1>e. ASSUME store' = store, 
             d.at \in {"idle", "dead", "releaseFind"} \cup AfterLabels,
             \A k \in Keys : Owed(p, k)' \in Nat /\ Owed(p, k)' <= Owed(p, k)
      PROVE  Local(p)'
  BY <1>e, <1>q DEF CallOK, AfterLabels
<1>f. ASSUME Finish(p), store' = store, using' = using PROVE Local(p)'
  <2>1. d.at = "idle"
    BY <1>1, <1>2, <1>f DEF Finish
  <2>2. \A k \in Keys : Owed(p, k)' = u[k]
    BY <1>0, <1>f, <2>1 DEF Owed, InFlight
  <2> QED
    BY <1>0, <1>o, <1>e, <1>f, <2>1, <2>2
<1>4. ASSUME NEW k \in Keys, NEW n \in Counts, Acquire(p, k, n) PROVE Local(p)'
  <2>1. d.at = "acquireCount" /\ ~d.acquired /\ UNCHANGED <<store, using>>
    BY <1>1, <1>4, BeginType DEF Acquire, Labels
  <2>2. \A j \in Keys : Owed(p, j)' = u[j]
    BY <1>0, <2>1 DEF Owed, InFlight
  <2> QED
    BY <1>0, <1>o, <1>q, <2>1, <2>2 DEF CallOK
<1>5. ASSUME NEW k \in Keys, NEW n \in Counts, Release(p, k, n) PROVE Local(p)'
  <2>1. d.at = "releaseFind" /\ d.key = k /\ d.n = n /\ UNCHANGED store
    <3>1. d = Begin("releaseFind", k, n) /\ UNCHANGED store
      BY <1>1, <1>5 DEF Release
    <3> QED
      BY <3>1 DEF Begin
  <2>2. n \in Nat /\ n <= u[k] /\ using'[p] = [u EXCEPT ![k] = @ - n]
    BY <1>0, <1>5, SemaphoreAssumption DEF Release, TypeOK
  <2>3. \A j \in Keys : Owed(p, j)' = u[j]
    <3> TAKE j \in Keys
    <3>1. CASE j = k
      <4>1. using'[p][k] = u[k] - n /\ InFlight(p, k)' = n
        BY <1>0, <2>1, <2>2 DEF InFlight
      <4> QED
        BY <1>0, <2>2, <3>1, <4>1 DEF Owed
    <3>2. CASE j # k
      <4>1. using'[p][j] = u[j] /\ InFlight(p, j)' = 0
        BY <1>0, <2>1, <2>2, <3>2 DEF InFlight
      <4> QED
        BY <1>0, <3>2, <4>1 DEF Owed
    <3> QED
      BY <3>1, <3>2
  <2> QED
    BY <1>0, <1>o, <1>e, <2>1, <2>3
<1>6. CASE AcquireCount(p)
  <2>1. /\ UNCHANGED <<store, using>>
        /\ d = [c EXCEPT !.at = IF c.n > MaxUnits - CurrentCount(K)
                                THEN "acquireAfter" ELSE "acquireFind"]
    BY <1>1, <1>6 DEF AcquireCount
  <2>2. d.key = K /\ d.n = c.n /\ d.acquired = c.acquired
    BY <1>0, <2>1 DEF Calls
  <2>3. CASE c.n > MaxUnits - CurrentCount(K)
    <3>1. d.at = "acquireAfter" /\ ~d.acquired
      BY <1>0, <1>l, <1>6, <2>1, <2>2, <2>3 DEF Calls, CallOK, AcquireCount
    <3>2. \A k \in Keys : Owed(p, k)' = u[k]
      BY <1>0, <2>1, <3>1 DEF Owed, InFlight
    <3> QED
      BY <1>0, <1>o, <1>e, <2>1, <3>1, <3>2 DEF AfterLabels
  <2>4. CASE ~(c.n > MaxUnits - CurrentCount(K))
    <3>1. d.at = "acquireFind"
      BY <1>0, <2>1, <2>4 DEF Calls
    <3>2. \A k \in Keys : Owed(p, k)' = u[k]
      BY <1>0, <2>1, <3>1 DEF Owed, InFlight
    <3>3. Mine(p, K)' = Mine(p, K)
      BY <1>0, <2>1, OwnStore
    <3>4. /\ CurrentCount(K) \in Nat
          /\ \A i \in LiveRows(K) : store[i].count <= CurrentCount(K)
      BY <1>0, CountAbove
    <3>5. \A i \in Mine(p, K) : IsExpired(store[i]) \/ i \in LiveRows(K)
      BY DEF LiveRows, Mine
    <3>6. c.n + CurrentCount(K) <= MaxUnits
      BY <1>0, <2>4, <3>4, SemaphoreAssumption
    <3>7. MayAdd(p)'
      BY <1>0, <1>3, <2>1, <2>2, <3>3, <3>4, <3>5, <3>6, SemaphoreAssumption DEF MayAdd
    <3> QED
      BY <1>0, <1>o, <1>q, <2>1, <3>1, <3>2, <3>7 DEF CallOK
  <2> QED
    BY <2>3, <2>4
<1>7. CASE AcquireFind(p)
  <2>1. PICK id \in FindOne(Mine(p, K)) :
        \/ /\ id = NoId
           /\ d = [c EXCEPT !.at = "acquireCreate"]
        \/ /\ id # NoId
           /\ d = [c EXCEPT !.at = IF IsExpired(store[id])
                                              THEN "acquireDelete"
                                              ELSE "acquireUpdate",
                                       !.id = id,
                                       !.have = store[id].count]
    BY <1>1, <1>7, <1>m DEF AcquireFind
  <2>2. UNCHANGED <<store, using>> /\ MayAdd(p)
    BY <1>l, <1>7 DEF AcquireFind, CallOK
  <2>3. d.key = K /\ d.n = c.n
    BY <1>0, <2>1 DEF Calls
  <2>4. Mine(p, K)' = Mine(p, K)
    BY <1>0, <2>2, <2>3, OwnStore
  <2>5. MayAdd(p)'
    BY <2>2, <2>3, <2>4 DEF MayAdd, IsExpired
  <2>6. CASE id = NoId
    <3>1. d.at = "acquireCreate"
      BY <1>0, <2>1, <2>6 DEF Calls
    <3>2. Mine(p, K) = {}
      BY <1>0, <1>3, <2>1, <2>6, RepositoryAssumption DEF FindOne
    <3>3. \A k \in Keys : Owed(p, k)' = u[k]
      BY <1>0, <2>2, <3>1 DEF Owed, InFlight
    <3> QED
      BY <1>0, <1>o, <1>q, <2>2, <2>3, <2>4, <2>5, <3>1, <3>2, <3>3 DEF CallOK
  <2>7. CASE id # NoId
    <3>1. id \in Mine(p, K) /\ d.id = id /\ d.have = store[id].count
      BY <1>0, <2>1, <2>7 DEF FindOne, Calls
    <3>2. d.at = IF IsExpired(store[id]) THEN "acquireDelete" ELSE "acquireUpdate"
      BY <1>0, <2>1, <2>7 DEF Calls
    <3>3. \A k \in Keys : Owed(p, k)' = u[k]
      BY <1>0, <2>2, <3>2 DEF Owed, InFlight
    <3>4. HasRead(p)' /\ (IsExpired(store[call[p].id])' <=> IsExpired(store[id]))
      BY <2>2, <2>3, <2>4, <3>1 DEF HasRead, IsExpired
    <3> QED
      BY <1>0, <1>o, <1>q, <2>2, <2>5, <3>2, <3>3, <3>4 DEF CallOK
  <2> QED
    BY <2>6, <2>7
<1>8. CASE AcquireUpdate(p)
  <2>1. /\ c.id \in DOMAIN store
        /\ Update(c.id, [store[c.id] EXCEPT !.count = c.have + c.n])
        /\ d = [c EXCEPT !.at = "acquireAfter", !.acquired = TRUE]
        /\ UNCHANGED using
    BY <1>1, <1>8 DEF AcquireUpdate
  <2>2. MayAdd(p) /\ HasRead(p) /\ ~IsExpired(store[c.id])
    BY <1>l, <1>8 DEF CallOK, AcquireUpdate
  <2>3. d.at = "acquireAfter" /\ d.acquired /\ d.key = K /\ d.n = c.n
    BY <1>0, <2>1 DEF Calls
  <2>4. /\ \A k \in Keys : Mine(p, k)' = Mine(p, k)
        /\ \A i \in DOMAIN store :
             /\ i # c.id => store'[i] = store[i]
             /\ IsExpired(store[i])' = IsExpired(store[i])
        /\ store'[c.id].count = c.have + c.n
    <3>1. c.have + c.n \in Nat
      BY <1>0
    <3> QED
      BY <1>0, <2>1, <3>1, OwnStore
  <2>5. /\ c.id \in Mine(p, K)
        /\ c.have = store[c.id].count
        /\ c.have + c.n <= MaxUnits
    BY <2>2 DEF MayAdd, HasRead
  <2>6. OneRow(p)'
    BY <1>l, <2>4 DEF OneRow
  <2>7. Bounded(p)'
    <3>1. \A k \in Keys : \A i \in Mine(p, k) :
            \/ IsExpired(store[i])'
            \/ store'[i].count <= MaxUnits
      BY <1>l, <1>3, <2>4, <2>5 DEF Bounded
    <3> QED
      BY <2>4, <3>1 DEF Bounded
  <2>8. Backed(p)'
    <3> SUFFICES ASSUME NEW k \in Keys, Owed(p, k)' > 0
                 PROVE  \E i \in Mine(p, k)' :
                            ~IsExpired(store[i])' /\ Owed(p, k)' <= store'[i].count
      BY DEF Backed
    <3>1. CASE k = K
      <4>1. Owed(p, k)' = u[k] + c.n /\ Owed(p, k) = u[k]
        BY <1>0, <1>8, <2>1, <2>3, <3>1 DEF Owed, InFlight, AcquireUpdate
      <4>2. u[k] <= c.have
        BY <1>0, <1>l, <2>5, <3>1, <4>1 DEF Backed, OneRow
      <4> QED
        BY <1>0, <2>1, <2>2, <2>4, <2>5, <3>1, <4>1, <4>2
    <3>2. CASE k # K
      <4>1. Owed(p, k)' = u[k] /\ Owed(p, k) = u[k]
        BY <1>0, <2>1, <2>3, <3>2 DEF Owed, InFlight
      <4>2. PICK i \in Mine(p, k) : ~IsExpired(store[i]) /\ u[k] <= store[i].count
        BY <1>l, <4>1 DEF Backed
      <4>3. i # c.id /\ i \in DOMAIN store
        BY <2>5, <3>2 DEF Mine, ByKey
      <4> QED
        BY <2>4, <4>1, <4>2, <4>3
    <3> QED
      BY <3>1, <3>2
  <2>9. CallOK(p)'
    BY <2>3 DEF CallOK
  <2> QED
    BY <2>6, <2>7, <2>8, <2>9 DEF Local
<1>9. CASE AcquireDelete(p)
  <2>1. /\ Delete(c.id)
        /\ d = [c EXCEPT !.at = "acquireCreate"]
        /\ UNCHANGED using
    BY <1>1, <1>9 DEF AcquireDelete
  <2>2. MayAdd(p) /\ HasRead(p) /\ IsExpired(store[c.id])
    BY <1>l, <1>9 DEF CallOK, AcquireDelete
  <2>3. d.at = "acquireCreate" /\ d.key = K /\ d.n = c.n
    BY <1>0, <2>1 DEF Calls
  <2>4. \A k \in Keys : /\ Mine(p, k)' = Mine(p, k) \ {c.id}
                         /\ \A i \in Mine(p, k) \ {c.id} : store'[i] = store[i]
    BY <1>0, <2>1, OwnStore
  <2>5. OneRow(p)' /\ Bounded(p)'
    BY <1>l, <2>4 DEF OneRow, Bounded, IsExpired
  <2>6. Mine(p, K)' = {}
    BY <1>0, <1>l, <2>2, <2>3, <2>4 DEF OneRow, HasRead
  <2>7. \A k \in Keys : Owed(p, k)' = u[k]
    BY <1>0, <2>1, <2>3 DEF Owed, InFlight
  <2>8. Backed(p)'
    <3> SUFFICES ASSUME NEW k \in Keys, Owed(p, k)' > 0
                 PROVE  \E i \in Mine(p, k)' :
                            ~IsExpired(store[i])' /\ Owed(p, k)' <= store'[i].count
      BY DEF Backed
    <3>1. Owed(p, k) > 0
      BY <1>0, <1>o, <2>7
    <3>2. PICK i \in Mine(p, k) : ~IsExpired(store[i]) /\ Owed(p, k) <= store[i].count
      BY <1>l, <3>1 DEF Backed
    <3>3. i # c.id
      BY <2>2, <3>2
    <3>4. store'[i] = store[i] /\ i \in Mine(p, k)'
      BY <2>4, <3>2, <3>3
    <3> QED
      BY <1>0, <1>o, <1>3, <2>7, <3>2, <3>4 DEF IsExpired
  <2>9. CallOK(p)'
    BY <2>2, <2>3, <2>6 DEF CallOK, MayAdd
  <2> QED
    BY <2>5, <2>8, <2>9 DEF Local
<1>10. CASE AcquireCreate(p)
  <2>1. PICK id \in Ids \ Referenced :
            Create(id, [key |-> K, owner |-> OwnerOf[p],
                        count |-> c.n, left |-> NoExpiry])
    BY <1>10 DEF AcquireCreate
  <2>2. d = [c EXCEPT !.at = "acquireAfter", !.acquired = TRUE] /\ UNCHANGED using
    BY <1>1, <1>10 DEF AcquireCreate
  <2>3. MayAdd(p) /\ Mine(p, K) = {}
    BY <1>l, <1>10 DEF CallOK, AcquireCreate
  <2>4. d.at = "acquireAfter" /\ d.acquired /\ d.key = K /\ d.n = c.n
    BY <1>0, <2>2 DEF Calls
  <2>5. /\ \A k \in Keys :
            /\ k = K => Mine(p, k)' = {id}
            /\ k # K => /\ Mine(p, k)' = Mine(p, k)
                        /\ \A i \in Mine(p, k) : store'[i] = store[i]
        /\ store'[id].count = c.n
        /\ ~IsExpired(store[id])'
    <3>1. /\ \A k \in Keys :
                        /\ k = K => Mine(p, k)' = Mine(p, k) \cup {id}
                        /\ k # K => Mine(p, k)' = Mine(p, k)
                        /\ \A i \in Mine(p, k) : store'[i] = store[i]
          /\ store'[id].count = c.n
          /\ ~IsExpired(store[id])'
      BY <1>0, <2>1, OwnStore
    <3> QED
      BY <2>3, <3>1
  <2>6. OneRow(p)'
    BY <1>l, <2>3, <2>5 DEF OneRow
  <2>7. Bounded(p)'
    BY <1>l, <2>3, <2>5 DEF Bounded, MayAdd, IsExpired
  <2>8. Backed(p)'
    <3> SUFFICES ASSUME NEW k \in Keys, Owed(p, k)' > 0
                 PROVE  \E i \in Mine(p, k)' :
                            ~IsExpired(store[i])' /\ Owed(p, k)' <= store'[i].count
      BY DEF Backed
    <3>1. CASE k = K
      <4>1. Owed(p, k)' = u[k] + c.n
        BY <1>0, <2>2, <2>4, <3>1 DEF Owed, InFlight
      <4>2. u[k] = 0
        BY <1>0, <1>o, <1>l, <2>3, <3>1 DEF Backed
      <4> QED
        BY <1>0, <2>5, <3>1, <4>1, <4>2
    <3>2. CASE k # K
      <4>1. Owed(p, k)' = u[k] /\ Owed(p, k) = u[k]
        BY <1>0, <2>2, <2>4, <3>2 DEF Owed, InFlight
      <4>2. PICK i \in Mine(p, k) : ~IsExpired(store[i]) /\ u[k] <= store[i].count
        BY <1>l, <4>1 DEF Backed
      <4> QED
        BY <2>5, <3>2, <4>1, <4>2 DEF IsExpired
    <3> QED
      BY <3>1, <3>2
  <2>9. CallOK(p)'
    BY <2>4 DEF CallOK
  <2> QED
    BY <2>6, <2>7, <2>8, <2>9 DEF Local
<1>11. CASE AcquireReturn(p)
  <2>1. /\ d.at = "idle" /\ UNCHANGED store /\ c.at = "acquireAfter"
        /\ using' = IF c.acquired THEN [using EXCEPT ![p][K] = @ + c.n] ELSE using
    BY <1>1, <1>2, <1>11 DEF AcquireReturn, Finish
  <2>2. \A k \in Keys : Owed(p, k)' = using'[p][k]
    BY <1>0, <2>1 DEF Owed, InFlight, TypeOK
  <2>3. \A k \in Keys : using'[p][k] = Owed(p, k)
    <3>1. CASE c.acquired
      BY <1>0, <2>1, <3>1 DEF Owed, InFlight, TypeOK
    <3>2. CASE ~c.acquired
      BY <1>0, <2>1, <3>2 DEF Owed, InFlight, TypeOK
    <3> QED
      BY <3>1, <3>2
  <2> QED
    BY <1>o, <1>e, <2>1, <2>2, <2>3
<1>12. CASE ReleaseFind(p)
  <2>1. PICK id \in FindOne(Mine(p, K)) :
        IF /\ id # NoId
           /\ OwnerMatches(store[id], OwnerOf[p])
           /\ c.n <= store[id].count
        THEN Await(p, [c EXCEPT !.at = IF store[id].count = c.n
                                             THEN "releaseDelete"
                                             ELSE "releaseUpdate",
                                      !.id = id,
                                      !.have = store[id].count])
        ELSE Finish(p)
    BY <1>12, <1>m DEF ReleaseFind
  <2>2. UNCHANGED <<store, using>>
    BY <1>12 DEF ReleaseFind
  <2>3. CASE Finish(p)
    BY <1>f, <2>2, <2>3
  <2>4. CASE ~Finish(p)
    <3>1. /\ id # NoId
          /\ d = [c EXCEPT !.at = IF store[id].count = c.n
                                             THEN "releaseDelete"
                                             ELSE "releaseUpdate",
                                      !.id = id,
                                      !.have = store[id].count]
      BY <1>1, <2>1, <2>4
    <3>2. /\ d.at = IF store[id].count = c.n THEN "releaseDelete" ELSE "releaseUpdate"
          /\ d.id = id /\ d.have = store[id].count /\ d.key = K /\ d.n = c.n
      BY <1>0, <3>1 DEF Calls
    <3>3. id \in Mine(p, K)
      BY <2>1, <3>1 DEF FindOne
    <3>4. Mine(p, K)' = Mine(p, K)
      BY <1>0, <2>2, <3>2, OwnStore
    <3>5. \A k \in Keys : Owed(p, k)' = Owed(p, k)
      BY <1>0, <1>12, <2>2, <3>2 DEF Owed, InFlight, ReleaseFind
    <3>6. HasRead(p)'
      BY <2>2, <3>2, <3>3, <3>4 DEF HasRead
    <3> QED
      BY <1>o, <1>q, <2>2, <3>2, <3>5, <3>6 DEF CallOK
  <2> QED
    BY <2>3, <2>4
<1>13. CASE ReleaseDelete(p)
  <2>1. /\ Delete(c.id)
        /\ d = [c EXCEPT !.at = "releaseAfter"]
        /\ UNCHANGED using
    BY <1>1, <1>13 DEF ReleaseDelete
  <2>2. HasRead(p) /\ c.n = c.have
    BY <1>l, <1>13 DEF CallOK, ReleaseDelete
  <2>3. d.at = "releaseAfter"
    BY <1>0, <2>1 DEF Calls
  <2>4. \A k \in Keys : /\ Mine(p, k)' = Mine(p, k) \ {c.id}
                         /\ \A i \in Mine(p, k) \ {c.id} : store'[i] = store[i]
    BY <1>0, <2>1, OwnStore
  <2>5. OneRow(p)' /\ Bounded(p)'
    BY <1>l, <2>4 DEF OneRow, Bounded, IsExpired
  <2>6. \A k \in Keys : Owed(p, k)' = u[k]
    BY <1>0, <2>1, <2>3 DEF Owed, InFlight
  <2>7. u[K] = 0
    <3>1. Owed(p, K) = u[K] + c.n
      BY <1>0, <1>13 DEF Owed, InFlight, ReleaseDelete
    <3>2. PICK i \in Mine(p, K) : Owed(p, K) <= store[i].count
      BY <1>0, <1>l, <3>1 DEF Backed
    <3>3. i = c.id
      BY <1>0, <1>l, <2>2, <3>2 DEF OneRow, HasRead
    <3> QED
      BY <1>0, <2>2, <3>1, <3>2, <3>3 DEF HasRead
  <2>8. Backed(p)'
    <3> SUFFICES ASSUME NEW k \in Keys, Owed(p, k)' > 0
                 PROVE  \E i \in Mine(p, k)' :
                            ~IsExpired(store[i])' /\ Owed(p, k)' <= store'[i].count
      BY DEF Backed
    <3>1. k # K /\ Owed(p, k) = u[k]
      BY <1>0, <2>6, <2>7 DEF Owed, InFlight
    <3>2. PICK i \in Mine(p, k) : ~IsExpired(store[i]) /\ Owed(p, k) <= store[i].count
      BY <1>l, <2>6, <3>1 DEF Backed
    <3>3. i # c.id
      BY <2>2, <3>1, <3>2 DEF HasRead, Mine, ByKey
    <3> QED
      BY <2>4, <2>6, <3>1, <3>2, <3>3 DEF IsExpired
  <2>9. CallOK(p)'
    BY <2>3 DEF CallOK
  <2> QED
    BY <2>5, <2>8, <2>9 DEF Local
<1>14. CASE ReleaseUpdate(p)
  <2>1. /\ c.id \in DOMAIN store
        /\ Update(c.id, [store[c.id] EXCEPT !.count = c.have - c.n])
        /\ d = [c EXCEPT !.at = "releaseAfter"]
        /\ UNCHANGED using
    BY <1>1, <1>14 DEF ReleaseUpdate
  <2>2. HasRead(p) /\ c.n <= c.have
    BY <1>0, <1>l, <1>14 DEF CallOK, ReleaseUpdate, Takes
  <2>3. d.at = "releaseAfter"
    BY <1>0, <2>1 DEF Calls
  <2>4. /\ \A k \in Keys : Mine(p, k)' = Mine(p, k)
        /\ \A i \in DOMAIN store :
             /\ i # c.id => store'[i] = store[i]
             /\ IsExpired(store[i])' = IsExpired(store[i])
        /\ store'[c.id].count = c.have - c.n
    <3>1. c.have - c.n \in Nat
      BY <1>0, <2>2
    <3> QED
      BY <1>0, <2>1, <3>1, OwnStore
  <2>5. c.id \in Mine(p, K) /\ c.have = store[c.id].count
    BY <2>2 DEF HasRead
  <2>6. OneRow(p)'
    BY <1>l, <2>4 DEF OneRow
  <2>7. Bounded(p)'
    <3>1. \A k \in Keys : \A i \in Mine(p, k) :
            \/ IsExpired(store[i])'
            \/ store'[i].count <= MaxUnits
      BY <1>0, <1>l, <1>3, <2>4, <2>5, SemaphoreAssumption DEF Bounded
    <3> QED
      BY <2>4, <3>1 DEF Bounded
  <2>8. \A k \in Keys : Owed(p, k)' = u[k]
    BY <1>0, <2>1, <2>3 DEF Owed, InFlight
  <2>9. Backed(p)'
    <3> SUFFICES ASSUME NEW k \in Keys, Owed(p, k)' > 0
                 PROVE  \E i \in Mine(p, k)' :
                            ~IsExpired(store[i])' /\ Owed(p, k)' <= store'[i].count
      BY DEF Backed
    <3>1. PICK i \in Mine(p, k) : ~IsExpired(store[i]) /\ Owed(p, k) <= store[i].count
      BY <1>0, <1>o, <1>l, <2>8 DEF Backed
    <3>2. i \in DOMAIN store /\ store[i].key = k
      BY DEF Mine, ByKey
    <3>3. CASE i # c.id
      BY <1>0, <1>o, <1>3, <2>4, <2>8, <3>1, <3>2, <3>3
    <3>4. CASE i = c.id
      <4>1. k = K
        BY <2>5, <3>2, <3>4 DEF Mine, ByKey
      <4>2. Owed(p, k) = u[k] + c.n
        BY <1>0, <1>14, <4>1 DEF Owed, InFlight, ReleaseUpdate
      <4>3. u[k] <= c.have - c.n
        BY <1>0, <2>5, <3>1, <3>4, <4>2
      <4> QED
        BY <2>4, <2>8, <3>1, <3>2, <3>4, <4>3
    <3> QED
      BY <3>3, <3>4
  <2>10. CallOK(p)'
    BY <2>3 DEF CallOK
  <2> QED
    BY <2>6, <2>7, <2>9, <2>10 DEF Local
<1>15. CASE ReleaseReturn(p) \/ RowLost(p) \/ HookThrows(p)
  BY <1>15, <1>f DEF ReleaseReturn, RowLost, HookThrows
<1>16. CASE Crash(p)
  <2>1. d.at = "dead" /\ UNCHANGED store /\ using'[p] = [k \in Keys |-> 0]
    BY <1>0, <1>1, <1>2, <1>16 DEF Crash, TypeOK
  <2>2. \A k \in Keys : Owed(p, k)' = 0
    BY <2>1 DEF Owed, InFlight
  <2> QED
    BY <1>o, <1>e, <2>1, <2>2
<1> QED
  BY <1>4, <1>5, <1>6, <1>7, <1>8, <1>9, <1>10, <1>11, <1>12, <1>13, <1>14,
     <1>15, <1>16 DEF Step

-----------------------------------------------------------------------------
(* The invariant holds at the start and is kept by every step. *)
LEMMA InitInv ==
    ASSUME Modest, Init
    PROVE  IInv
<1>1. call \in [Procs -> Calls] /\ using \in [Procs -> [Keys -> Nat]]
  BY BeginType DEF Init, Labels
<1>2. \A q \in Procs : call[q].at = "idle" /\ call[q].id = NoId
  BY BeginType DEF Init, Labels
<1>3. StoreOK /\ IsFiniteSet(DOMAIN store) /\ (\A i, j \in DOMAIN store : i = j)
      /\ \A i \in DOMAIN store : store[i] \in Leftovers
  <2>1. CASE store = [i \in {} |-> NoId]
    BY <2>1, FS_EmptySet DEF StoreOK
  <2>2. ASSUME NEW id \in Ids, NEW row \in Leftovers, store = [i \in {id} |-> row]
        PROVE  /\ StoreOK /\ IsFiniteSet(DOMAIN store)
               /\ \A i, j \in DOMAIN store : i = j
               /\ \A i \in DOMAIN store : store[i] \in Leftovers
    BY <2>2, FS_Singleton, SemaphoreAssumption DEF StoreOK
  <2> QED
    BY <2>1, <2>2 DEF Init
<1>4. Refers /\ Takes
  BY <1>2, <1>3, RepositoryAssumption DEF Refers, Takes, At, StoreOK
<1>5. ASSUME NEW p \in Alone PROVE Local(p)
  <2>1. p \in Procs
    BY DEF Alone
  <2>2. OneRow(p) /\ Bounded(p)
    BY <1>3 DEF OneRow, Bounded, Mine, ByKey, Modest
  <2>3. Backed(p)
    BY <1>2, <2>1 DEF Backed, Owed, InFlight, Init
  <2>4. CallOK(p)
    BY <1>2, <2>1 DEF CallOK, At
  <2> QED
    BY <2>2, <2>3, <2>4 DEF Local
<1> QED
  BY <1>1, <1>3, <1>4, <1>5 DEF IInv, TypeOK, Init

(* A step of one process is a move; the others' rows are framed. *)
LEMMA StepInv ==
    ASSUME Selective, IInv, [Next]_vars
    PROVE  IInv'
<1>1. CASE UNCHANGED vars
  BY <1>1 DEF vars, IInv, TypeOK, StoreOK, Refers, Takes, At, Local, OneRow, Bounded,
              Backed, CallOK, MayAdd, HasRead, Owed, InFlight, Mine, ByKey, IsExpired
<1>2. ASSUME NEW q \in Procs, Step(q), Remember PROVE IInv'
  <2>1. Moves(q)
    BY <1>2, StepMoves DEF IInv
  <2>2. (TypeOK /\ IsFiniteSet(DOMAIN store) /\ Refers /\ Takes)'
    BY <1>2, <2>1, MoveType DEF IInv, Remember
  <2>3. ASSUME NEW p \in Alone PROVE Local(p)'
    <3>1. CASE p = q
      BY <1>2, <3>1, OwnStep DEF IInv
    <3>2. CASE p # q
      BY <2>1, <3>2, Frame DEF IInv
    <3> QED
      BY <3>1, <3>2
  <2> QED
    BY <2>2, <2>3 DEF IInv
<1> QED
  BY <1>1, <1>2 DEF Next

(* The invariant holds in every state. *)
LEMMA Invariance == ASSUME Selective, Modest PROVE Spec => []IInv
<1>1. Init => IInv
  BY InitInv
<1>2. IInv /\ [Next]_vars => IInv'
  BY StepInv
<1> QED
  BY <1>1, <1>2, PTL DEF Spec

-----------------------------------------------------------------------------
(* What available and release see of the rows of p's owner. *)
LEMMA OwnerRows ==
    ASSUME TypeOK, IsFiniteSet(DOMAIN store), NEW p \in Procs, NEW k \in Keys, OneRow(p)
    PROVE  /\ \A i \in Mine(p, k) :
                ~IsExpired(store[i]) => OwnerCount(OwnerOf[p], k) = store[i].count
           /\ (\A i \in Mine(p, k) : IsExpired(store[i])) =>
                OwnerCount(OwnerOf[p], k) = 0
<1> DEFINE S == {id \in LiveRows(k) : OwnerMatches(store[id], OwnerOf[p])}
<1>1. S = {i \in Mine(p, k) : ~IsExpired(store[i])}
  BY DEF LiveRows, Mine, OwnerMatches
<1>2. S \in SUBSET DOMAIN store
  BY <1>1 DEF Mine, ByKey
<1>3. OwnerCount(OwnerOf[p], k) = Total(Cnt, S)
  BY <1>2, Counted DEF OwnerCount
<1>4. IsFiniteSet(S)
  BY <1>2, FS_Subset
<1>5. \A i \in S : Cnt[i] = store[i].count /\ Cnt[i] \in Nat
  BY <1>2 DEF Cnt, TypeOK, StoreOK, Rows
<1>6. ASSUME NEW i \in S PROVE S \ {i} = {}
  BY <1>1 DEF OneRow
<1> HIDE DEF S
<1>7. Total(Cnt, {}) = 0
  BY TotalStep, FS_EmptySet
<1>8. \A i \in S : Total(Cnt, S) = store[i].count
  <2> TAKE i \in S
  <2>1. Total(Cnt, S) = Cnt[i] + Total(Cnt, S \ {i})
    BY <1>4, <1>5, TotalSplit
  <2> QED
    BY <1>5, <1>6, <1>7, <2>1
<1> QED
  BY <1>1, <1>3, <1>7, <1>8

(* The units of the processes that share their owner with nobody, in all,
   are no more than the live rows count. *)
LEMMA UsedCounted ==
    ASSUME IInv, NEW k \in Keys
    PROVE  UsedBy(Alone, k) \in Nat /\ UsedBy(Alone, k) <= CurrentCount(k)
<1> DEFINE f == [p \in Procs |-> using[p][k]]
           Holds(p, i) == ~IsExpired(store[i]) /\ using[p][k] <= store[i].count
           r == [p \in Alone |-> CHOOSE i \in Mine(p, k) : Holds(p, i)]
<1>1. Alone \in SUBSET Procs /\ IsFiniteSet(Alone)
  BY FS_Subset, SemaphoreAssumption DEF Alone
<1>2. \A p \in Alone : f[p] = using[p][k] /\ f[p] \in Nat
  BY <1>1 DEF IInv, TypeOK
<1>3. UsedBy(Alone, k) = Total(f, Alone)
  <2> DEFINE body(s, h) == IF s = {} THEN 0 ELSE using[Pick(s)][k] + h[s \ {Pick(s)}]
             P(h) == h = [s \in SUBSET Alone |-> body(s, h)]
  <2>1. UsedBy(Alone, k) = (CHOOSE h : P(h))[Alone]
    BY DEF UsedBy, MapThenSumSet, MapThenFoldSet, Pick
  <2>2. \A h : P(h) <=> IsSum(h, f, Alone)
    <3> TAKE h
    <3>1. \A s \in SUBSET Alone :
            body(s, h) = IF s = {} THEN 0 ELSE f[Pick(s)] + h[s \ {Pick(s)}]
      BY <1>2, Picks
    <3> HIDE DEF body, f
    <3> QED
      BY <3>1 DEF IsSum
  <2>3. (CHOOSE h : P(h)) = (CHOOSE h : IsSum(h, f, Alone))
    <3> HIDE DEF P
    <3> QED
      BY <2>2, Zenon
  <2> QED
    BY <2>1, <2>3 DEF Total
<1>4. ASSUME NEW p \in Alone, f[p] # 0
      PROVE  r[p] \in Mine(p, k) /\ Holds(p, r[p])
  <2>1. InFlight(p, k) \in Nat
    BY <1>1, SemaphoreAssumption DEF InFlight, IInv, TypeOK, Calls
  <2>2. Owed(p, k) > 0 /\ f[p] <= Owed(p, k)
    BY <1>2, <1>4, <2>1 DEF Owed
  <2>3. PICK i \in Mine(p, k) : ~IsExpired(store[i]) /\ Owed(p, k) <= store[i].count
    BY <2>2 DEF IInv, Local, Backed
  <2>4. store[i].count \in Nat
    BY <2>3 DEF Mine, ByKey, IInv, TypeOK, StoreOK, Rows
  <2>5. Holds(p, i)
    BY <1>2, <2>1, <2>2, <2>3, <2>4 DEF Owed
  <2> HIDE DEF Holds
  <2> QED
    BY <2>3, <2>5
<1>5. /\ CurrentCount(k) = Total(Cnt, LiveRows(k))
      /\ IsFiniteSet(LiveRows(k))
      /\ \A i \in LiveRows(k) : Cnt[i] = store[i].count /\ Cnt[i] \in Nat
  BY CountAbove DEF IInv
<1>6. \A p \in Alone : f[p] # 0 => r[p] \in LiveRows(k) /\ f[p] <= Cnt[r[p]]
  <2> TAKE p \in Alone
  <2> HAVE f[p] # 0
  <2>1. r[p] \in Mine(p, k) /\ Holds(p, r[p])
    BY <1>4
  <2> HIDE DEF r
  <2>2. r[p] \in LiveRows(k)
    BY <2>1 DEF LiveRows, Mine
  <2> QED
    BY <1>2, <1>5, <2>1, <2>2
<1>7. \A p, q \in Alone : f[p] # 0 /\ f[q] # 0 /\ r[p] = r[q] => p = q
  <2> TAKE p, q \in Alone
  <2> HAVE f[p] # 0 /\ f[q] # 0 /\ r[p] = r[q]
  <2>1. r[p] \in Mine(p, k) /\ r[q] \in Mine(q, k)
    BY <1>4
  <2> HIDE DEF r
  <2>2. OwnerOf[p] = OwnerOf[q]
    BY <2>1 DEF Mine
  <2> QED
    BY <2>2 DEF Alone
<1> HIDE DEF f, r
<1>8. Total(f, Alone) <= Total(Cnt, LiveRows(k))
  BY <1>1, <1>2, <1>5, <1>6, <1>7, TotalInject
<1>9. Total(f, Alone) \in Nat
  BY <1>1, <1>2, TotalNat
<1> QED
  BY <1>3, <1>5, <1>8, <1>9

-----------------------------------------------------------------------------
(* acquire and release: what a client has acquired its owner's row accounts
   for, whatever else races, and release finds it and takes it back. *)
THEOREM UnitsKept == ASSUME Selective, Modest PROVE Spec => []UnitsHonoured
<1>1. ASSUME IInv PROVE UnitsHonoured
  <2> USE <1>1
  <2>1. ASSUME NEW p \in Alone, NEW k \in Keys
        PROVE  /\ p \in Procs
               /\ using[p][k] \in Nat /\ InFlight(p, k) \in Nat
               /\ \A i \in Mine(p, k) : store[i].count \in Nat
    <3>1. p \in Procs /\ call[p].n \in Nat
      BY SemaphoreAssumption DEF Alone, IInv, TypeOK, Calls
    <3>2. using[p][k] \in Nat /\ InFlight(p, k) \in Nat
      BY <3>1 DEF InFlight, IInv, TypeOK
    <3>3. \A i \in Mine(p, k) : store[i].count \in Nat
      BY DEF IInv, TypeOK, StoreOK, Mine, ByKey, Rows
    <3> QED
      BY <3>1, <3>2, <3>3
  <2>2. UnitsBacked
    <3> SUFFICES ASSUME NEW p \in Alone, NEW k \in Keys
                 PROVE  using[p][k] <= OwnerCount(OwnerOf[p], k)
      BY DEF UnitsBacked
    <3>1. OneRow(p) /\ Backed(p) /\ TypeOK /\ IsFiniteSet(DOMAIN store)
      BY DEF IInv, Local
    <3>2. CASE Owed(p, k) > 0
      <4>1. PICK i \in Mine(p, k) : ~IsExpired(store[i]) /\ Owed(p, k) <= store[i].count
        BY <3>1, <3>2 DEF Backed
      <4>2. OwnerCount(OwnerOf[p], k) = store[i].count
        BY <2>1, <3>1, <4>1, OwnerRows
      <4> QED
        BY <2>1, <4>1, <4>2 DEF Owed
    <3>3. CASE ~(Owed(p, k) > 0)
      <4>1. using[p][k] = 0
        BY <2>1, <3>3 DEF Owed
      <4>2. CASE \A i \in Mine(p, k) : IsExpired(store[i])
        BY <2>1, <3>1, <4>1, <4>2, OwnerRows
      <4>3. ASSUME NEW i \in Mine(p, k), ~IsExpired(store[i])
            PROVE  using[p][k] <= OwnerCount(OwnerOf[p], k)
        BY <2>1, <3>1, <4>1, <4>3, OwnerRows
      <4> QED
        BY <4>2, <4>3
    <3> QED
      BY <3>2, <3>3
  <2>3. ReleaseHonoured
    <3> SUFFICES ASSUME NEW p \in Alone, At(p, "releaseFind"),
                        NEW id \in FindOne(ByOwner(OwnerOf[p], call[p].key))
                 PROVE  /\ id # NoId
                        /\ OwnerMatches(store[id], OwnerOf[p])
                        /\ call[p].n <= store[id].count
      BY DEF ReleaseHonoured
    <3>1. /\ p \in Procs /\ call[p].key \in Keys /\ call[p].n \in Nat \ {0}
          /\ OneRow(p) /\ Backed(p) /\ TypeOK
      BY SemaphoreAssumption DEF Alone, IInv, Local, TypeOK, Calls
    <3>2. Owed(p, call[p].key) = using[p][call[p].key] + call[p].n
      BY DEF Owed, InFlight, At
    <3>3. PICK i \in Mine(p, call[p].key) : Owed(p, call[p].key) <= store[i].count
      BY <2>1, <3>1, <3>2 DEF Backed
    <3>4. ByOwner(OwnerOf[p], call[p].key) = Mine(p, call[p].key)
      BY <3>1, ByOwnerMine
    <3>5. id = i /\ id \in Ids
      BY <3>1, <3>3, <3>4 DEF FindOne, OneRow, Mine, ByKey, TypeOK, StoreOK
    <3>6. OwnerMatches(store[id], OwnerOf[p])
      BY <3>3, <3>5 DEF Mine, OwnerMatches
    <3>7. call[p].n <= store[id].count
      BY <2>1, <3>1, <3>2, <3>3, <3>5
    <3> QED
      BY <3>5, <3>6, <3>7, RepositoryAssumption
  <2> QED
    BY <2>2, <2>3 DEF UnitsHonoured, IInv
<1> QED
  BY <1>1, Invariance, PTL

-----------------------------------------------------------------------------
(* The limit for all owners of a key together.  An acquire that has counted,
   and whose key has been given no unit since, still has room for its own:
   counted without the row it is about to overwrite, which may have shrunk. *)
Room(p) ==
    LET left == MaxUnits - CurrentCount(call[p].key)
    IN  /\ call[p].n <= left
        /\ /\ At(p, "acquireUpdate")
           /\ call[p].id \in DOMAIN store
           /\ ~IsExpired(store[call[p].id])
           => call[p].have + call[p].n <= left + store[call[p].id].count

Roomy == \A p \in Procs : call[p].at \in Checked /\ p \notin overtaken => Room(p)

(* What the store holds in a state, for use before and after a step. *)
Stored == TypeOK /\ IsFiniteSet(DOMAIN store)

Sums ==
    \A k \in Keys :
        /\ CurrentCount(k) \in Nat
        /\ CurrentCount(k) = Total(Cnt, LiveRows(k))
        /\ IsFiniteSet(LiveRows(k))
        /\ \A i \in LiveRows(k) : Cnt[i] = store[i].count /\ Cnt[i] \in Nat

LEMMA StoredSums == Stored => Sums
BY CountAbove DEF Stored, Sums

(* Sums of terms that are the same are the same. *)
LEMMA TotalSame ==
    ASSUME NEW S, IsFiniteSet(S), NEW f, NEW g, \A x \in S : f[x] \in Nat /\ f[x] = g[x]
    PROVE  Total(f, S) = Total(g, S)
<1> DEFINE r == [x \in S |-> x]
<1>1. /\ \A x \in S : r[x] \in S /\ f[x] <= g[r[x]] /\ g[x] <= f[r[x]]
      /\ \A x, y \in S : r[x] = r[y] => x = y
      /\ \A x \in S : g[x] \in Nat
  OBVIOUS
<1> HIDE DEF r
<1>2. Total(f, S) <= Total(g, S)
  BY <1>1, TotalInject
<1>3. Total(g, S) <= Total(f, S)
  BY <1>1, TotalInject
<1>4. Total(f, S) \in Nat /\ Total(g, S) \in Nat
  BY <1>1, TotalNat
<1> QED
  BY <1>2, <1>3, <1>4

(* How the count of a key changes with its rows: one is added, changed or
   taken away. *)
LEMMA CountAdds ==
    ASSUME Stored, Stored', NEW k \in Keys, NEW i,
           LiveRows(k)' = LiveRows(k) \cup {i}, i \notin LiveRows(k),
           \A j \in LiveRows(k) : store'[j].count = store[j].count
    PROVE  CurrentCount(k)' = CurrentCount(k) + store'[i].count
<1>0. Sums /\ Sums'
  <2>1. Stored' => Sums'
    BY StoredSums, PTL
  <2> QED
    BY <2>1, StoredSums
<1> DEFINE A == LiveRows(k)
           f == Cnt
           g == Cnt'
<1>1. /\ CurrentCount(k) = Total(f, A) /\ IsFiniteSet(A)
      /\ \A j \in A : f[j] = store[j].count /\ f[j] \in Nat
  BY <1>0 DEF Sums
<1>2. /\ CurrentCount(k)' = Total(g, A \cup {i}) /\ IsFiniteSet(A \cup {i})
      /\ \A j \in A \cup {i} : g[j] = store'[j].count /\ g[j] \in Nat
  BY <1>0 DEF Sums
<1>3. i \notin A /\ \A j \in A : store'[j].count = store[j].count
  OBVIOUS
<1> HIDE DEF A, f, g
<1>4. Total(g, A \cup {i}) = g[i] + Total(g, (A \cup {i}) \ {i})
  BY <1>2, TotalSplit
<1>5. (A \cup {i}) \ {i} = A
  BY <1>3
<1>6. Total(f, A) = Total(g, A)
  BY <1>1, <1>2, <1>3, TotalSame
<1>7. Total(f, A) \in Nat /\ g[i] = store'[i].count /\ g[i] \in Nat
  BY <1>1, <1>2, TotalNat
<1>8. CurrentCount(k)' = g[i] + Total(f, A)
  BY <1>2, <1>4, <1>5, <1>6
<1> QED
  BY <1>1, <1>7, <1>8

LEMMA CountTakes ==
    ASSUME Stored, Stored', NEW k \in Keys, NEW i \in LiveRows(k),
           LiveRows(k)' = LiveRows(k) \ {i},
           \A j \in LiveRows(k) \ {i} : store'[j].count = store[j].count
    PROVE  CurrentCount(k) = CurrentCount(k)' + store[i].count
<1>0. Sums /\ Sums'
  <2>1. Stored' => Sums'
    BY StoredSums, PTL
  <2> QED
    BY <2>1, StoredSums
<1> DEFINE A == LiveRows(k)
           f == Cnt
           g == Cnt'
<1>1. /\ CurrentCount(k) = Total(f, A) /\ IsFiniteSet(A)
      /\ \A j \in A : f[j] = store[j].count /\ f[j] \in Nat
  BY <1>0 DEF Sums
<1>2. /\ CurrentCount(k)' = Total(g, A \ {i}) /\ IsFiniteSet(A \ {i})
      /\ \A j \in A \ {i} : g[j] = store'[j].count /\ g[j] \in Nat
  BY <1>0 DEF Sums
<1>3. i \in A /\ \A j \in A \ {i} : store'[j].count = store[j].count
  OBVIOUS
<1> HIDE DEF A, f, g
<1>4. Total(f, A) = f[i] + Total(f, A \ {i})
  BY <1>1, <1>3, TotalSplit
<1>5. Total(f, A \ {i}) = Total(g, A \ {i})
  BY <1>1, <1>2, <1>3, TotalSame
<1>6. Total(f, A \ {i}) \in Nat
  BY <1>1, <1>2, TotalNat
<1> QED
  BY <1>1, <1>2, <1>3, <1>4, <1>5, <1>6

LEMMA CountChanges ==
    ASSUME Stored, Stored', NEW k \in Keys, NEW i \in LiveRows(k),
           LiveRows(k)' = LiveRows(k),
           \A j \in LiveRows(k) \ {i} : store'[j].count = store[j].count
    PROVE  CurrentCount(k)' + store[i].count = CurrentCount(k) + store'[i].count
<1>0. Sums /\ Sums'
  <2>1. Stored' => Sums'
    BY StoredSums, PTL
  <2> QED
    BY <2>1, StoredSums
<1> DEFINE A == LiveRows(k)
           f == Cnt
           g == Cnt'
<1>1. /\ CurrentCount(k) = Total(f, A) /\ IsFiniteSet(A)
      /\ \A j \in A : f[j] = store[j].count /\ f[j] \in Nat
  BY <1>0 DEF Sums
<1>2. /\ CurrentCount(k)' = Total(g, A)
      /\ \A j \in A : g[j] = store'[j].count /\ g[j] \in Nat
  BY <1>0 DEF Sums
<1>3. i \in A /\ \A j \in A \ {i} : store'[j].count = store[j].count
  OBVIOUS
<1> HIDE DEF A, f, g
<1>4. Total(f, A) = f[i] + Total(f, A \ {i}) /\ Total(g, A) = g[i] + Total(g, A \ {i})
  BY <1>1, <1>2, <1>3, TotalSplit
<1>5. IsFiniteSet(A \ {i})
  BY <1>1, FS_Subset
<1>6. Total(f, A \ {i}) = Total(g, A \ {i}) /\ Total(f, A \ {i}) \in Nat
  BY <1>1, <1>2, <1>3, <1>5, TotalSame, TotalNat
<1> QED
  BY <1>1, <1>2, <1>3, <1>4, <1>6

LEMMA CountStays ==
    ASSUME Stored, Stored', NEW k \in Keys, LiveRows(k)' = LiveRows(k),
           \A j \in LiveRows(k) : store'[j].count = store[j].count
    PROVE  CurrentCount(k)' = CurrentCount(k)
<1>0. Sums /\ Sums'
  <2>1. Stored' => Sums'
    BY StoredSums, PTL
  <2> QED
    BY <2>1, StoredSums
<1> DEFINE A == LiveRows(k)
           f == Cnt
           g == Cnt'
<1>1. /\ CurrentCount(k) = Total(f, A) /\ IsFiniteSet(A)
      /\ \A j \in A : f[j] = store[j].count /\ f[j] \in Nat
  BY <1>0 DEF Sums
<1>2. /\ CurrentCount(k)' = Total(g, A)
      /\ \A j \in A : g[j] = store'[j].count /\ g[j] \in Nat
  BY <1>0 DEF Sums
<1>3. \A j \in A : store'[j].count = store[j].count
  OBVIOUS
<1> HIDE DEF A, f, g
<1> QED
  BY <1>1, <1>2, <1>3, TotalSame

(* What each kind of write does to the count of a key. *)
LEMMA WriteCounts ==
    ASSUME Stored, Stored', NEW k \in Keys, NEW i
    PROVE  /\ store' = store => CurrentCount(k)' = CurrentCount(k)
           /\ Delete(i) => CurrentCount(k)' <= CurrentCount(k)
           /\ \A c \in Nat :
                i \in DOMAIN store /\ Update(i, [store[i] EXCEPT !.count = c])
                => /\ store'[i].count = c
                   /\ i \in LiveRows(k) =>
                        CurrentCount(k)' + store[i].count = CurrentCount(k) + c
                   /\ i \notin LiveRows(k) => CurrentCount(k)' = CurrentCount(k)
           /\ \A row \in Rows :
                i \notin DOMAIN store /\ Create(i, row)
                => CurrentCount(k)' = CurrentCount(k) +
                        IF row.key = k /\ ~IsExpired(row) THEN row.count ELSE 0
<1>0. /\ CurrentCount(k) \in Nat /\ CurrentCount(k)' \in Nat
      /\ \A j \in DOMAIN store : store[j].count \in Nat /\ store[j] \in Rows
      /\ \A j \in LiveRows(k) : j \in DOMAIN store
  <2>1. Stored' => Sums'
    BY StoredSums, PTL
  <2>2. CurrentCount(k) \in Nat /\ CurrentCount(k)' \in Nat
    BY <2>1, StoredSums DEF Sums
  <2> QED
    BY <2>2 DEF Stored, TypeOK, StoreOK, Rows, LiveRows, ByKey
<1>1. ASSUME store' = store PROVE CurrentCount(k)' = CurrentCount(k)
  <2>1. LiveRows(k)' = LiveRows(k)
    BY <1>1 DEF LiveRows, ByKey, IsExpired
  <2> QED
    BY <1>1, <2>1, CountStays
<1>2. ASSUME Delete(i) PROVE CurrentCount(k)' <= CurrentCount(k)
  <2>1. /\ LiveRows(k)' = LiveRows(k) \ {i}
        /\ \A j \in LiveRows(k) \ {i} : store'[j].count = store[j].count
    BY <1>2 DEF Delete, LiveRows, ByKey, IsExpired
  <2>2. CASE i \in LiveRows(k)
    <3>1. CurrentCount(k) = CurrentCount(k)' + store[i].count
      BY <2>1, <2>2, CountTakes
    <3> QED
      BY <1>0, <2>2, <3>1
  <2>3. CASE i \notin LiveRows(k)
    <3>1. LiveRows(k)' = LiveRows(k)
      BY <2>1, <2>3
    <3>2. CurrentCount(k)' = CurrentCount(k)
      BY <2>1, <2>3, <3>1, CountStays
    <3> QED
      BY <1>0, <3>2
  <2> QED
    BY <2>2, <2>3
<1>3. ASSUME NEW c \in Nat, i \in DOMAIN store, Update(i, [store[i] EXCEPT !.count = c])
      PROVE  /\ store'[i].count = c
             /\ i \in LiveRows(k) =>
                    CurrentCount(k)' + store[i].count = CurrentCount(k) + c
             /\ i \notin LiveRows(k) => CurrentCount(k)' = CurrentCount(k)
  <2>1. /\ DOMAIN store' = DOMAIN store
        /\ \A j \in DOMAIN store : /\ store'[j].key = store[j].key
                                   /\ store'[j].left = store[j].left
                                   /\ j # i => store'[j].count = store[j].count
        /\ store'[i].count = c
    BY <1>0, <1>3 DEF Update, Rows
  <2>2. LiveRows(k)' = LiveRows(k)
    BY <2>1 DEF LiveRows, ByKey, IsExpired
  <2>3. CASE i \in LiveRows(k)
    <3>1. CurrentCount(k)' + store[i].count = CurrentCount(k) + store'[i].count
      BY <1>0, <2>1, <2>2, <2>3, CountChanges
    <3> QED
      BY <2>1, <2>3, <3>1
  <2>4. CASE i \notin LiveRows(k)
    BY <1>0, <2>1, <2>2, <2>4, CountStays
  <2> QED
    BY <2>1, <2>3, <2>4
<1>4. ASSUME NEW row \in Rows, i \notin DOMAIN store, Create(i, row)
      PROVE  CurrentCount(k)' = CurrentCount(k) +
                        IF row.key = k /\ ~IsExpired(row) THEN row.count ELSE 0
  <2>1. /\ DOMAIN store' = DOMAIN store \cup {i}
        /\ store'[i] = row
        /\ \A j \in DOMAIN store : store'[j] = store[j]
    BY <1>4 DEF Create
  <2>2. \A j \in LiveRows(k) : store'[j].count = store[j].count
    BY <1>0, <2>1
  <2>3. CASE row.key = k /\ ~IsExpired(row)
    <3>1. LiveRows(k)' = LiveRows(k) \cup {i} /\ i \notin LiveRows(k)
      BY <1>4, <2>1, <2>3 DEF LiveRows, ByKey, IsExpired
    <3>2. CurrentCount(k)' = CurrentCount(k) + store'[i].count
      BY <2>2, <3>1, CountAdds
    <3> QED
      BY <2>1, <2>3, <3>2
  <2>4. CASE ~(row.key = k /\ ~IsExpired(row))
    <3>1. LiveRows(k)' = LiveRows(k)
      BY <1>4, <2>1, <2>4 DEF LiveRows, ByKey, IsExpired
    <3>2. CurrentCount(k)' = CurrentCount(k)
      BY <2>2, <3>1, CountStays
    <3> QED
      BY <1>0, <2>4, <3>2
  <2> QED
    BY <2>3, <2>4
<1> QED
  BY <1>1, <1>2, <1>3, <1>4

(* A write that does not let a key's count grow leaves every call the room it
   had. *)
LEMMA RoomStays ==
    ASSUME IInv, Stored', NEW q \in Procs, Writes(q),
           NEW p \in Procs, call'[p] = call[p], Room(p), ~Grows(call[p].key)
    PROVE  Room(p)'
<1> DEFINE k == call[p].key
           i == call[p].id
<1>0. /\ Stored /\ k \in Keys /\ call[p].n \in Nat /\ call[p].have \in Nat
      /\ call[q].key \in Keys
  BY SemaphoreAssumption DEF Stored, IInv, TypeOK, Calls
<1>1. /\ CurrentCount(k) \in Nat
      /\ \A z \in Keys : CurrentCount(z)' \in Nat
  <2>1. Stored' => Sums'
    BY StoredSums, PTL
  <2> QED
    BY <1>0, <2>1, StoredSums DEF Sums
<1>2. ASSUME NEW z \in Keys, z = k PROVE CurrentCount(z)' <= CurrentCount(z)
  BY <1>1, <1>2 DEF Grows
<1>3. PICK z \in Keys : z = k
  BY <1>0
<1>4. CurrentCount(call[p].key)' = CurrentCount(z)'
  BY <1>3
<1>5. CurrentCount(z)' <= CurrentCount(z) /\ CurrentCount(z) \in Nat /\ CurrentCount(z)' \in Nat
  BY <1>1, <1>2, <1>3
<1>6. ASSUME At(p, "acquireUpdate"), i \in DOMAIN store', ~IsExpired(store[i])'
      PROVE  /\ i \in DOMAIN store /\ ~IsExpired(store[i])
             /\ store[i].count \in Nat /\ store'[i].count \in Nat
             /\ CurrentCount(z)' + store[i].count <= CurrentCount(z) + store'[i].count
  <2>1. CASE store' = store
    BY <1>5, <1>6, <2>1 DEF IsExpired, IInv, TypeOK, StoreOK, Rows
  <2>2. CASE Delete(call[q].id)
    <3>1. i \in DOMAIN store /\ store'[i] = store[i]
      BY <1>6, <2>2 DEF Delete
    <3> QED
      BY <1>5, <1>6, <3>1 DEF IsExpired, IInv, TypeOK, StoreOK, Rows
  <2>3. ASSUME call[q].id \in DOMAIN store,
               NEW c \in Nat, Update(call[q].id, [store[call[q].id] EXCEPT !.count = c])
        PROVE  /\ i \in DOMAIN store /\ ~IsExpired(store[i])
               /\ store[i].count \in Nat /\ store'[i].count \in Nat
               /\ CurrentCount(z)' + store[i].count <= CurrentCount(z) + store'[i].count
    <3>1. /\ i \in DOMAIN store
          /\ store'[i].left = store[i].left
          /\ i # call[q].id => store'[i] = store[i]
          /\ store[i].count \in Nat
      BY <1>6, <2>3 DEF Update, IInv, TypeOK, StoreOK, Rows
    <3>2. ~IsExpired(store[i])
      BY <1>6, <3>1 DEF IsExpired
    <3>3. CASE i # call[q].id
      BY <1>5, <3>1, <3>2, <3>3
    <3>4. CASE i = call[q].id
      <4>1. i \in LiveRows(z)
        BY <1>3, <3>1, <3>2 DEF LiveRows, ByKey, IInv, Refers
      <4>2. CurrentCount(z)' + store[i].count = CurrentCount(z) + c /\ store'[i].count = c
        BY <1>0, <2>3, <3>4, <4>1, WriteCounts
      <4> QED
        BY <1>5, <3>1, <3>2, <4>2
    <3> QED
      BY <3>3, <3>4
  <2>4. ASSUME NEW id \in Ids \ Referenced, NEW n \in Counts,
               Create(id, [key |-> call[q].key, owner |-> OwnerOf[q],
                           count |-> n, left |-> NoExpiry])
        PROVE  i \in DOMAIN store /\ store'[i] = store[i]
    BY <1>6, <2>4 DEF Create, Referenced
  <2>5. ASSUME i \in DOMAIN store /\ store'[i] = store[i]
        PROVE  /\ ~IsExpired(store[i])
               /\ store[i].count \in Nat /\ store'[i].count \in Nat
               /\ CurrentCount(z)' + store[i].count <= CurrentCount(z) + store'[i].count
    BY <1>5, <1>6, <2>5 DEF IsExpired, IInv, TypeOK, StoreOK, Rows
  <2> QED
    BY <2>1, <2>2, <2>3, <2>4, <2>5 DEF Writes
<1>7. /\ call[p].n <= MaxUnits - CurrentCount(z)
      /\ At(p, "acquireUpdate") /\ i \in DOMAIN store /\ ~IsExpired(store[i])
         => call[p].have + call[p].n <= MaxUnits - CurrentCount(z) + store[i].count
  BY <1>3 DEF Room
<1>8. /\ call[p].n <= MaxUnits - CurrentCount(z)'
      /\ At(p, "acquireUpdate") /\ i \in DOMAIN store' /\ ~IsExpired(store[i])'
         => call[p].have + call[p].n <= MaxUnits - CurrentCount(z)' + store'[i].count
  BY <1>0, <1>5, <1>6, <1>7, SemaphoreAssumption
<1> QED
  BY <1>3, <1>8 DEF Room, At

(* The writes of a step, one after the check with what it writes. *)
LEMMA StepWrites ==
    ASSUME IInv, IInv', Roomy, NEW q \in Procs, Step(q), NEW k \in Keys,
           Grows(k), CurrentCount(k)' > MaxUnits
    PROVE  call[q].key = k /\ call'[q] # call[q] /\ Outdated(q)
<1> DEFINE i == call[q].id
<1>0. /\ Stored /\ Stored'
      /\ call[q] \in Calls /\ call[q].key \in Keys /\ call[q].n \in Nat
      /\ call[q].n \in Counts /\ call[q].have \in Nat
      /\ call \in [Procs -> Calls]
      /\ \A j \in DOMAIN store : store[j].count \in Nat
      /\ i \in DOMAIN store => store[i].key = call[q].key
  <2>1. Stored /\ Stored' /\ call \in [Procs -> Calls]
    BY DEF Stored, IInv, TypeOK
  <2>2. call[q] \in Calls
    BY <2>1
  <2>3. /\ call[q].key \in Keys /\ call[q].n \in Nat
        /\ call[q].n \in Counts /\ call[q].have \in Nat
    BY <2>2, SemaphoreAssumption DEF Calls
  <2>4. \A j \in DOMAIN store : store[j].count \in Nat
    BY <2>1 DEF Stored, TypeOK, StoreOK, Rows
  <2> QED
    BY <2>1, <2>2, <2>3, <2>4 DEF IInv, Refers
<1>1. CurrentCount(k) \in Nat /\ CurrentCount(k)' \in Nat
  <2>1. Stored' => Sums'
    BY StoredSums, PTL
  <2> QED
    BY <1>0, <2>1, StoredSums DEF Sums
<1>2. CurrentCount(k)' > CurrentCount(k)
  BY Zenon DEF Grows
<1>3. store' # store
  BY <1>0, <1>1, <1>2, WriteCounts
<1>4. ~Delete(i)
  BY <1>0, <1>1, <1>2, WriteCounts
<1>5. AcquireUpdate(q) \/ AcquireCreate(q) \/ ReleaseUpdate(q)
  BY <1>3, <1>4 DEF Step, Acquire, Release, AcquireCount, AcquireFind,
        AcquireDelete, AcquireReturn, ReleaseFind, ReleaseDelete, ReleaseReturn,
        RowLost, HookThrows, Crash
<1>6. CASE AcquireUpdate(q)
  <2>1. /\ At(q, "acquireUpdate") /\ i \in DOMAIN store
        /\ Update(i, [store[i] EXCEPT !.count = call[q].have + call[q].n])
        /\ call'[q] = [call[q] EXCEPT !.at = "acquireAfter", !.acquired = TRUE]
    BY <1>0, <1>6 DEF AcquireUpdate, Await
  <2>2. call'[q] # call[q]
    <3>1. call'[q].at # call[q].at
      BY <1>0, <2>1 DEF At, Calls
    <3> QED
      BY <3>1
  <2>3. i \in LiveRows(k)
    BY <1>0, <1>1, <1>2, <2>1, WriteCounts
  <2>4. CurrentCount(k)' + store[i].count = CurrentCount(k) + call[q].have + call[q].n
    BY <1>0, <1>1, <2>1, <2>3, WriteCounts
  <2>5. call[q].key = k /\ ~IsExpired(store[i])
    BY <1>0, <2>1, <2>3 DEF LiveRows, ByKey
  <2>6. q \in overtaken
    <3> SUFFICES ASSUME q \notin overtaken PROVE FALSE
      OBVIOUS
    <3>1. Room(q)
      BY <2>1 DEF Roomy, Checked, At
    <3>2. call[q].have + call[q].n <= MaxUnits - CurrentCount(k) + store[i].count
      BY <2>1, <2>5, <3>1 DEF Room
    <3>3. store[i].count \in Nat
      BY <1>0, <2>1
    <3> QED
      BY <1>0, <1>1, <2>4, <3>2, <3>3, SemaphoreAssumption
  <2> QED
    BY <2>2, <2>5, <2>6 DEF Outdated
<1>7. CASE AcquireCreate(q)
  <2>1. PICK id \in Ids \ Referenced :
            Create(id, [key |-> call[q].key, owner |-> OwnerOf[q],
                        count |-> call[q].n, left |-> NoExpiry])
    BY <1>7 DEF AcquireCreate
  <2>2. /\ At(q, "acquireCreate")
        /\ call'[q] = [call[q] EXCEPT !.at = "acquireAfter", !.acquired = TRUE]
    BY <1>0, <1>7 DEF AcquireCreate, Await
  <2>3. call'[q] # call[q]
    <3>1. call'[q].at # call[q].at
      BY <1>0, <2>2 DEF At, Calls
    <3> QED
      BY <3>1
  <2> DEFINE row == [key |-> call[q].key, owner |-> OwnerOf[q],
                     count |-> call[q].n, left |-> NoExpiry]
  <2>4. row \in Rows /\ row.key = call[q].key /\ row.count = call[q].n
    BY <1>0, SemaphoreAssumption DEF Rows, Lefts, NoExpiry
  <2>5. id \notin DOMAIN store /\ Create(id, row)
    BY <2>1 DEF Referenced
  <2> HIDE DEF row
  <2>6. call[q].key = k /\ CurrentCount(k)' = CurrentCount(k) + call[q].n
    BY <1>0, <1>1, <1>2, <2>4, <2>5, WriteCounts
  <2>7. q \in overtaken
    <3> SUFFICES ASSUME q \notin overtaken PROVE FALSE
      OBVIOUS
    <3>1. Room(q)
      BY <2>2 DEF Roomy, Checked, At
    <3>2. call[q].n <= MaxUnits - CurrentCount(k)
      BY <2>6, <3>1 DEF Room
    <3> QED
      BY <1>0, <1>1, <2>6, <3>2, SemaphoreAssumption
  <2> QED
    BY <2>3, <2>6, <2>7 DEF Outdated
<1>8. CASE ReleaseUpdate(q)
  <2>1. /\ At(q, "releaseUpdate") /\ i \in DOMAIN store
        /\ Update(i, [store[i] EXCEPT !.count = call[q].have - call[q].n])
        /\ call'[q] = [call[q] EXCEPT !.at = "releaseAfter"]
    BY <1>0, <1>8 DEF ReleaseUpdate, Await
  <2>2. call'[q] # call[q]
    <3>1. call'[q].at # call[q].at
      BY <1>0, <2>1 DEF At, Calls
    <3> QED
      BY <3>1
  <2>3. call[q].have - call[q].n \in Nat
    BY <1>0, <2>1 DEF IInv, Takes
  <2>4. i \in LiveRows(k)
    BY <1>0, <1>1, <1>2, <2>1, <2>3, WriteCounts
  <2>5. CurrentCount(k)' + store[i].count = CurrentCount(k) + (call[q].have - call[q].n)
    BY <1>0, <1>1, <2>1, <2>3, <2>4, WriteCounts
  <2>6. call[q].key = k
    BY <1>0, <2>1, <2>4 DEF LiveRows, ByKey
  <2>7. store[i].count # call[q].have
    BY <1>0, <1>1, <1>2, <2>1, <2>5
  <2> QED
    BY <2>1, <2>2, <2>6, <2>7 DEF Outdated
<1> QED
  BY <1>5, <1>6, <1>7, <1>8

LEMMA LimitStep ==
    ASSUME IInv, IInv', Roomy, [Next]_vars
    PROVE  [\A k \in Keys :
              CurrentCount(k)' > MaxUnits /\ Grows(k) =>
                \E p \in Procs :
                    call[p].key = k /\ call'[p] # call[p] /\ Outdated(p)]_store
<1>1. CASE UNCHANGED vars
  BY <1>1 DEF vars
<1>2. ASSUME NEW q \in Procs, Step(q), NEW k \in Keys,
             CurrentCount(k)' > MaxUnits, Grows(k)
      PROVE  \E p \in Procs : call[p].key = k /\ call'[p] # call[p] /\ Outdated(p)
  BY <1>2, StepWrites
<1> QED
  BY <1>1, <1>2 DEF Next

(* A call that has just counted has room; the others keep what they had unless
   their key has been given more units, and are then overtaken. *)
LEMMA RoomyStep ==
    ASSUME Selective, IInv, IInv', Roomy, [Next]_vars
    PROVE  Roomy'
<1>1. CASE UNCHANGED vars
  <2>1. \A k \in Keys : CurrentCount(k)' = CurrentCount(k)
    BY <1>1, WriteCounts DEF vars, Stored, IInv
  <2>2. \A p \in Procs : call[p].key \in Keys
    BY DEF IInv, TypeOK, Calls
  <2>3. \A p \in Procs, k \in Keys : k = call[p].key =>
            CurrentCount(call[p].key)' = CurrentCount(k)'
    BY <1>1 DEF vars
  <2>4. \A p \in Procs : Room(p) => Room(p)'
    BY <1>1, <2>1, <2>2, <2>3 DEF vars, Room, At, IsExpired
  <2> QED
    BY <1>1, <2>4 DEF Roomy, vars
<1>2. ASSUME NEW q \in Procs, Step(q), Remember PROVE Roomy'
  <2> SUFFICES ASSUME NEW p \in Procs, call'[p].at \in Checked, p \notin overtaken'
               PROVE  Room(p)'
    BY DEF Roomy
  <2>0. /\ Stored /\ Stored' /\ Moves(q)
        /\ call[p] \in Calls /\ call[p].key \in Keys /\ call[p].n \in Nat
        /\ call[p].have \in Nat /\ call \in [Procs -> Calls]
    <3>1. call \in [Procs -> Calls]
      BY DEF IInv, TypeOK
    <3> QED
      BY <1>2, <3>1, StepMoves, SemaphoreAssumption DEF Stored, IInv, TypeOK, Calls
  <2>1. p \notin overtaken
    BY <1>2 DEF Remember
  <2>2. call[p].at \in Checked => Room(p)
    BY <2>1 DEF Roomy
  <2>3. call[p].at \in Checked => ~(\E k \in Keys : k = call[p].key /\ Grows(k))
    BY <1>2 DEF Remember
  <2>4. CASE p # q
    <3>1. call'[p] = call[p]
      BY <2>0, <2>4 DEF Moves
    <3>2. Room(p) /\ ~Grows(call[p].key)
      BY <2>0, <2>2, <2>3, <3>1
    <3> QED
      BY <2>0, <3>1, <3>2, RoomStays DEF Moves
  <2>5. CASE p = q
    <3> DEFINE c == call[q]
    <3>c. /\ CurrentCount(c.key) \in Nat
          /\ \A k \in Keys : CurrentCount(k)' \in Nat
      <4>1. Stored' => Sums'
        BY StoredSums, PTL
      <4> QED
        BY <2>0, <2>5, <4>1, StoredSums DEF Sums
    <3>0. AcquireCount(q) \/ AcquireFind(q) \/ AcquireDelete(q)
      <4>1. Settled("idle").at = "idle" /\ Settled("dead").at = "dead"
        BY BeginType DEF Labels
      <4>2. \A k \in Keys, n \in Counts : /\ Begin("acquireCount", k, n).at = "acquireCount"
                                          /\ Begin("releaseFind", k, n).at = "releaseFind"
        BY BeginType DEF Labels
      <4>4. \A x : Await(q, x) => call'[q] = x
        BY <2>0 DEF Await
      <4>5. ~\E k \in Keys, n \in Counts : Acquire(q, k, n) \/ Release(q, k, n)
        BY <2>5, <4>2, <4>4 DEF Acquire, Release, Checked
      <4>6. ~Finish(q) /\ ~Crash(q)
        BY <2>5, <4>1, <4>4 DEF Finish, Crash, Checked
      <4>7. ~AcquireUpdate(q) /\ ~AcquireCreate(q) /\ ~ReleaseUpdate(q) /\ ~ReleaseDelete(q)
        <5>1. /\ [c EXCEPT !.at = "acquireAfter", !.acquired = TRUE].at = "acquireAfter"
              /\ [c EXCEPT !.at = "releaseAfter"].at = "releaseAfter"
          BY <2>0, <2>5 DEF Calls
        <5>2. AcquireUpdate(q) \/ AcquireCreate(q) => call'[q].at = "acquireAfter"
          BY <4>4, <5>1 DEF AcquireUpdate, AcquireCreate
        <5>3. ReleaseUpdate(q) \/ ReleaseDelete(q) => call'[q].at = "releaseAfter"
          BY <4>4, <5>1 DEF ReleaseUpdate, ReleaseDelete
        <5> QED
          BY <2>5, <5>2, <5>3 DEF Checked
      <4>8. ~ReleaseFind(q)
        <5> SUFFICES ASSUME ReleaseFind(q) PROVE FALSE
          OBVIOUS
        <5>1. PICK id : Await(q, [c EXCEPT !.at = IF store[id].count = c.n
                                             THEN "releaseDelete"
                                             ELSE "releaseUpdate",
                                      !.id = id,
                                      !.have = store[id].count])
          BY <4>6 DEF ReleaseFind
        <5>2. call'[q].at \in {"releaseDelete", "releaseUpdate"}
          BY <2>0, <2>5, <4>4, <5>1 DEF Calls
        <5> QED
          BY <2>5, <5>2 DEF Checked
      <4> QED
        BY <1>2, <4>5, <4>6, <4>7, <4>8
           DEF Step, AcquireReturn, ReleaseReturn, RowLost, HookThrows
    <3>1. CASE AcquireCount(q)
      <4>1. /\ store' = store
            /\ call'[q] = [c EXCEPT !.at = IF c.n > MaxUnits - CurrentCount(c.key)
                                           THEN "acquireAfter" ELSE "acquireFind"]
        BY <2>0, <3>1 DEF AcquireCount, Await
      <4>2. /\ call'[q].key = c.key /\ call'[q].n = c.n
            /\ call'[q].at = "acquireFind"
            /\ ~(c.n > MaxUnits - CurrentCount(c.key))
        BY <2>0, <2>5, <4>1 DEF Calls, Checked
      <4>3. PICK k \in Keys : k = c.key
        BY <2>0, <2>5
      <4>4. CurrentCount(k)' = CurrentCount(k)
        BY <2>0, <4>1, WriteCounts
      <4>5. CurrentCount(call[q].key)' = CurrentCount(k)'
        BY <4>2, <4>3
      <4> QED
        BY <2>0, <2>5, <3>c, <4>2, <4>3, <4>4, <4>5, SemaphoreAssumption DEF Room, At
    <3>2. CASE AcquireFind(q)
      <4>0. store' = store /\ Room(q)
        BY <2>2, <2>5, <3>2 DEF AcquireFind, Checked, At
      <4>1. PICK id \in FindOne(ByOwner(OwnerOf[q], c.key)) :
              \/ /\ id = NoId
                 /\ Await(q, [c EXCEPT !.at = "acquireCreate"])
              \/ /\ id # NoId
                 /\ Await(q, [c EXCEPT !.at = IF IsExpired(store[id])
                                              THEN "acquireDelete"
                                              ELSE "acquireUpdate",
                                       !.id = id,
                                       !.have = store[id].count])
        BY <3>2 DEF AcquireFind
      <4>2. PICK k \in Keys : k = c.key
        BY <2>0, <2>5
      <4>3. CurrentCount(k)' = CurrentCount(k)
        BY <2>0, <4>0, WriteCounts
      <4>4. /\ call'[q].key = c.key /\ call'[q].n = c.n
            /\ At(q, "acquireUpdate")' =>
                 call'[q].id = id /\ call'[q].have = store[id].count
        <5>1. CASE Await(q, [c EXCEPT !.at = "acquireCreate"])
          BY <2>0, <2>5, <5>1 DEF Await, Calls, At
        <5>2. CASE Await(q, [c EXCEPT !.at = IF IsExpired(store[id])
                                              THEN "acquireDelete"
                                              ELSE "acquireUpdate",
                                       !.id = id,
                                       !.have = store[id].count])
          <6>1. call'[q] = [c EXCEPT !.at = IF IsExpired(store[id])
                                              THEN "acquireDelete"
                                              ELSE "acquireUpdate",
                                       !.id = id,
                                       !.have = store[id].count]
            BY <2>0, <5>2 DEF Await
          <6> QED
            BY <2>0, <2>5, <6>1 DEF Calls
        <5> QED
          BY <4>1, <5>1, <5>2
      <4>5. CurrentCount(call[q].key)' = CurrentCount(k)'
        BY <4>2, <4>4
      <4>6. c.n <= MaxUnits - CurrentCount(k)
        BY <4>0, <4>2 DEF Room
      <4>7. \A j \in DOMAIN store : store[j].count \in Nat
        BY <2>0 DEF Stored, TypeOK, StoreOK, Rows
      <4>8. At(q, "acquireUpdate")' /\ id \in DOMAIN store =>
                call'[q].have + c.n <= MaxUnits - CurrentCount(k)' + store[id].count
        BY <2>0, <2>5, <3>c, <4>2, <4>3, <4>4, <4>6, <4>7, SemaphoreAssumption
      <4>9. c.n <= MaxUnits - CurrentCount(k)'
        BY <4>3, <4>6
      <4> QED
        BY <2>5, <4>0, <4>2, <4>4, <4>5, <4>8, <4>9 DEF Room, At
    <3>3. CASE AcquireDelete(q)
      <4>0. Delete(c.id) /\ Room(q)
        BY <2>2, <2>5, <3>3 DEF AcquireDelete, Checked, At
      <4>1. call'[q] = [c EXCEPT !.at = "acquireCreate"]
        BY <2>0, <3>3 DEF AcquireDelete, Await
      <4>2. PICK k \in Keys : k = c.key
        BY <2>0, <2>5
      <4>3. CurrentCount(k)' <= CurrentCount(k)
        BY <2>0, <4>0, WriteCounts
      <4>4. call'[q].key = c.key /\ call'[q].n = c.n /\ call'[q].at = "acquireCreate"
        BY <2>0, <2>5, <4>1 DEF Calls
      <4>5. CurrentCount(call[q].key)' = CurrentCount(k)'
        BY <4>2, <4>4
      <4>6. c.n <= MaxUnits - CurrentCount(k)
        BY <4>0, <4>2 DEF Room
      <4>7. CurrentCount(k) \in Nat /\ CurrentCount(k)' \in Nat
        BY <3>c, <4>2
      <4>8. c.n <= MaxUnits - CurrentCount(k)'
        BY <2>0, <2>5, <4>3, <4>6, <4>7, SemaphoreAssumption
      <4> QED
        BY <2>5, <4>2, <4>4, <4>5, <4>8 DEF Room, At
    <3> QED
      BY <3>0, <3>1, <3>2, <3>3
  <2> QED
    BY <2>4, <2>5
<1> QED
  BY <1>1, <1>2 DEF Next

-----------------------------------------------------------------------------
(* The capacity check.  Only a call whose reading is outdated takes the units
   of a key above max; no owner is given more alone; and available never
   advertises a unit that some client may be using. *)
THEOREM CapacityKept == ASSUME Selective, Modest PROVE Spec => CapacityHonest
<1>1. ASSUME IInv PROVE SharesBounded
  <2> USE <1>1
  <2>1. ASSUME NEW k \in Keys, NEW p \in Alone
        PROVE  OwnerCount(OwnerOf[p], k) <= MaxUnits
    <3>1. OneRow(p) /\ Bounded(p) /\ TypeOK /\ IsFiniteSet(DOMAIN store) /\ p \in Procs
      BY DEF IInv, Local, Alone
    <3>2. CASE \A i \in Mine(p, k) : IsExpired(store[i])
      BY <3>1, <3>2, OwnerRows, SemaphoreAssumption
    <3>3. ASSUME NEW i \in Mine(p, k), ~IsExpired(store[i])
          PROVE  OwnerCount(OwnerOf[p], k) <= MaxUnits
      BY <3>1, <3>3, OwnerRows DEF Bounded
    <3> QED
      BY <3>2, <3>3
  <2>2. ASSUME NEW k \in Keys, Available(k) > 0
        PROVE  Available(k) + UsedBy(Alone, k) <= MaxUnits
    <3>1. CurrentCount(k) \in Nat
      BY CountAbove DEF IInv
    <3>2. UsedBy(Alone, k) \in Nat /\ UsedBy(Alone, k) <= CurrentCount(k)
      BY UsedCounted
    <3> DEFINE left == MaxUnits - CurrentCount(k)
    <3>3. left \in Int
      BY <3>1, SemaphoreAssumption
    <3>4. Max({0, left}) \in {0, left}
      <4>1. \E m \in {0, left} : \A j \in {0, left} : m >= j
        BY <3>3
      <4> QED
        BY <4>1, Zenon DEF Max
    <3>5. Available(k) = left
      BY <2>2, <3>4 DEF Available
    <3> QED
      BY <3>1, <3>2, <3>5, SemaphoreAssumption
  <2> QED
    BY <2>1, <2>2 DEF SharesBounded
<1>2. Init => Roomy
  <2>1. \A p \in Procs : Settled("idle").at \notin Checked
    BY BeginType DEF Checked, Labels
  <2> QED
    BY <2>1 DEF Init, Roomy
<1>3. IInv /\ IInv' /\ Roomy /\ [Next]_vars => Roomy'
  BY RoomyStep
<1>4. IInv /\ IInv' /\ Roomy /\ [Next]_vars =>
         [\A k \in Keys :
            CurrentCount(k)' > MaxUnits /\ Grows(k) =>
                \E p \in Procs :
                    call[p].key = k /\ call'[p] # call[p] /\ Outdated(p)]_store
  BY LimitStep
<1>5. Spec => []IInv
  BY Invariance
<1> QED
  BY <1>1, <1>2, <1>3, <1>4, <1>5, PTL DEF Spec, CapacityHonest, LimitKept
=============================================================================
