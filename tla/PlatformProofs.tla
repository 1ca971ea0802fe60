---------------------------- MODULE PlatformProofs ----------------------------
(***************************************************************************)
(* Proofs about the embeddings, the settings and the event bus, each for   *)
(* any of its clients and plans.                                           *)
(***************************************************************************)
EXTENDS Embeddings, Settings, Events,
        FiniteSetTheorems, SequenceTheorems, WellFoundedInduction, TLAPS

(* A set of naturals that is not empty has a least element. *)
LEMMA LeastOf ==
    ASSUME NEW nats, nats \subseteq Nat, nats # {}
    PROVE  \E m \in nats : \A n \in nats : m <= n
<1> DEFINE Q == {ss \in Nat \X Nat : ss[1] < ss[2]}
<1>1. IsWellFoundedOn(Q, Nat)
  BY NatLessThanWellFounded, Zenon DEF OpToRel
<1> HIDE DEF Q
<1>2. PICK m \in nats : \A n \in nats : <<n, m>> \notin Q
  BY <1>1, WFMin
<1>3. \A n \in nats : n \in Nat /\ m \in Nat /\ ~(n < m)
  BY <1>2 DEF Q
<1> QED
  BY <1>3

-----------------------------------------------------------------------------
(***************************************************************************)
(* Embeddings (packages/embedding/src): what is stored of an item.         *)
(***************************************************************************)

Indexed(p) ==
    /\ p # NoIndex /\ NoVector # Either
    /\ \A i \in p.items : i = <<i[1], i[2]>> /\ i[1] # Either
    /\ \A u : \A c \in Embedders : \A t \in p.texts[c], m \in p.metas \cup {NoMeta} :
           [text |-> t, meta |-> m, universe |-> u] \notin {NoVector, Either}
IsVectorRow(r) == r = [id |-> r.id, index |-> r.index, vector |-> r.vector, meta |-> r.meta]
(* That there is no table is not that it holds these rows. *)
TablesAreRows == \A s : (\A r \in s : IsVectorRow(r)) => s # NoTable

Slots == {SlotOfItem(gear, i) : i \in vplan.items}
RowOK(r) ==
    /\ IsVectorRow(r) /\ RowSlot(r) \in Slots
    /\ Vectorize => r.index = AnyUniverse
InSlot(rows, slot) == {r \in rows : RowSlot(r) = slot}
Holds(rows, slot, value) ==
    /\ value = NoVector /\ value # Either => InSlot(rows, slot) = {}
    /\ value # NoVector /\ value # Either =>
           \E r : InSlot(rows, slot) = {r} /\ IsLeft(r, value)

EmbedStages == {"embed", "storage", "extension", "table", "index", "returned"}
EmbedCallOK(c, k, rows) ==
    k = NoEmbedCall \/
    /\ DOMAIN k = {"op", "universe", "id", "text", "meta", "filter", "topK", "vector", "at", "out",
                   "found"}
    /\ k.at \in EmbedStages
    /\ k.op \in {"upsert", "similar", "delete", "migrate", "verify"}
    /\ k.op \in {"upsert", "delete"} => ItemOf(k) \in vplan.items
    /\ k.op = "upsert" => k.text \in vplan.texts[c] /\ k.meta \in vplan.metas \cup {NoMeta}
    /\ k.op = "upsert" /\ k.at = "storage" => k.vector.text = k.text
    /\ k.at = "embed" => k.op \in {"upsert", "similar"}
    /\ k.at \in {"extension", "table", "index"} => k.op = "migrate"
    /\ k.at = "index" => rows # NoTable

EmbedInv ==
    /\ vplan \in EmbeddingPlans /\ gear = vplan.setup
    /\ DOMAIN ecall = Embedders /\ DOMAIN item = Slots
    /\ verified => vectors # NoTable
    /\ \A r \in Vectors : RowOK(r)
    /\ \A c \in Embedders : EmbedCallOK(c, ecall[c], vectors)
    /\ \A s \in Slots : Holds(Vectors, s, item[s])
EmbedFresh ==
    /\ ecall = [c \in Embedders |-> NoEmbedCall]
    /\ item = <<>> /\ verified = FALSE
EmbeddingsInv ==
    /\ vplan = NoIndex => EmbedFresh
    /\ vplan # NoIndex => EmbedInv
EmbeddingsSpec == EmbeddingsInit /\ [][EmbeddingsNext]_embeddingClientVars

-----------------------------------------------------------------------------
(* The row an upsert conflicts with is the one of its slot. *)
LEMMA SlotMates ==
    ASSUME NEW k, NEW r, RowOK(r)
    PROVE  /\ ConflictsWith(r, k.id, k.universe) <=> RowSlot(r) = StoreSlot(k)
           /\ r.id = k.id /\ OfIndex(r, k.universe) =>
                  RowSlot(r) = StoreSlot(k) /\ r.index = IndexOf(k.universe)
           /\ RowSlot(r) = StoreSlot(k) /\ ~Sqlite => r.id = k.id /\ OfIndex(r, k.universe)
           /\ RowSlot(r) = StoreSlot(k) => r.id = k.id
<1> USE DEF RowSlot, StoreSlot, SlotOfItem, ItemOf
<1>1. CASE Sqlite
  BY <1>1 DEF Sqlite, Vectorize, ConflictsWith, OfIndex, IndexOf
<1>2. CASE Vectorize
  BY <1>2 DEF Sqlite, Vectorize, ConflictsWith, OfIndex, IndexOf, RowOK
<1>3. CASE ~Sqlite /\ ~Vectorize
  BY <1>3 DEF Sqlite, Vectorize, ConflictsWith, OfIndex, IndexOf
<1> QED
  BY <1>1, <1>2, <1>3

(* An upsert takes the place of what its slot holds, and of nothing else. *)
LEMMA UpsertedShown ==
    ASSUME Indexed(vplan), gear = vplan.setup, NEW c \in Embedders, NEW k, NEW was,
           ItemOf(k) \in vplan.items, k.text \in vplan.texts[c],
           k.meta \in vplan.metas \cup {NoMeta}, k.op = "upsert",
           \A r \in vectors : RowOK(r), k.vector.text = k.text, Holds(vectors, StoreSlot(k), was)
    PROVE  /\ Holds(Upserted(k), StoreSlot(k), LeftBehind(k, was))
           /\ \A s \in Slots \ {StoreSlot(k)} : InSlot(Upserted(k), s) = InSlot(vectors, s)
           /\ \A r \in Upserted(k) : RowOK(r)
<1> DEFINE old == {r \in vectors : ConflictsWith(r, k.id, k.universe)}
           index == IF Sqlite /\ old # {} THEN (CHOOSE r \in old : TRUE).index
                    ELSE IndexOf(k.universe)
           new == [id |-> k.id, index |-> index, vector |-> k.vector, meta |-> StoredMeta(k.meta)]
           stays == Sqlite /\ was # NoVector
           universe == IF ~stays THEN IndexOf(k.universe)
                       ELSE IF was = Either THEN Either ELSE was.universe
           value == [text |-> k.text, meta |-> k.meta, universe |-> universe]
<1>1. old = InSlot(vectors, StoreSlot(k))
  BY SlotMates DEF InSlot
<1>2. Upserted(k) = (vectors \ old) \cup {new}
  BY DEF Upserted
<1>3. LeftBehind(k, was) = value /\ value \notin {NoVector, Either}
  <2>1. LeftBehind(k, was) = value
    BY DEF LeftBehind
  <2> HIDE DEF universe
  <2> QED
    BY <2>1 DEF Indexed
<1>4. universe \in {index, Either}
  <2>1. CASE ~Sqlite
    BY <2>1
  <2>2. CASE Sqlite /\ was = Either
    BY <2>2 DEF Indexed
  <2>3. CASE Sqlite /\ was # Either /\ was = NoVector
    <3>1. old = {}
      BY <1>1, <2>3 DEF Holds
    <3> QED
      BY <3>1, <2>3
  <2>4. CASE Sqlite /\ was # Either /\ was # NoVector
    <3>1. PICK r : old = {r} /\ IsLeft(r, was)
      BY <1>1, <2>4 DEF Holds
    <3>2. index = r.index
      BY <3>1, <2>4
    <3> QED
      BY <3>1, <3>2, <2>4 DEF IsLeft
  <2> QED
    BY <2>1, <2>2, <2>3, <2>4
<1>5. Vectorize => index = AnyUniverse
  BY DEF IndexOf, Sqlite, Vectorize
<1>6. ~Sqlite /\ ~Vectorize => index = k.universe
  BY DEF IndexOf
<1> HIDE DEF index, universe
<1>7. new.id = k.id /\ new.index = index /\ new.vector = k.vector
      /\ new.meta = StoredMeta(k.meta) /\ IsVectorRow(new)
  BY DEF IsVectorRow
<1>8. value.text = k.text /\ value.meta = k.meta /\ value.universe = universe
  OBVIOUS
<1> HIDE DEF new, value, old
<1>9. RowSlot(new) = StoreSlot(k) /\ StoreSlot(k) \in Slots
  BY <1>6, <1>7 DEF RowSlot, StoreSlot, SlotOfItem, ItemOf, Sqlite, Vectorize, Slots
<1>10. InSlot(Upserted(k), StoreSlot(k)) = {new}
  BY <1>1, <1>2, <1>9 DEF InSlot
<1>11. IsLeft(new, value)
  BY <1>4, <1>7, <1>8 DEF IsLeft
<1>12. Holds(Upserted(k), StoreSlot(k), LeftBehind(k, was))
  BY <1>3, <1>10, <1>11 DEF Holds
<1>13. \A s \in Slots \ {StoreSlot(k)} : InSlot(Upserted(k), s) = InSlot(vectors, s)
  BY <1>1, <1>2, <1>9 DEF InSlot
<1>14. \A r \in Upserted(k) : RowOK(r)
  BY <1>2, <1>5, <1>7, <1>9 DEF RowOK
<1> QED
  BY <1>12, <1>13, <1>14

(* A delete takes out the row of its index and id, and nothing else. *)
LEMMA WithoutShown ==
    ASSUME Indexed(vplan), gear = vplan.setup, NEW k, NEW was,
           ItemOf(k) \in vplan.items, k.op = "delete",
           \A r \in vectors : RowOK(r), Holds(vectors, StoreSlot(k), was)
    PROVE  /\ Holds(Without(k.id, k.universe), StoreSlot(k), LeftBehind(k, was))
           /\ \A s \in Slots \ {StoreSlot(k)} :
                  InSlot(Without(k.id, k.universe), s) = InSlot(vectors, s)
           /\ Without(k.id, k.universe) \subseteq vectors
<1> DEFINE rest == Without(k.id, k.universe)
<1>0. k.universe # Either
  <2>1. ItemOf(k)[1] = k.universe
    BY DEF ItemOf
  <2> QED
    BY <2>1 DEF Indexed
<1>1. rest \subseteq vectors /\ \A r \in vectors : r \in rest <=> ~(r.id = k.id /\ OfIndex(r, k.universe))
  BY DEF Without
<1> HIDE DEF rest
<1>2. \A s \in Slots \ {StoreSlot(k)} : InSlot(rest, s) = InSlot(vectors, s)
  BY <1>1, SlotMates DEF InSlot
<1>3. CASE ~Sqlite
  <2>1. InSlot(rest, StoreSlot(k)) = {}
    BY <1>1, <1>3, SlotMates DEF InSlot
  <2>2. LeftBehind(k, was) = NoVector
    BY <1>3 DEF LeftBehind
  <2> QED
    BY <1>1, <1>2, <2>1, <2>2 DEF Holds, rest
<1>4. CASE Sqlite /\ was = NoVector
  <2>1. LeftBehind(k, was) = NoVector
    BY <1>4 DEF LeftBehind
  <2>2. was # Either => InSlot(rest, StoreSlot(k)) = {}
    BY <1>1, <1>4 DEF Holds, InSlot
  <2> QED
    BY <1>1, <1>2, <1>4, <2>1, <2>2 DEF Holds, rest
<1>5. CASE Sqlite /\ was # NoVector /\ was = Either
  <2>2. LeftBehind(k, was) = Either
    BY <1>0, <1>5 DEF LeftBehind
  <2> QED
    BY <1>1, <1>2, <2>2 DEF Holds, rest
<1>6. CASE Sqlite /\ was # NoVector /\ was # Either
  <2>1. PICK r : InSlot(vectors, StoreSlot(k)) = {r} /\ IsLeft(r, was)
    BY <1>6 DEF Holds
  <2>2. r \in vectors /\ RowSlot(r) = StoreSlot(k) /\ r.id = k.id
    BY <2>1, SlotMates DEF InSlot
  <2>3. OfIndex(r, k.universe) <=> r.index = k.universe
    BY <1>6 DEF OfIndex, IndexOf, Sqlite, Vectorize
  <2>4. CASE was.universe = Either
    <3>1. LeftBehind(k, was) = Either
      BY <1>0, <1>6, <2>4 DEF LeftBehind
    <3> QED
      BY <1>1, <1>2, <3>1 DEF Holds, rest
  <2>5. CASE was.universe # Either /\ was.universe = k.universe
    <3>1. LeftBehind(k, was) = NoVector
      BY <1>6, <2>5 DEF LeftBehind
    <3>2. InSlot(rest, StoreSlot(k)) = {}
      BY <1>1, <2>1, <2>2, <2>3, <2>5 DEF InSlot, IsLeft
    <3> QED
      BY <1>1, <1>2, <3>1, <3>2 DEF Holds, rest
  <2>6. CASE was.universe # Either /\ was.universe # k.universe
    <3>1. LeftBehind(k, was) = was
      BY <1>6, <2>6 DEF LeftBehind
    <3>2. InSlot(rest, StoreSlot(k)) = {r}
      BY <1>1, <2>1, <2>2, <2>3, <2>6 DEF InSlot, IsLeft
    <3> QED
      BY <1>1, <1>2, <1>6, <2>1, <3>1, <3>2 DEF Holds, rest
  <2> QED
    BY <2>4, <2>5, <2>6
<1> QED
  BY <1>3, <1>4, <1>5, <1>6

-----------------------------------------------------------------------------
(* What a step of one call has to keep. *)
LEMMA EmbedFrame ==
    ASSUME EmbedInv, NEW c \in Embedders, vplan' = vplan, gear' = gear,
           DOMAIN ecall' = Embedders, \A d \in Embedders \ {c} : ecall'[d] = ecall[d],
           EmbedCallOK(c, ecall'[c], vectors'),
           vectors # NoTable => vectors' # NoTable,
           verified' => vectors' # NoTable,
           \A r \in Vectors' : RowOK(r),
           DOMAIN item' = Slots, \A s \in Slots : Holds(Vectors', s, item'[s])
    PROVE  EmbedInv'
<1>1. \A r \in Vectors' : RowOK(r)'
  BY DEF RowOK, RowSlot, Slots, Vectorize
<1>2. \A d \in Embedders : EmbedCallOK(d, ecall[d], vectors)
  BY DEF EmbedInv
<1>3. \A d \in Embedders : EmbedCallOK(d, ecall'[d], vectors')
  BY <1>2 DEF EmbedCallOK
<1>4. \A d \in Embedders : EmbedCallOK(d, ecall[d], vectors)'
  BY <1>3 DEF EmbedCallOK
<1>5. Slots' = Slots
  BY DEF Slots
<1>7. \A s \in Slots : Holds(Vectors, s, item[s])'
  BY DEF Holds, InSlot, RowSlot, IsLeft, StoredMeta, ToVectorizeMetadata, Vectorize
<1>6. (vplan \in EmbeddingPlans /\ gear = vplan.setup)'
  BY DEF EmbedInv
<1> QED
  BY <1>1, <1>4, <1>5, <1>6, <1>7 DEF EmbedInv
(* A step of one call that leaves the store, and what it should hold, as they are. *)
LEMMA EmbedStays ==
    ASSUME EmbedInv, NEW c \in Embedders, vplan' = vplan, gear' = gear, vectors' = vectors,
           item' = item, verified' => vectors # NoTable,
           DOMAIN ecall' = Embedders, \A d \in Embedders \ {c} : ecall'[d] = ecall[d],
           EmbedCallOK(c, ecall'[c], vectors)
    PROVE  EmbedInv'
<1>1. Vectors' = Vectors
  BY DEF Vectors
<1> QED
  BY <1>1, EmbedFrame DEF EmbedInv
(* What a call becomes, the other calls do not. *)
LEMMA EmbedMade ==
    ASSUME EmbedInv, NEW c \in Embedders, NEW k, EmbedBecomes(c, k)
    PROVE  /\ DOMAIN ecall' = Embedders /\ ecall'[c] = k
           /\ \A d \in Embedders \ {c} : ecall'[d] = ecall[d]
  BY DEF EmbedInv, EmbedBecomes

(* The calls begin, *)
LEMMA EmbedsKeep ==
    ASSUME EmbedInv, Indexed(vplan), NEW c \in Embedders, Embeds(c)
    PROVE  EmbedInv'
<1> USE DEF NoEmbedCall, EmbedCall, EmbedEnds
<1>1. vplan' = vplan /\ item' = item
  BY DEF Embeds
<1>2. verified' = (verified \/ (ecall'[c].op = "verify" /\ ecall'[c].out = "set up"))
  BY Zenon DEF Embeds
<1>3. \/ \E i \in vplan.items, t \in vplan.texts[c], m \in vplan.metas :
              UpsertFrom(c, i[1], i[2], t, m)
      \/ \E u \in vplan.searched, t \in vplan.texts[c], v \in vplan.given, f \in vplan.filters :
              Similar(c, u, t, v, vplan.topK, f)
      \/ \E i \in vplan.items : DeleteVectors(c, i[1], i[2])
      \/ RunMigrations(c) \/ VerifySetup(c)
  BY Zenon DEF Embeds
<1>4. gear' = gear /\ vectors' = vectors
  BY <1>3 DEF UpsertFrom, Similar, DeleteVectors, RunMigrations, VerifySetup
<1>5. \A i \in vplan.items : i = <<i[1], i[2]>>
  BY DEF Indexed
<1>6. ASSUME NEW i \in vplan.items, NEW t \in vplan.texts[c], NEW m \in vplan.metas,
             UpsertFrom(c, i[1], i[2], t, m)
      PROVE  EmbedInv'
  <2> DEFINE k == EmbedCall("upsert", i[1], i[2], t)
             n == IF GetUniverse(i[1]) /\ i[2] # NotText
                  THEN [k EXCEPT !.meta = ExtractMetadata(m)] ELSE EmbedEnds(k, "threw")
  <2>1. EmbedBecomes(c, n)
    BY <1>6 DEF UpsertFrom
  <2>2. EmbedCallOK(c, n, vectors) /\ n.op = "upsert"
    BY <1>5 DEF EmbedCallOK, EmbedStages, ItemOf, ExtractMetadata
  <2> HIDE DEF n
  <2> QED
    BY <1>1, <1>2, <1>4, <2>1, <2>2, EmbedMade, EmbedStays DEF EmbedInv
<1>7. ASSUME NEW u \in vplan.searched, NEW t \in vplan.texts[c], NEW v \in vplan.given,
             NEW f \in vplan.filters, Similar(c, u, t, v, vplan.topK, f)
      PROVE  EmbedInv'
  <2> DEFINE k == [EmbedCall("similar", u, NotText, t) EXCEPT !.filter = f, !.topK = vplan.topK]
             n == IF ~GetUniverse(u) THEN EmbedEnds(k, "threw")
                  ELSE IF v = NoVector THEN k
                  ELSE [k EXCEPT !.vector = v, !.at = "storage"]
  <2>1. EmbedBecomes(c, n)
    BY <1>7 DEF Similar
  <2>2. EmbedCallOK(c, n, vectors) /\ n.op = "similar"
    BY DEF EmbedCallOK, EmbedStages
  <2> HIDE DEF n
  <2> QED
    BY <1>1, <1>2, <1>4, <2>1, <2>2, EmbedMade, EmbedStays DEF EmbedInv
<1>8. ASSUME NEW i \in vplan.items, DeleteVectors(c, i[1], i[2])
      PROVE  EmbedInv'
  <2> DEFINE k == EmbedCall("delete", i[1], i[2], NotText)
             n == IF ~GetUniverse(i[1]) THEN EmbedEnds(k, "threw")
                  ELSE IF ~gear.deletes THEN EmbedEnds(k, "done")
                  ELSE [k EXCEPT !.at = "storage"]
  <2>1. EmbedBecomes(c, n)
    BY <1>8 DEF DeleteVectors
  <2>2. EmbedCallOK(c, n, vectors) /\ n.op = "delete"
    BY <1>5 DEF EmbedCallOK, EmbedStages, ItemOf
  <2> HIDE DEF n
  <2> QED
    BY <1>1, <1>2, <1>4, <2>1, <2>2, EmbedMade, EmbedStays DEF EmbedInv
<1>9. ASSUME RunMigrations(c)
      PROVE  EmbedInv'
  <2> DEFINE n == [EmbedCall("migrate", NotText, NotText, NotText) EXCEPT
                      !.at = IF Pg THEN "extension" ELSE "table"]
  <2>1. EmbedBecomes(c, n)
    BY <1>9 DEF RunMigrations
  <2>2. EmbedCallOK(c, n, vectors) /\ n.op = "migrate"
    BY DEF EmbedCallOK, EmbedStages
  <2> HIDE DEF n
  <2> QED
    BY <1>1, <1>2, <1>4, <2>1, <2>2, EmbedMade, EmbedStays DEF EmbedInv
<1>10. ASSUME VerifySetup(c)
       PROVE  EmbedInv'
  <2> DEFINE n == EmbedEnds(EmbedCall("verify", NotText, NotText, NotText),
                            IF vectors = NoTable THEN "missing" ELSE "set up")
  <2>1. EmbedBecomes(c, n)
    BY <1>10 DEF VerifySetup
  <2>2. EmbedCallOK(c, n, vectors) /\ (n.out = "set up" => vectors # NoTable)
    BY DEF EmbedCallOK, EmbedStages
  <2> HIDE DEF n
  <2> QED
    BY <1>1, <1>2, <1>4, <2>1, <2>2, EmbedMade, EmbedStays DEF EmbedInv
<1> QED
  BY <1>3, <1>6, <1>7, <1>8, <1>9, <1>10

(* they end, *)
LEMMA EmbedEnded ==
    ASSUME NEW c, NEW k, NEW out, NEW rows, NEW n, EmbedCallOK(c, k, vectors), k # NoEmbedCall,
           n = EmbedEnds(k, out)
    PROVE  /\ EmbedCallOK(c, n, rows) /\ n # NoEmbedCall /\ n.at = "returned" /\ n.out = out
           /\ n.op = k.op /\ n.universe = k.universe /\ n.id = k.id
           /\ n.text = k.text /\ n.meta = k.meta
<1>1. /\ DOMAIN n = DOMAIN k /\ n.at = "returned" /\ n.out = out
      /\ n.op = k.op /\ n.universe = k.universe /\ n.id = k.id
      /\ n.text = k.text /\ n.meta = k.meta
  BY DEF EmbedCallOK, EmbedEnds
<1>2. n # NoEmbedCall
  BY <1>1 DEF NoEmbedCall
<1>3. ItemOf(n) = ItemOf(k)
  BY <1>1 DEF ItemOf
<1> QED
  BY <1>1, <1>2, <1>3 DEF EmbedCallOK, EmbedStages

(* and go on. *)
LEMMA EmbedMovesKeep ==
    ASSUME EmbedInv, Indexed(vplan), TablesAreRows, NEW c \in Embedders, EmbedMoves(c)
    PROVE  EmbedInv'
<1> DEFINE k == ecall[c]
           History(n) ==
               /\ item' = IF ~(AltersItem(k) /\ n.at = "returned") THEN item
                          ELSE IF c \notin alone \/ (n.out = "threw" /\ vectors' # vectors)
                          THEN [item EXCEPT ![StoreSlot(n)] = Either]
                          ELSE IF n.out = "done"
                          THEN [item EXCEPT ![StoreSlot(n)] = LeftBehind(n, item[StoreSlot(n)])]
                          ELSE item
               /\ verified' = (verified \/ (n.op = "migrate" /\ n.at = "returned" /\ n.out = "done"))
<1> USE DEF NoEmbedCall
<1>1. vplan' = vplan /\ EmbedStep(c)
  BY DEF EmbedMoves
<1>2. ASSUME NEW n, ecall'[c] = n
      PROVE  History(n)
  BY <1>2 DEF EmbedMoves
<1>3. EmbedCallOK(c, k, vectors) /\ gear = vplan.setup
  BY DEF EmbedInv
<1>4. gear' = gear
  BY <1>1 DEF EmbedStep, Embedded, EmbedFails, StorageUpsert, StorageQuery, StorageDelete,
           MigratesExtension, MigratesTable, MigratesIndex, MigrationFails
<1> HIDE DEF History
(* A step of a call that leaves the store as it is. *)
<1>5. ASSUME NEW n, EmbedBecomes(c, n), vectors' = vectors, EmbedCallOK(c, n, vectors),
             n # NoEmbedCall, n.op = k.op, k # NoEmbedCall,
             n.universe = k.universe, n.id = k.id,
             n.at = "returned" /\ n.out = "done" => ~AltersItem(k),
             n.op = "migrate" /\ n.at = "returned" /\ n.out = "done" => vectors # NoTable
      PROVE  EmbedInv'
  <2>1. ecall'[c] = n /\ DOMAIN ecall' = Embedders
        /\ \A d \in Embedders \ {c} : ecall'[d] = ecall[d]
    BY <1>5, EmbedMade
  <2>2. History(n)
    BY <1>2, <2>1
  <2>3. Vectors' = Vectors
    BY <1>5 DEF Vectors
  <2>4. DOMAIN item' = Slots
    BY <2>2 DEF EmbedInv, History
  <2>5. \A s \in Slots : Holds(Vectors, s, item'[s])
    <3>1. \A s \in Slots : item'[s] = item[s] \/ item'[s] = Either
      BY <2>2, <1>5 DEF EmbedInv, History
    <3>2. \A s \in Slots : Holds(Vectors, s, item[s])
      BY DEF EmbedInv
    <3> QED
      BY <3>1, <3>2 DEF Holds
  <2>6. verified' => vectors # NoTable
    BY <2>2, <1>5 DEF EmbedInv, History
  <2> QED
    BY <1>1, <1>4, <1>5, <2>1, <2>3, <2>4, <2>5, <2>6, EmbedFrame DEF EmbedInv
<1>6. CASE Embedded(c)
  <2> DEFINE v == EngineEmbed(k.text)
             n == IF EngineRefuses(v) THEN EmbedEnds(k, "threw")
                  ELSE [k EXCEPT !.vector = v, !.at = "storage"]
  <2>1. EmbedBecomes(c, n) /\ k.at = "embed" /\ vectors' = vectors
    BY <1>6 DEF Embedded, EmbedAt
  <2>2. v.text = k.text
    BY DEF EngineEmbed
  <2> HIDE DEF v
  <2>3. k # NoEmbedCall
    BY <2>1
  <2>4. CASE EngineRefuses(v)
    <3>1. n = EmbedEnds(k, "threw")
      BY <2>4
    <3> HIDE DEF n
    <3> QED
      BY <1>3, <1>5, <2>1, <2>3, <3>1, EmbedEnded
  <2>5. CASE ~EngineRefuses(v)
    <3>1. n = [k EXCEPT !.vector = v, !.at = "storage"]
      BY <2>5
    <3>2. /\ DOMAIN n = DOMAIN k /\ n.at = "storage" /\ n.vector = v
          /\ n.op = k.op /\ n.universe = k.universe /\ n.id = k.id
          /\ n.text = k.text /\ n.meta = k.meta
      BY <1>3, <2>3, <3>1 DEF EmbedCallOK
    <3> HIDE DEF n
    <3>3. EmbedCallOK(c, n, vectors) /\ n # NoEmbedCall
      BY <1>3, <2>1, <2>2, <2>3, <3>2 DEF EmbedCallOK, EmbedStages, ItemOf
    <3> QED
      BY <1>5, <2>1, <2>3, <3>2, <3>3
  <2> QED
    BY <2>4, <2>5
<1>7. CASE EmbedFails(c) \/ MigrationFails(c)
  <2> DEFINE n == EmbedEnds(k, "threw")
  <2>1. EmbedBecomes(c, n) /\ k.at \in {"embed", "storage", "extension", "table"}
        /\ vectors' = vectors
    BY <1>7 DEF EmbedFails, MigrationFails
  <2>2. k # NoEmbedCall
    BY <2>1
  <2> QED
    BY <1>3, <1>5, <2>1, <2>2, EmbedEnded
<1>8. CASE StorageQuery(c)
  <2>1. k.at = "storage" /\ k.op = "similar" /\ vectors' = vectors /\ k # NoEmbedCall
    BY <1>8 DEF StorageQuery, EmbedAt
  <2>2. \/ \E s : EmbedBecomes(c, [EmbedEnds(k, "done") EXCEPT !.found = s])
        \/ EmbedBecomes(c, EmbedEnds(k, "threw"))
    BY <1>8 DEF StorageQuery, Refuses
  <2>3. ASSUME NEW n, EmbedBecomes(c, n),
               \/ \E s : n = [EmbedEnds(k, "done") EXCEPT !.found = s]
               \/ n = EmbedEnds(k, "threw")
        PROVE  EmbedInv'
    <3>1. CASE n = EmbedEnds(k, "threw")
      BY <1>3, <1>5, <2>1, <2>3, <3>1, EmbedEnded DEF AltersItem
    <3>2. ASSUME NEW s, n = [EmbedEnds(k, "done") EXCEPT !.found = s]
          PROVE  EmbedInv'
      <4>1. PICK e : e = EmbedEnds(k, "done")
        OBVIOUS
      <4>2. /\ DOMAIN n = DOMAIN e /\ n.at = e.at
            /\ n.op = e.op /\ n.universe = e.universe /\ n.id = e.id
            /\ n.text = e.text /\ n.meta = e.meta
        BY <3>2, <4>1
      <4>3. EmbedCallOK(c, e, vectors) /\ e # NoEmbedCall /\ e.at = "returned"
            /\ e.op = k.op /\ e.universe = k.universe /\ e.id = k.id
        BY <1>3, <2>1, <4>1, EmbedEnded
      <4>4. EmbedCallOK(c, n, vectors) /\ n # NoEmbedCall
        BY <4>2, <4>3 DEF EmbedCallOK, EmbedStages, ItemOf
      <4> QED
        BY <1>5, <2>1, <2>3, <4>2, <4>3, <4>4 DEF AltersItem
    <3> QED
      BY <2>3, <3>1, <3>2
  <2> QED
    BY <2>2, <2>3
<1>9. CASE MigratesExtension(c)
  <2> DEFINE n == [k EXCEPT !.at = "table"]
  <2>1. EmbedBecomes(c, n) /\ k.at = "extension" /\ vectors' = vectors
    BY <1>9 DEF MigratesExtension, EmbedAt
  <2>2. EmbedCallOK(c, n, vectors) /\ n # NoEmbedCall /\ n.op = k.op /\ n.universe = k.universe
        /\ n.id = k.id /\ n.at = "table" /\ k # NoEmbedCall
    BY <1>3, <2>1 DEF EmbedCallOK, EmbedStages, ItemOf
  <2> HIDE DEF n
  <2> QED
    BY <1>5, <2>1, <2>2
<1>10. CASE MigratesIndex(c)
  <2> DEFINE n == EmbedEnds(k, "done")
  <2>1. EmbedBecomes(c, n) /\ k.at = "index" /\ vectors' = vectors
    BY <1>10 DEF MigratesIndex, EmbedAt
  <2>2. k.op = "migrate" /\ vectors # NoTable /\ k # NoEmbedCall
    BY <1>3, <2>1 DEF EmbedCallOK
  <2> QED
    BY <1>3, <1>5, <2>1, <2>2, EmbedEnded DEF AltersItem
<1>11. CASE MigratesTable(c)
  <2>1. k.at = "table" /\ k # NoEmbedCall /\ vectors' = Vectors
    BY <1>11 DEF MigratesTable, EmbedAt
  <2>2. k.op = "migrate"
    BY <1>3, <2>1 DEF EmbedCallOK
  <2>3. Vectors # NoTable /\ \A r \in Vectors : RowOK(r)
    BY DEF EmbedInv, RowOK, TablesAreRows
  <2>4. vectors' # NoTable /\ Vectors' = Vectors
    BY <2>1, <2>3 DEF Vectors
  <2>5. PICK n : /\ EmbedBecomes(c, n)
                 /\ \/ n = [k EXCEPT !.at = "index"]
                    \/ \E out : n = EmbedEnds(k, out)
    BY <1>11 DEF MigratesTable
  <2>6. EmbedCallOK(c, n, vectors') /\ ~AltersItem(k)
    <3>1. CASE n = [k EXCEPT !.at = "index"]
      <4>1. /\ DOMAIN n = DOMAIN k /\ n.at = "index"
            /\ n.op = k.op /\ n.universe = k.universe /\ n.id = k.id
            /\ n.text = k.text /\ n.meta = k.meta
        BY <1>3, <2>1, <3>1 DEF EmbedCallOK
      <4> QED
        BY <1>3, <2>1, <2>2, <2>4, <4>1 DEF EmbedCallOK, EmbedStages, ItemOf, AltersItem
    <3> QED
      BY <1>3, <2>1, <2>2, <2>5, <3>1, EmbedEnded DEF AltersItem
  <2>7. ecall'[c] = n /\ DOMAIN ecall' = Embedders
        /\ \A d \in Embedders \ {c} : ecall'[d] = ecall[d]
    BY <2>5, EmbedMade
  <2>8. item' = item
    BY <1>2, <2>6, <2>7 DEF History
  <2> QED
    BY <1>1, <1>4, <2>3, <2>4, <2>6, <2>7, <2>8, EmbedFrame DEF EmbedInv
<1>12. CASE StorageUpsert(c) \/ StorageDelete(c)
  <2>1. k.at = "storage" /\ k.op \in {"upsert", "delete"} /\ k # NoEmbedCall
    BY <1>12 DEF StorageUpsert, StorageDelete, EmbedAt
  <2>2. ItemOf(k) \in vplan.items /\ (k.op = "upsert" => k.vector.text = k.text)
    BY <1>3, <2>1 DEF EmbedCallOK
  <2>3. CASE Refuses(c, k) /\ vectors' = vectors
    BY <1>3, <1>5, <2>1, <2>3, EmbedEnded DEF Refuses
  <2>4. CASE /\ Answers(c, k) /\ vectors # NoTable
             /\ \/ k.op = "upsert" /\ vectors' = Upserted(k)
                \/ k.op = "delete" /\ vectors' = Without(k.id, k.universe)
    <3>1. PICK out \in Outcomes : EmbedBecomes(c, EmbedEnds(k, out))
      BY <2>4 DEF Answers
    <3>2. out \in {"done", "threw"}
      BY DEF Outcomes
    <3>3. PICK n : n = EmbedEnds(k, out)
      OBVIOUS
    <3>4. /\ EmbedCallOK(c, n, vectors') /\ n # NoEmbedCall /\ n.at = "returned" /\ n.out = out
          /\ n.op = k.op /\ n.universe = k.universe /\ n.id = k.id
          /\ n.text = k.text /\ n.meta = k.meta
      BY <1>3, <2>1, <3>3, EmbedEnded
    <3>5. ecall'[c] = n /\ DOMAIN ecall' = Embedders
          /\ \A d \in Embedders \ {c} : ecall'[d] = ecall[d]
      BY <3>1, <3>3, EmbedMade
    <3>6. History(n)
      BY <1>2, <3>5
    <3>7. StoreSlot(n) = StoreSlot(k) /\ AltersItem(k) /\ StoreSlot(k) \in Slots
      BY <2>1, <2>2, <3>4 DEF ItemOf, AltersItem, StoreSlot, Slots
    <3>8. /\ \A r \in vectors : RowOK(r)
          /\ \A s \in Slots : Holds(vectors, s, item[s])
      BY <2>4 DEF EmbedInv, Vectors
    <3>9. PICK was : was = item[StoreSlot(k)]
      OBVIOUS
    <3>10. /\ \A r \in vectors' : RowOK(r)
           /\ Holds(vectors', StoreSlot(k), LeftBehind(k, was))
           /\ \A s \in Slots \ {StoreSlot(k)} : InSlot(vectors', s) = InSlot(vectors, s)
      <4>1. CASE k.op = "upsert"
        <5>1. k.text \in vplan.texts[c] /\ k.meta \in vplan.metas \cup {NoMeta}
          BY <1>3, <2>1, <4>1 DEF EmbedCallOK
        <5> QED
          BY <1>3, <2>2, <2>4, <3>7, <3>8, <3>9, <4>1, <5>1, UpsertedShown
      <4>2. CASE k.op = "delete"
        BY <1>3, <2>2, <2>4, <3>7, <3>8, <3>9, <4>2, WithoutShown
      <4> QED
        BY <2>1, <4>1, <4>2
    <3>11. vectors' # NoTable
      BY <3>10 DEF RowOK, TablesAreRows
    <3>12. Vectors' = vectors' /\ Vectors = vectors
      BY <2>4, <3>11 DEF Vectors
    <3>13. LeftBehind(n, was) = LeftBehind(k, was)
      BY <3>4 DEF LeftBehind
    <3>14. /\ DOMAIN item' = Slots
           /\ \A s \in Slots \ {StoreSlot(k)} : item'[s] = item[s]
           /\ \/ item'[StoreSlot(k)] \in {Either, LeftBehind(k, was)}
              \/ item' = item /\ vectors' = vectors
      BY <3>2, <3>4, <3>6, <3>7, <3>9, <3>13 DEF History, EmbedInv
    <3>15. \A s \in Slots : Holds(vectors', s, item'[s])
      <4>1. \A s \in Slots \ {StoreSlot(k)} : Holds(vectors', s, item'[s])
        BY <3>8, <3>10, <3>14 DEF Holds
      <4>2. Holds(vectors', StoreSlot(k), item'[StoreSlot(k)])
        BY <3>7, <3>8, <3>10, <3>14 DEF Holds
      <4> QED
        BY <4>1, <4>2
    <3>16. verified' => vectors' # NoTable
      BY <3>11
    <3>17. /\ \A r \in Vectors' : RowOK(r)
           /\ \A s \in Slots : Holds(Vectors', s, item'[s])
      BY <3>10, <3>12, <3>15
    <3>18. EmbedCallOK(c, ecall'[c], vectors')
      BY <3>4, <3>5
    <3> QED
      BY <1>1, <1>4, <3>5, <3>11, <3>14, <3>16, <3>17, <3>18, EmbedFrame
  <2> QED
    BY <1>12, <2>3, <2>4 DEF StorageUpsert, StorageDelete, UpsertRuns
<1> QED
  BY <1>1, <1>6, <1>7, <1>8, <1>9, <1>10, <1>11, <1>12 DEF EmbedStep

(* A call that returns is gone. *)
LEMMA EmbedReturnsKeep ==
    ASSUME EmbedInv, NEW c \in Embedders, EmbedReturns(c)
    PROVE  EmbedInv'
<1>1. EmbedBecomes(c, NoEmbedCall) /\ EmbedCallOK(c, NoEmbedCall, vectors)
  BY DEF EmbedReturns, EmbedLeaves, EmbedCallOK
<1> QED
  BY <1>1, EmbedMade, EmbedStays DEF EmbedReturns, EmbedLeaves, embeddingGhosts, EmbedInv

(* For any clients and plans over each of the four stores, with universes that
   share ids, a SQLite that takes ON CONFLICT for a virtual table or does not, and
   connections that break: a slot holds what its last change has left, in the
   universe it has left it in, and the table that was said to be there stays
   (packages/embedding/src: createEmbeddingService.ts, storages/memory.ts, pgvector.ts,
   sqlite-vec.ts, vectorize.ts). *)
THEOREM VectorsStayKept ==
    ASSUME \A p \in EmbeddingPlans : Indexed(p), TablesAreRows
    PROVE  EmbeddingsSpec => []VectorKept
<1>1. EmbeddingsInit => EmbeddingsInv
  BY DEF EmbeddingsInit, EmbeddingsInv, EmbedFresh
<1>2. EmbeddingsInv /\ [EmbeddingsNext]_embeddingClientVars => EmbeddingsInv'
  <2> SUFFICES ASSUME EmbeddingsInv, [EmbeddingsNext]_embeddingClientVars
               PROVE  EmbeddingsInv'
    OBVIOUS
  <2>1. CASE UNCHANGED embeddingClientVars
    <3>1. /\ gear' = gear /\ vectors' = vectors /\ ecall' = ecall /\ vplan' = vplan
          /\ item' = item /\ verified' = verified
      BY <2>1 DEF embeddingClientVars, embeddingVars, embeddingGhosts
    <3>2. EmbedFresh => EmbedFresh'
      BY <3>1 DEF EmbedFresh
    <3>3. EmbedInv => EmbedInv'
      BY <3>1 DEF EmbedInv, RowOK, Vectors, EmbedCallOK, Holds, InSlot, IsLeft, RowSlot, Slots,
                  StoredMeta, ToVectorizeMetadata, Vectorize
    <3> QED
      BY <3>1, <3>2, <3>3 DEF EmbeddingsInv
  <2>2. CASE EmbeddingsDeploy
    <3>1. EmbedFresh /\ vplan = NoIndex
      BY <2>2 DEF EmbeddingsDeploy, EmbeddingsInv
    <3>2. PICK p \in EmbeddingPlans :
              /\ vplan' = p /\ gear' = p.setup
              /\ vectors' = IF p.migrated THEN {} ELSE NoTable
              /\ item' = [s \in {SlotOfItem(p.setup, i) : i \in p.items} |-> NoVector]
      BY <2>2 DEF EmbeddingsDeploy
    <3>3. ecall' = ecall /\ verified' = verified
      BY <2>2 DEF EmbeddingsDeploy
    <3>4. Vectors' = {}
      BY <3>2 DEF Vectors
    <3>9. Slots' = DOMAIN item'
      BY <3>2 DEF Slots
    <3>5. \A s \in Slots' : Holds(Vectors, s, item[s])'
      BY <3>2, <3>4, <3>9 DEF Holds, InSlot
    <3>6. \A c \in Embedders : EmbedCallOK(c, ecall[c], vectors)'
      BY <3>1, <3>3 DEF EmbedFresh, EmbedCallOK
    <3>7. \A r \in Vectors' : RowOK(r)'
      BY <3>4
    <3>8. EmbedInv'
      BY <3>1, <3>2, <3>3, <3>5, <3>6, <3>7, <3>9 DEF EmbedInv, EmbedFresh
    <3> QED
      BY <3>2, <3>8 DEF EmbeddingsInv, Indexed
  <2>3. ASSUME NEW c \in Embedders, Embeds(c) \/ EmbedMoves(c) \/ EmbedReturns(c)
        PROVE  EmbeddingsInv'
    <3>1. vplan # NoIndex
      <4>1. Embeds(c) => vplan # NoIndex
        BY DEF Embeds
      <4>2. EmbedMoves(c) \/ EmbedReturns(c) => ecall[c] # NoEmbedCall
        BY DEF EmbedMoves, EmbedReturns, EmbedLeaves, EmbedStep, Embedded, EmbedFails,
               StorageUpsert, StorageQuery, StorageDelete, MigratesExtension, MigratesTable,
               MigratesIndex, MigrationFails, EmbedAt, NoEmbedCall
      <4> QED
        BY <2>3, <4>1, <4>2 DEF EmbeddingsInv, EmbedFresh
    <3>2. EmbedInv /\ Indexed(vplan)
      BY <3>1 DEF EmbeddingsInv, EmbedInv
    <3>3. EmbedInv'
      BY <2>3, <3>2, EmbedsKeep, EmbedMovesKeep, EmbedReturnsKeep
    <3>4. vplan' = vplan
      BY <2>3 DEF Embeds, EmbedMoves, EmbedReturns
    <3> QED
      BY <3>1, <3>3, <3>4 DEF EmbeddingsInv
  <2> QED
    BY <2>1, <2>2, <2>3 DEF EmbeddingsNext
<1>3. EmbeddingsInv => VectorKept
  <2> SUFFICES ASSUME EmbeddingsInv
               PROVE  VectorKept
    OBVIOUS
  <2>1. CASE vplan = NoIndex
    BY <2>1 DEF EmbeddingsInv, EmbedFresh, VectorKept
  <2>2. CASE vplan # NoIndex
    <3>1. EmbedInv
      BY <2>2 DEF EmbeddingsInv
    <3>2. \A slot \in DOMAIN item : Holds(Vectors, slot, item[slot])
      BY <3>1 DEF EmbedInv
    <3>3. ASSUME NEW slot \in DOMAIN item, item[slot] # Either
          PROVE  /\ item[slot] = NoVector => RowsOf(slot) = {}
                 /\ item[slot] # NoVector =>
                        Cardinality(RowsOf(slot)) = 1 /\ \A r \in RowsOf(slot) : IsLeft(r, item[slot])
      <4>1. RowsOf(slot) = InSlot(Vectors, slot)
        BY DEF RowsOf, InSlot
      <4>2. \A r : Cardinality({r}) = 1
        BY FS_Singleton
      <4> QED
        BY <3>2, <3>3, <4>1, <4>2 DEF Holds
    <3> QED
      BY <3>1, <3>3 DEF EmbedInv, VectorKept
  <2> QED
    BY <2>1, <2>2
<1> QED
  BY <1>1, <1>2, <1>3, PTL DEF EmbeddingsSpec

-----------------------------------------------------------------------------
(***************************************************************************)
(* Settings (packages/config/src): what a read may answer.                 *)
(***************************************************************************)

(* The sources of a key are a sequence. *)
Listed(p) ==
    /\ p # NoSettings
    /\ \A key \in DOMAIN p.setup.sources :
           LET defs == p.setup.sources[key] IN defs \in Seq({defs[i] : i \in DOMAIN defs})

CameTo(h, i, v) == v \in h[i] /\ \A j \in 1 .. i - 1 : Unset \in h[j]
Justified(k, h) ==
    IF k.out = Unset
    THEN \/ \A i \in DOMAIN h : Unset \in h[i]
         \/ \E i \in DOMAIN h : \E v \in h[i] \ {Unset} : ~Fits(k, v) /\ CameTo(h, i, v)
    ELSE Fits(k, k.out) /\ \E i \in DOMAIN h : CameTo(h, i, k.out)
IsCfgCall(k) == DOMAIN k = {"op", "key", "at", "i", "found", "out"}
StageOK(k, h) ==
    /\ IsCfgCall(k)
    /\ k.at \in {"find", "returned"}
    /\ k.at = "find" =>
           /\ k.i \in DOMAIN h /\ Definitions(k)[k.i].from = "database"
           /\ \A j \in 1 .. k.i - 1 : Unset \in h[j]
           /\ k.found # Pending => k.found \in h[k.i]
    /\ k.at = "returned" /\ k.out # "threw" => Justified(k, h)
HadOK(k, h) ==
    /\ DOMAIN h = 1 .. Len(Definitions(k))
    /\ \A j \in DOMAIN h : HasNow(Definitions(k)[j]) \in h[j]

SettingInv ==
    /\ splan \in SettingsPlans /\ place = splan.setup
    /\ DOMAIN cfgcall = ConfigReaders
    /\ \A c \in ConfigReaders :
           cfgcall[c] # NoCfgCall => HadOK(cfgcall[c], had[c]) /\ StageOK(cfgcall[c], had[c])
SettingsInv ==
    /\ splan = NoSettings =>
           cfgcall = [c \in ConfigReaders |-> NoCfgCall] /\ env.at = "none" /\ watch.at = "idle"
    /\ splan # NoSettings => SettingInv
SettingsSpec == SettingsInit /\ [][SettingsNext]_settingsClientVars

-----------------------------------------------------------------------------
(* A call that has the value of definition i, and knows that those before had
   none, answers as it should. *)
LEMMA GetAnswersJustified ==
    ASSUME NEW k, IsCfgCall(k), NEW h, NEW i \in DOMAIN h, NEW value, value # Unset, CameTo(h, i, value)
    PROVE  StageOK(GetAnswers(k, value), h)
<1> DEFINE Out(out) == CfgReturned(k, out)
<1>1. \A out : IsCfgCall(Out(out)) /\ Out(out).at = "returned" /\ Out(out).out = out
               /\ Out(out).op = k.op /\ Out(out).key = k.key
  BY DEF IsCfgCall, CfgReturned
<1>2. \A out, v : Fits(Out(out), v) <=> Fits(k, v)
  BY <1>1 DEF Fits
<1>3. GetAnswers(k, value) = IF Fits(k, value) THEN Out(value)
                             ELSE Out(IF place.onInvalid = "throw" THEN "threw" ELSE Unset)
  BY DEF GetAnswers, Fits, ValidateWithSchema
<1> HIDE DEF Out
<1>4. CASE Fits(k, value)
  <2>1. Justified(Out(value), h)
    BY <1>1, <1>2, <1>4 DEF Justified
  <2> QED
    BY <1>1, <1>3, <1>4, <2>1 DEF StageOK
<1>5. CASE ~Fits(k, value)
  <2>1. Justified(Out(Unset), h)
    BY <1>1, <1>2, <1>5 DEF Justified, CameTo
  <2> QED
    BY <1>1, <1>3, <1>5, <2>1 DEF StageOK
<1> QED
  BY <1>4, <1>5
(* One that found no value answers that there is none. *)
LEMMA NothingJustified ==
    ASSUME NEW k, IsCfgCall(k), NEW h, \A i \in DOMAIN h : Unset \in h[i]
    PROVE  StageOK(GetAnswers(k, Unset), h)
<1>1. GetAnswers(k, Unset) = CfgReturned(k, Unset)
  BY DEF GetAnswers
<1>2. PICK r : r = CfgReturned(k, Unset)
  OBVIOUS
<1>3. IsCfgCall(r) /\ r.at = "returned" /\ r.out = Unset
  BY <1>2 DEF IsCfgCall, CfgReturned
<1>4. Justified(r, h)
  BY <1>3 DEF Justified
<1> QED
  BY <1>1, <1>2, <1>3, <1>4 DEF StageOK

(* The waterfall passes the definitions that have no value now. *)
LEMMA WaterfallPasses ==
    ASSUME NEW k, NEW i \in Nat \ {0}, Len(Definitions(k)) \in Nat, i <= Len(Definitions(k)) + 1
    PROVE  LET defs == Definitions(k)
               end == Waterfall(k, i).at
           IN  /\ end \in i .. Len(defs) + 1
               /\ \A j \in i .. end - 1 : HasNow(defs[j]) = Unset
               /\ end <= Len(defs) => Halts(defs[end])
<1> DEFINE defs == Definitions(k)
           halting == {j \in i .. Len(defs) : Halts(defs[j])}
           end == IF halting = {} THEN Len(defs) + 1
                  ELSE CHOOSE j \in halting : \A l \in halting : j <= l
<1>1. Waterfall(k, i).at = end
  BY DEF Waterfall
<1>2. CASE halting = {}
  <2>1. \A j \in i .. Len(defs) : ~Halts(defs[j])
    BY <1>2
  <2>2. \A j \in i .. Len(defs) : HasNow(defs[j]) = Unset
    BY <2>1 DEF Halts, HasNow
  <2> QED
    BY <1>1, <1>2, <2>2
<1>3. CASE halting # {}
  <2>1. \E j \in halting : \A l \in halting : j <= l
    <3>1. halting \subseteq Nat
      OBVIOUS
    <3> HIDE DEF halting
    <3> QED
      BY <1>3, <3>1, LeastOf
  <2>2. end \in halting /\ \A l \in halting : end <= l
    BY <1>3, <2>1
  <2>3. ASSUME NEW j \in i .. end - 1
        PROVE  ~Halts(defs[j])
    <3>1. end \in i .. Len(defs)
      BY <2>2
    <3> HIDE DEF end
    <3>2. j \in i .. Len(defs) /\ ~(end <= j)
      BY <3>1
    <3>3. j \notin halting
      <4> HIDE DEF halting
      <4> QED
        BY <2>2, <3>2
    <3> QED
      BY <3>2, <3>3
  <2>4. \A j \in i .. end - 1 : HasNow(defs[j]) = Unset
    BY <2>3 DEF Halts, HasNow
  <2>5. end \in i .. Len(defs) /\ Halts(defs[end])
    BY <2>2
  <2> HIDE DEF end
  <2>6. end \in i .. Len(defs) + 1
    BY <2>5
  <2> QED
    BY <1>1, <2>4, <2>5, <2>6
<1> QED
  BY <1>2, <1>3

(* resolveValue, from definition i on, when those before have had no value. *)
LEMMA ResumesJustified ==
    ASSUME NEW k, IsCfgCall(k), NEW h, HadOK(k, h), Len(Definitions(k)) \in Nat,
           NEW i \in Nat \ {0}, i <= Len(Definitions(k)) + 1, \A j \in 1 .. i - 1 : Unset \in h[j]
    PROVE  StageOK(Resumes(k, i), h)
<1> DEFINE defs == Definitions(k)
<1>1. PICK end : end = Waterfall(k, i).at
  OBVIOUS
<1>2. /\ end \in i .. Len(defs) + 1
      /\ \A j \in i .. end - 1 : HasNow(defs[j]) = Unset
      /\ end <= Len(defs) => Halts(defs[end])
  BY <1>1, WaterfallPasses
<1>3. \A j \in 1 .. end - 1 : Unset \in h[j]
  <2> SUFFICES ASSUME NEW j \in 1 .. end - 1
               PROVE  Unset \in h[j]
    OBVIOUS
  <2>1. CASE j < i
    BY <2>1
  <2>2. CASE j >= i
    <3>1. HasNow(defs[j]) = Unset /\ j \in 1 .. Len(defs)
      BY <1>2, <2>2
    <3> QED
      BY <3>1 DEF HadOK
  <2> QED
    BY <1>2, <2>1, <2>2
<1>4. CASE end > Len(defs)
  <2>1. Resumes(k, i) = GetAnswers(k, Unset)
    BY <1>1, <1>4 DEF Resumes
  <2>2. \A j \in DOMAIN h : Unset \in h[j]
    BY <1>2, <1>3, <1>4 DEF HadOK
  <2> QED
    BY <2>1, <2>2, NothingJustified
<1>5. CASE end <= Len(defs)
  <2>1. end \in DOMAIN h /\ HasNow(defs[end]) \in h[end]
    BY <1>2, <1>5 DEF HadOK
  <2>2. CASE defs[end].from = "database"
    <3>1. Resumes(k, i) = [k EXCEPT !.at = "find", !.i = end, !.found = Pending]
      BY <1>1, <1>2, <1>5, <2>2 DEF Resumes
    <3>2. PICK n : n = [k EXCEPT !.at = "find", !.i = end, !.found = Pending]
      OBVIOUS
    <3>3. IsCfgCall(n) /\ n.at = "find" /\ n.i = end /\ n.found = Pending /\ n.key = k.key
      BY <3>2 DEF IsCfgCall
    <3>4. Definitions(n) = defs
      BY <3>3 DEF Definitions
    <3>5. StageOK(n, h)
      BY <1>3, <2>1, <2>2, <3>3, <3>4 DEF StageOK
    <3> QED
      BY <3>1, <3>2, <3>5
  <2>3. CASE defs[end].from # "database" /\ JsonThrows(defs[end])
    <3>1. Resumes(k, i) = CfgReturned(k, "threw")
      BY <1>1, <1>2, <1>5, <2>3 DEF Resumes
    <3>2. PICK n : n = CfgReturned(k, "threw")
      OBVIOUS
    <3>3. IsCfgCall(n) /\ n.at = "returned" /\ n.out = "threw"
      BY <3>2 DEF IsCfgCall, CfgReturned
    <3> QED
      BY <3>1, <3>2, <3>3 DEF StageOK
  <2>4. CASE defs[end].from # "database" /\ ~JsonThrows(defs[end])
    <3>1. Resumes(k, i) = GetAnswers(k, SourceAnswers(defs[end]))
      BY <1>1, <1>2, <1>5, <2>4 DEF Resumes
    <3>2. SourceAnswers(defs[end]) = HasNow(defs[end]) /\ HasNow(defs[end]) # Unset
      BY <1>2, <1>5, <2>4 DEF HasNow, Halts
    <3>3. CameTo(h, end, HasNow(defs[end]))
      BY <1>3, <2>1 DEF CameTo
    <3> QED
      BY <2>1, <3>1, <3>2, <3>3, GetAnswersJustified
  <2> QED
    BY <2>2, <2>3, <2>4
<1> QED
  BY <1>2, <1>4, <1>5

(* What justifies an answer, or a stage, still does when the history has grown. *)
LEMMA StageStays ==
    ASSUME NEW k, NEW h, NEW g, StageOK(k, h), DOMAIN h = 1 .. Len(Definitions(k)),
           DOMAIN g = DOMAIN h, Len(Definitions(k)) \in Nat, \A j \in DOMAIN h : h[j] \subseteq g[j]
    PROVE  StageOK(k, g)
<1>1. \A i \in DOMAIN h : \A v : CameTo(h, i, v) => CameTo(g, i, v)
  <2> SUFFICES ASSUME NEW i \in DOMAIN h, NEW v, CameTo(h, i, v)
               PROVE  CameTo(g, i, v)
    OBVIOUS
  <2>1. \A j \in 1 .. i - 1 : j \in DOMAIN h
    OBVIOUS
  <2> QED
    BY <2>1 DEF CameTo
<1>2. Justified(k, h) => Justified(k, g)
  BY <1>1 DEF Justified
<1>3. k.at = "find" => \A j \in 1 .. k.i - 1 : j \in DOMAIN h
  BY DEF StageOK
<1> QED
  BY <1>2, <1>3 DEF StageOK

(* A step of a call leaves it the key it was made with. *)
LEMMA CfgReturnedKeeps ==
    ASSUME NEW k, IsCfgCall(k), NEW out, NEW n, n = CfgReturned(k, out)
    PROVE  IsCfgCall(n) /\ n.key = k.key /\ n.at = "returned" /\ n.out = out
  BY DEF IsCfgCall, CfgReturned
(* The record of a call is not the absence of one. *)
LEMMA IsCalled ==
    ASSUME NEW k, IsCfgCall(k)
    PROVE  k # NoCfgCall
  BY DEF IsCfgCall, NoCfgCall
(* get keeps the key of its call, *)
LEMMA GetAnswersKeeps ==
    ASSUME NEW k, IsCfgCall(k), NEW value
    PROVE  IsCfgCall(GetAnswers(k, value)) /\ GetAnswers(k, value).key = k.key
<1>1. PICK r : r = GetAnswers(k, value)
  OBVIOUS
<1>2. \/ r = CfgReturned(k, Unset) \/ r = CfgReturned(k, value)
      \/ r = CfgReturned(k, IF place.onInvalid = "throw" THEN "threw" ELSE Unset)
  BY <1>1 DEF GetAnswers
<1> QED
  BY <1>1, <1>2, CfgReturnedKeeps
(* and so does the waterfall that goes on. *)
LEMMA ResumesKeeps ==
    ASSUME NEW k, IsCfgCall(k), NEW i
    PROVE  IsCfgCall(Resumes(k, i)) /\ Resumes(k, i).key = k.key
<1>1. PICK r : r = Resumes(k, i)
  OBVIOUS
<1>2. \/ \E value : r = GetAnswers(k, value)
      \/ \E j : r = [k EXCEPT !.at = "find", !.i = j, !.found = Pending]
      \/ r = CfgReturned(k, "threw")
  BY <1>1 DEF Resumes
<1>3. (\E j : r = [k EXCEPT !.at = "find", !.i = j, !.found = Pending])
          => IsCfgCall(r) /\ r.key = k.key
  BY DEF IsCfgCall
<1>4. ASSUME NEW value, r = GetAnswers(k, value)
      PROVE  IsCfgCall(r) /\ r.key = k.key
  BY <1>4, GetAnswersKeeps
<1>5. r = CfgReturned(k, "threw") => IsCfgCall(r) /\ r.key = k.key
  BY CfgReturnedKeeps
<1> QED
  BY <1>1, <1>2, <1>3, <1>4, <1>5

-----------------------------------------------------------------------------
(* The history of a call has what its sources have before and after each step. *)
LEMMA DefinitionsListed ==
    ASSUME Listed(splan), place = splan.setup, NEW k
    PROVE  /\ Len(Definitions(k)) \in Nat
           /\ DOMAIN Definitions(k) = 1 .. Len(Definitions(k))
  BY DEF Listed, Definitions, Lookup
(* Each step adds what the sources have before and after it, and drops nothing. *)
LEMMA HadBecomes ==
    ASSUME SettingInv, Listed(splan), place' = place, Witnesses, NEW c \in ConfigReaders, NEW k,
           cfgcall'[c] # NoCfgCall, cfgcall'[c].key = k.key,
           cfgcall[c] # NoCfgCall => cfgcall[c].key = k.key
    PROVE  /\ DOMAIN had'[c] = 1 .. Len(Definitions(k))
           /\ \A j \in 1 .. Len(Definitions(k)) : \A d : d = Definitions(k)[j] =>
                  HasNow(d) \in had'[c][j] /\ HasNow(d)' \in had'[c][j]
           /\ cfgcall[c] # NoCfgCall =>
                  \A j \in 1 .. Len(Definitions(k)) : had[c][j] \subseteq had'[c][j]
<1> DEFINE defs == Definitions(k)
<1>1. Len(defs) \in Nat /\ DOMAIN defs = 1 .. Len(defs)
  BY DefinitionsListed DEF SettingInv
<1>2. PICK values : values = Lookup(Sourced, k.key, <<>>)
  OBVIOUS
<1>3. PICK later : later = Lookup(Sourced', k.key, <<>>)
  OBVIOUS
<1>4. /\ DOMAIN values = 1 .. Len(defs)
      /\ \A j \in 1 .. Len(defs) : values[j] = HasNow(defs[j])
  BY <1>1, <1>2 DEF Lookup, Sourced, Definitions
<1>5. /\ DOMAIN later = 1 .. Len(defs)
      /\ \A j \in 1 .. Len(defs) : \A d : d = defs[j] => later[j] = HasNow(d)'
  BY <1>1, <1>3 DEF Lookup, Sourced, Definitions
<1>6. had'[c] = LET before == IF cfgcall[c] # NoCfgCall THEN had[c] ELSE Each(values)
                    after == Each(later)
                IN  [i \in DOMAIN after |-> before[i] \cup after[i]]
  BY <1>2, <1>3 DEF Witnesses
<1>7. /\ DOMAIN had'[c] = 1 .. Len(defs)
      /\ \A j \in 1 .. Len(defs) : had'[c][j] =
             (IF cfgcall[c] # NoCfgCall THEN had[c][j] ELSE {values[j]}) \cup {later[j]}
  BY <1>4, <1>5, <1>6 DEF Each
<1>8. cfgcall[c] # NoCfgCall => \A j \in 1 .. Len(defs) : HasNow(defs[j]) \in had[c][j]
  <2> SUFFICES ASSUME cfgcall[c] # NoCfgCall
               PROVE  \A j \in 1 .. Len(defs) : HasNow(defs[j]) \in had[c][j]
    OBVIOUS
  <2>1. HadOK(cfgcall[c], had[c]) /\ Definitions(cfgcall[c]) = defs
    BY DEF SettingInv, Definitions
  <2> QED
    BY <2>1 DEF HadOK
<1> QED
  BY <1>4, <1>5, <1>7, <1>8

(* What a step has to keep for each call. *)
LEMMA SettingFrame ==
    ASSUME SettingInv, Listed(splan), splan' = splan, place' = place, Witnesses,
           DOMAIN cfgcall' = ConfigReaders,
           \A c \in ConfigReaders :
               \/ cfgcall'[c] \in {cfgcall[c], NoCfgCall}
               \/ /\ IsCfgCall(cfgcall'[c])
                  /\ cfgcall[c] # NoCfgCall => cfgcall[c].key = cfgcall'[c].key
                  /\ StageOK(cfgcall'[c], had'[c])
    PROVE  SettingInv'
<1>1. ASSUME NEW c \in ConfigReaders, cfgcall'[c] # NoCfgCall
      PROVE  HadOK(cfgcall[c], had[c])' /\ StageOK(cfgcall[c], had[c])'
  <2>1. PICK k : k = cfgcall'[c]
    OBVIOUS
  <2>2. PICK g : g = had'[c]
    OBVIOUS
  <2>3. cfgcall[c] # NoCfgCall => cfgcall[c].key = k.key
    BY <1>1, <2>1
  <2>4. /\ DOMAIN g = 1 .. Len(Definitions(k))
        /\ \A j \in 1 .. Len(Definitions(k)) : \A d : d = Definitions(k)[j] => HasNow(d)' \in g[j]
        /\ cfgcall[c] # NoCfgCall => \A j \in 1 .. Len(Definitions(k)) : had[c][j] \subseteq g[j]
    BY <1>1, <2>1, <2>2, <2>3, HadBecomes
  <2>5. StageOK(k, g)
    <3>1. CASE k = cfgcall[c]
      <4>1. StageOK(k, had[c]) /\ HadOK(k, had[c])
        BY <1>1, <2>1, <3>1 DEF SettingInv
      <4>2. Len(Definitions(k)) \in Nat
        BY DefinitionsListed DEF SettingInv
      <4> QED
        BY <1>1, <2>1, <2>4, <3>1, <4>1, <4>2, StageStays DEF HadOK
    <3> QED
      BY <1>1, <2>1, <2>2, <3>1
  <2>6. Definitions(k)' = Definitions(k)
    BY DEF Definitions, Lookup
  <2>7. HadOK(k, g)'
    BY <2>4, <2>6 DEF HadOK
  <2>8. StageOK(k, g)'
    BY <2>5, <2>6 DEF StageOK, Justified, Fits
  <2> QED
    BY <2>1, <2>2, <2>7, <2>8
<1>2. (splan \in SettingsPlans /\ place = splan.setup)'
  BY DEF SettingInv
<1> QED
  BY <1>1, <1>2 DEF SettingInv

-----------------------------------------------------------------------------
(* Every step of the calls keeps the invariant, *)
LEMMA ResolvesKeeps ==
    ASSUME SettingInv, Listed(splan), splan' = splan, Witnesses, NEW c \in ConfigReaders,
           NEW k, IsCfgCall(k), cfgcall[c] = NoCfgCall, Resolves(c, k, 1)
    PROVE  SettingInv'
<1>1. place' = place /\ DOMAIN cfgcall' = ConfigReaders
      /\ \A d \in ConfigReaders \ {c} : cfgcall'[d] = cfgcall[d]
  BY DEF Resolves, SettingInv
<1>2. PICK n : n = Resumes(k, 1)
  OBVIOUS
<1>3. cfgcall'[c] = n
  BY <1>2 DEF Resolves, SettingInv
<1>4. IsCfgCall(n) /\ n.key = k.key /\ n # NoCfgCall
  BY <1>2, ResumesKeeps, IsCalled
<1>5. PICK h : h = had'[c]
  OBVIOUS
<1>6. /\ DOMAIN h = 1 .. Len(Definitions(k))
      /\ \A j \in 1 .. Len(Definitions(k)) : \A d : d = Definitions(k)[j] => HasNow(d) \in h[j]
  BY <1>1, <1>3, <1>4, <1>5, HadBecomes
<1>7. HadOK(k, h) /\ Len(Definitions(k)) \in Nat
  BY <1>6, DefinitionsListed DEF HadOK, SettingInv
<1>8. StageOK(n, h)
  BY <1>2, <1>7, ResumesJustified
<1> QED
  BY <1>1, <1>3, <1>4, <1>5, <1>8, SettingFrame
(* when a read begins, *)
LEMMA ConfigReadsKeep ==
    ASSUME SettingInv, Listed(splan), NEW c \in ConfigReaders, ConfigReads(c)
    PROVE  SettingInv'
<1>1. splan' = splan /\ Witnesses
  BY DEF ConfigReads
<1>2. PICK op \in {"get", "has"}, key \in splan.keys : ConfigAsked(c, op, key)
  BY DEF ConfigReads
<1>3. PICK k : k = CfgCall(op, key)
  OBVIOUS
<1>4. IsCfgCall(k) /\ k.key = key
  BY <1>3 DEF IsCfgCall, CfgCall
<1>5. cfgcall[c] = NoCfgCall /\ Resolves(c, k, 1)
  BY <1>2, <1>3 DEF ConfigAsked
<1> QED
  BY <1>1, <1>4, <1>5, ResolvesKeeps
(* and when it goes on, *)
LEMMA ReadMovesKeep ==
    ASSUME SettingInv, Listed(splan), NEW c \in ConfigReaders, ReadMoves(c)
    PROVE  SettingInv'
<1> DEFINE k == cfgcall[c]
<1>1. splan' = splan /\ Witnesses /\ (RepoFinds(c) \/ RepoRefuses(c) \/ ConfigFound(c) \/ ConfigEnds(c))
  BY DEF ReadMoves
<1>2. k # NoCfgCall
  BY <1>1 DEF RepoFinds, RepoRefuses, ConfigFound, ConfigEnds, NoCfgCall
<1>3. /\ IsCfgCall(k) /\ StageOK(k, had[c]) /\ DOMAIN had[c] = 1 .. Len(Definitions(k))
      /\ Len(Definitions(k)) \in Nat
  BY <1>2, DefinitionsListed DEF SettingInv, StageOK, HadOK
<1>4. place' = place /\ DOMAIN cfgcall' = ConfigReaders
      /\ \A d \in ConfigReaders \ {c} : cfgcall'[d] = cfgcall[d]
  BY <1>1 DEF RepoFinds, RepoRefuses, ConfigFound, ConfigEnds, Resolves, SettingInv
(* The step of a call, with all that the history has of it now. *)
<1>5. ASSUME NEW n, n = cfgcall'[c], IsCfgCall(n), n.key = k.key,
             \A g : /\ HadOK(k, g)
                    /\ \A j \in 1 .. Len(Definitions(k)) : had[c][j] \subseteq g[j]
                    => StageOK(n, g)
      PROVE  SettingInv'
  <2>1. n # NoCfgCall
    BY <1>5, IsCalled
  <2>2. PICK g : g = had'[c]
    OBVIOUS
  <2>3. /\ DOMAIN g = 1 .. Len(Definitions(k))
        /\ \A j \in 1 .. Len(Definitions(k)) : \A d : d = Definitions(k)[j] => HasNow(d) \in g[j]
        /\ \A j \in 1 .. Len(Definitions(k)) : had[c][j] \subseteq g[j]
    BY <1>1, <1>2, <1>4, <1>5, <2>1, <2>2, HadBecomes
  <2>4. HadOK(k, g)
    BY <2>3 DEF HadOK
  <2>5. StageOK(n, g)
    BY <1>5, <2>3, <2>4
  <2> QED
    BY <1>1, <1>4, <1>5, <2>2, <2>5, SettingFrame
<1>6. CASE ConfigEnds(c)
  <2>1. cfgcall'[c] = NoCfgCall
    BY <1>6 DEF ConfigEnds, SettingInv
  <2> QED
    BY <1>1, <1>4, <2>1, SettingFrame
<1>7. CASE RepoRefuses(c)
  <2>1. PICK n : n = CfgReturned(k, "threw")
    OBVIOUS
  <2>2. cfgcall'[c] = n
    BY <1>7, <2>1 DEF RepoRefuses, SettingInv
  <2>3. IsCfgCall(n) /\ n.key = k.key /\ n.at = "returned" /\ n.out = "threw"
    BY <1>3, <2>1, CfgReturnedKeeps
  <2>4. \A g : StageOK(n, g)
    BY <2>3 DEF StageOK
  <2> QED
    BY <1>5, <2>2, <2>3, <2>4
<1>8. CASE RepoFinds(c)
  <2>1. PICK n : n = [k EXCEPT !.found = DatabaseSource(Definitions(k)[k.i])]
    OBVIOUS
  <2>2. cfgcall'[c] = n /\ k.at = "find"
    BY <1>8, <2>1 DEF RepoFinds, SettingInv
  <2>3. IsCfgCall(n) /\ n.key = k.key /\ n.at = k.at /\ n.i = k.i /\ n.op = k.op
        /\ n.found = DatabaseSource(Definitions(k)[k.i])
    BY <1>3, <2>1 DEF IsCfgCall
  <2>4. Definitions(n) = Definitions(k)
    BY <2>3 DEF Definitions
  <2>5. ASSUME NEW g, HadOK(k, g), \A j \in 1 .. Len(Definitions(k)) : had[c][j] \subseteq g[j]
        PROVE  StageOK(n, g)
    <3>1. StageOK(k, g)
      BY <1>3, <2>5, StageStays DEF HadOK
    <3>2. n.found \in g[k.i]
      BY <1>3, <2>2, <2>3, <2>5 DEF StageOK, HadOK, HasNow
    <3> QED
      BY <2>2, <2>3, <2>4, <3>1, <3>2 DEF StageOK
  <2> QED
    BY <1>5, <2>2, <2>3, <2>5
<1>9. CASE ConfigFound(c)
  <2>1. k.at = "find" /\ k.found # Pending
    BY <1>9 DEF ConfigFound
  <2>2. k.i \in 1 .. Len(Definitions(k))
    BY <1>3, <2>1 DEF StageOK
  <2>3. CASE k.found = Unset
    <3>1. cfgcall'[c] = Resumes(k, k.i + 1)
      BY <1>9, <2>3 DEF ConfigFound, Resolves, SettingInv
    <3>2. ASSUME NEW g, HadOK(k, g), \A j \in 1 .. Len(Definitions(k)) : had[c][j] \subseteq g[j]
          PROVE  StageOK(Resumes(k, k.i + 1), g)
      <4>1. StageOK(k, g)
        BY <1>3, <3>2, StageStays DEF HadOK
      <4>2. \A j \in 1 .. k.i : Unset \in g[j]
        BY <2>1, <2>2, <2>3, <4>1 DEF StageOK
      <4> QED
        BY <1>3, <2>2, <3>2, <4>2, ResumesJustified
    <3> QED
      BY <1>3, <1>5, <3>1, <3>2, ResumesKeeps
  <2>4. CASE k.found # Unset
    <3>1. cfgcall'[c] = GetAnswers(k, k.found)
      BY <1>9, <2>4 DEF ConfigFound, SettingInv
    <3>2. ASSUME NEW g, HadOK(k, g), \A j \in 1 .. Len(Definitions(k)) : had[c][j] \subseteq g[j]
          PROVE  StageOK(GetAnswers(k, k.found), g)
      <4>1. StageOK(k, g)
        BY <1>3, <3>2, StageStays DEF HadOK
      <4>2. CameTo(g, k.i, k.found) /\ k.i \in DOMAIN g
        BY <2>1, <4>1 DEF StageOK, CameTo
      <4> QED
        BY <1>3, <2>4, <4>2, GetAnswersJustified
    <3> QED
      BY <1>3, <1>5, <3>1, <3>2, GetAnswersKeeps
  <2> QED
    BY <2>3, <2>4
<1> QED
  BY <1>1, <1>6, <1>7, <1>8, <1>9

(* and so does what goes on around them. *)
LEMMA EditsKeep ==
    ASSUME SettingInv, Listed(splan), Edits
    PROVE  SettingInv'
<1>1. splan' = splan /\ Witnesses
  BY DEF Edits
<1>2. place' = place /\ cfgcall' = cfgcall
  BY DEF Edits, EditsEnvFile, ReplacesEnvFile, SetsProcessEnv, ChangesRow, WritesJson
<1> QED
  BY <1>1, <1>2, SettingFrame DEF SettingInv
(* the start of the env, and the watcher of its file. *)
LEMMA OthersKeep ==
    ASSUME SettingInv, EnvStarts \/ WatcherMoves \/ UNCHANGED settingsClientVars
    PROVE  SettingInv'
<1>1. /\ splan' = splan /\ place' = place /\ cfgcall' = cfgcall /\ had' = had
      /\ processEnv' = processEnv /\ jsonFile' = jsonFile /\ jsonData' = jsonData
      /\ configRows' = configRows
  BY DEF EnvStarts, WatcherMoves, CreateEnv, WatchEvent, WatchReads, WatchCompares,
         settingsClientVars, settingsVars, settingsGhosts
<1>2. \A d : HasNow(d)' = HasNow(d)
  BY <1>1 DEF HasNow, DatabaseSource, SourceAnswers, EnvSource, JsonSource, JsonThrows, JsonReads,
             JsonNow, Lookup
<1>3. \A k : Definitions(k)' = Definitions(k)
  BY <1>1 DEF Definitions, Lookup
<1>4. \A k, h : HadOK(k, h) => HadOK(k, h)'
  BY <1>2, <1>3 DEF HadOK
<1>5. \A k, h : StageOK(k, h) => StageOK(k, h)'
  BY <1>1, <1>3 DEF StageOK, Justified, Fits
<1>6. ASSUME NEW c \in ConfigReaders, cfgcall'[c] # NoCfgCall
      PROVE  HadOK(cfgcall[c], had[c])' /\ StageOK(cfgcall[c], had[c])'
  <2>1. PICK k : k = cfgcall[c]
    OBVIOUS
  <2>2. PICK h : h = had[c]
    OBVIOUS
  <2>3. k = cfgcall'[c] /\ h = had'[c]
    BY <1>1, <2>1, <2>2
  <2>4. HadOK(k, h) /\ StageOK(k, h)
    BY <1>6, <2>1, <2>2, <2>3 DEF SettingInv
  <2>5. HadOK(k, h)' /\ StageOK(k, h)'
    BY <1>4, <1>5, <2>4
  <2> QED
    BY <2>3, <2>5
<1> QED
  BY <1>1, <1>6 DEF SettingInv

(* For any readers and plans, and whoever changes files, rows and variables
   meanwhile: get and has answer a value that a source of the key had during the
   call, and that fits, when the sources before it had none; the fallback only when
   none of them had one, or the one that had did not fit
   (packages/config/src/createConfigService.ts, resolve.ts). *)
THEOREM SettingsStayKept ==
    ASSUME \A p \in SettingsPlans : Listed(p)
    PROVE  SettingsSpec => []SettingKept
<1>1. SettingsInit => SettingsInv
  BY DEF SettingsInit, SettingsInv, NoEnv, NoWatch
<1>2. SettingsInv /\ [SettingsNext]_settingsClientVars => SettingsInv'
  <2> SUFFICES ASSUME SettingsInv, [SettingsNext]_settingsClientVars
               PROVE  SettingsInv'
    OBVIOUS
  <2>1. CASE splan # NoSettings
    <3>1. SettingInv /\ Listed(splan)
      BY <2>1 DEF SettingsInv, SettingInv
    <3>2. ~SettingsDeploy
      BY <2>1 DEF SettingsDeploy
    <3>3. splan' = splan
      BY <3>2 DEF SettingsNext, EnvStarts, WatcherMoves, Edits, ConfigReads, ReadMoves,
                  settingsClientVars
    <3>4. SettingInv'
      BY <3>1, <3>2, ConfigReadsKeep, ReadMovesKeep, EditsKeep, OthersKeep DEF SettingsNext
    <3> QED
      BY <2>1, <3>3, <3>4 DEF SettingsInv
  <2>2. CASE splan = NoSettings /\ SettingsDeploy
    <3>1. PICK p \in SettingsPlans : splan' = p /\ place' = p.setup
      BY <2>2 DEF SettingsDeploy
    <3>2. cfgcall' = [c \in ConfigReaders |-> NoCfgCall]
      BY <2>2 DEF SettingsDeploy, SettingsInv
    <3>3. SettingInv'
      BY <3>1, <3>2 DEF SettingInv
    <3> QED
      BY <3>1, <3>3 DEF SettingsInv, Listed
  <2>3. CASE splan = NoSettings /\ ~SettingsDeploy
    <3>1. /\ cfgcall = [c \in ConfigReaders |-> NoCfgCall]
          /\ env.at = "none" /\ watch.at = "idle"
      BY <2>3 DEF SettingsInv
    <3>2. ~WatcherMoves
      BY <3>1 DEF WatcherMoves, WatchEvent, WatchReads, WatchCompares
    <3>3. \A c \in ConfigReaders : ~ReadMoves(c)
      BY <3>1 DEF ReadMoves, RepoFinds, RepoRefuses, ConfigFound, ConfigEnds, NoCfgCall
    <3>4. ~EnvStarts /\ ~Edits /\ \A c \in ConfigReaders : ~ConfigReads(c)
      BY <2>3 DEF EnvStarts, Edits, ConfigReads
    <3>5. UNCHANGED settingsClientVars
      BY <2>3, <3>2, <3>3, <3>4 DEF SettingsNext
    <3> QED
      BY <2>3, <3>1, <3>5 DEF SettingsInv, settingsClientVars, settingsVars
  <2> QED
    BY <2>1, <2>2, <2>3
<1>3. SettingsInv => SettingKept
  <2> SUFFICES ASSUME SettingsInv, NEW c \in ConfigReaders, cfgcall[c].at = "returned",
                      cfgcall[c].out # "threw"
               PROVE  Justified(cfgcall[c], had[c])
    BY DEF SettingKept, Justified, CameTo, Came
  <2>1. cfgcall[c] # NoCfgCall
    BY DEF NoCfgCall
  <2>2. StageOK(cfgcall[c], had[c])
    BY <2>1 DEF SettingsInv, SettingInv
  <2> QED
    BY <2>2 DEF StageOK
<1> QED
  BY <1>1, <1>2, <1>3, PTL DEF SettingsSpec

-----------------------------------------------------------------------------
(***************************************************************************)
(* The event bus (packages/event/src): a once that has been called is spent. *)
(***************************************************************************)

Registered ==
    [pattern : eplan.patterns, handler : Handlers, once : 0 .. onces]
MapRows == [pattern : eplan.patterns, of : Seq(Registered)]
Frames == [todo : Seq(Registered), in : Registered \cup {NoHandler}, n : 1 .. emits]
BusTyped ==
    /\ onces \in Nat /\ emits \in Nat
    /\ called \in [1 .. onces -> SUBSET Nat] /\ spent \in [1 .. onces -> Nat]
    /\ called \in Seq(SUBSET Nat) /\ Len(called) = onces
    /\ spent \in Seq(Nat) /\ Len(spent) = onces
    /\ handlers \in Seq(MapRows)
    /\ emitting \in Seq(Frames)
(* What a registration has been put under, and once; *)
Alone(of) == \A j, l \in DOMAIN of : of[j] = of[l] => j = l
Distinct(row) ==
    /\ \A r \in ToSet(row.of) : r.pattern = row.pattern
    /\ Alone(row.of)
Known(r) == r \in Registrations \/ \E i \in DOMAIN emitting : r \in ToSet(emitting[i].todo)
OnceIsOne ==
    \A q, r : Known(q) /\ Known(r) /\ q.once = r.once /\ q.once # 0 => q = r
(* and what a once that has been called leaves behind. *)
Spent(n) ==
    IF spent[n] = 0 THEN called[n] = {}
    ELSE /\ \A e \in called[n] : e <= spent[n]
         /\ \A r \in Registrations : r.once # n
         /\ \A i \in DOMAIN emitting : \A r \in ToSet(emitting[i].todo) :
                r.once = n => emitting[i].n <= spent[n]
BusInv ==
    /\ BusTyped
    /\ \A i \in DOMAIN handlers : Distinct(handlers[i])
    /\ OnceIsOne
    /\ \A n \in 1 .. onces : Spent(n)
EventsInv ==
    /\ eplan = NoBus => handlers = <<>> /\ emitting = <<>> /\ onces = 0 /\ emits = 0
                        /\ called = <<>> /\ spent = <<>>
    /\ eplan # NoBus => BusInv
EventsSpec == EventsInit /\ [][EventsNext]_eventClientVars

-----------------------------------------------------------------------------
(* The handlers that match are of those that are there. *)
LEMMA FlattenSeqTyped ==
    ASSUME NEW S, NEW ss \in Seq(Seq(S))
    PROVE  FlattenSeq(ss) \in Seq(S)
<1> DEFINE Upto(n, f) == f = [i \in 1 .. n |-> IF i = 1 THEN ss[i] ELSE f[i - 1] \o ss[i]]
<1> HIDE DEF Upto
<1>0. Len(ss) \in Nat /\ \A i \in 1 .. Len(ss) : ss[i] \in Seq(S)
  OBVIOUS
<1>1. CASE Len(ss) = 0
  BY <1>1 DEF FlattenSeq
<1>2. CASE Len(ss) # 0
  <2>1. \A n \in 1 .. Len(ss) : \E f : Upto(n, f)
    <3> DEFINE bad == {n \in 1 .. Len(ss) : ~\E f : Upto(n, f)}
    <3>1. ASSUME bad # {} PROVE FALSE
      <4>1. bad \subseteq Nat
        BY <1>0
      <4>2. PICK n \in bad : \A m \in bad : n <= m
        <5> HIDE DEF bad
        <5> QED
          BY <3>1, <4>1, LeastOf
      <4>3. n # 1
        <5>1. Upto(1, [i \in 1 .. 1 |-> ss[i]])
          BY DEF Upto
        <5> QED
          BY <4>2, <5>1
      <4>4. PICK f : Upto(n - 1, f)
        <5>1. n - 1 \in 1 .. Len(ss) /\ n - 1 < n /\ n \in 1 .. Len(ss)
          BY <1>0, <4>2, <4>3
        <5>2. n - 1 \notin bad
          <6>1. n \in Nat /\ ~(n <= n - 1)
            BY <1>0, <5>1
          <6> HIDE DEF bad
          <6> QED
            BY <4>2, <6>1
        <5> QED
          BY <5>1, <5>2
      <4>5. PICK g : g = [i \in 1 .. n |-> IF i = 1 THEN ss[i] ELSE f[i - 1] \o ss[i]]
        OBVIOUS
      <4>6. \A i \in 1 .. n - 1 : g[i] = f[i]
        <5>1. n \in Nat
          BY <4>1, <4>2
        <5>2. f = [i \in 1 .. n - 1 |-> IF i = 1 THEN ss[i] ELSE f[i - 1] \o ss[i]]
          BY <4>4 DEF Upto
        <5>3. \A i \in 1 .. n - 1 : i \in 1 .. n
          BY <5>1
        <5>4. \A i \in 1 .. n - 1 : f[i] = IF i = 1 THEN ss[i] ELSE f[i - 1] \o ss[i]
          BY <5>2
        <5> QED
          BY <4>5, <5>3, <5>4
      <4>7. Upto(n, g)
        <5>1. \A i \in 1 .. n : (IF i = 1 THEN ss[i] ELSE f[i - 1] \o ss[i])
                              = (IF i = 1 THEN ss[i] ELSE g[i - 1] \o ss[i])
          <6>1. n \in Nat
            BY <1>0, <4>2
          <6> QED
            BY <4>6, <6>1
        <5> QED
          BY <4>5, <5>1 DEF Upto
      <4> QED
        BY <4>2, <4>7
    <3> QED
      BY <3>1
  <2>2. PICK h : h = CHOOSE f : Upto(Len(ss), f)
    OBVIOUS
  <2>3. Upto(Len(ss), h)
    <3>1. \E f : Upto(Len(ss), f)
      BY <1>0, <1>2, <2>1
    <3> QED
      BY <2>2, <3>1
  <2>4. FlattenSeq(ss) = h[Len(ss)]
    BY <1>2, <2>2 DEF FlattenSeq, Upto
  <2>5. \A n \in 1 .. Len(ss) : h[n] \in Seq(S)
    <3> DEFINE bad == {n \in 1 .. Len(ss) : h[n] \notin Seq(S)}
    <3>1. ASSUME bad # {} PROVE FALSE
      <4>1. bad \subseteq Nat
        BY <1>0
      <4>2. PICK n \in bad : \A m \in bad : n <= m
        <5> HIDE DEF bad
        <5> QED
          BY <3>1, <4>1, LeastOf
      <4>3. CASE n = 1
        BY <1>0, <2>3, <4>2, <4>3 DEF Upto
      <4>4. CASE n # 1
        <5>1. n - 1 \in 1 .. Len(ss) /\ n - 1 < n /\ n \in 1 .. Len(ss)
          BY <1>0, <4>2, <4>4
        <5>2. h[n - 1] \in Seq(S) /\ ss[n] \in Seq(S)
          <6>1. n \in Nat /\ ~(n <= n - 1)
            BY <1>0, <5>1
          <6>2. n - 1 \notin bad
            <7> HIDE DEF bad
            <7> QED
              BY <4>2, <6>1
          <6> QED
            BY <1>0, <5>1, <6>2
        <5>3. h[n] = h[n - 1] \o ss[n]
          <6>1. h = [i \in 1 .. Len(ss) |-> IF i = 1 THEN ss[i] ELSE h[i - 1] \o ss[i]]
            BY <2>3 DEF Upto
          <6>2. \A i \in 1 .. Len(ss) : h[i] = IF i = 1 THEN ss[i] ELSE h[i - 1] \o ss[i]
            BY <6>1
          <6> HIDE DEF bad
          <6>3. h[n] = IF n = 1 THEN ss[n] ELSE h[n - 1] \o ss[n]
            BY <5>1, <6>2
          <6> QED
            BY <4>4, <6>3
        <5>4. h[n - 1] \o ss[n] \in Seq(S)
          <6> HIDE DEF bad
          <6> QED
            BY <5>2, ConcatProperties
        <5> QED
          BY <4>2, <5>3, <5>4
      <4> QED
        BY <4>3, <4>4
    <3> QED
      BY <3>1
  <2> QED
    BY <1>0, <1>2, <2>4, <2>5
<1> QED
  BY <1>1, <1>2

(* A sequence without repetitions that loses an element has it no more. *)
LEMMA RemoveFirstDrops ==
    ASSUME NEW S, NEW s \in Seq(S), Alone(s), NEW e
    PROVE  /\ RemoveFirst(s, e) \in Seq(S)
           /\ Alone(RemoveFirst(s, e))
           /\ ToSet(RemoveFirst(s, e)) \subseteq ToSet(s) \ {e}
<1>1. CASE ~\E i \in 1 .. Len(s) : s[i] = e
  <2>1. RemoveFirst(s, e) = s
    BY <1>1 DEF RemoveFirst
  <2> QED
    BY <1>1, <2>1 DEF ToSet
<1>2. CASE \E i \in 1 .. Len(s) : s[i] = e
  <2> DEFINE I == {i \in 1 .. Len(s) : s[i] = e}
  <2>1. PICK k : k = Min(I)
    OBVIOUS
  <2>2. k \in I
    <3>1. I \subseteq Nat /\ I # {}
      BY <1>2
    <3> HIDE DEF I
    <3>2. \E m \in I : \A n \in I : m <= n
      BY <3>1, LeastOf
    <3> QED
      BY <2>1, <3>2 DEF Min
  <2>3. RemoveFirst(s, e) = SubSeq(s, 1, k - 1) \o SubSeq(s, k + 1, Len(s))
    BY <1>2, <2>1 DEF RemoveFirst, RemoveAt, SelectInSeq
  <2>4. Len(s) \in Nat /\ DOMAIN s = 1 .. Len(s) /\ k \in 1 .. Len(s) /\ s[k] = e
    BY <2>2
  <2>5. PICK a : a = SubSeq(s, 1, k - 1)
    OBVIOUS
  <2>6. PICK b : b = SubSeq(s, k + 1, Len(s))
    OBVIOUS
  <2>7. /\ a \in Seq(S) /\ Len(a) = k - 1 /\ \A i \in 1 .. k - 1 : a[i] = s[i]
        /\ b \in Seq(S) /\ Len(b) = Len(s) - k /\ \A i \in 1 .. Len(s) - k : b[i] = s[k + i]
    <3> HIDE DEF I
    <3>1. \A i \in 1 .. Len(s) : s[i] \in S
      OBVIOUS
    <3>2. /\ a \in Seq(S) /\ Len(a) = IF 1 <= k - 1 THEN k - 1 - 1 + 1 ELSE 0
          /\ \A i \in 1 .. k - 1 - 1 + 1 : a[i] = s[1 + i - 1]
      <4>1. 1 \in Int /\ k - 1 \in Int /\ \A i \in 1 .. k - 1 : s[i] \in S
        BY <2>4, <3>1
      <4> QED
        BY <2>5, <4>1, SubSeqProperties
    <3>3. /\ b \in Seq(S) /\ Len(b) = IF k + 1 <= Len(s) THEN Len(s) - (k + 1) + 1 ELSE 0
          /\ \A i \in 1 .. Len(s) - (k + 1) + 1 : b[i] = s[k + 1 + i - 1]
      <4>1. k + 1 \in Int /\ Len(s) \in Int /\ \A i \in k + 1 .. Len(s) : s[i] \in S
        BY <2>4, <3>1
      <4> QED
        BY <2>6, <4>1, SubSeqProperties
    <3>4. Len(a) = k - 1 /\ Len(b) = Len(s) - k
      <4>1. Len(a) = IF 1 <= k - 1 THEN k - 1 - 1 + 1 ELSE 0
        BY <3>2, Zenon
      <4>2. Len(b) = IF k + 1 <= Len(s) THEN Len(s) - (k + 1) + 1 ELSE 0
        BY <3>3, Zenon
      <4>3. k \in Nat /\ 1 <= k /\ k <= Len(s) /\ Len(s) \in Nat
        BY <2>4
      <4> QED
        BY <4>1, <4>2, <4>3
    <3>5. \A i \in 1 .. k - 1 : a[i] = s[i]
      <4>1. \A i \in 1 .. k - 1 : i \in 1 .. k - 1 - 1 + 1 /\ 1 + i - 1 = i
        BY <2>4
      <4> QED
        BY <3>2, <4>1
    <3>6. \A i \in 1 .. Len(s) - k : b[i] = s[k + i]
      <4>1. \A i \in 1 .. Len(s) - k : i \in 1 .. Len(s) - (k + 1) + 1 /\ k + 1 + i - 1 = k + i
        BY <2>4
      <4> QED
        BY <3>3, <4>1
    <3> QED
      BY <3>2, <3>3, <3>4, <3>5, <3>6
  <2>8. PICK t : t = a \o b
    OBVIOUS
  <2>9. /\ t \in Seq(S) /\ Len(t) = Len(s) - 1 /\ DOMAIN t = 1 .. Len(s) - 1
        /\ \A i \in 1 .. Len(s) - 1 : t[i] = IF i < k THEN s[i] ELSE s[i + 1]
    <3> HIDE DEF I
    <3>1. /\ t \in Seq(S) /\ Len(t) = Len(a) + Len(b)
          /\ \A i \in 1 .. Len(a) + Len(b) : t[i] = IF i <= Len(a) THEN a[i] ELSE b[i - Len(a)]
      BY <2>7, <2>8, ConcatProperties
    <3>2. Len(a) + Len(b) = Len(s) - 1
      BY <2>4, <2>7
    <3>3. \A i \in 1 .. Len(s) - 1 : t[i] = IF i <= k - 1 THEN a[i] ELSE b[i - (k - 1)]
      BY <2>7, <3>1, <3>2
    <3>4. ASSUME NEW i \in 1 .. Len(s) - 1
          PROVE  t[i] = IF i < k THEN s[i] ELSE s[i + 1]
      <4>1. CASE i < k
        <5>1. i \in 1 .. k - 1 /\ i <= k - 1
          BY <2>4, <4>1
        <5> QED
          BY <2>7, <3>3, <4>1, <5>1
      <4>2. CASE ~(i < k)
        <5>1. i - (k - 1) \in 1 .. Len(s) - k /\ ~(i <= k - 1) /\ k + (i - (k - 1)) = i + 1
          BY <2>4, <4>2
        <5>2. b[i - (k - 1)] = s[k + (i - (k - 1))]
          BY <2>7, <5>1
        <5> QED
          BY <3>3, <4>2, <5>1, <5>2
      <4> QED
        BY <4>1, <4>2
    <3>5. DOMAIN t = 1 .. Len(t)
      BY <3>1
    <3> QED
      BY <3>1, <3>2, <3>4, <3>5
  <2> HIDE DEF I
  <2>10. Alone(t)
    BY <2>4, <2>9 DEF Alone
  <2>11. ToSet(t) \subseteq ToSet(s) \ {e}
    BY <2>4, <2>9 DEF Alone, ToSet
  <2> QED
    BY <2>3, <2>5, <2>6, <2>8, <2>9, <2>10, <2>11
<1> QED
  BY <1>1, <1>2

(* unlisten takes a registration off the bus for good, *)
LEMMA UnlistenedDrops ==
    ASSUME BusTyped, \A i \in DOMAIN handlers : Distinct(handlers[i]), NEW r, NEW map, map = Unlistened(r)
    PROVE  /\ map \in Seq(MapRows)
           /\ \A i \in DOMAIN map : Distinct(map[i])
           /\ \A i \in DOMAIN map : \A q \in ToSet(map[i].of) : q \in Registrations /\ q # r
<1>1. /\ Len(handlers) \in Nat /\ DOMAIN handlers = 1 .. Len(handlers)
      /\ \A i \in DOMAIN handlers : handlers[i] \in MapRows
  BY DEF BusTyped
<1>2. /\ DOMAIN map = DOMAIN handlers
      /\ \A i \in DOMAIN handlers :
            map[i] = IF handlers[i].pattern = r.pattern
                     THEN [handlers[i] EXCEPT !.of = RemoveFirst(@, r)] ELSE handlers[i]
  BY DEF Unlistened
<1>3. ASSUME NEW i \in DOMAIN handlers
      PROVE  /\ map[i] \in MapRows /\ Distinct(map[i])
             /\ \A q \in ToSet(map[i].of) : q \in ToSet(handlers[i].of) /\ q # r
  <2>1. handlers[i] \in MapRows /\ Distinct(handlers[i])
    BY <1>1
  <2>2. CASE handlers[i].pattern = r.pattern
    <3>1. PICK of : of = RemoveFirst(handlers[i].of, r)
      OBVIOUS
    <3>2. handlers[i].of \in Seq(Registered) /\ Alone(handlers[i].of)
      BY <2>1 DEF MapRows, Distinct
    <3>3. of \in Seq(Registered) /\ Alone(of) /\ ToSet(of) \subseteq ToSet(handlers[i].of) \ {r}
      BY <3>1, <3>2, RemoveFirstDrops
    <3>4. map[i] = [handlers[i] EXCEPT !.of = of]
      BY <1>2, <2>2, <3>1
    <3>5. map[i] = [pattern |-> handlers[i].pattern, of |-> of]
      BY <2>1, <3>4 DEF MapRows
    <3> QED
      BY <2>1, <3>3, <3>5 DEF MapRows, Distinct
  <2>3. CASE handlers[i].pattern # r.pattern
    <3>1. map[i] = handlers[i]
      BY <1>2, <2>3
    <3> QED
      BY <2>1, <2>3, <3>1 DEF Distinct
  <2> QED
    BY <2>2, <2>3
<1>4. map \in Seq(MapRows)
  <2>1. map = [i \in 1 .. Len(handlers) |-> map[i]]
    BY <1>1, <1>2 DEF Unlistened
  <2> QED
    BY <1>1, <1>2, <1>3, <2>1
<1> QED
  BY <1>2, <1>3, <1>4 DEF Registrations

(* and listen puts one on it, at most once. *)
LEMMA EnlistedAdds ==
    ASSUME BusTyped, \A i \in DOMAIN handlers : Distinct(handlers[i]),
           NEW r, r.pattern \in eplan.patterns, NEW R, Registered \subseteq R, r \in R,
           NEW map, map = Enlisted(r)
    PROVE  /\ map \in Seq([pattern : eplan.patterns, of : Seq(R)])
           /\ \A i \in DOMAIN map : Distinct(map[i])
           /\ \A i \in DOMAIN map : \A q \in ToSet(map[i].of) : q \in Registrations \/ q = r
<1> DEFINE Wide == [pattern : eplan.patterns, of : Seq(R)]
<1>1. PICK there : there = GetHandlers(r.pattern)
  OBVIOUS
<1>2. /\ Len(handlers) \in Nat /\ DOMAIN handlers = 1 .. Len(handlers)
      /\ \A i \in DOMAIN handlers : handlers[i] \in MapRows
  BY DEF BusTyped
<1>3. Seq(Registered) \subseteq Seq(R)
  BY SeqMonotonic
<1>4. /\ there \in Seq(Wide)
      /\ \A i \in DOMAIN there :
             Distinct(there[i]) /\ \A q \in ToSet(there[i].of) : q \in Registrations
  <2>1. MapRows \subseteq Wide
    BY <1>3 DEF MapRows
  <2>2. handlers \in Seq(Wide)
    BY <2>1, SeqMonotonic DEF BusTyped
  <2>3. \A i \in DOMAIN handlers : \A q \in ToSet(handlers[i].of) : q \in Registrations
    BY DEF Registrations
  <2>4. CASE there = handlers
    BY <2>2, <2>3, <2>4
  <2>5. CASE there = Append(handlers, [pattern |-> r.pattern, of |-> <<>>])
    <3>1. PICK row : row = [pattern |-> r.pattern, of |-> <<>>]
      OBVIOUS
    <3>2. row \in Wide /\ row.of = <<>>
      BY <3>1
    <3>3. ToSet(row.of) = {} /\ Distinct(row)
      BY <3>2 DEF ToSet, Distinct, Alone
    <3>4. there = Append(handlers, row)
      BY <2>5, <3>1
    <3>5. /\ there \in Seq(Wide) /\ Len(there) = Len(handlers) + 1
          /\ there[Len(handlers) + 1] = row
          /\ \A i \in 1 .. Len(handlers) : there[i] = handlers[i]
      BY <2>2, <3>2, <3>4, AppendProperties
    <3>6. \A i \in DOMAIN there : i \in DOMAIN handlers \/ i = Len(handlers) + 1
      BY <1>2, <3>5
    <3> QED
      BY <1>2, <2>3, <3>3, <3>5, <3>6
  <2> QED
    BY <1>1, <2>4, <2>5 DEF GetHandlers
<1>5. /\ Len(there) \in Nat /\ DOMAIN there = 1 .. Len(there)
      /\ \A i \in DOMAIN there : there[i] \in Wide
  <2> HIDE DEF Wide
  <2>1. there \in Seq(Wide)
    BY <1>4, Zenon
  <2> QED
    BY <2>1
<1>6. /\ DOMAIN map = DOMAIN there
      /\ \A i \in DOMAIN there :
            map[i] = IF there[i].pattern = r.pattern /\ r \notin ToSet(there[i].of)
                     THEN [there[i] EXCEPT !.of = Append(@, r)] ELSE there[i]
  BY <1>1 DEF Enlisted
<1>7. ASSUME NEW i \in DOMAIN there
      PROVE  /\ map[i] \in Wide /\ Distinct(map[i])
             /\ \A q \in ToSet(map[i].of) : q \in ToSet(there[i].of) \/ q = r
  <2>1. CASE there[i].pattern = r.pattern /\ r \notin ToSet(there[i].of)
    <3>1. PICK of : of = Append(there[i].of, r)
      OBVIOUS
    <3>2. PICK was : was = there[i].of
      OBVIOUS
    <3>3. was \in Seq(R) /\ Alone(was) /\ r \notin ToSet(was)
      BY <1>4, <1>5, <2>1, <3>2 DEF Distinct
    <3>4. /\ of \in Seq(R) /\ Len(of) = Len(was) + 1 /\ of[Len(was) + 1] = r
          /\ \A j \in 1 .. Len(was) : of[j] = was[j]
      BY <3>1, <3>2, <3>3, AppendProperties
    <3>5. /\ Len(was) \in Nat /\ DOMAIN was = 1 .. Len(was) /\ DOMAIN of = 1 .. Len(was) + 1
          /\ \A j \in 1 .. Len(was) + 1 : j \in 1 .. Len(was) \/ j = Len(was) + 1
          /\ \A j \in 1 .. Len(was) : was[j] # r
      BY <3>3, <3>4 DEF ToSet
    <3>6. Alone(of)
      BY <3>3, <3>4, <3>5 DEF Alone
    <3>7. \A q \in ToSet(of) : q \in ToSet(was) \/ q = r
      BY <3>4, <3>5 DEF ToSet
    <3>8. map[i] = [pattern |-> there[i].pattern, of |-> of]
      BY <1>5, <1>6, <2>1, <3>1
    <3>9. \A q \in ToSet(was) : q.pattern = there[i].pattern
      BY <1>4, <3>2 DEF Distinct
    <3> QED
      BY <1>5, <2>1, <3>2, <3>4, <3>6, <3>7, <3>8, <3>9 DEF Distinct
  <2>2. CASE ~(there[i].pattern = r.pattern /\ r \notin ToSet(there[i].of))
    BY <1>4, <1>5, <1>6, <2>2
  <2> QED
    BY <2>1, <2>2
<1>8. map \in Seq(Wide)
  <2>1. map = [i \in 1 .. Len(there) |-> map[i]]
    BY <1>1, <1>5, <1>6 DEF Enlisted
  <2> QED
    BY <1>5, <1>6, <1>7, <2>1
<1> QED
  BY <1>4, <1>6, <1>7, <1>8

(* An emit takes registrations that are on the bus. *)
LEMMA MatchingTyped ==
    ASSUME BusTyped, NEW type
    PROVE  /\ GetMatchingHandlers(type) \in Seq(Registered)
           /\ ToSet(GetMatchingHandlers(type)) \subseteq Registrations
<1> DEFINE Of == [i \in DOMAIN handlers |->
                     IF MatchesPattern(type, handlers[i].pattern) THEN handlers[i].of ELSE <<>>]
           Present == Registrations \cap Registered
<1>1. /\ Len(handlers) \in Nat /\ DOMAIN handlers = 1 .. Len(handlers)
      /\ \A i \in DOMAIN handlers : handlers[i] \in MapRows
  BY DEF BusTyped
<1>2. \A i \in DOMAIN handlers : handlers[i].of \in Seq(Present)
  <2> SUFFICES ASSUME NEW i \in DOMAIN handlers
               PROVE  handlers[i].of \in Seq(Present)
    OBVIOUS
  <2>1. PICK of : of = handlers[i].of
    OBVIOUS
  <2>2. of \in Seq(Registered)
    BY <1>1, <2>1 DEF MapRows
  <2>3. \A j \in 1 .. Len(of) : of[j] \in Present
    BY <2>1, <2>2 DEF Registrations, ToSet
  <2> HIDE DEF Present
  <2> QED
    BY <2>1, <2>2, <2>3
<1> HIDE DEF Present
<1>3. <<>> \in Seq(Present)
  OBVIOUS
<1>4. Of \in Seq(Seq(Present))
  <2>1. \A i \in 1 .. Len(handlers) : Of[i] \in Seq(Present)
    BY <1>1, <1>2, <1>3
  <2>2. Of = [i \in 1 .. Len(handlers) |-> Of[i]]
    BY <1>1
  <2> HIDE DEF Of
  <2> QED
    BY <1>1, <2>1, <2>2
<1> HIDE DEF Of
<1>5. PICK all : all = FlattenSeq(Of)
  OBVIOUS
<1>6. all \in Seq(Present)
  BY <1>4, <1>5, FlattenSeqTyped
<1>7. GetMatchingHandlers(type) = all
  BY <1>5 DEF GetMatchingHandlers, Of
<1>8. all \in Seq(Registered) /\ ToSet(all) \subseteq Registrations
  BY <1>6 DEF ToSet, Present
<1> QED
  BY <1>7, <1>8

(* What is on the bus, and what an emit still has to call, is a registration. *)
LEMMA BusElements ==
    ASSUME BusTyped
    PROVE  /\ \A i \in DOMAIN handlers : \A q \in ToSet(handlers[i].of) : q \in Registered
           /\ \A i \in DOMAIN emitting : emitting[i].n \in 1 .. emits
           /\ \A i \in DOMAIN emitting : \A q \in ToSet(emitting[i].todo) : q \in Registered
           /\ \A q : Known(q) => q \in Registered
<1>1. \A i \in DOMAIN handlers : handlers[i] \in MapRows
  BY DEF BusTyped
<1>2. \A i \in DOMAIN emitting : emitting[i] \in Frames
  BY DEF BusTyped
<1>3. \A of \in Seq(Registered) : \A q \in ToSet(of) : q \in Registered
  BY DEF ToSet
<1>4. \A i \in DOMAIN handlers : handlers[i].of \in Seq(Registered)
  BY <1>1 DEF MapRows
<1>5. \A i \in DOMAIN emitting : emitting[i].todo \in Seq(Registered) /\ emitting[i].n \in 1 .. emits
  BY <1>2 DEF Frames
<1>6. \A i \in DOMAIN handlers : \A q \in ToSet(handlers[i].of) : q \in Registered
  BY <1>3, <1>4
<1>7. \A i \in DOMAIN emitting : \A q \in ToSet(emitting[i].todo) : q \in Registered
  BY <1>3, <1>5
<1> QED
  BY <1>5, <1>6, <1>7 DEF Known, Registrations

-----------------------------------------------------------------------------
(* A step that calls no once and makes none keeps the invariant. *)
LEMMA BusKept ==
    ASSUME BusInv, eplan' = eplan, onces' = onces, called' = called, spent' = spent,
           emits' \in {emits, emits + 1}, handlers' \in Seq(MapRows), emitting' \in Seq(Frames'),
           \A i \in DOMAIN handlers' : Distinct(handlers'[i]),
           \A i \in DOMAIN handlers' : \A q \in ToSet(handlers'[i].of) :
               q \in Registrations \/ q.once = 0,
           \A i \in DOMAIN emitting' : \A q \in ToSet(emitting'[i].todo) :
               \/ q \in Registrations
               \/ \E l \in DOMAIN emitting :
                      emitting[l].n = emitting'[i].n /\ q \in ToSet(emitting[l].todo)
    PROVE  BusInv'
<1>1. Registered' = Registered /\ MapRows' = MapRows
  BY DEF Registered, MapRows
<1>2. BusTyped'
  BY <1>1 DEF BusInv, BusTyped
<1>3. \A i \in DOMAIN handlers' : Distinct(handlers[i])'
  BY DEF Distinct, Alone
<1>4. \A q \in Registrations' : q \in Registrations \/ q.once = 0
  BY DEF Registrations
<1>5. \A q : Known(q)' => Known(q) \/ q.once = 0
  BY <1>4 DEF Known
<1>6. OnceIsOne'
  BY <1>5 DEF BusInv, OnceIsOne
<1>7. ASSUME NEW n \in 1 .. onces
      PROVE  Spent(n)'
  <2>1. Spent(n) /\ n # 0
    BY <1>7 DEF BusInv, BusTyped
  <2>2. CASE spent[n] = 0
    BY <2>1, <2>2 DEF Spent
  <2>3. CASE spent[n] # 0
    <3>1. /\ \A e \in called[n] : e <= spent[n]
          /\ \A r \in Registrations : r.once # n
          /\ \A i \in DOMAIN emitting : \A r \in ToSet(emitting[i].todo) :
                 r.once = n => emitting[i].n <= spent[n]
      BY <2>1, <2>3 DEF Spent
    <3>2. \A r \in Registrations' : r.once # n
      BY <1>4, <2>1, <3>1
    <3>3. \A i \in DOMAIN emitting' : \A r \in ToSet(emitting'[i].todo) :
              r.once = n => emitting'[i].n <= spent[n]
      BY <3>1
    <3> QED
      BY <2>3, <3>1, <3>2, <3>3 DEF Spent
  <2> QED
    BY <2>2, <2>3
<1> QED
  BY <1>2, <1>3, <1>6, <1>7 DEF BusInv

(* The frames below the top one, and the top one with less to do. *)
LEMMA TopTyped ==
    ASSUME BusTyped, emitting # <<>>
    PROVE  /\ Len(emitting) \in Nat /\ Len(emitting) \in DOMAIN emitting
           /\ emitting[Len(emitting)] = Top /\ Top \in Frames
           /\ Below \in Seq(Frames) /\ DOMAIN Below = 1 .. Len(emitting) - 1
           /\ \A i \in 1 .. Len(emitting) - 1 : Below[i] = emitting[i] /\ i \in DOMAIN emitting
<1> HIDE DEF Frames
<1>1. /\ emitting \in Seq(Frames) /\ Len(emitting) \in Nat /\ Len(emitting) # 0
      /\ DOMAIN emitting = 1 .. Len(emitting)
  BY DEF BusTyped
<1>2. \A i \in 1 .. Len(emitting) : emitting[i] \in Frames
  BY <1>1
<1>3. 1 \in Int /\ Len(emitting) - 1 \in Int /\ \A i \in 1 .. Len(emitting) - 1 : emitting[i] \in Frames
  BY <1>1, <1>2
<1>4. PICK below : below = Below
  OBVIOUS
<1>5. /\ below \in Seq(Frames)
      /\ Len(below) = IF 1 <= Len(emitting) - 1 THEN Len(emitting) - 1 - 1 + 1 ELSE 0
      /\ \A i \in 1 .. Len(emitting) - 1 - 1 + 1 : below[i] = emitting[1 + i - 1]
  BY <1>3, <1>4, SubSeqProperties DEF Below
<1>6. Len(below) = Len(emitting) - 1
  <2>1. Len(below) = IF 1 <= Len(emitting) - 1 THEN Len(emitting) - 1 - 1 + 1 ELSE 0
    BY <1>5, Zenon
  <2>2. Len(emitting) \in Nat /\ Len(emitting) # 0
    BY <1>1, Zenon
  <2>3. PICK l : l = Len(emitting)
    OBVIOUS
  <2>4. PICK m : m = Len(below)
    OBVIOUS
  <2>5. l \in Nat /\ l # 0 /\ m = IF 1 <= l - 1 THEN l - 1 - 1 + 1 ELSE 0
    BY <2>1, <2>2, <2>3, <2>4
  <2>6. m = l - 1
    BY <2>5
  <2> QED
    BY <2>3, <2>4, <2>6
<1>7. DOMAIN below = 1 .. Len(below)
  BY <1>5
<1>8. \A i \in 1 .. Len(emitting) - 1 : below[i] = emitting[i]
  <2>1. \A i \in 1 .. Len(emitting) - 1 : i \in 1 .. Len(emitting) - 1 - 1 + 1 /\ 1 + i - 1 = i
    BY <1>1
  <2> QED
    BY <1>5, <2>1
<1>9. Len(emitting) \in Nat /\ Len(emitting) \in 1 .. Len(emitting)
  <2>1. Len(emitting) \in Nat /\ Len(emitting) # 0
    BY <1>1, Zenon
  <2> QED
    BY <2>1
<1>10. \A i \in 1 .. Len(emitting) - 1 : i \in 1 .. Len(emitting)
  BY <1>9
<1>11. emitting[Len(emitting)] = Top
  BY DEF Top
<1>12. Top \in Frames
  BY <1>2, <1>9, <1>11
<1>13. below \in Seq(Frames) /\ DOMAIN emitting = 1 .. Len(emitting)
  BY <1>1, <1>5, Zenon
<1>14. DOMAIN below = 1 .. Len(emitting) - 1
  BY <1>6, <1>7
<1> QED
  BY <1>4, <1>8, <1>9, <1>10, <1>11, <1>12, <1>13, <1>14, Zenon
(* The emit at the top goes on, and the others wait. *)
LEMMA RetoppedTyped ==
    ASSUME BusTyped, emitting # <<>>, NEW frame \in Frames, NEW fs, fs = Retopped(frame)
    PROVE  /\ fs \in Seq(Frames) /\ DOMAIN fs = DOMAIN emitting
           /\ \A i \in DOMAIN fs :
                  IF i = Len(emitting) THEN fs[i] = frame ELSE fs[i] = emitting[i]
<1> HIDE DEF Frames
<1>1. PICK below : below = Below
  OBVIOUS
<1>2. /\ Len(emitting) \in Nat /\ Len(emitting) \in DOMAIN emitting
      /\ below \in Seq(Frames) /\ DOMAIN below = 1 .. Len(emitting) - 1
      /\ \A i \in 1 .. Len(emitting) - 1 : below[i] = emitting[i]
  BY <1>1, TopTyped
<1>3. emitting \in Seq(Frames) /\ DOMAIN emitting = 1 .. Len(emitting)
  BY DEF BusTyped
<1>4. Len(below) = Len(emitting) - 1
  <2>1. below \in Seq(Frames) /\ DOMAIN below = 1 .. Len(emitting) - 1
    BY <1>2, Zenon
  <2>2. Len(below) \in Nat /\ DOMAIN below = 1 .. Len(below)
    BY <2>1
  <2>3. Len(emitting) - 1 \in Nat
    <3>1. Len(emitting) \in Nat /\ Len(emitting) \in 1 .. Len(emitting)
      BY <1>2, <1>3, Zenon
    <3> QED
      BY <3>1
  <2> QED
    BY <2>1, <2>2, <2>3
<1>5. /\ fs \in Seq(Frames) /\ Len(fs) = Len(below) + 1 /\ fs[Len(below) + 1] = frame
      /\ \A i \in 1 .. Len(below) : fs[i] = below[i]
  BY <1>1, <1>2, AppendProperties DEF Retopped
<1>6. DOMAIN fs = 1 .. Len(emitting)
  BY <1>2, <1>4, <1>5
<1>7. ASSUME NEW i \in 1 .. Len(emitting)
      PROVE  IF i = Len(emitting) THEN fs[i] = frame ELSE fs[i] = emitting[i]
  <2>1. CASE i = Len(emitting)
    BY <1>2, <1>4, <1>5, <2>1
  <2>2. CASE i # Len(emitting)
    <3>1. i \in 1 .. Len(emitting) - 1
      BY <1>2, <2>2
    <3> QED
      BY <1>2, <1>4, <1>5, <2>2, <3>1
  <2> QED
    BY <2>1, <2>2
<1> QED
  BY <1>3, <1>5, <1>6, <1>7

(* A handler returns or throws, an emit returns. *)
LEMMA BusMovesKeep ==
    ASSUME BusInv, BusMoves
    PROVE  BusInv'
<1>1. /\ eplan' = eplan /\ onces' = onces /\ called' = called /\ spent' = spent
      /\ emits' = emits /\ handlers' = handlers /\ emitting # <<>>
      /\ emitting' = Below \/ emitting' = Retopped([Top EXCEPT !.in = NoHandler])
  BY DEF BusMoves, HandlerDone, HandlerFails, EmitReturns, eventGhosts
<1>2. BusTyped /\ Frames' = Frames
  BY <1>1 DEF BusInv, Frames, Registered
<1>3. /\ emitting' \in Seq(Frames)
      /\ \A i \in DOMAIN emitting' : i \in DOMAIN emitting
             /\ emitting'[i].n = emitting[i].n /\ emitting'[i].todo = emitting[i].todo
  <2>1. PICK fs : fs = emitting'
    OBVIOUS
  <2>2. CASE fs = Below
    BY <1>1, <1>2, <2>1, <2>2, TopTyped
  <2>3. CASE fs = Retopped([Top EXCEPT !.in = NoHandler])
    <3>1. PICK frame : frame = [Top EXCEPT !.in = NoHandler]
      OBVIOUS
    <3>2. Top \in Frames /\ emitting[Len(emitting)] = Top
      BY <1>1, <1>2, TopTyped
    <3>3. frame \in Frames /\ frame.n = Top.n /\ frame.todo = Top.todo
      BY <3>1, <3>2 DEF Frames
    <3>4. fs = Retopped(frame) /\ BusTyped /\ emitting # <<>> /\ frame \in Frames
      BY <1>1, <1>2, <2>3, <3>1, <3>3
    <3>5. /\ fs \in Seq(Frames) /\ DOMAIN fs = DOMAIN emitting
          /\ \A i \in DOMAIN fs :
                 IF i = Len(emitting) THEN fs[i] = frame ELSE fs[i] = emitting[i]
      BY <3>4, RetoppedTyped, Zenon
    <3>6. ASSUME NEW i \in DOMAIN fs
          PROVE  fs[i].n = emitting[i].n /\ fs[i].todo = emitting[i].todo
      BY <3>2, <3>3, <3>5
    <3> QED
      BY <2>1, <3>5, <3>6
  <2> QED
    BY <1>1, <2>1, <2>2, <2>3
<1>4. handlers' \in Seq(MapRows) /\ \A i \in DOMAIN handlers' : Distinct(handlers'[i])
  BY <1>1 DEF BusInv, BusTyped
<1>5. \A i \in DOMAIN handlers' : \A q \in ToSet(handlers'[i].of) : q \in Registrations
  BY <1>1 DEF Registrations
<1> QED
  BY <1>1, <1>2, <1>3, <1>4, <1>5, BusKept

(* An emit begins. *)
LEMMA EmitKeeps ==
    ASSUME BusInv, NEW type, Emit(type), UNCHANGED eventGhosts, eplan' = eplan
    PROVE  BusInv'
<1>1. /\ onces' = onces /\ called' = called /\ spent' = spent
      /\ emits' = emits + 1 /\ handlers' = handlers
  BY DEF Emit, eventGhosts
<1>2. /\ BusTyped /\ emits \in Nat /\ emitting \in Seq(Frames)
      /\ Len(emitting) \in Nat /\ DOMAIN emitting = 1 .. Len(emitting)
  BY DEF BusInv, BusTyped
<1>3. Registered' = Registered
  BY <1>1 DEF Registered
<1>4. Frames \subseteq Frames'
  BY <1>1, <1>2, <1>3 DEF Frames
<1>5. emitting \in Seq(Frames')
  BY <1>2, <1>4, SeqMonotonic
<1>6. PICK todo : todo = GetMatchingHandlers(type)
  OBVIOUS
<1>7. todo \in Seq(Registered) /\ ToSet(todo) \subseteq Registrations
  BY <1>2, <1>6, MatchingTyped
<1>8. PICK frame : frame = [todo |-> todo, in |-> NoHandler, n |-> emits + 1]
  OBVIOUS
<1>9. frame \in Frames' /\ frame.todo = todo
  BY <1>1, <1>2, <1>3, <1>7, <1>8 DEF Frames
<1>10. /\ emitting' \in Seq(Frames')
       /\ \A i \in DOMAIN emitting' : \A q \in ToSet(emitting'[i].todo) :
               \/ q \in Registrations
               \/ \E l \in DOMAIN emitting :
                      emitting[l].n = emitting'[i].n /\ q \in ToSet(emitting[l].todo)
  <2>1. PICK fs : fs = emitting'
    OBVIOUS
  <2>2. PICK F : F = Frames'
    OBVIOUS
  <2>3. CASE fs = emitting
    BY <1>5, <2>1, <2>3
  <2>4. CASE fs = Append(emitting, frame)
    <3>1. /\ fs \in Seq(F) /\ Len(fs) = Len(emitting) + 1 /\ fs[Len(emitting) + 1] = frame
          /\ \A i \in 1 .. Len(emitting) : fs[i] = emitting[i]
      BY <1>5, <1>9, <2>2, <2>4, AppendProperties
    <3>2. \A i \in DOMAIN fs : i \in DOMAIN emitting \/ i = Len(emitting) + 1
      BY <1>2, <3>1
    <3>3. \A i \in DOMAIN fs : \A q \in ToSet(fs[i].todo) :
               \/ q \in Registrations
               \/ \E l \in DOMAIN emitting :
                      emitting[l].n = fs[i].n /\ q \in ToSet(emitting[l].todo)
      BY <1>2, <1>7, <1>9, <3>1, <3>2
    <3> QED
      BY <2>1, <2>2, <3>1, <3>3
  <2>5. fs = emitting \/ fs = Append(emitting, frame)
    BY <1>6, <1>8, <2>1 DEF Emit
  <2> QED
    BY <2>3, <2>4, <2>5
<1>11. handlers' \in Seq(MapRows) /\ \A i \in DOMAIN handlers' : Distinct(handlers'[i])
  BY <1>1 DEF BusInv, BusTyped
<1>12. \A i \in DOMAIN handlers' : \A q \in ToSet(handlers'[i].of) : q \in Registrations
  BY <1>1 DEF Registrations
<1> QED
  BY <1>1, <1>10, <1>11, <1>12, BusKept

(* listen and unlisten. *)
LEMMA ListensKeep ==
    ASSUME BusInv, UNCHANGED eventGhosts, eplan' = eplan,
           \/ \E p \in eplan.patterns, h \in Handlers : Listen(p, h)
           \/ \E r \in Registrations : Unlisten(r)
    PROVE  BusInv'
<1>1. /\ onces' = onces /\ called' = called /\ spent' = spent
      /\ emits' = emits /\ emitting' = emitting
  BY DEF Listen, Unlisten, eventGhosts
<1>2. BusTyped /\ onces \in Nat /\ \A i \in DOMAIN handlers : Distinct(handlers[i])
  BY DEF BusInv, BusTyped
<1>3. emitting' \in Seq(Frames')
  BY <1>1 DEF BusInv, BusTyped, Frames, Registered
<1>4. PICK map : map = handlers'
  OBVIOUS
<1>5. /\ map \in Seq(MapRows) /\ \A i \in DOMAIN map : Distinct(map[i])
      /\ \A i \in DOMAIN map : \A q \in ToSet(map[i].of) : q \in Registrations \/ q.once = 0
  <2>1. CASE \E p \in eplan.patterns, h \in Handlers : Listen(p, h)
    <3>1. PICK p \in eplan.patterns, h \in Handlers : Listen(p, h)
      BY <2>1
    <3>2. PICK r : r = [pattern |-> p, handler |-> h, once |-> 0]
      OBVIOUS
    <3>3. r \in Registered /\ r.pattern \in eplan.patterns /\ r.once = 0
      BY <1>2, <3>2 DEF Registered
    <3>4. map = Enlisted(r)
      BY <1>4, <3>1, <3>2 DEF Listen
    <3>5. /\ map \in Seq([pattern : eplan.patterns, of : Seq(Registered)])
          /\ \A i \in DOMAIN map : Distinct(map[i])
          /\ \A i \in DOMAIN map : \A q \in ToSet(map[i].of) : q \in Registrations \/ q = r
      <4>1. Registered \subseteq Registered
        OBVIOUS
      <4> QED
        BY <1>2, <3>3, <3>4, <4>1, EnlistedAdds, Zenon
    <3> QED
      BY <3>3, <3>5 DEF MapRows
  <2>2. CASE \E r \in Registrations : Unlisten(r)
    <3>1. PICK r : map = Unlistened(r)
      BY <1>4, <2>2 DEF Unlisten
    <3> QED
      BY <1>2, <3>1, UnlistenedDrops
  <2> QED
    BY <2>1, <2>2
<1> QED
  BY <1>1, <1>3, <1>4, <1>5, BusKept

(* A once is a function of its own, which nothing has called. *)
LEMMA ListenOnceKeeps ==
    ASSUME BusInv, eplan' = eplan, NEW p \in eplan.patterns, NEW h \in Handlers,
           ListenOnce(p, h, onces + 1), onces' = onces + 1,
           called' = Append(called, {}), spent' = Append(spent, 0)
    PROVE  BusInv'
<1>1. emits' = emits /\ emitting' = emitting
  BY DEF ListenOnce
<1>2. BusTyped /\ onces \in Nat /\ \A i \in DOMAIN handlers : Distinct(handlers[i])
  BY DEF BusInv, BusTyped
<1>3. PICK r : r = [pattern |-> p, handler |-> h, once |-> onces + 1]
  OBVIOUS
<1>4. /\ Registered \subseteq Registered' /\ r \in Registered'
      /\ r.pattern \in eplan.patterns /\ r.once = onces + 1
  BY <1>2, <1>3 DEF Registered
<1>5. PICK map : map = handlers'
  OBVIOUS
<1>6. /\ map \in Seq([pattern : eplan.patterns, of : Seq(Registered')])
      /\ \A i \in DOMAIN map : Distinct(map[i])
      /\ \A i \in DOMAIN map : \A q \in ToSet(map[i].of) : q \in Registrations \/ q = r
  <2>1. PICK R : R = Registered'
    OBVIOUS
  <2>2. Registered \subseteq R /\ r \in R
    BY <1>4, <2>1
  <2>3. map = Enlisted(r)
    BY <1>3, <1>5 DEF ListenOnce
  <2>4. /\ map \in Seq([pattern : eplan.patterns, of : Seq(R)])
        /\ \A i \in DOMAIN map : Distinct(map[i])
        /\ \A i \in DOMAIN map : \A q \in ToSet(map[i].of) : q \in Registrations \/ q = r
    BY <1>2, <1>4, <2>2, <2>3, EnlistedAdds, Zenon
  <2> QED
    BY <2>1, <2>4
<1>7. handlers' \in Seq(MapRows') /\ \A i \in DOMAIN handlers' : Distinct(handlers[i])'
  BY <1>5, <1>6 DEF MapRows, Distinct, Alone
<1>8. emitting' \in Seq(Frames')
  <2>1. Seq(Registered) \subseteq Seq(Registered')
    BY <1>4, SeqMonotonic
  <2>2. Frames \subseteq Frames'
    BY <1>1, <1>4, <2>1 DEF Frames
  <2> QED
    BY <1>1, <1>2, <2>2, SeqMonotonic DEF BusTyped
<1>9. /\ called \in Seq(SUBSET Nat) /\ Len(called) = onces
      /\ spent \in Seq(Nat) /\ Len(spent) = onces
  BY <1>2 DEF BusTyped
<1>10. /\ called' \in Seq(SUBSET Nat) /\ Len(called') = onces + 1 /\ called'[onces + 1] = {}
       /\ \A n \in 1 .. onces : called'[n] = called[n]
  <2>1. PICK more : more = called'
    OBVIOUS
  <2>2. /\ more \in Seq(SUBSET Nat) /\ Len(more) = Len(called) + 1 /\ more[Len(called) + 1] = {}
        /\ \A n \in 1 .. Len(called) : more[n] = called[n]
    BY <1>9, <2>1, AppendProperties
  <2> QED
    BY <1>9, <2>1, <2>2
<1>11. /\ spent' \in Seq(Nat) /\ Len(spent') = onces + 1 /\ spent'[onces + 1] = 0
       /\ \A n \in 1 .. onces : spent'[n] = spent[n]
  <2>1. PICK more : more = spent'
    OBVIOUS
  <2>2. /\ more \in Seq(Nat) /\ Len(more) = Len(spent) + 1 /\ more[Len(spent) + 1] = 0
        /\ \A n \in 1 .. Len(spent) : more[n] = spent[n]
    BY <1>9, <2>1, AppendProperties
  <2> QED
    BY <1>9, <2>1, <2>2
<1>12. called' \in [1 .. onces' -> SUBSET Nat] /\ spent' \in [1 .. onces' -> Nat]
  <2>1. PICK more : more = called'
    OBVIOUS
  <2>2. PICK other : other = spent'
    OBVIOUS
  <2>3. /\ more \in Seq(SUBSET Nat) /\ Len(more) = onces + 1
        /\ other \in Seq(Nat) /\ Len(other) = onces + 1
    BY <1>10, <1>11, <2>1, <2>2, Zenon
  <2>4. more \in [1 .. onces + 1 -> SUBSET Nat] /\ other \in [1 .. onces + 1 -> Nat]
    BY <2>3
  <2> QED
    BY <2>1, <2>2, <2>4
<1>13. BusTyped'
  BY <1>1, <1>2, <1>7, <1>8, <1>10, <1>11, <1>12 DEF BusTyped
<1>14. \A q \in Registrations' : q \in Registrations \/ q = r
  BY <1>5, <1>6 DEF Registrations
<1>15. \A q : Known(q)' => Known(q) \/ q = r
  BY <1>1, <1>14 DEF Known
<1>16. \A q : Known(q) => q.once \in 0 .. onces
  BY <1>2, BusElements DEF Registered
<1>17. OnceIsOne'
  <2>1. \A q : Known(q) => q.once # onces + 1
    BY <1>2, <1>16
  <2> QED
    BY <1>4, <1>15, <2>1 DEF BusInv, OnceIsOne
<1>18. ASSUME NEW n \in 1 .. onces'
       PROVE  Spent(n)'
  <2>1. CASE n = onces + 1
    BY <1>10, <1>11, <2>1 DEF Spent
  <2>2. CASE n # onces + 1
    <3>1. n \in 1 .. onces /\ n # onces + 1
      BY <1>2, <2>2
    <3>2. Spent(n) /\ called'[n] = called[n] /\ spent'[n] = spent[n]
      BY <1>10, <1>11, <3>1 DEF BusInv
    <3>3. (\A q \in Registrations : q.once # n) => \A q \in Registrations' : q.once # n
      BY <1>4, <1>14, <3>1
    <3> QED
      BY <1>1, <3>2, <3>3 DEF Spent
  <2> QED
    BY <2>1, <2>2
<1> QED
  BY <1>7, <1>13, <1>17, <1>18 DEF BusInv

(* The emit at the top calls its next handler: a once is off the bus from then on,
   and only emits that have begun still have it. *)
LEMMA BusCallsKeep ==
    ASSUME BusInv, BusCalls
    PROVE  BusInv'
<1>1. /\ eplan' = eplan /\ onces' = onces /\ emits' = emits
      /\ emitting # <<>> /\ Top.todo # <<>>
  BY DEF BusCalls, CallsHandler
<1>2. BusTyped /\ onces \in Nat /\ emits \in Nat /\ \A i \in DOMAIN handlers : Distinct(handlers[i])
  BY DEF BusInv, BusTyped
<1>3. /\ Len(emitting) \in DOMAIN emitting /\ emitting[Len(emitting)] = Top /\ Top \in Frames
  BY <1>1, <1>2, TopTyped
<1>4. PICK todo : todo = Top.todo
  OBVIOUS
<1>5. PICK r : r = Head(todo)
  OBVIOUS
<1>6. PICK n : n = r.once
  OBVIOUS
<1>7. todo \in Seq(Registered) /\ todo # <<>> /\ Top.n \in 1 .. emits
  BY <1>1, <1>3, <1>4 DEF Frames
<1>8. r \in Registered /\ r \in ToSet(todo) /\ Tail(todo) \in Seq(Registered)
      /\ ToSet(Tail(todo)) \subseteq ToSet(todo)
  BY <1>5, <1>7 DEF ToSet
<1>9. n \in 0 .. onces /\ Known(r)
  BY <1>3, <1>4, <1>6, <1>8 DEF Registered, Known
<1>10. /\ handlers' = IF n # 0 THEN Unlistened(r) ELSE handlers
       /\ called' = IF n = 0 THEN called ELSE [called EXCEPT ![n] = @ \cup {Top.n}]
       /\ spent' = IF n = 0 \/ spent[n] # 0 THEN spent ELSE [spent EXCEPT ![n] = emits]
       /\ emitting' = Retopped([Top EXCEPT !.in = r, !.todo = Tail(@)])
  BY <1>4, <1>5, <1>6 DEF BusCalls, CallsHandler
<1>11. /\ emitting' \in Seq(Frames)
       /\ DOMAIN emitting' = DOMAIN emitting
       /\ \A i \in DOMAIN emitting' :
             emitting'[i].n = emitting[i].n /\ ToSet(emitting'[i].todo) \subseteq ToSet(emitting[i].todo)
  <2>1. PICK fs : fs = emitting'
    OBVIOUS
  <2>2. PICK frame : frame = [Top EXCEPT !.in = r, !.todo = Tail(@)]
    OBVIOUS
  <2>3. frame \in Frames /\ frame.n = Top.n /\ frame.todo = Tail(todo)
    BY <1>3, <1>4, <1>8, <2>2 DEF Frames
  <2>4. fs = Retopped(frame)
    BY <1>10, <2>1, <2>2
  <2>5. /\ fs \in Seq(Frames) /\ DOMAIN fs = DOMAIN emitting
        /\ \A i \in DOMAIN fs :
               IF i = Len(emitting) THEN fs[i] = frame ELSE fs[i] = emitting[i]
    BY <1>1, <1>2, <2>3, <2>4, RetoppedTyped, Zenon
  <2>6. ASSUME NEW i \in DOMAIN fs
        PROVE  fs[i].n = emitting[i].n /\ ToSet(fs[i].todo) \subseteq ToSet(emitting[i].todo)
    BY <1>3, <1>4, <1>8, <2>3, <2>5
  <2> QED
    BY <2>1, <2>5, <2>6
<1>12. PICK map : map = handlers'
  OBVIOUS
<1>13. /\ map \in Seq(MapRows) /\ \A i \in DOMAIN map : Distinct(map[i])
       /\ \A i \in DOMAIN map : \A q \in ToSet(map[i].of) :
              q \in Registrations /\ (n # 0 => q # r)
  <2>1. CASE n = 0
    <3>1. map = handlers
      BY <1>10, <1>12, <2>1
    <3> QED
      BY <1>2, <2>1, <3>1 DEF BusTyped, Registrations
  <2>2. CASE n # 0
    <3>1. map = Unlistened(r)
      BY <1>10, <1>12, <2>2
    <3> QED
      BY <1>2, <3>1, UnlistenedDrops
  <2> QED
    BY <2>1, <2>2
<1>14. Registered' = Registered /\ MapRows' = MapRows /\ Frames' = Frames
  BY <1>1 DEF Registered, MapRows, Frames
<1>15. \A q \in Registrations' : q \in Registrations /\ (n # 0 => q # r)
  BY <1>12, <1>13 DEF Registrations
<1>16. \A q : Known(q)' => Known(q)
  BY <1>11, <1>15 DEF Known
<1>17. OnceIsOne'
  BY <1>16 DEF BusInv, OnceIsOne
<1>18. \A i \in DOMAIN handlers' : Distinct(handlers[i])'
  BY <1>12, <1>13 DEF Distinct, Alone
<1>19. /\ called \in [1 .. onces -> SUBSET Nat] /\ spent \in [1 .. onces -> Nat]
       /\ called \in Seq(SUBSET Nat) /\ Len(called) = onces
       /\ spent \in Seq(Nat) /\ Len(spent) = onces
  BY <1>2 DEF BusTyped
<1>20. Top.n \in Nat /\ Top.n <= emits /\ emits # 0
  BY <1>2, <1>7
<1>21. /\ called' \in [1 .. onces -> SUBSET Nat] /\ spent' \in [1 .. onces -> Nat]
       /\ \A m \in 1 .. onces : called'[m] = IF m = n THEN called[m] \cup {Top.n} ELSE called[m]
       /\ \A m \in 1 .. onces :
              spent'[m] = IF m = n /\ spent[m] = 0 THEN emits ELSE spent[m]
  <2>1. CASE n = 0
    <3>1. called' = called /\ spent' = spent /\ \A m \in 1 .. onces : m # n
      BY <1>10, <2>1
    <3> QED
      BY <1>19, <3>1
  <2>2. CASE n # 0
    <3>1. n \in 1 .. onces
      BY <1>2, <1>9, <2>2
    <3>2. called' = [called EXCEPT ![n] = called[n] \cup {Top.n}]
      BY <1>10, <2>2
    <3>3. spent' = IF spent[n] # 0 THEN spent ELSE [spent EXCEPT ![n] = emits]
      BY <1>10, <2>2
    <3> QED
      BY <1>2, <1>19, <1>20, <3>1, <3>2, <3>3
  <2> QED
    BY <2>1, <2>2
<1>22. /\ called' \in Seq(SUBSET Nat) /\ Len(called') = onces
       /\ spent' \in Seq(Nat) /\ Len(spent') = onces
  <2>1. PICK now : now = called'
    OBVIOUS
  <2>2. PICK then : then = spent'
    OBVIOUS
  <2>3. /\ now \in [1 .. onces -> SUBSET Nat] /\ then \in [1 .. onces -> Nat]
    BY <1>21, <2>1, <2>2
  <2> QED
    BY <1>2, <2>1, <2>2, <2>3
<1>23. BusTyped'
  BY <1>1, <1>2, <1>11, <1>12, <1>13, <1>14, <1>21, <1>22 DEF BusTyped
<1>24. ASSUME NEW m \in 1 .. onces
       PROVE  Spent(m)'
  <2>1. Spent(m) /\ spent[m] \in Nat /\ m # 0
    BY <1>2, <1>19 DEF BusInv
  <2>2. /\ called'[m] = IF m = n THEN called[m] \cup {Top.n} ELSE called[m]
        /\ spent'[m] = IF m = n /\ spent[m] = 0 THEN emits ELSE spent[m]
    BY <1>21
  <2>3. \A i \in DOMAIN emitting' : \A q \in ToSet(emitting'[i].todo) :
            q \in ToSet(emitting[i].todo) /\ emitting'[i].n = emitting[i].n /\ i \in DOMAIN emitting
    BY <1>11
  <2>4. CASE spent[m] # 0
    <3>1. /\ \A e \in called[m] : e <= spent[m]
          /\ \A q \in Registrations : q.once # m
          /\ \A i \in DOMAIN emitting : \A q \in ToSet(emitting[i].todo) :
                 q.once = m => emitting[i].n <= spent[m]
      BY <2>1, <2>4 DEF Spent
    <3>2. \A e \in called'[m] : e <= spent[m]
      <4>1. m = n => Top.n <= spent[m]
        BY <1>3, <1>4, <1>6, <1>8, <3>1
      <4> QED
        BY <2>2, <3>1, <4>1
    <3>3. \A q \in Registrations' : q.once # m
      BY <1>15, <3>1
    <3>4. \A i \in DOMAIN emitting' : \A q \in ToSet(emitting'[i].todo) :
              q.once = m => emitting'[i].n <= spent[m]
      BY <2>3, <3>1
    <3>5. spent'[m] = spent[m]
      BY <2>2, <2>4
    <3> QED
      BY <2>4, <3>2, <3>3, <3>4, <3>5 DEF Spent
  <2>5. CASE spent[m] = 0 /\ m # n
    <3>1. called[m] = {}
      BY <2>1, <2>5 DEF Spent
    <3> QED
      BY <2>2, <2>5, <3>1 DEF Spent
  <2>6. CASE spent[m] = 0 /\ m = n
    <3>1. called[m] = {}
      BY <2>1, <2>6 DEF Spent
    <3>2. spent'[m] = emits /\ called'[m] = {Top.n}
      BY <2>2, <2>6, <3>1
    <3>3. \A q \in Registrations' : q.once # m
      <4>1. \A q \in Registrations : q.once = m => q = r
        BY <1>6, <1>9, <2>1, <2>6 DEF BusInv, OnceIsOne, Known
      <4> QED
        BY <1>15, <2>1, <2>6, <4>1
    <3>4. \A i \in DOMAIN emitting' : emitting'[i].n <= emits
      <4>1. \A i \in DOMAIN emitting : emitting[i].n \in 1 .. emits
        BY <1>2, BusElements
      <4> QED
        BY <1>2, <1>11, <4>1
    <3> QED
      BY <1>20, <3>2, <3>3, <3>4 DEF Spent
  <2> QED
    BY <2>4, <2>5, <2>6
<1> QED
  BY <1>1, <1>17, <1>18, <1>23, <1>24 DEF BusInv

(* For any program that listens, emits and unlistens, in its handlers too, over
   any patterns and as often as it likes: a handler of listenOnce that has been
   called is called by no emit that begins later
   (createPrimitiveEventBus, packages/event/src/primitive.ts). *)
THEOREM OncesStaySpent == EventsSpec => []OnceSpent
<1>1. EventsInit => EventsInv
  BY DEF EventsInit, EventsInv
<1>2. EventsInv /\ [EventsNext]_eventClientVars => EventsInv'
  <2> SUFFICES ASSUME EventsInv, [EventsNext]_eventClientVars
               PROVE  EventsInv'
    OBVIOUS
  <2>1. CASE UNCHANGED eventClientVars
    <3>1. /\ handlers' = handlers /\ emitting' = emitting /\ onces' = onces /\ emits' = emits
          /\ called' = called /\ spent' = spent /\ eplan' = eplan
      BY <2>1 DEF eventClientVars, busVars, eventGhosts
    <3>2. ASSUME BusInv
          PROVE  BusInv'
      <4>1. Frames' = Frames
        BY <3>1 DEF Frames, Registered
      <4>2. /\ handlers \in Seq(MapRows) /\ emitting \in Seq(Frames)
            /\ \A i \in DOMAIN handlers : Distinct(handlers[i])
        BY <3>2 DEF BusInv, BusTyped
      <4> QED
        BY <3>1, <3>2, <4>1, <4>2, BusKept DEF Registrations
    <3> QED
      BY <3>1, <3>2 DEF EventsInv
  <2>2. CASE EventsDeploy
    <3>1. /\ handlers' = <<>> /\ emitting' = <<>> /\ onces' = 0 /\ emits' = 0
          /\ called' = <<>> /\ spent' = <<>>
      BY <2>2 DEF EventsDeploy, EventsInv, eventGhosts
    <3>2. BusTyped'
      BY <3>1 DEF BusTyped
    <3>3. (\A i \in DOMAIN handlers : Distinct(handlers[i]))' /\ \A q : ~Known(q)'
      BY <3>1 DEF Known, Registrations
    <3>4. BusInv'
      BY <3>1, <3>2, <3>3 DEF BusInv, OnceIsOne
    <3> QED
      BY <3>1, <3>4 DEF EventsInv
  <2>3. CASE Uses
    <3>1. BusInv /\ eplan' = eplan /\ eplan # NoBus
      BY <2>3 DEF Uses, EventsInv
    <3>2. BusInv'
      <4>1. CASE \E type \in eplan.emits : Emit(type) /\ UNCHANGED eventGhosts
        BY <3>1, <4>1, EmitKeeps
      <4>2. CASE \/ \E p \in eplan.patterns, h \in Handlers : Listen(p, h) /\ UNCHANGED eventGhosts
                 \/ \E r \in Registrations : Unlisten(r) /\ UNCHANGED eventGhosts
        BY <3>1, <4>2, ListensKeep
      <4>3. CASE \E p \in eplan.patterns, h \in Handlers :
                     /\ ListenOnce(p, h, onces + 1)
                     /\ onces' = onces + 1
                     /\ called' = Append(called, {}) /\ spent' = Append(spent, 0)
        BY <3>1, <4>3, ListenOnceKeeps
      <4> QED
        BY <2>3, <4>1, <4>2, <4>3 DEF Uses
    <3> QED
      BY <3>1, <3>2 DEF EventsInv
  <2>4. CASE BusCalls \/ BusMoves
    <3>1. eplan' = eplan /\ emitting # <<>>
      BY <2>4 DEF BusCalls, CallsHandler, BusMoves, HandlerDone, HandlerFails, EmitReturns
    <3>2. BusInv /\ eplan # NoBus
      BY <3>1 DEF EventsInv
    <3> QED
      BY <2>4, <3>1, <3>2, BusCallsKeep, BusMovesKeep DEF EventsInv
  <2> QED
    BY <2>1, <2>2, <2>3, <2>4 DEF EventsNext
<1>3. EventsInv => OnceSpent
  <2> SUFFICES ASSUME EventsInv, NEW n \in 1 .. onces, NEW e \in called[n], spent[n] # 0
               PROVE  e <= spent[n]
    BY DEF OnceSpent
  <2>1. CASE eplan = NoBus
    BY <2>1 DEF EventsInv
  <2>2. CASE eplan # NoBus
    BY <2>2 DEF EventsInv, BusInv, Spent
  <2> QED
    BY <2>1, <2>2
<1> QED
  BY <1>1, <1>2, <1>3, PTL DEF EventsSpec
=============================================================================
