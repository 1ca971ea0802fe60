----------------------------- MODULE Embeddings -----------------------------
(***************************************************************************)
(* createEmbeddingService over an engine and a store of vectors            *)
(* (packages/embedding/src): items become texts, texts vectors, and the    *)
(* vectors rows of a universe.  A vector is [text, size]: what it is the   *)
(* embedding of, and its dimension.                                        *)
(***************************************************************************)
EXTENDS Naturals, Sequences, FiniteSets

CONSTANTS
    Embedders,
    NoMeta, NoVector, NoTable,
    NotText,                \* an id that is no string
    AnyUniverse             \* the one index that Vectorize has for all universes

VARIABLES
    gear,       \* [storage, dimension, sizes, engine, universes, fields, coerced, deletes, near,
                \*  conflicts, fails], coerced: the metadata as scalars only; conflicts: SQLite
                \*  takes ON CONFLICT for the virtual table, of which sqlite-vec promises nothing
    vectors,    \* rows [id, index, vector, meta], or NoTable
    extension,  \* PostgreSQL has the vector extension
    ecall
embeddingVars == <<gear, vectors, extension, ecall>>

NoEmbedCall == [op |-> "none", at |-> "idle"]
EmbedCall(op, universe, id, text) ==
    [op |-> op, universe |-> universe, id |-> id, text |-> text, meta |-> NoMeta, filter |-> NoMeta,
     topK |-> 0, vector |-> NoVector, at |-> "embed", out |-> "none", found |-> {}]
EmbedEnds(k, out) == [k EXCEPT !.at = "returned", !.out = out]
EmbedAt(c, stage) == ecall[c].at = stage
EmbedBecomes(c, k) == ecall' = [ecall EXCEPT ![c] = k]

Pg == gear.storage = "pgvector"
Sqlite == gear.storage = "sqlite-vec"
Vectorize == gear.storage = "vectorize"
GetUniverse(universe) == universe \in gear.universes

-----------------------------------------------------------------------------
(* upsertFrom, up to the engine.  Without fields there is no metadata. *)
ExtractMetadata(meta) == IF gear.fields THEN meta ELSE NoMeta
UpsertFrom(c, universe, id, text, meta) ==
    LET k == EmbedCall("upsert", universe, id, text) IN
    /\ ecall[c] = NoEmbedCall
    /\ EmbedBecomes(c, IF GetUniverse(universe) /\ id # NotText
                       THEN [k EXCEPT !.meta = ExtractMetadata(meta)] ELSE EmbedEnds(k, "threw"))
    /\ UNCHANGED <<gear, vectors, extension>>
(* similar, by a text, or by a vector one has. *)
Similar(c, universe, text, vector, topK, filter) ==
    LET k == [EmbedCall("similar", universe, NotText, text) EXCEPT !.filter = filter, !.topK = topK]
    IN  /\ ecall[c] = NoEmbedCall
        /\ EmbedBecomes(c, IF ~GetUniverse(universe) THEN EmbedEnds(k, "threw")
                           ELSE IF vector = NoVector THEN k
                           ELSE [k EXCEPT !.vector = vector, !.at = "storage"])
        /\ UNCHANGED <<gear, vectors, extension>>
(* The engine of Cloudflare refuses a vector of another dimension. *)
EngineEmbed(text) == [text |-> text, size |-> gear.sizes[text]]
EngineRefuses(v) == gear.engine = "cloudflare-ai" /\ v.size # gear.dimension
Embedded(c) ==
    LET v == EngineEmbed(ecall[c].text) IN
    /\ EmbedAt(c, "embed")
    /\ EmbedBecomes(c, IF EngineRefuses(v) THEN EmbedEnds(ecall[c], "threw")
                       ELSE [ecall[c] EXCEPT !.vector = v, !.at = "storage"])
    /\ UNCHANGED <<gear, vectors, extension>>
EmbedFails(c) ==
    /\ ecall[c].at \in {"embed", "storage"} /\ gear.fails
    /\ EmbedBecomes(c, EmbedEnds(ecall[c], "threw"))
    /\ UNCHANGED <<gear, vectors, extension>>

-----------------------------------------------------------------------------
(* What the stores do.  A row replaces the one of its index and id; in the table
   of sqlite-vec the one of its id, of whatever universe, where it takes over the
   universe of that row. *)
Vectors == IF vectors = NoTable THEN {} ELSE vectors
IndexOf(universe) == IF Vectorize THEN AnyUniverse ELSE universe
OfIndex(r, universe) == r.index = IndexOf(universe)
ConflictsOnIdBug(old, id, universe) == old.id = id
ConflictsWith(old, id, universe) == old.id = id /\ (Sqlite \/ OfIndex(old, universe))
(* Vectorize takes no metadata but strings, numbers and booleans. *)
ToVectorizeMetadata(meta) == IF meta = NoMeta THEN NoMeta ELSE gear.coerced[meta]
StoredMeta(meta) == IF Vectorize THEN ToVectorizeMetadata(meta) ELSE meta
Upserted(k) ==
    LET old == {r \in vectors : ConflictsWith(r, k.id, k.universe)}
        index == IF Sqlite /\ old # {} THEN (CHOOSE r \in old : TRUE).index
                 ELSE IndexOf(k.universe)
    IN  (vectors \ old) \cup
            {[id |-> k.id, index |-> index, vector |-> k.vector, meta |-> StoredMeta(k.meta)]}
UpsertRuns(k) ==
    vectors # NoTable /\ k.vector.size = gear.dimension /\ (Sqlite => gear.conflicts)

(* A server may have done what it is asked for when the connection breaks. *)
Outcomes == {"done"} \cup (IF gear.fails THEN {"threw"} ELSE {})
Answers(c, k) == \E out \in Outcomes : EmbedBecomes(c, EmbedEnds(k, out))
Refuses(c, k) == EmbedBecomes(c, EmbedEnds(k, "threw"))
StorageUpsert(c) ==
    LET k == ecall[c] IN
    /\ EmbedAt(c, "storage") /\ k.op = "upsert"
    /\ IF UpsertRuns(k) THEN Answers(c, k) /\ vectors' = Upserted(k)
       ELSE Refuses(c, k) /\ UNCHANGED vectors
    /\ UNCHANGED <<gear, extension>>

(* query: the topK nearest.  Only the memory and Vectorize look at the filter,
   and only the memory lets vectors of another dimension through, far away. *)
MatchesFilter(r, filter) ==
    gear.storage \in {"memory", "vectorize"} /\ filter # NoMeta => r.meta = filter
Candidates(k) == {r \in Vectors : OfIndex(r, k.universe) /\ MatchesFilter(r, k.filter)}
Score(r, v) == IF r.vector.size # v.size THEN 0 ELSE gear.near[<<r.vector.text, v.text>>]
Nearest(candidates, v, topK) ==
    {s \in SUBSET candidates :
        /\ Cardinality(s) = IF Cardinality(candidates) < topK THEN Cardinality(candidates) ELSE topK
        /\ \A r \in s, o \in candidates \ s : Score(r, v) >= Score(o, v)}
QueryRuns(k) == vectors # NoTable /\ (gear.storage = "memory" \/ k.vector.size = gear.dimension)
StorageQuery(c) ==
    LET k == ecall[c] IN
    /\ EmbedAt(c, "storage") /\ k.op = "similar"
    /\ IF QueryRuns(k)
       THEN \E s \in Nearest(Candidates(k), k.vector, k.topK) :
                EmbedBecomes(c, [EmbedEnds(k, "done") EXCEPT !.found = s])
       ELSE Refuses(c, k)
    /\ UNCHANGED <<gear, vectors, extension>>

(* delete: no operation over a store that has none. *)
DeleteVectors(c, universe, id) ==
    LET k == EmbedCall("delete", universe, id, NotText) IN
    /\ ecall[c] = NoEmbedCall
    /\ EmbedBecomes(c, IF ~GetUniverse(universe) THEN EmbedEnds(k, "threw")
                       ELSE IF ~gear.deletes THEN EmbedEnds(k, "done")
                       ELSE [k EXCEPT !.at = "storage"])
    /\ UNCHANGED <<gear, vectors, extension>>
Without(id, universe) == {r \in vectors : ~(r.id = id /\ OfIndex(r, universe))}
StorageDelete(c) ==
    LET k == ecall[c] IN
    /\ EmbedAt(c, "storage") /\ k.op = "delete"
    /\ IF vectors = NoTable THEN Refuses(c, k) /\ UNCHANGED vectors
       ELSE Answers(c, k) /\ vectors' = Without(k.id, k.universe)
    /\ UNCHANGED <<gear, extension>>

-----------------------------------------------------------------------------
(* runMigrations: the extension, the table, and an index whose failure is
   ignored; for sqlite-vec a table that must not be there yet. *)
RunMigrations(c) ==
    /\ ecall[c] = NoEmbedCall /\ (Pg \/ Sqlite)
    /\ EmbedBecomes(c, [EmbedCall("migrate", NotText, NotText, NotText) EXCEPT
                            !.at = IF Pg THEN "extension" ELSE "table"])
    /\ UNCHANGED <<gear, vectors, extension>>
MigratesExtension(c) ==
    /\ EmbedAt(c, "extension")
    /\ EmbedBecomes(c, [ecall[c] EXCEPT !.at = "table"])
    /\ extension' = TRUE
    /\ UNCHANGED <<gear, vectors>>
TableMade == Pg \/ vectors = NoTable     \* only PostgreSQL's: IF NOT EXISTS
MigratesTable(c) ==
    /\ EmbedAt(c, "table")
    /\ EmbedBecomes(c, IF Pg THEN [ecall[c] EXCEPT !.at = "index"]
                       ELSE EmbedEnds(ecall[c], IF TableMade THEN "done" ELSE "threw"))
    /\ vectors' = Vectors
    /\ UNCHANGED <<gear, extension>>
MigratesIndex(c) ==
    /\ EmbedAt(c, "index")
    /\ EmbedBecomes(c, EmbedEnds(ecall[c], "done"))
    /\ UNCHANGED <<gear, vectors, extension>>
MigrationFails(c) ==
    /\ ecall[c].at \in {"extension", "table"} /\ gear.fails
    /\ EmbedBecomes(c, EmbedEnds(ecall[c], "threw"))
    /\ UNCHANGED <<gear, vectors, extension>>
(* verifySetup looks for the table only. *)
VerifySetup(c) ==
    /\ ecall[c] = NoEmbedCall /\ (Pg \/ Sqlite)
    /\ EmbedBecomes(c, EmbedEnds(EmbedCall("verify", NotText, NotText, NotText),
                                 IF vectors = NoTable THEN "missing" ELSE "set up"))
    /\ UNCHANGED <<gear, vectors, extension>>

EmbedLeaves(c) ==
    /\ EmbedAt(c, "returned")
    /\ EmbedBecomes(c, NoEmbedCall)
    /\ UNCHANGED <<gear, vectors, extension>>
EmbedStep(c) ==
    \/ Embedded(c) \/ EmbedFails(c) \/ StorageUpsert(c) \/ StorageQuery(c) \/ StorageDelete(c)
    \/ MigratesExtension(c) \/ MigratesTable(c) \/ MigratesIndex(c) \/ MigrationFails(c)

-----------------------------------------------------------------------------
(***************************************************************************)
(* Clients migrate the store, and store, search and delete the items of    *)
(* their universes.  The history knows what the last change of a slot has  *)
(* left, unless two changed it at once.  An item has a slot of its own in  *)
(* the memory and in PostgreSQL; in the others it has one with the items   *)
(* of the same id of all universes.                                        *)
(***************************************************************************)

CONSTANTS
    EmbeddingPlans,
    Either              \* two calls changed a slot at once: nothing is known of it

VARIABLES
    vplan, ecalls,
    item,               \* slot -> what it must hold: [text, meta, universe], NoVector, Either
    alone,              \* callers whose slot nobody else has changed meanwhile
    verified            \* verifySetup or runMigrations has said that the store is ready
embeddingGhosts == <<item, alone, verified>>
embeddingClientVars == <<embeddingVars, vplan, ecalls, embeddingGhosts>>

NoIndex == [service |-> "none"]
SlotOfItem(setup, i) ==
    <<IF setup.storage \in {"sqlite-vec", "vectorize"} THEN AnyUniverse ELSE i[1], i[2]>>
EmbeddingsInit ==
    /\ gear = NoIndex /\ vectors = NoTable /\ extension = FALSE
    /\ ecall = [c \in Embedders |-> NoEmbedCall]
    /\ vplan = NoIndex /\ ecalls = 0
    /\ item = <<>> /\ alone = {} /\ verified = FALSE
EmbeddingsDeploy ==
    /\ vplan = NoIndex
    /\ \E p \in EmbeddingPlans :
           /\ vplan' = p /\ gear' = p.setup
           /\ vectors' = IF p.migrated THEN {} ELSE NoTable
           /\ item' = [s \in {SlotOfItem(p.setup, i) : i \in p.items} |-> NoVector]
    /\ UNCHANGED <<extension, ecall, ecalls, alone, verified>>

AltersItem(k) == k.op \in {"upsert", "delete"} /\ k.at # "returned"
ItemOf(k) == <<k.universe, k.id>>
StoreSlot(k) == SlotOfItem(gear, ItemOf(k))
Embeds(c) ==
    /\ vplan # NoIndex /\ ecalls < vplan.calls
    /\ \/ \E i \in vplan.items, t \in vplan.texts[c], m \in vplan.metas :
              UpsertFrom(c, i[1], i[2], t, m)
       \/ \E u \in vplan.searched, t \in vplan.texts[c], v \in vplan.given, f \in vplan.filters :
              Similar(c, u, t, v, vplan.topK, f)
       \/ \E i \in vplan.items : DeleteVectors(c, i[1], i[2])
       \/ ~vplan.migrated /\ (RunMigrations(c) \/ VerifySetup(c))
    /\ LET k == ecall'[c]
           others == {d \in Embedders \ {c} : AltersItem(ecall[d]) /\ AltersItem(k) /\
                                              StoreSlot(ecall[d]) = StoreSlot(k)}
       IN  alone' = IF others = {} THEN alone \cup {c} ELSE (alone \ others) \ {c}
    /\ verified' = (verified \/ (ecall'[c].op = "verify" /\ ecall'[c].out = "set up"))
    /\ ecalls' = ecalls + 1
    /\ UNCHANGED <<vplan, item>>

(* In the table of sqlite-vec the universe of the first upsert stays that of the
   row, and a delete in another universe does not find it. *)
LeftBehind(k, was) ==
    LET stays == Sqlite /\ was # NoVector
        universe == IF ~stays THEN IndexOf(k.universe)
                    ELSE IF was = Either THEN Either ELSE was.universe
    IN  IF k.op = "upsert" THEN [text |-> k.text, meta |-> k.meta, universe |-> universe]
        ELSE IF ~stays \/ universe = k.universe THEN NoVector
        ELSE IF universe = Either THEN Either ELSE was
EmbedMoves(c) ==
    LET k == ecall'[c] IN
    /\ EmbedStep(c)
    /\ item' = IF ~(AltersItem(ecall[c]) /\ k.at = "returned") THEN item
               ELSE IF c \notin alone \/ (k.out = "threw" /\ vectors' # vectors)
               THEN [item EXCEPT ![StoreSlot(k)] = Either]
               ELSE IF k.out = "done"
               THEN [item EXCEPT ![StoreSlot(k)] = LeftBehind(k, item[StoreSlot(k)])] ELSE item
    /\ verified' = (verified \/ (k.op = "migrate" /\ k.at = "returned" /\ k.out = "done"))
    /\ UNCHANGED <<vplan, ecalls, alone>>
EmbedReturns(c) == EmbedLeaves(c) /\ UNCHANGED <<vplan, ecalls, embeddingGhosts>>

EmbeddingsNext ==
    \/ EmbeddingsDeploy
    \/ \E c \in Embedders : Embeds(c) \/ EmbedMoves(c) \/ EmbedReturns(c)

-----------------------------------------------------------------------------
(* A slot holds the vector and the metadata that its last change has left, in the
   universe of that change, and is empty after a delete, whatever has failed
   meanwhile; once the store has been said to be ready it stays so.  So in the
   memory and in PostgreSQL an item is kept whatever becomes of the item of the
   same id in another universe.  Not so in the others: in Vectorize the two are
   one item, and in the table of sqlite-vec an upsert overwrites the item of the
   other universe and leaves it there, found by searches of that universe alone,
   and deleted by deletes of that universe alone. *)
RowSlot(r) == SlotOfItem(gear, <<r.index, r.id>>)
RowsOf(slot) == {r \in Vectors : RowSlot(r) = slot}
SlotBusy(slot) == \E c \in Embedders : AltersItem(ecall[c]) /\ StoreSlot(ecall[c]) = slot
IsLeft(r, value) ==
    /\ r.vector.text = value.text /\ r.meta = StoredMeta(value.meta)
    /\ value.universe \in {r.index, Either}
VectorKept ==
    /\ verified => vectors # NoTable
    /\ \A slot \in DOMAIN item : ~SlotBusy(slot) /\ item[slot] # Either =>
           IF item[slot] = NoVector THEN RowsOf(slot) = {}
           ELSE Cardinality(RowsOf(slot)) = 1 /\ \A r \in RowsOf(slot) : IsLeft(r, item[slot])
=============================================================================
