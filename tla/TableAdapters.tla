--------------------------- MODULE TableAdapters ---------------------------
(***************************************************************************)
(* The mapped tables of @justwant/db: createDrizzleAdapter,                *)
(* createPrismaAdapter and createWaddlerAdapter over PostgreSQL, MySQL or  *)
(* SQLite.  A call of a table is a query; a query is one statement, or two *)
(* where the dialect has no RETURNING: other calls run between them.       *)
(***************************************************************************)
EXTENDS Naturals, FiniteSets

CONSTANTS
    Clients,
    Undefined, Null,    \* the two values that where clauses treat specially
    Gone                \* a time, in the column deletedAt

ASSUME AdaptersAssumption == Gone # Null /\ Undefined # Null

VARIABLES
    setup,      \* [adapter, dialect, soft, unique, fails]: soft, whether the table
                \* has a deletedAt column; unique, its columns with that constraint;
                \* fails, whether connections break
    table,      \* the rows, hidden ones included
    serial,     \* ids given out
    query       \* the query each client has in progress
tableVars == <<setup, table, serial, query>>

NoQuery == [do |-> "none", at |-> "idle"]

(* A query: by id or with a where clause, with the columns it writes.  assigns
   says whether the data of a create holds an id. *)
Query(do, id, where, data) ==
    [do |-> do, at |-> "statement", id |-> id, where |-> where, data |-> data,
     assigns |-> FALSE, rows |-> {}, out |-> "none"]
Asks(c, q) == query' = [query EXCEPT ![c] = q]
Settled(c) == query[c].at = "settled"
Served(c) == Settled(c) /\ query[c].out = "done"

Settles(c, out, rows) ==
    query' = [query EXCEPT ![c] = [@ EXCEPT !.at = "settled", !.out = out, !.rows = rows]]
Asked(c, do) == query[c].do = do /\ query[c].at = "statement"
Untouched == UNCHANGED <<setup, table, serial>>

-----------------------------------------------------------------------------
(* Where clauses. *)

(* A create stores what it is not given as NULL. *)
Stored(value) == IF value = Undefined THEN Null ELSE value

(* buildWhere drops the undefined fields.  eq and = are not true of NULL, where
   Prisma's filter is IS NULL. *)
FieldMatches(value, wanted) ==
    \/ wanted = Undefined
    \/ value = wanted /\ (wanted = Null => setup.adapter = "prisma")

Visible(row) == setup.soft => row.deletedAt = Null

FindMany(where) ==
    {row \in table : Visible(row) /\ \A f \in DOMAIN where : FieldMatches(row[f], where[f])}
ById(id) == {row \in table : row.id = id}

-----------------------------------------------------------------------------
(* Statements. *)

Found(k) == IF k.do = "findById" THEN {row \in ById(k.id) : Visible(row)} ELSE FindMany(k.where)

(* findById, findOne (LIMIT 1, in no order) and findMany. *)
Find(c) ==
    LET rows == Found(query[c]) IN
    /\ Asked(c, "findById") \/ Asked(c, "findOne") \/ Asked(c, "findMany")
    /\ IF query[c].do = "findMany" \/ rows = {} THEN Settles(c, "done", rows)
       ELSE \E row \in rows : Settles(c, "done", {row})
    /\ Untouched

Rereads == setup.dialect = "mysql" /\ setup.adapter # "prisma"
Conflicts(row) ==
    \E other \in table : /\ other.id # row.id
                         /\ \E f \in setup.unique : other[f] = row[f] /\ row[f] # Null

(* The row a create inserts, with an id of its own: the caller's, the
   database's, or a random one (Waddler). *)
Inserted(data) ==
    [f \in {"id", "deletedAt"} \cup DOMAIN data |->
        CASE f = "id" -> serial + 1 [] f = "deletedAt" -> Null [] OTHER -> Stored(data[f])]

Insert(c) ==
    LET k == query[c]
        row == Inserted(k.data)
    IN  /\ Asked(c, "create") /\ ~Conflicts(row)
        /\ table' = table \cup {row}
        /\ serial' = serial + 1
        /\ IF ~Rereads THEN Settles(c, "done", {row})
           ELSE IF setup.adapter = "drizzle" /\ ~k.assigns
           THEN Settles(c, "threw", {})         \* MySQL create requires id in data
           ELSE query' = [query EXCEPT ![c].at = "reread", ![c].id = row.id]
        /\ UNCHANGED setup

(* update by id, of hidden rows too. *)
Changed(row, data) == [f \in DOMAIN row |-> IF f \in DOMAIN data THEN data[f] ELSE row[f]]
UpdateById(c) ==
    LET k == query[c]
        rows == {Changed(row, k.data) : row \in ById(k.id)}
    IN  /\ Asked(c, "update") /\ \A row \in rows : ~Conflicts(row)
        /\ table' = (table \ ById(k.id)) \cup rows
        /\ IF Rereads \/ (setup.adapter = "waddler" /\ rows = {})
           THEN query' = [query EXCEPT ![c].at = "reread"]
           ELSE Settles(c, IF rows = {} THEN "threw" ELSE "done", rows)
        /\ UNCHANGED <<setup, serial>>

(* A create or an update answers the row it then selects by its id. *)
Reread(c) ==
    LET rows == ById(query[c].id) IN
    /\ query[c].at = "reread"
    /\ Settles(c, IF rows = {} THEN "threw" ELSE "done", rows)
    /\ Untouched

ViolatesUnique(c) ==
    /\ \/ Asked(c, "create") /\ Conflicts(Inserted(query[c].data))
       \/ Asked(c, "update")
          /\ \E row \in ById(query[c].id) : Conflicts(Changed(row, query[c].data))
    /\ Settles(c, "threw", {}) /\ Untouched

(* delete sets deletedAt where the table has it, and removes the row where not;
   only Prisma throws when there is none. *)
DeleteById(c) ==
    LET rows == ById(query[c].id) IN
    /\ Asked(c, "delete")
    /\ table' = (table \ rows) \cup
           (IF setup.soft THEN {[row EXCEPT !.deletedAt = Gone] : row \in rows} ELSE {})
    /\ Settles(c, IF rows = {} /\ setup.adapter = "prisma" THEN "threw" ELSE "done", {})
    /\ UNCHANGED <<setup, serial>>

(* The connection breaks before the statement is executed, *)
Unsent(c) ==
    /\ query[c].at \in {"statement", "reread"} /\ setup.fails
    /\ Settles(c, "lost", {}) /\ Untouched
(* or before its answer is received. *)
AnswerLost(c) ==
    LET k == query[c]
        rows == ById(k.id)
    IN  /\ setup.fails
        /\ \/ /\ Asked(c, "create") /\ ~Conflicts(Inserted(k.data))
              /\ table' = table \cup {Inserted(k.data)} /\ serial' = serial + 1
           \/ /\ Asked(c, "update") /\ \A row \in rows : ~Conflicts(Changed(row, k.data))
              /\ table' = (table \ rows) \cup {Changed(row, k.data) : row \in rows}
              /\ UNCHANGED serial
           \/ /\ Asked(c, "delete")
              /\ table' = (table \ rows) \cup
                     (IF setup.soft THEN {[row EXCEPT !.deletedAt = Gone] : row \in rows} ELSE {})
              /\ UNCHANGED serial
        /\ Settles(c, "lost", {}) /\ UNCHANGED setup

Statement(c) ==
    \/ Find(c) \/ Insert(c) \/ UpdateById(c) \/ DeleteById(c) \/ Reread(c)
    \/ ViolatesUnique(c) \/ Unsent(c) \/ AnswerLost(c)
=============================================================================
