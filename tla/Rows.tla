-------------------------------- MODULE Rows --------------------------------
(***************************************************************************)
(* The tables of @justwant/db, as the services over them see them: a table *)
(* is a set of rows with a unique id, a where clause a record of the       *)
(* fields asked for.  The two values SQL and JavaScript treat specially    *)
(* are kept apart: an Undefined field of a where clause is dropped by      *)
(* every adapter (and stored as NULL by a create), a Null one is compared  *)
(* with =, which no row satisfies in SQL, NULL itself included.  Prisma    *)
(* and the repositories of the specs do match NULL: NullMatches says which *)
(* kind of store is used.                                                  *)
(***************************************************************************)
EXTENDS Naturals, FiniteSets

CONSTANTS Undefined, Null, NullMatches

ASSUME RowsAssumption == Undefined # Null /\ NullMatches \in BOOLEAN

(* Operators named ...Bug are broken variants of the definition after them:
   the properties are validated by substituting them.  No module uses them. *)

(* buildWhere: the conjunction of eq(column, value) over the defined fields. *)
Matches(row, where) ==
    \A f \in DOMAIN where :
        \/ where[f] = Undefined
        \/ row[f] = where[f] /\ (where[f] = Null => NullMatches)

FindMany(table, where) == {row \in table : Matches(row, where)}

(* findOne: LIMIT 1 without ORDER BY, so any of the matching rows. *)
Finds(table, where, row) == row \in FindMany(table, where)
FindsNone(table, where) == FindMany(table, where) = {}

(* The column a value is stored in holds NULL when the value is undefined. *)
Stored(value) == IF value = Undefined THEN Null ELSE value

(* create: the database chooses the id.  An id is free again when no row and
   no call in progress holds it, which no caller can tell from a new uuid. *)
NewId(used) ==
    LET free == (1 .. Cardinality(used) + 1) \ used
    IN  CHOOSE id \in free : \A other \in free : id <= other
Create(table, row) == table \cup {row}

(* update by id answers the updated row, and throws when there is none. *)
Exists(table, id) == \E row \in table : row.id = id
Update(table, id, field, value) ==
    {IF row.id = id THEN [row EXCEPT ![field] = value] ELSE row : row \in table}

(* delete by id: a row that is gone already is not an error.  (A table with a
   deletedAt column keeps the row and hides it from the finds, but not from a
   later update by id; that variant is not modelled.) *)
Delete(table, id) == {row \in table : row.id # id}
=============================================================================
