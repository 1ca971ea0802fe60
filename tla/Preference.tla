----------------------------- MODULE Preference -----------------------------
(***************************************************************************)
(* createPreferenceService (packages/preference/src) over the memory       *)
(* adapter or, by createPreferenceDbAdapter, over a table of               *)
(* TableAdapters.  set and reset are a find and a write; a call of setMany *)
(* is one set after the other.                                             *)
(***************************************************************************)
EXTENDS TableAdapters, Sequences

CONSTANT NoOrg      \* an actor without an organisation: the null of its where clause

VARIABLE pcall

NoPrefCall == [op |-> "none", at |-> "idle"]

PrefAnswers(c, out, rows) ==
    /\ pcall' = [pcall EXCEPT ![c] = [@ EXCEPT !.at = "returned", !.out = out, !.rows = rows]]
    /\ query' = [query EXCEPT ![c] = NoQuery]
    /\ Untouched
PrefAwaits(c, op, at) == pcall[c].op \in op /\ pcall[c].at = at /\ Served(c)

(* toRepo(actor).actorOrgId ?? null *)
OrgOf(actor) == IF actor.org = NoOrg THEN Null ELSE actor.org
WhereAnyOrgBug(actor, key) ==
    [key |-> key, actor |-> actor.id, org |-> IF actor.org = NoOrg THEN Undefined ELSE actor.org]
Where(actor, key) == [key |-> key, actor |-> actor.id, org |-> OrgOf(actor)]
Writes == {"set", "reset"}
FindEntry(k) == Query("findOne", Undefined, Where(k.actor, Head(k.todo).key), <<>>)
CreateEntry(k) ==
    Query("create", Undefined, <<>>,
          [key |-> Head(k.todo).key, actor |-> k.actor.id, org |-> OrgOf(k.actor),
           value |-> Head(k.todo).value])

(* A call for an actor; todo holds the preferences to go through, with the
   values to set.  A value its schema rejects, or a preference that is not
   registered, throws before anything is asked. *)
PrefStarts(c, op, actor, todo) ==
    LET k == [op |-> op, actor |-> actor, todo |-> todo, at |-> "find", rows |-> {},
              out |-> "none"]
    IN  /\ pcall[c] = NoPrefCall
        /\ pcall' = [pcall EXCEPT ![c] = k]
        /\ Asks(c, IF op = "list"
                   THEN Query("findMany", Undefined, [actor |-> actor.id, org |-> OrgOf(actor)], <<>>)
                   ELSE FindEntry(k))
        /\ Untouched
PrefEnds(c) ==
    /\ pcall[c].at = "returned"
    /\ pcall' = [pcall EXCEPT ![c] = NoPrefCall]
    /\ UNCHANGED query /\ Untouched

PrefRead(c) ==
    /\ PrefAwaits(c, {"get", "list"}, "find")
    /\ PrefAnswers(c, "done", query[c].rows)

PrefFound(c) ==
    LET k == pcall[c] IN
    /\ PrefAwaits(c, Writes, "find")
    /\ IF k.op = "reset" /\ query[c].rows = {} THEN PrefAnswers(c, "done", {})
       ELSE /\ pcall' = [pcall EXCEPT ![c].at = "write"] /\ Untouched
            /\ IF query[c].rows = {} THEN Asks(c, CreateEntry(k))
               ELSE \E row \in query[c].rows :
                        Asks(c, IF k.op = "reset" THEN Query("delete", row.id, <<>>, <<>>)
                                ELSE Query("update", row.id, <<>>, [value |-> Head(k.todo).value]))

(* The entry is written: setMany goes on with the next one. *)
PrefWritten(c) ==
    LET next == [pcall[c] EXCEPT !.at = "find", !.todo = Tail(@)] IN
    /\ PrefAwaits(c, Writes, "write")
    /\ IF next.todo = <<>> THEN PrefAnswers(c, "done", {})
       ELSE /\ pcall' = [pcall EXCEPT ![c] = next] /\ Asks(c, FindEntry(next)) /\ Untouched
PrefFails(c) ==
    /\ pcall[c].at \in {"find", "write"} /\ Settled(c) /\ ~Served(c)
    /\ PrefAnswers(c, query[c].out, {})

-----------------------------------------------------------------------------
(* adapters/memory.ts: entries in the order they were created, compared field
   by field, where null and undefined organisations are the same.  An update
   keeps the old value when the new one is null. *)
Remembered(where) == {row \in table : \A f \in DOMAIN where : row[f] = where[f]}
MemoryFind(c) ==
    LET rows == Remembered(query[c].where) IN
    /\ Asked(c, "findOne") \/ Asked(c, "findMany")
    /\ IF query[c].do = "findMany" \/ rows = {} THEN Settles(c, "done", rows)
       ELSE \E row \in rows : /\ \A other \in rows : row.id <= other.id
                              /\ Settles(c, "done", {row})
    /\ Untouched
MemoryCreate(c) ==
    /\ Asked(c, "create")
    /\ table' = table \cup {Inserted(query[c].data)} /\ serial' = serial + 1
    /\ Settles(c, "done", {}) /\ UNCHANGED setup
MemoryUpdate(c) ==
    LET k == query[c]
        old == ById(k.id)
        Merged(row) == [row EXCEPT !.value = IF k.data.value = Null THEN @ ELSE k.data.value]
    IN  /\ Asked(c, "update")
        /\ table' = (table \ old) \cup {Merged(row) : row \in old}
        /\ Settles(c, IF old = {} THEN "threw" ELSE "done", {})
        /\ UNCHANGED <<setup, serial>>
MemoryDelete(c) ==
    /\ Asked(c, "delete")
    /\ table' = table \ ById(query[c].id)
    /\ Settles(c, "done", {}) /\ UNCHANGED <<setup, serial>>
MemoryStep(c) == MemoryFind(c) \/ MemoryCreate(c) \/ MemoryUpdate(c) \/ MemoryDelete(c)

PrefStep(c) ==
    \/ PrefRead(c) \/ PrefFound(c) \/ PrefWritten(c) \/ PrefFails(c)
    \/ /\ pcall[c].at # "idle" /\ UNCHANGED pcall
       /\ IF setup.adapter = "memory" THEN MemoryStep(c) ELSE Statement(c)
=============================================================================
