---------------------------- MODULE AccountsProofs ----------------------------
(***************************************************************************)
(* An email is that of one user, a deleted user is gone, and a preference  *)
(* is what the last call has left of it, for any clients and plans.  The   *)
(* services ask nothing of the database but single statements; the         *)
(* invariants say what a client knows between two.                         *)
(***************************************************************************)
EXTENDS Accounts, SequenceTheorems, TLAPS

(* Every user has an email: it is neither undefined nor null. *)
Addressed(p) == p.service = "users" => p.emails \cap {Undefined, Null} = {}

-----------------------------------------------------------------------------
(* The inductive invariant. *)

Reads == {"findById", "findOne", "findMany"}
IsQuery(q) ==
    /\ DOMAIN q = {"do", "at", "id", "where", "data", "assigns", "rows", "out"}
    /\ q.at \in {"statement", "reread", "settled"}
IsCall(k) == DOMAIN k = {"op", "at", "id", "email", "rows", "out"}
Done(q) == q.at = "settled" /\ q.out = "done"

(* The query a call awaits is the one of its stage. *)
Awaits(k, q) ==
    \/ /\ k.at = "check" /\ k.op \in {"create", "update"} /\ k.email # Undefined
       /\ q.do = "findOne" /\ q.where = [email |-> k.email]
    \/ /\ k.at = "find" /\ k.op \in {"update", "delete"}
       /\ q.do = "findById" /\ q.id = k.id
    \/ /\ k.at = "answer"
       /\ \/ k.op = "create" /\ q.do = "create" /\ q.data = [email |-> k.email]
          \/ /\ k.op = "update" /\ q.do = "update" /\ q.id = k.id
             /\ q.data = IF k.email = Undefined THEN <<>> ELSE [email |-> k.email]
          \/ k.op = "delete" /\ q.do = "delete" /\ q.id = k.id
          \/ k.op \notin {"create", "update", "delete"} /\ q.do \in Reads

CallOK(c) ==
    LET k == ucall[c]
        q == query[c]
    IN  \/ k = NoUserCall /\ q = NoQuery
        \/ /\ IsCall(k)
           /\ k.op = "create" => k.email \in account.emails
           /\ k.op = "update" => k.email \in account.emails \cup {Undefined}
           /\ k.op \in {"update", "delete"} => k.id \in 1 .. serial
           /\ \/ k.at = "returned" /\ q = NoQuery
              \/ /\ IsQuery(q) /\ Awaits(k, q)
                 /\ q.at = "reread" => q.do \in {"create", "update"}

RowsOK ==
    /\ serial \in Nat
    /\ \A row \in table :
        /\ {"id", "deletedAt", "email"} \subseteq DOMAIN row
        /\ row.id \in 1 .. serial /\ row.email # Null
    /\ \A row, other \in table : row.id = other.id => row = other

(* Of calls that name an email at the same time the history knows. *)
Overlaps ==
    \A c, d \in Clients :
        c # d /\ UserBusy(c) /\ UserBusy(d) => Names(ucall[c]) \cap Names(ucall[d]) \subseteq raced

Unique ==
    \A row, other \in table :
        /\ row.email = other.email
        /\ "email" \in setup.unique \/ (Visible(row) /\ Visible(other) /\ row.email \notin raced)
        => row.id = other.id

(* A call that has looked for its email, or found the user with it, and has not
   written it yet: nobody else has it. *)
Looked(k, q) ==
    \/ k.at = "check" /\ Done(q) /\ q.rows = {}
    \/ k.at = "find" /\ Done(q) /\ \E row \in q.rows : row.email = k.email
    \/ k.at = "answer" /\ q.at = "statement"
Clear(c) ==
    LET k == ucall[c] IN
    k.op \in {"create", "update"} /\ UserBusy(c) /\ Looked(k, query[c])
    /\ k.email # Undefined /\ k.email \notin raced =>
        \A row \in table :
            Visible(row) /\ row.email = k.email => k.op = "update" /\ row.id = k.id

(* The users deleted before a call began are not those it has to do with. *)
Unmissed(c) ==
    LET k == ucall[c]
        q == query[c]
    IN  /\ k.at = "returned" /\ k.out = "done" => \A row \in k.rows : row.id \notin missed[c]
        /\ UserBusy(c) /\ Done(q) => \A row \in q.rows : row.id \notin missed[c]
        /\ UserBusy(c) /\ q.at = "reread" => q.id \notin missed[c]
        /\ UserBusy(c) /\ k.op = "update" /\ k.at # "find" => k.id \notin missed[c]
        /\ k.at = "find" /\ Done(q) => \A row \in q.rows : row.id = k.id
        /\ k.op = "delete" /\ k.at = "answer" /\ Done(q) =>
               \A row \in table : Visible(row) => row.id # k.id

Dropped ==
    /\ dropped \subseteq 1 .. serial
    /\ \A c \in Clients : missed[c] \subseteq dropped
    /\ \A row \in table : Visible(row) => row.id \notin dropped

UserInv ==
    /\ account.emails \cap {Undefined, Null} = {}
    /\ DOMAIN ucall = Clients /\ DOMAIN query = Clients /\ DOMAIN missed = Clients
    /\ \A c \in Clients : pcall[c] = NoPrefCall
    /\ RowsOK /\ Overlaps /\ Unique /\ Dropped
    /\ \A c \in Clients : CallOK(c) /\ Clear(c) /\ Unmissed(c)

Fresh ==
    /\ table = {} /\ serial = 0 /\ dropped = {}
    /\ query = [c \in Clients |-> NoQuery]
    /\ ucall = [c \in Clients |-> NoUserCall] /\ pcall = [c \in Clients |-> NoPrefCall]
    /\ missed = [c \in Clients |-> {}]

AccountsInv ==
    /\ account = NoAccount => Fresh
    /\ account.service # "users" => \A c \in Clients : ucall[c] = NoUserCall
    /\ account.service = "users" => UserInv

-----------------------------------------------------------------------------
(* What a statement does to the table, and what it answers. *)

QueryStays(c) ==
    LET q == query[c]
        r == query'[c]
    IN  /\ DOMAIN query' = Clients /\ \A d \in Clients \ {c} : query'[d] = query[d]
        /\ IsQuery(r) /\ r.at \in {"reread", "settled"}
        /\ r.do = q.do /\ r.where = q.where /\ r.data = q.data
        /\ q.do # "create" => r.id = q.id
        /\ r.at = "reread" => q.do \in {"create", "update"}
Reading(c) ==
    LET q == query[c]
        r == query'[c]
    IN  /\ table' = table /\ serial' = serial /\ r.at = "settled"
        /\ Done(r) =>
            \/ /\ q.do \in Reads /\ r.rows \subseteq Found(q)
               /\ r.rows = {} => Found(q) = {}
               /\ q.do = "findMany" => r.rows = Found(q)
            \/ q.at = "reread" /\ r.rows = ById(q.id)
Creating(c) ==
    LET q == query[c]
        r == query'[c]
    IN  /\ q.at = "statement" /\ q.do = "create" /\ ~Conflicts(Inserted(q.data))
        /\ table' = table \cup {Inserted(q.data)} /\ serial' = serial + 1
        /\ r.at = "reread" => r.id = serial + 1
        /\ Done(r) => r.rows = {Inserted(q.data)}
Updating(c) ==
    LET q == query[c]
        r == query'[c]
        rows == {Changed(row, q.data) : row \in ById(q.id)}
    IN  /\ q.at = "statement" /\ q.do = "update" /\ \A row \in rows : ~Conflicts(row)
        /\ table' = (table \ ById(q.id)) \cup rows /\ serial' = serial
        /\ Done(r) => r.rows = rows
Deleting(c) ==
    LET q == query[c]
        r == query'[c]
        rows == ById(q.id)
    IN  /\ q.at = "statement" /\ q.do = "delete" /\ r.at = "settled"
        /\ table' = (table \ rows) \cup
               (IF setup.soft THEN {[row EXCEPT !.deletedAt = Gone] : row \in rows} ELSE {})
        /\ serial' = serial
        /\ Done(r) => r.rows = {}

LEMMA StatementMoves ==
    ASSUME DOMAIN query = Clients, NEW c \in Clients, IsQuery(query[c]), Statement(c),
           query[c].at = "reread" => query[c].do \in {"create", "update"}
    PROVE  /\ setup' = setup /\ QueryStays(c)
           /\ Reading(c) \/ Creating(c) \/ Updating(c) \/ Deleting(c)
<1> DEFINE q == query[c]
<1>1. ASSUME NEW out, NEW rows, Settles(c, out, rows)
      PROVE  /\ QueryStays(c) /\ query'[c].at = "settled"
             /\ query'[c].out = out /\ query'[c].rows = rows
  BY <1>1 DEF Settles, QueryStays, IsQuery
<1>2. CASE Find(c)
  <2>1. PICK rows : /\ Settles(c, "done", rows) /\ rows \subseteq Found(q)
                    /\ rows = {} => Found(q) = {}
                    /\ q.do = "findMany" => rows = Found(q)
    BY <1>2 DEF Find
  <2>2. q.do \in Reads /\ Untouched
    BY <1>2 DEF Find, Asked, Reads
  <2> QED
    BY <1>1, <2>1, <2>2 DEF Untouched, Reading, Done
<1>3. CASE Insert(c)
  <2> DEFINE row == Inserted(q.data)
  <2>1. /\ q.at = "statement" /\ q.do = "create" /\ ~Conflicts(row)
        /\ table' = table \cup {row} /\ serial' = serial + 1 /\ setup' = setup
    BY <1>3 DEF Insert, Asked
  <2>2. row.id = serial + 1
    BY DEF Inserted
  <2>3. \/ Settles(c, "done", {row}) \/ Settles(c, "threw", {})
        \/ query' = [query EXCEPT ![c].at = "reread", ![c].id = row.id]
    BY <1>3 DEF Insert
  <2> HIDE DEF row
  <2>4. CASE query' = [query EXCEPT ![c].at = "reread", ![c].id = row.id]
    <3>1. QueryStays(c) /\ query'[c].at = "reread" /\ query'[c].id = serial + 1
      BY <2>1, <2>2, <2>4 DEF QueryStays, IsQuery
    <3> QED
      BY <2>1, <3>1 DEF Creating, Done, row
  <2>5. CASE Settles(c, "done", {row}) \/ Settles(c, "threw", {})
    <3>1. /\ QueryStays(c) /\ query'[c].at = "settled"
          /\ query'[c].out = "done" => query'[c].rows = {row}
      BY <1>1, <2>5
    <3> QED
      BY <2>1, <3>1 DEF Creating, Done, row
  <2> QED
    BY <2>3, <2>4, <2>5
<1>4. CASE UpdateById(c)
  <2> DEFINE rows == {Changed(row, q.data) : row \in ById(q.id)}
  <2>1. /\ q.at = "statement" /\ q.do = "update" /\ \A row \in rows : ~Conflicts(row)
        /\ table' = (table \ ById(q.id)) \cup rows /\ serial' = serial /\ setup' = setup
    BY <1>4 DEF UpdateById, Asked
  <2>2. \/ query' = [query EXCEPT ![c].at = "reread"]
        \/ \E out : Settles(c, out, rows)
    BY <1>4 DEF UpdateById
  <2>3. QueryStays(c) /\ (Done(query'[c]) => query'[c].rows = rows)
    <3>1. CASE query' = [query EXCEPT ![c].at = "reread"]
      BY <2>1, <3>1 DEF QueryStays, IsQuery, Done
    <3>2. CASE \E out : Settles(c, out, rows)
      BY <1>1, <3>2
    <3> QED
      BY <2>2, <3>1, <3>2
  <2> QED
    BY <2>1, <2>3 DEF Updating
<1>5. CASE DeleteById(c)
  <2>1. /\ q.at = "statement" /\ q.do = "delete" /\ serial' = serial /\ setup' = setup
        /\ table' = (table \ ById(q.id)) \cup
               (IF setup.soft THEN {[row EXCEPT !.deletedAt = Gone] : row \in ById(q.id)} ELSE {})
    BY <1>5 DEF DeleteById, Asked
  <2>2. \E out : Settles(c, out, {})
    BY <1>5 DEF DeleteById
  <2>3. QueryStays(c) /\ query'[c].at = "settled" /\ query'[c].rows = {}
    BY <1>1, <2>2
  <2> QED
    BY <2>1, <2>3 DEF Deleting
<1>6. CASE Reread(c)
  <2>1. q.at = "reread" /\ Untouched /\ \E out : Settles(c, out, ById(q.id))
    BY <1>6 DEF Reread
  <2> QED
    BY <1>1, <2>1 DEF Untouched, Reading
<1>7. ASSUME NEW out \in {"threw", "lost"}, Settles(c, out, {}), Untouched
      PROVE  setup' = setup /\ QueryStays(c) /\ Reading(c)
  BY <1>1, <1>7 DEF Untouched, Reading, Done
<1>8. CASE ViolatesUnique(c) \/ Unsent(c)
  BY <1>7, <1>8 DEF ViolatesUnique, Unsent
<1>9. CASE AnswerLost(c)
  <2>1. setup' = setup /\ Settles(c, "lost", {})
    BY <1>9 DEF AnswerLost
  <2>2. QueryStays(c) /\ query'[c].at = "settled" /\ query'[c].out = "lost"
    BY <1>1, <2>1
  <2>3. CASE /\ Asked(c, "create") /\ ~Conflicts(Inserted(q.data))
             /\ table' = table \cup {Inserted(q.data)} /\ serial' = serial + 1
    BY <2>1, <2>2, <2>3 DEF Asked, Creating, Done
  <2>4. CASE /\ Asked(c, "update") /\ \A row \in ById(q.id) : ~Conflicts(Changed(row, q.data))
             /\ table' = (table \ ById(q.id)) \cup {Changed(row, q.data) : row \in ById(q.id)}
             /\ UNCHANGED serial
    BY <2>1, <2>2, <2>4 DEF Asked, Updating, Done
  <2>5. CASE /\ Asked(c, "delete") /\ UNCHANGED serial
             /\ table' = (table \ ById(q.id)) \cup
                    (IF setup.soft THEN {[row EXCEPT !.deletedAt = Gone] : row \in ById(q.id)}
                     ELSE {})
    BY <2>1, <2>2, <2>5 DEF Asked, Deleting, Done
  <2> QED
    BY <1>9, <2>3, <2>4, <2>5 DEF AnswerLost
<1> QED
  BY <1>2, <1>3, <1>4, <1>5, <1>6, <1>8, <1>9 DEF Statement

-----------------------------------------------------------------------------
(* What the statement of a call leaves to the others: rows it has not written,
   maybe hidden, and the one it has, whose email it has named. *)
Written(c, r, id) ==
    /\ r.id = id /\ r.email \in Names(ucall[c])
    /\ \/ id = serial + 1 /\ serial' = serial + 1
       \/ \E s \in table : s.id = id /\ (Visible(r)' => Visible(s))
    /\ \A s \in table :
           /\ s.email = r.email
           /\ "email" \in setup.unique \/ (Visible(s) /\ r.email \notin raced)
           => s.id = id
Traced(c, id) ==
    \A r \in table' :
        /\ {"id", "deletedAt", "email"} \subseteq DOMAIN r
        /\ \/ \E s \in table : r.id = s.id /\ r.email = s.email /\ (Visible(r)' => Visible(s))
           \/ Written(c, r, id)

LEMMA OthersKeep ==
    ASSUME UserInv, NEW c \in Clients, UserBusy(c), NEW id, Traced(c, id),
           serial' \in {serial, serial + 1},
           UNCHANGED <<setup, ucall, account, raced, dropped, missed>>,
           \A d \in Clients \ {c} : query'[d] = query[d]
    PROVE  /\ Unique' /\ Dropped' /\ Overlaps'
           /\ \A row \in table' :
                /\ {"id", "deletedAt", "email"} \subseteq DOMAIN row
                /\ row.id \in 1 .. serial' /\ row.email # Null
           /\ \A d \in Clients \ {c} : CallOK(d)' /\ Clear(d)' /\ Unmissed(d)'
<1>0. /\ RowsOK /\ Overlaps /\ Unique /\ Dropped
      /\ \A d \in Clients : CallOK(d) /\ Clear(d) /\ Unmissed(d)
      /\ setup' = setup /\ ucall' = ucall /\ account' = account
      /\ raced' = raced /\ dropped' = dropped /\ missed' = missed
  BY DEF UserInv
<1>1. Names(ucall[c]) \cap {Undefined, Null} = {}
  BY DEF UserInv, CallOK, Names, NoUserCall
<1>2. serial \in Nat /\ serial' \in Nat /\ serial <= serial'
  BY <1>0 DEF RowsOK
<1>3. ASSUME NEW row \in table'
      PROVE  /\ {"id", "deletedAt", "email"} \subseteq DOMAIN row
             /\ row.id \in 1 .. serial' /\ row.email # Null
  BY <1>0, <1>1, <1>2 DEF RowsOK, Traced, Written
<1>4. Unique'
  <2> SUFFICES ASSUME NEW r1 \in table', NEW r2 \in table', r1.email = r2.email,
                      \/ "email" \in setup.unique
                      \/ Visible(r1)' /\ Visible(r2)' /\ r1.email \notin raced
               PROVE  r1.id = r2.id
    BY <1>0 DEF Unique
  <2>1. CASE Written(c, r1, id) /\ Written(c, r2, id)
    BY <2>1 DEF Written
  <2>2. ASSUME NEW s1 \in table, r1.id = s1.id, r1.email = s1.email, Visible(r1)' => Visible(s1),
               NEW s2 \in table, r2.id = s2.id, r2.email = s2.email, Visible(r2)' => Visible(s2)
        PROVE  r1.id = r2.id
    BY <1>0, <2>2 DEF Unique
  <2>3. ASSUME NEW r \in {r1, r2}, NEW o \in {r1, r2}, Written(c, r, id),
               NEW s \in table, o.id = s.id, o.email = s.email, Visible(o)' => Visible(s)
        PROVE  r.id = o.id
    BY <2>3 DEF Written
  <2> QED
    BY <2>1, <2>2, <2>3 DEF Traced
<1>5. Dropped'
  BY <1>0, <1>2 DEF Dropped, Traced, Written
<1>6. Overlaps'
  BY <1>0 DEF Overlaps, UserBusy
<1>7. ASSUME NEW d \in Clients \ {c} PROVE CallOK(d)' /\ Clear(d)' /\ Unmissed(d)'
  <2>1. CallOK(d) /\ Clear(d) /\ Unmissed(d) /\ query'[d] = query[d]
    BY <1>0
  <2>2. CallOK(d)'
    BY <1>0, <1>2, <2>1 DEF CallOK
  <2>3. Clear(d)'
    <3> SUFFICES ASSUME ucall[d].op \in {"create", "update"}, UserBusy(d),
                        Looked(ucall[d], query[d]),
                        ucall[d].email # Undefined, ucall[d].email \notin raced,
                        NEW r \in table', Visible(r)', r.email = ucall[d].email
                 PROVE  ucall[d].op = "update" /\ r.id = ucall[d].id
      BY <1>0, <2>1 DEF Clear, UserBusy
    <3>1. ~Written(c, r, id)
      BY <1>0 DEF Overlaps, Written, Names
    <3> QED
      BY <2>1, <3>1 DEF Clear, Traced
  <2>4. Unmissed(d)'
    <3>1. ASSUME ucall[d].op = "delete", ucall[d].at = "answer", Done(query[d]),
                 NEW r \in table', Visible(r)'
          PROVE  r.id # ucall[d].id
      <4>1. ucall[d].id \in 1 .. serial /\ \A s \in table : Visible(s) => s.id # ucall[d].id
        BY <2>1, <3>1 DEF CallOK, Unmissed, NoUserCall
      <4> QED
        BY <1>2, <3>1, <4>1 DEF Traced, Written
    <3> QED
      BY <1>0, <2>1, <3>1 DEF Unmissed, UserBusy
  <2> QED
    BY <2>2, <2>3, <2>4
<1> QED
  BY <1>3, <1>4, <1>5, <1>6, <1>7

(* The statement of a call keeps the invariant. *)
LEMMA StatementKeeps ==
    ASSUME UserInv, NEW c \in Clients, ucall[c].at # "idle", Statement(c),
           UNCHANGED <<ucall, pcall, account, raced, dropped, missed>>
    PROVE  UserInv'
<1> DEFINE k == ucall[c]
           q == query[c]
           r == query'[c]
<1>0. /\ RowsOK /\ Overlaps /\ Unique /\ Dropped
      /\ CallOK(c) /\ Clear(c) /\ Unmissed(c)
      /\ DOMAIN ucall = Clients /\ DOMAIN query = Clients /\ DOMAIN missed = Clients
      /\ account.emails \cap {Undefined, Null} = {}
      /\ \A d \in Clients : pcall[d] = NoPrefCall
  BY DEF UserInv
<1>1. k # NoUserCall
  BY DEF NoUserCall
<1>2. q # NoQuery
  BY DEF Statement, Find, Insert, UpdateById, DeleteById, Reread, ViolatesUnique, Unsent,
         AnswerLost, Asked, NoQuery
<1>3. /\ IsCall(k) /\ IsQuery(q) /\ Awaits(k, q)
      /\ q.at = "reread" => q.do \in {"create", "update"}
      /\ k.op \in {"create", "update"} => k.email \in account.emails \cup {Undefined}
      /\ k.op = "create" => k.email # Undefined
      /\ k.op \in {"update", "delete"} => k.id \in 1 .. serial
  BY <1>0, <1>1, <1>2 DEF CallOK
<1>4. UserBusy(c) /\ k.at \in {"check", "find", "answer"}
  BY <1>3 DEF Awaits, UserBusy
<1>5. /\ setup' = setup /\ QueryStays(c)
      /\ Reading(c) \/ Creating(c) \/ Updating(c) \/ Deleting(c)
  BY <1>0, <1>3, StatementMoves
<1>6. serial \in Nat /\ missed[c] \subseteq dropped /\ dropped \subseteq 1 .. serial
  BY <1>0 DEF RowsOK, Dropped
<1>7. ASSUME serial' \in {serial, serial + 1} PROVE CallOK(c)'
  <2>1. Awaits(k, r)
    BY <1>3, <1>5 DEF Awaits, QueryStays
  <2>2. k.op \in {"update", "delete"} => k.id \in 1 .. serial'
    BY <1>3, <1>6, <1>7
  <2>3. IsQuery(r) /\ (r.at = "reread" => r.do \in {"create", "update"})
    BY <1>5 DEF QueryStays
  <2> QED
    BY <1>0, <1>1, <1>3, <2>1, <2>2, <2>3 DEF CallOK
<1>8. ASSUME NEW id, Traced(c, id), serial' \in {serial, serial + 1},
             \A row, other \in table' : row.id = other.id => row = other,
             Clear(c)', Unmissed(c)'
      PROVE  UserInv'
  <2>1. \A d \in Clients \ {c} : query'[d] = query[d]
    BY <1>5 DEF QueryStays
  <2>2. /\ Unique' /\ Dropped' /\ Overlaps'
        /\ \A row \in table' :
             /\ {"id", "deletedAt", "email"} \subseteq DOMAIN row
             /\ row.id \in 1 .. serial' /\ row.email # Null
        /\ \A d \in Clients \ {c} : CallOK(d)' /\ Clear(d)' /\ Unmissed(d)'
    BY <1>4, <1>5, <1>8, <2>1, OthersKeep
  <2>3. RowsOK'
    BY <1>6, <1>8, <2>2 DEF RowsOK
  <2>4. DOMAIN query' = Clients
    BY <1>5 DEF QueryStays
  <2> QED
    BY <1>0, <1>7, <1>8, <2>2, <2>3, <2>4 DEF UserInv
<1>9. k.at = "answer" /\ r.at # "statement" => Clear(c)'
  BY DEF Clear, Looked
<1>10. r.at # "statement"
  BY <1>5 DEF QueryStays
<1>11. CASE Reading(c)
  <2>1. table' = table /\ serial' = serial
    BY <1>11 DEF Reading
  <2>2. Traced(c, 0)
    BY <1>0, <1>5, <2>1 DEF Traced, RowsOK, Visible
  <2>3. ASSUME Done(r)
        PROVE  \/ /\ q.do \in Reads /\ r.rows \subseteq Found(q)
                  /\ r.rows = {} => Found(q) = {}
               \/ q.at = "reread" /\ r.rows = ById(q.id)
    BY <1>11, <2>3 DEF Reading
  <2>4. \A row \in Found(q) : row \in table /\ Visible(row)
    BY DEF Found, FindMany, ById
  <2>5. k.at \in {"check", "find"} => q.at # "reread" /\ q.do \in {"findOne", "findById"}
    BY <1>3 DEF Awaits
  <2>6. q.do = "findById" => \A row \in Found(q) : row.id = q.id
    BY DEF Found, ById
  <2>7. Clear(c)'
    <3>1. CASE k.at = "answer"
      BY <1>9, <1>10, <3>1
    <3>2. CASE k.at = "check"
      <4>1. q.do = "findOne" /\ q.where = [email |-> k.email] /\ k.email # Undefined
        BY <1>3, <3>2 DEF Awaits
      <4>2. k.email # Null
        BY <1>0, <1>3, <3>2, <4>1 DEF Awaits
      <4>3. ASSUME Found(q) = {}, NEW row \in table, Visible(row) PROVE row.email # k.email
        BY <4>1, <4>2, <4>3 DEF Found, FindMany, FieldMatches
      <4>4. Looked(k, r) => r.rows = {} /\ Done(r)
        BY <3>2 DEF Looked
      <4>5. Looked(k, r) => \A row \in table : Visible(row) => row.email # k.email
        BY <2>3, <2>5, <3>2, <4>3, <4>4
      <4> QED
        BY <1>5, <2>1, <4>5 DEF Clear, Visible
    <3>3. CASE k.at = "find"
      <4>1. q.do = "findById" /\ q.id = k.id
        BY <1>3, <3>3 DEF Awaits
      <4> SUFFICES ASSUME k.op = "update", Done(r), k.email \notin raced,
                          NEW own \in r.rows, own.email = k.email,
                          NEW row \in table, Visible(row), row.email = k.email
                   PROVE  row.id = k.id
        BY <1>3, <1>5, <2>1, <3>3 DEF Clear, Looked, Visible, Awaits
      <4>2. own \in table /\ Visible(own) /\ own.id = k.id
        BY <2>3, <2>4, <2>5, <2>6, <3>3, <4>1
      <4> QED
        BY <1>0, <4>2 DEF Unique
    <3> QED
      BY <1>4, <3>1, <3>2, <3>3
  <2>8. Unmissed(c)'
    <3>1. Done(r) => \A row \in r.rows : row.id \notin missed[c]
      <4>1. CASE q.at = "reread" /\ r.rows = ById(q.id)
        BY <1>0, <1>4, <4>1 DEF Unmissed, ById
      <4>2. CASE r.rows \subseteq Found(q)
        BY <1>0, <1>6, <2>4, <4>2 DEF Dropped
      <4> QED
        BY <2>3, <4>1, <4>2
    <3>2. k.at = "find" /\ Done(r) => \A row \in r.rows : row.id = k.id
      <4>1. k.at = "find" => q.do = "findById" /\ q.id = k.id
        BY <1>3 DEF Awaits
      <4> QED
        BY <2>3, <2>5, <2>6, <4>1
    <3>3. r.at = "settled"
      BY <1>11 DEF Reading
    <3>4. ~(k.op = "delete" /\ k.at = "answer" /\ Done(r))
      BY <1>3, <2>3 DEF Awaits, Reads
    <3> QED
      BY <1>0, <1>4, <2>1, <3>1, <3>2, <3>3, <3>4 DEF Unmissed, UserBusy
  <2> QED
    BY <1>0, <1>8, <2>1, <2>2, <2>7, <2>8 DEF RowsOK
<1>12. CASE Creating(c)
  <2> DEFINE new == Inserted(q.data)
  <2>1. /\ q.at = "statement" /\ q.do = "create" /\ ~Conflicts(new)
        /\ table' = table \cup {new} /\ serial' = serial + 1
    BY <1>12 DEF Creating
  <2>2. k.at = "answer" /\ k.op = "create" /\ q.data = [email |-> k.email]
    BY <1>3, <2>1 DEF Awaits, Reads
  <2>3. k.email \notin {Undefined, Null}
    BY <1>0, <1>3, <2>2
  <2>4. /\ {"id", "deletedAt", "email"} \subseteq DOMAIN new
        /\ new.id = serial + 1 /\ new.email = k.email
    BY <2>2, <2>3 DEF Inserted, Stored
  <2>5. "email" \in setup.unique => \A s \in table : s.email = new.email => s.id = serial + 1
    BY <2>1, <2>3, <2>4 DEF Conflicts
  <2> HIDE DEF new
  <2>6. k.email \notin raced => \A s \in table : Visible(s) => s.email # new.email
    BY <1>0, <1>4, <2>1, <2>2, <2>3, <2>4 DEF Clear, Looked
  <2>7. Written(c, new, serial + 1)
    BY <2>1, <2>2, <2>3, <2>4, <2>5, <2>6 DEF Written, Names
  <2>8. Traced(c, serial + 1)
    BY <1>0, <1>5, <2>1, <2>4, <2>7 DEF Traced, RowsOK, Visible
  <2>9. \A row, other \in table' : row.id = other.id => row = other
    <3>1. \A row \in table : row.id # serial + 1
      BY <1>0, <1>6 DEF RowsOK
    <3> QED
      BY <1>0, <2>1, <2>4, <3>1 DEF RowsOK
  <2>10. serial + 1 \notin missed[c]
    BY <1>6
  <2>11. Unmissed(c)'
    <3>1. Done(r) => r.rows = {new}
      BY <1>12 DEF Creating, new
    <3>2. r.at = "reread" => r.id = serial + 1
      BY <1>12 DEF Creating
    <3> QED
      BY <2>2, <2>4, <2>10, <3>1, <3>2 DEF Unmissed
  <2> QED
    BY <1>8, <1>9, <1>10, <2>1, <2>2, <2>8, <2>9, <2>11
<1>13. CASE Updating(c)
  <2> DEFINE rows == {Changed(row, q.data) : row \in ById(q.id)}
  <2>1. /\ q.at = "statement" /\ q.do = "update" /\ \A row \in rows : ~Conflicts(row)
        /\ table' = (table \ ById(q.id)) \cup rows /\ serial' = serial
        /\ Done(r) => r.rows = rows
    BY <1>13 DEF Updating
  <2>2. /\ k.at = "answer" /\ k.op = "update" /\ q.id = k.id
        /\ q.data = IF k.email = Undefined THEN <<>> ELSE [email |-> k.email]
    BY <1>3, <2>1 DEF Awaits, Reads
  <2>3. k.email # Null \/ k.email = Undefined
    BY <1>0, <1>3, <2>2
  <2>4. ASSUME NEW row \in rows
        PROVE  \E s \in table :
                   /\ s.id = k.id /\ row = Changed(s, q.data)
                   /\ DOMAIN row = DOMAIN s /\ row.id = s.id /\ row.deletedAt = s.deletedAt
                   /\ row.email = IF k.email = Undefined THEN s.email ELSE k.email
    <3>1. PICK s \in table : s.id = k.id /\ row = Changed(s, q.data)
      BY <2>2 DEF ById
    <3>2. {"id", "deletedAt", "email"} \subseteq DOMAIN s
      BY <1>0 DEF RowsOK
    <3>3. "email" \in DOMAIN q.data <=> k.email # Undefined
      BY <2>2
    <3>4. "id" \notin DOMAIN q.data /\ "deletedAt" \notin DOMAIN q.data
      BY <2>2
    <3> QED
      BY <2>2, <3>1, <3>2, <3>3, <3>4 DEF Changed
  <2>5. ASSUME NEW row \in rows, row.email # Null, "email" \in setup.unique,
               NEW s \in table, s.email = row.email
        PROVE  s.id = k.id
    BY <2>1, <2>4, <2>5 DEF Conflicts
  <2>6. \A row \in ById(q.id) : row.id = k.id
    BY <2>2 DEF ById
  <2> HIDE DEF rows
  <2>7. ASSUME NEW row \in rows, k.email # Undefined PROVE Written(c, row, k.id)
    <3>1. PICK s \in table : /\ s.id = k.id /\ row.id = s.id /\ row.deletedAt = s.deletedAt
                             /\ row.email = k.email
      BY <2>4, <2>7
    <3>2. Visible(row)' => Visible(s)
      BY <1>5, <3>1 DEF Visible
    <3>3. ASSUME NEW o \in table, o.email = row.email,
                 "email" \in setup.unique \/ (Visible(o) /\ row.email \notin raced)
          PROVE  o.id = k.id
      BY <1>0, <1>4, <2>1, <2>2, <2>3, <2>5, <2>7, <3>1, <3>3 DEF Clear, Looked
    <3> QED
      BY <2>2, <2>7, <3>1, <3>2, <3>3 DEF Written, Names
  <2>8. Traced(c, k.id)
    <3>1. ASSUME NEW row \in rows
          PROVE  /\ {"id", "deletedAt", "email"} \subseteq DOMAIN row
                 /\ \/ \E s \in table : /\ row.id = s.id /\ row.email = s.email
                                        /\ (Visible(row)' => Visible(s))
                    \/ Written(c, row, k.id)
      <4>1. PICK s \in table :
                /\ s.id = k.id /\ DOMAIN row = DOMAIN s
                /\ row.id = s.id /\ row.deletedAt = s.deletedAt
                /\ row.email = IF k.email = Undefined THEN s.email ELSE k.email
        BY <2>4
      <4>2. Visible(row)' => Visible(s)
        BY <1>5, <4>1 DEF Visible
      <4> QED
        BY <1>0, <2>7, <4>1, <4>2 DEF RowsOK
    <3>2. ASSUME NEW row \in table
          PROVE  /\ {"id", "deletedAt", "email"} \subseteq DOMAIN row
                 /\ Visible(row)' => Visible(row)
      BY <1>0, <1>5 DEF RowsOK, Visible
    <3> QED
      BY <2>1, <3>1, <3>2 DEF Traced
  <2>9. \A row, other \in table' : row.id = other.id => row = other
    <3>1. \A row, other \in rows : row = other
      BY <1>0, <2>4 DEF RowsOK
    <3>2. \A row \in table \ ById(q.id) : row.id # k.id
      BY <2>2 DEF ById
    <3>3. \A row \in rows : row.id = k.id
      BY <2>4
    <3> QED
      BY <1>0, <2>1, <3>1, <3>2, <3>3 DEF RowsOK
  <2>10. k.id \notin missed[c]
    BY <1>0, <1>4, <2>2 DEF Unmissed
  <2>11. Unmissed(c)'
    <3>1. Done(r) => \A row \in r.rows : row.id = k.id
      BY <2>1, <2>4
    <3>2. r.id = k.id
      BY <1>5, <2>1, <2>2 DEF QueryStays
    <3> QED
      BY <2>2, <2>10, <3>1, <3>2 DEF Unmissed
  <2> QED
    BY <1>8, <1>9, <1>10, <2>1, <2>2, <2>8, <2>9, <2>11
<1>14. CASE Deleting(c)
  <2>1. /\ q.at = "statement" /\ q.do = "delete" /\ r.at = "settled" /\ serial' = serial
        /\ table' = (table \ ById(q.id)) \cup
               (IF setup.soft THEN {[row EXCEPT !.deletedAt = Gone] : row \in ById(q.id)} ELSE {})
        /\ Done(r) => r.rows = {}
    BY <1>14 DEF Deleting
  <2>2. k.at = "answer" /\ k.op = "delete" /\ q.id = k.id
    BY <1>3, <2>1 DEF Awaits, Reads
  <2>3. ASSUME NEW row \in table'
        PROVE  \/ row \in table /\ row.id # k.id
               \/ /\ setup.soft /\ row.deletedAt = Gone
                  /\ \E s \in table :
                        /\ s.id = k.id /\ row = [s EXCEPT !.deletedAt = Gone]
                        /\ DOMAIN row = DOMAIN s /\ row.id = s.id /\ row.email = s.email
    <3>1. CASE row \in table \ ById(q.id)
      BY <2>2, <3>1 DEF ById
    <3>2. ASSUME setup.soft, NEW s \in ById(q.id), row = [s EXCEPT !.deletedAt = Gone]
          PROVE  /\ row.deletedAt = Gone /\ s \in table /\ s.id = k.id
                 /\ DOMAIN row = DOMAIN s /\ row.id = s.id /\ row.email = s.email
      BY <1>0, <2>2, <3>2 DEF ById, RowsOK
    <3> QED
      BY <2>1, <3>1, <3>2
  <2>4. \A row \in table' : Visible(row)' => row \in table /\ row.id # k.id
    BY <1>5, <2>3, AdaptersAssumption DEF Visible
  <2>5. Traced(c, 0)
    <3>1. ASSUME NEW row \in table'
          PROVE  /\ {"id", "deletedAt", "email"} \subseteq DOMAIN row
                 /\ \E s \in table : row.id = s.id /\ row.email = s.email
                                     /\ (Visible(row)' => Visible(s))
      <4>1. PICK s \in table :
                /\ row.id = s.id /\ row.email = s.email /\ DOMAIN row = DOMAIN s
                /\ row = s \/ s.id = k.id
        BY <2>3
      <4>2. Visible(row)' => row = s
        BY <2>4, <4>1
      <4> QED
        BY <1>0, <1>5, <4>1, <4>2 DEF RowsOK, Visible
    <3> QED
      BY <3>1 DEF Traced
  <2>6. \A row, other \in table' : row.id = other.id => row = other
    BY <1>0, <2>3 DEF RowsOK
  <2>7. Unmissed(c)'
    BY <2>1, <2>2, <2>4 DEF Unmissed
  <2> QED
    BY <1>8, <1>9, <1>10, <2>1, <2>2, <2>5, <2>6, <2>7
<1> QED
  BY <1>5, <1>11, <1>12, <1>13, <1>14

-----------------------------------------------------------------------------
(* The service between two queries. *)

LEMMA QuietKeeps ==
    ASSUME UserInv, NEW c \in Clients, UNCHANGED <<setup, table, serial, account, pcall>>,
           DOMAIN ucall' = Clients, DOMAIN query' = Clients, DOMAIN missed' = Clients,
           \A d \in Clients \ {c} :
               ucall'[d] = ucall[d] /\ query'[d] = query[d] /\ missed'[d] = missed[d],
           raced \subseteq raced',
           \A d \in Clients \ {c} :
               UserBusy(c)' /\ UserBusy(d) =>
                   Names(ucall'[c]) \cap Names(ucall[d]) \subseteq raced',
           Dropped', CallOK(c)', Clear(c)', Unmissed(c)'
    PROVE  UserInv'
<1>1. RowsOK' /\ Unique'
  BY DEF UserInv, RowsOK, Unique, Visible
<1>2. Overlaps'
  <2> SUFFICES ASSUME NEW d \in Clients, NEW e \in Clients, d # e, UserBusy(d)', UserBusy(e)'
               PROVE  Names(ucall'[d]) \cap Names(ucall'[e]) \subseteq raced'
    BY DEF Overlaps
  <2>1. CASE d # c /\ e # c
    BY <2>1 DEF UserInv, Overlaps, UserBusy
  <2>2. CASE d = c \/ e = c
    BY <2>2 DEF UserBusy
  <2> QED
    BY <2>1, <2>2
<1>3. ASSUME NEW d \in Clients \ {c} PROVE CallOK(d)' /\ Clear(d)' /\ Unmissed(d)'
  <2>1. CallOK(d)'
    BY DEF UserInv, CallOK
  <2>2. Clear(d)'
    BY DEF UserInv, Clear, UserBusy, Visible
  <2>3. Unmissed(d)'
    BY DEF UserInv, Unmissed, UserBusy, Visible
  <2> QED
    BY <2>1, <2>2, <2>3
<1> QED
  BY <1>1, <1>2, <1>3 DEF UserInv

LEMMA AsksKeeps ==
    ASSUME UserInv, NEW c \in Clients, UserBusy(c), NEW at, NEW q, UserAsks(c, at, q),
           UNCHANGED <<pcall, account, raced, dropped, missed>>,
           IsQuery(q), q.at = "statement", Awaits([ucall[c] EXCEPT !.at = at], q),
           at = "answer" /\ ucall[c].op \in {"create", "update"} /\ ucall[c].email # Undefined
               /\ ucall[c].email \notin raced =>
               \A row \in table : Visible(row) /\ row.email = ucall[c].email =>
                   ucall[c].op = "update" /\ row.id = ucall[c].id,
           ucall[c].op = "update" => ucall[c].id \notin missed[c]
    PROVE  UserInv'
<1> DEFINE k == ucall[c]
<1>0. /\ CallOK(c) /\ Overlaps /\ Dropped
      /\ DOMAIN ucall = Clients /\ DOMAIN query = Clients /\ DOMAIN missed = Clients
  BY DEF UserInv
<1>1. IsCall(k)
  BY <1>0 DEF CallOK, UserBusy, NoUserCall
<1>2. /\ ucall' = [ucall EXCEPT ![c] = [k EXCEPT !.at = at]]
      /\ query' = [query EXCEPT ![c] = q] /\ UNCHANGED <<setup, table, serial>>
  BY DEF UserAsks, Asks, Untouched
<1>3. /\ IsCall(ucall'[c]) /\ ucall'[c].at = at /\ ucall'[c].op = k.op
      /\ ucall'[c].id = k.id /\ ucall'[c].email = k.email /\ query'[c] = q
      /\ ucall'[c] = [k EXCEPT !.at = at]
      /\ DOMAIN ucall' = Clients /\ DOMAIN query' = Clients
      /\ \A d \in Clients \ {c} : ucall'[d] = ucall[d] /\ query'[d] = query[d]
  BY <1>0, <1>1, <1>2 DEF IsCall
<1>4. CallOK(c)'
  BY <1>0, <1>1, <1>2, <1>3 DEF CallOK, NoUserCall, IsCall
<1>5. at # "returned"
  BY <1>3 DEF Awaits
<1>6. Clear(c)'
  BY <1>2, <1>3 DEF Clear, Looked, Done, Visible
<1>7. Unmissed(c)'
  BY <1>3, <1>5 DEF Unmissed, Done, UserBusy
<1>8. Dropped'
  BY <1>0, <1>2 DEF Dropped, Visible
<1>9. \A d \in Clients \ {c} : UserBusy(d) => Names(ucall'[c]) \cap Names(ucall[d]) \subseteq raced
  BY <1>0, <1>3 DEF Overlaps, Names
<1> QED
  BY <1>0, <1>2, <1>3, <1>4, <1>6, <1>7, <1>8, <1>9, QuietKeeps

LEMMA AnswersKeeps ==
    ASSUME UserInv, NEW c \in Clients, UserBusy(c), NEW out, NEW rows, UserAnswers(c, out, rows),
           UNCHANGED <<pcall, account, raced, missed>>,
           out = "done" => \A row \in rows : row.id \notin missed[c],
           \/ dropped' = dropped
           \/ /\ dropped' = dropped \cup {ucall[c].id} /\ ucall[c].op = "delete"
              /\ \A row \in table : Visible(row) => row.id # ucall[c].id
    PROVE  UserInv'
<1> DEFINE k == ucall[c]
<1>0. /\ CallOK(c) /\ Dropped
      /\ DOMAIN ucall = Clients /\ DOMAIN query = Clients /\ DOMAIN missed = Clients
  BY DEF UserInv
<1>1. IsCall(k)
  BY <1>0 DEF CallOK, UserBusy, NoUserCall
<1>2. /\ ucall' = [ucall EXCEPT ![c] = [k EXCEPT !.at = "returned", !.out = out, !.rows = rows]]
      /\ query' = [query EXCEPT ![c] = NoQuery] /\ UNCHANGED <<setup, table, serial>>
  BY DEF UserAnswers, Untouched
<1>3. /\ IsCall(ucall'[c]) /\ ucall'[c].at = "returned" /\ ucall'[c].op = k.op
      /\ ucall'[c].id = k.id /\ ucall'[c].email = k.email
      /\ ucall'[c].out = out /\ ucall'[c].rows = rows /\ query'[c] = NoQuery
      /\ DOMAIN ucall' = Clients /\ DOMAIN query' = Clients
      /\ \A d \in Clients \ {c} : ucall'[d] = ucall[d] /\ query'[d] = query[d]
  BY <1>0, <1>1, <1>2 DEF IsCall
<1>4. k.op \in {"update", "delete"} => k.id \in 1 .. serial
  BY <1>0 DEF CallOK, NoUserCall
<1>5. CallOK(c)'
  BY <1>0, <1>1, <1>2, <1>3 DEF CallOK, NoUserCall
<1>6. ~UserBusy(c)'
  BY <1>3 DEF UserBusy
<1>7. Clear(c)'
  BY <1>6 DEF Clear
<1>8. Unmissed(c)'
  BY <1>3, <1>6 DEF Unmissed, UserBusy
<1>9. Dropped'
  BY <1>0, <1>2, <1>4 DEF Dropped, Visible
<1> QED
  BY <1>0, <1>2, <1>3, <1>5, <1>6, <1>7, <1>8, <1>9, QuietKeeps

-----------------------------------------------------------------------------
(* The steps of the users' clients. *)

LEMMA MovesKeep ==
    ASSUME UserInv, NEW c \in Clients, UserMoves(c)
    PROVE  UserInv'
<1> DEFINE k == ucall[c]
           q == query[c]
<1>0. /\ CallOK(c) /\ Clear(c) /\ Unmissed(c) /\ Dropped
      /\ DOMAIN ucall = Clients /\ DOMAIN query = Clients
      /\ account.emails \cap {Undefined, Null} = {}
  BY DEF UserInv
<1>1. UNCHANGED <<pcall, account, raced, missed>>
  BY DEF UserMoves
<1>2. dropped' = IF k.op = "delete" /\ ucall'[c].at = "returned" /\ ucall'[c].out = "done"
                 THEN dropped \cup {k.id} ELSE dropped
  BY DEF UserMoves
<1>3. CASE ucall[c].at # "idle" /\ Statement(c) /\ UNCHANGED ucall
  <2>1. q # NoQuery
    BY <1>3 DEF Statement, Find, Insert, UpdateById, DeleteById, Reread, ViolatesUnique, Unsent,
                AnswerLost, Asked, NoQuery
  <2>2. k.at # "returned"
    BY <1>0, <2>1 DEF CallOK, Awaits
  <2>3. dropped' = dropped
    BY <1>2, <1>3, <2>2
  <2> QED
    BY <1>1, <1>3, <2>3, StatementKeeps
<1>4. ASSUME k.at \in {"check", "find", "answer"}, Settled(c)
      PROVE  /\ UserBusy(c) /\ IsCall(k) /\ IsQuery(q) /\ Awaits(k, q)
             /\ k.op = "create" => k.email \in account.emails
             /\ k.op = "update" => k.email \in account.emails \cup {Undefined}
             /\ (Served(c) <=> Done(q))
  BY <1>0, <1>4 DEF CallOK, NoUserCall, Settled, Served, Done, UserBusy
<1>5. ASSUME k.at \in {"check", "find", "answer"}, NEW out, NEW rows, UserAnswers(c, out, rows)
      PROVE  ucall'[c].at = "returned" /\ ucall'[c].out = out
  <2>1. IsCall(k)
    BY <1>0, <1>5 DEF CallOK, NoUserCall
  <2> QED
    BY <1>0, <1>5, <2>1 DEF UserAnswers, IsCall
<1>6. ASSUME k.at \in {"check", "find", "answer"}, Settled(c), NEW out, out # "done",
             UserAnswers(c, out, {})
      PROVE  UserInv'
  <2>1. dropped' = dropped
    BY <1>2, <1>5, <1>6
  <2> QED
    BY <1>1, <1>4, <1>6, <2>1, AnswersKeeps
<1>7. ASSUME NEW at \in {"check", "find", "answer"}, NEW qry, UserAsks(c, at, qry),
             k.at \in {"check", "find", "answer"}
      PROVE  dropped' = dropped
  <2>1. IsCall(k)
    BY <1>0, <1>7 DEF CallOK, NoUserCall
  <2>2. ucall'[c].at = at
    BY <1>0, <1>7, <2>1 DEF UserAsks, IsCall
  <2> QED
    BY <1>2, <2>2
<1>8. \A email, id :
          /\ IsQuery(CreateUser(email)) /\ IsQuery(ByEmail(email)) /\ IsQuery(UpdateUser(id, email))
          /\ IsQuery(Query("delete", id, NoFilter, NoFilter))
  BY DEF IsQuery, CreateUser, ByEmail, UpdateUser, Query
<1>9. CASE CreateChecked(c)
  <2>1. k.op = "create" /\ k.at = "check" /\ Settled(c) /\ Done(q)
    BY <1>9 DEF CreateChecked, UserAwaits, Served, Settled, Done
  <2>2. CASE UserAnswers(c, "threw", {})
    BY <1>6, <2>1, <2>2
  <2>3. CASE q.rows = {} /\ UserAsks(c, "answer", CreateUser(k.email))
    <3>1. UserBusy(c) /\ IsCall(k) /\ dropped' = dropped
      BY <1>4, <1>7, <2>1, <2>3
    <3>2. Awaits([k EXCEPT !.at = "answer"], CreateUser(k.email))
      BY <2>1, <3>1 DEF Awaits, CreateUser, Query, IsCall
    <3>3. k.email # Undefined /\ k.email \notin raced =>
              \A row \in table :
                  Visible(row) /\ row.email = k.email => k.op = "update" /\ row.id = k.id
      BY <1>0, <2>1, <2>3, <3>1 DEF Clear, Looked
    <3>4. CreateUser(k.email).at = "statement"
      BY DEF CreateUser, Query
    <3> QED
      BY <1>1, <1>8, <2>1, <2>3, <3>1, <3>2, <3>3, <3>4, AsksKeeps
  <2> QED
    BY <1>9, <2>2, <2>3 DEF CreateChecked
<1>10. CASE UpdateFound(c)
  <2>1. k.op = "update" /\ k.at = "find" /\ Settled(c) /\ Done(q)
    BY <1>10 DEF UpdateFound, UserAwaits, Served, Settled, Done
  <2>2. UserBusy(c) /\ IsCall(k)
    BY <1>4, <2>1
  <2>3. q.rows # {} => k.id \notin missed[c]
    BY <1>0, <2>1, <2>2 DEF Unmissed
  <2>4. CASE UserAnswers(c, "threw", {})
    BY <1>6, <2>1, <2>4
  <2>5. CASE /\ q.rows # {} /\ UserAsks(c, "check", ByEmail(k.email))
             /\ \E row \in q.rows : k.email \notin {Undefined, row.email}
    <3>1. Awaits([k EXCEPT !.at = "check"], ByEmail(k.email))
      BY <2>1, <2>2, <2>5 DEF Awaits, ByEmail, Query, IsCall
    <3>2. ByEmail(k.email).at = "statement" /\ dropped' = dropped
      BY <1>7, <2>1, <2>5 DEF ByEmail, Query
    <3> QED
      BY <1>1, <1>8, <2>2, <2>3, <2>5, <3>1, <3>2, AsksKeeps
  <2>6. CASE /\ q.rows # {} /\ UserAsks(c, "answer", UpdateUser(k.id, k.email))
             /\ ~\E row \in q.rows : k.email \notin {Undefined, row.email}
    <3>1. Awaits([k EXCEPT !.at = "answer"], UpdateUser(k.id, k.email))
      BY <2>1, <2>2 DEF Awaits, UpdateUser, Query, IsCall
    <3>2. UpdateUser(k.id, k.email).at = "statement" /\ dropped' = dropped
      BY <1>7, <2>1, <2>6 DEF UpdateUser, Query
    <3>3. k.email # Undefined => \E row \in q.rows : row.email = k.email
      BY <2>6
    <3>4. k.email # Undefined /\ k.email \notin raced =>
              \A row \in table :
                  Visible(row) /\ row.email = k.email => k.op = "update" /\ row.id = k.id
      BY <1>0, <2>1, <2>2, <3>3 DEF Clear, Looked
    <3> QED
      BY <1>1, <1>8, <2>2, <2>3, <2>6, <3>1, <3>2, <3>4, AsksKeeps
  <2> QED
    BY <1>10, <2>4, <2>5, <2>6 DEF UpdateFound
<1>11. CASE UpdateChecked(c)
  <2>1. k.op = "update" /\ k.at = "check" /\ Settled(c) /\ Done(q)
    BY <1>11 DEF UpdateChecked, UserAwaits, Served, Settled, Done
  <2>2. UserBusy(c) /\ IsCall(k) /\ k.id \notin missed[c]
    BY <1>0, <1>4, <2>1 DEF Unmissed
  <2>3. CASE UserAnswers(c, "threw", {})
    BY <1>6, <2>1, <2>3
  <2>4. CASE q.rows = {} /\ UserAsks(c, "answer", UpdateUser(k.id, k.email))
    <3>1. Awaits([k EXCEPT !.at = "answer"], UpdateUser(k.id, k.email))
      BY <2>1, <2>2 DEF Awaits, UpdateUser, Query, IsCall
    <3>2. UpdateUser(k.id, k.email).at = "statement" /\ dropped' = dropped
      BY <1>7, <2>1, <2>4 DEF UpdateUser, Query
    <3>3. k.email # Undefined /\ k.email \notin raced =>
              \A row \in table :
                  Visible(row) /\ row.email = k.email => k.op = "update" /\ row.id = k.id
      BY <1>0, <2>1, <2>2, <2>4 DEF Clear, Looked
    <3> QED
      BY <1>1, <1>8, <2>2, <2>4, <3>1, <3>2, <3>3, AsksKeeps
  <2> QED
    BY <1>11, <2>3, <2>4 DEF UpdateChecked
<1>12. CASE DeleteFound(c)
  <2> DEFINE qry == Query("delete", k.id, NoFilter, NoFilter)
  <2>1. k.op = "delete" /\ k.at = "find" /\ Settled(c)
    BY <1>12 DEF DeleteFound, UserAwaits, Served, Settled
  <2>2. UserBusy(c) /\ IsCall(k)
    BY <1>4, <2>1
  <2>3. CASE UserAnswers(c, "threw", {})
    BY <1>6, <2>1, <2>3
  <2>4. CASE UserAsks(c, "answer", qry)
    <3>1. Awaits([k EXCEPT !.at = "answer"], qry)
      BY <2>1, <2>2 DEF Awaits, Query, IsCall
    <3>2. qry.at = "statement" /\ dropped' = dropped
      BY <1>7, <2>1, <2>4 DEF Query
    <3> QED
      BY <1>1, <1>8, <2>1, <2>2, <2>4, <3>1, <3>2, AsksKeeps
  <2> QED
    BY <1>12, <2>3, <2>4 DEF DeleteFound
<1>13. CASE UserServed(c)
  <2>1. k.at = "answer" /\ Settled(c) /\ Done(q) /\ UserAnswers(c, "done", q.rows)
    BY <1>13 DEF UserServed, Served, Settled, Done
  <2>2. UserBusy(c)
    BY <1>4, <2>1
  <2>3. \A row \in q.rows : row.id \notin missed[c]
    BY <1>0, <2>1, <2>2 DEF Unmissed
  <2>4. k.op = "delete" => \A row \in table : Visible(row) => row.id # k.id
    BY <1>0, <2>1 DEF Unmissed
  <2>5. dropped' = IF k.op = "delete" THEN dropped \cup {k.id} ELSE dropped
    BY <1>2, <1>5, <2>1
  <2> QED
    BY <1>1, <2>1, <2>2, <2>3, <2>4, <2>5, AnswersKeeps
<1>14. CASE UserFails(c)
  <2>1. /\ k.at \in {"check", "find", "answer"} /\ Settled(c) /\ q.out # "done"
        /\ UserAnswers(c, q.out, {})
    BY <1>14 DEF UserFails, Served
  <2> QED
    BY <1>6, <2>1
<1> QED
  BY <1>3, <1>9, <1>10, <1>11, <1>12, <1>13, <1>14 DEF UserMoves, UserStep

LEMMA LeavesKeep ==
    ASSUME UserInv, NEW c \in Clients, UserLeaves(c)
    PROVE  UserInv'
<1>0. /\ CallOK(c) /\ Dropped
      /\ DOMAIN ucall = Clients /\ DOMAIN query = Clients /\ DOMAIN missed = Clients
  BY DEF UserInv
<1>1. /\ ucall[c].at = "returned"
      /\ ucall' = [ucall EXCEPT ![c] = NoUserCall] /\ missed' = [missed EXCEPT ![c] = {}]
      /\ UNCHANGED <<setup, table, serial, query, account, pcall, raced, dropped>>
  BY DEF UserLeaves, UserEnds, Untouched
<1>2. query[c] = NoQuery
  BY <1>0, <1>1 DEF CallOK, NoUserCall, Awaits
<1>3. ucall'[c] = NoUserCall /\ missed'[c] = {} /\ query'[c] = NoQuery
  BY <1>0, <1>1, <1>2
<1>4. ~UserBusy(c)'
  BY <1>3 DEF UserBusy, NoUserCall
<1>5. CallOK(c)' /\ Clear(c)' /\ Unmissed(c)'
  BY <1>3, <1>4 DEF CallOK, Clear, Unmissed, UserBusy, NoUserCall
<1>6. Dropped'
  BY <1>0, <1>1 DEF Dropped, Visible
<1> QED
  BY <1>0, <1>1, <1>4, <1>5, <1>6, QuietKeeps

LEMMA CallsKeep ==
    ASSUME UserInv, NEW c \in Clients, UserCalls(c)
    PROVE  UserInv'
<1>0. /\ CallOK(c) /\ Dropped /\ RowsOK
      /\ DOMAIN ucall = Clients /\ DOMAIN query = Clients /\ DOMAIN missed = Clients
      /\ account.emails \cap {Undefined, Null} = {}
  BY DEF UserInv
<1>1. /\ missed' = [missed EXCEPT ![c] = dropped]
      /\ raced' = raced \cup UNION {Names(ucall[d]) \cap Names(ucall'[c]) :
                                       d \in {d \in Others(c) : UserBusy(d)}}
      /\ UNCHANGED <<pcall, account, dropped>>
  BY DEF UserCalls
<1>2. PICK op \in account.ops :
          \E id \in IF op \in {"update", "delete", "findById"} THEN 1 .. serial ELSE {Undefined},
             email \in CASE op \in {"create", "findByEmail"} -> account.emails
                         [] op = "update" -> account.emails \cup {Undefined}
                         [] OTHER -> {Undefined} :
              UserStarts(c, op, id, email)
  BY DEF UserCalls
<1>3. PICK id, email :
          /\ op \in {"update", "delete"} => id \in 1 .. serial
          /\ op \in {"create", "findByEmail"} => email \in account.emails
          /\ op = "update" => email \in account.emails \cup {Undefined}
          /\ UserStarts(c, op, id, email)
  BY <1>2
<1> DEFINE k == [op |-> op, at |-> IF op = "create" THEN "check"
                                   ELSE IF op \in {"update", "delete"} THEN "find" ELSE "answer",
                 id |-> id, email |-> email, rows |-> {}, out |-> "none"]
           q == CASE op \in {"create", "findByEmail"} -> ByEmail(email)
                  [] op = "findMany" -> Query("findMany", Undefined, NoFilter, NoFilter)
                  [] OTHER -> UserById(id)
<1>4. /\ ucall' = [ucall EXCEPT ![c] = k] /\ query' = [query EXCEPT ![c] = q]
      /\ UNCHANGED <<setup, table, serial>>
  BY <1>3 DEF UserStarts, Asks, Untouched
<1>5. /\ IsQuery(q) /\ q.at = "statement" /\ q.do \in Reads
      /\ op = "create" => q.do = "findOne" /\ q.where = [email |-> email]
      /\ op \in {"update", "delete"} => q.do = "findById" /\ q.id = id
  BY DEF ByEmail, UserById, Query, IsQuery, Reads
<1>6. /\ IsCall(k) /\ k.op = op /\ k.id = id /\ k.email = email
      /\ k.at = IF op = "create" THEN "check"
                ELSE IF op \in {"update", "delete"} THEN "find" ELSE "answer"
  BY DEF IsCall
<1> HIDE DEF k, q
<1>7. ucall'[c] = k /\ query'[c] = q /\ missed'[c] = dropped
  BY <1>0, <1>1, <1>4
<1>8. Awaits(k, q)
  BY <1>0, <1>3, <1>5, <1>6 DEF Awaits
<1>9. CallOK(c)'
  BY <1>1, <1>3, <1>4, <1>5, <1>6, <1>7, <1>8 DEF CallOK, Reads
<1>10. k.at # "returned" /\ ~Done(q) /\ q.at # "reread"
  BY <1>5, <1>6 DEF Done
<1>11. ~Looked(k, q) \/ k.op \notin {"create", "update"}
  BY <1>6, <1>10 DEF Looked
<1>12. Clear(c)'
  BY <1>7, <1>11 DEF Clear
<1>13. Unmissed(c)'
  BY <1>6, <1>7, <1>10 DEF Unmissed
<1>14. Dropped'
  BY <1>0, <1>1, <1>4 DEF Dropped, Visible
<1>15. \A d \in Clients \ {c} :
           UserBusy(d) => Names(ucall'[c]) \cap Names(ucall[d]) \subseteq raced'
  BY <1>1 DEF Others
<1> QED
  BY <1>0, <1>1, <1>4, <1>9, <1>12, <1>13, <1>14, <1>15, QuietKeeps

LEMMA AccountsStep ==
    ASSUME \A p \in AccountPlans : Addressed(p), AccountsInv, [AccountsNext]_accountVars
    PROVE  AccountsInv'
<1>1. CASE UNCHANGED accountVars
  <2>1. UNCHANGED <<setup, table, serial, query, ucall, pcall, account, raced, dropped, missed>>
    BY <1>1 DEF accountVars, tableVars, accountGhosts
  <2>2. CASE account.service = "users"
    <3>1. UserInv
      BY <2>2 DEF AccountsInv
    <3>2. RowsOK' /\ Unique' /\ Dropped' /\ Overlaps'
      BY <2>1, <3>1 DEF UserInv, RowsOK, Unique, Dropped, Overlaps, Visible, UserBusy
    <3>3. ASSUME NEW c \in Clients PROVE CallOK(c)' /\ Clear(c)' /\ Unmissed(c)'
      BY <2>1, <3>1 DEF UserInv, CallOK, Clear, Unmissed, Visible, UserBusy
    <3>4. UserInv'
      BY <2>1, <3>1, <3>2, <3>3 DEF UserInv
    <3> QED
      BY <2>1, <2>2, <3>4 DEF AccountsInv, NoAccount
  <2>3. CASE account.service # "users"
    BY <2>1, <2>3 DEF AccountsInv, Fresh
  <2> QED
    BY <2>2, <2>3
<1>2. CASE AccountsDeploy
  <2>1. PICK p \in AccountPlans : account' = p /\ setup' = p.setup
    BY <1>2 DEF AccountsDeploy
  <2>2. /\ Fresh
        /\ UNCHANGED <<table, serial, query, ucall, pcall, raced, dropped, missed>>
    BY <1>2 DEF AccountsDeploy, AccountsInv
  <2>3. Fresh'
    BY <2>2 DEF Fresh
  <2>4. CASE p.service = "users"
    <3>1. account'.emails \cap {Undefined, Null} = {}
      BY <2>1, <2>4 DEF Addressed
    <3>2. RowsOK' /\ Unique' /\ Dropped'
      BY <2>3 DEF Fresh, RowsOK, Unique, Dropped
    <3>3. \A c \in Clients : ucall'[c] = NoUserCall /\ query'[c] = NoQuery
      BY <2>3 DEF Fresh
    <3>4. Overlaps'
      BY <3>3 DEF Overlaps, UserBusy, NoUserCall
    <3>5. ASSUME NEW c \in Clients PROVE CallOK(c)' /\ Clear(c)' /\ Unmissed(c)'
      BY <3>3 DEF CallOK, Clear, Unmissed, UserBusy, NoUserCall
    <3>6. UserInv'
      BY <2>3, <3>1, <3>2, <3>4, <3>5 DEF UserInv, Fresh
    <3> QED
      BY <2>1, <2>3, <2>4, <3>6 DEF AccountsInv
  <2>5. CASE p.service # "users"
    BY <2>1, <2>3, <2>5 DEF AccountsInv, Fresh
  <2> QED
    BY <2>4, <2>5
<1>3. ASSUME NEW c \in Clients, UserCalls(c) \/ UserMoves(c) \/ UserLeaves(c)
      PROVE  AccountsInv'
  <2>1. account' = account
    BY <1>3 DEF UserCalls, UserMoves, UserLeaves
  <2>2. account.service = "users"
    <3>1. UserCalls(c) => account.service = "users"
      BY DEF UserCalls
    <3>2. UserMoves(c) \/ UserLeaves(c) => ucall[c] # NoUserCall
      BY DEF UserMoves, UserLeaves, UserStep, UserEnds, CreateChecked, UpdateFound, UpdateChecked,
             DeleteFound, UserAwaits, UserServed, UserFails, NoUserCall
    <3> QED
      BY <1>3, <3>1, <3>2 DEF AccountsInv
  <2>3. UserInv'
    BY <1>3, <2>2, CallsKeep, MovesKeep, LeavesKeep DEF AccountsInv
  <2> QED
    BY <2>1, <2>2, <2>3 DEF AccountsInv, NoAccount
<1>4. ASSUME NEW c \in Clients, PrefCalls(c) \/ PrefMoves(c) \/ PrefLeaves(c)
      PROVE  AccountsInv'
  <2>1. account' = account /\ ucall' = ucall
    BY <1>4 DEF PrefCalls, PrefMoves, PrefLeaves
  <2>2. account # NoAccount /\ account.service # "users"
    <3>1. PrefCalls(c) => account.service = "preferences"
      BY DEF PrefCalls
    <3>2. PrefMoves(c) \/ PrefLeaves(c) => pcall[c] # NoPrefCall
      BY DEF PrefMoves, PrefLeaves, PrefStep, PrefEnds, PrefRead, PrefFound, PrefWritten,
             PrefFails, PrefAwaits, NoPrefCall
    <3>3. account.service = "users" => pcall[c] = NoPrefCall
      BY DEF AccountsInv, UserInv
    <3> QED
      BY <1>4, <3>1, <3>2, <3>3 DEF AccountsInv, Fresh, NoAccount
  <2> QED
    BY <2>1, <2>2 DEF AccountsInv, NoAccount
<1> QED
  BY <1>1, <1>2, <1>3, <1>4 DEF AccountsNext

(* For any clients, plans, adapters and dialects, with connections that break
   and rows that are hidden or removed: two users that can be seen share an
   email only when two calls named it at the same time, and never where the
   column is unique; a user whose delete has returned is not answered by a call
   that begins later (createUserService.ts 39-110). *)
THEOREM UsersStayKept ==
    ASSUME \A p \in AccountPlans : Addressed(p)
    PROVE  AccountsSpec => []UsersKept
<1>1. AccountsInit => AccountsInv
  BY DEF AccountsInit, AccountsInv, Fresh, NoAccount
<1>2. AccountsInv /\ [AccountsNext]_accountVars => AccountsInv'
  BY AccountsStep
<1>3. AccountsInv => UsersKept
  <2> SUFFICES ASSUME AccountsInv PROVE EmailOnce /\ DeletedUserGone
    BY DEF UsersKept
  <2>1. CASE account.service = "users"
    BY <2>1 DEF AccountsInv, UserInv, Unique, Unmissed, EmailOnce, DeletedUserGone
  <2>2. CASE account.service # "users"
    BY <2>2 DEF AccountsInv, EmailOnce, DeletedUserGone, NoUserCall
  <2> QED
    BY <2>1, <2>2
<1> QED
  BY <1>1, <1>2, <1>3, PTL DEF AccountsSpec

-----------------------------------------------------------------------------
(***************************************************************************)
(* Preferences.  An entry is that of an actor and a key.                   *)
(***************************************************************************)

(* The plans the theorem is about: names and values are neither undefined nor
   null, and actors are told apart by what is stored of them. *)
Values(p) == UNION {{todo[i].value : i \in DOMAIN todo} : todo \in p.sets}
Keyed(p) ==
    p.service = "preferences" =>
        /\ p.ops \subseteq {"get", "list", "set", "reset"}
        /\ p.sets \subseteq Seq([key : p.keys, value : Values(p)]) \ {<<>>}
        /\ Values(p) \cap {Undefined, Null} = {} /\ p.keys \cap {Undefined, Null} = {}
        /\ \A a \in p.actors : /\ a.id \notin {Undefined, Null}
                               /\ a.org = NoOrg \/ a.org \notin {Undefined, Null}
        /\ \A a, b \in p.actors : a.id = b.id /\ a.org = b.org => a = b

(* Nothing is known of what two calls wrote at once, or of what is not found. *)
Loose == tangled \cup {pref \in Prefs : ~FoundAgain(pref[1])}

EntryOf(row) == [key |-> row.key, actor |-> row.actor, org |-> row.org]
Held(pref) == {row \in table : Visible(row) /\ EntryOf(row) = Where(pref[1], pref[2])}
Holds(pref, value) == Held(pref) # {} /\ \A row \in Held(pref) : row.value = value
(* Whatever row has that id, or had it, is an entry of the preference. *)
IdOf(pref, id) ==
    id \in 1 .. serial /\ \A row \in table : row.id = id => EntryOf(row) = Where(pref[1], pref[2])

(* A call goes through its preferences one by one. *)
Current(c) == <<pcall[c].actor, Head(pcall[c].todo).key>>
Meant(c) == Head(pcall[c].todo).value
AsksFor(k, q) ==
    \/ /\ k.at = "find" /\ q.at \in {"statement", "settled"}
       /\ IF k.op = "list"
          THEN q.do = "findMany" /\ q.where = [actor |-> k.actor.id, org |-> OrgOf(k.actor)]
          ELSE q.do = "findOne" /\ q.where = Where(k.actor, Head(k.todo).key)
    \/ /\ k.at = "write" /\ k.op = "set" /\ q.do = "create"
       /\ q.data = [key |-> Head(k.todo).key, actor |-> k.actor.id, org |-> OrgOf(k.actor),
                    value |-> Head(k.todo).value]
    \/ /\ k.at = "write" /\ k.op = "set" /\ q.do = "update"
       /\ q.data = [value |-> Head(k.todo).value]
    \/ k.at = "write" /\ k.op = "reset" /\ q.do = "delete"
PrefCallOK(c) ==
    LET k == pcall[c]
        q == query[c]
    IN  \/ k = NoPrefCall /\ q = NoQuery
        \/ /\ DOMAIN k = {"op", "actor", "todo", "at", "rows", "out"}
           /\ k.op \in {"get", "list", "set", "reset"} /\ k.actor \in account.actors
           /\ k.todo \in Seq([key : account.keys, value : Values(account) \cup {Undefined}])
           /\ k.op = "set" => k.todo \in Seq([key : account.keys, value : Values(account)])
           /\ k.op # "list" => k.todo # <<>>
           /\ k.op \in {"get", "reset"} => Len(k.todo) = 1
           /\ \/ k.at = "returned" /\ q = NoQuery
              \/ IsQuery(q) /\ AsksFor(k, q) /\ (q.at = "reread" => q.do \in {"create", "update"})

EntriesOK ==
    /\ serial \in Nat
    /\ \A row \in table :
        /\ DOMAIN row = {"id", "deletedAt", "key", "actor", "org", "value"}
        /\ row.id \in 1 .. serial
        /\ setup.adapter = "memory" => row.deletedAt = Null
    /\ \A row, other \in table : row.id = other.id => row = other
OneEntry == \A pref \in Prefs \ Loose : \A row, other \in Held(pref) : row = other
WritersKnown ==
    \A c, d \in Clients : \A pref \in Prefs :
        c # d /\ Writing(c, pref) /\ Writing(d, pref) => pref \in Loose

(* What a set or a reset has found or written, nobody else has written since. *)
WriterOK(c) ==
    LET k == pcall[c]
        q == query[c]
        pref == Current(c)
    IN  PrefBusy(c) /\ k.op \in Writes =>
            /\ k.at = "find" /\ Done(q) =>
                   /\ \A row \in q.rows : IdOf(pref, row.id)
                   /\ pref \notin Loose => q.rows = Held(pref)
            /\ k.at = "write" /\ q.do # "create" => IdOf(pref, q.id)
            /\ k.at = "write" /\ pref \notin Loose =>
                   /\ q.at = "statement" => IF q.do = "create" THEN Held(pref) = {}
                                            ELSE \E row \in Held(pref) : row.id = q.id
                   /\ q.at = "reread" \/ Done(q) =>
                          IF q.do = "delete" THEN Held(pref) = {} ELSE Holds(pref, Meant(c))

(* What a preference is known to be, it is while nobody writes it, *)
EntriesKept ==
    \A pref \in Prefs \ Loose :
        entry[pref] # Unknown /\ (\A c \in Clients : ~Writing(c, pref)) =>
            IF entry[pref] = Null THEN Held(pref) = {} ELSE Holds(pref, entry[pref])
(* and it is what a get or a list has been owed since it began. *)
Fits(rows, pref, value) ==
    LET found == {row \in rows : row.key = pref[2]} IN
    IF value = Null THEN found = {} ELSE found # {} /\ \A row \in found : row.value = value
ReaderOK(c) ==
    LET k == pcall[c]
        q == query[c]
    IN  /\ DOMAIN owing[c] \subseteq Prefs
        /\ k = NoPrefCall \/ k.op \in Writes => DOMAIN owing[c] = {}
        /\ k.op = "get" => DOMAIN owing[c] = {Current(c)}
        /\ k.op = "list" => \A pref \in DOMAIN owing[c] : pref[1] = k.actor
        /\ \A pref \in DOMAIN owing[c] \ Loose : owing[c][pref] # Unknown =>
               /\ PrefBusy(c) =>
                      /\ entry[pref] = owing[c][pref] /\ \A d \in Clients : ~Writing(d, pref)
                      /\ Done(q) => Fits(q.rows, pref, owing[c][pref])
               /\ k.at = "returned" /\ k.out = "done" => Fits(k.rows, pref, owing[c][pref])

PrefInv ==
    /\ account.service = "preferences" /\ Keyed(account)
    /\ setup.adapter = account.setup.adapter
    /\ DOMAIN pcall = Clients /\ DOMAIN query = Clients /\ DOMAIN owing = Clients
    /\ DOMAIN entry = Prefs
    /\ EntriesOK /\ OneEntry /\ WritersKnown /\ EntriesKept
    /\ \A c \in Clients : PrefCallOK(c) /\ WriterOK(c) /\ ReaderOK(c)
PrefFresh ==
    /\ table = {} /\ serial = 0 /\ tangled = {}
    /\ query = [c \in Clients |-> NoQuery]
    /\ ucall = [c \in Clients |-> NoUserCall] /\ pcall = [c \in Clients |-> NoPrefCall]
    /\ owing = [c \in Clients |-> <<>>]
PreferencesInv ==
    /\ account = NoAccount => PrefFresh
    /\ account.service # "preferences" => \A c \in Clients : pcall[c] = NoPrefCall
    /\ account.service = "preferences" => \A c \in Clients : ucall[c] = NoUserCall
    /\ account.service = "preferences" => PrefInv


-----------------------------------------------------------------------------
(* An entry is found where its preference is looked for. *)

LEMMA PrefParts ==
    ASSUME account.service = "preferences", NEW pref \in Prefs
    PROVE  pref[1] \in account.actors /\ pref[2] \in account.keys /\ pref = <<pref[1], pref[2]>>
BY DEF Prefs

LEMMA LooseGrows ==
    ASSUME account' = account, setup'.adapter = setup.adapter, tangled \subseteq tangled'
    PROVE  Loose \subseteq Loose' /\ (tangled' = tangled => Loose' = Loose)
<1>1. Prefs' = Prefs /\ \A actor : FoundAgain(actor)' <=> FoundAgain(actor)
  BY DEF Prefs, FoundAgain
<1> QED
  BY <1>1 DEF Loose

LEMMA WhereFields ==
    ASSUME NEW actor, NEW key, NEW row
    PROVE  EntryOf(row) = Where(actor, key) <=>
               row.key = key /\ row.actor = actor.id /\ row.org = OrgOf(actor)
<1>1. /\ DOMAIN EntryOf(row) = {"key", "actor", "org"}
      /\ EntryOf(row).key = row.key /\ EntryOf(row).actor = row.actor /\ EntryOf(row).org = row.org
      /\ EntryOf(row) = [key |-> row.key, actor |-> row.actor, org |-> row.org]
  BY DEF EntryOf
<1>2. /\ Where(actor, key).key = key /\ Where(actor, key).actor = actor.id
      /\ Where(actor, key).org = OrgOf(actor)
      /\ Where(actor, key) = [key |-> key, actor |-> actor.id, org |-> OrgOf(actor)]
  BY DEF Where
<1> QED
  BY <1>1, <1>2

LEMMA OneWhere ==
    ASSUME PrefInv, NEW pref \in Prefs, NEW other \in Prefs,
           Where(pref[1], pref[2]) = Where(other[1], other[2])
    PROVE  pref = other
<1>1. /\ pref[1] \in account.actors /\ pref[2] \in account.keys /\ pref = <<pref[1], pref[2]>>
      /\ other[1] \in account.actors /\ other[2] \in account.keys /\ other = <<other[1], other[2]>>
  BY PrefParts DEF PrefInv
<1>2. /\ pref[2] = other[2] /\ pref[1].id = other[1].id /\ OrgOf(pref[1]) = OrgOf(other[1])
  BY DEF Where
<1>3. /\ \A a \in account.actors : a.org = NoOrg \/ a.org \notin {Undefined, Null}
      /\ \A a, b \in account.actors : a.id = b.id /\ a.org = b.org => a = b
  BY DEF PrefInv, Keyed
<1>4. pref[1].org = other[1].org
  BY <1>1, <1>2, <1>3 DEF OrgOf
<1> QED
  BY <1>1, <1>2, <1>3, <1>4

(* What a find looks for. *)
Sought(where) == IF setup.adapter = "memory" THEN Remembered(where) ELSE FindMany(where)

LEMMA SoughtFields ==
    ASSUME PrefInv, NEW actor \in account.actors, NEW where, FoundAgain(actor),
           where.actor = actor.id, where.org = OrgOf(actor),
           DOMAIN where \subseteq {"key", "actor", "org"}, {"actor", "org"} \subseteq DOMAIN where,
           "key" \in DOMAIN where => where.key \in account.keys
    PROVE  \A row : row \in Sought(where) <=>
               /\ row \in table /\ Visible(row)
               /\ row.actor = actor.id /\ row.org = OrgOf(actor)
               /\ "key" \in DOMAIN where => row.key = where.key
<1>1. /\ account.keys \cap {Undefined, Null} = {} /\ actor.id \notin {Undefined, Null}
      /\ actor.org = NoOrg \/ actor.org \notin {Undefined, Null}
      /\ setup.adapter \in {"memory", "prisma"} \/ actor.org # NoOrg
      /\ setup.adapter = "memory" => \A row \in table : row.deletedAt = Null
  BY DEF PrefInv, Keyed, EntriesOK, FoundAgain
<1>2. CASE setup.adapter = "memory"
  <2>1. \A row \in table : row \in Sought(where) <=> \A f \in DOMAIN where : row[f] = where[f]
    BY <1>2 DEF Sought, Remembered
  <2>2. \A row \in table : Visible(row)
    BY <1>1, <1>2 DEF Visible
  <2>3. Sought(where) \subseteq table
    BY <1>2 DEF Sought, Remembered
  <2> QED
    BY <2>1, <2>2, <2>3
<1>3. CASE setup.adapter # "memory"
  <2>1. \A f \in DOMAIN where : where[f] # Undefined
    BY <1>1, AdaptersAssumption DEF OrgOf
  <2>2. \A f \in DOMAIN where : where[f] = Null => setup.adapter = "prisma"
    BY <1>1, <1>3 DEF OrgOf
  <2>3. \A f \in DOMAIN where : \A value : FieldMatches(value, where[f]) <=> value = where[f]
    BY <2>1, <2>2 DEF FieldMatches
  <2>4. \A row : row \in Sought(where) <=>
            row \in table /\ Visible(row) /\ \A f \in DOMAIN where : row[f] = where[f]
    BY <1>3, <2>3 DEF Sought, FindMany
  <2> QED
    BY <2>4
<1> QED
  BY <1>2, <1>3

-----------------------------------------------------------------------------
(* What a statement of a call, or of the memory adapter, does to the entries. *)

EntriesRead(c) ==
    LET q == query[c]
        r == query'[c]
    IN  /\ table' = table /\ serial' = serial /\ r.at = "settled"
        /\ Done(r) /\ q.at # "reread" =>
               /\ q.do \in {"findOne", "findMany"} /\ r.rows \subseteq Sought(q.where)
               /\ r.rows = {} => Sought(q.where) = {}
               /\ q.do = "findMany" => r.rows = Sought(q.where)
EntryCreated(c) ==
    LET q == query[c] IN
    /\ q.at = "statement" /\ q.do = "create"
    /\ table' = table \cup {Inserted(q.data)} /\ serial' = serial + 1
EntryUpdated(c) ==
    LET q == query[c] IN
    /\ q.at = "statement" /\ q.do = "update" /\ serial' = serial
    /\ table' = (table \ ById(q.id)) \cup {Changed(row, q.data) : row \in ById(q.id)}
EntryDeleted(c) ==
    LET q == query[c] IN
    /\ q.at = "statement" /\ q.do = "delete" /\ serial' = serial
    /\ \/ table' = table \ ById(q.id)
       \/ /\ setup.soft /\ setup.adapter # "memory"
          /\ table' = (table \ ById(q.id)) \cup
                          {[row EXCEPT !.deletedAt = Gone] : row \in ById(q.id)}

LEMMA PrefQuery ==
    ASSUME PrefInv, NEW c \in Clients, query[c] # NoQuery
    PROVE  LET k == pcall[c]
               q == query[c]
           IN  /\ PrefBusy(c) /\ k.at \in {"find", "write"}
               /\ DOMAIN k = {"op", "actor", "todo", "at", "rows", "out"}
               /\ k.op \in {"get", "list", "set", "reset"} /\ k.actor \in account.actors
               /\ k.todo \in Seq([key : account.keys, value : Values(account) \cup {Undefined}])
               /\ k.op = "set" => k.todo \in Seq([key : account.keys, value : Values(account)])
               /\ k.op # "list" => k.todo # <<>>
               /\ k.op \in {"get", "reset"} => Len(k.todo) = 1
               /\ IsQuery(q) /\ AsksFor(k, q) /\ (q.at = "reread" => q.do \in {"create", "update"})
<1> DEFINE k == pcall[c]
           q == query[c]
<1>1. PrefCallOK(c)
  BY DEF PrefInv
<1>2. /\ DOMAIN k = {"op", "actor", "todo", "at", "rows", "out"}
      /\ k.op \in {"get", "list", "set", "reset"} /\ k.actor \in account.actors
      /\ k.todo \in Seq([key : account.keys, value : Values(account) \cup {Undefined}])
      /\ k.op = "set" => k.todo \in Seq([key : account.keys, value : Values(account)])
      /\ k.op # "list" => k.todo # <<>>
      /\ k.op \in {"get", "reset"} => Len(k.todo) = 1
      /\ IsQuery(q) /\ AsksFor(k, q) /\ (q.at = "reread" => q.do \in {"create", "update"})
  BY <1>1, Zenon DEF PrefCallOK
<1>3. k.at \in {"find", "write"}
  BY <1>2 DEF AsksFor
<1> QED
  BY <1>2, <1>3 DEF PrefBusy

LEMMA HeadIn ==
    ASSUME NEW S, NEW s \in Seq(S), s # <<>>
    PROVE  Head(s) \in S /\ Tail(s) \in Seq(S) /\ (Tail(s) = <<>> <=> Len(s) = 1)
<1>1. Head(s) \in S /\ Tail(s) \in Seq(S) /\ Len(Tail(s)) = Len(s) - 1 /\ Len(s) \in Nat
  OBVIOUS
<1>2. Len(<<>>) = 0 /\ \A t \in Seq(S) : t # <<>> => Len(t) \in Nat \ {0}
  BY EmptySeq, Zenon
<1>3. PICK t \in Seq(S) : t = Tail(s)
  BY <1>1
<1>4. t = <<>> <=> Len(s) = 1
  BY <1>1, <1>2, <1>3
<1> QED
  BY <1>1, <1>3, <1>4

LEMMA PrefStatement ==
    ASSUME PrefInv, NEW c \in Clients,
           IF setup.adapter = "memory" THEN MemoryStep(c) ELSE Statement(c)
    PROVE  /\ query[c] # NoQuery /\ setup' = setup /\ QueryStays(c)
           /\ EntriesRead(c) \/ EntryCreated(c) \/ EntryUpdated(c) \/ EntryDeleted(c)
<1> DEFINE k == pcall[c]
           q == query[c]
<1>1. query[c] # NoQuery
  BY DEF Statement, Find, Insert, UpdateById, DeleteById, Reread, ViolatesUnique, Unsent,
         AnswerLost, MemoryStep, MemoryFind, MemoryCreate, MemoryUpdate, MemoryDelete, Asked, NoQuery
<1>2. /\ k.at \in {"find", "write"} /\ IsQuery(q) /\ AsksFor(k, q)
      /\ q.at = "reread" => q.do \in {"create", "update"}
      /\ k.op = "set" => k.todo \in Seq([key : account.keys, value : Values(account)])
      /\ k.op # "list" => k.todo # <<>>
  BY <1>1, PrefQuery
<1>3. DOMAIN query = Clients
  BY DEF PrefInv
<1>4. q.do # "findById"
  BY <1>2 DEF AsksFor
<1>5. CASE setup.adapter # "memory"
  <2>1. Statement(c)
    BY <1>5
  <2>2. /\ setup' = setup /\ QueryStays(c)
        /\ Reading(c) \/ Creating(c) \/ Updating(c) \/ Deleting(c)
    BY <1>2, <1>3, <2>1, StatementMoves
  <2>3. CASE Reading(c)
    <3>1. Found(q) = Sought(q.where)
      BY <1>4, <1>5 DEF Found, Sought
    <3> QED
      BY <1>1, <1>4, <2>2, <2>3, <3>1 DEF Reading, EntriesRead, Reads
  <2>4. Creating(c) => EntryCreated(c)
    BY DEF Creating, EntryCreated
  <2>5. Updating(c) => EntryUpdated(c)
    BY DEF Updating, EntryUpdated
  <2>6. Deleting(c) => EntryDeleted(c)
    BY <1>5 DEF Deleting, EntryDeleted
  <2> QED
    BY <1>1, <2>2, <2>3, <2>4, <2>5, <2>6
<1>6. CASE setup.adapter = "memory"
  <2>0. ASSUME NEW out, NEW rows, Settles(c, out, rows)
        PROVE  /\ QueryStays(c) /\ query'[c].at = "settled"
               /\ query'[c].out = out /\ query'[c].rows = rows
    BY <1>2, <1>3, <2>0 DEF Settles, QueryStays, IsQuery
  <2>1. CASE MemoryFind(c)
    <3>1. PICK rows : /\ Settles(c, "done", rows) /\ rows \subseteq Remembered(q.where)
                      /\ rows = {} => Remembered(q.where) = {}
                      /\ q.do = "findMany" => rows = Remembered(q.where)
      <4> DEFINE found == Remembered(q.where)
      <4>1. CASE Settles(c, "done", found)
        BY <4>1
      <4>2. CASE q.do # "findMany" /\ found # {} /\ \E row \in found : Settles(c, "done", {row})
        <5>1. PICK row \in found : Settles(c, "done", {row})
          BY <4>2
        <5> QED
          BY <4>2, <5>1
      <4>3. IF q.do = "findMany" \/ found = {} THEN Settles(c, "done", found)
            ELSE \E row \in found : Settles(c, "done", {row})
        BY <2>1 DEF MemoryFind
      <4> QED
        BY <4>1, <4>2, <4>3
    <3>2. q.do \in {"findOne", "findMany"} /\ Untouched
      BY <2>1 DEF MemoryFind, Asked
    <3> QED
      BY <1>1, <1>6, <2>0, <3>1, <3>2 DEF Untouched, EntriesRead, Sought
  <2>2. CASE MemoryCreate(c)
    BY <1>1, <2>0, <2>2 DEF MemoryCreate, EntryCreated, Asked
  <2>3. CASE MemoryUpdate(c)
    <3> DEFINE Merged(row) == [row EXCEPT !.value = IF q.data.value = Null THEN @ ELSE q.data.value]
               rows == {Merged(row) : row \in ById(q.id)}
    <3>0. /\ Asked(c, "update") /\ setup' = setup /\ serial' = serial
          /\ \E out : Settles(c, out, {})
      <4>1. Asked(c, "update") /\ setup' = setup /\ serial' = serial
        BY <2>3, SMT DEF MemoryUpdate
      <4>2. Settles(c, IF ById(q.id) = {} THEN "threw" ELSE "done", {})
        BY <2>3, Zenon DEF MemoryUpdate
      <4> QED
        BY <4>1, <4>2
    <3>1. table' = (table \ ById(q.id)) \cup rows
      BY <2>3, Zenon DEF MemoryUpdate
    <3>2. k.op = "set" /\ q.data = [value |-> Head(k.todo).value]
      BY <1>2, <3>0 DEF AsksFor, Asked
    <3>3. Head(k.todo) \in [key : account.keys, value : Values(account)]
      BY <1>2, <3>2, HeadIn
    <3>4. q.data.value # Null /\ DOMAIN q.data = {"value"}
      BY <3>2, <3>3 DEF PrefInv, Keyed
    <3>5. ASSUME NEW row \in ById(q.id) PROVE Merged(row) = Changed(row, q.data)
      <4>1. DOMAIN row = {"id", "deletedAt", "key", "actor", "org", "value"} /\ row \in table
        BY DEF PrefInv, EntriesOK, ById
      <4>2. Changed(row, q.data) =
               [f \in DOMAIN row |-> IF f = "value" THEN q.data.value ELSE row[f]]
        BY <3>4 DEF Changed
      <4>3. Merged(row) = [row EXCEPT !.value = q.data.value]
        BY <3>4
      <4> QED
        BY <4>1, <4>2, <4>3
    <3>6. rows = {Changed(row, q.data) : row \in ById(q.id)}
      <4> HIDE DEF Merged
      <4> QED
        BY <3>5
    <3>7. table' = (table \ ById(q.id)) \cup {Changed(row, q.data) : row \in ById(q.id)}
      BY <3>1, <3>6, Zenon
    <3> QED
      BY <1>1, <2>0, <3>0, <3>7 DEF EntryUpdated, Asked
  <2>4. CASE MemoryDelete(c)
    BY <1>1, <2>0, <2>4 DEF MemoryDelete, EntryDeleted, Asked
  <2> QED
    BY <1>6, <2>1, <2>2, <2>3, <2>4 DEF MemoryStep
<1> QED
  BY <1>5, <1>6

-----------------------------------------------------------------------------
(* A statement that writes changes the entries of the preference its call is
   at, and leaves those of the others. *)

EntriesMoved(c, pref) ==
    /\ EntriesOK'
    /\ \A other \in Prefs \ {pref} : Held(other)' = Held(other)
    /\ \A other \in Prefs : \A id : IdOf(other, id) => IdOf(other, id)'
    /\ pref \notin Loose =>
           IF query[c].do = "delete" THEN Held(pref)' = {}
           ELSE \E row : Held(pref)' = {row} /\ row.value = Meant(c)

LEMMA PrefWrites ==
    ASSUME PrefInv, NEW c \in Clients, query[c] # NoQuery,
           query[c].do \in {"create", "update", "delete"}
    PROVE  /\ Current(c) \in Prefs /\ Writing(c, Current(c))
           /\ pcall[c].at = "write" /\ pcall[c].op \in Writes
           /\ pcall[c].op = "reset" <=> query[c].do = "delete"
           /\ query[c].do \in {"create", "update"} =>
                  Meant(c) \in Values(account) /\ Meant(c) \notin {Undefined, Null}
<1> DEFINE k == pcall[c]
           q == query[c]
<1>1. /\ PrefBusy(c) /\ k.op \in {"get", "list", "set", "reset"} /\ k.actor \in account.actors
      /\ k.todo \in Seq([key : account.keys, value : Values(account) \cup {Undefined}])
      /\ k.op = "set" => k.todo \in Seq([key : account.keys, value : Values(account)])
      /\ k.op # "list" => k.todo # <<>>
      /\ AsksFor(k, q)
  BY PrefQuery
<1>2. /\ k.at = "write" /\ k.op \in Writes
      /\ k.op = "reset" <=> q.do = "delete"
      /\ q.do \in {"create", "update"} => k.op = "set"
  BY <1>1 DEF AsksFor, Writes
<1>3. k.todo # <<>>
  BY <1>1, <1>2 DEF Writes
<1>4. Head(k.todo) \in [key : account.keys, value : Values(account) \cup {Undefined}]
  BY <1>1, <1>3, HeadIn
<1>5. Current(c) \in Prefs
  BY <1>1, <1>4 DEF Current, Prefs, PrefInv
<1>6. Current(c) \in PrefsOf(k)
  BY <1>1, <1>2, <1>3 DEF PrefsOf, Current, Writes
<1>7. q.do \in {"create", "update"} => Head(k.todo) \in [key : account.keys, value : Values(account)]
  BY <1>1, <1>2, <1>3, HeadIn
<1>8. q.do \in {"create", "update"} => Meant(c) \in Values(account) /\ Meant(c) \notin {Undefined, Null}
  BY <1>7 DEF Meant, PrefInv, Keyed
<1> QED
  BY <1>1, <1>2, <1>5, <1>6, <1>8 DEF Writing

LEMMA CreateMoves ==
    ASSUME PrefInv, NEW c \in Clients, query[c] # NoQuery, EntryCreated(c),
           setup' = setup, NEW pref, pref = Current(c)
    PROVE  EntriesMoved(c, pref)
<1> DEFINE k == pcall[c]
           q == query[c]
<1>0. PICK row : row = Inserted(q.data)
  OBVIOUS
<1>1. /\ q.at = "statement" /\ q.do = "create"
      /\ table' = table \cup {row} /\ serial' = serial + 1
  BY <1>0 DEF EntryCreated
<1>2. /\ pref \in Prefs /\ Writing(c, pref) /\ k.at = "write" /\ k.op = "set"
      /\ Meant(c) \notin {Undefined, Null} /\ PrefBusy(c) /\ k.op \in Writes
      /\ AsksFor(k, q)
  BY <1>1, PrefWrites, PrefQuery DEF Writing, Writes
<1>3. q.data = [key |-> pref[2], actor |-> pref[1].id, org |-> OrgOf(pref[1]), value |-> Meant(c)]
  BY <1>1, <1>2 DEF AsksFor, Current, Meant
<1>4. /\ pref[2] \notin {Undefined, Null} /\ pref[1].id \notin {Undefined, Null}
      /\ OrgOf(pref[1]) # Undefined
  <2>1. pref[1] \in account.actors /\ pref[2] \in account.keys
    BY <1>2, PrefParts DEF PrefInv
  <2> QED
    BY <2>1, AdaptersAssumption DEF PrefInv, Keyed, OrgOf
<1>5. /\ DOMAIN row = {"id", "deletedAt", "key", "actor", "org", "value"}
      /\ row.id = serial + 1 /\ row.deletedAt = Null /\ row.value = Meant(c)
      /\ row.key = pref[2] /\ row.actor = pref[1].id /\ row.org = OrgOf(pref[1])
  <2>1. DOMAIN q.data = {"key", "actor", "org", "value"}
    BY <1>3
  <2>2. row = [f \in {"id", "deletedAt"} \cup {"key", "actor", "org", "value"} |->
                  CASE f = "id" -> serial + 1 [] f = "deletedAt" -> Null
                    [] OTHER -> Stored(q.data[f])]
    BY <1>0, <2>1, Zenon DEF Inserted
  <2>3. /\ q.data["key"] = pref[2] /\ q.data["actor"] = pref[1].id
        /\ q.data["org"] = OrgOf(pref[1]) /\ q.data["value"] = Meant(c)
    BY <1>3
  <2> QED
    BY <1>2, <1>4, <2>2, <2>3 DEF Stored
<1>6. EntryOf(row) = Where(pref[1], pref[2])
  BY <1>5, WhereFields
<1>7. Visible(row)' /\ Visible(row)
  BY <1>5 DEF Visible
<1>8. EntriesOK /\ OneEntry /\ WriterOK(c)
  BY DEF PrefInv
<1>9. serial \in Nat /\ serial' \in Nat
  BY <1>1, <1>8 DEF EntriesOK
<1>10. EntriesOK'
  BY <1>1, <1>5, <1>8, <1>9 DEF EntriesOK
<1>11. ASSUME NEW other \in Prefs
       PROVE  Held(other)' = Held(other) \cup (IF other = pref THEN {row} ELSE {})
  <2>1. EntryOf(row) = Where(other[1], other[2]) <=> other = pref
    BY <1>2, <1>6, OneWhere
  <2>2. ASSUME NEW r PROVE r \in Held(other)' <=>
            r \in Held(other) \/ (r = row /\ EntryOf(r) = Where(other[1], other[2]))
    BY <1>1, <1>7 DEF Held, Visible
  <2> QED
    BY <2>1, <2>2
<1>12. ASSUME NEW other \in Prefs, NEW id, IdOf(other, id) PROVE IdOf(other, id)'
  BY <1>1, <1>5, <1>9, <1>12 DEF IdOf
<1>13. pref \notin Loose => Held(pref) = {}
  BY <1>1, <1>2, <1>8 DEF WriterOK
<1> QED
  BY <1>1, <1>2, <1>5, <1>10, <1>11, <1>12, <1>13 DEF EntriesMoved

LEMMA UpdateMoves ==
    ASSUME PrefInv, NEW c \in Clients, query[c] # NoQuery, EntryUpdated(c),
           setup' = setup, NEW pref, pref = Current(c)
    PROVE  EntriesMoved(c, pref)
<1> DEFINE k == pcall[c]
           q == query[c]
<1>1. /\ q.at = "statement" /\ q.do = "update" /\ serial' = serial
      /\ table' = (table \ ById(q.id)) \cup {Changed(row, q.data) : row \in ById(q.id)}
  BY DEF EntryUpdated
<1>2. /\ pref \in Prefs /\ Writing(c, pref) /\ k.at = "write" /\ k.op = "set"
      /\ PrefBusy(c) /\ k.op \in Writes /\ AsksFor(k, q)
  BY <1>1, PrefWrites, PrefQuery DEF Writing, Writes
<1>3. q.data = [value |-> Meant(c)]
  BY <1>1, <1>2 DEF AsksFor, Meant
<1>4. EntriesOK /\ OneEntry /\ WriterOK(c)
  BY DEF PrefInv
<1>5. ASSUME NEW row \in ById(q.id)
      PROVE  /\ row \in table /\ row.id = q.id
             /\ DOMAIN Changed(row, q.data) = {"id", "deletedAt", "key", "actor", "org", "value"}
             /\ Changed(row, q.data).id = row.id /\ Changed(row, q.data).deletedAt = row.deletedAt
             /\ Changed(row, q.data).key = row.key /\ Changed(row, q.data).actor = row.actor
             /\ Changed(row, q.data).org = row.org /\ Changed(row, q.data).value = Meant(c)
  <2>1. /\ row \in table /\ row.id = q.id
        /\ DOMAIN row = {"id", "deletedAt", "key", "actor", "org", "value"}
    BY <1>4 DEF EntriesOK, ById
  <2>2. Changed(row, q.data) = [f \in DOMAIN row |-> IF f = "value" THEN Meant(c) ELSE row[f]]
    BY <1>3 DEF Changed
  <2> QED
    BY <2>1, <2>2
<1>6. ASSUME NEW row \in table'
      PROVE  \E old \in table :
                 /\ row.id = old.id /\ row.deletedAt = old.deletedAt /\ row.key = old.key
                 /\ row.actor = old.actor /\ row.org = old.org
                 /\ IF old.id = q.id THEN row = Changed(old, q.data) ELSE row = old
  BY <1>1, <1>5 DEF ById
<1>7. ASSUME NEW old \in table
      PROVE  IF old.id = q.id THEN Changed(old, q.data) \in table' ELSE old \in table'
  BY <1>1 DEF ById
<1>8. EntriesOK'
  <2>1. ASSUME NEW row \in table'
        PROVE  /\ DOMAIN row = {"id", "deletedAt", "key", "actor", "org", "value"}
               /\ row.id \in 1 .. serial' /\ (setup'.adapter = "memory" => row.deletedAt = Null)
    BY <1>1, <1>4, <1>5, <1>6 DEF EntriesOK, ById
  <2>2. ASSUME NEW row \in table', NEW other \in table', row.id = other.id PROVE row = other
    BY <1>4, <1>6, <2>2 DEF EntriesOK
  <2> QED
    BY <1>1, <1>4, <2>1, <2>2 DEF EntriesOK
<1>9. ASSUME NEW other \in Prefs, NEW id, IdOf(other, id) PROVE IdOf(other, id)'
  BY <1>1, <1>6, <1>9 DEF IdOf, EntryOf
<1>10. IdOf(pref, q.id)
  BY <1>1, <1>2, <1>4 DEF WriterOK
<1>11. ASSUME NEW other \in Prefs \ {pref} PROVE Held(other)' = Held(other)
  <2>1. \A row \in table : row.id = q.id => EntryOf(row) # Where(other[1], other[2])
    BY <1>2, <1>10, <1>11, OneWhere DEF IdOf
  <2>2. \A row \in table : row.id # q.id => row \in table'
    BY <1>7
  <2>3. \A row \in table' : EntryOf(row) = Where(other[1], other[2]) => row \in table
    BY <1>6, <2>1 DEF EntryOf
  <2> QED
    BY <2>1, <2>2, <2>3 DEF Held, Visible
<1>12. ASSUME pref \notin Loose
       PROVE  \E row : Held(pref)' = {row} /\ row.value = Meant(c)
  <2>1. PICK old \in Held(pref) : old.id = q.id
    BY <1>1, <1>2, <1>4, <1>12 DEF WriterOK
  <2>2. \A row \in Held(pref) : row = old
    BY <1>2, <1>4, <1>12, <2>1 DEF OneEntry
  <2>3. /\ old \in table /\ Visible(old) /\ EntryOf(old) = Where(pref[1], pref[2])
    BY <2>1 DEF Held
  <2> DEFINE new == Changed(old, q.data)
  <2>4. new \in table' /\ new.value = Meant(c) /\ new.deletedAt = old.deletedAt /\ EntryOf(new) = EntryOf(old)
    BY <1>5, <1>7, <2>1, <2>3 DEF ById, EntryOf
  <2> HIDE DEF new
  <2>5. new \in Held(pref)'
    BY <2>3, <2>4 DEF Held, Visible
  <2>6. ASSUME NEW row \in Held(pref)' PROVE row = new
    <3>1. row \in table' /\ Visible(row)' /\ EntryOf(row) = Where(pref[1], pref[2])
      BY <2>6 DEF Held
    <3>2. PICK prev \in table :
              /\ row.id = prev.id /\ row.deletedAt = prev.deletedAt /\ row.key = prev.key
              /\ row.actor = prev.actor /\ row.org = prev.org
              /\ IF prev.id = q.id THEN row = Changed(prev, q.data) ELSE row = prev
      BY <1>6, <3>1
    <3>3. prev \in Held(pref)
      BY <3>1, <3>2 DEF Held, Visible, EntryOf
    <3> QED
      BY <2>1, <2>2, <3>2, <3>3 DEF new
  <2> QED
    BY <2>4, <2>5, <2>6
<1> QED
  BY <1>1, <1>8, <1>9, <1>11, <1>12 DEF EntriesMoved

LEMMA DeleteMoves ==
    ASSUME PrefInv, NEW c \in Clients, query[c] # NoQuery, EntryDeleted(c),
           setup' = setup, NEW pref, pref = Current(c)
    PROVE  EntriesMoved(c, pref)
<1> DEFINE k == pcall[c]
           q == query[c]
           gone(row) == [row EXCEPT !.deletedAt = Gone]
<1>1. /\ q.at = "statement" /\ q.do = "delete" /\ serial' = serial
      /\ \/ table' = table \ ById(q.id)
         \/ /\ setup.soft /\ setup.adapter # "memory"
            /\ table' = (table \ ById(q.id)) \cup {gone(row) : row \in ById(q.id)}
  BY DEF EntryDeleted
<1>2. /\ pref \in Prefs /\ Writing(c, pref) /\ k.at = "write" /\ k.op = "reset"
      /\ PrefBusy(c) /\ k.op \in Writes
  BY <1>1, PrefWrites DEF Writing, Writes
<1>3. EntriesOK /\ OneEntry /\ WriterOK(c)
  BY DEF PrefInv
<1>4. ASSUME NEW row \in ById(q.id)
      PROVE  /\ row \in table /\ row.id = q.id
             /\ DOMAIN gone(row) = {"id", "deletedAt", "key", "actor", "org", "value"}
             /\ gone(row).id = row.id /\ gone(row).deletedAt = Gone
             /\ gone(row).key = row.key /\ gone(row).actor = row.actor
             /\ gone(row).org = row.org
  BY <1>3 DEF EntriesOK, ById
<1> HIDE DEF gone
<1>5. ASSUME NEW row \in table'
      PROVE  \E old \in table :
                 /\ row.id = old.id /\ row.key = old.key
                 /\ row.actor = old.actor /\ row.org = old.org
                 /\ \/ row = old /\ old.id # q.id
                    \/ /\ row = gone(old) /\ old \in ById(q.id) /\ setup.soft
                       /\ setup.adapter # "memory"
  BY <1>1, <1>4 DEF ById
<1>6. EntriesOK'
  <2>1. ASSUME NEW row \in table'
        PROVE  /\ DOMAIN row = {"id", "deletedAt", "key", "actor", "org", "value"}
               /\ row.id \in 1 .. serial' /\ (setup'.adapter = "memory" => row.deletedAt = Null)
    BY <1>1, <1>3, <1>4, <1>5 DEF EntriesOK
  <2>2. ASSUME NEW row \in table', NEW other \in table', row.id = other.id PROVE row = other
    BY <1>3, <1>4, <1>5, <2>2 DEF EntriesOK
  <2> QED
    BY <1>1, <1>3, <2>1, <2>2 DEF EntriesOK
<1>7. ASSUME NEW other \in Prefs, NEW id, IdOf(other, id) PROVE IdOf(other, id)'
  BY <1>1, <1>5, <1>7 DEF IdOf, EntryOf
<1>8. IdOf(pref, q.id)
  BY <1>1, <1>2, <1>3 DEF WriterOK
<1>9. ASSUME NEW row \in table', Visible(row)' PROVE row \in table /\ row.id # q.id
  BY <1>4, <1>5, <1>9, AdaptersAssumption DEF Visible
<1>10. \A row \in table : row.id # q.id => row \in table'
  BY <1>1 DEF ById
<1>11. ASSUME NEW other \in Prefs \ {pref} PROVE Held(other)' = Held(other)
  <2>1. \A row \in table : row.id = q.id => EntryOf(row) # Where(other[1], other[2])
    BY <1>2, <1>8, <1>11, OneWhere DEF IdOf
  <2> QED
    BY <1>9, <1>10, <2>1 DEF Held, Visible
<1>12. ASSUME pref \notin Loose PROVE Held(pref)' = {}
  <2>1. PICK old \in Held(pref) : old.id = q.id
    BY <1>1, <1>2, <1>3, <1>12 DEF WriterOK
  <2>2. \A row \in Held(pref) : row = old
    BY <1>2, <1>3, <1>12, <2>1 DEF OneEntry
  <2> QED
    BY <1>9, <2>1, <2>2 DEF Held, Visible
<1> QED
  BY <1>1, <1>6, <1>7, <1>11, <1>12 DEF EntriesMoved

LEMMA PrefCallsStay ==
    ASSUME PrefInv, NEW c \in Clients, query[c] # NoQuery, QueryStays(c),
           UNCHANGED <<account, pcall>>
    PROVE  /\ DOMAIN query' = Clients /\ \A d \in Clients : PrefCallOK(d)'
           /\ query'[c].at \in {"reread", "settled"}
           /\ query'[c].at = "reread" => query[c].do \in {"create", "update"}
           /\ query'[c].do = query[c].do
           /\ query[c].do # "create" => query'[c].id = query[c].id
<1> DEFINE k == pcall[c]
           q == query[c]
           r == query'[c]
<1>1. /\ DOMAIN query' = Clients /\ \A d \in Clients \ {c} : query'[d] = query[d]
      /\ IsQuery(r) /\ r.at \in {"reread", "settled"}
      /\ r.do = q.do /\ r.where = q.where /\ r.data = q.data
      /\ q.do # "create" => r.id = q.id
      /\ r.at = "reread" => q.do \in {"create", "update"}
  BY DEF QueryStays
<1>2. PrefCallOK(c) /\ AsksFor(k, q)
  BY PrefQuery DEF PrefInv
<1>3. AsksFor(k, r)
  BY <1>1, <1>2 DEF AsksFor
<1>4. PrefCallOK(c)'
  <2>1. /\ DOMAIN k = {"op", "actor", "todo", "at", "rows", "out"}
        /\ k.op \in {"get", "list", "set", "reset"} /\ k.actor \in account.actors
        /\ k.todo \in Seq([key : account.keys, value : Values(account) \cup {Undefined}])
        /\ k.op = "set" => k.todo \in Seq([key : account.keys, value : Values(account)])
        /\ k.op # "list" => k.todo # <<>>
        /\ k.op \in {"get", "reset"} => Len(k.todo) = 1
    BY PrefQuery
  <2>2. IsQuery(r) /\ AsksFor(k, r) /\ (r.at = "reread" => r.do \in {"create", "update"})
    BY <1>1, <1>3
  <2>3. account' = account /\ pcall' = pcall
    OBVIOUS
  <2> QED
    BY <2>1, <2>2, <2>3, Zenon DEF PrefCallOK
<1>5. ASSUME NEW d \in Clients \ {c} PROVE PrefCallOK(d)'
  <2>1. account' = account /\ pcall' = pcall /\ query'[d] = query[d] /\ PrefCallOK(d)
    BY <1>1 DEF PrefInv
  <2> QED
    BY <2>1, Zenon DEF PrefCallOK
<1> QED
  BY <1>1, <1>4, <1>5

LEMMA WriteKeeps ==
    ASSUME PrefInv, NEW c \in Clients, query[c] # NoQuery, query[c].at = "statement",
           query[c].do \in {"create", "update", "delete"},
           NEW pref, pref = Current(c), EntriesMoved(c, pref), QueryStays(c), setup' = setup,
           UNCHANGED <<account, pcall, entry, owing, tangled>>
    PROVE  PrefInv'
<1> DEFINE k == pcall[c]
           q == query[c]
           r == query'[c]
<1>0. /\ EntriesOK /\ OneEntry /\ WritersKnown /\ EntriesKept
      /\ \A d \in Clients : PrefCallOK(d) /\ WriterOK(d) /\ ReaderOK(d)
      /\ account' = account /\ setup' = setup /\ pcall' = pcall /\ entry' = entry /\ owing' = owing
      /\ tangled' = tangled /\ Loose' = Loose /\ Prefs' = Prefs
  BY LooseGrows DEF PrefInv, Prefs
<1>1. /\ pref \in Prefs /\ Writing(c, pref) /\ k.at = "write" /\ k.op \in Writes
      /\ k.op = "reset" <=> q.do = "delete"
  BY PrefWrites
<1>2. /\ DOMAIN query' = Clients /\ \A d \in Clients : PrefCallOK(d)'
      /\ r.at \in {"reread", "settled"} /\ r.do = q.do
      /\ r.at = "reread" => q.do \in {"create", "update"}
      /\ q.do # "create" => r.id = q.id
  BY PrefCallsStay
<1>3. /\ EntriesOK'
      /\ \A other \in Prefs \ {pref} : Held(other)' = Held(other)
      /\ \A other \in Prefs : \A id : IdOf(other, id) => IdOf(other, id)'
      /\ pref \notin Loose =>
             IF q.do = "delete" THEN Held(pref)' = {}
             ELSE \E row : Held(pref)' = {row} /\ row.value = Meant(c)
  BY DEF EntriesMoved
<1>4. OneEntry'
  <2> SUFFICES ASSUME NEW p \in Prefs \ Loose, NEW row \in Held(p)', NEW other \in Held(p)'
               PROVE  row = other
    BY <1>0 DEF OneEntry
  <2>1. CASE p = pref
    BY <1>3, <2>1
  <2>2. CASE p # pref
    BY <1>0, <1>3, <2>2 DEF OneEntry
  <2> QED
    BY <2>1, <2>2
<1>5. \A d \in Clients, p \in Prefs : Writing(d, p)' <=> Writing(d, p)
  BY <1>0 DEF Writing, PrefBusy, PrefsOf
<1>6. WritersKnown'
  BY <1>0, <1>5 DEF WritersKnown
<1>7. EntriesKept'
  <2> SUFFICES ASSUME NEW p \in Prefs \ Loose, entry[p] # Unknown,
                      \A d \in Clients : ~Writing(d, p)
               PROVE  IF entry[p] = Null THEN Held(p)' = {} ELSE Holds(p, entry[p])'
    BY <1>0, <1>5 DEF EntriesKept
  <2>1. Held(p)' = Held(p)
    BY <1>1, <1>3
  <2> QED
    BY <1>0, <2>1 DEF EntriesKept, Holds
<1>8. ASSUME NEW d \in Clients \ {c} PROVE WriterOK(d)' /\ ReaderOK(d)'
  <2>1. query'[d] = query[d]
    BY DEF QueryStays
  <2>2. ReaderOK(d)'
    BY <1>0, <1>5, <2>1 DEF ReaderOK, PrefBusy, Fits, Current
  <2>3. ASSUME PrefBusy(d), pcall[d].op \in Writes
        PROVE  WriterOK(d)'
    <3>1. query[d] # NoQuery
      BY <1>0, <2>3 DEF PrefCallOK, PrefBusy, NoPrefCall, NoQuery, IsQuery
    <3>2. PICK p : p = Current(d)
      OBVIOUS
    <3>3. p \in Prefs /\ p \in PrefsOf(pcall[d])
      <4>1. /\ pcall[d].actor \in account.actors /\ pcall[d].todo # <<>>
            /\ pcall[d].todo \in Seq([key : account.keys, value : Values(account) \cup {Undefined}])
        BY <2>3, <3>1, PrefQuery DEF Writes
      <4>2. Head(pcall[d].todo) \in [key : account.keys, value : Values(account) \cup {Undefined}]
        BY <4>1, HeadIn
      <4>3. p \in Prefs
        BY <3>2, <4>1, <4>2 DEF Current, Prefs, PrefInv
      <4>4. p \in PrefsOf(pcall[d])
        BY <2>3, <3>2, <4>1 DEF Current, PrefsOf, Writes
      <4> QED
        BY <4>3, <4>4
    <3>4. Writing(d, p)
      BY <2>3, <3>3 DEF Writing
    <3>5. p \notin Loose => Held(p)' = Held(p)
      BY <1>0, <1>1, <1>3, <3>3, <3>4 DEF WritersKnown
    <3>6. \A id : IdOf(p, id) => IdOf(p, id)'
      BY <1>3, <3>3
    <3>7. PICK value : value = Meant(d)
      OBVIOUS
    <3>8. Meant(d)' = value /\ Current(d)' = p
      BY <1>0, <3>2, <3>7 DEF Meant, Current
    <3>9. p \notin Loose => (Holds(p, value) => Holds(p, value)')
      BY <3>5 DEF Holds
    <3>10. PICK id : id = query[d].id
      OBVIOUS
    <3>11. /\ pcall[d].at = "find" /\ Done(query[d]) =>
                 /\ \A row \in query[d].rows : IdOf(p, row.id)
                 /\ p \notin Loose => query[d].rows = Held(p)
           /\ pcall[d].at = "write" /\ query[d].do # "create" => IdOf(p, id)
           /\ pcall[d].at = "write" /\ p \notin Loose =>
                 /\ query[d].at = "statement" =>
                       IF query[d].do = "create" THEN Held(p) = {}
                       ELSE \E row \in Held(p) : row.id = id
                 /\ query[d].at = "reread" \/ Done(query[d]) =>
                       IF query[d].do = "delete" THEN Held(p) = {} ELSE Holds(p, value)
      <4>1. WriterOK(d)
        BY <1>0
      <4> QED
        BY <2>3, <3>2, <3>7, <3>10, <4>1, Zenon DEF WriterOK
    <3>12. /\ pcall[d].at = "find" /\ Done(query[d]) =>
                 /\ \A row \in query[d].rows : IdOf(p, row.id)'
                 /\ p \notin Loose => query[d].rows = Held(p)'
           /\ pcall[d].at = "write" /\ query[d].do # "create" => IdOf(p, id)'
           /\ pcall[d].at = "write" /\ p \notin Loose =>
                 /\ query[d].at = "statement" =>
                       IF query[d].do = "create" THEN Held(p)' = {}
                       ELSE \E row \in Held(p)' : row.id = id
                 /\ query[d].at = "reread" \/ Done(query[d]) =>
                       IF query[d].do = "delete" THEN Held(p)' = {} ELSE Holds(p, value)'
      BY <3>5, <3>6, <3>9, <3>11
    <3>13. /\ pcall'[d].at = "find" /\ Done(query'[d]) =>
                 /\ \A row \in query'[d].rows : IdOf(p, row.id)'
                 /\ p \notin Loose' => query'[d].rows = Held(p)'
           /\ pcall'[d].at = "write" /\ query'[d].do # "create" => query'[d].id = id /\ IdOf(p, id)'
           /\ pcall'[d].at = "write" /\ p \notin Loose' =>
                 /\ query'[d].at = "statement" =>
                       IF query'[d].do = "create" THEN Held(p)' = {}
                       ELSE \E row \in Held(p)' : row.id = query'[d].id
                 /\ query'[d].at = "reread" \/ Done(query'[d]) =>
                       IF query'[d].do = "delete" THEN Held(p)' = {} ELSE Holds(p, value)'
      BY <1>0, <2>1, <3>10, <3>12
    <3> QED
      BY <3>8, <3>13 DEF WriterOK
  <2>4. CASE ~(PrefBusy(d) /\ pcall[d].op \in Writes)
    BY <1>0, <2>2, <2>4 DEF WriterOK, PrefBusy
  <2> QED
    BY <2>2, <2>3, <2>4
<1>9. ReaderOK(c)'
  BY <1>0, <1>1 DEF ReaderOK, PrefBusy, Writing, Writes
<1>10. WriterOK(c)'
  <2>0. PICK id : id = q.id
    OBVIOUS
  <2>1. q.do # "create" => IdOf(pref, id)'
    BY <1>0, <1>1, <1>3, <2>0 DEF WriterOK, Writing
  <2>2. PICK value : value = Meant(c)
    OBVIOUS
  <2>3. pref \notin Loose =>
            IF q.do = "delete" THEN Held(pref)' = {} ELSE Holds(pref, value)'
    BY <1>3, <2>2 DEF Holds
  <2>4. Current(c)' = pref /\ Meant(c)' = value
    BY <1>0, <2>2 DEF Current, Meant
  <2>5. /\ pcall'[c].at = "write" /\ r.at # "statement"
        /\ r.do # "create" => r.id = id /\ IdOf(pref, id)'
        /\ pref \notin Loose' =>
               IF r.do = "delete" THEN Held(pref)' = {} ELSE Holds(pref, value)'
    BY <1>0, <1>1, <1>2, <2>0, <2>1, <2>3
  <2>6. r.at # "statement" /\ k.at # "find" /\ pcall' = pcall
    BY <1>1, <2>5
  <2> QED
    BY <2>4, <2>5, <2>6 DEF WriterOK
<1> QED
  BY <1>0, <1>2, <1>3, <1>4, <1>6, <1>7, <1>8, <1>9, <1>10 DEF PrefInv

-----------------------------------------------------------------------------
(* A step that writes no row. *)

LEMMA TableStays ==
    ASSUME PrefInv, NEW c \in Clients, UNCHANGED <<setup, table, serial, account>>,
           DOMAIN pcall' = Clients, DOMAIN query' = Clients, DOMAIN owing' = Clients,
           DOMAIN entry' = Prefs, Loose \subseteq Loose',
           \A d \in Clients \ {c} : pcall'[d] = pcall[d] /\ query'[d] = query[d],
           \A p \in Prefs, d \in Clients \ {c} :
               Writing(c, p)' /\ Writing(d, p) => p \in Loose',
           \A p \in Prefs \ Loose' :
               entry'[p] # Unknown /\ ~Writing(c, p)' /\ (\A d \in Clients \ {c} : ~Writing(d, p)) =>
                   IF entry'[p] = Null THEN Held(p) = {}
                   ELSE Held(p) # {} /\ \A row \in Held(p) : row.value = entry'[p],
           \A d \in Clients : ReaderOK(d)',
           PrefCallOK(c)', WriterOK(c)'
    PROVE  PrefInv'
<1>0. /\ EntriesOK /\ OneEntry /\ WritersKnown /\ Prefs' = Prefs
      /\ \A d \in Clients : PrefCallOK(d) /\ WriterOK(d)
  BY DEF PrefInv, Prefs
<1>1. \A p \in Prefs : Held(p)' = Held(p)
  BY DEF Held, Visible
<1>2. EntriesOK' /\ OneEntry'
  BY <1>0, <1>1 DEF EntriesOK, OneEntry
<1>3. \A d \in Clients \ {c} : \A p \in Prefs : Writing(d, p)' <=> Writing(d, p)
  BY <1>0 DEF Writing, PrefBusy, PrefsOf
<1>4. WritersKnown'
  BY <1>0, <1>3 DEF WritersKnown
<1>5. EntriesKept'
  <2> SUFFICES ASSUME NEW p \in Prefs \ Loose', entry'[p] # Unknown,
                      \A d \in Clients : ~Writing(d, p)'
               PROVE  IF entry'[p] = Null THEN Held(p) = {}
                      ELSE Held(p) # {} /\ \A row \in Held(p) : row.value = entry'[p]
    BY <1>0, <1>1 DEF EntriesKept, Holds
  <2> QED
    BY <1>3
<1>6. ASSUME NEW d \in Clients \ {c} PROVE PrefCallOK(d)' /\ WriterOK(d)'
  <2>1. account' = account /\ pcall'[d] = pcall[d] /\ query'[d] = query[d] /\ PrefCallOK(d)
    BY <1>0
  <2>2. PrefCallOK(d)'
    BY <2>1, Zenon DEF PrefCallOK
  <2>3. WriterOK(d)'
    BY <1>0, <2>1 DEF WriterOK, PrefBusy, Current, Meant, IdOf, Held, Holds, Visible
  <2> QED
    BY <2>2, <2>3
<1> QED
  BY <1>0, <1>2, <1>4, <1>5, <1>6 DEF PrefInv

LEMMA CurrentOf ==
    ASSUME PrefInv, NEW c \in Clients, PrefBusy(c), pcall[c].op # "list"
    PROVE  /\ Current(c) \in Prefs /\ Current(c) = <<pcall[c].actor, Head(pcall[c].todo).key>>
           /\ Current(c) \in PrefsOf(pcall[c])
           /\ Head(pcall[c].todo) \in [key : account.keys, value : Values(account) \cup {Undefined}]
           /\ pcall[c].actor \in account.actors /\ query[c] # NoQuery
<1>1. query[c] # NoQuery
  BY DEF PrefInv, PrefCallOK, PrefBusy, NoPrefCall, NoQuery, IsQuery
<1>2. /\ pcall[c].actor \in account.actors /\ pcall[c].todo # <<>>
      /\ pcall[c].op \in {"get", "list", "set", "reset"}
      /\ pcall[c].todo \in Seq([key : account.keys, value : Values(account) \cup {Undefined}])
  BY <1>1, PrefQuery
<1>3. Head(pcall[c].todo) \in [key : account.keys, value : Values(account) \cup {Undefined}]
  BY <1>2, HeadIn
<1>4. Current(c) \in Prefs
  BY <1>2, <1>3 DEF Current, Prefs, PrefInv
<1>5. Current(c) \in PrefsOf(pcall[c])
  BY <1>2 DEF Current, PrefsOf
<1> QED
  BY <1>1, <1>2, <1>3, <1>4, <1>5 DEF Current

(* A find of a preference finds what is held of it; one of an actor's entries,
   what is held of each. *)
LEMMA HeldSought ==
    ASSUME PrefInv, NEW pref \in Prefs, FoundAgain(pref[1])
    PROVE  /\ Sought(Where(pref[1], pref[2])) = Held(pref)
           /\ \A row : row \in Held(pref) <=>
                  /\ row \in Sought([actor |-> pref[1].id, org |-> OrgOf(pref[1])])
                  /\ row.key = pref[2]
<1>1. pref[1] \in account.actors /\ pref[2] \in account.keys
  BY PrefParts DEF PrefInv
<1>2. \A row : row \in Held(pref) <=>
          /\ row \in table /\ Visible(row)
          /\ row.key = pref[2] /\ row.actor = pref[1].id /\ row.org = OrgOf(pref[1])
  BY WhereFields DEF Held
<1>3. Sought(Where(pref[1], pref[2])) = Held(pref)
  <2> DEFINE where == Where(pref[1], pref[2])
  <2>1. /\ DOMAIN where = {"key", "actor", "org"} /\ where.key = pref[2]
        /\ where.actor = pref[1].id /\ where.org = OrgOf(pref[1])
    BY DEF Where
  <2> HIDE DEF where
  <2>2. \A row : row \in Sought(where) <=>
            /\ row \in table /\ Visible(row)
            /\ row.actor = pref[1].id /\ row.org = OrgOf(pref[1])
            /\ "key" \in DOMAIN where => row.key = where.key
    BY <1>1, <2>1, SoughtFields
  <2>3. Sought(where) = Held(pref)
    BY <1>2, <2>1, <2>2
  <2> QED
    BY <2>3 DEF where
<1>4. ASSUME NEW row
      PROVE  row \in Held(pref) <=>
                 /\ row \in Sought([actor |-> pref[1].id, org |-> OrgOf(pref[1])])
                 /\ row.key = pref[2]
  <2> DEFINE where == [actor |-> pref[1].id, org |-> OrgOf(pref[1])]
  <2>1. /\ DOMAIN where = {"actor", "org"}
        /\ where.actor = pref[1].id /\ where.org = OrgOf(pref[1])
    OBVIOUS
  <2> HIDE DEF where
  <2>2. row \in Sought(where) <=>
            /\ row \in table /\ Visible(row)
            /\ row.actor = pref[1].id /\ row.org = OrgOf(pref[1])
            /\ "key" \in DOMAIN where => row.key = where.key
    BY <1>1, <2>1, SoughtFields
  <2>3. row \in Held(pref) <=> row \in Sought(where) /\ row.key = pref[2]
    BY <1>2, <2>1, <2>2
  <2> QED
    BY <2>3 DEF where
<1> QED
  BY <1>3, <1>4

LEMMA LostSought ==
    ASSUME NEW actor, ~FoundAgain(actor), NEW where, "org" \in DOMAIN where,
           where.org = OrgOf(actor)
    PROVE  Sought(where) = {}
<1>1. where.org = Null /\ setup.adapter \notin {"memory", "prisma"} /\ Undefined # Null
  BY AdaptersAssumption DEF FoundAgain, OrgOf
<1>2. \A value : ~FieldMatches(value, where.org)
  BY <1>1 DEF FieldMatches
<1> QED
  BY <1>1, <1>2 DEF Sought, FindMany

LEMMA ReadKeeps ==
    ASSUME PrefInv, NEW c \in Clients, query[c] # NoQuery, EntriesRead(c), QueryStays(c),
           setup' = setup, UNCHANGED <<account, pcall, entry, owing, tangled>>
    PROVE  PrefInv'
<1> DEFINE k == pcall[c]
           q == query[c]
<1>0. /\ EntriesOK /\ OneEntry /\ WritersKnown /\ EntriesKept /\ DOMAIN pcall = Clients
      /\ DOMAIN owing = Clients /\ DOMAIN entry = Prefs /\ Prefs' = Prefs /\ Loose' = Loose
      /\ \A d \in Clients : PrefCallOK(d) /\ WriterOK(d) /\ ReaderOK(d)
  BY LooseGrows DEF PrefInv, Prefs
<1>1. /\ DOMAIN query' = Clients /\ PrefCallOK(c)'
      /\ \A d \in Clients \ {c} : query'[d] = query[d]
      /\ query'[c].do = q.do /\ (q.do # "create" => query'[c].id = q.id)
  BY PrefCallsStay DEF QueryStays
<1>2. /\ PrefBusy(c) /\ k.at \in {"find", "write"} /\ k.actor \in account.actors
      /\ k.op \in {"get", "list", "set", "reset"} /\ AsksFor(k, q)
      /\ q.at = "reread" => q.do \in {"create", "update"}
  BY PrefQuery
<1>3. PICK r : r = query'[c]
  OBVIOUS
<1>4. /\ table' = table /\ serial' = serial /\ r.at = "settled"
      /\ Done(r) /\ q.at # "reread" =>
             /\ q.do \in {"findOne", "findMany"} /\ r.rows \subseteq Sought(q.where)
             /\ r.rows = {} => Sought(q.where) = {}
             /\ q.do = "findMany" => r.rows = Sought(q.where)
  BY <1>3 DEF EntriesRead
<1>5. \A d \in Clients, p \in Prefs : Writing(d, p)' <=> Writing(d, p)
  BY <1>0 DEF Writing, PrefBusy, PrefsOf
<1>6. WriterOK(c)'
  <2>1. CASE k.op \in Writes
    <3>1. PICK p : p = Current(c)
      OBVIOUS
    <3>2. PICK value : value = Meant(c)
      OBVIOUS
    <3>3. p \in Prefs /\ p = <<k.actor, Head(k.todo).key>>
      BY <1>2, <2>1, <3>1, CurrentOf DEF Writes
    <3>4. Current(c)' = p /\ Meant(c)' = value
      BY <3>1, <3>2 DEF Current, Meant
    <3>5. CASE k.at = "find"
      <4>1. Done(r) => /\ r.rows \subseteq Held(p)
                       /\ FoundAgain(p[1]) /\ r.rows = {} => Held(p) = {}
        <5>1. /\ q.do = "findOne" /\ q.at # "reread" /\ q.where = Where(p[1], p[2])
          BY <1>2, <2>1, <3>3, <3>5 DEF AsksFor, Writes
        <5>2. CASE FoundAgain(p[1])
          BY <1>4, <3>3, <5>1, <5>2, HeldSought
        <5>3. CASE ~FoundAgain(p[1])
          <6>1. Sought(Where(p[1], p[2])) = {}
            BY <5>3, LostSought DEF Where
          <6> QED
            BY <1>4, <5>1, <5>3, <6>1
        <5> QED
          BY <5>2, <5>3
      <4>2. \A row \in Held(p) : IdOf(p, row.id)
        BY <1>0 DEF Held, IdOf, EntriesOK
      <4>3. p \notin Loose => \A row, other \in Held(p) : row = other
        BY <1>0, <3>3 DEF OneEntry
      <4>4. Done(r) => /\ \A row \in r.rows : IdOf(p, row.id)
                       /\ p \notin Loose => r.rows = Held(p)
        BY <3>3, <4>1, <4>2, <4>3 DEF Loose
      <4> QED
        BY <1>0, <1>3, <1>4, <3>4, <3>5, <4>4 DEF WriterOK, IdOf, Held, Visible
    <3>6. CASE k.at = "write"
      <4>1. Done(r) => q.at = "reread"
        BY <1>2, <1>4, <3>6 DEF AsksFor
      <4>2. q.do # "create" => IdOf(p, q.id)
        BY <1>0, <1>2, <2>1, <3>1, <3>6 DEF WriterOK
      <4>3. p \notin Loose /\ Done(r) =>
                IF q.do = "delete" THEN Held(p) = {} ELSE Holds(p, value)
        BY <1>0, <1>2, <2>1, <3>1, <3>2, <3>6, <4>1 DEF WriterOK
      <4>4. q.do # "create" => r.id = q.id /\ r.do = q.do
        BY <1>1, <1>3
      <4> QED
        BY <1>0, <1>1, <1>3, <1>4, <3>4, <3>6, <4>2, <4>3, <4>4 DEF WriterOK, IdOf, Held, Holds, Visible
    <3> QED
      BY <1>2, <3>5, <3>6
  <2>2. CASE k.op \notin Writes
    BY <2>2 DEF WriterOK
  <2> QED
    BY <2>1, <2>2
<1>7. ReaderOK(c)'
  <2>1. ASSUME NEW p \in DOMAIN owing[c] \ Loose, owing[c][p] # Unknown, Done(r)
        PROVE  Fits(r.rows, p, owing[c][p])
    <3>1. p \in Prefs /\ k.op \notin Writes /\ FoundAgain(p[1])
      BY <1>0, <2>1 DEF ReaderOK, Loose
    <3>2. entry[p] = owing[c][p] /\ \A d \in Clients : ~Writing(d, p)
      BY <1>0, <1>2, <2>1 DEF ReaderOK
    <3>3. IF owing[c][p] = Null THEN Held(p) = {} ELSE Holds(p, owing[c][p])
      BY <1>0, <2>1, <3>1, <3>2 DEF EntriesKept
    <3>4. CASE k.op = "get"
      <4>1. p = <<k.actor, Head(k.todo).key>>
        BY <1>0, <2>1, <3>4 DEF ReaderOK, Current
      <4>2. q.do = "findOne" /\ q.at # "reread" /\ q.where = Where(p[1], p[2])
        BY <1>2, <3>4, <4>1 DEF AsksFor
      <4>3. r.rows \subseteq Held(p) /\ (r.rows = {} => Held(p) = {})
        BY <1>4, <2>1, <3>1, <4>2, HeldSought
      <4>4. \A row \in Held(p) : row.key = p[2]
        BY WhereFields DEF Held
      <4> QED
        BY <3>3, <4>3, <4>4 DEF Fits, Holds
    <3>5. CASE k.op = "list"
      <4>1. p[1] = k.actor
        BY <1>0, <2>1, <3>5 DEF ReaderOK
      <4>2. /\ q.do = "findMany" /\ q.at # "reread"
            /\ q.where = [actor |-> p[1].id, org |-> OrgOf(p[1])]
        BY <1>2, <3>5, <4>1 DEF AsksFor
      <4>3. r.rows = Sought([actor |-> p[1].id, org |-> OrgOf(p[1])])
        BY <1>4, <2>1, <4>2
      <4>4. {row \in r.rows : row.key = p[2]} = Held(p)
        BY <3>1, <4>3, HeldSought
      <4> QED
        BY <3>3, <4>4 DEF Fits, Holds
    <3> QED
      BY <1>2, <3>1, <3>4, <3>5 DEF Writes
  <2>2. /\ owing' = owing /\ entry' = entry /\ tangled' = tangled /\ Loose' = Loose /\ pcall' = pcall
        /\ Current(c)' = Current(c)
    BY <1>0 DEF Current
  <2>3. ReaderOK(c)
    BY <1>0
  <2> QED
    BY <1>0, <1>2, <1>3, <1>5, <2>1, <2>2, <2>3 DEF ReaderOK, PrefBusy
<1>8. ASSUME NEW d \in Clients \ {c} PROVE ReaderOK(d)'
  BY <1>0, <1>1, <1>5 DEF ReaderOK, PrefBusy, Fits, Current
<1>9. \A p \in Prefs \ Loose' :
          entry'[p] # Unknown /\ ~Writing(c, p)' /\ (\A d \in Clients \ {c} : ~Writing(d, p)) =>
              IF entry'[p] = Null THEN Held(p) = {}
              ELSE Held(p) # {} /\ \A row \in Held(p) : row.value = entry'[p]
  BY <1>0, <1>5 DEF EntriesKept, Holds
<1>10. \A p \in Prefs, d \in Clients \ {c} : Writing(c, p)' /\ Writing(d, p) => p \in Loose'
  BY <1>0, <1>5 DEF WritersKnown
<1>11. \A d \in Clients : ReaderOK(d)'
  BY <1>7, <1>8
<1> QED
  BY <1>0, <1>1, <1>4, <1>6, <1>9, <1>10, <1>11, TableStays

-----------------------------------------------------------------------------
(* The service between two queries of a call. *)

LEMMA LeftOfHead ==
    ASSUME NEW S, NEW k, k.todo \in Seq(S), k.todo # <<>>, k.op # "reset", NEW pref,
           pref[2] = Head(k.todo).key, \A i \in 2 .. Len(k.todo) : k.todo[i].key # pref[2]
    PROVE  Left(k, pref) = Head(k.todo).value
<1> DEFINE P(i) == /\ k.todo[i].key = pref[2]
                   /\ \A j \in i + 1 .. Len(k.todo) : k.todo[j].key # pref[2]
<1>1. 1 \in 1 .. Len(k.todo) /\ Len(k.todo) \in Nat /\ Head(k.todo) = k.todo[1]
  OBVIOUS
<1>2. P(1)
  BY <1>1
<1>3. \A i \in 1 .. Len(k.todo) : P(i) => i = 1
  BY <1>1
<1>4. (CHOOSE i \in 1 .. Len(k.todo) : P(i)) = 1
  <2> HIDE DEF P
  <2> QED
    BY <1>1, <1>2, <1>3
<1> QED
  BY <1>1, <1>4 DEF Left

LEMMA MovesEntry ==
    ASSUME PrefInv, NEW c \in Clients, PrefMoves(c), NEW n, n = pcall'[c]
    PROVE  /\ UNCHANGED <<account, owing, tangled>> /\ DOMAIN entry' = Prefs
           /\ pcall[c].op \notin Writes \/ n = pcall[c] => entry' = entry
           /\ pcall[c].op \in Writes /\ n # pcall[c] =>
                  \A p \in Prefs :
                      entry'[p] =
                          IF p \notin PrefsOf(pcall[c]) \/ (n.at # "returned" /\ p \in PrefsOf(n))
                          THEN entry[p]
                          ELSE IF n.at = "returned" /\ n.out # "done" THEN Unknown
                          ELSE Left(pcall[c], p)
<1> DEFINE k == pcall[c]
<1>1. /\ UNCHANGED <<account, owing, tangled>> /\ DOMAIN entry = Prefs
  BY DEF PrefMoves, PrefInv
<1>2. k.op \notin Writes \/ n = k => entry' = entry
  BY DEF PrefMoves
<1>3. ASSUME k.op \in Writes, n # k
      PROVE  \E over, ended :
                 /\ over = IF n.at = "returned" /\ n.out # "done" THEN [k EXCEPT !.op = "unknown"]
                           ELSE k
                 /\ ended = IF n.at = "returned" THEN PrefsOf(k) ELSE PrefsOf(k) \ PrefsOf(n)
                 /\ entry' = [pref \in DOMAIN entry |->
                                 IF pref \notin ended THEN entry[pref]
                                 ELSE IF over.op = "unknown" THEN Unknown ELSE Left(k, pref)]
  BY <1>3, Zenon DEF PrefMoves
<1>4. ASSUME k.op \in Writes, n # k
      PROVE  /\ DOMAIN entry' = Prefs
             /\ \A p \in Prefs :
                    entry'[p] =
                        IF p \notin PrefsOf(k) \/ (n.at # "returned" /\ p \in PrefsOf(n))
                        THEN entry[p]
                        ELSE IF n.at = "returned" /\ n.out # "done" THEN Unknown
                        ELSE Left(k, p)
  <2>1. PICK over, ended :
            /\ over = IF n.at = "returned" /\ n.out # "done" THEN [k EXCEPT !.op = "unknown"]
                      ELSE k
            /\ ended = IF n.at = "returned" THEN PrefsOf(k) ELSE PrefsOf(k) \ PrefsOf(n)
            /\ entry' = [pref \in DOMAIN entry |->
                            IF pref \notin ended THEN entry[pref]
                            ELSE IF over.op = "unknown" THEN Unknown ELSE Left(k, pref)]
    BY <1>3, <1>4
  <2>2. "op" \in DOMAIN k /\ k.op # "unknown"
    BY <1>4 DEF PrefInv, PrefCallOK, NoPrefCall, Writes
  <2>3. over.op = "unknown" <=> n.at = "returned" /\ n.out # "done"
    BY <2>1, <2>2
  <2> QED
    BY <1>1, <2>1, <2>3
<1> QED
  BY <1>1, <1>2, <1>4

LEMMA ReadersStay ==
    ASSUME PrefInv, NEW c \in Clients, UNCHANGED <<account, owing>>, tangled' = tangled /\ Loose' = Loose,
           \A d \in Clients \ {c} : pcall'[d] = pcall[d] /\ query'[d] = query[d],
           \A p \in Prefs : Writing(c, p)' => Writing(c, p),
           \A p \in Prefs : ~Writing(c, p) => entry'[p] = entry[p],
           NEW d \in Clients \ {c}
    PROVE  ReaderOK(d)'
<1>1. ReaderOK(d) /\ Prefs' = Prefs /\ owing' = owing
  BY DEF PrefInv, Prefs
<1>2. pcall'[d] = pcall[d] /\ query'[d] = query[d]
  OBVIOUS
<1>3. \A e \in Clients : \A p \in Prefs : Writing(e, p)' => Writing(e, p)
  BY DEF Writing, PrefBusy, PrefsOf, Prefs
<1>4. Current(d)' = Current(d)
  BY <1>2 DEF Current
<1>5. \A p \in DOMAIN owing[d] \ Loose : owing[d][p] # Unknown =>
          /\ PrefBusy(d) => /\ entry'[p] = owing[d][p] /\ \A e \in Clients : ~Writing(e, p)'
                            /\ Done(query[d]) => Fits(query[d].rows, p, owing[d][p])
          /\ pcall[d].at = "returned" /\ pcall[d].out = "done" =>
                 Fits(pcall[d].rows, p, owing[d][p])
  <2>1. DOMAIN owing[d] \subseteq Prefs
    BY <1>1 DEF ReaderOK
  <2> QED
    BY <1>1, <1>3, <2>1 DEF ReaderOK
<1> QED
  BY <1>1, <1>2, <1>4, <1>5 DEF ReaderOK, PrefBusy

(* A preference is as a call that writes has left it, or as its next statement
   expects it. *)
Obeyed(k, pref, value) == IF k.op = "reset" THEN Held(pref) = {} ELSE Holds(pref, value)
Ready(pref, q) ==
    IF q.do = "create" THEN Held(pref) = {} ELSE \E row \in Held(pref) : row.id = q.id

(* A call that ends. *)
LEMMA AnsweredKeeps ==
    ASSUME PrefInv, NEW c \in Clients, PrefBusy(c), NEW out, NEW rows,
           PrefAnswers(c, out, rows), PrefMoves(c),
           pcall[c].op \notin Writes /\ out = "done" => Done(query[c]) /\ rows = query[c].rows,
           pcall[c].op \in Writes /\ out = "done" =>
               /\ Len(pcall[c].todo) = 1
               /\ Current(c) \notin Loose => Obeyed(pcall[c], Current(c), Meant(c))
    PROVE  PrefInv'
<1> DEFINE k == pcall[c]
<1>0. /\ EntriesKept /\ DOMAIN pcall = Clients /\ DOMAIN query = Clients
      /\ DOMAIN owing = Clients /\ DOMAIN entry = Prefs
      /\ PrefCallOK(c) /\ ReaderOK(c) /\ WritersKnown
  BY DEF PrefInv
<1>1. query[c] # NoQuery
  BY <1>0 DEF PrefCallOK, PrefBusy, NoPrefCall, NoQuery, IsQuery
<1>2. /\ DOMAIN k = {"op", "actor", "todo", "at", "rows", "out"}
      /\ k.op \in {"get", "list", "set", "reset"} /\ k.actor \in account.actors
      /\ k.todo \in Seq([key : account.keys, value : Values(account) \cup {Undefined}])
      /\ k.op = "set" => k.todo \in Seq([key : account.keys, value : Values(account)])
      /\ k.op # "list" => k.todo # <<>>
      /\ k.op \in {"get", "reset"} => Len(k.todo) = 1
  BY <1>1, PrefQuery
<1>3. /\ pcall' = [pcall EXCEPT ![c] = [k EXCEPT !.at = "returned", !.out = out, !.rows = rows]]
      /\ query' = [query EXCEPT ![c] = NoQuery] /\ UNCHANGED <<setup, table, serial>>
  BY DEF PrefAnswers, Untouched
<1>4. PICK n : n = pcall'[c]
  OBVIOUS
<1>5. /\ DOMAIN n = DOMAIN k /\ n.op = k.op /\ n.actor = k.actor /\ n.todo = k.todo
      /\ n.at = "returned" /\ n.out = out /\ n.rows = rows /\ n # k
      /\ DOMAIN pcall' = Clients /\ DOMAIN query' = Clients
      /\ query'[c] = NoQuery
      /\ \A d \in Clients \ {c} : pcall'[d] = pcall[d] /\ query'[d] = query[d]
  BY <1>0, <1>2, <1>3, <1>4 DEF PrefBusy
<1>6. /\ account' = account /\ owing' = owing /\ tangled' = tangled /\ Loose' = Loose /\ DOMAIN entry' = Prefs
      /\ k.op \notin Writes => entry' = entry
      /\ k.op \in Writes => \A p \in Prefs :
             entry'[p] = IF p \notin PrefsOf(k) THEN entry[p]
                         ELSE IF out # "done" THEN Unknown ELSE Left(k, p)
  <2>1. UNCHANGED <<account, owing, tangled>> /\ DOMAIN entry' = Prefs /\ Loose' = Loose
    BY <1>3, <1>4, MovesEntry, LooseGrows
  <2> QED
    BY <1>4, <1>5, <2>1, MovesEntry
<1>7. ~PrefBusy(c)' /\ \A p : ~Writing(c, p)'
  BY <1>4, <1>5 DEF PrefBusy, Writing
<1>8. PrefCallOK(c)'
  <2>1. /\ n.op \in {"get", "list", "set", "reset"} /\ n.actor \in account.actors
        /\ n.todo \in Seq([key : account.keys, value : Values(account) \cup {Undefined}])
        /\ n.op = "set" => n.todo \in Seq([key : account.keys, value : Values(account)])
        /\ n.op # "list" => n.todo # <<>>
        /\ n.op \in {"get", "reset"} => Len(n.todo) = 1
        /\ DOMAIN n = {"op", "actor", "todo", "at", "rows", "out"}
    BY <1>2, <1>5
  <2> QED
    BY <1>4, <1>5, <1>6, <2>1, Zenon DEF PrefCallOK
<1>9. WriterOK(c)'
  BY <1>7 DEF WriterOK
<1>10. \A p \in Prefs : ~Writing(c, p) => entry'[p] = entry[p]
  BY <1>6 DEF Writing
<1>11. \A d \in Clients \ {c} : ReaderOK(d)'
  BY <1>5, <1>6, <1>7, <1>10, ReadersStay
<1>12. ReaderOK(c)'
  <2>1. Current(c)' = Current(c) /\ Prefs' = Prefs
    BY <1>4, <1>5, <1>6 DEF Current, Prefs
  <2>2. ASSUME NEW p \in DOMAIN owing[c] \ Loose, owing[c][p] # Unknown, out = "done"
        PROVE  Fits(rows, p, owing[c][p])
    <3>1. k.op \notin Writes
      BY <1>0, <2>2 DEF ReaderOK
    <3> QED
      BY <1>0, <2>2, <3>1 DEF ReaderOK
  <2>3. /\ DOMAIN owing[c] \subseteq Prefs
        /\ n.op \in Writes => DOMAIN owing[c] = {}
        /\ n.op = "get" => DOMAIN owing[c] = {Current(c)}
        /\ n.op = "list" => \A pref \in DOMAIN owing[c] : pref[1] = n.actor
        /\ n # NoPrefCall
    BY <1>0, <1>5 DEF ReaderOK, NoPrefCall
  <2> QED
    BY <1>4, <1>5, <1>6, <1>7, <2>1, <2>2, <2>3 DEF ReaderOK
<1>13. ASSUME NEW p \in Prefs \ Loose, entry'[p] # Unknown,
              \A d \in Clients \ {c} : ~Writing(d, p)
       PROVE  IF entry'[p] = Null THEN Held(p) = {}
              ELSE Held(p) # {} /\ \A row \in Held(p) : row.value = entry'[p]
  <2>1. CASE ~Writing(c, p)
    BY <1>0, <1>10, <1>13, <2>1 DEF EntriesKept, Holds
  <2>2. CASE Writing(c, p)
    <3>1. k.op \in Writes /\ p \in PrefsOf(k)
      BY <2>2 DEF Writing
    <3>2. out = "done" /\ entry'[p] = Left(k, p) /\ Len(k.todo) = 1 /\ k.todo # <<>>
      BY <1>2, <1>6, <1>13, <3>1 DEF Writes
    <3>3. p = <<k.actor, Head(k.todo).key>>
      BY <1>2, <3>1, <3>2 DEF PrefsOf, Writes
    <3>4. p = Current(c)
      BY <3>3 DEF Current
    <3>5. CASE k.op = "reset"
      BY <3>1, <3>2, <3>4, <3>5, <1>13 DEF Left, Obeyed
    <3>6. CASE k.op = "set"
      <4>1. Left(k, p) = Head(k.todo).value
        BY <1>2, <3>2, <3>3, <3>6, LeftOfHead
      <4>2. Head(k.todo) \in [key : account.keys, value : Values(account)]
        BY <1>2, <3>2, <3>6, HeadIn
      <4>3. entry'[p] = Meant(c) /\ entry'[p] # Null
        BY <3>2, <4>1, <4>2 DEF Meant, PrefInv, Keyed
      <4>4. Holds(p, entry'[p])
        BY <1>13, <3>1, <3>2, <3>4, <3>6, <4>3 DEF Obeyed
      <4> QED
        BY <4>3, <4>4 DEF Holds
    <3> QED
      BY <3>1, <3>5, <3>6 DEF Writes
  <2> QED
    BY <2>1, <2>2
<1>14. \A d \in Clients : ReaderOK(d)'
  BY <1>11, <1>12
<1> QED
  BY <1>0, <1>3, <1>5, <1>6, <1>7, <1>8, <1>9, <1>13, <1>14, TableStays

(* A call that asks for something else. *)
LEMMA AskedKeeps ==
    ASSUME PrefInv, NEW c \in Clients, PrefBusy(c), pcall[c].op \in Writes, PrefMoves(c),
           NEW n, pcall' = [pcall EXCEPT ![c] = n], n # pcall[c],
           NEW q, query' = [query EXCEPT ![c] = q], UNCHANGED <<setup, table, serial>>,
           DOMAIN n = DOMAIN pcall[c], n.op = pcall[c].op, n.actor = pcall[c].actor,
           n.at \in {"find", "write"}, IsQuery(q), q.at = "statement", AsksFor(n, q),
           \/ n.todo = pcall[c].todo
           \/ /\ n.todo = Tail(pcall[c].todo) /\ n.todo # <<>>
              /\ Current(c) \notin Loose => Holds(Current(c), Meant(c)),
           NEW p, p = <<n.actor, Head(n.todo).key>>,
           n.at = "write" /\ q.do # "create" => IdOf(p, q.id),
           n.at = "write" /\ p \notin Loose => Ready(p, q)
    PROVE  PrefInv'
<1> DEFINE k == pcall[c]
<1>0. /\ EntriesKept /\ DOMAIN pcall = Clients /\ DOMAIN query = Clients
      /\ DOMAIN owing = Clients /\ DOMAIN entry = Prefs
      /\ ReaderOK(c) /\ WritersKnown /\ query[c] # NoQuery
  BY CurrentOf DEF PrefInv, Writes
<1>1. /\ DOMAIN k = {"op", "actor", "todo", "at", "rows", "out"}
      /\ k.op \in {"set", "reset"} /\ k.actor \in account.actors
      /\ k.todo \in Seq([key : account.keys, value : Values(account) \cup {Undefined}])
      /\ k.op = "set" => k.todo \in Seq([key : account.keys, value : Values(account)])
      /\ k.todo # <<>> /\ (k.op = "reset" => Len(k.todo) = 1)
  BY <1>0, PrefQuery DEF Writes
<1>2. /\ pcall'[c] = n /\ query'[c] = q /\ DOMAIN pcall' = Clients /\ DOMAIN query' = Clients
      /\ \A d \in Clients \ {c} : pcall'[d] = pcall[d] /\ query'[d] = query[d]
  BY <1>0
<1>3. n.todo # k.todo => k.op = "set"
  BY <1>1
<1>4. /\ n.todo \in Seq([key : account.keys, value : Values(account) \cup {Undefined}])
      /\ k.op = "set" => n.todo \in Seq([key : account.keys, value : Values(account)])
      /\ n.todo # <<>>
  <2>1. ASSUME NEW S, k.todo \in Seq(S) PROVE n.todo \in Seq(S)
    <3>1. Tail(k.todo) \in Seq(S)
      BY <1>1, <2>1, HeadIn
    <3> QED
      BY <2>1, <3>1
  <2>2. n.todo # <<>>
    BY <1>1
  <2> QED
    BY <1>1, <2>1, <2>2
<1>5. \A x : x \in PrefsOf(n) => x \in PrefsOf(k)
  <2> SUFFICES ASSUME NEW i \in 1 .. Len(n.todo)
               PROVE  \E j \in 1 .. Len(k.todo) : k.todo[j] = n.todo[i]
    BY <1>1 DEF PrefsOf
  <2>1. CASE n.todo = k.todo
    BY <2>1
  <2>2. CASE n.todo = Tail(k.todo)
    <3>1. i + 1 \in 1 .. Len(k.todo) /\ k.todo[i + 1] = n.todo[i]
      BY <1>1, <2>2
    <3> QED
      BY <3>1
  <2> QED
    BY <2>1, <2>2
<1>6. /\ account' = account /\ owing' = owing /\ tangled' = tangled /\ Loose' = Loose /\ DOMAIN entry' = Prefs
      /\ \A x \in Prefs :
             entry'[x] = IF x \notin PrefsOf(k) \/ x \in PrefsOf(n) THEN entry[x]
                         ELSE Left(k, x)
  BY <1>2, MovesEntry, LooseGrows
<1>7. PrefBusy(c)' /\ \A x : Writing(c, x)' <=> x \in PrefsOf(n)
  BY <1>1, <1>2 DEF PrefBusy, Writing, PrefsOf, Prefs, Writes
<1>8. \A x : Writing(c, x)' => Writing(c, x)
  BY <1>5, <1>7 DEF Writing
<1>9. PrefCallOK(c)'
  <2>1. /\ DOMAIN n = {"op", "actor", "todo", "at", "rows", "out"}
        /\ n.op \in {"get", "list", "set", "reset"} /\ n.actor \in account.actors
        /\ n.todo \in Seq([key : account.keys, value : Values(account) \cup {Undefined}])
        /\ n.op = "set" => n.todo \in Seq([key : account.keys, value : Values(account)])
        /\ n.op # "list" => n.todo # <<>>
        /\ n.op \in {"get", "reset"} => Len(n.todo) = 1
    BY <1>1, <1>4
  <2>2. IsQuery(q) /\ AsksFor(n, q) /\ (q.at = "reread" => q.do \in {"create", "update"})
    OBVIOUS
  <2> QED
    BY <1>2, <1>6, <2>1, <2>2, Zenon DEF PrefCallOK
<1>10. WriterOK(c)'
  <2>1. Current(c)' = p
    BY <1>2 DEF Current
  <2>2. /\ n.at = "write" /\ q.do # "create" => IdOf(p, q.id)
        /\ n.at = "write" /\ p \notin Loose =>
               IF q.do = "create" THEN Held(p) = {} ELSE \E row \in Held(p) : row.id = q.id
        /\ ~Done(q) /\ q.at = "statement"
    BY DEF Done, Ready
  <2> QED
    BY <1>2, <1>6, <2>1, <2>2 DEF WriterOK, IdOf, Held, Visible
<1>11. \A x \in Prefs : ~Writing(c, x) => entry'[x] = entry[x]
  BY <1>6 DEF Writing
<1>12. \A d \in Clients \ {c} : ReaderOK(d)'
  BY <1>2, <1>6, <1>8, <1>11, ReadersStay
<1>13. ReaderOK(c)'
  BY <1>0, <1>1, <1>2, <1>6 DEF ReaderOK, Writes
<1>14. ASSUME NEW x \in Prefs \ Loose, entry'[x] # Unknown, ~Writing(c, x)',
              \A d \in Clients \ {c} : ~Writing(d, x)
       PROVE  IF entry'[x] = Null THEN Held(x) = {}
              ELSE Held(x) # {} /\ \A row \in Held(x) : row.value = entry'[x]
  <2>1. CASE ~Writing(c, x)
    BY <1>0, <1>11, <1>14, <2>1 DEF EntriesKept, Holds
  <2>2. CASE Writing(c, x)
    <3>1. x \in PrefsOf(k) /\ x \notin PrefsOf(n)
      BY <1>7, <1>14, <2>2 DEF Writing
    <3>2. n.todo # k.todo
      BY <3>1 DEF PrefsOf
    <3>3. n.todo = Tail(k.todo) /\ k.op = "set" /\ (Current(c) \notin Loose => Holds(Current(c), Meant(c)))
      BY <1>3, <3>2
    <3>4. PICK i \in 1 .. Len(k.todo) : x = <<k.actor, k.todo[i].key>>
      BY <1>1, <3>1 DEF PrefsOf
    <3>5. ASSUME NEW j \in 2 .. Len(k.todo) PROVE k.todo[j].key # x[2]
      <4>1. j - 1 \in 1 .. Len(n.todo) /\ n.todo[j - 1] = k.todo[j]
        BY <1>1, <3>3
      <4>2. <<n.actor, n.todo[j - 1].key>> \in PrefsOf(n)
        BY <1>1, <4>1 DEF PrefsOf
      <4> QED
        BY <3>1, <3>4, <4>1, <4>2
    <3>6. i = 1 /\ k.todo[1] = Head(k.todo)
      BY <1>1, <3>4, <3>5
    <3>7. Left(k, x) = Head(k.todo).value
      BY <1>1, <3>3, <3>4, <3>5, <3>6, LeftOfHead
    <3>8. Current(c) = x /\ Meant(c) = Left(k, x)
      BY <3>4, <3>6, <3>7 DEF Current, Meant
    <3>9. Head(k.todo) \in [key : account.keys, value : Values(account)]
      BY <1>1, <3>3, HeadIn
    <3>10. entry'[x] = Meant(c) /\ entry'[x] # Null
      BY <1>6, <3>1, <3>7, <3>8, <3>9 DEF PrefInv, Keyed
    <3> QED
      BY <1>14, <3>3, <3>8, <3>10 DEF Holds
  <2> QED
    BY <2>1, <2>2
<1>15. \A x \in Prefs, d \in Clients \ {c} : Writing(c, x)' /\ Writing(d, x) => x \in Loose'
  BY <1>0, <1>6, <1>8 DEF WritersKnown
<1>16. \A d \in Clients : ReaderOK(d)'
  BY <1>12, <1>13
<1> QED
  BY <1>0, <1>2, <1>6, <1>9, <1>10, <1>14, <1>15, <1>16, TableStays

LEMMA PrefMovesKeep ==
    ASSUME PrefInv, NEW c \in Clients, PrefMoves(c)
    PROVE  PrefInv'
<1> DEFINE k == pcall[c]
           q == query[c]
<1>0. /\ DOMAIN pcall = Clients /\ DOMAIN query = Clients /\ WriterOK(c) /\ PrefCallOK(c)
  BY DEF PrefInv
<1>1. PrefStep(c)
  BY DEF PrefMoves
<1>2. CASE /\ k.at # "idle" /\ UNCHANGED pcall
           /\ IF setup.adapter = "memory" THEN MemoryStep(c) ELSE Statement(c)
  <2>1. UNCHANGED <<account, pcall, entry, owing, tangled>>
    BY <1>2, MovesEntry
  <2>2. /\ query[c] # NoQuery /\ setup' = setup /\ QueryStays(c)
        /\ EntriesRead(c) \/ EntryCreated(c) \/ EntryUpdated(c) \/ EntryDeleted(c)
    BY <1>2, PrefStatement
  <2>3. CASE EntriesRead(c)
    BY <2>1, <2>2, <2>3, ReadKeeps
  <2>4. PICK pref : pref = Current(c)
    OBVIOUS
  <2>5. CASE EntryCreated(c)
    <3>1. EntriesMoved(c, pref) /\ q.at = "statement" /\ q.do = "create"
      BY <2>2, <2>4, <2>5, CreateMoves DEF EntryCreated
    <3> QED
      BY <2>1, <2>2, <2>4, <3>1, WriteKeeps
  <2>6. CASE EntryUpdated(c)
    <3>1. EntriesMoved(c, pref) /\ q.at = "statement" /\ q.do = "update"
      BY <2>2, <2>4, <2>6, UpdateMoves DEF EntryUpdated
    <3> QED
      BY <2>1, <2>2, <2>4, <3>1, WriteKeeps
  <2>7. CASE EntryDeleted(c)
    <3>1. EntriesMoved(c, pref) /\ q.at = "statement" /\ q.do = "delete"
      BY <2>2, <2>4, <2>7, DeleteMoves DEF EntryDeleted
    <3> QED
      BY <2>1, <2>2, <2>4, <3>1, WriteKeeps
  <2> QED
    BY <2>2, <2>3, <2>5, <2>6, <2>7
<1>3. ASSUME k.at \in {"find", "write"}
      PROVE  /\ PrefBusy(c) /\ q # NoQuery
             /\ DOMAIN k = {"op", "actor", "todo", "at", "rows", "out"}
             /\ k.op \in {"get", "list", "set", "reset"} /\ k.actor \in account.actors
             /\ k.op \in {"get", "reset"} => Len(k.todo) = 1
             /\ k.op # "list" => k.todo # <<>>
             /\ k.todo \in Seq([key : account.keys, value : Values(account) \cup {Undefined}])
             /\ AsksFor(k, q)
  <2>1. q # NoQuery
    BY <1>0, <1>3 DEF PrefCallOK, NoPrefCall, NoQuery, IsQuery
  <2> QED
    BY <2>1, PrefQuery
<1>4. Served(c) => Done(q)
  BY DEF Served, Settled, Done
<1>5. CASE PrefRead(c)
  <2>1. /\ k.op \in {"get", "list"} /\ k.at = "find" /\ Done(q)
        /\ PrefAnswers(c, "done", q.rows)
    BY <1>4, <1>5 DEF PrefRead, PrefAwaits
  <2> QED
    BY <1>3, <2>1, AnsweredKeeps DEF Writes
<1>6. CASE PrefFails(c)
  <2>1. /\ k.at \in {"find", "write"} /\ q.out # "done" /\ PrefAnswers(c, q.out, {})
    BY <1>6 DEF PrefFails, Served
  <2> QED
    BY <1>3, <2>1, AnsweredKeeps
<1>7. CASE PrefFound(c)
  <2>1. k.op \in Writes /\ k.at = "find" /\ Done(q)
    BY <1>4, <1>7 DEF PrefFound, PrefAwaits
  <2>2. PICK p : p = Current(c)
    OBVIOUS
  <2>3. /\ \A row \in q.rows : IdOf(p, row.id)
        /\ p \notin Loose => q.rows = Held(p)
        /\ PrefBusy(c)
    BY <1>0, <1>3, <2>1, <2>2 DEF WriterOK
  <2>4. CASE k.op = "reset" /\ q.rows = {} /\ PrefAnswers(c, "done", {})
    <3>1. Len(k.todo) = 1 /\ (Current(c) \notin Loose => Obeyed(k, Current(c), Meant(c)))
      BY <1>3, <2>1, <2>2, <2>3, <2>4 DEF Obeyed
    <3> QED
      BY <2>1, <2>3, <2>4, <3>1, AnsweredKeeps
  <2>5. CASE /\ pcall' = [pcall EXCEPT ![c].at = "write"] /\ Untouched
             /\ IF q.rows = {} THEN Asks(c, CreateEntry(k))
                ELSE \E row \in q.rows :
                         Asks(c, IF k.op = "reset" THEN Query("delete", row.id, <<>>, <<>>)
                                 ELSE Query("update", row.id, <<>>, [value |-> Head(k.todo).value]))
             /\ ~(k.op = "reset" /\ q.rows = {})
    <3>1. PICK n : n = [k EXCEPT !.at = "write"]
      OBVIOUS
    <3>2. /\ pcall' = [pcall EXCEPT ![c] = n] /\ UNCHANGED <<setup, table, serial>>
      BY <2>5, <3>1 DEF Untouched
    <3>3. /\ DOMAIN n = DOMAIN k /\ n.op = k.op /\ n.actor = k.actor /\ n.at = "write"
          /\ n.todo = k.todo /\ n # k
      BY <1>3, <2>1, <3>1
    <3>4. p = <<n.actor, Head(n.todo).key>>
      BY <2>2, <3>3 DEF Current
    <3>5. CASE q.rows = {} /\ query' = [query EXCEPT ![c] = CreateEntry(k)] /\ k.op = "set"
      <4>1. PICK ask : ask = CreateEntry(k)
        OBVIOUS
      <4>2. /\ IsQuery(ask) /\ ask.at = "statement" /\ ask.do = "create"
            /\ ask.data = [key |-> Head(k.todo).key, actor |-> k.actor.id,
                           org |-> OrgOf(k.actor), value |-> Head(k.todo).value]
        BY <4>1 DEF CreateEntry, Query, IsQuery
      <4>3. AsksFor(n, ask)
        BY <3>3, <3>5, <4>2 DEF AsksFor
      <4> QED
        <5>1. query' = [query EXCEPT ![c] = ask]
          BY <3>5, <4>1
        <5>2. p \notin Loose => Ready(p, ask)
          BY <2>3, <3>5, <4>2 DEF Ready
        <5>3. IsQuery(ask) /\ ask.at = "statement" /\ ask.do = "create"
          BY <4>2
        <5> QED
          BY <2>1, <2>3, <3>2, <3>3, <3>4, <4>3, <5>1, <5>2, <5>3, AskedKeeps
    <3>6. ASSUME NEW row \in q.rows, k.op = "reset",
                 query' = [query EXCEPT ![c] = Query("delete", row.id, <<>>, <<>>)]
          PROVE  PrefInv'
      <4>1. PICK ask : ask = Query("delete", row.id, <<>>, <<>>)
        OBVIOUS
      <4>2. IsQuery(ask) /\ ask.at = "statement" /\ ask.do = "delete" /\ ask.id = row.id
        BY <4>1 DEF Query, IsQuery
      <4>3. AsksFor(n, ask)
        BY <3>3, <3>6, <4>2 DEF AsksFor
      <4> QED
        <5>1. query' = [query EXCEPT ![c] = ask]
          BY <3>6, <4>1
        <5>2. IdOf(p, ask.id) /\ (p \notin Loose => Ready(p, ask))
          BY <2>3, <4>2 DEF Ready
        <5> QED
          BY <2>1, <2>3, <3>2, <3>3, <3>4, <4>2, <4>3, <5>1, <5>2, AskedKeeps
    <3>7. ASSUME NEW row \in q.rows, k.op = "set",
                 query' = [query EXCEPT ![c] =
                              Query("update", row.id, <<>>, [value |-> Head(k.todo).value])]
          PROVE  PrefInv'
      <4>1. PICK ask : ask = Query("update", row.id, <<>>, [value |-> Head(k.todo).value])
        OBVIOUS
      <4>2. /\ IsQuery(ask) /\ ask.at = "statement" /\ ask.do = "update" /\ ask.id = row.id
            /\ ask.data = [value |-> Head(k.todo).value]
        BY <4>1 DEF Query, IsQuery
      <4>3. AsksFor(n, ask)
        BY <3>3, <3>7, <4>2 DEF AsksFor
      <4> QED
        <5>1. query' = [query EXCEPT ![c] = ask]
          BY <3>7, <4>1
        <5>2. IdOf(p, ask.id) /\ (p \notin Loose => Ready(p, ask))
          BY <2>3, <4>2 DEF Ready
        <5> QED
          BY <2>1, <2>3, <3>2, <3>3, <3>4, <4>2, <4>3, <5>1, <5>2, AskedKeeps
    <3> QED
      BY <2>1, <2>5, <3>5, <3>6, <3>7 DEF Asks, Writes
  <2> QED
    BY <1>7, <2>4, <2>5, Zenon DEF PrefFound
<1>8. CASE PrefWritten(c)
  <2> DEFINE next == [k EXCEPT !.at = "find", !.todo = Tail(@)]
  <2>1. k.op \in Writes /\ k.at = "write" /\ Done(q)
    BY <1>4, <1>8 DEF PrefWritten, PrefAwaits
  <2>2. PICK n : n = next
    OBVIOUS
  <2>3. /\ DOMAIN n = DOMAIN k /\ n.op = k.op /\ n.actor = k.actor /\ n.at = "find"
        /\ n.todo = Tail(k.todo) /\ n # k /\ PrefBusy(c)
    BY <1>3, <2>1, <2>2
  <2>4. Current(c) \notin Loose => Obeyed(k, Current(c), Meant(c))
    <3>1. k.op = "reset" <=> q.do = "delete"
      BY <1>3, <2>1 DEF AsksFor, Writes
    <3> QED
      BY <1>0, <2>1, <2>3, <3>1 DEF WriterOK, Obeyed
  <2>5. CASE n.todo = <<>> /\ PrefAnswers(c, "done", {})
    <3>1. Len(k.todo) = 1
      BY <1>3, <2>1, <2>3, <2>5, HeadIn DEF Writes
    <3>2. k.op \in Writes /\ PrefBusy(c) /\ PrefAnswers(c, "done", {})
      BY <2>1, <2>3, <2>5
    <3> QED
      BY <2>4, <3>1, <3>2, AnsweredKeeps
  <2>6. CASE /\ n.todo # <<>> /\ pcall' = [pcall EXCEPT ![c] = n] /\ Asks(c, FindEntry(n))
             /\ Untouched
    <3>1. PICK ask : ask = FindEntry(n)
      OBVIOUS
    <3>2. /\ IsQuery(ask) /\ ask.at = "statement" /\ ask.do = "findOne"
          /\ ask.where = Where(n.actor, Head(n.todo).key)
      BY <3>1 DEF FindEntry, Query, IsQuery
    <3>3. AsksFor(n, ask)
      BY <2>1, <2>3, <3>2 DEF AsksFor, Writes
    <3>4. query' = [query EXCEPT ![c] = ask] /\ UNCHANGED <<setup, table, serial>>
      BY <2>6, <3>1 DEF Asks, Untouched
    <3>5. k.op = "set"
      BY <1>3, <2>1, <2>3, <2>6, HeadIn DEF Writes
    <3>6. PICK p : p = <<n.actor, Head(n.todo).key>>
      OBVIOUS
    <3>7. n.todo # <<>> /\ pcall' = [pcall EXCEPT ![c] = n]
      BY <2>6
    <3>8. Current(c) \notin Loose => Holds(Current(c), Meant(c))
      BY <2>4, <3>5 DEF Obeyed
    <3>9. IsQuery(ask) /\ ask.at = "statement"
      BY <3>2
    <3>10. n.at # "write"
      BY <2>3
    <3> QED
      BY <2>1, <2>3, <3>3, <3>4, <3>6, <3>7, <3>8, <3>9, <3>10, AskedKeeps
  <2>7. IF n.todo = <<>> THEN PrefAnswers(c, "done", {})
        ELSE pcall' = [pcall EXCEPT ![c] = n] /\ Asks(c, FindEntry(n)) /\ Untouched
    BY <1>8, <2>2, Zenon DEF PrefWritten
  <2> QED
    BY <2>5, <2>6, <2>7
<1> QED
  BY <1>1, <1>2, <1>5, <1>6, <1>7, <1>8 DEF PrefStep

-----------------------------------------------------------------------------
(* The steps of the preferences' clients. *)

LEMMA PrefLeavesKeep ==
    ASSUME PrefInv, NEW c \in Clients, PrefLeaves(c)
    PROVE  PrefInv'
<1>0. /\ DOMAIN pcall = Clients /\ DOMAIN query = Clients /\ DOMAIN owing = Clients
      /\ DOMAIN entry = Prefs /\ PrefCallOK(c) /\ EntriesKept
  BY DEF PrefInv
<1>1. /\ pcall[c].at = "returned" /\ pcall' = [pcall EXCEPT ![c] = NoPrefCall]
      /\ owing' = [owing EXCEPT ![c] = <<>>]
      /\ UNCHANGED <<setup, table, serial, query, account, entry, tangled>>
  BY DEF PrefLeaves, PrefEnds, Untouched
<1>2. query[c] = NoQuery
  BY <1>0, <1>1 DEF PrefCallOK, NoPrefCall, AsksFor
<1>3. /\ pcall'[c] = NoPrefCall /\ query'[c] = NoQuery /\ owing'[c] = <<>>
      /\ DOMAIN pcall' = Clients /\ DOMAIN owing' = Clients /\ Prefs' = Prefs
      /\ \A d \in Clients \ {c} : pcall'[d] = pcall[d] /\ query'[d] = query[d] /\ owing'[d] = owing[d]
      /\ Loose' = Loose
  BY <1>0, <1>1, <1>2, LooseGrows DEF Prefs
<1>4. /\ ~PrefBusy(c) /\ ~PrefBusy(c)' /\ \A p : ~Writing(c, p) /\ ~Writing(c, p)'
  BY <1>1, <1>3 DEF PrefBusy, Writing, NoPrefCall
<1>5. PrefCallOK(c)' /\ WriterOK(c)'
  BY <1>3, <1>4 DEF PrefCallOK, WriterOK
<1>6. ReaderOK(c)'
  BY <1>3, <1>4 DEF ReaderOK, NoPrefCall
<1>7. ASSUME NEW d \in Clients \ {c} PROVE ReaderOK(d)'
  <2>1. \A e \in Clients : \A p : Writing(e, p)' <=> Writing(e, p)
    BY <1>3, <1>4 DEF Writing, PrefBusy, PrefsOf
  <2>2. ReaderOK(d) /\ Current(d)' = Current(d)
    BY <1>3 DEF PrefInv, Current
  <2> QED
    BY <1>1, <1>3, <2>1, <2>2 DEF ReaderOK, PrefBusy, Fits
<1>8. \A d \in Clients : ReaderOK(d)'
  BY <1>6, <1>7
<1>9. \A p \in Prefs \ Loose' :
          entry'[p] # Unknown /\ (\A d \in Clients \ {c} : ~Writing(d, p)) =>
              IF entry'[p] = Null THEN Held(p) = {}
              ELSE Held(p) # {} /\ \A row \in Held(p) : row.value = entry'[p]
  BY <1>0, <1>1, <1>3, <1>4 DEF EntriesKept, Holds
<1> QED
  BY <1>0, <1>1, <1>3, <1>4, <1>5, <1>8, <1>9, TableStays

(* What a call begins with. *)
LEMMA TodoBegins ==
    ASSUME Keyed(account), account.service = "preferences", NEW op \in account.ops,
           NEW todo \in CASE op = "list" -> {<<>>}
                          [] op = "set" -> account.sets
                          [] OTHER -> {<<[key |-> key, value |-> Undefined]>> : key \in account.keys}
    PROVE  /\ op \in {"get", "list", "set", "reset"}
           /\ todo \in Seq([key : account.keys, value : Values(account) \cup {Undefined}])
           /\ op = "set" => todo \in Seq([key : account.keys, value : Values(account)])
           /\ op # "list" => todo # <<>>
           /\ op \in {"get", "reset"} => Len(todo) = 1
<1> DEFINE T == [key : account.keys, value : Values(account) \cup {Undefined}]
           S == [key : account.keys, value : Values(account)]
<1>1. op \in {"get", "list", "set", "reset"} /\ account.sets \subseteq Seq(S) \ {<<>>}
  BY DEF Keyed
<1>2. CASE op = "list"
  BY <1>2
<1>3. CASE op = "set"
  <2>1. todo \in Seq(S) /\ todo # <<>>
    BY <1>1, <1>3
  <2>2. S \subseteq T
    OBVIOUS
  <2> HIDE DEF S, T
  <2>3. todo \in Seq(T)
    BY <2>1, <2>2
  <2> QED
    BY <1>3, <2>1, <2>3 DEF S, T
<1>4. CASE op \in {"get", "reset"}
  <2>1. PICK key \in account.keys : todo = <<[key |-> key, value |-> Undefined]>>
    BY <1>4
  <2>2. [key |-> key, value |-> Undefined] \in T
    OBVIOUS
  <2> HIDE DEF T
  <2>3. todo \in Seq(T) /\ Len(todo) = 1 /\ todo # <<>>
    BY <2>1, <2>2
  <2> QED
    BY <1>4, <2>3 DEF T
<1> QED
  BY <1>1, <1>2, <1>3, <1>4

LEMMA PrefCallsKeep ==
    ASSUME PrefInv, NEW c \in Clients, PrefCalls(c)
    PROVE  PrefInv'
<1>0. /\ DOMAIN pcall = Clients /\ DOMAIN query = Clients /\ DOMAIN owing = Clients
      /\ DOMAIN entry = Prefs /\ PrefCallOK(c) /\ ReaderOK(c) /\ EntriesKept
      /\ account.service = "preferences" /\ Keyed(account)
  BY DEF PrefInv
<1>1. PICK op \in account.ops, actor \in account.actors :
          \E todo \in CASE op = "list" -> {<<>>}
                        [] op = "set" -> account.sets
                        [] OTHER -> {<<[key |-> key, value |-> Undefined]>> : key \in account.keys} :
              PrefStarts(c, op, actor, todo)
  BY DEF PrefCalls
<1>2. PICK todo \in CASE op = "list" -> {<<>>}
                      [] op = "set" -> account.sets
                      [] OTHER -> {<<[key |-> key, value |-> Undefined]>> : key \in account.keys} :
          PrefStarts(c, op, actor, todo)
  BY <1>1
<1>3. PICK k : k = [op |-> op, actor |-> actor, todo |-> todo, at |-> "find", rows |-> {},
                    out |-> "none"]
  OBVIOUS
<1>4. PICK q : q = IF op = "list"
                   THEN Query("findMany", Undefined, [actor |-> actor.id, org |-> OrgOf(actor)], <<>>)
                   ELSE FindEntry(k)
  OBVIOUS
<1>5. /\ pcall[c] = NoPrefCall /\ pcall' = [pcall EXCEPT ![c] = k]
      /\ query' = [query EXCEPT ![c] = q] /\ UNCHANGED <<setup, table, serial>>
  BY <1>2, <1>3, <1>4 DEF PrefStarts, Asks, Untouched
<1>6. /\ DOMAIN k = {"op", "actor", "todo", "at", "rows", "out"} /\ k.op = op
      /\ k.actor = actor /\ k.todo = todo /\ k.at = "find" /\ k # NoPrefCall
  BY <1>3 DEF NoPrefCall
<1>7. /\ op \in {"get", "list", "set", "reset"}
      /\ todo \in Seq([key : account.keys, value : Values(account) \cup {Undefined}])
      /\ op = "set" => todo \in Seq([key : account.keys, value : Values(account)])
      /\ op # "list" => todo # <<>>
      /\ op \in {"get", "reset"} => Len(todo) = 1
  BY <1>0, <1>2, TodoBegins
<1>8. /\ IsQuery(q) /\ q.at = "statement" /\ AsksFor(k, q) /\ q.do \in {"findOne", "findMany"}
  BY <1>4, <1>6 DEF IsQuery, Query, FindEntry, AsksFor
<1>9. /\ pcall'[c] = k /\ query'[c] = q /\ DOMAIN pcall' = Clients /\ DOMAIN query' = Clients
      /\ \A d \in Clients \ {c} : pcall'[d] = pcall[d] /\ query'[d] = query[d]
  BY <1>0, <1>5
<1> DEFINE touched == PrefsOf(k)
           near == {pref \in touched : \E d \in Others(c) : Writing(d, pref)}
<1>10. /\ tangled' = IF k.op \in Writes THEN tangled \cup near ELSE tangled
       /\ owing' = [d \in Clients |->
              IF d = c /\ k.op \notin Writes
              THEN [pref \in touched |-> IF pref \in near THEN Unknown ELSE entry[pref]]
              ELSE [pref \in DOMAIN owing[d] |->
                       IF k.op \in Writes /\ pref \in touched THEN Unknown ELSE owing[d][pref]]]
       /\ UNCHANGED <<account, entry>>
  BY <1>9, Zenon DEF PrefCalls
<1>11. Prefs' = Prefs /\ Loose \subseteq Loose'
  <2>1. tangled \subseteq tangled' /\ account' = account
    BY <1>10
  <2> QED
    BY <1>5, <2>1, LooseGrows DEF Prefs
<1>12. \A p : ~Writing(c, p)
  BY <1>5 DEF Writing, PrefBusy, NoPrefCall
<1>13. PrefBusy(c)' /\ \A p : Writing(c, p)' <=> k.op \in Writes /\ p \in touched
  BY <1>6, <1>9, <1>11 DEF PrefBusy, Writing, PrefsOf, Writes
<1>14. \A d \in Clients \ {c} : \A p : Writing(d, p)' <=> Writing(d, p)
  BY <1>9, <1>11 DEF Writing, PrefBusy, PrefsOf
<1>15. PrefCallOK(c)'
  <2>1. /\ DOMAIN k = {"op", "actor", "todo", "at", "rows", "out"}
        /\ k.op \in {"get", "list", "set", "reset"} /\ k.actor \in account.actors
        /\ k.todo \in Seq([key : account.keys, value : Values(account) \cup {Undefined}])
        /\ k.op = "set" => k.todo \in Seq([key : account.keys, value : Values(account)])
        /\ k.op # "list" => k.todo # <<>>
        /\ k.op \in {"get", "reset"} => Len(k.todo) = 1
    BY <1>6, <1>7
  <2>2. IsQuery(q) /\ AsksFor(k, q) /\ (q.at = "reread" => q.do \in {"create", "update"})
    BY <1>8
  <2>3. account' = account
    BY <1>10
  <2> QED
    BY <1>9, <2>1, <2>2, <2>3, Zenon DEF PrefCallOK
<1>16. ~Done(q)
  BY <1>8 DEF Done
<1>17. WriterOK(c)'
  BY <1>6, <1>9, <1>16 DEF WriterOK
<1> HIDE DEF near
<1>18. \A p \in touched : p \notin near => \A d \in Clients : ~Writing(d, p)
  BY <1>12 DEF near, Others
<1>19. ReaderOK(c)'
  <2>1. PICK p : p = <<k.actor, Head(k.todo).key>>
    OBVIOUS
  <2>2. Current(c)' = p
    BY <1>9, <2>1 DEF Current
  <2>3. CASE k.op \in Writes
    <3>1. DOMAIN owing'[c] = {}
      BY <1>0, <1>5, <1>10, <2>3 DEF ReaderOK
    <3> QED
      BY <1>6, <1>9, <2>3, <3>1 DEF ReaderOK, Writes
  <2>4. CASE k.op \notin Writes
    <3>1. owing'[c] = [pref \in touched |-> IF pref \in near THEN Unknown ELSE entry[pref]]
      BY <1>10, <2>4
    <3>2. k.op = "get" => touched = {p} /\ p \in Prefs
      <4> SUFFICES ASSUME k.op = "get" PROVE touched = {p} /\ p \in Prefs
        OBVIOUS
      <4>1. k.todo # <<>> /\ Len(k.todo) = 1
        BY <1>6, <1>7
      <4>2. Head(k.todo) \in [key : account.keys, value : Values(account) \cup {Undefined}]
        BY <1>6, <1>7, <4>1, HeadIn
      <4>3. p \in Prefs
        BY <1>0, <1>6, <2>1, <4>2 DEF Prefs
      <4>4. touched = {p}
        BY <1>6, <1>7, <2>1, <4>1 DEF PrefsOf
      <4> QED
        BY <4>3, <4>4
    <3>3. k.op = "list" => touched = {pref \in Prefs : pref[1] = k.actor}
      BY DEF PrefsOf
    <3>4. k.op \in {"get", "list"}
      BY <1>6, <1>7, <2>4 DEF Writes
    <3>5. DOMAIN owing'[c] = touched /\ touched \subseteq Prefs
      BY <3>1, <3>2, <3>3, <3>4
    <3>6. \A x \in touched : owing'[c][x] # Unknown =>
              entry[x] = owing'[c][x] /\ \A d \in Clients : ~Writing(d, x)'
      BY <1>13, <1>14, <1>18, <2>4, <3>1
    <3> QED
      BY <1>6, <1>9, <1>10, <1>11, <1>16, <2>2, <2>4, <3>2, <3>3, <3>4, <3>5, <3>6 DEF ReaderOK
  <2> QED
    BY <2>3, <2>4
<1>20. ASSUME NEW d \in Clients \ {c} PROVE ReaderOK(d)'
  <2>1. owing'[d] = [pref \in DOMAIN owing[d] |->
                        IF k.op \in Writes /\ pref \in touched THEN Unknown ELSE owing[d][pref]]
    BY <1>10
  <2>2. ReaderOK(d) /\ Current(d)' = Current(d)
    BY <1>9 DEF PrefInv, Current
  <2>3. Loose \subseteq Loose'
    BY <1>11
  <2>4. \A x \in DOMAIN owing'[d] : owing'[d][x] # Unknown =>
            /\ x \in DOMAIN owing[d] /\ owing'[d][x] = owing[d][x] /\ ~Writing(c, x)'
    BY <1>13, <2>1
  <2>5. DOMAIN owing'[d] = DOMAIN owing[d]
    BY <2>1
  <2>6. \A x \in DOMAIN owing'[d] \ Loose' : owing'[d][x] # Unknown =>
            /\ PrefBusy(d) => /\ entry[x] = owing'[d][x] /\ \A e \in Clients : ~Writing(e, x)'
                              /\ Done(query[d]) => Fits(query[d].rows, x, owing'[d][x])
            /\ pcall[d].at = "returned" /\ pcall[d].out = "done" =>
                   Fits(pcall[d].rows, x, owing'[d][x])
    <3>1. \A x \in DOMAIN owing'[d] \ Loose' : owing'[d][x] # Unknown =>
              /\ x \in DOMAIN owing[d] \ Loose /\ owing'[d][x] = owing[d][x]
              /\ (\A e \in Clients : ~Writing(e, x)) => \A e \in Clients : ~Writing(e, x)'
      BY <1>14, <2>3, <2>4
    <3> QED
      BY <2>2, <3>1 DEF ReaderOK
  <2>7. /\ DOMAIN owing[d] \subseteq Prefs
        /\ pcall[d] = NoPrefCall \/ pcall[d].op \in Writes => DOMAIN owing[d] = {}
        /\ pcall[d].op = "get" => DOMAIN owing[d] = {Current(d)}
        /\ pcall[d].op = "list" => \A pref \in DOMAIN owing[d] : pref[1] = pcall[d].actor
    BY <2>2 DEF ReaderOK
  <2> QED
    <3>1. /\ pcall'[d] = pcall[d] /\ query'[d] = query[d] /\ Prefs' = Prefs /\ entry' = entry
          /\ PrefBusy(d)' <=> PrefBusy(d)
      BY <1>9, <1>10, <1>11 DEF PrefBusy
    <3>2. /\ DOMAIN owing'[d] \subseteq Prefs'
          /\ pcall'[d] = NoPrefCall \/ pcall'[d].op \in Writes => DOMAIN owing'[d] = {}
          /\ pcall'[d].op = "get" => DOMAIN owing'[d] = {Current(d)'}
          /\ pcall'[d].op = "list" => \A pref \in DOMAIN owing'[d] : pref[1] = pcall'[d].actor
      BY <2>2, <2>5, <2>7, <3>1
    <3>3. \A x \in DOMAIN owing'[d] \ Loose' : owing'[d][x] # Unknown =>
            /\ PrefBusy(d)' => /\ entry'[x] = owing'[d][x] /\ \A e \in Clients : ~Writing(e, x)'
                               /\ Done(query'[d]) => Fits(query'[d].rows, x, owing'[d][x])
            /\ pcall'[d].at = "returned" /\ pcall'[d].out = "done" =>
                   Fits(pcall'[d].rows, x, owing'[d][x])
      BY <2>6, <3>1
    <3> QED
      BY <3>2, <3>3 DEF ReaderOK
<1>21. \A p \in Prefs \ Loose' :
          entry'[p] # Unknown /\ ~Writing(c, p)' /\ (\A d \in Clients \ {c} : ~Writing(d, p)) =>
              IF entry'[p] = Null THEN Held(p) = {}
              ELSE Held(p) # {} /\ \A row \in Held(p) : row.value = entry'[p]
  BY <1>0, <1>10, <1>11, <1>12 DEF EntriesKept, Holds
<1>22. \A p \in Prefs, d \in Clients \ {c} : Writing(c, p)' /\ Writing(d, p) => p \in Loose'
  BY <1>10, <1>11, <1>13 DEF near, Others, Loose
<1>23. /\ Loose \subseteq Loose' /\ DOMAIN owing' = Clients /\ DOMAIN entry' = Prefs
       /\ \A d \in Clients : ReaderOK(d)'
  BY <1>0, <1>10, <1>11, <1>19, <1>20
<1> QED
  BY <1>5, <1>9, <1>10, <1>15, <1>17, <1>21, <1>22, <1>23, TableStays

LEMMA PreferencesStep ==
    ASSUME \A p \in AccountPlans : Keyed(p), PreferencesInv, [AccountsNext]_accountVars
    PROVE  PreferencesInv'
<1>1. CASE UNCHANGED accountVars
  <2>1. UNCHANGED <<setup, table, serial, query, ucall, pcall, account, entry, owing, tangled>>
    BY <1>1 DEF accountVars, tableVars, accountGhosts
  <2>2. CASE account.service = "preferences"
    <3>1. PrefInv
      BY <2>2 DEF PreferencesInv
    <3>2. Prefs' = Prefs /\ \A p : Held(p)' = Held(p) /\ \A c : Writing(c, p)' <=> Writing(c, p)
      BY <2>1 DEF Prefs, Held, Visible, Writing, PrefBusy, PrefsOf
    <3>0. Loose' = Loose
      BY <2>1, LooseGrows
    <3>3. EntriesOK' /\ OneEntry' /\ WritersKnown' /\ EntriesKept'
      BY <2>1, <3>0, <3>1, <3>2 DEF PrefInv, EntriesOK, OneEntry, WritersKnown, EntriesKept, Holds
    <3>4. ASSUME NEW c \in Clients PROVE PrefCallOK(c)' /\ WriterOK(c)' /\ ReaderOK(c)'
      <4>1. PrefCallOK(c) /\ WriterOK(c) /\ ReaderOK(c)
        BY <3>1 DEF PrefInv
      <4>2. PrefCallOK(c)'
        BY <2>1, <4>1, Zenon DEF PrefCallOK
      <4>3. WriterOK(c)'
        BY <2>1, <3>0, <4>1 DEF WriterOK, PrefBusy, Current, Meant, IdOf, Held, Holds, Visible
      <4>4. Current(c)' = Current(c)
        BY <2>1 DEF Current
      <4>5. ReaderOK(c)'
        BY <2>1, <3>0, <3>2, <4>1, <4>4 DEF ReaderOK, PrefBusy, Fits
      <4> QED
        BY <4>2, <4>3, <4>5
    <3>5. PrefInv'
      BY <2>1, <3>1, <3>2, <3>3, <3>4 DEF PrefInv
    <3> QED
      BY <2>1, <2>2, <3>5 DEF PreferencesInv, NoAccount
  <2>3. CASE account.service # "preferences"
    BY <2>1, <2>3 DEF PreferencesInv, PrefFresh
  <2> QED
    BY <2>2, <2>3
<1>2. CASE AccountsDeploy
  <2>1. PICK p \in AccountPlans :
            /\ account' = p /\ setup' = p.setup
            /\ entry' = IF p.service = "preferences"
                        THEN [pref \in p.actors \X p.keys |-> Null] ELSE <<>>
    BY <1>2 DEF AccountsDeploy
  <2>2. PrefFresh /\ UNCHANGED <<table, serial, query, ucall, pcall, owing, tangled>>
    BY <1>2 DEF AccountsDeploy, PreferencesInv
  <2>3. PrefFresh'
    BY <2>2 DEF PrefFresh
  <2>4. CASE p.service = "preferences"
    <3>1. Prefs' = p.actors \X p.keys /\ entry' = [pref \in Prefs' |-> Null]
      BY <2>1, <2>4 DEF Prefs
    <3>2. /\ table' = {} /\ serial' = 0
          /\ \A c \in Clients : pcall'[c] = NoPrefCall /\ query'[c] = NoQuery /\ owing'[c] = <<>>
          /\ DOMAIN pcall' = Clients /\ DOMAIN query' = Clients /\ DOMAIN owing' = Clients
      BY <2>3 DEF PrefFresh
    <3>3. \A x : Held(x)' = {}
      BY <3>2 DEF Held
    <3>4. \A c \in Clients : ~PrefBusy(c)' /\ \A x : ~Writing(c, x)'
      BY <3>2 DEF PrefBusy, Writing, NoPrefCall
    <3>5. EntriesOK' /\ OneEntry' /\ WritersKnown' /\ EntriesKept'
      BY <3>1, <3>2, <3>3, <3>4 DEF EntriesOK, OneEntry, WritersKnown, EntriesKept
    <3>6. ASSUME NEW c \in Clients PROVE PrefCallOK(c)' /\ WriterOK(c)' /\ ReaderOK(c)'
      BY <3>2, <3>4, <3>6 DEF PrefCallOK, WriterOK, ReaderOK, NoPrefCall
    <3>7. PrefInv'
      BY <2>1, <2>4, <3>1, <3>2, <3>5, <3>6 DEF PrefInv
    <3> QED
      BY <2>1, <2>3, <2>4, <3>7 DEF PreferencesInv, PrefFresh
  <2>5. CASE p.service # "preferences"
    BY <2>1, <2>3, <2>5 DEF PreferencesInv, PrefFresh
  <2> QED
    BY <2>4, <2>5
<1>3. ASSUME NEW c \in Clients, UserCalls(c) \/ UserMoves(c) \/ UserLeaves(c)
      PROVE  PreferencesInv'
  <2>1. account' = account /\ pcall' = pcall
    BY <1>3 DEF UserCalls, UserMoves, UserLeaves
  <2>2. account # NoAccount /\ account.service # "preferences"
    <3>1. UserCalls(c) => account.service = "users"
      BY DEF UserCalls
    <3>2. UserMoves(c) \/ UserLeaves(c) => ucall[c] # NoUserCall
      BY DEF UserMoves, UserLeaves, UserStep, UserEnds, CreateChecked, UpdateFound, UpdateChecked,
             DeleteFound, UserAwaits, UserServed, UserFails, NoUserCall
    <3> QED
      BY <1>3, <3>1, <3>2 DEF PreferencesInv, PrefFresh, NoAccount
  <2> QED
    BY <2>1, <2>2 DEF PreferencesInv, NoAccount
<1>4. ASSUME NEW c \in Clients, PrefCalls(c) \/ PrefMoves(c) \/ PrefLeaves(c)
      PROVE  PreferencesInv'
  <2>1. account' = account /\ ucall' = ucall
    BY <1>4 DEF PrefCalls, PrefMoves, PrefLeaves
  <2>2. account.service = "preferences"
    <3>1. PrefCalls(c) => account.service = "preferences"
      BY DEF PrefCalls
    <3>2. PrefMoves(c) \/ PrefLeaves(c) => pcall[c] # NoPrefCall
      BY DEF PrefMoves, PrefLeaves, PrefStep, PrefEnds, PrefRead, PrefFound, PrefWritten,
             PrefFails, PrefAwaits, NoPrefCall
    <3> QED
      BY <1>4, <3>1, <3>2 DEF PreferencesInv
  <2>3. PrefInv'
    BY <1>4, <2>2, PrefCallsKeep, PrefMovesKeep, PrefLeavesKeep DEF PreferencesInv
  <2> QED
    BY <2>1, <2>2, <2>3 DEF PreferencesInv, NoAccount
<1> QED
  BY <1>1, <1>2, <1>3, <1>4 DEF AccountsNext

-----------------------------------------------------------------------------
(* An actor that is not found again reads nothing. *)

LostOK(c) ==
    LET k == pcall[c]
        q == query[c]
    IN  k.op \in {"get", "list"} /\ ~FoundAgain(k.actor) =>
            /\ Done(q) => q.rows = {}
            /\ k.at = "returned" /\ k.out = "done" => k.rows = {}
LostInv == account.service = "preferences" => \A c \in Clients : LostOK(c)

LEMMA LostMoves ==
    ASSUME PrefInv, NEW c \in Clients, LostOK(c), PrefMoves(c)
    PROVE  LostOK(c)' /\ setup' = setup
           /\ \A d \in Clients \ {c} : pcall'[d] = pcall[d] /\ query'[d] = query[d]
<1> DEFINE k == pcall[c]
           q == query[c]
<1>0. DOMAIN pcall = Clients /\ DOMAIN query = Clients /\ PrefCallOK(c)
  BY DEF PrefInv
<1>1. PrefStep(c)
  BY DEF PrefMoves
<1>2. ASSUME k.at \in {"find", "write"}
      PROVE  /\ q # NoQuery /\ DOMAIN k = {"op", "actor", "todo", "at", "rows", "out"}
             /\ IsQuery(q) /\ AsksFor(k, q)
  <2>1. q # NoQuery
    BY <1>0, <1>2 DEF PrefCallOK, NoPrefCall, NoQuery, IsQuery
  <2> QED
    BY <2>1, PrefQuery
<1>3. ASSUME NEW out, NEW rows, PrefAnswers(c, out, rows), k.at \in {"find", "write"},
             k.op \in {"get", "list"} /\ ~FoundAgain(k.actor) /\ out = "done" => rows = {}
      PROVE  LostOK(c)' /\ setup' = setup
             /\ \A d \in Clients \ {c} : pcall'[d] = pcall[d] /\ query'[d] = query[d]
  <2>1. /\ pcall' = [pcall EXCEPT ![c] = [@ EXCEPT !.at = "returned", !.out = out, !.rows = rows]]
        /\ query' = [query EXCEPT ![c] = NoQuery] /\ setup' = setup
    BY <1>3 DEF PrefAnswers, Untouched
  <2>2. PICK n : n = pcall'[c]
    OBVIOUS
  <2>3. n.op = k.op /\ n.actor = k.actor /\ n.out = out /\ n.rows = rows /\ query'[c] = NoQuery
    BY <1>0, <1>2, <1>3, <2>1, <2>2
  <2>4. ~Done(query'[c])
    BY <2>3 DEF Done, NoQuery
  <2>5. FoundAgain(n.actor)' <=> FoundAgain(k.actor)
    BY <2>1, <2>3 DEF FoundAgain
  <2> QED
    BY <1>0, <1>3, <2>1, <2>2, <2>3, <2>4, <2>5 DEF LostOK, FoundAgain
<1>4. CASE PrefRead(c)
  <2>1. PrefAnswers(c, "done", q.rows) /\ k.at = "find" /\ Done(q)
    BY <1>4 DEF PrefRead, PrefAwaits, Served, Settled, Done
  <2> QED
    BY <1>3, <2>1 DEF LostOK
<1>5. ASSUME k.op \in Writes, k.at \in {"find", "write"}, setup' = setup,
             NEW n, n.op = k.op, pcall' = [pcall EXCEPT ![c] = n],
             NEW ask, Asks(c, ask)
      PROVE  LostOK(c)' /\ \A d \in Clients \ {c} : pcall'[d] = pcall[d] /\ query'[d] = query[d]
  BY <1>0, <1>5 DEF LostOK, Writes, Asks
<1>6. CASE PrefFound(c)
  <2>1. k.op \in Writes /\ k.at = "find"
    BY <1>6 DEF PrefFound, PrefAwaits
  <2>2. CASE k.op = "reset" /\ q.rows = {}
    <3>1. PrefAnswers(c, "done", {})
      BY <1>6, <2>2 DEF PrefFound
    <3> QED
      BY <1>3, <2>1, <3>1
  <2>3. CASE ~(k.op = "reset" /\ q.rows = {})
    <3>1. /\ pcall' = [pcall EXCEPT ![c].at = "write"] /\ setup' = setup
          /\ \E ask : Asks(c, ask)
      BY <1>6, <2>3 DEF PrefFound, Untouched
    <3>2. PICK n : n = [k EXCEPT !.at = "write"]
      OBVIOUS
    <3>3. pcall' = [pcall EXCEPT ![c] = n] /\ n.op = k.op
      BY <1>2, <2>1, <3>1, <3>2
    <3> QED
      BY <1>5, <2>1, <3>1, <3>3
  <2> QED
    BY <2>2, <2>3
<1>7. CASE PrefWritten(c)
  <2>1. k.op \in Writes /\ k.at = "write"
    BY <1>7 DEF PrefWritten, PrefAwaits
  <2>2. PICK n : n = [k EXCEPT !.at = "find", !.todo = Tail(@)]
    OBVIOUS
  <2>3. \/ PrefAnswers(c, "done", {})
        \/ pcall' = [pcall EXCEPT ![c] = n] /\ setup' = setup /\ \E ask : Asks(c, ask)
    BY <1>7, <2>2 DEF PrefWritten, Untouched
  <2>4. n.op = k.op
    BY <1>2, <2>1, <2>2
  <2> QED
    BY <1>3, <1>5, <2>1, <2>3, <2>4
<1>8. CASE PrefFails(c)
  <2>1. PrefAnswers(c, q.out, {}) /\ k.at \in {"find", "write"}
    BY <1>8 DEF PrefFails
  <2> QED
    BY <1>3, <2>1
<1>9. CASE /\ k.at # "idle" /\ UNCHANGED pcall
           /\ IF setup.adapter = "memory" THEN MemoryStep(c) ELSE Statement(c)
  <2>1. /\ q # NoQuery /\ setup' = setup /\ QueryStays(c)
        /\ EntriesRead(c) \/ EntryCreated(c) \/ EntryUpdated(c) \/ EntryDeleted(c)
    BY <1>9, PrefStatement
  <2>2. \A d \in Clients \ {c} : pcall'[d] = pcall[d] /\ query'[d] = query[d]
    BY <1>9, <2>1 DEF QueryStays
  <2>3. /\ k.at \in {"find", "write"} /\ AsksFor(k, q)
        /\ q.at = "reread" => q.do \in {"create", "update"}
    BY <2>1, PrefQuery
  <2>4. ASSUME k.op \in {"get", "list"}, ~FoundAgain(k.actor), Done(query'[c])
        PROVE  query'[c].rows = {}
    <3>1. k.at = "find" /\ q.do \in {"findOne", "findMany"} /\ q.at # "reread"
      BY <2>3, <2>4 DEF AsksFor
    <3>2. EntriesRead(c)
      BY <2>1, <3>1 DEF EntryCreated, EntryUpdated, EntryDeleted
    <3>3. query'[c].rows \subseteq Sought(q.where)
      BY <2>4, <3>1, <3>2 DEF EntriesRead
    <3>4. PICK where : where = q.where
      OBVIOUS
    <3>5. "org" \in DOMAIN where /\ where.org = OrgOf(k.actor)
      BY <2>3, <3>1, <3>4 DEF AsksFor, Where
    <3>6. Sought(where) = {}
      BY <2>4, <3>5, LostSought
    <3> QED
      BY <3>3, <3>4, <3>6
  <2>5. pcall' = pcall /\ (k.at = "returned" => FALSE)
    BY <1>9, <2>3
  <2> QED
    BY <2>1, <2>2, <2>4, <2>5 DEF LostOK, FoundAgain
<1> QED
  BY <1>1, <1>4, <1>6, <1>7, <1>8, <1>9 DEF PrefStep

LEMMA LostStep ==
    ASSUME PreferencesInv, LostInv, [AccountsNext]_accountVars
    PROVE  LostInv'
<1>0. ASSUME NEW c \in Clients, LostOK(c), setup' = setup, pcall'[c] = pcall[c],
             query'[c] = query[c]
      PROVE  LostOK(c)'
  BY <1>0 DEF LostOK, FoundAgain
<1>1. CASE UNCHANGED accountVars
  BY <1>0, <1>1 DEF accountVars, tableVars, LostInv
<1>2. CASE AccountsDeploy
  <2>1. \A c \in Clients : pcall'[c] = NoPrefCall
    BY <1>2 DEF AccountsDeploy, PreferencesInv, PrefFresh
  <2> QED
    BY <2>1 DEF LostInv, LostOK, NoPrefCall
<1>3. ASSUME NEW c \in Clients, UserCalls(c) \/ UserMoves(c) \/ UserLeaves(c)
      PROVE  LostInv'
  <2>1. account' = account
    BY <1>3 DEF UserCalls, UserMoves, UserLeaves
  <2>2. account.service # "preferences"
    <3>1. UserCalls(c) => account.service = "users"
      BY DEF UserCalls
    <3>2. UserMoves(c) \/ UserLeaves(c) => ucall[c] # NoUserCall
      BY DEF UserMoves, UserLeaves, UserStep, UserEnds, CreateChecked, UpdateFound, UpdateChecked,
             DeleteFound, UserAwaits, UserServed, UserFails, NoUserCall
    <3> QED
      BY <1>3, <3>1, <3>2 DEF PreferencesInv
  <2> QED
    BY <2>1, <2>2 DEF LostInv
<1>4. ASSUME NEW c \in Clients, PrefCalls(c) \/ PrefMoves(c) \/ PrefLeaves(c)
      PROVE  LostInv'
  <2>0. account.service = "preferences" /\ account' = account
    <3>1. PrefCalls(c) => account.service = "preferences"
      BY DEF PrefCalls
    <3>2. PrefMoves(c) \/ PrefLeaves(c) => pcall[c] # NoPrefCall
      BY DEF PrefMoves, PrefLeaves, PrefStep, PrefEnds, PrefRead, PrefFound, PrefWritten,
             PrefFails, PrefAwaits, NoPrefCall
    <3> QED
      BY <1>4, <3>1, <3>2 DEF PreferencesInv, PrefCalls, PrefMoves, PrefLeaves
  <2>1. PrefInv /\ DOMAIN pcall = Clients /\ DOMAIN query = Clients /\ \A d \in Clients : LostOK(d)
    BY <2>0 DEF PreferencesInv, PrefInv, LostInv
  <2>2. CASE PrefMoves(c)
    BY <1>0, <2>1, <2>2, LostMoves DEF LostInv
  <2>3. CASE PrefLeaves(c)
    <3>1. pcall' = [pcall EXCEPT ![c] = NoPrefCall] /\ query' = query /\ setup' = setup
      BY <2>3 DEF PrefLeaves, PrefEnds, Untouched
    <3>2. LostOK(c)'
      BY <2>1, <3>1 DEF LostOK, NoPrefCall
    <3> QED
      BY <1>0, <2>1, <3>1, <3>2 DEF LostInv
  <2>4. CASE PrefCalls(c)
    <3>1. PICK op, actor, todo : PrefStarts(c, op, actor, todo)
      BY <2>4 DEF PrefCalls
    <3>2. /\ setup' = setup
          /\ \E n : n.at = "find" /\ pcall' = [pcall EXCEPT ![c] = n]
          /\ \E ask : ask.at = "statement" /\ query' = [query EXCEPT ![c] = ask]
      <4> DEFINE n == [op |-> op, actor |-> actor, todo |-> todo, at |-> "find", rows |-> {},
                       out |-> "none"]
                 ask == IF op = "list"
                        THEN Query("findMany", Undefined,
                                   [actor |-> actor.id, org |-> OrgOf(actor)], <<>>)
                        ELSE FindEntry(n)
      <4>1. setup' = setup /\ pcall' = [pcall EXCEPT ![c] = n] /\ Asks(c, ask)
        BY <3>1 DEF PrefStarts, Untouched
      <4>2. n.at = "find" /\ ask.at = "statement"
        BY DEF Query, FindEntry
      <4> HIDE DEF n, ask
      <4> QED
        BY <4>1, <4>2 DEF Asks
    <3>3. LostOK(c)'
      BY <2>1, <3>2 DEF LostOK, Done
    <3> QED
      BY <1>0, <2>1, <3>2, <3>3 DEF LostInv
  <2> QED
    BY <1>4, <2>2, <2>3, <2>4
<1> QED
  BY <1>1, <1>2, <1>3, <1>4 DEF AccountsNext

(* For any clients, plans, adapters and dialects, with connections that break:
   get and list answer what the last call has left of a preference, unless it
   failed or two calls wrote it at the same time, and nothing to an actor that is
   not found again (createPreferenceService.ts:81,113, adapters/memory.ts,
   adapters/db.ts). *)
THEOREM PreferencesStayKept ==
    ASSUME \A p \in AccountPlans : Keyed(p)
    PROVE  AccountsSpec => []PreferenceKept
<1>1. AccountsInit => PreferencesInv /\ LostInv
  BY DEF AccountsInit, PreferencesInv, PrefFresh, NoAccount, LostInv
<1>2. PreferencesInv /\ LostInv /\ [AccountsNext]_accountVars => PreferencesInv' /\ LostInv'
  BY PreferencesStep, LostStep
<1>3. PreferencesInv /\ LostInv => PreferenceKept
  <2> SUFFICES ASSUME PreferencesInv, LostInv, NEW c \in Clients,
                      pcall[c].at = "returned", pcall[c].out = "done",
                      NEW pref \in DOMAIN owing[c]
               PROVE  LET found == {row \in pcall[c].rows : row.key = pref[2]} IN
                      /\ ~FoundAgain(pref[1]) => found = {}
                      /\ FoundAgain(pref[1]) /\ pref \notin tangled /\ owing[c][pref] # Unknown =>
                             IF owing[c][pref] = Null THEN found = {}
                             ELSE found # {} /\ \A row \in found : row.value = owing[c][pref]
    BY DEF PreferenceKept
  <2>1. account.service = "preferences"
    BY DEF PreferencesInv, NoPrefCall
  <2>2. ReaderOK(c) /\ LostOK(c) /\ PrefCallOK(c)
    BY <2>1 DEF PreferencesInv, PrefInv, LostInv
  <2>3. pcall[c].op \in {"get", "list"} /\ pref[1] = pcall[c].actor
    <3>1. pcall[c].op \in {"get", "list", "set", "reset"}
      BY <2>2 DEF PrefCallOK, NoPrefCall
    <3> QED
      BY <2>2, <3>1 DEF ReaderOK, Writes, Current
  <2>4. ~FoundAgain(pref[1]) => pcall[c].rows = {}
    BY <2>2, <2>3 DEF LostOK
  <2>5. FoundAgain(pref[1]) /\ pref \notin tangled => pref \notin Loose
    BY DEF Loose
  <2>6. pref \notin Loose /\ owing[c][pref] # Unknown => Fits(pcall[c].rows, pref, owing[c][pref])
    BY <2>2 DEF ReaderOK
  <2> QED
    BY <2>4, <2>5, <2>6 DEF Fits
<1> QED
  BY <1>1, <1>2, <1>3, PTL DEF AccountsSpec
=============================================================================
