------------------------------- MODULE Cache -------------------------------
(***************************************************************************)
(* createCache (packages/cache/src/createCache.ts) over one adapter or two *)
(* (adapters/tiered.ts), with dedupePlugin and the typed layers (entry,    *)
(* collection, store), for callers of one process.  call[c].at names where *)
(* the call of c is suspended; todo[c][l] holds the commands it has yet to *)
(* send to the adapter of level l.                                         *)
(***************************************************************************)
EXTENDS CacheAdapters

CONSTANTS Callers, NoCall

VARIABLES
    settings,   \* of the cache: onError, dedupe, the versions its schema takes,
                \* whether the adapter may fail
    call, todo,
    flight      \* dedupe: the caller whose get of a key is in flight
cacheVars == <<settings, call, todo, flight>>

Idle == [op |-> NoCall, at |-> "idle"]
Nothing == [l \in {1, 2} |-> <<>>]
NoEntry == Entry(Null, NoTtl, {})

Writers == Setters \cup {"setMany"}
Readers == {"get", "getMany", "wrap", "wrapMany", "pull", "setNx"}
Single == {"get", "wrap", "pull"}      \* their get goes through the plugins

At(c, stage) == call[c].at = stage
InFlight(c) == ~At(c, "idle") /\ ~At(c, "returned")

(* createCache.ts 275-317 takes these methods off the adapter, where they need
   the this they are then called without. *)
DetachedRead(op) == Len(stack) = 1 /\ stack[1] = "cfkv" /\ op \in {"getMany", "wrapMany"}
DetachedWrite(op) ==
    /\ Len(stack) = 1
    /\ \/ Redis(stack[1]) /\ op = "invalidateTags"
       \/ stack[1] = "cfkv" /\ op \in {"setMany", "deleteMany"}

Send(c, k) ==
    /\ call' = [call EXCEPT ![c] = [k EXCEPT !.at = "sent", !.failed = @ \/ DetachedWrite(k.op)]]
    /\ todo' = [todo EXCEPT ![c] = [l \in {1, 2} |->
                   @[l] \o IF l \notin Levels \/ DetachedWrite(k.op) THEN <<>> ELSE Commands(k, l)]]

(* An operation is called, for keys, with the entries to write or the tags to
   invalidate. *)
Start(c, op, keys, put, tags) ==
    LET k == [op |-> op, at |-> "l1", keys |-> keys, left |-> keys, put |-> put,
              tags |-> tags, got |-> [key \in ToSet(keys) |-> Null],
              failed |-> FALSE, out |-> "none"]
    IN  /\ At(c, "idle")
        /\ IF op \in Readers THEN call' = [call EXCEPT ![c] = k] /\ UNCHANGED todo
           ELSE Send(c, k)
        /\ UNCHANGED <<settings, flight>> /\ UNCHANGED storeVars

Leave(c) ==
    /\ At(c, "returned") /\ todo[c] = Nothing
    /\ call' = [call EXCEPT ![c] = Idle]
    /\ UNCHANGED <<settings, todo, flight>> /\ UNCHANGED storeVars

Becomes(c, fields) == call' = [call EXCEPT ![c] = fields @@ @]
Silent == UNCHANGED storeVars /\ UNCHANGED <<settings, flight>>

-----------------------------------------------------------------------------
(* Reads.  The first level is asked for all keys, the second for those that
   were missing, and what it has is copied to the first. *)

(* storage reads one key at a time, and so does cf-kv. *)
Batch(kind, left) == IF kind \in {"storage", "cfkv"} THEN <<Head(left)>> ELSE left
Rest(kind, left) == SubSeq(left, Len(Batch(kind, left)) + 1, Len(left))
Found(c, l, keys) == [k \in DOMAIN call[c].got |->
    IF k \in keys THEN Answer(l, k) ELSE call[c].got[k]]
Absent(keys, got) == SelectSeq(keys, LAMBDA k : got[k] = Null)

Dedupes(c) == settings.dedupe /\ call[c].op \in Single
SlotOf(c) == call[c].keys[1][2]            \* the key before any namespace
Leads(c) == Dedupes(c) => flight[SlotOf(c)] \in {NoCall, c}
TakesSlot(c) == flight' = IF Dedupes(c) THEN [flight EXCEPT ![SlotOf(c)] = c] ELSE flight

(* A get of a key that is being read awaits that read. *)
Join(c) ==
    /\ At(c, "l1") /\ ~Leads(c)
    /\ Becomes(c, [at |-> "join"]) /\ UNCHANGED todo /\ Silent

ReadFirst(c) ==
    LET k == call[c]
        batch == Batch(stack[1], k.left)
        rest == Rest(stack[1], k.left)
        got == Found(c, 1, ToSet(batch))
        absent == Absent(k.keys, got)
    IN  /\ At(c, "l1") /\ Leads(c) /\ ~DetachedRead(k.op)
        /\ Prune(1, ToSet(batch))
        /\ TakesSlot(c)
        /\ Becomes(c, [got |-> got, left |-> IF rest = <<>> THEN absent ELSE rest,
               at |-> IF rest # <<>> THEN "l1"
                      ELSE IF Len(stack) = 1 \/ absent = <<>> THEN "read" ELSE "l2"])
        /\ UNCHANGED <<now, stack, settings, todo>>

(* A promoted entry has lost its ttl and its tags. *)
Promotes(keys) ==
    LET hits == SelectSeq(keys, LAMBDA k : Answer(2, k) # Null) IN
    [i \in DOMAIN hits |-> PutOne(hits[i], Entry(Answer(2, hits[i]), NoTtl, {}))]

(* setNx only asks whether the key is there, and promotes nothing. *)
ReadSecond(c) ==
    LET k == call[c]
        batch == Batch(stack[2], k.left)
        rest == Rest(stack[2], k.left)
    IN  /\ At(c, "l2")
        /\ Prune(2, ToSet(batch))
        /\ Becomes(c, [got |-> Found(c, 2, ToSet(batch)), left |-> rest,
                       at |-> IF rest = <<>> THEN "read" ELSE "l2"])
        /\ todo' = IF k.op = "setNx" THEN todo
                   ELSE [todo EXCEPT ![c][1] = @ \o Promotes(batch)]
        /\ UNCHANGED <<now, stack, settings, flight>>

(* The adapter rejects, or its method throws: every read falls back to having
   found nothing. *)
ReadFails(c) ==
    /\ \/ At(c, "l1") /\ Leads(c) /\ (settings.fails \/ DetachedRead(call[c].op))
       \/ settings.fails /\ At(c, "l2")
       \/ settings.fails /\ At(c, "read") /\ todo[c][1] # <<>>
    /\ Becomes(c, [at |-> "read", failed |-> TRUE,
                   got |-> [k \in DOMAIN call[c].got |-> Null]])
    /\ todo' = [todo EXCEPT ![c] = Nothing]
    /\ TakesSlot(c)
    /\ UNCHANGED settings /\ UNCHANGED storeVars

Joined(c, d) == At(d, "join") /\ SlotOf(d) = SlotOf(c)

(* The read is over: whoever joined it has the same answer. *)
ReadSettles(c) ==
    LET ends == Dedupes(c) /\ flight[SlotOf(c)] = c IN
    /\ At(c, "read") /\ todo[c][1] = <<>>
    /\ call' = [d \in Callers |->
           IF d = c THEN [call[c] EXCEPT !.at = "settled"]
           ELSE IF ends /\ Joined(c, d)
           THEN [call[d] EXCEPT !.at = "settled", !.failed = call[c].failed,
                     !.got = [k \in DOMAIN @ |-> call[c].got[call[c].keys[1]]]]
           ELSE call[d]]
    /\ flight' = IF ends THEN [flight EXCEPT ![SlotOf(c)] = NoCall] ELSE flight
    /\ UNCHANGED <<todo, settings>> /\ UNCHANGED storeVars

-----------------------------------------------------------------------------
(* What a call does once its reads have answered. *)
Throws(k) == k.failed /\ settings.onError = "throw"
Accepted(k, key) == k.got[key] # Null /\ k.got[key][2] \in settings.schema
Misses(k) == SelectSeq(k.keys, LAMBDA key : ~Accepted(k, key))

Answers(c) ==
    LET k == call[c] IN
    /\ At(c, "settled")
    /\ \/ Throws(k)
       \/ k.op \in {"get", "getMany"}
       \/ k.op = "pull" /\ Misses(k) # <<>>
       \/ k.op \in {"wrap", "wrapMany", "setNx"} /\ Misses(k) = <<>>
    /\ Becomes(c, [at |-> "returned",
           out |-> IF Throws(k) THEN "threw" ELSE IF k.op = "setNx" THEN "no" ELSE "done"])
    /\ UNCHANGED todo /\ Silent

(* fn is called, or fetchMissing. *)
Computes(c) ==
    /\ At(c, "settled") /\ ~Throws(call[c]) /\ call[c].op \in {"wrap", "wrapMany"}
    /\ Misses(call[c]) # <<>>
    /\ Becomes(c, [at |-> "compute", left |-> Misses(call[c])])
    /\ UNCHANGED todo /\ Silent

(* fn answers, fetchMissing maybe for the first keys only, and the answer is
   stored. *)
Computed(c) ==
    LET k == call[c] IN
    /\ At(c, "compute")
    /\ \E n \in 1 .. Len(k.left) :
           LET stored == SubSeq(k.left, 1, n) IN
           Send(c, [k EXCEPT !.left = stored,
               !.got = [key \in DOMAIN @ |->
                   IF key \in ToSet(stored) THEN k.put[key].value ELSE @[key]]])
    /\ Silent
ComputesNothing(c) ==
    /\ At(c, "compute")
    /\ \/ settings.fails /\ Becomes(c, [at |-> "returned", out |-> "threw"])
       \/ call[c].op = "wrapMany" /\ Becomes(c, [at |-> "returned", out |-> "done"])
    /\ UNCHANGED todo /\ Silent

OverwritesBug(c) ==
    /\ At(c, "settled") /\ ~Throws(call[c]) /\ call[c].op \in {"setNx", "pull"}
    /\ Send(c, [call[c] EXCEPT !.left = call[c].keys])
    /\ Silent
(* setNx found nothing, or pull something: now they write. *)
Proceeds(c) ==
    LET k == call[c] IN
    /\ At(c, "settled") /\ ~Throws(k)
    /\ \/ k.op = "setNx" /\ Misses(k) # <<>>
       \/ k.op = "pull" /\ Misses(k) = <<>>
    /\ Send(c, [k EXCEPT !.left = k.keys])
    /\ Silent

(* A command of a call; where the call failed at the other level, it may have
   returned already. *)
Work(c, l) ==
    /\ todo[c][l] # <<>>
    /\ Executes(l, Head(todo[c][l]))
    /\ todo' = [todo EXCEPT ![c][l] = Follows(l, Head(@)) \o Tail(@)]
    /\ UNCHANGED <<now, stack, call, settings, flight>>

(* A command is rejected: the level gets no more commands of this call. *)
Rejected(c, l) ==
    /\ At(c, "sent") /\ todo[c][l] # <<>>
    /\ \/ settings.fails
       \/ Head(todo[c][l]).do = "put" /\ Refuses(l, Head(todo[c][l]).put)
    /\ todo' = [todo EXCEPT ![c][l] = <<>>]
    /\ Becomes(c, [failed |-> TRUE]) /\ Silent

(* Both levels are done, or one has failed: Promise.all does not wait for the
   other. *)
Sent(c) ==
    LET k == call[c]
        more == k.op = "wrapMany" /\ Len(k.left) > 1 /\ ~Throws(k)
    IN  /\ At(c, "sent") /\ (k.failed \/ todo[c] = Nothing)
        /\ IF more THEN Send(c, [k EXCEPT !.left = Tail(@)])
           ELSE /\ Becomes(c, [at |-> "returned", out |-> IF Throws(k) THEN "threw" ELSE "done"])
                /\ UNCHANGED todo
        /\ Silent

Tick(limit) ==
    /\ now < limit /\ now' = now + 1
    /\ UNCHANGED <<stack, data, index>> /\ UNCHANGED cacheVars

(* Between two calls the process ends and another takes its place: what a memory
   adapter held is lost. *)
Restart ==
    /\ \A c \in Callers : At(c, "idle") /\ todo[c] = Nothing
    /\ data' = [l \in Levels |-> IF stack[l] = "memory" THEN [key \in FullKeys |-> Null] ELSE data[l]]
    /\ index' = [l \in Levels |-> IF stack[l] = "memory" THEN [t \in Tags |-> {}] ELSE index[l]]
    /\ UNCHANGED <<now, stack>> /\ UNCHANGED cacheVars

-----------------------------------------------------------------------------
(***************************************************************************)
(* Callers of one process use a cache over each of the adapters.  What     *)
(* they may rely on is stated with the history of the values: a value is   *)
(* dead once a call that should have removed it has returned, unless a     *)
(* call that carries the value ran meanwhile; it is sure when the call     *)
(* that wrote it ran alone.                                                *)
(***************************************************************************)

CONSTANTS
    Deployments,    \* what is deployed, and what the callers do
    Off,            \* no deployment yet
    MaxTime         \* bound: ticks of the clock

VARIABLES
    plan, calls,    \* the deployment, the calls begun
    met, lone,      \* per call: the values other calls carried meanwhile, was it alone
    label, due,     \* per value: the tags it is known to have, when it has expired
    dead, gone,     \* the dead values; those that were dead when a call began
    carried,        \* per key: the tags it ever had
    sure, owed      \* per key: the value it must have; per call: those of its keys
ghostVars == <<met, lone, label, due, dead, gone, carried, sure, owed>>
vars == <<storeVars, cacheVars, plan, calls, ghostVars>>

ValuesOf(key) == {<<key, version>> : version \in Versions}
Bare == [key \in FullKeys |-> Null]
Busy(c) == InFlight(c) \/ todo[c] # Nothing
KeysOf(k) == IF k.op \in Invalidators THEN FullKeys ELSE ToSet(k.keys)
Changes(k) == k.op \notin {"get", "getMany"}
KeepsWhatIsThere == {"setNx", "wrap", "wrapMany"}

(* The values a call may yet store: its own, and where reads promote all those
   of its keys. *)
Carries(k) ==
    {k.put[key].value : key \in DOMAIN k.put} \cup
    IF Len(stack) = 2 /\ k.op \in Readers THEN UNION {ValuesOf(key) : key \in ToSet(k.keys)}
    ELSE {}
Carried == UNION {Carries(call[d]) : d \in {d \in Callers : Busy(d)}}

(* The values a call should have removed when it returns. *)
Removes(k) ==
    CASE k.op \in {"set", "setMany"} ->
             UNION {ValuesOf(key) \ {k.put[key].value} : key \in ToSet(k.keys)}
      [] k.op \in Writers ->
             UNION {ValuesOf(key) \ {k.put[key].value} : key \in ToSet(k.left)}
      [] k.op \in Deleters -> UNION {ValuesOf(key) : key \in ToSet(k.keys)}
      [] k.op \in Invalidators -> {v \in AllValues : label[v] \cap k.tags # {}}
      [] OTHER -> {}
Expired == {v \in AllValues : due[v] # Never /\ now > due[v]}

-----------------------------------------------------------------------------
Init ==
    /\ now = 0 /\ stack = <<>> /\ data = <<>> /\ index = <<>> /\ settings = Off
    /\ call = [c \in Callers |-> Idle] /\ todo = [c \in Callers |-> Nothing]
    /\ flight = [slot \in Keys |-> NoCall]
    /\ plan = Off /\ calls = 0
    /\ met = [c \in Callers |-> {}] /\ lone = [c \in Callers |-> TRUE]
    /\ label = [v \in AllValues |-> {}] /\ due = [v \in AllValues |-> Never]
    /\ dead = {} /\ gone = [c \in Callers |-> {}]
    /\ carried = [key \in FullKeys |-> {}]
    /\ sure = Bare /\ owed = [c \in Callers |-> Bare]

Deploy ==
    /\ plan = Off
    /\ \E p \in Deployments :
           /\ plan' = p /\ stack' = p.stack /\ settings' = p.settings
           /\ data' = [l \in DOMAIN p.stack |-> Bare]
           /\ index' = [l \in DOMAIN p.stack |-> [t \in Tags |-> {}]]
    /\ UNCHANGED <<now, call, todo, flight, calls>> /\ UNCHANGED ghostVars

(* The calls of a deployment: the keys it names, with entries that carry the
   version of the caller.  An entry's schema lets no other version be set. *)
Puts(c, keys) ==
    {[key \in ToSet(keys) |-> Entry(<<key, c>>, e.ttl, e.tags)] : e \in plan.entries}
NoPut(keys) == [key \in ToSet(keys) |-> NoEntry]
Calls(c, op, keys, put, tags) ==
    /\ Start(c, op, keys, put, tags)
    /\ calls' = calls + 1
    /\ LET k == call'[c]
           own == {put[key].value : key \in DOMAIN put} \ {Null}
           touched == KeysOf(k)
           near == {d \in Callers \ {c} : Busy(d) /\ KeysOf(call[d]) \cap touched # {}}
           undead == (dead \cup Expired) \ own
       IN  /\ met' = [d \in Callers |->
                  IF d = c THEN UNION {Carries(call[e]) : e \in {e \in Callers \ {c} : Busy(e)}}
                  ELSE met[d] \cup (Carries(k) \ {Null})]
           /\ lone' = [d \in Callers |->
                  IF d = c THEN near = {} ELSE lone[d] /\ d \notin near]
           /\ dead' = undead
           /\ gone' = [d \in Callers |-> IF d = c THEN undead ELSE gone[d] \ own]
           /\ label' = [v \in AllValues |-> IF v \in own THEN {} ELSE label[v]]
           /\ due' = [v \in AllValues |->
                  IF v \in own \/ (op = "expire" /\ v[1] \in touched) THEN Never ELSE due[v]]
           /\ carried' = [key \in FullKeys |->
                  IF key \in DOMAIN put THEN carried[key] \cup put[key].tags ELSE carried[key]]
           /\ sure' = [key \in FullKeys |->
                  IF \/ /\ key \in touched /\ op \notin Invalidators
                        /\ Changes(k) /\ (op \in KeepsWhatIsThere => settings.fails \/ DetachedRead(op))
                     \/ op \in Invalidators /\ carried[key] \cap tags # {}
                  THEN Null ELSE sure[key]]
           /\ owed' = [d \in Callers |-> [key \in FullKeys |->
                  IF d = c THEN (IF op \in Readers /\ key \in touched THEN sure[key] ELSE Null)
                  ELSE IF sure'[key] = Null THEN Null ELSE owed[d][key]]]
    /\ UNCHANGED plan

Reads(c) == \E op \in plan.ops \cap {"get", "getMany"}, keys \in plan.keys :
    /\ (op = "getMany") \/ Len(keys) = 1
    /\ Calls(c, op, keys, NoPut(keys), {})
Writes(c) == \E op \in plan.ops \cap Writers, keys \in plan.keys : \E put \in Puts(c, keys) :
    /\ (op \in {"setMany", "wrapMany"}) \/ Len(keys) = 1
    /\ c \in settings.schema \/ op = "wrap"
    /\ Calls(c, op, keys, put, {})
Deletes(c) == \E op \in plan.ops \cap Deleters, keys \in plan.keys :
    /\ (op = "deleteMany") \/ Len(keys) = 1
    /\ Calls(c, op, keys, NoPut(keys), {})
Invalidates(c) == \E op \in plan.ops \cap Invalidators, tags \in (SUBSET Tags) \ {{}} :
    /\ (op = "invalidateTags") \/ Cardinality(tags) = 1
    /\ Calls(c, op, <<>>, NoPut(<<>>), tags)
Expires(c) == \E keys \in plan.keys, e \in plan.entries :
    /\ "expire" \in plan.ops /\ Len(keys) = 1 /\ e.ttl # NoTtl
    /\ Calls(c, "expire", keys, [key \in ToSet(keys) |-> Entry(Null, e.ttl, {})], {})

-----------------------------------------------------------------------------
(* A step of a call; the history learns of what it has done when it returns. *)
Stored(k) ==
    IF k.op \in {"set", "setMany"} THEN ToSet(k.keys)
    ELSE IF k.op \in Writers THEN ToSet(k.left) ELSE {}
Step(c) ==
    \/ ReadFirst(c) \/ ReadSecond(c) \/ ReadSettles(c) \/ ReadFails(c) \/ Answers(c)
    \/ Computes(c) \/ Computed(c) \/ ComputesNothing(c) \/ Proceeds(c) \/ Sent(c)
    \/ \E l \in Levels : Work(c, l) \/ Rejected(c, l)
Moves(c) ==
    /\ Step(c)
    /\ LET k == call[c]
           promoted == IF At(c, "read") /\ todo[c][1] # <<>> /\ todo'[c][1] = Tail(todo[c][1])
                       THEN LET put == Head(todo[c][1]).put IN {put[key].value : key \in DOMAIN put}
                       ELSE {}
           wrote == At(c, "sent") /\ call'[c].at = "returned"
           kept == IF wrote /\ ~k.failed /\ lone[c] THEN Stored(k) ELSE {}
           lasts == {key \in kept : k.put[key].ttl = NoTtl /\ k.put[key].value[2] \in settings.schema}
       IN  /\ dead' = IF wrote /\ (~k.failed \/ (k.op \in Invalidators /\ ~settings.fails))
                      THEN dead \cup (Removes(k) \ met[c]) ELSE dead
           /\ label' = [v \in AllValues |->
                  IF v[1] \in kept /\ v = k.put[v[1]].value THEN k.put[v[1]].tags ELSE label[v]]
           /\ gone' = [d \in Callers |-> gone[d] \ (promoted \cap Expired)]
           /\ due' = [v \in AllValues |->
                  IF v \in promoted THEN Never
                  ELSE IF v[1] \in kept /\ v = k.put[v[1]].value /\ k.put[v[1]].ttl # NoTtl
                  THEN now + k.put[v[1]].ttl
                  ELSE IF wrote /\ lone[c] /\ k.op = "expire" /\ v[1] = k.keys[1] /\ k.put[v[1]].ttl > 0 /\ Redis(stack[1])
                  THEN now + k.put[v[1]].ttl ELSE due[v]]
           /\ sure' = [key \in FullKeys |-> IF key \in lasts THEN k.put[key].value ELSE sure[key]]
    /\ UNCHANGED <<plan, calls, met, lone, carried, owed>>

(* Who joins a read begun earlier is told what was so when that began. *)
Joins(c) ==
    /\ Join(c)
    /\ gone' = [gone EXCEPT ![c] = gone[flight[SlotOf(c)]]]
    /\ UNCHANGED <<plan, calls, met, lone, label, due, dead, carried, sure, owed>>

Leaves(c) ==
    /\ Leave(c)
    /\ met' = [met EXCEPT ![c] = {}] /\ lone' = [lone EXCEPT ![c] = TRUE]
    /\ gone' = [gone EXCEPT ![c] = {}] /\ owed' = [owed EXCEPT ![c] = Bare]
    /\ UNCHANGED <<plan, calls, label, due, dead, carried, sure>>

(* Where a level lasts, so does what the callers may rely on. *)
Restarts ==
    /\ Restart /\ "restart" \in plan.ops
    /\ calls' = calls + 1
    /\ sure' = IF stack[Len(stack)] = "memory" THEN Bare ELSE sure
    /\ UNCHANGED <<plan, met, lone, label, due, dead, gone, carried, owed>>

TimePasses ==
    /\ plan # Off /\ plan.time /\ Tick(MaxTime)
    /\ UNCHANGED <<plan, calls>> /\ UNCHANGED ghostVars

Next ==
    \/ Deploy \/ TimePasses
    \/ plan # Off /\ calls < plan.calls /\ Restarts
    \/ \E c \in Callers :
           \/ /\ plan # Off /\ calls < plan.calls
              /\ Reads(c) \/ Writes(c) \/ Deletes(c) \/ Invalidates(c) \/ Expires(c)
           \/ plan # Off /\ (Moves(c) \/ Joins(c) \/ Leaves(c))
Spec == Init /\ [][Next]_vars

-----------------------------------------------------------------------------
Over(c) == At(c, "returned") /\ call[c].out # "threw" /\ call[c].op \in Readers

(* A value that a delete, an overwrite or an invalidation of its tags should
   have removed, or whose ttl has passed, is not answered to a call that began
   later, unless a call that carried the value ran at the same time: a wrap
   that had computed it, a read that was about to promote it.  Over two levels
   a ttl ends where a read finds the value in the second and copies it to the
   first, which it does without one (tiered.ts:43,67): from then on the value is
   answered for as long as nothing removes it.  A value whose ttl has passed is
   answered after such a copy only. *)
NoZombie == \A c \in Callers : Over(c) /\ call[c].op # "setNx" =>
    \A key \in DOMAIN call[c].got : call[c].got[key] \notin gone[c]

(* What is answered for a key was cached for that key, in its namespace. *)
OwnAnswer == \A c \in Callers : Over(c) =>
    \A key \in DOMAIN call[c].got : call[c].got[key] # Null => call[c].got[key][1] = key

(* What a call that ran alone has stored without a ttl is answered until the
   key is written or removed again, or a tag is invalidated that its entries
   have had; in memory it may be one that an earlier entry of the key had. *)
StoredAnswered == \A c \in Callers : Over(c) /\ ~call[c].failed =>
    \A key \in DOMAIN call[c].got : owed[c][key] # Null => call[c].got[key] = owed[c][key]

(* A key is answered with what was stored for it. *)
AnswersKept == OwnAnswer /\ StoredAnswered
=============================================================================
