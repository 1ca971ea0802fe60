--------------------------- MODULE CacheAdapters ---------------------------
(***************************************************************************)
(* The adapters of packages/cache/src/adapters: two that keep their        *)
(* entries in the process (memory, storage) and four that talk to a server *)
(* (redis, upstash, vercel-kv, cf-kv).  An operation of an adapter is a    *)
(* sequence of commands; each command is one await, so other calls run     *)
(* between two of them.  tieredAdapter stacks two adapters: the commands   *)
(* it sends to both run side by side.                                      *)
(*                                                                         *)
(* A ttl is a number of ticks, negative for a Date that has passed.        *)
(***************************************************************************)
EXTENDS Integers, Sequences, FiniteSets, SequencesExt

CONSTANTS
    Namespaces, \* prefixes of keys, one of them none
    Keys, Tags,
    Versions,   \* what is cached for a key: <<key, version>>
    Null, Never, NoTtl, Refused

VARIABLES
    now,
    stack,      \* the kinds of the adapters, the first level first
    data,       \* [level -> [full key -> entry or Null]]
    index       \* [level -> [tag -> set of full keys]]
storeVars == <<now, stack, data, index>>

FullKeys == Namespaces \X Keys
AllValues == FullKeys \X Versions
Levels == DOMAIN stack
Local(kind) == kind \in {"memory", "storage"}
Redis(kind) == kind \in {"redis", "upstash"}

-----------------------------------------------------------------------------
(* When an entry written now with a ttl expires; Refused is an error of the
   server, which takes no expiry that is not in the future. *)

LocalExpiry(ttl) == IF ttl = NoTtl THEN Never ELSE now + ttl
RedisExpiry(ttl) == IF ttl = NoTtl \/ ttl <= 0 THEN Never ELSE now + ttl
UpstashExpiry(ttl) ==
    IF ttl = NoTtl THEN Never ELSE IF ttl = 0 THEN Refused ELSE now + ttl
VercelExpiry(ttl) ==
    IF ttl = NoTtl THEN Never ELSE IF ttl <= 0 THEN Refused ELSE now + ttl
CfKvExpiry(ttl) ==
    IF ttl = NoTtl THEN Never ELSE IF ttl <= 0 THEN Refused ELSE now + ttl
Expiry(kind, ttl) ==
    CASE Local(kind) -> LocalExpiry(ttl)
      [] kind = "redis" -> RedisExpiry(ttl)
      [] kind = "upstash" -> UpstashExpiry(ttl)
      [] kind = "vercel" -> VercelExpiry(ttl)
      [] kind = "cfkv" -> CfKvExpiry(ttl)

Live(entry) == entry # Null /\ (entry.expiresAt = Never \/ now <= entry.expiresAt)
Answer(l, key) == IF Live(data[l][key]) THEN data[l][key].value ELSE Null

-----------------------------------------------------------------------------
(* The commands. *)

(* The tag index of a local adapter without the keys. *)
Untagged(l, keys) ==
    [t \in Tags |-> {key \in index[l][t] :
        ~(key \in keys /\ data[l][key] # Null /\ t \in data[l][key].tags)}]
Without(l, keys) == [key \in FullKeys |-> IF key \in keys THEN Null ELSE data[l][key]]

(* A local adapter forgets what it finds expired. *)
Prune(l, keys) ==
    LET expired == {key \in keys : data[l][key] # Null /\ ~Live(data[l][key])} IN
    IF Local(stack[l])
    THEN /\ data' = [data EXCEPT ![l] = Without(l, expired)]
         /\ index' = [index EXCEPT ![l] = Untagged(l, expired)]
    ELSE UNCHANGED <<data, index>>

(* Writes entries [key -> [value, ttl, tags]] at once. *)
Put(l, put) ==
    LET written == DOMAIN put
        untagged == Untagged(l, written)
    IN  /\ data' = [data EXCEPT ![l] = [key \in FullKeys |->
               IF key \in written
               THEN [value |-> put[key].value,
                     expiresAt |-> Expiry(stack[l], put[key].ttl),
                     tags |-> put[key].tags]
               ELSE data[l][key]]]
        /\ index' = IF Local(stack[l])
                    THEN [index EXCEPT ![l] = [t \in Tags |->
                             untagged[t] \cup {key \in written : t \in put[key].tags}]]
                    ELSE index
Refuses(l, put) == \E key \in DOMAIN put : Expiry(stack[l], put[key].ttl) = Refused

Sadd(l, key, tag) == index' = [index EXCEPT ![l][tag] = @ \cup {key}] /\ UNCHANGED data

(* EXPIRE of a ttl that has passed is never sent. *)
Expire(l, key, ttl) ==
    /\ data' = IF Live(data[l][key]) /\ ttl # NoTtl /\ ttl > 0
               THEN [data EXCEPT ![l][key].expiresAt = now + ttl] ELSE data
    /\ UNCHANGED index

Del(l, keys) ==
    /\ data' = [data EXCEPT ![l] = Without(l, keys)]
    /\ index' = IF Local(stack[l]) THEN [index EXCEPT ![l] = Untagged(l, keys)] ELSE index

DropTag(l, tag) == index' = [index EXCEPT ![l][tag] = {}] /\ UNCHANGED data

(* invalidateTag and invalidateTags in memory: the keys stay in the sets of
   their other tags, where a later entry of the key is found. *)
DropTagged(l, tags) ==
    /\ data' = [data EXCEPT ![l] = Without(l, UNION {index[l][t] : t \in tags})]
    /\ index' = [index EXCEPT ![l] = [t \in Tags |-> IF t \in tags THEN {} ELSE index[l][t]]]

-----------------------------------------------------------------------------
(* The commands an operation sends, per adapter.  A call k has its keys, those
   left to set one by one, the entries to put, the tags to invalidate. *)

Setters == {"set", "setNx", "wrap", "wrapMany"}
Deleters == {"delete", "deleteMany", "pull"}
Invalidators == {"invalidateTag", "invalidateTags"}

Entry(value, ttl, tags) == [value |-> value, ttl |-> ttl, tags |-> tags]
PutOne(key, entry) == [do |-> "put", put |-> [k \in {key} |-> entry]]
PutEach(k) == [i \in DOMAIN k.keys |-> PutOne(k.keys[i], k.put[k.keys[i]])]
DelKeys(keys) == [do |-> "del", keys |-> keys]
DelEach(k) == [i \in DOMAIN k.keys |-> DelKeys({k.keys[i]})]
PutNext(k) == PutOne(Head(k.left), k.put[Head(k.left)])
PerTag(k, do) ==
    [i \in 1 .. Cardinality(k.tags) |-> [do |-> do, tag |-> SetToSeq(k.tags)[i]]]

MemoryCommands(k) ==
    CASE k.op \in Setters -> <<PutNext(k)>>
      [] k.op = "setMany" -> <<[do |-> "put", put |-> k.put]>>
      [] k.op \in Deleters -> <<DelKeys(ToSet(k.keys))>>
      [] k.op \in Invalidators -> <<[do |-> "dropTagged", tags |-> k.tags]>>
      [] OTHER -> <<>>

StorageCommands(k) ==
    CASE k.op \in Setters -> <<PutNext(k)>>
      [] k.op = "setMany" -> PutEach(k)
      [] k.op \in Deleters -> DelEach(k)
      [] k.op \in Invalidators -> PerTag(k, "delTagged")
      [] OTHER -> <<>>

(* mset takes neither ttl nor tags, which follow. *)
SaddsBug(key, tags) == <<>>
Sadds(key, tags) ==
    [i \in 1 .. Cardinality(tags) |-> [do |-> "sadd", key |-> key, tag |-> SetToSeq(tags)[i]]]
ApplyEntryOptions(key, entry) ==
    <<[do |-> "expire", key |-> key, ttl |-> entry.ttl]>> \o Sadds(key, entry.tags)
Mset(put) ==
    [do |-> "put",
     put |-> [key \in DOMAIN put |-> Entry(put[key].value, NoTtl, put[key].tags)]]
RedisCommands(k) ==
    CASE k.op \in Setters -> <<PutNext(k)>> \o Sadds(Head(k.left), k.put[Head(k.left)].tags)
      [] k.op = "setMany" ->
             <<Mset(k.put)>> \o FlattenSeq([i \in DOMAIN k.keys |->
                 ApplyEntryOptions(k.keys[i], k.put[k.keys[i]])])
      [] k.op \in Deleters -> <<DelKeys(ToSet(k.keys))>>
      [] k.op \in Invalidators -> PerTag(k, "smembers")
      [] k.op = "expire" -> <<[do |-> "expire", key |-> k.keys[1], ttl |-> k.put[k.keys[1]].ttl]>>
UpstashCommands(k) == RedisCommands(k)

(* vercel-kv and cf-kv have no tags; the mset of vercel-kv has no ttl either. *)
VercelCommands(k) ==
    CASE k.op \in Setters -> <<PutNext(k)>>
      [] k.op = "setMany" -> <<Mset(k.put)>>
      [] k.op \in Deleters -> <<DelKeys(ToSet(k.keys))>>
      [] OTHER -> <<>>
CfKvCommands(k) ==
    CASE k.op \in Setters -> <<PutNext(k)>>
      [] k.op = "setMany" -> PutEach(k)
      [] k.op \in Deleters -> DelEach(k)
      [] OTHER -> <<>>

Commands(k, l) ==
    CASE stack[l] = "memory" -> MemoryCommands(k)
      [] stack[l] = "storage" -> StorageCommands(k)
      [] stack[l] = "redis" -> RedisCommands(k)
      [] stack[l] = "upstash" -> UpstashCommands(k)
      [] stack[l] = "vercel" -> VercelCommands(k)
      [] stack[l] = "cfkv" -> CfKvCommands(k)

(* What follows once the keys of a tag are known: storage deletes the first of
   them at once and the others one after the other, redis all of them and then
   the set. *)
Members(l, cmd) ==
    LET keys == SetToSeq(index[l][cmd.tag]) IN
    IF keys = <<>> THEN <<>>
    ELSE IF cmd.do = "delTagged" THEN [i \in 1 .. Len(keys) - 1 |-> DelKeys({keys[i + 1]})]
    ELSE <<DelKeys(ToSet(keys)), [do |-> "dropTag", tag |-> cmd.tag]>>
FirstOf(keys) == IF keys = {} THEN {} ELSE {SetToSeq(keys)[1]}

(* One command at level l. *)
Executes(l, cmd) ==
    \/ cmd.do = "put" /\ ~Refuses(l, cmd.put) /\ Put(l, cmd.put)
    \/ cmd.do = "sadd" /\ Sadd(l, cmd.key, cmd.tag)
    \/ cmd.do = "expire" /\ Expire(l, cmd.key, cmd.ttl)
    \/ cmd.do = "del" /\ Del(l, cmd.keys)
    \/ cmd.do = "dropTag" /\ DropTag(l, cmd.tag)
    \/ cmd.do = "dropTagged" /\ DropTagged(l, cmd.tags)
    \/ cmd.do = "delTagged" /\ Del(l, FirstOf(index[l][cmd.tag]))
    \/ cmd.do = "smembers" /\ UNCHANGED <<data, index>>
Follows(l, cmd) == IF cmd.do \in {"smembers", "delTagged"} THEN Members(l, cmd) ELSE <<>>
=============================================================================
