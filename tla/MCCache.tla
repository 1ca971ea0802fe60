------------------------------ MODULE MCCache ------------------------------
(* Cache for TLC: two callers, a deployment per adapter and per feature
   of the cache. *)
EXTENDS Cache

CONSTANTS c1, c2, a, b, s, t, none, shop

Plain == [onError |-> "silent", dedupe |-> FALSE, schema |-> {c1, c2}, fails |-> FALSE]
Failing == [Plain EXCEPT !.fails = TRUE]
Throwing == [Failing EXCEPT !.onError = "throw"]
Deduping == [Plain EXCEPT !.dedupe = TRUE]

Eternal == [ttl |-> NoTtl, tags |-> {}]
Short == [ttl |-> 0, tags |-> {}]
Passed == [ttl |-> -1, tags |-> {s}]
Long == [ttl |-> 1, tags |-> {}]
TaggedS == [ttl |-> NoTtl, tags |-> {s}]
Both == [ttl |-> NoTtl, tags |-> {s, t}]
A == <<none, a>>
B == <<none, b>>
InShop == <<shop, a>>

Plan(stk, set, entries, ops, keys, n, time) ==
    [stack |-> stk, settings |-> set, entries |-> entries, ops |-> ops, keys |-> keys,
     calls |-> n, time |-> time]

Expiring(kind, entries, ops) == Plan(<<kind>>, Plain, entries, ops, {<<A>>}, 3, TRUE)
Basic == {"get", "set", "delete", "wrap", "pull", "setNx"}
Many == {"getMany", "setMany", "deleteMany", "wrapMany"}
TypedAs(c) ==
    Plan(<<"memory">>, [Plain EXCEPT !.schema = {c}], {Eternal}, {"get", "set", "wrap"},
         {<<A>>, <<InShop>>}, 3, FALSE)
MCDeployments == {
    Plan(<<"memory">>, Plain, {TaggedS, Both},
         {"get", "set", "invalidateTag", "invalidateTags", "delete"}, {<<A>>}, 4, FALSE),
    Plan(<<"memory">>, Deduping, {Eternal}, Basic, {<<A>>, <<B>>}, 3, FALSE),
    TypedAs(c1), TypedAs(c2),
    Plan(<<"storage">>, Plain, {TaggedS, Both}, {"get", "set", "setMany", "invalidateTags"},
         {<<A>>, <<A, B>>}, 3, FALSE),
    Plan(<<"redis">>, Plain, {TaggedS, Both}, {"get", "set", "invalidateTag"}, {<<A>>}, 4, FALSE),
    Plan(<<"redis">>, Plain, {Both}, {"setMany", "getMany", "invalidateTag"}, {<<A, B>>}, 3, FALSE),
    Expiring("memory", {Short, Passed}, {"get", "set", "setNx"}),
    Expiring("redis", {Long}, {"get", "set", "setMany", "expire"}),
    Expiring("upstash", {Short, Long}, {"get", "set", "wrap", "expire"}),
    Expiring("cfkv", {Short, Long}, {"get", "set", "getMany", "setMany", "deleteMany", "wrapMany"}),
    Plan(<<"vercel">>, Plain, {Eternal}, Many, {<<A>>, <<A, B>>}, 3, FALSE),
    Plan(<<"memory", "redis">>, Plain, {Eternal}, Basic, {<<A>>}, 4, FALSE),
    Plan(<<"memory", "redis">>, Plain, {Long}, {"get", "set", "restart"}, {<<A>>}, 4, TRUE),
    Plan(<<"memory", "upstash">>, Plain, {TaggedS}, {"get", "set", "delete", "restart"}, {<<A>>}, 4, FALSE),
    Plan(<<"memory">>, Plain, {Eternal}, {"get", "set", "restart"}, {<<A>>}, 4, FALSE),
    Plan(<<"memory", "redis">>, Plain, {Eternal}, Many, {<<A, B>>}, 3, FALSE),
    Plan(<<"storage", "upstash">>, Throwing, {Eternal}, {"get", "set", "delete", "wrap"}, {<<A>>}, 3,
         FALSE),
    Plan(<<"memory", "redis">>, Failing, {Eternal}, {"deleteMany", "wrapMany"}, {<<A, B>>}, 2, FALSE),
    Plan(<<"memory", "redis">>, Failing, {Eternal}, {"delete", "wrap", "pull"}, {<<A>>}, 3, FALSE)}
Alike == Permutations(Callers)
=============================================================================
