----------------------------- MODULE MCPlatform -----------------------------
(* What an application stands on, for TLC: job queues left to a provider,
   settings, the event bus, the embeddings, the slots of a request and the
   cookies of a browser.  Each plan deploys one of them. *)
EXTENDS Queues, Settings, Events, Embeddings, Contexts, Cookies, TLC

CONSTANTS c1, c2, east, west, send, notify, sync,
          base, override, port, host, url, public, db, t1, t2,
          created, other, articles, users, i1, i2, m1, m2, flat, nobody,
          user, tenant, role, stray,
          theme, sid, prefs, dark, light, bad, o1, earlier, later

Queue(job, name, cron) == [job |-> job, queue |-> name, cron |-> cron]
ByQueue(def) == [given |-> "queue", def |-> def]
ByName(kind, n) == [given |-> kind, name |-> n]
Mails == Queue(send, notify, FALSE)
Hourly == Queue(sync, NoName, TRUE)
(* Where the second caller is, and what each machine handles. *)
Fleet(engine, second, queues, handled) ==
    [engine |-> engine, on |-> [c \in Requesters |-> IF c = c1 THEN east ELSE second],
     queues |-> queues, handles |-> [m \in Machines |-> IF m = east THEN handled[1] ELSE handled[2]],
     audit |-> TRUE, throws |-> TRUE, fails |-> TRUE, attempts |-> 2, verify |-> TRUE,
     route |-> "request", parses |-> FALSE, keys |-> 1, key |-> 1]
QueuePlan(fleet, ops, refs, n) ==
    [setup |-> fleet, ops |-> [c \in Requesters |-> IF c = c1 THEN ops[1] ELSE ops[2]],
     refs |-> refs, calls |-> n, crashes |-> 1, rotations |-> 1]
MCQueuePlans == {
    QueuePlan(Fleet("bullmq", east, <<Hourly>>, <<{sync}, {}>>),
              <<{"register", "unregister"}, {"handle", "stop", "enqueue"}>>, {ByQueue(Hourly)}, 4),
    QueuePlan([Fleet("bullmq", west, <<Mails>>, <<{}, {send}>>) EXCEPT !.audit = FALSE],
              <<{"enqueue", "pause", "resume", "drain", "cancel"}, {"start"}>>, {ByQueue(Mails)}, 4),
    QueuePlan([Fleet("qstash", west, <<Mails>>, <<{}, {send}>>) EXCEPT
                   !.route = "node", !.fails = FALSE, !.audit = FALSE],
              <<{"start", "enqueue"}, {"start"}>>, {ByQueue(Mails)}, 3),
    QueuePlan([Fleet("qstash", west, <<Mails>>, <<{}, {send}>>) EXCEPT
                   !.route = "node", !.parses = TRUE, !.verify = FALSE],
              <<{"start", "enqueue"}, {"start"}>>, {ByQueue(Mails)}, 3),
    QueuePlan([Fleet("bullmq", west, <<Hourly, Mails>>, <<{}, {sync, send}>>) EXCEPT
                   !.audit = FALSE, !.fails = FALSE],
              <<{"register", "unregister", "enqueue"}, {"start", "unregister"}>>,
              {ByQueue(Hourly), ByName("id", notify)}, 3),
    QueuePlan(Fleet("qstash", west, <<Hourly, Mails>>, <<{}, {sync, send}>>),
              <<{"start", "unregister", "enqueue"}, {"start", "handle"}>>,
              {ByName("job", sync), ByQueue(Mails)}, 3)}

-----------------------------------------------------------------------------
Var(group, key, prefixes, accepts, missing) ==
    [group |-> group, key |-> key, prefixes |-> prefixes, accepts |-> accepts, missing |-> missing]
Line(name, text) == [name |-> name, text |-> text]
Ref(name, orElse) == [of |-> name, orElse |-> orElse]
Nowhere ==
    [files |-> <<>>, inline |-> <<>>, process |-> TRUE, expand |-> FALSE, edge |-> FALSE, vars |-> {},
     required |-> {}, onError |-> "throw", skip |-> FALSE, watch |-> FALSE, sources |-> <<>>,
     schema |-> <<>>, onInvalid |-> "throw", fails |-> FALSE]
NoEdits ==
    [files |-> <<>>, lines |-> <<>>, sets |-> <<>>, process |-> <<>>, json |-> Missing, rows |-> <<>>,
     writes |-> <<>>, jsons |-> {}, keys |-> {}, calls |-> 0]
EnvPlan(onError, edge, n) ==
    NoEdits @@
    [setup |-> [Nowhere EXCEPT
        !.files = IF edge THEN <<>> ELSE <<base, override>>,
        !.inline = <<url>> :> Ref(<<db, host>>, t1), !.process = edge, !.expand = TRUE, !.edge = edge,
        !.vars = {Var(<<>>, port, <<>>, {t1, t2}, Unfit),
                  Var(<<>>, url, <<public>>, {t1, t2}, Unset),
                  Var(<<db>>, host, <<public>>, {t2}, t2)},
        !.required = {<<url>>}, !.onError = onError, !.watch = TRUE],
     edits |-> n]
Edited(plan_) == [plan_ EXCEPT
    !.files = base :> <<Line(<<port>>, t1), Line(<<db, host>>, Ref(<<port>>, Blank))>> @@
              override :> <<Line(<<port>>, t2)>>,
    !.lines = base :> {<<>>, <<Line(<<port>>, t2), Comment, Line(<<db, host>>, t2)>>,
                       <<Line(<<port>>, t1), Line(<<port>>, Blank)>>} @@
              override :> {Missing, <<>>, <<Line(<<port>>, t1), Line(<<host>>, t1)>>},
    !.sets = <<public, port>> :> {t1}, !.process = <<port>> :> t1]
From(source, by, at) == [from |-> source, by |-> by, at |-> at]
ConfigPlan(onInvalid, rows_, fails, n) ==
    [setup |-> [Nowhere EXCEPT
        !.sources =
            port :> <<From("env", "key", <<port>>), From("database", "key", port),
                      From("json", "path", port)>> @@
            host :> <<From("database", "key", host), From("json", "path", host),
                      From("env", "path", <<host>>), From("database", "key", port)>>,
        !.schema = host :> {t1}, !.onInvalid = onInvalid, !.fails = fails],
     edits |-> n] @@
    [NoEdits EXCEPT
        !.sets = <<port>> :> {Blank, t1}, !.json = Malformed, !.rows = rows_,
        !.writes = port :> {t2, Unset} @@ host :> {t1, t2, Unset},
        !.jsons = {port :> t1, host :> t2}, !.keys = {port, host, db}, !.calls = 2]
MCSettingsPlans == {
    Edited(EnvPlan("throw", FALSE, 3)), Edited(EnvPlan("silent", FALSE, 3)),
    Edited(EnvPlan("throw", TRUE, 2)),
    ConfigPlan("throw", port :> t1, TRUE, 2), ConfigPlan("warn", <<>>, FALSE, 2)}

-----------------------------------------------------------------------------
BusPlan(unknown, types, patterns, n) ==
    [events |-> [family |-> {created}, others |-> {other}, unknown |-> unknown],
     emits |-> types, patterns |-> patterns, steps |-> n]
MCEventPlans == {
    BusPlan({other}, {created, other}, {created, Every, Family}, 5),
    BusPlan({}, {created}, {created, other}, 6)}

-----------------------------------------------------------------------------
EmbedPlan(storage, engine, items, conflicts, fails, topK) ==
    [setup |-> [storage |-> storage, engine |-> engine, dimension |-> 4,
                sizes |-> c1 :> 4 @@ c2 :> IF fails THEN 3 ELSE 4,
                universes |-> {articles, users}, fields |-> TRUE,
                coerced |-> m1 :> m1 @@ m2 :> flat, deletes |-> storage # "vectorize",
                conflicts |-> conflicts, fails |-> fails,
                near |-> [p \in Embedders \X Embedders |-> IF p[1] = p[2] THEN 2 ELSE 1]],
     items |-> items, texts |-> [c \in Embedders |-> {c}], metas |-> {m1, m2},
     searched |-> {articles}, given |-> {NoVector, [text |-> c1, size |-> 4]},
     filters |-> {NoMeta, m1}, topK |-> topK,
     migrated |-> storage \in {"memory", "vectorize"}, calls |-> 3]
TwoUniverses == {<<articles, i1>>, <<users, i1>>}
OneUniverse == {<<articles, i1>>, <<articles, i2>>}
MCEmbeddingPlans == {
    EmbedPlan("memory", "openai", TwoUniverses, TRUE, FALSE, 1),
    EmbedPlan("pgvector", "cloudflare-ai", TwoUniverses, TRUE, TRUE, 10),
    EmbedPlan("sqlite-vec", "openai", TwoUniverses, TRUE, TRUE, 1),
    EmbedPlan("sqlite-vec", "openai", OneUniverse \cup {<<nobody, NotText>>}, FALSE, FALSE, 1),
    EmbedPlan("vectorize", "cloudflare-ai", TwoUniverses \cup OneUniverse, TRUE, FALSE, 10)}

-----------------------------------------------------------------------------
SlotOf(key, scope, waits, needs) == [key |-> key, scope |-> scope, waits |-> waits, needs |-> needs]
(* Slots that need others: user stands behind all, and stray is listed nowhere. *)
ContextPlan(scopes, needs, fails, dies, opened, n) ==
    [setup |->
        [slots |-> user :> SlotOf(user, scopes[1], TRUE, needs[1]) @@
                   tenant :> SlotOf(tenant, scopes[2], FALSE, needs[2]) @@
                   role :> SlotOf(role, scopes[3], FALSE, needs[3]) @@
                   stray :> SlotOf(IF fails THEN user ELSE stray, "on-demand", TRUE, <<>>),
         listed |-> <<role, tenant, user>>, fails |-> fails, dies |-> dies],
     requests |-> opened, gets |-> n]
MCContextPlans == {
    ContextPlan(<<"on-demand", "on-demand", "on-demand">>, <<<<>>, <<user>>, <<tenant, user>>>>,
                TRUE, FALSE, {east}, 3),
    ContextPlan(<<"eager", "request", "on-demand">>, <<<<>>, <<user, stray>>, <<user, tenant>>>>,
                FALSE, TRUE, {east, west}, 2),
    ContextPlan(<<"on-demand", "request", "on-demand">>, <<<<tenant>>, <<user>>, <<tenant>>>>,
                TRUE, TRUE, {east}, 3),
    ContextPlan(<<"eager", "on-demand", "on-demand">>, <<<<>>, <<role>>, <<tenant, user>>>>,
                TRUE, FALSE, {east}, 3)}

-----------------------------------------------------------------------------
CookieDef(name, by, accepts, default, onMismatch) ==
    [name |-> name, by |-> by, accepts |-> accepts, default |-> default, onMismatch |-> onMismatch]
Theme(onMismatch) == CookieDef(theme, "schema", {dark, light}, light, onMismatch)
Session == CookieDef(sid, "none", {}, Absent, "none")
Prefs == CookieDef(prefs, "parser", {}, Absent, "none")
(* Two releases, of which the old one has never heard of prefs, has its session
   under the key light, and may prune. *)
CookiePlan(adapter, oldPrune, mismatch, path, pages, first, n) ==
    [setup |-> [adapter |-> adapter,
        stores |-> earlier :> [defs |-> theme :> Theme("fallback") @@ light :> Session, prune |-> oldPrune] @@
                   later :> [defs |-> theme :> Theme(mismatch) @@ prefs :> Prefs, prune |-> NoPath]],
     path |-> path, pages |-> pages, steps |-> n,
     jar |-> theme :> first @@ sid :> Absent @@ prefs :> Absent,
     sets |-> {<<theme, dark>>, <<theme, bad>>, <<light, dark>>, <<prefs, o1>>}]
MCCookiePlans == {
    CookiePlan("document", RootPath, "remove", RootPath, {RootPath, DeepPath}, bad, 6),
    CookiePlan("headers", NoPath, "remove", RootPath, {RootPath, DeepPath}, bad, 6),
    CookiePlan("next", RootPath, "remove", NoPath, {DeepPath}, bad, 6),
    CookiePlan("headers", RootPath, "fallback", RootPath, {DeepPath}, Absent, 6)}

-----------------------------------------------------------------------------
Init ==
    QueuesInit /\ SettingsInit /\ EventsInit /\ EmbeddingsInit /\ ContextsInit /\ CookiesInit
Plans == <<qplan, splan, eplan, vplan, kplan, bplan>>
NoPlans == <<NoQueues, NoSettings, NoBus, NoIndex, NoBag, NoBakery>>
Only(i) == \A j \in DOMAIN Plans \ {i} : Plans[j] = NoPlans[j]
Next ==
    \/ /\ Only(1) /\ QueuesNext
       /\ UNCHANGED <<settingsClientVars, eventClientVars, embeddingClientVars,
                      contextClientVars, cookieClientVars>>
    \/ /\ Only(2) /\ SettingsNext
       /\ UNCHANGED <<queueClientVars, eventClientVars, embeddingClientVars,
                      contextClientVars, cookieClientVars>>
    \/ /\ Only(3) /\ EventsNext
       /\ UNCHANGED <<queueClientVars, settingsClientVars, embeddingClientVars,
                      contextClientVars, cookieClientVars>>
    \/ /\ Only(4) /\ EmbeddingsNext
       /\ UNCHANGED <<queueClientVars, settingsClientVars, eventClientVars,
                      contextClientVars, cookieClientVars>>
    \/ /\ Only(5) /\ ContextsNext
       /\ UNCHANGED <<queueClientVars, settingsClientVars, eventClientVars,
                      embeddingClientVars, cookieClientVars>>
    \/ /\ Only(6) /\ CookiesNext
       /\ UNCHANGED <<queueClientVars, settingsClientVars, eventClientVars,
                      embeddingClientVars, contextClientVars>>
Spec ==
    Init /\ [][Next]_<<queueClientVars, settingsClientVars, eventClientVars, embeddingClientVars,
                      contextClientVars, cookieClientVars>>
=============================================================================
