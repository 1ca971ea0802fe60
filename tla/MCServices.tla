----------------------------- MODULE MCServices -----------------------------
(* The services that keep rows, flags, notifications and files, for TLC: each
   plan deploys one of them, for two clients. *)
EXTENDS Accounts, Releases, Storage

CONSTANTS c1, c2, ann, bob, u, org, theme, lang, dark, light, r1, r2, on, off,
          welcome, email, sms, docs, media, draft, final, jpg, txt

Table(adapter, dialect, soft, unique, fails) ==
    [adapter |-> adapter, dialect |-> dialect, soft |-> soft, unique |-> unique, fails |-> fails]

UserPlan(setup_, ops, emails, n) ==
    [service |-> "users", setup |-> setup_, ops |-> ops, emails |-> emails, calls |-> n]
Changes == {"create", "update", "delete"}
UserPlans == {
    UserPlan(Table("drizzle", "pg", TRUE, {}, FALSE), Changes \cup {"findById", "findByEmail"},
             {ann, bob}, 4),
    UserPlan(Table("prisma", "pg", FALSE, {}, TRUE), Changes, {ann, bob}, 3),
    UserPlan(Table("waddler", "mysql", TRUE, {"email"}, FALSE), Changes \cup {"findMany"},
             {ann, bob}, 4),
    UserPlan(Table("drizzle", "mysql", FALSE, {}, FALSE), Changes, {ann}, 4)}

Value(key, value) == <<[key |-> key, value |-> value]>>
OneKey == {Value(theme, dark), Value(theme, light)}
TwoKeys == OneKey \cup {Value(theme, dark) \o Value(lang, light)}
PrefPlan(setup_, actors, sets, ops, n) ==
    [service |-> "preferences", setup |-> setup_, actors |-> actors, sets |-> sets, ops |-> ops,
     keys |-> {theme} \cup (IF sets = TwoKeys THEN {lang} ELSE {}), calls |-> n]
InOrg == [id |-> u, org |-> org]
NoOrgActor == [id |-> u, org |-> NoOrg]
AllPref == {"get", "list", "set", "reset"}
PrefPlans == {
    PrefPlan(Table("memory", "none", FALSE, {}, FALSE), {InOrg, NoOrgActor}, TwoKeys, AllPref, 3),
    PrefPlan(Table("prisma", "pg", TRUE, {}, FALSE), {InOrg, NoOrgActor}, TwoKeys,
             {"get", "set", "reset"}, 3),
    PrefPlan(Table("waddler", "mysql", FALSE, {}, TRUE), {InOrg, NoOrgActor}, OneKey, {"get", "set", "reset"}, 3),
    PrefPlan(Table("drizzle", "mysql", TRUE, {}, FALSE), {InOrg, NoOrgActor}, OneKey, {"get", "set", "reset"}, 4)}
FlagPlan(strategy, accepts, adhoc, fails, n) ==
    [service |-> "flags",
     setup |-> [strategy |-> strategy, accepts |-> accepts, yes |-> {on}, fails |-> fails],
     flags |-> {<<r1, r2>>}, configs |-> {on, off}, adhoc |-> adhoc, calls |-> n]
NotifyPlan(onError, plugins, fails, n) ==
    [service |-> "notify", setup |-> [onError |-> onError, plugins |-> plugins, fails |-> fails],
     versions |-> [c \in Senders |-> {[k \in Kinds |-> IF k = sms /\ c = c2 THEN Nothing ELSE c]}],
     calls |-> n]
MCReleasePlans == {
    FlagPlan("all", [c \in Instances |-> IF c = c1 THEN {Default, on} ELSE {on, off}],
             {Default}, FALSE, 4),
    FlagPlan("any", [c \in Instances |-> {Default, on, off}], {Default, on}, TRUE, 3),
    NotifyPlan("throw", <<{}, {"after"}, {}>>, TRUE, 3),
    NotifyPlan("silent", <<{}>>, TRUE, 4),
    NotifyPlan("throw", <<>>, FALSE, 4),
    NotifyPlan("silent", <<{"before"}, {}>>, FALSE, 3)}

PathOf(name, ext) == [name |-> name, ext |-> ext]
Rename(strategy) ==
    [name |-> "rename", strategy |-> strategy, sanitize |-> strategy = "none",
     safe |-> [n \in {draft, final} |-> draft], slug |-> [n \in {draft, final} |-> final]]
ToWebp == [name |-> "imageTransform", format |-> Webp]
Encryption == [name |-> "encryption", key |-> "k1"]
SecondKey == [name |-> "encryption", key |-> "k2"]
ByType(bucket) ==
    [name |-> "multiBucket", bucket |-> bucket,
     routing |-> <<[pattern |-> Webp, bucket |-> media], [pattern |-> "text", bucket |-> docs]>>]
FilePlan(source, plugins, onError, fails, paths, types, contents, strange, n) ==
    [service |-> "storage",
     setup |-> [source |-> source, byUrl |-> source = "vercel-blob", plugins |-> plugins,
                bucket |-> docs, allowed |-> {docs, media}, onError |-> onError, fails |-> fails],
     paths |-> paths, types |-> types, contents |-> contents, strange |-> strange,
     ops |-> {"download", "delete", "exists"}, calls |-> n]
OwnContent == [c \in Uploaders |-> {c}]
MCStoragePlans == {
    FilePlan("local", <<>>, "throw", FALSE, {PathOf(draft, jpg)}, {"text"}, OwnContent, {}, 4),
    FilePlan("local", <<Rename("none"), Encryption>>, "throw", TRUE,
             {PathOf(draft, txt), PathOf(final, txt)}, {"text"}, OwnContent, {}, 4),
    FilePlan("s3", <<Rename("hash"), Encryption, SecondKey>>, "throw", FALSE,
             {PathOf(draft, txt)}, {"text"}, [c \in Uploaders |-> Uploaders], {}, 4),
    FilePlan("supabase", <<Encryption, Rename("hash")>>, "silent", TRUE,
             {PathOf(draft, txt)}, {"text"}, OwnContent, {}, 4),
    FilePlan("vercel-blob", <<ToWebp, ByType("none"), Rename("slug")>>, "silent", FALSE,
             {PathOf(draft, jpg), PathOf(final, NoExt)}, {"image", "text", "other"}, OwnContent,
             {"elsewhere"}, 4),
    FilePlan("r2", <<ByType("elsewhere"), Encryption, ToWebp, Rename("uuid")>>, "throw", FALSE,
             {PathOf(draft, jpg)}, {"image", "text", "other"}, OwnContent, {}, 4)}

MCAccountPlans == UserPlans \cup PrefPlans

Init == AccountsInit /\ ReleasesInit /\ FilesInit
Next ==
    \/ /\ rollout = NoRollout /\ bucketPlan = NoStorage
       /\ AccountsNext /\ UNCHANGED <<releaseVars, fileVars>>
    \/ /\ account = NoAccount /\ bucketPlan = NoStorage
       /\ ReleasesNext /\ UNCHANGED <<accountVars, fileVars>>
    \/ /\ account = NoAccount /\ rollout = NoRollout
       /\ FilesNext /\ UNCHANGED <<accountVars, releaseVars>>
Spec == Init /\ [][Next]_<<accountVars, releaseVars, fileVars>>
=============================================================================
