------------------------------ MODULE Settings ------------------------------
(***************************************************************************)
(* What an application is configured with: createEnv over files, the       *)
(* process environment and inline values, with its watcher                 *)
(* (packages/env/src), and createConfigService over environment, JSON and  *)
(* database sources (packages/config/src).  Files and rows are changed by  *)
(* others at any time.                                                     *)
(***************************************************************************)
EXTENDS Naturals, FiniteSets, SequencesExt

CONSTANTS
    ConfigReaders,
    Texts, Blank,               \* literal values; the empty one
    Unfit, Unset,            \* what a schema says: refused, or undefined
    Missing, Malformed,         \* a file that is not there, or is no JSON
    NotLoaded, Pending          \* no data yet; a query that has not been answered

VARIABLES
    place,          \* what createEnv and createConfigService were given
    envFiles,       \* file -> its lines [name, text], or Missing
    processEnv,     \* name -> text
    env,            \* [at, valid, raw]: the object createEnv answered
    watch,          \* [files, events, at, todo, read, prev]: the watcher
    jsonFile, jsonData,
    configRows,     \* key -> value
    cfgcall
settingsVars == <<place, envFiles, processEnv, env, watch, jsonFile, jsonData, configRows, cfgcall>>

NoCfgCall == [op |-> "none", at |-> "idle"]
NoEnv == [at |-> "none", valid |-> <<>>, raw |-> <<>>]
NoWatch == [files |-> {}, events |-> {}, at |-> "idle", todo |-> <<>>, read |-> <<>>, prev |-> <<>>]

(* g over f. *)
Overlaid(g, f) == [x \in DOMAIN f \cup DOMAIN g |-> IF x \in DOMAIN g THEN g[x] ELSE f[x]]
Lookup(f, x, none) == IF x \in DOMAIN f THEN f[x] ELSE none

-----------------------------------------------------------------------------
(* Reading.  A name is the sequence of its prefix, its group and its key. *)
Comment == [name |-> <<>>, text |-> Blank]
ParseEnvFile(lines) ==
    FoldLeft(LAMBDA found, l : IF l = Comment THEN found ELSE Overlaid(l.name :> l.text, found),
             <<>>, lines)
LoadEnvFile(f) == IF envFiles[f] = Missing THEN <<>> ELSE ParseEnvFile(envFiles[f])
(* The later files win. *)
LoadAll(files) == FoldLeft(LAMBDA found, f : Overlaid(LoadEnvFile(f), found), <<>>, files)

(* A text that is no literal refers to a variable: ${VAR} or ${VAR:-default}. *)
ExpandVars(t, vars) ==
    IF t \in Texts THEN t
    ELSE IF Lookup(vars, t.of, Blank) # Blank THEN vars[t.of] ELSE t.orElse
MaxIterations == 10
ExpandRecord(merged) ==
    LET Pass(vars) == FoldSet(LAMBDA n, now : [now EXCEPT ![n] = ExpandVars(@, now)],
                              vars, DOMAIN vars)
        after[i \in 0 .. MaxIterations] == IF i = 0 THEN merged ELSE Pass(after[i - 1])
    IN  IF place.expand THEN after[MaxIterations] ELSE merged

(* The process and inline, over the files: the edge build has none of these. *)
Given == Overlaid(place.inline, IF place.process THEN processEnv ELSE <<>>)
MergeSources ==
    ExpandRecord(IF place.edge THEN Given ELSE Overlaid(Given, LoadAll(place.files)))

-----------------------------------------------------------------------------
(* Validation.  A variable is [group, key, prefixes, accepts, missing]. *)
BareName(v) == v.group \o <<v.key>>
Prefixed(v) == [i \in 1 .. Len(v.prefixes) |-> <<v.prefixes[i]>> \o BareName(v)]
(* The names a variable may have, in the order they are tried. *)
Tried(v) ==
    (IF v.group = <<>> /\ v.prefixes # <<>> THEN <<Head(Prefixed(v))>> ELSE <<>>)
        \o <<BareName(v)>> \o Prefixed(v)
ResolveRawValue(v, merged) ==
    LET set == SelectSeq(Tried(v), LAMBDA n : n \in DOMAIN merged)
    IN  IF set = <<>> THEN Blank ELSE merged[Head(set)]
ValidateVar(v, raw) ==
    IF raw = Blank THEN v.missing ELSE IF raw \in v.accepts THEN raw ELSE Unfit

(* What an object of variables becomes: its texts, and the values that are fit. *)
Applied(vars, merged) ==
    LET of(id) == CHOOSE v \in vars : BareName(v) = id
        raw == [id \in {BareName(v) : v \in vars} |-> ResolveRawValue(of(id), merged)]
        verdict == [id \in DOMAIN raw |-> ValidateVar(of(id), raw[id])]
        valid == {id \in DOMAIN raw : verdict[id] \notin {Unfit, Unset}}
    IN  [raw |-> raw, valid |-> [id \in valid |-> verdict[id]],
         issues |-> {id \in DOMAIN raw : verdict[id] = Unfit}]
ModeIssues(applied) == place.required \ DOMAIN applied.valid
LoadAndValidate ==
    LET applied == Applied(place.vars, MergeSources)
    IN  [applied EXCEPT !.issues = @ \cup ModeIssues(applied)]
ReportThrows(loaded) == loaded.issues # {} /\ ~place.skip /\ place.onError = "throw"

-----------------------------------------------------------------------------
(* createEnv, and the watcher it starts; a file that is not there is not
   watched.  What createEnv reads in one go is taken to be of one moment. *)
Watches == place.watch /\ ~place.edge
CreateEnv ==
    LET loaded == LoadAndValidate IN
    /\ env.at = "none"
    /\ env' = IF ReportThrows(loaded) THEN [env EXCEPT !.at = "threw"]
              ELSE [at |-> "live", valid |-> loaded.valid, raw |-> loaded.raw]
    /\ watch' = IF ReportThrows(loaded) \/ ~Watches THEN watch
                ELSE [watch EXCEPT !.files = {f \in DOMAIN envFiles : envFiles[f] # Missing},
                                   !.prev = LoadAll(place.files)]
    /\ UNCHANGED <<place, envFiles, processEnv, jsonFile, jsonData, configRows, cfgcall>>

(* The event of a change: every file is read again, one after the other. *)
WatchEvent(f) ==
    /\ env.at = "live" /\ watch.at = "idle" /\ f \in watch.events
    /\ watch' = [watch EXCEPT !.events = @ \ {f}, !.at = "reading", !.todo = place.files,
                              !.read = <<>>]
    /\ UNCHANGED <<place, envFiles, processEnv, env, jsonFile, jsonData, configRows, cfgcall>>
WatchReads ==
    /\ watch.at = "reading" /\ watch.todo # <<>>
    /\ watch' = [watch EXCEPT !.todo = Tail(@), !.read = Overlaid(LoadEnvFile(Head(watch.todo)), @)]
    /\ UNCHANGED <<place, envFiles, processEnv, env, jsonFile, jsonData, configRows, cfgcall>>
ChangedKeys(before, after) ==
    {k \in DOMAIN before \cup DOMAIN after : Lookup(before, k, Unset) # Lookup(after, k, Unset)}
(* The keys that have changed go to onReload once they have been loaded and
   validated; a throw in the callback of a watcher ends the process.  What has
   been loaded stays where nothing reads it: the object keeps its values. *)
ComparesFirstReadBug ==
    /\ watch.at = "reading" /\ watch.todo = <<>>
    /\ watch' = [watch EXCEPT !.at = "idle"]
    /\ env' = IF ChangedKeys(watch.prev, watch.read) # {} /\ ReportThrows(LoadAndValidate)
              THEN [env EXCEPT !.at = "died"] ELSE env
    /\ UNCHANGED <<place, envFiles, processEnv, jsonFile, jsonData, configRows, cfgcall>>
WatchCompares ==
    /\ watch.at = "reading" /\ watch.todo = <<>>
    /\ watch' = [watch EXCEPT !.at = "idle", !.prev = watch.read]
    /\ env' = IF ChangedKeys(watch.prev, watch.read) # {} /\ ReportThrows(LoadAndValidate)
              THEN [env EXCEPT !.at = "died"] ELSE env
    /\ UNCHANGED <<place, envFiles, processEnv, jsonFile, jsonData, configRows, cfgcall>>

(* An editor writes to a file, or puts another in its place: the watcher is
   told, and of the file it watched nothing more in the second case. *)
EditsEnvFile(f, lines) ==
    /\ envFiles[f] \notin {lines, Missing}
    /\ envFiles' = [envFiles EXCEPT ![f] = lines]
    /\ watch' = [watch EXCEPT !.events = @ \cup ({f} \cap watch.files)]
    /\ UNCHANGED <<place, processEnv, env, jsonFile, jsonData, configRows, cfgcall>>
ReplacesEnvFile(f, lines) ==
    /\ envFiles[f] # lines
    /\ envFiles' = [envFiles EXCEPT ![f] = lines]
    /\ watch' = [watch EXCEPT !.events = @ \cup ({f} \cap watch.files),
                              !.files = @ \ {f}]
    /\ UNCHANGED <<place, processEnv, env, jsonFile, jsonData, configRows, cfgcall>>
SetsProcessEnv(name, text) ==
    /\ Lookup(processEnv, name, Unset) # text
    /\ processEnv' = Overlaid(name :> text, processEnv)
    /\ UNCHANGED <<place, envFiles, env, watch, jsonFile, jsonData, configRows, cfgcall>>

-----------------------------------------------------------------------------
(* The sources of a configuration: a definition is [from, by, at]. *)
EnvSource(d) ==
    IF d.by # "key" \/ Lookup(processEnv, d.at, Blank) = Blank THEN Unset ELSE processEnv[d.at]
JsonNow == IF jsonData # NotLoaded THEN jsonData ELSE jsonFile
JsonReads(d) == d.from = "json" /\ d.by = "path"
JsonSource(d) == IF d.by # "path" THEN Unset ELSE Lookup(JsonNow, d.at, Unset)
JsonThrows(d) == JsonReads(d) /\ JsonNow \in {Missing, Malformed}
DatabaseSource(d) == IF d.by # "key" THEN Unset ELSE Lookup(configRows, d.at, Unset)
SourceAnswers(d) == IF d.from = "env" THEN EnvSource(d) ELSE JsonSource(d)

Definitions(k) == Lookup(place.sources, k.key, <<>>)
(* resolveValue goes on from definition i: to one it has to wait for, that
   throws or has a value, or to the end. *)
Halts(d) == d.from = "database" \/ JsonThrows(d) \/ SourceAnswers(d) # Unset
Waterfall(k, i) ==
    LET defs == Definitions(k)
        halting == {j \in i .. Len(defs) : Halts(defs[j])}
        end == IF halting = {} THEN Len(defs) + 1
               ELSE CHOOSE j \in halting : \A l \in halting : j <= l
    IN  [at |-> end, passed |-> {defs[j] : j \in i .. (IF end > Len(defs) THEN Len(defs) ELSE end)}]

(* What get and has make of the value. *)
ValidateWithSchema(key, value) == key \in DOMAIN place.schema => value \in place.schema[key]
CfgReturned(k, out) == [k EXCEPT !.at = "returned", !.out = out]
GetAnswers(k, value) ==
    IF value = Unset THEN CfgReturned(k, Unset)
    ELSE IF k.op = "has" \/ ValidateWithSchema(k.key, value) THEN CfgReturned(k, value)
    ELSE CfgReturned(k, IF place.onInvalid = "throw" THEN "threw" ELSE Unset)

Resumes(k, i) ==
    LET defs == Definitions(k)
        w == Waterfall(k, i)
        d == defs[w.at]
    IN  IF w.at > Len(defs) THEN GetAnswers(k, Unset)
        ELSE IF d.from = "database" THEN [k EXCEPT !.at = "find", !.i = w.at, !.found = Pending]
        ELSE IF JsonThrows(d) THEN CfgReturned(k, "threw") ELSE GetAnswers(k, SourceAnswers(d))
(* The JSON file is read once: at the first look into it. *)
Loads(k, i) ==
    jsonData' = IF \E d \in Waterfall(k, i).passed : JsonReads(d) /\ ~JsonThrows(d)
                THEN JsonNow ELSE jsonData
Resolves(c, k, i) ==
    /\ cfgcall' = [cfgcall EXCEPT ![c] = Resumes(k, i)]
    /\ Loads(k, i)
    /\ UNCHANGED <<place, envFiles, processEnv, env, watch, jsonFile, configRows>>

CfgCall(op, key) ==
    [op |-> op, key |-> key, at |-> "start", i |-> 1, found |-> Pending, out |-> Unset]
ConfigAsked(c, op, key) == cfgcall[c] = NoCfgCall /\ Resolves(c, CfgCall(op, key), 1)
RepoFinds(c) ==
    LET k == cfgcall[c] IN
    /\ k.at = "find" /\ k.found = Pending
    /\ cfgcall' = [cfgcall EXCEPT ![c].found = DatabaseSource(Definitions(k)[k.i])]
    /\ UNCHANGED <<place, envFiles, processEnv, env, watch, jsonFile, jsonData, configRows>>
RepoRefuses(c) ==
    /\ cfgcall[c].at = "find" /\ cfgcall[c].found = Pending /\ place.fails
    /\ cfgcall' = [cfgcall EXCEPT ![c] = CfgReturned(cfgcall[c], "threw")]
    /\ UNCHANGED <<place, envFiles, processEnv, env, watch, jsonFile, jsonData, configRows>>
FirstAwaitedBug(c) ==
    LET k == cfgcall[c] IN
    /\ k.at = "find" /\ k.found # Pending
    /\ cfgcall' = [cfgcall EXCEPT ![c] = GetAnswers(k, k.found)]
    /\ UNCHANGED <<place, envFiles, processEnv, env, watch, jsonFile, jsonData, configRows>>
ConfigFound(c) ==
    LET k == cfgcall[c] IN
    /\ k.at = "find" /\ k.found # Pending
    /\ IF k.found = Unset THEN Resolves(c, k, k.i + 1)
       ELSE /\ cfgcall' = [cfgcall EXCEPT ![c] = GetAnswers(k, k.found)]
            /\ UNCHANGED <<place, envFiles, processEnv, env, watch, jsonFile, jsonData, configRows>>
ConfigEnds(c) ==
    /\ cfgcall[c].at = "returned"
    /\ cfgcall' = [cfgcall EXCEPT ![c] = NoCfgCall]
    /\ UNCHANGED <<place, envFiles, processEnv, env, watch, jsonFile, jsonData, configRows>>

(* Somebody changes a row of the configuration, or the JSON file. *)
ChangesRow(key, value) ==
    /\ Lookup(configRows, key, Unset) # value
    /\ configRows' = IF value = Unset THEN [k \in DOMAIN configRows \ {key} |-> configRows[k]]
                     ELSE Overlaid(key :> value, configRows)
    /\ UNCHANGED <<place, envFiles, processEnv, env, watch, jsonFile, jsonData, cfgcall>>
WritesJson(content) ==
    /\ jsonFile # content
    /\ jsonFile' = content
    /\ UNCHANGED <<place, envFiles, processEnv, env, watch, jsonData, configRows, cfgcall>>

-----------------------------------------------------------------------------
(***************************************************************************)
(* An application reads its environment and its configuration while files, *)
(* variables and rows change.  The history knows what onReload has been    *)
(* told of, and what each source has had since a call began.               *)
(***************************************************************************)

CONSTANTS SettingsPlans

VARIABLES
    splan, sgets, edits,
    told,       \* name -> its text in the files when onReload was last told of it
    unseen,     \* files that changed unwatched since the watcher last began to read
    had         \* per call and definition: the values its source has had meanwhile
settingsGhosts == <<told, unseen, had>>
settingsClientVars == <<settingsVars, splan, sgets, edits, settingsGhosts>>

NoSettings == [service |-> "none"]
NoPlace == [service |-> "none"]

SettingsInit ==
    /\ place = NoPlace /\ splan = NoSettings
    /\ envFiles = <<>> /\ processEnv = <<>> /\ env = NoEnv /\ watch = NoWatch
    /\ jsonFile = Missing /\ jsonData = NotLoaded /\ configRows = <<>>
    /\ cfgcall = [c \in ConfigReaders |-> NoCfgCall]
    /\ sgets = 0 /\ edits = 0
    /\ told = <<>> /\ unseen = {} /\ had = [c \in ConfigReaders |-> <<>>]

SettingsDeploy ==
    /\ splan = NoSettings
    /\ \E p \in SettingsPlans :
           /\ splan' = p /\ place' = p.setup
           /\ envFiles' = p.files /\ jsonFile' = p.json /\ configRows' = p.rows
           /\ processEnv' = p.process
    /\ UNCHANGED <<env, watch, jsonData, cfgcall, sgets, edits, settingsGhosts>>

-----------------------------------------------------------------------------
HasNow(d) == IF d.from = "database" THEN DatabaseSource(d)
              ELSE IF JsonThrows(d) THEN Unset ELSE SourceAnswers(d)
Sourced == [key \in DOMAIN place.sources |->
    [i \in 1 .. Len(place.sources[key]) |-> HasNow(place.sources[key][i])]]
Each(values) == [i \in DOMAIN values |-> {values[i]}]
(* What the sources of a call have now is added to what they have had. *)
Witnesses ==
    had' = [c \in ConfigReaders |->
        IF cfgcall'[c] = NoCfgCall THEN <<>>
        ELSE LET key == cfgcall'[c].key
                 before == IF cfgcall[c] # NoCfgCall THEN had[c]
                           ELSE Each(Lookup(Sourced, key, <<>>))
                 after == Each(Lookup(Sourced', key, <<>>))
             IN  [i \in DOMAIN after |-> before[i] \cup after[i]]]

EnvStarts ==
    /\ splan # NoSettings /\ place.vars # {}
    /\ CreateEnv
    /\ told' = watch'.prev
    /\ UNCHANGED <<splan, sgets, edits, unseen, had>>
WatcherMoves ==
    /\ \/ \E f \in watch.events : WatchEvent(f) /\ unseen' = {} /\ UNCHANGED told
       \/ WatchReads /\ UNCHANGED <<told, unseen>>
       \/ LET changed == ChangedKeys(watch.prev, watch.read)
              now == [n \in changed \cap DOMAIN watch.read |-> watch.read[n]]
              others == [n \in DOMAIN told \ changed |-> told[n]]
          IN  /\ WatchCompares
              /\ told' = Overlaid(now, others)
              /\ UNCHANGED unseen
    /\ UNCHANGED <<splan, sgets, edits, had>>

ConfigReads(c) ==
    /\ splan # NoSettings /\ sgets < splan.calls
    /\ \E op \in {"get", "has"}, key \in splan.keys : ConfigAsked(c, op, key)
    /\ sgets' = sgets + 1
    /\ Witnesses
    /\ UNCHANGED <<splan, edits, told, unseen>>
ReadMoves(c) ==
    /\ RepoFinds(c) \/ RepoRefuses(c) \/ ConfigFound(c) \/ ConfigEnds(c)
    /\ Witnesses
    /\ UNCHANGED <<splan, sgets, edits, told, unseen>>

Edits ==
    /\ splan # NoSettings /\ edits < splan.edits
    /\ \/ \E f \in DOMAIN splan.lines : \E lines \in splan.lines[f] :
              /\ EditsEnvFile(f, lines) \/ ReplacesEnvFile(f, lines)
              /\ unseen' = unseen \cup ({f} \ watch.files)
       \/ /\ \/ \E n \in DOMAIN splan.sets : \E t \in splan.sets[n] : SetsProcessEnv(n, t)
             \/ \E k \in DOMAIN splan.writes : \E v \in splan.writes[k] : ChangesRow(k, v)
             \/ \E content \in splan.jsons : WritesJson(content)
          /\ UNCHANGED unseen
    /\ edits' = edits + 1
    /\ Witnesses
    /\ UNCHANGED <<splan, sgets, told>>

SettingsNext ==
    \/ SettingsDeploy \/ EnvStarts \/ WatcherMoves \/ Edits
    \/ \E c \in ConfigReaders : ConfigReads(c) \/ ReadMoves(c)

-----------------------------------------------------------------------------
(* The watcher has nothing left to do, and has missed no change. *)
AtRest == env.at = "live" /\ watch.at = "idle" /\ watch.events = {} /\ unseen = {}

(* Whatever the order in which files are written and events arrive, also while
   the files are being read again, in the end onReload has been told of every
   variable whose text in the files is another than when it was last told. *)
ChangeTold == AtRest /\ Watches => told = LoadAll(place.files)

(* The answer of get and has is a value that its source had while the call ran,
   and that fits the schema; every source before it had none at some time of the
   call.  The fallback is answered when none of them had one, or when the one
   that had did not fit. *)
Fits(k, v) == k.op = "has" \/ (k.key \in DOMAIN place.schema => v \in place.schema[k.key])
Came(c, i, v) == v \in had[c][i] /\ \A j \in 1 .. i - 1 : Unset \in had[c][j]
SettingKept ==
    \A c \in ConfigReaders : cfgcall[c].at = "returned" /\ cfgcall[c].out # "threw" =>
        LET k == cfgcall[c] IN
        IF k.out = Unset
        THEN \/ \A i \in DOMAIN had[c] : Unset \in had[c][i]
             \/ \E i \in DOMAIN had[c] : \E v \in had[c][i] \ {Unset} : ~Fits(k, v) /\ Came(c, i, v)
        ELSE Fits(k, k.out) /\ \E i \in DOMAIN had[c] : Came(c, i, k.out)
=============================================================================
