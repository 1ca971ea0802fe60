------------------------------- MODULE Flags -------------------------------
(***************************************************************************)
(* createFlagService (packages/flag/src) over a repository of overrides    *)
(* that instances of different releases share: each validates with the     *)
(* schema of its own release, and a read that finds an override its schema *)
(* rejects rolls it back for everybody.                                    *)
(***************************************************************************)
EXTENDS Naturals, Sequences, FiniteSets

CONSTANTS
    Instances, Rules, Configs,
    Default             \* the defaultConfig of a rule

VARIABLES
    release,    \* [strategy, accepts, yes, fails]: accepts, the configurations that
                \* the schema of each instance takes; yes, those a rule says yes to
    overrides,  \* in the order of createdAt: [rule, config, rolledBack]
    fcall
flagVars == <<release, overrides, fcall>>

(* The answer of evaluate, where a rule says yes to the configurations of
   release.yes. *)
Evaluates(used) ==
    IF release.strategy = "all" THEN \A r \in DOMAIN used : used[r] \in release.yes
    ELSE \E r \in DOMAIN used : used[r] \in release.yes

NoFlagCall == [op |-> "none", at |-> "idle"]
NoId == 0

FlagAnswers(c, out, used) ==
    fcall' = [fcall EXCEPT ![c] = [@ EXCEPT !.at = "returned", !.out = out, !.used = used,
                  !.answer = Evaluates(used)]]
FlagAt(c, stage) == fcall[c].at = stage

(* evaluate asks for the rules of the flag in turn, the other calls for one; its
   config is Default when it is called with none. *)
FlagStarts(c, op, rules, config) ==
    /\ fcall[c] = NoFlagCall
    /\ fcall' = [fcall EXCEPT ![c] =
           [op |-> op, rules |-> rules, left |-> rules, config |-> config, id |-> NoId,
            at |-> IF op = "set" THEN "create" ELSE "find",
            used |-> [r \in {} |-> Default], out |-> "none", answer |-> FALSE]]
    /\ UNCHANGED <<release, overrides>>
FlagEnds(c) ==
    /\ FlagAt(c, "returned")
    /\ fcall' = [fcall EXCEPT ![c] = NoFlagCall]
    /\ UNCHANGED <<release, overrides>>

(* findMany of what is not rolled back, by createdAt descending, limit 1; the
   memory repository breaks ties by the order of creation. *)
Standing(rule) == {i \in 1 .. Len(overrides) :
    overrides[i].rule = rule /\ ~overrides[i].rolledBack}
LatestBug(rule) ==
    IF Standing(rule) = {} THEN NoId
    ELSE CHOOSE i \in Standing(rule) : \A j \in Standing(rule) : i <= j
Latest(rule) ==
    IF Standing(rule) = {} THEN NoId
    ELSE CHOOSE i \in Standing(rule) : \A j \in Standing(rule) : j <= i

(* getLatest, once around its loop, and what evaluate goes on with: the override,
   or the default, under the configuration it was called with, which the schema
   may refuse; after the last rule, the context may be refused too. *)
Merged(k, config) == IF k.op = "evaluate" /\ k.config # Default THEN k.config ELSE config
GetLatest(c) ==
    LET k == fcall[c]
        rule == Head(k.left)
        id == Latest(rule)
        config == IF id = NoId THEN Default ELSE overrides[id].config
        merged == Merged(k, config)
        used == [r \in DOMAIN k.used \cup {rule} |-> IF r = rule THEN merged ELSE k.used[r]]
    IN  /\ FlagAt(c, "find")
        /\ IF id # NoId /\ config \notin release.accepts[c]
           THEN fcall' = [fcall EXCEPT ![c].at = "drop", ![c].id = id]
           ELSE IF k.op = "rollback" /\ id # NoId
           THEN fcall' = [fcall EXCEPT ![c].at = "rollback", ![c].id = id]
           ELSE IF k.op = "evaluate" /\ merged \notin release.accepts[c]
           THEN FlagAnswers(c, "threw", k.used)
           ELSE IF Len(k.left) > 1
           THEN fcall' = [fcall EXCEPT ![c].left = Tail(@), ![c].used = used]
           ELSE \/ FlagAnswers(c, "done", used)
                \/ k.op = "evaluate" /\ FlagAnswers(c, "threw", k.used)
        /\ UNCHANGED <<release, overrides>>

RollsBack(c) == overrides' = [overrides EXCEPT ![fcall[c].id].rolledBack = TRUE]
DropInvalid(c) ==
    /\ FlagAt(c, "drop")
    /\ RollsBack(c)
    /\ fcall' = [fcall EXCEPT ![c].at = "find"]
    /\ UNCHANGED release
RollBack(c) ==
    /\ FlagAt(c, "rollback")
    /\ RollsBack(c) /\ FlagAnswers(c, "done", fcall[c].used)
    /\ UNCHANGED release

(* setConfigOverride validates before it asks anything. *)
SetOverride(c) ==
    LET k == fcall[c]
        row == [rule |-> Head(k.rules), config |-> k.config, rolledBack |-> FALSE]
    IN  /\ FlagAt(c, "create")
        /\ IF k.config \in release.accepts[c]
           THEN overrides' = Append(overrides, row) /\ FlagAnswers(c, "done", k.used)
           ELSE FlagAnswers(c, "threw", k.used) /\ UNCHANGED overrides
        /\ UNCHANGED release

FlagFails(c) ==
    /\ fcall[c].at \notin {"idle", "returned"} /\ release.fails
    /\ FlagAnswers(c, "threw", fcall[c].used)
    /\ UNCHANGED <<release, overrides>>

FlagStep(c) == GetLatest(c) \/ DropInvalid(c) \/ RollBack(c) \/ SetOverride(c) \/ FlagFails(c)
=============================================================================
