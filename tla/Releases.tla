------------------------------ MODULE Releases ------------------------------
(***************************************************************************)
(* Instances of an application evaluate and override its flags, or send    *)
(* and change its notifications.  The history knows which override was the *)
(* latest of a rule while a call ran, and which version of a template the  *)
(* last change that ran alone has left.                                    *)
(***************************************************************************)
EXTENDS Flags, Notify

CONSTANTS
    ReleasePlans,       \* what is deployed, and what the instances do
    Astray              \* no version is owed

VARIABLES
    rollout, rcalls,    \* the plan, the calls begun
    seen,               \* per call and rule: what was the latest while it ran
    condemned,          \* overrides that a call could roll back
    published, due      \* per template what the last change has left; per send
releaseGhosts == <<seen, condemned, published, due>>
releaseVars == <<flagVars, notifyVars, rollout, rcalls, releaseGhosts>>

NoRollout == [service |-> "none"]
NothingSeen == [rule \in Rules |-> {}]

ReleasesInit ==
    /\ release = NoRollout /\ overrides = <<>>
    /\ fcall = [c \in Instances |-> NoFlagCall]
    /\ wiring = NoRollout
    /\ registry = [t \in Templates |-> Nothing] /\ stored = registry
    /\ ncall = [c \in Senders |-> NoNotifyCall]
    /\ rollout = NoRollout /\ rcalls = 0
    /\ seen = [c \in Instances |-> NothingSeen] /\ condemned = {}
    /\ published = registry /\ due = [c \in Senders |-> Astray]

ReleasesDeploy ==
    /\ rollout = NoRollout
    /\ \E p \in ReleasePlans :
           /\ rollout' = p
           /\ release' = IF p.service = "flags" THEN p.setup ELSE release
           /\ wiring' = IF p.service = "notify" THEN p.setup ELSE wiring
    /\ UNCHANGED <<overrides, fcall, registry, stored, ncall, rcalls, releaseGhosts>>

-----------------------------------------------------------------------------
(* Calls of the flag service. *)

FlagBusy(c) == fcall[c].at \notin {"idle", "returned"}

(* The override of a rule that nothing later replaces. *)
Newest(rows, rule) ==
    {i \in DOMAIN rows : /\ rows[i].rule = rule /\ ~rows[i].rolledBack
                         /\ \A j \in DOMAIN rows :
                                j > i => rows[j].rule # rule \/ rows[j].rolledBack}
Current(rows, rule) ==
    IF Newest(rows, rule) = {} THEN {Default}
    ELSE {rows[i].config : i \in Newest(rows, rule)}

(* Every call in progress sees what has become the latest of its rules. *)
Observes(rows, calls, seenBefore) ==
    /\ seen' = [c \in Instances |-> [rule \in Rules |->
           IF calls[c].at \in {"idle"} THEN {}
           ELSE IF calls[c].at = "returned" THEN seenBefore[c][rule]
           ELSE seenBefore[c][rule] \cup Current(rows, rule)]]
    /\ condemned' = condemned \cup UNION {UNION {
           {i \in Newest(rows, rule) :
               \/ rows[i].config \notin release.accepts[c]
               \/ calls[c].op = "rollback"} :
           rule \in {calls[c].rules[n] : n \in 1 .. Len(calls[c].rules)}} :
           c \in {c \in Instances : calls[c].at \notin {"idle", "returned"} /\ calls[c].op # "set"}}

FlagCalls(c) ==
    /\ rollout.service = "flags" /\ rcalls < rollout.calls
    /\ \/ \E rules \in rollout.flags, config \in rollout.adhoc : FlagStarts(c, "evaluate", rules, config)
       \/ \E rule \in Rules : FlagStarts(c, "rollback", <<rule>>, Default)
       \/ \E rule \in Rules, config \in rollout.configs : FlagStarts(c, "set", <<rule>>, config)
    /\ rcalls' = rcalls + 1
    /\ Observes(overrides, fcall', seen)
    /\ UNCHANGED <<notifyVars, rollout, published, due>>
FlagMoves(c) ==
    /\ FlagStep(c)
    /\ Observes(overrides', fcall', seen)
    /\ UNCHANGED <<notifyVars, rollout, rcalls, published, due>>
FlagLeaves(c) ==
    /\ FlagEnds(c)
    /\ seen' = [seen EXCEPT ![c] = NothingSeen]
    /\ UNCHANGED <<notifyVars, rollout, rcalls, condemned, published, due>>

-----------------------------------------------------------------------------
(* Calls of the notification service. *)

Changing(d, t) == ncall[d].op # "send" /\ ncall[d].at \in {"repo", "register"} /\ ncall[d].template = t

NotifyCalls(c) ==
    /\ rollout.service = "notify" /\ rcalls < rollout.calls
    /\ \E t \in Templates :
           \/ \E kind \in Kinds : NotifyStarts(c, "send", t, kind, Nothing)
           \/ \E op \in {"create", "update"}, versions \in rollout.versions[c] :
                  NotifyStarts(c, op, t, Nothing, versions)
           \/ NotifyStarts(c, "delete", t, Nothing, Nothing)
    /\ rcalls' = rcalls + 1
    /\ LET k == ncall'[c]
           near == \E d \in Senders \ {c} : Changing(d, k.template)
       IN  /\ due' = [d \in Senders |->
                  IF d = c THEN (IF k.op = "send" /\ ~near THEN published[k.template] ELSE Astray)
                  ELSE IF k.op # "send" /\ ncall[d].op = "send" /\ ncall[d].template = k.template
                          /\ ncall[d].at = "resolve"
                  THEN Astray ELSE due[d]]
           /\ published' = IF k.op # "send" /\ near THEN [published EXCEPT ![k.template] = Astray]
                          ELSE published
    /\ UNCHANGED <<flagVars, rollout, seen, condemned>>

(* A change that was refused leaves what there was; one the repository failed in
   leaves nothing to rely on, for this template. *)
NotifyMoves(c) ==
    LET k == ncall[c] IN
    /\ NotifyStep(c)
    /\ published' =
           IF k.op = "send" \/ published[k.template] = Astray THEN published
           ELSE IF ncall'[c].at = "returned" /\ ncall'[c].out = "done"
           THEN [published EXCEPT ![k.template] = k.versions]
           ELSE IF ncall'[c].at = "returned" /\ ~Refused(k)
           THEN [published EXCEPT ![k.template] = Astray] ELSE published
    /\ UNCHANGED <<flagVars, rollout, rcalls, seen, condemned, due>>
NotifyLeaves(c) ==
    /\ NotifyEnds(c)
    /\ due' = [due EXCEPT ![c] = Astray]
    /\ UNCHANGED <<flagVars, rollout, rcalls, seen, condemned, published>>

ReleasesNext ==
    \/ ReleasesDeploy
    \/ \E c \in Instances : FlagCalls(c) \/ FlagMoves(c) \/ FlagLeaves(c)
    \/ \E c \in Senders : NotifyCalls(c) \/ NotifyMoves(c) \/ NotifyLeaves(c)

-----------------------------------------------------------------------------
(* evaluate answers from configurations, one of each rule, that were the latest
   at some time of the call (or that it was given) and that its own schema takes;
   and an override is rolled back by the call for which it was the latest, when
   that was asked to or rejects it (createFlagService.ts:72). *)
FlagsKept ==
    /\ \A c \in Instances : fcall[c].at = "returned" /\ fcall[c].out = "done"
                            /\ fcall[c].op = "evaluate" =>
           LET k == fcall[c]
               rules == {k.rules[n] : n \in 1 .. Len(k.rules)}
               given(r) == IF k.config = Default THEN seen[c][r] ELSE {k.config}
               possible == {used \in [rules -> Configs \cup {Default}] : \A r \in rules :
                                used[r] \in given(r) \cap release.accepts[c]}
               yes(r, used) == used[r] \in release.yes
           IN  \E used \in possible :
                   k.answer = IF release.strategy = "all" THEN \A r \in rules : yes(r, used)
                              ELSE \E r \in rules : yes(r, used)
    /\ \A i \in DOMAIN overrides : overrides[i].rolledBack => i \in condemned

(* A send tells what the last change of its template has left, and is refused
   where that left nothing; the plugins learn whether it was delivered, all of
   them unless one throws (createNotify.ts); with onError "throw" a send that
   returns has been delivered. *)
NotifyKept == \A c \in Senders :
    ncall[c].op = "send" /\ ncall[c].at = "returned" =>
        LET k == ncall[c]
            owed == IF due[c] = Nothing THEN Nothing ELSE due[c][k.kind]
        IN  /\ k.result = "ok" /\ due[c] # Astray => owed # Nothing /\ k.message = owed
            /\ k.message = Nothing /\ due[c] # Astray => owed = Nothing
            /\ k.result # "none" =>
                   /\ \A i \in DOMAIN k.told : k.told[i] = k.result
                   /\ Len(k.told) < Plugins =>
                          k.told # <<>> /\ Throws(Len(k.told), "after") /\ k.out = "threw"
            /\ k.out = "done" /\ wiring.onError = "throw" => k.result = "ok"
=============================================================================
