------------------------------- MODULE Notify -------------------------------
(***************************************************************************)
(* createNotify (packages/notify/src/createNotify.ts): the registry of     *)
(* templates of one instance, the repository it is kept in step with, and  *)
(* the plugins around the delivery of a message.                           *)
(***************************************************************************)
EXTENDS Naturals, Sequences

CONSTANTS
    Senders, Templates,
    Kinds,              \* of canals
    Versions,           \* what a template says, by the call that wrote it
    Nothing

VARIABLES
    wiring,     \* [onError, plugins, fails]: plugins, for each the phases it throws in
    registry,   \* [template -> its version for each kind, or Nothing]
    stored,     \* the same in the repository
    ncall
notifyVars == <<wiring, registry, stored, ncall>>

NoNotifyCall == [op |-> "none", at |-> "idle"]
NotifyAt(c, stage) == ncall[c].at = stage
NotifyAnswers(c, out) == ncall' = [ncall EXCEPT ![c].at = "returned", ![c].out = out]
Plugins == Len(wiring.plugins)

(* A send, or a change of a template to versions [kind -> version]. *)
NotifyStarts(c, op, template, kind, versions) ==
    LET k == [op |-> op, template |-> template, kind |-> kind, versions |-> versions,
              at |-> IF op = "send" THEN "resolve" ELSE "repo", message |-> Nothing,
              plugin |-> 1, result |-> "none", told |-> <<>>, out |-> "none"]
    IN  /\ ncall[c] = NoNotifyCall
        /\ ncall' = [ncall EXCEPT ![c] = k]
        /\ UNCHANGED <<wiring, registry, stored>>
NotifyEnds(c) ==
    /\ NotifyAt(c, "returned")
    /\ ncall' = [ncall EXCEPT ![c] = NoNotifyCall]
    /\ UNCHANGED <<wiring, registry, stored>>

(* requireTemplateVersion; the canal of a kind is always there. *)
Version(template, kind) ==
    IF registry[template] = Nothing THEN Nothing ELSE registry[template][kind]
Resolve(c) ==
    LET k == ncall[c]
        message == Version(k.template, k.kind)
    IN  /\ NotifyAt(c, "resolve")
        /\ IF message = Nothing
           THEN NotifyAnswers(c, IF wiring.onError = "throw" THEN "threw" ELSE "done")
           ELSE ncall' = [ncall EXCEPT ![c].message = message,
                              ![c].at = IF Plugins = 0 THEN "deliver" ELSE "before"]
        /\ UNCHANGED <<wiring, registry, stored>>

Throws(plugin, phase) == phase \in wiring.plugins[plugin]

(* onSend of the next plugin, before or after the delivery.  The after phase is
   in a finally block: a plugin that throws there hides the outcome. *)
Before(c) ==
    LET k == ncall[c] IN
    /\ NotifyAt(c, "before")
    /\ IF Throws(k.plugin, "before") THEN NotifyAnswers(c, "threw")
       ELSE ncall' = [ncall EXCEPT
                ![c].at = IF k.plugin = Plugins THEN "deliver" ELSE "before",
                ![c].plugin = IF k.plugin = Plugins THEN 1 ELSE k.plugin + 1]
    /\ UNCHANGED <<wiring, registry, stored>>
AfterOnlyIfSentBug(c) ==
    LET k == ncall[c]
        told == Append(k.told, k.result)
        outcome == IF k.result = "error" /\ wiring.onError = "throw" THEN "threw" ELSE "done"
    IN  /\ NotifyAt(c, "after")
        /\ IF outcome = "threw" THEN NotifyAnswers(c, outcome)
           ELSE ncall' = [ncall EXCEPT ![c].told = told, ![c].plugin = k.plugin + 1,
                    ![c].at = IF k.plugin = Plugins THEN "returned" ELSE "after",
                    ![c].out = IF k.plugin = Plugins THEN outcome ELSE @]
        /\ UNCHANGED <<wiring, registry, stored>>
After(c) ==
    LET k == ncall[c]
        told == Append(k.told, k.result)
        outcome == IF k.result = "error" /\ wiring.onError = "throw" THEN "threw" ELSE "done"
    IN  /\ NotifyAt(c, "after")
        /\ IF Throws(k.plugin, "after")
           THEN ncall' = [ncall EXCEPT ![c].told = told, ![c].at = "returned", ![c].out = "threw"]
           ELSE ncall' = [ncall EXCEPT ![c].told = told, ![c].plugin = k.plugin + 1,
                    ![c].at = IF k.plugin = Plugins THEN "returned" ELSE "after",
                    ![c].out = IF k.plugin = Plugins THEN outcome ELSE @]
        /\ UNCHANGED <<wiring, registry, stored>>

(* canal.send: delivered, or rejected by the provider. *)
Deliver(c) ==
    /\ NotifyAt(c, "deliver")
    /\ \E result \in {"ok"} \cup IF wiring.fails THEN {"error"} ELSE {} :
           IF Plugins > 0 THEN ncall' = [ncall EXCEPT ![c].at = "after", ![c].result = result]
           ELSE ncall' = [ncall EXCEPT ![c].at = "returned", ![c].result = result,
                    ![c].out = IF result = "error" /\ wiring.onError = "throw"
                               THEN "threw" ELSE "done"]
    /\ UNCHANGED <<wiring, registry, stored>>

-----------------------------------------------------------------------------
(* createTemplate, updateTemplate and deleteTemplate: the repository is asked
   (repo/memory.ts), then the registry follows. *)
Refused(k) ==
    \/ k.op = "create" /\ stored[k.template] # Nothing
    \/ k.op = "update" /\ stored[k.template] = Nothing
AskRepo(c) ==
    LET k == ncall[c] IN
    /\ NotifyAt(c, "repo")
    /\ IF Refused(k) THEN NotifyAnswers(c, "threw") /\ UNCHANGED stored
       ELSE /\ stored' = [stored EXCEPT ![k.template] = k.versions]
            /\ ncall' = [ncall EXCEPT ![c].at = "register"]
    /\ UNCHANGED <<wiring, registry>>

(* An update of a template that is not in the registry leaves it out. *)
Register(c) ==
    LET k == ncall[c] IN
    /\ NotifyAt(c, "register")
    /\ registry' = IF k.op = "update" /\ registry[k.template] = Nothing THEN registry
                   ELSE [registry EXCEPT ![k.template] = k.versions]
    /\ NotifyAnswers(c, "done")
    /\ UNCHANGED <<wiring, stored>>

(* The repository rejects: what it stored is unknown, the registry stays. *)
RepoFails(c) ==
    LET k == ncall[c] IN
    /\ NotifyAt(c, "repo") /\ ~Refused(k) /\ wiring.fails
    /\ stored' \in {stored, [stored EXCEPT ![k.template] = k.versions]}
    /\ NotifyAnswers(c, "threw")
    /\ UNCHANGED <<wiring, registry>>

NotifyStep(c) ==
    \/ Resolve(c) \/ Before(c) \/ Deliver(c) \/ After(c)
    \/ AskRepo(c) \/ Register(c) \/ RepoFails(c)
=============================================================================
