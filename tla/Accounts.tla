------------------------------ MODULE Accounts ------------------------------
(***************************************************************************)
(* Clients of the users or of the preferences of an application: calls     *)
(* overlap, and connections break.  What they may rely on is stated with   *)
(* the history of the calls: which of them ran at the same time, and what  *)
(* the last one that ran alone has left.                                   *)
(***************************************************************************)
EXTENDS Users, Preference

CONSTANTS
    AccountPlans,       \* what is deployed, and what the clients do
    Unknown             \* no value is owed

ASSUME AccountsAssumption == Unknown # Null

VARIABLES
    account, acalls,    \* the plan, the calls begun
    raced,              \* emails that two calls named at the same time
    dropped, missed,    \* ids whose delete has returned; per call, before it began
    entry, owing,       \* per preference what the last call has left; per call
    tangled             \* preferences that two calls wrote at the same time
accountGhosts == <<raced, dropped, missed, entry, owing, tangled>>
accountVars == <<tableVars, ucall, pcall, account, acalls, accountGhosts>>

NoAccount == [service |-> "none"]
Prefs == IF account.service = "preferences" THEN account.actors \X account.keys ELSE {}
PrefsOf(k) ==
    IF k.op = "none" THEN {}
    ELSE IF k.op = "list" THEN {p \in Prefs : p[1] = k.actor}
    ELSE {<<k.actor, k.todo[i].key>> : i \in 1 .. Len(k.todo)}
Others(c) == Clients \ {c}
UserBusy(d) == ucall[d].at \notin {"idle", "returned"}
PrefBusy(d) == pcall[d].at \notin {"idle", "returned"}
Names(k) == IF k.op \in {"create", "update"} THEN {k.email} \ {Undefined} ELSE {}

AccountsInit ==
    /\ setup = NoAccount /\ table = {} /\ serial = 0
    /\ query = [c \in Clients |-> NoQuery]
    /\ ucall = [c \in Clients |-> NoUserCall] /\ pcall = [c \in Clients |-> NoPrefCall]
    /\ account = NoAccount /\ acalls = 0
    /\ raced = {} /\ dropped = {} /\ missed = [c \in Clients |-> {}]
    /\ entry = <<>> /\ owing = [c \in Clients |-> <<>>] /\ tangled = {}

AccountsDeploy ==
    /\ account = NoAccount
    /\ \E p \in AccountPlans :
           /\ account' = p /\ setup' = p.setup
           /\ entry' = IF p.service = "preferences"
                       THEN [pref \in p.actors \X p.keys |-> Null] ELSE <<>>
    /\ UNCHANGED <<table, serial, query, ucall, pcall, acalls, raced, dropped, missed,
                   owing, tangled>>

-----------------------------------------------------------------------------
(* Calls of the user service. *)

UserCalls(c) ==
    /\ account.service = "users" /\ acalls < account.calls
    /\ \E op \in account.ops :
           \E id \in IF op \in {"update", "delete", "findById"} THEN 1 .. serial ELSE {Undefined},
              email \in CASE op \in {"create", "findByEmail"} -> account.emails
                          [] op = "update" -> account.emails \cup {Undefined}
                          [] OTHER -> {Undefined} :
               UserStarts(c, op, id, email)
    /\ acalls' = acalls + 1
    /\ raced' = raced \cup UNION {Names(ucall[d]) \cap Names(ucall'[c]) :
                                     d \in {d \in Others(c) : UserBusy(d)}}
    /\ missed' = [missed EXCEPT ![c] = dropped]
    /\ UNCHANGED <<pcall, account, dropped, entry, owing, tangled>>

UserMoves(c) ==
    /\ UserStep(c)
    /\ dropped' = IF /\ ucall[c].op = "delete"
                     /\ ucall'[c].at = "returned" /\ ucall'[c].out = "done"
                  THEN dropped \cup {ucall[c].id} ELSE dropped
    /\ UNCHANGED <<pcall, account, acalls, raced, missed, entry, owing, tangled>>
UserLeaves(c) ==
    /\ UserEnds(c)
    /\ missed' = [missed EXCEPT ![c] = {}]
    /\ UNCHANGED <<pcall, account, acalls, raced, dropped, entry, owing, tangled>>

-----------------------------------------------------------------------------
(* Calls of the preference service. *)

Writing(d, pref) == PrefBusy(d) /\ pcall[d].op \in Writes /\ pref \in PrefsOf(pcall[d])

PrefCalls(c) ==
    /\ account.service = "preferences" /\ acalls < account.calls
    /\ \E op \in account.ops, actor \in account.actors :
           \E todo \in CASE op = "list" -> {<<>>}
                         [] op = "set" -> account.sets
                         [] OTHER -> {<<[key |-> key, value |-> Undefined]>> : key \in account.keys} :
               PrefStarts(c, op, actor, todo)
    /\ acalls' = acalls + 1
    /\ LET k == pcall'[c]
           touched == PrefsOf(k)
           near == {pref \in touched : \E d \in Others(c) : Writing(d, pref)}
       IN  /\ tangled' = IF k.op \in Writes THEN tangled \cup near ELSE tangled
           /\ owing' = [d \in Clients |->
                  IF d = c /\ k.op \notin Writes
                  THEN [pref \in touched |-> IF pref \in near THEN Unknown ELSE entry[pref]]
                  ELSE [pref \in DOMAIN owing[d] |->
                           IF k.op \in Writes /\ pref \in touched THEN Unknown ELSE owing[d][pref]]]
    /\ UNCHANGED <<ucall, account, raced, dropped, missed, entry>>

(* What a call that returns has left of the preferences it went through. *)
Left(k, pref) ==
    IF k.op = "reset" THEN Null
    ELSE LET i == CHOOSE i \in 1 .. Len(k.todo) : /\ k.todo[i].key = pref[2]
                                                  /\ \A j \in i + 1 .. Len(k.todo) :
                                                         k.todo[j].key # pref[2]
         IN  k.todo[i].value
PrefMoves(c) ==
    LET k == pcall[c] IN
    /\ PrefStep(c)
    /\ entry' =
           IF k.op \notin Writes \/ pcall'[c] = k THEN entry
           ELSE LET over == IF pcall'[c].at = "returned" /\ pcall'[c].out # "done"
                            THEN [k EXCEPT !.op = "unknown"] ELSE k
                    ended == IF pcall'[c].at = "returned" THEN PrefsOf(k)
                             ELSE PrefsOf(k) \ PrefsOf(pcall'[c])
                IN  [pref \in DOMAIN entry |->
                        IF pref \notin ended THEN entry[pref]
                        ELSE IF over.op = "unknown" THEN Unknown ELSE Left(k, pref)]
    /\ UNCHANGED <<ucall, account, acalls, raced, dropped, missed, owing, tangled>>
PrefLeaves(c) ==
    /\ PrefEnds(c)
    /\ owing' = [owing EXCEPT ![c] = <<>>]
    /\ UNCHANGED <<ucall, account, acalls, raced, dropped, missed, entry, tangled>>

AccountsNext ==
    \/ AccountsDeploy
    \/ \E c \in Clients :
           \/ UserCalls(c) \/ UserMoves(c) \/ UserLeaves(c)
           \/ PrefCalls(c) \/ PrefMoves(c) \/ PrefLeaves(c)
AccountsSpec == AccountsInit /\ [][AccountsNext]_accountVars

-----------------------------------------------------------------------------
(* create and update look for the email before they write it
   (createUserService.ts:46): two users that can be seen share one only when two
   calls named it at the same time, and never where the column is unique. *)
EmailOnce ==
    account.service = "users" =>
        \A row, other \in table :
            row.id # other.id /\ Visible(row) /\ Visible(other) /\ row.email = other.email
            => row.email \in raced /\ "email" \notin setup.unique

(* A user whose delete has returned is not answered, and not updated, by a call
   that begins later: the row may still be in the table. *)
DeletedUserGone == \A c \in Clients :
    ucall[c].at = "returned" /\ ucall[c].out = "done" =>
        \A row \in ucall[c].rows : row.id \notin missed[c]

(* The users an application sees through the service are those that live, one
   for an email. *)
UsersKept == EmailOnce /\ DeletedUserGone

(* Where eq does not match NULL, nothing that an actor without an organisation
   has stored is found again (createPreferenceService.ts:81,113). *)
FoundAgain(actor) == actor.org # NoOrg \/ setup.adapter \in {"memory", "prisma"}

(* get and list answer what the last call has left of a preference, the value it
   set or nothing, unless it failed or two calls wrote it at the same time: set
   finds, then creates or updates.  An actor that is not found again is answered
   the defaults for ever, whatever it has set. *)
PreferenceKept == \A c \in Clients :
    pcall[c].at = "returned" /\ pcall[c].out = "done" =>
        \A pref \in DOMAIN owing[c] :
            LET found == {row \in pcall[c].rows : row.key = pref[2]} IN
            /\ ~FoundAgain(pref[1]) => found = {}
            /\ FoundAgain(pref[1]) /\ pref \notin tangled /\ owing[c][pref] # Unknown =>
                   IF owing[c][pref] = Null THEN found = {}
                   ELSE found # {} /\ \A row \in found : row.value = owing[c][pref]
=============================================================================
