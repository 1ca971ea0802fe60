------------------------------ MODULE Waitlist ------------------------------
(***************************************************************************)
(* @justwant/waitlist: createWaitlistService and cleanupExpired over the   *)
(* memory or the db adapter, for one list, and the referral service that   *)
(* invite calls when one was given.  wcall[c] is the call caller c has in  *)
(* progress: a step is one call of the repository (of the table, under the *)
(* db adapter) and the code up to the next await.                          *)
(*                                                                         *)
(* An actor is a person and the organisation it acts within, Undefined for *)
(* none.  Its key is joined with ':' and split again, so that the key of a *)
(* person whose id holds a ':' reads as another's.  Time is the clock of   *)
(* the application in ticks of a millisecond: entries of one tick have the *)
(* same createdAt.                                                         *)
(***************************************************************************)
EXTENDS Rows, Sequences, SequencesExt

CONSTANTS
    Callers, Persons, Orgs,
    MayFail,
    Splits,         \* of a person with a ':' in its id: the actor its key reads as
    Never,          \* no expiresAt
    MaxTime         \* bound on the clock

(* No person and no organisation is undefined, or null. *)
ASSUME ActorAssumption == {Undefined, Null} \cap (Persons \cup Orgs) = {} /\ MaxTime \in Nat
ASSUME SplitsAssumption ==
    \E split \in SUBSET Persons : Splits \in [split -> [person : Persons, org : Orgs \cup {Undefined}]]

VARIABLES
    options,        \* [adapter : {"memory", "db"}, refers : BOOLEAN]
    entries, issued, now, wcall, offer, referrals, rcall

R == INSTANCE Referral

referralVars == <<offer, referrals, rcall>>
wvars == <<options, entries, issued, now, wcall>>

Times == 0 .. MaxTime
EntryRows ==
    [id : Nat, person : Persons, org : Orgs \cup {Null}, createdAt : Times,
     expiresAt : Times \cup {Never}, referredBy : Persons \cup {R!NoOne}]

Adders == {"subscribe", "subscribeMany", "invite"}
Leavers == {"unsubscribe", "unsubscribeMany"}
Many == {"subscribeMany", "unsubscribeMany", "cleanup"}

Idle == [op |-> "none", at |-> "idle"]
(* asOf is the Date the code took, read what findMany answered of the entries
   the call goes on to remove, target the row a delete is for. *)
Call(op, at, actors) ==
    [op |-> op, at |-> at, actors |-> actors, next |-> 1, inviter |-> R!NoOne,
     expires |-> Never, asOf |-> 0, read |-> {}, target |-> 0, out |-> "pending"]
CleanupCall == [Call("cleanup", "list", <<>>) EXCEPT !.asOf = now]

Starts(c, call) == wcall[c] = Idle /\ wcall' = [wcall EXCEPT ![c] = call]
InFlight(c) == wcall[c].at \notin {"idle", "returned"}
Takes(c) ==
    /\ wcall[c].at = "returned"
    /\ wcall' = [wcall EXCEPT ![c] = Idle]

Answers(c, out) ==
    wcall' = [wcall EXCEPT ![c] =
                  [Call(@.op, "returned", @.actors) EXCEPT !.asOf = wcall[c].asOf, !.out = out]]
(* An afterExecute hook may throw after the effect, and so may the store. *)
Returns(c, out) == Answers(c, out) \/ (MayFail /\ Answers(c, "threw"))
Goes(c, at) == wcall' = [wcall EXCEPT ![c].at = at]
Current(c) == wcall[c].actors[wcall[c].next]

ProceedsOnceBug(c, out) == Returns(c, out)   \* leaves the loop after one actor
(* The call is done with one actor: the next one of a bulk call, or return. *)
Proceeds(c, out) ==
    IF wcall[c].next < Len(wcall[c].actors)
    THEN wcall' = [wcall EXCEPT ![c].next = @ + 1,
                   ![c].at = IF wcall[c].op = "cleanup" THEN "remove" ELSE "find"]
    ELSE Returns(c, out)

-----------------------------------------------------------------------------
(* The two adapters. *)

Memory == options.adapter = "memory"
SameActor(row, actor) == row.person = actor.person /\ row.org = Stored(actor.org)
ActorOfBareBug(row) == [person |-> row.person, org |-> Undefined]
ActorOf(row) == [person |-> row.person, org |-> IF row.org = Null THEN Undefined ELSE row.org]

(* What the where clause of an actor matches: the memory adapter compares every
   field with ===, a table drops the undefined organisation. *)
MatchingLiveBug(actor) ==                    \* entries that have expired are skipped
    {row \in entries : SameActor(row, actor) /\ (row.expiresAt = Never \/ row.expiresAt >= now)}
Matching(actor) ==
    IF Memory THEN {row \in entries : SameActor(row, actor)}
    ELSE FindMany(entries, [person |-> actor.person, org |-> actor.org])

(* The entries an actor stands for: its own and, over a table, those of its
   person within any organisation when it is within none. *)
StandsFor(actor, row) ==
    /\ row.person = actor.person
    /\ row.org = Stored(actor.org) \/ (~Memory /\ actor.org = Undefined)

(* parseActorKey(actorKey(actor)): an id with a ':' is taken apart and, with an
   organisation after it, has too many parts. *)
Parses(actor) == actor.person \notin DOMAIN Splits \/ actor.org = Undefined
Parsed(actor) == IF actor.person \in DOMAIN Splits THEN Splits[actor.person] ELSE actor
Keyed(actor, row) == Parses(actor) /\ StandsFor(Parsed(actor), row)

(* Ascending createdAt.  The sort is stable, and the memory adapter keeps the
   order of insertion: only tables leave entries of one tick in any order. *)
Before(r1, r2) ==
    \/ r1.createdAt < r2.createdAt
    \/ Memory /\ r1.createdAt = r2.createdAt /\ r1.id < r2.id
Listings ==
    {s \in SetToSeqs(entries) : \A i, j \in DOMAIN s : i < j => ~Before(s[j], s[i])}

-----------------------------------------------------------------------------
(* subscribe, subscribeMany and invite. *)

FindStep(c, ops) == wcall[c].op \in ops /\ wcall[c].at = "find"

(* createdAt is taken when the repository is called, once findOne has answered;
   the memory adapter inserts at once, a table later. *)
SubscribeFind(c) ==
    /\ FindStep(c, Adders)
    /\ IF Matching(Current(c)) = {}
       THEN wcall' = [wcall EXCEPT ![c].at = "create", ![c].asOf = IF Memory THEN 0 ELSE now]
       ELSE IF wcall[c].op = "subscribeMany" THEN Proceeds(c, "done")
       ELSE Returns(c, "already")
    /\ UNCHANGED <<options, entries, issued, now, referralVars>>

NewEntry(c) ==
    [id |-> issued + 1, person |-> Current(c).person, org |-> Stored(Current(c).org),
     createdAt |-> IF Memory THEN now ELSE wcall[c].asOf,
     expiresAt |-> wcall[c].expires, referredBy |-> wcall[c].inviter]

SubscribeCreate(c) ==
    /\ wcall[c].op \in Adders /\ wcall[c].at = "create"
    /\ entries' = Create(entries, NewEntry(c))
    /\ issued' = issued + 1
    /\ Proceeds(c, "done")
    /\ UNCHANGED <<options, now, referralVars>>

(* invite starts with the referral, when there is a service for it, and throws
   what that throws. *)
BeginInvite(c, inviter, invitee) ==
    /\ Starts(c, [Call("invite", IF options.refers THEN "refer" ELSE "find", <<invitee>>)
                      EXCEPT !.inviter = inviter.person])
    /\ IF options.refers
       THEN R!Starts(c, R!Call("refer", "find", inviter.person, invitee.person, Undefined))
       ELSE UNCHANGED rcall
    /\ UNCHANGED <<options, entries, issued, now, offer, referrals>>

Referred(c) ==
    /\ wcall[c].at = "refer"
    /\ R!Takes(c)
    /\ IF R!Returned(c, "done") THEN Goes(c, "find")
       ELSE Answers(c, "threw")
    /\ UNCHANGED <<options, entries, issued, now, offer, referrals>>

-----------------------------------------------------------------------------
(* unsubscribe and unsubscribeMany find the entry first; pop and cleanup find  *)
(* entries of any actor; all of them remove by the key of the actor.           *)

UnsubscribeFind(c) ==
    /\ FindStep(c, Leavers)
    /\ IF Matching(Current(c)) # {} THEN Goes(c, "remove")
       ELSE IF wcall[c].op = "unsubscribeMany" THEN Proceeds(c, "done")
       ELSE Returns(c, "missing")
    /\ UNCHANGED <<options, entries, issued, now, referralVars>>

(* repo.unsubscribe parses the key of the actor, or throws: the memory adapter
   removes the first entry of that actor, the db adapter finds one and deletes
   it in a second call. *)
Sought(c) == Matching(Parsed(Current(c)))
SpliceFirst(c) ==
    \E row \in Sought(c) :
        /\ \A other \in Sought(c) : row.id <= other.id
        /\ entries' = Delete(entries, row.id)
        /\ Proceeds(c, "done")

FindToDelete(c) ==
    \E row \in Sought(c) :
        /\ wcall' = [wcall EXCEPT ![c].at = "delete", ![c].target = row.id]
        /\ UNCHANGED entries

RepoUnsubscribe(c) ==
    /\ wcall[c].at = "remove"
    /\ \/ ~Parses(Current(c)) /\ Answers(c, "threw") /\ UNCHANGED entries
       \/ /\ Parses(Current(c))
          /\ \/ Sought(c) = {} /\ Proceeds(c, "done") /\ UNCHANGED entries
             \/ Memory /\ SpliceFirst(c)
             \/ ~Memory /\ FindToDelete(c)
    /\ UNCHANGED <<options, issued, now, referralVars>>

DeleteRow(c) ==
    /\ wcall[c].at = "delete"
    /\ entries' = Delete(entries, wcall[c].target)
    /\ Proceeds(c, "done")
    /\ UNCHANGED <<options, issued, now, referralVars>>

(* findMany with a limit of 1; nothing to remove answers null. *)
PopLastBug(listing) == listing[Len(listing)]
PopFirst(listing) == listing[1]
PopRead(c) ==
    /\ wcall[c].op = "pop" /\ wcall[c].at = "list"
    /\ IF entries = {} THEN Returns(c, "done")
       ELSE \E listing \in Listings :
                wcall' = [wcall EXCEPT ![c].at = "remove", ![c].read = {PopFirst(listing)},
                          ![c].actors = <<ActorOf(PopFirst(listing))>>]
    /\ UNCHANGED <<options, entries, issued, now, referralVars>>

Expired(row, time) == row.expiresAt # Never /\ row.expiresAt < time
CleanupRead(c) ==
    /\ wcall[c].op = "cleanup" /\ wcall[c].at = "list"
    /\ LET due == {row \in entries : Expired(row, wcall[c].asOf)} IN
       IF due = {} THEN Returns(c, "done")
       ELSE \E order \in SetToSeqs(due) :
                wcall' = [wcall EXCEPT ![c].at = "remove", ![c].read = due,
                          ![c].actors = [i \in DOMAIN order |-> ActorOf(order[i])]]
    /\ UNCHANGED <<options, entries, issued, now, referralVars>>

-----------------------------------------------------------------------------
(* getPosition: the first entry of the actor in the whole list. *)
PositionIn(listing, actor) ==
    CHOOSE i \in DOMAIN listing :
        /\ SameActor(listing[i], actor)
        /\ \A j \in 1 .. i - 1 : ~SameActor(listing[j], actor)

Position(c) ==
    /\ wcall[c].op = "getPosition" /\ wcall[c].at = "list"
    /\ IF ~\E row \in entries : SameActor(row, Current(c)) THEN Returns(c, "missing")
       ELSE \E listing \in Listings :
                LET i == PositionIn(listing, Current(c))
                IN  wcall' = [wcall EXCEPT ![c].at = "returned", ![c].out = "done",
                              ![c].next = i, ![c].read = {listing[i]}]
    /\ UNCHANGED <<options, entries, issued, now, referralVars>>

(* The store rejects the call: nothing after it is done. *)
Rejected(c) ==
    /\ MayFail /\ InFlight(c) /\ wcall[c].at # "refer"
    /\ Answers(c, "threw")
    /\ UNCHANGED <<options, entries, issued, now, referralVars>>

ReferralServiceStep(c) == R!ReferralStep(c) /\ UNCHANGED wvars

WaitlistStep(c) ==
    \/ SubscribeFind(c) \/ SubscribeCreate(c) \/ Referred(c)
    \/ UnsubscribeFind(c) \/ RepoUnsubscribe(c) \/ DeleteRow(c)
    \/ PopRead(c) \/ CleanupRead(c) \/ Position(c)
    \/ Rejected(c)
    \/ ReferralServiceStep(c)

Tick ==
    /\ now < MaxTime
    /\ now' = now + 1
    /\ UNCHANGED <<options, entries, issued, wcall, referralVars>>

-----------------------------------------------------------------------------
(***************************************************************************)
(* The clients of one waitlist and its referral service.  A deployment     *)
(* says which calls each client makes, for which actors, over which        *)
(* adapter.  Calls of different clients interleave between their awaits.   *)
(***************************************************************************)

CONSTANT Deployments

VARIABLES
    plan,       \* the deployment, fixed from the start
    raced,      \* history: the persons two clients added at the same time
    mistaken,   \* history: the persons another entry was looked for instead of theirs
    contested,  \* history: the entries two pops had read at the same time
    handed,     \* history: the entries pop has answered, as long as any call sees them
    again,      \* history: those it has answered again, though not contested
    told,       \* history: the last position each client was told, and of what
    calm,       \* history: no call of the other kind overlapped this one
    coded       \* history: the codes that were handed out, with their persons

history == <<raced, mistaken, contested, handed, again, told, calm, coded>>
vars == <<wvars, referralVars, plan, history>>

NotTold == [id |-> 0, position |-> 0]

Init ==
    \E d \in Deployments :
        /\ plan = d
        /\ options = [adapter |-> d.adapter, refers |-> d.refers]
        /\ offer = d.offer
        /\ entries = {} /\ issued = 0 /\ now = 0 /\ referrals = {}
        /\ wcall = [c \in Callers |-> Idle] /\ rcall = [c \in Callers |-> R!Idle]
        /\ raced = {} /\ mistaken = {} /\ contested = {} /\ handed = {} /\ again = {} /\ coded = {}
        /\ told = [c \in Callers |-> NotTold]
        /\ calm = [c \in Callers |-> FALSE]

-----------------------------------------------------------------------------
(* The calls clients start. *)

May(c, op) == op \in plan.duty[c] /\ wcall[c] = Idle /\ rcall[c] = R!Idle

(* Entries the calls in progress may still create. *)
ToCome(call) == IF call.op \in Adders /\ call.at # "returned"
                THEN Len(call.actors) - call.next + 1 ELSE 0
Fits(n) == issued + n + MapThenSumSet(LAMBDA c : ToCome(wcall[c]), Callers) <= plan.room

OnlyCall == UNCHANGED <<options, entries, issued, now, referralVars>>

StartAdd(c) ==
    /\ \/ /\ May(c, "subscribe") /\ Fits(1)
          /\ \E actor \in plan.actors, expiry \in plan.expiries :
                 Starts(c, [Call("subscribe", "find", <<actor>>) EXCEPT !.expires = expiry])
       \/ /\ May(c, "subscribeMany") /\ Fits(Cardinality(plan.actors))
          /\ \E actors \in SetToSeqs(plan.actors) :
                 Starts(c, Call("subscribeMany", "find", actors))
    /\ OnlyCall

StartInvite(c) ==
    /\ May(c, "invite") /\ Fits(1)
    /\ \E inviter \in plan.actors, invitee \in plan.invitees : BeginInvite(c, inviter, invitee)

StartLeave(c) ==
    /\ \/ /\ May(c, "unsubscribe")
          /\ \E actor \in plan.actors : Starts(c, Call("unsubscribe", "find", <<actor>>))
       \/ /\ May(c, "unsubscribeMany")
          /\ \E actors \in SetToSeqs(plan.actors) :
                 Starts(c, Call("unsubscribeMany", "find", actors))
    /\ OnlyCall

StartList(c) ==
    /\ \/ May(c, "pop") /\ Starts(c, Call("pop", "list", <<>>))
       \/ May(c, "cleanup") /\ Starts(c, CleanupCall)
       \/ /\ May(c, "getPosition")
          /\ \E actor \in plan.actors : Starts(c, Call("getPosition", "list", <<actor>>))
    /\ OnlyCall

(* Codes are used as they were handed out. *)
StartReferral(c) ==
    /\ \/ /\ May(c, "refer")
          /\ \E referrer, recipient \in {a.person : a \in plan.actors},
                code \in {Undefined} \cup {pair[2] : pair \in coded} :
                 /\ code # Undefined => <<referrer, code>> \in coded
                 /\ R!Starts(c, R!Call("refer", "find", referrer, recipient, code))
       \/ /\ May(c, "resolve")
          /\ \E pair \in coded :
                 R!Starts(c, R!Call("resolve", "byCode", R!NoOne, R!NoOne, pair[2]))
    /\ UNCHANGED <<wvars, offer, referrals, coded>>

AskCode(c) ==
    /\ May(c, "code")
    /\ \E person \in {a.person : a \in plan.actors}, code \in R!Codes :
           R!CodeOf(person, code) /\ coded' = coded \cup {<<person, code>>}
    /\ UNCHANGED <<wvars, referralVars>>

Answered(c) ==
    \/ Takes(c) /\ OnlyCall
    \/ wcall[c] = Idle /\ R!Takes(c) /\ UNCHANGED <<wvars, offer, referrals>>

ClientStep(c) ==
    \/ AskCode(c)
    \/ StartReferral(c)
    \/ /\ StartAdd(c) \/ StartInvite(c) \/ StartLeave(c) \/ StartList(c) \/ Answered(c)
       /\ UNCHANGED coded

-----------------------------------------------------------------------------
(* The history. *)

Kind(call) ==
    IF call.op \in Adders THEN "adds"
    ELSE IF call.op \in Leavers \cup {"pop", "cleanup"} THEN "removes" ELSE "looks"

(* Persons two clients are about to add, or to refer, at the same time. *)
Adding(c) ==
    (IF wcall[c].at = "create" THEN {Current(c).person} ELSE {})
    \cup (IF rcall[c].at = "create" THEN {rcall[c].recipient} ELSE {})
(* A call is about to remove the entry of another actor than the one it is for. *)
Mistakes(c) ==
    \/ wcall[c].at = "remove" /\ Parsed(Current(c)) # Current(c)
    \/ /\ wcall[c].at = "delete"
       /\ \E row \in entries : row.id = wcall[c].target /\ ~SameActor(row, Current(c))
PoppedNow(c) ==
    IF wcall[c].op = "pop" /\ wcall[c].at \in {"remove", "delete"}
       /\ wcall'[c].at = "returned" /\ wcall'[c].out = "done"
    THEN wcall[c].read ELSE {}
ReadByPop(c) == IF wcall[c].op = "pop" /\ InFlight(c) THEN wcall[c].read ELSE {}

(* An entry that is neither in the table nor in the hands of a call is gone. *)
Reachable(row) == row \in entries \/ \E c \in Callers : row \in ReadByPop(c)

(* In a table a position may be undercut by an entry with an earlier createdAt
   that is not there yet, and entries of one tick may change places. *)
Settled(row) ==
    \/ Memory
    \/ /\ row.createdAt < now
       /\ \A other \in entries \ {row} : other.createdAt # row.createdAt
       /\ \A d \in Callers : wcall[d].at = "create" => wcall[d].asOf > row.createdAt

Pairs == {p \in Callers \X Callers : p[1] # p[2]}
Observe ==
    /\ raced' = raced \cup UNION {Adding(p[1])' \cap Adding(p[2])' : p \in Pairs}
    /\ mistaken' = mistaken \cup {Current(c).person' : c \in {d \in Callers : Mistakes(d)'}}
    /\ contested' = {row \in contested : Reachable(row)'} \cup
           UNION {ReadByPop(p[1])' \cap ReadByPop(p[2])' : p \in Pairs}
    /\ LET popped == UNION {PoppedNow(c) : c \in Callers} IN
           /\ handed' = {row \in handed \cup popped : Reachable(row)'}
           /\ again' = again \cup ((popped \cap handed) \ contested)
    /\ told' = [c \in Callers |->
           IF wcall[c].op = "getPosition" /\ wcall[c].at = "list" /\ wcall'[c].out = "done"
           THEN LET row == CHOOSE r \in wcall'[c].read : TRUE IN
                IF Settled(row) THEN [id |-> row.id, position |-> wcall'[c].next] ELSE NotTold
           ELSE told[c]]
    /\ calm' = [c \in Callers |->
           /\ wcall'[c] # Idle
           /\ wcall[c] = Idle \/ calm[c]
           /\ \A d \in Callers \ {c} :
                  ~InFlight(d)' \/ Kind(wcall'[d]) \in {"looks", Kind(wcall'[c])}]

TickWithin == now < plan.time /\ Tick

Next ==
    /\ \/ \E c \in Callers : ClientStep(c)
       \/ (TickWithin \/ \E c \in Callers : WaitlistStep(c)) /\ UNCHANGED coded
    /\ Observe
    /\ UNCHANGED plan

Spec == Init /\ [][Next]_vars

-----------------------------------------------------------------------------
TypeOK ==
    /\ options \in [adapter : {"memory", "db"}, refers : BOOLEAN]
    /\ entries \subseteq EntryRows /\ issued \in Nat /\ now \in Times
    /\ \A row \in entries : row.id \in 1 .. issued
    /\ referrals \subseteq R!ReferralRows
    /\ \A table \in {entries, referrals} : \A r1, r2 \in table : r1.id = r2.id => r1 = r2

(* An actor waits once, unless two calls were about to create its entry at the
   same time: findOne and create have an await between them
   (createWaitlistService.ts 164-183). *)
WaitsOnce ==
    \A r1, r2 \in entries :
        (r1.person = r2.person /\ r1.org = r2.org /\ r1 # r2) => r1.person \in raced

Muddled == raced \cup mistaken

(* What pop has handed out does not wait any more, and an entry is handed out by
   one pop only, unless two had read it at the same time
   (createWaitlistService.ts 277-287): pop removes by the key of the actor and
   not by the id it read, whatever others unsubscribe, clean up or subscribe
   again in between - as long as that key has led to no other entry. *)
HandedOnce ==
    /\ \A row \in again : row.person \in Muddled
    /\ \A row \in handed : row.person \in Muddled \/ row \notin entries

(* A subscription that answered, or said already, leaves an entry that stands for
   each actor; unsubscribe and its bulk form leave none of theirs; cleanupExpired
   leaves no entry that was expired when it began - if no call of the other kind
   overlapped and their keys have led to no other entry (api.mdx: the bulk
   calls silently skip, cleanup removes all). *)
CallsHonoured ==
    \A c \in Callers :
        LET k == wcall[c] IN
        (k.at = "returned" /\ calm[c] /\ k.out # "threw") =>
            /\ k.op \in Adders =>
                   \A i \in DOMAIN k.actors : \E row \in entries : StandsFor(k.actors[i], row)
            /\ k.op \in Leavers =>
                   \A i \in DOMAIN k.actors :
                       k.actors[i].person \in Muddled \/ ~\E row \in entries : SameActor(row, k.actors[i])
            /\ k.op = "cleanup" =>
                   \A row \in entries : row.person \in Muddled \/ ~Expired(row, k.asOf)

(* A removal takes an entry the key of its actor leads to, never one of another
   person's or of another organisation's (adapters/memory.ts 25-38, db.ts
   43-55): the actor asked for, or one whose entry pop or cleanupExpired has
   read.  Another than the entry read goes only when that one was removed
   meanwhile and its actor has subscribed again, or when the key was ambiguous:
   that of a person without an organisation, over a table, or with a ':'. *)
RemovesItsOwn ==
    [][\A c \in Callers : \A row \in entries \ entries' :
           wcall'[c] # wcall[c] =>
               \/ wcall[c].op \in Leavers /\ Keyed(Current(c), row)
               \/ row \in wcall[c].read
               \/ row.person \in raced
               \/ \E r \in wcall[c].read, org \in Orgs \cup {Undefined} :
                      /\ r.org = Stored(org) /\ Keyed([person |-> r.person, org |-> org], row)
                      /\ r \notin entries \/ r.person # row.person \/ r.org # row.org]_vars

NobodyOvertaken ==
    \A c \in Callers :
        \A listing \in Listings : \A i \in DOMAIN listing :
            (listing[i].id = told[c].id /\ listing[i].person \notin raced)
                => i <= told[c].position

(* First come, first served (positions.mdx 9-11, 75): as long as an entry waits,
   its position does not grow beyond what getPosition has said, and who was
   told to be first is popped next. *)
Fifo ==
    [][/\ NobodyOvertaken'
       /\ \A c, d \in Callers :
           (/\ wcall[c].op = "pop" /\ wcall[c].at = "list" /\ wcall'[c].at = "remove"
            /\ told[d].position = 1 /\ \E row \in entries : row.id = told[d].id)
               => \A row \in wcall'[c].read : row.id = told[d].id]_vars

(* An invited entry is backed by a referral of its inviter, and the referral
   service credits nobody else, although the two services are called one after
   the other and either may fail (createWaitlistService.ts 138-144). *)
InvitationsCredited ==
    options.refers =>
        \A row \in entries :
            row.referredBy # R!NoOne =>
                LET made == FindMany(referrals, [recipient |-> row.person]) IN
                /\ \E r \in made : r.referrer = row.referredBy
                /\ row.person \notin raced => \A r \in made : r.referrer = row.referredBy

(* A code that was handed out leads to the person it was made for, to one whose
   id it happens to be or, when the offer names no default type, to nobody yet;
   never to anybody else (createReferralService.ts 180-199). *)
CodesResolve ==
    \A c \in Callers :
        (rcall[c].op = "resolve" /\ R!Returned(c, "done")) =>
            \/ <<rcall[c].answer, rcall[c].code>> \in coded
            \/ rcall[c].answer.id = rcall[c].code
            \/ offer.type = Null /\ rcall[c].answer = R!NoOne

(* An actor has one place in the list, and loses it once. *)
ActorsOnce == TypeOK /\ WaitsOnce /\ HandedOnce

(* Invitations and codes lead to the person who made them. *)
InvitationsHonoured == InvitationsCredited /\ CodesResolve
=============================================================================
