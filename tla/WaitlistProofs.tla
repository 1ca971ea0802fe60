--------------------------- MODULE WaitlistProofs ---------------------------
(***************************************************************************)
(* What a waitlist promises while other calls go on, for every deployment  *)
(* of the kind it is meant for: an actor waits once and is handed out      *)
(* once, calls have the effect they answer, and invitations and codes lead *)
(* to the person who made them.                                            *)
(***************************************************************************)
EXTENDS Waitlist, SequenceTheorems, FiniteSetTheorems,
        WellFoundedInduction, TLAPS

(***************************************************************************)
(* The deployments, the types of the calls, and the invariants.            *)
(***************************************************************************)

Actors == [person : Persons, org : Orgs \cup {Undefined}]
ActorsOf(d) == d.actors \cup d.invitees
Explicit(d) ==
    /\ d.adapter \in {"memory", "db"} /\ d.refers \in BOOLEAN
    /\ ActorsOf(d) \subseteq Actors /\ IsFiniteSet(d.actors) /\ d.actors # {}
    /\ d.expiries \subseteq Times \cup {Never}

Ops == Adders \cup Leavers \cup {"pop", "cleanup", "getPosition"}
Stages == {"refer", "find", "create", "remove", "delete", "list", "returned"}
Outs == {"pending", "done", "already", "missing", "threw"}
WaitlistCalls ==
    [op : Ops, at : Stages, actors : Seq(Actors), next : Nat, inviter : Persons \cup {R!NoOne},
     expires : Times \cup {Never}, asOf : Times, read : SUBSET EntryRows, target : Nat, out : Outs]
ReferralCalls ==
    [op : {"refer", "resolve"}, at : {"find", "create", "byCode", "byReferrer", "returned"},
     referrer : Persons \cup {R!NoOne}, recipient : Persons \cup {R!NoOne},
     code : R!Codes \cup {Undefined},
     answer : Persons \cup {R!NoOne} \cup [type : {offer.type}, id : R!Codes \cup {Undefined}],
     out : Outs]

UniqueIds(table) == \A r1, r2 \in table : r1.id = r2.id => r1 = r2
StagesOf(op) ==
    IF op \in Adders THEN {"refer", "find", "create", "returned"}
    ELSE IF op \in Leavers THEN {"find", "remove", "delete", "returned"}
    ELSE IF op = "getPosition" THEN {"list", "returned"}
    ELSE {"list", "remove", "delete", "returned"}
(* The calls of caller c at its stages. *)
WDuty(c) ==
    LET k == wcall[c] IN
    k # Idle =>
        /\ k.at \in StagesOf(k.op)
        /\ \A i \in DOMAIN k.actors : k.actors[i] \in ActorsOf(plan)
        /\ k.at = "list" => k.next = 1 /\ k.read = {}
        /\ k.at = "list" => k.actors = <<>> \/ (k.op = "getPosition" /\ Len(k.actors) = 1)
        /\ k.op \in {"subscribe", "unsubscribe", "invite", "getPosition"} => Len(k.actors) = 1
        /\ k.at \notin {"list", "returned"} => k.next \in DOMAIN k.actors
        /\ k.op = "pop" /\ k.at \in {"remove", "delete"} =>
               \E row \in k.read : k.read = {row} /\ k.actors = <<ActorOf(row)>> /\ row.id <= issued
        /\ k.at = "refer" => k.op = "invite" /\ options.refers
        /\ k.op # "invite" => k.inviter = R!NoOne
RDuty(c) ==
    LET k == wcall[c]
        r == rcall[c]
    IN  /\ k.at = "refer" =>
               /\ r # R!Idle /\ r.op = "refer" /\ r.code = Undefined
               /\ r.referrer = k.inviter /\ r.recipient = k.actors[1].person
        /\ r.op = "refer" => r.referrer \in Persons /\ r.recipient \in Persons
        /\ r # R!Idle => r.at \in (IF r.op = "refer" THEN {"find", "create", "returned"}
                                   ELSE {"byCode", "byReferrer", "returned"})
        /\ k # Idle /\ k.at # "refer" => r = R!Idle
(* getPosition has answered a position, and the row that is there. *)
Placed(k) == k.op = "getPosition" /\ k.at = "returned" /\ k.out = "done"
TInv ==
    /\ plan \in Deployments
    /\ options = [adapter |-> plan.adapter, refers |-> plan.refers] /\ offer = plan.offer
    /\ TypeOK /\ IsFiniteSet(referrals) /\ IsFiniteSet(entries)
    /\ \A row \in entries : ActorOf(row) \in ActorsOf(plan)
    /\ DOMAIN wcall = Callers
    /\ \A c \in Callers : wcall[c] \in {Idle} \cup WaitlistCalls \/ Placed(wcall[c])
    /\ DOMAIN rcall = Callers /\ \A c \in Callers : rcall[c] \in {R!Idle} \cup ReferralCalls
    /\ \A c \in Callers : WDuty(c) /\ RDuty(c)
    /\ \A pair \in coded : pair[1] \in Persons /\ pair[2] \in R!Codes

(* An actor waits once. *)
Together == \A c, d \in Callers : c # d => Adding(c) \cap Adding(d) \subseteq raced
Noted == \A c \in Callers : Mistakes(c) => Current(c).person \in mistaken
WInv ==
    /\ WaitsOnce
    /\ Together
    /\ Noted
    /\ \A c \in Callers : wcall[c].at = "create" =>
           \A row \in entries : SameActor(row, Current(c)) => row.person \in raced

(* What pop hands out is gone. *)
Pops(c) == wcall[c].op = "pop" /\ wcall[c].at \in {"remove", "delete"}
HInv ==
    /\ HandedOnce
    /\ \A row \in handed : row \in EntryRows /\ row.id <= issued
    /\ \A c, d \in Callers : c # d => ReadByPop(c) \cap ReadByPop(d) \subseteq contested
    /\ \A c \in Callers : \A row \in ReadByPop(c) \cap handed :
           row \in contested \/ row.person \in Muddled
    /\ \A c \in Callers : Pops(c) /\ wcall[c].at = "delete" =>
           \A row \in wcall[c].read :
               row.person \in Muddled \/ row \notin entries \/ wcall[c].target = row.id

(* Calls have the effect they answer. *)
Waits(actor) == \E row \in entries : SameActor(row, actor)
Backed(actor) == \E row \in entries : StandsFor(actor, row)
Left(actor) == actor.person \in Muddled \/ ~Waits(actor)
Ended(k) == k.at = "returned" /\ k.out # "threw"
Targeted(c) ==
    LET k == wcall[c] IN
    k.at = "delete" =>
        \A row \in entries : SameActor(row, Current(c)) => row.person \in Muddled \/ row.id = k.target
Effected(c) ==
    LET k == wcall[c] IN
    /\ k.op \in Adders =>
           /\ Ended(k) => \A i \in DOMAIN k.actors : Backed(k.actors[i])
           /\ k.at # "returned" => \A i \in 1 .. k.next - 1 : Backed(k.actors[i])
    /\ k.op \in Leavers =>
           /\ Ended(k) => \A i \in DOMAIN k.actors : Left(k.actors[i])
           /\ k.at # "returned" => \A i \in 1 .. k.next - 1 : Left(k.actors[i])
           /\ Targeted(c)
    /\ k.op = "cleanup" =>
           /\ Ended(k) => \A row \in entries : row.person \in Muddled \/ ~Expired(row, k.asOf)
           /\ k.at \in {"remove", "delete"} =>
                  \A row \in entries :
                      \/ row.person \in Muddled \/ ~Expired(row, k.asOf)
                      \/ \E i \in k.next .. Len(k.actors) : SameActor(row, k.actors[i])
           /\ Targeted(c)
CInv ==
    /\ DOMAIN calm = Callers
    /\ \A c \in Callers : calm[c] =>
        /\ \A d \in Callers \ {c} : InFlight(d) => Kind(wcall[d]) \in {"looks", Kind(wcall[c])}
        /\ Effected(c)

(* What a call is about to remove the key of its actor leads to, and that is the
   actor it is for or one it read an entry of. *)
OwnTarget(c) ==
    wcall[c].at = "delete" =>
        /\ wcall[c].target <= issued
        /\ \A row \in entries : row.id = wcall[c].target => Keyed(Current(c), row)
OwnRead(c) ==
    wcall[c].op \in {"pop", "cleanup"} /\ wcall[c].at \in {"remove", "delete"} =>
        \A i \in DOMAIN wcall[c].actors :
            \E row \in wcall[c].read : wcall[c].actors[i] = ActorOf(row)
OInv == \A c \in Callers : OwnTarget(c) /\ OwnRead(c)

(* Invitations and codes.  Ids and generated codes are strings. *)
CodesNamed(d) ==
    /\ \A p \in Persons : p.id \notin {Undefined, Null}
    /\ d.offer.generator # Null =>
           \A p \in Persons : d.offer.generator[p] \notin {Undefined, Null}
IsReferred(referrer, recipient) ==
    \E r \in referrals : r.referrer = referrer /\ r.recipient = recipient
(* An invitation that goes on has its referral, one that is being made has
   found none: a person is referred once. *)
Invited(c) ==
    options.refers /\ wcall[c].op = "invite" /\ wcall[c].at \in {"find", "create"} =>
        IsReferred(wcall[c].inviter, Current(c).person)
Recorded(c) ==
    rcall[c].op = "refer" /\ R!Returned(c, "done") => IsReferred(rcall[c].referrer, rcall[c].recipient)
Alone(c) ==
    rcall[c].at = "create" =>
        \A r \in referrals : r.recipient = rcall[c].recipient => r.recipient \in raced
OnePerRecipient ==
    \A r1, r2 \in referrals : r1.recipient = r2.recipient /\ r1 # r2 => r1.recipient \in raced
IInv ==
    /\ InvitationsCredited
    /\ OnePerRecipient
    /\ \A c \in Callers : Invited(c) /\ Recorded(c) /\ Alone(c)
(* A code is its person's, and comes from one that was handed out. *)
CodeFor(person) == IF R!Generates THEN offer.generator[person] ELSE person.id
Issued == \A pair \in coded : /\ pair[1] \in Persons /\ pair = <<pair[1], pair[2]>>
                             /\ pair[2] = CodeFor(pair[1])
Vouched == \A r \in referrals : r.code # Null => <<r.referrer, r.code>> \in coded
Asked(c) ==
    /\ rcall[c].op = "refer" /\ rcall[c].code # Undefined =>
           <<rcall[c].referrer, rcall[c].code>> \in coded
    /\ rcall[c].op = "resolve" => \E p \in Persons : <<p, rcall[c].code>> \in coded
KInv ==
    /\ Issued /\ Vouched
    /\ \A c \in Callers : Asked(c)
    /\ CodesResolve
-----------------------------------------------------------------------------
(* Rows and actors. *)

(* An entry is its actor's. *)
LEMMA RowOfActor ==
    ASSUME NEW row \in EntryRows
    PROVE  ActorOf(row) \in Actors /\ SameActor(row, ActorOf(row))
BY ActorAssumption, RowsAssumption DEF EntryRows, Actors, ActorOf, SameActor, Stored

(* An actor's entry names the actor. *)
LEMMA ActorOfRow ==
    ASSUME NEW row \in EntryRows, NEW actor \in Actors, SameActor(row, actor)
    PROVE  ActorOf(row) = actor
BY ActorAssumption, RowsAssumption DEF EntryRows, Actors, ActorOf, SameActor, Stored

(* Entries of one actor have its person and its organisation. *)
LEMMA OneActor ==
    ASSUME NEW r1, NEW r2, NEW actor, SameActor(r1, actor), SameActor(r2, actor)
    PROVE  r1.person = r2.person /\ r1.org = r2.org /\ r1.person = actor.person
BY DEF SameActor

(* The where clause of an actor selects its entries, if not only those. *)
LEMMA MatchingHas ==
    ASSUME NEW actor \in Actors, entries \subseteq EntryRows
    PROVE  /\ Matching(actor) \subseteq entries
           /\ \A row \in Matching(actor) : row.person = actor.person
           /\ {row \in entries : SameActor(row, actor)} \subseteq Matching(actor)
<1>1. CASE Memory
  BY <1>1 DEF Matching, SameActor
<1>2. CASE ~Memory
  <2>0. actor.person \in Persons /\ actor.org \in Orgs \cup {Undefined}
    BY DEF Actors
  <2>1. actor.person # Undefined /\ actor.person # Null /\ actor.org # Null
    BY <2>0, ActorAssumption, RowsAssumption
  <2> DEFINE where == [person |-> actor.person, org |-> actor.org]
  <2>2. Matching(actor) = {row \in entries : Matches(row, where)}
    BY <1>2 DEF Matching, FindMany
  <2>3. DOMAIN where = {"person", "org"} /\ where["person"] = actor.person
        /\ where["org"] = actor.org
    OBVIOUS
  <2>4. \A row : Matches(row, where) <=> /\ row.person = actor.person
                                         /\ actor.org = Undefined \/ row.org = actor.org
    <3> HIDE DEF where
    <3> QED
      BY <2>1, <2>3 DEF Matches
  <2> QED
    BY <2>2, <2>4 DEF SameActor, Stored
<1> QED
  BY <1>1, <1>2

(* It selects those the actor stands for. *)
LEMMA MatchingIs ==
    ASSUME NEW actor \in Actors, entries \subseteq EntryRows
    PROVE  Matching(actor) = {row \in entries : StandsFor(actor, row)}
<1>0. actor.person \in Persons /\ actor.org \in Orgs \cup {Undefined}
  BY DEF Actors
<1>1. CASE Memory
  BY <1>1 DEF Matching, SameActor, StandsFor
<1>2. CASE ~Memory
  <2>2. actor.person # Undefined /\ actor.person # Null /\ actor.org # Null
    BY <1>0, ActorAssumption, RowsAssumption
  <2> DEFINE where == [person |-> actor.person, org |-> actor.org]
  <2>3. Matching(actor) = {row \in entries : Matches(row, where)}
    BY <1>2 DEF Matching, FindMany
  <2>4. DOMAIN where = {"person", "org"} /\ where["person"] = actor.person
        /\ where["org"] = actor.org
    OBVIOUS
  <2>5. \A row : Matches(row, where) <=> /\ row.person = actor.person
                                         /\ actor.org = Undefined \/ row.org = actor.org
    <3> HIDE DEF where
    <3> QED
      BY <2>2, <2>4 DEF Matches
  <2> HIDE DEF where
  <2> QED
    BY <1>2, <2>3, <2>5 DEF StandsFor, Stored
<1> QED
  BY <1>1, <1>2

(* An actor stands for its own entries, and its key is read as some actor. *)
LEMMA OwnStands ==
    ASSUME NEW row, NEW actor, SameActor(row, actor)
    PROVE  StandsFor(actor, row)
BY DEF SameActor, StandsFor

LEMMA ParsedActor ==
    ASSUME NEW actor \in Actors
    PROVE  Parsed(actor) \in Actors
<1>1. PICK split \in SUBSET Persons : Splits \in [split -> Actors]
  BY SplitsAssumption DEF Actors
<1> QED
  BY <1>1 DEF Parsed

(* A set in some order: each element once. *)
LEMMA Ordered ==
    ASSUME NEW S, IsFiniteSet(S), NEW s \in SetToSeqs(S)
    PROVE  /\ s \in Seq(S) /\ Len(s) = Cardinality(S) /\ Len(s) \in Nat
           /\ \A x \in S : \E i \in 1 .. Len(s) : s[i] = x
           /\ S # {} => Len(s) > 0
<1> DEFINE n == Cardinality(S)
<1>1. n \in Nat /\ (n = 0 <=> S = {})
  BY FS_CardinalityType, FS_EmptySet
<1>2. s \in [1 .. n -> S] /\ \A i, j \in 1 .. n : i # j => s[i] # s[j]
  BY DEF SetToSeqs
<1> HIDE DEF n
<1>3. s \in Seq(S) /\ Len(s) = n
  BY <1>1, <1>2
<1>4. s \in Injection(1 .. n, S)
  BY <1>2 DEF Injection, IsInjective
<1>5. Cardinality(1 .. n) = n
  BY <1>1, FS_Interval
<1>6. s \in Surjection(1 .. n, S)
  BY <1>4, <1>5, FS_Injection DEF n
<1>7. \A x \in S : \E i \in 1 .. n : s[i] = x
  BY <1>6 DEF Surjection
<1> QED
  BY <1>1, <1>3, <1>7 DEF n

(* A new id is no id in use. *)
LEMMA NewIdFresh ==
    ASSUME NEW used, IsFiniteSet(used)
    PROVE  R!NewId(used) \in Nat \ used
<1> DEFINE n == Cardinality(used)
           free == (1 .. n + 1) \ used
<1>1. n \in Nat
  BY FS_CardinalityType
<1>2. free # {}
  <2> SUFFICES ASSUME (1 .. n + 1) \subseteq used PROVE FALSE
    OBVIOUS
  <2>1. Cardinality(1 .. n + 1) = n + 1
    BY <1>1, FS_Interval
  <2>2. Cardinality(1 .. n + 1) <= n
    BY FS_Subset
  <2> QED
    BY <1>1, <2>1, <2>2
<1>3. free \subseteq Nat
  BY <1>1
<1> HIDE DEF free
<1> DEFINE Q == {ss \in Nat \X Nat : ss[1] < ss[2]}
<1>4. \E id \in free : \A other \in free : <<other, id>> \notin Q
  <2>1. IsWellFoundedOn(Q, Nat)
    BY NatLessThanWellFounded, Zenon DEF OpToRel
  <2> HIDE DEF Q
  <2> QED
    BY <1>2, <1>3, <2>1, WFMin
<1>5. \E id \in free : \A other \in free : id <= other
  <2>1. PICK id \in free : \A other \in free : <<other, id>> \notin Q
    BY <1>4
  <2>2. \A other \in free : other \in Nat /\ id \in Nat /\ ~(other < id)
    BY <1>3, <2>1
  <2> QED
    BY <2>2
<1>6. R!NewId(used) = CHOOSE id \in free : \A other \in free : id <= other
  <2>1. R!Cardinality(used) = Cardinality(used)
    BY DEF R!Cardinality, Cardinality
  <2> QED
    BY <2>1 DEF R!NewId, free
<1>7. R!NewId(used) \in free
  BY <1>5, <1>6
<1> QED
  BY <1>3, <1>7 DEF free

-----------------------------------------------------------------------------
(***************************************************************************)
(* The steps.  Callers take them one at a time.                            *)
(***************************************************************************)

Same == entries' = entries /\ issued' = issued
Settings == plan' = plan /\ options' = options /\ offer' = offer
Unreferring == referrals' = referrals /\ rcall' = rcall
OnlyOf(c) ==
    /\ DOMAIN wcall' = Callers /\ DOMAIN rcall' = Callers
    /\ \A d \in Callers \ {c} : wcall'[d] = wcall[d] /\ rcall'[d] = rcall[d]
OnlyCallOf(c) ==
    DOMAIN wcall' = Callers /\ \A d \in Callers \ {c} : wcall'[d] = wcall[d]
EndsAs(c, out) ==
    \E o \in {out, "threw"} :
        wcall'[c] = [Call(wcall[c].op, "returned", wcall[c].actors) EXCEPT
                         !.asOf = wcall[c].asOf, !.out = o]
LoopsAt(op) == IF op = "cleanup" THEN "remove" ELSE "find"
Advances(c) ==
    LET k == wcall[c] IN
    \/ /\ k.next < Len(k.actors)
       /\ wcall'[c] = [k EXCEPT !.next = @ + 1, !.at = LoopsAt(k.op)]
    \/ ~(k.next < Len(k.actors)) /\ EndsAs(c, "done")

(* A call that begins. *)
Fresh(k) ==
    /\ k \in WaitlistCalls /\ k.next = 1 /\ k.read = {} /\ k.target = 0 /\ k.out = "pending"
    /\ k.at = IF k.op \in Adders \cup Leavers THEN "find" ELSE "list"
    /\ \A i \in DOMAIN k.actors : k.actors[i] \in ActorsOf(plan)
    /\ IF k.op \in Adders \cup Leavers \cup {"getPosition"} THEN Len(k.actors) >= 1
       ELSE k.actors = <<>>
    /\ k.op \in {"subscribe", "unsubscribe", "invite", "getPosition"} => Len(k.actors) = 1
    /\ IF k.op = "invite" THEN k.inviter \in Persons ELSE k.inviter = R!NoOne
FreshInvitation(k) == [k EXCEPT !.at = "refer"]

Starting(c) ==
    /\ Same /\ Unreferring
    /\ wcall[c] = Idle /\ Fresh(wcall'[c]) /\ rcall[c] = R!Idle
    /\ wcall'[c].op = "invite" => ~options.refers
Taking(c) == Same /\ Unreferring /\ wcall[c].at = "returned" /\ wcall'[c] = Idle
Looking(c) ==
    LET k == wcall[c]
        some == Matching(Current(c)) # {}
    IN  /\ Same /\ Unreferring /\ k.at = "find" /\ k.op \in Adders \cup Leavers
        /\ \/ /\ k.op \in Adders /\ ~some
              /\ \E asOf \in Times : wcall'[c] = [k EXCEPT !.at = "create", !.asOf = asOf]
           \/ k.op \in Leavers /\ some /\ wcall'[c] = [k EXCEPT !.at = "remove"]
           \/ k.op = "subscribeMany" /\ some /\ Advances(c)
           \/ k.op \in Adders \ {"subscribeMany"} /\ some /\ EndsAs(c, "already")
           \/ k.op = "unsubscribeMany" /\ ~some /\ Advances(c)
           \/ k.op \in Leavers \ {"unsubscribeMany"} /\ ~some /\ EndsAs(c, "missing")
Targeting(c) ==
    LET k == wcall[c] IN
    /\ Same /\ Unreferring /\ k.at = "remove"
    /\ Parses(Current(c))
    /\ \/ Sought(c) = {} /\ Advances(c)
       \/ \E row \in Sought(c) : wcall'[c] = [k EXCEPT !.at = "delete", !.target = row.id]
Listing(c) ==
    LET k == wcall[c]
        due == {row \in entries : Expired(row, k.asOf)}
    IN  /\ Same /\ Unreferring /\ k.at = "list"
        /\ \/ k.op = "pop" /\ EndsAs(c, "done")
           \/ /\ k.op = "pop"
              /\ \E row \in entries :
                     wcall'[c] = [k EXCEPT !.at = "remove", !.read = {row}, !.actors = <<ActorOf(row)>>]
           \/ k.op = "cleanup" /\ due = {} /\ EndsAs(c, "done")
           \/ /\ k.op = "cleanup" /\ due # {}
              /\ \E order \in SetToSeqs(due) :
                     wcall'[c] = [k EXCEPT !.at = "remove", !.read = due,
                                      !.actors = [i \in DOMAIN order |-> ActorOf(order[i])]]
           \/ k.op = "getPosition" /\ EndsAs(c, "missing")
           \/ /\ k.op = "getPosition" /\ Placed(wcall'[c])
              /\ wcall'[c].actors = k.actors /\ wcall'[c].inviter = k.inviter
Throwing(c) ==
    Same /\ Unreferring /\ InFlight(c) /\ wcall[c].at # "refer" /\ EndsAs(c, "threw")

Creating(c) ==
    /\ Unreferring /\ wcall[c].op \in Adders /\ wcall[c].at = "create"
    /\ entries' = entries \cup {NewEntry(c)} /\ issued' = issued + 1
    /\ Advances(c)
Removing(c) ==
    /\ Unreferring /\ issued' = issued
    /\ \/ /\ wcall[c].at = "remove" /\ Memory /\ Parses(Current(c))
          /\ \E row \in Sought(c) : entries' = {r \in entries : r.id # row.id}
       \/ wcall[c].at = "delete" /\ entries' = {r \in entries : r.id # wcall[c].target}
    /\ Advances(c)

(* What happens to the referral service. *)
Inviting(c) ==
    /\ Same /\ referrals' = referrals /\ options.refers
    /\ wcall[c] = Idle /\ rcall[c] = R!Idle
    /\ \E k : /\ Fresh(k) /\ k.op = "invite" /\ wcall'[c] = FreshInvitation(k)
              /\ rcall'[c] = R!Call("refer", "find", k.inviter, k.actors[1].person, Undefined)
Referring(c) ==
    /\ Same /\ referrals' = referrals /\ rcall'[c] = R!Idle
    /\ wcall[c].at = "refer" /\ rcall[c].at = "returned"
    /\ \/ rcall[c].out = "done" /\ wcall'[c] = [wcall[c] EXCEPT !.at = "find"]
       \/ rcall[c].out # "done" /\ EndsAs(c, "threw")
AskingReferral(c) ==
    /\ Same /\ referrals' = referrals /\ wcall' = wcall
    /\ wcall[c] = Idle /\ rcall[c] = R!Idle
    /\ \/ \E referrer, recipient \in Persons, code \in R!Codes \cup {Undefined} :
              /\ code # Undefined => <<referrer, code>> \in coded
              /\ rcall'[c] = R!Call("refer", "find", referrer, recipient, code)
       \/ \E pair \in coded : rcall'[c] = R!Call("resolve", "byCode", R!NoOne, R!NoOne, pair[2])
TakingReferral(c) ==
    /\ Same /\ referrals' = referrals /\ wcall' = wcall
    /\ wcall[c] = Idle /\ rcall[c].at = "returned" /\ rcall'[c] = R!Idle
ReturnsReferral(c, out) ==
    \E o \in {out, "threw"} : rcall'[c] = [rcall[c] EXCEPT !.at = "returned", !.out = o]
AnswersReferral(c, person) ==
    rcall'[c] = [rcall[c] EXCEPT !.at = "returned", !.out = "done", !.answer = person]
ServingReferral(c) ==
    LET r == rcall[c]
        made == {row \in referrals : row.referrer.id = r.code}
    IN
    /\ Same /\ wcall' = wcall
    /\ \/ /\ referrals' = referrals /\ r.op = "refer" /\ r.at = "find"
          /\ \/ /\ \A row \in referrals : row.recipient # r.recipient
                /\ rcall'[c] = [r EXCEPT !.at = "create"]
             \/ ReturnsReferral(c, "already")
       \/ /\ r.op = "refer" /\ r.at = "create"
          /\ \E id \in Nat \ {row.id : row \in referrals} :
                 referrals' = referrals \cup {[id |-> id, referrer |-> r.referrer,
                                 recipient |-> r.recipient, code |-> Stored(r.code)]}
          /\ ReturnsReferral(c, "done")
       \/ /\ referrals' = referrals /\ r.op = "resolve" /\ r.at = "byCode"
          /\ \/ rcall'[c] = [r EXCEPT !.at = "byReferrer"]
             \/ \E row \in referrals : (r.code # Undefined => row.code = r.code)
                                       /\ AnswersReferral(c, row.referrer)
       \/ /\ referrals' = referrals /\ r.op = "resolve" /\ r.at = "byReferrer"
          /\ \/ \E row \in made : AnswersReferral(c, row.referrer)
             \/ made = {} /\ AnswersReferral(c, IF offer.type = Null THEN R!NoOne
                                              ELSE [type |-> offer.type, id |-> r.code])
       \/ /\ referrals' = referrals /\ R!InFlight(c) /\ ReturnsReferral(c, "threw")

Quiet(c) ==
    Starting(c) \/ Taking(c) \/ Looking(c) \/ Targeting(c) \/ Listing(c) \/ Throwing(c)
Serves(c) ==
    Inviting(c) \/ Referring(c) \/ AskingReferral(c) \/ TakingReferral(c) \/ ServingReferral(c)
Acts(c) ==
    /\ OnlyOf(c) /\ Settings /\ coded' = coded /\ now' = now
    /\ Quiet(c) \/ Creating(c) \/ Removing(c) \/ Serves(c)
Aside ==
    /\ Settings /\ Same /\ Unreferring /\ wcall' = wcall
    /\ now' \in Times
    /\ \A pair \in coded' :
           \/ pair \in coded
           \/ \E person \in Persons, code \in R!Codes :
                  R!CodeOf(person, code) /\ pair = <<person, code>>
    /\ coded \subseteq coded'

(* What an action does to the two records of its caller. *)
LEMMA AnswersEnds ==
    ASSUME DOMAIN wcall = Callers, NEW c \in Callers, NEW out,
           Answers(c, out) \/ Returns(c, out)
    PROVE  EndsAs(c, out) /\ OnlyCallOf(c)
BY DEF Answers, Returns, EndsAs, OnlyCallOf

LEMMA ProceedsAdvances ==
    ASSUME DOMAIN wcall = Callers, NEW c \in Callers, Proceeds(c, "done")
    PROVE  Advances(c) /\ OnlyCallOf(c)
<1> DEFINE k == wcall[c]
<1>1. CASE k.next < Len(k.actors)
  <2>1. wcall' = [wcall EXCEPT ![c].next = @ + 1, ![c].at = LoopsAt(k.op)]
    BY <1>1 DEF Proceeds, LoopsAt
  <2>2. wcall'[c] = [k EXCEPT !.next = @ + 1, !.at = LoopsAt(k.op)] /\ OnlyCallOf(c)
    BY <2>1 DEF OnlyCallOf
  <2> QED
    BY <1>1, <2>2 DEF Advances
<1>2. CASE ~(k.next < Len(k.actors))
  BY <1>2, AnswersEnds DEF Proceeds, Advances
<1> QED
  BY <1>1, <1>2

(* A bulk call over all actors of a deployment. *)
LEMMA AllInOrder ==
    ASSUME Explicit(plan), NEW actors \in SetToSeqs(plan.actors),
           NEW op \in {"subscribeMany", "unsubscribeMany"}
    PROVE  Fresh(Call(op, "find", actors))
<1>1. /\ IsFiniteSet(plan.actors) /\ plan.actors # {} /\ plan.actors \subseteq Actors
      /\ plan.actors \subseteq ActorsOf(plan) /\ 0 \in Times
  BY ActorAssumption DEF Explicit, ActorsOf, Times
<1>2. actors \in Seq(plan.actors) /\ Len(actors) \in Nat /\ Len(actors) > 0
  BY <1>1, Ordered
<1>3. actors \in Seq(Actors) /\ \A i \in DOMAIN actors : actors[i] \in ActorsOf(plan)
  BY <1>1, <1>2
<1>4. Call(op, "find", actors) \in WaitlistCalls
  BY <1>1, <1>3 DEF Call, WaitlistCalls, Ops, Stages, Outs, Adders, Leavers
<1> QED
  BY <1>1, <1>2, <1>3, <1>4 DEF Fresh, Call, Adders, Leavers

(* A call for one actor. *)
OneCall(op, at, actor, inviter, expires) ==
    [op |-> op, at |-> at, actors |-> <<actor>>, next |-> 1, inviter |-> inviter,
     expires |-> expires, asOf |-> 0, read |-> {}, target |-> 0, out |-> "pending"]
Singles == {"subscribe", "unsubscribe", "invite", "getPosition"}
LEMMA OneIsFresh ==
    ASSUME Explicit(plan), NEW actor \in ActorsOf(plan), NEW op \in Singles,
           NEW at, at = IF op = "getPosition" THEN "list" ELSE "find",
           NEW expires \in Times \cup {Never}, NEW inviter \in Persons \cup {R!NoOne},
           IF op = "invite" THEN inviter \in Persons ELSE inviter = R!NoOne
    PROVE  Fresh(OneCall(op, at, actor, inviter, expires))
<1> DEFINE one == <<actor>>
           k == OneCall(op, at, actor, inviter, expires)
<1>1. one \in Seq(Actors) /\ Len(one) = 1 /\ \A i \in DOMAIN one : one[i] \in ActorsOf(plan)
  BY DEF Explicit
<1>2. 0 \in Times /\ op \in Ops /\ at \in Stages /\ "pending" \in Outs /\ {} \in SUBSET EntryRows
  BY ActorAssumption DEF Times, Singles, Ops, Adders, Leavers, Stages, Outs
<1>3. /\ k.op = op /\ k.at = at /\ k.actors = one /\ k.next = 1 /\ k.read = {} /\ k.target = 0
      /\ k.out = "pending" /\ k.inviter = inviter
  BY DEF OneCall
<1>4. k \in WaitlistCalls
  <2> HIDE DEF one
  <2>1. k = [op |-> op, at |-> at, actors |-> one, next |-> 1, inviter |-> inviter,
             expires |-> expires, asOf |-> 0, read |-> {}, target |-> 0, out |-> "pending"]
    BY DEF OneCall, one
  <2> QED
    BY <1>1, <1>2, <2>1 DEF WaitlistCalls
<1>5. op \in Adders \cup Leavers \cup {"getPosition"}
      /\ at = IF op \in Adders \cup Leavers THEN "find" ELSE "list"
  BY DEF Singles, Adders, Leavers
<1>6. Len(one) >= 1
  BY <1>1
<1> HIDE DEF k, one
<1>7. k.at = IF k.op \in Adders \cup Leavers THEN "find" ELSE "list"
  BY <1>3, <1>5
<1>8. \A i \in DOMAIN k.actors : k.actors[i] \in ActorsOf(plan)
  BY <1>1, <1>3
<1>9. IF k.op \in Adders \cup Leavers \cup {"getPosition"} THEN Len(k.actors) >= 1
      ELSE k.actors = <<>>
  BY <1>3, <1>5, <1>6
<1>10. /\ k.op \in {"subscribe", "unsubscribe", "invite", "getPosition"} => Len(k.actors) = 1
       /\ IF k.op = "invite" THEN k.inviter \in Persons ELSE k.inviter = R!NoOne
  BY <1>1, <1>3
<1>11. k.next = 1 /\ k.read = {} /\ k.target = 0 /\ k.out = "pending"
  BY <1>3
<1>12. Fresh(k)
  BY <1>4, <1>7, <1>8, <1>9, <1>10, <1>11 DEF Fresh
<1> QED
  BY <1>12 DEF k

(* A call begins. *)
LEMMA StartsFresh ==
    ASSUME TInv, NEW c \in Callers, rcall[c] = R!Idle, OnlyCall,
           NEW k, Fresh(k), k.op # "invite" \/ ~options.refers, Starts(c, k)
    PROVE  Starting(c) /\ OnlyOf(c)
<1>1. /\ wcall[c] = Idle /\ wcall' = [wcall EXCEPT ![c] = k] /\ DOMAIN wcall = Callers
      /\ DOMAIN rcall = Callers
  BY DEF Starts, TInv
<1>2. wcall'[c] = k /\ Same /\ Unreferring /\ OnlyOf(c) /\ options' = options
  BY <1>1 DEF OnlyOf, OnlyCall, wvars, referralVars, Same, Unreferring
<1> QED
  BY <1>1, <1>2 DEF Starting

LEMMA AddingIsStarting ==
    ASSUME TInv, Explicit(plan), NEW c \in Callers, StartAdd(c)
    PROVE  Starting(c) /\ OnlyOf(c)
<1>0. rcall[c] = R!Idle /\ OnlyCall
  BY DEF StartAdd, May
<1>1. CASE \E actor \in plan.actors, expiry \in plan.expiries :
             Starts(c, [Call("subscribe", "find", <<actor>>) EXCEPT !.expires = expiry])
  <2>1. PICK actor \in plan.actors, expiry \in plan.expiries :
             Starts(c, [Call("subscribe", "find", <<actor>>) EXCEPT !.expires = expiry])
    BY <1>1
  <2>2. [Call("subscribe", "find", <<actor>>) EXCEPT !.expires = expiry]
        = OneCall("subscribe", "find", actor, R!NoOne, expiry)
    BY DEF Call, OneCall
  <2>3. actor \in ActorsOf(plan) /\ expiry \in Times \cup {Never}
    BY DEF Explicit, ActorsOf
  <2>4. Fresh(OneCall("subscribe", "find", actor, R!NoOne, expiry))
    BY <2>3, OneIsFresh DEF Singles
  <2>5. OneCall("subscribe", "find", actor, R!NoOne, expiry).op # "invite"
    BY DEF OneCall
  <2> QED
    BY <1>0, <2>1, <2>2, <2>4, <2>5, StartsFresh
<1>2. CASE \E actors \in SetToSeqs(plan.actors) :
             Starts(c, Call("subscribeMany", "find", actors))
  <2>1. PICK actors \in SetToSeqs(plan.actors) :
             Starts(c, Call("subscribeMany", "find", actors))
    BY <1>2
  <2>2. Fresh(Call("subscribeMany", "find", actors))
    BY AllInOrder
  <2>3. Call("subscribeMany", "find", actors).op # "invite"
    BY DEF Call
  <2> QED
    BY <1>0, <2>1, <2>2, <2>3, StartsFresh
<1> QED
  BY <1>1, <1>2, Zenon DEF StartAdd

LEMMA LeavingIsStarting ==
    ASSUME TInv, Explicit(plan), NEW c \in Callers, StartLeave(c)
    PROVE  Starting(c) /\ OnlyOf(c)
<1>0. rcall[c] = R!Idle /\ OnlyCall
  BY DEF StartLeave, May
<1>1. CASE \E actor \in plan.actors : Starts(c, Call("unsubscribe", "find", <<actor>>))
  <2>1. PICK actor \in plan.actors : Starts(c, Call("unsubscribe", "find", <<actor>>))
    BY <1>1
  <2>2. Call("unsubscribe", "find", <<actor>>)
        = OneCall("unsubscribe", "find", actor, R!NoOne, Never)
    BY DEF Call, OneCall
  <2>3. actor \in ActorsOf(plan)
    BY DEF ActorsOf
  <2>4. Fresh(OneCall("unsubscribe", "find", actor, R!NoOne, Never))
    BY <2>3, OneIsFresh DEF Singles
  <2>5. OneCall("unsubscribe", "find", actor, R!NoOne, Never).op # "invite"
    BY DEF OneCall
  <2> QED
    BY <1>0, <2>1, <2>2, <2>4, <2>5, StartsFresh
<1>2. CASE \E actors \in SetToSeqs(plan.actors) :
             Starts(c, Call("unsubscribeMany", "find", actors))
  <2>1. PICK actors \in SetToSeqs(plan.actors) :
             Starts(c, Call("unsubscribeMany", "find", actors))
    BY <1>2
  <2>2. Fresh(Call("unsubscribeMany", "find", actors))
    BY AllInOrder
  <2>3. Call("unsubscribeMany", "find", actors).op # "invite"
    BY DEF Call
  <2> QED
    BY <1>0, <2>1, <2>2, <2>3, StartsFresh
<1> QED
  BY <1>1, <1>2, Zenon DEF StartLeave

LEMMA ListingIsStarting ==
    ASSUME TInv, Explicit(plan), NEW c \in Callers, StartList(c)
    PROVE  Starting(c) /\ OnlyOf(c)
<1>0. rcall[c] = R!Idle /\ OnlyCall
  BY DEF StartList, May
<1>1. CASE \E actor \in plan.actors : Starts(c, Call("getPosition", "list", <<actor>>))
  <2>1. PICK actor \in plan.actors : Starts(c, Call("getPosition", "list", <<actor>>))
    BY <1>1
  <2>2. Call("getPosition", "list", <<actor>>)
        = OneCall("getPosition", "list", actor, R!NoOne, Never)
    BY DEF Call, OneCall
  <2>3. actor \in ActorsOf(plan)
    BY DEF ActorsOf
  <2>4. Fresh(OneCall("getPosition", "list", actor, R!NoOne, Never))
    BY <2>3, OneIsFresh DEF Singles
  <2>5. OneCall("getPosition", "list", actor, R!NoOne, Never).op # "invite"
    BY DEF OneCall
  <2> QED
    BY <1>0, <2>1, <2>2, <2>4, <2>5, StartsFresh
<1>2. ASSUME NEW op \in {"pop", "cleanup"}, NEW asOf \in Times,
             Starts(c, [Call(op, "list", <<>>) EXCEPT !.asOf = asOf])
      PROVE  Starting(c) /\ OnlyOf(c)
  <2> DEFINE none == <<>>
             k == [Call(op, "list", none) EXCEPT !.asOf = asOf]
  <2> HIDE DEF none
  <2>1. k = [op |-> op, at |-> "list", actors |-> none, next |-> 1, inviter |-> R!NoOne,
             expires |-> Never, asOf |-> asOf, read |-> {}, target |-> 0, out |-> "pending"]
    BY DEF Call
  <2>2. none \in Seq(Actors) /\ op \in Ops /\ \A i \in DOMAIN none : none[i] \in ActorsOf(plan)
    BY DEF Ops, none
  <2>3. k \in WaitlistCalls
    BY <2>1, <2>2 DEF WaitlistCalls, Stages, Outs
  <2>4. op \notin Adders \cup Leavers \cup {"getPosition"} /\ op # "invite"
    BY DEF Adders, Leavers
  <2>5. Fresh(k) /\ k.op # "invite"
    BY <2>1, <2>2, <2>3, <2>4 DEF Fresh, none
  <2> HIDE DEF k
  <2> QED
    BY <1>0, <1>2, <2>5, StartsFresh DEF k, none
<1>3. CASE Starts(c, Call("pop", "list", <<>>))
  <2>1. \A none : Call("pop", "list", none) = [Call("pop", "list", none) EXCEPT !.asOf = 0]
    BY DEF Call
  <2>2. 0 \in Times
    BY ActorAssumption DEF Times
  <2> QED
    BY <1>2, <1>3, <2>1, <2>2
<1>4. CASE Starts(c, CleanupCall)
  <2>1. now \in Times
    BY DEF TInv, TypeOK
  <2> QED
    BY <1>2, <1>4, <2>1 DEF CleanupCall
<1> QED
  BY <1>1, <1>3, <1>4, Zenon DEF StartList

LEMMA InvitingStarts ==
    ASSUME TInv, Explicit(plan), NEW c \in Callers, StartInvite(c), plan' = plan
    PROVE  (Starting(c) \/ Inviting(c)) /\ OnlyOf(c)
<1>1. wcall[c] = Idle /\ rcall[c] = R!Idle /\ DOMAIN wcall = Callers /\ DOMAIN rcall = Callers
  BY DEF StartInvite, May, TInv
<1>2. PICK inviter \in plan.actors, invitee \in plan.invitees : BeginInvite(c, inviter, invitee)
  BY Zenon DEF StartInvite
<1> DEFINE k == OneCall("invite", "find", invitee, inviter.person, Never)
<1>3. inviter \in Actors /\ invitee \in ActorsOf(plan)
  BY DEF Explicit, ActorsOf
<1>4. inviter.person \in Persons
  BY <1>3 DEF Actors
<1>5. Fresh(k) /\ k.op = "invite" /\ k.inviter = inviter.person /\ k.actors[1] = invitee
  <2>1. Fresh(k)
    BY <1>3, <1>4, OneIsFresh DEF Singles
  <2> QED
    BY <2>1 DEF OneCall
<1>6. Same /\ referrals' = referrals /\ options' = options
  BY <1>2, Zenon DEF BeginInvite, Same
<1>7. CASE options.refers
  <2>1. wcall' = [wcall EXCEPT ![c] = FreshInvitation(k)]
    <3>1. Starts(c, [Call("invite", "refer", <<invitee>>) EXCEPT !.inviter = inviter.person])
      BY <1>2, <1>7 DEF BeginInvite
    <3>2. [Call("invite", "refer", <<invitee>>) EXCEPT !.inviter = inviter.person]
          = FreshInvitation(k)
      BY DEF Call, FreshInvitation, OneCall
    <3> QED
      BY <3>1, <3>2 DEF Starts
  <2>2. rcall' = [rcall EXCEPT ![c] = R!Call("refer", "find", k.inviter, k.actors[1].person, Undefined)]
    <3>1. R!Starts(c, R!Call("refer", "find", inviter.person, invitee.person, Undefined))
      BY <1>2, <1>7, Zenon DEF BeginInvite
    <3> HIDE DEF k
    <3> QED
      BY <1>5, <3>1 DEF R!Starts
  <2> HIDE DEF k
  <2>3. wcall'[c] = FreshInvitation(k) /\ OnlyOf(c)
        /\ rcall'[c] = R!Call("refer", "find", k.inviter, k.actors[1].person, Undefined)
    BY <1>1, <2>1, <2>2 DEF OnlyOf
  <2> QED
    BY <1>1, <1>5, <1>6, <1>7, <2>3 DEF Inviting
<1>8. CASE ~options.refers
  <2>1. [Call("invite", "find", <<invitee>>) EXCEPT !.inviter = inviter.person] = k
    BY DEF Call, OneCall
  <2>2. Starts(c, k) /\ UNCHANGED rcall
    BY <1>2, <1>8, <2>1 DEF BeginInvite
  <2>3. OnlyCall
    BY <1>2, <2>2, Zenon DEF BeginInvite, OnlyCall, referralVars
  <2> HIDE DEF k
  <2> QED
    BY <1>1, <1>5, <1>8, <2>2, <2>3, StartsFresh
<1> QED
  BY <1>7, <1>8

LEMMA AnswersAreTaken ==
    ASSUME TInv, NEW c \in Callers, Answered(c)
    PROVE  (Taking(c) \/ TakingReferral(c)) /\ OnlyOf(c)
<1>1. DOMAIN wcall = Callers /\ DOMAIN rcall = Callers
  BY DEF TInv
<1>2. CASE Takes(c) /\ OnlyCall
  BY <1>1, <1>2 DEF Takes, Taking, OnlyOf, OnlyCall, referralVars, Same, Unreferring
<1>3. CASE wcall[c] = Idle /\ R!Takes(c) /\ UNCHANGED <<wvars, offer, referrals>>
  BY <1>1, <1>3 DEF R!Takes, TakingReferral, OnlyOf, wvars, Same
<1> QED
  BY <1>2, <1>3, Zenon DEF Answered

LEMMA ReferralsAreAsked ==
    ASSUME TInv, Explicit(plan), NEW c \in Callers, StartReferral(c)
    PROVE  AskingReferral(c) /\ OnlyOf(c)
<1>1. /\ DOMAIN wcall = Callers /\ DOMAIN rcall = Callers /\ wcall[c] = Idle /\ rcall[c] = R!Idle
      /\ wcall' = wcall /\ Same /\ referrals' = referrals
  BY DEF TInv, StartReferral, May, wvars, Same
<1>2. \A person \in {a.person : a \in plan.actors} : person \in Persons
  BY DEF Explicit, ActorsOf, Actors
<1>3. CASE \E referrer, recipient \in {a.person : a \in plan.actors},
              code \in {Undefined} \cup {pair[2] : pair \in coded} :
               /\ code # Undefined => <<referrer, code>> \in coded
               /\ R!Starts(c, R!Call("refer", "find", referrer, recipient, code))
  <2>1. PICK referrer \in {a.person : a \in plan.actors}, recipient \in {a.person : a \in plan.actors},
              code \in {Undefined} \cup {pair[2] : pair \in coded} :
               /\ code # Undefined => <<referrer, code>> \in coded
               /\ R!Starts(c, R!Call("refer", "find", referrer, recipient, code))
    BY <1>3
  <2> DEFINE k == R!Call("refer", "find", referrer, recipient, code)
  <2>2. referrer \in Persons /\ recipient \in Persons /\ code \in R!Codes \cup {Undefined}
    BY <1>2, Zenon DEF TInv
  <2> HIDE DEF k
  <2>3. rcall'[c] = k /\ OnlyOf(c)
    BY <1>1, <2>1 DEF R!Starts, OnlyOf, k
  <2> QED
    BY <1>1, <2>1, <2>2, <2>3 DEF AskingReferral, k
<1>4. CASE \E pair \in coded :
               R!Starts(c, R!Call("resolve", "byCode", R!NoOne, R!NoOne, pair[2]))
  BY <1>1, <1>4 DEF R!Starts, OnlyOf, AskingReferral
<1> QED
  BY <1>3, <1>4, Zenon DEF StartReferral

LEMMA FindsLook ==
    ASSUME TInv, NEW c \in Callers, SubscribeFind(c) \/ UnsubscribeFind(c)
    PROVE  Looking(c) /\ OnlyOf(c)
<1> DEFINE k == wcall[c]
           some == Matching(Current(c)) # {}
<1>1. DOMAIN wcall = Callers /\ DOMAIN rcall = Callers /\ 0 \in Times /\ now \in Times
  BY ActorAssumption DEF TInv, TypeOK, Times
<1>2. Same /\ Unreferring /\ k.at = "find" /\ k.op \in Adders \cup Leavers
  BY Zenon DEF SubscribeFind, UnsubscribeFind, FindStep, referralVars, Same, Unreferring
<1>3. OnlyCallOf(c) => OnlyOf(c)
  BY <1>1, <1>2 DEF OnlyCallOf, OnlyOf, Unreferring
<1>4. CASE k.op \in Adders /\ ~some
  <2>1. wcall' = [wcall EXCEPT ![c].at = "create", ![c].asOf = IF Memory THEN 0 ELSE now]
    BY <1>4 DEF SubscribeFind, UnsubscribeFind, FindStep, Adders, Leavers
  <2> DEFINE asOf == IF Memory THEN 0 ELSE now
  <2>2. asOf \in Times
    BY <1>1
  <2> HIDE DEF asOf
  <2>3. wcall' = [wcall EXCEPT ![c].at = "create", ![c].asOf = asOf]
    BY <2>1 DEF asOf
  <2>4. wcall'[c] = [k EXCEPT !.at = "create", !.asOf = asOf] /\ OnlyCallOf(c)
    BY <1>1, <2>3 DEF OnlyCallOf
  <2> QED
    BY <1>2, <1>3, <1>4, <2>2, <2>4, Zenon DEF Looking
<1>5. CASE k.op \in Leavers /\ some
  <2>1. Goes(c, "remove")
    BY <1>5 DEF SubscribeFind, UnsubscribeFind, FindStep, Adders, Leavers
  <2>2. wcall'[c] = [k EXCEPT !.at = "remove"] /\ OnlyCallOf(c)
    BY <1>1, <2>1 DEF Goes, OnlyCallOf
  <2> QED
    BY <1>2, <1>3, <1>5, <2>2, Zenon DEF Looking
<1>6. CASE k.op = "subscribeMany" /\ some
  <2>1. Proceeds(c, "done")
    BY <1>6 DEF SubscribeFind, UnsubscribeFind, FindStep, Adders, Leavers
  <2> QED
    BY <1>1, <1>2, <1>3, <1>6, <2>1, ProceedsAdvances, Zenon DEF Looking
<1>7. CASE k.op \in Adders \ {"subscribeMany"} /\ some
  <2>1. Returns(c, "already")
    BY <1>7 DEF SubscribeFind, UnsubscribeFind, FindStep, Adders, Leavers
  <2> QED
    BY <1>1, <1>2, <1>3, <1>7, <2>1, AnswersEnds, Zenon DEF Looking
<1>8. CASE k.op = "unsubscribeMany" /\ ~some
  <2>1. Proceeds(c, "done")
    BY <1>8 DEF SubscribeFind, UnsubscribeFind, FindStep, Adders, Leavers
  <2> QED
    BY <1>1, <1>2, <1>3, <1>8, <2>1, ProceedsAdvances, Zenon DEF Looking
<1>9. CASE k.op \in Leavers \ {"unsubscribeMany"} /\ ~some
  <2>1. Returns(c, "missing")
    BY <1>9 DEF SubscribeFind, UnsubscribeFind, FindStep, Adders, Leavers
  <2> QED
    BY <1>1, <1>2, <1>3, <1>9, <2>1, AnswersEnds, Zenon DEF Looking
<1> QED
  BY <1>2, <1>4, <1>5, <1>6, <1>7, <1>8, <1>9

LEMMA CreateCreates ==
    ASSUME TInv, NEW c \in Callers, SubscribeCreate(c)
    PROVE  Creating(c) /\ OnlyOf(c)
<1>1. DOMAIN wcall = Callers /\ DOMAIN rcall = Callers
  BY DEF TInv
<1>2. Proceeds(c, "done") /\ Unreferring /\ wcall[c].op \in Adders /\ wcall[c].at = "create"
      /\ issued' = issued + 1 /\ entries' = entries \cup {NewEntry(c)}
  BY Zenon DEF SubscribeCreate, referralVars, Unreferring, Create
<1>3. Advances(c) /\ OnlyCallOf(c)
  BY <1>1, <1>2, ProceedsAdvances
<1> QED
  BY <1>1, <1>2, <1>3 DEF Creating, OnlyOf, OnlyCallOf, Unreferring

LEMMA RepoUnsubscribes ==
    ASSUME TInv, NEW c \in Callers, RepoUnsubscribe(c)
    PROVE  (Targeting(c) \/ Removing(c) \/ Throwing(c)) /\ OnlyOf(c)
<1>1. DOMAIN wcall = Callers /\ DOMAIN rcall = Callers
  BY DEF TInv
<1>2. Unreferring /\ issued' = issued /\ wcall[c].at = "remove"
  BY Zenon DEF RepoUnsubscribe, referralVars, Unreferring
<1>6. CASE ~Parses(Current(c)) /\ Answers(c, "threw") /\ UNCHANGED entries
  <2>1. EndsAs(c, "threw") /\ OnlyCallOf(c)
    BY <1>1, <1>6, AnswersEnds
  <2>2. InFlight(c) /\ wcall[c].at # "refer"
    BY <1>2 DEF InFlight
  <2> QED
    BY <1>1, <1>2, <1>6, <2>1, <2>2 DEF Throwing, OnlyOf, OnlyCallOf, Unreferring, Same
<1>3. CASE Parses(Current(c)) /\ Sought(c) = {} /\ Proceeds(c, "done") /\ UNCHANGED entries
  <2>1. Advances(c) /\ OnlyCallOf(c)
    BY <1>1, <1>3, ProceedsAdvances
  <2> QED
    BY <1>1, <1>2, <1>3, <2>1 DEF Targeting, OnlyOf, OnlyCallOf, Unreferring, Same
<1>4. CASE Parses(Current(c)) /\ Memory /\ SpliceFirst(c)
  <2>1. PICK row \in Sought(c) : entries' = Delete(entries, row.id) /\ Proceeds(c, "done")
    BY <1>4, Zenon DEF SpliceFirst
  <2>2. Advances(c) /\ OnlyCallOf(c)
    BY <1>1, <2>1, ProceedsAdvances
  <2> QED
    BY <1>1, <1>2, <1>4, <2>1, <2>2 DEF Removing, OnlyOf, OnlyCallOf, Unreferring, Delete
<1>5. CASE Parses(Current(c)) /\ ~Memory /\ FindToDelete(c)
  <2>1. PICK row \in Sought(c) :
            wcall' = [wcall EXCEPT ![c].at = "delete", ![c].target = row.id] /\ UNCHANGED entries
    BY <1>5, Zenon DEF FindToDelete
  <2>2. wcall'[c] = [wcall[c] EXCEPT !.at = "delete", !.target = row.id] /\ OnlyCallOf(c)
    BY <1>1, <2>1 DEF OnlyCallOf
  <2>3. OnlyOf(c) /\ Same
    BY <1>1, <1>2, <2>1, <2>2 DEF OnlyOf, OnlyCallOf, Unreferring, Same
  <2> QED
    BY <1>2, <1>5, <2>1, <2>2, <2>3, Zenon DEF Targeting
<1> QED
  BY <1>3, <1>4, <1>5, <1>6, Zenon DEF RepoUnsubscribe

LEMMA DeleteRemoves ==
    ASSUME TInv, NEW c \in Callers, DeleteRow(c)
    PROVE  Removing(c) /\ OnlyOf(c)
<1>1. DOMAIN wcall = Callers /\ DOMAIN rcall = Callers
  BY DEF TInv
<1>2. Proceeds(c, "done") /\ Unreferring /\ wcall[c].at = "delete" /\ issued' = issued
      /\ entries' = Delete(entries, wcall[c].target)
  BY Zenon DEF DeleteRow, referralVars, Unreferring
<1>3. Advances(c) /\ OnlyCallOf(c)
  BY <1>1, <1>2, ProceedsAdvances
<1> QED
  BY <1>1, <1>2, <1>3 DEF Removing, OnlyOf, OnlyCallOf, Unreferring, Delete

LEMMA ReadsList ==
    ASSUME TInv, NEW c \in Callers, PopRead(c) \/ CleanupRead(c) \/ Position(c)
    PROVE  Listing(c) /\ OnlyOf(c)
<1> DEFINE k == wcall[c]
           due == {row \in entries : Expired(row, k.asOf)}
<1>2. Same /\ Unreferring /\ k.at = "list"
  BY Zenon DEF PopRead, CleanupRead, Position, referralVars, Same, Unreferring
<1>1. DOMAIN wcall = Callers /\ DOMAIN rcall = Callers /\ k # Idle
  BY <1>2 DEF TInv, Idle
<1>3. OnlyCallOf(c) => OnlyOf(c)
  BY <1>1, <1>2 DEF OnlyCallOf, OnlyOf, Unreferring
<1>4. CASE PopRead(c)
  <2>1. CASE entries = {}
    <3>1. Returns(c, "done") /\ k.op = "pop"
      BY <1>4, <2>1, Zenon DEF PopRead
    <3>2. EndsAs(c, "done") /\ OnlyCallOf(c)
      BY <1>1, <3>1, AnswersEnds
    <3> QED
      BY <1>2, <1>3, <3>1, <3>2, Zenon DEF Listing
  <2>2. CASE entries # {}
    <3>1. k.op = "pop"
          /\ \E listing \in Listings :
                wcall' = [wcall EXCEPT ![c].at = "remove", ![c].read = {PopFirst(listing)},
                          ![c].actors = <<ActorOf(PopFirst(listing))>>]
      BY <1>4, <2>2, Zenon DEF PopRead
    <3>2. PICK listing \in Listings :
                wcall' = [wcall EXCEPT ![c].at = "remove", ![c].read = {PopFirst(listing)},
                          ![c].actors = <<ActorOf(PopFirst(listing))>>]
      BY <3>1, Zenon
    <3>3. PopFirst(listing) \in entries
      <4>1. listing \in SetToSeqs(entries) /\ IsFiniteSet(entries)
        BY DEF Listings, TInv
      <4>2. \A x \in entries : \E i \in 1 .. Len(listing) : listing[i] = x
        BY <4>1, Ordered
      <4>3. listing \in Seq(entries) /\ Len(listing) \in Nat /\ Len(listing) > 0
        BY <2>2, <4>1, Ordered
      <4> QED
        BY <4>3 DEF PopFirst
    <3> DEFINE row == PopFirst(listing)
               actors == <<ActorOf(row)>>
    <3> HIDE DEF row, actors
    <3>4. wcall' = [wcall EXCEPT ![c].at = "remove", ![c].read = {row}, ![c].actors = actors]
      BY <3>2 DEF row, actors
    <3>5. wcall'[c] = [k EXCEPT !.at = "remove", !.read = {row}, !.actors = actors] /\ OnlyCallOf(c)
      BY <1>1, <3>4 DEF OnlyCallOf
    <3>6. row \in entries /\ wcall'[c] = [k EXCEPT !.at = "remove", !.read = {row}, !.actors = <<ActorOf(row)>>]
      BY <3>3, <3>5 DEF row, actors
    <3> QED
      BY <1>2, <1>3, <3>1, <3>5, <3>6, Zenon DEF Listing
  <2> QED
    BY <2>1, <2>2
<1>5. CASE CleanupRead(c)
  <2>1. k.op = "cleanup"
    BY <1>5, Zenon DEF CleanupRead
  <2>2. CASE due = {}
    <3>1. Returns(c, "done")
      BY <1>5, <2>2, Zenon DEF CleanupRead
    <3>2. EndsAs(c, "done") /\ OnlyCallOf(c)
      BY <1>1, <3>1, AnswersEnds
    <3> QED
      BY <1>2, <1>3, <2>1, <2>2, <3>2, Zenon DEF Listing
  <2>3. CASE due # {}
    <3>1. PICK order \in SetToSeqs(due) :
                wcall' = [wcall EXCEPT ![c].at = "remove", ![c].read = due,
                          ![c].actors = [i \in DOMAIN order |-> ActorOf(order[i])]]
      BY <1>5, <2>3, Zenon DEF CleanupRead
    <3> DEFINE actors == [i \in DOMAIN order |-> ActorOf(order[i])]
    <3> HIDE DEF due, actors
    <3>2. wcall' = [wcall EXCEPT ![c].at = "remove", ![c].read = due, ![c].actors = actors]
      BY <3>1 DEF actors
    <3>3. wcall'[c] = [k EXCEPT !.at = "remove", !.read = due, !.actors = actors] /\ OnlyCallOf(c)
      BY <1>1, <3>2 DEF OnlyCallOf
    <3>4. \E o \in SetToSeqs(due) :
              wcall'[c] = [k EXCEPT !.at = "remove", !.read = due,
                               !.actors = [i \in DOMAIN o |-> ActorOf(o[i])]]
      BY <3>3, Zenon DEF actors
    <3>5. OnlyOf(c)
      BY <1>3, <3>3
    <3> QED
      BY <1>2, <2>1, <2>3, <3>4, <3>5, Zenon DEF Listing, due
  <2> QED
    BY <2>2, <2>3
<1>6. CASE Position(c)
  <2>1. k.op = "getPosition"
    BY <1>6, Zenon DEF Position
  <2>2. CASE ~\E row \in entries : SameActor(row, Current(c))
    <3>1. Returns(c, "missing")
      BY <1>6, <2>2, Zenon DEF Position
    <3>2. EndsAs(c, "missing") /\ OnlyCallOf(c)
      BY <1>1, <3>1, AnswersEnds
    <3> QED
      BY <1>2, <1>3, <2>1, <3>2, Zenon DEF Listing
  <2>3. CASE \E row \in entries : SameActor(row, Current(c))
    <3>1. \E listing \in Listings :
                LET i == PositionIn(listing, Current(c))
                IN  wcall' = [wcall EXCEPT ![c].at = "returned", ![c].out = "done",
                              ![c].next = i, ![c].read = {listing[i]}]
      BY <1>6, <2>3, Zenon DEF Position
    <3>2. \E i, read : wcall' = [wcall EXCEPT ![c].at = "returned", ![c].out = "done",
                                     ![c].next = i, ![c].read = read]
      BY <3>1, Zenon
    <3>3. PICK i, read : wcall' = [wcall EXCEPT ![c].at = "returned", ![c].out = "done",
                                       ![c].next = i, ![c].read = read]
      BY <3>2, Zenon
    <3>4. k \in WaitlistCalls
      BY <1>1, <1>2 DEF TInv, Placed
    <3>5. wcall'[c] = [k EXCEPT !.at = "returned", !.out = "done", !.next = i, !.read = read]
          /\ OnlyCallOf(c)
      BY <1>1, <3>3 DEF OnlyCallOf
    <3>6. Placed(wcall'[c]) /\ wcall'[c].actors = k.actors /\ wcall'[c].inviter = k.inviter
      BY <2>1, <3>4, <3>5 DEF Placed, WaitlistCalls
    <3> QED
      BY <1>2, <1>3, <2>1, <3>5, <3>6, Zenon DEF Listing
  <2> QED
    BY <2>2, <2>3
<1> QED
  BY <1>4, <1>5, <1>6

LEMMA RejectedThrows ==
    ASSUME TInv, NEW c \in Callers, Rejected(c)
    PROVE  Throwing(c) /\ OnlyOf(c)
<1>1. DOMAIN wcall = Callers /\ DOMAIN rcall = Callers
  BY DEF TInv
<1>2. Answers(c, "threw") /\ Same /\ Unreferring /\ InFlight(c) /\ wcall[c].at # "refer"
  BY Zenon DEF Rejected, referralVars, Same, Unreferring
<1>3. EndsAs(c, "threw") /\ OnlyCallOf(c)
  BY <1>1, <1>2, AnswersEnds
<1>4. OnlyOf(c)
  BY <1>1, <1>2, <1>3 DEF OnlyOf, OnlyCallOf, Unreferring
<1> QED
  BY <1>2, <1>3, <1>4, Zenon DEF Throwing

LEMMA ReferredGoesOn ==
    ASSUME TInv, NEW c \in Callers, Referred(c)
    PROVE  Referring(c) /\ OnlyOf(c)
<1>1. DOMAIN wcall = Callers /\ DOMAIN rcall = Callers
  BY DEF TInv
<1>2. Same /\ referrals' = referrals /\ wcall[c].at = "refer" /\ R!Takes(c)
  BY Zenon DEF Referred, Same
<1>3. rcall[c].at = "returned" /\ rcall'[c] = R!Idle /\ DOMAIN rcall' = Callers
      /\ \A d \in Callers \ {c} : rcall'[d] = rcall[d]
  BY <1>1, <1>2 DEF R!Takes
<1>4. CASE R!Returned(c, "done")
  <2>1. Goes(c, "find") /\ rcall[c].out = "done"
    BY <1>4, Zenon DEF Referred, R!Returned
  <2>2. wcall'[c] = [wcall[c] EXCEPT !.at = "find"] /\ OnlyCallOf(c)
    BY <1>1, <2>1 DEF Goes, OnlyCallOf
  <2>3. OnlyOf(c)
    BY <1>3, <2>2 DEF OnlyOf, OnlyCallOf
  <2> QED
    BY <1>2, <1>3, <2>1, <2>2, <2>3, Zenon DEF Referring
<1>5. CASE ~R!Returned(c, "done")
  <2>1. Answers(c, "threw") /\ rcall[c].out # "done"
    BY <1>3, <1>5, Zenon DEF Referred, R!Returned
  <2>2. EndsAs(c, "threw") /\ OnlyCallOf(c)
    BY <1>1, <2>1, AnswersEnds
  <2>3. OnlyOf(c)
    BY <1>3, <2>2 DEF OnlyOf, OnlyCallOf
  <2> QED
    BY <1>2, <1>3, <2>1, <2>2, <2>3, Zenon DEF Referring
<1> QED
  BY <1>4, <1>5

LEMMA ServiceServes ==
    ASSUME TInv, NEW c \in Callers, R!ReferralStep(c), wcall' = wcall, Same
    PROVE  ServingReferral(c) /\ OnlyOf(c) /\ offer' = offer
<1> DEFINE r == rcall[c]
<1>1. DOMAIN wcall = Callers /\ DOMAIN rcall = Callers /\ IsFiniteSet(referrals)
      /\ (r.op = "refer" => r.recipient \in Persons)
  BY DEF TInv, RDuty
<1>2. ASSUME NEW out, R!Returns(c, out)
      PROVE  ReturnsReferral(c, out) /\ OnlyOf(c)
  BY <1>1, <1>2 DEF R!Returns, R!Outcomes, ReturnsReferral, OnlyOf
<1>3. ASSUME NEW person, R!Answers(c, person)
      PROVE  AnswersReferral(c, person) /\ OnlyOf(c)
  BY <1>1, <1>3 DEF R!Answers, AnswersReferral, OnlyOf
<1>4. ASSUME NEW at, R!Goes(c, at)
      PROVE  rcall'[c] = [r EXCEPT !.at = at] /\ OnlyOf(c)
  BY <1>1, <1>4 DEF R!Goes, OnlyOf
<1>5. CASE R!ReferFind(c)
  <2>1. r.op = "refer" /\ r.at = "find" /\ referrals' = referrals
    BY <1>5, Zenon DEF R!ReferFind, R!Doing
  <2>2. CASE R!FindsNone(referrals, [recipient |-> r.recipient])
    <3>1. R!Goes(c, "create")
      BY <1>5, <2>2, Zenon DEF R!ReferFind
    <3>2. \A row \in referrals : row.recipient # r.recipient
      <4>1. r.recipient # Null
        BY <1>1, <2>1, ActorAssumption
      <4> QED
        BY <2>2, <4>1 DEF R!FindsNone, R!FindMany, R!Matches
    <3> QED
      BY <1>4, <2>1, <3>1, <3>2, Zenon DEF ServingReferral, R!ReferralStep
  <2>3. CASE ~R!FindsNone(referrals, [recipient |-> r.recipient])
    <3>1. R!Returns(c, "already")
      BY <1>5, <2>3, Zenon DEF R!ReferFind
    <3> QED
      BY <1>2, <2>1, <3>1, Zenon DEF ServingReferral, R!ReferralStep
  <2> QED
    BY <2>2, <2>3
<1>6. CASE R!ReferCreate(c)
  <2>1. r.op = "refer" /\ r.at = "create" /\ R!Returns(c, "done")
    BY <1>6, Zenon DEF R!ReferCreate, R!Doing
  <2> DEFINE used == {row.id : row \in referrals}
             id == R!NewId(used)
  <2>2. IsFiniteSet(used)
    <3> DEFINE f == [row \in referrals |-> row.id]
    <3>1. f \in Surjection(referrals, used)
      BY DEF Surjection
    <3> HIDE DEF f, used
    <3> QED
      BY <1>1, <3>1, FS_Surjection
  <2>3. id \in Nat \ used
    <3> HIDE DEF used
    <3> QED
      BY <2>2, NewIdFresh
  <2>4. referrals' = referrals \cup {[id |-> id, referrer |-> r.referrer,
                                 recipient |-> r.recipient, code |-> Stored(r.code)]}
    BY <1>6, Zenon DEF R!ReferCreate, R!Create, R!Stored, Stored
  <2>5. ReturnsReferral(c, "done") /\ OnlyOf(c)
    BY <1>2, <2>1
  <2> HIDE DEF id
  <2> QED
    BY <2>1, <2>3, <2>4, <2>5, Zenon DEF ServingReferral, R!ReferralStep
<1>7. CASE R!ResolveByCode(c)
  <2>1. r.op = "resolve" /\ r.at = "byCode" /\ referrals' = referrals
    BY <1>7, Zenon DEF R!ResolveByCode, R!Doing
  <2>2. CASE R!Goes(c, "byReferrer")
    BY <1>4, <2>1, <2>2, Zenon DEF ServingReferral, R!ReferralStep
  <2>3. CASE \E row \in R!FindMany(referrals, [code |-> r.code]) : R!Answers(c, R!ToActor(row))
    <3>1. PICK row \in R!FindMany(referrals, [code |-> r.code]) : R!Answers(c, R!ToActor(row))
      BY <2>3
    <3>2. row \in referrals /\ (r.code # Undefined => row.code = r.code)
      BY DEF R!FindMany, R!Matches
    <3>3. R!Answers(c, row.referrer)
      BY <3>1, Zenon DEF R!ToActor
    <3>4. AnswersReferral(c, row.referrer) /\ OnlyOf(c)
      BY <1>3, <3>3
    <3> QED
      BY <2>1, <3>2, <3>4, Zenon DEF ServingReferral, R!ReferralStep
  <2> QED
    BY <1>7, <2>2, <2>3, Zenon DEF R!ResolveByCode
<1>8. CASE R!ResolveByReferrer(c)
  <2> DEFINE made == {row \in referrals : row.referrer.id = r.code}
  <2>1. r.op = "resolve" /\ r.at = "byReferrer" /\ referrals' = referrals
    BY <1>8, Zenon DEF R!ResolveByReferrer, R!Doing
  <2>2. CASE \E row \in made : R!Answers(c, R!ToActor(row))
    <3>1. PICK row \in made : R!Answers(c, R!ToActor(row))
      BY <2>2
    <3>2. AnswersReferral(c, row.referrer) /\ OnlyOf(c)
      BY <1>3, <3>1, Zenon DEF R!ToActor
    <3> QED
      BY <2>1, <3>2, Zenon DEF ServingReferral, R!ReferralStep
  <2>3. CASE /\ made = {}
             /\ R!Answers(c, IF offer.type = Null THEN R!NoOne
                             ELSE [type |-> offer.type, id |-> r.code])
    <3>1. AnswersReferral(c, IF offer.type = Null THEN R!NoOne
                             ELSE [type |-> offer.type, id |-> r.code]) /\ OnlyOf(c)
      BY <1>3, <2>3
    <3> QED
      BY <2>1, <2>3, <3>1, Zenon DEF ServingReferral, R!ReferralStep
  <2> QED
    BY <1>8, <2>2, <2>3, Zenon DEF R!ResolveByReferrer
<1>9. CASE R!Rejected(c)
  <2>1. R!InFlight(c) /\ referrals' = referrals
        /\ rcall' = [rcall EXCEPT ![c] = [@ EXCEPT !.at = "returned", !.out = "threw"]]
    BY <1>9, Zenon DEF R!Rejected
  <2>2. rcall'[c] = [r EXCEPT !.at = "returned", !.out = "threw"] /\ OnlyOf(c)
    BY <1>1, <2>1 DEF OnlyOf
  <2>3. ReturnsReferral(c, "threw")
    BY <2>2, Zenon DEF ReturnsReferral
  <2> QED
    BY <2>1, <2>2, <2>3, Zenon DEF ServingReferral, R!ReferralStep
<1> QED
  BY <1>5, <1>6, <1>7, <1>8, <1>9, Zenon DEF R!ReferralStep

(* Every step is a caller's, or the clock's, or a look at a code. *)
LEMMA CallerSteps ==
    ASSUME TInv, Explicit(plan), NEW c \in Callers, ClientStep(c), plan' = plan
    PROVE  Acts(c) \/ Aside
<1>1. CASE AskCode(c)
  <2>1. wcall' = wcall /\ now' = now /\ Same /\ Unreferring /\ options' = options /\ offer' = offer
        /\ now \in Times
    BY <1>1, Zenon DEF AskCode, wvars, referralVars, Same, Unreferring, TInv, TypeOK
  <2>2. PICK person \in {a.person : a \in plan.actors}, code \in R!Codes :
            R!CodeOf(person, code) /\ coded' = coded \cup {<<person, code>>}
    BY <1>1, Zenon DEF AskCode
  <2>3. person \in Persons
    BY DEF Explicit, ActorsOf, Actors
  <2>4. \A pair \in coded' : pair \in coded \/ pair = <<person, code>>
    BY <2>2
  <2>5. \A pair \in coded' :
           \/ pair \in coded
           \/ \E p \in Persons, k \in R!Codes : R!CodeOf(p, k) /\ pair = <<p, k>>
    BY <2>2, <2>3, <2>4, Zenon
  <2>6. coded \subseteq coded'
    BY <2>2
  <2> QED
    BY <2>1, <2>5, <2>6, Zenon DEF Aside, Settings
<1>2. CASE StartReferral(c)
  <2>1. AskingReferral(c) /\ OnlyOf(c)
    BY <1>2, ReferralsAreAsked
  <2>2. Settings /\ coded' = coded /\ now' = now
    BY <1>2, Zenon DEF StartReferral, Settings, wvars
  <2> QED
    BY <2>1, <2>2, Zenon DEF Acts, Serves
<1>3. CASE /\ StartAdd(c) \/ StartInvite(c) \/ StartLeave(c) \/ StartList(c) \/ Answered(c)
           /\ UNCHANGED coded
  <2>1. Settings /\ coded' = coded /\ now' = now
    BY <1>3, Zenon DEF StartAdd, StartInvite, BeginInvite, StartLeave, StartList, Answered, OnlyCall, Settings, wvars, referralVars
  <2>2. (Quiet(c) \/ Serves(c)) /\ OnlyOf(c)
    BY <1>3, AddingIsStarting, LeavingIsStarting, ListingIsStarting, InvitingStarts,
       AnswersAreTaken, Zenon DEF Quiet, Serves
  <2> QED
    BY <2>1, <2>2, Zenon DEF Acts
<1> QED
  BY <1>1, <1>2, <1>3, Zenon DEF ClientStep

LEMMA ServiceSteps ==
    ASSUME TInv, NEW c \in Callers, WaitlistStep(c), plan' = plan, coded' = coded
    PROVE  Acts(c)
<1>1. CASE ReferralServiceStep(c)
  <2>1. /\ R!ReferralStep(c) /\ wcall' = wcall /\ Same /\ now' = now /\ options' = options
    BY <1>1, Zenon DEF ReferralServiceStep, wvars, Same
  <2>2. ServingReferral(c) /\ OnlyOf(c) /\ offer' = offer
    BY <2>1, ServiceServes
  <2> QED
    BY <2>1, <2>2, Zenon DEF Acts, Serves, Settings
<1>2. CASE ~ReferralServiceStep(c)
  <2>1. now' = now /\ options' = options /\ offer' = offer
    BY <1>2, Zenon DEF WaitlistStep, SubscribeFind, SubscribeCreate, Referred, UnsubscribeFind,
       RepoUnsubscribe, DeleteRow, PopRead, CleanupRead, Position, Rejected, referralVars
  <2>2. OnlyOf(c) /\ (Quiet(c) \/ Creating(c) \/ Removing(c) \/ Serves(c))
    BY <1>2, FindsLook, CreateCreates, ReferredGoesOn, RepoUnsubscribes, DeleteRemoves, ReadsList,
       RejectedThrows, Zenon DEF WaitlistStep, Quiet, Serves
  <2> QED
    BY <2>1, <2>2, Zenon DEF Acts, Settings
<1> QED
  BY <1>1, <1>2

LEMMA Steps ==
    ASSUME TInv, Explicit(plan), Next
    PROVE  (\E c \in Callers : Acts(c)) \/ Aside
<1>1. CASE \E c \in Callers : ClientStep(c)
  BY <1>1, CallerSteps, Zenon DEF Next
<1>2. CASE (\E c \in Callers : WaitlistStep(c)) /\ UNCHANGED coded
  BY <1>2, ServiceSteps, Zenon DEF Next
<1>3. CASE TickWithin /\ UNCHANGED coded
  <2>1. now \in Times /\ MaxTime \in Nat /\ now < MaxTime /\ now' = now + 1
    BY <1>3, ActorAssumption DEF TickWithin, Tick, TInv, TypeOK
  <2>2. now' \in Times
    BY <2>1 DEF Times
  <2> QED
    BY <1>3, <2>2, Zenon DEF Next, TickWithin, Tick, Aside, Settings, Same, Unreferring, referralVars
<1> QED
  BY <1>1, <1>2, <1>3, Zenon DEF Next

-----------------------------------------------------------------------------
(***************************************************************************)
(* Types and duties.                                                       *)
(***************************************************************************)

(* A call in progress. *)
LEMMA Busy ==
    ASSUME TInv, NEW c \in Callers, wcall[c].at \in Stages \ {"returned"}
    PROVE  /\ wcall[c] \in WaitlistCalls /\ wcall[c] # Idle /\ WDuty(c) /\ RDuty(c)
           /\ wcall[c].at \in StagesOf(wcall[c].op) /\ wcall[c].op \in Ops
           /\ wcall[c].at # "list" => wcall[c].next \in DOMAIN wcall[c].actors
           /\ wcall[c].actors \in Seq(Actors) /\ wcall[c].next \in Nat
<1>1. wcall[c] # Idle
  BY DEF Idle, Stages
<1>2. ~Placed(wcall[c])
  BY DEF Placed
<1>3. wcall[c] \in WaitlistCalls
  BY <1>1, <1>2 DEF TInv
<1>4. WDuty(c) /\ RDuty(c)
  BY DEF TInv
<1>5. /\ wcall[c].at \in StagesOf(wcall[c].op)
      /\ wcall[c].at \notin {"list", "returned"} => wcall[c].next \in DOMAIN wcall[c].actors
  BY <1>1, <1>4, Zenon DEF WDuty
<1>6. wcall[c].actors \in Seq(Actors) /\ wcall[c].next \in Nat /\ wcall[c].op \in Ops
  BY <1>3 DEF WaitlistCalls
<1> QED
  BY <1>1, <1>3, <1>4, <1>5, <1>6

(* The actor the call is about. *)
LEMMA CurrentActor ==
    ASSUME TInv, Explicit(plan), NEW c \in Callers,
           wcall[c].at \in Stages \ {"list", "returned"}
    PROVE  Current(c) \in ActorsOf(plan) /\ Current(c) \in Actors
<1>1. WDuty(c) /\ wcall[c] # Idle /\ wcall[c].next \in DOMAIN wcall[c].actors
  BY Busy
<1>2. \A i \in DOMAIN wcall[c].actors : wcall[c].actors[i] \in ActorsOf(plan)
  BY <1>1, Zenon DEF WDuty
<1> QED
  BY <1>1, <1>2 DEF Current, Explicit

(* What the call is after it has ended, *)
LEMMA EndFields ==
    ASSUME NEW c \in Callers, wcall[c] \in WaitlistCalls, NEW out \in Outs, EndsAs(c, out)
    PROVE  /\ wcall'[c] \in WaitlistCalls /\ wcall'[c].at = "returned"
           /\ wcall'[c].op = wcall[c].op /\ wcall'[c].actors = wcall[c].actors
           /\ wcall'[c].asOf = wcall[c].asOf /\ wcall'[c].out \in {out, "threw"}
           /\ wcall'[c].inviter = R!NoOne /\ wcall'[c].next = 1 /\ wcall'[c].read = {}
<1> DEFINE k == wcall[c]
<1>1. PICK o \in {out, "threw"} :
          wcall'[c] = [Call(k.op, "returned", k.actors) EXCEPT !.asOf = k.asOf, !.out = o]
  BY Zenon DEF EndsAs
<1>2. k.op \in Ops /\ k.actors \in Seq(Actors) /\ k.asOf \in Times /\ 0 \in Times /\ o \in Outs
  BY ActorAssumption DEF WaitlistCalls, Times, Outs
<1>3. PICK n : n = wcall'[c]
  OBVIOUS
<1>4. n = [op |-> k.op, at |-> "returned", actors |-> k.actors, next |-> 1, inviter |-> R!NoOne,
           expires |-> Never, asOf |-> k.asOf, read |-> {}, target |-> 0, out |-> o]
  BY <1>1, <1>3 DEF Call
<1> HIDE DEF k
<1>5. n \in WaitlistCalls
  BY <1>2, <1>4 DEF WaitlistCalls, Stages
<1>6. /\ n.at = "returned" /\ n.op = k.op /\ n.actors = k.actors /\ n.asOf = k.asOf /\ n.out = o
      /\ n.inviter = R!NoOne /\ n.next = 1 /\ n.read = {}
  BY <1>4
<1> QED
  BY <1>3, <1>5, <1>6 DEF k

(* and after it is done with one actor. *)
LEMMA AdvanceFields ==
    ASSUME NEW c \in Callers, wcall[c] \in WaitlistCalls, Advances(c)
    PROVE  /\ wcall'[c] \in WaitlistCalls
           /\ wcall'[c].op = wcall[c].op /\ wcall'[c].actors = wcall[c].actors
           /\ wcall'[c].asOf = wcall[c].asOf
           /\ \/ /\ wcall[c].next < Len(wcall[c].actors)
                 /\ wcall'[c].at = LoopsAt(wcall[c].op)
                 /\ wcall'[c].next = wcall[c].next + 1
                 /\ wcall'[c].read = wcall[c].read /\ wcall'[c].inviter = wcall[c].inviter
              \/ /\ ~(wcall[c].next < Len(wcall[c].actors))
                 /\ wcall'[c].at = "returned" /\ wcall'[c].out \in {"done", "threw"}
                 /\ wcall'[c].inviter = R!NoOne /\ wcall'[c].next = 1 /\ wcall'[c].read = {}
<1> DEFINE k == wcall[c]
<1>1. CASE ~(k.next < Len(k.actors)) /\ EndsAs(c, "done")
  BY <1>1, EndFields DEF Outs
<1>2. CASE /\ k.next < Len(k.actors)
           /\ wcall'[c] = [k EXCEPT !.next = @ + 1, !.at = LoopsAt(k.op)]
  <2>1. PICK n : n = wcall'[c]
    OBVIOUS
  <2>2. LoopsAt(k.op) \in Stages /\ k.next + 1 \in Nat
    BY DEF LoopsAt, Stages, WaitlistCalls
  <2> DEFINE at == LoopsAt(k.op)
             next == k.next + 1
  <2>3. n = [k EXCEPT !.next = next, !.at = at]
    BY <1>2, <2>1
  <2> HIDE DEF at, next
  <2>4. n \in WaitlistCalls
    BY <2>2, <2>3 DEF WaitlistCalls, at, next
  <2>5. n.op = k.op /\ n.actors = k.actors /\ n.asOf = k.asOf /\ n.at = at /\ n.next = next
        /\ n.read = k.read /\ n.inviter = k.inviter
    BY <2>3 DEF WaitlistCalls
  <2> QED
    BY <1>2, <2>1, <2>4, <2>5 DEF at, next
<1> QED
  BY <1>1, <1>2, Zenon DEF Advances

(* Between two stages the call keeps what it is about. *)
Moves(c, at) ==
    LET k == wcall[c]
        n == wcall'[c]
    IN  /\ n \in WaitlistCalls /\ n.at = at
        /\ n.op = k.op /\ n.actors = k.actors /\ n.next = k.next /\ n.read = k.read
        /\ n.inviter = k.inviter /\ (at # "create" => n.asOf = k.asOf)

LEMMA LooksMove ==
    ASSUME TInv, NEW c \in Callers, Looking(c)
    PROVE  \/ wcall[c].op \in Adders /\ Matching(Current(c)) = {} /\ Moves(c, "create")
           \/ wcall[c].op \in Leavers /\ Matching(Current(c)) # {} /\ Moves(c, "remove")
           \/ wcall[c].op = "subscribeMany" /\ Matching(Current(c)) # {} /\ Advances(c)
           \/ wcall[c].op \in Adders \ {"subscribeMany"} /\ Matching(Current(c)) # {} /\ EndsAs(c, "already")
           \/ wcall[c].op = "unsubscribeMany" /\ Matching(Current(c)) = {} /\ Advances(c)
           \/ wcall[c].op \in Leavers \ {"unsubscribeMany"} /\ Matching(Current(c)) = {} /\ EndsAs(c, "missing")
<1> DEFINE k == wcall[c]
<1>0. k.at = "find"
  BY Zenon DEF Looking
<1>1. k \in WaitlistCalls
  BY <1>0, Busy DEF Stages
<1>2. ASSUME NEW asOf \in Times, wcall'[c] = [k EXCEPT !.at = "create", !.asOf = asOf]
      PROVE  Moves(c, "create")
  <2>1. PICK n : n = wcall'[c]
    OBVIOUS
  <2>2. n = [k EXCEPT !.at = "create", !.asOf = asOf]
    BY <1>2, <2>1
  <2>3. n \in WaitlistCalls /\ n.at = "create" /\ n.op = k.op /\ n.actors = k.actors
        /\ n.next = k.next /\ n.read = k.read /\ n.inviter = k.inviter
    BY <1>1, <2>2 DEF WaitlistCalls, Stages
  <2> QED
    BY <2>1, <2>3, Zenon DEF Moves
<1>3. ASSUME wcall'[c] = [k EXCEPT !.at = "remove"]
      PROVE  Moves(c, "remove")
  <2>1. PICK n : n = wcall'[c]
    OBVIOUS
  <2>2. n = [k EXCEPT !.at = "remove"]
    BY <1>3, <2>1
  <2>3. n \in WaitlistCalls /\ n.at = "remove" /\ n.op = k.op /\ n.actors = k.actors
        /\ n.next = k.next /\ n.read = k.read /\ n.inviter = k.inviter /\ n.asOf = k.asOf
    BY <1>1, <2>2 DEF WaitlistCalls, Stages
  <2> QED
    BY <2>1, <2>3, Zenon DEF Moves
<1> QED
  BY <1>2, <1>3, Zenon DEF Looking

LEMMA TargetsMove ==
    ASSUME TInv, Explicit(plan), NEW c \in Callers, Targeting(c)
    PROVE  \/ Sought(c) = {} /\ Advances(c)
           \/ \E row \in Sought(c) :
                  row \in entries /\ Moves(c, "delete") /\ wcall'[c].target = row.id
<1> DEFINE k == wcall[c]
<1>0. k.at = "remove"
  BY Zenon DEF Targeting
<1>1. k \in WaitlistCalls
  BY <1>0, Busy DEF Stages
<1>2. ASSUME NEW row \in Sought(c),
             wcall'[c] = [k EXCEPT !.at = "delete", !.target = row.id]
      PROVE  row \in entries /\ Moves(c, "delete") /\ wcall'[c].target = row.id
  <2>1. Current(c) \in Actors
    BY <1>0, CurrentActor DEF Stages
  <2>2. row \in entries
    BY <1>2, <2>1, ParsedActor, MatchingHas DEF TInv, TypeOK, Sought
  <2>3. row.id \in Nat
    BY <2>2 DEF TInv, TypeOK, EntryRows
  <2>4. PICK n : n = wcall'[c]
    OBVIOUS
  <2>5. n = [k EXCEPT !.at = "delete", !.target = row.id]
    BY <1>2, <2>4
  <2>6. n \in WaitlistCalls /\ n.at = "delete" /\ n.op = k.op /\ n.actors = k.actors
        /\ n.next = k.next /\ n.read = k.read /\ n.inviter = k.inviter /\ n.asOf = k.asOf
        /\ n.target = row.id
    BY <1>1, <2>3, <2>5 DEF WaitlistCalls, Stages
  <2> QED
    BY <2>2, <2>4, <2>6, Zenon DEF Moves
<1>3. CASE \E row \in Sought(c) :
               wcall'[c] = [k EXCEPT !.at = "delete", !.target = row.id]
  <2>1. PICK row \in Sought(c) :
               wcall'[c] = [k EXCEPT !.at = "delete", !.target = row.id]
    BY <1>3, Zenon
  <2>2. row \in entries /\ Moves(c, "delete") /\ wcall'[c].target = row.id
    BY <1>2, <2>1, Zenon
  <2> QED
    BY <2>2, Zenon
<1>4. Sought(c) = {} /\ Advances(c) => 
         \/ Sought(c) = {} /\ Advances(c)
         \/ \E row \in Sought(c) :
                  row \in entries /\ Moves(c, "delete") /\ wcall'[c].target = row.id
  OBVIOUS
<1> QED
  BY <1>3, <1>4, Zenon DEF Targeting

LEMMA MovesDuty ==
    ASSUME TInv, NEW c \in Callers, wcall[c].at \in Stages \ {"list", "returned"},
           NEW at \in {"find", "create", "remove", "delete"}, Moves(c, at),
           at \in StagesOf(wcall[c].op), plan' = plan, options' = options, Same
    PROVE  WDuty(c)'
<1> DEFINE k == wcall[c]
<1>1. k # Idle /\ WDuty(c) /\ k.at \in StagesOf(k.op) /\ k.op \in Ops
  BY Busy
<1>2. /\ \A i \in DOMAIN k.actors : k.actors[i] \in ActorsOf(plan)
      /\ k.op \in {"subscribe", "unsubscribe", "invite", "getPosition"} => Len(k.actors) = 1
      /\ k.next \in DOMAIN k.actors
      /\ k.op = "pop" /\ k.at \in {"remove", "delete"} =>
             \E row \in k.read : k.read = {row} /\ k.actors = <<ActorOf(row)>> /\ row.id <= issued
      /\ k.op # "invite" => k.inviter = R!NoOne
  BY <1>1, Busy, Zenon DEF WDuty
<1>3. k.op = "pop" => k.at \in {"remove", "delete"}
  BY <1>1 DEF StagesOf, Adders, Leavers
<1>4. issued' = issued
  BY DEF Same
<1>5. PICK n : n = wcall'[c]
  OBVIOUS
<1>6. n.at = at /\ n.op = k.op /\ n.actors = k.actors /\ n.next = k.next /\ n.read = k.read
      /\ n.inviter = k.inviter
  BY <1>5, Zenon DEF Moves
<1> HIDE DEF k
<1>7. /\ n.at \in StagesOf(n.op)
      /\ \A i \in DOMAIN n.actors : n.actors[i] \in ActorsOf(plan)
      /\ n.at # "list" /\ n.at # "refer"
      /\ n.op \in {"subscribe", "unsubscribe", "invite", "getPosition"} => Len(n.actors) = 1
      /\ n.at \notin {"list", "returned"} => n.next \in DOMAIN n.actors
      /\ n.op = "pop" /\ n.at \in {"remove", "delete"} =>
             \E row \in n.read : n.read = {row} /\ n.actors = <<ActorOf(row)>> /\ row.id <= issued
      /\ n.op # "invite" => n.inviter = R!NoOne
  BY <1>2, <1>3, <1>6 DEF k
<1> QED
  BY <1>4, <1>5, <1>7 DEF WDuty, ActorsOf

LEMMA EndsDuty ==
    ASSUME TInv, NEW c \in Callers, wcall[c].at \in Stages \ {"returned"},
           NEW out \in Outs, EndsAs(c, out), plan' = plan
    PROVE  WDuty(c)'
<1> DEFINE k == wcall[c]
<1>1. k # Idle /\ WDuty(c) /\ k.at \in StagesOf(k.op) /\ k.op \in Ops /\ k \in WaitlistCalls
  BY Busy
<1>2. /\ \A i \in DOMAIN k.actors : k.actors[i] \in ActorsOf(plan)
      /\ k.op \in {"subscribe", "unsubscribe", "invite", "getPosition"} => Len(k.actors) = 1
  BY <1>1, Zenon DEF WDuty
<1>3. PICK n : n = wcall'[c]
  OBVIOUS
<1>4. n.at = "returned" /\ n.op = k.op /\ n.actors = k.actors /\ n.inviter = R!NoOne
  BY <1>1, <1>3, EndFields
<1>5. n.at \in StagesOf(n.op)
  BY <1>4 DEF StagesOf
<1> HIDE DEF k
<1> QED
  BY <1>2, <1>3, <1>4, <1>5 DEF WDuty, ActorsOf

LEMMA AdvancesDuty ==
    ASSUME TInv, NEW c \in Callers, wcall[c].at \in Stages \ {"list", "returned"},
           Advances(c), plan' = plan
    PROVE  WDuty(c)'
<1> DEFINE k == wcall[c]
<1>1. k # Idle /\ WDuty(c) /\ k.at \in StagesOf(k.op) /\ k.op \in Ops /\ k \in WaitlistCalls
      /\ k.actors \in Seq(Actors) /\ k.next \in DOMAIN k.actors
  BY Busy
<1>2. CASE EndsAs(c, "done")
  BY <1>2, EndsDuty DEF Outs
<1>3. CASE k.next < Len(k.actors) /\ ~EndsAs(c, "done")
  <2>1. /\ \A i \in DOMAIN k.actors : k.actors[i] \in ActorsOf(plan)
        /\ k.op \in {"subscribe", "unsubscribe", "invite", "getPosition"} => Len(k.actors) = 1
        /\ k.op = "pop" /\ k.at \in {"remove", "delete"} =>
               \E row \in k.read : k.read = {row} /\ k.actors = <<ActorOf(row)>> /\ row.id <= issued
        /\ k.op # "invite" => k.inviter = R!NoOne
    BY <1>1, Zenon DEF WDuty
  <2>2. k.op = "pop" => k.at \in {"remove", "delete"}
    BY <1>1 DEF StagesOf, Adders, Leavers
  <2>3. k.op = "pop" => Len(k.actors) = 1
    BY <2>1, <2>2
  <2>4. k.op \in {"subscribeMany", "unsubscribeMany", "cleanup"}
    BY <1>1, <1>3, <2>1, <2>3 DEF Ops, Adders, Leavers
  <2>5. PICK n : n = wcall'[c]
    OBVIOUS
  <2>6. n.at = LoopsAt(k.op) /\ n.op = k.op /\ n.actors = k.actors /\ n.inviter = k.inviter
        /\ n.next = k.next + 1
    BY <1>1, <1>3, <2>5, AdvanceFields
  <2>7. n.at \in StagesOf(n.op) /\ n.at # "list" /\ n.at # "refer" /\ n.op # "pop"
    BY <2>4, <2>6 DEF StagesOf, LoopsAt, Adders, Leavers
  <2>8. n.next \in DOMAIN n.actors
    BY <1>1, <1>3, <2>6
  <2> HIDE DEF k
  <2> QED
    BY <2>1, <2>4, <2>5, <2>6, <2>7, <2>8 DEF WDuty, ActorsOf
<1> QED
  BY <1>2, <1>3, Zenon DEF Advances

LEMMA FreshDuty ==
    ASSUME NEW c \in Callers, Fresh(wcall'[c]), plan' = plan, wcall'[c].op \in Ops
    PROVE  WDuty(c)' /\ wcall'[c].at \in {"find", "list"}
<1>1. PICK n : n = wcall'[c]
  OBVIOUS
<1>2. /\ n \in WaitlistCalls /\ n.next = 1 /\ n.read = {}
      /\ n.at = IF n.op \in Adders \cup Leavers THEN "find" ELSE "list"
      /\ \A i \in DOMAIN n.actors : n.actors[i] \in ActorsOf(plan)
      /\ IF n.op \in Adders \cup Leavers \cup {"getPosition"} THEN Len(n.actors) >= 1
         ELSE n.actors = <<>>
      /\ n.op \in {"subscribe", "unsubscribe", "invite", "getPosition"} => Len(n.actors) = 1
      /\ n.op # "invite" => n.inviter = R!NoOne
  BY <1>1 DEF Fresh
<1>3. n.actors \in Seq(Actors) /\ n.op \in Ops
  BY <1>2 DEF WaitlistCalls
<1>4. n.at \in {"find", "list"} /\ n.at \in StagesOf(n.op)
      /\ (n.at = "list" => n.op \in {"pop", "cleanup", "getPosition"})
      /\ (n.at = "find" => n.op \in Adders \cup Leavers)
  BY <1>2, <1>3 DEF StagesOf, Ops, Adders, Leavers
<1>5. n.at = "list" => n.actors = <<>> \/ (n.op = "getPosition" /\ Len(n.actors) = 1)
  BY <1>2, <1>4 DEF Adders, Leavers
<1>6. n.at \notin {"list", "returned"} => n.next \in DOMAIN n.actors
  BY <1>2, <1>3, <1>4
<1> QED
  BY <1>1, <1>2, <1>4, <1>5, <1>6 DEF WDuty, ActorsOf

LEMMA ListsDuty ==
    ASSUME TInv, NEW c \in Callers, Listing(c), plan' = plan, options' = options
    PROVE  /\ wcall'[c] \in WaitlistCalls \/ Placed(wcall'[c])
           /\ WDuty(c)' /\ wcall'[c] # Idle
           /\ wcall'[c].at \in {"remove", "returned"} /\ wcall'[c].op = wcall[c].op
<1> DEFINE k == wcall[c]
           due == {row \in entries : Expired(row, k.asOf)}
<1>1. k.at = "list" /\ Same
  BY Zenon DEF Listing
<1>2. k \in WaitlistCalls /\ k # Idle /\ WDuty(c)
  BY <1>1, Busy DEF Stages
<1>3. /\ k.next = 1 /\ k.read = {}
      /\ k.op # "invite" => k.inviter = R!NoOne
      /\ \A i \in DOMAIN k.actors : k.actors[i] \in ActorsOf(plan)
      /\ k.op \in {"subscribe", "unsubscribe", "invite", "getPosition"} => Len(k.actors) = 1
  BY <1>1, <1>2, Zenon DEF WDuty
<1>4. entries \subseteq EntryRows /\ issued' = issued /\ IsFiniteSet(entries)
      /\ \A row \in entries : ActorOf(row) \in ActorsOf(plan) /\ row.id \in 1 .. issued
      /\ issued \in Nat
  BY <1>1 DEF TInv, TypeOK, Same
<1>5. ASSUME NEW out \in Outs, EndsAs(c, out)
      PROVE  wcall'[c] \in WaitlistCalls /\ WDuty(c)' /\ wcall'[c].at = "returned"
             /\ wcall'[c].op = k.op
  BY <1>1, <1>2, <1>5, EndFields, EndsDuty DEF Stages
<1>6. ASSUME NEW row \in entries, k.op = "pop",
             wcall'[c] = [k EXCEPT !.at = "remove", !.read = {row}, !.actors = <<ActorOf(row)>>]
      PROVE  wcall'[c] \in WaitlistCalls /\ WDuty(c)' /\ wcall'[c].at = "remove"
             /\ wcall'[c].op = k.op
  <2> DEFINE actors == <<ActorOf(row)>>
  <2>1. PICK n : n = wcall'[c]
    OBVIOUS
  <2>2. /\ actors \in Seq(Actors) /\ Len(actors) = 1 /\ actors[1] = ActorOf(row)
        /\ {row} \in SUBSET EntryRows /\ DOMAIN actors = {1} /\ row.id <= issued
    BY <1>4, RowOfActor
  <2>3. n = [k EXCEPT !.at = "remove", !.read = {row}, !.actors = actors]
    BY <1>6, <2>1
  <2>4. actors = <<ActorOf(row)>>
    OBVIOUS
  <2> HIDE DEF actors
  <2>5. n \in WaitlistCalls /\ n.at = "remove" /\ n.op = k.op /\ n.read = {row}
        /\ n.actors = actors /\ n.next = k.next /\ n.inviter = k.inviter
    BY <1>2, <2>2, <2>3 DEF WaitlistCalls, Stages
  <2> HIDE DEF k
  <2>6. /\ n.at \in StagesOf(n.op) /\ n.at \notin {"list", "refer"} /\ n.op # "invite"
        /\ n.op \notin {"subscribe", "unsubscribe", "invite", "getPosition"}
        /\ n.inviter = R!NoOne
    BY <1>3, <1>6, <2>5 DEF StagesOf, Adders, Leavers
  <2>7. \A i \in DOMAIN n.actors : n.actors[i] \in ActorsOf(plan)
    BY <1>4, <2>2, <2>5
  <2>8. n.next \in DOMAIN n.actors
    BY <1>3, <2>2, <2>5
  <2>9. \E r \in n.read : n.read = {r} /\ n.actors = <<ActorOf(r)>> /\ r.id <= issued
    BY <2>2, <2>4, <2>5
  <2> QED
    BY <1>4, <2>1, <2>5, <2>6, <2>7, <2>8, <2>9 DEF WDuty, ActorsOf
<1>7. ASSUME NEW order \in SetToSeqs(due), k.op = "cleanup", due # {},
             wcall'[c] = [k EXCEPT !.at = "remove", !.read = due,
                              !.actors = [i \in DOMAIN order |-> ActorOf(order[i])]]
      PROVE  wcall'[c] \in WaitlistCalls /\ WDuty(c)' /\ wcall'[c].at = "remove"
             /\ wcall'[c].op = k.op
  <2> DEFINE actors == [i \in DOMAIN order |-> ActorOf(order[i])]
  <2>1. PICK n : n = wcall'[c]
    OBVIOUS
  <2>2. IsFiniteSet(due) /\ due \subseteq entries
    BY <1>4, FS_Subset
  <2> HIDE DEF due
  <2>3. order \in Seq(due) /\ Len(order) \in Nat /\ Len(order) > 0
    BY <1>7, <2>2, Ordered
  <2>4. \A i \in 1 .. Len(order) : order[i] \in entries
    BY <2>2, <2>3
  <2>5. DOMAIN order = 1 .. Len(order)
    BY <2>3
  <2>6. \A i \in 1 .. Len(order) :
            ActorOf(order[i]) \in Actors /\ ActorOf(order[i]) \in ActorsOf(plan)
    BY <1>4, <2>4, RowOfActor
  <2>7. actors \in Seq(Actors) /\ DOMAIN actors = 1 .. Len(order) /\ due \in SUBSET EntryRows
    BY <1>4, <2>2, <2>3, <2>5, <2>6
  <2>8. \A i \in DOMAIN actors : actors[i] \in ActorsOf(plan)
    BY <2>5, <2>6
  <2> HIDE DEF actors
  <2>9. n = [k EXCEPT !.at = "remove", !.read = due, !.actors = actors]
    BY <1>7, <2>1 DEF actors
  <2>10. n \in WaitlistCalls /\ n.at = "remove" /\ n.op = k.op
        /\ n.actors = actors /\ n.next = k.next /\ n.inviter = k.inviter
    BY <1>2, <2>7, <2>9 DEF WaitlistCalls, Stages
  <2> HIDE DEF k
  <2>11. /\ n.at \in StagesOf(n.op) /\ n.at \notin {"list", "refer"} /\ n.op # "invite"
        /\ n.op \notin {"subscribe", "unsubscribe", "invite", "getPosition", "pop"}
        /\ n.inviter = R!NoOne
    BY <1>3, <1>7, <2>10 DEF StagesOf, Adders, Leavers
  <2>12. n.next \in DOMAIN n.actors
    BY <1>3, <2>3, <2>7, <2>10
  <2> QED
    BY <1>4, <2>1, <2>8, <2>10, <2>11, <2>12 DEF WDuty, ActorsOf
<1>8. ASSUME k.op = "getPosition", Placed(wcall'[c]), wcall'[c].actors = k.actors,
             wcall'[c].inviter = k.inviter
      PROVE  WDuty(c)' /\ wcall'[c].at = "returned" /\ wcall'[c].op = k.op
  <2>1. PICK n : n = wcall'[c]
    OBVIOUS
  <2>2. n.at = "returned" /\ n.op = "getPosition" /\ n.actors = k.actors /\ n.inviter = R!NoOne
    BY <1>3, <1>8, <2>1 DEF Placed
  <2>3. n.at \in StagesOf(n.op)
    BY <2>2 DEF StagesOf
  <2> HIDE DEF k
  <2> QED
    BY <1>3, <1>8, <2>1, <2>2, <2>3 DEF WDuty, ActorsOf
<1>9. /\ wcall'[c] \in WaitlistCalls \/ Placed(wcall'[c])
      /\ WDuty(c)' /\ wcall'[c].at \in {"remove", "returned"} /\ wcall'[c].op = k.op
  <2>1. "done" \in Outs /\ "missing" \in Outs
    BY DEF Outs
  <2>2. CASE k.op = "pop" /\ \E row \in entries :
                     wcall'[c] = [k EXCEPT !.at = "remove", !.read = {row}, !.actors = <<ActorOf(row)>>]
    BY <1>6, <2>2, Zenon
  <2>3. CASE k.op = "cleanup" /\ due # {} /\ \E order \in SetToSeqs(due) :
                     wcall'[c] = [k EXCEPT !.at = "remove", !.read = due,
                                      !.actors = [i \in DOMAIN order |-> ActorOf(order[i])]]
    BY <1>7, <2>3, Zenon
  <2>4. CASE EndsAs(c, "done") \/ EndsAs(c, "missing")
    BY <1>5, <2>1, <2>4
  <2>5. CASE k.op = "getPosition" /\ Placed(wcall'[c])
             /\ wcall'[c].actors = k.actors /\ wcall'[c].inviter = k.inviter
    BY <1>8, <2>5
  <2> QED
    BY <2>2, <2>3, <2>4, <2>5, Zenon DEF Listing
<1>10. wcall'[c] # Idle
  <2>1. Idle.at = "idle"
    BY DEF Idle
  <2> QED
    BY <1>9, <2>1
<1> QED
  BY <1>9, <1>10

(* A caller's records after its step. *)
WTyped(c) ==
    /\ wcall'[c] \in {Idle} \cup WaitlistCalls \/ Placed(wcall'[c])
    /\ WDuty(c)'
RTyped(c) == rcall'[c] \in {R!Idle} \cup ReferralCalls /\ RDuty(c)'

LEMMA QuietRefers ==
    ASSUME TInv, NEW c \in Callers, rcall' = rcall,
           \/ wcall[c].at \notin {"refer", "idle"}
           \/ rcall[c] = R!Idle,
           wcall'[c].at # "refer", wcall[c] # Idle \/ rcall[c] = R!Idle
    PROVE  RTyped(c)
<1>1. RDuty(c) /\ rcall[c] \in {R!Idle} \cup ReferralCalls
  BY DEF TInv
<1>2. wcall[c].at # "refer" /\ wcall[c] # Idle => rcall[c] = R!Idle
  BY <1>1, Zenon DEF RDuty
<1>3. rcall[c] = R!Idle
  BY <1>2 DEF Idle
<1>4. R!Idle.op = "none"
  BY DEF R!Idle
<1>5. PICK n : n = wcall'[c]
  OBVIOUS
<1>6. PICK r : r = rcall'[c]
  OBVIOUS
<1>7. r = R!Idle /\ r.op = "none" /\ n.at # "refer"
  BY <1>3, <1>4, <1>5, <1>6
<1> QED
  BY <1>5, <1>6, <1>7 DEF RTyped, RDuty

LEMMA QuietTyped ==
    ASSUME TInv, Explicit(plan), NEW c \in Callers, Quiet(c), plan' = plan, options' = options
    PROVE  WTyped(c) /\ RTyped(c)
<1> DEFINE k == wcall[c]
<1>0. Idle.at = "idle" /\ Unreferring /\ Same
  BY Zenon DEF Idle, Quiet, Starting, Taking, Looking, Targeting, Listing, Throwing
<1>1. CASE Starting(c)
  <2>1. k = Idle /\ Fresh(wcall'[c]) /\ rcall[c] = R!Idle
    BY <1>1, Zenon DEF Starting
  <2>2. wcall'[c] \in WaitlistCalls
    BY <2>1, Zenon DEF Fresh
  <2>3. wcall'[c].op \in Ops
    <3>1. \A n \in WaitlistCalls : n.op \in Ops
      BY DEF WaitlistCalls
    <3> QED
      BY <2>2, <3>1
  <2>4. WDuty(c)' /\ wcall'[c].at \in {"find", "list"}
    BY <2>1, <2>3, FreshDuty
  <2> QED
    BY <1>0, <2>1, <2>2, <2>4, QuietRefers DEF WTyped, Unreferring
<1>2. CASE Taking(c)
  <2>1. k.at = "returned" /\ wcall'[c] = Idle
    BY <1>2, Zenon DEF Taking
  <2>2. WDuty(c)'
    BY <2>1 DEF WDuty
  <2> QED
    BY <1>0, <2>1, <2>2, QuietRefers DEF WTyped, Unreferring
<1>3. CASE Looking(c)
  <2>1. k.at = "find"
    BY <1>3, Zenon DEF Looking
  <2>2. k.at \in Stages \ {"list", "returned"} /\ k.at \in Stages \ {"returned"}
    BY <2>1 DEF Stages
  <2>3. k \in WaitlistCalls /\ k.op \in Ops
    BY <2>2, Busy
  <2>4. /\ k.op \in Adders => "create" \in StagesOf(k.op)
        /\ k.op \in Leavers => "remove" \in StagesOf(k.op)
    BY DEF StagesOf, Adders, Leavers
  <2>5. ASSUME NEW out \in Outs, EndsAs(c, out)
        PROVE  wcall'[c] \in WaitlistCalls /\ wcall'[c].at = "returned" /\ WDuty(c)'
    BY <2>2, <2>3, <2>5, EndFields, EndsDuty
  <2>6. ASSUME Advances(c)
        PROVE  wcall'[c] \in WaitlistCalls /\ wcall'[c].at # "refer" /\ WDuty(c)'
    BY <2>2, <2>3, <2>6, AdvanceFields, AdvancesDuty DEF LoopsAt
  <2>7. ASSUME NEW at \in {"create", "remove"}, Moves(c, at), at \in StagesOf(k.op)
        PROVE  wcall'[c] \in WaitlistCalls /\ wcall'[c].at # "refer" /\ WDuty(c)'
    <3>1. wcall'[c] \in WaitlistCalls /\ wcall'[c].at = at
      BY <2>7, Zenon DEF Moves
    <3>2. WDuty(c)'
      BY <1>0, <2>2, <2>7, MovesDuty
    <3> QED
      BY <3>1, <3>2
  <2>8. "already" \in Outs /\ "missing" \in Outs
    BY DEF Outs
  <2>9. wcall'[c] \in WaitlistCalls /\ wcall'[c].at # "refer" /\ WDuty(c)'
    BY <1>3, <2>4, <2>5, <2>6, <2>7, <2>8, LooksMove
  <2> QED
    BY <1>0, <2>1, <2>9, QuietRefers DEF WTyped, Unreferring
<1>4. CASE Targeting(c)
  <2>1. k.at = "remove"
    BY <1>4, Zenon DEF Targeting
  <2>2. k.at \in Stages \ {"list", "returned"} /\ k.at \in Stages \ {"returned"}
    BY <2>1 DEF Stages
  <2>3. k \in WaitlistCalls /\ k.op \in Ops /\ k.at \in StagesOf(k.op)
    BY <2>2, Busy
  <2>4. "delete" \in StagesOf(k.op)
    BY <2>1, <2>3 DEF StagesOf, Adders, Leavers
  <2>5. CASE Advances(c)
    <3>1. wcall'[c] \in WaitlistCalls /\ wcall'[c].at # "refer" /\ WDuty(c)'
      BY <2>2, <2>3, <2>5, AdvanceFields, AdvancesDuty DEF LoopsAt
    <3> QED
      BY <1>0, <2>1, <3>1, QuietRefers DEF WTyped, Unreferring
  <2>6. CASE Moves(c, "delete")
    <3>1. wcall'[c] \in WaitlistCalls /\ wcall'[c].at = "delete"
      BY <2>6, Zenon DEF Moves
    <3>2. WDuty(c)'
      BY <1>0, <2>2, <2>4, <2>6, MovesDuty
    <3> QED
      BY <1>0, <2>1, <3>1, <3>2, QuietRefers DEF WTyped, Unreferring
  <2> QED
    BY <1>4, <2>5, <2>6, TargetsMove
<1>5. CASE Listing(c)
  <2>1. k.at = "list"
    BY <1>5, Zenon DEF Listing
  <2>2. /\ wcall'[c] \in WaitlistCalls \/ Placed(wcall'[c])
        /\ WDuty(c)' /\ wcall'[c].at \in {"remove", "returned"}
    BY <1>5, ListsDuty
  <2> QED
    BY <1>0, <2>1, <2>2, QuietRefers DEF WTyped, Unreferring
<1>6. CASE Throwing(c)
  <2>1. InFlight(c) /\ k.at # "refer" /\ EndsAs(c, "threw")
    BY <1>6, Zenon DEF Throwing
  <2>2. k.at \in Stages \ {"returned"}
    <3>1. k.at \notin {"idle", "returned"}
      BY <2>1, Zenon DEF InFlight
    <3>2. k \in WaitlistCalls
      BY <1>0, <3>1 DEF TInv, Placed
    <3> QED
      BY <3>1, <3>2 DEF WaitlistCalls
  <2>3. k \in WaitlistCalls
    BY <2>2, Busy
  <2>4. wcall'[c] \in WaitlistCalls /\ wcall'[c].at = "returned" /\ WDuty(c)'
    BY <2>1, <2>2, <2>3, EndFields, EndsDuty DEF Outs
  <2>5. k.at \notin {"refer", "idle"}
    BY <2>1, <2>2 DEF Stages
  <2> QED
    BY <1>0, <2>4, <2>5, QuietRefers DEF WTyped, Unreferring
<1> QED
  BY <1>1, <1>2, <1>3, <1>4, <1>5, <1>6, Zenon DEF Quiet

LEMMA ChangingTyped ==
    ASSUME TInv, Explicit(plan), NEW c \in Callers, Creating(c) \/ Removing(c), plan' = plan
    PROVE  WTyped(c) /\ RTyped(c) /\ wcall[c] \in WaitlistCalls
<1> DEFINE k == wcall[c]
<1>1. k.at \in {"create", "remove", "delete"} /\ Advances(c) /\ Unreferring
  BY Zenon DEF Creating, Removing
<1>2. k.at \in Stages \ {"list", "returned"} /\ k.at \in Stages \ {"returned"}
  BY <1>1 DEF Stages
<1>3. k \in WaitlistCalls
  BY <1>2, Busy
<1>4. wcall'[c] \in WaitlistCalls /\ wcall'[c].at # "refer" /\ WDuty(c)'
  BY <1>1, <1>2, <1>3, AdvanceFields, AdvancesDuty DEF LoopsAt
<1>5. k.at \notin {"refer", "idle"} /\ k # Idle
  BY <1>1 DEF Idle
<1> QED
  BY <1>1, <1>3, <1>4, <1>5, QuietRefers DEF WTyped, Unreferring

LEMMA ReferringTyped ==
    ASSUME TInv, Explicit(plan), NEW c \in Callers, plan' = plan, options' = options,
           Inviting(c) \/ Referring(c) \/ AskingReferral(c) \/ TakingReferral(c)
    PROVE  WTyped(c) /\ RTyped(c) /\ Same /\ referrals' = referrals
<1> DEFINE k == wcall[c]
           r == rcall[c]
<1>0. /\ Idle.at = "idle" /\ R!Idle.at = "idle" /\ R!Idle.op = "none"
      /\ Same /\ referrals' = referrals /\ WDuty(c) /\ RDuty(c)
      /\ k \in {Idle} \cup WaitlistCalls \/ Placed(k)
  BY Zenon DEF Idle, R!Idle, Inviting, Referring, AskingReferral, TakingReferral, TInv
<1>1. CASE Inviting(c)
  <2>1. PICK i : /\ Fresh(i) /\ i.op = "invite" /\ wcall'[c] = FreshInvitation(i) /\ options.refers
                 /\ rcall'[c] = R!Call("refer", "find", i.inviter, i.actors[1].person, Undefined)
    BY <1>1, Zenon DEF Inviting
  <2>2. /\ i \in WaitlistCalls /\ i.next = 1 /\ i.read = {}
        /\ i.inviter \in Persons /\ Len(i.actors) = 1
        /\ \A j \in DOMAIN i.actors : i.actors[j] \in ActorsOf(plan)
    BY <2>1 DEF Fresh
  <2>3. i.actors \in Seq(Actors)
    BY <2>2 DEF WaitlistCalls
  <2>4. 1 \in DOMAIN i.actors /\ i.actors[1].person \in Persons
    <3>1. 1 \in DOMAIN i.actors /\ i.actors[1] \in Actors
      BY <2>2, <2>3
    <3>2. \A a \in Actors : a.person \in Persons
      BY DEF Actors
    <3> QED
      BY <3>1, <3>2
  <2>5. PICK n : n = wcall'[c]
    OBVIOUS
  <2>6. n = [i EXCEPT !.at = "refer"]
    BY <2>1, <2>5 DEF FreshInvitation
  <2>7. n \in WaitlistCalls /\ n.at = "refer" /\ n.op = "invite" /\ n.next = 1
        /\ n.actors = i.actors /\ n.inviter = i.inviter
    BY <2>1, <2>2, <2>6 DEF WaitlistCalls, Stages
  <2>8. n.at \in StagesOf(n.op)
    BY <2>7 DEF StagesOf, Adders
  <2>9. WTyped(c)
    BY <2>1, <2>2, <2>4, <2>5, <2>7, <2>8 DEF WTyped, WDuty, ActorsOf
  <2>10. PICK s : s = rcall'[c]
    OBVIOUS
  <2>11. s = [op |-> "refer", at |-> "find", referrer |-> i.inviter,
              recipient |-> i.actors[1].person, code |-> Undefined, answer |-> R!NoOne,
              out |-> "pending"]
    BY <2>1, <2>10 DEF R!Call
  <2>12. s \in ReferralCalls /\ s.op = "refer" /\ s.at = "find" /\ s.code = Undefined
         /\ s.referrer = i.inviter /\ s.recipient = i.actors[1].person
    BY <2>2, <2>4, <2>11 DEF ReferralCalls, Outs
  <2>13. s # R!Idle
    BY <1>0, <2>12
  <2>14. RDuty(c)'
    BY <2>2, <2>4, <2>5, <2>7, <2>10, <2>12, <2>13 DEF RDuty
  <2> QED
    BY <1>0, <2>9, <2>10, <2>12, <2>14 DEF RTyped
<1>2. CASE Referring(c)
  <2>1. k.at = "refer" /\ rcall'[c] = R!Idle
    BY <1>2, Zenon DEF Referring
  <2>2. k.at \in Stages \ {"list", "returned"} /\ k.at \in Stages \ {"returned"}
    BY <2>1 DEF Stages
  <2>3. k \in WaitlistCalls /\ k # Idle
    BY <2>2, Busy
  <2>4. k.op = "invite"
    BY <1>0, <2>1, <2>3, Zenon DEF WDuty
  <2>5. CASE EndsAs(c, "threw")
    <3>1. wcall'[c] \in WaitlistCalls /\ wcall'[c].at = "returned" /\ WDuty(c)'
      BY <2>2, <2>3, <2>5, EndFields, EndsDuty DEF Outs
    <3> QED
      BY <1>0, <2>1, <3>1 DEF WTyped, RTyped, RDuty
  <2>6. CASE wcall'[c] = [k EXCEPT !.at = "find"]
    <3>1. PICK n : n = wcall'[c]
      OBVIOUS
    <3>2. n = [k EXCEPT !.at = "find"]
      BY <2>6, <3>1
    <3>3. n \in WaitlistCalls /\ n.at = "find" /\ n.op = k.op /\ n.actors = k.actors
          /\ n.next = k.next /\ n.read = k.read /\ n.inviter = k.inviter /\ n.asOf = k.asOf
      BY <2>3, <3>2 DEF WaitlistCalls, Stages
    <3>4. Moves(c, "find")
      BY <3>1, <3>3, Zenon DEF Moves
    <3>5. "find" \in StagesOf(k.op)
      BY <2>4 DEF StagesOf, Adders
    <3>6. WDuty(c)'
      BY <1>0, <2>2, <3>4, <3>5, MovesDuty
    <3>7. wcall'[c] \in WaitlistCalls /\ wcall'[c].at = "find"
      BY <3>1, <3>3
    <3> QED
      BY <1>0, <2>1, <3>6, <3>7 DEF WTyped, RTyped, RDuty
  <2> QED
    BY <1>2, <2>5, <2>6, Zenon DEF Referring
<1>3. ASSUME wcall' = wcall, plan' = plan, options' = options, issued' = issued
      PROVE  WTyped(c)
  BY <1>0, <1>3 DEF WTyped, WDuty, ActorsOf
<1>4. CASE AskingReferral(c)
  <2>1. wcall' = wcall /\ k = Idle
    BY <1>4, Zenon DEF AskingReferral
  <2>2. WTyped(c)
    BY <1>0, <1>3, <2>1 DEF Same
  <2>3. CASE \E referrer, recipient \in Persons, code \in R!Codes \cup {Undefined} :
                 rcall'[c] = R!Call("refer", "find", referrer, recipient, code)
    <3>1. PICK referrer \in Persons, recipient \in Persons, code \in R!Codes \cup {Undefined} :
                 rcall'[c] = R!Call("refer", "find", referrer, recipient, code)
      BY <2>3
    <3>2. PICK s : s = rcall'[c]
      OBVIOUS
    <3>3. s = [op |-> "refer", at |-> "find", referrer |-> referrer, recipient |-> recipient,
               code |-> code, answer |-> R!NoOne, out |-> "pending"]
      BY <3>1, <3>2 DEF R!Call
    <3>4. s \in ReferralCalls /\ s.op = "refer" /\ s.at = "find"
          /\ s.referrer \in Persons /\ s.recipient \in Persons
      BY <3>3 DEF ReferralCalls, Outs
    <3> QED
      BY <1>0, <2>1, <2>2, <3>2, <3>4 DEF RTyped, RDuty
  <2>4. CASE \E pair \in coded : rcall'[c] = R!Call("resolve", "byCode", R!NoOne, R!NoOne, pair[2])
    <3>1. PICK pair \in coded : rcall'[c] = R!Call("resolve", "byCode", R!NoOne, R!NoOne, pair[2])
      BY <2>4
    <3>2. PICK s : s = rcall'[c]
      OBVIOUS
    <3>3. s = [op |-> "resolve", at |-> "byCode", referrer |-> R!NoOne, recipient |-> R!NoOne,
               code |-> pair[2], answer |-> R!NoOne, out |-> "pending"]
      BY <3>1, <3>2 DEF R!Call
    <3>4. pair[2] \in R!Codes
      BY DEF TInv
    <3>5. s \in ReferralCalls /\ s.op = "resolve" /\ s.at = "byCode"
      BY <3>3, <3>4 DEF ReferralCalls, Outs
    <3> QED
      BY <1>0, <2>1, <2>2, <3>2, <3>5 DEF RTyped, RDuty
  <2> QED
    BY <1>4, <2>3, <2>4, Zenon DEF AskingReferral
<1>5. CASE TakingReferral(c)
  <2>1. wcall' = wcall /\ k = Idle /\ rcall'[c] = R!Idle
    BY <1>5, Zenon DEF TakingReferral
  <2> QED
    BY <1>0, <1>3, <2>1 DEF RTyped, RDuty, Same
<1> QED
  BY <1>0, <1>1, <1>2, <1>4, <1>5

LEMMA ServingTyped ==
    ASSUME TInv, Explicit(plan), NEW c \in Callers, plan' = plan, options' = options,
           ServingReferral(c)
    PROVE  /\ WTyped(c) /\ RTyped(c) /\ Same
           /\ rcall[c] \in ReferralCalls
           /\ rcall'[c] \in ReferralCalls /\ rcall'[c].op = rcall[c].op
           /\ rcall'[c].code = rcall[c].code /\ rcall'[c].referrer = rcall[c].referrer
           /\ rcall'[c].recipient = rcall[c].recipient
<1> DEFINE k == wcall[c]
           r == rcall[c]
<1>0. /\ R!Idle.at = "idle" /\ Same /\ wcall' = wcall /\ WDuty(c) /\ RDuty(c)
      /\ (k \in {Idle} \cup WaitlistCalls \/ Placed(k)) /\ R!Idle.op = "none"
      /\ r \in {R!Idle} \cup ReferralCalls /\ referrals \subseteq R!ReferralRows
  BY Zenon DEF R!Idle, ServingReferral, TInv, TypeOK
<1>1. WTyped(c)
  BY <1>0 DEF WTyped, WDuty, ActorsOf, Same
<1>2. r.at \notin {"idle", "returned"}
  BY Zenon DEF ServingReferral, R!InFlight
<1>3. r \in ReferralCalls
  BY <1>0, <1>2
<1>4. /\ (k.at = "refer" \/ k = Idle)
      /\ k.at = "refer" => /\ r.op = "refer" /\ r.code = Undefined
                           /\ r.referrer = k.inviter /\ r.recipient = k.actors[1].person
      /\ r.op = "refer" => r.referrer \in Persons /\ r.recipient \in Persons
  <2>1. r # R!Idle
    BY <1>0, <1>2
  <2> QED
    BY <1>0, <2>1, Zenon DEF RDuty
<1> DEFINE Ats == IF r.op = "refer" THEN {"find", "create", "returned"}
                  ELSE {"byCode", "byReferrer", "returned"}
<1>5. ASSUME NEW s, s = rcall'[c], s \in ReferralCalls, s.at \in Ats,
             s.op = r.op, s.code = r.code, s.referrer = r.referrer, s.recipient = r.recipient
      PROVE  RTyped(c) /\ rcall'[c] \in ReferralCalls /\ rcall'[c].op = rcall[c].op
             /\ rcall'[c].code = rcall[c].code /\ rcall'[c].referrer = rcall[c].referrer
             /\ rcall'[c].recipient = rcall[c].recipient
  <2>1. PICK n : n = wcall'[c]
    OBVIOUS
  <2>2. n = k
    BY <1>0, <2>1
  <2>3. s # R!Idle
    BY <1>0, <1>3, <1>5 DEF ReferralCalls
  <2>4. RDuty(c)'
    <3>1. /\ n.at = "refer" =>
               /\ s # R!Idle /\ s.op = "refer" /\ s.code = Undefined
               /\ s.referrer = n.inviter /\ s.recipient = n.actors[1].person
          /\ s.op = "refer" => s.referrer \in Persons /\ s.recipient \in Persons
          /\ s.at \in (IF s.op = "refer" THEN {"find", "create", "returned"}
                       ELSE {"byCode", "byReferrer", "returned"})
          /\ n # Idle /\ n.at # "refer" => s = R!Idle
      BY <1>4, <1>5, <2>2, <2>3
    <3> HIDE DEF r, k
    <3> QED
      BY <1>5, <2>1, <3>1 DEF RDuty
  <2> QED
    BY <1>5, <2>4 DEF RTyped
<1>6. ASSUME NEW at \in Ats, NEW out \in Outs,
             NEW person \in Persons \cup {R!NoOne} \cup [type : {offer.type}, id : R!Codes \cup {Undefined}],
             rcall'[c] = [r EXCEPT !.at = at, !.out = out, !.answer = person]
      PROVE  RTyped(c) /\ rcall'[c] \in ReferralCalls /\ rcall'[c].op = rcall[c].op
             /\ rcall'[c].code = rcall[c].code /\ rcall'[c].referrer = rcall[c].referrer
             /\ rcall'[c].recipient = rcall[c].recipient
  <2>1. PICK s : s = rcall'[c]
    OBVIOUS
  <2>2. s = [r EXCEPT !.at = at, !.out = out, !.answer = person]
    BY <1>6, <2>1
  <2>3. at \in {"find", "create", "byCode", "byReferrer", "returned"}
    OBVIOUS
  <2>4. s \in ReferralCalls /\ s.at = at /\ s.op = r.op /\ s.code = r.code
        /\ s.referrer = r.referrer /\ s.recipient = r.recipient
    BY <1>3, <2>2, <2>3 DEF ReferralCalls
  <2> QED
    BY <1>5, <2>1, <2>4
<1>7. r.answer \in Persons \cup {R!NoOne} \cup [type : {offer.type}, id : R!Codes \cup {Undefined}]
      /\ r.out \in Outs
  BY <1>3 DEF ReferralCalls
<1>8. \A at, out : [r EXCEPT !.at = at, !.out = out]
                   = [r EXCEPT !.at = at, !.out = out, !.answer = r.answer]
  BY <1>3 DEF ReferralCalls
<1>9. \A at : [r EXCEPT !.at = at] = [r EXCEPT !.at = at, !.out = r.out, !.answer = r.answer]
  BY <1>3 DEF ReferralCalls
<1>10. "returned" \in Ats /\ (r.op = "refer" => "create" \in Ats)
       /\ (r.op = "resolve" => "byReferrer" \in Ats)
  OBVIOUS
<1>11. ASSUME NEW out \in Outs, ReturnsReferral(c, out)
       PROVE  RTyped(c) /\ rcall'[c] \in ReferralCalls /\ rcall'[c].op = rcall[c].op
             /\ rcall'[c].code = rcall[c].code /\ rcall'[c].referrer = rcall[c].referrer
             /\ rcall'[c].recipient = rcall[c].recipient
  <2>1. PICK o \in {out, "threw"} : rcall'[c] = [r EXCEPT !.at = "returned", !.out = o]
    BY <1>11, Zenon DEF ReturnsReferral
  <2>2. o \in Outs
    BY DEF Outs
  <2>3. rcall'[c] = [r EXCEPT !.at = "returned", !.out = o, !.answer = r.answer]
    BY <1>8, <2>1, Zenon
  <2>4. "returned" \in Ats
    BY <1>10
  <2> DEFINE answer == r.answer
  <2>5. answer \in Persons \cup {R!NoOne} \cup [type : {offer.type}, id : R!Codes \cup {Undefined}]
    BY <1>7
  <2>6. rcall'[c] = [r EXCEPT !.at = "returned", !.out = o, !.answer = answer]
    BY <2>3, Zenon
  <2> HIDE DEF r, Ats, answer
  <2> QED
    BY <1>6, <2>2, <2>4, <2>5, <2>6, Zenon
<1>12. ASSUME NEW person \in Persons \cup {R!NoOne} \cup [type : {offer.type}, id : R!Codes \cup {Undefined}],
              AnswersReferral(c, person)
       PROVE  RTyped(c) /\ rcall'[c] \in ReferralCalls /\ rcall'[c].op = rcall[c].op
             /\ rcall'[c].code = rcall[c].code /\ rcall'[c].referrer = rcall[c].referrer
             /\ rcall'[c].recipient = rcall[c].recipient
  <2>1. rcall'[c] = [r EXCEPT !.at = "returned", !.out = "done", !.answer = person]
    BY <1>12, Zenon DEF AnswersReferral
  <2>2. "done" \in Outs
    BY DEF Outs
  <2> HIDE DEF r, Ats
  <2> QED
    BY <1>6, <1>10, <2>1, <2>2, Zenon
<1>13. ASSUME NEW at \in Ats, rcall'[c] = [r EXCEPT !.at = at]
       PROVE  RTyped(c) /\ rcall'[c] \in ReferralCalls /\ rcall'[c].op = rcall[c].op
             /\ rcall'[c].code = rcall[c].code /\ rcall'[c].referrer = rcall[c].referrer
             /\ rcall'[c].recipient = rcall[c].recipient
  <2>1. rcall'[c] = [r EXCEPT !.at = at, !.out = r.out, !.answer = r.answer]
    BY <1>9, <1>13, Zenon
  <2> HIDE DEF r, Ats
  <2> QED
    BY <1>6, <1>7, <2>1, Zenon
<1>14. \A row \in referrals : row.referrer \in Persons
  BY <1>0 DEF R!ReferralRows
<1>15. (IF offer.type = Null THEN R!NoOne ELSE [type |-> offer.type, id |-> r.code])
       \in Persons \cup {R!NoOne} \cup [type : {offer.type}, id : R!Codes \cup {Undefined}]
  <2>1. r.code \in R!Codes \cup {Undefined}
    BY <1>3 DEF ReferralCalls
  <2> HIDE DEF r
  <2> QED
    BY <2>1
<1>16. "already" \in Outs /\ "done" \in Outs /\ "threw" \in Outs
  BY DEF Outs
<1>17. \/ r.op = "refer" /\ rcall'[c] = [r EXCEPT !.at = "create"]
       \/ ReturnsReferral(c, "already") \/ ReturnsReferral(c, "done") \/ ReturnsReferral(c, "threw")
       \/ r.op = "resolve" /\ rcall'[c] = [r EXCEPT !.at = "byReferrer"]
       \/ \E row \in referrals : AnswersReferral(c, row.referrer)
       \/ AnswersReferral(c, IF offer.type = Null THEN R!NoOne ELSE [type |-> offer.type, id |-> r.code])
  BY Zenon DEF ServingReferral
<1> HIDE DEF r, Ats
<1>18. RTyped(c) /\ rcall'[c] \in ReferralCalls /\ rcall'[c].op = rcall[c].op
             /\ rcall'[c].code = rcall[c].code /\ rcall'[c].referrer = rcall[c].referrer
             /\ rcall'[c].recipient = rcall[c].recipient
  BY <1>10, <1>11, <1>12, <1>13, <1>14, <1>15, <1>16, <1>17
<1> QED
  BY <1>0, <1>1, <1>3, <1>18 DEF r

(* An entry of the current actor. *)
LEMMA NewEntryTyped ==
    ASSUME TInv, Explicit(plan), NEW c \in Callers, Creating(c)
    PROVE  /\ NewEntry(c) \in EntryRows /\ NewEntry(c).id = issued + 1
           /\ SameActor(NewEntry(c), Current(c)) /\ ActorOf(NewEntry(c)) = Current(c)
           /\ NewEntry(c).person = Current(c).person
           /\ NewEntry(c).referredBy = wcall[c].inviter
           /\ Current(c) \in ActorsOf(plan)
<1> DEFINE k == wcall[c]
           a == Current(c)
<1>1. k.at = "create"
  BY Zenon DEF Creating
<1>2. k.at \in Stages \ {"list", "returned"} /\ k.at \in Stages \ {"returned"}
  BY <1>1 DEF Stages
<1>3. k \in WaitlistCalls /\ a \in ActorsOf(plan) /\ a \in Actors
  BY <1>2, Busy, CurrentActor
<1>4. /\ k.inviter \in Persons \cup {R!NoOne} /\ k.expires \in Times \cup {Never} /\ k.asOf \in Times
      /\ now \in Times /\ issued + 1 \in Nat
  BY <1>3 DEF WaitlistCalls, TInv, TypeOK
<1>5. a.person \in Persons /\ Stored(a.org) \in Orgs \cup {Null}
  BY <1>3 DEF Actors, Stored
<1> DEFINE createdAt == IF Memory THEN now ELSE k.asOf
           org == Stored(a.org)
<1>6. createdAt \in Times
  BY <1>4
<1>7. NewEntry(c) = [id |-> issued + 1, person |-> a.person, org |-> org, createdAt |-> createdAt,
                     expiresAt |-> k.expires, referredBy |-> k.inviter]
  BY Zenon DEF NewEntry
<1>8. PICK n : n = NewEntry(c)
  OBVIOUS
<1> HIDE DEF a, createdAt, org, k
<1>9. n = [id |-> issued + 1, person |-> a.person, org |-> org, createdAt |-> createdAt,
                     expiresAt |-> k.expires, referredBy |-> k.inviter]
  BY <1>7, <1>8
<1>10. org \in Orgs \cup {Null}
  BY <1>5 DEF org
<1>11. n \in EntryRows /\ n.id = issued + 1 /\ n.person = a.person /\ n.org = org
       /\ n.referredBy = k.inviter
  BY <1>4, <1>5, <1>6, <1>9, <1>10 DEF EntryRows
<1>12. SameActor(n, a)
  BY <1>11 DEF SameActor, org
<1>13. ActorOf(n) = a
  BY <1>3, <1>11, <1>12, ActorOfRow
<1> QED
  BY <1>3, <1>8, <1>11, <1>12, <1>13 DEF a, k

(* Codes and rows of referrals are of the same kind after a step. *)
LEMMA KindsKept ==
    ASSUME offer' = offer
    PROVE  /\ (R!Codes)' = R!Codes /\ (R!ReferralRows)' = R!ReferralRows
           /\ (R!Generates)' = R!Generates /\ ReferralCalls' = ReferralCalls
<1>1. (R!Generates)' = R!Generates
  BY DEF R!Generates
<1>2. (R!Codes)' = R!Codes
  BY <1>1 DEF R!Codes
<1> QED
  BY <1>1, <1>2 DEF R!ReferralRows, ReferralCalls

(* The tables after a step. *)
EntriesTyped ==
    /\ entries' \subseteq EntryRows /\ IsFiniteSet(entries') /\ UniqueIds(entries)'
    /\ issued' \in Nat /\ issued <= issued'
    /\ \A row \in entries' : row.id \in 1 .. issued' /\ ActorOf(row) \in ActorsOf(plan)
ReferralsTyped ==
    referrals' \subseteq R!ReferralRows /\ IsFiniteSet(referrals') /\ UniqueIds(referrals)'

LEMMA TablesNow ==
    ASSUME TInv
    PROVE  /\ entries \subseteq EntryRows /\ IsFiniteSet(entries) /\ UniqueIds(entries)
           /\ issued \in Nat /\ now \in Times
           /\ \A row \in entries : row.id \in 1 .. issued /\ ActorOf(row) \in ActorsOf(plan)
           /\ referrals \subseteq R!ReferralRows /\ IsFiniteSet(referrals) /\ UniqueIds(referrals)
BY DEF TInv, TypeOK, UniqueIds

LEMMA EntriesStay ==
    ASSUME TInv, Same
    PROVE  EntriesTyped
BY TablesNow DEF EntriesTyped, Same, UniqueIds

LEMMA ReferralsStay ==
    ASSUME TInv, referrals' = referrals
    PROVE  ReferralsTyped
BY TablesNow DEF ReferralsTyped, UniqueIds

LEMMA EntriesCreated ==
    ASSUME TInv, Explicit(plan), NEW c \in Callers, Creating(c)
    PROVE  EntriesTyped
<1>1. PICK n : n = NewEntry(c)
  OBVIOUS
<1>2. n \in EntryRows /\ n.id = issued + 1 /\ ActorOf(n) \in ActorsOf(plan)
  BY <1>1, NewEntryTyped
<1>3. entries' = entries \cup {n} /\ issued' = issued + 1
  BY <1>1, Zenon DEF Creating
<1>4. IsFiniteSet(entries')
  BY <1>3, TablesNow, FS_AddElement
<1>5. entries' \subseteq EntryRows /\ issued' \in Nat /\ issued <= issued'
  BY <1>2, <1>3, TablesNow
<1>6. \A row \in entries' : row.id \in 1 .. issued' /\ ActorOf(row) \in ActorsOf(plan)
  BY <1>2, <1>3, TablesNow
<1>7. \A r1, r2 \in entries' : r1.id = r2.id => r1 = r2
  BY <1>2, <1>3, TablesNow DEF UniqueIds
<1> QED
  BY <1>4, <1>5, <1>6, <1>7 DEF EntriesTyped, UniqueIds

LEMMA EntriesRemoved ==
    ASSUME TInv, NEW c \in Callers, Removing(c)
    PROVE  EntriesTyped
<1>1. entries' \subseteq entries /\ issued' = issued
  BY DEF Removing
<1>2. IsFiniteSet(entries')
  BY <1>1, TablesNow, FS_Subset
<1> QED
  BY <1>1, <1>2, TablesNow DEF EntriesTyped, UniqueIds

LEMMA ReferralsServed ==
    ASSUME TInv, NEW c \in Callers, ServingReferral(c)
    PROVE  ReferralsTyped
<1> DEFINE r == rcall[c]
<1>1. CASE referrals' = referrals
  BY <1>1, ReferralsStay
<1>2. CASE referrals' # referrals
  <2>1. /\ r.op = "refer" /\ r.at = "create"
        /\ \E id \in Nat \ {row.id : row \in referrals} :
                 referrals' = referrals \cup {[id |-> id, referrer |-> r.referrer,
                                 recipient |-> r.recipient, code |-> Stored(r.code)]}
    BY <1>2, Zenon DEF ServingReferral
  <2>2. PICK id \in Nat \ {row.id : row \in referrals} :
                 referrals' = referrals \cup {[id |-> id, referrer |-> r.referrer,
                                 recipient |-> r.recipient, code |-> Stored(r.code)]}
    BY <2>1
  <2>3. r.referrer \in Persons /\ r.recipient \in Persons
    BY <2>1 DEF TInv, RDuty
  <2>4. r \in ReferralCalls
    BY <2>1 DEF TInv, R!Idle
  <2>5. r.code \in R!Codes \cup {Undefined}
    BY <2>4 DEF ReferralCalls
  <2> DEFINE code == Stored(r.code)
             referrer == r.referrer
             recipient == r.recipient
  <2>6. code \in R!Codes \cup {Null}
    BY <2>5 DEF Stored
  <2> HIDE DEF code, referrer, recipient
  <2>7. PICK n : n = [id |-> id, referrer |-> referrer, recipient |-> recipient, code |-> code]
    OBVIOUS
  <2>8. n \in R!ReferralRows /\ n.id = id
    BY <2>3, <2>6, <2>7 DEF R!ReferralRows, referrer, recipient
  <2>9. referrals' = referrals \cup {n}
    BY <2>2, <2>7 DEF code, referrer, recipient
  <2>10. IsFiniteSet(referrals')
    BY <2>9, TablesNow, FS_AddElement
  <2>11. \A r1, r2 \in referrals' : r1.id = r2.id => r1 = r2
    BY <2>8, <2>9, TablesNow DEF UniqueIds
  <2> QED
    BY <2>8, <2>9, <2>10, <2>11, TablesNow DEF ReferralsTyped, UniqueIds
<1> QED
  BY <1>1, <1>2

LEMMA OthersTyped ==
    ASSUME TInv, NEW d \in Callers, wcall'[d] = wcall[d], rcall'[d] = rcall[d],
           plan' = plan, options' = options, issued \in Nat, issued' \in Nat, issued <= issued'
    PROVE  WTyped(d) /\ RTyped(d)
<1>1. /\ WDuty(d) /\ RDuty(d) /\ rcall[d] \in {R!Idle} \cup ReferralCalls
      /\ (wcall[d] \in {Idle} \cup WaitlistCalls \/ Placed(wcall[d]))
  BY DEF TInv
<1>2. RDuty(d)'
  BY <1>1 DEF RDuty
<1>3. WDuty(d)'
  <2> DEFINE k == wcall[d]
  <2>1. CASE k = Idle
    BY <2>1 DEF WDuty
  <2>2. CASE k # Idle
    <3>1. /\ k.at \in StagesOf(k.op)
          /\ \A i \in DOMAIN k.actors : k.actors[i] \in ActorsOf(plan)
          /\ k.at = "list" => k.next = 1 /\ k.read = {}
          /\ k.at = "list" => k.actors = <<>> \/ (k.op = "getPosition" /\ Len(k.actors) = 1)
          /\ k.op \in {"subscribe", "unsubscribe", "invite", "getPosition"} => Len(k.actors) = 1
          /\ k.at \notin {"list", "returned"} => k.next \in DOMAIN k.actors
          /\ k.op = "pop" /\ k.at \in {"remove", "delete"} =>
                 \E row \in k.read : k.read = {row} /\ k.actors = <<ActorOf(row)>> /\ row.id <= issued
          /\ k.at = "refer" => k.op = "invite" /\ options.refers
          /\ k.op # "invite" => k.inviter = R!NoOne
      BY <1>1, <2>2, Zenon DEF WDuty
    <3>2. k.op = "pop" /\ k.at \in {"remove", "delete"} =>
              /\ k \in WaitlistCalls
              /\ \E row \in k.read : k.read = {row} /\ k.actors = <<ActorOf(row)>> /\ row.id <= issued'
      <4> SUFFICES ASSUME k.op = "pop", k.at \in {"remove", "delete"}
                   PROVE  /\ k \in WaitlistCalls
                          /\ \E row \in k.read : k.read = {row} /\ k.actors = <<ActorOf(row)>> /\ row.id <= issued'
        OBVIOUS
      <4>1. k \in WaitlistCalls
        BY <1>1, <2>2 DEF Placed
      <4>2. PICK row \in k.read : k.read = {row} /\ k.actors = <<ActorOf(row)>> /\ row.id <= issued
        BY <3>1
      <4>3. row.id \in Nat
        BY <4>1, <4>2 DEF WaitlistCalls, EntryRows
      <4>4. row.id <= issued'
        BY <4>2, <4>3
      <4> QED
        BY <4>1, <4>2, <4>4
    <3>3. PICK n : n = wcall'[d]
      OBVIOUS
    <3>4. n = k
      BY <3>3
    <3> HIDE DEF k
    <3>5. /\ n.at \in StagesOf(n.op)
          /\ \A i \in DOMAIN n.actors : n.actors[i] \in ActorsOf(plan)
          /\ n.at = "list" => n.next = 1 /\ n.read = {}
          /\ n.at = "list" => n.actors = <<>> \/ (n.op = "getPosition" /\ Len(n.actors) = 1)
          /\ n.op \in {"subscribe", "unsubscribe", "invite", "getPosition"} => Len(n.actors) = 1
          /\ n.at \notin {"list", "returned"} => n.next \in DOMAIN n.actors
          /\ n.op = "pop" /\ n.at \in {"remove", "delete"} =>
                 \E row \in n.read : n.read = {row} /\ n.actors = <<ActorOf(row)>> /\ row.id <= issued'
          /\ n.at = "refer" => n.op = "invite" /\ options.refers
          /\ n.op # "invite" => n.inviter = R!NoOne
      BY <3>1, <3>2, <3>4
    <3> QED
      BY <3>3, <3>5 DEF WDuty, ActorsOf
  <2> QED
    BY <2>1, <2>2
<1> QED
  BY <1>1, <1>2, <1>3 DEF WTyped, RTyped, Placed

LEMMA ActsTyped ==
    ASSUME TInv, Explicit(plan), NEW c \in Callers, Acts(c)
    PROVE  WTyped(c) /\ RTyped(c) /\ EntriesTyped /\ ReferralsTyped
<1>1. Settings /\ plan' = plan /\ options' = options
  BY Zenon DEF Acts, Settings
<1>2. CASE Quiet(c)
  <2>1. Same /\ referrals' = referrals
    BY <1>2, Zenon DEF Quiet, Starting, Taking, Looking, Targeting, Listing, Throwing, Unreferring
  <2> QED
    BY <1>1, <1>2, <2>1, QuietTyped, EntriesStay, ReferralsStay
<1>3. CASE Creating(c) \/ Removing(c)
  <2>1. referrals' = referrals
    BY <1>3, Zenon DEF Creating, Removing, Unreferring
  <2> QED
    BY <1>1, <1>3, <2>1, ChangingTyped, EntriesCreated, EntriesRemoved, ReferralsStay
<1>4. CASE ServingReferral(c)
  BY <1>1, <1>4, ServingTyped, ReferralsServed, EntriesStay
<1>5. CASE Inviting(c) \/ Referring(c) \/ AskingReferral(c) \/ TakingReferral(c)
  BY <1>1, <1>5, ReferringTyped, EntriesStay, ReferralsStay
<1> QED
  BY <1>2, <1>3, <1>4, <1>5, Zenon DEF Acts, Serves

LEMMA AsideTyped ==
    ASSUME TInv, Aside
    PROVE  EntriesTyped /\ ReferralsTyped /\ \A d \in Callers : WTyped(d) /\ RTyped(d)
<1>1. wcall' = wcall /\ Same /\ referrals' = referrals /\ rcall' = rcall
      /\ plan' = plan /\ options' = options /\ issued' = issued
  BY Zenon DEF Aside, Settings, Unreferring, Same
<1>2. EntriesTyped /\ ReferralsTyped /\ issued \in Nat /\ issued <= issued' /\ issued' \in Nat
  BY <1>1, EntriesStay, ReferralsStay, TablesNow DEF EntriesTyped
<1> QED
  BY <1>1, <1>2, OthersTyped

LEMMA TInvSteps ==
    ASSUME TInv, Explicit(plan), (\E c \in Callers : Acts(c)) \/ Aside
    PROVE  TInv'
<1>1. /\ plan' = plan /\ options' = options /\ offer' = offer /\ now' \in Times
      /\ DOMAIN wcall' = Callers /\ DOMAIN rcall' = Callers
  <2>1. CASE Aside
    BY <2>1, Zenon DEF Aside, Settings, Unreferring, TInv
  <2>2. CASE \E c \in Callers : Acts(c)
    BY <2>2, TablesNow, Zenon DEF Acts, Settings, OnlyOf
  <2> QED
    BY <2>1, <2>2
<1>2. EntriesTyped /\ ReferralsTyped /\ \A d \in Callers : WTyped(d) /\ RTyped(d)
  <2>1. CASE Aside
    BY <2>1, AsideTyped
  <2>2. ASSUME NEW c \in Callers, Acts(c)
        PROVE  EntriesTyped /\ ReferralsTyped /\ \A d \in Callers : WTyped(d) /\ RTyped(d)
    <3>1. WTyped(c) /\ RTyped(c) /\ EntriesTyped /\ ReferralsTyped
      BY <2>2, ActsTyped
    <3>2. issued \in Nat /\ issued <= issued' /\ issued' \in Nat
      BY <3>1, TablesNow DEF EntriesTyped
    <3>3. \A d \in Callers \ {c} : wcall'[d] = wcall[d] /\ rcall'[d] = rcall[d]
      BY <2>2, Zenon DEF Acts, OnlyOf
    <3>4. \A d \in Callers \ {c} : WTyped(d) /\ RTyped(d)
      BY <1>1, <3>2, <3>3, OthersTyped
    <3> QED
      BY <3>1, <3>4
  <2> QED
    BY <2>1, <2>2
<1>3. /\ (R!Codes)' = R!Codes /\ (R!ReferralRows)' = R!ReferralRows /\ ReferralCalls' = ReferralCalls
  BY <1>1, KindsKept
<1>4. \A pair \in coded' : pair[1] \in Persons /\ pair[2] \in R!Codes
  <2>1. CASE Aside
    <3> SUFFICES ASSUME NEW pair \in coded' PROVE pair[1] \in Persons /\ pair[2] \in R!Codes
      OBVIOUS
    <3>1. \/ pair \in coded
          \/ \E person \in Persons, code \in R!Codes : pair = <<person, code>>
      BY <2>1, Zenon DEF Aside
    <3> QED
      BY <3>1 DEF TInv
  <2>2. CASE \E c \in Callers : Acts(c)
    BY <2>2, Zenon DEF Acts, TInv
  <2> QED
    BY <2>1, <2>2
<1>5. TypeOK'
  <2>1. /\ entries' \subseteq EntryRows /\ issued' \in Nat /\ referrals' \subseteq R!ReferralRows
        /\ \A row \in entries' : row.id \in 1 .. issued'
        /\ \A r1, r2 \in entries' : r1.id = r2.id => r1 = r2
        /\ \A r1, r2 \in referrals' : r1.id = r2.id => r1 = r2
    BY <1>2 DEF EntriesTyped, ReferralsTyped, UniqueIds
  <2>2. options' \in [adapter : {"memory", "db"}, refers : BOOLEAN]
    BY <1>1 DEF TInv, TypeOK
  <2> QED
    BY <1>1, <1>3, <2>1, <2>2 DEF TypeOK
<1>6. /\ IsFiniteSet(entries)' /\ IsFiniteSet(referrals)'
      /\ \A row \in entries' : ActorOf(row) \in ActorsOf(plan)
  BY <1>2 DEF EntriesTyped, ReferralsTyped
<1>7. /\ \A d \in Callers : /\ wcall'[d] \in {Idle} \cup WaitlistCalls \/ Placed(wcall'[d])
                            /\ WDuty(d)' /\ RDuty(d)' /\ rcall'[d] \in {R!Idle} \cup ReferralCalls
  BY <1>2 DEF WTyped, RTyped
<1>8. plan' \in Deployments /\ options' = [adapter |-> plan'.adapter, refers |-> plan'.refers]
      /\ offer' = plan'.offer
  BY <1>1 DEF TInv
<1> QED
  BY <1>1, <1>3, <1>4, <1>5, <1>6, <1>7, <1>8 DEF TInv, Placed, ActorsOf

-----------------------------------------------------------------------------
(***************************************************************************)
(* An actor waits once.                                                    *)
(***************************************************************************)

(* Races and mistakes are noted as they happen, and not forgotten. *)
LEMMA RacesNoted ==
    ASSUME Next
    PROVE  raced \subseteq raced' /\ Muddled \subseteq Muddled' /\ Together' /\ Noted'
<1> DEFINE clashes == UNION {Adding(p[1])' \cap Adding(p[2])' : p \in Pairs}
<1>1. raced' = raced \cup clashes
  BY Zenon DEF Next, Observe
<1>2. ASSUME NEW c \in Callers, NEW d \in Callers, c # d
      PROVE  Adding(c)' \cap Adding(d)' \subseteq clashes
  <2>1. <<c, d>> \in Pairs
    BY <1>2 DEF Pairs
  <2>2. <<c, d>>[1] = c /\ <<c, d>>[2] = d
    OBVIOUS
  <2>3. PICK p \in Pairs : p[1] = c /\ p[2] = d
    BY <2>1, <2>2
  <2>4. Adding(p[1])' = Adding(c)' /\ Adding(p[2])' = Adding(d)'
    BY <2>3
  <2> QED
    BY <2>3, <2>4
<1> DEFINE misled == {Current(c).person' : c \in {d \in Callers : Mistakes(d)'}}
<1>3. mistaken' = mistaken \cup misled
  BY Zenon DEF Next, Observe
<1>4. ASSUME NEW c \in Callers, Mistakes(c)'
      PROVE  Current(c).person' \in misled
  BY <1>4
<1> HIDE DEF clashes, misled
<1>5. Noted'
  BY <1>3, <1>4 DEF Noted
<1> QED
  BY <1>1, <1>2, <1>3, <1>5 DEF Together, Muddled

(* A step that leaves a call as it is. *)
Passive(c) == AskingReferral(c) \/ TakingReferral(c) \/ ServingReferral(c)
LEMMA PassiveKeeps ==
    ASSUME NEW c \in Callers, Passive(c)
    PROVE  wcall' = wcall /\ Same
BY Zenon DEF Passive, AskingReferral, TakingReferral, ServingReferral

(* The stages a call is at after its step. *)
LEMMA StageAfter ==
    ASSUME TInv, Explicit(plan), NEW c \in Callers, Acts(c)
    PROVE  /\ Starting(c) => wcall'[c].at \in {"find", "list"}
           /\ Taking(c) => wcall'[c].at = "idle"
           /\ Looking(c) =>
                  \/ wcall[c].op \in Adders /\ Matching(Current(c)) = {} /\ Moves(c, "create")
                  \/ wcall'[c].at \in {"find", "remove", "returned"}
           /\ Targeting(c) => wcall'[c].at \in {"find", "remove", "delete", "returned"}
           /\ Listing(c) => wcall'[c].at \in {"remove", "returned"}
           /\ Throwing(c) => wcall'[c].at = "returned"
           /\ Inviting(c) => wcall'[c].at = "refer"
           /\ Referring(c) => wcall'[c].at \in {"find", "returned"}
           /\ Creating(c) \/ Removing(c) => wcall'[c].at \in {"find", "remove", "returned"}
<1> DEFINE k == wcall[c]
<1>1. ASSUME Advances(c), k \in WaitlistCalls
      PROVE  wcall'[c].at \in {"find", "remove", "returned"}
  BY <1>1, AdvanceFields DEF LoopsAt
<1>2. ASSUME NEW out \in Outs, EndsAs(c, out), k \in WaitlistCalls
      PROVE  wcall'[c].at = "returned"
  BY <1>2, EndFields
<1>3. ASSUME NEW at, Moves(c, at)
      PROVE  wcall'[c].at = at
  BY <1>3, Zenon DEF Moves
<1>4. "already" \in Outs /\ "missing" \in Outs /\ "done" \in Outs /\ "threw" \in Outs
  BY DEF Outs
<1>5. ASSUME k.at \in Stages \ {"returned"}
      PROVE  k \in WaitlistCalls
  BY <1>5, Busy
<1>6. Starting(c) => wcall'[c].at \in {"find", "list"}
  BY DEF Starting, Fresh
<1>7. Taking(c) => wcall'[c].at = "idle"
  BY DEF Taking, Idle
<1>8. ASSUME Looking(c)
      PROVE  \/ k.op \in Adders /\ Matching(Current(c)) = {} /\ Moves(c, "create")
             \/ wcall'[c].at \in {"find", "remove", "returned"}
  <2>1. k.at = "find"
    BY <1>8, Zenon DEF Looking
  <2>2. k \in WaitlistCalls
    BY <1>5, <2>1 DEF Stages
  <2> QED
    BY <1>1, <1>2, <1>3, <1>4, <1>8, <2>2, LooksMove
<1>9. ASSUME Targeting(c)
      PROVE  wcall'[c].at \in {"find", "remove", "delete", "returned"}
  <2>1. k.at = "remove"
    BY <1>9, Zenon DEF Targeting
  <2>2. k \in WaitlistCalls
    BY <1>5, <2>1 DEF Stages
  <2> QED
    BY <1>1, <1>3, <1>9, <2>2, TargetsMove
<1>10. Listing(c) => wcall'[c].at \in {"remove", "returned"}
  <2>1. plan' = plan /\ options' = options
    BY Zenon DEF Acts, Settings
  <2> QED
    BY <2>1, ListsDuty
<1>11. ASSUME Throwing(c)
       PROVE  wcall'[c].at = "returned"
  <2>1. InFlight(c) /\ EndsAs(c, "threw")
    BY <1>11, Zenon DEF Throwing
  <2>2. k \in WaitlistCalls
    BY <2>1 DEF InFlight, TInv, Placed, Idle
  <2> QED
    BY <1>2, <1>4, <2>1, <2>2
<1>12. Inviting(c) => wcall'[c].at = "refer"
  <2> SUFFICES ASSUME Inviting(c) PROVE wcall'[c].at = "refer"
    OBVIOUS
  <2>1. PICK i : Fresh(i) /\ wcall'[c] = FreshInvitation(i)
    BY Zenon DEF Inviting
  <2>2. i \in WaitlistCalls
    BY <2>1, Zenon DEF Fresh
  <2> QED
    BY <2>1, <2>2 DEF FreshInvitation, WaitlistCalls
<1>13. ASSUME Referring(c)
       PROVE  wcall'[c].at \in {"find", "returned"}
  <2>1. k.at = "refer"
    BY <1>13, Zenon DEF Referring
  <2>2. k \in WaitlistCalls
    BY <1>5, <2>1 DEF Stages
  <2>3. wcall'[c] = [k EXCEPT !.at = "find"] => wcall'[c].at = "find"
    BY <2>2 DEF WaitlistCalls
  <2>4. EndsAs(c, "threw") => wcall'[c].at = "returned"
    BY <1>2, <1>4, <2>2
  <2> QED
    BY <1>13, <2>3, <2>4, Zenon DEF Referring
<1>14. ASSUME Creating(c) \/ Removing(c)
       PROVE  wcall'[c].at \in {"find", "remove", "returned"}
  <2>1. Advances(c) /\ k.at \in {"create", "remove", "delete"}
    BY <1>14, Zenon DEF Creating, Removing
  <2>2. k \in WaitlistCalls
    BY <1>5, <2>1 DEF Stages
  <2> QED
    BY <1>1, <2>1, <2>2
<1> QED
  BY <1>6, <1>7, <1>8, <1>9, <1>10, <1>11, <1>12, <1>13, <1>14

(* A step leads to the stage of a creation only when no entry was found. *)
LEMMA CreateAfter ==
    ASSUME TInv, Explicit(plan), NEW c \in Callers, Acts(c), wcall'[c].at = "create"
    PROVE  /\ ~Creating(c) /\ ~Removing(c) /\ Same
           /\ wcall'[c] = wcall[c] \/ (Matching(Current(c)) = {} /\ Moves(c, "create"))
<1>1. ~Starting(c) /\ ~Taking(c) /\ ~Targeting(c) /\ ~Listing(c) /\ ~Throwing(c) /\ ~Inviting(c)
      /\ ~Referring(c) /\ ~Creating(c) /\ ~Removing(c)
  BY StageAfter
<1>2. Looking(c) \/ Passive(c)
  BY <1>1, Zenon DEF Acts, Quiet, Serves, Passive
<1>3. CASE Looking(c)
  <2>1. Matching(Current(c)) = {} /\ Moves(c, "create")
    BY <1>3, StageAfter
  <2>2. Same
    BY <1>3, Zenon DEF Looking
  <2> QED
    BY <1>1, <2>1, <2>2
<1>4. CASE Passive(c)
  BY <1>1, <1>4, PassiveKeeps
<1> QED
  BY <1>2, <1>3, <1>4

(* Entries only leave, unless one is created. *)
LEMMA EntriesShrink ==
    ASSUME NEW c \in Callers, Acts(c), ~Creating(c)
    PROVE  entries' \subseteq entries
<1>1. CASE Removing(c)
  BY <1>1 DEF Removing
<1>2. CASE ~Removing(c)
  <2>1. Same
    BY <1>2, Zenon DEF Acts, Quiet, Starting, Taking, Looking, Targeting, Listing, Throwing, Serves,
       Inviting, Referring, AskingReferral, TakingReferral, ServingReferral
  <2> QED
    BY <2>1 DEF Same
<1> QED
  BY <1>1, <1>2

LEMMA WInvActs ==
    ASSUME TInv, Explicit(plan), WInv, NEW c \in Callers, Acts(c), raced \subseteq raced'
    PROVE  /\ WaitsOnce'
           /\ \A d \in Callers : wcall'[d].at = "create" =>
                  \A row \in entries' : SameActor(row, Current(d)') => row.person \in raced'
<1>0. \A d \in Callers \ {c} : wcall'[d] = wcall[d] /\ Current(d)' = Current(d)
  BY Zenon DEF Acts, OnlyOf, Current
<1>1. \A d \in Callers : wcall[d].at = "create" =>
          \A row \in entries : SameActor(row, Current(d)) => row.person \in raced
  BY Zenon DEF WInv
<1>2. \A r1, r2 \in entries :
          (r1.person = r2.person /\ r1.org = r2.org /\ r1 # r2) => r1.person \in raced
  BY Zenon DEF WInv, WaitsOnce
<1>3. CASE Creating(c)
  <2>1. PICK n : n = NewEntry(c)
    OBVIOUS
  <2>2. n \in EntryRows /\ SameActor(n, Current(c)) /\ n.person = Current(c).person
    BY <1>3, <2>1, NewEntryTyped
  <2>3. wcall[c].at = "create" /\ entries' = entries \cup {n}
    BY <1>3, <2>1, Zenon DEF Creating
  <2>4. wcall'[c].at # "create"
    BY <1>3, CreateAfter
  <2>5. \A row \in entries : (row.person = n.person /\ row.org = n.org) => row.person \in raced
    BY <1>1, <2>2, <2>3 DEF SameActor
  <2>6. WaitsOnce'
    BY <1>2, <2>3, <2>5 DEF WaitsOnce
  <2>7. ASSUME NEW d \in Callers, wcall'[d].at = "create", NEW row \in entries',
               SameActor(row, Current(d)')
        PROVE  row.person \in raced'
    <3>1. d # c /\ wcall[d].at = "create" /\ Current(d)' = Current(d)
      BY <1>0, <2>4, <2>7
    <3>2. CASE row \in entries
      BY <1>1, <2>7, <3>1, <3>2
    <3>3. CASE row = n
      <4>1. n.person = Current(d).person
        BY <2>7, <3>1, <3>3 DEF SameActor
      <4>2. n.person \in Adding(d) /\ n.person \in Adding(c)
        BY <2>2, <2>3, <3>1, <4>1 DEF Adding
      <4>3. Together
        BY Zenon DEF WInv
      <4> QED
        BY <3>1, <3>3, <4>2, <4>3 DEF Together
    <3> QED
      BY <2>3, <3>2, <3>3
  <2> QED
    BY <2>6, <2>7
<1>4. CASE ~Creating(c)
  <2>1. entries' \subseteq entries
    BY <1>4, EntriesShrink
  <2>2. WaitsOnce'
    BY <1>2, <2>1 DEF WaitsOnce
  <2>3. ASSUME NEW d \in Callers, wcall'[d].at = "create", NEW row \in entries',
               SameActor(row, Current(d)')
        PROVE  row.person \in raced'
    <3>1. CASE wcall'[d] = wcall[d]
      <4>1. Current(d)' = Current(d)
        BY <3>1 DEF Current
      <4> QED
        BY <1>1, <2>1, <2>3, <3>1, <4>1
    <3>2. CASE wcall'[d] # wcall[d]
      <4>1. d = c
        BY <1>0, <3>2
      <4>2. Matching(Current(c)) = {} /\ Moves(c, "create") /\ Same
        BY <2>3, <3>2, <4>1, CreateAfter
      <4>3. wcall'[c].actors = wcall[c].actors /\ wcall'[c].next = wcall[c].next
        BY <4>2, Zenon DEF Moves
      <4>4. Current(c)' = Current(c)
        BY <4>3 DEF Current
      <4>5. SameActor(row, Current(c)) /\ row \in entries
        BY <2>1, <2>3, <4>1, <4>4
      <4>6. Looking(c)
        <5>1. ~Starting(c) /\ ~Taking(c) /\ ~Targeting(c) /\ ~Listing(c) /\ ~Throwing(c) /\ ~Inviting(c)
              /\ ~Referring(c) /\ ~Creating(c) /\ ~Removing(c)
          BY <2>3, <4>1, StageAfter
        <5>2. ~Passive(c)
          BY <3>2, <4>1, PassiveKeeps
        <5> QED
          BY <5>1, <5>2, Zenon DEF Acts, Quiet, Serves, Passive
      <4>7. wcall[c].at = "find"
        BY <4>6, Zenon DEF Looking
      <4>8. Current(c) \in Actors
        BY <4>7, CurrentActor DEF Stages
      <4>9. row \in Matching(Current(c))
        BY <4>5, <4>8, MatchingHas, TablesNow
      <4> QED
        BY <4>2, <4>9
    <3> QED
      BY <3>1, <3>2
  <2> QED
    BY <2>2, <2>3
<1> QED
  BY <1>3, <1>4

LEMMA WInvSteps ==
    ASSUME TInv, Explicit(plan), WInv, Next
    PROVE  WInv'
<1>1. raced \subseteq raced' /\ Together' /\ Noted'
  BY RacesNoted
<1>2. CASE \E c \in Callers : Acts(c)
  <2>1. /\ WaitsOnce'
        /\ \A d \in Callers : wcall'[d].at = "create" =>
                  \A row \in entries' : SameActor(row, Current(d)') => row.person \in raced'
    BY <1>1, <1>2, WInvActs
  <2> QED
    BY <1>1, <2>1 DEF WInv, SameActor
<1>3. CASE Aside
  <2>1. wcall' = wcall /\ entries' = entries
    BY <1>3, Zenon DEF Aside, Same
  <2> QED
    BY <1>1, <2>1 DEF WInv, WaitsOnce, Current
<1> QED
  BY <1>2, <1>3, Steps

-----------------------------------------------------------------------------
(***************************************************************************)
(* What pop hands out is gone.                                             *)
(***************************************************************************)

(* What a removal finds by the key of its actor. *)
LEMMA SoughtOwn ==
    ASSUME TInv, Explicit(plan), WInv, NEW c \in Callers, wcall[c].at = "remove"
    PROVE  /\ Sought(c) \subseteq entries
           /\ \A row \in Sought(c) : StandsFor(Parsed(Current(c)), row)
           /\ \/ Current(c).person \in mistaken
              \/ /\ \A row \in entries : SameActor(row, Current(c)) => row \in Sought(c)
                 /\ Memory => \A row \in Sought(c) : SameActor(row, Current(c))
<1>1. Current(c) \in Actors
  BY CurrentActor DEF Stages
<1>2. Parsed(Current(c)) \in Actors
  BY <1>1, ParsedActor
<1>3. Sought(c) = {row \in entries : StandsFor(Parsed(Current(c)), row)}
  BY <1>2, MatchingIs, TablesNow DEF Sought
<1>4. CASE Parsed(Current(c)) # Current(c)
  <2>1. Mistakes(c)
    BY <1>4 DEF Mistakes
  <2>2. Noted
    BY Zenon DEF WInv
  <2> QED
    BY <1>3, <2>1, <2>2 DEF Noted
<1>5. CASE Parsed(Current(c)) = Current(c)
  <2>1. \A row : SameActor(row, Current(c)) => StandsFor(Current(c), row)
    BY OwnStands
  <2>2. Memory => \A row : StandsFor(Current(c), row) => SameActor(row, Current(c))
    BY DEF StandsFor, SameActor
  <2> QED
    BY <1>3, <1>5, <2>1, <2>2
<1> QED
  BY <1>4, <1>5

LEMMA TargetOwn ==
    ASSUME Noted', NEW c \in Callers, Same, Moves(c, "delete"),
           NEW r2 \in entries, wcall'[c].target = r2.id
    PROVE  SameActor(r2, Current(c)) \/ Current(c).person \in mistaken'
<1>1. wcall'[c].actors = wcall[c].actors /\ wcall'[c].next = wcall[c].next
      /\ wcall'[c].at = "delete"
  BY Zenon DEF Moves
<1>2. Current(c)' = Current(c)
  BY <1>1 DEF Current
<1>3. CASE ~SameActor(r2, Current(c))
  <2>1. ~SameActor(r2, Current(c))'
    BY <1>2, <1>3 DEF SameActor
  <2>2. \E row \in entries' : row.id = wcall'[c].target /\ ~SameActor(row, Current(c))'
    BY <2>1 DEF Same
  <2>3. Mistakes(c)'
    BY <1>1, <2>2 DEF Mistakes, SameActor
  <2> QED
    BY <1>2, <2>3 DEF Noted
<1> QED
  BY <1>3

(* A call that goes on is about what it was about. *)
LEMMA CallKept ==
    ASSUME TInv, Explicit(plan), NEW c \in Callers, Acts(c)
    PROVE  \/ Starting(c) \/ Taking(c) \/ Inviting(c) \/ Listing(c)
           \/ /\ wcall'[c].op = wcall[c].op /\ wcall'[c].actors = wcall[c].actors
              /\ wcall'[c].at = "returned" \/ wcall'[c].read = wcall[c].read
<1> DEFINE k == wcall[c]
           kept == /\ wcall'[c].op = k.op /\ wcall'[c].actors = k.actors
                   /\ (wcall'[c].at = "returned" \/ wcall'[c].read = k.read)
<1>1. ASSUME Advances(c), k \in WaitlistCalls
      PROVE  kept
  BY <1>1, AdvanceFields
<1>2. ASSUME NEW out \in Outs, EndsAs(c, out), k \in WaitlistCalls
      PROVE  kept
  BY <1>2, EndFields
<1>3. ASSUME NEW at, Moves(c, at)
      PROVE  kept
  BY <1>3, Zenon DEF Moves
<1>4. "already" \in Outs /\ "missing" \in Outs /\ "done" \in Outs /\ "threw" \in Outs
  BY DEF Outs
<1>5. ASSUME k.at \in Stages \ {"returned"}
      PROVE  k \in WaitlistCalls
  BY <1>5, Busy
<1>6. ASSUME Passive(c)
      PROVE  kept
  BY <1>6, PassiveKeeps
<1>7. ASSUME Looking(c)
      PROVE  kept
  <2>1. k.at = "find"
    BY <1>7, Zenon DEF Looking
  <2>2. k \in WaitlistCalls
    BY <1>5, <2>1 DEF Stages
  <2> HIDE DEF kept
  <2> QED
    BY <1>1, <1>2, <1>3, <1>4, <1>7, <2>2, LooksMove
<1>8. ASSUME Targeting(c)
      PROVE  kept
  <2>1. k.at = "remove"
    BY <1>8, Zenon DEF Targeting
  <2>2. k \in WaitlistCalls
    BY <1>5, <2>1 DEF Stages
  <2> HIDE DEF kept
  <2> QED
    BY <1>1, <1>3, <1>8, <2>2, TargetsMove
<1>9. ASSUME Throwing(c)
      PROVE  kept
  <2>1. InFlight(c) /\ EndsAs(c, "threw")
    BY <1>9, Zenon DEF Throwing
  <2>2. k \in WaitlistCalls
    BY <2>1 DEF InFlight, TInv, Placed, Idle
  <2> HIDE DEF kept
  <2> QED
    BY <1>2, <1>4, <2>1, <2>2
<1>10. ASSUME Referring(c)
       PROVE  kept
  <2>1. k.at = "refer"
    BY <1>10, Zenon DEF Referring
  <2>2. k \in WaitlistCalls
    BY <1>5, <2>1 DEF Stages
  <2>3. CASE wcall'[c] = [k EXCEPT !.at = "find"]
    <3>1. PICK n : n = wcall'[c]
      OBVIOUS
    <3>2. n = [k EXCEPT !.at = "find"]
      BY <2>3, <3>1
    <3>3. n.op = k.op /\ n.actors = k.actors /\ n.read = k.read
      BY <2>2, <3>2 DEF WaitlistCalls
    <3> QED
      BY <3>1, <3>3
  <2>4. CASE EndsAs(c, "threw")
    <3> HIDE DEF kept
    <3> QED
      BY <1>2, <1>4, <2>2, <2>4
  <2> QED
    BY <1>10, <2>3, <2>4, Zenon DEF Referring
<1>11. ASSUME Creating(c) \/ Removing(c)
       PROVE  kept
  <2>1. Advances(c) /\ k.at \in {"create", "remove", "delete"}
    BY <1>11, Zenon DEF Creating, Removing
  <2>2. k \in WaitlistCalls
    BY <1>5, <2>1 DEF Stages
  <2> HIDE DEF kept
  <2> QED
    BY <1>1, <2>1, <2>2
<1> QED
  BY <1>6, <1>7, <1>8, <1>9, <1>10, <1>11, Zenon DEF Acts, Quiet, Serves, Passive

(* A pop between its read and its answer has the one entry it read. *)
LEMMA PopHas ==
    ASSUME TInv, NEW c \in Callers, Pops(c)
    PROVE  /\ wcall[c] \in WaitlistCalls
           /\ \E row \in EntryRows :
                  /\ wcall[c].read = {row} /\ wcall[c].actors = <<ActorOf(row)>>
                  /\ row.id <= issued /\ row.id \in Nat
                  /\ Current(c) = ActorOf(row) /\ SameActor(row, Current(c))
                  /\ Current(c) \in Actors
<1>1. wcall[c].op = "pop" /\ wcall[c].at \in {"remove", "delete"}
  BY DEF Pops
<1>2. wcall[c].at \in Stages \ {"returned"}
  BY <1>1 DEF Stages
<1>3. wcall[c] \in WaitlistCalls /\ WDuty(c) /\ wcall[c] # Idle
      /\ wcall[c].next \in DOMAIN wcall[c].actors
  BY <1>1, <1>2, Busy
<1>4. PICK row \in wcall[c].read :
          wcall[c].read = {row} /\ wcall[c].actors = <<ActorOf(row)>> /\ row.id <= issued
  BY <1>1, <1>3, Zenon DEF WDuty
<1>5. row \in EntryRows
  BY <1>3 DEF WaitlistCalls
<1>6. wcall[c].next = 1
  BY <1>3, <1>4
<1>7. Current(c) = ActorOf(row)
  BY <1>4, <1>6 DEF Current
<1>8. row.id \in Nat
  BY <1>5 DEF EntryRows
<1> QED
  BY <1>3, <1>4, <1>5, <1>7, <1>8, RowOfActor

(* Only those are read by a pop in progress. *)
LEMMA PopReadsOne ==
    ASSUME TInv, NEW c \in Callers, NEW row \in ReadByPop(c)
    PROVE  Pops(c) /\ wcall[c].read = {row} /\ row \in EntryRows /\ row.id <= issued
           /\ row.id \in Nat
<1>1. wcall[c].op = "pop" /\ InFlight(c) /\ row \in wcall[c].read
  BY DEF ReadByPop
<1>2. wcall[c] \in WaitlistCalls
  BY <1>1 DEF TInv, Placed, InFlight, Idle
<1>3. wcall[c].at \in Stages \ {"returned"}
  BY <1>1, <1>2 DEF WaitlistCalls, InFlight
<1>4. wcall[c] # Idle /\ WDuty(c) /\ wcall[c].at \in StagesOf("pop")
  BY <1>1, <1>3, Busy
<1>5. wcall[c].at # "list"
  BY <1>1, <1>4 DEF WDuty
<1>6. Pops(c)
  BY <1>1, <1>3, <1>4, <1>5 DEF Pops, StagesOf, Adders, Leavers
<1> QED
  BY <1>1, <1>6, PopHas

(* What a pop answers is gone by then, or its person was added in a race. *)
LEMMA PoppedIsGone ==
    ASSUME TInv, Explicit(plan), WInv, HInv, NEW c \in Callers, Acts(c),
           NEW row \in PoppedNow(c)
    PROVE  /\ row \in ReadByPop(c) /\ ~InFlight(c)'
           /\ row.person \in Muddled \/ row \notin entries'
<1>1. Pops(c) /\ wcall'[c].at = "returned" /\ wcall'[c].out = "done" /\ row \in wcall[c].read
  BY DEF PoppedNow, Pops
<1>2. row \in ReadByPop(c)
  BY <1>1 DEF Pops, ReadByPop, InFlight
<1>3. ~InFlight(c)'
  BY <1>1 DEF InFlight
<1>4. wcall[c].read = {row} /\ SameActor(row, Current(c)) /\ Current(c) \in Actors
      /\ wcall[c] \in WaitlistCalls /\ wcall[c].op = "pop" /\ wcall[c].at \in {"remove", "delete"}
  BY <1>1, PopHas DEF Pops
<1>5. Targeting(c) \/ Removing(c)
  <2>1. wcall[c] # Idle /\ wcall[c].at \notin {"returned", "find", "list", "refer", "create"}
    BY <1>4 DEF Idle
  <2>2. wcall[c] # wcall'[c]
    BY <1>1, <1>4
  <2>3. ~Throwing(c)
    <3> SUFFICES ASSUME Throwing(c) PROVE FALSE
      OBVIOUS
    <3>1. EndsAs(c, "threw")
      BY Zenon DEF Throwing
    <3>2. wcall'[c].out = "threw"
      BY <1>4, <3>1, EndFields DEF Outs
    <3> QED
      BY <1>1, <3>2
  <2>4. ~Passive(c)
    BY <2>2, PassiveKeeps
  <2>5. ~Starting(c) /\ ~Taking(c) /\ ~Looking(c) /\ ~Listing(c) /\ ~Inviting(c) /\ ~Referring(c)
        /\ ~Creating(c)
    BY <2>1, Zenon DEF Starting, Taking, Looking, Listing, Inviting, Referring, Creating
  <2> QED
    BY <2>3, <2>4, <2>5, Zenon DEF Acts, Quiet, Serves, Passive
<1>6. row.person = Current(c).person /\ mistaken \subseteq Muddled /\ raced \subseteq Muddled
  BY <1>4 DEF SameActor, Muddled
<1>7. CASE Targeting(c)
  <2>1. Same /\ wcall'[c].at # "delete" /\ wcall[c].at = "remove"
    BY <1>1, <1>7, Zenon DEF Targeting
  <2>2. ~Moves(c, "delete")
    BY <2>1, Zenon DEF Moves
  <2>3. Sought(c) = {}
    BY <1>7, <2>2, TargetsMove
  <2>4. Current(c).person \in mistaken \/ row \notin entries
    BY <1>4, <2>1, <2>3, SoughtOwn
  <2> QED
    BY <1>2, <1>3, <1>6, <2>1, <2>4 DEF Same
<1>8. CASE Removing(c)
  <2>3. CASE Current(c).person \in mistaken
    BY <1>2, <1>3, <1>6, <2>3
  <2>1. CASE /\ wcall[c].at = "remove" /\ Memory /\ Current(c).person \notin mistaken
             /\ \E r2 \in Sought(c) : entries' = {r \in entries : r.id # r2.id}
    <3>1. PICK r2 \in Sought(c) : entries' = {r \in entries : r.id # r2.id}
      BY <2>1
    <3>2. r2 \in entries /\ SameActor(r2, Current(c))
      BY <2>1, <3>1, SoughtOwn
    <3>3. row \in entries' => row \in entries /\ row # r2
      BY <3>1
    <3>4. row.person = r2.person /\ row.org = r2.org
      BY <1>4, <3>2 DEF SameActor
    <3>5. WaitsOnce
      BY Zenon DEF WInv
    <3>6. row \in entries' => row.person \in Muddled
      BY <1>6, <3>2, <3>3, <3>4, <3>5 DEF WaitsOnce
    <3> QED
      BY <1>2, <1>3, <3>6
  <2>2. CASE wcall[c].at = "delete" /\ entries' = {r \in entries : r.id # wcall[c].target}
    <3>1. row.person \in Muddled \/ row \notin entries \/ wcall[c].target = row.id
      BY <1>1, <2>2, Zenon DEF HInv
    <3> QED
      BY <1>2, <1>3, <2>2, <3>1
  <2> QED
    BY <1>8, <2>1, <2>2, <2>3, Zenon DEF Removing
<1> QED
  BY <1>5, <1>7, <1>8

(* What is noted of the pops. *)
LEMMA PopsNoted ==
    ASSUME Next
    PROVE  /\ \A row \in contested : Reachable(row)' => row \in contested'
           /\ \A c, d \in Callers : c # d => ReadByPop(c)' \cap ReadByPop(d)' \subseteq contested'
           /\ \A row \in handed' : row \in handed \/ \E c \in Callers : row \in PoppedNow(c)
           /\ \A row \in again' :
                  \/ row \in again
                  \/ row \in handed /\ row \notin contested /\ \E c \in Callers : row \in PoppedNow(c)
<1> DEFINE clashes == UNION {ReadByPop(p[1])' \cap ReadByPop(p[2])' : p \in Pairs}
           popped == UNION {PoppedNow(c) : c \in Callers}
<1>1. contested' = {row \in contested : Reachable(row)'} \cup clashes
  BY Zenon DEF Next, Observe
<1>2. /\ handed' = {row \in handed \cup popped : Reachable(row)'}
      /\ again' = again \cup ((popped \cap handed) \ contested)
  BY Zenon DEF Next, Observe
<1>3. ASSUME NEW c \in Callers, NEW d \in Callers, c # d
      PROVE  ReadByPop(c)' \cap ReadByPop(d)' \subseteq clashes
  <2>1. <<c, d>> \in Pairs
    BY <1>3 DEF Pairs
  <2>2. <<c, d>>[1] = c /\ <<c, d>>[2] = d
    OBVIOUS
  <2>3. PICK p \in Pairs : p[1] = c /\ p[2] = d
    BY <2>1, <2>2
  <2>4. ReadByPop(p[1])' = ReadByPop(c)' /\ ReadByPop(p[2])' = ReadByPop(d)'
    BY <2>3
  <2> QED
    BY <2>3, <2>4
<1>4. \A row \in popped : \E c \in Callers : row \in PoppedNow(c)
  OBVIOUS
<1> HIDE DEF clashes, popped
<1>5. \A row \in contested : Reachable(row)' => row \in contested'
  BY <1>1
<1>6. \A c, d \in Callers : c # d => ReadByPop(c)' \cap ReadByPop(d)' \subseteq contested'
  BY <1>1, <1>3
<1>7. \A row \in handed' : row \in handed \/ \E c \in Callers : row \in PoppedNow(c)
  BY <1>2, <1>4
<1>8. \A row \in again' :
          \/ row \in again
          \/ row \in handed /\ row \notin contested /\ \E c \in Callers : row \in PoppedNow(c)
  BY <1>2, <1>4
<1> QED
  BY <1>5, <1>6, <1>7, <1>8

(* What a pop has read after a step, it had read before, or it is read now. *)
LEMMA ReadAfter ==
    ASSUME TInv, Explicit(plan), NEW c \in Callers, Acts(c), NEW d \in Callers,
           NEW row \in ReadByPop(d)'
    PROVE  \/ row \in ReadByPop(d)
           \/ d = c /\ Listing(c) /\ row \in entries /\ wcall'[c].at = "remove"
<1>1. wcall'[d].op = "pop" /\ wcall'[d].at \notin {"idle", "returned"} /\ row \in wcall'[d].read
  BY DEF ReadByPop, InFlight
<1>2. CASE wcall'[d] = wcall[d]
  BY <1>1, <1>2 DEF ReadByPop, InFlight
<1>3. CASE wcall'[d] # wcall[d]
  <2>1. d = c
    BY <1>3, Zenon DEF Acts, OnlyOf
  <2>2. ~Taking(c)
    BY <1>1, <2>1, StageAfter
  <2>3. ~Starting(c)
    <3>1. Starting(c) => wcall'[c].read = {}
      BY DEF Starting, Fresh
    <3> QED
      BY <1>1, <2>1, <3>1
  <2>4. ~Inviting(c)
    <3> SUFFICES ASSUME Inviting(c) PROVE FALSE
      OBVIOUS
    <3>1. PICK i : Fresh(i) /\ i.op = "invite" /\ wcall'[c] = FreshInvitation(i)
      BY Zenon DEF Inviting
    <3>2. i \in WaitlistCalls
      BY <3>1, Zenon DEF Fresh
    <3>3. wcall'[c].op = "invite"
      BY <3>1, <3>2 DEF FreshInvitation, WaitlistCalls
    <3> QED
      BY <1>1, <2>1, <3>3
  <2>5. CASE Listing(c)
    <3>1. wcall[c].at = "list"
      BY <2>5, Zenon DEF Listing
    <3>2. plan' = plan /\ options' = options
      BY Zenon DEF Acts, Settings
    <3>3. wcall'[c].op = wcall[c].op /\ wcall'[c].at = "remove"
      BY <1>1, <2>1, <2>5, <3>2, ListsDuty
    <3>4. wcall[c] \in WaitlistCalls
      BY <3>1, Busy DEF Stages
    <3>5. ~EndsAs(c, "done")
      <4>1. EndsAs(c, "done") => wcall'[c].at = "returned"
        BY <3>4, EndFields DEF Outs
      <4> QED
        BY <1>1, <2>1, <4>1
    <3>6. wcall[c].op = "pop"
      BY <1>1, <2>1, <3>3
    <3>7. \E r \in entries :
              wcall'[c] = [wcall[c] EXCEPT !.at = "remove", !.read = {r}, !.actors = <<ActorOf(r)>>]
      <4>1. wcall[c].op # "cleanup" /\ wcall[c].op # "getPosition"
        BY <3>6
      <4> QED
        BY <2>5, <3>5, <3>6, <4>1, Zenon DEF Listing
    <3>8. PICK r \in entries :
              wcall'[c] = [wcall[c] EXCEPT !.at = "remove", !.read = {r}, !.actors = <<ActorOf(r)>>]
      BY <3>7, Zenon
    <3> DEFINE actors == <<ActorOf(r)>>
    <3>9. PICK n : n = wcall'[c]
      OBVIOUS
    <3>10. n = [wcall[c] EXCEPT !.at = "remove", !.read = {r}, !.actors = actors]
      BY <3>8, <3>9
    <3> HIDE DEF actors
    <3>11. n.read = {r}
      BY <3>4, <3>10 DEF WaitlistCalls
    <3>12. row = r
      BY <1>1, <2>1, <3>9, <3>11
    <3> QED
      BY <2>1, <2>5, <3>3, <3>12
  <2>6. CASE ~Listing(c)
    <3>1. wcall'[c].op = wcall[c].op /\ wcall'[c].read = wcall[c].read
      BY <1>1, <2>1, <2>2, <2>3, <2>4, <2>6, CallKept
    <3>2. InFlight(c)
      <4>1. wcall[c].at # "returned"
        <5> SUFFICES ASSUME wcall[c].at = "returned" PROVE FALSE
          OBVIOUS
        <5>1. ~Throwing(c)
          BY Zenon DEF Throwing, InFlight
        <5>2. ~Passive(c)
          BY <1>3, <2>1, PassiveKeeps
        <5>3. ~Looking(c) /\ ~Targeting(c) /\ ~Referring(c) /\ ~Creating(c) /\ ~Removing(c)
          BY Zenon DEF Looking, Targeting, Referring, Creating, Removing
        <5> QED
          BY <2>2, <2>3, <2>4, <2>6, <5>1, <5>2, <5>3, Zenon DEF Acts, Quiet, Serves, Passive
      <4>2. wcall[c] # Idle
        BY <1>1, <2>1, <3>1 DEF Idle
      <4>3. wcall[c].at # "idle"
        BY <4>1, <4>2 DEF TInv, WaitlistCalls, Stages, Placed
      <4> QED
        BY <4>1, <4>3 DEF InFlight
    <3> QED
      BY <1>1, <2>1, <3>1, <3>2 DEF ReadByPop
  <2> QED
    BY <2>5, <2>6
<1> QED
  BY <1>2, <1>3

LEMMA HInvActs ==
    ASSUME TInv, Explicit(plan), WInv, HInv, Next, NEW c \in Callers, Acts(c)
    PROVE  HInv'
<1>0. /\ \A row \in again : row.person \in Muddled
      /\ \A row \in handed : row.person \in Muddled \/ row \notin entries
      /\ \A row \in handed : row \in EntryRows /\ row.id <= issued
      /\ \A d, e \in Callers : d # e => ReadByPop(d) \cap ReadByPop(e) \subseteq contested
      /\ \A d \in Callers : \A row \in ReadByPop(d) \cap handed :
             row \in contested \/ row.person \in Muddled
      /\ \A d \in Callers : Pops(d) /\ wcall[d].at = "delete" =>
             \A row \in wcall[d].read :
                 row.person \in Muddled \/ row \notin entries \/ wcall[d].target = row.id
  BY Zenon DEF HInv, HandedOnce
<1>1. Muddled \subseteq Muddled' /\ Noted'
  BY RacesNoted
<1>2. /\ \A row \in contested : Reachable(row)' => row \in contested'
      /\ \A d, e \in Callers : d # e => ReadByPop(d)' \cap ReadByPop(e)' \subseteq contested'
      /\ \A row \in handed' : row \in handed \/ \E d \in Callers : row \in PoppedNow(d)
      /\ \A row \in again' :
             \/ row \in again
             \/ row \in handed /\ row \notin contested /\ \E d \in Callers : row \in PoppedNow(d)
  BY PopsNoted
<1>3. \A d \in Callers \ {c} : wcall'[d] = wcall[d]
  BY Zenon DEF Acts, OnlyOf
<1>4. \A d \in Callers : \A row \in PoppedNow(d) : d = c
  <2> SUFFICES ASSUME NEW d \in Callers, NEW row \in PoppedNow(d) PROVE d = c
    OBVIOUS
  <2>1. wcall[d].at \in {"remove", "delete"} /\ wcall'[d].at = "returned"
    BY DEF PoppedNow
  <2> QED
    BY <1>3, <2>1
<1>5. \A row \in PoppedNow(c) : /\ row \in ReadByPop(c) /\ ~InFlight(c)'
                                /\ row.person \in Muddled \/ row \notin entries'
  BY PoppedIsGone
<1>6. \A row \in entries' \ entries : row.id = issued + 1
  <2>1. CASE Creating(c)
    <3>1. entries' = entries \cup {NewEntry(c)}
      BY <2>1, Zenon DEF Creating
    <3> QED
      BY <2>1, <3>1, NewEntryTyped
  <2>2. CASE ~Creating(c)
    BY <2>2, EntriesShrink
  <2> QED
    BY <2>1, <2>2
<1>7. issued \in Nat /\ issued' \in Nat /\ issued <= issued'
  BY ActsTyped, TablesNow DEF EntriesTyped
<1>8. \A row \in EntryRows : row.id <= issued => (row \in entries' => row \in entries)
  <2>1. \A row \in EntryRows : row.id \in Nat
    BY DEF EntryRows
  <2> QED
    BY <1>6, <1>7, <2>1
<1>9. HandedOnce'
  <2>1. \A row \in again' : row.person \in Muddled'
    BY <1>0, <1>1, <1>2, <1>4, <1>5
  <2>2. \A row \in handed' : row.person \in Muddled' \/ row \notin entries'
    BY <1>0, <1>1, <1>2, <1>4, <1>5, <1>8
  <2> QED
    BY <2>1, <2>2 DEF HandedOnce
<1>10. \A row \in handed' : row \in EntryRows /\ row.id <= issued'
  <2> SUFFICES ASSUME NEW row \in handed' PROVE row \in EntryRows /\ row.id <= issued'
    OBVIOUS
  <2>1. CASE row \in handed
    <3>1. row \in EntryRows /\ row.id <= issued /\ row.id \in Nat
      BY <1>0, <2>1 DEF EntryRows
    <3> QED
      BY <1>7, <3>1
  <2>2. CASE row \in PoppedNow(c)
    <3>1. row \in EntryRows /\ row.id <= issued /\ row.id \in Nat
      BY <1>5, <2>2, PopReadsOne
    <3> QED
      BY <1>7, <3>1
  <2> QED
    BY <1>2, <1>4, <2>1, <2>2
<1>11. ASSUME NEW d \in Callers, NEW row \in ReadByPop(d)', row \in handed'
       PROVE  row \in contested' \/ row.person \in Muddled'
  <2>1. Reachable(row)'
    BY <1>11 DEF Reachable
  <2>2. row \in ReadByPop(d) \/ (d = c /\ row \in entries /\ wcall'[c].at = "remove")
    BY ReadAfter
  <2>3. CASE row \in handed
    BY <1>0, <1>1, <1>2, <2>1, <2>2, <2>3
  <2>4. CASE row \in PoppedNow(c)
    <3>1. InFlight(d)'
      BY <1>11 DEF ReadByPop
    <3>2. d # c
      BY <1>5, <2>4, <3>1
    <3>3. row \in ReadByPop(d) /\ row \in ReadByPop(c)
      BY <1>5, <2>2, <2>4, <3>2
    <3>4. row \in contested
      BY <1>0, <3>2, <3>3
    <3> QED
      BY <1>2, <2>1, <3>4
  <2> QED
    BY <1>2, <1>4, <1>11, <2>3, <2>4
<1>12. ASSUME NEW d \in Callers, Pops(d)', wcall'[d].at = "delete", NEW row \in wcall'[d].read
       PROVE  row.person \in Muddled' \/ row \notin entries' \/ wcall'[d].target = row.id
  <2>1. wcall'[d].op = "pop"
    BY <1>12 DEF Pops
  <2>2. CASE wcall'[d] = wcall[d]
    <3>1. Pops(d) /\ wcall[d].at = "delete" /\ row \in wcall[d].read
      BY <1>12, <2>1, <2>2 DEF Pops
    <3>2. row.person \in Muddled \/ row \notin entries \/ wcall[d].target = row.id
      BY <1>0, <3>1
    <3>3. row \in EntryRows /\ row.id <= issued
      BY <3>1, PopHas
    <3> QED
      BY <1>1, <1>8, <2>2, <3>2, <3>3
  <2>3. CASE wcall'[d] # wcall[d]
    <3>1. d = c
      BY <1>3, <2>3
    <3>2. Targeting(c)
      <4>1. ~Passive(c)
        BY <2>3, <3>1, PassiveKeeps
      <4>2. Looking(c) => FALSE
        <5>1. Moves(c, "create") => wcall'[c].at = "create"
          BY Zenon DEF Moves
        <5> QED
          BY <1>12, <3>1, <5>1, StageAfter
      <4>3. ~Starting(c) /\ ~Taking(c) /\ ~Listing(c) /\ ~Throwing(c) /\ ~Inviting(c)
            /\ ~Referring(c) /\ ~Creating(c) /\ ~Removing(c)
        BY <1>12, <3>1, StageAfter
      <4> QED
        BY <4>1, <4>2, <4>3, Zenon DEF Acts, Quiet, Serves, Passive
    <3>3. ~Advances(c)
      <4>1. wcall[c].at = "remove"
        BY <3>2, Zenon DEF Targeting
      <4>2. wcall[c] \in WaitlistCalls
        BY <4>1, Busy DEF Stages
      <4>3. Advances(c) => wcall'[c].at \in {"find", "remove", "returned"}
        BY <4>2, AdvanceFields DEF LoopsAt
      <4> QED
        BY <1>12, <3>1, <4>3
    <3>4. PICK r2 \in Sought(c) :
              r2 \in entries /\ Moves(c, "delete") /\ wcall'[c].target = r2.id
      BY <3>2, <3>3, TargetsMove
    <3>5. wcall[c].op = "pop" /\ wcall[c].at = "remove" /\ wcall[c].read = wcall'[c].read /\ Same
      BY <2>1, <3>1, <3>2, <3>4, Zenon DEF Moves, Targeting
    <3>6. wcall[c].read = {row} /\ SameActor(row, Current(c)) /\ row \in EntryRows
      BY <1>12, <3>1, <3>5, PopHas DEF Pops
    <3>7. row.person = Current(c).person /\ mistaken' \subseteq Muddled'
      BY <3>6 DEF SameActor, Muddled
    <3>8. SameActor(r2, Current(c)) \/ Current(c).person \in mistaken'
      BY <1>1, <3>4, <3>5, TargetOwn
    <3>9. SameActor(r2, Current(c)) => row.person = r2.person /\ row.org = r2.org
      BY <3>6 DEF SameActor
    <3>10. WaitsOnce
      BY Zenon DEF WInv
    <3>11. row \in entries => row.person \in Muddled' \/ row = r2
      BY <1>1, <3>4, <3>7, <3>8, <3>9, <3>10 DEF WaitsOnce, Muddled
    <3>12. entries' = entries
      BY <3>5 DEF Same
    <3> QED
      BY <1>1, <3>1, <3>4, <3>11, <3>12
  <2> QED
    BY <2>2, <2>3
<1>13. \A d, e \in Callers : d # e => ReadByPop(d)' \cap ReadByPop(e)' \subseteq contested'
  BY <1>2
<1> QED
  BY <1>9, <1>10, <1>11, <1>12, <1>13 DEF HInv

LEMMA HInvSteps ==
    ASSUME TInv, Explicit(plan), WInv, HInv, Next
    PROVE  HInv'
<1>1. CASE \E c \in Callers : Acts(c)
  BY <1>1, HInvActs
<1>2. CASE Aside
  <2>1. wcall' = wcall /\ entries' = entries /\ issued' = issued
    BY <1>2, Zenon DEF Aside, Same
  <2>2. Muddled \subseteq Muddled'
    BY RacesNoted
  <2>3. \A d \in Callers : PoppedNow(d) = {}
    BY <2>1 DEF PoppedNow
  <2>4. \A d \in Callers : ReadByPop(d)' = ReadByPop(d)
    BY <2>1 DEF ReadByPop, InFlight
  <2>5. /\ \A row \in contested : Reachable(row)' => row \in contested'
        /\ \A d, e \in Callers : d # e => ReadByPop(d)' \cap ReadByPop(e)' \subseteq contested'
        /\ \A row \in handed' : row \in handed
        /\ \A row \in again' : row \in again
    BY <2>3, PopsNoted
  <2>6. HandedOnce'
    BY <2>1, <2>2, <2>5 DEF HInv, HandedOnce
  <2>7. \A row \in handed' : row \in EntryRows /\ row.id <= issued'
    BY <2>1, <2>5 DEF HInv
  <2>8. \A d \in Callers : \A row \in ReadByPop(d)' \cap handed' :
            row \in contested' \/ row.person \in Muddled'
    <3> SUFFICES ASSUME NEW d \in Callers, NEW row \in ReadByPop(d)', row \in handed'
                 PROVE  row \in contested' \/ row.person \in Muddled'
      OBVIOUS
    <3>1. Reachable(row)'
      BY DEF Reachable
    <3>2. row \in ReadByPop(d) \cap handed
      BY <2>4, <2>5
    <3>3. row \in contested \/ row.person \in Muddled
      BY <3>2, Zenon DEF HInv
    <3> QED
      BY <2>2, <2>5, <3>1, <3>3
  <2>9. \A d \in Callers : Pops(d)' /\ wcall'[d].at = "delete" =>
             \A row \in wcall'[d].read :
                 row.person \in Muddled' \/ row \notin entries' \/ wcall'[d].target = row.id
    BY <2>1, <2>2 DEF HInv, Pops
  <2> QED
    BY <2>5, <2>6, <2>7, <2>8, <2>9 DEF HInv
<1> QED
  BY <1>1, <1>2, Steps

-----------------------------------------------------------------------------
(***************************************************************************)
(* Calls have the effect they answer.                                      *)
(***************************************************************************)

(* What a call knows after it is done with one more actor. *)
LEMMA AdvanceCovers ==
    ASSUME NEW c \in Callers, wcall[c] \in WaitlistCalls,
           wcall[c].next \in DOMAIN wcall[c].actors, Advances(c),
           NEW D, 1 .. wcall[c].next \subseteq D
    PROVE  /\ wcall'[c].at = "returned" => DOMAIN wcall[c].actors \subseteq D
           /\ wcall'[c].at # "returned" => 1 .. wcall'[c].next - 1 \subseteq D
           /\ wcall'[c].at # "delete"
           /\ \A i \in wcall[c].next .. Len(wcall[c].actors) :
                  \/ i = wcall[c].next
                  \/ wcall'[c].at # "returned" /\ i \in wcall'[c].next .. Len(wcall[c].actors)
<1> DEFINE k == wcall[c]
<1>1. k.actors \in Seq(Actors) /\ k.next \in Nat
  BY DEF WaitlistCalls
<1>2. DOMAIN k.actors = 1 .. Len(k.actors) /\ Len(k.actors) \in Nat
  BY <1>1
<1>3. PICK n : n = wcall'[c]
  OBVIOUS
<1>4. \/ k.next < Len(k.actors) /\ n.at \in {"find", "remove"} /\ n.next = k.next + 1
      \/ ~(k.next < Len(k.actors)) /\ n.at = "returned"
  BY <1>3, AdvanceFields DEF LoopsAt
<1>5. k.next \in 1 .. Len(k.actors)
  BY <1>2
<1> HIDE DEF k
<1>6. /\ n.at = "returned" => 1 .. Len(k.actors) \subseteq 1 .. k.next
      /\ n.at # "returned" => n.next - 1 = k.next
      /\ n.at # "delete"
      /\ \A i \in k.next .. Len(k.actors) :
             i = k.next \/ (n.at # "returned" /\ i \in n.next .. Len(k.actors))
  BY <1>1, <1>2, <1>4, <1>5
<1> QED
  BY <1>2, <1>3, <1>6 DEF k

(* Entries of the actor a call removes: once it has removed one, none is left. *)
LEMMA OneIsAll ==
    ASSUME WInv, NEW actor, NEW r2 \in entries, SameActor(r2, actor),
           NEW row \in entries, SameActor(row, actor)
    PROVE  row.person \in Muddled \/ row = r2
<1>1. row.person = r2.person /\ row.org = r2.org
  BY DEF SameActor
<1>2. WaitsOnce
  BY Zenon DEF WInv
<1> QED
  BY <1>1, <1>2 DEF WaitsOnce, Muddled

(* The entry a removal is for. *)
LEMMA TargetedByMoves ==
    ASSUME WInv, Noted', Muddled \subseteq Muddled', NEW c \in Callers, Same, Moves(c, "delete"),
           NEW r2 \in entries, wcall'[c].target = r2.id
    PROVE  \A row \in entries : SameActor(row, Current(c)) => row.person \in Muddled' \/ row = r2
<1>1. SameActor(r2, Current(c)) \/ Current(c).person \in mistaken'
  BY TargetOwn
<1>2. \A row : SameActor(row, Current(c)) => row.person = Current(c).person
  BY DEF SameActor
<1>3. mistaken' \subseteq Muddled'
  BY DEF Muddled
<1> QED
  BY <1>1, <1>2, <1>3, OneIsAll

LEMMA RemovedAll ==
    ASSUME TInv, Explicit(plan), WInv, NEW c \in Callers, Removing(c), Targeted(c)
    PROVE  /\ entries' \subseteq entries
           /\ \A row \in entries' : SameActor(row, Current(c)) => row.person \in Muddled
<1>3. CASE Current(c).person \in mistaken
  <2>1. \A row : SameActor(row, Current(c)) => row.person \in Muddled
    BY <1>3 DEF SameActor, Muddled
  <2>2. entries' \subseteq entries
    BY DEF Removing
  <2> QED
    BY <2>1, <2>2
<1>1. CASE /\ wcall[c].at = "remove" /\ Memory /\ Current(c).person \notin mistaken
           /\ \E r2 \in Sought(c) : entries' = {r \in entries : r.id # r2.id}
  <2>1. PICK r2 \in Sought(c) : entries' = {r \in entries : r.id # r2.id}
    BY <1>1
  <2>2. r2 \in entries /\ SameActor(r2, Current(c))
    BY <1>1, <2>1, SoughtOwn
  <2>3. \A row \in entries' : row \in entries /\ row # r2
    BY <2>1
  <2> QED
    BY <2>2, <2>3, OneIsAll
<1>2. CASE wcall[c].at = "delete" /\ entries' = {r \in entries : r.id # wcall[c].target}
  BY <1>2 DEF Targeted
<1> QED
  BY <1>1, <1>2, <1>3, Zenon DEF Removing

(* A call that begins has nothing to show yet. *)
LEMMA EffectedFirst ==
    ASSUME TInv, Explicit(plan), NEW c \in Callers, Starting(c) \/ Inviting(c)
    PROVE  Effected(c)'
<1>1. PICK n : n = wcall'[c]
  OBVIOUS
<1>2. n.next = 1 /\ n.at \in {"refer", "find", "list"}
  <2>1. CASE Starting(c)
    BY <1>1, <2>1 DEF Starting, Fresh
  <2>2. CASE Inviting(c)
    <3>1. PICK i : Fresh(i) /\ wcall'[c] = FreshInvitation(i)
      BY <2>2, Zenon DEF Inviting
    <3>2. i \in WaitlistCalls /\ i.next = 1
      BY <3>1, Zenon DEF Fresh
    <3>3. n = [i EXCEPT !.at = "refer"]
      BY <1>1, <3>1 DEF FreshInvitation
    <3> QED
      BY <3>2, <3>3 DEF WaitlistCalls
  <2> QED
    BY <2>1, <2>2
<1>3. 1 .. n.next - 1 = {} /\ n.at # "returned" /\ n.at # "delete" /\ n.at # "remove"
  BY <1>2
<1> QED
  BY <1>1, <1>3 DEF Effected, Ended, Targeted

(* The steps of others do not undo it. *)
LEMMA EffectedOthers ==
    ASSUME TInv, Explicit(plan), NEW c \in Callers, NEW d \in Callers \ {c}, Acts(d),
           Effected(c), Muddled \subseteq Muddled',
           InFlight(d) => Kind(wcall[d]) \in {"looks", Kind(wcall[c])}
    PROVE  Effected(c)'
<1> DEFINE k == wcall[c]
<1>1. wcall'[c] = wcall[c]
  BY Zenon DEF Acts, OnlyOf
<1>2. Creating(d) => InFlight(d) /\ Kind(wcall[d]) = "adds"
  BY DEF Creating, InFlight, Kind
<1>3. Removing(d) => InFlight(d) /\ Kind(wcall[d]) = "removes"
  <2> SUFFICES ASSUME Removing(d) PROVE InFlight(d) /\ Kind(wcall[d]) = "removes"
    OBVIOUS
  <2>1. wcall[d].at \in {"remove", "delete"}
    BY Zenon DEF Removing
  <2>2. wcall[d].at \in StagesOf(wcall[d].op) /\ wcall[d].op \in Ops
    BY <2>1, Busy DEF Stages
  <2> QED
    BY <2>1, <2>2 DEF InFlight, Kind, StagesOf, Ops, Adders, Leavers
<1>4. ~Creating(d) /\ ~Removing(d) => entries' = entries
  <2> SUFFICES ASSUME ~Creating(d), ~Removing(d) PROVE Same
    BY DEF Same
  <2> QED
    BY Zenon DEF Acts, Quiet, Starting, Taking, Looking, Targeting, Listing, Throwing, Serves,
       Inviting, Referring, AskingReferral, TakingReferral, ServingReferral
<1>5. Creating(d) => entries \subseteq entries'
  BY DEF Creating
<1>6. PICK n : n = wcall'[c]
  OBVIOUS
<1>7. n = k
  BY <1>1, <1>6
<1>8. CASE k.op \in Adders
  <2>1. Kind(k) = "adds" /\ k.op \notin Leavers /\ k.op # "cleanup"
    BY <1>8 DEF Kind, Adders, Leavers
  <2>2. ~Removing(d)
    BY <1>3, <2>1
  <2>3. entries \subseteq entries'
    BY <1>4, <1>5, <2>2
  <2>7. options' = options
    BY Zenon DEF Acts, Settings
  <2>4. \A actor : Backed(actor) => Backed(actor)'
    BY <2>3, <2>7 DEF Backed, StandsFor, Memory
  <2>5. /\ Ended(k) => \A i \in DOMAIN k.actors : Backed(k.actors[i])
        /\ k.at # "returned" => \A i \in 1 .. k.next - 1 : Backed(k.actors[i])
    BY <1>8, Zenon DEF Effected
  <2> HIDE DEF k
  <2>6. /\ Ended(n) => \A i \in DOMAIN n.actors : Backed(n.actors[i])'
        /\ n.at # "returned" => \A i \in 1 .. n.next - 1 : Backed(n.actors[i])'
    BY <1>7, <2>4, <2>5
  <2> QED
    BY <1>6, <1>7, <2>1, <2>6 DEF Effected, Ended, Backed, StandsFor, Memory
<1>9. CASE k.op \in Leavers \cup {"cleanup"}
  <2>1. Kind(k) = "removes" /\ k.op \notin Adders
    BY <1>9 DEF Kind, Adders, Leavers
  <2>2. ~Creating(d)
    BY <1>2, <2>1
  <2>3. entries' \subseteq entries
    BY <2>2, EntriesShrink
  <2>4. \A actor : Left(actor) => Left(actor)'
    BY <2>3 DEF Left, Waits, SameActor
  <2>5. /\ k.op \in Leavers =>
             /\ Ended(k) => \A i \in DOMAIN k.actors : Left(k.actors[i])
             /\ k.at # "returned" => \A i \in 1 .. k.next - 1 : Left(k.actors[i])
        /\ k.op = "cleanup" =>
             /\ Ended(k) => \A row \in entries : row.person \in Muddled \/ ~Expired(row, k.asOf)
             /\ k.at \in {"remove", "delete"} =>
                  \A row \in entries :
                      \/ row.person \in Muddled \/ ~Expired(row, k.asOf)
                      \/ \E i \in k.next .. Len(k.actors) : SameActor(row, k.actors[i])
        /\ Targeted(c)
    BY <1>9, Zenon DEF Effected
  <2>6. Targeted(c)'
    BY <1>1, <2>3, <2>5 DEF Targeted, Current, SameActor
  <2> HIDE DEF k
  <2>7. /\ n.op \in Leavers =>
             /\ Ended(n) => \A i \in DOMAIN n.actors : Left(n.actors[i])'
             /\ n.at # "returned" => \A i \in 1 .. n.next - 1 : Left(n.actors[i])'
    BY <1>7, <2>4, <2>5
  <2>8. n.op = "cleanup" =>
             /\ Ended(n) => \A row \in entries' : row.person \in Muddled' \/ ~Expired(row, n.asOf)
             /\ n.at \in {"remove", "delete"} =>
                  \A row \in entries' :
                      \/ row.person \in Muddled' \/ ~Expired(row, n.asOf)
                      \/ \E i \in n.next .. Len(n.actors) : SameActor(row, n.actors[i])
    <3> SUFFICES ASSUME n.op = "cleanup"
                 PROVE  /\ Ended(n) => \A row \in entries' : row.person \in Muddled' \/ ~Expired(row, n.asOf)
                        /\ n.at \in {"remove", "delete"} =>
                             \A row \in entries' :
                                 \/ row.person \in Muddled' \/ ~Expired(row, n.asOf)
                                 \/ \E i \in n.next .. Len(n.actors) : SameActor(row, n.actors[i])
      OBVIOUS
    <3> QED
      BY <1>7, <2>3, <2>5
  <2>9. n.op \notin Adders
    BY <1>7, <2>1
  <2> QED
    BY <1>6, <2>6, <2>7, <2>8, <2>9 DEF Effected, Ended, Left, Waits, SameActor, Expired
<1>10. CASE k.op \notin Adders \cup Leavers \cup {"cleanup"}
  BY <1>1, <1>10 DEF Effected
<1> QED
  BY <1>8, <1>9, <1>10

(* A call that adds: after each actor, those it is done with wait. *)
LEMMA EffectedAdder ==
    ASSUME TInv, Explicit(plan), NEW c \in Callers, Acts(c), Effected(c),
           wcall[c].op \in Adders,
           Looking(c) \/ Creating(c) \/ Referring(c) \/ Throwing(c)
    PROVE  Effected(c)'
<1> DEFINE k == wcall[c]
           after(actor) == \E row \in entries' : StandsFor(actor, row)
           D == {i \in Nat : after(k.actors[i])}
           shown == /\ wcall'[c].op = k.op /\ wcall'[c].actors = k.actors
                    /\ Ended(wcall'[c]) => DOMAIN k.actors \subseteq D
                    /\ wcall'[c].at # "returned" => 1 .. wcall'[c].next - 1 \subseteq D
<1>1. k.at \in {"find", "create", "refer"}
  <2>1. CASE Throwing(c)
    <3>1. InFlight(c) /\ k.at # "refer"
      BY <2>1, Zenon DEF Throwing
    <3>2. k \in WaitlistCalls
      BY <3>1 DEF InFlight, TInv, Placed, Idle
    <3>3. k.at \in Stages \ {"returned"}
      BY <3>1, <3>2 DEF InFlight, WaitlistCalls
    <3>4. k.at \in StagesOf(k.op)
      BY <3>3, Busy
    <3> QED
      BY <3>1, <3>3, <3>4 DEF StagesOf
  <2> QED
    BY <2>1, Zenon DEF Looking, Creating, Referring
<1>2. k \in WaitlistCalls /\ k.next \in DOMAIN k.actors /\ k.next \in Nat /\ k.actors \in Seq(Actors)
      /\ WDuty(c) /\ k # Idle
  BY <1>1, Busy DEF Stages
<1>3. \A i \in 1 .. k.next - 1 : Backed(k.actors[i])
  BY <1>1, Zenon DEF Effected
<1>4. entries \subseteq entries'
  <2>1. CASE Creating(c)
    BY <2>1 DEF Creating
  <2>2. CASE ~Creating(c)
    BY <2>2, Zenon DEF Looking, Referring, Throwing, Same
  <2> QED
    BY <2>1, <2>2
<1>5. \A actor : Backed(actor) => after(actor)
  BY <1>4 DEF Backed
<1>6. 1 .. k.next - 1 \subseteq D
  <2> SUFFICES ASSUME NEW i \in 1 .. k.next - 1 PROVE i \in D
    OBVIOUS
  <2> QED
    BY <1>2, <1>3, <1>5
<1>7. ASSUME after(Current(c))
      PROVE  1 .. k.next \subseteq D
  <2> SUFFICES ASSUME NEW i \in 1 .. k.next PROVE i \in D
    OBVIOUS
  <2>1. CASE i = k.next
    <3>1. k.actors[i] = Current(c)
      BY <2>1 DEF Current
    <3> QED
      BY <1>2, <1>7, <2>1, <3>1
  <2>2. CASE i # k.next
    <3>1. i \in 1 .. k.next - 1
      BY <1>2, <2>2
    <3> HIDE DEF D
    <3> QED
      BY <1>6, <3>1
  <2> QED
    BY <2>1, <2>2
<1> HIDE DEF D
<1>8. ASSUME Advances(c), 1 .. k.next \subseteq D
      PROVE  shown
  BY <1>2, <1>8, AdvanceFields, AdvanceCovers DEF Ended
<1>9. ASSUME EndsAs(c, "threw")
      PROVE  shown
  BY <1>2, <1>9, EndFields DEF Ended, Outs
<1>10. ASSUME wcall'[c].op = k.op, wcall'[c].actors = k.actors, wcall'[c].next = k.next,
              wcall'[c].at # "returned"
       PROVE  shown
  BY <1>6, <1>10 DEF Ended
<1>11. ASSUME Looking(c), Matching(Current(c)) # {}
       PROVE  after(Current(c))
  <2>1. k.at = "find" /\ Same
    BY <1>11, Zenon DEF Looking
  <2>2. Current(c) \in Actors
    BY <2>1, CurrentActor DEF Stages
  <2>3. \E row \in entries : StandsFor(Current(c), row)
    BY <1>11, <2>2, MatchingIs, TablesNow
  <2> QED
    BY <1>5, <2>3 DEF Backed
<1>12. ASSUME Looking(c)
       PROVE  shown
  <2>1. CASE Matching(Current(c)) = {} /\ Moves(c, "create")
    <3>1. wcall'[c].op = k.op /\ wcall'[c].actors = k.actors /\ wcall'[c].next = k.next
          /\ wcall'[c].at = "create"
      BY <2>1, Zenon DEF Moves
    <3> HIDE DEF shown
    <3> QED
      BY <1>10, <3>1
  <2>2. CASE Matching(Current(c)) # {} /\ Advances(c)
    BY <1>7, <1>8, <1>11, <1>12, <2>2
  <2>3. CASE k.op # "subscribeMany" /\ Matching(Current(c)) # {} /\ EndsAs(c, "already")
    <3>1. Len(k.actors) = 1
      BY <1>2, <2>3, Zenon DEF WDuty, Adders
    <3>2. DOMAIN k.actors = 1 .. Len(k.actors) /\ k.next = 1
      BY <1>2, <3>1
    <3>3. DOMAIN k.actors \subseteq D
      BY <1>7, <1>11, <1>12, <2>3, <3>1, <3>2
    <3> QED
      BY <1>2, <2>3, <3>3, EndFields DEF Outs
  <2>4. k.op \notin Leavers
    BY DEF Adders, Leavers
  <2> HIDE DEF shown
  <2> QED
    BY <1>12, <2>1, <2>2, <2>3, <2>4, LooksMove DEF Leavers
<1>13. ASSUME Creating(c)
       PROVE  shown
  <2>1. NewEntry(c) \in entries' /\ Advances(c)
    BY <1>13, Zenon DEF Creating
  <2>2. StandsFor(Current(c), NewEntry(c))
    BY <1>13, NewEntryTyped, OwnStands
  <2>3. after(k.actors[k.next])
    BY <2>1, <2>2 DEF Current
  <2>4. k.next \in D
    BY <1>2, <2>3 DEF D
  <2>5. 1 .. k.next \subseteq D
    BY <1>2, <1>6, <2>4
  <2> HIDE DEF shown
  <2> QED
    BY <1>8, <2>1, <2>5
<1>14. ASSUME Referring(c)
       PROVE  shown
  <2>1. CASE wcall'[c] = [k EXCEPT !.at = "find"]
    <3>1. PICK n : n = wcall'[c]
      OBVIOUS
    <3>2. n.op = k.op /\ n.actors = k.actors /\ n.next = k.next /\ n.at = "find"
      BY <1>2, <2>1, <3>1 DEF WaitlistCalls
    <3> QED
      BY <1>10, <3>1, <3>2
  <2> HIDE DEF shown
  <2> QED
    BY <1>9, <1>14, <2>1, Zenon DEF Referring
<1>15. shown
  <2> HIDE DEF shown
  <2> QED
    BY <1>9, <1>12, <1>13, <1>14, Zenon DEF Throwing
<1>16. k.op \notin Leavers /\ k.op # "cleanup"
  BY DEF Adders, Leavers
<1>17. PICK n : n = wcall'[c]
  OBVIOUS
<1>18. /\ Ended(n) => \A i \in DOMAIN n.actors : after(n.actors[i])
       /\ n.at # "returned" => \A i \in 1 .. n.next - 1 : after(n.actors[i])
  <2>1. \A i \in D : after(k.actors[i])
    BY DEF D
  <2> QED
    BY <1>15, <1>17, <2>1
<1>19. options' = options
  BY Zenon DEF Acts, Settings
<1>20. \A actor : after(actor) <=> Backed(actor)'
  BY <1>19 DEF Backed, StandsFor, Memory
<1>21. /\ Ended(n) => \A i \in DOMAIN n.actors : Backed(n.actors[i])'
       /\ n.at # "returned" => \A i \in 1 .. n.next - 1 : Backed(n.actors[i])'
  BY <1>18, <1>20
<1> QED
  BY <1>15, <1>16, <1>17, <1>21, <1>19 DEF Effected, Ended, Backed, StandsFor, Memory

(* A call that removes: what is left of the actor it is at. *)
Gone(c) == \A row \in entries' : SameActor(row, Current(c)) => row.person \in Muddled
LEMMA LeavesCurrent ==
    ASSUME TInv, Explicit(plan), WInv, NEW c \in Callers, Acts(c),
           wcall[c].op \notin Adders, Muddled \subseteq Muddled', Noted'
    PROVE  /\ entries' \subseteq entries
           /\ Looking(c) /\ Matching(Current(c)) = {} => Gone(c)
           /\ Targeting(c) /\ Sought(c) = {} => Gone(c)
           /\ Removing(c) /\ Targeted(c) => Gone(c)
           /\ Targeting(c) \/ Looking(c) \/ Listing(c) \/ Removing(c) \/ Throwing(c) => Targeted(c)'
<1> DEFINE k == wcall[c]
<1>1. entries' \subseteq entries
  <2>1. ~Creating(c)
    BY Zenon DEF Creating
  <2> QED
    BY <2>1, EntriesShrink
<1>7. ASSUME Targeting(c), Sought(c) = {}
      PROVE  Gone(c)
  <2>1. k.at = "remove"
    BY <1>7, Zenon DEF Targeting
  <2>2. Current(c).person \in mistaken \/ \A row \in entries : ~SameActor(row, Current(c))
    BY <1>7, <2>1, SoughtOwn
  <2>3. \A row : SameActor(row, Current(c)) => row.person = Current(c).person
    BY DEF SameActor
  <2> QED
    BY <1>1, <2>2, <2>3 DEF Gone, Muddled
<1>2. ASSUME Looking(c), Matching(Current(c)) = {}
      PROVE  Gone(c)
  <2>1. k.at = "find"
    BY <1>2, Zenon DEF Looking
  <2>2. Current(c) \in Actors
    BY <2>1, CurrentActor DEF Stages
  <2>3. \A row \in entries : ~SameActor(row, Current(c))
    BY <1>2, <2>2, MatchingHas, TablesNow
  <2> QED
    BY <1>1, <2>3 DEF Gone
<1>3. Removing(c) /\ Targeted(c) => Gone(c)
  BY RemovedAll DEF Gone
<1>4. ASSUME wcall'[c].at # "delete"
      PROVE  Targeted(c)'
  BY <1>4 DEF Targeted
<1>5. ASSUME Looking(c) \/ Listing(c) \/ Removing(c) \/ Throwing(c)
      PROVE  Targeted(c)'
  BY <1>4, <1>5, StageAfter
<1>6. ASSUME Targeting(c)
      PROVE  Targeted(c)'
  <2>1. k.at = "remove" /\ Same
    BY <1>6, Zenon DEF Targeting
  <2>2. k \in WaitlistCalls
    BY <2>1, Busy DEF Stages
  <2>3. CASE Advances(c)
    <3>1. wcall'[c].at # "delete"
      BY <2>2, <2>3, AdvanceFields DEF LoopsAt
    <3> QED
      BY <1>4, <3>1
  <2>4. CASE \E r2 \in Sought(c) :
                 r2 \in entries /\ Moves(c, "delete") /\ wcall'[c].target = r2.id
    <3>1. PICK r2 \in Sought(c) :
                 r2 \in entries /\ Moves(c, "delete") /\ wcall'[c].target = r2.id
      BY <2>4
    <3>2. wcall'[c].actors = k.actors /\ wcall'[c].next = k.next
      BY <3>1, Zenon DEF Moves
    <3>3. Current(c)' = Current(c)
      BY <3>2 DEF Current
    <3>4. \A row \in entries : SameActor(row, Current(c)) => row.person \in Muddled' \/ row = r2
      BY <2>1, <3>1, TargetedByMoves
    <3>5. \A row \in entries' : SameActor(row, Current(c)) =>
              row.person \in Muddled' \/ row.id = wcall'[c].target
      BY <1>1, <3>1, <3>4
    <3> QED
      BY <3>3, <3>5 DEF Targeted, SameActor
  <2> QED
    BY <1>6, <2>3, <2>4, TargetsMove
<1> QED
  BY <1>1, <1>2, <1>3, <1>5, <1>6, <1>7

(* What a leaver is done with has left. *)
LEMMA EffectedLeaver ==
    ASSUME TInv, Explicit(plan), WInv, NEW c \in Callers, Acts(c), Effected(c),
           wcall[c].op \in Leavers, Muddled \subseteq Muddled', Noted',
           Looking(c) \/ Targeting(c) \/ Removing(c) \/ Throwing(c)
    PROVE  Effected(c)'
<1> DEFINE k == wcall[c]
           left(actor) == actor.person \in Muddled' \/ ~\E row \in entries' : SameActor(row, actor)
           D == {i \in Nat : left(k.actors[i])}
           shown == /\ wcall'[c].op = k.op /\ wcall'[c].actors = k.actors
                    /\ Ended(wcall'[c]) => DOMAIN k.actors \subseteq D
                    /\ wcall'[c].at # "returned" => 1 .. wcall'[c].next - 1 \subseteq D
<1>0. k.op \notin Adders /\ k.op # "cleanup"
  BY DEF Adders, Leavers
<1>1. k.at \in {"find", "remove", "delete"}
  <2>1. CASE Throwing(c)
    <3>1. InFlight(c) /\ k.at # "refer"
      BY <2>1, Zenon DEF Throwing
    <3>2. k \in WaitlistCalls
      BY <3>1 DEF InFlight, TInv, Placed, Idle
    <3>3. k.at \in Stages \ {"returned"}
      BY <3>1, <3>2 DEF InFlight, WaitlistCalls
    <3>4. k.at \in StagesOf(k.op)
      BY <3>3, Busy
    <3> QED
      BY <1>0, <3>1, <3>3, <3>4 DEF StagesOf
  <2> QED
    BY <2>1, Zenon DEF Looking, Targeting, Removing
<1>2. k \in WaitlistCalls /\ k.next \in DOMAIN k.actors /\ k.next \in Nat /\ k.actors \in Seq(Actors)
      /\ WDuty(c) /\ k # Idle
  BY <1>1, Busy DEF Stages
<1>3. (\A i \in 1 .. k.next - 1 : Left(k.actors[i])) /\ Targeted(c)
  BY <1>1, Zenon DEF Effected
<1>4. entries' \subseteq entries /\ Targeted(c)'
  BY <1>0, LeavesCurrent
<1>5. \A actor : Left(actor) => left(actor)
  BY <1>4 DEF Left, Waits
<1>6. 1 .. k.next - 1 \subseteq D
  <2> SUFFICES ASSUME NEW i \in 1 .. k.next - 1 PROVE i \in D
    OBVIOUS
  <2> QED
    BY <1>2, <1>3, <1>5
<1>7. ASSUME Gone(c)
      PROVE  1 .. k.next \subseteq D /\ k.next \in D
  <2>1. left(Current(c))
    BY <1>7 DEF Gone, SameActor
  <2>2. left(k.actors[k.next])
    BY <2>1 DEF Current
  <2>3. k.next \in D
    BY <1>2, <2>2
  <2> HIDE DEF D
  <2> QED
    BY <1>2, <1>6, <2>3
<1> HIDE DEF D
<1>8. ASSUME Advances(c), 1 .. k.next \subseteq D
      PROVE  shown
  BY <1>2, <1>8, AdvanceFields, AdvanceCovers DEF Ended
<1>9. ASSUME EndsAs(c, "threw")
      PROVE  shown
  BY <1>2, <1>9, EndFields DEF Ended, Outs
<1>10. ASSUME NEW at, at # "returned", Moves(c, at)
       PROVE  shown
  <2>1. wcall'[c].op = k.op /\ wcall'[c].actors = k.actors /\ wcall'[c].next = k.next
        /\ wcall'[c].at = at
    BY <1>10, Zenon DEF Moves
  <2> QED
    BY <1>6, <1>10, <2>1 DEF Ended
<1>12. ASSUME Looking(c)
       PROVE  shown
  <2>1. Matching(Current(c)) = {} => 1 .. k.next \subseteq D
    BY <1>0, <1>7, <1>12, LeavesCurrent
  <2>2. CASE Matching(Current(c)) = {} /\ Advances(c)
    BY <1>8, <2>1, <2>2
  <2>3. CASE k.op # "unsubscribeMany" /\ Matching(Current(c)) = {} /\ EndsAs(c, "missing")
    <3>1. Len(k.actors) = 1
      BY <1>2, <2>3, Zenon DEF WDuty, Leavers
    <3>2. DOMAIN k.actors = 1 .. Len(k.actors) /\ k.next = 1
      BY <1>2, <3>1
    <3>3. DOMAIN k.actors \subseteq D
      BY <2>1, <2>3, <3>1, <3>2
    <3> QED
      BY <1>2, <2>3, <3>3, EndFields DEF Outs
  <2>4. Moves(c, "remove") => shown
    BY <1>10
  <2> HIDE DEF shown
  <2>5. k.op # "subscribeMany"
    BY DEF Leavers
  <2> QED
    BY <1>0, <1>12, <2>2, <2>3, <2>4, <2>5, LooksMove DEF Leavers
<1>13. ASSUME Targeting(c)
       PROVE  shown
  <2>1. Sought(c) = {} => 1 .. k.next \subseteq D
    BY <1>0, <1>7, <1>13, LeavesCurrent
  <2>2. Moves(c, "delete") => shown
    BY <1>10
  <2> HIDE DEF shown
  <2> QED
    BY <1>8, <1>13, <2>1, <2>2, TargetsMove
<1>14. ASSUME Removing(c)
       PROVE  shown
  <2>1. Advances(c)
    BY <1>14, Zenon DEF Removing
  <2>2. 1 .. k.next \subseteq D
    BY <1>0, <1>3, <1>7, <1>14, LeavesCurrent
  <2> HIDE DEF shown
  <2> QED
    BY <1>8, <2>1, <2>2
<1>15. shown
  <2> HIDE DEF shown
  <2> QED
    BY <1>9, <1>12, <1>13, <1>14, Zenon DEF Throwing
<1>17. PICK n : n = wcall'[c]
  OBVIOUS
<1>18. /\ Ended(n) => \A i \in DOMAIN n.actors : left(n.actors[i])
       /\ n.at # "returned" => \A i \in 1 .. n.next - 1 : left(n.actors[i])
  <2>1. \A i \in D : left(k.actors[i])
    BY DEF D
  <2> QED
    BY <1>15, <1>17, <2>1
<1> QED
  BY <1>0, <1>4, <1>15, <1>17, <1>18 DEF Effected, Ended, Waits, Left, SameActor

(* What cleanup has read are the entries that are due. *)
DueBy(c, time) == {row \in entries : Expired(row, time)}
LEMMA CleanupLists ==
    ASSUME TInv, NEW c \in Callers, Listing(c), wcall[c].op = "cleanup",
           wcall'[c].at \in {"remove", "delete"}, NEW row \in entries, Expired(row, wcall[c].asOf)
    PROVE  /\ wcall'[c].asOf = wcall[c].asOf
           /\ \E i \in wcall'[c].next .. Len(wcall'[c].actors) : SameActor(row, wcall'[c].actors[i])
<1> DEFINE k == wcall[c]
           due == DueBy(c, k.asOf)
<1>1. k.at = "list"
  BY Zenon DEF Listing
<1>2. k \in WaitlistCalls /\ k # Idle /\ WDuty(c)
  BY <1>1, Busy DEF Stages
<1>3. k.next = 1
  BY <1>1, <1>2, Zenon DEF WDuty
<1>4. IsFiniteSet(due) /\ due \subseteq entries /\ row \in due
  BY TablesNow, FS_Subset DEF DueBy
<1>5. ~EndsAs(c, "done")
  BY <1>2, EndFields DEF Outs
<1>6. PICK order \in SetToSeqs(due) :
          wcall'[c] = [k EXCEPT !.at = "remove", !.read = due,
                           !.actors = [i \in DOMAIN order |-> ActorOf(order[i])]]
  <2>1. k.op # "pop" /\ k.op # "getPosition"
    OBVIOUS
  <2> QED
    BY <1>5, <2>1, Zenon DEF Listing, DueBy
<1> DEFINE actors == [i \in DOMAIN order |-> ActorOf(order[i])]
<1> HIDE DEF due
<1>7. order \in Seq(due) /\ Len(order) \in Nat /\ \E i \in 1 .. Len(order) : order[i] = row
  BY <1>4, Ordered
<1>8. PICK i \in 1 .. Len(order) : order[i] = row
  BY <1>7
<1>9. DOMAIN order = 1 .. Len(order)
  BY <1>7
<1>10. row \in EntryRows
  BY TablesNow
<1>11. actors[i] = ActorOf(row) /\ DOMAIN actors = 1 .. Len(order)
  BY <1>8, <1>9
<1>12. Len(actors) = Len(order)
  <2>1. actors = [j \in 1 .. Len(order) |-> ActorOf(order[j])]
    BY <1>9
  <2> QED
    BY <1>7, <2>1
<1>13. SameActor(row, actors[i])
  BY <1>10, <1>11, RowOfActor
<1>14. PICK n : n = wcall'[c]
  OBVIOUS
<1> HIDE DEF actors
<1>15. n = [k EXCEPT !.at = "remove", !.read = due, !.actors = actors]
  BY <1>6, <1>14 DEF actors
<1>16. n.actors = actors /\ n.next = k.next /\ n.asOf = k.asOf
  BY <1>2, <1>15 DEF WaitlistCalls
<1> HIDE DEF k
<1>17. i \in n.next .. Len(n.actors) /\ SameActor(row, n.actors[i])
  BY <1>3, <1>7, <1>8, <1>12, <1>13, <1>16 DEF k
<1> QED
  BY <1>14, <1>16, <1>17 DEF k

(* What was due when cleanup began is removed, or the call still has it. *)
LEMMA EffectedCleanup ==
    ASSUME TInv, Explicit(plan), WInv, NEW c \in Callers, Acts(c), Effected(c),
           wcall[c].op = "cleanup", Muddled \subseteq Muddled', Noted',
           Listing(c) \/ Targeting(c) \/ Removing(c) \/ Throwing(c)
    PROVE  Effected(c)'
<1> DEFINE k == wcall[c]
           safe(row) == row.person \in Muddled' \/ ~Expired(row, k.asOf)
           has(call, row) == \E i \in call.next .. Len(call.actors) : SameActor(row, call.actors[i])
           shown == /\ wcall'[c].op = k.op /\ wcall'[c].asOf = k.asOf
                    /\ Ended(wcall'[c]) => \A row \in entries' : safe(row)
                    /\ wcall'[c].at \in {"remove", "delete"} =>
                           \A row \in entries' : safe(row) \/ has(wcall'[c], row)
<1>0. k.op \notin Adders /\ k.op \notin Leavers
  BY DEF Adders, Leavers
<1>1. k.at \in {"list", "remove", "delete"}
  <2>1. CASE Throwing(c)
    <3>1. InFlight(c) /\ k.at # "refer"
      BY <2>1, Zenon DEF Throwing
    <3>2. k \in WaitlistCalls
      BY <3>1 DEF InFlight, TInv, Placed, Idle
    <3>3. k.at \in Stages \ {"returned"}
      BY <3>1, <3>2 DEF InFlight, WaitlistCalls
    <3>4. k.at \in StagesOf(k.op)
      BY <3>3, Busy
    <3> QED
      BY <1>0, <3>1, <3>3, <3>4 DEF StagesOf
  <2> QED
    BY <2>1, Zenon DEF Listing, Targeting, Removing
<1>2. k \in WaitlistCalls /\ k.next \in Nat /\ k.actors \in Seq(Actors) /\ k # Idle
      /\ (k.at # "list" => k.next \in DOMAIN k.actors)
  BY <1>1, Busy DEF Stages
<1>3. Targeted(c) /\ (k.at \in {"remove", "delete"} => \A row \in entries :
          row.person \in Muddled \/ ~Expired(row, k.asOf) \/ has(k, row))
  BY Zenon DEF Effected
<1>4. entries' \subseteq entries /\ Targeted(c)'
  BY <1>0, LeavesCurrent
<1>5. k.at # "list" => \A row \in entries' : safe(row) \/ has(k, row)
  BY <1>1, <1>3, <1>4
<1>14. wcall[c] \in WaitlistCalls /\ "threw" \in Outs /\ "done" \in Outs
  BY <1>2 DEF Outs
<1>6. ASSUME EndsAs(c, "threw")
      PROVE  shown
  <2>1. /\ wcall'[c].op = k.op /\ wcall'[c].asOf = k.asOf /\ wcall'[c].at = "returned"
        /\ wcall'[c].out = "threw"
    BY <1>14, <1>6, EndFields
  <2> HIDE DEF safe, has
  <2> QED
    BY <2>1 DEF Ended
<1>7. ASSUME Advances(c), Gone(c), k.at # "list"
      PROVE  shown
  <2>1. /\ wcall'[c].op = k.op /\ wcall'[c].asOf = k.asOf /\ wcall'[c].actors = k.actors
    BY <1>14, <1>7, AdvanceFields
  <2>2. PICK D : D = 1 .. k.next
    OBVIOUS
  <2>3. 1 .. k.next \subseteq D
    BY <2>2
  <2>4. \A i \in k.next .. Len(k.actors) :
            \/ i = k.next
            \/ wcall'[c].at # "returned" /\ i \in wcall'[c].next .. Len(k.actors)
    <3>1. wcall[c].next \in DOMAIN wcall[c].actors
      BY <1>2, <1>7
    <3> QED
      BY <1>14, <1>7, <2>3, <3>1, AdvanceCovers
  <2>5. ASSUME NEW row \in entries', ~safe(row)
        PROVE  wcall'[c].at # "returned" /\ has(wcall'[c], row)
    <3>1. PICK i \in k.next .. Len(k.actors) : SameActor(row, k.actors[i])
      BY <1>5, <1>7, <2>5
    <3>2. row.person \notin Muddled'
      BY <2>5
    <3>3. i # k.next
      <4>1. i = k.next => SameActor(row, Current(c))
        BY <3>1 DEF Current
      <4>2. SameActor(row, Current(c)) => row.person \in Muddled'
        BY <1>7 DEF Gone
      <4> QED
        BY <3>2, <4>1, <4>2
    <3>4. wcall'[c].at # "returned" /\ i \in wcall'[c].next .. Len(k.actors)
      BY <2>4, <3>3
    <3> QED
      BY <2>1, <3>1, <3>4
  <2> HIDE DEF safe, has
  <2> QED
    BY <2>1, <2>5 DEF Ended
<1>8. ASSUME Listing(c)
      PROVE  shown
  <2>1. k.at = "list" /\ Same
    BY <1>8, Zenon DEF Listing
  <2>2. entries' = entries
    BY <2>1 DEF Same
  <2>3. wcall'[c].at \in {"remove", "returned"} /\ wcall'[c].op = k.op
    <3>1. plan' = plan /\ options' = options
      BY Zenon DEF Acts, Settings
    <3> QED
      BY <1>8, <3>1, ListsDuty
  <2>4. CASE DueBy(c, k.asOf) = {} /\ EndsAs(c, "done")
    <3>1. wcall'[c].at = "returned" /\ wcall'[c].asOf = k.asOf
      BY <1>14, <2>4, EndFields
    <3>2. \A row \in entries' : safe(row)
      BY <2>2, <2>4 DEF DueBy
    <3> HIDE DEF safe, has
    <3> QED
      BY <2>3, <3>1, <3>2 DEF Ended
  <2>5. CASE \E order \in SetToSeqs(DueBy(c, k.asOf)) :
                 wcall'[c] = [k EXCEPT !.at = "remove", !.read = DueBy(c, k.asOf),
                                  !.actors = [i \in DOMAIN order |-> ActorOf(order[i])]]
    <3>1. wcall'[c].at = "remove" /\ wcall'[c].asOf = k.asOf
      <4>1. PICK order \in SetToSeqs(DueBy(c, k.asOf)) :
                 wcall'[c] = [k EXCEPT !.at = "remove", !.read = DueBy(c, k.asOf),
                                  !.actors = [i \in DOMAIN order |-> ActorOf(order[i])]]
        BY <2>5, Zenon
      <4> DEFINE actors == [i \in DOMAIN order |-> ActorOf(order[i])]
                 due == DueBy(c, k.asOf)
      <4>2. PICK n : n = wcall'[c]
        OBVIOUS
      <4> HIDE DEF actors, due
      <4>3. n = [k EXCEPT !.at = "remove", !.read = due, !.actors = actors]
        BY <4>1, <4>2 DEF actors, due
      <4>4. n.at = "remove" /\ n.asOf = k.asOf
        BY <1>2, <4>3 DEF WaitlistCalls
      <4> QED
        BY <4>2, <4>4
    <3>2. \A row \in entries' : safe(row) \/ has(wcall'[c], row)
      <4> SUFFICES ASSUME NEW row \in entries', Expired(row, k.asOf) PROVE has(wcall'[c], row)
        OBVIOUS
      <4> QED
        BY <1>8, <2>2, <3>1, CleanupLists
    <3> HIDE DEF safe, has
    <3> QED
      BY <2>3, <3>1, <3>2 DEF Ended
  <2>6. k.op # "pop" /\ k.op # "getPosition"
    OBVIOUS
  <2> HIDE DEF shown
  <2> QED
    BY <1>8, <2>4, <2>5, <2>6, Zenon DEF Listing, DueBy
<1>9. ASSUME Targeting(c)
      PROVE  shown
  <2>1. k.at = "remove"
    BY <1>9, Zenon DEF Targeting
  <2>2. Sought(c) = {} => Gone(c)
    BY <1>0, <1>9, LeavesCurrent
  <2>3. ASSUME Moves(c, "delete")
        PROVE  shown
    <3>1. wcall'[c].op = k.op /\ wcall'[c].asOf = k.asOf /\ wcall'[c].at = "delete"
          /\ wcall'[c].actors = k.actors /\ wcall'[c].next = k.next
      <4>1. "delete" # "create"
        OBVIOUS
      <4> QED
        BY <2>3, <4>1, Zenon DEF Moves
    <3> QED
      BY <1>5, <2>1, <3>1 DEF Ended
  <2> HIDE DEF shown
  <2> QED
    BY <1>7, <1>9, <2>1, <2>2, <2>3, TargetsMove
<1>10. ASSUME Removing(c)
       PROVE  shown
  <2>1. Advances(c) /\ k.at \in {"remove", "delete"}
    BY <1>10, Zenon DEF Removing
  <2>2. Gone(c)
    BY <1>0, <1>3, <1>10, LeavesCurrent
  <2> HIDE DEF shown
  <2> QED
    BY <1>7, <2>1, <2>2
<1>11. shown
  <2> HIDE DEF shown
  <2> QED
    BY <1>6, <1>8, <1>9, <1>10, Zenon DEF Throwing
<1>12. PICK n : n = wcall'[c]
  OBVIOUS
<1>13. /\ n.op = "cleanup" /\ n.op \notin Adders /\ n.op \notin Leavers
       /\ Ended(n) => \A row \in entries' : row.person \in Muddled' \/ ~Expired(row, n.asOf)
       /\ n.at \in {"remove", "delete"} =>
              \A row \in entries' : \/ row.person \in Muddled' \/ ~Expired(row, n.asOf)
                                    \/ \E i \in n.next .. Len(n.actors) : SameActor(row, n.actors[i])
  BY <1>0, <1>11, <1>12
<1> QED
  BY <1>4, <1>12, <1>13 DEF Effected, Ended, SameActor, Expired

(* Overlaps are noted as they happen. *)
LEMMA CallsNoted ==
    ASSUME Next
    PROVE  /\ DOMAIN calm' = Callers
           /\ \A c \in Callers : calm'[c] =>
                  /\ wcall'[c] # Idle /\ (wcall[c] = Idle \/ calm[c])
                  /\ \A d \in Callers \ {c} :
                         InFlight(d)' => Kind(wcall'[d]) \in {"looks", Kind(wcall'[c])}
<1> DEFINE quiet(c) ==
               /\ wcall'[c] # Idle
               /\ wcall[c] = Idle \/ calm[c]
               /\ \A d \in Callers \ {c} :
                      ~InFlight(d)' \/ Kind(wcall'[d]) \in {"looks", Kind(wcall'[c])}
<1>1. calm' = [c \in Callers |-> quiet(c)]
  BY Zenon DEF Next, Observe
<1>2. \A c \in Callers : calm'[c] = quiet(c)
  <2> HIDE DEF quiet
  <2> QED
    BY <1>1
<1>3. DOMAIN calm' = Callers
  <2> HIDE DEF quiet
  <2> QED
    BY <1>1
<1>4. ASSUME NEW c \in Callers, calm'[c]
      PROVE  quiet(c)
  <2> HIDE DEF quiet
  <2> QED
    BY <1>2, <1>4
<1> QED
  BY <1>3, <1>4, Zenon

(* A step of the call itself. *)
LEMMA EffectedSelf ==
    ASSUME TInv, Explicit(plan), WInv, NEW c \in Callers, Acts(c),
           Effected(c), wcall[c] # Idle, wcall'[c] # Idle, Muddled \subseteq Muddled', Noted'
    PROVE  Effected(c)'
<1> DEFINE k == wcall[c]
<1>0. Adders \cap Leavers = {} /\ "cleanup" \notin Adders \cup Leavers
  BY DEF Adders, Leavers
<1>1. CASE Passive(c)
  <2>1. wcall' = wcall /\ entries' = entries
    BY <1>1, PassiveKeeps DEF Same
  <2> QED
    <3>1. options' = options
      BY Zenon DEF Acts, Settings
    <3> QED
      BY <2>1, <3>1 DEF Effected, Targeted, Current, Left, Waits, Backed, StandsFor, Memory
<1>2. CASE Starting(c) \/ Taking(c) \/ Inviting(c)
  BY <1>2, Zenon DEF Starting, Taking, Inviting
<1>3. CASE ~Passive(c) /\ ~Starting(c) /\ ~Taking(c) /\ ~Inviting(c)
  <2>1. \/ Looking(c) \/ Targeting(c) \/ Listing(c) \/ Throwing(c)
        \/ Creating(c) \/ Removing(c) \/ Referring(c)
    BY <1>3, Zenon DEF Acts, Quiet, Serves, Passive
  <2>2. k.at \in Stages \ {"returned"} => k.at \in StagesOf(k.op)
    BY Busy
  <2>3. CASE k.op \in Adders
    <3>1. StagesOf(k.op) = {"refer", "find", "create", "returned"}
      BY <2>3 DEF StagesOf
    <3>2. ~Targeting(c) /\ ~Listing(c) /\ ~Removing(c)
      <4>1. Targeting(c) \/ Listing(c) \/ Removing(c) => k.at \in {"remove", "list", "delete"}
        BY Zenon DEF Targeting, Listing, Removing
      <4> QED
        BY <2>2, <3>1, <4>1 DEF Stages
    <3> QED
      BY <2>1, <2>3, <3>2, EffectedAdder
  <2>4. CASE k.op \in Leavers
    <3>1. StagesOf(k.op) = {"find", "remove", "delete", "returned"}
      BY <1>0, <2>4 DEF StagesOf
    <3>2. ~Creating(c) /\ ~Listing(c) /\ ~Referring(c)
      <4>1. Creating(c) \/ Listing(c) \/ Referring(c) => k.at \in {"create", "list", "refer"}
        BY Zenon DEF Creating, Listing, Referring
      <4> QED
        BY <2>2, <3>1, <4>1 DEF Stages
    <3> QED
      BY <2>1, <2>4, <3>2, EffectedLeaver
  <2>5. CASE k.op = "cleanup"
    <3>1. StagesOf(k.op) = {"list", "remove", "delete", "returned"}
      BY <1>0, <2>5 DEF StagesOf
    <3>2. ~Creating(c) /\ ~Looking(c) /\ ~Referring(c)
      <4>1. Creating(c) \/ Looking(c) \/ Referring(c) => k.at \in {"create", "find", "refer"}
        BY Zenon DEF Creating, Looking, Referring
      <4> QED
        BY <2>2, <3>1, <4>1 DEF Stages
    <3> QED
      BY <2>1, <2>5, <3>2, EffectedCleanup
  <2>6. CASE k.op \notin Adders \cup Leavers \cup {"cleanup"}
    <3>1. wcall'[c].op = k.op
      <4>1. Listing(c) => wcall'[c].op = k.op
        <5>1. plan' = plan /\ options' = options
          BY Zenon DEF Acts, Settings
        <5> QED
          BY <5>1, ListsDuty
      <4> QED
        BY <1>3, <4>1, CallKept
    <3>2. PICK n : n = wcall'[c]
      OBVIOUS
    <3>3. n.op \notin Adders /\ n.op \notin Leavers /\ n.op # "cleanup"
      BY <2>6, <3>1, <3>2
    <3> QED
      BY <3>2, <3>3 DEF Effected
  <2> QED
    BY <2>3, <2>4, <2>5, <2>6
<1> QED
  BY <1>1, <1>2, <1>3

LEMMA CInvSteps ==
    ASSUME TInv, Explicit(plan), WInv, CInv, Next
    PROVE  CInv'
<1>1. Muddled \subseteq Muddled' /\ Noted'
  BY RacesNoted
<1>2. /\ DOMAIN calm' = Callers
      /\ \A c \in Callers : calm'[c] =>
             /\ wcall'[c] # Idle /\ (wcall[c] = Idle \/ calm[c])
             /\ \A d \in Callers \ {c} :
                    InFlight(d)' => Kind(wcall'[d]) \in {"looks", Kind(wcall'[c])}
  BY CallsNoted
<1>3. \A c \in Callers : calm[c] =>
        /\ \A d \in Callers \ {c} : InFlight(d) => Kind(wcall[d]) \in {"looks", Kind(wcall[c])}
        /\ Effected(c)
  BY Zenon DEF CInv
<1>4. ASSUME NEW c \in Callers, calm'[c]
      PROVE  Effected(c)'
  <2>1. CASE Aside
    <3>1. wcall' = wcall /\ entries' = entries /\ options' = options
      BY <2>1, Zenon DEF Aside, Same, Settings
    <3>2. wcall[c] # Idle /\ calm[c]
      BY <1>2, <1>4, <3>1
    <3>3. Effected(c)
      BY <1>3, <3>2
    <3> QED
      BY <1>1, <3>1, <3>3 DEF Effected, Targeted, Current, Left, Waits, Backed, StandsFor, Memory
  <2>2. ASSUME NEW d \in Callers, Acts(d)
        PROVE  Effected(c)'
    <3>1. CASE d # c
      <4>1. wcall'[c] = wcall[c]
        BY <2>2, <3>1, Zenon DEF Acts, OnlyOf
      <4>2. calm[c]
        BY <1>2, <1>4, <4>1
      <4> QED
        BY <1>1, <1>3, <2>2, <3>1, <4>2, EffectedOthers
    <3>2. CASE d = c /\ wcall[c] # Idle
      <4>1. calm[c] /\ wcall'[c] # Idle
        BY <1>2, <1>4, <3>2
      <4> QED
        BY <1>1, <1>3, <2>2, <3>2, <4>1, EffectedSelf
    <3>3. CASE d = c /\ wcall[c] = Idle
      <4>1. wcall'[c] # Idle
        BY <1>2, <1>4
      <4>2. wcall[c].at = "idle"
        BY <3>3 DEF Idle
      <4>3. ~Passive(c)
        BY <3>3, <4>1, PassiveKeeps
      <4>4. ~Taking(c) /\ ~Looking(c) /\ ~Targeting(c) /\ ~Listing(c) /\ ~Throwing(c)
            /\ ~Creating(c) /\ ~Removing(c) /\ ~Referring(c)
        <5>1. /\ Taking(c) => wcall[c].at = "returned"
              /\ Looking(c) => wcall[c].at = "find"
              /\ Targeting(c) => wcall[c].at = "remove"
              /\ Listing(c) => wcall[c].at = "list"
              /\ Throwing(c) => wcall[c].at # "idle"
              /\ Creating(c) => wcall[c].at = "create"
              /\ Removing(c) => wcall[c].at \in {"remove", "delete"}
              /\ Referring(c) => wcall[c].at = "refer"
          BY Zenon DEF Taking, Looking, Targeting, Listing, Throwing, InFlight, Creating, Removing,
             Referring
        <5> QED
          BY <4>2, <5>1
      <4>5. Starting(c) \/ Inviting(c)
        BY <2>2, <3>3, <4>3, <4>4, Zenon DEF Acts, Quiet, Serves, Passive
      <4> QED
        BY <4>5, EffectedFirst
    <3> QED
      BY <3>1, <3>2, <3>3
  <2> QED
    BY <2>1, <2>2, Steps
<1> QED
  BY <1>2, <1>4 DEF CInv

-----------------------------------------------------------------------------
(***************************************************************************)
(* Invitations and codes.                                                  *)
(***************************************************************************)

(* What the referral service answers. *)
Creates(c) ==
    /\ rcall[c].op = "refer" /\ rcall[c].at = "create"
    /\ \E n : /\ referrals' = referrals \cup {n}
              /\ n.referrer = rcall[c].referrer /\ n.recipient = rcall[c].recipient
              /\ n.code = Stored(rcall[c].code)
Resolves(c) ==
    LET r == rcall[c]
        made == {row \in referrals : row.referrer.id = r.code}
    IN  /\ r.op = "resolve"
        /\ \/ \E row \in referrals : /\ r.code # Undefined => row.code = r.code
                                     /\ rcall'[c].answer = row.referrer
           \/ \E row \in made : rcall'[c].answer = row.referrer
           \/ made = {} /\ rcall'[c].answer = IF offer.type = Null THEN R!NoOne
                                              ELSE [type |-> offer.type, id |-> r.code]
LEMMA ServesAs ==
    ASSUME TInv, Explicit(plan), NEW c \in Callers, Acts(c), ServingReferral(c)
    PROVE  /\ rcall'[c].op = rcall[c].op /\ rcall'[c].code = rcall[c].code
           /\ rcall'[c].referrer = rcall[c].referrer /\ rcall'[c].recipient = rcall[c].recipient
           /\ \/ /\ referrals' = referrals /\ rcall[c].op = "refer" /\ rcall'[c].at = "create"
                 /\ \A row \in referrals : row.recipient # rcall[c].recipient
              \/ Creates(c) /\ rcall'[c].at = "returned"
              \/ /\ referrals' = referrals /\ rcall'[c].at = "returned"
                 /\ rcall'[c].out \in {"already", "threw"}
              \/ referrals' = referrals /\ rcall[c].op = "resolve" /\ rcall'[c].at = "byReferrer"
              \/ referrals' = referrals /\ rcall'[c].at = "returned" /\ Resolves(c)
<1> DEFINE r == rcall[c]
           made == {row \in referrals : row.referrer.id = r.code}
<1>1. /\ r \in ReferralCalls /\ rcall'[c].op = rcall[c].op /\ rcall'[c].code = rcall[c].code
      /\ rcall'[c].referrer = rcall[c].referrer /\ rcall'[c].recipient = rcall[c].recipient
  <2>1. plan' = plan /\ options' = options
    BY Zenon DEF Acts, Settings
  <2> QED
    BY <2>1, ServingTyped
<1>2. ASSUME NEW out, ReturnsReferral(c, out)
      PROVE  rcall'[c].at = "returned" /\ rcall'[c].out \in {out, "threw"}
  <2>1. PICK o \in {out, "threw"} : rcall'[c] = [r EXCEPT !.at = "returned", !.out = o]
    BY <1>2, Zenon DEF ReturnsReferral
  <2>2. PICK s : s = rcall'[c]
    OBVIOUS
  <2>3. s = [r EXCEPT !.at = "returned", !.out = o]
    BY <2>1, <2>2
  <2>4. s.at = "returned" /\ s.out = o
    BY <1>1, <2>3 DEF ReferralCalls
  <2> QED
    BY <2>2, <2>4
<1>3. ASSUME NEW person, AnswersReferral(c, person)
      PROVE  rcall'[c].at = "returned" /\ rcall'[c].answer = person
  <2>1. rcall'[c] = [r EXCEPT !.at = "returned", !.out = "done", !.answer = person]
    BY <1>3, Zenon DEF AnswersReferral
  <2>2. PICK s : s = rcall'[c]
    OBVIOUS
  <2>3. s = [r EXCEPT !.at = "returned", !.out = "done", !.answer = person]
    BY <2>1, <2>2
  <2>4. s.at = "returned" /\ s.answer = person
    BY <1>1, <2>3 DEF ReferralCalls
  <2> QED
    BY <2>2, <2>4
<1>4. ASSUME NEW at, rcall'[c] = [r EXCEPT !.at = at]
      PROVE  rcall'[c].at = at
  <2>1. PICK s : s = rcall'[c]
    OBVIOUS
  <2>2. s = [r EXCEPT !.at = at]
    BY <1>4, <2>1
  <2>3. s.at = at
    BY <1>1, <2>2 DEF ReferralCalls
  <2> QED
    BY <2>1, <2>3
<1>5. CASE /\ r.op = "refer" /\ r.at = "create" /\ ReturnsReferral(c, "done")
           /\ \E id \in Nat \ {row.id : row \in referrals} :
                 referrals' = referrals \cup {[id |-> id, referrer |-> r.referrer,
                                 recipient |-> r.recipient, code |-> Stored(r.code)]}
  <2>1. PICK id \in Nat \ {row.id : row \in referrals} :
                 referrals' = referrals \cup {[id |-> id, referrer |-> r.referrer,
                                 recipient |-> r.recipient, code |-> Stored(r.code)]}
    BY <1>5
  <2> DEFINE code == Stored(r.code)
             referrer == r.referrer
             recipient == r.recipient
  <2> HIDE DEF code, referrer, recipient
  <2>2. PICK n : n = [id |-> id, referrer |-> referrer, recipient |-> recipient, code |-> code]
    OBVIOUS
  <2>3. n.referrer = referrer /\ n.recipient = recipient /\ n.code = code
    BY <2>2
  <2>4. referrals' = referrals \cup {n}
    BY <2>1, <2>2 DEF code, referrer, recipient
  <2>5. Creates(c)
    BY <1>5, <2>3, <2>4 DEF Creates, code, referrer, recipient
  <2> QED
    BY <1>1, <1>2, <1>5, <2>5
<1>6. CASE /\ referrals' = referrals /\ r.op = "refer"
           /\ \A row \in referrals : row.recipient # r.recipient
           /\ rcall'[c] = [r EXCEPT !.at = "create"]
  BY <1>1, <1>4, <1>6
<1>7. CASE referrals' = referrals /\ (ReturnsReferral(c, "already") \/ ReturnsReferral(c, "threw"))
  BY <1>1, <1>2, <1>7
<1>8. CASE referrals' = referrals /\ r.op = "resolve" /\ rcall'[c] = [r EXCEPT !.at = "byReferrer"]
  BY <1>1, <1>4, <1>8
<1>9. CASE /\ referrals' = referrals /\ r.op = "resolve"
           /\ \/ \E row \in referrals : (r.code # Undefined => row.code = r.code)
                                        /\ AnswersReferral(c, row.referrer)
              \/ \E row \in made : AnswersReferral(c, row.referrer)
              \/ made = {} /\ AnswersReferral(c, IF offer.type = Null THEN R!NoOne
                                              ELSE [type |-> offer.type, id |-> r.code])
  <2>1. rcall'[c].at = "returned" /\ Resolves(c)
    BY <1>3, <1>9, Zenon DEF Resolves
  <2> QED
    BY <1>1, <1>9, <2>1
<1> QED
  BY <1>5, <1>6, <1>7, <1>8, <1>9, Zenon DEF ServingReferral

(* The other steps take, ask or end a call of the service. *)
LEMMA ReferralAfter ==
    ASSUME TInv, Explicit(plan), NEW c \in Callers, Acts(c), ~ServingReferral(c)
    PROVE  /\ referrals' = referrals
           /\ \/ rcall'[c] = rcall[c]
              \/ rcall'[c] = R!Idle
              \/ /\ rcall'[c].op = "refer" /\ rcall'[c].at = "find"
                 /\ \/ rcall'[c].code = Undefined
                    \/ <<rcall'[c].referrer, rcall'[c].code>> \in coded
              \/ /\ rcall'[c].op = "resolve" /\ rcall'[c].at = "byCode"
                 /\ \E pair \in coded : rcall'[c].code = pair[2]
<1>1. ASSUME NEW referrer, NEW recipient, NEW code,
             rcall'[c] = R!Call("refer", "find", referrer, recipient, code)
      PROVE  rcall'[c].op = "refer" /\ rcall'[c].at = "find" /\ rcall'[c].code = code
             /\ rcall'[c].referrer = referrer
  BY <1>1 DEF R!Call
<1>2. CASE Inviting(c)
  <2>1. referrals' = referrals /\ \E k : rcall'[c] = R!Call("refer", "find", k.inviter, k.actors[1].person, Undefined)
    BY <1>2, Zenon DEF Inviting
  <2> QED
    BY <1>1, <2>1
<1>3. CASE Referring(c) \/ TakingReferral(c)
  BY <1>3, Zenon DEF Referring, TakingReferral
<1>4. CASE AskingReferral(c)
  <2>1. referrals' = referrals
    BY <1>4, Zenon DEF AskingReferral
  <2>2. CASE \E referrer, recipient \in Persons, code \in R!Codes \cup {Undefined} :
                 /\ code # Undefined => <<referrer, code>> \in coded
                 /\ rcall'[c] = R!Call("refer", "find", referrer, recipient, code)
    BY <1>1, <2>1, <2>2
  <2>3. CASE \E pair \in coded : rcall'[c] = R!Call("resolve", "byCode", R!NoOne, R!NoOne, pair[2])
    BY <2>1, <2>3 DEF R!Call
  <2> QED
    BY <1>4, <2>2, <2>3, Zenon DEF AskingReferral
<1>5. CASE Quiet(c) \/ Creating(c) \/ Removing(c)
  <2>1. Unreferring
    BY <1>5, Zenon DEF Quiet, Starting, Taking, Looking, Targeting, Listing, Throwing, Creating, Removing
  <2> QED
    BY <2>1 DEF Unreferring
<1> QED
  BY <1>2, <1>3, <1>4, <1>5, Zenon DEF Acts, Serves

LEMMA ReferralsGrow ==
    ASSUME TInv, Explicit(plan), NEW c \in Callers, Acts(c)
    PROVE  referrals' = referrals \/ (Creates(c) /\ ServingReferral(c))
<1>1. CASE ServingReferral(c)
  BY <1>1, ServesAs
<1>2. CASE ~ServingReferral(c)
  BY <1>2, ReferralAfter
<1> QED
  BY <1>1, <1>2

(* An invitation goes on as the one it was. *)
LEMMA InviteAfter ==
    ASSUME TInv, Explicit(plan), NEW c \in Callers, Acts(c), options.refers,
           wcall'[c].op = "invite", wcall'[c].at \in {"find", "create"}
    PROVE  /\ wcall[c].op = "invite" /\ wcall'[c].inviter = wcall[c].inviter
           /\ Current(c)' = Current(c)
           /\ \/ wcall[c].at \in {"find", "create"}
              \/ wcall[c].at = "refer" /\ R!Returned(c, "done")
<1> DEFINE k == wcall[c]
<1>1. ~Starting(c) /\ ~Taking(c) /\ ~Inviting(c) /\ ~Listing(c) /\ ~Throwing(c)
  <2>1. Starting(c) => ~options.refers
    BY Zenon DEF Starting
  <2> QED
    BY <2>1, StageAfter
<1>2. k.op = "invite" /\ wcall'[c].actors = k.actors
  BY <1>1, CallKept
<1>3. k.at \in Stages \ {"returned"} =>
          /\ k \in WaitlistCalls /\ k.at \in {"refer", "find", "create"} /\ WDuty(c) /\ k # Idle
          /\ k.next \in DOMAIN k.actors /\ k.next \in Nat
  <2> SUFFICES ASSUME k.at \in Stages \ {"returned"}
               PROVE  /\ k \in WaitlistCalls /\ k.at \in {"refer", "find", "create"} /\ WDuty(c) /\ k # Idle
                      /\ k.next \in DOMAIN k.actors /\ k.next \in Nat
    OBVIOUS
  <2>1. StagesOf("invite") = {"refer", "find", "create", "returned"}
    BY DEF StagesOf, Adders
  <2>2. k \in WaitlistCalls /\ WDuty(c) /\ k # Idle /\ k.at \in StagesOf(k.op) /\ k.next \in Nat
        /\ (k.at # "list" => k.next \in DOMAIN k.actors)
    BY Busy
  <2> QED
    BY <1>2, <2>1, <2>2
<1>4. ASSUME wcall'[c].inviter = k.inviter, wcall'[c].next = k.next
      PROVE  wcall'[c].inviter = wcall[c].inviter /\ Current(c)' = Current(c)
  BY <1>2, <1>4 DEF Current
<1>5. CASE Passive(c)
  <2>1. wcall' = wcall
    BY <1>5, PassiveKeeps
  <2> QED
    BY <1>2, <1>4, <2>1
<1>6. ~Targeting(c) /\ ~Removing(c)
  <2>1. Targeting(c) \/ Removing(c) => k.at \in {"remove", "delete"}
    BY Zenon DEF Targeting, Removing
  <2> QED
    BY <1>3, <2>1 DEF Stages
<1>7. ~Creating(c)
  <2> SUFFICES ASSUME Creating(c) PROVE FALSE
    OBVIOUS
  <2>1. k.at = "create" /\ Advances(c)
    BY Zenon DEF Creating
  <2>2. k \in WaitlistCalls /\ WDuty(c) /\ k # Idle /\ k.next \in DOMAIN k.actors
    BY <1>3, <2>1 DEF Stages
  <2>3. Len(k.actors) = 1
    BY <1>2, <2>2, Zenon DEF WDuty
  <2>4. k.actors \in Seq(Actors)
    BY <2>2 DEF WaitlistCalls
  <2>5. ~(k.next < Len(k.actors))
    BY <2>2, <2>3, <2>4
  <2>6. wcall'[c].at = "returned"
    BY <2>1, <2>2, <2>5, AdvanceFields
  <2> QED
    BY <2>6
<1>8. CASE Looking(c)
  <2>1. k.at = "find"
    BY <1>8, Zenon DEF Looking
  <2>2. k \in WaitlistCalls
    BY <1>3, <2>1 DEF Stages
  <2>3. ~EndsAs(c, "already") /\ ~EndsAs(c, "missing")
    BY <2>2, EndFields DEF Outs
  <2>4. Moves(c, "create")
    BY <1>2, <1>8, <2>3, LooksMove DEF Leavers
  <2>5. wcall'[c].inviter = k.inviter /\ wcall'[c].next = k.next
    BY <2>4, Zenon DEF Moves
  <2> QED
    BY <1>2, <1>4, <2>1, <2>5
<1>9. CASE Referring(c)
  <2>1. k.at = "refer" /\ rcall[c].at = "returned"
    BY <1>9, Zenon DEF Referring
  <2>2. k \in WaitlistCalls
    BY <1>3, <2>1 DEF Stages
  <2>3. ~EndsAs(c, "threw")
    BY <2>2, EndFields DEF Outs
  <2>4. rcall[c].out = "done" /\ wcall'[c] = [k EXCEPT !.at = "find"]
    BY <1>9, <2>3, Zenon DEF Referring
  <2>5. PICK n : n = wcall'[c]
    OBVIOUS
  <2>6. n = [k EXCEPT !.at = "find"]
    BY <2>4, <2>5
  <2>7. n.inviter = k.inviter /\ n.next = k.next
    BY <2>2, <2>6 DEF WaitlistCalls
  <2> QED
    BY <1>2, <1>4, <2>1, <2>4, <2>5, <2>7 DEF R!Returned
<1> QED
  BY <1>1, <1>5, <1>6, <1>7, <1>8, <1>9, Zenon DEF Acts, Quiet, Serves, Passive

(* The where clause of a recipient selects its referrals. *)
LEMMA RecipientFinds ==
    ASSUME NEW table, NEW p \in Persons
    PROVE  FindMany(table, [recipient |-> p]) = {r \in table : r.recipient = p}
<1> DEFINE where == [recipient |-> p]
<1>1. DOMAIN where = {"recipient"} /\ where["recipient"] = p
  OBVIOUS
<1>2. p # Undefined /\ p # Null
  BY ActorAssumption
<1> HIDE DEF where
<1>3. \A row : Matches(row, where) <=> row.recipient = p
  BY <1>1, <1>2 DEF Matches
<1>4. FindMany(table, where) = {r \in table : r.recipient = p}
  BY <1>3 DEF FindMany
<1> QED
  BY <1>4 DEF where

LEMMA IInvCallers ==
    ASSUME TInv, Explicit(plan), Together, NEW c \in Callers, Acts(c), raced \subseteq raced',
           OnePerRecipient, \A d \in Callers : Invited(d) /\ Recorded(d) /\ Alone(d)
    PROVE  OnePerRecipient' /\ \A d \in Callers : Invited(d)' /\ Recorded(d)' /\ Alone(d)'
<1>0. \A d \in Callers \ {c} : wcall'[d] = wcall[d] /\ rcall'[d] = rcall[d]
  BY Zenon DEF Acts, OnlyOf
<1>1. options' = options
  BY Zenon DEF Acts, Settings
<1>2. \/ referrals' = referrals
      \/ /\ ServingReferral(c) /\ rcall[c].at = "create"
         /\ \E n : referrals' = referrals \cup {n} /\ n.recipient = rcall[c].recipient
                   /\ n.referrer = rcall[c].referrer
  BY ReferralsGrow DEF Creates
<1>3. \A a, b : IsReferred(a, b) => IsReferred(a, b)'
  BY <1>2 DEF IsReferred
<1>4. R!Idle.at = "idle" /\ R!Idle.op = "none"
  BY DEF R!Idle
<1>5. OnePerRecipient'
  <2>1. CASE referrals' = referrals
    BY <2>1 DEF OnePerRecipient
  <2>2. CASE referrals' # referrals
    <3>1. PICK n : referrals' = referrals \cup {n} /\ n.recipient = rcall[c].recipient
      BY <1>2, <2>2
    <3>2. \A r \in referrals : r.recipient = n.recipient => r.recipient \in raced
      BY <1>2, <2>2, <3>1 DEF Alone
    <3> QED
      BY <3>1, <3>2 DEF OnePerRecipient
  <2> QED
    BY <2>1, <2>2
<1>6. ASSUME NEW d \in Callers
      PROVE  Invited(d)'
  <2>1. CASE d # c
    <3>1. wcall'[d] = wcall[d] /\ Current(d)' = Current(d)
      BY <1>0, <2>1 DEF Current
    <3> QED
      BY <1>1, <1>3, <3>1 DEF Invited
  <2>2. CASE d = c
    <3> SUFFICES ASSUME options.refers, wcall'[c].op = "invite", wcall'[c].at \in {"find", "create"}
                 PROVE  \E r \in referrals' : /\ r.referrer = wcall'[c].inviter
                                             /\ r.recipient = Current(c)'.person
      BY <1>1, <2>2 DEF Invited, IsReferred
    <3>1. /\ wcall[c].op = "invite" /\ wcall'[c].inviter = wcall[c].inviter
          /\ Current(c)' = Current(c)
          /\ \/ wcall[c].at \in {"find", "create"}
             \/ wcall[c].at = "refer" /\ R!Returned(c, "done")
      BY InviteAfter
    <3>2. IsReferred(wcall[c].inviter, Current(c).person)
      <4>1. CASE wcall[c].at \in {"find", "create"}
        BY <3>1, <4>1 DEF Invited
      <4>2. CASE wcall[c].at = "refer" /\ R!Returned(c, "done")
        <5>1. RDuty(c) /\ WDuty(c) /\ wcall[c] # Idle /\ wcall[c].next \in DOMAIN wcall[c].actors
              /\ wcall[c].actors \in Seq(Actors)
          BY <4>2, Busy DEF Stages
        <5>2. rcall[c].op = "refer" /\ rcall[c].referrer = wcall[c].inviter
              /\ rcall[c].recipient = wcall[c].actors[1].person
          BY <4>2, <5>1, Zenon DEF RDuty
        <5>3. Len(wcall[c].actors) = 1
          BY <3>1, <5>1, Zenon DEF WDuty
        <5>4. wcall[c].next = 1
          BY <5>1, <5>3
        <5>5. IsReferred(rcall[c].referrer, rcall[c].recipient)
          BY <4>2, <5>2 DEF Recorded
        <5> QED
          BY <5>2, <5>4, <5>5 DEF Current
      <4> QED
        BY <3>1, <4>1, <4>2
    <3>3. PICK inviter, person : inviter = wcall[c].inviter /\ person = Current(c).person
      OBVIOUS
    <3>4. IsReferred(inviter, person)'
      BY <1>3, <3>2, <3>3
    <3> QED
      BY <3>1, <3>3, <3>4 DEF IsReferred
  <2> QED
    BY <2>1, <2>2
<1>7. ASSUME NEW d \in Callers
      PROVE  Recorded(d)'
  <2>1. CASE rcall'[d] = rcall[d]
    BY <1>3, <2>1 DEF Recorded, R!Returned, IsReferred
  <2>2. CASE rcall'[d] # rcall[d]
    <3>1. d = c
      BY <1>0, <2>2
    <3>2. CASE ServingReferral(c)
      <4>1. CASE Creates(c)
        <5>1. \E r \in referrals' : r.referrer = rcall[c].referrer /\ r.recipient = rcall[c].recipient
          BY <4>1 DEF Creates
        <5>2. rcall'[c].referrer = rcall[c].referrer /\ rcall'[c].recipient = rcall[c].recipient
          BY <3>2, ServesAs
        <5> QED
          BY <3>1, <5>1, <5>2 DEF Recorded, IsReferred
      <4>2. CASE ~Creates(c)
        <5>1. ~(rcall'[c].op = "refer" /\ rcall'[c].at = "returned" /\ rcall'[c].out = "done")
          BY <3>2, <4>2, ServesAs DEF Resolves
        <5> QED
          BY <3>1, <5>1 DEF Recorded, R!Returned
      <4> QED
        BY <4>1, <4>2
    <3>3. CASE ~ServingReferral(c)
      <4>1. rcall'[c].at \in {"idle", "find", "byCode"}
        BY <1>4, <2>2, <3>1, <3>3, ReferralAfter
      <4> QED
        BY <3>1, <4>1 DEF Recorded, R!Returned
    <3> QED
      BY <3>2, <3>3
  <2> QED
    BY <2>1, <2>2
<1>8. ASSUME NEW d \in Callers
      PROVE  Alone(d)'
  <2>1. CASE rcall'[d] = rcall[d]
    <3> SUFFICES ASSUME rcall[d].at = "create", NEW r \in referrals', r.recipient = rcall[d].recipient
                 PROVE  r.recipient \in raced'
      BY <2>1 DEF Alone
    <3>1. CASE r \in referrals
      BY <3>1 DEF Alone
    <3>2. CASE r \notin referrals
      <4>1. ServingReferral(c) /\ rcall[c].at = "create" /\ r.recipient = rcall[c].recipient
        BY <1>2, <3>2
      <4>2. d # c
        <5>1. rcall'[c].at # "create"
          BY <1>2, <3>2, <4>1, ServesAs
        <5> QED
          BY <2>1, <5>1
      <4>3. r.recipient \in Adding(c) /\ r.recipient \in Adding(d)
        BY <4>1 DEF Adding
      <4> QED
        BY <4>2, <4>3 DEF Together
    <3> QED
      BY <3>1, <3>2
  <2>2. CASE rcall'[d] # rcall[d]
    <3>1. d = c
      BY <1>0, <2>2
    <3>2. CASE ServingReferral(c) /\ rcall'[c].at = "create"
      <4>1. /\ referrals' = referrals /\ rcall'[c].recipient = rcall[c].recipient
            /\ \A row \in referrals : row.recipient # rcall[c].recipient
        BY <3>2, ServesAs
      <4> QED
        BY <3>1, <4>1 DEF Alone
    <3>3. CASE ~ServingReferral(c)
      <4>1. rcall'[c].at \in {"idle", "find", "byCode"}
        BY <1>4, <2>2, <3>1, <3>3, ReferralAfter
      <4> QED
        BY <3>1, <4>1 DEF Alone
    <3>4. CASE rcall'[c].at # "create"
      BY <3>1, <3>4 DEF Alone
    <3> QED
      BY <3>2, <3>3, <3>4
  <2> QED
    BY <2>1, <2>2
<1> QED
  BY <1>5, <1>6, <1>7, <1>8

(* An invited entry is backed by the referral its invitation made. *)
LEMMA IInvSteps ==
    ASSUME TInv, Explicit(plan), Together, IInv, Next
    PROVE  IInv'
<1>1. raced \subseteq raced'
  BY RacesNoted
<1>2. /\ OnePerRecipient /\ \A d \in Callers : Invited(d) /\ Recorded(d) /\ Alone(d)
  BY Zenon DEF IInv
<1>3. ASSUME options.refers, NEW row \in entries, row.referredBy # R!NoOne
      PROVE  /\ row.person \in Persons /\ IsReferred(row.referredBy, row.person)
             /\ row.person \notin raced =>
                    \A r \in referrals : r.recipient = row.person => r.referrer = row.referredBy
  <2>1. row.person \in Persons
    BY TablesNow DEF EntryRows
  <2>2. FindMany(referrals, [recipient |-> row.person]) = {r \in referrals : r.recipient = row.person}
    BY <2>1, RecipientFinds
  <2> DEFINE made == FindMany(referrals, [recipient |-> row.person])
  <2>3. /\ \E r \in made : r.referrer = row.referredBy
        /\ row.person \notin raced => \A r \in made : r.referrer = row.referredBy
    <3>1. InvitationsCredited
      BY Zenon DEF IInv
    <3> QED
      BY <1>3, <3>1, Zenon DEF InvitationsCredited
  <2> HIDE DEF made
  <2>4. made = {r \in referrals : r.recipient = row.person}
    BY <2>2 DEF made
  <2> QED
    BY <2>1, <2>3, <2>4 DEF IsReferred
<1>4. CASE Aside
  <2>1. /\ wcall' = wcall /\ entries' = entries /\ referrals' = referrals /\ rcall' = rcall
        /\ options' = options
    BY <1>4, Zenon DEF Aside, Same, Unreferring, Settings
  <2>2. OnePerRecipient'
    BY <1>1, <1>2, <2>1 DEF OnePerRecipient
  <2>3. \A d \in Callers : Invited(d)' /\ Recorded(d)' /\ Alone(d)'
    BY <1>1, <1>2, <2>1 DEF Invited, Recorded, Alone, IsReferred, R!Returned, Current
  <2>4. InvitationsCredited'
    <3> SUFFICES ASSUME options.refers, NEW row \in entries, row.referredBy # R!NoOne
                 PROVE  LET made == FindMany(referrals, [recipient |-> row.person]) IN
                        /\ \E r \in made : r.referrer = row.referredBy
                        /\ row.person \notin raced' => \A r \in made : r.referrer = row.referredBy
      BY <2>1 DEF InvitationsCredited, FindMany, Matches
    <3>1. InvitationsCredited
      BY Zenon DEF IInv
    <3> DEFINE made == FindMany(referrals, [recipient |-> row.person])
    <3>2. /\ \E r \in made : r.referrer = row.referredBy
          /\ row.person \notin raced => \A r \in made : r.referrer = row.referredBy
      BY <3>1, Zenon DEF InvitationsCredited
    <3> HIDE DEF made
    <3>3. /\ \E r \in made : r.referrer = row.referredBy
          /\ row.person \notin raced' => \A r \in made : r.referrer = row.referredBy
      BY <1>1, <3>2
    <3> QED
      BY <3>3 DEF made
  <2> QED
    BY <2>2, <2>3, <2>4 DEF IInv
<1>5. ASSUME NEW c \in Callers, Acts(c)
      PROVE  IInv'
  <2>1. OnePerRecipient' /\ \A d \in Callers : Invited(d)' /\ Recorded(d)' /\ Alone(d)'
    BY <1>1, <1>2, <1>5, IInvCallers
  <2>2. options' = options /\ referrals \subseteq referrals' /\ EntriesTyped
    <3>1. options' = options
      BY <1>5, Zenon DEF Acts, Settings
    <3>2. referrals \subseteq referrals'
      BY <1>5, ReferralsGrow DEF Creates
    <3> QED
      BY <1>5, <3>1, <3>2, ActsTyped
  <2>3. ASSUME options.refers, NEW row \in entries', row.referredBy # R!NoOne
        PROVE  \E r \in referrals : r.referrer = row.referredBy /\ r.recipient = row.person
    <3>1. CASE row \in entries
      BY <1>3, <2>3, <3>1 DEF IsReferred
    <3>2. CASE row \notin entries
      <4>1. Creating(c)
        BY <1>5, <2>3, <3>2, EntriesShrink
      <4>2. row = NewEntry(c) /\ wcall[c].at = "create" /\ wcall[c].op \in Adders
        BY <3>2, <4>1, Zenon DEF Creating
      <4>3. row.referredBy = wcall[c].inviter /\ row.person = Current(c).person
        BY <4>1, <4>2, NewEntryTyped
      <4>4. WDuty(c) /\ wcall[c] # Idle
        BY <4>2, Busy DEF Stages
      <4>5. wcall[c].op = "invite"
        BY <2>3, <4>3, <4>4, Zenon DEF WDuty
      <4> QED
        BY <1>2, <2>3, <4>2, <4>3, <4>5 DEF Invited, IsReferred
    <3> QED
      BY <3>1, <3>2
  <2>4. ASSUME options.refers, NEW row \in entries', row.referredBy # R!NoOne
        PROVE  LET made == FindMany(referrals', [recipient |-> row.person]) IN
               /\ \E r \in made : r.referrer = row.referredBy
               /\ row.person \notin raced' => \A r \in made : r.referrer = row.referredBy
    <3>1. row.person \in Persons
      BY <2>2, <2>4 DEF EntriesTyped, EntryRows
    <3> DEFINE made == FindMany(referrals', [recipient |-> row.person])
    <3>2. made = {r \in referrals' : r.recipient = row.person}
      BY <3>1, RecipientFinds
    <3> HIDE DEF made
    <3>3. PICK r1 \in referrals : r1.referrer = row.referredBy /\ r1.recipient = row.person
      BY <2>3, <2>4
    <3>4. r1 \in made
      BY <2>2, <3>2, <3>3
    <3>5. ASSUME row.person \notin raced', NEW r \in made
          PROVE  r.referrer = row.referredBy
      <4>1. r \in referrals' /\ r1 \in referrals' /\ r.recipient = r1.recipient
        BY <2>2, <3>2, <3>3, <3>5
      <4>2. r = r1
        BY <2>1, <3>3, <3>5, <4>1 DEF OnePerRecipient
      <4> QED
        BY <3>3, <4>2
    <3> QED
      BY <3>3, <3>4, <3>5 DEF made
  <2>5. InvitationsCredited'
    BY <2>2, <2>4 DEF InvitationsCredited, FindMany, Matches
  <2> QED
    BY <2>1, <2>5 DEF IInv
<1> QED
  BY <1>4, <1>5, Steps

(* A code is a string. *)
LEMMA CodesAreNamed ==
    ASSUME TInv, CodesNamed(plan), Issued, NEW p \in Persons, NEW code, <<p, code>> \in coded
    PROVE  code # Undefined /\ code # Null
<1>1. offer = plan.offer
  BY Zenon DEF TInv
<1>2. code = CodeFor(p)
  <2>1. PICK pair \in coded : pair = <<p, code>>
    OBVIOUS
  <2>2. pair[1] = p /\ pair[2] = code
    BY <2>1
  <2>3. pair[2] = CodeFor(pair[1])
    BY Zenon DEF Issued
  <2> QED
    BY <2>2, <2>3
<1> QED
  BY <1>1, <1>2 DEF CodesNamed, CodeFor, R!Generates

(* getReferralCode hands out that code. *)
LEMMA CodeIsFor ==
    ASSUME TInv, KInv, NEW person \in Persons, NEW code, R!CodeOf(person, code)
    PROVE  code = CodeFor(person)
<1>1. CASE R!Generates
  BY <1>1 DEF R!CodeOf, CodeFor
<1>2. CASE ~R!Generates
  <2> DEFINE where == [referrer |-> person]
             made == R!FindMany(referrals, where)
  <2>1. \/ \E row \in made : code = IF row.code = Null THEN person.id ELSE row.code
        \/ code = person.id
    BY <1>2, Zenon DEF R!CodeOf
  <2>2. \A row \in made : row \in referrals /\ row.referrer = person
    <3>1. DOMAIN where = {"referrer"} /\ where["referrer"] = person /\ person # Undefined
      BY ActorAssumption
    <3> HIDE DEF where
    <3> QED
      BY <3>1 DEF R!FindMany, R!Matches
  <2> HIDE DEF made
  <2>3. ASSUME NEW row \in made, row.code # Null
        PROVE  row.code = person.id
    <3>1. <<row.referrer, row.code>> \in coded
      BY <2>2, <2>3 DEF KInv, Vouched
    <3>2. PICK pair \in coded : pair = <<row.referrer, row.code>>
      BY <3>1
    <3>3. pair[1] = person /\ pair[2] = row.code
      BY <2>2, <2>3, <3>2
    <3>4. pair[2] = CodeFor(pair[1])
      BY Zenon DEF KInv, Issued
    <3> QED
      BY <1>2, <3>3, <3>4 DEF CodeFor
  <2> QED
    BY <1>2, <2>1, <2>3 DEF CodeFor
<1> QED
  BY <1>1, <1>2

(* A code that was handed out leads to its person. *)
LEMMA KInvActs ==
    ASSUME TInv, Explicit(plan), CodesNamed(plan), KInv, NEW c \in Callers, Acts(c)
    PROVE  KInv'
<1>0. /\ \A d \in Callers \ {c} : rcall'[d] = rcall[d]
      /\ coded' = coded /\ offer' = offer
  BY Zenon DEF Acts, OnlyOf, Settings
<1>1. Issued /\ Vouched /\ (\A d \in Callers : Asked(d)) /\ CodesResolve
  BY Zenon DEF KInv
<1>2. R!Idle.at = "idle" /\ R!Idle.op = "none"
  BY DEF R!Idle
<1>3. Issued'
  BY <1>0, <1>1 DEF Issued, CodeFor, R!Generates
<1>4. Vouched'
  <2>1. CASE referrals' = referrals
    BY <1>0, <1>1, <2>1 DEF Vouched
  <2>2. CASE Creates(c)
    <3>1. PICK n : /\ referrals' = referrals \cup {n}
                   /\ n.referrer = rcall[c].referrer /\ n.code = Stored(rcall[c].code)
      BY <2>2 DEF Creates
    <3>2. n.code # Null => <<n.referrer, n.code>> \in coded
      BY <1>1, <2>2, <3>1 DEF Creates, Asked, Stored
    <3> QED
      BY <1>0, <1>1, <3>1, <3>2 DEF Vouched
  <2> QED
    BY <2>1, <2>2, ReferralsGrow
<1>5. ASSUME NEW d \in Callers
      PROVE  Asked(d)'
  <2>1. CASE rcall'[d] = rcall[d]
    BY <1>0, <1>1, <2>1 DEF Asked
  <2>2. CASE d = c /\ ServingReferral(c)
    BY <1>0, <1>1, <2>2, ServesAs DEF Asked
  <2>3. CASE d = c /\ ~ServingReferral(c) /\ rcall'[c] # rcall[c]
    <3>1. CASE rcall'[c].op = "resolve" /\ \E pair \in coded : rcall'[c].code = pair[2]
      <4>1. PICK pair \in coded : rcall'[c].code = pair[2]
        BY <3>1
      <4>2. pair[1] \in Persons /\ pair = <<pair[1], pair[2]>>
        BY <1>1 DEF Issued
      <4>3. \E p \in Persons : <<p, rcall'[c].code>> \in coded
        BY <4>1, <4>2
      <4> QED
        BY <1>0, <2>3, <3>1, <4>3 DEF Asked
    <3>2. CASE rcall'[c] = R!Idle
      BY <1>2, <2>3, <3>2 DEF Asked
    <3>3. CASE /\ rcall'[c].op = "refer"
               /\ rcall'[c].code = Undefined \/ <<rcall'[c].referrer, rcall'[c].code>> \in coded
      BY <1>0, <2>3, <3>3 DEF Asked
    <3> QED
      BY <2>3, <3>1, <3>2, <3>3, ReferralAfter
  <2> QED
    BY <1>0, <2>1, <2>2, <2>3
<1>6. ASSUME NEW d \in Callers, rcall'[d].op = "resolve", rcall'[d].at = "returned",
             rcall'[d].out = "done"
      PROVE  \/ <<rcall'[d].answer, rcall'[d].code>> \in coded
             \/ rcall'[d].answer.id = rcall'[d].code
             \/ offer.type = Null /\ rcall'[d].answer = R!NoOne
  <2>1. CASE rcall'[d] = rcall[d]
    BY <1>1, <1>6, <2>1 DEF CodesResolve, R!Returned
  <2>2. CASE d = c /\ ~ServingReferral(c) /\ rcall'[c] # rcall[c]
    BY <1>2, <1>6, <2>2, ReferralAfter
  <2>3. CASE d = c /\ ServingReferral(c)
    <3>1. Resolves(c) /\ rcall'[c].code = rcall[c].code /\ referrals' = referrals
      BY <1>6, <2>3, ServesAs DEF Creates
    <3>2. PICK answer, code : answer = rcall'[c].answer /\ code = rcall[c].code
      OBVIOUS
    <3>3. rcall[c].op = "resolve"
      BY <3>1 DEF Resolves
    <3>4. PICK p \in Persons : <<p, code>> \in coded
      BY <1>1, <3>2, <3>3 DEF Asked
    <3>5. code # Undefined /\ code # Null
      BY <1>1, <3>4, CodesAreNamed
    <3>7. \/ \E row \in referrals : row.code = code /\ answer = row.referrer
          \/ \E row \in referrals : row.referrer.id = code /\ answer = row.referrer
          \/ answer = IF offer.type = Null THEN R!NoOne ELSE [type |-> offer.type, id |-> code]
      BY <3>1, <3>2, <3>5 DEF Resolves
    <3>8. <<answer, code>> \in coded \/ answer.id = code \/ (offer.type = Null /\ answer = R!NoOne)
      <4>1. CASE \E row \in referrals : row.code = code /\ answer = row.referrer
        BY <1>1, <3>5, <4>1 DEF Vouched
      <4>2. CASE \E row \in referrals : row.referrer.id = code /\ answer = row.referrer
        BY <4>2
      <4>3. CASE answer = IF offer.type = Null THEN R!NoOne ELSE [type |-> offer.type, id |-> code]
        BY <4>3
      <4> QED
        BY <3>7, <4>1, <4>2, <4>3
    <3> QED
      BY <2>3, <3>1, <3>2, <3>8
  <2> QED
    BY <1>0, <2>1, <2>2, <2>3
<1>7. CodesResolve'
  BY <1>0, <1>6 DEF CodesResolve, R!Returned, R!NoOne
<1> QED
  BY <1>3, <1>4, <1>5, <1>7 DEF KInv

LEMMA KInvSteps ==
    ASSUME TInv, Explicit(plan), CodesNamed(plan), KInv, Next
    PROVE  KInv'
<1>1. CASE \E c \in Callers : Acts(c)
  BY <1>1, KInvActs
<1>2. CASE Aside
  <2>1. /\ wcall' = wcall /\ referrals' = referrals /\ rcall' = rcall /\ offer' = offer
        /\ coded \subseteq coded'
        /\ \A pair \in coded' :
               \/ pair \in coded
               \/ \E person \in Persons, code \in R!Codes :
                      R!CodeOf(person, code) /\ pair = <<person, code>>
    BY <1>2, Zenon DEF Aside, Same, Unreferring, Settings
  <2>2. Issued /\ Vouched /\ (\A d \in Callers : Asked(d)) /\ CodesResolve
    BY Zenon DEF KInv
  <2>3. ASSUME NEW pair \in coded'
        PROVE  pair[1] \in Persons /\ pair = <<pair[1], pair[2]>> /\ pair[2] = CodeFor(pair[1])
    <3>1. CASE pair \in coded
      BY <2>2, <3>1, Zenon DEF Issued
    <3>2. CASE \E person \in Persons, code \in R!Codes :
                   R!CodeOf(person, code) /\ pair = <<person, code>>
      <4>1. PICK person \in Persons, code \in R!Codes :
                   R!CodeOf(person, code) /\ pair = <<person, code>>
        BY <3>2
      <4>2. code = CodeFor(person)
        BY <4>1, CodeIsFor
      <4> QED
        BY <4>1, <4>2
    <3> QED
      BY <2>1, <3>1, <3>2
  <2>4. Issued'
    BY <2>1, <2>3 DEF Issued, CodeFor, R!Generates
  <2>5. Vouched' /\ \A d \in Callers : Asked(d)'
    BY <2>1, <2>2 DEF Vouched, Asked
  <2>6. CodesResolve'
    BY <2>1, <2>2 DEF CodesResolve, R!Returned
  <2> QED
    BY <2>4, <2>5, <2>6 DEF KInv
<1> QED
  BY <1>1, <1>2, Steps

-----------------------------------------------------------------------------
(***************************************************************************)
(* Calls remove what they mean to remove.                                  *)
(***************************************************************************)

(* A deletion is about to be made in the remaining stages. *)
LEMMA DeleteAfter ==
    ASSUME TInv, Explicit(plan), NEW c \in Callers, Acts(c), wcall'[c].at = "delete",
           wcall'[c] # wcall[c]
    PROVE  /\ Targeting(c) /\ Same
           /\ \E row \in Sought(c) :
                  row \in entries /\ Moves(c, "delete") /\ wcall'[c].target = row.id
<1>1. Targeting(c)
  <2>1. ~Passive(c)
    BY PassiveKeeps
  <2>2. ~Looking(c)
    <3>1. Moves(c, "create") => wcall'[c].at = "create"
      BY Zenon DEF Moves
    <3> QED
      BY <3>1, StageAfter
  <2>3. ~Starting(c) /\ ~Taking(c) /\ ~Listing(c) /\ ~Throwing(c) /\ ~Inviting(c)
        /\ ~Referring(c) /\ ~Creating(c) /\ ~Removing(c)
    BY StageAfter
  <2> QED
    BY <2>1, <2>2, <2>3, Zenon DEF Acts, Quiet, Serves, Passive
<1>2. ~Advances(c)
  <2>1. wcall[c].at = "remove"
    BY <1>1, Zenon DEF Targeting
  <2>2. wcall[c] \in WaitlistCalls
    BY <2>1, Busy DEF Stages
  <2>3. Advances(c) => wcall'[c].at \in {"find", "remove", "returned"}
    BY <2>2, AdvanceFields DEF LoopsAt
  <2> QED
    BY <2>3
<1>3. Same
  BY <1>1, Zenon DEF Targeting
<1> QED
  BY <1>1, <1>2, <1>3, TargetsMove

(* The row a call is about to delete is one of its actor. *)
LEMMA OwnTargetActs ==
    ASSUME TInv, Explicit(plan), WInv, OInv, NEW c \in Callers, Acts(c), NEW d \in Callers
    PROVE  OwnTarget(d)'
<1>0. options' = options
  BY Zenon DEF Acts, Settings
<1> SUFFICES ASSUME wcall'[d].at = "delete"
             PROVE  /\ wcall'[d].target <= issued'
                    /\ \A row \in entries' :
                           row.id = wcall'[d].target => Keyed(Current(d)', row)
  BY <1>0 DEF OwnTarget, Keyed, Parses, StandsFor, Memory
<1>1. issued \in Nat /\ issued' \in Nat /\ issued <= issued'
  BY ActsTyped, TablesNow DEF EntriesTyped
<1>2. \A row \in entries : row.id \in Nat /\ row.id <= issued
  BY TablesNow
<1>3. CASE wcall'[d] = wcall[d]
  <2>1. wcall[d].target <= issued
        /\ \A row \in entries : row.id = wcall[d].target => Keyed(Current(d), row)
    BY <1>3, Zenon DEF OInv, OwnTarget
  <2>2. wcall[d].target \in Nat
    <3>1. wcall[d] \in WaitlistCalls
      BY <1>3, Busy DEF Stages
    <3> QED
      BY <3>1 DEF WaitlistCalls
  <2>3. Current(d)' = Current(d)
    BY <1>3 DEF Current
  <2>4. \A row \in entries' \ entries : row.id = issued + 1
    <3>1. CASE Creating(c)
      <4>1. entries' = entries \cup {NewEntry(c)}
        BY <3>1, Zenon DEF Creating
      <4> QED
        BY <3>1, <4>1, NewEntryTyped
    <3>2. CASE ~Creating(c)
      BY <3>2, EntriesShrink
    <3> QED
      BY <3>1, <3>2
  <2>5. wcall'[d].target <= issued'
    BY <1>1, <1>3, <2>1, <2>2
  <2>6. ASSUME NEW row \in entries', row.id = wcall'[d].target
        PROVE  row \in entries
    BY <1>1, <1>3, <2>1, <2>2, <2>4, <2>6
  <2> QED
    BY <1>3, <2>1, <2>3, <2>5, <2>6
<1>4. CASE wcall'[d] # wcall[d]
  <2>1. d = c
    BY <1>4, Zenon DEF Acts, OnlyOf
  <2>2. PICK r \in Sought(c) :
            r \in entries /\ Moves(c, "delete") /\ wcall'[c].target = r.id
    BY <1>4, <2>1, DeleteAfter
  <2>3. Targeting(c) /\ entries' = entries /\ issued' = issued
    BY <1>4, <2>1, DeleteAfter DEF Same
  <2>4. wcall'[c].actors = wcall[c].actors /\ wcall'[c].next = wcall[c].next
    BY <2>2, Zenon DEF Moves
  <2>5. Current(c)' = Current(c)
    BY <2>4 DEF Current
  <2>6. wcall[c].at = "remove"
    BY <2>3, Zenon DEF Targeting
  <2>7. Parses(Current(c))
    BY <2>3, Zenon DEF Targeting
  <2>8. Keyed(Current(c), r)
    BY <2>2, <2>6, <2>7, SoughtOwn DEF Keyed
  <2>9. \A row \in entries : row.id = r.id => row = r
    BY <2>2, TablesNow DEF UniqueIds
  <2> QED
    BY <1>2, <2>1, <2>2, <2>3, <2>5, <2>8, <2>9
<1> QED
  BY <1>3, <1>4

(* What pop and the cleanup are to remove are the actors of what they read. *)
LEMMA OwnReadLists ==
    ASSUME TInv, NEW c \in Callers, Listing(c), wcall[c].op \in {"pop", "cleanup"},
           wcall'[c].at = "remove"
    PROVE  \A i \in DOMAIN wcall'[c].actors :
               \E row \in wcall'[c].read : wcall'[c].actors[i] = ActorOf(row)
<1> DEFINE k == wcall[c]
           due == {row \in entries : Expired(row, k.asOf)}
<1>1. k.at = "list"
  BY Zenon DEF Listing
<1>2. k \in WaitlistCalls
  BY <1>1, Busy DEF Stages
<1>3. ~EndsAs(c, "done")
  BY <1>2, EndFields DEF Outs
<1>4. CASE k.op = "pop"
  <2>1. k.op # "cleanup" /\ k.op # "getPosition"
    BY <1>4
  <2>2. PICK r \in entries :
            wcall'[c] = [k EXCEPT !.at = "remove", !.read = {r}, !.actors = <<ActorOf(r)>>]
    BY <1>3, <1>4, <2>1, Zenon DEF Listing
  <2> DEFINE actors == <<ActorOf(r)>>
  <2>3. DOMAIN actors = {1} /\ actors[1] = ActorOf(r)
    OBVIOUS
  <2>4. PICK n : n = wcall'[c]
    OBVIOUS
  <2>5. n = [k EXCEPT !.at = "remove", !.read = {r}, !.actors = actors]
    BY <2>2, <2>4
  <2> HIDE DEF actors
  <2>6. n.read = {r} /\ n.actors = actors
    BY <1>2, <2>5 DEF WaitlistCalls
  <2> QED
    BY <2>3, <2>4, <2>6
<1>5. CASE k.op = "cleanup"
  <2>1. k.op # "pop" /\ k.op # "getPosition"
    BY <1>5
  <2>2. PICK order \in SetToSeqs(due) :
            wcall'[c] = [k EXCEPT !.at = "remove", !.read = due,
                             !.actors = [i \in DOMAIN order |-> ActorOf(order[i])]]
    BY <1>3, <1>5, <2>1, Zenon DEF Listing
  <2> DEFINE actors == [i \in DOMAIN order |-> ActorOf(order[i])]
  <2>3. IsFiniteSet(due)
    BY TablesNow, FS_Subset
  <2> HIDE DEF due
  <2>4. order \in Seq(due)
    BY <2>3, Ordered
  <2>5. \A i \in DOMAIN actors : order[i] \in due /\ actors[i] = ActorOf(order[i])
    BY <2>4
  <2>6. PICK n : n = wcall'[c]
    OBVIOUS
  <2> HIDE DEF actors
  <2>7. n = [k EXCEPT !.at = "remove", !.read = due, !.actors = actors]
    BY <2>2, <2>6 DEF actors
  <2>8. n.read = due /\ n.actors = actors
    BY <1>2, <2>7 DEF WaitlistCalls
  <2> QED
    BY <2>5, <2>6, <2>8
<1> QED
  BY <1>4, <1>5

LEMMA OwnReadActs ==
    ASSUME TInv, Explicit(plan), OInv, NEW c \in Callers, Acts(c), NEW d \in Callers
    PROVE  OwnRead(d)'
<1> SUFFICES ASSUME wcall'[d].op \in {"pop", "cleanup"}, wcall'[d].at \in {"remove", "delete"}
             PROVE  \A i \in DOMAIN wcall'[d].actors :
                        \E row \in wcall'[d].read : wcall'[d].actors[i] = ActorOf(row)
  BY DEF OwnRead, ActorOf
<1>0. wcall[d].op \in {"pop", "cleanup"} /\ wcall[d].at \in {"remove", "delete"} =>
          \A i \in DOMAIN wcall[d].actors :
              \E row \in wcall[d].read : wcall[d].actors[i] = ActorOf(row)
  BY Zenon DEF OInv, OwnRead
<1>1. CASE wcall'[d] = wcall[d]
  BY <1>0, <1>1
<1>2. CASE wcall'[d] # wcall[d]
  <2>1. d = c
    BY <1>2, Zenon DEF Acts, OnlyOf
  <2>2. ~Starting(c) /\ ~Taking(c) /\ ~Throwing(c) /\ ~Inviting(c) /\ ~Referring(c)
    BY <2>1, StageAfter
  <2>3. ~Passive(c)
    BY <1>2, <2>1, PassiveKeeps
  <2>4. CASE Listing(c)
    <3>1. plan' = plan /\ options' = options
      BY Zenon DEF Acts, Settings
    <3>2. wcall[c].op = wcall'[c].op /\ wcall'[c].at = "remove"
      BY <2>1, <2>4, <3>1, ListsDuty
    <3> QED
      BY <2>1, <2>4, <3>2, OwnReadLists
  <2>5. CASE ~Listing(c)
    <3>1. /\ wcall'[c].op = wcall[c].op /\ wcall'[c].actors = wcall[c].actors
          /\ wcall'[c].read = wcall[c].read
      BY <2>1, <2>2, <2>5, CallKept
    <3>2. wcall[c].op \notin Adders \cup Leavers
      BY <2>1, <3>1 DEF Adders, Leavers
    <3>3. ~Looking(c) /\ ~Creating(c)
      BY <3>2, Zenon DEF Looking, Creating
    <3>4. Targeting(c) \/ Removing(c)
      BY <2>2, <2>3, <2>5, <3>3, Zenon DEF Acts, Quiet, Serves, Passive
    <3>5. wcall[c].at \in {"remove", "delete"}
      BY <3>4, Zenon DEF Targeting, Removing
    <3> QED
      BY <1>0, <2>1, <3>1, <3>5
  <2> QED
    BY <2>4, <2>5
<1> QED
  BY <1>1, <1>2

LEMMA OInvSteps ==
    ASSUME TInv, Explicit(plan), WInv, OInv, Next
    PROVE  OInv'
<1>1. CASE \E c \in Callers : Acts(c)
  BY <1>1, OwnTargetActs, OwnReadActs, Zenon DEF OInv
<1>2. CASE Aside
  <2>1. wcall' = wcall /\ entries' = entries /\ issued' = issued /\ options' = options
    BY <1>2, Zenon DEF Aside, Same, Settings
  <2> QED
    BY <2>1 DEF OInv, OwnTarget, OwnRead, Current, Keyed, Parses, StandsFor, Memory
<1> QED
  BY <1>1, <1>2, Steps

(* Whose entry a step removes. *)
LEMMA RemovesOwn ==
    ASSUME TInv, Explicit(plan), WInv, OInv, Next,
           NEW c \in Callers, wcall'[c] # wcall[c], NEW row \in entries \ entries'
    PROVE  \/ wcall[c].op \in Leavers /\ Keyed(Current(c), row)
           \/ row \in wcall[c].read
           \/ row.person \in raced
           \/ \E r \in wcall[c].read, org \in Orgs \cup {Undefined} :
                  /\ r.org = Stored(org) /\ Keyed([person |-> r.person, org |-> org], row)
                  /\ r \notin entries \/ r.person # row.person \/ r.org # row.org
<1>1. Acts(c)
  <2>1. ~Aside
    BY Zenon DEF Aside
  <2>2. PICK d \in Callers : Acts(d)
    BY <2>1, Steps
  <2>3. d = c
    BY <2>2, Zenon DEF Acts, OnlyOf
  <2> QED
    BY <2>2, <2>3
<1>2. Removing(c)
  <2>1. ~Same
    BY DEF Same
  <2>2. ~Creating(c)
    <3>1. Creating(c) => entries' = entries \cup {NewEntry(c)}
      BY Zenon DEF Creating
    <3> QED
      BY <3>1
  <2> QED
    BY <1>1, <2>1, <2>2, Zenon DEF Acts, Quiet, Starting, Taking, Looking, Targeting, Listing, Throwing,
       Serves, Inviting, Referring, AskingReferral, TakingReferral, ServingReferral
<1>3. wcall[c].at \in {"remove", "delete"}
  BY <1>2, Zenon DEF Removing
<1>4. /\ wcall[c] \in WaitlistCalls /\ wcall[c].at \in StagesOf(wcall[c].op) /\ wcall[c].op \in Ops
      /\ wcall[c].next \in DOMAIN wcall[c].actors
  BY <1>3, Busy DEF Stages
<1>5. Current(c) \in ActorsOf(plan)
  BY <1>3, CurrentActor DEF Stages
<1>6. Keyed(Current(c), row)
  <2>1. CASE /\ wcall[c].at = "remove" /\ Parses(Current(c))
             /\ \E r \in Sought(c) : entries' = {e \in entries : e.id # r.id}
    <3>1. PICK r \in Sought(c) : entries' = {e \in entries : e.id # r.id}
      BY <2>1
    <3>2. r \in entries /\ Keyed(Current(c), r)
      BY <2>1, <3>1, SoughtOwn DEF Keyed
    <3>3. row = r
      BY <3>1, <3>2, TablesNow DEF UniqueIds
    <3> QED
      BY <3>2, <3>3
  <2>2. CASE wcall[c].at = "delete" /\ entries' = {e \in entries : e.id # wcall[c].target}
    <3>1. row.id = wcall[c].target
      BY <2>2
    <3>2. OwnTarget(c)
      BY Zenon DEF OInv
    <3> QED
      BY <2>2, <3>1, <3>2, Zenon DEF OwnTarget
  <2> QED
    BY <1>2, <2>1, <2>2, Zenon DEF Removing
<1>7. wcall[c].op \in Leavers \cup {"pop", "cleanup"}
  BY <1>3, <1>4 DEF StagesOf, Ops, Adders, Leavers
<1>8. CASE wcall[c].op \in {"pop", "cleanup"}
  <2>1. PICK r \in wcall[c].read : wcall[c].actors[wcall[c].next] = ActorOf(r)
    BY <1>3, <1>4, <1>8, Zenon DEF OInv, OwnRead
  <2>2. r \in EntryRows /\ Current(c) = ActorOf(r)
    BY <1>4, <2>1 DEF WaitlistCalls, Current
  <2>3. PICK org : org = IF r.org = Null THEN Undefined ELSE r.org
    OBVIOUS
  <2>4. org \in Orgs \cup {Undefined} /\ r.org = Stored(org)
    BY <2>2, <2>3, ActorAssumption DEF EntryRows, Stored
  <2>5. Keyed([person |-> r.person, org |-> org], row)
    BY <1>6, <2>2, <2>3 DEF ActorOf
  <2>6. WaitsOnce
    BY Zenon DEF WInv
  <2>7. r \in entries /\ r.person = row.person /\ r.org = row.org => r = row \/ row.person \in raced
    BY <2>6, Zenon DEF WaitsOnce
  <2> QED
    BY <2>1, <2>4, <2>5, <2>7
<1> QED
  BY <1>6, <1>7, <1>8

-----------------------------------------------------------------------------
(***************************************************************************)
(* The theorems.                                                           *)
(***************************************************************************)

LEMMA Initially ==
    ASSUME Init, \A d \in Deployments : Explicit(d)
    PROVE  TInv /\ WInv /\ HInv /\ CInv /\ OInv /\ IInv /\ KInv
<1>1. PICK d \in Deployments :
        /\ plan = d
        /\ options = [adapter |-> d.adapter, refers |-> d.refers]
        /\ offer = d.offer
  BY DEF Init
<1>2. /\ entries = {} /\ issued = 0 /\ now = 0 /\ referrals = {}
      /\ raced = {} /\ mistaken = {} /\ contested = {} /\ handed = {} /\ again = {} /\ coded = {}
      /\ wcall = [c \in Callers |-> Idle] /\ rcall = [c \in Callers |-> R!Idle]
      /\ calm = [c \in Callers |-> FALSE]
  BY DEF Init
<1>3. /\ DOMAIN wcall = Callers /\ DOMAIN rcall = Callers /\ DOMAIN calm = Callers
      /\ \A c \in Callers : wcall[c] = Idle /\ rcall[c] = R!Idle /\ ~calm[c]
  BY <1>2
<1>4. /\ Idle.at = "idle" /\ Idle.op = "none" /\ R!Idle.at = "idle" /\ R!Idle.op = "none"
  BY DEF Idle, R!Idle
<1>5. \A c \in Callers : /\ WDuty(c) /\ RDuty(c) /\ Adding(c) = {} /\ ReadByPop(c) = {} /\ ~Pops(c)
  <2> SUFFICES ASSUME NEW c \in Callers
               PROVE  WDuty(c) /\ RDuty(c) /\ Adding(c) = {} /\ ReadByPop(c) = {} /\ ~Pops(c)
    OBVIOUS
  <2>1. WDuty(c)
    BY <1>3 DEF WDuty
  <2>2. RDuty(c)
    BY <1>3, <1>4 DEF RDuty
  <2> QED
    BY <1>3, <1>4, <2>1, <2>2 DEF Adding, ReadByPop, Pops
<1>6. TInv
  <2>1. IsFiniteSet(referrals) /\ IsFiniteSet(entries)
    BY <1>2, FS_EmptySet
  <2>2. TypeOK
    <3>1. options \in [adapter : {"memory", "db"}, refers : BOOLEAN] /\ 0 \in Times
      BY <1>1, ActorAssumption DEF Explicit, Times
    <3> QED
      BY <1>2, <3>1 DEF TypeOK
  <2> QED
    BY <1>1, <1>2, <1>3, <1>5, <2>1, <2>2 DEF TInv
<1>7. WInv
  BY <1>2, <1>3, <1>4, <1>5 DEF WInv, WaitsOnce, Together, Noted, Mistakes
<1>8. HInv
  BY <1>2, <1>5 DEF HInv, HandedOnce
<1>9. CInv
  BY <1>3 DEF CInv
<1>10. IInv
  <2>1. InvitationsCredited /\ OnePerRecipient
    BY <1>2 DEF InvitationsCredited, OnePerRecipient
  <2>2. \A c \in Callers : Invited(c) /\ Recorded(c) /\ Alone(c)
    BY <1>2, <1>3, <1>4 DEF Invited, Recorded, Alone
  <2> QED
    BY <2>1, <2>2 DEF IInv
<1>11. KInv
  BY <1>2, <1>3, <1>4 DEF KInv, Issued, Vouched, Asked, CodesResolve
<1>12. OInv
  BY <1>3, <1>4 DEF OInv, OwnTarget, OwnRead
<1> QED
  BY <1>6, <1>7, <1>8, <1>9, <1>10, <1>11, <1>12

LEMMA Stutters ==
    ASSUME TInv, UNCHANGED vars, \A d \in Deployments : Explicit(d)
    PROVE  /\ TInv' /\ (WInv => WInv') /\ (HInv => HInv') /\ (CInv => CInv')
           /\ (IInv => IInv') /\ (KInv => KInv') /\ (OInv => OInv')
<1>1. /\ plan' = plan /\ options' = options /\ offer' = offer /\ entries' = entries
      /\ issued' = issued /\ now' = now /\ referrals' = referrals
      /\ wcall' = wcall /\ rcall' = rcall /\ coded' = coded
      /\ raced' = raced /\ mistaken' = mistaken /\ contested' = contested /\ handed' = handed /\ again' = again
      /\ calm' = calm
  BY DEF vars, wvars, referralVars, history
<1>2. TInv'
  <2>1. Aside
    BY <1>1, TablesNow DEF Aside, Settings, Same, Unreferring
  <2>2. Explicit(plan)
    BY DEF TInv
  <2> QED
    BY <2>1, <2>2, TInvSteps
<1>3. WInv => WInv'
  BY <1>1 DEF WInv, WaitsOnce, Together, Adding, Current, Noted, Mistakes, SameActor, Parsed
<1>4. HInv => HInv'
  BY <1>1 DEF HInv, HandedOnce, Muddled, ReadByPop, InFlight, Pops
<1>5. CInv => CInv'
  BY <1>1 DEF CInv, InFlight, Effected, Targeted, Current, Left, Waits, Muddled, Backed, StandsFor, Memory
<1>6. IInv => IInv'
  BY <1>1 DEF IInv, InvitationsCredited, FindMany, Matches, OnePerRecipient, Invited, Recorded,
     Alone, IsReferred, R!Returned, Current
<1>7. KInv => KInv'
  BY <1>1 DEF KInv, Issued, CodeFor, R!Generates, Vouched, Asked, CodesResolve, R!Returned
<1>8. OInv => OInv'
  BY <1>1 DEF OInv, OwnTarget, OwnRead, Current, Keyed, Parses, StandsFor, Memory
<1> QED
  BY <1>2, <1>3, <1>4, <1>5, <1>6, <1>7, <1>8

(* Every call in progress is at a stage of its operation, about actors of the
   deployment, and the two tables hold rows of their kinds with unique ids. *)
LEMMA Typed ==
    ASSUME \A d \in Deployments : Explicit(d)
    PROVE  Spec => [](TInv /\ WInv)
<1> DEFINE Inv == TInv /\ WInv
<1>1. Init => Inv
  BY Initially
<1>2. Inv /\ [Next]_vars => Inv'
  <2> SUFFICES ASSUME TInv, WInv, [Next]_vars PROVE TInv' /\ WInv'
    OBVIOUS
  <2>1. Explicit(plan)
    BY DEF TInv
  <2>2. CASE Next
    BY <2>1, <2>2, Steps, TInvSteps, WInvSteps
  <2>3. CASE UNCHANGED vars
    BY <2>3, Stutters
  <2> QED
    BY <2>2, <2>3
<1> QED
  BY <1>1, <1>2, PTL DEF Spec

(* An actor has one place in the list and loses it once: WaitsOnce and
   HandedOnce of createWaitlistService.ts 164-183 and 277-287, with the type
   invariant they rest on, whatever the calls of the others do in between. *)
THEOREM ActorsKeepOnePlace ==
    ASSUME \A d \in Deployments : Explicit(d)
    PROVE  Spec => []ActorsOnce
<1> DEFINE Inv == TInv /\ WInv /\ HInv
<1>1. Init => Inv
  BY Initially
<1>2. Inv /\ [Next]_vars => Inv'
  <2> SUFFICES ASSUME TInv, WInv, HInv, [Next]_vars PROVE TInv' /\ WInv' /\ HInv'
    OBVIOUS
  <2>1. Explicit(plan)
    BY DEF TInv
  <2>2. CASE Next
    BY <2>1, <2>2, Steps, TInvSteps, WInvSteps, HInvSteps
  <2>3. CASE UNCHANGED vars
    BY <2>3, Stutters
  <2> QED
    BY <2>2, <2>3
<1>3. Inv => ActorsOnce
  BY Zenon DEF TInv, WInv, HInv, ActorsOnce
<1> QED
  BY <1>1, <1>2, <1>3, PTL DEF Spec

(* Calls have the effect they answer unless a call of the other kind overlapped
   (createWaitlistService.ts 121-336). *)
THEOREM CallsDoWhatTheyAnswer ==
    ASSUME \A d \in Deployments : Explicit(d)
    PROVE  Spec => []CallsHonoured
<1> DEFINE Inv == TInv /\ WInv /\ CInv
<1>1. Init => Inv
  BY Initially
<1>2. Inv /\ [Next]_vars => Inv'
  <2> SUFFICES ASSUME TInv, WInv, CInv, [Next]_vars PROVE TInv' /\ WInv' /\ CInv'
    OBVIOUS
  <2>1. Explicit(plan)
    BY DEF TInv
  <2>2. CASE Next
    BY <2>1, <2>2, Steps, TInvSteps, WInvSteps, CInvSteps
  <2>3. CASE UNCHANGED vars
    BY <2>3, Stutters
  <2> QED
    BY <2>2, <2>3
<1>3. Inv => CallsHonoured
  <2> SUFFICES ASSUME CInv, NEW c \in Callers,
                      wcall[c].at = "returned" /\ calm[c] /\ wcall[c].out # "threw"
               PROVE  LET k == wcall[c] IN
                      /\ k.op \in Adders =>
                           \A i \in DOMAIN k.actors : \E row \in entries : StandsFor(k.actors[i], row)
                      /\ k.op \in Leavers =>
                           \A i \in DOMAIN k.actors :
                               k.actors[i].person \in Muddled \/ ~\E row \in entries : SameActor(row, k.actors[i])
                      /\ k.op = "cleanup" =>
                           \A row \in entries : row.person \in Muddled \/ ~Expired(row, k.asOf)
    BY Zenon DEF CallsHonoured
  <2>1. Effected(c)
    BY Zenon DEF CInv
  <2> QED
    BY <2>1, Zenon DEF Effected, Ended, Left, Waits, Backed
<1> QED
  BY <1>1, <1>2, <1>3, PTL DEF Spec

(* unsubscribe, pop and the cleanup remove no entry but one the key of its actor
   leads to, though they find it again after an await: another than the entry
   they read goes only in place of one that another call has removed meanwhile,
   or when that key is ambiguous (createWaitlistService.ts 187-206, 277-287,
   adapters/db.ts 43-55 and plugins/expiration.ts). *)
THEOREM RemovalsAreOwn ==
    ASSUME \A d \in Deployments : Explicit(d)
    PROVE  Spec => RemovesItsOwn
<1> DEFINE Inv == TInv /\ WInv /\ OInv
<1>1. Init => Inv
  BY Initially
<1>2. Inv /\ [Next]_vars => Inv'
  <2> SUFFICES ASSUME TInv, WInv, OInv, [Next]_vars PROVE TInv' /\ WInv' /\ OInv'
    OBVIOUS
  <2>1. Explicit(plan)
    BY DEF TInv
  <2>2. CASE Next
    BY <2>1, <2>2, Steps, TInvSteps, WInvSteps, OInvSteps
  <2>3. CASE UNCHANGED vars
    BY <2>3, Stutters
  <2> QED
    BY <2>2, <2>3
<1> DEFINE Own == \A c \in Callers : \A row \in entries \ entries' :
                      wcall'[c] # wcall[c] =>
                          \/ wcall[c].op \in Leavers /\ Keyed(Current(c), row)
                          \/ row \in wcall[c].read
                          \/ row.person \in raced
                          \/ \E r \in wcall[c].read, org \in Orgs \cup {Undefined} :
                                 /\ r.org = Stored(org) /\ Keyed([person |-> r.person, org |-> org], row)
                                 /\ r \notin entries \/ r.person # row.person \/ r.org # row.org
<1>3. Inv /\ [Next]_vars => [Own]_vars
  <2> SUFFICES ASSUME TInv, WInv, OInv, Next PROVE Own
    OBVIOUS
  <2>1. Explicit(plan)
    BY DEF TInv
  <2> QED
    BY <2>1, RemovesOwn
<1> QED
  BY <1>1, <1>2, <1>3, PTL DEF Spec, RemovesItsOwn

(* An invited entry is backed by its inviter's referral and by no other, and a
   code leads to the person it was made for (createWaitlistService.ts 138-144,
   createReferralService.ts 70-199). *)
THEOREM InvitationsLeadBack ==
    ASSUME \A d \in Deployments : Explicit(d) /\ CodesNamed(d)
    PROVE  Spec => []InvitationsHonoured
<1> DEFINE Inv == TInv /\ WInv /\ IInv /\ KInv
<1>1. Init => Inv
  BY Initially
<1>2. Inv /\ [Next]_vars => Inv'
  <2> SUFFICES ASSUME TInv, WInv, IInv, KInv, [Next]_vars PROVE TInv' /\ WInv' /\ IInv' /\ KInv'
    OBVIOUS
  <2>1. Explicit(plan) /\ CodesNamed(plan) /\ Together
    BY DEF TInv, WInv
  <2>2. CASE Next
    BY <2>1, <2>2, Steps, TInvSteps, WInvSteps, IInvSteps, KInvSteps
  <2>3. CASE UNCHANGED vars
    BY <2>3, Stutters
  <2> QED
    BY <2>2, <2>3
<1>3. Inv => InvitationsHonoured
  BY Zenon DEF IInv, KInv, InvitationsHonoured
<1> QED
  BY <1>1, <1>2, <1>3, PTL DEF Spec

=============================================================================
