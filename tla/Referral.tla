------------------------------ MODULE Referral ------------------------------
(***************************************************************************)
(* @justwant/referral: createReferralService over a table of referrals, for *)
(* one offer.  A person is the type and the id of an actor, the only parts  *)
(* a referral keeps.  rcall[c] is the call caller c has in progress.        *)
(***************************************************************************)
EXTENDS Rows

CONSTANTS
    Callers,
    Persons,                \* records [type, id]
    MayFail                 \* whether repository calls and hooks may throw

VARIABLES
    offer,      \* [generator : the code of each person or Null, type : or Null]
    referrals, rcall

NoOne == [type |-> "none", id |-> "none"]
Ids == {p.id : p \in Persons}
Generates == offer.generator # Null
Codes == Ids \cup (IF Generates THEN {offer.generator[p] : p \in Persons} ELSE {})
ReferralRows ==
    [id : Nat, referrer : Persons, recipient : Persons, code : Codes \cup {Null}]

Idle == [op |-> "none", at |-> "idle"]
Call(op, at, referrer, recipient, code) ==
    [op |-> op, at |-> at, referrer |-> referrer, recipient |-> recipient,
     code |-> code, answer |-> NoOne, out |-> "pending"]

Starts(c, call) == rcall[c] = Idle /\ rcall' = [rcall EXCEPT ![c] = call]
Returned(c, out) == rcall[c].at = "returned" /\ rcall[c].out = out
InFlight(c) == rcall[c].at \notin {"idle", "returned"}
Takes(c) ==
    /\ rcall[c].at = "returned"
    /\ rcall' = [rcall EXCEPT ![c] = Idle]

(* A call may still throw after its last effect: an afterRefer hook does, or
   the answer of the store is lost. *)
Outcomes(out) == {out} \cup (IF MayFail THEN {"threw"} ELSE {})
Returns(c, out) ==
    \E o \in Outcomes(out) :
        rcall' = [rcall EXCEPT ![c] = [@ EXCEPT !.at = "returned", !.out = o]]
Answers(c, person) ==
    rcall' = [rcall EXCEPT ![c] =
                  [@ EXCEPT !.at = "returned", !.out = "done", !.answer = person]]

Doing(c, op, at) == rcall[c].op = op /\ rcall[c].at = at
Goes(c, at) == rcall' = [rcall EXCEPT ![c].at = at]

-----------------------------------------------------------------------------
(* refer: the recipient must not have been referred yet. *)
ReferFind(c) ==
    /\ Doing(c, "refer", "find")
    /\ IF FindsNone(referrals, [recipient |-> rcall[c].recipient])
       THEN Goes(c, "create") ELSE Returns(c, "already")
    /\ UNCHANGED referrals

ReferCreate(c) ==
    /\ Doing(c, "refer", "create")
    /\ referrals' = Create(referrals,
           [id |-> NewId({row.id : row \in referrals}), referrer |-> rcall[c].referrer,
            recipient |-> rcall[c].recipient, code |-> Stored(rcall[c].code)])
    /\ Returns(c, "done")

(* getReferralCode: the codeGenerator of the offer first, then the code of some referral the
   person made, then the person's id. *)
CodeOf(person, code) ==
    IF Generates THEN code = offer.generator[person]
    ELSE \/ \E row \in FindMany(referrals, [referrer |-> person]) :
                code = IF row.code = Null THEN person.id ELSE row.code
         \/ FindsNone(referrals, [referrer |-> person]) /\ code = person.id

(* resolveCode: a referral that was made with the code, then one made by a
   person with that id, then the person of the default type with that id. *)
ToActorRecipientBug(row) == row.recipient
ToActor(row) == row.referrer

ResolveByCode(c) ==
    /\ Doing(c, "resolve", "byCode")
    /\ \/ /\ FindsNone(referrals, [code |-> rcall[c].code])
          /\ Goes(c, "byReferrer")
       \/ \E row \in FindMany(referrals, [code |-> rcall[c].code]) : Answers(c, ToActor(row))
    /\ UNCHANGED referrals

ResolveByReferrer(c) ==
    LET made == {row \in referrals : row.referrer.id = rcall[c].code} IN
    /\ Doing(c, "resolve", "byReferrer")
    /\ \/ \E row \in made : Answers(c, ToActor(row))
       \/ /\ made = {}
          /\ Answers(c, IF offer.type = Null THEN NoOne
                        ELSE [type |-> offer.type, id |-> rcall[c].code])
    /\ UNCHANGED referrals

Rejected(c) ==
    /\ MayFail /\ InFlight(c)
    /\ rcall' = [rcall EXCEPT ![c] = [@ EXCEPT !.at = "returned", !.out = "threw"]]
    /\ UNCHANGED referrals

ReferralStep(c) ==
    /\ UNCHANGED offer
    /\ \/ ReferFind(c) \/ ReferCreate(c)
       \/ ResolveByCode(c) \/ ResolveByReferrer(c)
       \/ Rejected(c)
=============================================================================
