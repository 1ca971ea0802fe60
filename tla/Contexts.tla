------------------------------ MODULE Contexts ------------------------------
(***************************************************************************)
(* createContextService (packages/context/src): the slots of a request,    *)
(* each resolved once, by a function that gets other slots one after the   *)
(* other.  What a request remembers of a slot is the promise of it.        *)
(***************************************************************************)
EXTENDS Naturals, Sequences, FiniteSets
LOCAL INSTANCE SequencesExt

CONSTANTS Requests, SlotIds, Getters

VARIABLES
    bag,        \* [slots, listed, fails, dies], slots: id -> [key, scope, waits, needs]: whether
                \*  it awaits something else before it gets the slots it needs
    promises,   \* request -> slot -> promise; <<>>: no context yet
    gets,       \* getter -> [request, slot, out]
    server     \* "up", or "down" of a rejection nobody handles
contextVars == <<bag, promises, gets, server>>

NoGet == [out |-> "none"]
NoPromise == [state |-> "none", at |-> 0]
Promise(state, at) == [state |-> state, at |-> at]
Slot(s) == bag.slots[s]
Needs(s) == Slot(s).needs
(* A slot is known by its key, and remembered as the object it is. *)
SlotMapHas(s) == \E i \in 1 .. Len(bag.listed) : Slot(bag.listed[i]).key = Slot(s).key

-----------------------------------------------------------------------------
(* get, of a slot that has no promise yet, calls its resolver, which runs to its
   first await before the promise is remembered: it gets a slot that has none
   either, and so on.  A circle of such slots never comes to an await, and all
   of them are rejected when the stack is full. *)
Descends(p, s) ==
    /\ ~Slot(s).waits /\ Needs(s) # <<>>
    /\ SlotMapHas(Head(Needs(s))) /\ p[Head(Needs(s))] = NoPromise
Descent(p, s) ==
    LET below[i \in 0 .. Cardinality(SlotIds)] ==
            IF i = 0 THEN {s}
            ELSE below[i - 1] \cup {Head(Needs(x)) : x \in {x \in below[i - 1] : Descends(p, x)}}
    IN  below[Cardinality(SlotIds)]
Gotten(p, s) ==
    LET started == Descent(p, s)
        overflows == \A x \in started : Descends(p, x)
    IN  IF ~SlotMapHas(s) \/ p[s] # NoPromise THEN p
        ELSE [x \in SlotIds |->
                IF x \notin started THEN p[x]
                ELSE Promise(IF overflows THEN "error" ELSE "pending",
                             IF Slot(x).waits THEN 0 ELSE 1)]

(* forRequest gets the slots that are not on demand, and awaits none of them. *)
IsEager(s) == Slot(s).scope \in {"eager", "request"}
ForRequest(r) ==
    LET eager == SelectSeq(bag.listed, IsEager)
        nothing == [s \in SlotIds |-> NoPromise]
    IN  /\ server = "up" /\ promises[r] = <<>>
        /\ promises' = [promises EXCEPT ![r] = FoldLeft(Gotten, nothing, eager)]
        /\ UNCHANGED <<bag, gets, server>>
Get(c, r, s) ==
    /\ server = "up" /\ promises[r] # <<>> /\ gets[c] = NoGet
    /\ gets' = [gets EXCEPT ![c] =
           [request |-> r, slot |-> s, out |-> IF SlotMapHas(s) THEN "awaited" ELSE "error"]]
    /\ promises' = [promises EXCEPT ![r] = Gotten(@, s)]
    /\ UNCHANGED <<bag, server>>
GetReturns(c) ==
    LET g == gets[c] IN
    /\ server = "up" /\ g.out = "awaited"
    /\ promises[g.request][g.slot].state # "pending"
    /\ gets' = [gets EXCEPT ![c].out = promises[g.request][g.slot].state]
    /\ UNCHANGED <<bag, promises, server>>
GetEnds(c) ==
    /\ gets[c].out \in {"value", "error"}
    /\ gets' = [gets EXCEPT ![c] = NoGet]
    /\ UNCHANGED <<bag, promises, server>>

-----------------------------------------------------------------------------
(* A resolver at 0 and after the slots it needs awaits something else, and at i
   the i-th of these slots; an error of it is an error of the slot. *)
Advanced(p, s, at) ==
    LET q == [p EXCEPT ![s].at = at]
    IN  IF at <= Len(Needs(s)) THEN Gotten(q, Needs(s)[at]) ELSE q
Awaited(p, s) ==
    LET n == Needs(s)[p[s].at]
    IN  IF SlotMapHas(n) THEN p[n].state ELSE "error"
Elsewhere(p, s) == p[s].at \in {0, Len(Needs(s)) + 1}
GoesOn(p, s) == IF Elsewhere(p, s) THEN TRUE ELSE Awaited(p, s) = "value"
Fails(p, s) == IF Elsewhere(p, s) THEN bag.fails ELSE Awaited(p, s) = "error"
Rejected(p, s) == [p EXCEPT ![s].state = "error"]
SlotResolved(p, s) ==
    IF p[s].at > Len(Needs(s)) THEN [p EXCEPT ![s].state = "value"]
    ELSE Advanced(p, s, p[s].at + 1)
ForgetsErrorBug(r, s) ==
    LET p == promises[r] IN
    /\ server = "up" /\ p # <<>> /\ p[s].state = "pending"
    /\ \/ /\ GoesOn(p, s)
          /\ promises' = [promises EXCEPT ![r] = SlotResolved(p, s)]
       \/ /\ Fails(p, s)
          /\ promises' = [promises EXCEPT ![r][s] = NoPromise]
    /\ gets' = [c \in Getters |->
           IF promises'[r][s] = NoPromise /\ gets[c] # NoGet /\ gets[c].slot = s
           THEN [gets[c] EXCEPT !.out = "error"] ELSE gets[c]]
    /\ UNCHANGED <<bag, server>>
SlotResolves(r, s) ==
    LET p == promises[r] IN
    /\ server = "up" /\ p # <<>> /\ p[s].state = "pending"
    /\ \/ /\ GoesOn(p, s)
          /\ promises' = [promises EXCEPT ![r] = SlotResolved(p, s)]
       \/ /\ Fails(p, s)
          /\ promises' = [promises EXCEPT ![r] = Rejected(p, s)]
    /\ UNCHANGED <<bag, gets, server>>
(* Nobody awaits what forRequest has got: where the runtime ends the server for
   a rejection that is not handled, it does so for the error of an eager slot. *)
DiesUnhandled(r, s) ==
    /\ server = "up" /\ bag.dies /\ promises[r] # <<>>
    /\ IsEager(s) /\ promises[r][s].state = "error"
    /\ server' = "down"
    /\ promises' = [q \in Requests |-> <<>>] /\ gets' = [c \in Getters |-> NoGet]
    /\ UNCHANGED bag

-----------------------------------------------------------------------------
(***************************************************************************)
(* Handlers get the slots of their requests while the slots resolve.  The  *)
(* history knows what they have been heard of each slot.                    *)
(***************************************************************************)

CONSTANTS ContextPlans

VARIABLES kplan, kgets, heard
contextClientVars == <<contextVars, kplan, kgets, heard>>

NoBag == [service |-> "none"]
ContextsInit ==
    /\ bag = NoBag /\ kplan = NoBag /\ kgets = 0 /\ server = "up" /\ heard = {}
    /\ promises = [r \in Requests |-> <<>>] /\ gets = [c \in Getters |-> NoGet]
ContextsDeploy ==
    /\ kplan = NoBag
    /\ \E p \in ContextPlans : kplan' = p /\ bag' = p.setup
    /\ UNCHANGED <<promises, gets, server, kgets, heard>>

Opens(r) ==
    /\ ForRequest(r)
    /\ UNCHANGED <<kplan, kgets, heard>>
AsksSlot(c) ==
    /\ kgets < kplan.gets
    /\ \E r \in kplan.requests, s \in SlotIds : Get(c, r, s)
    /\ kgets' = kgets + 1
    /\ UNCHANGED <<kplan, heard>>
Hears(c) ==
    /\ GetReturns(c)
    /\ heard' = heard \cup {<<gets[c].request, gets[c].slot, gets'[c].out>>}
    /\ UNCHANGED <<kplan, kgets>>
ContextsRun ==
    /\ \/ \E c \in Getters : GetEnds(c)
       \/ \E r \in kplan.requests, s \in SlotIds : SlotResolves(r, s) \/ DiesUnhandled(r, s)
    /\ UNCHANGED <<kplan, kgets, heard>>
ContextsNext ==
    \/ ContextsDeploy
    \/ /\ kplan # NoBag
       /\ \/ \E r \in kplan.requests : Opens(r)
          \/ \E c \in Getters : AsksSlot(c) \/ Hears(c)
          \/ ContextsRun

-----------------------------------------------------------------------------
(* The slots whose resolvers a resolver waits for, one behind the other. *)
Behind(p, s) ==
    LET waits(x) == p[x].state = "pending" /\ ~Elsewhere(p, x)
        behind[i \in 0 .. Cardinality(SlotIds)] ==
            IF i = 0 THEN {s}
            ELSE {Needs(x)[p[x].at] : x \in {x \in behind[i - 1] : waits(x)}}
    IN  UNION {behind[i] : i \in 1 .. Cardinality(SlotIds)}

(* Every get of a slot in a request ends the same way, whoever comes first and
   whatever has failed; a slot that has a value has been given one by each slot
   it needs; and a get that is never answered waits for slots that wait for each
   other, or for work elsewhere, and never for a resolver nobody has called. *)
ContextKept ==
    /\ \A a, b \in heard : a[1] = b[1] /\ a[2] = b[2] => a[3] = b[3]
    /\ \A r \in {r \in Requests : promises[r] # <<>>}, s \in SlotIds :
           LET p == promises[r] IN
           /\ p[s].state = "value" =>
                  \A i \in 1 .. Len(Needs(s)) : p[Needs(s)[i]].state = "value"
           /\ p[s].state = "pending" => \A x \in Behind(p, s) : SlotMapHas(x) => p[x] # NoPromise
=============================================================================
