------------------------------- MODULE Events -------------------------------
(***************************************************************************)
(* The event bus (packages/event/src): createPrimitiveEventBus and the     *)
(* typed bus over it.  Handlers run one inside the other: a handler may    *)
(* emit, listen and unlisten before it returns, or throw.                  *)
(***************************************************************************)
EXTENDS Naturals, SequencesExt

CONSTANTS
    Handlers,
    NoHandler,
    Every, Family       \* the patterns "*" and "x.*"; an event type is a model value

VARIABLES
    events,     \* [family, others, unknown]: the types of x.*, the other ones, and of both those
                \*  the bus was not created with
    handlers,   \* the map of the bus, in its order: [pattern, of: registrations]
    emitting,      \* the emits in progress: [todo, in, n]
    emits       \* how many have begun
busVars == <<events, handlers, emitting, emits>>

NoEvents == [family |-> {}, others |-> {}, unknown |-> {}]
Types == events.family \cup events.others

MatchesPattern(type, pattern) ==
    \/ pattern = Every
    \/ pattern = Family /\ type \in events.family
    \/ pattern = type
(* A registration is [pattern, handler, once]; the set of a pattern keeps one of
   each handler, and a once is a function of its own. *)
GetMatchingHandlers(type) ==
    FlattenSeq([i \in DOMAIN handlers |->
                   IF MatchesPattern(type, handlers[i].pattern) THEN handlers[i].of ELSE <<>>])
Registrations == UNION {ToSet(handlers[i].of) : i \in DOMAIN handlers}
Unlistened(r) ==
    [i \in DOMAIN handlers |-> IF handlers[i].pattern = r.pattern
                               THEN [handlers[i] EXCEPT !.of = RemoveFirst(@, r)] ELSE handlers[i]]
(* A handler that is there already stays where it is. *)
GetHandlers(pattern) == IF \E i \in DOMAIN handlers : handlers[i].pattern = pattern THEN handlers
                        ELSE Append(handlers, [pattern |-> pattern, of |-> <<>>])
Enlisted(r) ==
    LET map == GetHandlers(r.pattern) IN
    [i \in DOMAIN map |-> IF map[i].pattern = r.pattern /\ r \notin ToSet(map[i].of)
                          THEN [map[i] EXCEPT !.of = Append(@, r)] ELSE map[i]]

(* The program is in a handler, or in no emit at all. *)
Top == emitting[Len(emitting)]
MayAct == emitting # <<>> => Top.in # NoHandler
Below == SubSeq(emitting, 1, Len(emitting) - 1)
Retopped(frame) == Append(Below, frame)

-----------------------------------------------------------------------------
Listen(pattern, h) ==
    /\ MayAct
    /\ handlers' = Enlisted([pattern |-> pattern, handler |-> h, once |-> 0])
    /\ UNCHANGED <<events, emitting, emits>>
ListenOnce(pattern, h, n) ==
    /\ MayAct
    /\ handlers' = Enlisted([pattern |-> pattern, handler |-> h, once |-> n])
    /\ UNCHANGED <<events, emitting, emits>>
(* unlisten, or the function that listen or listenOnce has returned. *)
Unlisten(r) ==
    /\ MayAct /\ r \in Registrations
    /\ handlers' = Unlistened(r)
    /\ UNCHANGED <<events, emitting, emits>>

(* emit takes the handlers that match now.  The typed bus knows the types its
   events have: it throws for another name, before anything is called. *)
Emit(type) ==
    /\ MayAct
    /\ emitting' = IF type \in Types \ events.unknown
                THEN Append(emitting, [todo |-> GetMatchingHandlers(type), in |-> NoHandler,
                                       n |-> emits + 1])
                ELSE emitting
    /\ emits' = emits + 1
    /\ UNCHANGED <<events, handlers>>
OnceKeepsBug ==
    /\ emitting # <<>> /\ Top.in = NoHandler /\ Top.todo # <<>>
    /\ emitting' = Retopped([Top EXCEPT !.in = Head(Top.todo), !.todo = Tail(@)])
    /\ UNCHANGED <<events, handlers, emits>>
(* A once takes itself off the bus before its handler runs. *)
CallsHandler ==
    LET r == Head(Top.todo) IN
    /\ emitting # <<>> /\ Top.in = NoHandler /\ Top.todo # <<>>
    /\ emitting' = Retopped([Top EXCEPT !.in = r, !.todo = Tail(@)])
    /\ handlers' = IF r.once # 0 THEN Unlistened(r) ELSE handlers
    /\ UNCHANGED <<events, emits>>
(* A handler returns, also one whose promise is still pending. *)
HandlerDone ==
    /\ emitting # <<>> /\ Top.in # NoHandler
    /\ emitting' = Retopped([Top EXCEPT !.in = NoHandler])
    /\ UNCHANGED <<events, handlers, emits>>
(* What a handler throws ends the emit that called it; the handler that had
   asked for that emit catches it, or throws in its turn. *)
HandlerFails ==
    /\ emitting # <<>> /\ Top.in # NoHandler
    /\ emitting' = Below
    /\ UNCHANGED <<events, handlers, emits>>
EmitReturns ==
    /\ emitting # <<>> /\ Top.in = NoHandler /\ Top.todo = <<>>
    /\ emitting' = Below
    /\ UNCHANGED <<events, handlers, emits>>

-----------------------------------------------------------------------------
(***************************************************************************)
(* A program that listens, emits and unlistens, in handlers too.  The      *)
(* history counts the calls of the handlers of listenOnce, and the emits   *)
(* that began after the first one.                                         *)
(***************************************************************************)

CONSTANTS EventPlans

VARIABLES
    eplan, steps,
    onces,      \* listenOnce has been called so often
    called,     \* per once: the emits that have called it
    spent       \* per once: how many emits had begun when it was called first
eventGhosts == <<onces, called, spent>>
eventClientVars == <<busVars, eplan, steps, eventGhosts>>

NoBus == [service |-> "none"]
EventsInit ==
    /\ events = NoEvents /\ handlers = <<>> /\ emitting = <<>> /\ emits = 0
    /\ eplan = NoBus /\ steps = 0
    /\ onces = 0 /\ called = <<>> /\ spent = <<>>
EventsDeploy ==
    /\ eplan = NoBus
    /\ \E p \in EventPlans : eplan' = p /\ events' = p.events
    /\ UNCHANGED <<handlers, emitting, emits, steps, eventGhosts>>

Uses ==
    /\ eplan # NoBus /\ steps < eplan.steps
    /\ \/ \E type \in eplan.emits : Emit(type) /\ UNCHANGED eventGhosts
       \/ \E p \in eplan.patterns, h \in Handlers : Listen(p, h) /\ UNCHANGED eventGhosts
       \/ \E p \in eplan.patterns, h \in Handlers :
              /\ ListenOnce(p, h, onces + 1)
              /\ onces' = onces + 1
              /\ called' = Append(called, {}) /\ spent' = Append(spent, 0)
       \/ \E r \in Registrations : Unlisten(r) /\ UNCHANGED eventGhosts
    /\ steps' = steps + 1
    /\ UNCHANGED eplan
BusCalls ==
    LET n == Head(Top.todo).once IN
    /\ CallsHandler
    /\ called' = IF n = 0 THEN called ELSE [called EXCEPT ![n] = @ \cup {Top.n}]
    /\ spent' = IF n = 0 \/ spent[n] # 0 THEN spent ELSE [spent EXCEPT ![n] = emits]
    /\ UNCHANGED <<eplan, steps, onces>>
BusMoves ==
    /\ HandlerDone \/ HandlerFails \/ EmitReturns
    /\ UNCHANGED <<eplan, steps, eventGhosts>>
EventsNext == EventsDeploy \/ Uses \/ BusCalls \/ BusMoves

-----------------------------------------------------------------------------
(* A handler of listenOnce that has been called, and may still be running, is
   called by no emit that begins later: not by one in the handler either, and
   not when it has thrown. *)
OnceSpent == \A n \in 1 .. onces : \A e \in called[n] : spent[n] = 0 \/ e <= spent[n]
=============================================================================
