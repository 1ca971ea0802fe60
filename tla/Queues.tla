------------------------------- MODULE Queues -------------------------------
(***************************************************************************)
(* createJob over the engines that leave jobs to a provider                *)
(* (packages/job/src/core.ts, engines/bullmq/index.ts and                  *)
(* engines/qstash/index.ts): machines that register queues, serve them     *)
(* with workers or over HTTP, enqueue payloads and execute them.           *)
(***************************************************************************)
EXTENDS Naturals, Sequences

CONSTANTS
    Requesters, Machines,
    QueueNames,         \* of jobs and of queues
    NoName,
    MaxWorkers          \* a bound on the workers alive

VARIABLES
    site,       \* [engine, on (caller -> machine), queues, handles (machine -> jobs),
                \*  audit, throws, fails, attempts, verify, route, parses, keys, key]: the
                \*  machines know the first `keys' signing keys of QStash, which signs with
                \*  the one numbered `key'; a `node' route reads what its application parses
    schedules,  \* the provider's: ids of queues
    held,       \* BullMQ's: the queues that are paused
    messages,   \* the provider's: [to, payload, left], left: deliveries still to come
    machine,    \* [queues, known, worker]: the maps of the service and of its engine
    workers,    \* BullMQ workers that are alive: [n, on, id, closing]
    runs,       \* executions: [payload, to, on, by, left, at, ok]
    qcall
queueVars == <<site, schedules, held, messages, machine, workers, runs, qcall>>

NoQueueCall == [op |-> "none", at |-> "idle"]
Booted ==
    [queues |-> [n \in QueueNames |-> "none"], known |-> {}, worker |-> [n \in QueueNames |-> 0]]

Http == 0       \* executes for a request, and not for a caller or a worker
NoBody == 0     \* the payload {}, that of nobody's
Bull == site.engine = "bullmq"
Here(c) == machine[site.on[c]]

(* defineQueue gives a definition with a name that name for its queue, so that the
   engines, which know of no name, come to the same id as the service. *)
QueueId(def) == IF def.queue # NoName THEN def.queue ELSE def.job
(* A queue definition, the definition of a job, or an id. *)
ResolveId(x) == IF x.given = "queue" THEN QueueId(x.def) ELSE x.name

QueueAt(c, stage) == qcall[c].at = stage
Returned(k, out) == [k EXCEPT !.at = "returned", !.out = out]
(* What a caller does next, on its machine, to the workers. *)
Proceed(k, here, crew) == [call |-> k, here |-> here, crew |-> crew]
Moved(c, s) ==
    /\ qcall' = [qcall EXCEPT ![c] = s.call]
    /\ machine' = [machine EXCEPT ![site.on[c]] = s.here]
    /\ workers' = s.crew

-----------------------------------------------------------------------------
(* Workers.  close waits for what the worker runs, and is asked for before. *)
Closing(n) == {[w EXCEPT !.closing = @ \/ w.n = n] : w \in workers}
WithoutWorker(n) == {w \in workers : w.n # n}
WorkerBusy(n) == n # 0 /\ \E r \in runs : r.by = n
(* The name of a new worker: one that no map and no call holds. *)
Token == CHOOSE n \in 1 .. MaxWorkers :
             /\ \A w \in workers : w.n # n
             /\ \A m \in Machines, id \in QueueNames : machine[m].worker[id] # n
             /\ \A c \in Requesters :
                    qcall[c] # NoQueueCall => qcall[c].closing # n /\ n \notin qcall[c].seen

Hired(c, k, here, crew) ==
    Proceed(Returned(k, "done"), [here EXCEPT !.worker[k.id] = Token],
            crew \cup {[n |-> Token, on |-> site.on[c], id |-> k.id, closing |-> FALSE]})

(* A handler replaces the worker there is; QStash has none. *)
Attached(c, k, here) ==
    LET old == here.worker[k.id] IN
    IF ~Bull \/ ~k.handler THEN Proceed(Returned(k, "done"), here, workers)
    ELSE IF old # 0 THEN Proceed([k EXCEPT !.at = "replace", !.closing = old], here, Closing(old))
    ELSE Hired(c, k, here, workers)
Dismissed(k, here) ==
    LET old == here.worker[k.id] IN
    IF old = 0 THEN Proceed(Returned(k, "done"), here, workers)
    ELSE Proceed([k EXCEPT !.at = "dismiss", !.closing = old], here, Closing(old))

Replaced(c) ==
    LET k == qcall[c] IN
    /\ QueueAt(c, "replace") /\ ~WorkerBusy(k.closing)
    /\ Moved(c, Hired(c, k, Here(c), WithoutWorker(k.closing)))
    /\ UNCHANGED <<site, schedules, held, messages, runs>>
DismissEnds(c) ==
    LET k == qcall[c] IN
    /\ QueueAt(c, "dismiss") /\ ~WorkerBusy(k.closing)
    /\ Moved(c, Proceed(Returned(k, "done"), [Here(c) EXCEPT !.worker[k.id] = 0],
                          WithoutWorker(k.closing)))
    /\ UNCHANGED <<site, schedules, held, messages, runs>>

-----------------------------------------------------------------------------
(* register, up to what the engine awaits first.  An id is known to BullMQ's
   engine by its Queue object, to QStash's once its schedule has been created. *)
QueueCall(op, id, defs) ==
    [op |-> op, id |-> id, handler |-> FALSE, todo |-> defs, at |-> "next", closing |-> 0,
     seen |-> {}, payload |-> 0, out |-> "none"]
Handles(c, def) == def.job \in site.handles[site.on[c]]
Enters(c, def) ==
    [Here(c) EXCEPT !.queues[QueueId(def)] = IF Handles(c, def) THEN "handled" ELSE "bare"]
Registering(c, k, def) ==
    LET asked == [k EXCEPT !.id = QueueId(def), !.handler = Handles(c, def)]
        here == [Enters(c, def) EXCEPT !.known = IF Bull THEN @ \cup {QueueId(def)} ELSE @]
    IN  IF def.cron THEN Proceed([asked EXCEPT !.at = "schedule"], here, workers)
        ELSE Attached(c, asked, here)

Registers(c, def) ==
    /\ qcall[c] = NoQueueCall
    /\ Moved(c, Registering(c, QueueCall("register", QueueId(def), <<>>), def))
    /\ UNCHANGED <<site, schedules, held, messages, runs>>
Scheduled(c) ==
    LET k == qcall[c] IN
    /\ QueueAt(c, "schedule")
    /\ \/ /\ schedules' = schedules \cup {k.id}
          /\ Moved(c, Attached(c, k, [Here(c) EXCEPT !.known = @ \cup {k.id}]))
       \/ /\ site.fails
          /\ Moved(c, Proceed(Returned(k, "threw"), Here(c), workers))
          /\ UNCHANGED schedules
    /\ UNCHANGED <<site, held, messages, runs>>
(* handle: the engine of QStash has none. *)
Handle(c, def) ==
    LET k == [QueueCall("handle", QueueId(def), <<>>) EXCEPT !.handler = TRUE] IN
    /\ qcall[c] = NoQueueCall /\ Handles(c, def)
    /\ Moved(c, Attached(c, k, Enters(c, def)))
    /\ UNCHANGED <<site, schedules, held, messages, runs>>

(* start registers one queue after the other, and stops at one that fails. *)
StartsService(c) ==
    /\ qcall[c] = NoQueueCall
    /\ Moved(c, Proceed(QueueCall("start", NoName, site.queues), Here(c), workers))
    /\ UNCHANGED <<site, schedules, held, messages, runs>>
KeepsOn(c) ==
    LET k == qcall[c] IN
    /\ \/ QueueAt(c, "next")
       \/ QueueAt(c, "returned") /\ k.out = "done" /\ k.todo # <<>>
    /\ Moved(c, Registering(c, [k EXCEPT !.todo = Tail(@), !.out = "none"], Head(k.todo)))
    /\ UNCHANGED <<site, schedules, held, messages, runs>>

-----------------------------------------------------------------------------
Unregisters(c, x) ==
    LET id == ResolveId(x)
        k == QueueCall("unregister", id, <<>>)
        here == [Here(c) EXCEPT !.queues[id] = "none"]
    IN  /\ qcall[c] = NoQueueCall
        /\ Moved(c, IF id \in here.known
                      THEN Proceed([k EXCEPT !.at = "unschedule"], here, workers)
                      ELSE Dismissed(k, here))
        /\ UNCHANGED <<site, schedules, held, messages, runs>>
(* BullMQ's engine closes its queue next; QStash's ignores a refusal. *)
Forgets(c) ==
    Proceed(Returned(qcall[c], "done"), [Here(c) EXCEPT !.known = @ \ {qcall[c].id}], workers)
Unscheduled(c) ==
    LET k == qcall[c] IN
    /\ QueueAt(c, "unschedule")
    /\ schedules' = schedules \ {k.id}
    /\ Moved(c, IF Bull THEN Proceed([k EXCEPT !.at = "closeQueue"], Here(c), workers)
                  ELSE Forgets(c))
    /\ UNCHANGED <<site, held, messages, runs>>
UnscheduleRefused(c) ==
    /\ QueueAt(c, "unschedule") /\ site.fails
    /\ Moved(c, IF Bull THEN Proceed(Returned(qcall[c], "threw"), Here(c), workers)
                  ELSE Forgets(c))
    /\ UNCHANGED <<site, schedules, held, messages, runs>>
ClosedQueue(c) ==
    LET k == qcall[c] IN
    /\ QueueAt(c, "closeQueue")
    /\ Moved(c, Dismissed(k, [Here(c) EXCEPT !.known = @ \ {k.id}]))
    /\ UNCHANGED <<site, schedules, held, messages, runs>>

(* stop closes the workers of the map one after the other, those that are put
   there meanwhile too, and the queues; the maps are cleared after each loop. *)
StopsService(c) ==
    /\ qcall[c] = NoQueueCall /\ Bull
    /\ Moved(c, Proceed([QueueCall("stop", NoName, <<>>) EXCEPT !.at = "stop"], Here(c), workers))
    /\ UNCHANGED <<site, schedules, held, messages, runs>>
Stopping(c) ==
    LET k == qcall[c]
        here == Here(c)
        left == {here.worker[id] : id \in QueueNames} \ (k.seen \cup {0})
    IN  /\ QueueAt(c, "stop") /\ ~WorkerBusy(k.closing)
        /\ IF left # {}
           THEN \E n \in left :
                Moved(c, Proceed([k EXCEPT !.seen = @ \cup {n}, !.closing = n], here,
                                 {w \in Closing(n) : w.n # k.closing}))
           ELSE Moved(c, Proceed([k EXCEPT !.at = "stopQueues", !.closing = 0],
                                 [here EXCEPT !.worker = [n \in QueueNames |-> 0]],
                                 WithoutWorker(k.closing)))
        /\ UNCHANGED <<site, schedules, held, messages, runs>>
Stopped(c) ==
    /\ QueueAt(c, "stopQueues")
    /\ Moved(c, Proceed(Returned(qcall[c], "done"), [Here(c) EXCEPT !.known = {}], workers))
    /\ UNCHANGED <<site, schedules, held, messages, runs>>

-----------------------------------------------------------------------------
(* enqueue executes the payload here when this machine has a handler, and gives
   it to the provider otherwise: one attempt on BullMQ, retries on QStash. *)
Run(to, payload, on, by, left) ==
    [payload |-> payload, to |-> to, on |-> on, by |-> by, left |-> left, at |-> "handler",
     ok |-> FALSE]
Enqueues(c, x, payload) ==
    LET id == ResolveId(x)
        k == [QueueCall("enqueue", id, <<>>) EXCEPT !.payload = payload]
    IN  /\ qcall[c] = NoQueueCall
        /\ IF Here(c).queues[id] = "handled"
           THEN /\ Moved(c, Proceed([k EXCEPT !.at = "run"], Here(c), workers))
                /\ runs' = runs \cup {Run(id, payload, site.on[c], c, 0)}
           ELSE /\ Moved(c, Proceed([k EXCEPT !.at = "add"],
                        [Here(c) EXCEPT !.known = IF Bull THEN @ \cup {id} ELSE @], workers))
                /\ UNCHANGED runs
        /\ UNCHANGED <<site, schedules, held, messages>>
Message(to, payload, left) == [to |-> to, payload |-> payload, left |-> left]
Added(c) ==
    LET k == qcall[c] IN
    /\ QueueAt(c, "add")
    /\ \/ /\ messages' = messages \cup
                 {Message(k.id, k.payload, IF Bull THEN 1 ELSE site.attempts)}
          /\ Moved(c, Proceed(Returned(k, "done"), Here(c), workers))
       \/ /\ site.fails
          /\ Moved(c, Proceed(Returned(k, "threw"), Here(c), workers))
          /\ UNCHANGED messages
    /\ UNCHANGED <<site, schedules, held, runs>>
QueueCallEnds(c) ==
    /\ QueueAt(c, "returned") /\ (qcall[c].out = "done" => qcall[c].todo = <<>>)
    /\ qcall' = [qcall EXCEPT ![c] = NoQueueCall]
    /\ UNCHANGED <<site, schedules, held, messages, machine, workers, runs>>

-----------------------------------------------------------------------------
(* What an operator asks of the provider, by the engine's Queue object, which is
   opened where there is none: pauseQueue and disableCron, resumeQueue and
   enableCron, drain, and cancelInstance of a job that waits. *)
Asks(c, op, x) ==
    LET id == ResolveId(x) IN
    /\ qcall[c] = NoQueueCall /\ Bull
    /\ Moved(c, Proceed([QueueCall(op, id, <<>>) EXCEPT !.at = "asked"],
                       [Here(c) EXCEPT !.known = @ \cup {id}], workers))
    /\ UNCHANGED <<site, schedules, held, messages, runs>>
Waiting(id) == {m \in messages : m.to = id}
Granted(c) ==
    LET k == qcall[c] IN
    /\ QueueAt(c, "asked")
    /\ held' = IF k.op = "pause" THEN held \cup {k.id}
               ELSE IF k.op = "resume" THEN held \ {k.id} ELSE held
    /\ \/ k.op = "drain" /\ messages' = messages \ Waiting(k.id)
       \/ k.op = "cancel" /\ \E m \in Waiting(k.id) : messages' = messages \ {m}
       \/ (k.op = "cancel" => Waiting(k.id) = {}) /\ k.op # "drain" /\ UNCHANGED messages
    /\ Moved(c, Proceed(Returned(k, "done"), Here(c), workers))
    /\ UNCHANGED <<site, schedules, runs>>

Denied(c) ==
    /\ QueueAt(c, "asked") /\ site.fails
    /\ Moved(c, Proceed(Returned(qcall[c], "threw"), Here(c), workers))
    /\ UNCHANGED <<site, schedules, held, messages, runs>>

(* A worker takes a message of its queue when it has nothing to do. *)
Takes(w) ==
    /\ ~w.closing /\ ~WorkerBusy(w.n) /\ w.id \notin held
    /\ \E m \in Waiting(w.id) :
           /\ messages' = messages \ {m}
           /\ runs' = runs \cup {Run(m.to, m.payload, w.on, w.n, m.left)}
    /\ UNCHANGED <<site, schedules, held, machine, workers, qcall>>

(* A message that was not dealt with comes again while it has deliveries left. *)
Again(m) == IF m.left > 1 THEN {Message(m.to, m.payload, m.left - 1)} ELSE {}
(* Next, Hono and Cloudflare read the request itself; Express and the routes of
   the Pages Router what a parser has made of it, and no body when none has. *)
BodySeen(m) == IF site.route = "node" /\ ~site.parses THEN NoBody ELSE m.payload
(* Without a key any signature will do; a second one outlives a rotation. *)
VerifySignature(body, m) == site.keys = 0 \/ (site.key <= site.keys /\ body = m.payload)
Passes(m) == ~site.verify \/ VerifySignature(BodySeen(m), m)
RotatesKeys ==
    /\ ~Bull
    /\ site' = [site EXCEPT !.key = @ + 1]
    /\ UNCHANGED <<schedules, held, messages, machine, workers, runs, qcall>>
(* The middleware answers 401 for another signature, dispatch 404 for a queue
   this machine does not know and 500 for one it has no handler of. *)
HasHandler(on, id) == machine[on].queues[id] = "handled"
Dispatch(on, m) ==
    /\ ~Bull
    /\ IF Passes(m) /\ HasHandler(on, m.to)
       THEN /\ runs' = runs \cup {Run(m.to, BodySeen(m), on, Http, m.left)}
            /\ messages' = messages \ {m}
       ELSE /\ messages' = (messages \ {m}) \cup Again(m)
            /\ UNCHANGED runs
    /\ UNCHANGED <<site, schedules, held, machine, workers, qcall>>

(* The end of an execution.  Its error goes to who asked for it: the caller of
   enqueue, the worker, or the answer 400 of dispatch. *)
FinishesQuietlyBug(r, ok) ==
    /\ runs' = runs \ {r}
    /\ qcall' = [c \in Requesters |-> IF r.by = c THEN Returned(qcall[c], "done") ELSE qcall[c]]
    /\ UNCHANGED <<site, schedules, held, machine, workers, messages>>
Finishes(r, ok) ==
    /\ runs' = runs \ {r}
    /\ qcall' = [c \in Requesters |->
           IF r.by = c THEN Returned(qcall[c], IF ok THEN "done" ELSE "threw") ELSE qcall[c]]
    /\ messages' = IF ok \/ r.by \in Requesters THEN messages ELSE messages \cup Again(r)
    /\ UNCHANGED <<site, schedules, held, machine, workers>>
(* Plugins wrap what enqueue and dispatch execute, not what a worker runs. *)
Audited(r) == site.audit /\ r.by \in Requesters \cup {Http}
HandlerEnds(r, ok) ==
    /\ r.at = "handler" /\ (ok \/ site.throws)
    /\ IF Audited(r)
       THEN /\ runs' = (runs \ {r}) \cup {[r EXCEPT !.at = "audit", !.ok = ok]}
            /\ UNCHANGED <<site, schedules, held, messages, machine, workers, qcall>>
       ELSE Finishes(r, ok)
(* auditPlugin awaits its log in a finally block: the log fails for the handler. *)
AuditEnds(r, logged) ==
    /\ r.at = "audit" /\ (logged \/ site.fails)
    /\ Finishes(r, r.ok /\ logged)

(* A machine dies and boots again with empty maps.  BullMQ gives what its
   workers ran to others; QStash got no answer. *)
Crash(on) ==
    LET lost == {r \in runs : r.on = on}
        back == UNION {IF r.by = Http THEN Again(r)
                       ELSE IF r.by \in Requesters THEN {} ELSE {Message(r.to, r.payload, r.left)} :
                       r \in lost}
    IN  /\ machine' = [machine EXCEPT ![on] = Booted]
        /\ workers' = {w \in workers : w.on # on}
        /\ runs' = runs \ lost
        /\ messages' = messages \cup back
        /\ qcall' = [c \in Requesters |-> IF site.on[c] = on THEN NoQueueCall ELSE qcall[c]]
        /\ UNCHANGED <<site, schedules, held>>

QueueStep(c) ==
    \/ Scheduled(c) \/ Replaced(c) \/ KeepsOn(c)
    \/ Unscheduled(c) \/ ClosedQueue(c) \/ DismissEnds(c)
    \/ Stopping(c) \/ Stopped(c) \/ Added(c) \/ Granted(c) \/ Denied(c)

-----------------------------------------------------------------------------
(***************************************************************************)
(* Machines of an application register, serve and unregister queues and    *)
(* enqueue payloads, and die.  The history knows which payloads were       *)
(* accepted and what became of them, and which queues a machine has taken  *)
(* out of service with nobody in between.                                  *)
(***************************************************************************)
CONSTANTS QueuePlans

VARIABLES
    qplan, qcalls, crashes,
    accepted, ran, gaveUp,      \* payloads
    registered,                 \* <<machine, id>>: registered since it booted or stopped
    crossed,                    \* <<machine, id>>: two of its calls dealt with id at once
    clean,                      \* callers whose unregister nothing has disturbed
    quiet                       \* <<machine, id>>: taken out of service
queueGhosts == <<accepted, ran, gaveUp, registered, crossed, clean, quiet>>
queueClientVars == <<queueVars, qplan, qcalls, crashes, queueGhosts>>

NoQueues == [service |-> "none"]

QueuesInit ==
    /\ site = NoQueues /\ schedules = {} /\ held = {} /\ messages = {} /\ workers = {} /\ runs = {}
    /\ machine = [m \in Machines |-> Booted]
    /\ qcall = [c \in Requesters |-> NoQueueCall]
    /\ qplan = NoQueues /\ qcalls = 0 /\ crashes = 0
    /\ accepted = {} /\ ran = {} /\ gaveUp = {}
    /\ registered = {} /\ crossed = {} /\ clean = {} /\ quiet = {}

QueuesDeploy ==
    /\ qplan = NoQueues
    /\ \E p \in QueuePlans : qplan' = p /\ site' = p.setup
    /\ UNCHANGED <<schedules, held, messages, machine, workers, runs, qcall, qcalls, crashes>>
    /\ UNCHANGED queueGhosts

-----------------------------------------------------------------------------
Ids == {QueueId(site.queues[i]) : i \in 1 .. Len(site.queues)}
(* The queues a call deals with, and whether it may bring one into service. *)
Deals(k) == IF k.op \in {"register", "handle", "unregister"} THEN {k.id}
            ELSE IF k.op \in {"start", "stop"} THEN Ids ELSE {}
Serves(k) == k.op \in {"register", "handle", "start"}
InProgress(c) == qcall[c] # NoQueueCall /\ qcall[c].at # "returned"

CallBegins(c) ==
    LET k == qcall'[c]
        on == site.on[c]
        others == {d \in Requesters \ {c} : InProgress(d)}
        disturbed == {d \in others : Deals(qcall[d]) \cap Deals(k) # {}}
    IN  /\ crossed' = crossed \cup
               {<<on, id>> : id \in UNION {Deals(qcall[d]) \cap Deals(k) :
                                           d \in {d \in others : site.on[d] = on}}}
        /\ clean' = (IF Serves(k) THEN clean \ disturbed ELSE clean) \cup
               (IF k.op = "unregister" /\ <<on, k.id>> \in registered /\ disturbed = {}
                THEN {c} ELSE {})
        /\ quiet' = IF Serves(k) THEN {q \in quiet : q[2] \notin Deals(k)} ELSE quiet
        /\ registered' = IF k.op = "stop" THEN {q \in registered : q[1] # on} ELSE registered

QueueCalls(c) ==
    /\ qplan # NoQueues /\ qcalls < qplan.calls
    /\ \/ "register" \in qplan.ops[c] /\ \E i \in 1 .. Len(site.queues) : Registers(c, site.queues[i])
       \/ "handle" \in qplan.ops[c] /\ \E i \in 1 .. Len(site.queues) : Handle(c, site.queues[i])
       \/ "start" \in qplan.ops[c] /\ StartsService(c)
       \/ "stop" \in qplan.ops[c] /\ StopsService(c)
       \/ "unregister" \in qplan.ops[c] /\ \E x \in qplan.refs : Unregisters(c, x)
       \/ \E op \in qplan.ops[c] \cap {"pause", "resume", "drain", "cancel"}, x \in qplan.refs :
              Asks(c, op, x)
       \/ "enqueue" \in qplan.ops[c] /\ \E x \in qplan.refs : Enqueues(c, x, qcalls + 1)
    /\ CallBegins(c)
    /\ qcalls' = qcalls + 1
    /\ UNCHANGED <<qplan, crashes, accepted, ran, gaveUp>>

(* What a call leaves behind when it returns. *)
QueueAnswers(c) ==
    LET k == qcall'[c]
        it == <<site.on[c], k.id>>
        done == k.at = "returned" /\ k.out = "done"
    IN  /\ accepted' = IF done /\ k.op = "enqueue" THEN accepted \cup {k.payload} ELSE accepted
        /\ registered' = IF ~done THEN registered
                         ELSE IF k.op \in {"register", "start"} /\ it \notin crossed
                         THEN registered \cup {it}
                         ELSE IF k.op = "unregister" THEN registered \ {it} ELSE registered
        /\ quiet' = IF done /\ k.op = "unregister" /\ c \in clean /\ it \notin crossed
                    THEN quiet \cup {it} ELSE quiet

(* An unregister that QStash has refused answers as if it had been done
   (qstash/index.ts:127): nothing follows from it. *)
QueueMoves(c) ==
    /\ \/ /\ QueueStep(c) /\ QueueAnswers(c)
          /\ UNCHANGED clean
          /\ gaveUp' = IF qcall[c].at = "asked"
                       THEN gaveUp \cup {m.payload : m \in messages \ messages'} ELSE gaveUp
       \/ /\ UnscheduleRefused(c)
          /\ clean' = clean \ {c}
          /\ UNCHANGED <<accepted, registered, quiet, gaveUp>>
    /\ UNCHANGED <<qplan, qcalls, crashes, ran, crossed>>
QueueLeaves(c) ==
    /\ QueueCallEnds(c)
    /\ clean' = clean \ {c}
    /\ UNCHANGED <<qplan, qcalls, crashes, accepted, ran, gaveUp, registered, crossed, quiet>>

GivesUp(m) == IF m.left > 1 THEN {} ELSE {m.payload}
Accepts ==
    accepted' = accepted \cup
        {qcall'[c].payload : c \in {c \in Requesters : qcall'[c].op = "enqueue" /\
                                    qcall'[c].at = "returned" /\ qcall'[c].out = "done"}}
WorkerTakes(w) ==
    /\ Takes(w)
    /\ UNCHANGED <<qplan, qcalls, crashes, queueGhosts>>
Dispatched(on, m) ==
    /\ Dispatch(on, m)
    /\ gaveUp' = IF runs' = runs THEN gaveUp \cup GivesUp(m) ELSE gaveUp
    /\ UNCHANGED <<qplan, qcalls, crashes, accepted, ran, registered, crossed, clean, quiet>>
Ends(r, well, through) ==
    /\ Accepts
    /\ gaveUp' = IF well \/ r.by \in Requesters THEN gaveUp ELSE gaveUp \cup GivesUp(r)
    /\ ran' = IF through THEN ran \cup {r.payload} ELSE ran
    /\ UNCHANGED <<qplan, qcalls, crashes, registered, crossed, clean, quiet>>
RunEnds(r) ==
    \E ok \in BOOLEAN :
        \/ HandlerEnds(r, ok) /\ Ends(r, ok \/ Audited(r), ok)
        \/ AuditEnds(r, ok) /\ Ends(r, r.ok /\ ok, FALSE)

MachineCrashes(on) ==
    /\ qplan # NoQueues /\ crashes < qplan.crashes
    /\ Crash(on)
    /\ crashes' = crashes + 1
    /\ registered' = {q \in registered : q[1] # on}
    /\ crossed' = {q \in crossed : q[1] # on}
    /\ clean' = {c \in clean : site.on[c] # on}
    /\ gaveUp' = gaveUp \cup UNION {GivesUp(r) : r \in {r \in runs : r.on = on /\ r.by = Http}}
    /\ UNCHANGED <<qplan, qcalls, accepted, ran, quiet>>

ProviderRotates ==
    /\ qplan # NoQueues /\ site.key <= qplan.rotations
    /\ RotatesKeys
    /\ UNCHANGED <<qplan, qcalls, crashes, queueGhosts>>

QueuesNext ==
    \/ QueuesDeploy \/ ProviderRotates
    \/ \E c \in Requesters : QueueCalls(c) \/ QueueMoves(c) \/ QueueLeaves(c)
    \/ \E w \in workers : WorkerTakes(w)
    \/ \E on \in Machines, m \in messages : Dispatched(on, m)
    \/ \E r \in runs : RunEnds(r)
    \/ \E on \in Machines : MachineCrashes(on)

-----------------------------------------------------------------------------
(* A payload that enqueue has accepted is with the provider or being executed
   until a handler has come to its end with it, however many machines die; it
   is given up only when the last delivery has failed too. *)
PayloadKept ==
    \A x \in accepted :
        \/ x \in ran \cup gaveUp
        \/ \E m \in messages : m.payload = x
        \/ \E r \in runs : r.payload = x

(* unregister, by a machine that has registered the queue since it booted, takes
   it out of service: until somebody brings it back there is no schedule of it,
   and no worker of this machine takes its messages. *)
UnregisteredQuiet ==
    \A q \in quiet :
        /\ q[2] \notin schedules
        /\ machine[q[1]].queues[q[2]] = "none"
        /\ \A w \in workers : ~(w.on = q[1] /\ w.id = q[2])

(* What is queued is handled or given up, and what is unregistered is quiet. *)
QueuesHonoured == PayloadKept /\ UnregisteredQuiet
=============================================================================
