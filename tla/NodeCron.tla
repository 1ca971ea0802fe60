------------------------------ MODULE NodeCron ------------------------------
(***************************************************************************)
(* The crons of createJob (packages/job/src/core.ts) on the in-process     *)
(* engine (engines/node/index.ts): node-cron tasks fire runs of a handler  *)
(* that wrapHandlerWithSkipCheck has wrapped, while the application asks   *)
(* for runs to be skipped, crons to be disabled, re-registered, stopped.   *)
(*                                                                         *)
(* runs[r] is a run in progress: it reads the skip mark of its cron, may   *)
(* clear it, and runs the handler, with an await between each.  Several    *)
(* are in progress when a tick comes before the last run has ended, when   *)
(* the application enqueues one, or when services share a repository.      *)
(*                                                                         *)
(* asked, skipped, wanted, raced and replaced are history: the last        *)
(* request for a cron that still stands, how often a run was skipped for a *)
(* skipNext, how often skipNext was called, for which crons a request or a *)
(* second check came between a check's read of the mark and its write, and *)
(* which tasks the engine has replaced without being able to destroy them. *)
(***************************************************************************)
EXTENDS Integers

CONSTANTS
    Crons,
    Tasks,      \* names for the node-cron tasks; a bound on those alive
    NoTask,
    NoCron,
    Runs,       \* names for the runs in progress at once
    MaxTime,    \* a bound on the clock and on the dates of skipUntil
    MaxAsks     \* a bound on the calls of skipNext for a cron

None == -2
Once == -1

ASSUME NodeAssumption ==
    /\ MaxTime \in Nat /\ MaxAsks \in Nat
    /\ NoTask \notin Tasks /\ NoCron \notin Crons /\ Crons # {}

VARIABLES
    clock,
    skip,       \* getSkipNextUntil of each cron: None, Once or a date
    paused,     \* getPaused of each cron
    destroys,   \* node-cron's tasks have the method destroy, which is optional: version 3,
                \* which the package asks for, has none
    tasks,      \* the tasks node-cron has, by name
    current,    \* the task the engine's map has for each cron
    queues,     \* the crons the service has a handler for
    starting,   \* a start() in progress: the crons left, the one at hand
    leaving,    \* the crons unregister() has still to take off the engine
    runs,
    asked, skipped, wanted, raced, replaced

machine == <<clock, destroys>>
repo == <<skip, paused>>
engine == <<tasks, current>>
service == <<queues, starting, leaving>>
history == <<asked, skipped, wanted, raced, replaced>>
vars == <<machine, repo, engine, service, runs, history>>

Marks == {None, Once} \cup 0 .. MaxTime
IsDate(mark) == mark \notin {None, Once}

RunLabels == {"idle", "get", "once", "clear", "handler"}
RunRecords == [at : RunLabels, cron : Crons]
Idle == [on |-> FALSE, left |-> {}, cron |-> NoCron]
NoRun == [at |-> "idle", cron |-> CHOOSE c \in Crons : TRUE]

Init ==
    /\ clock = 0
    /\ skip = [c \in Crons |-> None]
    /\ paused = [c \in Crons |-> FALSE]
    /\ destroys \in BOOLEAN
    /\ tasks = [t \in {} |-> NoTask]
    /\ current = [c \in Crons |-> NoTask]
    /\ queues = {}
    /\ starting = Idle
    /\ leaving = {}
    /\ runs = [r \in Runs |-> NoRun]
    /\ asked = [c \in Crons |-> None]
    /\ skipped = [c \in Crons |-> 0]
    /\ wanted = [c \in Crons |-> 0]
    /\ raced = {} /\ replaced = {}

-----------------------------------------------------------------------------
(* start() goes through the crons: the service takes the handler and saves the
   definition, then the engine schedules it; at the end the engine starts. *)
StartCalls ==
    /\ starting = Idle
    /\ starting' = [on |-> TRUE, left |-> Crons, cron |-> NoCron]
    /\ UNCHANGED <<machine, repo, engine, queues, leaving, runs, history>>

StartSaves(c) ==
    /\ starting.cron = NoCron
    /\ c \in starting.left
    /\ queues' = queues \cup {c}
    /\ starting' = [starting EXCEPT !.left = @ \ {c}, !.cron = c]
    /\ UNCHANGED <<machine, repo, engine, leaving, runs, history>>

SurvivorsBug(c) == DOMAIN tasks             \* the old task is left alone

(* scheduleJob puts a new task, which runs at once, in the place of the one the
   engine has; that one is destroyed where it can be, but not stopped. *)
Survivors(c) ==
    IF destroys THEN DOMAIN tasks \ {current[c]} ELSE DOMAIN tasks

StartSchedules(c) ==
    /\ starting.cron = c
    /\ \E t \in Tasks \ DOMAIN tasks :
        /\ tasks' = [u \in Survivors(c) \cup {t} |->
                        IF u = t THEN [cron |-> c, on |-> TRUE] ELSE tasks[u]]
        /\ current' = [current EXCEPT ![c] = t]
    /\ replaced' = IF destroys \/ current[c] = NoTask THEN replaced
                   ELSE replaced \cup {current[c]}
    /\ starting' = [starting EXCEPT !.cron = NoCron]
    /\ UNCHANGED <<machine, repo, queues, leaving, runs, asked, skipped, wanted, raced>>

(* engine.start and engine.stop go through the engine's map. *)
Switch(on) ==
    tasks' = [t \in DOMAIN tasks |->
                IF \E c \in Crons : current[c] = t
                THEN [tasks[t] EXCEPT !.on = on] ELSE tasks[t]]

StartEnds ==
    /\ starting = [on |-> TRUE, left |-> {}, cron |-> NoCron]
    /\ Switch(TRUE)
    /\ starting' = Idle
    /\ UNCHANGED <<machine, repo, current, queues, leaving, runs, history>>

Stop ==
    /\ Switch(FALSE)
    /\ UNCHANGED <<machine, repo, current, service, runs, history>>

(* A check has read the mark of its cron and is about to clear it. *)
Clearing(run, c) == run.cron = c /\ run.at \in {"once", "clear"}
MarkWritten(c) ==
    raced' = IF \E r \in Runs : Clearing(runs[r], c) THEN raced \cup {c} ELSE raced

(* unregister first has the repository delete what it keeps for the cron... *)
Unregister(c) ==
    /\ c \notin leaving
    /\ queues' = queues \ {c}
    /\ skip' = [skip EXCEPT ![c] = None]
    /\ paused' = [paused EXCEPT ![c] = FALSE]
    /\ asked' = [asked EXCEPT ![c] = None]
    /\ leaving' = leaving \cup {c}
    /\ MarkWritten(c)
    /\ UNCHANGED <<machine, engine, starting, runs, skipped, wanted, replaced>>

(* ...and then the engine stop the task, which nothing refers to any more. *)
UnregisterEngine(c) ==
    /\ c \in leaving
    /\ tasks' = [t \in DOMAIN tasks \ {current[c]} |-> tasks[t]]
    /\ current' = [current EXCEPT ![c] = NoTask]
    /\ leaving' = leaving \ {c}
    /\ UNCHANGED <<machine, repo, queues, starting, runs, history>>

-----------------------------------------------------------------------------
(* The requests; each is one write to the repository. *)
Ask(c, mark) ==
    /\ skip' = [skip EXCEPT ![c] = mark]
    /\ asked' = [asked EXCEPT ![c] = mark]
    /\ MarkWritten(c)
    /\ UNCHANGED <<machine, paused, engine, service, runs, skipped, replaced>>

SkipNext(c) ==
    /\ wanted[c] < MaxAsks
    /\ wanted' = [wanted EXCEPT ![c] = @ + 1]
    /\ Ask(c, Once)

SkipUntil(c, date) == Ask(c, date) /\ UNCHANGED wanted

(* The node engine has no pauseQueue of its own: the mark goes to the
   repository. *)
SetPaused(c, value) ==
    /\ paused' = [paused EXCEPT ![c] = value]
    /\ UNCHANGED <<machine, skip, engine, service, runs, history>>

DisableCron(c) == SetPaused(c, TRUE)

EnableCron(c) == SetPaused(c, FALSE)

-----------------------------------------------------------------------------
(* A run of the wrapped handler *)
Go(r, label) == runs' = [runs EXCEPT ![r].at = label]

Begin(r, c) ==
    /\ runs[r].at = "idle"
    /\ runs' = [runs EXCEPT ![r] = [at |-> "get", cron |-> c]]
    /\ UNCHANGED <<machine, repo, engine, service, history>>

Fire(r) ==
    \E t \in DOMAIN tasks : tasks[t].on /\ Begin(r, tasks[t].cron)

(* enqueue calls the handler the service has, or else the engine's. *)
Enqueue(r, c) == (c \in queues \/ current[c] # NoTask) /\ Begin(r, c)

SecondCheck(r) ==
    LET c == runs[r].cron IN
    raced' = IF Clearing(runs'[r], c) /\ \E s \in Runs \ {r} : Clearing(runs[s], c)
             THEN raced \cup {c} ELSE raced

RunGetBug(r) ==                 \* skips a past date as well
    /\ runs[r].at = "get"
    /\ LET until == skip[runs[r].cron] IN
        \/ until = None /\ Go(r, "handler")
        \/ until = Once /\ Go(r, "once")
        \/ IsDate(until) /\ runs' = [runs EXCEPT ![r] = NoRun]
    /\ SecondCheck(r)
    /\ UNCHANGED <<machine, repo, engine, service, asked, skipped, wanted, replaced>>

RunGet(r) ==
    /\ runs[r].at = "get"
    /\ LET until == skip[runs[r].cron] IN
        \/ until = None /\ Go(r, "handler")
        \/ until = Once /\ Go(r, "once")
        \/ /\ IsDate(until) /\ clock < until
           /\ runs' = [runs EXCEPT ![r] = NoRun]
        \/ IsDate(until) /\ clock >= until /\ Go(r, "clear")
    /\ SecondCheck(r)
    /\ UNCHANGED <<machine, repo, engine, service, asked, skipped, wanted, replaced>>

(* The mark is cleared, whatever it has become; a skipNext is granted. *)
RunOnce(r) ==
    /\ runs[r].at = "once"
    /\ skip' = [skip EXCEPT ![runs[r].cron] = None]
    /\ asked' = [asked EXCEPT ![runs[r].cron] = IF @ = Once THEN None ELSE @]
    /\ skipped' = [skipped EXCEPT ![runs[r].cron] = @ + 1]
    /\ runs' = [runs EXCEPT ![r] = NoRun]
    /\ UNCHANGED <<machine, paused, engine, service, wanted, raced, replaced>>

(* So is a date that has passed. *)
RunClear(r) ==
    /\ runs[r].at = "clear"
    /\ skip' = [skip EXCEPT ![runs[r].cron] = None]
    /\ Go(r, "handler")
    /\ UNCHANGED <<machine, paused, engine, service, history>>

RunEnd(r) ==
    /\ runs[r].at = "handler"
    /\ runs' = [runs EXCEPT ![r] = NoRun]
    /\ UNCHANGED <<machine, repo, engine, service, history>>

Tick ==
    /\ clock < MaxTime
    /\ clock' = clock + 1
    /\ UNCHANGED <<destroys, repo, engine, service, runs, history>>

Request ==
    \E c \in Crons :
        \/ SkipNext(c) \/ DisableCron(c) \/ EnableCron(c)
        \/ \E date \in 1 .. MaxTime : SkipUntil(c, date)
        \/ Unregister(c)

Advance(r) == RunGet(r) \/ RunOnce(r) \/ RunClear(r) \/ RunEnd(r)

Lifecycle ==
    \/ StartCalls \/ StartEnds \/ Stop
    \/ \E c \in Crons : StartSaves(c) \/ StartSchedules(c) \/ UnregisterEngine(c)

Work ==
    \E r \in Runs :
        \/ Fire(r) \/ Advance(r)
        \/ \E c \in Crons : Enqueue(r, c)

Next == Tick \/ Lifecycle \/ Work \/ Request

Spec == Init /\ [][Next]_vars

(* Ticks keep coming as long as a task is on, and runs and the clock go on. *)
Fairness ==
    /\ WF_vars(Tick)
    /\ \A r \in Runs : WF_vars(Advance(r)) /\ SF_vars(Fire(r))

LiveSpec == Spec /\ Fairness

-----------------------------------------------------------------------------
TypeOK ==
    /\ clock \in 0 .. MaxTime
    /\ skip \in [Crons -> Marks]
    /\ paused \in [Crons -> BOOLEAN]
    /\ destroys \in BOOLEAN
    /\ DOMAIN tasks \subseteq Tasks
    /\ \A t \in DOMAIN tasks : tasks[t] \in [cron : Crons, on : BOOLEAN]
    /\ current \in [Crons -> DOMAIN tasks \cup {NoTask}]
    /\ queues \subseteq Crons /\ leaving \subseteq Crons
    /\ starting \in [on : BOOLEAN, left : SUBSET Crons,
                     cron : Crons \cup {NoCron}]
    /\ runs \in [Runs -> RunRecords]
    /\ asked \in [Crons -> Marks]
    /\ skipped \in [Crons -> Nat] /\ wanted \in [Crons -> 0 .. MaxAsks]
    /\ raced \subseteq Crons /\ replaced \subseteq Tasks

Starts(r) == runs[r].at # "handler" /\ runs'[r].at = "handler"

(* A request stands until it is granted, withdrawn or replaced by another, or
   until its date has come. *)
Standing(c) == asked[c] = Once \/ (IsDate(asked[c]) /\ clock < asked[c])

(* "Skip the very next scheduled execution", "suppress all executions until a
   given date": no run gets through while a request for its cron stands.  A check
   clears the mark an await after it has read it (core.ts:154-158), and a request
   made in between is lost with it: the crons where that has happened, or where
   two checks have read one mark, are left out. *)
RequestHonoured ==
    [][\A r \in Runs :
          LET c == runs[r].cron IN
          Starts(r) /\ Standing(c) => c \in raced]_vars

(* "Then resume normally": a skipNext is good for one run. *)
SkipsOnce == \A c \in Crons : c \in raced \/ skipped[c] <= wanted[c]

(* The engine knows every task that fires, so that stop and unregister reach it.
   A task that a second registration has replaced they do not reach where it
   could not be destroyed, as with node-cron 3: it fires on beside the new one
   (engines/node/index.ts:63-67). *)
NoStrayTask ==
    \A t \in DOMAIN tasks : tasks[t].on =>
        current[tasks[t].cron] = t \/ (t \in replaced /\ ~destroys)

(* A mark does not stay for ever: while a task of the cron goes on firing, it
   is consumed, or it is a date and runs are let through when it has come. *)
Fires(c) == \E t \in DOMAIN tasks : tasks[t].on /\ tasks[t].cron = c
SkipEnds ==
    \A c \in Crons :
        (skip[c] # None /\ Fires(c)) ~> (skip[c] = None \/ ~Fires(c))

(* The engine, its map of tasks and the runs of a cron agree. *)
TasksKnown == TypeOK /\ NoStrayTask

(* The skip calls do what they say: a request suppresses the runs it is for, a
   skipNext one of them, and no mark suppresses the cron for ever. *)
SkipsHonoured == []SkipsOnce /\ RequestHonoured /\ SkipEnds
=============================================================================
