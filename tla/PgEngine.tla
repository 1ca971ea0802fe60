------------------------------ MODULE PgEngine ------------------------------
(***************************************************************************)
(* pgEngine (packages/job/src/engines/pg/index.ts): instances of the       *)
(* engine that share a table of schedules, poll it for the jobs that are   *)
(* due and run them under a PostgreSQL advisory lock.                      *)
(*                                                                         *)
(* A poll is a sequence of steps, one for each await of pollAndExecute:    *)
(* polls[i][s].at names the query, or the handler, it waits for.           *)
(* setInterval does not wait for a poll to end before it starts the next,  *)
(* so an instance has as many polls at work as it has slots.               *)
(*                                                                         *)
(* Time: the clock counts the ticks of the cron expression; the next tick  *)
(* after time t is t + 1.                                                  *)
(*                                                                         *)
(* Advisory locks belong to a session, that is to a connection: taking one *)
(* again in the same session succeeds, and each time needs an unlock of    *)
(* its own.  An instance that was given a client has one connection; with  *)
(* a pool each query may run on any of the pool's, the unlock on another   *)
(* than the lock.  strayed is the history of that: the locks (of a session *)
(* and a job) that a poll has given back for another, or left behind.      *)
(***************************************************************************)
EXTENDS Integers, FiniteSets

CONSTANTS
    Instances,
    Jobs,
    Crons,      \* the jobs whose definition has a cron expression
    Conns,
    ConnsOf,    \* the connections of each instance
    NoConn,
    Slots,
    SlotsOf,    \* names for the polls each instance may have at work at once
    MaxTime,    \* a bound on the clock
    MayThrow,   \* a handler may throw
    MayFail,    \* a connection may break
    MayCrash    \* an instance may die, and start again with empty maps

ASSUME PgAssumption ==
    /\ Jobs # {}
    /\ Crons \subseteq Jobs
    /\ ConnsOf \in [Instances -> (SUBSET Conns) \ {{}}]
    /\ NoConn \notin Conns
    /\ SlotsOf \in [Instances -> SUBSET Slots]
    /\ IsFiniteSet(Instances) /\ IsFiniteSet(Slots)
    /\ \A i, j \in Instances : i # j => ConnsOf[i] \cap ConnsOf[j] = {}
    /\ MaxTime \in Nat
    /\ MayThrow \in BOOLEAN /\ MayFail \in BOOLEAN /\ MayCrash \in BOOLEAN

VARIABLES
    clock,
    table,      \* next_run_at of the jobs that have a row
    session,    \* how often each connection holds each job's lock
    engine,     \* the maps and the timer of each instance
    admin,      \* the register, handle or unregister call of each instance
    polls,
    strayed

vars == <<clock, table, session, engine, admin, polls, strayed>>

Times == 0 .. MaxTime + 1

Engines == [defined : SUBSET Jobs, handled : SUBSET Jobs, timer : BOOLEAN]
Booted == [defined |-> {}, handled |-> {}, timer |-> FALSE]

AdminLabels == {"idle", "register", "handle", "upsert", "delete"}
Admins == [at : AdminLabels, job : Jobs, handler : BOOLEAN, next : Times]
NoCall == [at |-> "idle", job |-> CHOOSE j \in Jobs : TRUE,
           handler |-> FALSE, next |-> 0]

(* The locals of a poll: now, the jobs it is done with, the job at hand and
   the time its handler's end was followed by; and as history, the connection
   in whose session it has taken the lock, until that breaks. *)
PollLabels == {"idle", "visit", "select", "lock", "run", "update", "unlock"}
Polls == [at : PollLabels, now : Times, visited : SUBSET Jobs, job : Jobs,
          next : Times, conn : Conns \cup {NoConn}]
NoPoll == [at |-> "idle", now |-> 0, visited |-> {},
           job |-> CHOOSE j \in Jobs : TRUE, next |-> 0, conn |-> NoConn]

GetNextRun(from) == from + 1

Init ==
    /\ clock = 0
    /\ table = [j \in {} |-> 0]
    /\ session = [c \in Conns |-> [j \in Jobs |-> 0]]
    /\ engine = [i \in Instances |-> Booted]
    /\ admin = [i \in Instances |-> NoCall]
    /\ polls = [i \in Instances |-> [s \in Slots |-> NoPoll]]
    /\ strayed = {}

-----------------------------------------------------------------------------
(* register, handle and unregister; an instance makes one call at a time. *)
Call(i, c) == admin' = [admin EXCEPT ![i] = c]

Define(i, j, withHandler) ==
    engine' = [engine EXCEPT
        ![i].defined = @ \cup {j},
        ![i].handled = IF withHandler THEN @ \cup {j} ELSE @]

(* register awaits ensureTable before it touches the maps. *)
Register(i, j, withHandler) ==
    /\ admin[i].at = "idle"
    /\ Call(i, [NoCall EXCEPT !.at = "register", !.job = j,
                              !.handler = withHandler])
    /\ UNCHANGED <<clock, table, session, engine, polls, strayed>>

(* A job without cron expression has no schedule and gets no row. *)
Schedule(i) ==
    LET c == admin[i] IN
    Call(i, IF c.job \in Crons
            THEN [c EXCEPT !.at = "upsert", !.next = GetNextRun(clock)]
            ELSE NoCall)

RegisterDefine(i) ==
    /\ admin[i].at = "register"
    /\ Define(i, admin[i].job, admin[i].handler)
    /\ Schedule(i)
    /\ UNCHANGED <<clock, table, session, polls, strayed>>

(* handle fills the maps first. *)
Handle(i, j) ==
    /\ admin[i].at = "idle"
    /\ Define(i, j, TRUE)
    /\ Call(i, [NoCall EXCEPT !.at = "handle", !.job = j, !.handler = TRUE])
    /\ UNCHANGED <<clock, table, session, polls, strayed>>

HandleSchedule(i) ==
    /\ admin[i].at = "handle"
    /\ Schedule(i)
    /\ UNCHANGED <<clock, table, session, engine, polls, strayed>>

(* INSERT ... ON CONFLICT (id) DO UPDATE, then the timer. *)
Upsert(i) ==
    /\ admin[i].at = "upsert"
    /\ table' = [j \in DOMAIN table \cup {admin[i].job} |->
                    IF j = admin[i].job THEN admin[i].next ELSE table[j]]
    /\ engine' = [engine EXCEPT ![i].timer = @ \/ engine[i].handled # {}]
    /\ Call(i, NoCall)
    /\ UNCHANGED <<clock, session, polls, strayed>>

Unregister(i, j) ==
    /\ admin[i].at = "idle"
    /\ Call(i, [NoCall EXCEPT !.at = "delete", !.job = j])
    /\ UNCHANGED <<clock, table, session, engine, polls, strayed>>

(* A definition that is deleted and set again is at the end of the map, where
   a poll that goes through the map comes across it once more. *)
UnregisterDelete(i) ==
    /\ admin[i].at = "delete"
    /\ LET j == admin[i].job
           left == engine[i].defined \ {j}
       IN  /\ table' = [k \in DOMAIN table \ {j} |-> table[k]]
           /\ engine' = [engine EXCEPT
                  ![i] = [defined |-> left, handled |-> @.handled \ {j},
                          timer |-> @.timer /\ left # {}]]
           /\ polls' = [polls EXCEPT
                  ![i] = [s \in Slots |->
                              [polls[i][s] EXCEPT !.visited = @ \ {j}]]]
    /\ Call(i, NoCall)
    /\ UNCHANGED <<clock, session, strayed>>

AdminFails(i) ==
    /\ MayFail
    /\ admin[i].at # "idle"
    /\ Call(i, NoCall)
    /\ UNCHANGED <<clock, table, session, engine, polls, strayed>>

Start(i) ==
    /\ engine[i].handled # {}
    /\ engine' = [engine EXCEPT ![i].timer = TRUE]
    /\ UNCHANGED <<clock, table, session, admin, polls, strayed>>

Stop(i) ==
    /\ engine' = [engine EXCEPT ![i].timer = FALSE]
    /\ UNCHANGED <<clock, table, session, admin, polls, strayed>>

-----------------------------------------------------------------------------
(* pollAndExecute *)
Poll(i, s, p) == polls' = [polls EXCEPT ![i][s] = p]

(* The interval fires. *)
PollStart(i, s) ==
    /\ polls[i][s].at = "idle"
    /\ engine[i].timer /\ s \in SlotsOf[i]
    /\ Poll(i, s, [NoPoll EXCEPT !.at = "visit", !.now = clock])
    /\ UNCHANGED <<clock, table, session, engine, admin, strayed>>

(* The next job of the definitions that has a handler and a cron expression;
   the end of the poll when there is none left. *)
PollVisit(i, s) ==
    /\ polls[i][s].at = "visit"
    /\ LET todo == (engine[i].defined \cap engine[i].handled \cap Crons)
                        \ polls[i][s].visited
       IN  \/ /\ todo = {}
              /\ Poll(i, s, NoPoll)
           \/ \E j \in todo :
                Poll(i, s, [polls[i][s] EXCEPT !.at = "select", !.job = j])
    /\ UNCHANGED <<clock, table, session, engine, admin, strayed>>

(* On to the next job. *)
Visited(p) ==
    [p EXCEPT !.at = "visit", !.visited = @ \cup {p.job}, !.next = 0,
              !.conn = NoConn]

(* SELECT next_run_at: a job without a row is given the next tick from now,
   which is not due. *)
PollSelect(i, s) ==
    /\ polls[i][s].at = "select"
    /\ LET p == polls[i][s]
           due == p.job \in DOMAIN table /\ table[p.job] <= p.now
       IN  Poll(i, s, IF due THEN [p EXCEPT !.at = "lock"] ELSE Visited(p))
    /\ UNCHANGED <<clock, table, session, engine, admin, strayed>>

(* pg_try_advisory_lock on connection c, and pg_advisory_unlock, which only
   warns when the session does not hold the lock. *)
Grantable(c, j) == \A d \in Conns \ {c} : session[d][j] = 0
Unlocked(c, j) ==
    [session EXCEPT ![c][j] = IF @ = 0 THEN 0 ELSE @ - 1]

PollLockBug(i, s) ==            \* runs the job whatever the answer
    /\ polls[i][s].at = "lock"
    /\ \E c \in ConnsOf[i] :
        /\ session' = IF Grantable(c, polls[i][s].job)
                      THEN [session EXCEPT ![c][polls[i][s].job] = @ + 1]
                      ELSE session
        /\ Poll(i, s, [polls[i][s] EXCEPT !.at = "run", !.conn = c])
    /\ UNCHANGED <<clock, table, engine, admin, strayed>>

(* Denied, the poll goes on to the next job by way of the finally block. *)
PollLock(i, s) ==
    /\ polls[i][s].at = "lock"
    /\ \E c \in ConnsOf[i] :
        LET p == polls[i][s] IN
        IF Grantable(c, p.job)
        THEN /\ session' = [session EXCEPT ![c][p.job] = @ + 1]
             /\ Poll(i, s, [p EXCEPT !.at = "run", !.conn = c])
        ELSE /\ Poll(i, s, [p EXCEPT !.at = "unlock"])
             /\ UNCHANGED session
    /\ UNCHANGED <<clock, table, engine, admin, strayed>>

HandlerReturns(i, s) ==
    /\ polls[i][s].at = "run"
    /\ Poll(i, s, [polls[i][s] EXCEPT !.at = "update",
                                      !.next = GetNextRun(clock)])
    /\ UNCHANGED <<clock, table, session, engine, admin, strayed>>

(* Caught and logged: the job stays due. *)
HandlerThrows(i, s) ==
    /\ MayThrow
    /\ polls[i][s].at = "run"
    /\ Poll(i, s, [polls[i][s] EXCEPT !.at = "unlock"])
    /\ UNCHANGED <<clock, table, session, engine, admin, strayed>>

PollUpdateBug(i, s) ==          \* keeps the time it was due
    /\ polls[i][s].at = "update"
    /\ Poll(i, s, [polls[i][s] EXCEPT !.at = "unlock"])
    /\ UNCHANGED <<clock, table, session, engine, admin, strayed>>

PollUpdate(i, s) ==
    /\ polls[i][s].at = "update"
    /\ table' = [j \in DOMAIN table |->
                    IF j = polls[i][s].job THEN polls[i][s].next ELSE table[j]]
    /\ Poll(i, s, [polls[i][s] EXCEPT !.at = "unlock"])
    /\ UNCHANGED <<clock, session, engine, admin, strayed>>

(* The lock that a poll gives back instead of its own, and its own. *)
Strays(p, c) ==
    {d \in {c, p.conn} \cap Conns : c # p.conn /\ session[d][p.job] > 0} \X {p.job}

(* Neither held by the session of c nor counted on. *)
Free(c, j) ==
    /\ session[c][j] = 0
    /\ \A i \in Instances, s \in Slots :
          ~(polls[i][s].conn = c /\ polls[i][s].job = j)

PollUnlock(i, s) ==
    /\ polls[i][s].at = "unlock"
    /\ Poll(i, s, Visited(polls[i][s]))
    /\ \E c \in ConnsOf[i] :
        /\ session' = Unlocked(c, polls[i][s].job)
        /\ strayed' = {l \in strayed \cup Strays(polls[i][s], c) :
                          ~Free(l[1], l[2])'}
    /\ UNCHANGED <<clock, table, engine, admin>>

(* A connection breaks, and the server drops the locks of its session. *)
Broken(c) == session' = [session EXCEPT ![c] = [j \in Jobs |-> 0]]
Bereft(p, c) == IF p.conn = c THEN [p EXCEPT !.conn = NoConn] ELSE p

(* A poll whose query ran on it sees the query fail: a failed SELECT or unlock
   ends the poll (and with it the instance, where the runtime ends a process
   for a rejection nobody handles: see Crash), which leaves a lock behind that
   it has taken on another connection; what fails within the try block is
   caught, then the lock undone. *)
AfterFailure(p, c) ==
    IF p.at \in {"select", "unlock"} THEN NoPoll
    ELSE [Bereft(p, c) EXCEPT !.at = "unlock"]
LeavesBehind(p) ==
    IF p.at = "unlock" /\ p.conn # NoConn THEN {<<p.conn, p.job>>} ELSE {}

QueryFails(i, s) ==
    /\ MayFail
    /\ polls[i][s].at \in {"select", "lock", "update", "unlock"}
    /\ \E c \in ConnsOf[i] :
        /\ Broken(c)
        /\ polls' = [polls EXCEPT ![i] = [t \in Slots |->
                        IF t = s THEN AfterFailure(polls[i][s], c)
                        ELSE Bereft(polls[i][t], c)]]
        /\ strayed' = {l \in strayed \cup LeavesBehind(polls[i][s]) : l[1] # c}
    /\ UNCHANGED <<clock, table, engine, admin>>

(* The same while no query runs on the connection. *)
ConnectionLost(i) ==
    /\ MayFail
    /\ \E c \in ConnsOf[i] :
        /\ Broken(c)
        /\ polls' = [polls EXCEPT
                       ![i] = [t \in Slots |-> Bereft(polls[i][t], c)]]
        /\ strayed' = {l \in strayed : l[1] # c}
    /\ UNCHANGED <<clock, table, engine, admin>>

-----------------------------------------------------------------------------
(* The server drops the sessions of an instance that dies. *)
Crash(i) ==
    /\ MayCrash
    /\ engine' = [engine EXCEPT ![i] = Booted]
    /\ admin' = [admin EXCEPT ![i] = NoCall]
    /\ polls' = [polls EXCEPT ![i] = [s \in Slots |-> NoPoll]]
    /\ session' = [c \in Conns |->
                      IF c \in ConnsOf[i] THEN [j \in Jobs |-> 0]
                      ELSE session[c]]
    /\ strayed' = {l \in strayed : l[1] \notin ConnsOf[i]}
    /\ UNCHANGED <<clock, table>>

Tick ==
    /\ clock < MaxTime
    /\ clock' = clock + 1
    /\ UNCHANGED <<table, session, engine, admin, polls, strayed>>

Admin(i) ==
    \/ \E j \in Jobs :
        \/ \E withHandler \in BOOLEAN : Register(i, j, withHandler)
        \/ Handle(i, j) \/ Unregister(i, j)
    \/ RegisterDefine(i) \/ HandleSchedule(i) \/ Upsert(i)
    \/ UnregisterDelete(i) \/ AdminFails(i) \/ Start(i) \/ Stop(i)

PollStep(i, s) ==
    \/ PollStart(i, s) \/ PollVisit(i, s) \/ PollSelect(i, s)
    \/ PollLock(i, s) \/ PollUpdate(i, s) \/ PollUnlock(i, s)

Work ==
    \E i \in Instances :
        \/ Crash(i) \/ ConnectionLost(i)
        \/ \E s \in Slots :
            \/ PollStep(i, s) \/ HandlerReturns(i, s)
            \/ HandlerThrows(i, s) \/ QueryFails(i, s)

Next == Tick \/ Work \/ \E i \in Instances : Admin(i)

Spec == Init /\ [][Next]_vars

(* Every instance has registered every job with its handler.  From then on the
   application makes no call, and an instance that dies does not come back. *)
Deployed ==
    /\ clock = 0
    /\ table = [j \in Crons |-> GetNextRun(clock)]
    /\ session = [c \in Conns |-> [j \in Jobs |-> 0]]
    /\ engine = [i \in Instances |->
                    [defined |-> Jobs, handled |-> Jobs, timer |-> TRUE]]
    /\ admin = [i \in Instances |-> NoCall]
    /\ polls = [i \in Instances |-> [s \in Slots |-> NoPoll]]
    /\ strayed = {}

SteadySpec == Deployed /\ [][Tick \/ Work]_vars

(* The timers fire, the server answers, and a handler that is run again and
   again does not throw for ever.  No call of the application is required. *)
Fairness ==
    \A i \in Instances, s \in Slots :
        WF_vars(PollStep(i, s)) /\ SF_vars(HandlerReturns(i, s))

LiveSpec == SteadySpec /\ Fairness

-----------------------------------------------------------------------------
TypeOK ==
    /\ clock \in 0 .. MaxTime
    /\ DOMAIN table \subseteq Jobs
    /\ \A j \in DOMAIN table : table[j] \in Times
    /\ session \in [Conns -> [Jobs -> Nat]]
    /\ engine \in [Instances -> Engines]
    /\ admin \in [Instances -> Admins]
    /\ polls \in [Instances -> [Slots -> Polls]]
    /\ strayed \subseteq Conns \X Jobs

(* The polls that are running job j, or recording that they did. *)
Runners(j) ==
    {r \in Instances \X Slots :
        /\ polls[r[1]][r[2]].at \in {"run", "update"}
        /\ polls[r[1]][r[2]].job = j}

(* The polls that have taken the lock of j in the session of c. *)
Holding(c, j) ==
    {r \in Instances \X Slots :
        polls[r[1]][r[2]].conn = c /\ polls[r[1]][r[2]].job = j}

(* "Uses pg_try_advisory_lock for distributed scheduling": the polls that run
   the scheduled handler of a job at once are of one instance and share a
   session, where the timer did not wait for the first.  Other polls may run it
   meanwhile when their session has broken under them, or when the lock has
   strayed: a poll of the instance has given it back for another one. *)
InLock(r, j) ==
    LET p == polls[r[1]][r[2]] IN p.conn # NoConn /\ <<p.conn, j>> \notin strayed
NoOverlap ==
    \A j \in Jobs : \A r, t \in Runners(j) :
        InLock(r, j) /\ InLock(t, j) =>
            r[1] = t[1] /\ polls[r[1]][r[2]].conn = polls[t[1]][t[2]].conn

(* Polls never give a job back a tick it has had: next_run_at only grows. *)
NextAdvances ==
    [][\A j \in DOMAIN table : j \in DOMAIN table' /\ table[j] <= table'[j]]_vars

(* No two sessions hold the lock of a job; and one that has not strayed holds
   it once for each poll that has taken it and not given it back: none is
   forgotten, and none given back twice, whatever handlers throw and queries
   fail. *)
LockAccounted ==
    /\ \A c, d \in Conns, j \in Jobs :
          session[c][j] > 0 /\ session[d][j] > 0 => c = d
    /\ \A c \in Conns, j \in Jobs :
          <<c, j>> \notin strayed => session[c][j] = Cardinality(Holding(c, j))

Due(j) == j \in DOMAIN table /\ table[j] <= clock

(* A job that is due, and that some instance goes on polling for, is run and
   given its next tick: no handler that throws now and then, no lock and no
   instance that dies while it runs the job keeps the others from it. *)
Serves(i, j) ==
    engine[i].timer /\ j \in engine[i].defined \cap engine[i].handled \cap Crons
DueRuns ==
    \A j \in Jobs :
        Due(j) /\ (\E i \in Instances : Serves(i, j)) ~>
            ~Due(j) \/ \A i \in Instances : ~Serves(i, j)

(* The advisory lock governs the runs: it is held while and only while a poll
   needs it, and so no two instances run a job at once. *)
LockGoverns == TypeOK /\ LockAccounted /\ NoOverlap

(* The ticks of a job are served: in order, and every one in the end. *)
TicksServed == NextAdvances /\ DueRuns
=============================================================================
