--------------------------- MODULE NodeCronProofs ---------------------------
(***************************************************************************)
(* Theorems about NodeCron, for every set of crons, tasks and runs and     *)
(* every bound of the clock and of the requests.                           *)
(***************************************************************************)
EXTENDS NodeCron, TLAPS

-----------------------------------------------------------------------------
(* Tasks. *)

(* The engine's map has a task under the cron it was made for: what it stops,
   destroys or replaces for a cron is a task of that cron. *)
MapOwned == \A c \in Crons : current[c] # NoTask => tasks[current[c]].cron = c

TaskInv == TypeOK /\ MapOwned

(* The tasks and the map of them, apart from the rest of the types. *)
TasksOK ==
    /\ DOMAIN tasks \subseteq Tasks
    /\ \A t \in DOMAIN tasks : tasks[t] \in [cron : Crons, on : BOOLEAN]
    /\ current \in [Crons -> DOMAIN tasks \cup {NoTask}]

(* A new task, which takes the place of the one it has destroyed. *)
LEMMA ScheduleTasks ==
    ASSUME TasksOK, MapOwned, NEW c \in Crons, StartSchedules(c)
    PROVE  TasksOK' /\ MapOwned' /\ (NoStrayTask => NoStrayTask')
<1> PICK t \in Tasks \ DOMAIN tasks :
        /\ tasks' = [u \in Survivors(c) \cup {t} |->
                        IF u = t THEN [cron |-> c, on |-> TRUE] ELSE tasks[u]]
        /\ current' = [current EXCEPT ![c] = t]
  BY DEF StartSchedules
<1>1. /\ Survivors(c) \in {DOMAIN tasks, DOMAIN tasks \ {current[c]}}
      /\ destroys => Survivors(c) = DOMAIN tasks \ {current[c]}
      /\ destroys' = destroys
      /\ ~destroys /\ current[c] # NoTask => current[c] \in replaced'
      /\ replaced \subseteq replaced'
  BY DEF Survivors, StartSchedules, machine
<1>2. t # NoTask
  BY NodeAssumption
<1>3. \A d \in Crons \ {c} : current[d] = NoTask \/ current[d] \in Survivors(c)
  BY <1>1 DEF TasksOK, MapOwned
<1>4. \A u \in Survivors(c) : u # t /\ tasks'[u] = tasks[u]
  BY <1>1
<1>5. TasksOK'
  BY <1>1, <1>3 DEF TasksOK
<1>6. ASSUME NoStrayTask PROVE NoStrayTask'
  <2>1. /\ DOMAIN tasks' = Survivors(c) \cup {t}
        /\ tasks'[t] = [cron |-> c, on |-> TRUE] /\ current'[c] = t
        /\ \A d \in Crons \ {c} : current'[d] = current[d]
    BY DEF TasksOK
  <2> SUFFICES ASSUME NEW u \in Survivors(c), tasks[u].on
               PROVE  \/ current'[tasks[u].cron] = u
                      \/ u \in replaced' /\ ~destroys
    BY <1>1, <1>4, <2>1 DEF NoStrayTask
  <2>2. u \in DOMAIN tasks /\ tasks[u].cron \in Crons
    BY <1>1 DEF TasksOK
  <2>3. \/ current[tasks[u].cron] = u
        \/ u \in replaced /\ ~destroys
    BY <1>6, <2>2 DEF NoStrayTask
  <2>4. CASE u \in replaced /\ ~destroys
    BY <1>1, <2>4
  <2>5. CASE current[tasks[u].cron] = u /\ tasks[u].cron = c
    <3>1. u # NoTask
      BY <2>2, NodeAssumption DEF TasksOK
    <3> QED
      BY <1>1, <2>5, <3>1
  <2>6. CASE current[tasks[u].cron] = u /\ tasks[u].cron # c
    BY <2>1, <2>2, <2>6
  <2> QED
    BY <2>3, <2>4, <2>5, <2>6
<1>7. MapOwned'
  BY <1>2, <1>3, <1>4 DEF TasksOK, MapOwned
<1> QED
  BY <1>5, <1>6, <1>7

(* start and stop switch the tasks of the map, which are those of their crons. *)
LEMMA SwitchTasks ==
    ASSUME TasksOK, MapOwned, NEW on \in BOOLEAN, Switch(on), UNCHANGED <<current, replaced, destroys>>
    PROVE  TasksOK' /\ MapOwned' /\ (NoStrayTask => NoStrayTask')
<1>1. /\ DOMAIN tasks' = DOMAIN tasks
      /\ \A t \in DOMAIN tasks :
            /\ tasks'[t] \in [cron : Crons, on : BOOLEAN]
            /\ tasks'[t].cron = tasks[t].cron
            /\ tasks'[t].on => tasks[t].on \/ \E c \in Crons : current[c] = t
  BY DEF Switch, TasksOK
<1>2. TasksOK'
  BY <1>1 DEF TasksOK
<1>3. MapOwned'
  BY <1>1 DEF TasksOK, MapOwned
<1>4. \A t \in DOMAIN tasks : t # NoTask
  BY NodeAssumption DEF TasksOK
<1>5. ASSUME NoStrayTask PROVE NoStrayTask'
  BY <1>1, <1>4, <1>5 DEF TasksOK, NoStrayTask, MapOwned
<1> QED
  BY <1>2, <1>3, <1>5

(* unregister takes the task of the cron out of both. *)
LEMMA UnregisterTasks ==
    ASSUME TasksOK, MapOwned, NEW c \in Crons, UnregisterEngine(c)
    PROVE  TasksOK' /\ MapOwned' /\ (NoStrayTask => NoStrayTask')
<1>1. /\ tasks' = [t \in DOMAIN tasks \ {current[c]} |-> tasks[t]]
      /\ current' = [current EXCEPT ![c] = NoTask]
  BY DEF UnregisterEngine
<1>2. \A d \in Crons \ {c} : current[d] = NoTask \/ current[d] \in DOMAIN tasks'
  BY <1>1 DEF TasksOK, MapOwned
<1>3. TasksOK'
  BY <1>1, <1>2 DEF TasksOK
<1>6. UNCHANGED <<replaced, destroys>>
  BY DEF UnregisterEngine, machine, history
<1>4. ASSUME NoStrayTask PROVE NoStrayTask'
  BY <1>1, <1>4, <1>6 DEF TasksOK, NoStrayTask
<1>5. MapOwned'
  BY <1>1, <1>2 DEF TasksOK, MapOwned
<1> QED
  BY <1>3, <1>4, <1>5

(* Every other step leaves tasks and map alone. *)
LEMMA StepTasks ==
    ASSUME TasksOK, MapOwned, [Next]_vars
    PROVE  TasksOK' /\ MapOwned' /\ (NoStrayTask => NoStrayTask')
<1>1. ASSUME NEW c \in Crons, StartSchedules(c) \/ UnregisterEngine(c)
      PROVE  TasksOK' /\ MapOwned' /\ (NoStrayTask => NoStrayTask')
  BY <1>1, ScheduleTasks, UnregisterTasks
<1>2. CASE StartEnds \/ Stop
  BY <1>2, SwitchTasks DEF StartEnds, Stop, machine, history
<1>3. CASE UNCHANGED <<engine, replaced, destroys>>
  BY <1>3 DEF engine, TasksOK, NoStrayTask, MapOwned
<1>4. CASE Lifecycle
  BY <1>1, <1>2, <1>3, <1>4 DEF Lifecycle, StartCalls, StartSaves, machine, history
<1>5. CASE Work
  <2>1. ASSUME NEW r \in Runs, NEW c, Begin(r, c) PROVE UNCHANGED <<engine, replaced, destroys>>
    BY <2>1 DEF Begin, machine, history
  <2>2. ASSUME NEW r \in Runs, Advance(r) PROVE UNCHANGED <<engine, replaced, destroys>>
    BY <2>2 DEF Advance, RunGet, RunOnce, RunClear, RunEnd, engine, machine, history
  <2> QED
    BY <1>3, <1>5, <2>1, <2>2 DEF Work, Fire, Enqueue
<1>6. CASE Request
  BY <1>3, <1>6 DEF Request, SkipNext, SkipUntil, DisableCron, EnableCron,
                    Unregister, Ask, SetPaused, engine, machine, history
<1>7. CASE Tick \/ UNCHANGED vars
  BY <1>3, <1>7 DEF Tick, vars, engine, machine, history
<1> QED
  BY <1>4, <1>5, <1>6, <1>7 DEF Next

-----------------------------------------------------------------------------
(* Types. *)

LEMMA InitTypeOK == Init => TypeOK
<1> SUFFICES ASSUME Init PROVE TypeOK
  OBVIOUS
<1>1. NoRun \in RunRecords
  BY NodeAssumption DEF NoRun, RunRecords, RunLabels, Marks
<1>2. None \in Marks /\ 0 \in 0 .. MaxTime /\ 0 \in 0 .. MaxAsks
  BY NodeAssumption DEF Marks
<1> QED
  BY <1>1, <1>2, NodeAssumption DEF Init, TypeOK, Idle

(* The steps of runs. *)
LEMMA WorkTypeOK ==
    ASSUME TypeOK, Work
    PROVE  TypeOK'
<1> USE DEF TypeOK
<1> PICK r \in Runs : Fire(r) \/ Advance(r) \/ \E c \in Crons : Enqueue(r, c)
  BY DEF Work
<1>0. /\ runs[r] \in RunRecords
      /\ \A label \in RunLabels : [runs[r] EXCEPT !.at = label] \in RunRecords
      /\ NoRun \in RunRecords /\ None \in Marks
  BY NodeAssumption DEF NoRun, RunRecords, RunLabels, Marks
<1>1. ASSUME NEW c \in Crons, Begin(r, c) PROVE TypeOK'
  <2>1. [at |-> "get", cron |-> c] \in RunRecords
    BY DEF RunRecords, RunLabels
  <2> QED
    BY <1>1, <2>1 DEF Begin, machine, repo, engine, service, history
<1>2. ASSUME NEW label \in RunLabels, Go(r, label) PROVE runs' \in [Runs -> RunRecords]
  BY <1>0, <1>2 DEF Go
<1>3. CASE RunGet(r)
  <2>1. raced' \subseteq Crons
    <3>1. runs[r].cron \in Crons
      BY <1>0 DEF RunRecords
    <3> QED
      BY <1>3, <3>1 DEF RunGet, SecondCheck
  <2> QED
    BY <1>0, <1>2, <1>3, <2>1 DEF RunGet, RunLabels, machine, repo, engine, service
<1>4. CASE RunOnce(r)
  <2>1. runs[r].cron \in Crons
    BY <1>0 DEF RunRecords
  <2> QED
    BY <1>0, <1>4, <2>1 DEF RunOnce, machine, engine, service
<1>5. CASE RunClear(r)
  <2>1. runs[r].cron \in Crons
    BY <1>0 DEF RunRecords
  <2> QED
    BY <1>0, <1>2, <1>5, <2>1 DEF RunClear, RunLabels, machine, engine, service, history
<1>6. CASE RunEnd(r)
  BY <1>0, <1>6 DEF RunEnd, machine, repo, engine, service, history
<1> QED
  BY <1>1, <1>3, <1>4, <1>5, <1>6 DEF Fire, Enqueue, Advance

(* The calls of the application. *)
LEMMA RequestTypeOK ==
    ASSUME TypeOK, Request
    PROVE  TypeOK'
<1> USE DEF TypeOK
<1> PICK c \in Crons :
        \/ SkipNext(c) \/ DisableCron(c) \/ EnableCron(c)
        \/ \E date \in 1 .. MaxTime : SkipUntil(c, date)
        \/ Unregister(c)
  BY DEF Request
<1>1. /\ None \in Marks /\ Once \in Marks
      /\ \A date \in 1 .. MaxTime : date \in Marks
  BY NodeAssumption DEF Marks
<1>2. CASE SkipNext(c)
  <2>1. wanted[c] + 1 \in 0 .. MaxAsks
    BY <1>2, NodeAssumption DEF SkipNext
  <2> QED
    BY <1>1, <1>2, <2>1 DEF SkipNext, Ask, MarkWritten, machine, engine, service
<1>3. ASSUME NEW date \in 1 .. MaxTime, SkipUntil(c, date) PROVE TypeOK'
  BY <1>1, <1>3 DEF SkipUntil, Ask, MarkWritten, machine, engine, service
<1>4. CASE DisableCron(c) \/ EnableCron(c)
  BY <1>4 DEF DisableCron, EnableCron, SetPaused, machine, engine, service, history
<1>5. CASE Unregister(c)
  BY <1>1, <1>5 DEF Unregister, MarkWritten, machine, engine
<1> QED
  BY <1>2, <1>3, <1>4, <1>5

(* start, stop and unregister: what they do to the tasks is above. *)
LEMMA LifecycleTypeOK ==
    ASSUME TypeOK, Lifecycle, TasksOK'
    PROVE  TypeOK'
<1> USE DEF TypeOK, TasksOK
<1>1. CASE StartCalls
  BY <1>1, NodeAssumption DEF StartCalls, machine, repo, history
<1>2. CASE StartEnds
  BY <1>2 DEF StartEnds, Idle, machine, repo, history
<1>3. CASE Stop
  BY <1>3 DEF Stop, machine, repo, service, history
<1>4. ASSUME NEW c \in Crons, StartSaves(c) PROVE TypeOK'
  BY <1>4 DEF StartSaves, machine, repo, history
<1>5. ASSUME NEW c \in Crons, StartSchedules(c) PROVE TypeOK'
  <2>1. replaced' \subseteq Tasks
    BY <1>5 DEF StartSchedules
  <2> QED
    BY <1>5, <2>1 DEF StartSchedules, machine, repo
<1>6. ASSUME NEW c \in Crons, UnregisterEngine(c) PROVE TypeOK'
  BY <1>6 DEF UnregisterEngine, machine, repo, history
<1> QED
  BY <1>1, <1>2, <1>3, <1>4, <1>5, <1>6 DEF Lifecycle

LEMMA StepTaskInv ==
    ASSUME TaskInv, [Next]_vars
    PROVE  TaskInv' /\ (NoStrayTask => NoStrayTask')
<1>1. TasksOK
  BY DEF TaskInv, TypeOK, TasksOK
<1>2. TasksOK' /\ MapOwned' /\ (NoStrayTask => NoStrayTask')
  BY <1>1, StepTasks DEF TaskInv
<1>3. TypeOK'
  <2>1. CASE Tick
    BY <2>1, NodeAssumption DEF Tick, TaskInv, TypeOK, repo, engine, service, history
  <2>2. CASE UNCHANGED vars
    BY <2>2 DEF vars, TaskInv, TypeOK, machine, repo, engine, service, history
  <2> QED
    BY <1>2, <2>1, <2>2, WorkTypeOK, RequestTypeOK, LifecycleTypeOK DEF TaskInv, Next
<1> QED
  BY <1>2, <1>3 DEF TaskInv

(* The engine's map leads to every task that fires (engines/node/index.ts): no
   start, stop or unregister, however they interleave with a registration, leaves
   one out of reach, with node-cron's tasks that can be destroyed; with those
   that cannot, none but what a second registration has replaced. *)
THEOREM Reached == Spec => []TasksKnown
<1>1. Init => TaskInv /\ NoStrayTask
  BY InitTypeOK DEF Init, TaskInv, NoStrayTask, MapOwned
<1>2. TaskInv /\ NoStrayTask /\ [Next]_vars => TaskInv' /\ NoStrayTask'
  BY StepTaskInv
<1>3. TaskInv /\ NoStrayTask => TasksKnown
  BY DEF TaskInv, TasksKnown
<1> QED
  BY <1>1, <1>2, <1>3, PTL DEF Spec

-----------------------------------------------------------------------------
(* Skips, for the crons whose mark nothing has written between a check's read
   of it and its write, and which no two checks have read at once. *)
Serial == Crons \ raced

(* The mark in the repository is what was last asked for, or a date that has
   passed has been cleared. *)
MarkTrue ==
    \A c \in Serial :
        \/ skip[c] = asked[c]
        \/ skip[c] = None /\ IsDate(asked[c]) /\ asked[c] <= clock

(* What a run that is to clear the mark has read is still there, and no other
   run is to clear it. *)
CheckTrue ==
    \A r \in Runs : runs[r].cron \in Serial =>
        LET mark == skip[runs[r].cron] IN
        /\ runs[r].at = "once" => mark = Once
        /\ runs[r].at = "clear" => IsDate(mark) /\ mark <= clock
OneClearing ==
    \A c \in Serial : \A r, s \in Runs : Clearing(runs[r], c) /\ Clearing(runs[s], c) => r = s

(* A skipNext that still stands has not been granted. *)
Pending == \A c \in Serial : skip[c] = Once => skipped[c] < wanted[c]

SkipInv == TypeOK /\ MarkTrue /\ CheckTrue /\ OneClearing /\ Pending /\ SkipsOnce

(* A request.  Where a check is about to clear the mark, it counts as a race. *)
LEMMA RequestSkips ==
    ASSUME SkipInv, Request
    PROVE  MarkTrue' /\ CheckTrue' /\ OneClearing' /\ Pending' /\ SkipsOnce'
<1> USE DEF SkipInv, TypeOK
<1>1. PICK c \in Crons :
        \/ SkipNext(c) \/ DisableCron(c) \/ EnableCron(c)
        \/ \E date \in 1 .. MaxTime : SkipUntil(c, date)
        \/ Unregister(c)
  BY DEF Request
<1>2. UNCHANGED <<runs, clock, skipped>>
  BY <1>1 DEF SkipNext, SkipUntil, DisableCron, EnableCron, Unregister, Ask,
              SetPaused, history, machine
<1>3. CASE DisableCron(c) \/ EnableCron(c)
  <2>1. UNCHANGED <<skip, asked, wanted, raced>>
    BY <1>3 DEF DisableCron, EnableCron, SetPaused, history
  <2> QED
    BY <1>2, <2>1 DEF MarkTrue, CheckTrue, OneClearing, Pending, SkipsOnce, Serial
<1>4. CASE ~(DisableCron(c) \/ EnableCron(c))
  <2> DEFINE Writes(mark) ==
                 /\ skip' = [skip EXCEPT ![c] = mark] /\ asked' = [asked EXCEPT ![c] = mark]
                 /\ mark = Once => wanted' = [wanted EXCEPT ![c] = @ + 1]
                 /\ mark # Once => wanted' = wanted
                 /\ MarkWritten(c)
  <2>1. PICK mark \in {None, Once} \cup 1 .. MaxTime : Writes(mark)
    <3>1. SkipNext(c) => Writes(Once)
      BY DEF SkipNext, Ask
    <3>2. Unregister(c) => Writes(None)
      BY DEF Unregister, None, Once
    <3>3. \A date \in 1 .. MaxTime : SkipUntil(c, date) => Writes(date)
      <4> SUFFICES ASSUME NEW date \in 1 .. MaxTime, SkipUntil(c, date) PROVE Writes(date)
        OBVIOUS
      <4>1. date # Once
        BY NodeAssumption DEF Once
      <4> QED
        BY <4>1 DEF SkipUntil, Ask
    <3> HIDE DEF Writes
    <3> QED
      BY <1>1, <1>4, <3>1, <3>2, <3>3
  <2>2. Serial' \subseteq Serial
    BY <2>1 DEF MarkWritten, Serial
  <2>3. c \in Serial' => \A r \in Runs : ~Clearing(runs[r], c)
    BY <2>1 DEF MarkWritten, Serial
  <2>4. \A d \in Crons \ {c} : skip'[d] = skip[d] /\ asked'[d] = asked[d] /\ wanted'[d] = wanted[d]
    BY <2>1
  <2>5. skip'[c] = mark /\ asked'[c] = mark
        /\ wanted'[c] = IF mark = Once THEN wanted[c] + 1 ELSE wanted[c]
    BY <2>1
  <2>6. MarkTrue'
    BY <1>2, <2>2, <2>4, <2>5 DEF MarkTrue, Serial
  <2>7. CheckTrue'
    BY <1>2, <2>2, <2>3, <2>4 DEF CheckTrue, Clearing, Serial
  <2>8. OneClearing'
    BY <1>2, <2>2 DEF OneClearing
  <2>9. Pending' /\ SkipsOnce'
    <3>1. \A d \in Crons : skipped[d] \in Nat /\ wanted[d] \in Nat
      OBVIOUS
    <3>2. SkipsOnce'
      BY <1>2, <2>2, <2>4, <2>5, <3>1 DEF SkipsOnce, Serial
    <3>3. Pending'
      BY <1>2, <2>2, <2>4, <2>5, <3>1 DEF Pending, SkipsOnce, Serial
    <3> QED
      BY <3>2, <3>3
  <2> QED
    BY <2>6, <2>7, <2>8, <2>9
<1> QED
  BY <1>3, <1>4

(* A run.  Where another one is about to clear the mark it reads, it counts as a
   race. *)
LEMMA AdvanceSkips ==
    ASSUME SkipInv, NEW r \in Runs, Advance(r)
    PROVE  MarkTrue' /\ CheckTrue' /\ OneClearing' /\ Pending' /\ SkipsOnce'
<1> USE DEF SkipInv, TypeOK
<1>0. runs[r] \in RunRecords /\ runs[r].cron \in Crons
  BY DEF RunRecords
<1>1. \A s \in Runs \ {r} : runs'[s] = runs[s]
  BY DEF Advance, RunGet, RunOnce, RunClear, RunEnd, Go
<1>2. CASE RunGet(r)
  <2>1. UNCHANGED <<clock, skip, asked, skipped, wanted>> /\ SecondCheck(r)
    BY <1>2 DEF RunGet, repo, machine
  <2>2. /\ runs'[r].at = "once" => runs'[r].cron = runs[r].cron /\ skip[runs[r].cron] = Once
        /\ runs'[r].at = "clear" =>
              /\ runs'[r].cron = runs[r].cron
              /\ IsDate(skip[runs[r].cron]) /\ clock >= skip[runs[r].cron]
    BY <1>0, <1>2 DEF RunGet, Go, NoRun, RunRecords
  <2>3. Serial' \subseteq Serial
    BY <2>1 DEF SecondCheck, Serial
  <2>4. CheckTrue'
    BY <1>1, <2>1, <2>2, <2>3 DEF CheckTrue
  <2>5. OneClearing'
    <3>1. ASSUME NEW c \in Serial', Clearing(runs'[r], c), NEW s \in Runs \ {r}
          PROVE  ~Clearing(runs[s], c)
      <4>1. c = runs[r].cron
        BY <2>2, <3>1 DEF Clearing
      <4> QED
        BY <2>1, <3>1, <4>1 DEF SecondCheck, Serial
    <3> QED
      BY <1>1, <2>3, <3>1 DEF OneClearing
  <2> QED
    BY <2>1, <2>3, <2>4, <2>5 DEF MarkTrue, Pending, SkipsOnce, Serial
<1>3. CASE RunOnce(r)
  <2>1. /\ UNCHANGED <<clock, wanted, raced>>
        /\ skip' = [skip EXCEPT ![runs[r].cron] = None]
        /\ asked' = [asked EXCEPT ![runs[r].cron] = IF @ = Once THEN None ELSE @]
        /\ skipped' = [skipped EXCEPT ![runs[r].cron] = @ + 1]
        /\ runs'[r].at = "idle" /\ runs[r].at = "once"
    BY <1>3 DEF RunOnce, NoRun, machine
  <2>2. runs[r].cron \in Serial =>
            /\ skip[runs[r].cron] = Once /\ asked[runs[r].cron] = Once
            /\ skipped[runs[r].cron] < wanted[runs[r].cron]
    BY <1>0, <2>1 DEF CheckTrue, MarkTrue, Pending, Once, None
  <2>3. CheckTrue' /\ OneClearing'
    <3>1. \A s \in Runs \ {r} : runs[s].cron = runs[r].cron /\ runs[r].cron \in Serial =>
              runs[s].at \notin {"once", "clear"}
      BY <2>1 DEF OneClearing, Clearing
    <3> QED
      BY <1>1, <2>1, <3>1 DEF CheckTrue, OneClearing, Clearing, Serial
  <2> QED
    BY <1>0, <2>1, <2>2, <2>3 DEF MarkTrue, Pending, SkipsOnce, Serial, Once, None
<1>4. CASE RunClear(r)
  <2>1. /\ UNCHANGED <<clock, asked, skipped, wanted, raced>>
        /\ skip' = [skip EXCEPT ![runs[r].cron] = None]
        /\ runs'[r].at = "handler" /\ runs[r].at = "clear"
    BY <1>0, <1>4 DEF RunClear, Go, history, machine, RunRecords
  <2>2. runs[r].cron \in Serial =>
            /\ IsDate(skip[runs[r].cron]) /\ skip[runs[r].cron] <= clock
            /\ asked[runs[r].cron] = skip[runs[r].cron]
    BY <1>0, <2>1 DEF CheckTrue, MarkTrue, IsDate
  <2>3. CheckTrue' /\ OneClearing'
    <3>1. \A s \in Runs \ {r} : runs[s].cron = runs[r].cron /\ runs[r].cron \in Serial =>
              runs[s].at \notin {"once", "clear"}
      BY <2>1 DEF OneClearing, Clearing
    <3> QED
      BY <1>1, <2>1, <3>1 DEF CheckTrue, OneClearing, Clearing, Serial
  <2> QED
    BY <1>0, <2>1, <2>2, <2>3 DEF MarkTrue, Pending, SkipsOnce, Serial, Once, None
<1>5. CASE RunEnd(r)
  <2>1. UNCHANGED <<clock, skip, asked, skipped, wanted, raced>> /\ runs'[r].at = "idle"
    BY <1>5 DEF RunEnd, repo, history, machine, NoRun
  <2> QED
    BY <1>1, <2>1 DEF MarkTrue, CheckTrue, OneClearing, Clearing, Pending, SkipsOnce, Serial
<1> QED
  BY <1>2, <1>3, <1>4, <1>5 DEF Advance

LEMMA StepSkipInv ==
    ASSUME SkipInv, TaskInv, [Next]_vars
    PROVE  SkipInv'
<1>1. TypeOK'
  BY StepTaskInv DEF TaskInv
<1>2. CASE Request
  BY <1>1, <1>2, RequestSkips DEF SkipInv
<1>3. CASE Work
  <2>1. ASSUME NEW r \in Runs, Advance(r) PROVE SkipInv'
    BY <1>1, <2>1, AdvanceSkips DEF SkipInv
  <2>2. ASSUME NEW r \in Runs, NEW c \in Crons, Begin(r, c) PROVE SkipInv'
    <3>1. /\ UNCHANGED <<clock, skip, asked, skipped, wanted, raced>>
          /\ \A s \in Runs \ {r} : runs'[s] = runs[s]
          /\ runs'[r].at = "get"
      BY <2>2 DEF Begin, repo, history, machine, SkipInv, TypeOK
    <3> QED
      BY <1>1, <3>1 DEF SkipInv, MarkTrue, CheckTrue, OneClearing, Clearing, Pending, SkipsOnce,
                        Serial
  <2>3. \A t \in DOMAIN tasks : tasks[t].cron \in Crons
    BY DEF SkipInv, TypeOK
  <2> QED
    BY <1>3, <2>1, <2>2, <2>3 DEF Work, Fire, Enqueue
<1>4. CASE Lifecycle
  <2>1. UNCHANGED <<clock, skip, runs, asked, skipped, wanted, raced>>
    BY <1>4 DEF Lifecycle, StartCalls, StartEnds, Stop, StartSaves, StartSchedules,
                UnregisterEngine, machine, repo, history
  <2> QED
    BY <1>1, <2>1 DEF SkipInv, MarkTrue, CheckTrue, OneClearing, Clearing, Pending, SkipsOnce,
                      Serial
<1>5. CASE Tick
  <2>1. /\ UNCHANGED <<skip, runs, asked, skipped, wanted, raced>>
        /\ clock' = clock + 1 /\ clock \in 0 .. MaxTime
    BY <1>5 DEF Tick, repo, history, SkipInv, TypeOK
  <2>2. MarkTrue'
    BY <2>1 DEF SkipInv, TypeOK, MarkTrue, Marks, IsDate, Serial
  <2>3. CheckTrue'
    BY <2>1 DEF SkipInv, TypeOK, CheckTrue, Marks, IsDate, RunRecords, Serial
  <2> QED
    BY <1>1, <2>1, <2>2, <2>3 DEF SkipInv, OneClearing, Clearing, Pending, SkipsOnce, Serial
<1>6. CASE UNCHANGED vars
  BY <1>1, <1>6 DEF vars, machine, repo, history, SkipInv, OneClearing, Clearing, MarkTrue,
                    CheckTrue, Pending, SkipsOnce, Serial
<1> QED
  BY <1>2, <1>3, <1>4, <1>5, <1>6 DEF Next

(* A run gets through when nothing that was asked for stands. *)
LEMMA StartsFree ==
    ASSUME SkipInv, [Next]_vars, NEW r \in Runs, Starts(r), runs[r].cron \in Serial
    PROVE  ~Standing(runs[r].cron)
<1> USE DEF SkipInv, TypeOK
<1>0. runs[r] \in RunRecords /\ runs[r].cron \in Crons
  BY DEF RunRecords
<1>1. runs'[r] # runs[r]
  BY DEF Starts
<1>2. Work
  BY <1>1 DEF Next, vars, Tick, Lifecycle, StartCalls, StartEnds, Stop,
              StartSaves, StartSchedules, UnregisterEngine, Request, SkipNext,
              SkipUntil, DisableCron, EnableCron, Unregister, Ask, SetPaused
<1>3. (RunGet(r) /\ skip[runs[r].cron] = None) \/ RunClear(r)
  <2>1. PICK s \in Runs : Fire(s) \/ Advance(s) \/ \E c \in Crons : Enqueue(s, c)
    BY <1>2 DEF Work
  <2>2. s = r
    BY <1>1, <2>1 DEF Fire, Enqueue, Begin, Advance, RunGet, RunOnce, RunClear,
                      RunEnd, Go
  <2>3. Advance(r)
    BY <2>1, <2>2 DEF Starts, Fire, Enqueue, Begin
  <2> QED
    BY <1>0, <2>3 DEF Advance, RunGet, RunOnce, RunEnd, Go, Starts, NoRun, RunRecords
<1>4. CASE RunGet(r) /\ skip[runs[r].cron] = None
  BY <1>0, <1>4 DEF MarkTrue, Standing, IsDate, Once, None, Marks
<1>5. CASE RunClear(r)
  BY <1>0, <1>5 DEF RunClear, CheckTrue, MarkTrue, Standing, IsDate, Once, None, Marks
<1> QED
  BY <1>3, <1>4, <1>5

(* "Skip the very next scheduled execution" and "then resume normally"
   (packages/job/src/core.ts, wrapHandlerWithSkipCheck), whatever overlaps: no run
   of a cron gets through under a request which stands, and no more of its runs
   are skipped than skipNext was called for, as long as no request has come
   between a check's read of the mark and its write, nor a second check. *)
THEOREM SkipsCounted == Spec => []SkipsOnce /\ RequestHonoured
<1>1. Init => SkipInv /\ TaskInv
  <2> SUFFICES ASSUME Init PROVE SkipInv /\ TaskInv
    OBVIOUS
  <2>1. TypeOK /\ TaskInv
    BY InitTypeOK DEF Init, TaskInv, MapOwned
  <2>2. \A s \in Runs : runs[s].at = "idle"
    BY DEF Init, NoRun
  <2>3. OneClearing /\ CheckTrue
    BY <2>2 DEF OneClearing, Clearing, CheckTrue
  <2>4. MarkTrue /\ Pending /\ SkipsOnce
    BY DEF Init, MarkTrue, Pending, SkipsOnce, Serial, None, Once
  <2> QED
    BY <2>1, <2>3, <2>4 DEF SkipInv
<1>2. SkipInv /\ TaskInv /\ [Next]_vars => SkipInv' /\ TaskInv'
  BY StepSkipInv, StepTaskInv
<1>3. SkipInv => SkipsOnce
  BY DEF SkipInv
<1>4. SkipInv /\ [Next]_vars =>
          [\A r \in Runs :
              LET c == runs[r].cron IN
              Starts(r) /\ Standing(c) => c \in raced]_vars
  <2> SUFFICES ASSUME SkipInv, [Next]_vars, NEW r \in Runs, Starts(r), Standing(runs[r].cron)
               PROVE  runs[r].cron \in raced
    OBVIOUS
  <2>1. runs[r].cron \in Crons
    BY DEF SkipInv, TypeOK, RunRecords
  <2> QED
    BY <2>1, StartsFree DEF Serial
<1> QED
  BY <1>1, <1>2, <1>3, <1>4, PTL DEF Spec, RequestHonoured
=============================================================================
