------------------------------ MODULE JobLock ------------------------------
(***************************************************************************)
(* lockPlugin (packages/job/src/plugins/lock.ts) on top of the mutex: an   *)
(* execution of a job acquires the lock of the job, runs the rest of the   *)
(* chain and releases the lock.  A process of Mutex is an execution slot   *)
(* of an instance of the job service; the keys are the jobs, of which      *)
(* `job:${ctx.jobId}` makes a key each.  A plugin passes one owner to all  *)
(* its calls, so the slots of an instance share it, and so do the          *)
(* instances that leave the default.                                       *)
(*                                                                         *)
(* Executions make no other calls: nobody extends or forces these locks.   *)
(***************************************************************************)
EXTENDS Mutex

CONSTANT
    InstanceOf  \* the instance of the job service each slot belongs to

ASSUME PluginAssumption ==
    \A p, q \in Procs : InstanceOf[p] = InstanceOf[q] => OwnerOf[p] = OwnerOf[q]

(* Where each execution is in beforeExecute, of which job, and how long the
   lock it asked for (or was let into) is to last. *)
VARIABLE exec

workVars == <<store, call, grant, exec>>
jobVars == <<workVars, muddled>>

Stages == {"idle", "acquiring", "running", "releasing"}
Execs == [at : Stages, job : Keys, left : Lefts]
NoExec == [at |-> "idle", job |-> CHOOSE k \in Keys : TRUE, left |-> 0]

JobInit == Init /\ exec = [p \in Procs |-> NoExec]

In(p, stage) == exec[p].at = stage
Reach(p, stage) == exec' = [exec EXCEPT ![p].at = stage]
Over(p) == exec' = [exec EXCEPT ![p] = NoExec]

Execute(p, k, ttl) ==
    /\ In(p, "idle")
    /\ Acquire(p, k, ttl)
    /\ exec' = [exec EXCEPT ![p] = [at |-> "acquiring", job |-> k,
                                    left |-> ExpiryOf(ttl)]]

(* acquire finds a lock of the plugin's owner and answers true: it is not
   renewed, and the execution has what is left of it. *)
Reenters(p) ==
    /\ AcquireFind(p)
    /\ call'[p].at = "acquireAfter" /\ call'[p].acquired
    /\ exec' = [exec EXCEPT ![p].left =
                  IF Outlasts(call'[p].left, @) THEN @ ELSE call'[p].left]

(* The other awaits inside acquire and release. *)
Waits(p) ==
    /\ \/ AcquireFind(p) /\ ~(call'[p].at = "acquireAfter" /\ call'[p].acquired)
       \/ AcquireDelete(p) \/ AcquireCreate(p)
       \/ ReleaseFind(p) /\ call'[p].at # "idle"
       \/ ReleaseDelete(p)
    /\ UNCHANGED exec

(* The answer of acquire: true runs the handler, false skips the execution. *)
Answered(p) ==
    /\ AcquireReturn(p)
    /\ IF call[p].acquired THEN Reach(p, "running") ELSE Over(p)

(* acquire throws, and the execution with it. *)
AcquireThrows(p) ==
    /\ In(p, "acquiring")
    /\ AcquireConflict(p) \/ HookThrows(p)
    /\ Over(p)

(* The handler returns or throws; the finally block releases the lock. *)
HandlerEnds(p) ==
    /\ In(p, "running")
    /\ Release(p, exec[p].job)
    /\ exec' = [exec EXCEPT ![p].at = "releasing", ![p].left = 0]

(* release returns, or throws and is ignored. *)
ReleaseEnds(p) ==
    /\ In(p, "releasing")
    /\ \/ ReleaseFind(p) /\ call'[p].at = "idle"
       \/ PlainReturn(p)
       \/ HookThrows(p)
    /\ Over(p)

JobCrash(p) == Crash(p) /\ Over(p)

JobTick ==
    /\ Tick
    /\ exec' = [p \in Procs |-> [exec[p] EXCEPT !.left = Aged(@)]]

(* The rest of an execution that has started. *)
GoesOn(p) ==
    \/ Reenters(p) \/ Waits(p) \/ Answered(p) \/ AcquireThrows(p)
    \/ HandlerEnds(p) \/ ReleaseEnds(p)

JobNext ==
    /\ \/ JobTick
       \/ \E p \in Procs :
            \/ \E k \in Keys, ttl \in Ttls : Execute(p, k, ttl)
            \/ GoesOn(p)
            \/ JobCrash(p)
    /\ Remember

JobSpec == JobInit /\ [][JobNext]_jobVars

-----------------------------------------------------------------------------
Running(p, k) == In(p, "running") /\ exec[p].job = k

(* The runtime keeps the calls and the clock going, handlers end, and the
   engine starts executions again and again. *)
JobFairness ==
    /\ WF_workVars(JobTick)
    /\ \A p \in Procs :
        /\ WF_workVars(GoesOn(p))
        /\ \A k \in Keys, ttl \in Ttls : SF_workVars(Execute(p, k, ttl))

LiveJobSpec == JobSpec /\ JobFairness

-----------------------------------------------------------------------------
(* An execution is suspended in the calls its stage makes, and nowhere else. *)
StageCalls ==
    [idle |-> {"idle", "dead"},
     acquiring |-> {"acquireFind", "acquireDelete", "acquireCreate",
                    "acquireAfter"},
     running |-> {"idle"},
     releasing |-> {"releaseFind", "releaseDelete", "releaseAfter"}]

JobTypeOK ==
    /\ TypeOK
    /\ exec \in [Procs -> Execs]
    /\ \A p \in Procs :
        /\ call[p].at \in StageCalls[exec[p].at]
        /\ exec[p].at \in {"acquiring", "releasing"} =>
              call[p].key = exec[p].job

(* The execution of k in p runs and has not outlasted its lock. *)
RunsInTime(p, k) == Running(p, k) /\ exec[p].left # 0

(* Two executions of a job never run at once, unless one has outlasted its
   lock or the key is muddled: executions for one owner overlapped, or create
   let in a second row. *)
NoDoubleExecution ==
    \A p, q \in Procs, k \in Keys \ muddled :
        RunsInTime(p, k) /\ RunsInTime(q, k) => p = q

(* "Prevents double execution across instances": what the plugin is for. *)
OneInstance ==
    \A p, q \in Procs, k \in Keys :
        RunsInTime(p, k) /\ RunsInTime(q, k) => InstanceOf[p] = InstanceOf[q]

(* An execution is skipped only when another of the same job is under way, or
   died and left its lock behind (while no hook throws). *)
SkipJustified ==
    \A p \in Procs :
        At(p, "acquireFind") /\ call'[p].at = "acquireAfter"
              /\ ~call'[p].acquired =>
            \E q \in Procs \ {p} :
                \/ ~In(q, "idle") /\ exec[q].job = exec[p].job
                \/ At(q, "dead")

(* What the plugin does with locks adds up: none is left behind by an instance
   that is alive, and none keeps an execution from running without cause. *)
LocksAccounted == [][NoOrphan' /\ SkipJustified]_jobVars

(* A job whose lock a dead instance left behind is executed again. *)
JobResumes ==
    \A p \in Procs, k \in Keys :
        DeadLock(p, k) ~>
            (\E q \in Procs : Running(q, k)) \/ \A q \in Procs : At(q, "dead")
=============================================================================
