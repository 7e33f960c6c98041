---------------------------- MODULE JobScheduler ----------------------------
(***************************************************************************)
(* The job engine of modulesdk/hostclient.go: the jobs a module declares,  *)
(* the goroutine that runs each of them, the push-watchdog goroutine, and  *)
(* the cancel function and wait group that stop them all.                  *)
(*                                                                         *)
(* The fields of hostClient keep their names.  A goroutine is a "worker":  *)
(* its state says where in launchJobLocked it is.  jobWG is not a variable *)
(* of its own, its count is the number of workers that are neither "none"  *)
(* nor "done".  hostClient.mu protects short sections that block nowhere,  *)
(* so each of them is part of one action.                                  *)
(*                                                                         *)
(* This module has no Next: ModuleRuntime says who calls StartJobs and     *)
(* CancelJobs and when.                                                    *)
(***************************************************************************)
EXTENDS Naturals

CONSTANTS
    Jobs,        \* the jobs the module's Scheduled.Jobs may return
    Watchdog     \* the push-watchdog goroutine

ASSUME WatchdogAssumption == Watchdog \notin Jobs

Workers == Jobs \cup {Watchdog}

VARIABLES
    jobs,               \* hostClient.jobs: what addJobs recorded
    watchdogInterval,   \* hostClient.watchdogInterval: 0 disables, 1 stands for any cadence
    jobCancel,          \* hostClient.jobCancel is non-nil
    jobCtx,             \* hostClient.jobCtx: "none", "live", "cancelled"
    started,            \* hostClient.started
    worker              \* the goroutine of each job, and the watchdog's

schedulerVars == <<jobs, watchdogInterval, jobCancel, jobCtx, started, worker>>

(* "launched": go func() issued, j.Run not yet entered.  "run": inside     *)
(* j.Run.  "wait": in the select on the timer and ctx.Done.                *)
WorkerStates == {"none", "launched", "run", "wait", "done"}

SchedulerTypeOK ==
    /\ jobs \in SUBSET Jobs
    /\ watchdogInterval \in 0..1
    /\ jobCancel \in BOOLEAN
    /\ jobCtx \in {"none", "live", "cancelled"}
    /\ started \in BOOLEAN
    /\ worker \in [Workers -> WorkerStates]

SchedulerInit ==
    /\ jobs = {}
    /\ watchdogInterval = 0
    /\ jobCancel = FALSE
    /\ jobCtx = "none"
    /\ started = FALSE
    /\ worker = [w \in Workers |-> "none"]

(* What jobWG.Wait waits for. *)
Drained == \A w \in Workers : worker[w] \in {"none", "done"}

-----------------------------------------------------------------------------
(* Calls of the runtime.                                                   *)

(* setWatchdogInterval and addJobs, both called once by a successful Init. *)
RecordJobs(declared, interval) ==
    /\ jobs' = jobs \cup declared
    /\ watchdogInterval' = interval
    /\ UNCHANGED <<jobCancel, jobCtx, started, worker>>

(* launchJobLocked for every recorded job, launchWatchdogLocked if core    *)
(* asked for pings.                                                        *)
Launched(w) ==
    CASE w \in jobs                              -> "launched"
      [] w = Watchdog /\ watchdogInterval > 0    -> "wait"
      [] OTHER                                   -> worker[w]

(* startJobs: a second call, with jobCancel still set, changes nothing.    *)
StartJobs ==
    /\ jobCancel' = TRUE
    /\ jobCtx'    = IF jobCancel THEN jobCtx ELSE "live"
    /\ started'   = TRUE
    /\ worker'    = IF jobCancel THEN worker ELSE [w \in Workers |-> Launched(w)]
    /\ UNCHANGED <<jobs, watchdogInterval>>

(* The first half of stopJobs takes the cancel function under the lock and *)
(* calls it.  The second half, jobWG.Wait, is reached only by the caller   *)
(* that found jobCancel set: any other caller returns at once.             *)
CancelJobsNoCancel ==
    /\ jobCancel' = FALSE
    /\ UNCHANGED <<jobs, watchdogInterval, jobCtx, started, worker>>

CancelJobs ==
    /\ jobCancel' = FALSE
    /\ jobCtx' = IF jobCancel THEN "cancelled" ELSE jobCtx
    /\ UNCHANGED <<jobs, watchdogInterval, started, worker>>

-----------------------------------------------------------------------------
(* Steps of a worker.                                                      *)

StepWorker(w, from, to) ==
    /\ worker[w] = from
    /\ worker' = [worker EXCEPT ![w] = to]
    /\ UNCHANGED <<jobs, watchdogInterval, jobCancel, jobCtx, started>>

(* The first Run is entered whatever became of the context meanwhile.      *)
JobFirstRun(j) == StepWorker(j, "launched", "run")

(* Run returns and the interval is read again: EveryFunc or Every.  A      *)
(* non-positive one ends the job, any other arms a timer.                  *)
JobRunReturns(j) ==
    \E every \in {"positive", "nonPositive"} :
        StepWorker(j, "run", IF every = "positive" THEN "wait" ELSE "done")

(* The timer fires.  A select with both cases ready picks either, so the   *)
(* job may still run once after it was cancelled.                          *)
JobTick(j) == StepWorker(j, "wait", "run")

(* ctx.Done: the job goroutine stops its timer, the watchdog closes its    *)
(* stream, and both return.                                                *)
WorkerCancelled(w) ==
    /\ jobCtx = "cancelled"
    /\ StepWorker(w, "wait", "done")

=============================================================================
