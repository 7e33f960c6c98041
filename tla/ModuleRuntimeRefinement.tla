----------------------- MODULE ModuleRuntimeRefinement -----------------------
(***************************************************************************)
(* ModuleRuntime implements ModuleContract, for every set of RPCs in       *)
(* flight, jobs and surfaces: each step of a handler, a job or the main    *)
(* goroutine is a step of the contract or one the module does not see.     *)
(***************************************************************************)
EXTENDS ModuleRuntimeProofs

(* Where a handler can be for the module to notice. *)
Seen == {"mInit", "mStart", "drain", "mStop"}

Noticed == \E c \in Calls : pc[c] \in Seen

(* A handler inside the module is there alone.                             *)
LEMMA Alone ==
    ASSUME IInv, NEW c \in Calls, pc[c] \in Holding
    PROVE  \A d \in Calls \ {c} : pc[d] \notin Seen
BY CallsAssumption DEF IInv, TypeOK, HolderInv, Holding, Seen

(* The phase, by what makes it up.                                         *)
LEMMA PhaseKept ==
    ASSUME Alive' = Alive, state' = state,
           (jobCtx' = "live") <=> (jobCtx = "live"),
           (main' = "drain") <=> (main = "drain"),
           \A w \in Seen : Busy(w)' <=> Busy(w)
    PROVE  Phase' = Phase
<1>1. /\ Busy("mInit")' <=> Busy("mInit")
      /\ Busy("mStart")' <=> Busy("mStart")
      /\ Busy("mStop")' <=> Busy("mStop")
      /\ Busy("drain")' <=> Busy("drain")
  BY DEF Seen
<1> QED
  BY <1>1 DEF Phase

(* A handler that moves elsewhere is not noticed.                          *)
LEMMA BusyKept ==
    ASSUME TypeOK, NEW c \in Calls, NEW to, pc' = [pc EXCEPT ![c] = to],
           pc[c] \notin Seen, to \notin Seen
    PROVE  \A w \in Seen : Busy(w)' <=> Busy(w)
BY DEF TypeOK, Busy, Seen

(* A handler that is inside the module makes the phase.                    *)
PhaseInside ==
    IInv /\ Alive => \A c \in Calls :
        /\ pc[c] = "mInit" => Phase = "initialising"
        /\ pc[c] = "mStart" => Phase = "starting"
        /\ pc[c] = "mStop" => Phase = "stopping"

(* Without one, the lifecycle state and the jobs do.                       *)
Outside == \A c \in Calls : pc[c] \notin Seen \ {"drain"}

Waiting == main = "drain" \/ Busy("drain")

PhaseOutside ==
    IInv /\ Alive /\ Outside =>
        /\ state = "created" => Phase = "new"
        /\ state = "inited" => Phase = "ready"
        /\ state = "stopped" => Phase = "stopped"
        /\ state = "started" =>
             Phase = IF jobCancel THEN "running" ELSE IF Waiting THEN "halting" ELSE "halted"

(* The handler inside is the only one whose place the phase looks at.      *)
LEMMA InsideNow == PhaseInside
<1> SUFFICES ASSUME IInv, Alive, NEW c \in Calls
             PROVE  /\ pc[c] = "mInit" => Phase = "initialising"
                    /\ pc[c] = "mStart" => Phase = "starting"
                    /\ pc[c] = "mStop" => Phase = "stopping"
  BY DEF PhaseInside
<1>1. ASSUME pc[c] \in Seen PROVE \A w \in Seen : Busy(w) <=> pc[c] = w
  BY <1>1, Alone DEF Seen, Holding, Busy
<1> QED
  BY <1>1 DEF Phase, Seen

(* With no handler inside, the phase looks at the lifecycle state and the  *)
(* job context.                                                            *)
LEMMA OutsideNow == PhaseOutside
<1> SUFFICES ASSUME IInv, Alive, Outside
             PROVE  /\ state = "created" => Phase = "new"
                    /\ state = "inited" => Phase = "ready"
                    /\ state = "stopped" => Phase = "stopped"
                    /\ state = "started" =>
                         Phase = IF jobCancel THEN "running"
                                 ELSE IF Waiting THEN "halting" ELSE "halted"
  BY DEF PhaseOutside
<1>1. ~Busy("mInit") /\ ~Busy("mStart") /\ ~Busy("mStop")
  BY DEF Busy, Seen, Outside
<1>2. jobCtx = "live" <=> jobCancel
  BY DEF IInv, EngineInv
<1> QED
  BY <1>1, <1>2 DEF Phase, Waiting

(* Both hold of the state after a step, too.                               *)
LEMMA PhaseNext == PhaseInside' /\ PhaseOutside'
BY InsideNow, OutsideNow, PTL

-----------------------------------------------------------------------------
(* Steps.                                                                  *)

Stutter == Phase' = Phase /\ Active' = Active

(* A step that moves no job and changes nothing the phase is made of.      *)
LEMMA Quiet ==
    ASSUME Alive' = Alive, worker' = worker, state' = state,
           (jobCtx' = "live") <=> (jobCtx = "live"),
           (main' = "drain") <=> (main = "drain"),
           \A w \in Seen : Busy(w)' <=> Busy(w)
    PROVE  Stutter
BY PhaseKept DEF Stutter, Active

(* A handler that moves where nobody notices, and no more than that.       *)
LEMMA QuietHandler ==
    ASSUME TypeOK, NEW c \in Calls, NEW to, pc' = [pc EXCEPT ![c] = to],
           pc[c] \notin Seen, to \notin Seen,
           main' = main, worker' = worker, state' = state, jobCtx' = jobCtx
    PROVE  Stutter
<1>1. \A w \in Seen : Busy(w)' <=> Busy(w)
  BY BusyKept
<1> QED
  BY <1>1, Quiet DEF Alive

(* A step that moves neither handlers nor jobs.                            *)
LEMMA QuietElsewhere ==
    ASSUME pc' = pc, worker' = worker, state' = state, jobCtx' = jobCtx,
           Alive' = Alive, (main' = "drain") <=> (main = "drain")
    PROVE  Stutter
<1>1. \A w \in Seen : Busy(w)' <=> Busy(w)
  BY DEF Busy
<1> QED
  BY <1>1, Quiet

Refined == Contract!ContractNext \/ Stutter

(* What the module sees of a handler's step is a step of its contract.     *)
LEMMA HandlerRefines ==
    ASSUME IInv, IInv', NEW c \in Calls, Handler(c)
    PROVE  Refined
<1> USE DEF At, Goto, Reply, UnlockAndReply, Stopping
<1> USE DEF serverVars, handlerVars, mainVars, schedulerVars
<1>0. TypeOK /\ TypeOK' /\ Alive
  BY DEF IInv, Handler, HealthReturns, InitRefused, InitDial, InitFails, InitSucceeds,
     StartRefused, StartCalls, StartFails, StartSucceeds, StopNoop, StopCancels,
     StopDrained, StopFails, StopSucceeds, SignalShutdown
<1>1. CASE HealthReturns(c)
  <2>1. Stutter
    BY <1>0, <1>1, QuietHandler DEF HealthReturns, Seen
  <2> QED
    BY <2>1 DEF Refined
<1>2. CASE InitRefused(c)
  <2>1. Stutter
    BY <1>0, <1>2, QuietHandler DEF InitRefused, Seen
  <2> QED
    BY <2>1 DEF Refined
<1>3. CASE StartRefused(c)
  <2>1. Stutter
    BY <1>0, <1>3, QuietHandler DEF StartRefused, Seen
  <2> QED
    BY <2>1 DEF Refined
<1>4. CASE SignalShutdown(c)
  <2>1. Stutter
    BY <1>0, <1>4, QuietHandler DEF SignalShutdown, Seen
  <2> QED
    BY <2>1 DEF Refined
<1>5. CASE InitDial(c)
  <2>1. Outside /\ state = "created" /\ Alive' /\ pc'[c] = "mInit" /\ Active' = Active
    BY <1>0, <1>5, Alone DEF InitDial, Outside, Seen, Holding, TypeOK, Alive, Active
  <2>2. Phase = "new" /\ Phase' = "initialising"
    BY <1>0, <2>1, OutsideNow, PhaseNext DEF PhaseOutside, PhaseInside
  <2> QED
    BY <2>1, <2>2 DEF Refined, Contract!ContractNext, Contract!InitCalled, Contract!Step
<1>6. CASE InitFails(c)
  <2>1. /\ Outside' /\ state' = "created" /\ Alive' /\ Active' = Active
        /\ pc[c] = "mInit"
    BY <1>0, <1>6, Alone
    DEF InitFails, Outside, Seen, Holding, TypeOK, Alive, Active, IInv, LifecycleInv
  <2>2. Phase = "initialising" /\ Phase' = "new"
    BY <1>0, <2>1, InsideNow, PhaseNext DEF PhaseOutside, PhaseInside
  <2> QED
    BY <2>1, <2>2 DEF Refined, Contract!ContractNext, Contract!InitReturns, Contract!Step
<1>7. CASE InitSucceeds(c)
  <2>1. /\ Outside' /\ state' = "inited" /\ Alive' /\ Active' = Active
        /\ pc[c] = "mInit"
    BY <1>0, <1>7, Alone
    DEF InitSucceeds, RecordJobs, Outside, Seen, Holding, TypeOK, Alive, Active
  <2>2. Phase = "initialising" /\ Phase' = "ready"
    BY <1>0, <2>1, InsideNow, PhaseNext DEF PhaseOutside, PhaseInside
  <2> QED
    BY <2>1, <2>2 DEF Refined, Contract!ContractNext, Contract!InitReturns, Contract!Step
<1>8. CASE StartCalls(c)
  <2>1. Outside /\ state = "inited" /\ Alive' /\ pc'[c] = "mStart" /\ Active' = Active
    BY <1>0, <1>8, Alone DEF StartCalls, Outside, Seen, Holding, TypeOK, Alive, Active
  <2>2. Phase = "ready" /\ Phase' = "starting"
    BY <1>0, <2>1, OutsideNow, PhaseNext DEF PhaseOutside, PhaseInside
  <2> QED
    BY <2>1, <2>2 DEF Refined, Contract!ContractNext, Contract!StartCalled, Contract!Step
<1>9. CASE StartFails(c)
  <2>1. /\ Outside' /\ state' = "inited" /\ Alive' /\ Active' = Active
        /\ pc[c] = "mStart"
    BY <1>0, <1>9, Alone
    DEF StartFails, Outside, Seen, Holding, TypeOK, Alive, Active, IInv, LifecycleInv
  <2>2. Phase = "starting" /\ Phase' = "ready"
    BY <1>0, <2>1, InsideNow, PhaseNext DEF PhaseOutside, PhaseInside
  <2> QED
    BY <2>1, <2>2 DEF Refined, Contract!ContractNext, Contract!StartReturns, Contract!Step
<1>10. CASE StartSucceeds(c)
  <2>1. /\ Outside' /\ state' = "started" /\ jobCancel' /\ Alive'
        /\ pc[c] = "mStart" /\ state = "inited"
    BY <1>0, <1>10, Alone
    DEF StartSucceeds, StartJobs, Outside, Seen, Holding, TypeOK, Alive, IInv, LifecycleInv
  <2>2. Active' = Active
    <3>1. \A j \in Jobs : worker[j] = "none" /\ j \in Workers
      BY <2>1 DEF IInv, LifecycleInv, Workers
    <3>2. \A j \in Jobs : worker'[j] # "run"
      BY <1>10, <3>1, WatchdogAssumption DEF StartSucceeds, StartJobs, Launched
    <3> QED
      BY <3>1, <3>2 DEF Active
  <2>3. Phase = "starting" /\ Phase' = "running"
    BY <1>0, <2>1, InsideNow, PhaseNext DEF PhaseOutside, PhaseInside
  <2> QED
    BY <2>2, <2>3 DEF Refined, Contract!ContractNext, Contract!StartReturns, Contract!Step
<1>11. CASE StopNoop(c)
  <2>1. /\ Outside /\ Outside' /\ state' = "stopped" /\ Alive' /\ Active' = Active
        /\ state \in {"created", "inited", "stopped"}
    BY <1>0, <1>11, Alone
    DEF StopNoop, StopReturned, Outside, Seen, Holding, TypeOK, Alive, Active
  <2>2. Phase \in {"new", "ready", "stopped"} /\ Phase' = "stopped"
    BY <1>0, <2>1, OutsideNow, PhaseNext DEF PhaseOutside
  <2> QED
    BY <2>1, <2>2 DEF Refined, Stutter, Contract!ContractNext, Contract!StopSkipped, Contract!Step
<1>12. CASE StopCancels(c)
  <2>1. /\ Outside /\ state = "started" /\ Alive' /\ Active' = Active /\ ~Waiting
        /\ state' = "started" /\ ~jobCancel'
    <3>1. main # "drain"
      BY <1>12 DEF StopCancels, IInv, TeardownInv, NoHandler
    <3>2. ~Busy("drain")
      BY <1>12, Alone DEF StopCancels, Busy, Seen, Holding
    <3> QED
      BY <1>0, <1>12, <3>1, <3>2, Alone
      DEF StopCancels, CancelJobs, Outside, Seen, Holding, Alive, Active, Waiting
  <2>2. CASE jobCancel
    <3>1. pc'[c] = "drain" /\ Outside' /\ Waiting'
      BY <1>0, <1>12, <2>1, <2>2
      DEF StopCancels, CancelJobs, Outside, Waiting, Busy, Seen, TypeOK
    <3>2. Phase = "running" /\ Phase' = "halting"
      BY <1>0, <2>1, <2>2, <3>1, OutsideNow, PhaseNext DEF PhaseOutside
    <3> QED
      BY <2>1, <3>2 DEF Refined, Contract!ContractNext, Contract!JobsCancelled, Contract!Step
  <2>3. CASE ~jobCancel
    <3>1. pc'[c] = "mStop"
      BY <1>0, <1>12, <2>3 DEF StopCancels, TypeOK
    <3>2. Phase = "halted" /\ Phase' = "stopping"
      BY <1>0, <2>1, <2>3, <3>1, OutsideNow, PhaseNext DEF PhaseOutside, PhaseInside
    <3>3. Active = {}
      BY <3>1, <2>1 DEF IInv, DrainInv, Drained, Active, Workers
    <3> QED
      BY <2>1, <3>2, <3>3
      DEF Refined, Contract!ContractNext, Contract!StopCalled, Contract!QuietStep, Contract!Step
  <2> QED
    BY <1>0, <2>2, <2>3 DEF TypeOK, SchedulerTypeOK
<1>13. CASE StopDrained(c)
  <2>1. /\ Outside /\ Waiting /\ state = "started" /\ ~jobCancel
        /\ Alive' /\ Active' = Active /\ Active = {} /\ pc'[c] = "mStop"
    BY <1>0, <1>13, Alone
    DEF StopDrained, Drained, Workers, Outside, Waiting, Busy, Seen, Holding, TypeOK, Alive,
        Active, IInv, LifecycleInv, EngineInv
  <2>2. Phase = "halting" /\ Phase' = "stopping"
    BY <1>0, <2>1, OutsideNow, PhaseNext DEF PhaseOutside, PhaseInside
  <2> QED
    BY <2>1, <2>2
    DEF Refined, Contract!ContractNext, Contract!StopCalled, Contract!QuietStep, Contract!Step
<1>14. CASE StopFails(c)
  <2>1. /\ pc[c] = "mStop" /\ state' = "started" /\ ~jobCancel' /\ Alive' /\ Active' = Active
        /\ main' # "drain"
    BY <1>0, <1>14
    DEF StopFails, Alive, Active, IInv, LifecycleInv, EngineInv, TeardownInv, NoHandler
  <2>2. Outside' /\ ~Waiting'
    BY <1>0, <1>14, <2>1, Alone DEF StopFails, Outside, Waiting, Busy, Seen, Holding, TypeOK
  <2>3. Phase = "stopping" /\ Phase' = "halted"
    BY <1>0, <2>1, <2>2, InsideNow, PhaseNext DEF PhaseOutside, PhaseInside
  <2> QED
    BY <2>1, <2>3 DEF Refined, Contract!ContractNext, Contract!StopReturns, Contract!Step
<1>15. CASE StopSucceeds(c)
  <2>1. /\ pc[c] = "mStop" /\ state' = "stopped" /\ Alive' /\ Active' = Active /\ Outside'
    BY <1>0, <1>15, Alone
    DEF StopSucceeds, StopReturned, Outside, Seen, Holding, TypeOK, Alive, Active
  <2>2. Phase = "stopping" /\ Phase' = "stopped"
    BY <1>0, <2>1, InsideNow, PhaseNext DEF PhaseOutside, PhaseInside
  <2> QED
    BY <2>1, <2>2 DEF Refined, Contract!ContractNext, Contract!StopReturns, Contract!Step
<1> QED
  BY <1>1, <1>2, <1>3, <1>4, <1>5, <1>6, <1>7, <1>8, <1>9, <1>10, <1>11, <1>12, <1>13,
     <1>14, <1>15 DEF Handler

(* A job that runs, or is about to, does so in a phase that allows it: a   *)
(* goroutine that is alive belongs to a started module, which is running   *)
(* or has somebody waiting for it.                                         *)
LEMMA AliveMeansRunning ==
    ASSUME IInv, Alive, ~Drained
    PROVE  Phase \in {"running", "halting"}
<1>1. state = "started"
  BY DEF IInv, TypeOK, LifecycleInv, EngineInv, Drained
<1>2. Outside
  BY <1>1 DEF IInv, LifecycleInv, DrainInv, Outside, Seen
<1>3. jobCancel \/ Waiting
  BY DEF IInv, DrainInv, Waiting, Busy
<1> QED
  BY <1>1, <1>2, <1>3, OutsideNow DEF PhaseOutside

(* Entering Run is a step of the contract, and so is returning from it.    *)
LEMMA JobRefines ==
    ASSUME IInv, NEW j \in Jobs, JobProgress(j) \/ JobTimer(j)
    PROVE  Refined
<1>1. /\ Alive /\ Alive' /\ pc' = pc /\ state' = state /\ jobCtx' = jobCtx /\ main' = main
      /\ ~Drained /\ j \in Workers /\ worker \in [Workers -> WorkerStates]
  BY DEF JobProgress, JobTimer, JobFirstRun, JobRunReturns, JobTick, StepWorker, Alive,
     Drained, Workers, runtimeVars, handlerVars, serverVars, mainVars, IInv, TypeOK,
     SchedulerTypeOK
<1>2. Phase' = Phase
  <2>1. \A w \in Seen : Busy(w)' <=> Busy(w)
    BY <1>1 DEF Busy
  <2> QED
    BY <1>1, <2>1, PhaseKept
<1>3. CASE JobProgress(j) /\ JobRunReturns(j)
  <2>1. Active' = Active \ {j} /\ j \in Active
    BY <1>1, <1>3 DEF JobRunReturns, StepWorker, Active, Workers
  <2> QED
    BY <1>2, <2>1 DEF Refined, Contract!ContractNext, Contract!RunReturns
<1>4. CASE (JobProgress(j) /\ JobFirstRun(j)) \/ JobTimer(j)
  <2>1. Active' = Active \cup {j} /\ j \notin Active
    BY <1>1, <1>4 DEF JobTimer, JobTick, JobFirstRun, StepWorker, Active, Workers
  <2>2. Phase \in {"running", "halting"}
    BY <1>1, AliveMeansRunning
  <2> QED
    BY <1>2, <2>1, <2>2 DEF Refined, Contract!ContractNext, Contract!RunEntered
<1> QED
  BY <1>3, <1>4 DEF JobProgress

(* The end of a goroutine is not noticed: it was not inside Run.           *)
LEMMA WorkerEndsUnseen ==
    ASSUME IInv, NEW w \in Workers, WorkerEnds(w)
    PROVE  Stutter
<1>1. /\ Alive /\ Alive' /\ pc' = pc /\ state' = state /\ jobCtx' = jobCtx /\ main' = main
      /\ worker[w] = "wait" /\ worker' = [worker EXCEPT ![w] = "done"]
      /\ worker \in [Workers -> WorkerStates]
  BY DEF WorkerEnds, WorkerCancelled, StepWorker, Alive, runtimeVars, handlerVars,
     serverVars, mainVars, IInv, TypeOK, SchedulerTypeOK
<1>2. Active' = Active
  BY <1>1 DEF Active, Workers
<1>3. \A x \in Seen : Busy(x)' <=> Busy(x)
  BY <1>1 DEF Busy
<1> QED
  BY <1>1, <1>2, <1>3, PhaseKept DEF Stutter

(* The teardown: the jobs are cancelled and waited for before the process  *)
(* ends, unless the gRPC server failed.                                    *)
LEMMA MainRefines ==
    ASSUME IInv, IInv', Main \/ ServeFails
    PROVE  Refined
<1> USE DEF serverVars, handlerVars, mainVars, schedulerVars
<1>1. CASE TakeShutdown \/ TakeHostLost \/ TakeSignal \/ HostClosed
  <2>1. Stutter
    BY <1>1, QuietElsewhere DEF TakeShutdown, TakeHostLost, TakeSignal, HostClosed, Alive
  <2> QED
    BY <2>1 DEF Refined
<1>2. CASE GracefulStopReturns
  <2>1. CASE hostSet /\ jobCancel
    <3>1. /\ Alive /\ Alive' /\ Outside /\ Outside' /\ Active' = Active
          /\ state' = state /\ Waiting' /\ ~jobCancel'
      BY <1>2, <2>1
      DEF GracefulStopReturns, CancelJobs, NoHandler, Outside, Seen, Alive, Active, Waiting
    <3>2. state = "started"
      BY <2>1 DEF IInv, TypeOK, LifecycleInv, EngineInv
    <3>3. Phase = "running" /\ Phase' = "halting"
      BY <2>1, <3>1, <3>2, OutsideNow, PhaseNext DEF PhaseOutside
    <3> QED
      BY <3>1, <3>3 DEF Refined, Contract!ContractNext, Contract!JobsCancelled, Contract!Step
  <2>2. CASE ~(hostSet /\ jobCancel)
    <3>1. Stutter
      BY <1>2, <2>2, QuietElsewhere DEF GracefulStopReturns, CancelJobs, Alive
    <3> QED
      BY <3>1 DEF Refined
  <2> QED
    BY <2>1, <2>2
<1>3. CASE JobsDrained
  <2>1. /\ Alive /\ Alive' /\ NoHandler /\ NoHandler' /\ Active = {} /\ Active' = {}
        /\ state = "started" /\ state' = state /\ ~jobCancel /\ ~jobCancel'
        /\ main = "drain" /\ main' # "drain"
    BY <1>3
    DEF JobsDrained, Drained, Workers, Alive, Active, NoHandler, IInv, TeardownInv, EngineInv
  <2>2. Outside /\ Outside' /\ Waiting /\ ~Waiting'
    BY <2>1 DEF NoHandler, Outside, Seen, Waiting, Busy
  <2>3. Phase = "halting" /\ Phase' = "halted"
    BY <2>1, <2>2, OutsideNow, PhaseNext DEF PhaseOutside
  <2> QED
    BY <2>1, <2>3
    DEF Refined, Contract!ContractNext, Contract!JobsEnded, Contract!QuietStep, Contract!Step
<1>4. CASE ServeReturns
  <2>1. /\ Alive /\ ~Alive' /\ NoHandler /\ Active = {} /\ Active' = {}
        /\ ~jobCancel /\ main # "drain"
    BY <1>4
    DEF ServeReturns, Drained, Workers, Alive, Active, IInv, TeardownInv, EngineInv
  <2>2. Outside /\ ~Waiting
    BY <2>1 DEF NoHandler, Outside, Seen, Waiting, Busy
  <2>3. Phase \in {"new", "ready", "halted", "stopped"}
    BY <2>1, <2>2, OutsideNow DEF PhaseOutside, IInv, TypeOK
  <2>4. Phase' = "gone"
    BY <2>1 DEF Phase
  <2> QED
    BY <2>1, <2>3, <2>4
    DEF Refined, Contract!ContractNext, Contract!ProcessEnds, Contract!QuietStep, Contract!Step
<1>5. CASE ServeFails
  <2>1. Alive /\ ~Alive' /\ Active' = {}
    BY <1>5 DEF ServeFails, Alive, Active
  <2>2. Phase # "gone" /\ Phase' = "gone"
    BY <2>1 DEF Phase
  <2> QED
    BY <2>1, <2>2 DEF Refined, Contract!ContractNext, Contract!ProcessAborts
<1> QED
  BY <1>1, <1>2, <1>3, <1>4, <1>5 DEF Main

(* Every step is a step of the contract or one the module does not see.    *)
LEMMA StepRefines ==
    ASSUME IInv, IInv', [Next]_vars
    PROVE  [Contract!ContractNext]_<<Phase, Active>>
<1> USE DEF serverVars, handlerVars, mainVars, schedulerVars, runtimeVars
<1>1. CASE UNCHANGED vars \/ Terminated \/ Signal
  BY <1>1, QuietElsewhere DEF vars, Terminated, Signal, Stutter, Alive
<1>2. ASSUME NEW c \in Calls, NEW kind \in Kinds, Arrive(c, kind)
      PROVE  Stutter
  BY <1>2, QuietHandler DEF Arrive, Seen, IInv
<1>3. ASSUME NEW c \in Calls, LockMu(c) PROVE Stutter
  BY <1>3, QuietHandler DEF LockMu, Goto, Seen, IInv
<1>4. ASSUME NEW c \in Calls, HealthWatchCloses(c) PROVE Stutter
  BY <1>4, QuietHandler DEF HealthWatchCloses, At, Reply, Seen, IInv
<1>5. ASSUME NEW c \in Calls, Handler(c) PROVE Refined
  BY <1>5, HandlerRefines
<1>6. ASSUME NEW s \in Surfaces, Declare(s) PROVE Stutter
  BY <1>6, QuietElsewhere DEF Declare, Alive
<1>7. CASE Main \/ ServeFails
  BY <1>7, MainRefines DEF Refined, Stutter
<1>8. ASSUME NEW j \in Jobs, JobProgress(j) \/ JobTimer(j) PROVE Refined
  BY <1>8, JobRefines
<1>9. ASSUME NEW w \in Workers, WorkerEnds(w) PROVE Stutter
  BY <1>9, WorkerEndsUnseen
<1>10. CASE Watch \/ Link
  BY <1>10, QuietElsewhere DEF Watch, Link, Stutter, Alive
<1> QED
  BY <1>1, <1>2, <1>3, <1>4, <1>5, <1>6, <1>7, <1>8, <1>9, <1>10
  DEF Next, Refined, Stutter

(* The runtime keeps the promise ModuleContract makes to the module's      *)
(* author: one callback at a time, jobs only between Start and Stop, Stop  *)
(* only when every Run has returned.                                       *)
THEOREM ContractImplemented == Spec => ImplementsContract
<1>1. Init => Contract!ContractInit
  <2> SUFFICES ASSUME Init PROVE Contract!ContractInit
    OBVIOUS
  <2>1. Alive /\ Active = {} /\ state = "created"
    BY WatchdogAssumption DEF Init, SchedulerInit, Alive, Active, Workers
  <2>2. \A w : Busy(w) => w = "idle"
    BY DEF Init, Busy
  <2>3. Phase = "new"
    BY <2>1, <2>2 DEF Phase
  <2> QED
    BY <2>1, <2>3 DEF Contract!ContractInit
<1>2. IInv /\ IInv' /\ [Next]_vars => [Contract!ContractNext]_(Contract!contractVars)
  BY StepRefines DEF Contract!contractVars
<1> QED
  BY <1>1, <1>2, Invariance, PTL DEF Spec, ImplementsContract, Contract!ContractSpec

=============================================================================
