------------------------- MODULE ModuleRuntimeProofs -------------------------
(***************************************************************************)
(* Proofs about ModuleRuntime, for every set of RPCs in flight, jobs and   *)
(* surfaces: it is type correct, its invariant IInv is inductive, and the  *)
(* safety properties follow from it.                                       *)
(***************************************************************************)
EXTENDS ModuleRuntime, TLAPS

(* Cancelling the jobs, once or again, keeps the job engine well typed.    *)
LEMMA CancelJobsTyped ==
  ASSUME SchedulerTypeOK, CancelJobs
  PROVE  SchedulerTypeOK'
<1>1. CASE jobCancel
  BY <1>1 DEF SchedulerTypeOK, CancelJobs
<1>2. CASE ~jobCancel
  BY <1>2 DEF SchedulerTypeOK, CancelJobs
<1>3. QED
  BY <1>1, <1>2

(* No step of a handler, of the main goroutine, of a job or of the         *)
(* connection leaves the types of the state.                               *)
LEMMA TypeStep == TypeOK /\ [Next]_vars => TypeOK'
<1> SUFFICES ASSUME TypeOK, [Next]_vars PROVE TypeOK'
  OBVIOUS
<1> USE CallsAssumption, KindsAssumption
    DEF TypeOK, SchedulerTypeOK, LinkTypeOK, Workers, WorkerStates,
        LinkStates, HandlerStates, AllKinds
<1> USE DEF schedulerVars, linkVars, serverVars, handlerVars, mainVars, runtimeVars,
         Alive, At, Goto, Reply, UnlockAndReply, Stopping
<1>1. CASE UNCHANGED vars
  BY <1>1 DEF vars
<1>2. ASSUME NEW c \in Calls, NEW kind \in Kinds, Arrive(c, kind)
      PROVE  TypeOK'
  BY <1>2 DEF Arrive
<1>3. ASSUME NEW c \in Calls, LockMu(c) PROVE TypeOK'
  BY <1>3 DEF LockMu
<1>4. ASSUME NEW c \in Calls, HealthWatchCloses(c) PROVE TypeOK'
  BY <1>4 DEF HealthWatchCloses
<1>5. ASSUME NEW c \in Calls, HealthReturns(c) PROVE TypeOK'
  BY <1>5 DEF HealthReturns
<1>6. ASSUME NEW c \in Calls, InitRefused(c) PROVE TypeOK'
  BY <1>6 DEF InitRefused
<1>7. ASSUME NEW c \in Calls, InitDial(c) PROVE TypeOK'
  BY <1>7 DEF InitDial
<1>8. ASSUME NEW c \in Calls, InitFails(c) PROVE TypeOK'
  <2>1. SchedulerTypeOK' /\ LinkTypeOK'
    BY <1>8 DEF InitFails
  <2>2. surfaces' \in SUBSET Surfaces /\ pc' \in [Calls -> HandlerStates]
    BY <1>8 DEF InitFails
  <2>3. QED
    BY <1>8, <2>1, <2>2 DEF InitFails
<1>9. ASSUME NEW c \in Calls, InitSucceeds(c) PROVE TypeOK'
  BY <1>9 DEF InitSucceeds, RecordJobs
<1>10. ASSUME NEW c \in Calls, StartRefused(c) PROVE TypeOK'
  BY <1>10 DEF StartRefused
<1>11. ASSUME NEW c \in Calls, StartCalls(c) PROVE TypeOK'
  BY <1>11 DEF StartCalls
<1>12. ASSUME NEW c \in Calls, StartFails(c) PROVE TypeOK'
  BY <1>12 DEF StartFails
<1>13. ASSUME NEW c \in Calls, StartSucceeds(c) PROVE TypeOK'
  BY <1>13 DEF StartSucceeds, StartJobs, Launched
<1>14. ASSUME NEW c \in Calls, StopNoop(c) PROVE TypeOK'
  BY <1>14 DEF StopNoop, StopReturned
<1>15. ASSUME NEW c \in Calls, StopCancels(c) PROVE TypeOK'
  <2>1. SchedulerTypeOK'
    BY <1>15, CancelJobsTyped DEF StopCancels
  <2>2. pc' \in [Calls -> HandlerStates]
    <3>1. CASE jobCancel
      BY <1>15, <3>1 DEF StopCancels
    <3>2. CASE ~jobCancel
      BY <1>15, <3>2 DEF StopCancels
    <3>3. QED
      BY <3>1, <3>2
  <2>3. QED
    BY <1>15, <2>1, <2>2 DEF StopCancels
<1>16. ASSUME NEW c \in Calls, StopDrained(c) PROVE TypeOK'
  BY <1>16 DEF StopDrained
<1>17. ASSUME NEW c \in Calls, StopFails(c) PROVE TypeOK'
  BY <1>17 DEF StopFails
<1>18. ASSUME NEW c \in Calls, StopSucceeds(c) PROVE TypeOK'
  BY <1>18 DEF StopSucceeds, StopReturned
<1>19. ASSUME NEW c \in Calls, SignalShutdown(c) PROVE TypeOK'
  BY <1>19 DEF SignalShutdown
<1>20. ASSUME NEW s \in Surfaces, Declare(s) PROVE TypeOK'
  BY <1>20 DEF Declare
<1>21. CASE Signal
  BY <1>21 DEF Signal
<1>22. CASE ServeFails
  BY <1>22 DEF ServeFails
<1>23. CASE TakeShutdown
  BY <1>23 DEF TakeShutdown
<1>24. CASE TakeHostLost
  BY <1>24 DEF TakeHostLost
<1>25. CASE TakeSignal
  BY <1>25 DEF TakeSignal
<1>26. CASE GracefulStopReturns
  <2>1. SchedulerTypeOK'
    BY <1>26, CancelJobsTyped DEF GracefulStopReturns
  <2>2. main' \in {"return", "drain", "close"}
    BY <1>26 DEF GracefulStopReturns
  <2>3. QED
    BY <1>26, <2>1, <2>2 DEF GracefulStopReturns
<1>27. CASE JobsDrained
  BY <1>27 DEF JobsDrained
<1>28. CASE HostClosed
  BY <1>28 DEF HostClosed, Woken
<1>29. CASE ServeReturns
  BY <1>29 DEF ServeReturns
<1>30. ASSUME NEW j \in Jobs, JobProgress(j) PROVE TypeOK'
  BY <1>30 DEF JobProgress, JobFirstRun, JobRunReturns, StepWorker
<1>31. ASSUME NEW j \in Jobs, JobTimer(j) PROVE TypeOK'
  BY <1>31 DEF JobTimer, JobTick, StepWorker
<1>32. ASSUME NEW w \in Workers, WorkerEnds(w) PROVE TypeOK'
  BY <1>32 DEF WorkerEnds, WorkerCancelled, StepWorker
<1>33. CASE Watch
  BY <1>33 DEF Watch, AwaitDisconnect, WatchSample, WatchConnect, WatchCall, LostStates
<1>34. CASE Link
  <2>1. LinkTypeOK'
    BY <1>34 DEF Link, LinkStep, HostCall, DialSucceeds, DialFails, RedialSucceeds, LinkDrops,
                CoreDies, StepLink, Woken
  <2>2. QED
    BY <1>34, <2>1 DEF Link
<1>35. CASE Terminated
  BY <1>35 DEF Terminated, vars
<1>36. QED
  BY <1>1, <1>2, <1>3, <1>4, <1>5, <1>6, <1>7, <1>8, <1>9, <1>10, <1>11,
     <1>12, <1>13, <1>14, <1>15, <1>16, <1>17, <1>18, <1>19, <1>20, <1>21,
     <1>22, <1>23, <1>24, <1>25, <1>26, <1>27, <1>28, <1>29, <1>30, <1>31,
     <1>32, <1>33, <1>34, <1>35
     DEF Next, Handler, Main

(* A fresh process is well typed.                                          *)
LEMMA InitTyped == Init => TypeOK
<1> SUFFICES ASSUME Init PROVE TypeOK
  OBVIOUS
<1>1. SchedulerTypeOK
  <2>1. jobs \in SUBSET Jobs /\ watchdogInterval \in 0..1
    BY DEF Init, SchedulerInit
  <2>2. jobCancel \in BOOLEAN /\ started \in BOOLEAN
    BY DEF Init, SchedulerInit
  <2>3. worker \in [Workers -> WorkerStates]
    BY DEF Init, SchedulerInit, WorkerStates
  <2>4. QED
    BY <2>1, <2>2, <2>3 DEF Init, SchedulerInit, SchedulerTypeOK
<1>2. LinkTypeOK
  BY DEF Init, LinkInit, LinkTypeOK, LinkStates
<1>3. pc \in [Calls -> HandlerStates] /\ rpc \in [Calls -> AllKinds \cup {"none"}]
  BY DEF Init, HandlerStates
<1>4. mu \in Calls \cup {NoCall} /\ shutdown \in 0..1 /\ sig \in 0..1
  BY DEF Init
<1>5. QED
  BY <1>1, <1>2, <1>3, <1>4 DEF Init, TypeOK

(* The runtime is type correct.                                            *)
THEOREM TypeCorrect == Spec => []TypeOK
  BY InitTyped, TypeStep, PTL DEF Spec

-----------------------------------------------------------------------------

Consistent == HolderInv /\ LifecycleInv /\ DrainInv /\ TeardownInv /\ HostInv /\ WatchInv

(* Each step keeps lock, lifecycle state, jobs, teardown and host          *)
(* consistent.  The handler that moves holds the lock, so the others are   *)
(* elsewhere; the teardown moves when no handler is left.                  *)
LEMMA ConsistentStep == IInv /\ [Next]_vars => Consistent'
<1> SUFFICES ASSUME IInv, [Next]_vars PROVE Consistent'
  OBVIOUS
<1> USE CallsAssumption, WatchdogAssumption
    DEF IInv, Consistent, HolderInv, Holding, LifecycleInv, DrainInv,
        TeardownInv, HostInv, WatchInv, LostStates, NoHandler, Drained
<1> USE DEF TypeOK, SchedulerTypeOK, LinkTypeOK, Workers, WorkerStates,
            LinkStates, HandlerStates, AllKinds
<1> USE DEF schedulerVars, linkVars, serverVars, handlerVars, mainVars, runtimeVars,
         Alive, At, Goto, Reply, UnlockAndReply, Stopping
<1>1. CASE UNCHANGED vars
  BY <1>1 DEF vars
<1>2. ASSUME NEW c \in Calls, NEW kind \in Kinds, Arrive(c, kind)
      PROVE  Consistent'
  BY <1>2 DEF Arrive
<1>3. ASSUME NEW c \in Calls, LockMu(c) PROVE Consistent'
  BY <1>3 DEF LockMu
<1>4. ASSUME NEW c \in Calls, HealthWatchCloses(c) PROVE Consistent'
  BY <1>4 DEF HealthWatchCloses
<1>5. ASSUME NEW c \in Calls, HealthReturns(c) PROVE Consistent'
  BY <1>5 DEF HealthReturns
<1>6. ASSUME NEW c \in Calls, InitRefused(c) PROVE Consistent'
  BY <1>6 DEF InitRefused
<1>7. ASSUME NEW c \in Calls, InitDial(c) PROVE Consistent'
  BY <1>7 DEF InitDial
<1>8. ASSUME NEW c \in Calls, InitFails(c) PROVE Consistent'
  BY <1>8 DEF InitFails
<1>9. ASSUME NEW c \in Calls, InitSucceeds(c) PROVE Consistent'
  BY <1>9 DEF InitSucceeds, RecordJobs
<1>10. ASSUME NEW c \in Calls, StartRefused(c) PROVE Consistent'
  BY <1>10 DEF StartRefused
<1>11. ASSUME NEW c \in Calls, StartCalls(c) PROVE Consistent'
  BY <1>11 DEF StartCalls
<1>12. ASSUME NEW c \in Calls, StartFails(c) PROVE Consistent'
  BY <1>12 DEF StartFails
<1>13. ASSUME NEW c \in Calls, StartSucceeds(c) PROVE Consistent'
  BY <1>13 DEF StartSucceeds, StartJobs, Launched
<1>14. ASSUME NEW c \in Calls, StopNoop(c) PROVE Consistent'
  BY <1>14 DEF StopNoop, StopReturned
<1>15. ASSUME NEW c \in Calls, StopCancels(c) PROVE Consistent'
  BY <1>15 DEF StopCancels, CancelJobs
<1>16. ASSUME NEW c \in Calls, StopDrained(c) PROVE Consistent'
  BY <1>16 DEF StopDrained
<1>17. ASSUME NEW c \in Calls, StopFails(c) PROVE Consistent'
  BY <1>17 DEF StopFails
<1>18. ASSUME NEW c \in Calls, StopSucceeds(c) PROVE Consistent'
  BY <1>18 DEF StopSucceeds, StopReturned
<1>19. ASSUME NEW c \in Calls, SignalShutdown(c) PROVE Consistent'
  BY <1>19 DEF SignalShutdown
<1>20. ASSUME NEW s \in Surfaces, Declare(s) PROVE Consistent'
  BY <1>20 DEF Declare
<1>21. CASE Signal
  BY <1>21 DEF Signal
<1>22. CASE ServeFails
  BY <1>22 DEF ServeFails
<1>23. CASE TakeShutdown
  BY <1>23 DEF TakeShutdown
<1>24. CASE TakeHostLost
  BY <1>24 DEF TakeHostLost
<1>25. CASE TakeSignal
  BY <1>25 DEF TakeSignal
<1>26. CASE GracefulStopReturns
  BY <1>26 DEF GracefulStopReturns, CancelJobs
<1>27. CASE JobsDrained
  BY <1>27 DEF JobsDrained
<1>28. CASE HostClosed
  BY <1>28 DEF HostClosed, Woken
<1>29. CASE ServeReturns
  BY <1>29 DEF ServeReturns
<1>30. ASSUME NEW j \in Jobs, JobProgress(j) PROVE Consistent'
  BY <1>30 DEF JobProgress, JobFirstRun, JobRunReturns, StepWorker
<1>31. ASSUME NEW j \in Jobs, JobTimer(j) PROVE Consistent'
  BY <1>31 DEF JobTimer, JobTick, StepWorker
<1>32. ASSUME NEW w \in Workers, WorkerEnds(w) PROVE Consistent'
  BY <1>32 DEF WorkerEnds, WorkerCancelled, StepWorker
<1>33. CASE Watch
  BY <1>33 DEF Watch, AwaitDisconnect, WatchSample, WatchConnect, WatchCall, LostStates
<1>34. CASE Link
  BY <1>34 DEF Link, LinkStep, HostCall, DialSucceeds, DialFails, RedialSucceeds, LinkDrops, CoreDies, StepLink, Woken
<1>35. CASE Terminated
  BY <1>35 DEF Terminated, vars
<1>36. QED
  BY <1>1, <1>2, <1>3, <1>4, <1>5, <1>6, <1>7, <1>8, <1>9, <1>10, <1>11,
     <1>12, <1>13, <1>14, <1>15, <1>16, <1>17, <1>18, <1>19, <1>20, <1>21,
     <1>22, <1>23, <1>24, <1>25, <1>26, <1>27, <1>28, <1>29, <1>30, <1>31,
     <1>32, <1>33, <1>34, <1>35
     DEF Next, Handler, Main

(* Each step keeps the job context, its cancel function and those who wait *)
(* for the jobs in agreement.                                              *)
LEMMA EngineStep == IInv /\ [Next]_vars => EngineInv'
<1> SUFFICES ASSUME IInv, [Next]_vars PROVE EngineInv'
  OBVIOUS
<1> USE CallsAssumption, WatchdogAssumption
    DEF IInv, EngineInv, HolderInv, Holding, LifecycleInv, DrainInv,
        TeardownInv, NoHandler, Drained
<1> USE DEF TypeOK, SchedulerTypeOK, LinkTypeOK, Workers, WorkerStates,
            LinkStates, HandlerStates, AllKinds
<1> USE DEF schedulerVars, linkVars, serverVars, handlerVars, mainVars, runtimeVars,
         Alive, At, Goto, Reply, UnlockAndReply, Stopping
<1>1. CASE UNCHANGED vars
  BY <1>1 DEF vars
<1>2. ASSUME NEW c \in Calls, NEW kind \in Kinds, Arrive(c, kind)
      PROVE  EngineInv'
  BY <1>2 DEF Arrive
<1>3. ASSUME NEW c \in Calls, LockMu(c) PROVE EngineInv'
  BY <1>3 DEF LockMu
<1>4. ASSUME NEW c \in Calls, HealthWatchCloses(c) PROVE EngineInv'
  BY <1>4 DEF HealthWatchCloses
<1>5. ASSUME NEW c \in Calls, HealthReturns(c) PROVE EngineInv'
  BY <1>5 DEF HealthReturns
<1>6. ASSUME NEW c \in Calls, InitRefused(c) PROVE EngineInv'
  BY <1>6 DEF InitRefused
<1>7. ASSUME NEW c \in Calls, InitDial(c) PROVE EngineInv'
  BY <1>7 DEF InitDial
<1>8. ASSUME NEW c \in Calls, InitFails(c) PROVE EngineInv'
  BY <1>8 DEF InitFails
<1>9. ASSUME NEW c \in Calls, InitSucceeds(c) PROVE EngineInv'
  BY <1>9 DEF InitSucceeds, RecordJobs
<1>10. ASSUME NEW c \in Calls, StartRefused(c) PROVE EngineInv'
  BY <1>10 DEF StartRefused
<1>11. ASSUME NEW c \in Calls, StartCalls(c) PROVE EngineInv'
  BY <1>11 DEF StartCalls
<1>12. ASSUME NEW c \in Calls, StartFails(c) PROVE EngineInv'
  BY <1>12 DEF StartFails
<1>13. ASSUME NEW c \in Calls, StartSucceeds(c) PROVE EngineInv'
  BY <1>13 DEF StartSucceeds, StartJobs, Launched
<1>14. ASSUME NEW c \in Calls, StopNoop(c) PROVE EngineInv'
  BY <1>14 DEF StopNoop, StopReturned
<1>15. ASSUME NEW c \in Calls, StopCancels(c) PROVE EngineInv'
  BY <1>15 DEF StopCancels, CancelJobs
<1>16. ASSUME NEW c \in Calls, StopDrained(c) PROVE EngineInv'
  BY <1>16 DEF StopDrained
<1>17. ASSUME NEW c \in Calls, StopFails(c) PROVE EngineInv'
  BY <1>17 DEF StopFails
<1>18. ASSUME NEW c \in Calls, StopSucceeds(c) PROVE EngineInv'
  BY <1>18 DEF StopSucceeds, StopReturned
<1>19. ASSUME NEW c \in Calls, SignalShutdown(c) PROVE EngineInv'
  BY <1>19 DEF SignalShutdown
<1>20. ASSUME NEW s \in Surfaces, Declare(s) PROVE EngineInv'
  BY <1>20 DEF Declare
<1>21. CASE Signal
  BY <1>21 DEF Signal
<1>22. CASE ServeFails
  BY <1>22 DEF ServeFails
<1>23. CASE TakeShutdown
  BY <1>23 DEF TakeShutdown
<1>24. CASE TakeHostLost
  BY <1>24 DEF TakeHostLost
<1>25. CASE TakeSignal
  BY <1>25 DEF TakeSignal
<1>26. CASE GracefulStopReturns
  BY <1>26 DEF GracefulStopReturns, CancelJobs
<1>27. CASE JobsDrained
  BY <1>27 DEF JobsDrained
<1>28. CASE HostClosed
  BY <1>28 DEF HostClosed, Woken
<1>29. CASE ServeReturns
  BY <1>29 DEF ServeReturns
<1>30. ASSUME NEW j \in Jobs, JobProgress(j) PROVE EngineInv'
  BY <1>30 DEF JobProgress, JobFirstRun, JobRunReturns, StepWorker
<1>31. ASSUME NEW j \in Jobs, JobTimer(j) PROVE EngineInv'
  BY <1>31 DEF JobTimer, JobTick, StepWorker
<1>32. ASSUME NEW w \in Workers, WorkerEnds(w) PROVE EngineInv'
  BY <1>32 DEF WorkerEnds, WorkerCancelled, StepWorker
<1>33. CASE Watch
  BY <1>33 DEF Watch, AwaitDisconnect, WatchSample, WatchConnect, WatchCall, LostStates
<1>34. CASE Link
  BY <1>34 DEF Link, LinkStep, HostCall, DialSucceeds, DialFails, RedialSucceeds, LinkDrops, CoreDies, StepLink, Woken
<1>35. CASE Terminated
  BY <1>35 DEF Terminated, vars
<1>36. QED
  BY <1>1, <1>2, <1>3, <1>4, <1>5, <1>6, <1>7, <1>8, <1>9, <1>10, <1>11,
     <1>12, <1>13, <1>14, <1>15, <1>16, <1>17, <1>18, <1>19, <1>20, <1>21,
     <1>22, <1>23, <1>24, <1>25, <1>26, <1>27, <1>28, <1>29, <1>30, <1>31,
     <1>32, <1>33, <1>34, <1>35
     DEF Next, Handler, Main

(* IInv is an invariant of the runtime.                                    *)
THEOREM Invariance == Spec => []IInv
<1>1. Init => IInv
  <2>1. Init => Consistent
    BY DEF Init, SchedulerInit, LinkInit, Consistent, HolderInv, Holding,
           LifecycleInv, DrainInv, TeardownInv, HostInv,
           WatchInv, LostStates, NoHandler, Drained, Workers
  <2>2. Init => EngineInv
    BY DEF Init, SchedulerInit, EngineInv
  <2>3. QED
    BY <2>1, <2>2, InitTyped DEF IInv, Consistent
<1>2. IInv /\ [Next]_vars => IInv'
  BY TypeStep, ConsistentStep, EngineStep DEF IInv, Consistent
<1>3. QED
  BY <1>1, <1>2, PTL DEF Spec

-----------------------------------------------------------------------------
(* The properties.                                                         *)

(* m.Stop never overlaps a job: stopLocked waits in stopJobs for every     *)
(* goroutine, and a Stop that has nothing to cancel finds none alive.      *)
THEOREM StopAloneAlways == Spec => []StopSeesNoJob
<1>1. IInv => StopSeesNoJob
  BY DEF IInv, DrainInv, StopSeesNoJob
<1>2. QED
  BY <1>1, Invariance, PTL

(* At most one RPC is inside the module, and none once serve drains jobs.  *)
THEOREM CallbacksExcludeAlways == Spec => []CallbacksExclude
<1>1. IInv => CallbacksExclude
  BY CallsAssumption DEF IInv, TypeOK, HolderInv, Holding, TeardownInv,
     NoHandler, InModule, CallbacksExclude
<1>2. QED
  BY <1>1, Invariance, PTL

(* Exit code 0 means: every RPC answered, every job goroutine returned,    *)
(* the connection to core closed.                                          *)
THEOREM CleanExitAlways == Spec => []CleanExit
<1>1. IInv => CleanExit
  BY DEF IInv, TeardownInv, CleanExit
<1>2. QED
  BY <1>1, Invariance, PTL

(* Start and Stop never use a host that is not there.                      *)
THEOREM HostPresentAlways == Spec => []HostPresent
<1>1. IInv => HostPresent
  BY DEF IInv, LifecycleInv, HostPresent
<1>2. QED
  BY <1>1, Invariance, PTL

(* A failed Init leaves nothing behind for the next one.                   *)
THEOREM InitRetryableAlways == Spec => []InitRetryable
<1>1. IInv => InitRetryable
  BY CallsAssumption DEF IInv, TypeOK, HolderInv, Holding, LifecycleInv,
     HostInv, InitRetryable
<1>2. QED
  BY <1>1, Invariance, PTL

(* awaitDisconnect does not sleep through a failure of the connection, and *)
(* what it reports reaches a main goroutine that still serves.             *)
THEOREM LossNotMissedAlways == Spec => []LossNotMissed
<1>1. IInv => LossNotMissed
  BY DEF IInv, TypeOK, LinkTypeOK, WatchInv, LostStates, LossNotMissed
<1>2. QED
  BY <1>1, Invariance, PTL

=============================================================================
