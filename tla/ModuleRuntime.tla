---------------------------- MODULE ModuleRuntime ----------------------------
(***************************************************************************)
(* The process of a running module, from the moment its handshake line is  *)
(* printed: the lifecycle server that adapts core's RPCs onto the Module   *)
(* interface (modulesdk/lifecycle.go), the main goroutine that waits for a *)
(* reason to exit and tears the process down (modulesdk/serve.go), the     *)
(* surfaces a module declares, the job engine (JobScheduler) and the       *)
(* connection to core (HostLink).                                          *)
(*                                                                         *)
(* Core may have several RPCs in flight.  Each is a handler goroutine that *)
(* contends for moduleServer.mu; a handler slot is free again after its    *)
(* reply, so a behaviour may hold any number of RPCs one after the other.  *)
(* A handler that calls into the module (m.Init, m.Start, m.Stop) stays in *)
(* that state until the callback returns, with or without an error, and    *)
(* everything else keeps moving meanwhile.                                 *)
(***************************************************************************)
EXTENDS JobScheduler, HostLink, FiniteSets

CONSTANTS
    Calls,       \* the RPCs that can be in flight at once (bound)
    NoCall,      \* nobody: the lock is free
    Kinds,       \* the RPCs core and its tooling make
    Surfaces     \* the surfaces the module may declare

AllKinds == {"Init", "Start", "Stop", "Shutdown", "Health", "HealthWatch"}

ASSUME CallsAssumption == NoCall \notin Calls
ASSUME KindsAssumption == Kinds \subseteq AllKinds

VARIABLES
    state,       \* moduleServer.state
    hostSet,     \* moduleServer.host is non-nil
    surfaces,    \* hostClient.surfaces: what Declare accepted
    announced,   \* the surfaces of the Init response
    mu,          \* the holder of moduleServer.mu
    pc,          \* where each handler is
    rpc,         \* the RPC each handler serves
    shutdown,    \* messages in moduleServer.shutdown, a channel of capacity 1
    sig,         \* messages in serve's signal channel, of capacity 1
    main,        \* where the main goroutine is in serve
    exit         \* how the process ended

serverVars  == <<state, hostSet, surfaces, announced>>
handlerVars == <<mu, pc, rpc>>
mainVars    == <<shutdown, sig, main, exit>>
runtimeVars == <<serverVars, handlerVars, mainVars>>
vars        == <<schedulerVars, linkVars, runtimeVars>>

HandlerStates ==
    {"idle", "wait", "locked", "mInit", "mStart", "drain", "mStop", "signal",
     "health", "streaming"}

TypeOK ==
    /\ SchedulerTypeOK
    /\ LinkTypeOK
    /\ state \in {"created", "inited", "started", "stopped"}
    /\ hostSet \in BOOLEAN
    /\ surfaces \in SUBSET Surfaces
    /\ announced \in SUBSET Surfaces
    /\ mu \in Calls \cup {NoCall}
    /\ pc \in [Calls -> HandlerStates]
    /\ rpc \in [Calls -> AllKinds \cup {"none"}]
    /\ shutdown \in 0..1
    /\ sig \in 0..1
    /\ main \in {"select", "graceful", "drain", "close", "return", "exited"}
    /\ exit \in {"none", "ok", "err"}

Init ==
    /\ SchedulerInit
    /\ LinkInit
    /\ state = "created"
    /\ hostSet = FALSE
    /\ surfaces = {}
    /\ announced = {}
    /\ mu = NoCall
    /\ pc = [c \in Calls |-> "idle"]
    /\ rpc = [c \in Calls |-> "none"]
    /\ shutdown = 0
    /\ sig = 0
    /\ main = "select"
    /\ exit = "none"

Alive == main # "exited"

-----------------------------------------------------------------------------
(* Handlers: arrival, lock, reply.                                         *)

At(c, kinds, where) == Alive /\ rpc[c] \in kinds /\ pc[c] = where

Goto(c, where) == pc' = [pc EXCEPT ![c] = where] /\ UNCHANGED rpc

Reply(c) ==
    /\ pc' = [pc EXCEPT ![c] = "idle"]
    /\ rpc' = [rpc EXCEPT ![c] = "none"]

UnlockAndReply(c) == mu' = NoCall /\ Reply(c)

(* The server accepts RPCs until GracefulStop.  Health and the gRPC health *)
(* stream do not take the lock.                                            *)
Arrive(c, kind) ==
    /\ main = "select"
    /\ coreUp
    /\ pc[c] = "idle"
    /\ rpc' = [rpc EXCEPT ![c] = kind]
    /\ pc' = [pc EXCEPT ![c] = CASE kind = "Health"      -> "health"
                                 [] kind = "HealthWatch" -> "streaming"
                                 [] OTHER                -> "wait"]
    /\ UNCHANGED <<schedulerVars, linkVars, serverVars, mainVars, mu>>

LockMuUnguarded(c) ==
    /\ Alive
    /\ pc[c] = "wait"
    /\ mu' = c
    /\ Goto(c, "locked")
    /\ UNCHANGED <<schedulerVars, linkVars, serverVars, mainVars>>

LockMu(c) ==
    /\ Alive
    /\ pc[c] = "wait"
    /\ mu = NoCall
    /\ mu' = c
    /\ Goto(c, "locked")
    /\ UNCHANGED <<schedulerVars, linkVars, serverVars, mainVars>>

HealthReturns(c) ==
    /\ At(c, {"Health"}, "health")
    /\ Reply(c)
    /\ UNCHANGED <<schedulerVars, linkVars, serverVars, mainVars, mu>>

(* The health stream lasts until its client hangs up. *)
HealthWatchCloses(c) ==
    /\ At(c, {"HealthWatch"}, "streaming")
    /\ Reply(c)
    /\ UNCHANGED <<schedulerVars, linkVars, serverVars, mainVars, mu>>

-----------------------------------------------------------------------------
(* Init.                                                                   *)

(* Everything that answers Init with an error before m.Init is called: a   *)
(* second Init, or in any state an identity, a protocol, a config or a     *)
(* host address that is refused.                                           *)
InitRefused(c) ==
    /\ At(c, {"Init"}, "locked")
    /\ UnlockAndReply(c)
    /\ UNCHANGED <<schedulerVars, linkVars, serverVars, mainVars>>

(* The mutant marks the module initialised before it calls m.Init. *)
InitDialEarlyState(c) ==
    /\ At(c, {"Init"}, "locked")
    /\ state = "created"
    /\ state' = "inited"
    /\ hostSet' = TRUE
    /\ surfaces' = {}
    /\ link' = "idle"
    /\ Goto(c, "mInit")
    /\ UNCHANGED <<schedulerVars, coreUp, watcher, seen, hostLost,
                   announced, mu, mainVars>>

(* SetConfig accepted, host dialled (a fresh hostClient), m.Init entered. *)
InitDial(c) ==
    /\ At(c, {"Init"}, "locked")
    /\ state = "created"
    /\ hostSet' = TRUE
    /\ surfaces' = {}
    /\ link' = "idle"
    /\ Goto(c, "mInit")
    /\ UNCHANGED <<schedulerVars, coreUp, watcher, seen, hostLost,
                   state, announced, mu, mainVars>>

InitFailsKeepsHost(c) ==
    /\ At(c, {"Init"}, "mInit")
    /\ surfaces' = {}
    /\ link' = "none"
    /\ UnlockAndReply(c)
    /\ UNCHANGED <<schedulerVars, coreUp, watcher, seen, hostLost,
                   state, hostSet, announced, mainVars>>

(* m.Init failed: the host connection is closed and forgotten. *)
InitFails(c) ==
    /\ At(c, {"Init"}, "mInit")
    /\ hostSet' = FALSE
    /\ surfaces' = {}
    /\ link' = "none"
    /\ UnlockAndReply(c)
    /\ UNCHANGED <<schedulerVars, coreUp, watcher, seen, hostLost,
                   state, announced, mainVars>>

(* m.Init succeeded: the jobs and the watchdog cadence are recorded, the   *)
(* watch on the connection begins, and the response carries the surfaces   *)
(* declared so far.                                                        *)
InitSucceeds(c) ==
    /\ At(c, {"Init"}, "mInit")
    /\ state' = "inited"
    /\ \E declared \in SUBSET Jobs, interval \in 0..1 :
          RecordJobs(declared, interval)
    /\ watcher' = "sample"
    /\ announced' = surfaces
    /\ UnlockAndReply(c)
    /\ UNCHANGED <<coreUp, link, seen, hostLost, hostSet, surfaces, mainVars>>

(* UIBroker.Declare, called by the module's own code at any time after it  *)
(* was handed the host.  Once the jobs started it is refused, which        *)
(* changes nothing.                                                        *)
Declare(s) ==
    /\ Alive
    /\ hostSet
    /\ ~started
    /\ s \notin surfaces
    /\ surfaces' = surfaces \cup {s}
    /\ UNCHANGED <<schedulerVars, linkVars, state, hostSet, announced,
                   handlerVars, mainVars>>

-----------------------------------------------------------------------------
(* Start.                                                                  *)

StartRefused(c) ==
    /\ At(c, {"Start"}, "locked")
    /\ state # "inited"
    /\ UnlockAndReply(c)
    /\ UNCHANGED <<schedulerVars, linkVars, serverVars, mainVars>>

StartCallsRestartable(c) ==
    /\ At(c, {"Start"}, "locked")
    /\ state \in {"inited", "stopped"}
    /\ Goto(c, "mStart")
    /\ UNCHANGED <<schedulerVars, linkVars, serverVars, mainVars, mu>>

StartCalls(c) ==
    /\ At(c, {"Start"}, "locked")
    /\ state = "inited"
    /\ Goto(c, "mStart")
    /\ UNCHANGED <<schedulerVars, linkVars, serverVars, mainVars, mu>>

StartFails(c) ==
    /\ At(c, {"Start"}, "mStart")
    /\ UnlockAndReply(c)
    /\ UNCHANGED <<schedulerVars, linkVars, serverVars, mainVars>>

StartSucceeds(c) ==
    /\ At(c, {"Start"}, "mStart")
    /\ StartJobs
    /\ state' = "started"
    /\ UnlockAndReply(c)
    /\ UNCHANGED <<linkVars, hostSet, surfaces, announced, mainVars>>

-----------------------------------------------------------------------------
(* Stop and Shutdown, which share stopLocked.                              *)

Stopping == {"Stop", "Shutdown"}

(* stopLocked returned no error: Stop replies, Shutdown goes on without    *)
(* the lock.                                                               *)
StopReturned(c) ==
    /\ mu' = NoCall
    /\ IF rpc[c] = "Shutdown" THEN Goto(c, "signal") ELSE Reply(c)

(* A module that was not started, or was stopped already. *)
StopNoop(c) ==
    /\ At(c, Stopping, "locked")
    /\ state # "started"
    /\ state' = "stopped"
    /\ StopReturned(c)
    /\ UNCHANGED <<schedulerVars, linkVars, hostSet, surfaces, announced, mainVars>>

StopCancelsWithoutWait(c) ==
    /\ At(c, Stopping, "locked")
    /\ state = "started"
    /\ CancelJobs
    /\ Goto(c, "mStop")
    /\ UNCHANGED <<linkVars, serverVars, mainVars, mu>>

(* stopJobs.  A Stop that follows a failed one finds nothing to cancel and *)
(* does not wait.                                                          *)
StopCancels(c) ==
    /\ At(c, Stopping, "locked")
    /\ state = "started"
    /\ CancelJobs
    /\ Goto(c, IF jobCancel THEN "drain" ELSE "mStop")
    /\ UNCHANGED <<linkVars, serverVars, mainVars, mu>>

StopDrained(c) ==
    /\ At(c, Stopping, "drain")
    /\ Drained
    /\ Goto(c, "mStop")
    /\ UNCHANGED <<schedulerVars, linkVars, serverVars, mainVars, mu>>

StopFailsKeepsLock(c) ==
    /\ At(c, Stopping, "mStop")
    /\ Reply(c)
    /\ UNCHANGED <<schedulerVars, linkVars, serverVars, mainVars, mu>>

(* m.Stop failed: the state stays started, and so Stop may be tried again. *)
StopFails(c) ==
    /\ At(c, Stopping, "mStop")
    /\ UnlockAndReply(c)
    /\ UNCHANGED <<schedulerVars, linkVars, serverVars, mainVars>>

StopSucceeds(c) ==
    /\ At(c, Stopping, "mStop")
    /\ state' = "stopped"
    /\ StopReturned(c)
    /\ UNCHANGED <<schedulerVars, linkVars, hostSet, surfaces, announced, mainVars>>

SignalShutdownUnbuffered(c) ==
    /\ At(c, {"Shutdown"}, "signal")
    /\ shutdown' = shutdown + 1
    /\ Reply(c)
    /\ UNCHANGED <<schedulerVars, linkVars, serverVars, mu, sig, main, exit>>

(* The send on the shutdown channel never blocks: a full one is enough. *)
SignalShutdown(c) ==
    /\ At(c, {"Shutdown"}, "signal")
    /\ shutdown' = 1
    /\ Reply(c)
    /\ UNCHANGED <<schedulerVars, linkVars, serverVars, mu, sig, main, exit>>

-----------------------------------------------------------------------------
(* The main goroutine.                                                     *)

(* SIGTERM or an interrupt, while somebody still reads the channel. *)
Signal ==
    /\ main = "select"
    /\ sig = 0
    /\ sig' = 1
    /\ UNCHANGED <<schedulerVars, linkVars, serverVars, handlerVars,
                   shutdown, main, exit>>

(* The select of serve: GracefulStop follows whatever woke it up. *)
TakeShutdown ==
    /\ main = "select"
    /\ shutdown = 1
    /\ shutdown' = 0
    /\ main' = "graceful"
    /\ UNCHANGED <<schedulerVars, linkVars, serverVars, handlerVars, sig, exit>>

TakeHostLost ==
    /\ main = "select"
    /\ hostLost = 1
    /\ hostLost' = 0
    /\ main' = "graceful"
    /\ UNCHANGED <<schedulerVars, coreUp, link, watcher, seen, serverVars,
                   handlerVars, shutdown, sig, exit>>

TakeSignal ==
    /\ main = "select"
    /\ sig = 1
    /\ sig' = 0
    /\ main' = "graceful"
    /\ UNCHANGED <<schedulerVars, linkVars, serverVars, handlerVars, shutdown, exit>>

(* grpcServer.Serve failed: the process exits without any teardown. *)
ServeFails ==
    /\ main = "select"
    /\ main' = "exited"
    /\ exit' = "err"
    /\ UNCHANGED <<schedulerVars, linkVars, serverVars, handlerVars, shutdown, sig>>

NoHandler == \A c \in Calls : pc[c] = "idle"

GracefulStopReturnsNoStop ==
    /\ main = "graceful"
    /\ NoHandler
    /\ mu = NoCall
    /\ main' = IF hostSet THEN "close" ELSE "return"
    /\ UNCHANGED <<schedulerVars, linkVars, serverVars, handlerVars, shutdown, sig, exit>>

(* GracefulStop returned, so no handler is left, and getHost takes the     *)
(* lock for a moment.  With a host the jobs are cancelled; there is        *)
(* nothing to wait for if Stop did that before.                            *)
GracefulStopReturns ==
    /\ main = "graceful"
    /\ NoHandler
    /\ mu = NoCall
    /\ \/ /\ ~hostSet
          /\ main' = "return"
          /\ UNCHANGED schedulerVars
       \/ /\ hostSet
          /\ CancelJobs
          /\ main' = IF jobCancel THEN "drain" ELSE "close"
    /\ UNCHANGED <<linkVars, serverVars, handlerVars, shutdown, sig, exit>>

JobsDrained ==
    /\ main = "drain"
    /\ Drained
    /\ main' = "close"
    /\ UNCHANGED <<schedulerVars, linkVars, serverVars, handlerVars, shutdown, sig, exit>>

HostClosed ==
    /\ main = "close"
    /\ link' = "shutdown"
    /\ watcher' = Woken
    /\ main' = "return"
    /\ UNCHANGED <<schedulerVars, coreUp, seen, hostLost, serverVars,
                   handlerVars, shutdown, sig, exit>>

ServeReturns ==
    /\ main = "return"
    /\ main' = "exited"
    /\ exit' = "ok"
    /\ UNCHANGED <<schedulerVars, linkVars, serverVars, handlerVars, shutdown, sig>>

-----------------------------------------------------------------------------
(* The job engine and the connection, inside a live process.               *)

JobProgress(j) ==
    /\ Alive
    /\ JobFirstRun(j) \/ JobRunReturns(j)
    /\ UNCHANGED <<linkVars, runtimeVars>>

JobTimer(j) ==
    /\ Alive
    /\ JobTick(j)
    /\ UNCHANGED <<linkVars, runtimeVars>>

WorkerEnds(w) ==
    /\ Alive
    /\ WorkerCancelled(w)
    /\ UNCHANGED <<linkVars, runtimeVars>>

Watch ==
    /\ Alive
    /\ AwaitDisconnect
    /\ UNCHANGED <<schedulerVars, runtimeVars>>

Link ==
    /\ Alive
    /\ LinkStep
    /\ UNCHANGED <<schedulerVars, runtimeVars>>

(* The process has ended. *)
Terminated == ~Alive /\ UNCHANGED vars

Handler(c) ==
    \/ HealthReturns(c)
    \/ InitRefused(c) \/ InitDial(c) \/ InitFails(c) \/ InitSucceeds(c)
    \/ StartRefused(c) \/ StartCalls(c) \/ StartFails(c) \/ StartSucceeds(c)
    \/ StopNoop(c) \/ StopCancels(c) \/ StopDrained(c)
    \/ StopFails(c) \/ StopSucceeds(c) \/ SignalShutdown(c)

Main ==
    \/ TakeShutdown \/ TakeHostLost \/ TakeSignal
    \/ GracefulStopReturns \/ JobsDrained \/ HostClosed \/ ServeReturns

Next ==
    \/ \E c \in Calls, kind \in Kinds : Arrive(c, kind)
    \/ \E c \in Calls : LockMu(c) \/ Handler(c) \/ HealthWatchCloses(c)
    \/ \E s \in Surfaces : Declare(s)
    \/ Signal
    \/ ServeFails
    \/ Main
    \/ \E j \in Jobs : JobProgress(j) \/ JobTimer(j)
    \/ \E w \in Workers : WorkerEnds(w)
    \/ Watch
    \/ Link
    \/ Terminated

Spec == Init /\ [][Next]_vars

-----------------------------------------------------------------------------
(* Safety.                                                                 *)

(* While m.Stop executes, no job goroutine is alive: none is inside Run,   *)
(* none is about to enter it, and none waits on a timer that may fire.     *)
(* stopLocked calls stopJobs, which waits, before it calls m.Stop.         *)
StopSeesNoJob == \A c \in Calls : pc[c] = "mStop" => Drained

(* Concurrent RPCs never overlap inside the module: of all handlers one at *)
(* most is in m.Init, m.Start, m.Stop or the job drain before it, and the  *)
(* teardown of serve drains jobs only when no handler is left to.          *)
InModule == {"mInit", "mStart", "drain", "mStop"}

CallbacksExclude ==
    \A c, d \in Calls :
       pc[c] \in InModule => /\ pc[d] \in InModule => c = d
                             /\ main \in {"select", "graceful", "exited"}

(* A process that exits with code 0 has answered every RPC, has let every  *)
(* job goroutine return and has closed the connection it opened.           *)
CleanExit ==
    exit = "ok" => /\ NoHandler
                   /\ Drained
                   /\ hostSet => link = "shutdown"

(* An Init that failed leaves nothing behind: once the lock is free again, *)
(* a module that is still "created" has no host, no connection, no job, no *)
(* surface and no watcher, so the next Init starts from the same place.    *)
InitRetryable ==
    (state = "created" /\ mu = NoCall) =>
        /\ ~hostSet /\ link = "none" /\ watcher = "off"
        /\ jobs = {} /\ surfaces = {}

(* Start and Stop use moduleServer.host without a nil check: a module that *)
(* is inited or started has one, whatever Inits failed before.             *)
HostPresent ==
    /\ state \in {"inited", "started"} => hostSet
    /\ hostSet <=> link # "none"

(* A connection that failed under a watched, serving module is either yet  *)
(* to be looked at by awaitDisconnect, or its loss is waiting for the main *)
(* goroutine: a failure between GetState and WaitForStateChange is not     *)
(* slept through, and a report is not lost in the channel.                 *)
LossNotMissed ==
    main = "select" /\ link = "failure" /\ watcher # "off" =>
        watcher \in {"sample", "connect", "call"} \/ hostLost = 1

(* "only a genuine loss (core exited) -- not a transient blip -- triggers  *)
(* the callback" (awaitDisconnect), unless the module itself is closing    *)
(* the connection on its way out.  Not kept: one dial that fails is        *)
(* reported, whatever became of core.                                      *)
HostLostMeansCoreGone ==
    hostLost = 1 => ~coreUp \/ main \in {"return", "exited"}

(* Every surface the module was allowed to declare is in the response to   *)
(* Init: UIBroker says surfaces "are declared during Init and carried in   *)
(* the Init response; declaring later is not yet supported".               *)
AcceptedSurfacesAnnounced ==
    state \in {"inited", "started"} => surfaces \subseteq announced

(* The inductive invariant: what makes the properties above hold from one  *)
(* step to the next.                                                       *)

Holding == {"locked", "mInit", "mStart", "drain", "mStop"}

(* A handler between lock and unlock is the holder of the lock. *)
HolderInv == \A c \in Calls : pc[c] \in Holding => mu = c

(* A handler inside the module is there in the one state its RPC allows,   *)
(* with a host; goroutines exist only for a module that was started.       *)
LifecycleInv ==
    /\ \A c \in Calls :
         /\ pc[c] = "mInit" => (state = "created" /\ hostSet)
         /\ pc[c] = "mStart" => state = "inited"
         /\ pc[c] \in {"drain", "mStop"} => state = "started"
    /\ state \in {"inited", "started"} => hostSet
    /\ hostSet <=> (link # "none")
    /\ (state \in {"created", "inited"} \/ ~hostSet) =>
          (~jobCancel /\ \A w \in Workers : worker[w] = "none")

(* stopJobs was called and did not return yet, or nothing is left of the   *)
(* jobs, once the cancel function is gone.                                 *)
DrainInv ==
    /\ \A c \in Calls : pc[c] = "mStop" => Drained
    /\ (jobCancel \/ Drained \/ main = "drain" \/ \E c \in Calls : pc[c] = "drain")

(* Past GracefulStop there is no handler; each later step of the teardown  *)
(* finds the work of those before it done.                                 *)
TeardownInv ==
    /\ (main \in {"drain", "close", "return"} \/ exit = "ok") => NoHandler
    /\ main \in {"drain", "close"} => hostSet
    /\ (main \in {"close", "return"} \/ exit = "ok") => Drained
    /\ ((main = "return" \/ exit = "ok") /\ hostSet) => link = "shutdown"
    /\ exit # "none" => main = "exited"

(* A host exists before a successful Init only while m.Init executes, and  *)
(* what belongs to the host goes with it.  The connection is closed only   *)
(* on the way out.                                                         *)
HostInv ==
    /\ state = "created" => (watcher = "off" /\ jobs = {})
    /\ (state = "created" /\ hostSet) => \E c \in Calls : pc[c] = "mInit"
    /\ ~hostSet => surfaces = {}
    /\ link = "shutdown" => main \in {"return", "exited"}

(* awaitDisconnect holds no sample of a connection that is over, does not  *)
(* sleep on one, and has reported what ended its watch.                    *)
WatchInv ==
    /\ seen \notin LostStates
    /\ watcher = "wait" => link \notin LostStates
    /\ watcher = "done" => hostLost = 1 \/ main # "select"

(* The job context lives exactly as long as there is a function to cancel  *)
(* it; somebody who waits for the jobs has called it, and so has whoever   *)
(* stopped the module.                                                     *)
EngineInv ==
    /\ jobCtx = "live" <=> jobCancel
    /\ \A c \in Calls : pc[c] \in {"drain", "mStop"} => ~jobCancel
    /\ main \in {"drain", "close", "return"} => ~jobCancel
    /\ main = "drain" => state = "started"
    /\ state = "stopped" => Drained /\ ~jobCancel

(* While it serves and while it leaves, the runtime keeps lock, lifecycle  *)
(* state, job engine, teardown and host consistent with one another.       *)
IInv ==
    /\ TypeOK
    /\ HolderInv
    /\ LifecycleInv
    /\ DrainInv
    /\ TeardownInv
    /\ HostInv
    /\ WatchInv
    /\ EngineInv

(* What the module's code observes.                                        *)
Busy(where) == \E c \in Calls : pc[c] = where

Phase ==
    CASE ~Alive                                  -> "gone"
      [] Alive /\ Busy("mInit")                  -> "initialising"
      [] Alive /\ Busy("mStart")                 -> "starting"
      [] Alive /\ Busy("mStop")                  -> "stopping"
      [] OTHER ->
         CASE state = "created"                  -> "new"
           [] state = "inited"                   -> "ready"
           [] state = "stopped"                  -> "stopped"
           [] OTHER ->
              IF jobCtx = "live"                      THEN "running"
              ELSE IF Busy("drain") \/ main = "drain" THEN "halting"
              ELSE "halted"

Active == IF Alive THEN {j \in Jobs : worker[j] = "run"} ELSE {}

Contract == INSTANCE ModuleContract WITH phase <- Phase, active <- Active

(* Handlers, lock, goroutines and teardown together keep the promise       *)
(* ModuleContract makes to the module's author.                            *)
ImplementsContract == Contract!ContractSpec

-----------------------------------------------------------------------------
(* Liveness.                                                               *)

(* The module behaves: its callbacks and its jobs' Run functions return.   *)
(* Go's mutex hands itself to the longest waiter, hence strong fairness of *)
(* LockMu.  Its select picks among the ready cases at random, hence strong *)
(* fairness of WorkerEnds: a cancelled job that keeps being offered both   *)
(* its timer and ctx.Done takes the latter in the end.  The kernel drops   *)
(* the connection of a dead core.  Nothing is assumed of core: it need not *)
(* call anything, and no signal need arrive.                               *)
Fairness ==
    /\ \A c \in Calls : SF_vars(LockMu(c)) /\ WF_vars(Handler(c))
    /\ WF_vars(Main)
    /\ \A j \in Jobs : WF_vars(JobProgress(j))
    /\ \A w \in Workers : SF_vars(WorkerEnds(w))
    /\ WF_vars(Watch)
    /\ WF_vars(Link /\ (DialSucceeds \/ DialFails))
    /\ WF_vars(Link /\ LinkDrops /\ ~coreUp)

FairSpec == Spec /\ Fairness

(* A module that talks to its host now and then: it logs, pings or reads   *)
(* policy.                                                                 *)
TalkingSpec == FairSpec /\ WF_vars(Link /\ HostCall)

(* And whose health streams are hung up by their clients in the end. *)
ServedSpec ==
    TalkingSpec /\ \A c \in Calls : WF_vars(HealthWatchCloses(c))

Exited == ~Alive

(* Whatever wakes the main goroutine up, a Shutdown, a lost core or a      *)
(* signal, ends the process.                                               *)
WakeUpEndsProcess == shutdown = 1 \/ hostLost = 1 \/ sig = 1 ~> Exited

(* A core that dies under an initialised module takes the module with it.  *)
CoreDeathEndsModule == watcher # "off" /\ ~coreUp ~> Exited

(* stopJobs returns: every goroutine it waits for sees the cancellation.   *)
DrainEnds ==
    (main = "drain" \/ \E c \in Calls : pc[c] = "drain") ~>
    Exited \/ (main # "drain" /\ \A c \in Calls : pc[c] # "drain")

(* No RPC waits for the lock forever, whatever the RPC before it ended in. *)
LockGranted == \A c \in Calls : pc[c] = "wait" ~> pc[c] # "wait" \/ Exited

(* "if core vanishes, the module exits rather than orphaning"              *)
(* (moduleServer.hostLost).                                                *)
CoreDeathEndsProcess == ~coreUp ~> Exited

(* "Shutdown ends the process" (moduleState).                              *)
ShutdownEndsProcess == shutdown = 1 ~> Exited

=============================================================================
