--------------------------- MODULE ModuleContract ---------------------------
(***************************************************************************)
(* What the runtime promises to the author of a module: the order in which *)
(* it calls Init, Start, Stop and the jobs' Run functions.  This is the    *)
(* view of a module's own code (the interface Module and the type Job of   *)
(* modulesdk/module.go), with neither RPCs nor goroutines.                 *)
(*                                                                         *)
(*   - one of Init, Start and Stop is executing at most;                   *)
(*   - a failed Init or Start may be tried again, a successful one is      *)
(*     never repeated, and nothing but Init precedes a successful Init;    *)
(*   - jobs run only between a successful Start and the next Stop, and     *)
(*     Stop is entered when every Run has returned;                        *)
(*   - after a Stop was entered, failed or not, no Run is entered again;   *)
(*   - the process may end without Stop (SIGTERM, lost core), but not in   *)
(*     the middle of a callback or a Run, unless its server fails.         *)
(***************************************************************************)
EXTENDS FiniteSets

CONSTANT Jobs

VARIABLES
    phase,      \* where the module is in its life
    active      \* the jobs whose Run is executing

contractVars == <<phase, active>>

(* "halting": the jobs were told to end.  "halted": they ended, and Stop   *)
(* either failed or will not be called before the process ends.            *)
Phases == {"new", "initialising", "ready", "starting", "running",
           "halting", "halted", "stopping", "stopped", "gone"}

ContractInit ==
    /\ phase = "new"
    /\ active = {}

Step(from, to) ==
    /\ phase \in from
    /\ phase' = to
    /\ UNCHANGED active

QuietStep(from, to) == active = {} /\ Step(from, to)

InitCalled    == Step({"new"}, "initialising")
InitReturns   == \E to \in {"new", "ready"} : Step({"initialising"}, to)
StartCalled   == Step({"ready"}, "starting")
StartReturns  == \E to \in {"ready", "running"} : Step({"starting"}, to)
JobsCancelled == Step({"running"}, "halting")
JobsEnded     == QuietStep({"halting"}, "halted")
StopCalled    == QuietStep({"halting", "halted"}, "stopping")
StopReturns   == \E to \in {"halted", "stopped"} : Step({"stopping"}, to)

(* Stop of a module that was never started: no callback at all. *)
StopSkipped   == Step({"new", "ready"}, "stopped")

RunEntered(j) ==
    /\ phase \in {"running", "halting"}
    /\ j \notin active
    /\ active' = active \cup {j}
    /\ UNCHANGED phase

RunReturns(j) ==
    /\ j \in active
    /\ active' = active \ {j}
    /\ UNCHANGED phase

ProcessEnds   == QuietStep({"new", "ready", "halted", "stopped"}, "gone")

(* The gRPC server failed: the process exits with whatever it was doing.   *)
ProcessAborts ==
    /\ phase # "gone"
    /\ phase' = "gone"
    /\ active' = {}

ContractNext ==
    \/ InitCalled
    \/ InitReturns
    \/ StartCalled
    \/ StartReturns
    \/ JobsCancelled
    \/ JobsEnded
    \/ StopCalled
    \/ StopReturns
    \/ StopSkipped
    \/ \E j \in Jobs : RunEntered(j) \/ RunReturns(j)
    \/ ProcessEnds
    \/ ProcessAborts

ContractSpec == ContractInit /\ [][ContractNext]_contractVars

=============================================================================
