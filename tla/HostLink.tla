------------------------------ MODULE HostLink ------------------------------
(***************************************************************************)
(* The connection of a module to core's host services and the goroutine    *)
(* that watches it: awaitDisconnect of modulesdk/hostclient.go, the        *)
(* hostLost channel of modulesdk/lifecycle.go, and the part of a gRPC      *)
(* ClientConn they observe.                                                *)
(*                                                                         *)
(* The ClientConn is external.  Its connectivity states are those          *)
(* awaitDisconnect reads: a new connection is idle, Connect or an RPC      *)
(* makes it dial, and a connection that drops (a blip, gRPC's idle         *)
(* timeout, or core's death) falls back to idle and stays there until the  *)
(* next Connect or RPC.  A dial to a dead core fails; one to a live core   *)
(* succeeds or fails too (a full backlog, no descriptor left, a deadline), *)
(* and is then repeated, the connection showing the failure until one      *)
(* succeeds.  A core that died stays dead: its successor launches modules  *)
(* of its own.                                                             *)
(***************************************************************************)
EXTENDS Naturals

VARIABLES
    coreUp,      \* the core process is alive
    link,        \* connectivity state of hostClient.conn, "none" before dialHost
    watcher,     \* program counter of awaitDisconnect, "off" until it is spawned
    seen,        \* the state awaitDisconnect sampled with GetState
    hostLost     \* messages in moduleServer.hostLost, a channel of capacity 1

linkVars == <<coreUp, link, watcher, seen, hostLost>>

LinkStates == {"none", "idle", "connecting", "ready", "failure", "shutdown"}

LinkTypeOK ==
    /\ coreUp \in BOOLEAN
    /\ link \in LinkStates
    /\ watcher \in {"off", "sample", "connect", "call", "wait", "done"}
    /\ seen \in LinkStates
    /\ hostLost \in 0..1

LinkInit ==
    /\ coreUp = TRUE
    /\ link = "none"
    /\ watcher = "off"
    /\ seen = "none"
    /\ hostLost = 0

-----------------------------------------------------------------------------
(* awaitDisconnect.                                                        *)

(* The states in which it gives the connection up for lost. *)
LostStatesOwnCloseOnly == {"shutdown"}

LostStates == {"shutdown", "failure"}

(* GetState, and onLost if that state means the peer is gone: a send on    *)
(* hostLost that never blocks.  seen is "none" while no sample is held.    *)
WatchSample ==
    /\ watcher = "sample"
    /\ IF link \in LostStates
       THEN /\ hostLost' = 1
            /\ watcher' = "done"
            /\ seen' = "none"
       ELSE /\ seen' = link
            /\ watcher' = "connect"
            /\ UNCHANGED hostLost
    /\ UNCHANGED <<coreUp, link>>

(* conn.Connect, which does nothing unless the connection is idle. *)
WatchConnect ==
    /\ watcher = "connect"
    /\ link' = IF link = "idle" THEN "connecting" ELSE link
    /\ watcher' = "call"
    /\ UNCHANGED <<coreUp, seen, hostLost>>

(* The mutant waits for a change from the state as it is now. *)
WatchCallResamples ==
    /\ watcher = "call"
    /\ watcher' = "wait"
    /\ seen' = "none"
    /\ UNCHANGED <<coreUp, link, hostLost>>

(* WaitForStateChange compares the state with the sample once, when it is  *)
(* called: it returns at once if they differ and blocks if they do not.    *)
(* Blocked, it is woken by the next change, whatever the new state.        *)
WatchCall ==
    /\ watcher = "call"
    /\ watcher' = IF link = seen THEN "wait" ELSE "sample"
    /\ seen' = "none"
    /\ UNCHANGED <<coreUp, link, hostLost>>

Woken == IF watcher = "wait" THEN "sample" ELSE watcher

AwaitDisconnect == WatchSample \/ WatchConnect \/ WatchCall

-----------------------------------------------------------------------------
(* The ClientConn and core.                                                *)

(* A change of state, which closes the channel WaitForStateChange waits on. *)
StepLink(from, to) ==
    /\ link = from
    /\ link' = to
    /\ watcher' = Woken
    /\ UNCHANGED <<coreUp, seen, hostLost>>

(* A host RPC of the module makes an idle connection dial. *)
HostCall == StepLink("idle", "connecting")

DialSucceeds == coreUp /\ StepLink("connecting", "ready")

DialFails == StepLink("connecting", "failure")

(* gRPC dials again after its backoff and shows nothing of it but success. *)
RedialSucceeds == coreUp /\ StepLink("failure", "ready")

LinkDrops == StepLink("ready", "idle")

CoreDies ==
    /\ coreUp
    /\ coreUp' = FALSE
    /\ UNCHANGED <<link, watcher, seen, hostLost>>

LinkStep ==
    \/ HostCall
    \/ DialSucceeds
    \/ DialFails
    \/ RedialSucceeds
    \/ LinkDrops
    \/ CoreDies

=============================================================================
