------------------------------ MODULE PushWatchdog ------------------------------
(***************************************************************************)
(* The goroutine of launchWatchdogLocked (modulesdk/hostclient.go), which  *)
(* pings core on a client stream until its context is cancelled, and opens *)
(* the stream anew after it broke.  JobScheduler says when the goroutine   *)
(* is started, cancelled and waited for.  Pings carry a counter that       *)
(* nothing here depends on.                                                *)
(*                                                                         *)
(* This module has no Next: HostUplink composes it with the connection.    *)
(***************************************************************************)
EXTENDS Uplink

VARIABLES
    dog,           \* where the goroutine is
    dogCtx,        \* its context
    pingStream,    \* its variable stream, "none" if nil
    pings          \* the pings in flight

dogVars == <<dog, dogCtx, pingStream, pings>>

WatchdogTypeOK ==
    /\ dog \in {"off", "select", "notify", "send", "ended"}
    /\ dogCtx \in {"live", "cancelled"}
    /\ pingStream \in StreamStates
    /\ pings \in 0..SendWindow

(* startJobs starts it only with a positive interval. *)
WatchdogInit ==
    /\ dog \in {"off", "select"}
    /\ dogCtx = "live"
    /\ pingStream = "none"
    /\ pings = 0

Tick ==
    /\ dog = "select"
    /\ dog' = IF pingStream = "none" THEN "notify" ELSE "send"
    /\ UNCHANGED <<dogCtx, pingStream, pings>>

NotifyOpens ==
    /\ dog = "notify"
    /\ conn = "up" /\ dogCtx = "live"
    /\ pingStream' = "open"
    /\ dog' = "send"
    /\ UNCHANGED <<dogCtx, pings>>

NotifyFailsRetriesAtOnce ==
    /\ dog = "notify"
    /\ conn = "down" \/ dogCtx = "cancelled"
    /\ UNCHANGED dogVars

(* The next attempt is made on the next tick. *)
NotifyFails ==
    /\ dog = "notify"
    /\ conn = "down" \/ dogCtx = "cancelled"
    /\ dog' = "select"
    /\ UNCHANGED <<dogCtx, pingStream, pings>>

PingSent ==
    /\ dog = "send"
    /\ \/ pingStream = "open" /\ pings < SendWindow /\ pings' = pings + 1
       \/ pingStream = "cut" /\ UNCHANGED pings
    /\ dog' = "select"
    /\ UNCHANGED <<dogCtx, pingStream>>

PingFailsKeepsStream ==
    /\ dog = "send"
    /\ pingStream = "dead" \/ dogCtx = "cancelled"
    /\ dog' = "select"
    /\ UNCHANGED <<dogCtx, pingStream, pings>>

PingFails ==
    /\ dog = "send"
    /\ pingStream = "dead" \/ dogCtx = "cancelled"
    /\ pingStream' = "none"
    /\ pings' = 0
    /\ dog' = "select"
    /\ UNCHANGED dogCtx

(* ctx.Done: CloseAndRecv returns at once, its context being cancelled. *)
WatchdogEnds ==
    /\ dog = "select"
    /\ dogCtx = "cancelled"
    /\ dog' = "ended"
    /\ UNCHANGED <<dogCtx, pingStream, pings>>

CancelWatchdog ==
    /\ dog # "off"
    /\ dogCtx = "live"
    /\ dogCtx' = "cancelled"
    /\ UNCHANGED <<dog, pingStream, pings>>

-----------------------------------------------------------------------------
(* Core and the wire.                                                      *)

PingArrives ==
    /\ pings > 0
    /\ pings' = pings - 1
    /\ UNCHANGED <<dog, dogCtx, pingStream>>

WatchdogCut ==
    /\ pingStream' = IF pingStream = "open" THEN "cut" ELSE pingStream
    /\ pings' = 0
    /\ UNCHANGED <<dog, dogCtx>>

WatchdogHears ==
    /\ pingStream = "cut"
    /\ pingStream' = "dead"
    /\ UNCHANGED <<dog, dogCtx, pings>>

WatchdogStep == Tick \/ NotifyOpens \/ NotifyFails \/ PingSent \/ PingFails

=============================================================================
