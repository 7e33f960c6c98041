-------------------------------- MODULE Uplink --------------------------------
(***************************************************************************)
(* The connection to core under the client streams of a module: the log    *)
(* stream (LogStream) and the pings of the push watchdog (PushWatchdog).   *)
(* It is external: it may drop, and gRPC may bring it back.  HostLink has  *)
(* its connectivity states; here only its effect on streams matters.       *)
(*                                                                         *)
(* A client stream is "none" before it is opened, "open", "cut" when the   *)
(* transport failed or core ended it and the client has not heard yet, and *)
(* "dead" from when it has: what is sent on a cut stream is accepted and   *)
(* lost, what is sent on a dead one fails.                                 *)
(***************************************************************************)
EXTENDS Integers, Sequences, SequencesExt

CONSTANTS
    MaxDrops,      \* how often the connection drops (bound)
    SendWindow     \* messages of a stream that fit under flow control (bound)

ASSUME MaxDropsAssumption == MaxDrops \in Nat
ASSUME SendWindowAssumption == SendWindow \in Nat \ {0}

VARIABLES
    conn,          \* the connection: "up" or "down"
    drops          \* how often it dropped

connVars == <<conn, drops>>

StreamStates == {"none", "open", "cut", "dead"}

UplinkTypeOK == conn \in {"up", "down"} /\ drops \in 0..MaxDrops

UplinkInit == conn = "up" /\ drops = 0

ConnDrops ==
    /\ conn = "up"
    /\ drops < MaxDrops
    /\ conn' = "down"
    /\ drops' = drops + 1

ConnReturns ==
    /\ conn = "down"
    /\ conn' = "up"
    /\ UNCHANGED drops

=============================================================================
