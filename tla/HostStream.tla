------------------------------ MODULE HostStream ------------------------------
(***************************************************************************)
(* A server stream of core and the goroutine that forwards it to a channel *)
(* of the module.  modulesdk/hostclient.go has the same one three times,   *)
(* in Transport.Receive (whose stub handler never sends anything),         *)
(* PolicyReader.Watch and Events.Subscribe: receive, offer to an           *)
(* unbuffered channel or stop with the context, close the channel when     *)
(* either is over.                                                         *)
(*                                                                         *)
(* The gRPC stream is external: a queue of a few messages (flow control)   *)
(* between the two ends.  When the module's context is cancelled or the    *)
(* transport fails, both ends learn of it, and what was in flight may or   *)
(* may not be received.                                                    *)
(*                                                                         *)
(* This module has no Next: the modules that extend it say what the        *)
(* handler at the other end sends, and keep their variables unchanged.     *)
(***************************************************************************)
EXTENDS Integers, Sequences

CONSTANTS
    Streams,       \* the calls that open a stream
    Window         \* messages of a stream that fit under flow control (bound)

ASSUME WindowAssumption == Window \in Nat \ {0}

VARIABLES
    stream,       \* the messages in flight
    ctx,          \* the context the module passed to the call
    transport,    \* the connection under the stream
    client,       \* where each forwarding goroutine is
    doc           \* the message it received last, 0 before the first

wireVars   == <<stream, ctx, transport>>
clientVars == <<client, doc>>
streamVars == <<wireVars, clientVars>>

StreamTypeOK(Messages) ==
    /\ stream \in [Streams -> Seq(Messages)]
    /\ ctx \in [Streams -> {"live", "cancelled"}]
    /\ transport \in [Streams -> {"up", "down"}]
    /\ client \in [Streams -> {"off", "recv", "offer", "closed"}]
    /\ doc \in [Streams -> Messages]

StreamInit ==
    /\ stream = [s \in Streams |-> << >>]
    /\ ctx = [s \in Streams |-> "live"]
    /\ transport = [s \in Streams |-> "up"]
    /\ client = [s \in Streams |-> "off"]
    /\ doc = [s \in Streams |-> 0]

(* The server's stream context is done and the client's Recv fails. *)
Ended(s) == ctx[s] = "cancelled" \/ transport[s] = "down"

(* The handler sends: it waits for flow control while nobody receives. *)
Transmit(s, message) ==
    /\ ~Ended(s)
    /\ Len(stream[s]) < Window
    /\ stream' = [stream EXCEPT ![s] = Append(@, message)]
    /\ UNCHANGED <<ctx, transport, clientVars>>

-----------------------------------------------------------------------------
(* The module's side.                                                      *)

GotoClient(s, to) == client' = [client EXCEPT ![s] = to]

OpenStream(s) ==
    /\ client[s] = "off"
    /\ GotoClient(s, "recv")
    /\ UNCHANGED <<wireVars, doc>>

ReceiveDropping(s) ==
    /\ client[s] = "recv"
    /\ stream[s] # << >>
    /\ doc' = [doc EXCEPT ![s] = Head(stream[s])]
    /\ stream' = [stream EXCEPT ![s] = Tail(@)]
    /\ \E to \in {"recv", "offer"} : GotoClient(s, to)
    /\ UNCHANGED <<ctx, transport>>

Receive(s) ==
    /\ client[s] = "recv"
    /\ stream[s] # << >>
    /\ doc' = [doc EXCEPT ![s] = Head(stream[s])]
    /\ stream' = [stream EXCEPT ![s] = Tail(@)]
    /\ GotoClient(s, "offer")
    /\ UNCHANGED <<ctx, transport>>

(* The channel is unbuffered: the goroutine waits for the module. *)
HandOver(s) ==
    /\ client[s] = "offer"
    /\ GotoClient(s, "recv")
    /\ UNCHANGED <<wireVars, doc>>

CloseChannelOnFailureOnly(s) ==
    /\ client[s] = "recv" /\ Ended(s)
    /\ GotoClient(s, "closed")
    /\ UNCHANGED <<wireVars, doc>>

(* Recv failed, or the context was cancelled while the module did not read. *)
CloseChannel(s) ==
    /\ \/ client[s] = "recv" /\ Ended(s)
       \/ client[s] = "offer" /\ ctx[s] = "cancelled"
    /\ GotoClient(s, "closed")
    /\ UNCHANGED <<wireVars, doc>>

-----------------------------------------------------------------------------
(* What ends a stream.                                                     *)

CancelContext(s) ==
    /\ client[s] # "off"
    /\ ctx[s] = "live"
    /\ ctx' = [ctx EXCEPT ![s] = "cancelled"]
    /\ UNCHANGED <<stream, transport, clientVars>>

FailTransport(s) ==
    /\ client[s] # "off"
    /\ transport[s] = "up"
    /\ transport' = [transport EXCEPT ![s] = "down"]
    /\ UNCHANGED <<stream, ctx, clientVars>>

=============================================================================
