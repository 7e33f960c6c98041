---------------------------- MODULE PolicyContract ----------------------------
(***************************************************************************)
(* What PolicyReader.Watch of modulesdk/module.go promises a module: from  *)
(* its channel it reads documents that core has set, each newer than the   *)
(* one before, until the context is cancelled or the stream fails, after   *)
(* which the channel is closed.  Changes may be skipped: a module that is  *)
(* slow reads only the latest of them.                                     *)
(*                                                                         *)
(* A document is its revision.  What is on offer in the channel belongs to *)
(* the contract: to read a document a second time would change nothing, so *)
(* it is the offer that must be of a new one.  Nothing is said of          *)
(* handlers, streams and notifications; that the current document does     *)
(* arrive is a liveness property of PolicyWatch.                           *)
(***************************************************************************)
EXTENDS Integers

CONSTANT Streams   \* the calls of Watch

VARIABLES
    revision,      \* the document core has set last
    last,          \* the document each module read last, -1 if none
    channel,       \* the documents on offer to each module: one or none
    watch          \* each call: "off", "open", "ended" or "closed"

PolicyInit ==
    /\ revision = 0
    /\ last = [w \in Streams |-> -1]
    /\ channel = [w \in Streams |-> {}]
    /\ watch = [w \in Streams |-> "off"]

Changes ==
    /\ revision' = revision + 1
    /\ UNCHANGED <<last, channel, watch>>

Moves(w, from, to) ==
    /\ watch[w] = from
    /\ watch' = [watch EXCEPT ![w] = to]
    /\ UNCHANGED <<revision, last>>

Opens(w)  == Moves(w, "off", "open") /\ UNCHANGED channel
Ends(w)   == Moves(w, "open", "ended") /\ UNCHANGED channel

(* What is on offer may be withdrawn. *)
Closes(w) == Moves(w, "ended", "closed") /\ channel' = [channel EXCEPT ![w] = {}]

(* What was in flight when the stream ended may still be offered. *)
Offers(w) ==
    /\ watch[w] \in {"open", "ended"} /\ channel[w] = {}
    /\ \E r \in (last[w] + 1)..revision : channel' = [channel EXCEPT ![w] = {r}]
    /\ UNCHANGED <<revision, last, watch>>

Reads(w) ==
    /\ \E r \in channel[w] : last' = [last EXCEPT ![w] = r]
    /\ channel' = [channel EXCEPT ![w] = {}]
    /\ UNCHANGED <<revision, watch>>

PolicyNext ==
    \/ Changes
    \/ \E w \in Streams : Opens(w) \/ Offers(w) \/ Reads(w) \/ Ends(w) \/ Closes(w)

PolicySpec == PolicyInit /\ [][PolicyNext]_<<revision, last, channel, watch>>

=============================================================================
