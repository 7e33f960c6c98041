----------------------------- MODULE EventContract -----------------------------
(***************************************************************************)
(* What the Events interface of modulesdk/module.go promises a module:     *)
(* delivery at most once of events that match its patterns, those of one   *)
(* publisher in the order they were published.  Nothing is said of how     *)
(* events of two publishers interleave, nor of which events are missed.    *)
(*                                                                         *)
(* A publisher is a goroutine of a module, which waits for one Publish to  *)
(* return before it calls the next.                                        *)
(***************************************************************************)
EXTENDS Integers, Sequences, SequencesExt

CONSTANTS
    Streams,       \* the calls of Events.Subscribe
    Publishers,    \* the goroutines that publish
    Module,        \* Module[p]: the id of the module p belongs to
    Topics,        \* what they pass to Publish
    Patterns       \* Patterns[s]: the patterns s subscribed to

VARIABLES
    log,           \* the events published so far; an event is its index
    received       \* the events the module of each stream has read

(* Texts are sequences of symbols.  The bus puts the module in front.      *)
BusTopic(p, topic) == <<Module[p], ".">> \o topic

(* "Patterns are exact topics or prefix globs like sysinfo.*" *)
Matches(pattern, topic) ==
    \/ pattern = topic
    \/ \E n \in 1..Len(topic) : pattern = SubSeq(topic, 1, n) \o <<"*">>

(* Two events in the order their publisher published them. *)
SamePublisher(i, j) == log[i].from = log[j].from

EventInit ==
    /\ log = << >>
    /\ received = [s \in Streams |-> << >>]

Emit(p, topic) ==
    /\ log' = Append(log, [from |-> p, topic |-> BusTopic(p, topic)])
    /\ UNCHANGED received

Hear(s, i) ==
    /\ \E pattern \in Patterns[s] : Matches(pattern, log[i].topic)
    /\ \A j \in ToSet(received[s]) : SamePublisher(i, j) => j < i
    /\ received' = [received EXCEPT ![s] = Append(@, i)]
    /\ UNCHANGED log

EventNext ==
    \/ \E p \in Publishers, topic \in Topics : Emit(p, topic)
    \/ \E s \in Streams, i \in DOMAIN log : Hear(s, i)

EventSpec == EventInit /\ [][EventNext]_<<log, received>>

=============================================================================
