------------------------------- MODULE EventBus -------------------------------
(***************************************************************************)
(* Events on their way from one module to others: HostData.Publish and its *)
(* subscribers (testkit/hostdata.go), the handlers of Publish and          *)
(* Subscribe (eventsServer of testkit/hostserver.go), the stream with the  *)
(* goroutine that forwards it to a channel (HostStream; eventsClient of    *)
(* modulesdk/hostclient.go), and the module that reads the channel.        *)
(*                                                                         *)
(* An event is its index in HostData.events; its payload and time do not   *)
(* matter.  HostData.mu protects short sections that block nowhere; each   *)
(* is part of one action.                                                  *)
(***************************************************************************)
EXTENDS HostStream, SequencesExt

CONSTANTS
    Publishers,    \* the goroutines that publish
    Module,        \* Module[p]: the id of the module p belongs to
    Topics,        \* what they pass to Publish
    Patterns,      \* Patterns[s]: the patterns s subscribed to
    Readers,       \* the streams whose module keeps reading its channel
    Breakable,     \* the streams that may end (bound)
    QueueSize,     \* capacity of a subscriber's channel (64 in the code)
    MaxEvents      \* how many events are published (bound)

ASSUME ReadersAssumption == Readers \subseteq Streams
ASSUME QueueSizeAssumption == QueueSize \in Nat \ {0}
ASSUME MaxEventsAssumption == MaxEvents \in Nat

VARIABLES
    log,           \* HostData.events
    subscribers,   \* HostData.subscribers, in the order they registered
    pending,       \* the subscribers each Publish under way has yet to look at
    event,         \* the event it fans out
    queue,         \* the channel of each subscriber
    handler,       \* where each handler of Subscribe is
    got,           \* the event it took from the channel last
    received,      \* the events the module of each stream has read
    since,         \* history: the events published before it registered
    dropped        \* history: the events its full channel refused

busVars     == <<log, subscribers, pending, event>>
serverVars  == <<queue, handler, got>>
historyVars == <<since, dropped>>
vars        == <<busVars, serverVars, historyVars, streamVars, received>>

Events == 1..MaxEvents

(* What the Events interface promises.  The bus emits events as it does.   *)
Contract == INSTANCE EventContract

(* The topics there may be on the bus. *)
BusTopics == {Contract!BusTopic(p, topic) : p \in Publishers, topic \in Topics}

ASSUME TextsAssumption ==
    /\ BusTopics \subseteq Seq(STRING)
    /\ Patterns \in [Streams -> SUBSET Seq(STRING)]

TypeOK ==
    /\ log \in Seq([from : Publishers, topic : BusTopics])
    /\ Len(log) <= MaxEvents
    /\ subscribers \in Seq(Streams)
    /\ pending \in [Publishers -> Seq(Streams)]
    /\ event \in [Publishers -> 0..MaxEvents]
    /\ queue \in [Streams -> Seq(Events)]
    /\ \A s \in Streams : Len(queue[s]) <= QueueSize
    /\ handler \in [Streams -> {"off", "register", "select", "send", "returned"}]
    /\ got \in [Streams -> 0..MaxEvents]
    /\ since \in [Streams -> 0..MaxEvents]
    /\ dropped \in [Streams -> SUBSET Events]
    /\ received \in [Streams -> Seq(Events)]
    /\ StreamTypeOK(0..MaxEvents)

Init ==
    /\ Contract!EventInit
    /\ StreamInit
    /\ subscribers = << >>
    /\ pending = [p \in Publishers |-> << >>]
    /\ event = [p \in Publishers |-> 0]
    /\ queue = [s \in Streams |-> << >>]
    /\ handler = [s \in Streams |-> "off"]
    /\ got = [s \in Streams |-> 0]
    /\ since = [s \in Streams |-> 0]
    /\ dropped = [s \in Streams |-> {}]

-----------------------------------------------------------------------------
(* eventsServer.Publish and HostData.Publish.                              *)

(* Under the lock: the event is recorded and the subscribers are copied. *)
Publish(p, topic) ==
    /\ pending[p] = << >>
    /\ Len(log) < MaxEvents
    /\ Contract!Emit(p, topic)
    /\ pending' = [pending EXCEPT ![p] = subscribers]
    /\ event' = [event EXCEPT ![p] = Len(log) + 1]
    /\ UNCHANGED <<subscribers, serverVars, historyVars, streamVars>>

TopicMatchesBareStar(patterns, topic) ==
    \E p \in patterns :
       p = topic \/ (Len(p) > 0 /\ Last(p) = "*" /\ IsPrefix(Front(p), topic))

(* topicMatches: the exact topic, or what precedes a final star; a lone    *)
(* star is no glob.                                                        *)
TopicMatches(patterns, topic) ==
    \E p \in patterns :
       p = topic \/ (Len(p) > 1 /\ Last(p) = "*" /\ IsPrefix(Front(p), topic))

(* The topics each stream subscribed to, out of those that occur. *)
Wanted ==
    [s \in Streams |-> {t \in BusTopics : TopicMatches(Patterns[s], t)}]

Wants(s, i) == log[i].topic \in Wanted[s]

(* What a Publish does with one subscriber: a send that never blocks. *)
Offer(s, i) ==
    LET full == Len(queue[s]) >= QueueSize IN
    /\ queue' = IF Wants(s, i) /\ ~full
                THEN [queue EXCEPT ![s] = Append(@, i)] ELSE queue
    /\ dropped' = IF Wants(s, i) /\ full
                  THEN [dropped EXCEPT ![s] = @ \cup {i}] ELSE dropped
    /\ UNCHANGED <<log, subscribers, event, handler, got, since, streamVars, received>>

FanOutUnbounded(p) ==
    /\ pending[p] # << >>
    /\ pending' = [pending EXCEPT ![p] = Tail(@)]
    /\ LET s == Head(pending[p]) IN
       queue' = IF Wants(s, event[p]) THEN [queue EXCEPT ![s] = Append(@, event[p])] ELSE queue
    /\ UNCHANGED <<log, subscribers, event, handler, got, historyVars, streamVars, received>>

FanOutStopsAtFull(p) ==
    /\ pending[p] # << >>
    /\ pending' = [pending EXCEPT ![p] =
          IF Len(queue[Head(@)]) >= QueueSize THEN << >> ELSE Tail(@)]
    /\ Offer(Head(pending[p]), event[p])

FanOutBlocks(p) ==
    /\ pending[p] # << >>
    /\ Len(queue[Head(pending[p])]) < QueueSize
    /\ pending' = [pending EXCEPT ![p] = Tail(@)]
    /\ Offer(Head(pending[p]), event[p])

(* After unlock: the subscribers in turn. *)
FanOut(p) ==
    /\ pending[p] # << >>
    /\ pending' = [pending EXCEPT ![p] = Tail(@)]
    /\ Offer(Head(pending[p]), event[p])

-----------------------------------------------------------------------------
(* eventsServer.Subscribe.                                                 *)

Goto(s, to) == handler' = [handler EXCEPT ![s] = to]

(* HostData.subscribe.  A subscriber is never taken off the list again. *)
Register(s) ==
    /\ handler[s] = "register"
    /\ subscribers' = Append(subscribers, s)
    /\ since' = [since EXCEPT ![s] = Len(log)]
    /\ Goto(s, "select")
    /\ UNCHANGED <<log, pending, event, queue, got, dropped, streamVars, received>>

Take(s) ==
    /\ handler[s] = "select"
    /\ queue[s] # << >>
    /\ got' = [got EXCEPT ![s] = Head(queue[s])]
    /\ queue' = [queue EXCEPT ![s] = Tail(@)]
    /\ Goto(s, "send")
    /\ UNCHANGED <<busVars, historyVars, streamVars, received>>

SendRepeats(s) ==
    /\ handler[s] = "send"
    /\ Transmit(s, got[s])
    /\ UNCHANGED <<busVars, queue, handler, got, historyVars, received>>

Send(s) ==
    /\ handler[s] = "send"
    /\ Transmit(s, got[s])
    /\ Goto(s, "select")
    /\ UNCHANGED <<busVars, queue, got, historyVars, received>>

(* Send failed, or the select took stream.Context().Done(). *)
HandlerReturns(s) ==
    /\ handler[s] \in {"send", "select"}
    /\ Ended(s)
    /\ Goto(s, "returned")
    /\ UNCHANGED <<busVars, queue, got, historyVars, streamVars, received>>

-----------------------------------------------------------------------------
(* eventsClient.Subscribe and the module.                                  *)

(* The call returns when the stream is open: its handler registers later. *)
Subscribe(s) ==
    /\ OpenStream(s)
    /\ Goto(s, "register")
    /\ UNCHANGED <<busVars, queue, got, historyVars, received>>

Recv(s) ==
    /\ Receive(s)
    /\ UNCHANGED <<busVars, serverVars, historyVars, received>>

Deliver(s) ==
    /\ HandOver(s)
    /\ received' = [received EXCEPT ![s] = Append(@, doc[s])]
    /\ UNCHANGED <<busVars, serverVars, historyVars>>

Close(s) ==
    /\ CloseChannel(s)
    /\ UNCHANGED <<busVars, serverVars, historyVars, received>>

StreamEnds(s) ==
    /\ s \in Breakable
    /\ CancelContext(s) \/ FailTransport(s)
    /\ UNCHANGED <<busVars, serverVars, historyVars, received>>

Handler(s) == Register(s) \/ Take(s) \/ Send(s) \/ HandlerReturns(s)

Forward(s) == Recv(s) \/ Close(s)

Next ==
    \/ \E p \in Publishers : FanOut(p) \/ \E topic \in Topics : Publish(p, topic)
    \/ \E s \in Streams :
          Subscribe(s) \/ Handler(s) \/ Forward(s) \/ Deliver(s) \/ StreamEnds(s)

Spec == Init /\ [][Next]_vars

(* Goroutines run.  Only the modules of Readers are known to read on;      *)
(* nothing makes a module publish, subscribe or cancel.                    *)
FairSpec ==
    /\ Spec
    /\ \A p \in Publishers : WF_vars(FanOut(p))
    /\ \A s \in Streams : WF_vars(Handler(s)) /\ WF_vars(Forward(s))
    /\ \A s \in Readers : WF_vars(Deliver(s))

-----------------------------------------------------------------------------
(* Safety.                                                                 *)

OnOffer(s) == IF client[s] = "offer" THEN <<doc[s]>> ELSE << >>

BeingSent(s) == IF handler[s] = "send" THEN <<got[s]>> ELSE << >>

(* The events between the bus and a module, oldest first: those it read,   *)
(* the one on offer, those in flight, the one being sent, those queued.    *)
Path(s) == received[s] \o OnOffer(s) \o stream[s] \o BeingSent(s) \o queue[s]

(* From Publish to the module's channel no event overtakes an earlier one  *)
(* of the same publisher or appears twice, although the fan-out of each    *)
(* Publish runs outside the lock and beside the others'.                   *)
PublisherOrder ==
    \A s \in Streams : \A m, n \in 1..Len(Path(s)) :
       m < n /\ Contract!SamePublisher(Path(s)[m], Path(s)[n]) => Path(s)[m] < Path(s)[n]

(* The events published since s registered that match its patterns. *)
Owed(s) ==
    {i \in (since[s] + 1)..Len(log) : s \in ToSet(subscribers) /\ Wants(s, i)}

(* The events a Publish under way has yet to offer to s. *)
Undecided(s) == {event[p] : p \in {q \in Publishers : s \in ToSet(pending[q])}}

(* While its stream lasts, an event owed to a subscriber is waiting in its *)
(* Publish, or it was dropped, or it is on its way or read: never two of   *)
(* these, and nothing that is not owed.                                    *)
Accounted ==
    \A s \in Streams :
       LET path == ToSet(Path(s)) IN
       /\ path \cup dropped[s] \subseteq Owed(s)
       /\ path \cap dropped[s] = {}
       /\ Undecided(s) \cap (path \cup dropped[s]) = {}
       /\ ~Ended(s) => Owed(s) \subseteq path \cup dropped[s] \cup Undecided(s)

(* What a module reads is what the contract of the bus allows.             *)
ImplementsEvents == Contract!EventSpec

-----------------------------------------------------------------------------
(* Liveness.                                                               *)

(* Publish returns whatever its subscribers do: neither a module that does *)
(* not read nor a stream that has ended holds up the bus.                  *)
PublishReturns == \A p \in Publishers : pending[p] # << >> ~> pending[p] = << >>

(* "Subscribe delivers matching events until ctx ends" (Events): a module  *)
(* that reads on gets every event owed to it that its queue had room for.  *)
Delivered ==
    \A s \in Readers, i \in Events :
       i \in Owed(s) ~> Ended(s) \/ i \in ToSet(received[s]) \/ i \in dropped[s]

(* The handler ends with its stream, and the channel is closed once the    *)
(* module cancels, even if it has stopped reading.                         *)
Closes ==
    \A s \in Streams :
       /\ client[s] # "off" /\ Ended(s) ~> handler[s] = "returned"
       /\ client[s] # "off" /\ ctx[s] = "cancelled" ~> client[s] = "closed"

=============================================================================
