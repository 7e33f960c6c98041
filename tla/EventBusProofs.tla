---------------------------- MODULE EventBusProofs ----------------------------
(***************************************************************************)
(* Proofs about EventBus, for any number of publishers, subscribers and    *)
(* events, and queues of any length: no event overtakes another of its     *)
(* publisher, each that is owed to a subscriber is accounted for, and what *)
(* a module reads is what EventContract allows.                            *)
(***************************************************************************)
EXTENDS EventBus, TLAPS

-----------------------------------------------------------------------------
(* Sequences.                                                              *)

(* A concatenation, element by element.                                    *)
LEMMA Joined ==
    ASSUME NEW S, NEW a \in Seq(S), NEW b \in Seq(S)
    PROVE  /\ a \o b \in Seq(S)
           /\ Len(a \o b) = Len(a) + Len(b)
           /\ \A i \in 1..Len(a) : (a \o b)[i] = a[i]
           /\ \A i \in 1..Len(b) : (a \o b)[Len(a) + i] = b[i]
OBVIOUS

(* Where an element of a concatenation comes from.                         *)
LEMMA Origin ==
    ASSUME NEW S, NEW a \in Seq(S), NEW b \in Seq(S), NEW k \in 1..Len(a \o b)
    PROVE  \/ k \in 1..Len(a) /\ (a \o b)[k] = a[k]
           \/ k - Len(a) \in 1..Len(b) /\ (a \o b)[k] = b[k - Len(a)]
<1>1. Len(a) \in Nat /\ Len(b) \in Nat /\ Len(a \o b) = Len(a) + Len(b)
  OBVIOUS
<1>2. CASE k <= Len(a)
  BY <1>1, <1>2, Joined
<1>3. CASE k > Len(a)
  <2>1. k - Len(a) \in 1..Len(b)
    BY <1>1, <1>3
  <2>2. (a \o b)[Len(a) + (k - Len(a))] = b[k - Len(a)]
    BY <2>1, Joined
  <2>3. Len(a) + (k - Len(a)) = k
    BY <1>1
  <2> QED
    BY <2>1, <2>2, <2>3
<1> QED
  BY <1>1, <1>2, <1>3

(* The elements of a concatenation.                                        *)
LEMMA Elements ==
    ASSUME NEW a \in Seq(Events), NEW b \in Seq(Events)
    PROVE  ToSet(a \o b) = ToSet(a) \cup ToSet(b)
<1>1. /\ DOMAIN a = 1..Len(a) /\ DOMAIN b = 1..Len(b)
      /\ DOMAIN (a \o b) = 1..Len(a \o b)
      /\ Len(a) \in Nat /\ Len(b) \in Nat /\ Len(a \o b) = Len(a) + Len(b)
  OBVIOUS
<1>2. ASSUME NEW x \in ToSet(a \o b) PROVE x \in ToSet(a) \cup ToSet(b)
  <2>1. PICK k \in 1..Len(a \o b) : x = (a \o b)[k]
    BY <1>1 DEF ToSet
  <2> QED
    BY <1>1, <2>1, Origin DEF ToSet
<1>3. ASSUME NEW x \in ToSet(a) PROVE x \in ToSet(a \o b)
  <2>1. PICK k \in 1..Len(a) : x = a[k]
    BY <1>1 DEF ToSet
  <2>2. k \in 1..Len(a \o b) /\ (a \o b)[k] = x
    BY <1>1, <2>1, Joined
  <2> QED
    BY <1>1, <2>2 DEF ToSet
<1>4. ASSUME NEW x \in ToSet(b) PROVE x \in ToSet(a \o b)
  <2>1. PICK k \in 1..Len(b) : x = b[k]
    BY <1>1 DEF ToSet
  <2>2. Len(a) + k \in 1..Len(a \o b) /\ (a \o b)[Len(a) + k] = x
    BY <1>1, <2>1, Joined
  <2> QED
    BY <1>1, <2>2 DEF ToSet
<1> QED
  BY <1>2, <1>3, <1>4

(* Brackets do not matter.                                                 *)
LEMMA Associative ==
    ASSUME NEW a \in Seq(Events), NEW b \in Seq(Events), NEW c \in Seq(Events)
    PROVE  (a \o b) \o c = a \o (b \o c)
OBVIOUS

(* Nothing is added by nothing.                                            *)
LEMMA Empty ==
    ASSUME NEW S, NEW a \in Seq(S)
    PROVE  << >> \in Seq(S) /\ a \o << >> = a /\ << >> \o a = a /\ ToSet(<< >>) = {}
BY DEF ToSet

(* One element alone.                                                      *)
LEMMA Single ==
    ASSUME NEW S, NEW x \in S
    PROVE  <<x>> \in Seq(S) /\ ToSet(<<x>>) = {x}
BY DEF ToSet

(* The two ends of a queue.                                                *)
LEMMA Ends ==
    ASSUME NEW S, NEW a \in Seq(S), NEW x \in S
    PROVE  /\ <<x>> \in Seq(S) /\ ToSet(<<x>>) = {x}
           /\ Append(a, x) = a \o <<x>>
           /\ a # << >> => /\ Head(a) \in S /\ Tail(a) \in Seq(S)
                           /\ a = <<Head(a)>> \o Tail(a)
BY DEF ToSet

-----------------------------------------------------------------------------
(* Types.                                                                  *)

(* What travels is an event, not none.                                     *)
Carried ==
    /\ \A s \in Streams :
          /\ client[s] = "offer" => doc[s] \in Events
          /\ handler[s] = "send" => got[s] \in Events
          /\ stream[s] \in Seq(Events)
    /\ \A p \in Publishers : pending[p] # << >> => event[p] \in Events

Typed == TypeOK /\ Carried

(* A queue after a receive.                                                *)
LEMMA Received ==
    ASSUME NEW S, NEW q \in Seq(S), q # << >>
    PROVE  Head(q) \in S /\ Tail(q) \in Seq(S) /\ Len(Tail(q)) = Len(q) - 1 /\ Len(q) \in Nat
OBVIOUS

(* A queue after a send.                                                   *)
LEMMA Sent ==
    ASSUME NEW S, NEW q \in Seq(S), NEW x \in S
    PROVE  Append(q, x) \in Seq(S) /\ Len(Append(q, x)) = Len(q) + 1 /\ Len(q) \in Nat
OBVIOUS

(* No step of a publisher, a handler, a forwarding goroutine or a module   *)
(* leaves the types of the state.                                          *)
LEMMA TypeStep == Typed /\ [Next]_vars => Typed'
<1> SUFFICES ASSUME Typed, [Next]_vars PROVE Typed'
  OBVIOUS
<1> USE QueueSizeAssumption, MaxEventsAssumption DEF Typed, TypeOK, Carried, StreamTypeOK, Events
<1> USE DEF busVars, serverVars, historyVars, streamVars, wireVars, clientVars, Goto, GotoClient
<1>1. CASE UNCHANGED vars
  BY <1>1 DEF vars
<1>2. ASSUME NEW p \in Publishers, NEW topic \in Topics, Publish(p, topic) PROVE Typed'
  <2>1. /\ log' = Append(log, [from |-> p, topic |-> Contract!BusTopic(p, topic)])
        /\ received' = received
        /\ Len(log) < MaxEvents
        /\ pending' = [pending EXCEPT ![p] = subscribers]
        /\ event' = [event EXCEPT ![p] = Len(log) + 1]
        /\ UNCHANGED <<subscribers, serverVars, historyVars, streamVars>>
    BY <1>2 DEF Publish, Contract!Emit
  <2>2. [from |-> p, topic |-> Contract!BusTopic(p, topic)]
          \in [from : Publishers, topic : BusTopics]
    BY DEF BusTopics
  <2>3. log' \in Seq([from : Publishers, topic : BusTopics]) /\ Len(log') <= MaxEvents
    BY <2>1, <2>2, Sent
  <2>4. /\ pending' \in [Publishers -> Seq(Streams)] /\ event' \in [Publishers -> 0..MaxEvents]
        /\ \A q \in Publishers : pending'[q] # << >> => event'[q] \in Events
    <3>1. Len(log) + 1 \in Events
      BY <2>1
    <3>2. pending' \in [Publishers -> Seq(Streams)]
      BY <2>1
    <3>3. event' \in [Publishers -> 0..MaxEvents]
      BY <2>1, <3>1
    <3>4. ASSUME NEW q \in Publishers, pending'[q] # << >> PROVE event'[q] \in Events
      BY <2>1, <3>1, <3>4
    <3> QED
      BY <3>2, <3>3, <3>4
  <2> QED
    BY <2>1, <2>3, <2>4
<1>3. ASSUME NEW p \in Publishers, FanOut(p) PROVE Typed'
  <2> DEFINE s == Head(pending[p])
  <2>1. /\ s \in Streams /\ pending' \in [Publishers -> Seq(Streams)]
        /\ event[p] \in Events
        /\ \A q \in Publishers : pending'[q] # << >> => pending[q] # << >>
    BY <1>3, Received DEF FanOut
  <2>2. Offer(s, event[p])
    BY <1>3 DEF FanOut
  <2> HIDE DEF s
  <2>3. UNCHANGED <<log, subscribers, event, handler, got, since, streamVars, received>>
    BY <2>2 DEF Offer
  <2>4. /\ queue' \in [Streams -> Seq(Events)]
        /\ \A t \in Streams : Len(queue'[t]) <= QueueSize
    <3>1. CASE queue' = queue
      BY <3>1
    <3>2. CASE /\ queue' = [queue EXCEPT ![s] = Append(@, event[p])]
               /\ ~(Len(queue[s]) >= QueueSize)
      <4>1. /\ Append(queue[s], event[p]) \in Seq(Events)
            /\ Len(Append(queue[s], event[p])) <= QueueSize
        BY <2>1, <3>2, Sent
      <4> QED
        BY <2>1, <3>2, <4>1
    <3> QED
      BY <2>2, <3>1, <3>2 DEF Offer
  <2>5. dropped' \in [Streams -> SUBSET Events]
    <3>1. CASE dropped' = dropped
      BY <3>1
    <3>2. CASE dropped' = [dropped EXCEPT ![s] = @ \cup {event[p]}]
      BY <2>1, <3>2
    <3> QED
      BY <2>2, <3>1, <3>2 DEF Offer
  <2> QED
    BY <2>1, <2>3, <2>4, <2>5
<1>4. ASSUME NEW s \in Streams, Register(s) PROVE Typed'
  <2>1. subscribers' \in Seq(Streams) /\ since' \in [Streams -> 0..MaxEvents]
    BY <1>4 DEF Register
  <2> QED
    BY <1>4, <2>1 DEF Register
<1>5. ASSUME NEW s \in Streams, Take(s) PROVE Typed'
  <2>1. /\ Head(queue[s]) \in Events /\ Tail(queue[s]) \in Seq(Events)
        /\ Len(Tail(queue[s])) <= QueueSize
    <3>1. /\ queue[s] # << >> /\ queue[s] \in Seq(Events)
          /\ Len(queue[s]) <= QueueSize
      BY <1>5 DEF Take
    <3>2. Len(Tail(queue[s])) = Len(queue[s]) - 1
      BY <3>1
    <3> QED
      BY <3>1, <3>2, Received, QueueSizeAssumption
  <2>2. /\ got' \in [Streams -> 0..MaxEvents] /\ queue' \in [Streams -> Seq(Events)]
        /\ \A t \in Streams : Len(queue'[t]) <= QueueSize
    <3>1. /\ got' = [got EXCEPT ![s] = Head(queue[s])]
          /\ queue' = [queue EXCEPT ![s] = Tail(queue[s])]
      BY <1>5 DEF Take
    <3>2. Head(queue[s]) \in 0..MaxEvents
      BY <2>1
    <3>3. got' \in [Streams -> 0..MaxEvents]
      BY <3>1, <3>2
    <3>4. queue' \in [Streams -> Seq(Events)]
      BY <2>1, <3>1
    <3>5. ASSUME NEW t \in Streams PROVE Len(queue'[t]) <= QueueSize
      BY <2>1, <3>1
    <3> QED
      BY <3>3, <3>4, <3>5
  <2>3. ASSUME NEW t \in Streams, handler'[t] = "send" PROVE got'[t] \in Events
    <3>1. CASE t = s
      BY <1>5, <2>1, <3>1 DEF Take
    <3>2. CASE t # s
      <4>1. handler[t] = "send" /\ got'[t] = got[t]
        BY <1>5, <2>3, <3>2 DEF Take
      <4> QED
        BY <4>1
    <3> QED
      BY <3>1, <3>2
  <2> QED
    BY <1>5, <2>2, <2>3 DEF Take
<1>6. ASSUME NEW s \in Streams, Send(s) PROVE Typed'
  <2>1. Append(stream[s], got[s]) \in Seq(Events) /\ Append(stream[s], got[s]) \in Seq(0..MaxEvents)
    BY <1>6, Sent DEF Send
  <2>2. /\ stream' \in [Streams -> Seq(0..MaxEvents)]
        /\ \A t \in Streams : stream'[t] \in Seq(Events)
    BY <1>6, <2>1 DEF Send, Transmit
  <2> QED
    BY <1>6, <2>2 DEF Send, Transmit
<1>7. ASSUME NEW s \in Streams, HandlerReturns(s) PROVE Typed'
  BY <1>7 DEF HandlerReturns
<1>8. ASSUME NEW s \in Streams, Subscribe(s) PROVE Typed'
  BY <1>8 DEF Subscribe, OpenStream
<1>9. ASSUME NEW s \in Streams, Recv(s) PROVE Typed'
  <2>1. /\ Head(stream[s]) \in Events /\ Tail(stream[s]) \in Seq(Events)
        /\ Tail(stream[s]) \in Seq(0..MaxEvents)
    BY <1>9, Received DEF Recv, Receive
  <2>2. /\ stream' \in [Streams -> Seq(0..MaxEvents)]
        /\ \A t \in Streams : stream'[t] \in Seq(Events)
    BY <1>9, <2>1 DEF Recv, Receive
  <2>4. doc' \in [Streams -> 0..MaxEvents]
    BY <1>9, <2>1 DEF Recv, Receive
  <2>3. ASSUME NEW t \in Streams, client'[t] = "offer" PROVE doc'[t] \in Events
    BY <1>9, <2>1, <2>3 DEF Recv, Receive
  <2> QED
    BY <1>9, <2>2, <2>3, <2>4 DEF Recv, Receive
<1>10. ASSUME NEW s \in Streams, Deliver(s) PROVE Typed'
  <2>1. Append(received[s], doc[s]) \in Seq(Events)
    BY <1>10, Sent DEF Deliver, HandOver
  <2>2. received' \in [Streams -> Seq(Events)]
    BY <1>10, <2>1 DEF Deliver
  <2> QED
    BY <1>10, <2>2 DEF Deliver, HandOver
<1>11. ASSUME NEW s \in Streams, Close(s) PROVE Typed'
  BY <1>11 DEF Close, CloseChannel
<1>12. ASSUME NEW s \in Streams, StreamEnds(s) PROVE Typed'
  BY <1>12 DEF StreamEnds, CancelContext, FailTransport
<1> QED
  BY <1>1, <1>2, <1>3, <1>4, <1>5, <1>6, <1>7, <1>8, <1>9, <1>10, <1>11, <1>12
  DEF Next, Handler, Forward

-----------------------------------------------------------------------------
(* The order of a path.                                                    *)

InOrder(events, q) ==
    \A m, n \in 1..Len(q) :
       m < n /\ events[q[m]].from = events[q[n]].from => q[m] < q[n]

(* What loses an event stays in order.                                     *)
LEMMA OrderWithout ==
    ASSUME NEW events, NEW a \in Seq(Events), NEW b \in Seq(Events), NEW x \in Events,
           InOrder(events, (a \o <<x>>) \o b)
    PROVE  InOrder(events, a \o b)
<1> DEFINE c == a \o <<x>>
           q == c \o b
           r == a \o b
           Up(m) == IF m <= Len(a) THEN m ELSE m + 1
<1>1. /\ c \in Seq(Events) /\ Len(c) = Len(a) + 1 /\ Len(a) \in Nat /\ Len(b) \in Nat
      /\ Len(q) = Len(a) + 1 + Len(b) /\ Len(r) = Len(a) + Len(b)
      /\ r \in Seq(Events) /\ \A i \in 1..Len(a) : c[i] = a[i]
  OBVIOUS
<1>2. ASSUME NEW m \in 1..Len(r) PROVE Up(m) \in 1..Len(q) /\ q[Up(m)] = r[m]
  <2>1. CASE m <= Len(a)
    BY <1>1, <2>1, Joined
  <2>2. CASE m > Len(a)
    <3>1. m - Len(a) \in 1..Len(b)
      BY <1>1, <2>2
    <3>2. /\ q[Len(c) + (m - Len(a))] = b[m - Len(a)]
          /\ r[Len(a) + (m - Len(a))] = b[m - Len(a)]
      BY <1>1, <3>1, Joined
    <3> QED
      BY <1>1, <2>2, <3>2
  <2> QED
    BY <1>1, <2>1, <2>2
<1>3. ASSUME NEW m \in 1..Len(r), NEW n \in 1..Len(r), m < n PROVE Up(m) < Up(n)
  BY <1>1, <1>3
<1> HIDE DEF Up, r, c
<1>4. \A m, n \in 1..Len(q) : m < n /\ events[q[m]].from = events[q[n]].from => q[m] < q[n]
  BY DEF InOrder, c
<1> HIDE DEF q
<1> QED
  BY <1>2, <1>3, <1>4 DEF InOrder, r

(* What gains its newest event at the end does, too.                       *)
LEMMA OrderAppended ==
    ASSUME NEW events, NEW a \in Seq(Events), NEW x \in Events, InOrder(events, a),
           \A y \in ToSet(a) : events[y].from = events[x].from => y < x
    PROVE  InOrder(events, a \o <<x>>)
<1> DEFINE q == a \o <<x>>
<1>1. /\ Len(a) \in Nat /\ Len(q) = Len(a) + 1 /\ q[Len(a) + 1] = x
      /\ \A i \in 1..Len(a) : q[i] = a[i] /\ a[i] \in ToSet(a)
  BY DEF ToSet
<1> HIDE DEF q
<1>2. ASSUME NEW m \in 1..Len(q), NEW n \in 1..Len(q), m < n,
             events[q[m]].from = events[q[n]].from
      PROVE  q[m] < q[n]
  <2>1. m \in 1..Len(a)
    BY <1>1, <1>2
  <2>2. CASE n \in 1..Len(a)
    BY <1>1, <1>2, <2>1, <2>2 DEF InOrder
  <2>3. CASE n = Len(a) + 1
    BY <1>1, <1>2, <2>1, <2>3
  <2> QED
    BY <1>1, <2>2, <2>3
<1> QED
  BY <1>2 DEF InOrder, q


-----------------------------------------------------------------------------
(* What becomes of a path.                                                 *)

(* A path is made of events.                                               *)
LEMMA PathTyped ==
    ASSUME Typed, NEW t \in Streams
    PROVE  /\ received[t] \in Seq(Events) /\ OnOffer(t) \in Seq(Events)
           /\ stream[t] \in Seq(Events) /\ BeingSent(t) \in Seq(Events)
           /\ queue[t] \in Seq(Events) /\ Path(t) \in Seq(Events)
<1>1. /\ received[t] \in Seq(Events) /\ stream[t] \in Seq(Events) /\ queue[t] \in Seq(Events)
  BY DEF Typed, TypeOK, Carried
<1>2. OnOffer(t) \in Seq(Events) /\ BeingSent(t) \in Seq(Events)
  BY Ends, Empty DEF Typed, Carried, OnOffer, BeingSent
<1> QED
  BY <1>1, <1>2 DEF Path

(* A path changes only where it is touched.                                *)
LEMMA PathParts ==
    ASSUME NEW t \in Streams, received'[t] = received[t], OnOffer(t)' = OnOffer(t),
           stream'[t] = stream[t], BeingSent(t)' = BeingSent(t), queue'[t] = queue[t]
    PROVE  Path(t)' = Path(t)
BY DEF Path

(* The parts that bear on one stream.                                      *)
Untouched(t) ==
    /\ received'[t] = received[t] /\ queue'[t] = queue[t]
    /\ handler'[t] = handler[t] /\ got'[t] = got[t]
    /\ stream'[t] = stream[t] /\ client'[t] = client[t] /\ doc'[t] = doc[t]

(* The path of a stream nobody touches stays as it is.                     *)
LEMMA PathUntouched ==
    ASSUME NEW t \in Streams, Untouched(t) PROVE Path(t)' = Path(t)
BY PathParts DEF Untouched, OnOffer, BeingSent

(* A path loses an event only when its stream has ended.                   *)
Loses(t) ==
    /\ Ended(t)
    /\ ToSet(Path(t)') \subseteq ToSet(Path(t))
    /\ InOrder(log, Path(t)) => InOrder(log, Path(t)')

(* An event that moves on leaves the path as it is.                        *)
LEMMA PathMoves ==
    ASSUME Typed, NEW s \in Streams, Take(s) \/ Send(s) \/ Recv(s) \/ Deliver(s)
    PROVE  Path(s)' = Path(s)
<1> DEFINE R == received[s]
           B == OnOffer(s)
           C == stream[s]
           D == BeingSent(s)
           E == queue[s]
<1> USE DEF Path
<1>1. R \in Seq(Events) /\ B \in Seq(Events) /\ C \in Seq(Events) /\ D \in Seq(Events)
      /\ E \in Seq(Events) /\ Typed
  BY PathTyped
<1> USE DEF busVars, serverVars, historyVars, streamVars, wireVars, clientVars, Goto, GotoClient
<1>2. CASE Take(s)
  <2> DEFINE h == Head(E)
  <2>1. /\ D = << >> /\ BeingSent(s)' = <<h>> /\ queue'[s] = Tail(E) /\ E # << >>
        /\ received' = received /\ stream' = stream /\ OnOffer(s)' = B
    BY <1>2 DEF Take, BeingSent, OnOffer, Typed, TypeOK
  <2>2. h \in Events /\ Tail(E) \in Seq(Events) /\ E = <<h>> \o Tail(E) /\ <<h>> \in Seq(Events)
    BY <1>1, <2>1, Ends, Received
  <2> DEFINE X == R \o B \o C
  <2>3. X \in Seq(Events)
    BY <1>1
  <2> HIDE DEF X, R, B, C, D, E, h
  <2>4. X \o D = X
    BY <2>1, <2>3, Empty
  <2>5. (X \o <<h>>) \o Tail(E) = X \o (<<h>> \o Tail(E))
    BY <2>2, <2>3, Associative
  <2> QED
    BY <2>1, <2>2, <2>4, <2>5 DEF X, R, B, C, D, E
<1>3. CASE Send(s)
  <2> DEFINE h == got[s]
  <2>1. /\ D = <<h>> /\ BeingSent(s)' = << >> /\ stream'[s] = Append(C, h) /\ h \in Events
        /\ received' = received /\ queue' = queue /\ OnOffer(s)' = B
    <3>1. handler[s] = "send" /\ handler'[s] = "select" /\ stream'[s] = Append(C, h)
      BY <1>3 DEF Send, Transmit, Typed, TypeOK, StreamTypeOK
    <3>2. UNCHANGED <<received, queue, client, doc>>
      BY <1>3 DEF Send, Transmit
    <3>3. h \in Events
      BY <3>1 DEF Typed, Carried
    <3> QED
      BY <3>1, <3>2, <3>3 DEF BeingSent, OnOffer
  <2>2. <<h>> \in Seq(Events) /\ Append(C, h) = C \o <<h>> /\ C \o <<h>> \in Seq(Events)
    <3> HIDE DEF C, h
    <3>1. C \in Seq(Events) /\ h \in Events
      BY <1>1, <2>1
    <3>2. <<h>> \in Seq(Events) /\ Append(C, h) = C \o <<h>>
      BY <3>1, Ends
    <3> QED
      BY <3>1, <3>2, Joined
  <2> DEFINE X == R \o B
  <2>3. X \in Seq(Events) /\ X \o (C \o <<h>>) \in Seq(Events)
    BY <1>1, <2>2
  <2> HIDE DEF X, R, B, C, D, E, h
  <2>4. (X \o (C \o <<h>>)) \o << >> = X \o (C \o <<h>>)
    BY <2>3, Empty
  <2>5. (X \o C) \o <<h>> = X \o (C \o <<h>>)
    <3>1. C \in Seq(Events) /\ <<h>> \in Seq(Events)
      BY <1>1, <2>2
    <3> QED
      BY <2>3, <3>1, Associative
  <2> QED
    BY <2>1, <2>2, <2>4, <2>5 DEF X, R, B, C, D, E
<1>4. CASE Recv(s)
  <2> DEFINE h == Head(C)
  <2>1. /\ B = << >> /\ OnOffer(s)' = <<h>> /\ stream'[s] = Tail(C) /\ C # << >>
        /\ received' = received /\ queue' = queue /\ BeingSent(s)' = D
    BY <1>4 DEF Recv, Receive, BeingSent, OnOffer, Typed, TypeOK, StreamTypeOK
  <2>2. h \in Events /\ Tail(C) \in Seq(Events) /\ C = <<h>> \o Tail(C) /\ <<h>> \in Seq(Events)
    BY <1>1, <2>1, Ends, Received
  <2> HIDE DEF R, B, C, D, E, h
  <2>3. R \o B = R
    BY <1>1, <2>1, Empty
  <2>4. (R \o <<h>>) \o Tail(C) = R \o (<<h>> \o Tail(C))
    <3>1. R \in Seq(Events) /\ <<h>> \in Seq(Events) /\ Tail(C) \in Seq(Events)
      BY <1>1, <2>2
    <3> QED
      BY <3>1, Associative
  <2> QED
    BY <2>1, <2>2, <2>3, <2>4 DEF R, B, C, D, E
<1>5. CASE Deliver(s)
  <2> DEFINE h == doc[s]
  <2>1. /\ B = <<h>> /\ OnOffer(s)' = << >> /\ received'[s] = Append(R, h) /\ h \in Events
        /\ stream' = stream /\ queue' = queue /\ BeingSent(s)' = D
    BY <1>5 DEF Deliver, HandOver, BeingSent, OnOffer, Typed, TypeOK, StreamTypeOK, Carried
  <2>2. Append(R, h) = R \o <<h>> /\ R \o <<h>> \in Seq(Events)
    <3>1. R \in Seq(Events)
      BY <1>1
    <3> HIDE DEF R, h
    <3>2. Append(R, h) = R \o <<h>>
      BY <2>1, <3>1, Ends
    <3>3. Append(R, h) \in Seq(Events)
      BY <2>1, <3>1, Sent
    <3> QED
      BY <3>2, <3>3
  <2> HIDE DEF R, B, C, D, E, h
  <2>3. (R \o <<h>>) \o << >> = R \o <<h>>
    BY <2>2, Empty
  <2> QED
    BY <2>1, <2>2, <2>3 DEF R, B, C, D, E
<1> QED
  BY <1>2, <1>3, <1>4, <1>5

(* What a forwarding goroutine or a handler had in hand when it ended is   *)
(* lost.                                                                   *)
LEMMA PathEnds ==
    ASSUME Typed, NEW s \in Streams, Close(s) \/ HandlerReturns(s)
    PROVE  Path(s)' = Path(s) \/ Loses(s)
<1> DEFINE R == received[s]
           B == OnOffer(s)
           C == stream[s]
           D == BeingSent(s)
           E == queue[s]
<1> USE DEF Path
<1>1. R \in Seq(Events) /\ B \in Seq(Events) /\ C \in Seq(Events) /\ D \in Seq(Events)
      /\ E \in Seq(Events) /\ Typed
  BY PathTyped
<1> USE DEF busVars, serverVars, historyVars, streamVars, wireVars, clientVars, Goto, GotoClient
<1>2. ASSUME NEW a \in Seq(Events), NEW b \in Seq(Events), NEW x \in Events, Ended(s),
             Path(s) = (a \o <<x>>) \o b, Path(s)' = a \o b
      PROVE  Loses(s)
  <2>1. <<x>> \in Seq(Events) /\ a \o <<x>> \in Seq(Events)
    BY Ends, Joined
  <2>2. ToSet(a \o b) = ToSet(a) \cup ToSet(b)
    BY Elements
  <2>3. ToSet((a \o <<x>>) \o b) = ToSet(a) \cup ToSet(<<x>>) \cup ToSet(b)
    <3>1. ToSet((a \o <<x>>) \o b) = ToSet(a \o <<x>>) \cup ToSet(b)
      BY <2>1, Elements
    <3>2. ToSet(a \o <<x>>) = ToSet(a) \cup ToSet(<<x>>)
      BY <2>1, Elements
    <3> QED
      BY <3>1, <3>2
  <2> HIDE DEF Path
  <2>4. ToSet(Path(s)') \subseteq ToSet(Path(s))
    BY <1>2, <2>2, <2>3
  <2>5. InOrder(log, Path(s)) => InOrder(log, Path(s)')
    BY <1>2, OrderWithout
  <2> QED
    BY <1>2, <2>4, <2>5 DEF Loses
<1>3. CASE Close(s)
  <2>1. received' = received /\ stream' = stream /\ queue' = queue /\ BeingSent(s)' = D
    BY <1>3 DEF Close, CloseChannel, BeingSent
  <2>2. CASE client[s] # "offer"
    <3>1. OnOffer(s)' = B
      BY <1>3, <2>2 DEF Close, CloseChannel, OnOffer, Typed, TypeOK, StreamTypeOK
    <3> QED
      BY <2>1, <3>1
  <2>3. CASE client[s] = "offer"
    <3> DEFINE x == doc[s]
    <3>1. B = <<x>> /\ OnOffer(s)' = << >> /\ x \in Events /\ Ended(s)
      BY <1>3, <2>3 DEF Close, CloseChannel, OnOffer, Ended, Typed, TypeOK, StreamTypeOK, Carried
    <3> DEFINE b == C \o (D \o E)
    <3>2. b \in Seq(Events) /\ <<x>> \in Seq(Events) /\ R \o <<x>> \in Seq(Events)
          /\ D \o E \in Seq(Events) /\ C \o D \in Seq(Events)
      BY <1>1, <3>1, Ends, Joined
    <3> HIDE DEF x, R, B, C, D, E
    <3>3. ASSUME NEW a \in Seq(Events) PROVE ((a \o C) \o D) \o E = a \o b
      <4>1. (a \o C) \o D = a \o (C \o D)
        BY <1>1, Associative
      <4>2. (a \o (C \o D)) \o E = a \o ((C \o D) \o E)
        <5>1. C \o D \in Seq(Events) /\ E \in Seq(Events)
          BY <1>1, <3>2
        <5> QED
          BY <5>1, Associative
      <4>3. (C \o D) \o E = C \o (D \o E)
        <5>1. C \in Seq(Events) /\ D \in Seq(Events) /\ E \in Seq(Events)
          BY <1>1
        <5> QED
          BY <5>1, Associative
      <4> QED
        BY <4>1, <4>2, <4>3
    <3>4. R \o << >> = R
      BY <1>1, Empty
    <3>5. Path(s) = (R \o <<x>>) \o b /\ Path(s)' = R \o b
      BY <1>1, <2>1, <3>1, <3>2, <3>3, <3>4 DEF R, B, C, D, E
    <3> HIDE DEF b
    <3> QED
      BY <1>1, <1>2, <3>1, <3>2, <3>5
  <2> QED
    BY <2>2, <2>3
<1>4. CASE HandlerReturns(s)
  <2>1. received' = received /\ stream' = stream /\ queue' = queue /\ OnOffer(s)' = B
    BY <1>4 DEF HandlerReturns, OnOffer
  <2>2. CASE handler[s] # "send"
    <3>1. BeingSent(s)' = D
      BY <1>4, <2>2 DEF HandlerReturns, BeingSent, Typed, TypeOK
    <3> QED
      BY <2>1, <3>1
  <2>3. CASE handler[s] = "send"
    <3> DEFINE x == got[s]
               a == R \o B \o C
    <3>1. D = <<x>> /\ BeingSent(s)' = << >> /\ x \in Events /\ Ended(s)
      BY <1>4, <2>3 DEF HandlerReturns, BeingSent, Typed, TypeOK, Carried
    <3>2. a \in Seq(Events)
      BY <1>1
    <3> HIDE DEF x, a, R, B, C, D, E
    <3>3. a \o << >> = a
      BY <3>2, Empty
    <3>4. Path(s) = (a \o <<x>>) \o E /\ Path(s)' = a \o E
      BY <2>1, <3>1, <3>3 DEF a, R, B, C, D, E
    <3> QED
      BY <1>1, <1>2, <3>1, <3>2, <3>4
  <2> QED
    BY <2>2, <2>3
<1> QED
  BY <1>3, <1>4


-----------------------------------------------------------------------------
(* The inductive invariant.                                                *)

(* A stream has one handler, which registers once.                         *)
Registered ==
    /\ \A s \in Streams :
          /\ client[s] = "off" <=> handler[s] = "off"
          /\ s \in ToSet(subscribers) <=> handler[s] \notin {"off", "register"}
          /\ since[s] <= Len(log)
    /\ IsInjective(subscribers)

(* A Publish under way offers the newest event of its publisher, to each   *)
(* of some subscribers that had registered before it, once.                *)
Publishing(p) ==
    pending[p] # << >> =>
        /\ IsInjective(pending[p])
        /\ ToSet(pending[p]) \subseteq ToSet(subscribers)
        /\ event[p] \in 1..Len(log)
        /\ log[event[p]].from = p
        /\ \A j \in 1..Len(log) : log[j].from = p => j <= event[p]
        /\ \A s \in ToSet(pending[p]) : since[s] < event[p]

Engaged == Registered /\ \A p \in Publishers : Publishing(p)

IInv == Typed /\ Engaged /\ PublisherOrder /\ Accounted

(* What it says of one subscriber.                                         *)
AccountedFor(s) ==
    /\ ToSet(Path(s)) \subseteq Owed(s) /\ dropped[s] \subseteq Owed(s)
    /\ ToSet(Path(s)) \cap dropped[s] = {}
    /\ Undecided(s) \cap ToSet(Path(s)) = {} /\ Undecided(s) \cap dropped[s] = {}
    /\ ~Ended(s) => Owed(s) \subseteq ToSet(Path(s)) \cup dropped[s] \cup Undecided(s)

(* The two properties, one subscriber at a time.                           *)
LEMMA OfOne ==
    /\ Accounted <=> \A s \in Streams : AccountedFor(s)
    /\ PublisherOrder <=> \A s \in Streams : InOrder(log, Path(s))
BY DEF Accounted, AccountedFor, PublisherOrder, InOrder, Contract!SamePublisher

(* The same after a step.                                                  *)
LEMMA OfOneNext ==
    /\ Accounted' <=> \A s \in Streams : AccountedFor(s)'
    /\ PublisherOrder' <=> \A s \in Streams : InOrder(log', Path(s)')
BY DEF Accounted, AccountedFor, PublisherOrder, InOrder, Contract!SamePublisher

(* Before the first call there is nothing on the bus.                      *)
LEMMA InitIInv == Init => IInv
<1> SUFFICES ASSUME Init PROVE IInv
  OBVIOUS
<1>1. /\ log = << >> /\ subscribers = << >>
      /\ \A s \in Streams :
            /\ received[s] = << >> /\ queue[s] = << >> /\ stream[s] = << >>
            /\ handler[s] = "off" /\ client[s] = "off" /\ since[s] = 0 /\ dropped[s] = {}
      /\ \A p \in Publishers : pending[p] = << >>
  BY DEF Init, StreamInit, Contract!EventInit
<1>2. Typed
  BY QueueSizeAssumption, MaxEventsAssumption
  DEF Init, StreamInit, Contract!EventInit, Typed, TypeOK, StreamTypeOK, Carried, Events
<1>3. Engaged
  BY <1>1 DEF Engaged, Registered, Publishing, IsInjective, ToSet
<1>4. ASSUME NEW s \in Streams PROVE Path(s) = << >> /\ Owed(s) = {} /\ Undecided(s) = {}
  <2>1. Path(s) = << >>
    BY <1>1 DEF Path, OnOffer, BeingSent
  <2>2. ToSet(<< >>) = {}
    BY DEF ToSet
  <2> QED
    BY <1>1, <2>1, <2>2 DEF Owed, Undecided
<1>5. ASSUME NEW s \in Streams PROVE AccountedFor(s) /\ InOrder(log, Path(s))
  <2>1. ToSet(Path(s)) = {} /\ Len(Path(s)) = 0
    BY <1>4 DEF ToSet
  <2>2. InOrder(log, Path(s))
    BY <2>1 DEF InOrder
  <2>3. dropped[s] = {}
    BY <1>1
  <2> QED
    BY <1>4, <2>1, <2>2, <2>3 DEF AccountedFor
<1> QED
  BY <1>2, <1>3, <1>5, OfOne DEF IInv

(* Steps on a stream leave what was published and offered alone.           *)
LEMMA Onward ==
    ASSUME IInv, UNCHANGED <<busVars, historyVars>>,
           \A t \in Streams : Path(t)' = Path(t) \/ Loses(t),
           \A t \in Streams : Ended(t) => Ended(t)'
    PROVE  PublisherOrder' /\ Accounted' /\ \A p \in Publishers : Publishing(p)'
<1>1. log' = log /\ subscribers' = subscribers /\ pending' = pending /\ event' = event
      /\ since' = since /\ dropped' = dropped
  BY DEF busVars, historyVars
<1>2. ASSUME NEW t \in Streams PROVE AccountedFor(t)' /\ InOrder(log', Path(t)')
  <2>1. Owed(t)' = Owed(t) /\ Undecided(t)' = Undecided(t)
    BY <1>1 DEF Owed, Undecided, Wants
  <2>2. AccountedFor(t) /\ InOrder(log, Path(t))
    BY OfOne DEF IInv
  <2>3. CASE Path(t)' = Path(t)
    BY <1>1, <2>1, <2>2, <2>3 DEF AccountedFor
  <2>4. CASE Loses(t)
    <3>1. Ended(t)' /\ ToSet(Path(t)') \subseteq ToSet(Path(t)) /\ InOrder(log, Path(t)')
      BY <2>2, <2>4 DEF Loses
    <3>2. dropped'[t] = dropped[t] /\ ToSet(Path(t))' = ToSet(Path(t)')
      BY <1>1
    <3> QED
      BY <1>1, <2>1, <2>2, <3>1, <3>2 DEF AccountedFor
  <2> QED
    BY <2>3, <2>4
<1>3. ASSUME NEW p \in Publishers PROVE Publishing(p)'
  BY <1>1 DEF IInv, Engaged, Publishing
<1> QED
  BY <1>2, <1>3, OfOneNext

(* A handler, a forwarding goroutine, a module or the end of a stream.     *)
LEMMA StreamStep ==
    ASSUME IInv, NEW s \in Streams,
           \/ Take(s) \/ Send(s) \/ HandlerReturns(s) \/ Recv(s) \/ Deliver(s)
           \/ Close(s) \/ Subscribe(s) \/ StreamEnds(s)
    PROVE  Engaged' /\ PublisherOrder' /\ Accounted'
<1> USE DEF busVars, serverVars, historyVars, streamVars, wireVars, clientVars, Goto, GotoClient
<1>0. Typed
  BY DEF IInv
<1>1. UNCHANGED <<busVars, historyVars>>
  BY DEF Take, Send, HandlerReturns, Recv, Deliver, Close, Subscribe, StreamEnds,
         CancelContext, FailTransport, Transmit, Receive, HandOver, CloseChannel, OpenStream
<1>2. \A t \in Streams \ {s} : Untouched(t)
  <2> USE <1>0 DEF Untouched, Typed, TypeOK, StreamTypeOK
  <2>1. CASE Take(s)
    BY <2>1 DEF Take
  <2>2. CASE Send(s)
    BY <2>2 DEF Send, Transmit
  <2>3. CASE HandlerReturns(s)
    BY <2>3 DEF HandlerReturns
  <2>4. CASE Recv(s)
    BY <2>4 DEF Recv, Receive
  <2>5. CASE Deliver(s)
    BY <2>5 DEF Deliver, HandOver
  <2>6. CASE Close(s)
    BY <2>6 DEF Close, CloseChannel
  <2>7. CASE Subscribe(s)
    BY <2>7 DEF Subscribe, OpenStream
  <2>8. CASE StreamEnds(s)
    BY <2>8 DEF StreamEnds, CancelContext, FailTransport
  <2> QED
    BY <2>1, <2>2, <2>3, <2>4, <2>5, <2>6, <2>7, <2>8
<1>3. Path(s)' = Path(s) \/ Loses(s)
  <2>1. CASE Subscribe(s) \/ StreamEnds(s)
    <3>1. /\ received'[s] = received[s] /\ stream'[s] = stream[s] /\ queue'[s] = queue[s]
          /\ OnOffer(s)' = OnOffer(s) /\ BeingSent(s)' = BeingSent(s)
      BY <1>0, <2>1 DEF Subscribe, OpenStream, StreamEnds, CancelContext, FailTransport,
         OnOffer, BeingSent, Typed, TypeOK, StreamTypeOK, IInv, Engaged, Registered
    <3> QED
      BY <3>1, PathParts
  <2> QED
    BY <1>0, <2>1, PathMoves, PathEnds
<1>4. \A t \in Streams : Path(t)' = Path(t) \/ Loses(t)
  BY <1>2, <1>3, PathUntouched
<1>5. \A t \in Streams : Ended(t) => Ended(t)'
  <2> USE <1>0 DEF Ended, Typed, TypeOK, StreamTypeOK
  <2>1. CASE Take(s)
    BY <2>1 DEF Take
  <2>2. CASE Send(s)
    BY <2>2 DEF Send, Transmit
  <2>3. CASE HandlerReturns(s)
    BY <2>3 DEF HandlerReturns
  <2>4. CASE Recv(s)
    BY <2>4 DEF Recv, Receive
  <2>5. CASE Deliver(s)
    BY <2>5 DEF Deliver, HandOver
  <2>6. CASE Close(s)
    BY <2>6 DEF Close, CloseChannel
  <2>7. CASE Subscribe(s)
    BY <2>7 DEF Subscribe, OpenStream
  <2>8. CASE StreamEnds(s)
    BY <2>8 DEF StreamEnds, CancelContext, FailTransport
  <2> QED
    BY <2>1, <2>2, <2>3, <2>4, <2>5, <2>6, <2>7, <2>8
<1>6. Registered'
  <2>1. \A t \in Streams :
           /\ client'[t] = "off" <=> handler'[t] = "off"
           /\ handler'[t] \in {"off", "register"} <=> handler[t] \in {"off", "register"}
    <3> USE <1>0 DEF Typed, TypeOK, StreamTypeOK, IInv, Engaged, Registered
    <3>1. CASE Take(s)
      BY <3>1 DEF Take
    <3>2. CASE Send(s)
      BY <3>2 DEF Send, Transmit
    <3>3. CASE HandlerReturns(s)
      BY <3>3 DEF HandlerReturns
    <3>4. CASE Recv(s)
      BY <3>4 DEF Recv, Receive
    <3>5. CASE Deliver(s)
      BY <3>5 DEF Deliver, HandOver
    <3>6. CASE Close(s)
      BY <3>6 DEF Close, CloseChannel
    <3>7. CASE Subscribe(s)
      BY <3>7 DEF Subscribe, OpenStream
    <3>8. CASE StreamEnds(s)
      BY <3>8 DEF StreamEnds, CancelContext, FailTransport
    <3> QED
      BY <3>1, <3>2, <3>3, <3>4, <3>5, <3>6, <3>7, <3>8
  <2> QED
    BY <1>1, <2>1 DEF IInv, Engaged, Registered
<1> HIDE DEF busVars, historyVars
<1>7. PublisherOrder' /\ Accounted' /\ \A p \in Publishers : Publishing(p)'
  BY <1>1, <1>4, <1>5, Onward
<1> QED
  BY <1>6, <1>7 DEF Engaged


(* Steps that leave every stream alone leave every path alone.             *)
LEMMA PathsStill ==
    ASSUME UNCHANGED <<received, queue, got, stream, client, doc>>,
           \A t \in Streams : BeingSent(t)' = BeingSent(t)
    PROVE  \A t \in Streams : Path(t)' = Path(t)
BY PathParts DEF OnOffer

(* A handler registers: what is published from now on is owed to it.       *)
LEMMA RegisterStep ==
    ASSUME IInv, NEW s \in Streams, Register(s)
    PROVE  Engaged' /\ PublisherOrder' /\ Accounted'
<1>1. /\ handler[s] = "register" /\ handler' = [handler EXCEPT ![s] = "select"]
      /\ subscribers' = Append(subscribers, s) /\ since' = [since EXCEPT ![s] = Len(log)]
      /\ UNCHANGED <<log, pending, event, queue, got, dropped, stream, ctx, transport, client, doc, received>>
  BY DEF Register, Goto, streamVars, wireVars, clientVars
<1>2. Typed /\ Engaged /\ s \notin ToSet(subscribers) /\ Len(log) \in Nat
      /\ subscribers \in Seq(Streams)
      /\ handler \in [Streams -> {"off", "register", "select", "send", "returned"}]
      /\ since \in [Streams -> 0..MaxEvents]
  BY <1>1 DEF IInv, Engaged, Registered, Typed, TypeOK
<1>3. ToSet(subscribers') = ToSet(subscribers) \cup {s} /\ IsInjective(subscribers')
  <2>1. /\ Len(subscribers) \in Nat /\ Len(subscribers') = Len(subscribers) + 1
        /\ subscribers' \in Seq(Streams)
        /\ \A i \in 1..Len(subscribers) : subscribers'[i] = subscribers[i]
        /\ subscribers'[Len(subscribers) + 1] = s
    BY <1>1, <1>2
  <2>2. DOMAIN subscribers = 1..Len(subscribers) /\ DOMAIN subscribers' = 1..(Len(subscribers) + 1)
    BY <1>2, <2>1
  <2>3. IsInjective(subscribers)
    BY <1>2 DEF Engaged, Registered
  <2>4. \A i \in 1..Len(subscribers) : subscribers'[i] # s
    BY <1>2, <2>1, <2>2 DEF ToSet
  <2>5. IsInjective(subscribers')
    BY <2>1, <2>2, <2>3, <2>4 DEF IsInjective
  <2>6. ToSet(subscribers') = ToSet(subscribers) \cup {s}
    BY <2>1, <2>2 DEF ToSet
  <2> QED
    BY <2>5, <2>6
<1>4. Registered'
  <2>1. ASSUME NEW t \in Streams
        PROVE  /\ client'[t] = "off" <=> handler'[t] = "off"
               /\ t \in ToSet(subscribers') <=> handler'[t] \notin {"off", "register"}
               /\ since'[t] <= Len(log')
    BY <1>1, <1>2, <1>3 DEF Engaged, Registered
  <2> QED
    BY <1>3, <2>1 DEF Registered
<1>5. ASSUME NEW p \in Publishers PROVE Publishing(p)'
  <2>1. CASE pending[p] = << >>
    BY <1>1, <2>1 DEF Publishing
  <2>2. CASE pending[p] # << >>
    <3>1. Publishing(p)
      BY <1>2 DEF Engaged
    <3>2. \A t \in ToSet(pending[p]) : since'[t] = since[t]
      BY <1>1, <1>2, <2>2, <3>1 DEF Publishing
    <3> QED
      BY <1>1, <1>3, <2>2, <3>1, <3>2 DEF Publishing
  <2> QED
    BY <2>1, <2>2
<1>6. \A t \in Streams : Path(t)' = Path(t)
  <2>1. \A t \in Streams : BeingSent(t)' = BeingSent(t)
    BY <1>1, <1>2 DEF BeingSent
  <2> QED
    BY <1>1, <2>1, PathsStill
<1>7. ASSUME NEW t \in Streams PROVE AccountedFor(t)' /\ InOrder(log', Path(t)')
  <2>1. AccountedFor(t) /\ InOrder(log, Path(t))
    BY OfOne DEF IInv
  <2>2. Undecided(t)' = Undecided(t) /\ Ended(t)' = Ended(t) /\ dropped'[t] = dropped[t]
    BY <1>1 DEF Undecided, Ended
  <2>3. Owed(t)' = Owed(t)
    <3>1. CASE t = s
      <4>1. Owed(t) = {}
        BY <1>2, <3>1 DEF Owed
      <4>2. since'[t] = Len(log)
        BY <1>1, <1>2, <3>1
      <4>3. Owed(t)' = {}
        BY <1>1, <1>2, <4>2 DEF Owed
      <4> QED
        BY <4>1, <4>3
    <3>2. CASE t # s
      <4>1. since'[t] = since[t] /\ (t \in ToSet(subscribers') <=> t \in ToSet(subscribers))
        BY <1>1, <1>2, <1>3, <3>2
      <4> QED
        BY <1>1, <4>1 DEF Owed, Wants
    <3> QED
      BY <3>1, <3>2
  <2> QED
    BY <1>1, <1>6, <2>1, <2>2, <2>3 DEF AccountedFor
<1> QED
  BY <1>4, <1>5, <1>7, OfOneNext DEF Engaged

(* An event is published: it is owed to those registered by then, and no   *)
(* path is touched.                                                        *)
LEMMA PublishStep ==
    ASSUME IInv, NEW p \in Publishers, NEW topic \in Topics, Publish(p, topic)
    PROVE  Engaged' /\ PublisherOrder' /\ Accounted'
<1> DEFINE n == Len(log) + 1
           r == [from |-> p, topic |-> Contract!BusTopic(p, topic)]
<1>1. /\ pending[p] = << >> /\ log' = Append(log, r)
      /\ pending' = [pending EXCEPT ![p] = subscribers]
      /\ event' = [event EXCEPT ![p] = n]
      /\ UNCHANGED <<subscribers, queue, handler, got, since, dropped,
                     stream, ctx, transport, client, doc, received>>
  BY DEF Publish, Contract!Emit, streamVars, wireVars, clientVars, serverVars, historyVars
<1>2. Typed /\ Engaged /\ Len(log) \in Nat /\ r.from = p
      /\ log \in Seq([from : Publishers, topic : BusTopics])
      /\ pending \in [Publishers -> Seq(Streams)] /\ event \in [Publishers -> 0..MaxEvents]
      /\ since \in [Streams -> 0..MaxEvents]
      /\ subscribers \in Seq(Streams)
  BY DEF IInv, Engaged, Typed, TypeOK
<1> HIDE DEF r
<1>3. /\ Len(log') = n /\ log'[n] = r /\ n \in Nat /\ n > Len(log)
      /\ \A i \in 1..Len(log) : log'[i] = log[i]
  <2>1. r \in [from : Publishers, topic : BusTopics]
    BY DEF r, BusTopics
  <2> QED
    BY <1>1, <1>2, <2>1
<1>4. Registered'
  <2>1. \A s \in Streams : since[s] <= n
    BY <1>2, <1>3 DEF Engaged, Registered
  <2> QED
    BY <1>1, <1>2, <1>3, <2>1 DEF Engaged, Registered
<1>5. ASSUME NEW q \in Publishers PROVE Publishing(q)'
  <2>1. CASE q = p
    <3>1. pending'[q] = subscribers /\ event'[q] = n
      BY <1>1, <1>2, <2>1
    <3>2. IsInjective(subscribers) /\ \A s \in ToSet(subscribers) : since'[s] < n
      <4>1. \A s \in ToSet(subscribers) : s \in Streams
        BY <1>2 DEF ToSet
      <4> QED
        BY <1>1, <1>2, <4>1 DEF Engaged, Registered
    <3>3. n \in 1..Len(log') /\ log'[n].from = q
      BY <1>2, <1>3, <2>1
    <3>4. \A j \in 1..Len(log') : j <= n
      BY <1>3
    <3> QED
      BY <1>1, <3>1, <3>2, <3>3, <3>4 DEF Publishing
  <2>2. CASE q # p
    <3>1. pending'[q] = pending[q] /\ event'[q] = event[q] /\ Publishing(q)
      BY <1>1, <1>2, <2>2 DEF Engaged
    <3>2. CASE pending[q] # << >>
      <4>1. event[q] \in 1..Len(log') /\ log'[event[q]].from = q
        BY <1>3, <3>1, <3>2 DEF Publishing
      <4>2. ASSUME NEW j \in 1..Len(log'), log'[j].from = q PROVE j <= event[q]
        <5>1. j # n
          BY <1>2, <1>3, <2>2, <4>2
        <5>2. j \in 1..Len(log) /\ log[j].from = q
          <6>1. j \in 1..Len(log)
            BY <1>2, <1>3, <4>2, <5>1
          <6>2. log'[j] = log[j]
            BY <1>3, <6>1
          <6> QED
            BY <4>2, <6>1, <6>2
        <5> QED
          BY <3>1, <3>2, <5>2 DEF Publishing
      <4> QED
        BY <1>1, <3>1, <3>2, <4>1, <4>2 DEF Publishing
    <3> QED
      BY <3>1, <3>2 DEF Publishing
  <2> QED
    BY <2>1, <2>2
<1>6. \A t \in Streams : Path(t)' = Path(t)
  <2>1. \A t \in Streams : BeingSent(t)' = BeingSent(t)
    BY <1>1 DEF BeingSent
  <2> QED
    BY <1>1, <2>1, PathsStill
<1>7. ASSUME NEW t \in Streams PROVE AccountedFor(t)' /\ InOrder(log', Path(t)')
  <2>1. AccountedFor(t) /\ InOrder(log, Path(t))
    BY OfOne DEF IInv
  <2>2. Ended(t)' = Ended(t) /\ dropped'[t] = dropped[t] /\ since'[t] = since[t]
        /\ since[t] \in Nat
    BY <1>1, <1>2 DEF Ended
  <2>3. /\ Owed(t) \subseteq 1..Len(log)
        /\ Owed(t) \subseteq Owed(t)'
        /\ Owed(t)' \subseteq Owed(t) \cup {i \in {n} : t \in ToSet(subscribers)}
    <3>1. Owed(t) \subseteq 1..Len(log)
      BY <1>2, <2>2 DEF Owed
    <3>2. ASSUME NEW i \in 1..Len(log) PROVE i \in Owed(t)' <=> i \in Owed(t)
      <4>1. Wants(t, i)' <=> Wants(t, i)
        BY <1>3, <3>2 DEF Wants
      <4>2. i \in (since[t] + 1)..Len(log) <=> i \in (since[t] + 1)..Len(log')
        BY <1>2, <1>3, <2>2, <3>2
      <4> QED
        BY <1>1, <2>2, <4>1, <4>2 DEF Owed
    <3>3. ASSUME NEW i \in Owed(t)' PROVE i \in 1..Len(log) \/ (i = n /\ t \in ToSet(subscribers))
      <4>1. i \in (since[t] + 1)..n /\ t \in ToSet(subscribers)
        BY <1>1, <1>3, <2>2 DEF Owed
      <4> QED
        BY <1>2, <2>2, <4>1
    <3> QED
      BY <3>1, <3>2, <3>3
  <2>4. Undecided(t)' = Undecided(t) \cup {i \in {n} : t \in ToSet(subscribers)}
    <3>1. /\ pending'[p] = subscribers /\ event'[p] = n
          /\ \A q \in Publishers \ {p} : pending'[q] = pending[q] /\ event'[q] = event[q]
      BY <1>1, <1>2
    <3>2. t \notin ToSet(pending[p])
      BY <1>1 DEF ToSet
    <3> QED
      BY <3>1, <3>2 DEF Undecided
  <2>5. n \notin ToSet(Path(t)) /\ n \notin dropped[t]
    BY <1>2, <1>3, <2>1, <2>3 DEF AccountedFor
  <2>6. AccountedFor(t)'
    BY <1>6, <2>1, <2>2, <2>3, <2>4, <2>5 DEF AccountedFor
  <2>7. InOrder(log', Path(t))
    <3>1. \A m \in 1..Len(Path(t)) : Path(t)[m] \in ToSet(Path(t))
      BY <1>2, PathTyped DEF ToSet
    <3>2. \A m \in 1..Len(Path(t)) : log'[Path(t)[m]] = log[Path(t)[m]]
      BY <1>3, <2>1, <2>3, <3>1 DEF AccountedFor
    <3> QED
      BY <2>1, <3>2 DEF InOrder
  <2> QED
    BY <1>6, <2>6, <2>7
<1> QED
  BY <1>4, <1>5, <1>7, OfOneNext DEF Engaged


(* An event is offered to one subscriber: it joins the end of its path, or *)
(* it is dropped, or it is not for it.                                     *)
LEMMA FanOutStep ==
    ASSUME IInv, NEW p \in Publishers, FanOut(p)
    PROVE  Engaged' /\ PublisherOrder' /\ Accounted'
<1>0. /\ pending[p] # << >> /\ Head(pending[p]) \in Streams /\ event[p] \in Events
  BY Received DEF FanOut, IInv, Typed, TypeOK, Carried
<1>s. PICK s \in Streams : s = Head(pending[p])
  BY <1>0
<1>i. PICK i \in Events : i = event[p]
  BY <1>0
<1>1. /\ pending[p] # << >> /\ pending' = [pending EXCEPT ![p] = Tail(@)]
      /\ Offer(s, i)
      /\ UNCHANGED <<log, subscribers, event, handler, got, since,
                     stream, ctx, transport, client, doc, received>>
  BY <1>s, <1>i DEF FanOut, Offer, streamVars, wireVars, clientVars
<1>2. Typed /\ Engaged /\ Publishing(p) /\ Len(log) \in Nat
      /\ pending \in [Publishers -> Seq(Streams)]
      /\ queue \in [Streams -> Seq(Events)] /\ dropped \in [Streams -> SUBSET Events]
      /\ since \in [Streams -> 0..MaxEvents]
  BY DEF IInv, Engaged, Typed, TypeOK
<1>3. /\ s \in Streams /\ s \in ToSet(pending[p])
      /\ ToSet(Tail(pending[p])) = ToSet(pending[p]) \ {s}
      /\ IsInjective(Tail(pending[p]))
  <2> DEFINE q == pending[p]
  <2>1. q \in Seq(Streams) /\ q # << >> /\ IsInjective(q)
    BY <1>1, <1>2 DEF Publishing
  <2> HIDE DEF q
  <2>2. /\ Len(q) \in Nat /\ Len(q) > 0 /\ Head(q) = q[1] /\ Head(q) \in Streams
        /\ Len(Tail(q)) = Len(q) - 1 /\ Tail(q) \in Seq(Streams)
        /\ \A k \in 1..(Len(q) - 1) : Tail(q)[k] = q[k + 1]
    BY <2>1
  <2>3. DOMAIN q = 1..Len(q) /\ DOMAIN Tail(q) = 1..(Len(q) - 1)
    BY <2>1, <2>2
  <2>4. \A k, l \in 1..Len(q) : q[k] = q[l] => k = l
    BY <2>1, <2>3 DEF IsInjective
  <2>5. IsInjective(Tail(q))
    <3> SUFFICES ASSUME NEW k \in 1..(Len(q) - 1), NEW l \in 1..(Len(q) - 1),
                        Tail(q)[k] = Tail(q)[l]
                 PROVE  k = l
      BY <2>3 DEF IsInjective
    <3>1. q[k + 1] = q[l + 1] /\ k + 1 \in 1..Len(q) /\ l + 1 \in 1..Len(q)
      BY <2>2
    <3>2. k + 1 = l + 1
      BY <2>4, <3>1
    <3> QED
      BY <3>2
  <2>6. Head(q) \in ToSet(q)
    BY <2>2, <2>3 DEF ToSet
  <2>7. ASSUME NEW x PROVE x \in ToSet(Tail(q)) <=> x \in ToSet(q) /\ x # Head(q)
    <3>1. ASSUME x \in ToSet(Tail(q)) PROVE x \in ToSet(q) /\ x # Head(q)
      <4>1. PICK k \in 1..(Len(q) - 1) : x = Tail(q)[k]
        BY <2>3, <3>1 DEF ToSet
      <4>2. x = q[k + 1] /\ k + 1 \in 1..Len(q) /\ k + 1 # 1 /\ 1 \in 1..Len(q)
        BY <2>2, <4>1
      <4> QED
        BY <2>2, <2>3, <2>4, <4>2 DEF ToSet
    <3>2. ASSUME x \in ToSet(q), x # Head(q) PROVE x \in ToSet(Tail(q))
      <4>1. PICK k \in 1..Len(q) : x = q[k]
        BY <2>3, <3>2 DEF ToSet
      <4>2. k - 1 \in 1..(Len(q) - 1) /\ k = (k - 1) + 1
        BY <2>2, <3>2, <4>1
      <4>3. Tail(q)[k - 1] = x
        BY <2>2, <4>1, <4>2
      <4> QED
        BY <2>3, <4>2, <4>3 DEF ToSet
    <3> QED
      BY <3>1, <3>2
  <2> QED
    BY <1>s, <2>2, <2>5, <2>6, <2>7 DEF q
<1>4. /\ i \in 1..Len(log) /\ log[i].from = p /\ s \in ToSet(subscribers)
      /\ since[s] < i /\ i \in Events
      /\ \A j \in 1..Len(log) : log[j].from = p => j <= i
  BY <1>1, <1>2, <1>3, <1>i DEF Publishing
<1>5. Registered'
  BY <1>1, <1>2 DEF Engaged, Registered
<1>6. ASSUME NEW q \in Publishers PROVE Publishing(q)'
  <2>1. Publishing(q)
    BY <1>2 DEF Engaged
  <2>2. CASE q = p
    <3>1. pending'[q] = Tail(pending[p])
      BY <1>1, <1>2, <2>2
    <3> QED
      BY <1>1, <1>3, <2>1, <2>2, <3>1 DEF Publishing
  <2>3. CASE q # p
    <3>1. pending'[q] = pending[q]
      BY <1>1, <1>2, <2>3
    <3> QED
      BY <1>1, <2>1, <3>1 DEF Publishing
  <2> QED
    BY <2>2, <2>3
<1>7. ASSUME NEW t \in Streams
      PROVE  /\ OnOffer(t)' = OnOffer(t) /\ BeingSent(t)' = BeingSent(t)
             /\ Owed(t)' = Owed(t) /\ Ended(t)' = Ended(t)
             /\ AccountedFor(t) /\ InOrder(log, Path(t))
  BY <1>1, OfOne DEF OnOffer, BeingSent, Owed, Wants, Ended, IInv
<1>8. ASSUME NEW t \in Streams, t # s PROVE AccountedFor(t)' /\ InOrder(log', Path(t)')
  <2>1. queue'[t] = queue[t] /\ dropped'[t] = dropped[t]
    BY <1>1, <1>2, <1>8 DEF Offer
  <2>2. Path(t)' = Path(t)
    BY <1>1, <1>7, <2>1, PathParts
  <2>3. \A q \in Publishers : t \in ToSet(pending'[q]) <=> t \in ToSet(pending[q])
    BY <1>1, <1>2, <1>3, <1>8
  <2>4. Undecided(t)' = Undecided(t)
    BY <1>1, <2>3 DEF Undecided
  <2> QED
    BY <1>1, <1>7, <2>1, <2>2, <2>4 DEF AccountedFor
<1>9. AccountedFor(s)' /\ InOrder(log', Path(s)')
  <2>1. Undecided(s)' = Undecided(s) \ {i} /\ i \in Undecided(s)
    <3>1. \A q \in Publishers : s \in ToSet(pending'[q]) <=> q # p /\ s \in ToSet(pending[q])
      BY <1>1, <1>2, <1>3
    <3>2. ASSUME NEW q \in Publishers, q # p, s \in ToSet(pending[q]) PROVE event[q] # i
      <4>1. pending[q] # << >>
        BY <3>2 DEF ToSet
      <4>2. log[event[q]].from = q
        BY <1>2, <4>1 DEF Engaged, Publishing
      <4> QED
        BY <1>4, <3>2, <4>2
    <3>3. ASSUME NEW x
          PROVE  /\ x \in Undecided(s) <=>
                      \E q \in Publishers : s \in ToSet(pending[q]) /\ x = event[q]
                 /\ x \in Undecided(s)' <=>
                      \E q \in Publishers : s \in ToSet(pending'[q]) /\ x = event[q]
      BY <1>1 DEF Undecided
    <3> HIDE DEF Undecided
    <3>4. i \in Undecided(s)
      BY <1>3, <1>i, <3>3
    <3>5. ASSUME NEW x PROVE x \in Undecided(s)' <=> x \in Undecided(s) /\ x # i
      BY <1>i, <3>1, <3>2, <3>3
    <3> QED
      BY <3>4, <3>5
  <2>2. i \notin ToSet(Path(s)) /\ i \notin dropped[s]
    BY <1>3, <1>7, <2>1 DEF AccountedFor
  <2>3. i \in Owed(s) <=> Wants(s, i)
    BY <1>2, <1>3, <1>4 DEF Owed
  <2>4. CASE Wants(s, i) /\ ~(Len(queue[s]) >= QueueSize)
    <3>1. /\ queue'[s] = Append(queue[s], i) /\ dropped' = dropped
          /\ queue[s] \in Seq(Events)
      BY <1>1, <1>2, <1>3, <2>4 DEF Offer
    <3> DEFINE X == received[s] \o OnOffer(s) \o stream[s] \o BeingSent(s)
    <3>2. /\ X \in Seq(Events) /\ Path(s) \in Seq(Events) /\ Path(s) = X \o queue[s]
      BY <1>2, <1>3, PathTyped DEF Path
    <3>3. Path(s)' = X \o queue'[s]
      BY <1>1, <1>3, <1>7 DEF Path
    <3> HIDE DEF X
    <3>4. <<i>> \in Seq(Events) /\ ToSet(<<i>>) = {i} /\ Append(queue[s], i) = queue[s] \o <<i>>
      <4>1. \A a \in Seq(Events) : Append(a, i) = a \o <<i>>
        BY Ends
      <4>2. <<i>> \in Seq(Events) /\ ToSet(<<i>>) = {i}
        BY Single
      <4> QED
        BY <3>1, <4>1, <4>2
    <3>5. Path(s)' = Path(s) \o <<i>>
      <4>1. (X \o queue[s]) \o <<i>> = X \o (queue[s] \o <<i>>)
        BY <3>1, <3>2, <3>4, Associative
      <4> QED
        BY <3>1, <3>2, <3>3, <3>4, <4>1
    <3>6. ToSet(Path(s)') = ToSet(Path(s)) \cup {i}
      <4>1. ToSet(Path(s) \o <<i>>) = ToSet(Path(s)) \cup ToSet(<<i>>)
        BY <3>2, <3>4, Elements
      <4> QED
        BY <3>4, <3>5, <4>1
    <3>7. \A j \in ToSet(Path(s)) : log[j].from = log[i].from => j < i
      <4>1. ToSet(Path(s)) \subseteq 1..Len(log)
        BY <1>2, <1>3, <1>7 DEF AccountedFor, Owed
      <4> QED
        BY <1>4, <2>2, <4>1
    <3>8. InOrder(log, Path(s) \o <<i>>)
      BY <1>3, <1>4, <1>7, <3>2, <3>7, OrderAppended
    <3>9. AccountedFor(s)'
      BY <1>3, <1>7, <2>1, <2>2, <2>3, <2>4, <3>1, <3>6 DEF AccountedFor
    <3> QED
      BY <1>1, <3>5, <3>8, <3>9
  <2>5. CASE ~(Wants(s, i) /\ ~(Len(queue[s]) >= QueueSize))
    <3>1. queue' = queue
      BY <1>1, <2>5 DEF Offer
    <3>2. Path(s)' = Path(s)
      BY <1>1, <1>3, <1>7, <3>1, PathParts
    <3>3. dropped'[s] = IF Wants(s, i) THEN dropped[s] \cup {i} ELSE dropped[s]
      BY <1>1, <1>2, <1>3, <2>5 DEF Offer
    <3>4. AccountedFor(s)'
      BY <1>3, <1>7, <2>1, <2>2, <2>3, <3>2, <3>3 DEF AccountedFor
    <3> QED
      BY <1>1, <1>3, <1>7, <3>2, <3>4
  <2> QED
    BY <2>4, <2>5
<1> QED
  BY <1>5, <1>6, <1>8, <1>9, OfOneNext DEF Engaged

(* Nothing happens.                                                        *)
LEMMA StutterStep ==
    ASSUME IInv, UNCHANGED vars PROVE Engaged' /\ PublisherOrder' /\ Accounted'
<1>1. /\ UNCHANGED <<busVars, historyVars>>
      /\ \A t \in Streams : Untouched(t)
      /\ \A t \in Streams : Ended(t) => Ended(t)'
      /\ UNCHANGED <<client, handler, subscribers, since, log>>
  BY DEF vars, busVars, serverVars, historyVars, streamVars, wireVars, clientVars, Untouched, Ended
<1>2. PublisherOrder' /\ Accounted' /\ \A p \in Publishers : Publishing(p)'
  BY <1>1, PathUntouched, Onward
<1>3. Registered'
  BY <1>1 DEF IInv, Engaged, Registered
<1> QED
  BY <1>2, <1>3 DEF Engaged

(* Types, registrations, order and account are preserved together.         *)
THEOREM Invariance == Spec => []IInv
<1>1. ASSUME IInv, [Next]_vars PROVE IInv'
  <2>1. Typed'
    BY <1>1, TypeStep DEF IInv
  <2>2. Engaged' /\ PublisherOrder' /\ Accounted'
    <3>1. CASE UNCHANGED vars
      BY <1>1, <3>1, StutterStep
    <3>2. CASE Next
      BY <1>1, <3>2, FanOutStep, PublishStep, RegisterStep, StreamStep
      DEF Next, Handler, Forward
    <3> QED
      BY <1>1, <3>1, <3>2
  <2> QED
    BY <2>1, <2>2 DEF IInv
<1> QED
  BY <1>1, InitIInv, PTL DEF Spec

(* Every state of the bus is well typed.                                   *)
THEOREM TypeCorrect == Spec => []TypeOK
<1>1. IInv => TypeOK
  BY DEF IInv, Typed
<1> QED
  BY <1>1, Invariance, PTL

-----------------------------------------------------------------------------
(* The properties.                                                         *)

(* No event overtakes an earlier one of its publisher on the way from      *)
(* Publish to the module's channel, and none appears twice.                *)
THEOREM PublisherOrderAlways == Spec => []PublisherOrder
<1>1. IInv => PublisherOrder
  BY DEF IInv
<1> QED
  BY <1>1, Invariance, PTL

(* Each event owed to a subscriber whose stream lasts waits in its         *)
(* Publish, was dropped by a full queue, or is on its way or read.         *)
THEOREM AccountedAlways == Spec => []Accounted
<1>1. IInv => Accounted
  BY DEF IInv
<1> QED
  BY <1>1, Invariance, PTL

-----------------------------------------------------------------------------
(* Refinement.                                                             *)

(* The beginning of a text, symbol by symbol.                              *)
LEMMA Sliced ==
    ASSUME NEW S, NEW q \in Seq(S), NEW n \in 0..Len(q)
    PROVE  /\ SubSeq(q, 1, n) \in Seq(S) /\ Len(SubSeq(q, 1, n)) = n
           /\ \A k \in 1..n : SubSeq(q, 1, n)[k] = q[k]
OBVIOUS

(* A text is what precedes its last symbol, and that symbol.               *)
LEMMA FrontAndLast ==
    ASSUME NEW S, NEW q \in Seq(S), Len(q) > 0
    PROVE  SubSeq(q, 1, Len(q) - 1) \o <<q[Len(q)]>> = q
<1> DEFINE f == SubSeq(q, 1, Len(q) - 1)
           e == <<q[Len(q)]>>
           g == f \o e
<1>1. Len(q) \in Nat /\ q[Len(q)] \in S /\ Len(q) - 1 \in 0..Len(q)
  OBVIOUS
<1>2. /\ f \in Seq(S) /\ Len(f) = Len(q) - 1
      /\ \A k \in 1..(Len(q) - 1) : f[k] = q[k]
  BY <1>1, Sliced
<1>4. e \in Seq(S) /\ Len(e) = 1 /\ e[1] = q[Len(q)]
  BY <1>1
<1> HIDE DEF f, e
<1>5. g = q
  <2>1. /\ g \in Seq(S) /\ Len(g) = Len(f) + Len(e)
        /\ \A k \in 1..Len(f) : g[k] = f[k]
        /\ \A k \in 1..Len(e) : g[Len(f) + k] = e[k]
    <3>1. f \in Seq(S) /\ e \in Seq(S)
      BY <1>2, <1>4
    <3> QED
      BY <3>1, Joined
  <2> HIDE DEF g
  <2>2. Len(g) = Len(q) /\ \A k \in 1..(Len(q) - 1) : g[k] = q[k]
    BY <1>1, <1>2, <1>4, <2>1
  <2>3. g[Len(q)] = q[Len(q)]
    <3>1. g[Len(f) + 1] = e[1]
      BY <1>4, <2>1
    <3>2. Len(f) + 1 = Len(q)
      BY <1>1, <1>2
    <3> QED
      BY <1>4, <3>1, <3>2
  <2>4. \A k \in 1..Len(g) : g[k] = q[k]
    BY <1>1, <2>2, <2>3
  <2>5. g \in Seq(S) /\ q \in Seq(S) /\ Len(g) = Len(q)
    BY <2>1, <2>2
  <2> QED
    BY <2>4, <2>5
<1> QED
  BY <1>5 DEF f, e, g

(* What TopicMatches accepts is an exact topic or a prefix of one.         *)
LEMMA PatternMatches ==
    ASSUME NEW s \in Streams, NEW t \in Wanted[s]
    PROVE  \E p \in Patterns[s] : Contract!Matches(p, t)
<1>1. t \in Seq(STRING) /\ TopicMatches(Patterns[s], t) /\ Patterns[s] \subseteq Seq(STRING)
  BY TextsAssumption DEF Wanted
<1>2. PICK p \in Patterns[s] :
        p = t \/ (Len(p) > 1 /\ Last(p) = "*" /\ IsPrefix(Front(p), t))
  BY <1>1 DEF TopicMatches
<1>3. CASE p = t
  BY <1>3 DEF Contract!Matches
<1>4. CASE Len(p) > 1 /\ Last(p) = "*" /\ IsPrefix(Front(p), t)
  <2> DEFINE f == Front(p)
             n == Len(p) - 1
  <2>1. /\ p \in Seq(STRING) /\ Len(p) \in Nat /\ n \in Nat /\ n >= 1 /\ p[Len(p)] = "*"
    BY <1>1, <1>4 DEF Last
  <2>2. /\ f \in Seq(STRING) /\ Len(f) = n /\ \A k \in 1..n : f[k] = p[k]
    BY <2>1 DEF Front
  <2> HIDE DEF f
  <2>3. n <= Len(t) /\ SubSeq(f, 1, n) = SubSeq(t, 1, n) /\ Len(t) \in Nat
    BY <1>1, <1>4, <2>2 DEF IsPrefix, f
  <2>4. SubSeq(f, 1, n) = f
    BY <2>1, <2>2
  <2>5. f \o <<"*">> = p
    <3>1. SubSeq(p, 1, Len(p) - 1) \o <<p[Len(p)]>> = p
      BY <2>1, FrontAndLast
    <3> QED
      BY <2>1, <3>1 DEF f, Front
  <2>6. n \in 1..Len(t)
    BY <2>1, <2>3
  <2>7. p = SubSeq(t, 1, n) \o <<"*">>
    BY <2>3, <2>4, <2>5
  <2> QED
    BY <2>6, <2>7 DEF Contract!Matches
<1> QED
  BY <1>2, <1>3, <1>4

(* A module that reads its channel hears an event the contract lets it     *)
(* hear.                                                                   *)
LEMMA DeliverHears ==
    ASSUME IInv, NEW s \in Streams, Deliver(s)
    PROVE  \E i \in DOMAIN log : Contract!Hear(s, i)
<1> DEFINE R == received[s]
           x == doc[s]
           Z == stream[s] \o (BeingSent(s) \o queue[s])
<1>1. /\ Typed /\ client[s] = "offer" /\ x \in Events /\ OnOffer(s) = <<x>>
      /\ received' = [received EXCEPT ![s] = Append(@, x)] /\ log' = log
      /\ Len(log) \in Nat /\ DOMAIN log = 1..Len(log)
  BY DEF IInv, Typed, TypeOK, Carried, Deliver, HandOver, OnOffer, busVars
<1>2. /\ R \in Seq(Events) /\ <<x>> \in Seq(Events) /\ stream[s] \in Seq(Events)
      /\ BeingSent(s) \in Seq(Events) /\ queue[s] \in Seq(Events) /\ Path(s) \in Seq(Events)
  BY <1>1, PathTyped
<1>3. Z \in Seq(Events) /\ Path(s) = (R \o <<x>>) \o Z
  <2> DEFINE C == stream[s]
             D == BeingSent(s)
             E == queue[s]
             a == R \o <<x>>
  <2>1. C \in Seq(Events) /\ D \in Seq(Events) /\ E \in Seq(Events) /\ a \in Seq(Events)
        /\ Path(s) = ((a \o C) \o D) \o E /\ Z = C \o (D \o E)
    BY <1>1, <1>2 DEF Path
  <2> HIDE DEF C, D, E, a, Z
  <2>2. C \o D \in Seq(Events) /\ D \o E \in Seq(Events) /\ C \o (D \o E) \in Seq(Events)
    BY <2>1, Joined
  <2>3. (a \o C) \o D = a \o (C \o D)
    BY <2>1, Associative
  <2>4. (a \o (C \o D)) \o E = a \o ((C \o D) \o E)
    BY <2>1, <2>2, Associative
  <2>5. (C \o D) \o E = C \o (D \o E)
    BY <2>1, Associative
  <2> QED
    BY <2>1, <2>2, <2>3, <2>4, <2>5 DEF a
<1> HIDE DEF R, Z, x
<1>4. x \in Owed(s)
  <2>1. R \o <<x>> \in Seq(Events)
    BY <1>2, Joined
  <2>4. ToSet(R \o <<x>>) = ToSet(R) \cup ToSet(<<x>>)
    BY <1>2, Elements
  <2>2. ToSet((R \o <<x>>) \o Z) = ToSet(R \o <<x>>) \cup ToSet(Z)
    BY <1>3, <2>1, Elements
  <2>3. x \in ToSet(<<x>>)
    BY <1>1, Single
  <2> QED
    BY <1>3, <2>2, <2>3, <2>4, OfOne DEF IInv, AccountedFor
<1>5. x \in DOMAIN log /\ \E p \in Patterns[s] : Contract!Matches(p, log[x].topic)
  <2>1. since[s] \in Nat
    BY <1>1 DEF Typed, TypeOK
  <2>2. x \in 1..Len(log) /\ log[x].topic \in Wanted[s]
    BY <1>1, <1>4, <2>1 DEF Owed, Wants
  <2> QED
    BY <1>1, <2>2, PatternMatches
<1>6. ASSUME NEW j \in ToSet(R), log[x].from = log[j].from PROVE j < x
  <2>1. DOMAIN R = 1..Len(R) /\ Len(R) \in Nat
    BY <1>2
  <2>2. PICK k \in 1..Len(R) : j = R[k]
    BY <2>1 DEF ToSet
  <2> DEFINE a == R \o <<x>>
  <2>3. a \in Seq(Events) /\ Len(a) = Len(R) + 1 /\ a[k] = j /\ a[Len(R) + 1] = x
    BY <1>2, <2>1, <2>2
  <2> HIDE DEF a
  <2>4. /\ Len(a \o Z) = Len(a) + Len(Z) /\ Len(Z) \in Nat
        /\ (a \o Z)[k] = j /\ (a \o Z)[Len(R) + 1] = x
    <3>1. Z \in Seq(Events) /\ Len(Z) \in Nat
      BY <1>3
    <3>2. /\ Len(a \o Z) = Len(a) + Len(Z)
          /\ \A l \in 1..Len(a) : (a \o Z)[l] = a[l]
      BY <2>3, <3>1, Joined
    <3>3. k \in 1..Len(a) /\ Len(R) + 1 \in 1..Len(a)
      BY <2>1, <2>2, <2>3
    <3> QED
      BY <2>3, <3>1, <3>2, <3>3
  <2>5. InOrder(log, a \o Z)
    BY <1>3, OfOne DEF IInv, a
  <2>6. k \in 1..Len(a \o Z) /\ Len(R) + 1 \in 1..Len(a \o Z) /\ k < Len(R) + 1
    BY <2>1, <2>2, <2>3, <2>4
  <2> QED
    BY <1>6, <2>4, <2>5, <2>6 DEF InOrder
<1>7. \A j \in Contract!ToSet(received[s]) : Contract!SamePublisher(x, j) => j < x
  BY <1>6 DEF Contract!SamePublisher, Contract!ToSet, ToSet, R
<1>8. received' = [received EXCEPT ![s] = Append(@, x)] /\ log' = log
  BY <1>1
<1> QED
  BY <1>5, <1>7, <1>8 DEF Contract!Hear

(* Each step of the bus is one of the contract or one that no module and   *)
(* no publisher sees.                                                      *)
LEMMA StepRefines ==
    ASSUME IInv, [Next]_vars
    PROVE  [Contract!EventNext]_<<log, received>>
<1> USE DEF busVars, serverVars, historyVars, streamVars, wireVars, clientVars
<1>1. CASE UNCHANGED vars
  BY <1>1 DEF vars
<1>2. ASSUME NEW p \in Publishers, NEW topic \in Topics, Publish(p, topic)
      PROVE  Contract!EventNext
  BY <1>2 DEF Publish, Contract!EventNext
<1>3. ASSUME NEW s \in Streams, Deliver(s) PROVE Contract!EventNext
  BY <1>3, DeliverHears DEF Contract!EventNext
<1>4. ASSUME NEW p \in Publishers, FanOut(p) PROVE UNCHANGED <<log, received>>
  BY <1>4 DEF FanOut, Offer
<1>5. ASSUME NEW s \in Streams,
             Subscribe(s) \/ Handler(s) \/ Forward(s) \/ StreamEnds(s)
      PROVE  UNCHANGED <<log, received>>
  BY <1>5 DEF Subscribe, Handler, Register, Take, Send, HandlerReturns,
     Forward, Recv, Close, StreamEnds
<1> QED
  BY <1>1, <1>2, <1>3, <1>4, <1>5 DEF Next

(* EventBus implements EventContract.                                      *)
THEOREM ContractImplemented == Spec => ImplementsEvents
<1>1. Init => Contract!EventInit
  BY DEF Init
<1>2. IInv /\ [Next]_vars => [Contract!EventNext]_<<log, received>>
  BY StepRefines
<1> QED
  BY <1>1, <1>2, Invariance, PTL DEF Spec, ImplementsEvents, Contract!EventSpec

=============================================================================
