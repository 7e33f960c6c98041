--------------------------- MODULE PolicyWatchProofs ---------------------------
(***************************************************************************)
(* Proofs about PolicyWatch, for any number of setters, watchers and       *)
(* policy changes: what is in flight stays in order, and no handler sleeps *)
(* on an old document.                                                     *)
(***************************************************************************)
EXTENDS PolicyWatch, TLAPS

(* A receive takes the oldest document and leaves the rest in their order. *)
LEMMA HeadAndTail ==
    ASSUME NEW S, NEW q \in Seq(S), q # << >>
    PROVE  /\ Head(q) = q[1] /\ 1 \in 1..Len(q)
           /\ Tail(q) \in Seq(S) /\ Len(Tail(q)) = Len(q) - 1
           /\ \A i \in 1..Len(Tail(q)) : Tail(q)[i] = q[i + 1]
OBVIOUS

(* A send adds its document behind all others. *)
LEMMA Appended ==
    ASSUME NEW S, NEW q \in Seq(S), NEW e \in S
    PROVE  /\ Append(q, e) \in Seq(S) /\ Len(Append(q, e)) = Len(q) + 1
           /\ Append(q, e)[Len(q) + 1] = e
           /\ \A i \in 1..Len(q) : Append(q, e)[i] = q[i]
OBVIOUS

(* Initially the policy is at revision 0 and nobody watches it. *)
LEMMA InitIInv == Init => IInv
<1> SUFFICES ASSUME Init PROVE IInv
  OBVIOUS
<1>1. TypeOK
  BY MaxRevisionAssumption DEF Init, StreamInit, TypeOK, StreamTypeOK, Revisions
<1>2. ASSUME NEW w \in Streams PROVE InFlight(w) /\ Informed(w) /\ Newest(w)
  <2>1. /\ ctx[w] = "live" /\ transport[w] = "up"
        /\ stream[w] = << >> /\ client[w] = "off" /\ handler[w] = "off"
        /\ rev[w] = 0 /\ sent[w] = 0 /\ last[w] = -1 /\ revision = 0
    BY DEF Init, StreamInit
  <2> QED
    BY <2>1 DEF InFlight, Informed, ToBeNotified, Newest, Ended
<1> QED
  BY <1>1, <1>2 DEF IInv

(* No step of a setter, a handler, a forwarding goroutine or a module      *)
(* leaves the types of the state.                                          *)
LEMMA TypeStep == TypeOK /\ [Next]_vars => TypeOK'
<1> SUFFICES ASSUME TypeOK, [Next]_vars PROVE TypeOK'
  OBVIOUS
<1> USE MaxRevisionAssumption DEF TypeOK, StreamTypeOK, Revisions
<1> USE DEF hostVars, serverVars, streamVars, wireVars, clientVars, Goto, GotoClient
<1>1. CASE UNCHANGED vars
  BY <1>1 DEF vars
<1>2. ASSUME NEW s \in Setters, SetPolicy(s) PROVE TypeOK'
  BY <1>2 DEF SetPolicy
<1>3. ASSUME NEW s \in Setters, NEW w \in Streams, Notify(s, w) PROVE TypeOK'
  BY <1>3 DEF Notify
<1>4. ASSUME NEW w \in Streams, Register(w) PROVE TypeOK'
  BY <1>4 DEF Register
<1>5. ASSUME NEW w \in Streams, Read(w) PROVE TypeOK'
  BY <1>5 DEF Read
<1>6. ASSUME NEW w \in Streams, Send(w) PROVE TypeOK'
  <2>1. Append(stream[w], rev[w]) \in Seq(0..MaxRevision)
    BY Appended
  <2>2. stream' \in [Streams -> Seq(0..MaxRevision)]
    BY <1>6, <2>1 DEF Send, Transmit
  <2> QED
    BY <1>6, <2>2 DEF Send, Transmit
<1>7. ASSUME NEW w \in Streams, Wake(w) PROVE TypeOK'
  BY <1>7 DEF Wake
<1>8. ASSUME NEW w \in Streams, HandlerReturns(w) PROVE TypeOK'
  BY <1>8 DEF HandlerReturns
<1>9. ASSUME NEW w \in Streams, Watch(w) PROVE TypeOK'
  BY <1>9 DEF Watch, OpenStream
<1>10. ASSUME NEW w \in Streams, Recv(w) PROVE TypeOK'
  <2>1. stream[w] # << >> /\ stream[w] \in Seq(0..MaxRevision)
    BY <1>10 DEF Recv, Receive
  <2>2. Head(stream[w]) \in 0..MaxRevision /\ Tail(stream[w]) \in Seq(0..MaxRevision)
    BY <2>1
  <2>3. /\ stream' \in [Streams -> Seq(0..MaxRevision)]
        /\ doc' \in [Streams -> 0..MaxRevision]
    BY <1>10, <2>2 DEF Recv, Receive
  <2> QED
    BY <1>10, <2>3 DEF Recv, Receive
<1>11. ASSUME NEW w \in Streams, Deliver(w) PROVE TypeOK'
  BY <1>11 DEF Deliver, HandOver
<1>12. ASSUME NEW w \in Streams, Close(w) PROVE TypeOK'
  BY <1>12 DEF Close, CloseChannel
<1>13. ASSUME NEW w \in Streams, Cancel(w) PROVE TypeOK'
  BY <1>13 DEF Cancel, CancelContext
<1>14. ASSUME NEW w \in Streams, TransportFails(w) PROVE TypeOK'
  BY <1>14 DEF TransportFails, FailTransport
<1>15. QED
  BY <1>1, <1>2, <1>3, <1>4, <1>5, <1>6, <1>7, <1>8, <1>9, <1>10, <1>11,
     <1>12, <1>13, <1>14
     DEF Next, Handler, Forward

(* What the invariant says of one watcher. *)
Kept(v) == InFlight(v) /\ Informed(v) /\ Newest(v)

(* The same, in the types it is stored in.                                 *)
LEMMA WatcherFacts ==
    ASSUME IInv, NEW v \in Streams
    PROVE  /\ stream[v] \in Seq(0..MaxRevision) /\ Len(stream[v]) \in Nat
           /\ \A i \in 1..Len(stream[v]) : stream[v][i] \in Int
           /\ rev[v] \in 0..MaxRevision /\ sent[v] \in Int /\ doc[v] \in Int
           /\ last[v] \in Int /\ revision \in Int
           /\ Kept(v)
BY MaxRevisionAssumption DEF IInv, TypeOK, StreamTypeOK, Revisions, Kept

(* A handler sends a document newer than all it sent, and has then sent    *)
(* the current one unless it is yet to be woken.                           *)
LEMMA SendStep ==
    ASSUME IInv, NEW v \in Streams, Send(v)
    PROVE  Kept(v)'
<1> DEFINE q == stream[v]
           n == Len(q)
           r == Append(q, rev[v])
<1>1. /\ q \in Seq(0..MaxRevision) /\ n \in Nat /\ \A i \in 1..n : q[i] \in Int
      /\ rev[v] \in 0..MaxRevision /\ rev[v] \in Int /\ sent[v] \in Int /\ doc[v] \in Int
      /\ last[v] \in Int /\ revision \in Int
  BY WatcherFacts, MaxRevisionAssumption
<1>2. InFlight(v) /\ Informed(v) /\ Newest(v)
  BY WatcherFacts DEF Kept
<1>3. handler[v] = "send" /\ handler'[v] = "select" /\ sent'[v] = rev[v] + 1 /\ stream'[v] = r
  BY DEF Send, Transmit, Goto, IInv, TypeOK, StreamTypeOK
<1>4. UNCHANGED <<revision, registered, pending, notify, rev, client, doc, last>>
  BY DEF Send, Transmit, hostVars, clientVars
<1>5. Len(r) = n + 1 /\ r[n + 1] = rev[v] /\ \A i \in 1..n : r[i] = q[i]
  BY <1>1, Appended
<1>6. sent[v] <= rev[v] /\ last[v] < sent[v]
      /\ \A i \in 1..n : last[v] < q[i] /\ q[i] < sent[v]
  BY <1>2, <1>3 DEF InFlight
<1>7. \A i, j \in 1..n : i < j => q[i] < q[j]
  BY <1>2 DEF InFlight
<1>8. client[v] = "offer" =>
         last[v] < doc[v] /\ doc[v] < sent[v] /\ \A i \in 1..n : doc[v] < q[i]
  BY <1>2 DEF InFlight
<1>9. rev[v] <= revision
  BY <1>2 DEF InFlight
<1> HIDE DEF q, n, r
<1>10. /\ \A i \in 1..(n + 1) : last[v] < r[i] /\ r[i] < rev[v] + 1
       /\ \A i, j \in 1..(n + 1) : i < j => r[i] < r[j]
  <2>1. \A i \in 1..(n + 1) : i \in 1..n \/ i = n + 1
    BY <1>1
  <2>2. \A i \in 1..n : r[i] = q[i] /\ q[i] \in Int /\ last[v] < q[i] /\ q[i] < rev[v]
    BY <1>1, <1>5, <1>6
  <2>3. last[v] < rev[v]
    BY <1>1, <1>6
  <2>4. ASSUME NEW i \in 1..(n + 1) PROVE last[v] < r[i] /\ r[i] < rev[v] + 1
    <3> rev[v] \in Int /\ last[v] \in Int
      BY <1>1
    <3>1. CASE i \in 1..n
      BY <2>2, <3>1
    <3>2. CASE i = n + 1
      <4>1. r[i] = rev[v]
        BY <1>5, <3>2
      <4> QED
        BY <2>3, <4>1
    <3> QED
      BY <2>1, <3>1, <3>2
  <2>5. ASSUME NEW i \in 1..(n + 1), NEW j \in 1..(n + 1), i < j PROVE r[i] < r[j]
    <3>1. i \in 1..n
      BY <1>1, <2>5
    <3>2. CASE j \in 1..n
      BY <1>7, <2>2, <2>5, <3>1, <3>2
    <3>3. CASE j = n + 1
      BY <1>5, <2>2, <3>1, <3>3
    <3> QED
      BY <2>1, <3>2, <3>3
  <2> QED
    BY <2>4, <2>5
<1>11. client[v] = "offer" =>
         /\ last[v] < doc[v] /\ doc[v] < rev[v] + 1
         /\ \A i \in 1..(n + 1) : doc[v] < r[i]
  BY <1>1, <1>5, <1>6, <1>8
<1>12. InFlight(v)'
  BY <1>1, <1>3, <1>4, <1>5, <1>6, <1>9, <1>10, <1>11 DEF InFlight
<1>13. Informed(v)'
  BY <1>1, <1>2, <1>3, <1>4 DEF Informed, ToBeNotified
<1>14. Newest(v)'
  <2>1. r # << >>
    BY <1>1 DEF r, q
  <2>2. ~Ended(v)'
    BY DEF Send, Transmit, Ended
  <2> QED
    BY <1>1, <1>3, <1>4, <1>5, <2>1, <2>2 DEF Newest
<1> QED
  BY <1>12, <1>13, <1>14 DEF Kept

(* The forwarding goroutine takes the oldest document in flight.           *)
LEMMA RecvStep ==
    ASSUME IInv, NEW v \in Streams, Recv(v)
    PROVE  Kept(v)'
<1> DEFINE q == stream[v]
           n == Len(q)
           r == Tail(q)
<1>1. /\ q \in Seq(0..MaxRevision) /\ n \in Nat /\ \A i \in 1..n : q[i] \in Int
      /\ sent[v] \in Int /\ last[v] \in Int
  BY WatcherFacts
<1>2. InFlight(v) /\ Informed(v) /\ Newest(v)
  BY WatcherFacts DEF Kept
<1>3. q # << >> /\ stream'[v] = r /\ doc'[v] = Head(q)
  BY DEF Recv, Receive, IInv, TypeOK, StreamTypeOK
<1>4. UNCHANGED <<revision, registered, pending, notify, handler, rev, sent, last>>
  BY DEF Recv, Receive, hostVars, serverVars
<1>5. /\ doc'[v] = q[1] /\ 1 \in 1..n /\ Len(r) = n - 1
      /\ \A i \in 1..Len(r) : r[i] = q[i + 1]
  BY <1>1, <1>3, HeadAndTail
<1>6. /\ \A i \in 1..n : last[v] < q[i] /\ q[i] < sent[v]
      /\ \A i, j \in 1..n : i < j => q[i] < q[j]
  BY <1>2 DEF InFlight
<1> HIDE DEF q, n, r
<1>7. \A i \in 1..Len(r) : i + 1 \in 1..n /\ 1 < i + 1
  BY <1>1, <1>5
<1>8. /\ \A i \in 1..Len(r) : last[v] < r[i] /\ r[i] < sent[v] /\ doc'[v] < r[i]
      /\ \A i, j \in 1..Len(r) : i < j => r[i] < r[j]
      /\ last[v] < doc'[v] /\ doc'[v] < sent[v]
  <2>1. last[v] < doc'[v] /\ doc'[v] < sent[v]
    BY <1>5, <1>6
  <2>2. ASSUME NEW i \in 1..Len(r)
        PROVE  last[v] < r[i] /\ r[i] < sent[v] /\ doc'[v] < r[i]
    <3>1. i + 1 \in 1..n /\ 1 < i + 1 /\ r[i] = q[i + 1]
      BY <1>5, <1>7
    <3> QED
      BY <1>5, <1>6, <3>1
  <2>3. ASSUME NEW i \in 1..Len(r), NEW j \in 1..Len(r), i < j PROVE r[i] < r[j]
    <3>1. /\ i + 1 \in 1..n /\ j + 1 \in 1..n /\ i + 1 < j + 1
          /\ r[i] = q[i + 1] /\ r[j] = q[j + 1]
      BY <1>1, <1>5, <1>7, <2>3
    <3> QED
      BY <1>6, <3>1
  <2> QED
    BY <2>1, <2>2, <2>3
<1>9. InFlight(v)'
  BY <1>2, <1>3, <1>4, <1>8 DEF InFlight
<1>10. Informed(v)'
  BY <1>2, <1>4 DEF Informed, ToBeNotified
<1>11. Newest(v)'
  <2>1. /\ client[v] = "recv" /\ client'[v] = "offer"
        /\ sent[v] - 1 = q[n]
    BY <1>2, <1>3 DEF Newest, Recv, Receive, GotoClient, IInv, TypeOK, StreamTypeOK, q, n
  <2>2. CASE r = << >>
    <3>1. n = 1
      BY <1>1, <1>5, <2>2
    <3> QED
      BY <1>3, <1>4, <1>5, <2>1, <2>2, <3>1 DEF Newest
  <2>3. CASE r # << >>
    <3>1. Len(r) \in 1..Len(r) /\ r[Len(r)] = q[n]
      BY <1>1, <1>5, <2>3 DEF r
    <3> QED
      BY <1>3, <1>4, <2>1, <2>3, <3>1 DEF Newest
  <2> QED
    BY <2>2, <2>3
<1> QED
  BY <1>9, <1>10, <1>11 DEF Kept

(* A step that touches nothing of a watcher keeps what is known of it.     *)
LEMMA Untouched ==
    ASSUME NEW v \in Streams, Kept(v), registered \subseteq registered',
           UNCHANGED <<revision, pending, notify[v], handler[v], rev[v], sent[v], stream[v],
                       ctx[v], transport[v], client[v], doc[v], last[v]>>
    PROVE  Kept(v)'
<1>1. InFlight(v)'
  BY DEF Kept, InFlight
<1>2. Informed(v)'
  BY DEF Kept, Informed, ToBeNotified
<1>3. Newest(v)'
  BY DEF Kept, Newest, Ended
<1> QED
  BY <1>1, <1>2, <1>3 DEF Kept

(* Every step keeps what is on its way to a watcher in order, and every    *)
(* handler with an old document informed.                                  *)
LEMMA WatcherStep ==
    ASSUME IInv, [Next]_vars, NEW v \in Streams
    PROVE  Kept(v)'
<1> USE DEF hostVars, serverVars, streamVars, wireVars, clientVars, Goto, GotoClient
<1>1. /\ Kept(v)
      /\ stream[v] \in Seq(0..MaxRevision) /\ Len(stream[v]) \in Nat
      /\ rev[v] \in Int /\ sent[v] \in Int /\ doc[v] \in Int /\ last[v] \in Int
      /\ revision \in Nat /\ notify[v] \in 0..1
  BY WatcherFacts, MaxRevisionAssumption DEF IInv, TypeOK, StreamTypeOK, Revisions
<1>2. /\ notify \in [Streams -> 0..1]
      /\ pending \in [Setters -> SUBSET Streams]
      /\ handler \in [Streams ->
            {"off", "register", "read", "send", "select", "returned"}]
      /\ rev \in [Streams -> Revisions] /\ sent \in [Streams -> 0..(MaxRevision + 1)]
      /\ stream \in [Streams -> Seq(Revisions)]
      /\ ctx \in [Streams -> {"live", "cancelled"}]
      /\ transport \in [Streams -> {"up", "down"}]
      /\ client \in [Streams -> {"off", "recv", "offer", "closed"}]
      /\ doc \in [Streams -> Revisions] /\ last \in [Streams -> Revisions \cup {-1}]
  BY DEF IInv, TypeOK, StreamTypeOK
<1>3. CASE UNCHANGED vars
  BY <1>1, <1>3, Untouched DEF vars
<1>4. ASSUME NEW s \in Setters, SetPolicy(s) PROVE Kept(v)'
  <2>1. /\ revision' = revision + 1 /\ pending' = [pending EXCEPT ![s] = registered]
        /\ pending[s] = {}
        /\ UNCHANGED <<registered, notify, handler, rev, sent, stream, ctx, transport,
                       client, doc, last>>
    BY <1>4 DEF SetPolicy
  <2>2. InFlight(v)'
    BY <1>1, <2>1 DEF Kept, InFlight
  <2>3. Informed(v)'
    BY <1>1, <1>2, <2>1 DEF Kept, Informed, ToBeNotified
  <2>4. Newest(v)'
    BY <1>1, <2>1 DEF Kept, Newest, Ended
  <2> QED
    BY <2>2, <2>3, <2>4 DEF Kept
<1>5. ASSUME NEW s \in Setters, NEW w \in Streams, Notify(s, w) PROVE Kept(v)'
  <2>1. /\ pending' = [pending EXCEPT ![s] = @ \ {w}] /\ notify' = [notify EXCEPT ![w] = 1]
        /\ UNCHANGED <<revision, registered, handler, rev, sent, stream, ctx, transport,
                       client, doc, last>>
    BY <1>5 DEF Notify
  <2>2. InFlight(v)'
    BY <1>1, <2>1 DEF Kept, InFlight
  <2>3. Informed(v)'
    BY <1>1, <1>2, <2>1 DEF Kept, Informed, ToBeNotified
  <2>4. Newest(v)'
    BY <1>1, <2>1 DEF Kept, Newest, Ended
  <2> QED
    BY <2>2, <2>3, <2>4 DEF Kept
<1>6. ASSUME NEW w \in Streams, v # w,
             \/ Watch(w) \/ Handler(w) \/ Forward(w) \/ Deliver(w)
             \/ Cancel(w) \/ TransportFails(w)
      PROVE  Kept(v)'
  <2> USE <1>1, <1>2, <1>6, Untouched
  <2>1. CASE Watch(w)
    BY <2>1 DEF Watch, OpenStream
  <2>2. CASE Register(w)
    BY <2>2 DEF Register
  <2>3. CASE Read(w)
    BY <2>3 DEF Read
  <2>4. CASE Send(w)
    BY <2>4 DEF Send, Transmit
  <2>5. CASE Wake(w)
    BY <2>5 DEF Wake
  <2>6. CASE HandlerReturns(w)
    BY <2>6 DEF HandlerReturns
  <2>7. CASE Recv(w)
    BY <2>7 DEF Recv, Receive
  <2>8. CASE Close(w)
    BY <2>8 DEF Close, CloseChannel
  <2>9. CASE Deliver(w)
    BY <2>9 DEF Deliver, HandOver
  <2>10. CASE Cancel(w)
    BY <2>10 DEF Cancel, CancelContext
  <2>11. CASE TransportFails(w)
    BY <2>11 DEF TransportFails, FailTransport
  <2> QED
    BY <2>1, <2>2, <2>3, <2>4, <2>5, <2>6, <2>7, <2>8, <2>9, <2>10, <2>11 DEF Handler, Forward
<1>7. ASSUME \/ Watch(v) \/ Handler(v) \/ Forward(v) \/ Deliver(v)
             \/ Cancel(v) \/ TransportFails(v)
      PROVE  Kept(v)'
  <2> USE <1>1, <1>2 DEF Kept, InFlight, Informed, ToBeNotified, Newest, Ended
  <2>1. CASE Watch(v)
    BY <2>1 DEF Watch, OpenStream
  <2>2. CASE Register(v)
    BY <2>2 DEF Register
  <2>3. CASE Read(v)
    BY <2>3 DEF Read
  <2>4. CASE Send(v)
    BY <2>4, SendStep
  <2>5. CASE Wake(v)
    BY <2>5 DEF Wake
  <2>6. CASE HandlerReturns(v)
    BY <2>6 DEF HandlerReturns
  <2>7. CASE Recv(v)
    BY <2>7, RecvStep
  <2>8. CASE Close(v)
    BY <2>8 DEF Close, CloseChannel
  <2>9. CASE Deliver(v)
    BY <2>9 DEF Deliver, HandOver
  <2>10. CASE Cancel(v)
    BY <2>10 DEF Cancel, CancelContext
  <2>11. CASE TransportFails(v)
    BY <2>11 DEF TransportFails, FailTransport
  <2> QED
    BY <1>7, <2>1, <2>2, <2>3, <2>4, <2>5, <2>6, <2>7, <2>8, <2>9, <2>10, <2>11
       DEF Handler, Forward
<1> QED
  BY <1>3, <1>4, <1>5, <1>6, <1>7 DEF Next

(* Types, order and information are preserved together.                    *)
THEOREM Invariance == Spec => []IInv
<1>1. IInv /\ [Next]_vars => IInv'
  BY TypeStep, WatcherStep DEF IInv, Kept
<1> QED
  BY <1>1, InitIInv, PTL DEF Spec

(* Every state of the policy's distribution is well typed.                 *)
THEOREM TypeCorrect == Spec => []TypeOK
<1>1. IInv => TypeOK
  BY DEF IInv
<1> QED
  BY <1>1, Invariance, PTL

(* A handler that sleeps unnoticed has sent the current document.          *)
THEOREM NoLostWakeupAlways == Spec => []NoLostWakeup
<1>1. ASSUME IInv PROVE NoLostWakeup
  <2> SUFFICES ASSUME NEW w \in Streams,
                      handler[w] = "select", notify[w] = 0, ~ToBeNotified(w)
               PROVE  sent[w] = revision + 1
    BY DEF NoLostWakeup
  <2>1. sent[w] \in Int /\ revision \in Int /\ sent[w] <= revision + 1
    BY <1>1, MaxRevisionAssumption DEF IInv, TypeOK, StreamTypeOK, Revisions, InFlight
  <2>2. ~(sent[w] < revision + 1)
    BY <1>1 DEF IInv, Informed
  <2> QED
    BY <2>1, <2>2
<1> QED
  BY <1>1, Invariance, PTL

(* A document on offer is newer than the last one the module read.         *)
THEOREM IncreasingAlways == Spec => Increasing
<1>1. ASSUME IInv, [Next]_vars, NEW w \in Streams,
             client[w] = "offer", client'[w] = "recv"
      PROVE  last'[w] > last[w]
  <2> USE DEF hostVars, serverVars, streamVars, wireVars, clientVars, Goto, GotoClient
  <2>1. client \in [Streams -> {"off", "recv", "offer", "closed"}]
    BY <1>1 DEF IInv, TypeOK, StreamTypeOK
  <2>2. PICK u \in Streams : Deliver(u)
    BY <1>1, <2>1 DEF Next, vars, SetPolicy, Notify, Handler, Register, Read, Send, Transmit, Wake,
       HandlerReturns, Watch, OpenStream, Forward, Recv, Receive, Close, CloseChannel, Cancel, CancelContext, TransportFails, FailTransport
  <2>3. u = w
    BY <1>1, <2>1, <2>2 DEF Deliver, HandOver
  <2>4. last'[w] = doc[w]
    BY <1>1, <2>2, <2>3 DEF Deliver, HandOver, IInv, TypeOK, StreamTypeOK
  <2>5. last[w] < doc[w] /\ last[w] \in Int /\ doc[w] \in Int
    BY <1>1, MaxRevisionAssumption DEF IInv, TypeOK, StreamTypeOK, Revisions, InFlight
  <2> QED
    BY <2>4, <2>5
<1>2. IInv /\ [Next]_vars =>
         [\A w \in Streams :
             client[w] = "offer" /\ client'[w] = "recv" => last'[w] > last[w]]_vars
  BY <1>1
<1> QED
  BY <1>2, Invariance, PTL DEF Spec, Increasing

(* A module that waits while nothing moves has read the current document.  *)
THEOREM UpToDateAlways == Spec => []UpToDate
<1>1. ASSUME IInv PROVE UpToDate
  <2> SUFFICES ASSUME NEW w \in Streams,
                      client[w] = "recv", stream[w] = << >>,
                      handler[w] = "select", notify[w] = 0, ~ToBeNotified(w)
               PROVE  last[w] = revision
    BY DEF UpToDate
  <2>1. sent[w] \in Int /\ revision \in Int /\ last[w] \in Int /\ sent[w] <= revision + 1
    BY <1>1, WatcherFacts DEF Kept, InFlight
  <2>2. ~(sent[w] < revision + 1)
    BY <1>1, WatcherFacts DEF Kept, Informed
  <2>3. sent[w] - 1 = last[w]
    BY <1>1, WatcherFacts DEF Kept, Newest
  <2> QED
    BY <2>1, <2>2, <2>3
<1> QED
  BY <1>1, Invariance, PTL

-----------------------------------------------------------------------------
(* The refinement of PolicyContract.                                       *)

States == [w \in Streams |-> WatchState(w)]
Channel == [w \in Streams |-> OnOffer(w)]

(* A Watch is in one state of the contract, told by its goroutine and      *)
(* whether its stream is over.                                             *)
LEMMA WatchStates ==
    ASSUME IInv, NEW w \in Streams
    PROVE  /\ client[w] = "off" => WatchState(w) = "off"
           /\ client[w] \in {"recv", "offer"} =>
                 WatchState(w) = IF Ended(w) THEN "ended" ELSE "open"
           /\ client[w] = "closed" => WatchState(w) = "closed"
           /\ client[w] \in {"off", "recv", "offer", "closed"}
           /\ client[w] = "off" => ~Ended(w)
<1>1. client[w] \in {"off", "recv", "offer", "closed"} /\ (client[w] = "off" => ~Ended(w))
  BY DEF IInv, TypeOK, StreamTypeOK, Newest
<1> QED
  BY <1>1 DEF WatchState

(* One Watch goes to another state and the rest stay where they are.       *)
LEMMA WatchMoves ==
    ASSUME NEW w \in Streams, NEW from, NEW to,
           WatchState(w) = from, WatchState(w)' = to,
           \A u \in Streams \ {w} : WatchState(u)' = WatchState(u),
           UNCHANGED <<revision, last>>
    PROVE  Contract!Moves(w, from, to)
<1>1. States[w] = from
  BY DEF States
<1>2. States' = [States EXCEPT ![w] = to]
  BY DEF States
<1> QED
  BY <1>1, <1>2 DEF Contract!Moves, States

(* Each step of a setter, a handler, a forwarding goroutine, a module or   *)
(* the transport is one of the contract, or one no module sees.            *)
LEMMA StepRefines ==
    ASSUME IInv, IInv', [Next]_vars
    PROVE  [Contract!PolicyNext]_<<revision, last, Channel, States>>
<1> DEFINE Seen == <<revision, last, Channel, States>>
<1> USE DEF hostVars, serverVars, streamVars, wireVars, clientVars, Goto, GotoClient
<1>1. client \in [Streams -> {"off", "recv", "offer", "closed"}]
      /\ last \in [Streams -> Int] /\ revision \in Nat
  BY MaxRevisionAssumption DEF IInv, TypeOK, StreamTypeOK, Revisions
<1>2. ASSUME NEW w \in Streams, UNCHANGED <<client, ctx, transport>>
      PROVE  WatchState(w)' = WatchState(w)
  BY <1>2 DEF WatchState, Ended
<1>3. ASSUME UNCHANGED <<client, ctx, transport, doc>> PROVE UNCHANGED <<Channel, States>>
  BY <1>2, <1>3 DEF States, Channel, OnOffer
<1>4. ASSUME NEW w \in Streams, NEW u \in Streams,
             client'[u] = client[u], ctx'[u] = ctx[u], transport'[u] = transport[u]
      PROVE  WatchState(u)' = WatchState(u)
  BY <1>4 DEF WatchState, Ended
<1>5. ASSUME UNCHANGED vars PROVE UNCHANGED Seen
  BY <1>5, <1>3 DEF vars
<1>6. ASSUME NEW s \in Setters, SetPolicy(s) PROVE Contract!Changes
  BY <1>6, <1>3 DEF SetPolicy, Contract!Changes, States, Channel
<1>7. ASSUME NEW s \in Setters, NEW w \in Streams, Notify(s, w) PROVE UNCHANGED Seen
  BY <1>7, <1>3 DEF Notify
<1>8. ASSUME NEW w \in Streams, Handler(w) PROVE UNCHANGED Seen
  BY <1>8, <1>3 DEF Handler, Register, Read, Send, Transmit, Wake, HandlerReturns
<1>9. ASSUME NEW w \in Streams, Watch(w) PROVE Contract!Opens(w)
  <2>1. client[w] = "off" /\ client'[w] = "recv" /\ UNCHANGED <<ctx, transport>>
    BY <1>1, <1>9 DEF Watch, OpenStream
  <2>2. WatchState(w) = "off" /\ ~Ended(w)
    BY <2>1, WatchStates
  <2>3. WatchState(w)' = "open"
    BY <2>1, <2>2 DEF WatchState, Ended
  <2>4. \A u \in Streams \ {w} : WatchState(u)' = WatchState(u)
    BY <1>1, <1>4, <1>9 DEF Watch, OpenStream
  <2>5. UNCHANGED <<revision, last, doc>>
    BY <1>9 DEF Watch, OpenStream
  <2>6. UNCHANGED Channel
    BY <1>1, <1>9, <2>5 DEF Watch, OpenStream, Channel, OnOffer
  <2> QED
    BY <2>2, <2>3, <2>4, <2>5, <2>6, WatchMoves DEF Contract!Opens, Channel
<1>10. ASSUME NEW w \in Streams, Recv(w) PROVE Contract!Offers(w)
  <2>1. /\ client[w] = "recv" /\ client' = [client EXCEPT ![w] = "offer"]
        /\ stream[w] # << >> /\ doc' = [doc EXCEPT ![w] = Head(stream[w])]
        /\ UNCHANGED <<ctx, transport, revision, last, sent>>
    BY <1>10 DEF Recv, Receive
  <2>2. doc'[w] \in (last[w] + 1)..revision
    <3>1. /\ doc'[w] \in Int /\ last[w] \in Int /\ sent[w] \in Int /\ revision \in Int
          /\ InFlight(w)
      <4>1. doc' \in [Streams -> Int]
        BY MaxRevisionAssumption DEF IInv, TypeOK, StreamTypeOK, Revisions
      <4> QED
        BY <4>1, WatcherFacts DEF Kept
    <3>2. doc'[w] = stream[w][1] /\ 1 \in 1..Len(stream[w])
      <4>1. stream[w] \in Seq(0..MaxRevision)
        BY WatcherFacts
      <4>2. doc'[w] = Head(stream[w])
        BY <1>1, <2>1 DEF IInv, TypeOK, StreamTypeOK
      <4> QED
        BY <2>1, <4>1, <4>2
    <3>3. last[w] < doc'[w] /\ doc'[w] < sent[w] /\ sent[w] <= revision + 1
      BY <3>1, <3>2 DEF InFlight
    <3> QED
      BY <3>1, <3>3
  <2>3. Channel[w] = {} /\ Channel' = [Channel EXCEPT ![w] = {doc'[w]}]
    <3>1. doc \in [Streams -> Revisions]
      BY DEF IInv, TypeOK, StreamTypeOK
    <3> QED
      BY <1>1, <2>1, <3>1 DEF Channel, OnOffer
  <2>4. UNCHANGED States /\ States[w] \in {"open", "ended"}
    <3>1. ASSUME NEW u \in Streams PROVE WatchState(u)' = WatchState(u)
      <4>1. CASE u = w
        BY <1>1, <2>1, <4>1 DEF WatchState, Ended
      <4>2. CASE u # w
        BY <1>1, <1>4, <2>1, <4>2
      <4> QED
        BY <4>1, <4>2
    <3> QED
      BY <2>1, <3>1, WatchStates DEF States
  <2> QED
    BY <2>1, <2>2, <2>3, <2>4 DEF Contract!Offers, Channel, States
<1>11. ASSUME NEW w \in Streams, Deliver(w) PROVE Contract!Reads(w)
  <2>1. /\ client[w] = "offer" /\ client' = [client EXCEPT ![w] = "recv"]
        /\ last' = [last EXCEPT ![w] = doc[w]]
        /\ UNCHANGED <<ctx, transport, revision, doc>>
    BY <1>11 DEF Deliver, HandOver
  <2>2. Channel[w] = {doc[w]} /\ Channel' = [Channel EXCEPT ![w] = {}]
    BY <1>1, <2>1 DEF Channel, OnOffer
  <2>3. UNCHANGED States
    <3>1. ASSUME NEW u \in Streams PROVE WatchState(u)' = WatchState(u)
      <4>1. CASE u = w
        BY <1>1, <2>1, <4>1 DEF WatchState, Ended
      <4>2. CASE u # w
        BY <1>1, <1>4, <2>1, <4>2
      <4> QED
        BY <4>1, <4>2
    <3> QED
      BY <3>1 DEF States
  <2> QED
    BY <2>1, <2>2, <2>3 DEF Contract!Reads, Channel, States
<1>12. ASSUME NEW w \in Streams, Close(w) PROVE Contract!Closes(w)
  <2>1. /\ client[w] \in {"recv", "offer"} /\ Ended(w)
        /\ client' = [client EXCEPT ![w] = "closed"]
        /\ UNCHANGED <<ctx, transport, revision, last, doc>>
    BY <1>12 DEF Close, CloseChannel, Ended
  <2>2. WatchState(w) = "ended" /\ WatchState(w)' = "closed"
    BY <1>1, <2>1, WatchStates DEF WatchState
  <2>3. \A u \in Streams \ {w} : WatchState(u)' = WatchState(u)
    BY <1>1, <1>4, <2>1
  <2>4. Channel' = [Channel EXCEPT ![w] = {}]
    BY <1>1, <2>1 DEF Channel, OnOffer
  <2> QED
    BY <2>1, <2>2, <2>3, <2>4, WatchMoves DEF Contract!Closes, Channel
<1>13. ASSUME NEW w \in Streams, Cancel(w) \/ TransportFails(w)
       PROVE  Contract!Ends(w) \/ UNCHANGED Seen
  <2>1. /\ client[w] # "off" /\ Ended(w)'
        /\ \A u \in Streams \ {w} : ctx'[u] = ctx[u] /\ transport'[u] = transport[u]
        /\ UNCHANGED <<client, revision, last, doc>>
    BY <1>13 DEF Cancel, CancelContext, TransportFails, FailTransport, IInv, TypeOK,
       StreamTypeOK, Ended
  <2>2. \A u \in Streams \ {w} : WatchState(u)' = WatchState(u)
    BY <1>4, <2>1
  <2>5. UNCHANGED Channel
    BY <2>1 DEF Channel, OnOffer
  <2>3. CASE client[w] \in {"recv", "offer"} /\ ~Ended(w)
    <3>1. WatchState(w) = "open"
      BY <2>3, WatchStates
    <3>2. WatchState(w)' = "ended"
      BY <2>1, <2>3 DEF WatchState
    <3> QED
      BY <2>1, <2>2, <2>5, <3>1, <3>2, WatchMoves DEF Contract!Ends, Channel
  <2>4. CASE client[w] = "closed" \/ Ended(w)
    <3>1. WatchState(w)' = WatchState(w)
      BY <1>1, <2>1, <2>4 DEF WatchState
    <3> QED
      BY <2>1, <2>2, <2>5, <3>1 DEF States
  <2> QED
    BY <1>1, <2>1, <2>3, <2>4
<1> HIDE DEF Seen
<1>14. Contract!PolicyNext \/ UNCHANGED Seen
  <2>1. CASE UNCHANGED vars
    BY <1>5, <2>1
  <2>2. CASE \E s \in Setters : SetPolicy(s) \/ \E w \in Streams : Notify(s, w)
    BY <1>6, <1>7, <2>2 DEF Contract!PolicyNext
  <2>3. ASSUME NEW w \in Streams,
               \/ Watch(w) \/ Handler(w) \/ Forward(w) \/ Deliver(w)
               \/ Cancel(w) \/ TransportFails(w)
        PROVE  Contract!PolicyNext \/ UNCHANGED Seen
    BY <1>8, <1>9, <1>10, <1>11, <1>12, <1>13, <2>3 DEF Contract!PolicyNext, Forward
  <2> QED
    BY <2>1, <2>2, <2>3 DEF Next
<1> QED
  BY <1>14 DEF Seen

(* PolicyWatch implements PolicyContract: a module reads from each Watch   *)
(* only documents that were set, each newer than the one before, and its   *)
(* channel closes only when the stream is over.                            *)
THEOREM ContractImplemented == Spec => ImplementsPolicy
<1>1. Init => Contract!PolicyInit
  BY DEF Init, StreamInit, Contract!PolicyInit, WatchState, OnOffer
<1>2. IInv /\ IInv' /\ [Next]_vars => [Contract!PolicyNext]_<<revision, last, Channel, States>>
  BY StepRefines
<1>3. IInv /\ IInv' /\ [Next]_vars =>
         [Contract!PolicyNext]_<<revision, last, [w \in Streams |-> OnOffer(w)],
                                 [w \in Streams |-> WatchState(w)]>>
  BY <1>2 DEF States, Channel
<1> QED
  BY <1>1, <1>3, Invariance, PTL DEF Spec, ImplementsPolicy, Contract!PolicySpec

=============================================================================
