------------------------------ MODULE PolicyWatch ------------------------------
(***************************************************************************)
(* Policy documents on their way to a module: HostData.SetPolicy and its   *)
(* watchers (testkit/hostdata.go), the handler of a Watch stream           *)
(* (policyServer.Watch of testkit/hostserver.go), the stream with the      *)
(* goroutine that forwards it to a channel (HostStream; policyClient.Watch *)
(* of modulesdk/hostclient.go), and the module that reads the channel.     *)
(*                                                                         *)
(* SetPolicy writes revision and data under one lock and Policy reads both *)
(* under it, so a document is its revision here.  HostData.mu protects     *)
(* short sections that block nowhere; each is part of one action.          *)
(***************************************************************************)
EXTENDS HostStream

CONSTANTS
    Setters,       \* the goroutines that call SetPolicy
    MaxRevision    \* how often the policy changes (bound)

ASSUME MaxRevisionAssumption == MaxRevision \in Nat

VARIABLES
    revision,     \* HostData.policyRevision, which names the document
    registered,   \* HostData.policyWatchers
    pending,      \* the watchers each SetPolicy under way has yet to notify
    notify,       \* messages in each watcher's channel, of capacity 1
    handler,      \* where each handler is
    rev,          \* the document it read last
    sent,         \* its variable sent: the least revision not sent yet
    last          \* what the module read from its channel last, -1 if nothing

hostVars   == <<revision, registered, pending, notify>>
serverVars == <<handler, rev, sent>>
vars       == <<hostVars, serverVars, streamVars, last>>

Revisions == 0..MaxRevision

TypeOK ==
    /\ revision \in Revisions
    /\ registered \in SUBSET Streams
    /\ pending \in [Setters -> SUBSET Streams]
    /\ notify \in [Streams -> 0..1]
    /\ handler \in [Streams -> {"off", "register", "read", "send", "select", "returned"}]
    /\ rev \in [Streams -> Revisions]
    /\ sent \in [Streams -> 0..(MaxRevision + 1)]
    /\ StreamTypeOK(Revisions)
    /\ last \in [Streams -> Revisions \cup {-1}]

Init ==
    /\ revision = 0
    /\ registered = {}
    /\ pending = [s \in Setters |-> {}]
    /\ notify = [w \in Streams |-> 0]
    /\ handler = [w \in Streams |-> "off"]
    /\ rev = [w \in Streams |-> 0]
    /\ sent = [w \in Streams |-> 0]
    /\ StreamInit
    /\ last = [w \in Streams |-> -1]

-----------------------------------------------------------------------------
(* HostData.SetPolicy.                                                     *)

(* Under the lock: the next document, and the watchers as they are now. *)
SetPolicy(s) ==
    /\ pending[s] = {}
    /\ revision < MaxRevision
    /\ revision' = revision + 1
    /\ pending' = [pending EXCEPT ![s] = registered]
    /\ UNCHANGED <<registered, notify, serverVars, streamVars, last>>

NotifyUnbuffered(s, w) ==
    /\ w \in pending[s]
    /\ pending' = [pending EXCEPT ![s] = @ \ {w}]
    /\ notify' = [notify EXCEPT ![w] = IF handler[w] = "select" THEN 1 ELSE @]
    /\ UNCHANGED <<revision, registered, serverVars, streamVars, last>>

NotifyQueues(s, w) ==
    /\ w \in pending[s]
    /\ pending' = [pending EXCEPT ![s] = @ \ {w}]
    /\ notify' = [notify EXCEPT ![w] = @ + 1]
    /\ UNCHANGED <<revision, registered, serverVars, streamVars, last>>

(* After unlock: one send per watcher, in some order, that never blocks. *)
Notify(s, w) ==
    /\ w \in pending[s]
    /\ pending' = [pending EXCEPT ![s] = @ \ {w}]
    /\ notify' = [notify EXCEPT ![w] = 1]
    /\ UNCHANGED <<revision, registered, serverVars, streamVars, last>>

-----------------------------------------------------------------------------
(* policyServer.Watch.                                                     *)

Goto(w, to) == handler' = [handler EXCEPT ![w] = to]

(* addPolicyWatcher.  A watcher is never taken off the list again. *)
Register(w) ==
    /\ handler[w] = "register"
    /\ registered' = registered \cup {w}
    /\ Goto(w, "read")
    /\ UNCHANGED <<revision, pending, notify, rev, sent, streamVars, last>>

(* Policy, and the test rev >= sent: a notification may be for a document  *)
(* that was sent already.                                                  *)
Read(w) ==
    /\ handler[w] = "read"
    /\ rev' = [rev EXCEPT ![w] = revision]
    /\ Goto(w, IF revision >= sent[w] THEN "send" ELSE "select")
    /\ UNCHANGED <<hostVars, sent, streamVars, last>>

SendOffByOne(w) ==
    /\ handler[w] = "send"
    /\ Transmit(w, rev[w])
    /\ sent' = [sent EXCEPT ![w] = rev[w]]
    /\ Goto(w, "select")
    /\ UNCHANGED <<hostVars, rev, last>>

(* stream.Send waits for flow control while the module does not read. *)
Send(w) ==
    /\ handler[w] = "send"
    /\ Transmit(w, rev[w])
    /\ sent' = [sent EXCEPT ![w] = rev[w] + 1]
    /\ Goto(w, "select")
    /\ UNCHANGED <<hostVars, rev, last>>

Wake(w) ==
    /\ handler[w] = "select"
    /\ notify[w] = 1
    /\ notify' = [notify EXCEPT ![w] = 0]
    /\ Goto(w, "read")
    /\ UNCHANGED <<revision, registered, pending, rev, sent, streamVars, last>>

HandlerReturnsOnSendOnly(w) ==
    /\ handler[w] = "send"
    /\ Ended(w)
    /\ Goto(w, "returned")
    /\ UNCHANGED <<hostVars, rev, sent, streamVars, last>>

(* Send failed, or stream.Context is done. *)
HandlerReturns(w) ==
    /\ handler[w] \in {"send", "select"}
    /\ Ended(w)
    /\ Goto(w, "returned")
    /\ UNCHANGED <<hostVars, rev, sent, streamVars, last>>

-----------------------------------------------------------------------------
(* policyClient.Watch and the module.                                      *)

(* The stream is opened, its handler starts, and so does the goroutine. *)
Watch(w) ==
    /\ OpenStream(w)
    /\ Goto(w, "register")
    /\ UNCHANGED <<hostVars, rev, sent, last>>

Recv(w) ==
    /\ Receive(w)
    /\ UNCHANGED <<hostVars, serverVars, last>>

Deliver(w) ==
    /\ HandOver(w)
    /\ last' = [last EXCEPT ![w] = doc[w]]
    /\ UNCHANGED <<hostVars, serverVars>>

Close(w) ==
    /\ CloseChannel(w)
    /\ UNCHANGED <<hostVars, serverVars, last>>

Cancel(w) ==
    /\ CancelContext(w)
    /\ UNCHANGED <<hostVars, serverVars, last>>

TransportFails(w) ==
    /\ FailTransport(w)
    /\ UNCHANGED <<hostVars, serverVars, last>>

Handler(w) == Register(w) \/ Read(w) \/ Send(w) \/ Wake(w) \/ HandlerReturns(w)

Forward(w) == Recv(w) \/ Close(w)

Next ==
    \/ \E s \in Setters : SetPolicy(s) \/ \E w \in Streams : Notify(s, w)
    \/ \E w \in Streams :
          Watch(w) \/ Handler(w) \/ Forward(w) \/ Deliver(w) \/ Cancel(w)
             \/ TransportFails(w)

Spec == Init /\ [][Next]_vars

(* Goroutines run, and the module reads its channel.  Nothing makes the    *)
(* policy change, a context end or a transport fail.                       *)
FairSpec ==
    /\ Spec
    /\ \A s \in Setters, w \in Streams : WF_vars(Notify(s, w))
    /\ \A w \in Streams :
          WF_vars(Handler(w)) /\ WF_vars(Forward(w)) /\ WF_vars(Deliver(w))

-----------------------------------------------------------------------------
(* Safety.                                                                 *)

(* A SetPolicy under way has yet to notify w. *)
ToBeNotified(w) == \E s \in Setters : w \in pending[s]

(* A handler that has gone to sleep with nothing to wake it up has sent    *)
(* the current document: no change of policy slips between reading the     *)
(* document, registering, sending and waiting.                             *)
NoLostWakeup ==
    \A w \in Streams :
       handler[w] = "select" /\ notify[w] = 0 /\ ~ToBeNotified(w) =>
           sent[w] = revision + 1

(* A module never reads the same document twice from one Watch, nor an     *)
(* older one after a newer, however notifications coalesce.                *)
Increasing ==
    [][\A w \in Streams :
          client[w] = "offer" /\ client'[w] = "recv" => last'[w] > last[w]]_vars

(* The documents between a handler and its module, oldest first, each      *)
(* newer than the one before: last read, on offer, in flight, and the      *)
(* least that may still be sent.                                           *)
InFlight(w) ==
    /\ \A i \in 1..Len(stream[w]) : last[w] < stream[w][i] /\ stream[w][i] < sent[w]
    /\ \A i, j \in 1..Len(stream[w]) : i < j => stream[w][i] < stream[w][j]
    /\ client[w] = "offer" =>
          /\ last[w] < doc[w] /\ doc[w] < sent[w]
          /\ \A i \in 1..Len(stream[w]) : doc[w] < stream[w][i]
    /\ last[w] < sent[w]
    /\ handler[w] = "send" => sent[w] <= rev[w]
    /\ rev[w] <= revision /\ sent[w] <= revision + 1

(* A handler that holds an old document, or sent one, is yet to be woken.  *)
Informed(w) ==
    /\ handler[w] \in {"read", "send", "select", "returned"} => w \in registered
    /\ handler[w] = "send" /\ rev[w] < revision => notify[w] = 1 \/ ToBeNotified(w)
    /\ handler[w] = "select" /\ sent[w] < revision + 1 => notify[w] = 1 \/ ToBeNotified(w)

(* What a handler sent last is in flight, on offer or the last one read, as *)
(* long as somebody forwards it.  A stream ends only once it is open.      *)
Newest(w) ==
    /\ client[w] # "closed" =>
          sent[w] - 1 = IF stream[w] # << >> THEN stream[w][Len(stream[w])]
                        ELSE IF client[w] = "offer" THEN doc[w]
                        ELSE last[w]
    /\ client[w] = "off" => ~Ended(w)

IInv == TypeOK /\ \A w \in Streams : InFlight(w) /\ Informed(w) /\ Newest(w)

(* A module that waits for a document while nothing moves on its behalf,   *)
(* from SetPolicy down to its channel, has read the current one: "the      *)
(* current document immediately, then again on every change"               *)
(* (PolicyReader), and none is left behind on the way.                     *)
UpToDate ==
    \A w \in Streams :
       /\ client[w] = "recv" /\ stream[w] = << >>
       /\ handler[w] = "select" /\ notify[w] = 0 /\ ~ToBeNotified(w)
       => last[w] = revision

-----------------------------------------------------------------------------
(* The contract.                                                           *)

(* A Watch as the module sees it. *)
WatchState(w) ==
    CASE client[w] = "off"                                -> "off"
      [] client[w] \in {"recv", "offer"} /\ ~Ended(w)     -> "open"
      [] client[w] \in {"recv", "offer"} /\ Ended(w)      -> "ended"
      [] client[w] = "closed"                             -> "closed"

(* What a forwarding goroutine holds out to the module. *)
OnOffer(w) == IF client[w] = "offer" THEN {doc[w]} ELSE {}

Contract ==
    INSTANCE PolicyContract
    WITH watch   <- [w \in Streams |-> WatchState(w)],
         channel <- [w \in Streams |-> OnOffer(w)]

(* SetPolicy, the handler and the forwarding goroutine keep what           *)
(* PolicyContract promises: a module never reads the same document twice   *)
(* from one Watch, nor an older one after a newer, however notifications   *)
(* coalesce, and its channel closes only when the stream is over.          *)
ImplementsPolicy == Contract!PolicySpec

-----------------------------------------------------------------------------
(* Liveness.                                                               *)

Watching(w) == client[w] # "off" /\ ~Ended(w)

(* "Watch yields the current document immediately, then again on every     *)
(* change" (PolicyReader): a module that keeps reading arrives at the      *)
(* current document, and again after each change, as long as context and   *)
(* connection last.                                                        *)
Converges == \A w \in Streams : Watching(w) ~> ~Watching(w) \/ last[w] = revision

(* "The channel closes on ctx cancellation or stream failure"              *)
(* (PolicyReader), and the handler of the stream returns.                  *)
Closes ==
    \A w \in Streams :
       client[w] # "off" /\ Ended(w) ~> client[w] = "closed" /\ handler[w] = "returned"

=============================================================================
