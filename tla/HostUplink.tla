------------------------------- MODULE HostUplink -------------------------------
(***************************************************************************)
(* What a running module sends core of its own accord: log records         *)
(* (LogStream) and watchdog pings (PushWatchdog), on the client streams of *)
(* one connection, which dialHost opens and core's death or a blip takes   *)
(* down.                                                                   *)
(***************************************************************************)
EXTENDS LogStream, PushWatchdog

CONSTANT MaxRecordsBeside   \* the records logged beside a watchdog (bound)

ASSUME MaxRecordsBesideAssumption == MaxRecordsBeside \in Nat

vars == <<connVars, logVars, dogVars>>

TypeOK == UplinkTypeOK /\ LogTypeOK /\ WatchdogTypeOK

Init == UplinkInit /\ LogInit /\ WatchdogInit

(* A connection that drops takes every stream with it. *)
Drops == ConnDrops /\ LogCut(Handlers) /\ WatchdogCut

Returns == ConnReturns /\ UNCHANGED <<logVars, dogVars>>

Log ==
    /\ \/ \E g \in Goroutines : Logging(g)
       \/ /\ dog = "off" \/ Len(records) < MaxRecordsBeside
          /\ \E g \in Goroutines, h \in Handlers : Handle(g, h)
       \/ \E h, copy \in Handlers : With(h, copy)
    /\ UNCHANGED <<connVars, dogVars>>

Watchdog ==
    /\ WatchdogStep \/ WatchdogEnds \/ CancelWatchdog
    /\ UNCHANGED <<connVars, logVars>>

(* Core reads what is sent to it, or ends a stream. *)
Core ==
    \/ /\ \E s \in Handlers : LogArrives(s) \/ (wire[s] = "open" /\ LogCut({s}))
       /\ UNCHANGED <<connVars, dogVars>>
    \/ /\ PingArrives \/ (pingStream = "open" /\ WatchdogCut)
       /\ UNCHANGED <<connVars, logVars>>

Hears ==
    \/ (\E s \in Handlers : LogHears(s)) /\ UNCHANGED <<connVars, dogVars>>
    \/ WatchdogHears /\ UNCHANGED <<connVars, logVars>>

Next == Drops \/ Returns \/ Log \/ Watchdog \/ Core \/ Hears

Spec == Init /\ [][Next]_vars

(* Goroutines run and the ticker ticks; a select with both cases ready     *)
(* takes each at times; core reads what it is sent; a client hears of a    *)
(* stream that ended.  Nothing makes a module log or a connection return.  *)
FairSpec ==
    /\ Spec
    /\ \A g \in Goroutines : WF_vars(Logging(g) /\ UNCHANGED <<connVars, dogVars>>)
    /\ WF_vars(WatchdogStep /\ UNCHANGED <<connVars, logVars>>)
    /\ SF_vars(WatchdogEnds /\ UNCHANGED <<connVars, logVars>>)
    /\ \A s \in Handlers :
          /\ WF_vars(LogArrives(s) /\ UNCHANGED <<connVars, dogVars>>)
          /\ WF_vars(LogHears(s) /\ UNCHANGED <<connVars, dogVars>>)
    /\ WF_vars(PingArrives /\ UNCHANGED <<connVars, logVars>>)
    /\ WF_vars(WatchdogHears /\ UNCHANGED <<connVars, logVars>>)

-----------------------------------------------------------------------------
(* The log.                                                                *)

InHand == {rec[g] : g \in {x \in Goroutines : pc[x] \in {"open", "send", "fallback"}}}

InFlight == UNION {ToSet(flight[s]) : s \in Handlers}

(* Handle returns only with its record on the wire or at the fallback, and *)
(* no record takes both ways: each is in one place, or went down with a    *)
(* stream that had accepted it.                                            *)
Whereabouts ==
    LET places == <<InHand, InFlight, arrived, stderr, lost>> IN
    /\ UNION {places[k] : k \in DOMAIN places} = DOMAIN records
    /\ \A k, l \in DOMAIN places : k # l => places[k] \cap places[l] = {}

Fate(i) ==
    CASE i \in InHand   -> "called"
      [] i \in InFlight -> "sent"
      [] i \in arrived  -> "core"
      [] i \in lost     -> "lost"
      [] i \in stderr   -> "stderr"

(* How far from core a record ended up. *)
Distance == [core |-> 0, sent |-> 1, lost |-> 2, stderr |-> 3]

(* What core has of a handler's records has no holes: those it received,   *)
(* those in flight, those lost with the stream and those written to stderr *)
(* follow each other in the order they were logged.  A handler that fell   *)
(* back never returns to the wire.                                         *)
NoHoles ==
    \A i, j \in DOMAIN records \ InHand :
       i < j /\ records[i] = records[j] => Distance[Fate(i)] <= Distance[Fate(j)]

Contract ==
    INSTANCE LogContract WITH fate <- [i \in DOMAIN records |-> Fate(i)]

(* streamHandler keeps what LogContract promises of the records: one fate  *)
(* each, which only the newest of a handler may still choose.              *)
ImplementsLog == Contract!LogContractSpec

(* "logging must never be lost because the wire hiccuped" (streamHandler). *)
NothingLost == lost = {}

(* No goroutine hangs in a log call, though Handle opens streams and sends *)
(* with the handler's mutex held, as long as core reads what it is sent.   *)
HandleReturns == \A g \in Goroutines : pc[g] # "idle" ~> pc[g] = "idle"

-----------------------------------------------------------------------------
(* The watchdog.                                                           *)

(* "a broken stream is reopened on the next tick so a transient blip does  *)
(* not silently end liveness reporting" (launchWatchdogLocked): once the   *)
(* connection is up for good and no more streams end, pings go out again.  *)
WatchdogResumes ==
    <>[](conn = "up" /\ dog # "off" /\ dogCtx = "live" /\ pingStream # "cut") =>
        []<><<PingSent>>_vars

(* A cancelled watchdog returns, wherever it is and whatever became of its *)
(* stream: stopJobs waits for it.                                          *)
WatchdogReturns == dogCtx = "cancelled" ~> dog = "ended"

=============================================================================
