------------------------------- MODULE LogStream -------------------------------
(***************************************************************************)
(* The slog handler that ships a module's log records to core              *)
(* (modulesdk/loghandler.go): handlers, the copies WithAttrs and WithGroup *)
(* make of them, and the goroutines that log through them.                 *)
(*                                                                         *)
(* A record is its number, in the order of the sections under the lock of  *)
(* its handler; level, message and attributes do not matter.  A handler    *)
(* opens at most one stream, which is named after it.                      *)
(*                                                                         *)
(* This module has no Next: HostUplink composes it with the connection.    *)
(***************************************************************************)
EXTENDS Uplink, FiniteSets

CONSTANTS
    Goroutines,    \* the goroutines of the module that log
    Handlers,      \* the handlers there may be
    Root,          \* the handler of Host.Log
    None,          \* no goroutine, no stream
    MaxRecords     \* how many records are logged (bound)

ASSUME RootAssumption == Root \in Handlers
ASSUME NoneAssumption == None \notin Goroutines \cup Handlers
ASSUME MaxRecordsAssumption == MaxRecords \in Nat

VARIABLES
    made,          \* the handlers that exist
    stream,        \* the field stream of each, by the handler that opened it
    broken,        \* the field broken of each
    mu,            \* who holds the mutex of each
    pc,            \* where each goroutine is in Handle
    on,            \* the handler it uses
    rec,           \* the record it ships
    records,       \* records[i]: the handler record i was logged through
    wire,          \* the state of each stream
    flight,        \* the records in flight on it
    arrived,       \* the records core has
    stderr,        \* the records the fallback handler has
    lost           \* history: the records that went down with a stream

handlerVars == <<made, stream, broken, mu>>
callVars    == <<pc, on, rec, records>>
fateVars    == <<wire, flight, arrived, stderr, lost>>
logVars     == <<handlerVars, callVars, fateVars>>

Records == 1..MaxRecords

(* A mutex is held by the goroutine that is inside send. *)
MutexOK ==
    \A h \in Handlers, g \in Goroutines :
       mu[h] = g <=> on[g] = h /\ pc[g] \in {"open", "send"}

LogTypeOK ==
    /\ made \in SUBSET Handlers
    /\ stream \in [Handlers -> Handlers \cup {None}]
    /\ broken \in [Handlers -> BOOLEAN]
    /\ mu \in [Handlers -> Goroutines \cup {None}]
    /\ pc \in [Goroutines -> {"idle", "lock", "open", "send", "fallback"}]
    /\ on \in [Goroutines -> Handlers]
    /\ rec \in [Goroutines -> 0..MaxRecords]
    /\ records \in Seq(Handlers) /\ Len(records) <= MaxRecords
    /\ wire \in [Handlers -> StreamStates]
    /\ flight \in [Handlers -> Seq(Records)]
    /\ arrived \in SUBSET Records /\ stderr \in SUBSET Records /\ lost \in SUBSET Records
    /\ MutexOK

LogInit ==
    /\ made = {Root}
    /\ stream = [h \in Handlers |-> None]
    /\ broken = [h \in Handlers |-> FALSE]
    /\ mu = [h \in Handlers |-> None]
    /\ pc = [g \in Goroutines |-> "idle"]
    /\ on = [g \in Goroutines |-> Root]
    /\ rec = [g \in Goroutines |-> 0]
    /\ records = << >>
    /\ wire = [h \in Handlers |-> "none"]
    /\ flight = [h \in Handlers |-> << >>]
    /\ arrived = {} /\ stderr = {} /\ lost = {}

-----------------------------------------------------------------------------
(* Handle and send.                                                        *)

Goto(g, to) == pc' = [pc EXCEPT ![g] = to]

(* Leave send: back to Handle's caller, or on to the fallback. *)
Unlock(g, to) == mu' = [mu EXCEPT ![on[g]] = None] /\ Goto(g, to)

Handle(g, h) ==
    /\ pc[g] = "idle"
    /\ h \in made
    /\ Len(records) + Cardinality({x \in Goroutines : pc[x] = "lock"}) < MaxRecords
    /\ on' = [on EXCEPT ![g] = h]
    /\ Goto(g, "lock")
    /\ UNCHANGED <<handlerVars, rec, records, fateVars>>

LockUnguarded(g) ==
    LET h == on[g] IN
    /\ pc[g] = "lock"
    /\ records' = Append(records, h)
    /\ rec' = [rec EXCEPT ![g] = Len(records) + 1]
    /\ IF broken[h]
       THEN Goto(g, "fallback") /\ UNCHANGED mu
       ELSE /\ mu' = [mu EXCEPT ![h] = g]
            /\ Goto(g, IF stream[h] = None THEN "open" ELSE "send")
    /\ UNCHANGED <<made, stream, broken, on, fateVars>>

(* Lock, and look at broken and stream.  The next step may block: opening  *)
(* the stream or sending on it, with the mutex held.                       *)
Lock(g) ==
    LET h == on[g] IN
    /\ pc[g] = "lock"
    /\ mu[h] = None
    /\ records' = Append(records, h)
    /\ rec' = [rec EXCEPT ![g] = Len(records) + 1]
    /\ IF broken[h]
       THEN Goto(g, "fallback") /\ UNCHANGED mu
       ELSE /\ mu' = [mu EXCEPT ![h] = g]
            /\ Goto(g, IF stream[h] = None THEN "open" ELSE "send")
    /\ UNCHANGED <<made, stream, broken, on, fateVars>>

(* client.Write returns a stream before core has answered. *)
Opens(g) ==
    /\ pc[g] = "open"
    /\ conn = "up"
    /\ stream' = [stream EXCEPT ![on[g]] = on[g]]
    /\ wire' = [wire EXCEPT ![on[g]] = "open"]
    /\ Goto(g, "send")
    /\ UNCHANGED <<made, broken, mu, on, rec, records, flight, arrived, stderr, lost>>

OpenFailsKeepsLock(g) ==
    /\ pc[g] = "open"
    /\ conn = "down"
    /\ broken' = [broken EXCEPT ![on[g]] = TRUE]
    /\ Goto(g, "fallback")
    /\ UNCHANGED <<made, stream, mu, on, rec, records, fateVars>>

OpenFailsRetries(g) ==
    /\ pc[g] = "open"
    /\ conn = "down"
    /\ Unlock(g, "fallback")
    /\ UNCHANGED <<made, stream, broken, on, rec, records, fateVars>>

OpenFails(g) ==
    /\ pc[g] = "open"
    /\ conn = "down"
    /\ broken' = [broken EXCEPT ![on[g]] = TRUE]
    /\ Unlock(g, "fallback")
    /\ UNCHANGED <<made, stream, on, rec, records, fateVars>>

(* stream.Send waits for flow control while core does not read; it accepts *)
(* a record on a stream that is gone until the client has heard.           *)
Sends(g) ==
    LET s == stream[on[g]] IN
    /\ pc[g] = "send"
    /\ \/ /\ wire[s] = "open"
          /\ Len(flight[s]) < SendWindow
          /\ flight' = [flight EXCEPT ![s] = Append(@, rec[g])]
          /\ UNCHANGED lost
       \/ /\ wire[s] = "cut"
          /\ lost' = lost \cup {rec[g]}
          /\ UNCHANGED flight
    /\ Unlock(g, "idle")
    /\ UNCHANGED <<made, stream, broken, on, rec, records, wire, arrived, stderr>>

SendFailsUnnoticed(g) ==
    /\ pc[g] = "send"
    /\ wire[stream[on[g]]] = "dead"
    /\ broken' = [broken EXCEPT ![on[g]] = TRUE]
    /\ stream' = [stream EXCEPT ![on[g]] = None]
    /\ Unlock(g, "idle")
    /\ UNCHANGED <<made, on, rec, records, fateVars>>

SendFailsReopens(g) ==
    /\ pc[g] = "send"
    /\ wire[stream[on[g]]] = "dead"
    /\ stream' = [stream EXCEPT ![on[g]] = None]
    /\ Unlock(g, "fallback")
    /\ UNCHANGED <<made, broken, on, rec, records, fateVars>>

SendFails(g) ==
    /\ pc[g] = "send"
    /\ wire[stream[on[g]]] = "dead"
    /\ broken' = [broken EXCEPT ![on[g]] = TRUE]
    /\ stream' = [stream EXCEPT ![on[g]] = None]
    /\ Unlock(g, "fallback")
    /\ UNCHANGED <<made, on, rec, records, fateVars>>

FallsBack(g) ==
    /\ pc[g] = "fallback"
    /\ stderr' = stderr \cup {rec[g]}
    /\ Goto(g, "idle")
    /\ UNCHANGED <<handlerVars, on, rec, records, wire, flight, arrived, lost>>

-----------------------------------------------------------------------------
(* WithAttrs and WithGroup: the copy takes over the stream, not broken,    *)
(* and has a mutex of its own.                                             *)
With(h, copy) ==
    /\ h \in made
    /\ copy \notin made
    /\ mu[h] = None
    /\ made' = made \cup {copy}
    /\ stream' = [stream EXCEPT ![copy] = stream[h]]
    /\ UNCHANGED <<broken, mu, callVars, fateVars>>

-----------------------------------------------------------------------------
(* Core and the wire.                                                      *)

LogArrives(s) ==
    /\ wire[s] = "open"
    /\ flight[s] # << >>
    /\ arrived' = arrived \cup {Head(flight[s])}
    /\ flight' = [flight EXCEPT ![s] = Tail(@)]
    /\ UNCHANGED <<handlerVars, callVars, wire, stderr, lost>>

(* The streams of S end: with the connection, or because core ends them (a *)
(* host without a LogService refuses every one). *)
LogCut(S) ==
    LET gone == {s \in S : wire[s] = "open"} IN
    /\ wire' = [s \in Handlers |-> IF s \in gone THEN "cut" ELSE wire[s]]
    /\ lost' = lost \cup UNION {ToSet(flight[s]) : s \in gone}
    /\ flight' = [s \in Handlers |-> IF s \in gone THEN << >> ELSE flight[s]]
    /\ UNCHANGED <<handlerVars, callVars, arrived, stderr>>

LogHears(s) ==
    /\ wire[s] = "cut"
    /\ wire' = [wire EXCEPT ![s] = "dead"]
    /\ UNCHANGED <<handlerVars, callVars, flight, arrived, stderr, lost>>

Logging(g) ==
    Lock(g) \/ Opens(g) \/ OpenFails(g) \/ Sends(g) \/ SendFails(g) \/ FallsBack(g)

=============================================================================
