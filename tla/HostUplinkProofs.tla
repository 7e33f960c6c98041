--------------------------- MODULE HostUplinkProofs ---------------------------
(***************************************************************************)
(* Proofs about HostUplink, for any number of goroutines, handlers,        *)
(* records and drops of the connection, and any flow-control window: what  *)
(* becomes of each log record, and that core's log of a handler has no     *)
(* holes.                                                                  *)
(***************************************************************************)
EXTENDS HostUplink, FiniteSetTheorems, SequenceTheorems, TLAPS

-----------------------------------------------------------------------------
(* The inductive invariant.                                                *)

Holding == {g \in Goroutines : pc[g] \in {"open", "send"}}

Lockers == {g \in Goroutines : pc[g] = "lock"}

Shipping == {g \in Goroutines : pc[g] \in {"open", "send", "fallback"}}

(* The records on standard error or on their way to it. *)
Fallen == stderr \cup {rec[g] : g \in {x \in Goroutines : pc[x] = "fallback"}}

(* The bound on the records leaves room for those about to be made. *)
BoundInv ==
    /\ IsFiniteSet(Lockers)
    /\ Len(records) + Cardinality(Lockers) <= MaxRecords

(* A goroutine ships a record of its own; one inside send ships the newest *)
(* of its handler, which still trusts its stream.                          *)
CallInv ==
    /\ \A g \in Goroutines : on[g] \in made
    /\ \A g \in Shipping : rec[g] \in DOMAIN records /\ records[rec[g]] = on[g]
    /\ \A g, k \in Shipping : rec[g] = rec[k] => g = k
    /\ \A g \in Holding :
          /\ ~broken[on[g]]
          /\ pc[g] = "open" <=> stream[on[g]] = None
          /\ \A i \in DOMAIN records : records[i] = on[g] => i <= rec[g]

(* A handler has one stream in its life: none yet, its own or its          *)
(* parent's, and none again once it is broken.                             *)
HandlerInv ==
    /\ \A i \in DOMAIN records : records[i] \in made
    /\ \A h \in Handlers :
          /\ h \notin made => stream[h] = None /\ ~broken[h]
          /\ stream[h] # None => wire[stream[h]] # "none" /\ ~broken[h]
          /\ stream[h] = None /\ ~broken[h] => wire[h] = "none"

(* Only an open stream has records in flight, all of handlers that use it, *)
(* those of one handler in their order.                                    *)
StreamInv ==
    \A s \in Handlers : \A k \in DOMAIN flight[s] :
       /\ wire[s] = "open"
       /\ flight[s][k] \in DOMAIN records
       /\ stream[records[flight[s][k]]] = s
       /\ \A l \in DOMAIN flight[s] :
             k < l /\ records[flight[s][k]] = records[flight[s][l]] =>
                flight[s][k] < flight[s][l]

(* A handler falls back for good, and loses records only with its stream.  *)
FateInv ==
    /\ \A i \in Fallen : i \in DOMAIN records /\ broken[records[i]]
    /\ \A i \in lost :
          /\ i \in DOMAIN records
          /\ \/ broken[records[i]]
             \/ stream[records[i]] # None /\ wire[stream[records[i]]] # "open"

(* What is known of a record from where a later one of its handler is.     *)
OrderInv ==
    \A i, j \in DOMAIN records :
       i < j /\ records[i] = records[j] =>
          /\ j \in arrived => i \in arrived
          /\ j \in InFlight => i \in arrived \cup InFlight
          /\ j \in lost => i \notin Fallen

IInv ==
    /\ TypeOK
    /\ BoundInv
    /\ CallInv
    /\ HandlerInv
    /\ StreamInv
    /\ FateInv
    /\ Whereabouts
    /\ OrderInv

-----------------------------------------------------------------------------
(* Sequences and sets.                                                     *)

(* A sequence with one more element.                                       *)
LEMMA Appended ==
    ASSUME NEW S, NEW q \in Seq(S), NEW x \in S
    PROVE  /\ Append(q, x) \in Seq(S)
           /\ Len(Append(q, x)) = Len(q) + 1 /\ Len(q) \in Nat
           /\ DOMAIN q = 1..Len(q) /\ DOMAIN Append(q, x) = 1..(Len(q) + 1)
           /\ \A k \in 1..Len(q) : Append(q, x)[k] = q[k]
           /\ Append(q, x)[Len(q) + 1] = x
OBVIOUS

(* A sequence with one element less.                                       *)
LEMMA Shortened ==
    ASSUME NEW S, NEW q \in Seq(S), q # << >>
    PROVE  /\ Head(q) \in S /\ Head(q) = q[1] /\ Tail(q) \in Seq(S)
           /\ Len(q) \in Nat /\ Len(q) >= 1
           /\ DOMAIN q = 1..Len(q) /\ DOMAIN Tail(q) = 1..(Len(q) - 1)
           /\ \A k \in 1..(Len(q) - 1) : Tail(q)[k] = q[k + 1]
OBVIOUS

-----------------------------------------------------------------------------
(* Types.                                                                  *)

(* A goroutine that waits for a mutex has room for its record.             *)
LEMMA Room ==
    ASSUME BoundInv, LogTypeOK, NEW g \in Goroutines, pc[g] = "lock"
    PROVE  Len(records) + 1 <= MaxRecords
<1>1. g \in Lockers
  BY DEF Lockers
<1>2. Cardinality(Lockers) \in Nat /\ Cardinality(Lockers) # 0
  BY <1>1, FS_CardinalityType, FS_EmptySet DEF BoundInv
<1>3. Len(records) \in Nat
  BY DEF LogTypeOK
<1> QED
  BY <1>2, <1>3, MaxRecordsAssumption DEF BoundInv

(* The record a goroutine ships is one.                                    *)
LEMMA Shipped ==
    ASSUME LogTypeOK, CallInv, NEW g \in Shipping
    PROVE  /\ rec[g] \in Records /\ rec[g] \in DOMAIN records
           /\ rec[g] \in 1..Len(records)
           /\ records[rec[g]] = on[g] /\ on[g] \in Handlers
<1>1. g \in Goroutines
  BY DEF Shipping
<1> QED
  BY <1>1, MaxRecordsAssumption DEF LogTypeOK, CallInv, Records

(* The stream a goroutine sends on is one.                                 *)
LEMMA Streaming ==
    ASSUME LogTypeOK, CallInv, NEW g \in Goroutines, pc[g] = "send"
    PROVE  stream[on[g]] \in Handlers /\ stream[on[g]] # None /\ on[g] \in Handlers
BY DEF LogTypeOK, CallInv, Holding

(* What Lock does, whether or not the handler is broken.                   *)
LEMMA LockEffects ==
    ASSUME LogTypeOK, NEW g \in Goroutines, Lock(g)
    PROVE  /\ pc[g] = "lock" /\ mu[on[g]] = None /\ on[g] \in Handlers
           /\ records' = Append(records, on[g])
           /\ rec' = [rec EXCEPT ![g] = Len(records) + 1]
           /\ UNCHANGED <<made, stream, broken, on, wire, flight, arrived, stderr, lost>>
           /\ \/ /\ broken[on[g]]
                 /\ pc' = [pc EXCEPT ![g] = "fallback"] /\ mu' = mu
              \/ /\ ~broken[on[g]] /\ stream[on[g]] = None
                 /\ pc' = [pc EXCEPT ![g] = "open"] /\ mu' = [mu EXCEPT ![on[g]] = g]
              \/ /\ ~broken[on[g]] /\ stream[on[g]] # None
                 /\ pc' = [pc EXCEPT ![g] = "send"] /\ mu' = [mu EXCEPT ![on[g]] = g]
<1>1. on[g] \in Handlers
  BY DEF LogTypeOK
<1>2. CASE broken[on[g]]
  BY <1>1, <1>2 DEF Lock, Goto, fateVars
<1>3. CASE ~broken[on[g]] /\ stream[on[g]] = None
  BY <1>1, <1>3 DEF Lock, Goto, fateVars
<1>4. CASE ~broken[on[g]] /\ stream[on[g]] # None
  BY <1>1, <1>4 DEF Lock, Goto, fateVars
<1> QED
  BY <1>2, <1>3, <1>4

(* Who holds a mutex follows from where the goroutines are.                *)
LEMMA MutexStep ==
    ASSUME LogTypeOK,
           \/ \E g \in Goroutines : Logging(g)
           \/ \E g \in Goroutines, h \in Handlers : Handle(g, h)
    PROVE  MutexOK'
<1> SUFFICES ASSUME NEW h \in Handlers, NEW k \in Goroutines
             PROVE  mu'[h] = k <=> on'[k] = h /\ pc'[k] \in {"open", "send"}
  BY DEF MutexOK
<1>0. /\ mu \in [Handlers -> Goroutines \cup {None}]
      /\ pc \in [Goroutines -> {"idle", "lock", "open", "send", "fallback"}]
      /\ on \in [Goroutines -> Handlers]
      /\ \A x \in Goroutines : mu[h] = x <=> on[x] = h /\ pc[x] \in {"open", "send"}
  BY DEF LogTypeOK, MutexOK
<1> USE <1>0, NoneAssumption DEF Goto, Unlock, handlerVars, callVars, fateVars
<1>1. ASSUME NEW g \in Goroutines, NEW x \in Handlers, Handle(g, x)
      PROVE  mu'[h] = k <=> on'[k] = h /\ pc'[k] \in {"open", "send"}
  BY <1>1 DEF Handle
<1>2. ASSUME NEW g \in Goroutines, Lock(g)
      PROVE  mu'[h] = k <=> on'[k] = h /\ pc'[k] \in {"open", "send"}
  BY <1>2 DEF Lock
<1>3. ASSUME NEW g \in Goroutines, Opens(g)
      PROVE  mu'[h] = k <=> on'[k] = h /\ pc'[k] \in {"open", "send"}
  BY <1>3 DEF Opens
<1>4. ASSUME NEW g \in Goroutines, OpenFails(g) \/ Sends(g) \/ SendFails(g)
      PROVE  mu'[h] = k <=> on'[k] = h /\ pc'[k] \in {"open", "send"}
  BY <1>4 DEF OpenFails, Sends, SendFails
<1>5. ASSUME NEW g \in Goroutines, FallsBack(g)
      PROVE  mu'[h] = k <=> on'[k] = h /\ pc'[k] \in {"open", "send"}
  BY <1>5 DEF FallsBack
<1> QED
  BY <1>1, <1>2, <1>3, <1>4, <1>5 DEF Logging

(* The steps of the handlers keep their types.                             *)
LEMMA LogTypes ==
    ASSUME LogTypeOK, BoundInv, CallInv,
           \/ \E g \in Goroutines : Logging(g)
           \/ \E g \in Goroutines, h \in Handlers : Handle(g, h)
           \/ \E h, copy \in Handlers : With(h, copy)
    PROVE  LogTypeOK'
<1>0. ASSUME NEW g \in Goroutines, Lock(g)
      PROVE  /\ mu' \in [Handlers -> Goroutines \cup {None}]
             /\ pc' \in [Goroutines -> {"idle", "lock", "open", "send", "fallback"}]
  <2>1. /\ mu \in [Handlers -> Goroutines \cup {None}]
        /\ pc \in [Goroutines -> {"idle", "lock", "open", "send", "fallback"}]
    BY DEF LogTypeOK
  <2>2. /\ mu' = mu \/ mu' = [mu EXCEPT ![on[g]] = g]
        /\ \E to \in {"fallback", "open", "send"} : pc' = [pc EXCEPT ![g] = to]
    BY <1>0, LockEffects
  <2> QED
    BY <2>1, <2>2
<1> USE RootAssumption, NoneAssumption, MaxRecordsAssumption
    DEF LogTypeOK, handlerVars, callVars, fateVars, Goto, Unlock, StreamStates
<1>1. ASSUME NEW g \in Goroutines, NEW h \in Handlers, Handle(g, h) PROVE LogTypeOK'
  BY <1>1, MutexStep DEF Handle
<1>2. ASSUME NEW g \in Goroutines, Lock(g) PROVE LogTypeOK'
  <2>1. Len(records) + 1 <= MaxRecords
    BY <1>2, Room DEF Lock
  <2>2. /\ records' \in Seq(Handlers) /\ Len(records') <= MaxRecords
        /\ rec' \in [Goroutines -> 0..MaxRecords]
    BY <1>2, <2>1, Appended DEF Lock
  <2>3. /\ mu' \in [Handlers -> Goroutines \cup {None}]
        /\ pc' \in [Goroutines -> {"idle", "lock", "open", "send", "fallback"}]
    BY <1>0, <1>2
  <2>4. UNCHANGED <<made, stream, broken, on, fateVars>>
    BY <1>2 DEF Lock
  <2>5. MutexOK'
    BY <1>2, MutexStep DEF Logging
  <2> QED
    BY <2>2, <2>3, <2>4, <2>5
<1>3. ASSUME NEW g \in Goroutines, Opens(g) PROVE LogTypeOK'
  <2>1. MutexOK'
    BY <1>3, MutexStep DEF Logging
  <2> QED
    BY <1>3, <2>1 DEF Opens
<1>4. ASSUME NEW g \in Goroutines, OpenFails(g) PROVE LogTypeOK'
  <2>1. MutexOK'
    BY <1>4, MutexStep DEF Logging
  <2> QED
    BY <1>4, <2>1 DEF OpenFails
<1>5. ASSUME NEW g \in Goroutines, Sends(g) PROVE LogTypeOK'
  <2> DEFINE s == stream[on[g]]
  <2>1. rec[g] \in Records /\ s \in Handlers
    BY <1>5, Shipped, Streaming DEF Sends, Shipping
  <2> HIDE DEF s
  <2>2. flight' \in [Handlers -> Seq(Records)] /\ lost' \in SUBSET Records
    <3>1. CASE flight' = flight /\ lost' = lost \cup {rec[g]}
      BY <2>1, <3>1
    <3>2. CASE flight' = [flight EXCEPT ![s] = Append(@, rec[g])] /\ lost' = lost
      <4>1. Append(flight[s], rec[g]) \in Seq(Records)
        BY <2>1, Appended
      <4> QED
        BY <2>1, <3>2, <4>1
    <3> QED
      BY <1>5, <3>1, <3>2 DEF Sends, s
  <2>3. /\ UNCHANGED <<made, stream, broken, on, rec, records, wire, arrived, stderr>>
        /\ mu' = [mu EXCEPT ![on[g]] = None] /\ pc' = [pc EXCEPT ![g] = "idle"]
        /\ pc[g] = "send"
    BY <1>5 DEF Sends
  <2>4. MutexOK'
    BY <1>5, MutexStep DEF Logging
  <2> QED
    BY <2>2, <2>3, <2>4
<1>6. ASSUME NEW g \in Goroutines, SendFails(g) PROVE LogTypeOK'
  <2>1. MutexOK'
    BY <1>6, MutexStep DEF Logging
  <2> QED
    BY <1>6, <2>1 DEF SendFails
<1>7. ASSUME NEW g \in Goroutines, FallsBack(g) PROVE LogTypeOK'
  <2>1. rec[g] \in Records
    BY <1>7, Shipped DEF FallsBack, Shipping
  <2>2. MutexOK'
    BY <1>7, MutexStep DEF Logging
  <2> QED
    BY <1>7, <2>1, <2>2 DEF FallsBack
<1>8. ASSUME NEW h \in Handlers, NEW copy \in Handlers, With(h, copy) PROVE LogTypeOK'
  BY <1>8 DEF With, MutexOK
<1> QED
  BY <1>1, <1>2, <1>3, <1>4, <1>5, <1>6, <1>7, <1>8 DEF Logging

(* So do those of core and the wire.                                       *)
LEMMA WireTypes ==
    ASSUME LogTypeOK,
           \/ \E s \in Handlers : LogArrives(s) \/ LogHears(s)
           \/ \E S \in SUBSET Handlers : LogCut(S)
           \/ UNCHANGED logVars
    PROVE  LogTypeOK'
<1> USE DEF LogTypeOK, logVars, handlerVars, callVars, fateVars, MutexOK, StreamStates
<1>1. ASSUME NEW s \in Handlers, LogArrives(s) PROVE LogTypeOK'
  <2>1. Head(flight[s]) \in Records /\ Tail(flight[s]) \in Seq(Records)
    BY <1>1, Shortened DEF LogArrives
  <2>2. flight' \in [Handlers -> Seq(Records)] /\ arrived' \in SUBSET Records
    BY <1>1, <2>1 DEF LogArrives
  <2>3. UNCHANGED <<handlerVars, callVars, wire, stderr, lost>>
    BY <1>1 DEF LogArrives
  <2> QED
    BY <2>2, <2>3
<1>2. ASSUME NEW s \in Handlers, LogHears(s) PROVE LogTypeOK'
  BY <1>2 DEF LogHears
<1>3. ASSUME NEW S \in SUBSET Handlers, LogCut(S) PROVE LogTypeOK'
  <2> DEFINE gone == {s \in S : wire[s] = "open"}
  <2>1. /\ wire' = [s \in Handlers |-> IF s \in gone THEN "cut" ELSE wire[s]]
        /\ lost' = lost \cup UNION {ToSet(flight[s]) : s \in gone}
        /\ flight' = [s \in Handlers |-> IF s \in gone THEN << >> ELSE flight[s]]
        /\ UNCHANGED <<handlerVars, callVars, arrived, stderr>>
    BY <1>3 DEF LogCut
  <2>2. << >> \in Seq(Records)
    OBVIOUS
  <2>3. flight' \in [Handlers -> Seq(Records)] /\ wire' \in [Handlers -> StreamStates]
    BY <2>1, <2>2
  <2>4. ASSUME NEW s \in gone PROVE ToSet(flight[s]) \in SUBSET Records
    BY DEF ToSet, gone
  <2> HIDE DEF gone
  <2>5. lost' \in SUBSET Records
    BY <2>1, <2>4
  <2> QED
    BY <2>1, <2>3, <2>5
<1>4. CASE UNCHANGED logVars
  BY <1>4
<1> QED
  BY <1>1, <1>2, <1>3, <1>4

-----------------------------------------------------------------------------
(* Places.                                                                 *)

(* Each record is in one of the five.                                      *)
Everywhere == InHand \cup InFlight \cup arrived \cup stderr \cup lost = DOMAIN records

Apart ==
    \A i \in DOMAIN records :
       /\ i \in InHand => i \notin InFlight \cup arrived \cup stderr \cup lost
       /\ i \in InFlight => i \notin arrived \cup stderr \cup lost
       /\ i \in arrived => i \notin stderr \cup lost
       /\ i \in stderr => i \notin lost

(* This is what Whereabouts says.                                          *)
LEMMA Explicit == Whereabouts <=> Everywhere /\ Apart
<1> DEFINE places == <<InHand, InFlight, arrived, stderr, lost>>
<1>1. /\ DOMAIN places = 1..5
      /\ places[1] = InHand /\ places[2] = InFlight /\ places[3] = arrived
      /\ places[4] = stderr /\ places[5] = lost
  OBVIOUS
<1>2. 1..5 = {1, 2, 3, 4, 5}
  OBVIOUS
<1>3. Whereabouts <=> /\ UNION {places[k] : k \in DOMAIN places} = DOMAIN records
                      /\ \A k, l \in DOMAIN places : k # l => places[k] \cap places[l] = {}
  BY DEF Whereabouts
<1> HIDE DEF places
<1>4. UNION {places[k] : k \in DOMAIN places}
         = InHand \cup InFlight \cup arrived \cup stderr \cup lost
  BY <1>1, <1>2
<1>5. (\A k, l \in DOMAIN places : k # l => places[k] \cap places[l] = {})
      <=> /\ InHand \cap InFlight = {} /\ InHand \cap arrived = {}
          /\ InHand \cap stderr = {} /\ InHand \cap lost = {}
          /\ InFlight \cap arrived = {} /\ InFlight \cap stderr = {} /\ InFlight \cap lost = {}
          /\ arrived \cap stderr = {} /\ arrived \cap lost = {} /\ stderr \cap lost = {}
  BY <1>1, <1>2
<1> QED
  BY <1>3, <1>4, <1>5 DEF Everywhere, Apart

(* A record in flight has a place on a stream.                             *)
LEMMA OnStream ==
    /\ \A i : i \in InFlight <=>
                 \E s \in Handlers : \E k \in DOMAIN flight[s] : flight[s][k] = i
    /\ \A i : i \in InFlight' <=>
                 \E s \in Handlers : \E k \in DOMAIN flight'[s] : flight'[s][k] = i
BY DEF InFlight, ToSet

(* Everything but the types and the bound.                                 *)
Inner ==
    /\ CallInv
    /\ HandlerInv
    /\ StreamInv
    /\ FateInv
    /\ Everywhere
    /\ Apart
    /\ OrderInv

(* The goroutine inside send is the only one its handler has there.        *)
LEMMA OneHolder ==
    ASSUME LogTypeOK
    PROVE  /\ \A g, k \in Holding : on[g] = on[k] => g = k
           /\ \A g \in Holding : mu[on[g]] = g /\ mu[on[g]] # None
<1>1. \A g \in Holding : g \in Goroutines /\ on[g] \in Handlers /\ mu[on[g]] = g
  BY DEF LogTypeOK, MutexOK, Holding
<1> QED
  BY <1>1, NoneAssumption

(* Who ships a record, in terms of who falls back and who is inside send.  *)
LEMMA Shippers ==
    /\ Shipping = Holding \cup {x \in Goroutines : pc[x] = "fallback"}
    /\ InHand = {rec[g] : g \in Shipping}
    /\ \A g \in Goroutines : pc[g] = "fallback" => rec[g] \in Fallen
    /\ Fallen \subseteq stderr \cup InHand
BY DEF Shipping, Holding, InHand, Fallen

-----------------------------------------------------------------------------
(* The steps, one by one.                                                  *)

(* A call of Handle changes nothing about records.                         *)
LEMMA HandleStep ==
    ASSUME LogTypeOK, Inner, NEW g \in Goroutines, NEW h \in Handlers, Handle(g, h)
    PROVE  /\ Inner'
           /\ UNCHANGED <<records, InHand, InFlight, arrived, stderr, lost>>
<1>1. /\ pc[g] = "idle" /\ h \in made
      /\ on' = [on EXCEPT ![g] = h] /\ pc' = [pc EXCEPT ![g] = "lock"]
      /\ UNCHANGED <<made, stream, broken, mu, rec, records, wire, flight, arrived, stderr, lost>>
  BY DEF Handle, Goto, handlerVars, fateVars
<1>2. /\ on \in [Goroutines -> Handlers]
      /\ pc \in [Goroutines -> {"idle", "lock", "open", "send", "fallback"}]
  BY DEF LogTypeOK
<1>3. Shipping' = Shipping /\ Holding' = Holding /\ g \notin Shipping /\ g \notin Holding
  BY <1>1, <1>2 DEF Shipping, Holding
<1>4. Fallen' = Fallen
  BY <1>1, <1>2 DEF Fallen
<1>5. InHand' = InHand /\ InFlight' = InFlight
  BY <1>1, <1>2 DEF InHand, InFlight
<1>6. \A k \in Goroutines : k # g => on'[k] = on[k] /\ pc'[k] = pc[k]
  BY <1>1, <1>2
<1>7. Shipping \subseteq Goroutines /\ Holding \subseteq Goroutines
  BY DEF Shipping, Holding
<1>8. CallInv'
  BY <1>1, <1>2, <1>3, <1>6, <1>7 DEF Inner, CallInv
<1>9. HandlerInv' /\ StreamInv'
  BY <1>1 DEF Inner, HandlerInv, StreamInv
<1>10. FateInv' /\ OrderInv' /\ Everywhere' /\ Apart'
  BY <1>1, <1>4, <1>5 DEF Inner, FateInv, OrderInv, Everywhere, Apart
<1> QED
  BY <1>1, <1>5, <1>8, <1>9, <1>10 DEF Inner

(* Nor does a copy of a handler.                                           *)
LEMMA WithStep ==
    ASSUME LogTypeOK, Inner, NEW h \in Handlers, NEW copy \in Handlers, With(h, copy)
    PROVE  /\ Inner'
           /\ UNCHANGED <<records, InHand, InFlight, arrived, stderr, lost>>
<1>1. /\ h \in made /\ copy \notin made /\ made' = made \cup {copy}
      /\ stream' = [stream EXCEPT ![copy] = stream[h]]
      /\ UNCHANGED <<broken, mu, pc, on, rec, records, wire, flight, arrived, stderr, lost>>
  BY DEF With, callVars, fateVars
<1>2. /\ stream \in [Handlers -> Handlers \cup {None}] /\ records \in Seq(Handlers)
      /\ on \in [Goroutines -> Handlers] /\ made \in SUBSET Handlers
  BY DEF LogTypeOK
<1>3. /\ \A i \in DOMAIN records : records[i] # copy /\ records[i] \in Handlers
      /\ \A g \in Goroutines : on[g] # copy
      /\ stream[copy] = None /\ ~broken[copy] /\ wire[copy] = "none"
  BY <1>1, <1>2 DEF Inner, CallInv, HandlerInv
<1>4. \A x \in Handlers : x # copy => stream'[x] = stream[x]
  BY <1>1, <1>2
<1>5. Shipping' = Shipping /\ Holding' = Holding /\ Fallen' = Fallen
  BY <1>1 DEF Shipping, Holding, Fallen
<1>6. InHand' = InHand /\ InFlight' = InFlight
  BY <1>1 DEF InHand, InFlight
<1>7. CallInv'
  BY <1>1, <1>2, <1>3, <1>4, <1>5 DEF Inner, CallInv, Holding
<1>8. HandlerInv'
  BY <1>1, <1>2, <1>3, <1>4 DEF Inner, HandlerInv
<1>9. StreamInv'
  BY <1>1, <1>3, <1>4 DEF Inner, StreamInv
<1>10. FateInv'
  BY <1>1, <1>3, <1>4, <1>5 DEF Inner, FateInv
<1>11. OrderInv' /\ Everywhere' /\ Apart'
  BY <1>1, <1>5, <1>6 DEF Inner, OrderInv, Everywhere, Apart
<1> QED
  BY <1>1, <1>6, <1>7, <1>8, <1>9, <1>10, <1>11 DEF Inner

(* A new record is in hand.                                                *)
LEMMA LockStep ==
    ASSUME LogTypeOK, Inner, NEW g \in Goroutines, Lock(g)
    PROVE  /\ Inner'
           /\ records' = Append(records, on[g]) /\ on[g] \in Handlers
           /\ InHand' = InHand \cup {Len(records) + 1}
           /\ UNCHANGED <<InFlight, arrived, stderr, lost>>
<1> DEFINE n == Len(records) + 1
           h == on[g]
<1>1. /\ pc[g] = "lock" /\ mu[h] = None /\ h \in Handlers
      /\ records' = Append(records, h) /\ rec' = [rec EXCEPT ![g] = n]
      /\ UNCHANGED <<made, stream, broken, on, wire, flight, arrived, stderr, lost>>
  BY LockEffects
<1>2. \/ broken[h] /\ pc' = [pc EXCEPT ![g] = "fallback"]
      \/ ~broken[h] /\ stream[h] = None /\ pc' = [pc EXCEPT ![g] = "open"]
      \/ ~broken[h] /\ stream[h] # None /\ pc' = [pc EXCEPT ![g] = "send"]
  BY LockEffects
<1>3. /\ on \in [Goroutines -> Handlers] /\ rec \in [Goroutines -> 0..MaxRecords]
      /\ pc \in [Goroutines -> {"idle", "lock", "open", "send", "fallback"}]
      /\ records \in Seq(Handlers)
  BY DEF LogTypeOK
<1>4. /\ Len(records) \in Nat /\ DOMAIN records = 1..Len(records)
      /\ DOMAIN records' = 1..n /\ n \notin DOMAIN records
      /\ \A i \in DOMAIN records : records'[i] = records[i] /\ i <= n
      /\ records'[n] = h /\ n \in DOMAIN records'
      /\ DOMAIN records' = DOMAIN records \cup {n}
  BY <1>1, <1>3, Appended
<1> HIDE DEF n, h
<1>5. /\ g \notin Shipping /\ Shipping' = Shipping \cup {g}
      /\ Holding' = IF broken[h] THEN Holding ELSE Holding \cup {g}
  BY <1>1, <1>2, <1>3 DEF Shipping, Holding
<1>6. /\ rec'[g] = n
      /\ \A k \in Goroutines : k # g => rec'[k] = rec[k] /\ pc'[k] = pc[k]
  BY <1>1, <1>2, <1>3
<1>7. /\ Shipping \subseteq Goroutines /\ Holding \subseteq Shipping
      /\ \A k \in Shipping : k # g /\ rec'[k] = rec[k] /\ pc'[k] = pc[k]
      /\ \A k \in Shipping : rec[k] \in DOMAIN records
  BY <1>5, <1>6 DEF Shipping, Holding, Inner, CallInv
<1>8. Fallen' = IF broken[h] THEN Fallen \cup {n} ELSE Fallen
  <2> DEFINE back == {x \in Goroutines : pc[x] = "fallback"}
  <2>1. back' = IF broken[h] THEN back \cup {g} ELSE back
    BY <1>1, <1>2, <1>3, <1>6
  <2>2. g \notin back /\ back \subseteq Goroutines
    BY <1>1
  <2>3. Fallen = stderr \cup {rec[x] : x \in back} /\ stderr' = stderr
    BY <1>1 DEF Fallen
  <2>4. Fallen' = stderr' \cup {rec'[x] : x \in back'}
    BY DEF Fallen
  <2> HIDE DEF back
  <2> QED
    BY <1>6, <2>1, <2>2, <2>3, <2>4
<1>9. InHand' = InHand \cup {n} /\ InFlight' = InFlight
  <2>1. InHand' = {rec'[k] : k \in Shipping \cup {g}}
    BY <1>5 DEF InHand, Shipping
  <2>2. InHand = {rec[k] : k \in Shipping}
    BY Shippers
  <2>3. InHand' = InHand \cup {n}
    BY <2>1, <2>2, <1>6, <1>7
  <2> QED
    BY <2>3, <1>1 DEF InFlight
<1>10. CallInv'
  <2>1. \A k \in Goroutines : on'[k] \in made'
    BY <1>1 DEF Inner, CallInv
  <2>2. ASSUME NEW k \in Shipping'
        PROVE  rec'[k] \in DOMAIN records' /\ records'[rec'[k]] = on'[k]
    BY <1>1, <1>4, <1>5, <1>6, <1>7 DEF Inner, CallInv, h
  <2>3. ASSUME NEW k \in Shipping', NEW l \in Shipping', rec'[k] = rec'[l]
        PROVE  k = l
    BY <2>3, <1>4, <1>5, <1>6, <1>7 DEF Inner, CallInv
  <2>4. ASSUME NEW k \in Holding'
        PROVE  /\ ~broken'[on'[k]]
               /\ pc'[k] = "open" <=> stream'[on'[k]] = None
               /\ \A i \in DOMAIN records' : records'[i] = on'[k] => i <= rec'[k]
    <3>1. CASE k = g
      <4>1. ~broken[h]
        BY <3>1, <1>5, <1>7
      <4>2. pc'[g] = "open" <=> stream[h] = None
        BY <4>1, <1>2, <1>3
      <4>3. \A i \in DOMAIN records' : i <= n
        BY <1>4
      <4> QED
        BY <3>1, <4>1, <4>2, <4>3, <1>1, <1>6 DEF h
    <3>2. CASE k # g
      <4>1. k \in Holding
        BY <3>2, <1>5
      <4>2. on[k] # h
        BY <4>1, <1>1, OneHolder
      <4> QED
        BY <4>1, <4>2, <1>1, <1>4, <1>7 DEF Inner, CallInv
    <3> QED
      BY <3>1, <3>2
  <2> QED
    BY <2>1, <2>2, <2>3, <2>4 DEF CallInv
<1>11. HandlerInv'
  <2>1. h \in made
    BY DEF Inner, CallInv, h
  <2> QED
    BY <2>1, <1>1, <1>4 DEF Inner, HandlerInv
<1>12. StreamInv'
  BY <1>1, <1>4 DEF Inner, StreamInv
<1>13. FateInv'
  BY <1>1, <1>4, <1>8 DEF Inner, FateInv
<1>14. Everywhere'
  BY <1>1, <1>4, <1>9 DEF Inner, Everywhere
<1>15. n \notin InFlight \cup arrived \cup stderr \cup lost
  BY <1>4 DEF Inner, Everywhere
<1>16. Apart'
  BY <1>1, <1>4, <1>9, <1>15 DEF Inner, Apart
<1>17. OrderInv'
  <2> SUFFICES ASSUME NEW i \in DOMAIN records', NEW j \in DOMAIN records',
                      i < j, records'[i] = records'[j]
               PROVE  /\ j \in arrived => i \in arrived
                      /\ j \in InFlight => i \in arrived \cup InFlight
                      /\ j \in lost => i \notin Fallen'
    BY <1>1, <1>9 DEF OrderInv
  <2>1. i \in DOMAIN records
    BY <1>4
  <2>2. CASE j = n
    BY <2>2, <1>15
  <2>3. CASE j # n
    <3>1. j \in DOMAIN records /\ records[i] = records[j] /\ i # n
      BY <2>1, <2>3, <1>4
    <3> QED
      BY <2>1, <3>1, <1>8 DEF Inner, OrderInv
  <2> QED
    BY <2>2, <2>3
<1> QED
  BY <1>1, <1>9, <1>10, <1>11, <1>12, <1>13, <1>14, <1>16, <1>17 DEF Inner, n, h

(* A stream is opened for a handler that has none.                         *)
LEMMA OpensStep ==
    ASSUME LogTypeOK, Inner, NEW g \in Goroutines, Opens(g)
    PROVE  /\ Inner'
           /\ UNCHANGED <<records, InHand, InFlight, arrived, stderr, lost>>
<1> DEFINE h == on[g]
<1>1. /\ pc[g] = "open"
      /\ stream' = [stream EXCEPT ![h] = h] /\ wire' = [wire EXCEPT ![h] = "open"]
      /\ pc' = [pc EXCEPT ![g] = "send"]
      /\ UNCHANGED <<made, broken, mu, on, rec, records, flight, arrived, stderr, lost>>
  BY DEF Opens, Goto
<1>2. /\ pc \in [Goroutines -> {"idle", "lock", "open", "send", "fallback"}]
      /\ stream \in [Handlers -> Handlers \cup {None}] /\ h \in Handlers
      /\ wire \in [Handlers -> StreamStates] /\ on \in [Goroutines -> Handlers]
      /\ records \in Seq(Handlers)
  BY DEF LogTypeOK
<1>3. g \in Holding /\ Holding' = Holding /\ Shipping' = Shipping /\ Fallen' = Fallen
  BY <1>1, <1>2 DEF Holding, Shipping, Fallen
<1>4. InHand' = InHand /\ InFlight' = InFlight
  BY <1>1, <1>2 DEF InHand, InFlight
<1>5. h \in made /\ ~broken[h] /\ stream[h] = None /\ wire[h] = "none"
  BY <1>1, <1>2, <1>3 DEF Inner, CallInv, HandlerInv
<1>6. /\ stream'[h] = h /\ wire'[h] = "open" /\ h # None
      /\ \A x \in Handlers : x # h => stream'[x] = stream[x] /\ wire'[x] = wire[x]
      /\ \A x \in Handlers : stream[x] # h
      /\ DOMAIN flight[h] = {}
  BY <1>1, <1>2, <1>5, NoneAssumption DEF Inner, HandlerInv, StreamInv
<1>7. \A i \in DOMAIN records : records[i] \in Handlers
  BY <1>2
<1>8. CallInv'
  <2>1. ASSUME NEW k \in Holding
        PROVE  /\ ~broken'[on'[k]]
               /\ pc'[k] = "open" <=> stream'[on'[k]] = None
               /\ \A i \in DOMAIN records' : records'[i] = on'[k] => i <= rec'[k]
    <3>0. k \in Goroutines /\ on[k] \in Handlers
      BY <1>2 DEF Holding
    <3>1. CASE k = g
      BY <3>1, <1>1, <1>2, <1>3, <1>6 DEF Inner, CallInv
    <3>2. CASE k # g
      <4>1. on[k] # h
        BY <3>2, <1>3, OneHolder
      <4> QED
        BY <3>0, <3>2, <4>1, <1>1, <1>2, <1>6 DEF Inner, CallInv
    <3> QED
      BY <3>1, <3>2
  <2> QED
    BY <2>1, <1>1, <1>3 DEF Inner, CallInv
<1> HIDE DEF h
<1>9. HandlerInv'
  BY <1>1, <1>2, <1>5, <1>6 DEF Inner, HandlerInv
<1>10. StreamInv'
  BY <1>1, <1>5, <1>6, <1>7, NoneAssumption DEF Inner, StreamInv
<1>11. FateInv'
  BY <1>1, <1>3, <1>5, <1>6, <1>7 DEF Inner, FateInv, HandlerInv
<1>12. OrderInv' /\ Everywhere' /\ Apart'
  BY <1>1, <1>3, <1>4 DEF Inner, OrderInv, Everywhere, Apart
<1> QED
  BY <1>1, <1>4, <1>8, <1>9, <1>10, <1>11, <1>12 DEF Inner

(* A handler that gives up its stream, before or after it had one, falls   *)
(* back with the newest of its records.                                    *)
LEMMA FailsStep ==
    ASSUME LogTypeOK, Inner, NEW g \in Goroutines, OpenFails(g) \/ SendFails(g)
    PROVE  /\ Inner'
           /\ UNCHANGED <<records, InHand, InFlight, arrived, stderr, lost>>
<1> DEFINE h == on[g]
           r == rec[g]
<1>1. /\ pc[g] \in {"open", "send"}
      /\ broken' = [broken EXCEPT ![h] = TRUE]
      /\ mu' = [mu EXCEPT ![h] = None] /\ pc' = [pc EXCEPT ![g] = "fallback"]
      /\ UNCHANGED <<made, on, rec, records, wire, flight, arrived, stderr, lost>>
  BY DEF OpenFails, SendFails, Unlock, Goto, fateVars
<1>2. \/ stream' = stream /\ pc[g] = "open"
      \/ /\ stream' = [stream EXCEPT ![h] = None] /\ pc[g] = "send"
         /\ wire[stream[h]] = "dead"
  BY DEF OpenFails, SendFails
<1>3. /\ pc \in [Goroutines -> {"idle", "lock", "open", "send", "fallback"}]
      /\ stream \in [Handlers -> Handlers \cup {None}] /\ h \in Handlers
      /\ broken \in [Handlers -> BOOLEAN] /\ on \in [Goroutines -> Handlers]
      /\ records \in Seq(Handlers)
  BY DEF LogTypeOK
<1>4. /\ g \in Holding /\ Holding' = Holding \ {g}
      /\ Shipping' = Shipping /\ g \in Shipping /\ Fallen' = Fallen \cup {r}
  BY <1>1, <1>3 DEF Holding, Shipping, Fallen
<1>5. InHand' = InHand /\ InFlight' = InFlight
  BY <1>1, <1>3 DEF InHand, InFlight
<1>6. /\ h \in made /\ r \in DOMAIN records /\ records[r] = h
      /\ \A i \in DOMAIN records : records[i] = h => i <= r
  BY <1>4 DEF Inner, CallInv, Holding
<1>7. /\ broken'[h] /\ stream'[h] = None
      /\ \A x \in Handlers : x # h => broken'[x] = broken[x] /\ stream'[x] = stream[x]
  BY <1>1, <1>2, <1>3, <1>4 DEF Inner, CallInv
<1>8. /\ \A k \in Holding' : k \in Holding /\ k \in Goroutines /\ on[k] # h /\ pc'[k] = pc[k]
      /\ \A i \in DOMAIN records : records[i] \in Handlers
  BY <1>1, <1>3, <1>4, OneHolder DEF Holding
<1>9. CallInv'
  BY <1>1, <1>3, <1>4, <1>7, <1>8 DEF Inner, CallInv
<1> HIDE DEF h, r
<1>10. HandlerInv'
  BY <1>1, <1>3, <1>6, <1>7 DEF Inner, HandlerInv
<1>11. StreamInv'
  <2>1. ASSUME NEW s \in Handlers, NEW k \in DOMAIN flight[s]
        PROVE  records[flight[s][k]] # h
    BY <1>2, <2>1, <1>3, <1>4, NoneAssumption DEF Inner, StreamInv, CallInv, h
  <2> QED
    BY <2>1, <1>1, <1>7, <1>8 DEF Inner, StreamInv
<1>12. FateInv'
  BY <1>1, <1>4, <1>6, <1>7, <1>8 DEF Inner, FateInv
<1>13. OrderInv'
  <2>1. ASSUME NEW j \in DOMAIN records, records[j] = h PROVE ~(r < j)
    <3>1. DOMAIN records = 1..Len(records) /\ Len(records) \in Nat /\ j <= r
      BY <2>1, <1>3, <1>6
    <3> QED
      BY <3>1, <1>6
  <2> QED
    BY <2>1, <1>1, <1>4, <1>5, <1>6 DEF Inner, OrderInv
<1>14. Everywhere' /\ Apart'
  BY <1>1, <1>5 DEF Inner, Everywhere, Apart
<1> QED
  BY <1>1, <1>5, <1>9, <1>10, <1>11, <1>12, <1>13, <1>14 DEF Inner

(* A record reaches standard error.                                        *)
LEMMA FallsBackStep ==
    ASSUME LogTypeOK, Inner, NEW g \in Goroutines, FallsBack(g)
    PROVE  /\ Inner'
           /\ rec[g] \in InHand /\ rec[g] \in Fallen
           /\ InHand' = InHand \ {rec[g]} /\ stderr' = stderr \cup {rec[g]}
           /\ UNCHANGED <<records, InFlight, arrived, lost>>
<1> DEFINE r == rec[g]
<1>1. /\ pc[g] = "fallback" /\ stderr' = stderr \cup {r} /\ pc' = [pc EXCEPT ![g] = "idle"]
      /\ UNCHANGED <<made, stream, broken, mu, on, rec, records, wire, flight, arrived, lost>>
  BY DEF FallsBack, Goto, handlerVars
<1>2. pc \in [Goroutines -> {"idle", "lock", "open", "send", "fallback"}]
  BY DEF LogTypeOK
<1>3. /\ g \in Shipping /\ Shipping' = Shipping \ {g} /\ Holding' = Holding
      /\ Fallen' = Fallen
      /\ \A k \in Holding : k \in Goroutines /\ k # g
  BY <1>1, <1>2 DEF Shipping, Holding, Fallen
<1>4. InHand' = InHand \ {r} /\ InFlight' = InFlight /\ r \in InHand
  <2>1. InHand' = {rec[k] : k \in Shipping \ {g}}
    BY <1>1, <1>3 DEF InHand, Shipping
  <2> QED
    BY <2>1, <1>1, <1>3, Shippers DEF InFlight, Inner, CallInv
<1>5. CallInv'
  BY <1>1, <1>2, <1>3 DEF Inner, CallInv
<1>6. HandlerInv' /\ StreamInv'
  BY <1>1 DEF Inner, HandlerInv, StreamInv
<1>7. FateInv' /\ OrderInv'
  BY <1>1, <1>3, <1>4 DEF Inner, FateInv, OrderInv
<1>8. Everywhere'
  BY <1>1, <1>4 DEF Inner, Everywhere
<1>9. Apart'
  BY <1>1, <1>4 DEF Inner, Apart, Everywhere
<1> QED
  BY <1>1, <1>4, <1>5, <1>6, <1>7, <1>8, <1>9, Shippers DEF Inner

(* A stream takes a record, or pretends to.                                *)
LEMMA SendsStep ==
    ASSUME LogTypeOK, Inner, NEW g \in Goroutines, Sends(g)
    PROVE  /\ Inner'
           /\ rec[g] \in InHand /\ InHand' = InHand \ {rec[g]}
           /\ UNCHANGED <<records, arrived, stderr>>
           /\ \/ InFlight' = InFlight \cup {rec[g]} /\ lost' = lost
              \/ InFlight' = InFlight /\ lost' = lost \cup {rec[g]}
<1> DEFINE h == on[g]
           r == rec[g]
           s == stream[h]
<1>1. /\ pc[g] = "send" /\ pc' = [pc EXCEPT ![g] = "idle"]
      /\ UNCHANGED <<made, stream, broken, on, rec, records, wire, arrived, stderr>>
  BY DEF Sends, Unlock, Goto
<1>2. \/ /\ wire[s] = "open" /\ lost' = lost
         /\ flight' = [flight EXCEPT ![s] = Append(@, r)]
      \/ wire[s] = "cut" /\ flight' = flight /\ lost' = lost \cup {r}
  BY DEF Sends
<1>3. /\ pc \in [Goroutines -> {"idle", "lock", "open", "send", "fallback"}]
      /\ flight \in [Handlers -> Seq(Records)]
      /\ records \in Seq(Handlers)
  BY DEF LogTypeOK
<1>4. /\ g \in Holding /\ g \in Shipping
      /\ Holding' = Holding \ {g} /\ Shipping' = Shipping \ {g} /\ Fallen' = Fallen
  BY <1>1, <1>3 DEF Holding, Shipping, Fallen
<1>5. InHand' = InHand \ {r} /\ r \in InHand
  <2>1. InHand' = {rec[k] : k \in Shipping \ {g}}
    BY <1>1, <1>4 DEF InHand, Shipping
  <2> QED
    BY <2>1, <1>4, Shippers DEF Inner, CallInv
<1>6. /\ s \in Handlers /\ s # None /\ ~broken[h]
      /\ r \in DOMAIN records /\ r \in Records /\ records[r] = h
      /\ DOMAIN records \subseteq Nat
      /\ \A i \in DOMAIN records : records[i] = h => i <= r
  <2>1. s \in Handlers /\ s # None
    BY <1>1, Streaming DEF Inner
  <2>2. r \in DOMAIN records /\ r \in Records /\ records[r] = h
    BY <1>4, Shipped DEF Inner
  <2>3. ~broken[h] /\ \A i \in DOMAIN records : records[i] = h => i <= r
    BY <1>4 DEF Inner, CallInv
  <2> QED
    BY <2>1, <2>2, <2>3, <1>3
<1>7. /\ r \notin InFlight \cup arrived \cup stderr \cup lost
      /\ \A i \in DOMAIN records : records[i] = h => i \notin Fallen /\ ~(r < i)
      /\ \A i \in DOMAIN records :
            records[i] = h /\ i # r => i \in InFlight \cup arrived \cup lost
  <2>1. r \notin InFlight \cup arrived \cup stderr \cup lost
    BY <1>5, <1>6 DEF Inner, Apart
  <2>2. ASSUME NEW i \in DOMAIN records, records[i] = h PROVE i \notin Fallen /\ ~(r < i)
    BY <2>2, <1>6 DEF Inner, FateInv
  <2>3. ASSUME NEW i \in DOMAIN records, records[i] = h, i # r, i \in InHand PROVE FALSE
    <3>1. PICK k \in Shipping : rec[k] = i
      BY <2>3, Shippers
    <3>2. k \in Holding
      BY <3>1, <2>2, <2>3, Shippers DEF Shipping, Holding
    <3>3. on[k] = on[g]
      BY <2>3, <3>1 DEF Inner, CallInv
    <3> QED
      BY <2>3, <3>1, <3>2, <3>3, <1>4, OneHolder
  <2>4. stderr \subseteq Fallen
    BY DEF Fallen
  <2> QED
    BY <2>1, <2>2, <2>3, <2>4 DEF Inner, Everywhere
<1>8. CallInv'
  BY <1>1, <1>3, <1>4 DEF Inner, CallInv, Holding
<1>9. HandlerInv'
  BY <1>1 DEF Inner, HandlerInv
<1>10. CASE wire[s] = "cut" /\ flight' = flight /\ lost' = lost \cup {r}
  <2>1. InFlight' = InFlight
    BY <1>10 DEF InFlight
  <2>2. StreamInv'
    BY <1>1, <1>10 DEF Inner, StreamInv
  <2>3. FateInv'
    <3>1. stream[records[r]] # None /\ wire[stream[records[r]]] # "open"
      BY <1>6, <1>10
    <3> QED
      BY <3>1, <1>1, <1>4, <1>6, <1>10 DEF Inner, FateInv
  <2> HIDE DEF h, r, s
  <2>4. Everywhere'
    BY <2>1, <1>1, <1>5, <1>10 DEF Inner, Everywhere
  <2>5. Apart'
    BY <2>1, <1>1, <1>5, <1>7, <1>10 DEF Inner, Apart
  <2>6. OrderInv'
    BY <2>1, <1>1, <1>4, <1>6, <1>7, <1>10 DEF Inner, OrderInv
  <2> QED
    BY <2>1, <2>2, <2>3, <2>4, <2>5, <2>6, <1>1, <1>5, <1>8, <1>9, <1>10 DEF Inner, r
<1>11. CASE /\ wire[s] = "open" /\ lost' = lost
            /\ flight' = [flight EXCEPT ![s] = Append(@, r)]
  <2> HIDE DEF h, r, s
  <2> DEFINE n == Len(flight[s]) + 1
  <2>1. /\ DOMAIN flight[s] = 1..Len(flight[s]) /\ Len(flight[s]) \in Nat
        /\ DOMAIN flight'[s] = 1..n /\ flight'[s][n] = r
        /\ \A k \in DOMAIN flight[s] : flight'[s][k] = flight[s][k]
        /\ \A k \in DOMAIN flight'[s] : k = n \/ k \in DOMAIN flight[s]
        /\ DOMAIN flight[s] \subseteq DOMAIN flight'[s] /\ n \in DOMAIN flight'[s]
        /\ \A k \in DOMAIN flight'[s] : ~(n < k)
    <3>1. flight'[s] = Append(flight[s], r) /\ flight[s] \in Seq(Records)
      BY <1>3, <1>6, <1>11
    <3>2. /\ DOMAIN flight[s] = 1..Len(flight[s]) /\ Len(flight[s]) \in Nat
          /\ DOMAIN flight'[s] = 1..n /\ flight'[s][n] = r
          /\ \A k \in DOMAIN flight[s] : flight'[s][k] = flight[s][k]
      BY <3>1, <1>6, Appended
    <3> QED
      BY <3>2
  <2>2. \A x \in Handlers : x # s => flight'[x] = flight[x]
    BY <1>3, <1>6, <1>11
  <2> HIDE DEF n
  <2>3. \A i : i \in InFlight' <=> i \in InFlight \/ i = r
    <3>1. ASSUME NEW i, i \in InFlight' PROVE i \in InFlight \/ i = r
      BY <3>1, <2>1, <2>2, OnStream
    <3>2. ASSUME NEW i, i \in InFlight PROVE i \in InFlight'
      <4>1. PICK x \in Handlers : \E k \in DOMAIN flight[x] : flight[x][k] = i
        BY <3>2, OnStream
      <4>2. \E k \in DOMAIN flight'[x] : flight'[x][k] = i
        BY <4>1, <2>1, <2>2
      <4> QED
        BY <4>2, OnStream
    <3>3. r \in InFlight'
      BY <2>1, <1>6, OnStream
    <3> QED
      BY <3>1, <3>2, <3>3
  <2>4. StreamInv'
    <3> SUFFICES ASSUME NEW x \in Handlers, NEW k \in DOMAIN flight'[x]
                 PROVE  /\ wire[x] = "open"
                        /\ flight'[x][k] \in DOMAIN records
                        /\ stream[records[flight'[x][k]]] = x
                        /\ \A l \in DOMAIN flight'[x] :
                              k < l /\ records[flight'[x][k]] = records[flight'[x][l]] =>
                                 flight'[x][k] < flight'[x][l]
      BY <1>1 DEF StreamInv
    <3>1. CASE x # s
      BY <3>1, <2>2 DEF Inner, StreamInv
    <3>2. CASE x = s /\ k = n
      BY <3>2, <2>1, <1>6, <1>11 DEF s
    <3>3. CASE x = s /\ k \in DOMAIN flight[s]
      <4>1. /\ flight'[s][k] = flight[s][k] /\ flight[s][k] \in DOMAIN records
            /\ stream[records[flight[s][k]]] = s
        BY <3>3, <2>1, <1>6 DEF Inner, StreamInv
      <4>2. flight[s][k] \in InFlight
        BY <3>3, <1>6, OnStream
      <4>3. records[flight[s][k]] = records[r] => flight[s][k] < r
        BY <4>1, <4>2, <1>6, <1>7
      <4> QED
        BY <3>3, <4>1, <4>3, <2>1, <1>6, <1>11 DEF Inner, StreamInv
    <3> QED
      BY <3>1, <3>2, <3>3, <2>1
  <2>5. FateInv'
    BY <1>1, <1>4, <1>11 DEF Inner, FateInv
  <2>6. Everywhere'
    BY <2>3, <1>1, <1>5, <1>11 DEF Inner, Everywhere
  <2>7. Apart'
    BY <2>3, <1>1, <1>5, <1>7, <1>11 DEF Inner, Apart
  <2>8. \A i \in DOMAIN records : records[i] = h => i \notin lost
    BY <1>6, <1>11 DEF Inner, FateInv, s
  <2>9. OrderInv'
    <3> SUFFICES ASSUME NEW i \in DOMAIN records, NEW j \in DOMAIN records,
                        i < j, records[i] = records[j]
                 PROVE  /\ j \in arrived => i \in arrived
                        /\ j \in InFlight' => i \in arrived \cup InFlight'
                        /\ j \in lost => i \notin Fallen
      BY <1>1, <1>4, <1>11 DEF OrderInv
    <3>1. CASE j = r
      BY <3>1, <2>3, <2>8, <1>6, <1>7
    <3>2. CASE j # r
      BY <3>2, <2>3 DEF Inner, OrderInv
    <3> QED
      BY <3>1, <3>2
  <2> QED
    BY <2>3, <2>4, <2>5, <2>6, <2>7, <2>9, <1>1, <1>5, <1>8, <1>9, <1>11 DEF Inner, r
<1> QED
  BY <1>2, <1>10, <1>11

(* Core reads the oldest record of a stream.                               *)
LEMMA ArrivesStep ==
    ASSUME LogTypeOK, Inner, NEW s \in Handlers, LogArrives(s)
    PROVE  /\ Inner'
           /\ UNCHANGED <<records, InHand, stderr, lost>>
           /\ \E i \in InFlight : /\ InFlight' = InFlight \ {i}
                                  /\ arrived' = arrived \cup {i}
<1> DEFINE first == Head(flight[s])
<1>1. /\ flight[s] # << >> /\ arrived' = arrived \cup {first}
      /\ flight' = [flight EXCEPT ![s] = Tail(@)]
      /\ UNCHANGED <<made, stream, broken, mu, pc, on, rec, records, wire, stderr, lost>>
  BY DEF LogArrives, handlerVars, callVars
<1>2. flight \in [Handlers -> Seq(Records)] /\ records \in Seq(Handlers)
  BY DEF LogTypeOK
<1>3. /\ first = flight[s][1] /\ 1 \in DOMAIN flight[s]
      /\ \A k \in DOMAIN flight'[s] : k + 1 \in DOMAIN flight[s] /\ flight'[s][k] = flight[s][k + 1]
      /\ \A k \in DOMAIN flight[s] :
            k = 1 \/ (1 < k /\ k - 1 \in DOMAIN flight'[s] /\ flight'[s][k - 1] = flight[s][k])
      /\ \A k, l \in DOMAIN flight'[s] : k < l => k + 1 < l + 1
  <2>1. flight[s] \in Seq(Records) /\ flight'[s] = Tail(flight[s])
    BY <1>1, <1>2
  <2>2. /\ first = flight[s][1] /\ Len(flight[s]) \in Nat /\ Len(flight[s]) >= 1
        /\ DOMAIN flight[s] = 1..Len(flight[s])
        /\ DOMAIN flight'[s] = 1..(Len(flight[s]) - 1)
        /\ \A k \in 1..(Len(flight[s]) - 1) : flight'[s][k] = flight[s][k + 1]
    BY <2>1, <1>1, Shortened
  <2>3. /\ \A k \in DOMAIN flight'[s] : k + 1 \in DOMAIN flight[s]
        /\ \A k \in DOMAIN flight[s] : k = 1 \/ (1 < k /\ k - 1 \in DOMAIN flight'[s])
        /\ \A k \in DOMAIN flight[s] : (k - 1) + 1 = k
        /\ \A k, l \in DOMAIN flight'[s] : k < l => k + 1 < l + 1
    <3> DEFINE len == Len(flight[s])
               rest == DOMAIN flight'[s]
    <3>1. len \in Nat /\ len >= 1 /\ DOMAIN flight[s] = 1..len /\ rest = 1..(len - 1)
      BY <2>2
    <3> HIDE DEF len, rest
    <3>2. \A k \in rest : k + 1 \in 1..len
      BY <3>1
    <3>3. ASSUME NEW k \in 1..len
          PROVE  (k = 1 \/ (1 < k /\ k - 1 \in rest)) /\ (k - 1) + 1 = k
      <4>1. k \in Int /\ 1 <= k /\ k <= len
        BY <3>1
      <4>2. (k - 1) + 1 = k
        BY <4>1
      <4>3. ASSUME k # 1 PROVE 1 < k /\ k - 1 \in rest
        BY <4>1, <4>3, <3>1
      <4> QED
        BY <4>2, <4>3
    <3>4. \A k, l \in rest : k < l => k + 1 < l + 1
      BY <3>1
    <3> QED
      BY <3>1, <3>2, <3>3, <3>4 DEF rest
  <2>4. \A k \in DOMAIN flight'[s] : flight'[s][k] = flight[s][k + 1]
    BY <2>2
  <2>5. ASSUME NEW k \in DOMAIN flight[s], k # 1
        PROVE  flight'[s][k - 1] = flight[s][k]
    BY <2>3, <2>4, <2>5
  <2> QED
    BY <2>2, <2>3, <2>4, <2>5
<1>4. \A x \in Handlers : x # s => flight'[x] = flight[x]
  BY <1>1, <1>2
<1> HIDE DEF first
<1>5. /\ wire[s] = "open" /\ first \in DOMAIN records /\ stream[records[first]] = s
      /\ \A k \in DOMAIN flight[s] :
            1 < k /\ records[first] = records[flight[s][k]] => first < flight[s][k]
      /\ first \in InFlight /\ DOMAIN records \subseteq Nat
  BY <1>2, <1>3, OnStream DEF Inner, StreamInv
<1>6. \A i : i \in InFlight' <=> i \in InFlight /\ i # first
  <2>1. ASSUME NEW i, i \in InFlight, i # first PROVE i \in InFlight'
    BY <2>1, <1>3, <1>4, OnStream
  <2>2. ASSUME NEW i, i \in InFlight' PROVE i \in InFlight /\ i # first
    <3>1. PICK x \in Handlers : \E k \in DOMAIN flight'[x] : flight'[x][k] = i
      BY <2>2, OnStream
    <3>2. CASE x = s
      <4>1. PICK k \in DOMAIN flight'[s] : flight'[s][k] = i
        BY <3>1, <3>2
      <4>2. k + 1 \in DOMAIN flight[s] /\ flight[s][k + 1] = i /\ 1 < k + 1
        <5>1. k + 1 # 1
          <6>1. DOMAIN flight'[s] = 1..Len(flight'[s])
            BY <1>1, <1>2, Shortened
          <6> QED
            BY <6>1
        <5> QED
          BY <4>1, <5>1, <1>3
      <4> QED
        BY <4>2, <1>5, OnStream
    <3>3. CASE x # s
      <4>1. PICK k \in DOMAIN flight[x] : flight[x][k] = i
        BY <3>1, <3>3, <1>4
      <4>2. stream[records[i]] = x
        BY <4>1 DEF Inner, StreamInv
      <4> QED
        BY <3>3, <4>1, <4>2, <1>5, OnStream
    <3> QED
      BY <3>2, <3>3
  <2> QED
    BY <2>1, <2>2
<1>7. InHand' = InHand /\ Shipping' = Shipping /\ Holding' = Holding /\ Fallen' = Fallen
  BY <1>1 DEF InHand, Shipping, Holding, Fallen
<1>8. CallInv' /\ HandlerInv' /\ FateInv'
  BY <1>1, <1>7 DEF Inner, CallInv, HandlerInv, FateInv
<1>9. StreamInv'
  <2>0. UNCHANGED <<wire, stream, records>>
    BY <1>1
  <2> SUFFICES ASSUME NEW x \in Handlers, NEW k \in DOMAIN flight'[x]
               PROVE  /\ wire[x] = "open"
                      /\ flight'[x][k] \in DOMAIN records
                      /\ stream[records[flight'[x][k]]] = x
                      /\ \A l \in DOMAIN flight'[x] :
                            k < l /\ records[flight'[x][k]] = records[flight'[x][l]] =>
                               flight'[x][k] < flight'[x][l]
    BY <2>0 DEF StreamInv
  <2>1. CASE x = s
    <3>1. k + 1 \in DOMAIN flight[s] /\ flight'[s][k] = flight[s][k + 1]
      BY <2>1, <1>3
    <3>2. ASSUME NEW l \in DOMAIN flight'[s], k < l
          PROVE  /\ l + 1 \in DOMAIN flight[s] /\ flight'[s][l] = flight[s][l + 1]
                 /\ k + 1 < l + 1
      BY <2>1, <3>2, <1>3
    <3> QED
      BY <2>1, <3>1, <3>2 DEF Inner, StreamInv
  <2>2. CASE x # s
    BY <2>2, <1>4 DEF Inner, StreamInv
  <2> QED
    BY <2>1, <2>2
<1>10. Everywhere' /\ Apart'
  BY <1>1, <1>5, <1>6, <1>7 DEF Inner, Everywhere, Apart
<1>11. OrderInv'
  <2> SUFFICES ASSUME NEW i \in DOMAIN records, NEW j \in DOMAIN records,
                      i < j, records[i] = records[j]
               PROVE  /\ j \in arrived' => i \in arrived'
                      /\ j \in InFlight' => i \in arrived' \cup InFlight'
                      /\ j \in lost => i \notin Fallen
    BY <1>1, <1>7 DEF OrderInv
  <2>1. ASSUME j = first PROVE i \in arrived
    <3>1. i \in arrived \cup InFlight /\ i # first
      BY <2>1, <1>5 DEF Inner, OrderInv
    <3>2. ASSUME i \in InFlight PROVE FALSE
      <4>1. PICK x \in Handlers : \E k \in DOMAIN flight[x] : flight[x][k] = i
        BY <3>2, OnStream
      <4>2. x = s
        BY <2>1, <4>1, <1>5 DEF Inner, StreamInv
      <4>3. PICK k \in DOMAIN flight[s] : flight[s][k] = i
        BY <4>1, <4>2
      <4>4. 1 < k
        BY <3>1, <4>3, <1>3
      <4>5. first < i
        BY <2>1, <4>3, <4>4, <1>5
      <4> QED
        BY <2>1, <4>5, <1>5
    <3> QED
      BY <3>1, <3>2
  <2> QED
    BY <2>1, <1>1, <1>6 DEF Inner, OrderInv
<1>12. InFlight' = InFlight \ {first}
  BY <1>6
<1> QED
  BY <1>1, <1>5, <1>7, <1>8, <1>9, <1>10, <1>11, <1>12 DEF Inner

(* Streams end, and what was in flight on them is lost.                    *)
LEMMA CutStep ==
    ASSUME LogTypeOK, Inner, NEW S \in SUBSET Handlers, LogCut(S)
    PROVE  /\ Inner'
           /\ UNCHANGED <<records, InHand, arrived, stderr>>
           /\ \E I \in SUBSET InFlight : /\ InFlight' = InFlight \ I
                                         /\ lost' = lost \cup I
<1> DEFINE gone == {s \in S : wire[s] = "open"}
           down == UNION {ToSet(flight[s]) : s \in gone}
<1>1. /\ wire' = [s \in Handlers |-> IF s \in gone THEN "cut" ELSE wire[s]]
      /\ lost' = lost \cup down
      /\ flight' = [s \in Handlers |-> IF s \in gone THEN << >> ELSE flight[s]]
      /\ UNCHANGED <<made, stream, broken, mu, pc, on, rec, records, arrived, stderr>>
  BY DEF LogCut, handlerVars, callVars
<1>2. /\ gone \subseteq Handlers
      /\ \A i : i \in down <=> \E s \in gone : \E k \in DOMAIN flight[s] : flight[s][k] = i
      /\ \A s \in gone : wire[s] = "open"
  BY DEF ToSet
<1>3. records \in Seq(Handlers) /\ DOMAIN << >> = {}
      /\ \A i \in DOMAIN records : records[i] \in Handlers
      /\ stream \in [Handlers -> Handlers \cup {None}]
  BY DEF LogTypeOK
<1> HIDE DEF gone, down
<1>4. \A s \in Handlers : /\ s \in gone => wire'[s] = "cut" /\ DOMAIN flight'[s] = {}
                          /\ s \notin gone => wire'[s] = wire[s] /\ flight'[s] = flight[s]
  BY <1>1, <1>3
<1>5. /\ InHand' = InHand /\ Shipping' = Shipping /\ Holding' = Holding /\ Fallen' = Fallen
  BY <1>1 DEF InHand, Shipping, Holding, Fallen
<1>6. \A i \in down : /\ i \in InFlight /\ i \in DOMAIN records
                      /\ stream[records[i]] \in gone
  BY <1>2, OnStream DEF Inner, StreamInv
<1>7. \A i : i \in InFlight' <=> i \in InFlight /\ i \notin down
  <2>1. ASSUME NEW i, i \in InFlight, i \notin down PROVE i \in InFlight'
    BY <2>1, <1>2, <1>4, OnStream
  <2>2. ASSUME NEW i, i \in InFlight' PROVE i \in InFlight /\ i \notin down
    <3>1. PICK x \in Handlers : \E k \in DOMAIN flight'[x] : flight'[x][k] = i
      BY <2>2, OnStream
    <3>2. x \notin gone /\ flight'[x] = flight[x]
      BY <3>1, <1>4
    <3>3. stream[records[i]] = x
      BY <3>1, <3>2 DEF Inner, StreamInv
    <3> QED
      BY <3>1, <3>2, <3>3, <1>6, OnStream
  <2> QED
    BY <2>1, <2>2
<1>8. CallInv'
  BY <1>1, <1>5 DEF Inner, CallInv
<1>9. HandlerInv'
  <2>1. \A s \in Handlers : wire'[s] = "none" <=> wire[s] = "none"
    BY <1>2, <1>4
  <2>2. \A h \in Handlers : stream[h] \in Handlers \/ stream[h] = None
    BY DEF LogTypeOK
  <2>3. HandlerInv /\ UNCHANGED <<made, stream, broken, records>>
    BY <1>1 DEF Inner
  <2> QED
    BY <2>1, <2>2, <2>3 DEF HandlerInv
<1>10. StreamInv'
  BY <1>1, <1>4 DEF Inner, StreamInv
<1>11. FateInv'
  <2>1. ASSUME NEW i \in lost', ~broken[records[i]]
        PROVE  i \in DOMAIN records /\ stream[records[i]] # None /\ wire'[stream[records[i]]] # "open"
    <3>1. CASE i \in down
      BY <3>1, <1>2, <1>4, <1>6, NoneAssumption
    <3>2. CASE i \in lost
      <4>1. /\ i \in DOMAIN records /\ stream[records[i]] # None
            /\ wire[stream[records[i]]] # "open"
        BY <2>1, <3>2 DEF Inner, FateInv
      <4>2. stream[records[i]] \in Handlers
        BY <4>1, <1>3
      <4> QED
        BY <4>1, <4>2, <1>4
    <3> QED
      BY <3>1, <3>2, <1>1
  <2>2. lost' \subseteq DOMAIN records
    BY <1>1, <1>6 DEF Inner, FateInv
  <2> QED
    BY <2>1, <2>2, <1>1, <1>5 DEF Inner, FateInv
<1>12. Everywhere' /\ Apart'
  BY <1>1, <1>5, <1>6, <1>7 DEF Inner, Everywhere, Apart
<1>13. OrderInv'
  <2> SUFFICES ASSUME NEW i \in DOMAIN records, NEW j \in DOMAIN records,
                      i < j, records[i] = records[j]
               PROVE  /\ j \in arrived => i \in arrived
                      /\ j \in InFlight' => i \in arrived \cup InFlight'
                      /\ j \in lost' => i \notin Fallen
    BY <1>1, <1>5 DEF OrderInv
  <2>1. ASSUME j \in InFlight' PROVE i \in arrived \cup InFlight'
    <3>1. i \in arrived \cup InFlight /\ j \in InFlight /\ j \notin down
      BY <2>1, <1>7 DEF Inner, OrderInv
    <3>2. ASSUME i \in down PROVE FALSE
      <4>1. stream[records[j]] \in gone
        BY <3>2, <1>6
      <4>2. PICK x \in Handlers : \E k \in DOMAIN flight[x] : flight[x][k] = j
        BY <3>1, OnStream
      <4>3. stream[records[j]] = x
        BY <4>2 DEF Inner, StreamInv
      <4> QED
        BY <3>1, <4>1, <4>2, <4>3, <1>2
    <3> QED
      BY <3>1, <3>2, <1>7
  <2>2. ASSUME j \in down PROVE i \notin Fallen
    <3>1. i \in arrived \cup InFlight
      BY <2>2, <1>6 DEF Inner, OrderInv
    <3> QED
      BY <3>1, Shippers DEF Inner, Apart
  <2> QED
    BY <2>1, <2>2, <1>1 DEF Inner, OrderInv
<1>14. down \in SUBSET InFlight /\ InFlight' = InFlight \ down
  BY <1>6, <1>7
<1> QED
  BY <1>1, <1>5, <1>8, <1>9, <1>10, <1>11, <1>12, <1>13, <1>14 DEF Inner

(* The client hears that a stream is gone.                                 *)
LEMMA HearsStep ==
    ASSUME LogTypeOK, Inner, NEW s \in Handlers, LogHears(s)
    PROVE  /\ Inner'
           /\ UNCHANGED <<records, InHand, InFlight, arrived, stderr, lost>>
<1>1. /\ wire[s] = "cut" /\ wire' = [wire EXCEPT ![s] = "dead"]
      /\ UNCHANGED <<made, stream, broken, mu, pc, on, rec, records, flight, arrived, stderr, lost>>
  BY DEF LogHears, handlerVars, callVars
<1>2. /\ wire \in [Handlers -> StreamStates] /\ records \in Seq(Handlers)
      /\ stream \in [Handlers -> Handlers \cup {None}]
  BY DEF LogTypeOK
<1>3. \A x \in Handlers : wire'[x] = IF x = s THEN "dead" ELSE wire[x]
  BY <1>1, <1>2
<1>4. /\ InHand' = InHand /\ InFlight' = InFlight
      /\ Shipping' = Shipping /\ Holding' = Holding /\ Fallen' = Fallen
  BY <1>1 DEF InHand, InFlight, Shipping, Holding, Fallen
<1>5. CallInv' /\ Everywhere' /\ Apart' /\ OrderInv'
  BY <1>1, <1>4 DEF Inner, CallInv, Everywhere, Apart, OrderInv
<1>6. HandlerInv'
  BY <1>1, <1>2, <1>3 DEF Inner, HandlerInv
<1>7. StreamInv'
  BY <1>1, <1>3 DEF Inner, StreamInv
<1>8. FateInv'
  <2>1. \A i \in DOMAIN records : stream[records[i]] \in Handlers \cup {None}
    BY <1>2
  <2> QED
    BY <2>1, <1>1, <1>3, <1>4 DEF Inner, FateInv
<1> QED
  BY <1>1, <1>4, <1>5, <1>6, <1>7, <1>8 DEF Inner

-----------------------------------------------------------------------------
(* The bound, the connection and the watchdog.                             *)

(* A call takes a place among the records, and keeps it when it gets the   *)
(* mutex.                                                                  *)
LEMMA BoundStep ==
    ASSUME LogTypeOK, BoundInv,
           \/ \E g \in Goroutines : Logging(g)
           \/ \E g \in Goroutines, h \in Handlers : Handle(g, h)
           \/ UNCHANGED <<pc, records>>
    PROVE  BoundInv'
<1>1. /\ pc \in [Goroutines -> {"idle", "lock", "open", "send", "fallback"}]
      /\ Len(records) \in Nat /\ records \in Seq(Handlers)
      /\ IsFiniteSet(Lockers) /\ Cardinality(Lockers) \in Nat
  BY FS_CardinalityType DEF LogTypeOK, BoundInv
<1>2. ASSUME NEW g \in Goroutines, NEW h \in Handlers, Handle(g, h) PROVE BoundInv'
  <2>1. /\ pc[g] = "idle" /\ pc' = [pc EXCEPT ![g] = "lock"] /\ records' = records
        /\ Len(records) + Cardinality(Lockers) < MaxRecords
    BY <1>2 DEF Handle, Goto, Lockers
  <2>2. Lockers' = Lockers \cup {g} /\ g \notin Lockers
    BY <1>1, <2>1 DEF Lockers
  <2>3. IsFiniteSet(Lockers') /\ Cardinality(Lockers') = Cardinality(Lockers) + 1
    BY <1>1, <2>2, FS_AddElement
  <2> QED
    BY <1>1, <2>1, <2>3, MaxRecordsAssumption DEF BoundInv
<1>3. ASSUME NEW g \in Goroutines, Lock(g) PROVE BoundInv'
  <2>1. /\ pc[g] = "lock" /\ records' = Append(records, on[g]) /\ on[g] \in Handlers
        /\ \E to \in {"fallback", "open", "send"} : pc' = [pc EXCEPT ![g] = to]
    BY <1>3, LockEffects
  <2>2. Lockers' = Lockers \ {g} /\ g \in Lockers
    BY <1>1, <2>1 DEF Lockers
  <2>3. IsFiniteSet(Lockers') /\ Cardinality(Lockers') = Cardinality(Lockers) - 1
    BY <1>1, <2>2, FS_RemoveElement
  <2>4. Len(records') = Len(records) + 1
    BY <1>1, <2>1, Appended
  <2> QED
    BY <1>1, <2>3, <2>4, MaxRecordsAssumption DEF BoundInv
<1>4. ASSUME Lockers' = Lockers, records' = records PROVE BoundInv'
  BY <1>4 DEF BoundInv
<1>5. ASSUME NEW g \in Goroutines,
             Opens(g) \/ OpenFails(g) \/ Sends(g) \/ SendFails(g) \/ FallsBack(g)
      PROVE  Lockers' = Lockers /\ records' = records
  <2>1. /\ pc[g] # "lock" /\ records' = records
        /\ \E to \in {"idle", "send", "fallback"} : pc' = [pc EXCEPT ![g] = to]
    BY <1>5 DEF Opens, OpenFails, Sends, SendFails, FallsBack, Goto, Unlock
  <2> QED
    BY <1>1, <2>1 DEF Lockers
<1>6. ASSUME UNCHANGED <<pc, records>> PROVE Lockers' = Lockers /\ records' = records
  BY <1>6 DEF Lockers
<1> QED
  BY <1>2, <1>3, <1>4, <1>5, <1>6 DEF Logging

(* The watchdog and the connection keep their types.                       *)
LEMMA WatchdogTypes ==
    ASSUME UplinkTypeOK, WatchdogTypeOK, [Next]_vars
    PROVE  UplinkTypeOK' /\ WatchdogTypeOK'
<1> USE MaxDropsAssumption, SendWindowAssumption
    DEF UplinkTypeOK, WatchdogTypeOK, connVars, dogVars, StreamStates
<1>1. CASE UNCHANGED vars
  BY <1>1 DEF vars
<1>2. CASE Drops
  BY <1>2 DEF Drops, ConnDrops, WatchdogCut
<1>3. CASE Returns
  BY <1>3 DEF Returns, ConnReturns
<1>4. CASE Log
  BY <1>4 DEF Log
<1>5. CASE Watchdog
  BY <1>5 DEF Watchdog, WatchdogStep, Tick, NotifyOpens, NotifyFails, PingSent, PingFails,
     WatchdogEnds, CancelWatchdog
<1>6. CASE Core
  BY <1>6 DEF Core, PingArrives, WatchdogCut
<1>7. CASE Hears
  BY <1>7 DEF Hears, WatchdogHears
<1> QED
  BY <1>1, <1>2, <1>3, <1>4, <1>5, <1>6, <1>7 DEF Next

-----------------------------------------------------------------------------
(* The theorems.                                                           *)

(* What a step of HostUplink does to the log.                              *)
LEMMA LogSteps ==
    ASSUME [Next]_vars
    PROVE  \/ \E g \in Goroutines : Logging(g)
           \/ \E g \in Goroutines, h \in Handlers : Handle(g, h)
           \/ \E h, copy \in Handlers : With(h, copy)
           \/ \E s \in Handlers : LogArrives(s) \/ LogHears(s)
           \/ \E S \in SUBSET Handlers : LogCut(S)
           \/ UNCHANGED logVars
<1>1. CASE UNCHANGED vars
  BY <1>1 DEF vars
<1>2. CASE Drops
  BY <1>2 DEF Drops
<1>3. CASE Returns \/ Watchdog
  BY <1>3 DEF Returns, Watchdog
<1>4. CASE Log
  BY <1>4 DEF Log
<1>5. CASE Core
  BY <1>5 DEF Core
<1>6. CASE Hears
  BY <1>6 DEF Hears
<1> QED
  BY <1>1, <1>2, <1>3, <1>4, <1>5, <1>6 DEF Next

(* Nothing is logged yet.                                                  *)
LEMMA InitIInv == Init => IInv
<1> SUFFICES ASSUME Init PROVE IInv
  OBVIOUS
<1> USE RootAssumption, NoneAssumption, MaxRecordsAssumption
<1>1. /\ conn = "up" /\ drops = 0 /\ WatchdogInit
      /\ made = {Root} /\ stream = [h \in Handlers |-> None]
      /\ broken = [h \in Handlers |-> FALSE] /\ mu = [h \in Handlers |-> None]
      /\ pc = [g \in Goroutines |-> "idle"] /\ on = [g \in Goroutines |-> Root]
      /\ rec = [g \in Goroutines |-> 0] /\ records = << >>
      /\ wire = [h \in Handlers |-> "none"] /\ flight = [h \in Handlers |-> << >>]
      /\ arrived = {} /\ stderr = {} /\ lost = {}
  BY DEF Init, UplinkInit, LogInit
<1>2. DOMAIN records = {} /\ Len(records) = 0 /\ records \in Seq(Handlers)
  BY <1>1
<1>3. UplinkTypeOK /\ WatchdogTypeOK
  BY <1>1, MaxDropsAssumption, SendWindowAssumption
  DEF UplinkTypeOK, WatchdogTypeOK, WatchdogInit, StreamStates
<1>4. LogTypeOK
  <2>1. flight \in [Handlers -> Seq(Records)]
    BY <1>1
  <2> QED
    BY <1>1, <1>2, <2>1 DEF LogTypeOK, MutexOK, StreamStates
<1>5. Shipping = {} /\ Holding = {} /\ Lockers = {} /\ Fallen = {}
  BY <1>1 DEF Shipping, Holding, Lockers, Fallen
<1>6. InHand = {} /\ InFlight = {}
  <2>1. \A s \in Handlers : flight[s] = << >> /\ DOMAIN flight[s] = {}
    BY <1>1
  <2> QED
    BY <1>5, <2>1, Shippers DEF InFlight, ToSet
<1>7. BoundInv
  BY <1>2, <1>5, FS_EmptySet DEF BoundInv
<1>8. CallInv
  BY <1>1, <1>5 DEF CallInv
<1>9. HandlerInv
  BY <1>1, <1>2 DEF HandlerInv
<1>10. StreamInv
  <2>1. \A s \in Handlers : DOMAIN flight[s] = {}
    BY <1>1
  <2> QED
    BY <2>1 DEF StreamInv
<1>11. FateInv /\ OrderInv
  BY <1>1, <1>2, <1>5 DEF FateInv, OrderInv
<1>12. Whereabouts
  BY <1>1, <1>2, <1>6, Explicit DEF Everywhere, Apart
<1> QED
  BY <1>3, <1>4, <1>7, <1>8, <1>9, <1>10, <1>11, <1>12 DEF IInv, TypeOK

(* The invariant is inductive.                                             *)
LEMMA NextIInv == IInv /\ [Next]_vars => IInv'
<1> SUFFICES ASSUME IInv, [Next]_vars PROVE IInv'
  OBVIOUS
<1>1. /\ LogTypeOK /\ UplinkTypeOK /\ WatchdogTypeOK /\ BoundInv /\ CallInv
      /\ Inner
  BY Explicit DEF IInv, TypeOK, Inner
<1>2. UplinkTypeOK' /\ WatchdogTypeOK'
  BY <1>1, WatchdogTypes
<1>3. LogTypeOK'
  BY <1>1, LogSteps, LogTypes, WireTypes
<1>4. BoundInv'
  <2>1. \/ \E h, copy \in Handlers : With(h, copy)
        \/ \E s \in Handlers : LogArrives(s) \/ LogHears(s)
        \/ \E S \in SUBSET Handlers : LogCut(S)
        \/ UNCHANGED logVars
        => UNCHANGED <<pc, records>>
    BY DEF With, LogArrives, LogHears, LogCut, logVars, callVars
  <2> QED
    BY <2>1, <1>1, LogSteps, BoundStep
<1>5. Inner'
  <2>1. ASSUME NEW g \in Goroutines, Logging(g) PROVE Inner'
    BY <2>1, <1>1, LockStep, OpensStep, FailsStep, SendsStep, FallsBackStep DEF Logging
  <2>2. ASSUME UNCHANGED logVars PROVE Inner'
    <3>1. UNCHANGED <<made, stream, broken, mu, pc, on, rec, records, wire, flight,
                      arrived, stderr, lost>>
      BY <2>2 DEF logVars, handlerVars, callVars, fateVars
    <3>2. /\ InHand' = InHand /\ InFlight' = InFlight
          /\ Shipping' = Shipping /\ Holding' = Holding /\ Fallen' = Fallen
      BY <3>1 DEF InHand, InFlight, Shipping, Holding, Fallen
    <3> QED
      BY <3>1, <3>2, <1>1
      DEF Inner, CallInv, HandlerInv, StreamInv, FateInv, Everywhere, Apart, OrderInv
  <2> QED
    BY <2>1, <2>2, <1>1, LogSteps, HandleStep, WithStep, ArrivesStep, HearsStep, CutStep
<1>6. Whereabouts'
  <2>1. (Whereabouts <=> Everywhere /\ Apart)'
    BY Explicit, PTL
  <2> QED
    BY <1>5, <2>1 DEF Inner
<1> QED
  BY <1>2, <1>3, <1>4, <1>5, <1>6 DEF IInv, TypeOK, Inner

(* The inductive invariant holds in every reachable state.                 *)
THEOREM Invariance == Spec => []IInv
BY InitIInv, NextIInv, PTL DEF Spec

(* Every reachable state is well typed, the holder of each mutex included. *)
THEOREM TypeCorrect == Spec => []TypeOK
<1>1. IInv => TypeOK
  BY DEF IInv
<1> QED
  BY <1>1, Invariance, PTL

(* Handle returns only when its record is on the wire or at the fallback,  *)
(* and no record takes both ways.                                          *)
THEOREM WhereaboutsAlways == Spec => []Whereabouts
<1>1. IInv => Whereabouts
  BY DEF IInv
<1> QED
  BY <1>1, Invariance, PTL

-----------------------------------------------------------------------------
(* Fates.                                                                  *)

(* Where the earlier records of a handler are, and the later ones.         *)
Past ==
    \A i, j \in DOMAIN records :
       i < j /\ records[i] = records[j] =>
          /\ i \in InHand => i \in Fallen
          /\ j \in arrived => i \in arrived
          /\ j \in InFlight => i \in arrived \cup InFlight
          /\ j \in lost => i \in arrived \cup lost
          /\ i \in Fallen => j \in Fallen

(* The invariant decides it.                                               *)
LEMMA PastKnown == LogTypeOK /\ Inner => Past
<1> SUFFICES ASSUME LogTypeOK, Inner,
                    NEW i \in DOMAIN records, NEW j \in DOMAIN records,
                    i < j, records[i] = records[j]
             PROVE  /\ i \in InHand => i \in Fallen
                    /\ j \in arrived => i \in arrived
                    /\ j \in InFlight => i \in arrived \cup InFlight
                    /\ j \in lost => i \in arrived \cup lost
                    /\ i \in Fallen => j \in Fallen
  BY DEF Past
<1>1. i \in Nat /\ j \in Nat
  BY DEF LogTypeOK
<1>2. ASSUME i \in InHand PROVE i \in Fallen
  <2>1. PICK g \in Shipping : rec[g] = i
    BY <1>2, Shippers
  <2>2. CASE g \in Holding
    <3>1. records[j] = on[g] /\ j <= i
      BY <2>1, <2>2 DEF Inner, CallInv
    <3> QED
      BY <3>1, <1>1
  <2>3. CASE g \notin Holding
    BY <2>1, <2>3, Shippers
  <2> QED
    BY <2>2, <2>3
<1>3. ASSUME i \in Fallen, j \in InHand PROVE j \in Fallen
  <2>1. PICK g \in Shipping : rec[g] = j
    BY <1>3, Shippers
  <2>2. g \notin Holding
    BY <1>3, <2>1 DEF Inner, CallInv, FateInv
  <2> QED
    BY <2>1, <2>2, Shippers
<1>4. ASSUME j \in lost, i \in InFlight PROVE FALSE
  <2>1. PICK s \in Handlers : \E k \in DOMAIN flight[s] : flight[s][k] = i
    BY <1>4, OnStream
  <2>2. wire[s] = "open" /\ stream[records[j]] = s
    BY <2>1 DEF Inner, StreamInv
  <2>3. broken[records[j]]
    BY <1>4, <2>2 DEF Inner, FateInv
  <2>4. records[j] \in Handlers /\ s # None
    BY NoneAssumption DEF LogTypeOK
  <2> QED
    BY <2>2, <2>3, <2>4 DEF Inner, HandlerInv
<1>5. j \in lost => i \in arrived \cup lost
  BY <1>2, <1>4 DEF Inner, Everywhere, OrderInv, Fallen
<1>6. i \in Fallen => j \in Fallen
  <2>1. i \in Fallen => i \notin arrived \cup InFlight
    BY Shippers DEF Inner, Apart
  <2>2. stderr \subseteq Fallen
    BY DEF Fallen
  <2> QED
    BY <1>3, <2>1, <2>2 DEF Inner, Everywhere, OrderInv
<1> QED
  BY <1>2, <1>5, <1>6 DEF Inner, OrderInv

(* A record has the fate of the place it is in.                            *)
LEMMA Fates ==
    Everywhere /\ Apart =>
       \A i \in DOMAIN records :
          /\ Fate(i) \in {"called", "sent", "core", "lost", "stderr"}
          /\ Fate(i) = "called" <=> i \in InHand
          /\ Fate(i) = "sent"   <=> i \in InFlight
          /\ Fate(i) = "core"   <=> i \in arrived
          /\ Fate(i) = "lost"   <=> i \in lost
          /\ Fate(i) = "stderr" <=> i \in stderr
<1> SUFFICES ASSUME Everywhere, Apart, NEW i \in DOMAIN records
             PROVE  /\ Fate(i) \in {"called", "sent", "core", "lost", "stderr"}
                    /\ Fate(i) = "called" <=> i \in InHand
                    /\ Fate(i) = "sent"   <=> i \in InFlight
                    /\ Fate(i) = "core"   <=> i \in arrived
                    /\ Fate(i) = "lost"   <=> i \in lost
                    /\ Fate(i) = "stderr" <=> i \in stderr
  OBVIOUS
<1>1. i \in InHand \/ i \in InFlight \/ i \in arrived \/ i \in stderr \/ i \in lost
  BY DEF Everywhere
<1>2. /\ i \in InHand => i \notin InFlight /\ i \notin arrived /\ i \notin stderr /\ i \notin lost
      /\ i \in InFlight => i \notin arrived /\ i \notin stderr /\ i \notin lost
      /\ i \in arrived => i \notin stderr /\ i \notin lost
      /\ i \in stderr => i \notin lost
  BY DEF Apart
<1> QED
  BY <1>1, <1>2 DEF Fate

(* Core's log of a handler has no holes, and a handler that fell back      *)
(* never returns to the wire.                                              *)
THEOREM NoHolesAlways == Spec => []NoHoles
<1>1. ASSUME IInv PROVE NoHoles
  <2>1. Everywhere /\ Apart /\ Past
    BY <1>1, Explicit, PastKnown DEF IInv, TypeOK, Inner
  <2> SUFFICES ASSUME NEW i \in DOMAIN records \ InHand, NEW j \in DOMAIN records \ InHand,
                      i < j, records[i] = records[j]
               PROVE  Distance[Fate(i)] <= Distance[Fate(j)]
    BY DEF NoHoles
  <2>2. /\ Distance["core"] = 0 /\ Distance["sent"] = 1
        /\ Distance["lost"] = 2 /\ Distance["stderr"] = 3
    BY DEF Distance
  <2>3. /\ Fate(i) \in {"core", "sent", "lost", "stderr"}
        /\ Fate(j) \in {"core", "sent", "lost", "stderr"}
        /\ Fate(j) = "core" => Fate(i) = "core"
        /\ Fate(j) = "sent" => Fate(i) \in {"core", "sent"}
        /\ Fate(j) = "lost" => Fate(i) \in {"core", "lost"}
    BY <2>1, Fates DEF Past
  <2> HIDE DEF Distance
  <2> QED
    BY <2>2, <2>3
<1> QED
  BY <1>1, Invariance, PTL

-----------------------------------------------------------------------------
(* The refinement.                                                         *)

(* A step that gives the records of I another fate is such a step of the   *)
(* contract.                                                               *)
LEMMA Becoming ==
    ASSUME NEW I, NEW to, UNCHANGED records,
           \A i \in DOMAIN records : Fate(i)' = IF i \in I THEN to ELSE Fate(i)
    PROVE  Contract!Becomes(I, to)
BY DEF Contract!Becomes

(* Each step of the log is one of the contract, or one of which the        *)
(* records show nothing.                                                   *)
LEMMA StepRefines ==
    ASSUME IInv, IInv', [Next]_vars
    PROVE  [Contract!LogContractNext]_<<records, [i \in DOMAIN records |-> Fate(i)]>>
<1> DEFINE Show == [i \in DOMAIN records |-> Fate(i)]
<1>1. LogTypeOK /\ LogTypeOK' /\ Inner
  BY Explicit DEF IInv, TypeOK, Inner
<1>2. Everywhere /\ Apart /\ Past
  BY <1>1, PastKnown DEF Inner
<1>3. ASSUME Inner' PROVE Everywhere' /\ Apart' /\ Past'
  <2>1. (LogTypeOK /\ Inner => Past)'
    BY PastKnown, PTL
  <2> QED
    BY <1>1, <1>3, <2>1 DEF Inner
<1>4. \A i \in DOMAIN records :
         /\ Fate(i) \in {"called", "sent", "core", "lost", "stderr"}
         /\ Fate(i) = "called" <=> i \in InHand
         /\ Fate(i) = "sent"   <=> i \in InFlight
         /\ Fate(i) = "core"   <=> i \in arrived
         /\ Fate(i) = "lost"   <=> i \in lost
         /\ Fate(i) = "stderr" <=> i \in stderr
  BY <1>2, Fates
<1>5. ASSUME Inner'
      PROVE  \A i \in DOMAIN records' :
                /\ Fate(i)' \in {"called", "sent", "core", "lost", "stderr"}
                /\ Fate(i)' = "called" <=> i \in InHand'
                /\ Fate(i)' = "sent"   <=> i \in InFlight'
                /\ Fate(i)' = "core"   <=> i \in arrived'
                /\ Fate(i)' = "lost"   <=> i \in lost'
                /\ Fate(i)' = "stderr" <=> i \in stderr'
  <2>1. (Everywhere /\ Apart =>
           \A i \in DOMAIN records :
              /\ Fate(i) \in {"called", "sent", "core", "lost", "stderr"}
              /\ Fate(i) = "called" <=> i \in InHand
              /\ Fate(i) = "sent"   <=> i \in InFlight
              /\ Fate(i) = "core"   <=> i \in arrived
              /\ Fate(i) = "lost"   <=> i \in lost
              /\ Fate(i) = "stderr" <=> i \in stderr)'
    BY Fates, PTL
  <2> QED
    BY <1>3, <1>5, <2>1
<1>6. ASSUME UNCHANGED <<records, InHand, InFlight, arrived, stderr, lost>>
      PROVE  UNCHANGED <<records, Show>>
  BY <1>6 DEF Fate
<1> HIDE DEF Show
<1>7. ASSUME NEW g \in Goroutines, Lock(g) PROVE \E h \in Handlers : Contract!Called(h)
  <2>1. /\ Inner' /\ records' = Append(records, on[g]) /\ on[g] \in Handlers
        /\ InHand' = InHand \cup {Len(records) + 1}
        /\ UNCHANGED <<InFlight, arrived, stderr, lost>>
    BY <1>1, <1>7, LockStep
  <2> DEFINE n == Len(records) + 1
  <2>2. /\ records \in Seq(Handlers) /\ Len(records) \in Nat
        /\ DOMAIN records = 1..Len(records) /\ DOMAIN records' = 1..n
    BY <1>1, <2>1, Appended DEF LogTypeOK
  <2>3. \A i \in DOMAIN records : i \in DOMAIN records' /\ i # n
    BY <2>2
  <2>4. ASSUME NEW i \in 1..n, i = n PROVE Fate(i)' = "called"
    BY <2>1, <2>2, <2>4, <1>5
  <2>5. ASSUME NEW i \in DOMAIN records PROVE Fate(i)' = Fate(i)
    BY <2>1, <2>3, <1>4, <1>5
  <2>6. /\ Show \in Seq({"called", "sent", "core", "lost", "stderr"})
        /\ Len(Show) = Len(records)
        /\ \A i \in 1..Len(records) : Show[i] = Fate(i)
    BY <2>2, <1>4 DEF Show
  <2>7. Show' = [i \in 1..n |-> Fate(i)']
    BY <2>2 DEF Show
  <2>8. Show' = Append(Show, "called")
    <3>1. Append(Show, "called")
            = [i \in 1..n |-> IF i \in 1..Len(records) THEN Show[i] ELSE "called"]
      <4>1. ASSUME NEW S, NEW s \in Seq(S), NEW e \in S
            PROVE  Append(s, e) = [i \in 1..(Len(s) + 1) |-> IF i \in 1..Len(s) THEN s[i] ELSE e]
        <5> DEFINE t == Append(s, e)
        <5>1. t \in [1..(Len(s) + 1) -> S]
          <6>1. t \in Seq(S) /\ Len(t) = Len(s) + 1
            BY Appended
          <6> HIDE DEF t
          <6> QED
            BY <6>1, LenProperties
        <5>2. \A i \in 1..(Len(s) + 1) : t[i] = IF i \in 1..Len(s) THEN s[i] ELSE e
          BY Appended
        <5> HIDE DEF t
        <5>3. t = [i \in 1..(Len(s) + 1) |-> IF i \in 1..Len(s) THEN s[i] ELSE e]
          BY <5>1, <5>2
        <5> QED
          BY <5>3 DEF t
      <4> QED
        BY <4>1, <2>6
    <3>2. ASSUME NEW i \in 1..n
          PROVE  Fate(i)' = IF i \in 1..Len(records) THEN Show[i] ELSE "called"
      <4>1. CASE i \in 1..Len(records)
        BY <4>1, <2>2, <2>5, <2>6
      <4>2. CASE i \notin 1..Len(records)
        <5>1. i = n
          BY <4>2, <2>2
        <5> QED
          BY <4>2, <5>1, <2>4
      <4> QED
        BY <4>1, <4>2
    <3> HIDE DEF n
    <3> QED
      BY <2>7, <3>1, <3>2, Zenon
  <2> QED
    BY <2>1, <2>8 DEF Contract!Called, Show
<1>8. ASSUME NEW g \in Goroutines, FallsBack(g)
      PROVE  \E i \in DOMAIN records : Contract!Diverted(i)
  <2> DEFINE r == rec[g]
  <2>1. /\ Inner' /\ r \in InHand /\ r \in Fallen
        /\ InHand' = InHand \ {r} /\ stderr' = stderr \cup {r}
        /\ UNCHANGED <<records, InFlight, arrived, lost>>
    BY <1>1, <1>8, FallsBackStep
  <2> HIDE DEF r
  <2>2. r \in DOMAIN records /\ Fate(r) = "called"
    BY <2>1, <1>2, <1>4 DEF Everywhere
  <2>3. \A j \in Contract!After(r) : j \in DOMAIN records /\ Fate(j) \in {"called", "stderr"}
    BY <2>1, <2>2, <1>2, <1>4, Shippers DEF Contract!After, Past
  <2>4. Contract!Becomes({r}, "stderr")
    <3>1. \A i \in DOMAIN records : Fate(i)' = IF i \in {r} THEN "stderr" ELSE Fate(i)
      BY <2>1, <1>4, <1>5
    <3> QED
      BY <2>1, <3>1, Becoming
  <2> QED
    BY <2>2, <2>3, <2>4 DEF Contract!Diverted, Contract!After
<1>9. ASSUME NEW i \in InFlight, Inner', InFlight' = InFlight \ {i}, arrived' = arrived \cup {i},
             UNCHANGED <<records, InHand, stderr, lost>>
      PROVE  \E k \in DOMAIN records : Contract!Arrived(k)
  <2>1. i \in DOMAIN records /\ Fate(i) = "sent"
    BY <1>2, <1>4 DEF Everywhere
  <2>2. \A j \in Contract!Before(i) : j \in DOMAIN records /\ Fate(j) = "core"
    <3>1. ASSUME NEW j \in DOMAIN records, records[j] = records[i], j < i
          PROVE  Fate(j) = "core"
      <4>1. j \in arrived \cup {i} /\ j # i
        BY <3>1, <2>1, <1>1, <1>3, <1>9 DEF Past, LogTypeOK
      <4> QED
        BY <4>1, <1>4
    <3> QED
      BY <3>1 DEF Contract!Before
  <2>3. Contract!Becomes({i}, "core")
    <3>1. \A k \in DOMAIN records : Fate(k)' = IF k \in {i} THEN "core" ELSE Fate(k)
      BY <1>4, <1>5, <1>9
    <3> QED
      BY <1>9, <3>1, Becoming
  <2> QED
    BY <2>1, <2>2, <2>3 DEF Contract!Arrived, Contract!Before
<1>10. ASSUME NEW r \in InHand, Inner', InHand' = InHand \ {r}, InFlight' = InFlight \cup {r},
              UNCHANGED <<records, arrived, stderr, lost>>
       PROVE  \E k \in DOMAIN records : Contract!Sent(k)
  <2>1. r \in DOMAIN records /\ Fate(r) = "called"
    BY <1>2, <1>4 DEF Everywhere
  <2>2. \A j \in Contract!Before(r) : j \in DOMAIN records /\ Fate(j) \in {"sent", "core"}
    <3>1. ASSUME NEW j \in DOMAIN records, records[j] = records[r], j < r
          PROVE  Fate(j) \in {"sent", "core"}
      <4>1. j \in arrived \cup InFlight \cup {r} /\ j # r
        BY <3>1, <2>1, <1>1, <1>3, <1>10 DEF Past, LogTypeOK
      <4> QED
        BY <4>1, <1>4
    <3> QED
      BY <3>1 DEF Contract!Before
  <2>3. Contract!Becomes({r}, "sent")
    <3>1. \A k \in DOMAIN records : Fate(k)' = IF k \in {r} THEN "sent" ELSE Fate(k)
      BY <1>4, <1>5, <1>10
    <3> QED
      BY <1>10, <3>1, Becoming
  <2> QED
    BY <2>1, <2>2, <2>3 DEF Contract!Sent, Contract!Before
<1>11. ASSUME NEW I, I \subseteq InHand \/ I \subseteq InFlight, Inner', lost' = lost \cup I,
              InHand' = InHand \ I, InFlight' = InFlight \ I,
              UNCHANGED <<records, arrived, stderr>>
       PROVE  \E J \in SUBSET DOMAIN records : Contract!LostWith(J)
  <2>1. /\ I \subseteq DOMAIN records
        /\ \A i \in I : Fate(i) \in {"called", "sent"}
    BY <1>2, <1>4, <1>11 DEF Everywhere
  <2>2. ASSUME NEW i \in I, NEW j \in Contract!Before(i)
        PROVE  j \in DOMAIN records /\ (Fate(j) \in {"core", "lost"} \/ j \in I)
    <3>1. j \in DOMAIN records /\ records[j] = records[i] /\ j < i
      BY DEF Contract!Before
    <3>2. j \in arrived \cup lost \cup I
      BY <2>1, <3>1, <1>3, <1>11 DEF Past
    <3> QED
      BY <3>1, <3>2, <1>4
  <2>3. Contract!Becomes(I, "lost")
    <3>1. \A k \in DOMAIN records : Fate(k)' = IF k \in I THEN "lost" ELSE Fate(k)
      BY <1>4, <1>5, <1>11
    <3> QED
      BY <1>11, <3>1, Becoming
  <2>4. ASSUME NEW i \in I, NEW j \in Contract!After(i), j \notin I
        PROVE  j \in DOMAIN records /\ Fate(j) \in {"called", "stderr"}
    <3>1. j \in DOMAIN records /\ records[j] = records[i] /\ i < j /\ i \in DOMAIN records
      BY <2>1 DEF Contract!After
    <3>2. i \notin arrived /\ i \notin lost /\ j \notin arrived /\ j \notin lost
      BY <2>1, <3>1, <1>2, <1>4 DEF Past
    <3>3. i \in lost' /\ i \notin arrived' /\ i \notin InFlight'
      BY <3>2, <1>11
    <3>4. j \notin InFlight'
      BY <3>1, <3>3, <1>3, <1>11 DEF Past
    <3>5. j \notin InFlight
      BY <2>4, <3>4, <1>11
    <3> QED
      BY <3>1, <3>2, <3>5, <1>4
  <2> QED
    BY <2>1, <2>2, <2>3, <2>4 DEF Contract!LostWith, Contract!Before, Contract!After
<1>12. ASSUME NEW g \in Goroutines, Sends(g) PROVE Contract!LogContractNext
  <2> DEFINE r == rec[g]
  <2>1. /\ Inner' /\ r \in InHand /\ InHand' = InHand \ {r}
        /\ UNCHANGED <<records, arrived, stderr>>
        /\ \/ InFlight' = InFlight \cup {r} /\ lost' = lost
           \/ InFlight' = InFlight /\ lost' = lost \cup {r}
    BY <1>1, <1>12, SendsStep
  <2> HIDE DEF r
  <2>2. CASE InFlight' = InFlight \cup {r} /\ lost' = lost
    BY <2>1, <2>2, <1>10 DEF Contract!LogContractNext
  <2>3. CASE InFlight' = InFlight /\ lost' = lost \cup {r}
    <3>1. InFlight' = InFlight \ {r}
      BY <2>1, <2>3, <1>2 DEF Apart, Everywhere
    <3>2. {r} \subseteq InHand
      BY <2>1
    <3>3. \E J \in SUBSET DOMAIN records : Contract!LostWith(J)
      BY <2>1, <2>3, <3>1, <3>2, <1>11
    <3> QED
      BY <3>3 DEF Contract!LogContractNext
  <2> QED
    BY <2>1, <2>2, <2>3
<1>13. ASSUME NEW s \in Handlers, LogArrives(s) PROVE Contract!LogContractNext
  <2>1. /\ Inner' /\ UNCHANGED <<records, InHand, stderr, lost>>
        /\ \E i \in InFlight : InFlight' = InFlight \ {i} /\ arrived' = arrived \cup {i}
    BY <1>1, <1>13, ArrivesStep
  <2> QED
    BY <2>1, <1>9 DEF Contract!LogContractNext
<1>14. ASSUME NEW S \in SUBSET Handlers, LogCut(S) PROVE Contract!LogContractNext
  <2>1. /\ Inner' /\ UNCHANGED <<records, InHand, arrived, stderr>>
        /\ \E I \in SUBSET InFlight : InFlight' = InFlight \ I /\ lost' = lost \cup I
    BY <1>1, <1>14, CutStep
  <2>2. PICK I \in SUBSET InFlight : InFlight' = InFlight \ I /\ lost' = lost \cup I
    BY <2>1
  <2>3. InHand' = InHand \ I
    BY <2>1, <2>2, <1>2 DEF Apart, Everywhere
  <2>4. \E J \in SUBSET DOMAIN records : Contract!LostWith(J)
    BY <2>1, <2>2, <2>3, <1>11
  <2> QED
    BY <2>4 DEF Contract!LogContractNext
<1>15. ASSUME UNCHANGED logVars PROVE UNCHANGED <<records, InHand, InFlight, arrived, stderr, lost>>
  BY <1>15 DEF logVars, handlerVars, callVars, fateVars, InHand, InFlight
<1>16. ASSUME NEW g \in Goroutines, Logging(g)
       PROVE  Contract!LogContractNext \/ UNCHANGED <<records, Show>>
  <2>1. CASE Lock(g)
    BY <2>1, <1>7 DEF Contract!LogContractNext
  <2>2. CASE Sends(g)
    BY <2>2, <1>12
  <2>3. CASE FallsBack(g)
    BY <2>3, <1>8 DEF Contract!LogContractNext
  <2>4. CASE Opens(g) \/ OpenFails(g) \/ SendFails(g)
    BY <2>4, <1>1, <1>6, OpensStep, FailsStep
  <2> QED
    BY <1>16, <2>1, <2>2, <2>3, <2>4 DEF Logging
<1>17. ASSUME \/ \E g \in Goroutines, h \in Handlers : Handle(g, h)
              \/ \E h, copy \in Handlers : With(h, copy)
              \/ \E s \in Handlers : LogHears(s)
       PROVE  UNCHANGED <<records, Show>>
  BY <1>1, <1>6, <1>17, HandleStep, WithStep, HearsStep
<1>18. Contract!LogContractNext \/ UNCHANGED <<records, Show>>
  BY LogSteps, <1>6, <1>13, <1>14, <1>15, <1>16, <1>17
<1> QED
  BY <1>18 DEF Show

(* The log stream implements LogContract.                                  *)
THEOREM ContractImplemented == Spec => ImplementsLog
<1>1. Init => Contract!LogContractInit
  BY DEF Init, LogInit, Contract!LogContractInit
<1>2. IInv /\ IInv' /\ [Next]_vars =>
         [Contract!LogContractNext]_<<records, [i \in DOMAIN records |-> Fate(i)]>>
  BY StepRefines
<1> QED
  BY <1>1, <1>2, Invariance, PTL DEF Spec, ImplementsLog, Contract!LogContractSpec

=============================================================================
