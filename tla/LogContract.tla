------------------------------ MODULE LogContract ------------------------------
(***************************************************************************)
(* What becomes of the records a module logs (streamHandler of             *)
(* modulesdk/loghandler.go): of the records of one handler, in their       *)
(* order, core gets the first ones, a stream that broke may take the next  *)
(* ones with it, and the rest go to standard error.  A record has one      *)
(* fate, for ever.  Nothing is said of mutexes, streams or goroutines, nor *)
(* of how the records of two handlers interleave.                          *)
(***************************************************************************)
EXTENDS Integers, Sequences

CONSTANT Handlers

VARIABLES
    records,       \* records[i]: the handler record i was logged through
    fate           \* fate[i]: "called", "sent", "core", "lost" or "stderr"

(* The records of the same handler that were logged before i, and after it. *)
Before(i) == {j \in DOMAIN records : records[j] = records[i] /\ j < i}
After(i)  == {j \in DOMAIN records : records[j] = records[i] /\ i < j}

Becomes(I, to) ==
    /\ fate' = [i \in DOMAIN records |-> IF i \in I THEN to ELSE fate[i]]
    /\ UNCHANGED records

LogContractInit == records = << >> /\ fate = << >>

Called(h) ==
    /\ records' = Append(records, h)
    /\ fate' = Append(fate, "called")

Sent(i) ==
    /\ fate[i] = "called"
    /\ \A j \in Before(i) : fate[j] \in {"sent", "core"}
    /\ Becomes({i}, "sent")

Arrived(i) ==
    /\ fate[i] = "sent"
    /\ \A j \in Before(i) : fate[j] = "core"
    /\ Becomes({i}, "core")

Diverted(i) ==
    /\ fate[i] = "called"
    /\ \A j \in After(i) : fate[j] \in {"called", "stderr"}
    /\ Becomes({i}, "stderr")

(* Records are lost from those on the way, behind those core has, and all  *)
(* that were sent after a lost one are lost with it.                       *)
LostWith(I) ==
    /\ \A i \in I :
          /\ fate[i] \in {"called", "sent"}
          /\ \A j \in Before(i) : fate[j] \in {"core", "lost"} \/ j \in I
          /\ \A j \in After(i)  : fate[j] \in {"called", "stderr"} \/ j \in I
    /\ Becomes(I, "lost")

LogContractNext ==
    \/ \E h \in Handlers : Called(h)
    \/ \E i \in DOMAIN records : Sent(i) \/ Arrived(i) \/ Diverted(i)
    \/ \E I \in SUBSET DOMAIN records : LostWith(I)

LogContractSpec == LogContractInit /\ [][LogContractNext]_<<records, fate>>

=============================================================================
