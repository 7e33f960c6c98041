----------------------------- MODULE LaunchProofs -----------------------------
(***************************************************************************)
(* Proofs about Launch, for every set of windows, socket addresses and     *)
(* lines of foreign binaries: core and module agree when a launch          *)
(* succeeds, a launch that fails stops what it started, and one that       *)
(* succeeded keeps what it started until the module has ended.             *)
(***************************************************************************)
EXTENDS Launch, TLAPS

-----------------------------------------------------------------------------
(* The inductive invariant.                                                *)

(* Before the module is spawned there is nothing of it. *)
UnspawnedInv ==
    launch \in {"listen", "spawn"} =>
        /\ proc = "none" /\ reader = "off" /\ ~reaped
        /\ stdout = NoLine /\ lineCh = NoLine /\ errCh = 0

(* Launch returns once; its caller has a ModuleProc only if it succeeded,  *)
(* and the host services run until it fails.                               *)
ReturnInv ==
    /\ launch = "returned" <=> result # "none"
    /\ result # "launched" => user = "idle" /\ ~conn
    /\ launch \in {"spawn", "await", "parse"} => hostSrv = "serving"
    /\ FailedLaunchStopsAll

(* The reader waits for the process only if it read no line, and Launch    *)
(* goes on only with a line.                                               *)
ReaderInv ==
    /\ reader \in {"off", "scan", "reap"} =>
         lineCh = NoLine /\ launch # "parse" /\ result # "launched"
    /\ reaped => proc = "exited"
    /\ errCh = 1 => reaped

LineSeen == stdout # NoLine \/ lineCh # NoLine \/ launch = "parse" \/ result = "launched"

(* An SDK module has bound its socket before anybody sees a line of it,    *)
(* and not at all if it exits with the code of a refusal.                  *)
ModuleInv ==
    /\ proc = "foreign" => binary = "foreign"
    /\ proc \in Running \ {"foreign"} => binary = "sdk"
    /\ proc \in {"env", "none"} => ~listening
    /\ proc \in {"print", "serving"} => listening
    /\ exitCode # -1 => proc = "exited"
    /\ exitCode = ExitProtocolUnsupported /\ binary = "sdk" =>
         ~Contains(Advertised, Protocol) /\ ~listening
    /\ result = "refused" => exitCode = ExitProtocolUnsupported /\ reaped
    /\ binary = "sdk" /\ LineSeen => listening

AgreementInv ==
    result = "launched" => Contains(Advertised, Parse(line).Protocol)

(* The owner tears down only what belonged to a process that has ended.    *)
OwnerInv ==
    /\ user \in {"teardown", "closing", "done"} => proc = "exited"
    /\ ServedWhileRunning

Orderly == UnspawnedInv /\ ReturnInv /\ ReaderInv /\ ModuleInv /\ AgreementInv /\ OwnerInv

IInv == TypeOK /\ Orderly

-----------------------------------------------------------------------------

(* No step of core, its reader, the module or the owner of the ModuleProc  *)
(* leaves the types of the state.                                          *)
LEMMA TypeStep == TypeOK /\ [Next]_vars => TypeOK'
<1> SUFFICES ASSUME TypeOK, [Next]_vars PROVE TypeOK'
  OBVIOUS
<1> USE DEF TypeOK, coreVars, readerVars, procVars, userVars, Running, ExitProtocolUnsupported
<1>1. CASE UNCHANGED vars \/ Finished
  BY <1>1 DEF vars, Finished
<1>2. CASE HostServices
  BY <1>2 DEF HostServices, Return
<1>3. CASE SpawnFails
  BY <1>3 DEF SpawnFails, Return
<1>4. CASE Spawn
  BY <1>4 DEF Spawn
<1>5. CASE AwaitLine
  BY <1>5 DEF AwaitLine
<1>6. CASE AwaitExit
  BY <1>6 DEF AwaitExit, Return
<1>7. CASE AwaitTimeout
  BY <1>7 DEF AwaitTimeout, Return
<1>8. CASE LineRefused \/ ProtocolOutside \/ ClientFails
  <2>1. Abandon
    BY <1>8 DEF LineRefused, ProtocolOutside, ClientFails
  <2> QED
    BY <2>1 DEF Abandon, Return
<1>9. CASE LaunchReturns
  BY <1>9 DEF LaunchReturns, Return, Acceptable
<1>10. CASE ReadLine
  BY <1>10 DEF ReadLine, MoveReader
<1>11. CASE ScanFails
  BY <1>11 DEF ScanFails, MoveReader
<1>12. CASE ReaderReaps
  BY <1>12 DEF ReaderReaps, MoveReader
<1>13. CASE DrainEnds
  BY <1>13 DEF DrainEnds, MoveReader
<1>14. CASE ReadEnv
  <2>1. stdoutOpen' \in BOOLEAN
    BY <1>14 DEF ReadEnv, Exit
  <2> QED
    BY <1>14, <2>1 DEF ReadEnv, Exit, OthersUnchanged
<1>15. CASE Listen
  <2>1. stdoutOpen' \in BOOLEAN
    BY <1>15 DEF Listen, Exit
  <2>2. listening' \in BOOLEAN
    BY <1>15 DEF Listen, Exit
  <2> QED
    BY <1>15, <2>1, <2>2 DEF Listen, Exit, OthersUnchanged
<1>16. CASE PrintLine
  BY <1>16 DEF PrintLine, OthersUnchanged, Printable
<1>17. CASE ServeReturns
  <2>1. stdoutOpen' \in BOOLEAN
    BY <1>17 DEF ServeReturns, Exit
  <2> QED
    BY <1>17, <2>1 DEF ServeReturns, Exit, OthersUnchanged
<1>18. CASE ForeignPrints
  BY <1>18 DEF ForeignPrints, OthersUnchanged
<1>19. CASE ForeignCloses
  <2>1. stdoutOpen' \in BOOLEAN
    BY <1>19 DEF ForeignCloses
  <2> QED
    BY <1>19, <2>1 DEF ForeignCloses, OthersUnchanged
<1>20. CASE ForeignExits
  <2>1. stdoutOpen' \in BOOLEAN
    BY <1>20 DEF ForeignExits, Exit
  <2> QED
    BY <1>20, <2>1 DEF ForeignExits, Exit, OthersUnchanged
<1>21. CASE Crashes
  <2>1. stdoutOpen' \in BOOLEAN
    BY <1>21 DEF Crashes, Exit
  <2> QED
    BY <1>21, <2>1 DEF Crashes, Exit, OthersUnchanged
<1>22. CASE Killed
  <2>1. stdoutOpen' \in BOOLEAN
    BY <1>22 DEF Killed, Exit
  <2> QED
    BY <1>22, <2>1 DEF Killed, Exit, OthersUnchanged
<1>23. CASE ShutdownAnswered
  BY <1>23 DEF ShutdownAnswered, MoveUser
<1>24. CASE WaitExit
  BY <1>24 DEF WaitExit, MoveUser
<1>25. CASE Kill
  BY <1>25 DEF Kill, MoveUser
<1>26. CASE WaitExitDone
  BY <1>26 DEF WaitExitDone, MoveUser
<1>27. CASE WaitExitCtx
  BY <1>27 DEF WaitExitCtx, MoveUser
<1>28. CASE WaitExitReturns
  <2>1. conn' \in BOOLEAN
    BY <1>28 DEF WaitExitReturns
  <2> QED
    BY <1>28, <2>1 DEF WaitExitReturns, MoveUser
<1>29. CASE KillReturns
  <2>1. conn' \in BOOLEAN
    BY <1>29 DEF KillReturns
  <2> QED
    BY <1>29, <2>1 DEF KillReturns, MoveUser
<1>30. CASE KillWaited
  BY <1>30 DEF KillWaited, MoveUser
<1> QED
  BY <1>1, <1>2, <1>3, <1>4, <1>5, <1>6, <1>7, <1>8, <1>9, <1>10, <1>11,
     <1>12, <1>13, <1>14, <1>15, <1>16, <1>17, <1>18, <1>19, <1>20, <1>21, <1>22,
     <1>23, <1>24, <1>25, <1>26, <1>27, <1>28, <1>29, <1>30
  DEF Next, Decide, Reader, User

(* Before a launch everything is at rest. *)
LEMMA InitIInv == Init => IInv
<1>1. Init => TypeOK
  <2> SUFFICES ASSUME Init PROVE TypeOK
    OBVIOUS
  <2>1. /\ conn \in BOOLEAN /\ reaped \in BOOLEAN /\ kill \in BOOLEAN
        /\ listening \in BOOLEAN /\ stdoutOpen \in BOOLEAN /\ stopping \in BOOLEAN
    BY DEF Init
  <2> QED
    BY <2>1 DEF Init, TypeOK, Running
<1>2. Init => UnspawnedInv /\ ReturnInv /\ AgreementInv /\ OwnerInv
  BY DEF Init, UnspawnedInv, ReturnInv, AgreementInv, OwnerInv, ServedWhileRunning,
     FailedLaunchStopsAll
<1>3. Init => ReaderInv /\ ModuleInv
  BY DEF Init, ReaderInv, ModuleInv, LineSeen, Running, ExitProtocolUnsupported
<1> QED
  BY <1>1, <1>2, <1>3 DEF IInv, Orderly

(* Each step keeps the two sides of a launch in order.                     *)
LEMMA OrderlyStep == IInv /\ [Next]_vars => Orderly'
<1> SUFFICES ASSUME IInv, [Next]_vars PROVE Orderly'
  OBVIOUS
<1> USE DEF IInv, TypeOK, Orderly, UnspawnedInv, ReturnInv, ReaderInv, ModuleInv, LineSeen, AgreementInv,
        FailedLaunchStopsAll, OwnerInv, ServedWhileRunning, Running, ExitProtocolUnsupported
<1> USE DEF coreVars, readerVars, procVars, userVars, Advertised, Contains, ParseWindow
<1>1. CASE UNCHANGED vars \/ Finished
  BY <1>1 DEF vars, Finished
<1>2. CASE HostServices
  BY <1>2 DEF HostServices, Return
<1>3. CASE SpawnFails
  BY <1>3 DEF SpawnFails, Return
<1>4. CASE Spawn
  BY <1>4 DEF Spawn
<1>5. CASE AwaitLine
  BY <1>5 DEF AwaitLine
<1>6. CASE AwaitExit
  BY <1>6 DEF AwaitExit, Return
<1>7. CASE AwaitTimeout
  BY <1>7 DEF AwaitTimeout, Return
<1>8. CASE LineRefused \/ ProtocolOutside \/ ClientFails
  BY <1>8 DEF LineRefused, ProtocolOutside, ClientFails, Abandon, Return
<1>9. CASE LaunchReturns
  BY <1>9 DEF LaunchReturns, Return, Acceptable
<1>10. CASE ReadLine
  BY <1>10 DEF ReadLine, MoveReader
<1>11. CASE ScanFails
  BY <1>11 DEF ScanFails, MoveReader
<1>12. CASE ReaderReaps
  BY <1>12 DEF ReaderReaps, MoveReader
<1>13. CASE DrainEnds
  BY <1>13 DEF DrainEnds, MoveReader
<1>14. CASE ReadEnv
  BY <1>14 DEF ReadEnv, Exit, OthersUnchanged
<1>15. CASE Listen
  BY <1>15 DEF Listen, Exit, OthersUnchanged
<1>16. CASE PrintLine
  BY <1>16 DEF PrintLine, OthersUnchanged
<1>17. CASE ServeReturns
  BY <1>17 DEF ServeReturns, Exit, OthersUnchanged
<1>18. CASE ForeignPrints
  BY <1>18 DEF ForeignPrints, OthersUnchanged
<1>19. CASE ForeignCloses
  BY <1>19 DEF ForeignCloses, OthersUnchanged
<1>20. CASE ForeignExits
  BY <1>20 DEF ForeignExits, Exit, OthersUnchanged
<1>21. CASE Crashes
  BY <1>21 DEF Crashes, Exit, OthersUnchanged
<1>22. CASE Killed
  BY <1>22 DEF Killed, Exit, OthersUnchanged
<1>23. CASE ShutdownAnswered
  BY <1>23 DEF ShutdownAnswered, MoveUser
<1>24. CASE WaitExit
  BY <1>24 DEF WaitExit, MoveUser
<1>25. CASE Kill
  BY <1>25 DEF Kill, MoveUser
<1>26. CASE WaitExitDone
  BY <1>26 DEF WaitExitDone, MoveUser
<1>27. CASE WaitExitCtx
  BY <1>27 DEF WaitExitCtx, MoveUser
<1>28. CASE WaitExitReturns
  BY <1>28 DEF WaitExitReturns, MoveUser
<1>29. CASE KillReturns
  BY <1>29 DEF KillReturns, MoveUser
<1>30. CASE KillWaited
  BY <1>30 DEF KillWaited, MoveUser
<1> QED
  BY <1>1, <1>2, <1>3, <1>4, <1>5, <1>6, <1>7, <1>8, <1>9, <1>10, <1>11,
     <1>12, <1>13, <1>14, <1>15, <1>16, <1>17, <1>18, <1>19, <1>20, <1>21, <1>22,
     <1>23, <1>24, <1>25, <1>26, <1>27, <1>28, <1>29, <1>30
  DEF Next, Decide, Reader, User

(* IInv is an invariant of a launch.                                       *)
THEOREM Invariance == Spec => []IInv
<1>1. IInv /\ [Next]_vars => IInv'
  BY TypeStep, OrderlyStep DEF IInv
<1> QED
  BY InitIInv, <1>1, PTL DEF Spec

(* Every state of a launch is well typed.                                  *)
THEOREM TypeCorrect == Spec => []TypeOK
<1>1. IInv => TypeOK
  BY DEF IInv
<1> QED
  BY <1>1, Invariance, PTL

-----------------------------------------------------------------------------
(* The properties.                                                         *)

(* A launch that succeeded agrees with the module on a protocol core       *)
(* advertised, and the module listens when its line arrives.               *)
THEOREM LaunchAgreesAlways == Spec => []LaunchAgrees
<1>1. IInv => LaunchAgrees
  BY DEF IInv, Orderly, AgreementInv, ModuleInv, LineSeen, LaunchAgrees
<1> QED
  BY <1>1, Invariance, PTL

(* A launch is refused only by a module whose protocol is outside the      *)
(* window, and which never listened.                                       *)
THEOREM RefusalCleanAlways == Spec => []RefusalClean
<1>1. IInv => RefusalClean
  BY DEF IInv, Orderly, ModuleInv, RefusalClean
<1> QED
  BY <1>1, Invariance, PTL

(* A launch that failed stopped the host services and killed the module.   *)
THEOREM FailedLaunchAlways == Spec => []FailedLaunchStopsAll
<1>1. IInv => FailedLaunchStopsAll
  BY DEF IInv, Orderly, ReturnInv
<1> QED
  BY <1>1, Invariance, PTL

(* The reader and the owner of a ModuleProc never wait for the process     *)
(* both.                                                                   *)
THEOREM OneWaiterAlways == Spec => []OneWaiter
<1>1. IInv => OneWaiter
  BY DEF IInv, Orderly, ReturnInv, ReaderInv, OneWaiter
<1> QED
  BY <1>1, Invariance, PTL

(* The host services and the connection outlive the process of the module. *)
THEOREM ServedWhileRunningAlways == Spec => []ServedWhileRunning
<1>1. IInv => ServedWhileRunning
  BY DEF IInv, Orderly, OwnerInv
<1> QED
  BY <1>1, Invariance, PTL

=============================================================================
