-------------------------------- MODULE Launch --------------------------------
(***************************************************************************)
(* One launch of a module binary: testkit.StubCore on core's side (Launch, *)
(* its goroutine that reads the module's standard output, and the          *)
(* ModuleProc it returns), modulesdk.serve up to its handshake line on the *)
(* module's side, and the process, pipe and signal between them.           *)
(*                                                                         *)
(* The binary is one built with this SDK or a foreign one, which may print *)
(* any of ForeignLines, close its output, exit with any code, or hang.     *)
(* ModuleRuntime models what an SDK module does once it serves.            *)
(***************************************************************************)
EXTENDS Handshake

CONSTANTS
    Windows,        \* the values of StubCore.Window, the zero value included
    Sockets,        \* the addresses moduleAddr may return
    ForeignLines,   \* what a foreign binary may print
    LongLine,       \* output with no end of line that a Scanner would reach
    NoLine          \* no line

ASSUME SocketsAssumption == Sockets \subseteq Addresses
ASSUME ForeignAssumption ==
    NoLine # LongLine /\ NoLine \notin ForeignLines /\ LongLine \notin ForeignLines

VARIABLES
    window,      \* StubCore.Window
    binary,      \* "sdk" or "foreign"
    launch,      \* where Launch is
    result,      \* what it returned
    line,        \* ModuleProc.Line
    hostSrv,     \* the gRPC server of the host services
    reader,      \* the goroutine that reads standard output
    lineCh,      \* its channel for the line, of capacity 1
    errCh,       \* messages in its channel for the error, of capacity 1
    user,        \* what is being done with the ModuleProc
    conn,        \* the connection to the module is open
    reaped,      \* cmd.Wait returned: ProcessState is set
    proc,        \* the module process
    exitCode,    \* its exit code, -1 while there is none or after a kill
    kill,        \* SIGKILL was sent
    listening,   \* it has listened on its socket
    stdout,      \* the line in the pipe
    stdoutOpen,  \* the write end of the pipe is open
    stopping     \* it was asked to shut down

coreVars   == <<launch, result, line, hostSrv>>
readerVars == <<reader, lineCh, errCh>>
procVars   == <<proc, exitCode, listening, stdout, stdoutOpen, stopping>>
userVars   == <<user, conn>>
vars == <<window, binary, coreVars, readerVars, procVars, userVars, reaped, kill>>

(* The protocol this SDK speaks and the network of its platform. *)
Protocol == 1
Network == NetworkUnix

(* Launch advertises {1, 1} for the zero Window. *)
Advertised ==
    IF window = [Min |-> 0, Max |-> 0] THEN [Min |-> 1, Max |-> 1] ELSE window

Printable == {Format([Protocol |-> Protocol, Network |-> Network, Addr |-> a]) : a \in Sockets}

Running == {"env", "listen", "print", "serving", "foreign"}

TypeOK ==
    /\ window \in Windows
    /\ binary \in {"sdk", "foreign"}
    /\ launch \in {"listen", "spawn", "await", "parse", "returned"}
    /\ result \in {"none", "launched", "refused", "error"}
    /\ line \in Printable \cup ForeignLines \cup {NoLine}
    /\ hostSrv \in {"none", "serving", "stopped"}
    /\ reader \in {"off", "scan", "drain", "reap", "done"}
    /\ lineCh \in Printable \cup ForeignLines \cup {NoLine}
    /\ errCh \in 0..1
    /\ user \in {"idle", "wait", "killed", "teardown", "killing", "closing", "done"}
    /\ conn \in BOOLEAN
    /\ reaped \in BOOLEAN
    /\ proc \in Running \cup {"none", "exited"}
    /\ exitCode \in {-1, 0, 1, ExitProtocolUnsupported}
    /\ kill \in BOOLEAN
    /\ listening \in BOOLEAN
    /\ stdout \in Printable \cup ForeignLines \cup {NoLine, LongLine}
    /\ stdoutOpen \in BOOLEAN
    /\ stopping \in BOOLEAN

Init ==
    /\ window \in Windows
    /\ binary \in {"sdk", "foreign"}
    /\ launch = "listen" /\ result = "none" /\ line = NoLine /\ hostSrv = "none"
    /\ reader = "off" /\ lineCh = NoLine /\ errCh = 0
    /\ user = "idle" /\ conn = FALSE /\ reaped = FALSE
    /\ proc = "none" /\ exitCode = -1 /\ kill = FALSE
    /\ listening = FALSE /\ stdout = NoLine /\ stdoutOpen = FALSE
    /\ stopping = FALSE

-----------------------------------------------------------------------------
(* StubCore.Launch.                                                        *)

Return(what, server) ==
    /\ launch' = "returned"
    /\ result' = what
    /\ hostSrv' = server
    /\ UNCHANGED line

(* The nonce, the socket directory and the listener; any may fail. *)
HostServices ==
    /\ launch = "listen"
    /\ \/ launch' = "spawn" /\ hostSrv' = "serving" /\ UNCHANGED <<result, line>>
       \/ Return("error", "none")
    /\ UNCHANGED <<window, binary, readerVars, procVars, userVars, reaped, kill>>

SpawnFails ==
    /\ launch = "spawn"
    /\ Return("error", "stopped")
    /\ UNCHANGED <<window, binary, readerVars, procVars, userVars, reaped, kill>>

Spawn ==
    /\ launch = "spawn"
    /\ launch' = "await"
    /\ reader' = "scan"
    /\ proc' = IF binary = "sdk" THEN "env" ELSE "foreign"
    /\ stdoutOpen' = TRUE
    /\ UNCHANGED <<window, binary, result, line, hostSrv, lineCh, errCh, exitCode,
                   listening, stdout, stopping, userVars, reaped, kill>>

(* The select on lineCh, errCh, the timer and the context. *)
AwaitLine ==
    /\ launch = "await"
    /\ lineCh # NoLine
    /\ launch' = "parse"
    /\ line' = lineCh
    /\ lineCh' = NoLine
    /\ UNCHANGED <<window, binary, result, hostSrv, reader, errCh, procVars,
                   userVars, reaped, kill>>

AwaitExit ==
    /\ launch = "await"
    /\ errCh = 1
    /\ errCh' = 0
    /\ Return(IF exitCode = ExitProtocolUnsupported THEN "refused" ELSE "error", "stopped")
    /\ UNCHANGED <<window, binary, reader, lineCh, procVars, userVars, reaped, kill>>

(* The timer fired, or the caller's context ended. *)
AwaitTimeout ==
    /\ launch = "await"
    /\ kill' = TRUE
    /\ Return("error", "stopped")
    /\ UNCHANGED <<window, binary, readerVars, procVars, userVars, reaped>>

Acceptable == Accepted(line) /\ Contains(Advertised, Parse(line).Protocol)

(* The module is killed and the host services are stopped. *)
Abandon ==
    /\ kill' = TRUE
    /\ Return("error", "stopped")
    /\ UNCHANGED <<window, binary, readerVars, procVars, userVars, reaped>>

LineRefused ==
    /\ launch = "parse"
    /\ ~Accepted(line)
    /\ Abandon

ProtocolOutsideLeavesModule ==
    /\ launch = "parse"
    /\ Accepted(line) /\ ~Acceptable
    /\ Return("error", "stopped")
    /\ UNCHANGED <<window, binary, readerVars, procVars, userVars, reaped, kill>>

ProtocolOutside ==
    /\ launch = "parse"
    /\ Accepted(line) /\ ~Acceptable
    /\ Abandon

(* ipc.GRPCClient refuses the address. *)
ClientFails ==
    /\ launch = "parse"
    /\ Acceptable
    /\ Abandon

LaunchReturnsUnchecked ==
    /\ launch = "parse"
    /\ Accepted(line)
    /\ conn' = TRUE
    /\ Return("launched", hostSrv)
    /\ UNCHANGED <<window, binary, readerVars, procVars, user, reaped, kill>>

LaunchReturns ==
    /\ launch = "parse"
    /\ Acceptable
    /\ conn' = TRUE
    /\ Return("launched", hostSrv)
    /\ UNCHANGED <<window, binary, readerVars, procVars, user, reaped, kill>>

-----------------------------------------------------------------------------
(* The goroutine that reads standard output.                               *)

MoveReader(from, to) ==
    /\ reader = from
    /\ reader' = to
    /\ UNCHANGED <<window, binary, coreVars, procVars, userVars, kill>>

ReadLineUnbuffered ==
    /\ stdout \notin {NoLine, LongLine}
    /\ launch = "await"
    /\ lineCh' = stdout
    /\ MoveReader("scan", "drain")
    /\ UNCHANGED <<errCh, reaped>>

(* A send on a buffered channel: it does not wait for Launch, which may    *)
(* have returned already.                                                  *)
ReadLine ==
    /\ stdout \notin {NoLine, LongLine}
    /\ lineCh' = stdout
    /\ MoveReader("scan", "drain")
    /\ UNCHANGED <<errCh, reaped>>

(* The end of the output, or a line that is too long. *)
ScanFails ==
    /\ stdout = LongLine \/ (stdout = NoLine /\ ~stdoutOpen)
    /\ MoveReader("scan", "reap")
    /\ UNCHANGED <<lineCh, errCh, reaped>>

ReaderReaps ==
    /\ proc = "exited"
    /\ errCh' = 1
    /\ reaped' = TRUE
    /\ MoveReader("reap", "done")
    /\ UNCHANGED lineCh

DrainEndsInWait ==
    /\ ~stdoutOpen
    /\ MoveReader("drain", "reap")
    /\ UNCHANGED <<lineCh, errCh, reaped>>

DrainEnds ==
    /\ ~stdoutOpen
    /\ MoveReader("drain", "done")
    /\ UNCHANGED <<lineCh, errCh, reaped>>

-----------------------------------------------------------------------------
(* The module process.                                                     *)

Exit(code) ==
    /\ proc' = "exited"
    /\ exitCode' = code
    /\ stdoutOpen' = FALSE
    /\ UNCHANGED <<listening, stdout, stopping>>

OthersUnchanged ==
    UNCHANGED <<window, binary, coreVars, readerVars, userVars, reaped, kill>>

ReadEnvExclusive ==
    /\ proc = "env"
    /\ IF Contains(Advertised, Protocol) /\ Advertised.Max # Protocol
       THEN /\ proc' = "listen"
            /\ UNCHANGED <<exitCode, listening, stdout, stdoutOpen, stopping>>
       ELSE Exit(ExitProtocolUnsupported)
    /\ OthersUnchanged

(* serve reads the window: 78 outside it, 1 if there is none. *)
ReadEnv ==
    /\ proc = "env"
    /\ LET w == Advertised IN
          IF ~WindowAccepted(w.Min, w.Max) THEN Exit(1)
          ELSE IF ~Contains(ParseWindow(w.Min, w.Max), Protocol)
               THEN Exit(ExitProtocolUnsupported)
               ELSE /\ proc' = "listen"
                    /\ UNCHANGED <<exitCode, listening, stdout, stdoutOpen, stopping>>
    /\ OthersUnchanged

(* ipc.Listen clears a stale socket and binds; it may fail, and serve with it. *)
Listen ==
    /\ proc = "listen"
    /\ \/ Exit(1)
       \/ /\ listening' = TRUE
          /\ proc' = "print"
          /\ UNCHANGED <<exitCode, stdout, stdoutOpen, stopping>>
    /\ OthersUnchanged

PrintLineUnversioned ==
    /\ proc = "print"
    /\ \E addr \in Sockets :
          stdout' = [Format([Protocol |-> Protocol, Network |-> Network,
                             Addr |-> addr]) EXCEPT !.version = -1]
    /\ proc' = "serving"
    /\ UNCHANGED <<exitCode, listening, stdoutOpen, stopping>>
    /\ OthersUnchanged

PrintLine ==
    /\ proc = "print"
    /\ \E addr \in Sockets :
          stdout' = Format([Protocol |-> Protocol, Network |-> Network, Addr |-> addr])
    /\ proc' = "serving"
    /\ UNCHANGED <<exitCode, listening, stdoutOpen, stopping>>
    /\ OthersUnchanged

(* Shutdown answered: the process exits 0, if nothing keeps it (see        *)
(* ModuleRuntime).                                                         *)
ServeReturns ==
    /\ proc = "serving" /\ stopping
    /\ Exit(0)
    /\ OthersUnchanged

(* A foreign binary prints, closes its output, or exits. *)
ForeignPrints ==
    /\ proc = "foreign" /\ stdoutOpen
    /\ stdout = NoLine /\ reader = "scan"
    /\ stdout' \in ForeignLines \cup {LongLine}
    /\ UNCHANGED <<proc, exitCode, listening, stdoutOpen, stopping>>
    /\ OthersUnchanged

ForeignCloses ==
    /\ proc = "foreign" /\ stdoutOpen
    /\ stdoutOpen' = FALSE
    /\ UNCHANGED <<proc, exitCode, listening, stdout, stopping>>
    /\ OthersUnchanged

ForeignExits ==
    /\ proc = "foreign"
    /\ \E code \in {0, 1, ExitProtocolUnsupported} : Exit(code)
    /\ OthersUnchanged

Crashes ==
    /\ proc \in Running \ {"foreign"}
    /\ Exit(1)
    /\ OthersUnchanged

Killed ==
    /\ proc \in Running
    /\ kill
    /\ Exit(-1)
    /\ OthersUnchanged

-----------------------------------------------------------------------------
(* ModuleProc.                                                             *)

MoveUser(from, to) ==
    /\ result = "launched"
    /\ user = from
    /\ user' = to
    /\ UNCHANGED <<window, binary, launch, result, line, readerVars>>

(* Shutdown: an error, a dead module's among them, is returned to the      *)
(* caller; an answer is followed by WaitExit.                              *)
ShutdownAnswered ==
    /\ conn /\ proc = "serving" /\ ~stopping
    /\ stopping' = TRUE
    /\ MoveUser("idle", "wait")
    /\ UNCHANGED <<proc, exitCode, listening, stdout, stdoutOpen, hostSrv, conn, reaped, kill>>

WaitExit ==
    /\ conn
    /\ MoveUser("idle", "wait")
    /\ UNCHANGED <<procVars, hostSrv, conn, reaped, kill>>

(* cmd.Wait returned. *)
WaitExitDone ==
    /\ proc = "exited"
    /\ reaped' = TRUE
    /\ \E from \in {"wait", "killed"} : MoveUser(from, "teardown")
    /\ UNCHANGED <<procVars, hostSrv, conn, kill>>

WaitExitCtxNoKill ==
    /\ MoveUser("wait", "killed")
    /\ UNCHANGED <<procVars, hostSrv, conn, reaped, kill>>

(* The context ended first. *)
WaitExitCtx ==
    /\ kill' = TRUE
    /\ MoveUser("wait", "killed")
    /\ UNCHANGED <<procVars, hostSrv, conn, reaped>>

(* The deferred teardown.  GracefulStop has nothing to wait for: the       *)
(* module's own RPCs ended with its process.                               *)
WaitExitReturns ==
    /\ conn' = FALSE
    /\ hostSrv' = "stopped"
    /\ MoveUser("teardown", "idle")
    /\ UNCHANGED <<procVars, reaped, kill>>

(* Kill, also after a WaitExit that tore everything down. *)
Kill ==
    /\ kill' = TRUE
    /\ MoveUser("idle", "killing")
    /\ UNCHANGED <<procVars, hostSrv, conn, reaped>>

KillDoesNotWait ==
    /\ MoveUser("killing", "closing")
    /\ UNCHANGED <<procVars, hostSrv, conn, reaped, kill>>

(* cmd.Wait returned, or refused to wait a second time. *)
KillWaited ==
    /\ proc = "exited"
    /\ reaped' = TRUE
    /\ MoveUser("killing", "closing")
    /\ UNCHANGED <<procVars, hostSrv, conn, kill>>

KillReturns ==
    /\ conn' = FALSE
    /\ hostSrv' = "stopped"
    /\ MoveUser("closing", "done")
    /\ UNCHANGED <<procVars, reaped, kill>>

Returned == launch = "returned" /\ (result = "launched" => user = "done")

(* Nothing is left to do. *)
Finished ==
    /\ Returned
    /\ proc \in {"none", "exited"} /\ reader \in {"off", "done"}
    /\ UNCHANGED vars

Decide == LineRefused \/ ProtocolOutside \/ ClientFails \/ LaunchReturns

Reader == ReadLine \/ ScanFails \/ ReaderReaps \/ DrainEnds

User == WaitExitDone \/ WaitExitCtx \/ WaitExitReturns \/ KillWaited \/ KillReturns

Next ==
    \/ HostServices \/ SpawnFails \/ Spawn
    \/ AwaitLine \/ AwaitExit \/ AwaitTimeout
    \/ Decide
    \/ Reader
    \/ ReadEnv \/ Listen \/ PrintLine \/ ServeReturns
    \/ ForeignPrints \/ ForeignCloses \/ ForeignExits
    \/ Crashes \/ Killed
    \/ ShutdownAnswered \/ WaitExit \/ Kill \/ User
    \/ Finished

Spec == Init /\ [][Next]_vars

(* Goroutines run, a killed process dies, timers and contexts end.  Nothing *)
(* is assumed of the module.                                               *)
FairSpec ==
    /\ Spec
    /\ WF_vars(Reader)
    /\ WF_vars(Killed)
    /\ WF_vars(AwaitTimeout) /\ WF_vars(Decide)
    /\ WF_vars(User)

-----------------------------------------------------------------------------
(* Properties.                                                             *)

(* A launch that succeeded agrees with the module on a protocol of the     *)
(* window core advertised, and an SDK module had bound its socket before   *)
(* its line reached core: the first RPC cannot find nobody there.          *)
LaunchAgrees ==
    result = "launched" =>
        /\ Contains(Advertised, Parse(line).Protocol)
        /\ binary = "sdk" => listening

(* ErrProtocolRefused means the clean refusal: the SDK module found its    *)
(* protocol outside the window, and never listened.                        *)
RefusalClean ==
    result = "refused" /\ binary = "sdk" =>
        /\ ~Contains(Advertised, Protocol)
        /\ ~listening /\ reaped

(* A launch that failed, wherever it did, leaves no host services serving  *)
(* and no process that has not been killed: nobody else could end it.      *)
FailedLaunchStopsAll ==
    result \in {"refused", "error"} =>
        /\ hostSrv # "serving"
        /\ proc \in Running => kill

(* cmd.Wait has one caller at a time: the reader waits only when Launch    *)
(* will not hand the process to a caller that waits too.                   *)
OneWaiter == reader = "reap" => user \notin {"wait", "killed", "killing"}

(* A launched module keeps its connection to core and core's host services *)
(* for as long as its process runs, whatever its owner calls and however   *)
(* the calls end: a module that is stopping still logs and reads policy.   *)
ServedWhileRunning ==
    result = "launched" /\ proc \in Running => conn /\ hostSrv = "serving"

(* A launch that failed ends the process it started, and its goroutine.    *)
FailedLaunchEnds ==
    result \in {"refused", "error"} ~>
        proc \in {"none", "exited"} /\ reader \in {"off", "done"}

(* Shutdown and WaitExit are bounded by their context, whatever the module *)
(* does.                                                                   *)
WaitExitEnds == user \in {"wait", "killed", "teardown"} ~> user = "idle"

=============================================================================
