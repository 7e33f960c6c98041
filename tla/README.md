# A TLA+ model of the weaveplatform SDK

This directory specifies, model-checks and in large part proves the module
runtime of the weaveplatform SDK: what happens between *core* (the supervisor) and a
*module* (a process built with `modulesdk`). The reference is the Go code under
`src/`; `PROJECT.json` maps every definition to the lines it stands for.

    tlc -workers 2 -config MCRuntime.cfg MCRuntime     # any run of the table below
    tlapm ModuleRuntimeProofs.tla                      # any *Proofs module

## 1. Inventory

A core launches a module binary with a handshake in its environment; the binary
answers with one line on standard output and serves `ModuleService` on a socket;
core calls `Init`, in which the module dials back to core's host services; then
`Start`, `Stop`, `Shutdown`. `testkit.StubCore` is the core side in this
repository.

| Part (source) | State | Operations | Hard behaviour | Model |
|---|---|---|---|---|
| Lifecycle server (`modulesdk/lifecycle.go`) | `state`, `host`, `mu`, channels `shutdown`, `hostLost` | `Init`, `Start`, `Stop`, `Shutdown`, `Health` | concurrent RPCs on one mutex, callbacks that fail, retries | `ModuleRuntime` |
| Module process (`modulesdk/serve.go`) | where `serve` is | start-up, select, `GracefulStop`, teardown | four reasons to exit racing RPCs and jobs | `Launch` (up to the line), `ModuleRuntime` (after it) |
| Job scheduler (`modulesdk/hostclient.go`) | `jobs`, `jobCancel`, `jobCtx`, `jobWG`, `started` | `addJobs`, `startJobs`, `stopJobs`, one goroutine per job | cancellation racing timers, who waits for whom | `JobScheduler` |
| Push watchdog (same file) | its stream of pings | `launchWatchdogLocked` | a stream that breaks between ticks, cancellation at any point | `JobScheduler` (when it runs), `PushWatchdog` (its stream) |
| Host connection watch (`modulesdk/hostclient.go`) | a gRPC `ClientConn` | `dialHost`, `awaitDisconnect`, `Close` | state sampled and used later; death of core | `HostLink` |
| UI broker (`modulesdk/hostclient.go`) | `surfaces` | `Declare` | called at any time by module code | `ModuleRuntime` |
| Handshake (`handshake/`) | none | `Format`, `Parse`, `ParseWindow`, `Contains` | boundaries, separators, legacy names | `Handshake` |
| Launch (`modulesdk/testkit/stubcore.go`) | process, pipes, two channels, host server | `Launch`, `Shutdown`, `WaitExit`, `Kill` | timeout against late line, early exit, `cmd.Wait` from two places | `Launch` |
| Policy distribution (`testkit/hostdata.go`, `testkit/hostserver.go`, `hostclient.go`) | revision, watchers, streams, channels | `SetPolicy`, `Watch` | lost wake-ups, repeated or reordered documents, slow readers | `PolicyWatch` |
| Event bus (same files) | event log, subscribers and their queues of 64 | `Publish`, `Subscribe` | a fan-out outside the lock, full queues, modules that stop reading | `EventBus` |
| Host log stream (`modulesdk/loghandler.go`) | `stream`, `broken`, `mu` of each handler | `Handle`, `WithAttrs`, `WithGroup` | a send under a mutex, a stream that breaks after it accepted a record, copies that share one | `LogStream`, `HostUplink` |
| Store namespaces (`hostclient.go`, `testkit/hostdata.go`) | a map | `Get`, `Put`, `Delete`, `List` | prefixes that overlap | `HostStore` |
| Transport receive (`hostclient.go`) | a stream and a channel | `Receive` | a module that stops reading | `HostStream` |
| Local transport (`ipc/`) | a socket path | `Listen`, `Dial` | a bind that fails, a second listener on the path | one action of `Launch` |
| Retry, peer credentials, error mapping, identity, platform, config, log set-up | none of their own | pass-through or arithmetic | none a model would show | not modelled (section 5) |

They interact through calls (core's RPCs into the lifecycle server, which calls
the module's code with `mu` held), shared state (`hostClient`, used by handlers,
job goroutines, module code and the teardown), channels (`shutdown`, `hostLost`,
signals to main; notifications to watchers, queues of subscribers) and process boundaries (environment,
pipe, exit code, sockets). What makes each part correct is its list of
properties in section 3; `hazards` in `PROJECT.json` says where the code could
go wrong, line by line.

## 2. Modules

| Detailed module | Built from | Abstract specification it implements |
|---|---|---|
| `ModuleRuntime` | `JobScheduler`, `HostLink`, handlers, main goroutine | `ModuleContract` |
| `EventBus` | `HostStream`, bus, handlers | `EventContract` |
| `PolicyWatch` | `HostStream`, policy, handlers | `PolicyContract` |
| `HostUplink` | `LogStream`, `PushWatchdog`, both on `Uplink` | `LogContract` |
| `Launch` | `Handshake`, core, process, pipe | |
| `HostStore` | operators only | |

`MCRuntime`, `MCLaunch` and `MCEvents` hold the constants of the runs; the other
runs need none beyond their `.cfg`.

**ModuleContract** is what the author of a module relies on: phases of the
lifecycle as its callbacks see them, which jobs are inside `Run`, and when each
may happen. `Stop` is called with no job running, a process that ends on its own
accord has none running either, `Run` is entered only after `Start` returned.
It knows nothing of locks, RPCs, channels or goroutines.

**ModuleRuntime**. A slot of `Calls` is an RPC in flight. `Arrive` dispatches
it; all but health then take `mu` (`LockMu`), and each disjunct of the Go
handler is an action: every refusal, the entry into `m.Init`, `m.Start`,
`m.Stop`, and the two ways each of them returns. What the code does without
blocking between two such points is one action, because it holds `mu` or uses
data nobody else touches; the points where others may run are the lock, the
callbacks, `jobWG.Wait` (`drain`) and the unlocked send of `Shutdown`
(`signal`). `main` follows `serve` from its select to `os.Exit`. `exit` tells a
clean exit from a failed gRPC server, which returns without a teardown. A
health check and a `Watch` stream of the gRPC health service are RPCs without a
lock; the stream ends when its client hangs up. The send of `Shutdown` and the
return of its handler are one step: `GracefulStop` waits for the handler, so
nobody can tell the two apart.

**JobScheduler** keeps the field names of `hostClient`. `worker` says where each
goroutine of `launchJobLocked` is (`jobWG` counts those neither `none` nor
`done`); the interval is positive or not at each cycle, as `EveryFunc` may
decide. A timer may fire after the cancellation and the job run once more, as
Go's select allows. Here the watchdog is a worker that only ticks; what it does
with its stream is `PushWatchdog`, which shows that it returns when cancelled
(`WatchdogReturns`), as `stopJobs` and the fairness of this module take for
granted.

**HostLink**. The `ClientConn` is external: idle, connecting, ready, failure,
shutdown. A dial to a dead core fails; one to a live core succeeds, or fails and
is repeated until it succeeds; a dead core stays dead; a dropped connection falls
back to idle and is dialled by `Connect` or by the next RPC. These are
assumptions about gRPC and the local transport.
`awaitDisconnect` is one action per statement: `GetState`, `Connect`, the call
of `WaitForStateChange` (which compares once) and its wake-up.

**Launch**. One launch of one binary: `StubCore.Launch`, its reader goroutine,
the process, the pipe (a line and whether it is open), `cmd.Wait` (`reaped`),
and the user of the `ModuleProc`. An SDK binary follows `serve` to its line; a
foreign one prints any of `ForeignLines` or a line too long for the scanner
(`LongLine`), closes its output, exits or hangs. Each way in which `Launch` gives
up on a line is an action (`LineRefused`, `ProtocolOutside`, `ClientFails`).
SIGKILL is sent (`kill`) and takes effect later (`Killed`); `Kill` and `WaitExit`
wait for that (`KillWaited`, `WaitExitDone`) before they close the connection
and stop the host services (`KillReturns`, `WaitExitReturns`).

**Handshake** is a set of operators. A numeral is its integer and other text
is -1; an address is its text and whether it contains the separator or ends in
blanks, the two things that do not survive `Format` and `Parse`.

**HostStream** is the goroutine that forwards a stream to an unbuffered channel;
`hostclient.go` has it three times. It receives, offers or stops
with the context, and closes the channel. The gRPC stream under it is external:
`Window` messages in flight, and both ends learn when the context is cancelled
or the transport fails. What was in flight then may or may not be received. It
has no `Next`: the modules that extend it say what the other end sends.

**PolicyWatch**. A document is its revision, because `SetPolicy` writes revision
and data under one lock. `SetPolicy` copies the list of watchers under the lock
and notifies them after it, without blocking; the handler of a `Watch` stream
registers, reads, sends and waits. The order in which one `SetPolicy` notifies
its watchers is left open (the code uses list order), which allows more
behaviours and shows as much.

**PolicyContract** is what `PolicyReader.Watch` promises: each call offers a module
documents that were set, one at a time and each newer than the one it read
before, until the context or the stream is over, and only then is the channel
closed. Changes may be skipped. What is on offer is a variable of the contract
because reading a document a second time would change no other. `UpToDate` says what the contract leaves out: when nothing moves any
more, the document read last is the current one.

**EventBus**. An event is its index in `HostData.events`. `Publish` records it
and copies the list of subscribers under the lock, one action; then it offers the
event to one subscriber per action (`FanOut`), beside the other publishers, with
a send that drops the event if the queue is full. The handler of `Subscribe`
registers, takes from its queue and sends. A subscriber is never removed: its
queue fills up and refuses, which is why `Accounted` speaks of streams that
last, and why `PublishReturns` matters. Topics are sequences of symbols, so that
`TopicMatches` is the code's comparison of prefixes, and `EventContract` states
the patterns independently. `since` and `dropped` are history variables.

**EventContract** is what the `Events` interface promises: a module hears, at
most once, events that match, those of one publisher in their order. How events
of two publishers interleave, and which are missed, is left open.

**Uplink, LogStream, PushWatchdog, HostUplink**. A client stream is open, cut (it
failed or core ended it, and the client has not heard) or dead (it has). What is
sent on a cut stream is accepted and lost; a send on a dead one fails.
`LogStream` keeps the fields of `streamHandler`: `Handle` locks `mu`, opens the
stream if there is none, sends, and sets `broken` and falls back to standard
error on any failure. The mutex is held while the call blocks, so each such point
is a step of its own (`open`, `send`). `With` copies a handler: the copy takes
over `stream`, starts with `broken` unset and a mutex of its own. A handler
opens at most one stream, which is therefore named after it. `PushWatchdog` ticks,
opens a stream if it has none, sends, and forgets the stream after a failure.
`HostUplink` puts both on one connection, whose loss takes every stream.

**LogContract** is what becomes of the records of one handler: in their order,
core gets the first ones, a stream that broke may take the next ones with it,
the rest go to standard error, and what became of a record never changes. A lost
record takes with it those of its handler that were sent after it, so core never
has a record behind a gap.
`Before` and `After` a record are those of the same handler only; nothing is said
of how handlers interleave, nor of mutexes, streams or copies.

**HostStore** is a set of operators: a text is a sequence of symbols, a store a
function. `HostData.mu` makes each operation one step, so there is no state
machine to check; what could be wrong is the arithmetic of prefixes, and that is
proved.

Definitions such as `StopCancelsWithoutWait` that are in no `Next` are small
faults, one per property: put in place of the action they precede, they make TLC
report the property. They show that each property depends on the code it names.

## 3. Runs

| Run | Instance | Properties | States |
|---|---|---|---|
| `MCRuntime.cfg` | 2 RPCs in flight, of all kinds, 1 job, watchdog, 1 surface | `TypeOK`, `StopSeesNoJob`, `CallbacksExclude`, `CleanExit`, `HostPresent`, `LossNotMissed`, `InitRetryable`, refinement `ImplementsContract` | 2 779 118 |
| `MCRuntimeLive.cfg` | 1 RPC at a time, 1 job | `WakeUpEndsProcess`, `DrainEnds`, `LockGranted`, `CoreDeathEndsModule` | 145 702 |
| `MCLaunch.cfg` | 6 windows around the protocol, 4 kinds of foreign line and one too long | `TypeOK`, `LaunchAgrees`, `RefusalClean`, `FailedLaunchStopsAll`, `OneWaiter`, `ServedWhileRunning`, `FailedLaunchEnds`, `WaitExitEnds` | 2 473 |
| `MCEvents.cfg` | 2 publishers of 2 modules, 2 subscribers (one may stop reading, and its stream may end), 2 events, queues of 1 | `TypeOK`, `PublisherOrder`, `Accounted`, `PublishReturns`, `Delivered`, `Closes`, refinement `ImplementsEvents` | 44 982 |
| `MCUplink.cfg` | 2 goroutines log through a handler and a copy, watchdog, 1 loss of the connection | `TypeOK`, `Whereabouts`, `NoHoles`, `HandleReturns`, `WatchdogResumes`, `WatchdogReturns`, refinement `ImplementsLog` | 107 198 |
| `MCPolicy.cfg` | 2 setters, 1 watcher, 4 changes, 2 documents in flight | `TypeOK`, `NoLostWakeup`, `UpToDate`, `Converges`, `Closes`, refinement `ImplementsPolicy` | 25 735 |

Six runs show where the code does something other than its comments say:

| Run | Property | What TLC finds |
|---|---|---|
| `MCRuntimeOrphan.cfg` | `CoreDeathEndsProcess` | Core dies before an `Init` succeeded. `awaitDisconnect` starts at the end of `Init`, so nobody notices; "if core vanishes, the module exits rather than orphaning" (`lifecycle.go:36-38`) holds only from then on. |
| `MCRuntimeWatcher.cfg` | `CoreDeathEndsModule` | The connection goes from idle through ready back to idle between `GetState` and `WaitForStateChange`. The wait then starts on an idle connection nobody dials; a module that makes no host call outlives core. `MCRuntimeLive.cfg` shows the property holds for a module that does call its host now and then. |
| `MCRuntimeBlip.cfg` | `HostLostMeansCoreGone` | A dial to a live core fails once. `awaitDisconnect` reports the loss of core at the first `TransientFailure` it sees, and the module exits; that "only a genuine loss (core exited) — not a transient blip — triggers the callback" (`hostclient.go:87-88`) holds of a connection that drops and is dialled again at once, not of a dial that fails. |
| `MCRuntimeHealthWatch.cfg` | `ShutdownEndsProcess` | A client keeps a gRPC health `Watch` open; `GracefulStop` waits for it without a bound. `MCRuntimeLive.cfg` shows `Shutdown` does end the process without such a stream. |
| `MCRuntimeSurfaces.cfg` | `AcceptedSurfacesAnnounced` | `Declare` is refused from `startJobs` on, not from the answer to `Init` on; a surface declared in between is accepted and never sent. |
| `MCUplinkLost.cfg` | `NothingLost` | A record is accepted by `stream.Send`; the stream breaks before core reads it. "Logging must never be lost because the wire hiccuped" (`loghandler.go:16`) holds only of records whose `Send` fails. `Whereabouts` and `NoHoles` say what does hold: every record is in exactly one place, and of a handler's records the lost ones come after those core received and before those on standard error. |

**Bounds.** Handlers interact pairwise through one mutex and never wait for each
other otherwise, so two slots show every interleaving of two RPCs; a slot is
reused, so sequences of RPCs are unbounded. Jobs do not interact: one job and
the watchdog have all a second job could add to `stopJobs`; the contract's set
of active jobs is checked with one job and the invariants are proved for any
number. Liveness needs no second handler to be violated by a lock that is not
released or a drain that does not end. The channels have their real capacity.
In `Launch`, `MaxUint32` is 3: the protocol is 1, and 0, 1, 2, 3 lie below, on
and above every edge of the windows used. In `PolicyWatch`, `MaxRevision` 4 and
two setters allow a change before, during and after a read while a notification
is still pending; watchers share nothing but the revision, so one is enough.
In `EventBus`, `QueueSize` is 1 for 64 in the code and `Window` 1: two events
then suffice for a full queue, a dropped event, and an event in every place on
the way at once; the proofs hold for any. Two publishers fan out beside each other, and one publisher
twice in a row; the publishers belong to two modules, and the patterns include an
exact topic, a glob and a lone star. One subscriber always reads and keeps its
stream; the other may do neither (`Readers`, `Breakable`), so the run also shows
that it does not hold up the first. In `HostUplink`, three records go through a
root handler and one copy: enough for a record before, during and after a
failure, and for two handlers on a shared stream. Log and watchdog share only
the connection, so beside a watchdog one record is enough (`MaxRecordsBeside`).
One loss of the connection (`MaxDrops`) and any number of streams ended by core
cover both ways a stream breaks.

`CHECK_DEADLOCK FALSE` appears in `MCPolicy.cfg`, `MCEvents.cfg` and the
`MCUplink*.cfg`: once no change, event or record is left, everybody rightly
waits.

**Fairness.** Weak fairness of goroutines that can run. Strong fairness of
`LockMu`, since Go's mutex hands itself to a starving waiter, and of
`WorkerEnds`, since a select with two ready cases picks at random. The module's
callbacks and `Run` functions return; that is the contract of the `Module`
interface. The kernel closes the connection of a dead core and a dial ends, one
way or the other. Nothing is assumed of core, of signals or of clients, except where a run says
so: `TalkingSpec` (the module calls its host now and then), of which
`MCRuntimeLive.cfg` has need for `CoreDeathEndsModule` only, and `ServedSpec`
(health streams are hung up besides), under which core's death still leaves the
orphan of `MCRuntimeOrphan.cfg`. In `Launch`, timers and contexts end, and a killed
process dies; an SDK or foreign binary may hang for ever. In `PolicyWatch` the
module reads its channel, in `EventBus` only the modules of `Readers` do;
nothing makes a module publish, subscribe or cancel. In `HostUplink` core reads
what it is sent, a client hears of a stream that ended, and `WatchdogEnds` is
strongly fair because it is one case of a select; nothing makes a module log or
a connection return, and `WatchdogResumes` is conditional on the latter.

## 4. Proofs

Checked by TLAPS for every value of the constants, from the `ASSUME`s of the
modules only.

* `ModuleRuntimeProofs`: `TypeCorrect`, `Invariance` (`IInv` is inductive), and
  from it `StopAloneAlways`, `CallbacksExcludeAlways`, `CleanExitAlways`,
  `HostPresentAlways`, `InitRetryableAlways`, `LossNotMissedAlways`. The properties
  are not inductive: that `m.Stop` sees no job, for instance, rests on who may
  be waiting for the jobs when `jobCancel` is gone. `IInv` therefore says that a
  handler past the lock holds it (`HolderInv`), in which lifecycle state each
  callback executes and that goroutines exist only after a start
  (`LifecycleInv`), that without a cancel function either nothing is left of the
  jobs or somebody is draining them (`DrainInv`), that the job context and its
  cancel function are live together (`EngineInv`), that each step of the teardown
  finds those before it done (`TeardownInv`), what a host implies and is
  implied by (`HostInv`), and where the goroutine that watches the connection is
  while it has failed (`WatchInv`). There is one step per action.
* `ModuleRuntimeRefinement`: `ContractImplemented`, the refinement for any number
  of RPCs and jobs. The phase of the contract depends on where every handler is,
  so the proof first shows that a handler inside the module is there alone
  (`Alone`) and that the phase is then its place (`InsideNow`), or else the
  lifecycle state and the job context (`OutsideNow`); both hold again after a
  step because they follow from `IInv`. Each action is then a step of the
  contract or changes nothing the phase is made of (`Quiet` and its two kinds).
* `LaunchProofs`: `TypeCorrect` and, from an inductive invariant of six parts,
  `LaunchAgreesAlways`, `RefusalCleanAlways`, `FailedLaunchAlways`,
  `OneWaiterAlways`, `ServedWhileRunningAlways`. The parts say what exists before a spawn
  (`UnspawnedInv`), what each outcome of `Launch` implies (`ReturnInv`), that the
  reader waits for the process only if it read no line (`ReaderInv`), and that
  nobody sees a line of an SDK module before it listens (`ModuleInv`), what the
  line of a launch that succeeded says (`AgreementInv`), and that whoever closes
  the connection has waited for the process (`OwnerInv`). That a
  failed launch leaves neither host services nor a process that was not killed
  (`FailedLaunchStopsAll`) is read off `ReturnInv`.
* `PolicyWatchProofs`: `TypeCorrect`, `Invariance`, `NoLostWakeupAlways`,
  `UpToDateAlways`, `IncreasingAlways`, `ContractImplemented`.
  `InFlight` orders what the module read, what is on offer, what is in the
  stream and what may still be sent; `Informed` says a handler with an old
  document has a notification waiting or under way; `Newest` says what a handler
  sent last is the newest in flight, on offer or read. The two actions that change
  the stream have lemmas of their own. `UpToDate` needs all three. In the
  refinement a `Recv` is an offer of the contract by `InFlight`, a `Deliver` is the
  read of it, and what ends a stream or a channel moves the state of that `Watch`
  only (`WatchMoves`).
* `EventBusProofs`: `TypeCorrect`, `PublisherOrderAlways`, `AccountedAlways`,
  `ContractImplemented`. The two properties are almost inductive: what they lack is
  that a `Publish` under way offers the newest event of its publisher, to each of
  some registered subscribers once (`Publishing`), and that a handler registers
  once (`Registered`). A step on a stream moves an event along its path, which
  stays the same (`PathMoves`), or loses one of an ended stream (`PathEnds`); a
  fan-out adds one at the end (`FanOutStep`). The refinement follows: what is on
  offer is on the path behind everything the module has read.
* `HostUplinkProofs`: `TypeCorrect`, `Invariance`, `WhereaboutsAlways`,
  `NoHolesAlways`, `ContractImplemented`. That a record is in one place needs to
  be known of the calls first: a call ships a record of its own, and one inside
  `send` ships the newest of its handler (`CallInv`, from the mutex). A handler
  opens one stream in its life, its own or its parent's, and none after it broke
  (`HandlerInv`): this is what keeps a record out of a stream behind a lost one.
  Only an open stream has records in flight, those of a handler in their order
  (`StreamInv`); a handler on standard error is broken, and one that lost records
  is broken or on a stream that ended (`FateInv`). `OrderInv` says what is known
  of a record from where a later one of its handler is; `NoHoles` follows from it
  and `FateInv`. `LogContract` speaks of fates, so the refinement first shows that
  a record's place and its fate are the same thing (`Fates`), and that an action
  moves one record (`Lock`, `Sends`, `LogArrives`, `FallsBack`), loses those of
  one stream (`LogCut` and the rest) or moves none. `BoundInv` (the bound on
  records leaves room for the calls under way) is about the model only.
* `HandshakeProofs`: `ParseSound`, `RoundTrip`, `ReadsBack`, `WindowSound`: `Parse` accepts only well-formed lines, re-formatting a parsed
  line changes nothing, an address with a separator is refused and never
  misread, a line is read back as it was written unless its address ends in
  blanks, an accepted window is not empty and excludes protocol 0.

* `HostStoreProofs`: `ListSound` (`List` returns the keys of its namespace that
  begin with the prefix, and no other), `NamespacesApart` (a write in one namespace
  is not seen in another, if names are not empty and have no separator: with
  names `a` and `a/b` it would be), `ReadYourWrites`. The lemmas are about
  prefixes of concatenations.

Only model-checked: all liveness (TLAPS does not reason about fairness and
`ENABLED`). Every invariant and every refinement the passing runs check is also a
theorem.

## 5. Not modelled

* Durations: the Stop deadline reaches `m.Stop` as its context and changes
  nothing else; intervals are positive or not.
* The content of messages, config, policy and records; health details,
  authentication tokens, Windows pipes. The prefix of groups and the attributes
  that tell a handler's copies apart are content.
* A panic in a callback ends the process in Go and is not a step of
  `ModuleRuntime`; neither is a module that keeps the `Host` of a failed `Init`
  and goes on using it.
* `Sequence` of an event, documented as a counter that reveals gaps, is never set
  by the stub host.
* Two copies of a log handler that send on a shared stream at the same moment: each
  has a mutex of its own and gRPC forbids it. The outcome is gRPC's; the model
  lets each send be a step.
* `retry.Backoff.Delay`: one random draw of a floating-point product, without
  state and without a caller. TLA+ has no floating point, and integers would
  assume the rounding that is the hard part.
* `errmap`, `werror`: a stateless table, of which a copy would show nothing.
* `ipc` peer credentials: a loop that accepts, asks and closes, without state and
  without a caller. A second listener on a socket path unlinks the first's; the
  comment in `listen` leaves that to the supervisor, which is not in this
  repository.
* Identity, `Transport.Send` and `Policy.Get` pass one request to a constant, a
  locked list or one locked read; platform, config and log set-up read the
  operating system.

## 6. Plan

Done, in this order: `JobScheduler`, `HostLink`, `ModuleContract`,
`ModuleRuntime`, their proofs, `Handshake`, `Launch`, `PolicyWatch` with proofs;
then `HostStream`, `EventContract`, `EventBus`, `Uplink`, `LogStream`,
`PushWatchdog`, `HostUplink`, `HostStore` with its proofs; the refinements of
`ModuleContract` and `EventContract`, and the safety of `Launch` and `EventBus` as
theorems; the safety of `HostUplink`, and the refinements of `LogContract` and
`PolicyContract`. To come, most important first:

1. A contract of a launch, as the caller of `StubCore.Launch` sees it, and the
   refinement by `Launch`; most of its safety theorems would be consequences.
2. `HostStore` as the state of a client and a host, should a store with failures
   or several modules appear in the repository.
