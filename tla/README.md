# OpenCtrl in TLA+

OpenCtrl is a control plane for *nowhere* processes: one Go program (`internal/master`)
that keeps a map of instances, runs each of them as a child process, reads its
telemetry and its output, serves a REST API and an event stream, and keeps its state in
a file. This directory holds specifications of it, the TLC models that check them, and
the theorems that TLAPS proves about them. All paths below are relative to the
repository; `instance.go` and the like are in `internal/master/`.

    tlc -config SupervisorRace.cfg MCSupervisor       (every run: see "Runs")
    tlapm SupervisorProofs.tla                        (every module of proofs: see "Proofs")

## 1. The system

| Component | Keeps | Operations | Module |
|---|---|---|---|
| Instance supervisor: `instance.go`, `periodic.go`, parts of `rest.go`, `state.go`, `master.go` | per instance: `Status`, `URL`, `Restart`, `cmd`, `deleted`, `runtimeFailure`, the locks `lifecycleMu` and `mu`; per child: context, `stopped`, `exited` | start, stop, restart, PATCH, PUT, DELETE, monitor, hourly recovery, load, shutdown | `Supervisor`, abstract: `InstanceLifecycle` |
| Event stream: `event.go` | `m.subscribers`; per subscriber the latest state per instance, a log queue, `wake`, `done` | publish, connect, initial events, deliver, close, broadcast of the shutdown | `EventHub` |
| State file: `state.go`, parts of `master.go`, `rest.go`, `periodic.go` | `m.instances`, the state file and its backup, `stateMu` | save, hourly backup, load, creation of the internal instance | `StateStore` |
| Telemetry client: `runtime.go`, `telemetry.go`, parts of `instance.go`, `rest.go` | per instance totals, `Base` and `Reset` offsets, live connections, `telemetryIdentity` | find an endpoint, connect, hello, snapshot, disconnect, reset | `Telemetry` |
| Process log: `output.go` | the bytes of the message begun | `Write`, `emit`, `flush` | `ProcessLog` |
| REST API and end of the program: `rest.go`, `master.go`, `types.go`, end of `handleSSE` | `m.alias`, ten TCP-ping slots, the open connections and streams | requests, POST /info, TCP ping, streams; signal, broadcast, closing, deadlines; routing, authentication, validation, JSON | `ApiServer`; the effects of the handlers on instances and files in `Supervisor`, `StateStore`, `Telemetry`; the rest not |
| TLS: `tls.go` | the certificate in use and the time of its last load | reload, once an hour at most | `CertReload`, composed in `ApiServer` |
| Telemetry transport: `unixipc.go`, `linux.go`, `winpipe.go`, `unix.go` | nothing | registry files, sockets, pipes, the identity of processes | in `Telemetry`, for Linux and what depends on processes |
| System information: `sysinfo.go` | nothing | reads `/proc` | no: keeps no state |
| Command line: `cmd/` | nothing | parses a URL, runs the master | no: no state |

**How they interact.** A REST handler changes an instance under its locks, asks for a
save in a goroutine of its own, and publishes an event. There are exceptions: POST /info
publishes no event, a PUT leaves the event to its start and asks for its save after it, and
neither a start nor telemetry asks for a save. A start spawns a monitor, which
waits for the child, and a telemetry goroutine. The monitor, the hourly task, the
loader and the shutdown compete with the handlers for the same locks. Two logs per
child (stdout, stderr) publish their lines under `inst.mu`. Saves take `stateMu` and
then, one record at a time, `inst.mu`. The shutdown closes `periodicDone`, stops the
children in parallel, saves, tells the subscribers to go, and shuts the server down.

**What is hard.** `lifecycleMu` is held for up to eight seconds while a stop waits for
its child *without* `inst.mu`, and the monitor takes only `inst.mu`; a killed child may
outlive the stop and meet its successor; the hourly task acts on what it saw earlier; a
start may be waiting for a lock when the shutdown begins; saves and events are made
from snapshots taken earlier; a wake-up is a non-blocking send to a channel of one
slot; children exit while the state is being loaded; telemetry is read outside the
lock, then applied; PIDs are used again and registry files outlive their processes; the
two files of a certificate are renewed one after the other while handshakes load them;
a stream may open while the streams are being told to end. `PROJECT.json` lists these
hazards, each at its line.

**What makes each part correct.** Supervisor: at most one child per instance, no child
out of control, none left by a shutdown, nothing run against the user's will, no
resurrection of what was deleted, no leaked context, and every operation ends. Event
stream: nothing lost or reordered that was promised, no sleeping on pending events, an
client that knows all that was announced. State file: it catches up with what a save was
asked for, never goes back, survives a crash at any point. Telemetry: exact totals over restarts and resets, no figures of
a child that is gone, none of a process of somebody else. Process log: no byte lost, no
character cut, the same messages however the stream is cut into writes. TLS: one attempt to load per hour, and a renewed
certificate in use after it. API: every request answered, every ping slot given back,
every stream told of the end, and the end itself.

## 2. The modules

All modules follow the same conventions. A critical section is one action, named for
what the code does there. Locks that are kept over several critical sections are
variables. An operator commented *Mutant* is a wrong version of the operator after it,
as a plausible slip in the code would make it; no action uses it, and for each property
there is one that makes TLC report that property. Variables that only record the past
for a property are marked *history*.

### Supervisor (core)

An element of `Instances` is an ID with its record, never reused; an element of `Procs`
is one `exec.Cmd` with its context and its two channels, all made by one start. A
critical section of `inst.mu` is an action; `lifecycleMu` is the variable `lock`.
Threads are request goroutines (`Workers`), the loader (`Main`), the hourly task
(`Periodic`), and one per instance for the shutdown's stops. `pc`, `op`, `on`, `child`,
`arg` say where each of them is.

| Actions | Code |
|---|---|
| `Create`, `Patch`, `Request`, `BeginStart` ... `BeginDelete`, `Reject` | the handlers and the goroutines they spawn, up to and including the checks under `lifecycleMu` |
| `StopNothing`, `StopDead`, `StopSignal`, `Exited`, `GraceTimeout`, `KillTimeout`, `StopFinish` | `stopInstanceLocked`: early return, instance without child, SIGTERM, the two selects, the final reset |
| `Replace`, `Remove` | PUT and DELETE after their stop |
| `StartRefused`, `StartUnsupported`, `StartFails`, `StartLaunch` | `startInstanceLocked` and its ways out |
| `ChildExit`; `MonitorRecord`, `MonitorSuperseded`, `MonitorClose` | the child; `monitorInstance` after `Wait` returns |
| `PeriodicTick`, `PeriodicScan`, `PeriodicRecover`, `PeriodicExit` | the two loops of the hourly task |
| `LoadInstance`, `Serve`; `ShutdownBegin`, `ShutdownVisit`, `ShutdownDrained` | `loadState`, `Run`; `shutdown` until `wg.Wait` returns |

Timeouts are untimed choices: either case of a select may be taken, which includes the
race of a timer with a late exit. A child that has been sent SIGKILL is `dying` and may
exit before or after the three seconds are over, so a stop may go on without it. A
launch may fail at any time. A child may exit well or badly at any time. Left out: the
validation and the wording of requests, IDs and aliases, and the figures (see
`Telemetry`). The deadline of thirteen seconds that `Run` gives the shutdown covers a
stop (eight seconds) and the end of the API (five), so it is not modelled.

`InstanceLifecycle` is what the API promises, without locks, channels or goroutines: a
child appears only when its instance is stopped and has none, it is reported as running
until after it is gone, a handle is never used twice, and nothing is launched once the
shutdown has begun. `ImplementsLifecycle` says that `Supervisor` implements it: the
refinement mapping shows a child until it dies or is sent SIGKILL.

### EventHub

A state of an instance is a version number. A publisher first changes its instance
(inside `inst.mu`), then `Stamp`s or `Snapshot`s an event and sends it to the registered
subscribers one by one (`StartRange`, `Send`, `Sent`: a `sync.Map.Range`, which need
not see what is registered meanwhile). A log line holds `inst.mu` throughout, so `mu`
is explicit. `Enqueue` is `subscriber.enqueue`: a closed subscriber takes nothing, a
full queue closes it, a state replaces the pending one of the same key, and the wake
slot is filled if it is free. A handler registers, writes initial events
(`WriteInitial`), then waits and drains (`Listen`, `Wake`, `DeliverLog`,
`DeliverState`, `Drained`) earliest first. Both uses of `shutdownSSEConnections` are
`BroadcastShutdown` and `ShutdownOne`. `view` and `heard` are what a client knows that
applies events as the docs tell it to. The clock may stand still between two events
(`Clock`), as a coarse one does; events of the same time are delivered in any order,
as by the code, which ranges over a map to find the earliest.

Not every change is announced. `Change` is a start, a stop, the monitor, telemetry or a
PATCH. `ChangeSilently` is POST /info, which sets the alias of the internal instance
(rest.go:371-377) and sends nothing, and a PUT, which sets the URL (rest.go:296-304) and
leaves the event to a start that returns without one when the shutdown has begun
(instance.go:76-81). The history variable `told` is the state of each instance at its
last announced change.

### StateStore

A record is a version number that every change raises; `Gone` marks a deleted one. A
save takes `stateMu` (`LockState`), copies records one by one (`CopyRecord`, each under
its `inst.mu`), and replaces the file at once (`ReplaceFile`: a temporary file and a
rename; an empty map removes the file) or fails and leaves the old one (`SaveFails`).
The backup is written the same way, and the program never reads it. `Boot` decodes the
file as a whole; a file that cannot be decoded (`Junk`) is treated as if it were empty,
as the code does. The loader puts records into the map one by one; from then on the
monitors of children it started may ask for saves (`ChildSave`).

| Actions | Code |
|---|---|
| `CreateRecord`, `DeleteRecord`, `ChangeRecord` | POST /instances, DELETE; PATCH and POST /info: the save follows the change at once |
| `ChangeUnsaved` | persisted fields change and no save is asked for: `applyTelemetrySnapshot`, `clearActiveTelemetry`, the status set by `startInstanceLocked` |
| `ChangeUnsaved`, later `ChildSave` | `monitorInstance`, `stopInstanceLocked`, PUT (a whole start in between): `inst.mu` is released before the save is asked for |
| `BackUp` | the hourly task |
| `Boot`, `LoadRecord`, `MakeKey`, `Serve` | `loadState` and the beginning of `Run` |
| `Terminate`, `ShutdownSave`, `End`, `Vanish` | a signal, the shutdown's save and its end; the end of the process |

That `loadState` puts the status of a record back before it stores it is not counted as
a change of the record. `owed` is the map when a save of this process was last asked for, and
`late` says that something has changed since the shutdown asked for its own. `Vanish` ends the
process at any moment, with the saves under way. The writing of the temporary file is
part of `ReplaceFile`: one that is left over is removed at the next start.

### Telemetry

One instance, its children, and for each child a goroutine that looks for an endpoint,
connects, reads, checks and applies. One byte counter stands for the four, one number
of connections for the two. The lifecycle is reduced to its effects on the figures:
`Start` rebases the counters, the stop has the three critical sections it has in the
code, and `ResetCounters` is the PATCH.

Processes and their endpoints are external (`System`). Beside the children there are
processes of somebody else (`Others`). `Launch` gives a process a free PID, `Exit` frees
it: for a child this is `cmd.Wait`, which comes before the critical section in which its
monitor records the exit (`ExitRecorded`). A process may `Register` several endpoints;
the registry file of one stays when its process is gone, as after a kill. `Transfer`
counts, and counts do not decrease, so that the branch of `applyCounter` for a value
below its offset matters only for a counter that has saturated.

| Actions, operators | Code |
|---|---|
| `Discovered`, `Genuine` | `discoverTelemetry`: the files with the child's PID, whose process was started when the file says (`validateTelemetryProcess`) |
| `Expected` | `runTelemetry`: the endpoint of before, if there was one |
| `Reachable`, `Connect` | `connectTelemetry`, `dialTelemetry`: a listening socket whose peer has the PID of the file |
| `Hello` | `applyTelemetryHello` |
| `Receive`, `ReadFails`, `Check`, `Apply` | `consumeTelemetry`: a frame is read, found current and valid, and applied in a later critical section |
| `Disconnect`, `Quit` | the end of a connection with `clearActiveTelemetry`, and of the goroutine |

A frame or a hello that does not validate is a `ReadFails` or no `Connect`, and retries
are not timed. When several endpoints are found, the code tries them in order of their
names; the model takes any.

### ProcessLog

`Write` brings bytes, `Round` is one round of its loop with the `emit` in it, `Flush` the
call after the child's exit; the mutex is held from the `Write` until its bytes are taken.
A byte is one of its five kinds: newline, a character of one byte, first byte of a
character of two or three, continuation. The reference is a stream taken byte by byte
(`Accept`, `After`), to which it must not matter how the kernel cuts it into writes. A line of exactly one fragment's length is sent when it is full, and its
newline, when it comes, is an empty message: the code does so too. What happens to a
message after `emit` is `EventHub`'s `Log`; the check there that the child is still the
current one is not modelled.

### CertReload

A certificate is the version of the pair of files it was loaded from. Whoever renews
them replaces one and then the other (`RotateCrt`, `RotateKey`), and a pair of different
versions does not load. `Hello`, `CheckAge` (under the read lock), `LockAndCheck` (the
age again, under the lock), `LoadCrt`, `LoadKey`, `Take` are the steps of
`GetCertificate`; the lock is the variable `mu` only while files are read, every other
critical section being one action. The clock ticks between actions, and not during a
load, which is short against an hour.

### ApiServer

Extends `CertReload` with what is done on a connection and with the end of the program.
A connection is accepted, shakes hands, and then has requests one after the other, of
which `Answer` stands for those that change nothing here.

| Actions | Code |
|---|---|
| `SetAlias`, `RecordAlias` | POST /info: `m.alias` under `m.mu`, then the internal instance under its `mu` |
| `Ping`, `TakeSlot`, `PingTimeout`, `Dialled` | `handleTCPPing` and its semaphore of ten |
| `OpenStream`, `EndStream` | registration in `handleSSE`; its return |
| `Accept`, `Greet`, `CloseIdle`, `Reply` | net/http: accepts, shakes hands, keeps or closes connections |
| `Terminate`, `ChildrenStopped`, `Saved` | a signal; `shutdown` until `shutdownSSEConnections` |
| `Tell` | one step of its `Range`, which may or may not come to a stream opened meanwhile |
| `CloseServer`, `Finish`, `Deadline` | `server.Shutdown` closes the listener and waits for connections; five seconds for it, thirteen for all |

The children and the disk may take for ever, as may clients; only the deadlines bound
them. `Deadline` may come at any time after the signal.

## 3. Runs

| Run | Shows | Bounds |
|---|---|---|
| `supervisor_race` | all safety of supervision, the refinement | 1 instance, 2 children, 2 requests at a time, 2 URLs |
| `supervisor_liveness` | operations end, exits are noticed, failures recovered, shutdowns drain | 1 instance, 1 child, 1 request, a supported and an unsupported URL |
| `supervisor_stopped` | *violated*: "stopped" does not mean "no child" | as above |
| `event_hub_race` | no lost wake-up, complete logs, shutdown last | 2 publishers, 1 subscriber, queues of 2, 2 versions, 3 lines |
| `event_hub_serial` | a client that knows all that was announced, pending events handled, closed streams end | 1 publisher, 1 subscriber, queues of 1, 2 versions, 2 lines |
| `event_hub_latest` | *violated*: an older snapshot replaces a newer one | 2 publishers, 3 versions |
| `state_store_race` | file and map under concurrent saves, failures, crashes | 1 instance and the internal one, 3 versions, 2 goroutines and `Main`, 1 crash, 1 failure |
| `state_store_survive` | *violated*: a record is lost by a crash after an exit during the load | 2 instances |
| `telemetry_race` | exact counters, no stale figures, no foreign ones | 2 children, 1 process of somebody else, 2 PIDs, 2 endpoints of 2 bytes, counters up to 3 |
| `process_log_stream` | no byte lost, cuts that do not show, sound pieces: on all streams, cut into writes in every way | up to 7 bytes, fragments of 4 |
| `api_server` | reload of the certificate, ping slots, streams, the end of the program | 2 connections, 1 slot, an interval of 1 in a time of 2, 2 versions |
| `api_server_alias` | *violated*: one alias is served, another one saved | 2 connections, 2 aliases |

**Why the bounds are enough.** Instances share nothing but the shutdown, the hourly
loop and `stateMu`; hence one instance for races. That the shutdown visits several
is covered for any number of them by the theorem `ShutdownComplete`. Two children
are what a late exit needs to meet a successor. Two requests, the hourly task, the
monitors and the shutdown's stop are five contenders for one lock, of which a third
request would repeat one. Queue limits of one and two are reached after two and three
events. Two publishers are enough to swap two events of one instance; three lines fill a
queue of two and close its subscriber while both publish. Three versions of a record are
one that is on disk, one that a save was asked for, and one that nobody asked for.
Counters
of at most three saturate within one child's life and over two. Two PIDs for three
processes make one of them be used again, by a second child or by the stranger, while
the first child's goroutine still looks for it. Seven bytes are a whole fragment, the
start of the next, and a character across the boundary. Two handshakes find the
certificate old at the same time; an interval of one in a time of two has an attempt
that fails between the two files and one that succeeds after it. One ping slot is full
with one ping while the other waits; two connections are a stream that is told and one
that is opened meanwhile, or a stream and a request.

Two runs have a view. That of `event_hub_race` (`OrderView`) replaces times, which the
model only compares, by their ranks, and leaves out the versions in events and clients, and
`told`: no guard reads them, nor does a property of that run. That of `telemetry_race` drops only values that no
guard and no property of the run reads any more: of endpoints that nobody can connect
to, and of children that are not current, which never become so again.

`CHECK_DEADLOCK FALSE` is said where the program may come to rest: no client connected
and nothing to publish, the process ended, the stream over. `Supervisor` has the action
`AtRest` for its end, and is checked for deadlock.

### What the properties say

*Supervisor.* `AtMostOneChild`, `ChildUnderControl` (a live child belongs to a stored
instance that shows it as running and holds its handle), `StopperOwnsChild` (a stop
that waits without `inst.mu` is undisturbed), `ShutdownLeavesNoChild`, `HaltRespected`
(what a user stopped stays down), `NoLeakedContext`, `StatusMatchesHandle`,
`NoResurrection`, `ImplementsLifecycle`; liveness: `OperationsFinish`, `ExitNoticed`,
`FailureRecovered`, `ShutdownDrains`.

*EventHub.* `NoLostWakeup`, `LogsComplete` (a connected client's queue continues where
its last line ended and has every line since, but for one still on its way to it), `ShutdownIsLast` (nothing
queued for a client is later than its shutdown event; what is as late may come after it
and be lost),
`ClientUpToDate` (in a quiet state a connected client knows which instances there are, and
of each a state no older than its last announced change, what happened between its
registration and its initial events included; of a silent change it need not know);
liveness: `PendingHandled`, `ClosedEnds`. `ClientUpToDate` needs one publisher at a time: with two, the finding below
breaks it.

*StateStore.* `FileCatchesUp` (when no save is left and the last one succeeded, the file
has, of every record, what the map had when a save was last asked for, or newer; it need
not have what has changed since without asking), `FileNeverGoesBack`, `CleanEndIsSaved`
(a shutdown waits only for its own save, which is enough, also for changes that asked for
none), `LoadIsComplete` (nothing the file had is
missing after a start, and the API key is not made anew).

*Telemetry.* `CounterExact`, `ActiveIsLive` (connections are shown only while somebody
reports them), `OwnEndpointOnly` (the goroutine of a child that exists talks to an
endpoint of that child). `CounterExact` makes two exceptions. The reset of a counter
that has saturated takes its offset from the saturated value, so that what was beyond
it is counted again. And between `cmd.Wait` and the monitor's critical section the
goroutine of a child that is gone may take the endpoint of the next process that was
given its PID for the child's; `OwnEndpointOnly` is therefore about children that exist.

*ProcessLog.* `NothingLost`, `CutsDoNotShow`, `PiecesSound` (messages of bounded length,
no character cut).

*CertReload, ApiServer.* `ReloadsApart` (an attempt to load is an interval after the
last one, whatever became of it), `RotationServed` (a pair that has been in place for an
interval when a handshake begins is the one it gets), `SlotsAccounted`,
`NobodyForgotten` (when the server begins to close, only streams opened after the
broadcast began can hold it up); liveness: `RequestsAnswered`, `ProgramEnds`.

### Fairness

Safety needs none. For liveness: every goroutine that can take a step takes it (weak
fairness of `Proceed`, `Monitor`, `Load`, `Periodically`, `Shutdown`, `Publish`,
`Handle`), as Go's preemptive scheduler provides; a mutex is not withheld for ever from a
goroutine that waits for it (strong fairness of `Acquire`: `sync.Mutex` hands over to
the longest waiter after a millisecond); a child that was sent SIGKILL dies, by the
kernel's promise; timers and the ticker fire. Nothing makes a child exit by itself or
obey SIGTERM, and nothing makes a user or a client act. In `ApiServer` the handlers run
(weak fairness of `Serve`; a dial has its timeout) and the shutdown's deadline passes
(weak fairness of `Deadline`); nothing makes a client leave, a child end, the disk
answer, or the server find all connections closed. A handshake that waits for the
lock of the certificate needs no strong fairness there, since loads are an interval
apart and the time of the run is bounded, nor does a ping that waits, which has a
timeout.

### Findings

1. `supervisor_stopped`. docs/master.md:452 says of the status `stopped`: "No child
   process is active." A stop goes on three seconds after SIGKILL without the child's
   exit (instance.go:279-294). A start may then run a second process beside the old one
   (which is dying; `AtMostOneChild` speaks of children that have not been killed).
2. `event_hub_latest`. docs/master.md:708 promises "the latest state per instance", but
   snapshots are taken and published in separate steps: of two concurrent operations
   the older one can come last, an update after a delete included, and stays in the
   subscriber's map.
3. `state_store_survive`. While the state is loaded, a child that exits at once makes
   its monitor save the part of the map that is there. If the process ends before
   another save, the other instances are lost. README.md:16 promises "Local durable state
   with backup".
4. `api_server_alias`. handleInfo sets `m.alias` and the alias of the internal instance
   in two critical sections (rest.go:366-379). Two concurrent POST /info may leave one
   alias served until the next start and the other one saved. docs/master.md:343 says
   that the alias "is persisted through the internal API-key instance".

Two more things were met while modelling, as plain facts that need no run:

* POST /info changes the alias of the internal instance, which `initial` events carry, and
  sends no event (rest.go:371-377). docs/master.md:704 says that `update` is "Sent when
  lifecycle state, metadata, counters, or API-key state changes." A client that stays
  connected goes on with the old alias; `ClientUpToDate` excepts such changes.
* Byte totals and the status of a start are not saved when they change (runtime.go:162-173,
  instance.go:159-164) but with the next save that something else asks for, or at a clean
  end. A crash loses them back to the last save; `FileCatchesUp` allows for it.
  docs/master.md:911 says "OpenCtrl retains byte totals across restarts", without saying
  whose; of a child's restarts it is true.

## 4. Proofs

Every safety property that a passing run checks is also a theorem, for every value of
the constants: the bounds of the runs (versions, lines, bytes, time, crashes) are
constants too. One module per component holds its proofs.

| Module | Theorem | Establishes |
|---|---|---|
| `SupervisorProofs` | `AlwaysSafe`, `AlwaysInvariant` | `SafeInv`, and `IInv` (with `HaltInv` and `NoLeakedContext`), are invariant |
| | `TypeCorrect`, `ChildrenControlled`, `ChildrenUnique`, `StopUndisturbed`, `StatusTrue`, `ShutdownComplete` | `TypeOK`, `ChildUnderControl`, `AtMostOneChild`, `StopperOwnsChild`, `StatusMatchesHandle`, `ShutdownLeavesNoChild` |
| | `DeletedForGood`, `StoppedByUserStaysDown`, `ContextsReleased` | `NoResurrection`, `HaltRespected`, `NoLeakedContext` |
| | `Refinement` | `ImplementsLifecycle` |
| `EventHubProofs` | `AlwaysHub`, `TypeCorrect` | `HubInv`, `TypeOK` |
| | `NoSleepOnPending`, `NoLineMissed`, `ShutdownWrittenLast` | `NoLostWakeup`, `LogsComplete`, `ShutdownIsLast`, whoever publishes |
| | `SerialClients`, `SerialLatest` | `ClientUpToDate` and `LatestStateKept`, with one publisher |
| `StateStoreProofs` | `AlwaysStore`, `TypeCorrect` | `StoreInv`, `TypeOK` |
| | `LastSaveHasAll`, `FileOnlyAdvances`, `CleanEndHasAll`, `LoadHasAll` | `FileCatchesUp`, `FileNeverGoesBack`, `CleanEndIsSaved`, `LoadIsComplete` |
| `TelemetryProofs` | `AlwaysTelemetry`, `TypeCorrect` | `TelemetryInv`, `TypeOK` |
| | `NoByteTwiceNoneMissed`, `NoStaleConnections`, `NobodyElsesEndpoint` | `CounterExact`, `ActiveIsLive`, `OwnEndpointOnly` |
| `ProcessLogProofs` | `AlwaysLog` | `LogInv` |
| | `EveryByteSaid`, `CutsNeverShow`, `PiecesAlwaysSound` | `NothingLost`, `CutsDoNotShow`, `PiecesSound` |
| `ApiServerProofs` | `AlwaysServer`, `TypeCorrect` | `ServerInv`, `TypeOK` |
| | `LoadedOncePerInterval`, `RotationAlwaysServed` | `ReloadsApart`, `RotationServed`, of `CertReload` |
| | `SlotsNeverLost`, `EveryStreamTold` | `SlotsAccounted`, `NobodyForgotten` |

**Assumptions.** They are declared in the modules that they are about, and TLC evaluates
them in every run of those modules. Names are distinct: `None` is no value of anything
(`NoneAssumption`, `NoConnAssumption`, `NameAssumption`, `SaverAssumption`), nor is one
goroutine another (`ThreadAssumption`) or a child somebody else's process
(`ProcessAssumption`); the supported URLs are URLs (`UrlAssumption`). Numbers are numbers,
and limits and the interval of reloads are not zero (`LimitAssumption`,
`SlotsAssumption`, `IntervalAssumption`, `VersionAssumption`, `BoundAssumption`). Two say
something of the code's figures: an endpoint counts no further than the width of a
counter (`WidthAssumption`: both are 64 bits), and a fragment has room for more than
three bytes (`SizeAssumption`: it has 16384; a fragment as short as a character would
not have to end where one does). Nothing is assumed to be finite.

`SerialClients` and `SerialLatest` have the hypothesis `OnePublisher`. It is needed:
`event_hub_latest` refutes `LatestStateKept` with two publishers, and with it falls
what the client knows. The two say that there is no other way: initial events that race
with the stream, states that replace one another, changes that are not announced and
queues that overflow do no harm to what was announced.

**Supervisor.** None of the properties is inductive by itself. `SafeInv` adds why they
hold: `LockInv` (`lifecycleMu` belongs to exactly the thread that acts), `ThreadInv`
(where a thread can be with which operation; the status is *stopped* from the end of
the stop to the replacement or removal), `LifeInv` (nothing happens to an instance
before it is stored or after it is removed; the loader and the loops look only at
known ones), `ProcInv` (a handle is that of a child launched for the instance),
`StopInv` (a stop has closed `stopped` of the child it waits for, which is what keeps
the monitor away, and resets only what is dead or killed), and `ShutdownInv`:
during a shutdown whatever runs is yet to be visited or being stopped, since
`periodicDone` was closed before the first visit and no start gets past it.
`ChildUnderControl` implies `AtMostOneChild`, and `ShutdownInv` with it
`ShutdownLeavesNoChild`. `HaltInv` adds that whoever is about to start an instance was
asked to, and that what a halted instance has left to lose is about to be taken by a
stop that holds its lock. There is one lemma per group of actions, with one step per
action. The refinement has a lemma per kind of step, on top of `SafeInv`, which gives
that the child shown is the one that the concrete step is about.

**EventHub.** `HubInv`: what a publisher has in hand and for whom (`TurnInv`), that
`inst.mu` is held from a line's number to its last subscriber (`MuInv`, which makes
`LogsComplete` inductive), that no event is later than the clock (`TimeInv`) and none
still under way later than a shutdown event that is queued (`EndInv`, for
`ShutdownIsLast`), and that a handler which is not draining has its wake slot filled if
anything is pending (`WakeInv`). `LogsComplete` speaks of the set of line numbers in a
queue, and lemmas say what `Append` and `Tail` do to it. `SerialInv` follows one piece of
news: a state of an instance no older than the last announced one is on its way to a
subscriber, or waits in its map, or will be an initial event, or is known to the client
(`Knows`), and no event is ahead of its instance (`NewsInv`). A silent change only raises
the version that the others are compared with.

**StateStore.** `StoreInv`: who holds `stateMu` (`LockInv`); versions on disk are not newer
than those in the map (`OrderInv`), and a copy lies between the two (`CopyInv`), hence
`FileNeverGoesBack`; of a request (`owed`) that a save under way has missed another save
is waiting, though not of a change that nobody asked to save (`CatchUpInv`); from the shutdown's save on nothing old is written (`CleanInv`); what is
still to be loaded is as it was read (`LoadInv`).

**Telemetry.** `MeterInv` relates `base`, `reset` and what was last applied (`seen`) to the
bytes due; `IdentityInv` says that there is one endpoint that is counted from, and that
no frame read for the current child is behind what has been applied; `LinkInv` that a
connection ends at a process, `ChildInv` that handle, exit and cancellation agree. An
endpoint taken after the child's exit is excluded from `CounterExact`, as it is in the
run.

**ProcessLog.** `LogInv`: pending bytes are the beginning of a line (`StreamInv`), and what
has been sent of UTF-8 ends with a character (`CutInv`). The reference and the
concatenation of messages are recursive over the stream. What is needed of them is not
shown by induction on the stream but by looking at the least place where it would fail
(`LeastOf`, from the well-foundedness of the numbers), and unfolded one step at a time
(`AfterAppend`, `FlattenAppend`). A round of the loop takes what the reference takes byte
by byte (`RoundAfter`), since no byte before the last one is a newline or fills the
fragment.

**ApiServer.** `ServerInv` is `TlsInv` with what a connection is doing (`StageInv`), which
streams have been told (`StreamInv`) and the tokens counted (`DialInv`). `TlsInv`: who reads
files holds the lock (`LoaderInv`), what was loaded after the last renewal is what the
files hold (`LoadedInv`), and whoever takes the certificate began less than an interval
after the last attempt (`YoungInv`, for `RotationServed`).

**Only model-checked.** Liveness: `OperationsFinish`, `ExitNoticed`, `FailureRecovered`,
`ShutdownDrains`, `PendingHandled`, `ClosedEnds`, `RequestsAnswered`, `ProgramEnds`. They
rest on fairness, and so on ENABLED, which the prover does not handle. The properties of
the four runs that expect a violation are false of the code, and so nothing is proved of
them, but for `LatestStateKept` with one publisher.

## 5. Not modelled

* Routing, authentication, JSON, validation, system information (but see the hazard of its
  subtraction in `PROJECT.json`), command line: no state
  that another step depends on, or pure input and output.
* Of the telemetry transport: owners and modes of files and directories, named pipes of
  Windows, and the process checks of systems other than Linux. They are platform calls
  that answer "may I trust this?" at one moment and keep nothing; the part whose answer
  changes with the exit of processes is in `Telemetry`.
* The TLS modes and the self-signed certificate: made once, before the server starts.
* Time, but for the hour of `CertReload`. Timeouts are choices, the backoff of telemetry
  retries is not measured.
* The contents of records, messages and frames beyond what the properties tell apart.
* A deadlock with `stateMu` or the lock of a subscriber in it. `OperationsFinish` is about
  `lifecycleMu` and `inst.mu`; `Supervisor` saves and publishes nothing, and `StateStore` and
  `EventHub` do not hold the other locks, so that two orders of taking them would show
  nowhere.
* In `ApiServer`, the broadcast that follows a new API key (rest.go:134). It is in `EventHub`
  (`BroadcastShutdown`), but not concurrent with the end of the server, where it can leave a
  stream unregistered, for a moment, before its event is queued.
* A stored `Type` that differs from the scheme of the stored URL: `LoadInstance` takes the
  two as one, as they are in every file that the program has written.
* HTTP beyond a connection with one request after another: no pipelining, no HTTP/2
  (which the server may speak under TLS; several requests on one connection then differ
  from several connections only in what a closed one takes with it).

## 6. Plan

The order follows what matters most to a user: first supervision, then what the outside
sees of it, then what survives.

Done: `Supervisor` with `InstanceLifecycle`, `EventHub`, `StateStore`, `Telemetry` with
processes and PIDs, `ProcessLog`, `CertReload`, `ApiServer`, their runs, and the proofs of
their safety.

Left, in this order:

1. Abstract specifications: `StateStore` as a register that is written atomically at
   some point between a request for a save and its end; `EventHub` as a log and a map
   per client; and the proofs that they are implemented.
2. The end of every telemetry goroutine as a liveness property.
