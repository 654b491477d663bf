# A TLA+ verification of runed

runed is a local embedding daemon. It keeps one `llama-server` child process
alive behind a gRPC service on a unix socket, suspends the child when nobody
asks for embeddings, restarts it when it hangs, and routes vectors to the
nearest centroid of a pushed index. This directory holds TLA+ models of the
parts of that program in which order matters, the TLC runs that check them on
small instances, and the proofs, checked by TLAPS, that lift the most important
results to instances of any size.

Paths below are relative to the repository (`src/`).

## The system

| Component | State it keeps | Operations | Interacts with |
|---|---|---|---|
| `internal/backend` (`LlamaBackend`) | `cmd`, `port`, `state`, `lastAlive`; `mu`, `lifecycleMu`, `restartMu`, `inflightMu` | `Start`, `EnsureStarted`, `restartIfDead`, `Stop`, `Serving`, `Embed`, `EmbedBatch`, `watchChild` | the child over HTTP and signals; called by the server's handlers, the idle ticker and `run` |
| `internal/server` | backend pointer, centroid pointer, boot status, counters, `shutdownCh` | `Embed`, `EmbedBatch`, `Health`, `Info`, `Shutdown`, `SetCentroids`, `SetBackend` | the backend; the cache directory |
| `internal/route` | a centroid set, its cache file | `Validate`, `VerifyVersion`, `Assign`, `Persist`, `Load` | the server |
| `cmd/runed` | daemon context, eviction flag, signal channel | boot, idle ticker, socket watchdog, drain and shutdown | everything |
| `internal/ipc` | the bound socket and its inode | `Listen`, `StillOwned`, `Close` | other daemons on the same path |
| `internal/spawn` | `spawn.lock` | `EnsureDaemon` | other clients, the daemon it launches |
| `client` | the shared gRPC connection, `mu` | `Connect`, `Embed`, `EmbedBatch`, respawn and reconnect | `internal/spawn`, the daemon |
| `internal/bootstrap` | install lock, artifacts, marker, audit file | `EnsureAll`, `EnsureLlamaServer`, `EnsureModel`, downloads | the file system, other daemons |

What is hard in it, and what has to be true:

* **Backend.** Any number of handlers, one ticker, one main goroutine and one
  watcher per child meet on four locks; the drain of a read-write lock is used
  to tell a busy child from a dead one. There must never be two children; no
  embed may be cut by a deliberate stop; a busy child must not be condemned and
  a hung one must be replaced; everybody must get an answer; Health must not
  call a crash a suspension; nothing may survive the daemon.
* **Centroids.** Several streams may push at once; memory and cache must not
  part; a routed answer must be computed on the set whose version it carries;
  a damaged set must never be served.
* **Sockets and spawning.** Several clients and daemons race for one path with
  non-atomic test-and-remove steps; exactly one daemon should end up serving,
  and the others should notice.
* **Client.** Callers share a connection that one of them replaces.
* **Daemon.** Boot, eviction, signals and shutdown may each interrupt another.
* **Installer.** A crash may fall between any two file operations, and markers
  must not promise what is not there.

`PROJECT.json` lists the hazards one by one, each at its line.

## Modules

| Module | What it is |
|---|---|
| `LlamaBackend` | the backend and its callers: 54 actions, invariants, action and liveness properties |
| `EmbeddingService` | what `LlamaBackend` implements: requests, children and health, without locks, probes and retries |
| `MCLlamaBackend` | the TLC instance (symmetry), used by seven configurations |
| `Centroids` | the pushed centroid set: streams, lock, cache file, boot, routed requests |
| `RoutingIndex` | what `Centroids` implements: one current set, one saved copy |
| `MCCentroids` | the TLC instances, used by two configurations |
| `CentroidsProofs` | the inductive invariant of `Centroids`, its safety theorems and the refinement |
| `LlamaBackendTypes` | proof that the type invariant holds |
| `LlamaBackendSafety` | the inductive invariant and the proofs of all safety properties; lock order and bounded work |
| `LlamaBackendService` | the proof that `LlamaBackend` implements `EmbeddingService`, and two corollaries |
| `Endpoint` | what the daemons of one socket path are to their clients: who answers there, and how far each has come |
| `Daemons` | the daemons that meet at one path: `run`, the listener, the watchdog, the exit; implements `Endpoint` |
| `MCDaemons` | the TLC instance |
| `DaemonsProofs` | the inductive invariant of `Daemons`, its safety theorems and the refinement |
| `Clients` | processes that use the client library and `EnsureDaemon`; extends `Endpoint` |
| `MCClients` | the TLC instance |
| `ClientsProofs` | the inductive invariant of `Clients`, its safety theorems and its use of `Endpoint` |
| `Install` | the self-bootstrap of daemons that share `$RUNED_HOME` |
| `MCInstall` | the TLC instance |
| `InstallProofs` | the inductive invariant of `Install` and its safety theorems |

How they compose: `LlamaBackend` implements `EmbeddingService`, and `Centroids`
implements `RoutingIndex`: the two promises a running daemon makes to its
callers. `Daemons` implements `Endpoint`, and `Clients` is written on
top of `Endpoint`, so that what holds of the clients holds beside the daemons of
`Daemons`. `Install` and the start of `llama-server` are one stage of `Daemons`
(`boot`), which may end well or badly or be cut; `LlamaBackend` is what a daemon
does with its child from then on, and `Centroids` what it does with its set.

### LlamaBackend

A process is a goroutine: a handler of `Embed`/`EmbedBatch` (`Rpcs`), a handler
of `Health` (`Monitors`), the idle goroutine (`Tickers`, empty when
`RUNED_IDLE_TIMEOUT=0`) and the main goroutine (`Main`). `pc[p]` is the point it
has reached. One step is one critical section of `b.mu`, one atomic load or
store, one lock operation, or one probe or HTTP exchange; taking a lock is
joined with the one read that follows it, which commutes with everything others
do.

| Code | Variables and actions |
|---|---|
| `lifecycleMu`, `restartMu` | the holder; deferred unlocks happen in `StartReturns`, `StopReturn`, ... |
| `inflightMu` | `writer` (announced or holding), `readers`, `blocked`. `Announce` is the arrival of `Lock`, `Drain` its return, `UnlockInflight` admits all the readers that arrived behind the writer, as `sync.RWMutex` does |
| `cmd`, `port`, `state`, `lastAlive` | `cmd`, `port` (the child that listens there), `state`, `recent` |
| `EnsureStarted` | `EnsureRefused`, `EnsureLock`, `EnsureCmd`, `EnsureProbe`, `EnsureRecent` |
| `restartIfDead` | `RestartLock` ... `RestartWait` |
| `startLocked`, three callers | `StartChild` (`cmd.Start`), `StartPublish` (the section of `mu` after it), `StartFails`, `StartPort`, `StartHealthy`, `StartUnhealthy`, `StartAbort`, `StartAbortNothing`, `StartReap`; `StartReturns` goes back to whoever called |
| `Stop`, `stopLocked` | `StopAnnounce` ... `StopReturn`, `Signal` |
| `watchChild` | `WatchClear` (clears the slot), `WatchDone` (closes `done`) |
| `Embed` retry loop | `Arrive`, `EmbedRLock`, `EmbedCall`, `EmbedRetry`, `EmbedExhausted`, `EmbedSucceeds`, `EmbedFails`, `EmbedNothing` |
| `Serving` under `Health` | `ServingRead`, `ServingProbe`, `ServingRecent` |
| `run`, the ticker, shutdown | `Boot`, `TickerStarts`, `Tick`, `TickProbe`, `ShutdownBegins`, `Drained`, `Exit`, `Evict` |
| the child process | `ChildAnnounces`, `ChildWedges`, `ChildRecovers`, `ChildExits` |

Abstractions. A port number stands for the child that listens on it. `lastAlive`
is one Boolean, "within `aliveGrace`", that `GraceExpires` may clear at any
moment. A quick probe (500 ms) may always miss; a verdict probe (2 s) of a child
that answers is missed only while an embed is outstanding on it, which is the
assumption the code's own drain rests on. `down[r]` (a child went down since
the attempt called `EnsureStarted`), `signalled` (who signalled a child) and
`report` (the last answer of Health) are history variables: no guard reads
`down` or `report`, and `signalled` only makes sure a signal takes effect.
`Stop` with a context that ends and `Stop` that kills after 5 s look the same.
`b.stopping` only chooses a log line and is left out.

`startLocked` forks the child and then, in a section of `mu`, writes `cmd`,
`port` and `state` and starts its watcher. In between (`Publishing`) a
llama-server is alive that no field names, and it may even end; whoever needs
`lifecycleMu` waits, but Health needs only `mu` and reads the old fields.

`EmbeddingService` keeps of all this the stage of the daemon, the requests that
have not returned, the child each of them waits for, the children that are
alive, those that were told to stop after a drain, and the health word. The
refinement mapping (`Service`) reads all of them off the program counters,
`call`, `child`, `signalled` and `state`. What it says of a step: a child is
started only when none is alive and no call is outstanding on it, for the boot
or for a request, and health records it a step later (`unrecorded`); none is
condemned under a call or before it is recorded; a call goes to no condemned
child; a failure does not overwrite a suspension; the daemon halts with no
request and no child.

### Centroids

| Code | Variables and actions |
|---|---|
| `Server.centroids` | `memory` |
| `centroids.gob` | `disk`: a set, `Garbage` (broken framing) or `NoSet`; the temporary file has no name the boot reads, so it is the stage of its stream |
| `SetCentroids`, the receive loop | `OpenStream`, `RecvHeader`, `RecvVector`, `RecvError`, `RecvEnd`; a rejected frame ends the stream (`Return`) |
| `SetCentroids`, the install | `Install` (lock and store), `PersistWrite`, `PersistRename`, `PersistFails`, `Unlock` |
| `Load`, `LoadCentroids` in `run` | `Load`, `Boot`, before the socket is open |
| `Embed`, `EmbedBatch` with `with_route` | `RouteStart` takes the snapshot `held`, `RouteAnswer` uses it after the forward pass, `RouteFails` covers its errors |
| the end of the process, the medium | `Crash`, `Rot` |

Abstractions. A sender may send any sequence of header and batch frames, so a
lost, doubled or reordered frame is a choice of the sender; a batch is its
vectors, one at a time. A vector has one component, which makes an inner product
a product, or a wrong dimension (`Short`); whether the header's dimension is the
daemon's is `sized`. The content hash is the content, that is, SHA-256 has no
collisions. A crash is the end of the process: what the kernel has accepted is
kept. Damage of the file changes its framing or its vectors, once per saved file.
`saved` (the last `Persist` succeeded) and `rotten` (the file was damaged since)
are history variables. Two assignments are left out: the counter of requests,
and the header's `nlist`, which only sizes a buffer.

### Endpoint and Daemons

A daemon is several machines: `pc[d]` is the goroutine that executes `run`,
`lis[d]` the listener, `served` says whether the goroutine of `gs.Serve` has
registered it yet, `watch[d]` is the ownership watchdog, and `waiting` says
whether a handler of `Embed` sits in a start of llama-server.

| Code | Variables and actions |
|---|---|
| the socket path, inode numbers | `path`: an inode, `File` (a file that is no socket) or `None`; `sock[d]` is the inode a listener is bound to. A number is in use while its listener is open and may be given out again after that |
| early probe and `os.Remove` in `run` | `Probe`, `Clean`, `CleanUnlink` |
| `ipc.Listen` | `ListenStat`, `ListenDial`, `ListenRemoveStale`, `ListenBind`, `ListenIdentify`, `ListenUndo`: every system call on the path is a step, every error return is modelled, but for a file that is no socket, which `run` has removed by then |
| `ownedListener` | `ident[d]`, `StillOwned`, `CloseBegins`, `CloseChecks`, `CloseUnlinks` |
| `gs.Serve` in its goroutine (`cmd/runed/main.go:158`) | `Serve`; a listener that is not registered is closed neither by `GracefulStop` nor waited for, but by `Serve` itself, should it still come (`CloseBegins`) |
| boot, `bailBoot`, `SetBackend` | `BootSucceeds`, `BootFails`, `BootCut`, `BadIdleTimeout`; `published`, `ret` |
| the select, the drain, the exit code | `Select`, `Drained` (`stopGRPC` and its copy in `run`), `Exit`; `signalled`, `faulted`, `shutdown`, `code` |
| an `Embed` handler in `startLocked` | `Request`, `Answer`; `waiting` |
| `watchSocketOwnership` | `WatchTick`, `WatchDoubt`, `WatchMark`, `WatchCancel`; `evicted`, `cancelled` |
| others | `Launch`, `Kill` (also a signal before `signal.Notify`), `Signal`, `Shutdown` (the RPC), `ServeFault`, `Wipe` (the home directory is recreated) |

Abstractions. `bind` and `listen` are one step, to be read as the `listen`: a
dial between the two is refused as if there were no file, and whoever acts on it
was past its own probe at the bind (`InWindow`), so that the window is covered.
A dial succeeds if and only if a live listener's inode is at the path, whether
gRPC accepts already or not. `CloseBegins` starts the close at any point of the
drain. The drain ends when every handler has returned: `GracefulStop` waits for
them, and after ten seconds `gs.Stop()` closes the connections, but `run` goes
on waiting for `graceDone`. Handlers whose waits are bounded (`LlamaBackend` has
them) return by themselves and are left out; those that wait for the port line
of a silent child are `waiting`. A process has one life; that another one is
started is another member of `Daemons`. `maker`, `racing` and `thefts` are
history variables, and so is `served` once a daemon is gone: no guard reads
them.

`Endpoint` keeps of all this `front`, who answers at the path, and `life`, which
of off, starting, loading, ready and gone each daemon has reached. The
refinement mapping (`Front`, `Life`) computes both from the state of `Daemons`.
A daemon that lost its path goes on as a member of `life` but not as `front`.

### Clients

| Code | Variables and actions |
|---|---|
| `Connect` | the thread named after its process, in `Procs`; `noSpawn`, `open`, `closed` |
| `Embed`, `EmbedBatch` | the threads in `Calls`; `BeginCall`, `Send`, `Answer`. `Outcome` decides between another attempt (`Retry`) and the return (`Finish`) |
| `Client.mu` and the second and third attempt | `mu`, `TakeMu`, `try` |
| `reconnectLocked` | `Reconnect`: the requests of others on the old connection become `stale`, that is, will be cancelled |
| the gRPC connection | `link`: idle, in backoff, or a daemon; `Redial` |
| `EnsureDaemon`, `probeDaemon`, `acquireLock` | `Probe`, `OpenLock`, `AcquireLock`, `LockTimeout`, `Recheck`; `holder[g]` is who holds the flock of the g-th `spawn.lock`, since recreating the home directory makes a new file while old descriptors keep the old one (`lfd`) |
| `launchDaemon`, `waitForDaemon`, `Release` | `Launch`, `LaunchFails`, `AwaitReady`, `AwaitTimeout` |
| `Close`, the end of a process | `Close`, `Crash` |
| the daemons | `DaemonAdvances`, `StartDirectly`, `DaemonEnds`, `PathLost`, `Wipe`: steps of `Endpoint` |

Abstractions. `Embed` and `EmbedBatch` differ in their payload only. A request
that a daemon has accepted may be answered or lost when that daemon ends. gRPC
is modelled by what the library relies on; a request waits for no dial, since
the default of `WaitForReady` is false. `failed` holds for one state who
returned which error of the connection, so that the action properties can speak
of it. `calm`, `outage` and `lost` are history variables. A caller whose context
expires is left out: it returns its error from wherever it is, except from `mu`,
whose wait no context ends.

### Install

| Code | Variables and actions |
|---|---|
| `RUNED_LLAMA_SERVER`, `RUNED_MODEL` | `needs[b]`, chosen by `Start` |
| `FetchManifest` and its retries | `FetchManifest`, `AttemptFails`; `published` is what the server would answer, `Publish` changes it |
| `install.lock` | `holder`, `AcquireLock`, `LockTimeout` |
| `installLicenses` | `LicencesBegin`, `LicencesEnd`: the files are rewritten in place, so that in between they are `torn` |
| `EnsureLlamaServer` | `ServerCached`, `ServerMissing`, `ServerDownloaded`, `Extract` (one file by one rename), `Mark`; `tree`, `tarball`, `marker` |
| `EnsureModel` | `ModelCached`, `ModelMissing`, `ModelDownloaded` |
| `downloadWithRetry` | `attempt`, `AttemptFails` |
| `recordInstall` | `RecordInstall`; its failure is only logged |
| errors, the end of a process, the eviction | `Fail`, `Crash`, `Cancel` |

Abstractions. A version stands for everything a manifest names; a file is the
version whose content it has, so that a hash is compared by comparing versions.
The partial file of a download has a name of its own that nothing else reads.
`behind` (a file is newer than the marker) and `misled` (boots that trusted such
a marker) are history variables.

## Runs

| Run | Instance | Shows |
|---|---|---|
| `backend_safety` | 2 handlers, ticker, main, 2 children | the type invariant, and `LiveChildIsOwned`, `DrainBeforeStop`, `NotStartedOnlyAfterExit`, `HaltedLeavesNoChild`, `BusyChildIsSpared`, and that `LlamaBackend` implements `EmbeddingService` (`ImplementsService`) |
| `backend_liveness` | 2 handlers, main, 1 child | `NoCircularWait`, `EmbedReturns`, `WedgedChildReplaced` |
| `backend_health` | 1 handler, 1 monitor, ticker, main, 1 child | `IdleReportIsTrue`, `SuspendEnds`, `ShutdownCompletes` |
| `centroids_push` | 2 streams, 1 vector, five headers | `RestartServesCurrent`, `CacheIsWhole`, `PushReturns`, and that `Centroids` implements `RoutingIndex` (`ImplementsIndex`) |
| `centroids_route` | 1 stream, 2 vectors, 1 request | `AnswersOnOneSet`, with the type invariant |
| `daemons` | 2 daemons, 2 inode numbers, 1 event | `NoFalseEviction`, `CutBootExitsClean`, `TheftOnlyInWindow`, `NoFileOutlivesItsMaker`, `OrphanExits`, `ShutdownTakesEffect`, and that `Daemons` implements `Endpoint` (`ImplementsEndpoint`) |
| `clients` | 2 processes, 2 calls of one of them, 2 daemons, 1 event | `LocksMatch`, `OneDaemonWhenCalm`, `RespawnedCallIsServed`, `CancelOnlyAfterOutage`, `CallsReturn` |
| `install` | 2 boots, an archive of two files and a bare executable, 1 change of the manifest | `ReturnsWhatIsInstalled`, `LicencesFirst`, `BootsEnd` |
| `backend_masked` | as `backend_safety` | counterexample to a comment: a crash is reported as a suspension |
| `backend_cut` | as `backend_safety` | counterexample: the start deadline cuts an embed |
| `backend_cleared` | 1 handler, 2 children | counterexample: `Stop` leaves a stale port |
| `backend_start` | 1 handler, 1 child | counterexample: start-up is not bounded |

Why the bounds are enough. Two handlers give a leader and a follower of
`restartMu`, a reader and a writer of `inflightMu`, and a cold start racing a
restart; a third would repeat one of the roles, and for safety the theorems
cover any number. Two children are needed for "the old one and the new one";
an identity is used again only after nothing in the daemon names it, so one is
enough where no property compares two. `MaxAttempts` is the code's own 2. No
other counter exists, and the runs of the backend have no constraint. Symmetry is
used only in runs without liveness properties.

In `centroids_push` two streams are the race that `installMu` settles, and the
five headers give a right, a wrong and an unverifiable version, a missing one
and a wrong dimension; a longer set adds nothing to a race. `centroids_route`
has sets of two vectors, equal or opposite, which is where ties and a swap of
the set during a forward pass show; every one of the embeddings 1 and -1 (the
normalised vectors of one dimension) may be asked. `Assign` is compared there
with `IsNearest`, which says what it should return.

In `daemons` two daemons are a thief and its victim, and two inode numbers let a
number be given out again while the other is in use. `MaxEvents` bounds what
comes from outside: signals, Shutdown RPCs, kills, serve faults and wipes. One
event on top of two complete lives lets any of them meet any step; several
events in one life (a kill during a drain after a Shutdown RPC) are not in the
run, but in the theorems. So are three daemons, which one property needs: a
third daemon may have read the identity of the second's socket for its own, and
remove a later one that got the same number. `TheftOnlyInWindow` names that
window, and its theorem covers it for any number. Two action constraints keep
the run small: of two inode numbers that are both unused the same one is always
taken (`FreshInode`, which loses nothing, since numbers are interchangeable),
and handlers wait for llama-server in one of the daemons only
(`OneDaemonEmbeds`), which may be the thief or the victim. Neither takes away a
step that fairness asks for.

In `clients` one process has two concurrent calls, which is the leader and the
follower of `mu`, and another process competes for the flock. Two daemons are
one to lose and one to launch. The one event is a wipe, a lost path, a crash of
a process or a start without the spawn lock; that daemons end is not bounded
but by their number.

In `install` two boots are one that works under the lock and one that waits or
comes after it, and the manifest may move from the archive to the bare
executable or back. Every life is one boot; what a former one may have left is
chosen by `Init`.

In these three modules a daemon, a thread and a boot have one life each. What
must eventually happen is therefore stated as `<>[]`, that in the end all of
them are at rest: in a finite instance this is the same as a leads-to for each.

### Fairness

`DaemonFairness` gives every goroutine that can run its turn. It is strong
fairness for those that wait for a mutex, because `sync.Mutex` hands the lock to
a waiter after 1 ms and `sync.RWMutex` admits the readers that wait behind a
writer; an embed call ends because `embedRequestTimeout` bounds it; the health
poll ends after 15 s; a signalled child dies because `stopLocked` kills it after
5 s; the grace period runs out. Nothing obliges a caller to call, a child to
crash, hang or recover, a monitor to ask, or the daemon to shut down.

One wait of the code has no bound: the port line of a new child. The `FairSpec` of `LlamaBackend`
therefore assumes, besides `DaemonFairness`, that a child which has been started
prints its port or exits (`StartupEnds`); `backend_start` shows what happens
without that assumption.

The `FairSpec` of `Centroids` says that a stream that has been accepted goes on:
file operations end, well or badly, and `sync.Mutex` hands `installMu` to a
waiter. Nothing obliges a sender to go on sending.

The `FairSpec` of `Daemons` says that every goroutine runs on (`Due`): each call
on the path ends, the goroutine of `Serve` gets its turn, the watchdog ticks,
and a cancelled context kills the child that a handler waits for. It does not
say that a silent child ever speaks, so a drain may wait for a handler for ever;
nor that a boot which nothing has cancelled ends (its downloads have no
deadline), nor that a signal comes. `OrphanExits` and `ShutdownTakesEffect` name
these two (`Held`) as all that can hold an exit up. It is one condition for all
daemons together: each of these machines takes finitely many steps, so that this
is weak fairness to each of them. In `Clients` every thread goes on:
requests end because daemons answer what they have (`EmbedReturns` of
`LlamaBackend`), waits in `EnsureDaemon` are timed, and `sync.Mutex` starves
nobody, which is strong fairness of `TakeMu`. In `Install` every boot goes on:
attempts end, and the wait for the lock is timed.

### Where the code differs from its comments

* `Stop` decides "suspended" from a flag read before the stop
  (`internal/backend/llama.go:533`): a crash in between is masked, against the
  comment at line 537.
* The health deadline of `startLocked` (`llama.go:403`) stops the child without
  the drain, against the comment at line 224. A handler that passed
  `EnsureStarted` before the previous child went down can have a call on it.
* `startLocked` stores a port without looking whether the child is still there
  (`llama.go:378`), so that `Stop` may return with a port set, against line 518.
* `Start` does not bound the wait for the port line (`llama.go:377`), against
  `cmd/runed/main.go:226`.

Two more that no run of their own is spent on: `stopGRPC` is called 10s-bounded
(`cmd/runed/main.go:428`) and its last line waits without a bound
(`main.go:440`); and a stale socket file, which `main.go:111` puts down to kills,
may also come from a boot that failed at once. Both are below.

Not a divergence, but worth knowing: when `Persist` fails, memory holds the new
set and the cache an older one, which a restart then serves under its older
version. `internal/server/centroids.go:94` accepts this, while
`internal/server/server.go:96` reads as if the lock ruled it out;
`RestartServesCurrent` therefore speaks of pushes whose `Persist` succeeded.

### What the code allows, and the properties therefore leave room for

* A daemon may remove another's live socket: between its dial and its
  `os.Remove` (`internal/ipc/uds_unix.go:54`), between the comparison and the
  removal in `Close` (`uds_unix.go:108`), and in the error paths of `Listen`, which
  remove whatever is there (`uds_unix.go:75`). `TheftOnlyInWindow` says that
  these are all; the victim then evicts itself (`OrphanExits`).
* `Listen` reads the identity from the path, after the bind (`uds_unix.go:86`).
  A daemon whose socket was replaced in between remembers the other's inode, does not
  notice that it serves nobody until that file goes, and may remove it when it
  closes.
* Of two daemons that race, the one that passed its early probe and then fails
  in `Listen` exits with an error, not with 0 as the early probe does.
* The Shutdown RPC during a boot ends the watchdog and cancels nothing: the
  boot goes on until it succeeds or fails. Nor does a shutdown end a handler
  that waits for the port line of a silent llama-server
  (`internal/backend/llama.go:377`): `stopGRPC` waits for it, before and after
  its `gs.Stop()`. Only the watchdog's cancel ends either, and the shutdown ends
  the watchdog. `OrphanExits` and `ShutdownTakesEffect` name both (`Held`).
* `gs.Serve` runs in a goroutine of its own (`cmd/runed/main.go:158`). A boot
  that fails at once may be through `GracefulStop`, and the process gone, before
  `Serve` has registered the listener; nobody calls `Close` then and the socket
  file stays, for the next daemon to find stale. `NoFileOutlivesItsMaker`
  therefore speaks of daemons that served.
* Health may answer IDLE while a llama-server is alive: one that a resume has
  just forked and not yet written into `cmd` (`internal/backend/llama.go:315` to
  322; `Serving` takes only `mu`). `IdleReportIsTrue` and `LiveChildIsOwned` say
  that it is this one and no other.
* A start that fails at `cmd.Start` (`llama.go:315`) leaves `state` alone, so
  that Health goes on saying IDLE after a failed resume. Nothing written promises
  otherwise, and no property is about it.
* A signal before `signal.Notify` (`cmd/runed/main.go:293`), that is during a
  boot of minutes, kills the daemon without any cleanup. It is a `Kill`.
* A launcher that waited ten seconds in vain releases `spawn.lock`
  (`internal/spawn/spawn.go:76`), and another daemon may be launched beside a
  slow one; recreating the home directory splits the lock file. Hence `calm` in
  `OneDaemonWhenCalm`.
* `reconnectLocked` closes the connection under calls of other goroutines
  (`client/client.go:154`), which then return `Canceled` without a retry, even
  when they were sent to the new daemon. Hence `outage` in
  `CancelOnlyAfterOutage`.
* A file of the new version may be in place under the old version's marker, after a
  failure or a crash in between. If the manifest then goes back, the mixture is
  taken for cached (`internal/bootstrap/install.go:301`). This is the only
  exception of `ReturnsWhatIsInstalled` (`misled`).
* Licences are rewritten in place: a crash within that leaves torn ones beside
  artifacts that are there already. `LicencesFirst` is about putting artifacts
  in place, not about this.
* The wait for `install.lock` does not look at its context.

## Proofs

### LlamaBackend

All safety properties that the passing runs of the backend check are also
theorems, for every number of handlers, monitors and children, from two
assumptions on the constants: the sets of processes are disjoint and there is at
most one ticker (`ProcsAssumption`), and `NoChild` is no child
(`ChildrenAssumption`).

`LlamaBackendTypes` proves `TypeOK` inductive, one step per action.
`LlamaBackendSafety` proves the inductive invariant `IInv`, in five parts, each
preserved given those before it:

1. `LockInv`: which lock each location holds. A process between `Lock` and
   `Unlock` of a mutex is its holder; a process past the drain is the writer and
   there is no reader; an outstanding call belongs to a reader.
2. `SlotInv`: what `lifecycleMu` guards. The live child is the one in `cmd`, or
   the one that the holder has forked and will put there; a cleared child is not, a start begins with an empty slot, and whoever waits
   for a child's end has that child or nothing in the slot. This is what makes
   "never two children" inductive: the proof that `StartChild` is safe needs all
   of them.
3. `SignalInv`: a child signalled after a drain is in the slot only while its
   signaller waits, and nobody is about to publish its port.
4. `DrainBeforeStop`: by 1 and 3, a signal finds no reader, and a reader finds
   no signalled child.
5. `PortInv`: `port` and `cmd` agree except during a start, and a handler that
   `EnsureStarted` let pass has a usable port unless a child went down.

The properties follow: `OneLiveChild`, `NoEmbedIsCut`, `NoOrphan`,
`RetryIsForAnExit`, and the action properties `NoBusyChildCondemned` and
`IdleMeansSuspended`. The last allows for the child that a resume has forked and
not yet published, and for no other: the slot invariant leaves room for one only.

`LockOrder` is the absence of deadlock over the locks, for any number of
goroutines: `Rank` gives each place at which a goroutine waits the height of
what it waits for in the order that the comment at
`internal/backend/llama.go:104` declares (`restartMu`, `inflightMu`,
`lifecycleMu`), and `RankFalls` shows that whoever holds up a waiter waits at a
lower height. A circle would be a set of waiters without a lowest one. That the
drain waits for readers, and readers for the writer ahead of them, is part of
the relation (`HoldsUp`): it is why the order of the declaration alone is not
enough, and why the proof needs that a reader never waits for a lock.

`RequestsWind` and `RequestsAreBounded` are the safety half of `EmbedReturns`: a
request has a measure of the work it has left, at most 42, which each step of
its own lowers and none of anybody else's raises. Together with `LockOrder` they
leave to the liveness runs only what fairness has to give: that a lock which is
released is also handed on, and that calls to the outside end.

`LlamaBackendService` proves the refinement, `BackendRefines`. Of the 54 actions
most are shown to be unseen by the service (`GoesOn`, `Unseen`, `RpcQuiet`,
`LookersUnseen`); each of the others is one step of it: `StartChild` is `Spawn`,
because by `SlotInv` no child is alive when it happens, `StartPublish` is
`Record`, `Signal` after a drain
is `Condemn`, because by `LockInv` there is no reader, `StopReturn` is
`Suspend`, `EmbedCall` is `Send`, and so on. Two things that the service never
does by the look of it become theorems about the code: `SuspensionIsStable` and
`ChildrenAreNeeded`, that no child is started after the last request.

### Centroids

`CentroidsProofs` proves, for any number of streams and requests, any vectors
and headers and sets of any length, from `CentroidsAssumption` (the absent
values are no sets, headers are headers), the invariant `IInv`:

1. `TypeOK`: needs `SoundInv`, because damage is done to a file that is a set.
2. `LockInv`: who is between `installMu.Lock` and `Unlock` holds it, and memory
   is its set; a daemon that is down holds nothing.
3. `SoundInv`: sets past the checks of a stream, in memory, in a routed request
   or in an undamaged file are valid and what their version says.
4. `CacheInv`: when the last `Persist` succeeded, the file is what memory holds.
   The step that needs 2 is the rename: it saves the stream's set, and only the
   lock makes that the set in memory.
5. `AnswersOnOneSet`: the cluster answered is the nearest one in the content
   whose hash is the version answered.

The theorems are `TypeCorrect`, `ServedSetsAreVerified`, `RestartKeepsTheSet`,
`NoHalfCache`, `AnswersAreNearest` and `Implementation`, the refinement. The
last rests on `DamageIsSeen`: the content hash leaves unseen only the damage of
a legacy set.

`AnswersAreNearest` rests on what the loop of `Assign` computes for a set of any
length (`AssignIsNearest`). The induction theorems of the library cannot be
instantiated here, so the induction is done by hand, as a least counterexample:
`Least` (from `WFMin` and the well-foundedness of `<`) gives the first `n` at
which a scan leaves the nearest of the first `n` vectors, and `ScanIsNearest`
shows that the step to it is not wrong. `ScanExists` shows in the same way that
the loop has a value for every length, which is what makes the recursive
function of `Assign` meaningful.

### Daemons

`DaemonsProofs` assumes `DaemonsAssumption` (the markers are no inodes and no
daemons) and proves, for any number of daemons, inode numbers and events, the
invariant `IInv`:

1. `TypeOK`.
2. `StageInv`: how `pc`, `lis` and `watch` go together; a listener that is past
   its close has no inode.
3. `SockInv`: two open listeners have two inodes, because a number in use is not
   given out. This is what makes `Front` well defined.
4. `EvictInv`: a watchdog that is past its last look at `ShutdownCh` found its
   file gone for a reason: a theft, or its own listener's fault.
5. `CutInv`: a boot was cut only by a watchdog that had set `evicted` first.
6. `TheftInv`: who is about to remove a file that a live listener is bound to
   was in the window when that listener bound it; in particular someone whose
   remembered inode is now another's.
7. `MakerInv`: the maker of the file at the path is running and is not past the
   step that removes it, or was killed, or ended before it served. What `Exit`
   may leave undone is a close that it does not wait for, and by `Drained` that
   is only the close of a listener which was never registered.

From these follow `EvictionsAreJustified`, `EvictedBootExitsClean`,
`ThievesWereInWindow`, `FilesAreCleanedUp`, and the refinement,
`Implementation`: each action is `Begin`, `Listen`, `Ready`, `End` or `Lose` of
`Endpoint`, or changes neither `Front` nor `Life`. Each case computes `Front'`
from 3.

### Clients

`ClientsProofs` assumes `ClientsAssumption` and `EndpointAssumption` and proves,
for any number of processes, calls and daemons, the invariant `IInv`:

1. `TypeOK`, and `StageInv`: which attempt a thread is at, at each place.
2. `OpenInv`: calls are made on Clients that exist.
3. `MuInv`, `FlockInv`: the holder of `mu` and of each `spawn.lock` is exactly
   the thread whose place says so. Together these are `LocksMatch`.
4. `AliveInv`: whoever answers at the path is alive, and no connection names a
   daemon that has ended.
5. `UpInv`: as long as there was no outage every Client that was made is
   connected, so that no call gets as far as a reconnect.
6. `CalmInv`: while calm there is one `spawn.lock`, no daemon has ended, and one
   that does not listen yet is awaited by the thread that launched it, which
   holds the lock. This is why the recheck under the lock is enough.
7. `ServedInv`: a thread past its respawn which saw no outage since finds a
   daemon at the path and has one, or no connection yet, at the other end; a
   call past its first request is never stale, because only the holder of `mu`
   reconnects.

The theorems are `LocksAreHeld`, `LaunchesOneDaemon`, `RespawnIsWorthIt`,
`NobodyIsCutInVain`, and `ClientsUseEndpoint`: every step of `Clients` is a step
of `Endpoint` or leaves it alone. `CallsWind` and `CallsAreBounded` are the
safety half of `CallsReturn`: each step of a thread lowers the work it has left,
at most 36, and nothing that daemons, other threads, crashes and wipes do raises
it. `NoCircularWait` is about `mu` and the `spawn.lock` files together: whoever
holds a flock waits for no thread, and whoever holds `mu` at most for a flock.

### Install

`InstallProofs` assumes `InstallAssumption` and proves, for any number of boots,
versions, files and changes of the manifest, the invariant `IInv`: `TypeOK`,
which has the exclusion of `install.lock` in it, and

1. `StageInv`: whoever is past the licences found them whole.
2. `MarkerInv`: a marker that no file overtook stands for a tree that is whole,
   but for an executable that may be missing.
3. `ServerInv`: while a boot extracts, the files not in `todo` are its
   version's; past the extraction the tree is whole, or the boot was misled.
   Nobody else may touch the tree meanwhile: that is the lock.
4. `ModelInv`: past the model, it is the boot's version's.

The theorems are `TypeCorrect`, `LicencesComeFirst`, `HandsOutItsVersion`, and
`BootsWind`, the safety half of `BootsEnd`: each step of a boot takes it to a
later place, or leaves it with a file less to extract or an attempt less, and
nothing else sets it back.

### What is model-checked only

The liveness properties (`EmbedReturns`, `WedgedChildReplaced`, `SuspendEnds`,
`ShutdownCompletes`, `PushReturns`, `OrphanExits`, `ShutdownTakesEffect`,
`CallsReturn`, `BootsEnd`): fairness is outside what the prover handles. Their
safety halves, that work is bounded and nobody waits in a circle, are theorems
for `LlamaBackend`, `Clients` and `Install`. Every invariant and every action
property that a passing run checks is a theorem.

## Plan

1. `LlamaBackend`: done, with its proofs.
2. `Centroids`: done, with its proofs.
3. `Endpoint` and `Daemons`: done, with the refinement and its proof.
4. `Clients`: done, on top of `Endpoint`, with its proofs.
5. `Install`: done, with its proofs.
6. `EmbeddingService`: done, implemented by `LlamaBackend`, with the proof.
7. Lock order and bounded work: done for `LlamaBackend`; bounded work for
   `Clients` and `Install`, and lock order for `Clients`.
8. Left: bounded work for `Daemons` (the way from a signal or an eviction to the
   exit) and for the streams of `Centroids`.
9. Left: an installation whose home directory is recreated meanwhile, which
   splits `install.lock` as it does `spawn.lock`.

## Not modelled

Request and response bodies, tokenisation and JSON; command lines and log
files; the manifest, path and configuration parsers (sequential, stateless,
reached by table tests), that is, of them only that they may fail; the short
alias of a long socket path, which is the same at both ends; `Info`, the request
counters and the progress of the bootstrap, which are reported and decide
nothing but the idle ticker's turn; callers whose contexts expire; the removal
of `$RUNED_HOME` during an installation; temporary files that a crash leaves
in the cache directory, which nothing reads or removes; generated protobuf code; the demo program; platform guards
that ask the kernel to kill the child with its parent; Windows.
