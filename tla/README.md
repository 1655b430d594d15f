# Specification of nvidia_gpu_exporter

TLA+ modules that model the exporter from its command line to the series of a
scrape, TLC runs that check them on small instances, and TLAPS proofs that hold
for every instance.
Paths below are relative to the repository; `collect/`, `nvmlnative/`, `app/`
and so on stand for `internal/collect/` etc.

## 1. The system

The exporter answers Prometheus scrapes with the state of the machine's GPUs.
A *backend* produces tables of readings (by running `nvidia-smi`, or by calling
NVML in-process, or synthetically for demos); a *source* decides when the
backend is queried (inline for each scrape, or by a background loop); the
*exporter* renders the newest snapshot as metric families; the *application*
wires them and owns start-up and shutdown.

| Component | State | Operations | What makes it hard | What makes it correct |
|---|---|---|---|---|
| Live source `collect/live.go` | the joinable flight, its waiters, two health counters | `Latest`, `join`, `leave`, `run`, `noResult` | scrapes share, abandon and outlive a collection; the query may never return | one live run; nobody inherits a cancelled or an old run; the counters add up |
| Cached source `collect/cached.go` | an atomic pointer to an immutable snapshot | `Run`, `tick`, `Latest` | lock-free readers against the publishing loop | one loop; complete, immutable snapshots; time never goes back |
| Native backend, lifecycle `nvmlnative/backend_nvml.go`, `xid_nvml.go` | `mu`, `lifecycleMu`, `initialized`, `generation`, `genLive` | cycles, `markLost`, `tryRecover`, `Close`, the event watcher | the library is process-wide; it dies, is reloaded, wedges; the watcher reads two atomics without `mu` | no driver call on a closed library; no use of an event set of another instance; nobody hangs behind a wedged watcher |
| Native backend, MIG `nvmlnative/mig_nvml.go` | retained GPM samples by GPU instance | `collectMIG`, `gpmUtilization`, `freeGPMSamples`, `dropOrphanGPMStates` | driver memory with many ways out; instance ids are reused | nothing leaks or is freed twice; a utilization compares like with like |
| Native backend, cycle `nvmlnative/backend_nvml.go` | the cycle lock, the devices read so far | `QueryFunc`, `collectCycle`, `collectTable`, `collectExtras` | a cycle is abandoned while its goroutine stays in the driver | later cycles fail fast; a soft failure costs one family, not the scrape |
| XID accumulator `nvmlnative/xid_nvml.go` | counts by GPU and XID | `bump`, `counts` | events are drained while snapshots are taken | counts never drop |
| Availability guard `nvmlnative/guard_nvml.go`, `availability_nvml.go`, `symbols.go` | the export snapshot | `resolveAvailability`, `guardedDevice` | a reload can remove symbols | a missing export is an error, never a crash |
| Application `app/app.go` | the errgroup and its context, the HTTP server, scrape slots | `Run`, `setupExporter`, `serveHTTP`, `superviseXIDWatcher`, `scrapeContext`, `limitConcurrency` | shutdown order, fatal errors from inside a collection, scrapes stuck in the driver | every slot is returned; a stop ends the process, and the exit status tells why |
| Exporter `exporter/exporter.go` | field-to-metric map | `Collect`, render functions | partial snapshots, names that the driver chooses | no series twice, no failure that looks idle |
| nvidia-smi backend `nvidiasmi/` | the resolved field list | run, parse, resolve | output drifts between driver versions; it has no quoting | cells stay with their field |
| Demo `demo/`, fake nvidia-smi `fakesmi/` | configuration, counters | cycles, projection | configuration changes under a cycle | one configuration per cycle |
| Windows service and entry point `cmd/` | service status | control loop | stop against own end | the status reaches stopped |

Interactions: an HTTP scrape calls `Source.Latest` with its request context; the
live source starts a flight whose goroutine calls `collectOnce`, which calls the
backend's query function; a fatal query error calls `onFatal`, which ends the
application; the native backend runs each query in a goroutine of its own and
the XID watcher beside them; the application calls `Close` and waits for the
watcher at the end.

## 2. Modules

| Module | Models | Checked by | Proved in |
|---|---|---|---|
| `Collect` | the snapshot, `collectOnce`'s outcome, `foldCumulative`, the decision to call `onFatal` | with Live and Cached | with Live and Cached |
| `Source` | the promise of a synchronous source (abstract) | as a property of Live | as a theorem about Live |
| `Live` | `collect/live.go` whole | `live`, `live_last_success` | `LiveProofs` |
| `Cached` | `collect/cached.go` whole | `cached` | `CachedProofs` |
| `NvmlLifecycle` | construction, `Close`, `markLost`, `tryLifecycleLock`, `tryRecover`, (re)initialization, the watcher | `nvml`, `nvml_liveness`, `nvml_unsupported` | `NvmlLifecycleProofs` |
| `NativeQuery` | `QueryFunc`, `collectCycle` and the order and failures of its phases | `native` | `NativeQueryProofs` |
| `GpmRetention` | the extras pass as far as MIG goes, and every GPM sample | `gpm`, `gpm_late_free`, `gpm_missing` | `GpmRetentionProofs` |
| `Lifetime` | what the process owes whoever started it (abstract) | as a property of Process | its safety, in `AppProofs` |
| `App` | `Run`: flags, set-up, the errgroup, the server, every scrape, the shutdown | with Process | `AppProofs` |
| `Process` | `App` in the foreground (`main.go`) or as a Windows service, with signals and stop requests | `app` | `AppProofs` |
| `Resolve` | the fields to query and their returned names, for each backend (operators) | with Pipeline | `OperatorProofs` |
| `SmiTable` | nvidia-smi's two tables, parsed (operators) | with Pipeline | `OperatorProofs` |
| `Exporter` | metric names and the series of one scrape (operators) | with Pipeline | `OperatorProofs` |
| `Pipeline` | startup, overlapping collections and scrapes over a changing machine or demo configuration | `pipeline` | `PipelineProofs` |

`MCLive`, `MCCached`, `MCNvmlLifecycle`, `MCGpmRetention`, `MCApp` and `MCPipeline`
add the symmetry sets, the command lines and the machines that only TLC needs.
`PROJECT.json` maps every definition to the lines it models.

The models meet where the code does. `Live` and `Cached` take of a query that it
may return anything at any time, so they hold for each backend; `NativeQuery` has
what the native one does behind that call, and `NvmlLifecycle` and `GpmRetention`
what the library and its samples go through beneath. `App` has each scrape wait
for a source that answers at once, with the collection, or when the scrape's
context is over, which is what `AbandonedCallEnds` and `Cached` provide. `Pipeline`
has the data that the others leave out.

Operators whose name begins with `Fault` are not part of the model. Each is a
plausible bug: a variant of the definition that follows it. A property is worth
keeping only when replacing the definition by its variant makes TLC refute it,
and `PROJECT.json` ("mutants") names such a variant for every property.

### Live

A caller is one concurrent `Latest`; a run is one flight with its goroutine. An
action is one critical section of `s.mu`, one channel or context operation, or
one return of the query:

| Code | Action |
|---|---|
| `Latest`, the `ctx.Err` check | `Enter` |
| `join`, flight present / absent | `JoinInflight` / `StartRun` |
| `select` on `done` / `ctx.Done` | `Receive` / `Leave` |
| second look at `done` after `leave` | `Receive` / `LookAgain` |
| `noResult` | `NoResult` |
| the query returning, whatever became of its context | `QueryReturns` |
| the rest of `collectOnce` (context re-read, `onFatal`) | `Classify` |
| the locked end of `run` | `Publish` |
| the collection timeout, a scraper disconnecting | `Timeout`, `RequestEnds` |

A caller that is through forgets its flight, so callers make any number of calls;
`RunsLeft` bounds the number of runs. Times are stamps of a logical clock; the
data of a snapshot is the run that produced it. The two steps of a departing
caller (the look at `done`, then `noResult` in a critical section of its own) are
two actions: a run published in between leaves the caller without data but with
the counters of after the run. The comment in `collect/live.go:121-123` rules out
half-done states of a run as one locked transition; a caller that looked before it
sees the two sides of the transition, which is harmless (`FailuresNeverDrop`) and
is what `Source` allows.

`Source` is what the callers are promised: a call is answered with the outcome of
a collection published during the call, or with no data and the counters as they
are. `ImplementsSource` states that `Live` does that, under the mapping in
`Abstract` (the open calls, what was published before each, the published runs
and their snapshots).

### Cached

A run is one tick and stands for the `Snapshot` that tick allocates: the pointer
`cur` is a run and the memory it points to is `snapshot[cur]`, so that a reader
between the load and the copy (`Load`, `Copy`) sees whatever has become of that
memory. `Start` is the compare-and-swap; `BeginTick` and `StopRun` are the two
cases of the `select`, either of which may be taken when both are ready.

### NvmlLifecycle

A process is a collecting goroutine, the XID watcher, or the goroutine that calls
`Close`; an action is one lock operation, one atomic access, or one return of a
driver call. A process whose `pc` names a driver call is inside it. A driver that
is dead makes calls fail or never return. `mu` is `b.mu`; `shared`, `attempt`,
`late` and `lateHeld` are `lifecycleMu`: held shared by the watcher; the blocking
`Lock` of the goroutine in `tryLifecycleLock` (spawned, pending, acquired); such
attempts whose deadline has passed but which will still land; and one that has
landed and is about to be released. A pending or late writer bars new readers, as
`sync.RWMutex` does. `era` counts the instances of the library, which the code
cannot see; `setEra` is the instance the watcher's event set was created in, the
ground truth that `setGen` (the code's own record) approximates.

`genLive`, `generation` and the export snapshot are three separate loads of the
watcher (`RegLive`, `RegGen`, `RegAvail`; `DrainLive`, `DrainGen`; `FreeLive`,
`FreeGen`), and re-initialization is four steps (`InitSucceeds`,
`CountGeneration`, `AnnounceLive`), because the argument that the watcher is safe
without `mu` is an argument about exactly these orders. When `TryLock` of `b.mu`
fails, a cycle ends at once without having changed anything and is not an action.

### NativeQuery

A query is one call of the function that `QueryFunc` returns: its caller (`Ask`,
`Receive`, `Abandon`) and its goroutine, which is `collectCycle`. The cycle visits
the devices three times, and a phase (`"table"`, `"apps"`, `"extras"`) has the same
steps each time (`Counted`, `NextDevice`, `ReadDevice`, ..., `PhaseOver`) but
fails in its own way (`PhaseFails`): the table fails the query, the process list is
discarded, the extras keep what they have. At `pc` `"init"`, `"count"` and
`"device"` the goroutine is inside the driver, and only `DriverReturns` takes it
out again. Of a reading the model keeps which devices it covers and which
generations of the library it was read from; the cached CUDA version, which may
outlive a generation by design, is not part of it. Two things met on the way cost
nothing but a cycle's delay: a lifecycle return of the process-name call
(`nvmlnative/backend_nvml.go:1443-1446`) becomes a token of the cell, and one that
`collectDevice` has noted is dropped when it finds the context over before it
ends; the next cycle meets the same dead driver. `MCNativeQuery.cfg` instantiates
the module itself, which has no symmetry to declare: its run checks liveness.

### GpmRetention

The cycle holds `b.mu` throughout, so its only company is the MIG configuration
(`Reconfigure`), the clock (`Tick`) and the end of the collection's context
(`ContextEnds`). `gpm` is `b.gpm`; `allocated`, `content` and `open` are the
driver's side: which handles are allocated, the shape of the instance each has
sampled, and whether NVML is up. `doubleFree`, `lateFree`, `report` and
`overlooked` are history that only properties read. The pass visits devices and
instances in any order, and every way to skip a device (`SkipDevice`,
`InventoryOnly`), to skip an instance (`ServeLast`, a failed allocation), to end
the pass (`Interrupted`, `GpmMissing`, `PassNotBegun`) and to lose the driver is an
action. Orphans are dropped at the end of a complete pass, `seen` being what the
enumeration listed: a device that is skipped in one otherwise complete pass loses
its samples and starts over, as the comment at `nvmlnative/mig_nvml.go:407-408`
accepts ("a later reconfiguration must not find a stale baseline").
`OrphansHaveDisappeared` therefore exempts what the pass has overlooked.

### App, Process and Lifetime

`run` is where `Run` has got to, `group` where each goroutine of the errgroup is,
`cause` the cause of the end of the context they share; `first` is the error that
`eg.Wait` will return. A scrape goes from `Admit` (the slot, `scrapeContext`) over
`LatestReturns` or `CollectionReturns` to `Written`, and its slot is returned by
whichever of them ends the handler, a recovered panic included. `Setup` and
`SetupFails`, `Bind` and `BindFails` etc. are one step of their goroutine each.

| Code | Action |
|---|---|
| flag validation in `Run` | `CheckFlags` |
| `setupExporter` | `Setup`, `SetupFails`, `RegisterFails` |
| the goroutine that calls `Shutdown` | `Shutdown`, then `Drained` or `GraceOver` |
| `listenAndServe` | `Bind`, `BindFails`, `ServeFails`, `ServerClosed`, `ServeReturns` |
| `superviseXIDWatcher` | `WatcherReturns`; `WatcherJoined`, or `WatcherGrace` and `WatcherAbandoned` |
| `backend.Close`, the cached loop | `CloseBackend`, `LoopEnds` |
| shutdown-on-error | `Fatal` |
| `runInteractive`, `main` | `Signal`, `MainExits` |
| `windowsService.Execute` | `ReportRunning`, `StopReceived`, `EndsByItself`, `StopDone` |

Times are small numbers, and so are timeouts in `scrapeContext`; a header that is
no number is one value. The five seconds of grace are long enough for every scrape
that is not stuck behind a client or a collection (`GraceOver`), the write timeout
strikes as one event. The signal's context is taken to be cancelled with
`context.Canceled` as its cause, as `signal.NotifyContext` and the service do. A
library that wedges while the backend is set up is not modelled: nothing can
interrupt it (`app/app.go:609`). When a second address cannot be bound the first
listener is not closed (`app/app.go:1062-1070`), which ends with the process and
is kept in `bound`.

`Lifetime` is the promise to the outside: the process ends after a request or a
failure, with status 0 only if the end was requested. It lets a *service* report a
clean exit when a request arrives beside a failure, because `Execute` does that
once it has begun to wait for the end it asked for
(`service_windows.go:129-138`). `Interrogate` changes nothing and has no action.

### Resolve, SmiTable, Exporter and Pipeline

Operators, with `Pipeline` as the state machine that applies them. A field's
returned name is a base and a unit; a value is the field and the GPU it was printed
for and the *kind* of its text (a number, a word of an enumeration, other text, a
token for "not available", text with a comma), which is what parsing and rendering
tell apart. A line of cells that contains a comma has one cell more, as it has for
the code. Wildcards are the sets of fields they match, and Go's map order is some
fixed order. The registry is modelled by what it refuses (`Accepted`): two series
of one name and labels, or one that was not described.

Startup (`BeginResolving` to `QueryCudaVersion`) and each collection
(`BeginCycle` or `BeginDemoCycle` to `Retire`) ask the machine of the moment, which may have changed
since; `MayFail` lets any run of nvidia-smi fail. The demo backend is the same
pipeline with a configuration file in place of the machine, `cycleMu` around whole
cycles, and the synthesized state laid over the reading; its XID catch-up is none
or one event per cycle. Scrapes are the renderings of every snapshot that the
collections can have left (`Scrapes`), so a scrape between any two steps is
covered. Not in the model: the values of energy and PCIe counters, the clock, the
number of failures in the counter (that is `Live`'s), the contents of log lines.
Machines list distinct uuids and, per GPU, distinct processes
(`ListedOnceAssumption`): that is the driver's contract, which the code relies on
(`exporter/exporter.go:704`).

## 3. Runs

| Run | Instance | States | Shows |
|---|---|---|---|
| `live` | 2 callers, 2 runs, timeout, fatal armed | 643 k | safety, `FailuresNeverDrop`, `ImplementsSource`, `AbandonedCallEnds`, `EveryCallEnds` |
| `live_last_success` | 2 callers, 2 runs | - | a violation, see below |
| `cached` | 2 runners, 2 readers, 3 ticks, timeout | 740 k | one loop, complete and immutable snapshots, no reader goes back |
| `nvml` | 2 collectors, watcher, `Close`; 4 generations, 1 death, calls may fail at will | 467 k | driver calls, shutdown, event sets |
| `nvml_liveness` | 1 collector, watcher, `Close`; 6 generations, 2 deaths | 91 k | `NoCycleHangsOnWatcher`, `EventCollectionRecovers` |
| `nvml_unsupported` | a healthy driver without XID events | - | a violation |
| `native` | 2 queries, 2 devices that come and go, 2 generations | 600 k | readings are whole and of one generation, no call after a loss, nobody waits behind a stuck cycle |
| `gpm` | 2 GPUs with an instance each, 3 handles, 2 shapes, exports present or not | 1.8 M | ownership of samples, soundness of utilization, orphans |
| `gpm_late_free` | as `gpm`, one shape | - | a violation |
| `gpm_missing` | as `gpm`, no GPM exports | - | a violation |
| `app` | 2 scrapes, 2 addresses, 18 command lines, foreground and service | 61 k | slots, deadlines, registration, the grace, clean ends, `Lifetime` |
| `pipeline` | 9 command lines, 5 machines or configurations, 2 overlapping collections | 87 k | lists, values, names, failures, one configuration per demo reading |

Why the bounds are enough. *Live*: what can go wrong takes one run that has been
abandoned and one that succeeds it (two runs), and a last waiter with a joiner
that arrives meanwhile (two callers); callers are reused, so call sequences are
longer, and the proofs have the safety for any number of either. *Cached*: a reader can be
overtaken by two publications between its load and its copy, hence three ticks;
two runners are what a doubled `Run` needs. *NVML*: a set of one generation has to
meet a later one that is live, with one more lost generation in between and an
acquisition that lands late; four generations and two collectors give every such
order, `Flaky` lets any call fail in any generation; the liveness instance leaves
`Flaky` off, because a driver whose calls keep failing recovers no one, and lets
the driver die twice. *Native query*: one query can be stuck,
abandoned or interrupted while the other one meets its lock; two devices give a
first, a middle and a last place in the loop for an interruption, and two
generations a reading across a loss. *GPM*: an instance can be invalidated, disappear and be
recreated once (two shapes) while a second device is visited before or after it or
not at all; three handles are two retained samples and a fresh one; windows of one
to two ticks distinguish too soon, in time and too late. *App*: one scrape can hold
the only slot while another is refused; a second address can fail when the first
is served; there is a command line for each rule of the validation, each backend
and either source. *Pipeline*: the fields have one of each kind (an identity, a
unit, two names that meet, a reserved name, none at all, an enumeration, one the
built-in list lacks), the machines one that is plain, one with a comma in a name,
one that is older, one that fails and one that prints garbage; a collection that was
abandoned and its successor are the two that can overlap. The proofs remove these
bounds for every safety property of the runs, and the type invariants, which no run
repeats, are among what is proved.

Deadlock is checked in every run but `app`, where the process really ends. `Idle`
in Live is the source at rest after the bound on runs is used up; every other stop
of a model is a real one.

Symmetry is used for the runs, runners and readers of `cached`, for collectors and for handles, in runs of safety
properties only.

### Fairness

`Live!FairSpec` assumes that runnable goroutines run: weak fairness of each
caller's own steps and of a run's steps after its query has returned. It does not
assume that a query returns or that a scraper disconnects; `EveryCallEnds` takes
the return of queries as its premise, and `AbandonedCallEnds` needs no such
premise. This is weaker than what Go's preemptive scheduler provides.

`NvmlLifecycle!WedgedSpec` assumes that the watcher's own steps, the steps of the
lock and each process's lifecycle steps (the two-second timer included) are taken,
`nvmlInit` and `nvmlShutdown` return, and nothing else: no driver call of the
watcher or of a cycle need return, no one need scrape, no dead driver need come
back. `NoCycleHangsOnWatcher` holds under that. `EventCollectionRecovers` states
what else it needs as its premise: driver calls return, a dead driver is reloaded,
and a cycle that meets it, while it keeps `mu` from the watcher, does not have its
context end at that very call time and again.

`NativeQuery!Spec` assumes that the callers' `select` and the goroutines outside
the driver run. A call into the driver need never return, `WatcherReleases`
included, and no context need end: `AbandonedQueryEnds` has the end as its premise.

`Process!FairSpec` assumes that goroutines are scheduled and that timers fire: the
deadline of a scrape, the write timeout, the graces of the shutdown and of the
watcher. The library is initialized at startup or fails to be. Nobody need ask for
a stop, scrape, read a response or let a driver call return, and the watcher need
never come back. Under that, `ImplementsLifetime` has every stop request and every
failure that ends the application end the process, and `BoundedScrapesEnd` every
scrape that has a deadline.

### Findings

1. `live_last_success`, `LastSuccessIsMostRecent`. A run that has been abandoned
   may have succeeded already; when its goroutine folds after its successor, it
   sets `lastOK` back to its own, earlier, completion time
   (`collect/live.go:132`). The field is documented as the completion time of the
   most recent success (`collect/collect.go:38`).
2. `nvml_unsupported`, `HealthyGenerationKept`. On a healthy driver without XID
   events the watcher's `tryRecover` tears the generation down at every back-off
   round, because it takes `initialized` for a dead generation that no cycle has
   noticed (`nvmlnative/backend_nvml.go:517-518`); the watcher is documented to
   idle there (`nvmlnative/xid_nvml.go:119-120`).
3. `gpm_late_free`, `NoFreeAfterShutdown`. When the metrics call loses the driver,
   `markLost` runs before the fresh sample is freed (`nvmlnative/mig_nvml.go:321`),
   against the rule at `nvmlnative/mig_nvml.go:397-399`.
4. `gpm_missing`, `PassEndsEarlyOnlyWhenLost`. A driver without the GPM exports
   makes `collectMIG` end the pass over all devices
   (`nvmlnative/mig_nvml.go:108-110`), as if the driver were lost, against
   `nvmlnative/backend_nvml.go:1554-1556`.

## 4. Proofs

TLAPS checks the proofs for any finite set of callers and of requests, any sets of
runs, readers, queries, collectors, devices, instances and handles, any command
lines and addresses, any machines and configurations with tables and lists of any
length, any bounds and any values of the flags. They rest on the named assumptions
of the modules only: the model values that stand for "none" are not members of the
sets, the bounds and the windows are natural numbers, the flags Boolean, the fields
of a command line that are numbers are integers. The pipeline has more of them,
listed with its proofs; every run evaluates those of its modules.

`LiveProofs`
: Two lemmas say what the operators of `Collect` preserve (a fold never shrinks the
  failure counter, and the last success after it is the one before or the outcome's
  own). `Typing` strengthens the type invariant with what keeps it inductive: a run that
  is past its query has a result, a caller that waits has joined a started run,
  and the joinable slot holds a running run. `Sharing` adds that unused runs are
  clean and that the waiter count of the joinable run is the *set* of callers
  waiting on it; that is why the last one out, and nobody else, cancels the run,
  and gives `LiveOneRun`, `LiveJoinable` and `LiveNobodyStranded`. `Fresh` relates
  each caller's history to the published runs (`LiveFreshness`). `Counting` has the
  failure counter equal to the number of published failures and every snapshot's
  counter between what its possible readers have seen and the present
  (`LiveFailuresExact`, `LiveFailuresNeverDrop`). `CutShort` says that a run whose
  context was over stays so until its query is classified
  (`LiveNoSelfInflictedShutdown`). `LiveImplementsSource` maps the initial state and
  each step to one of `Source`, or a stutter, under `Fresh`.

`CachedProofs`
: `Loop` says that one runner at most is past its compare-and-swap, that the tick
  under way belongs to it, and that what is published has ended; it gives
  `CachedOneCollection` and `CachedImmutable`. `CachedComplete` counts: the
  published snapshot, and the one being folded, have as many failures as there are
  failed runs among the ended ones. `CachedNeverGoesBack` orders the snapshots by
  their counters along the runs and has every pointer a reader has loaded lie
  between its last answer and the present.

`NvmlLifecycleProofs`
: `Lifecycle` is the inductive invariant, in parts: `MuHeld` (a process is in a
  section of `mu` exactly when it holds it), `LockHeld` (readers and a writer of
  `lifecycleMu` exclude one another), `GenerationState` (`genLive` implies
  `initialized` implies an open library, and where the holder of `mu` is in
  between), `SharedIsOpen` (what the watcher found live under the shared lock stays
  open while it holds it) and `SetIsDated` (an event set of another library
  instance that bears the current generation number is one whose generation is not
  live). The last one is the point of the exercise: generation numbers lag behind
  library instances, and the set is safe only because `genLive` is cleared before
  the lock is waited for and set after the number has gone up. None of the checked
  invariants is inductive without it.

`NativeQueryProofs`
: `IInv` says that a goroutine inside a cycle holds `b.mu` from end to end and that
  what it has read is what its phase and its place in the loop say, in the
  generation that has been current since the cycle began, which is not lost while
  it is in the driver; a result in the channel, or answered, is one a whole cycle
  has left behind.

`GpmRetentionProofs`
: `Typing` adds to the types where the cycle is and what it then has at hand
  (`InPlace`). `SamplesAreOwned` is inductive with it: each way out of a sample is
  one of four shapes (nothing changes, some instances are forgotten, everything is,
  the fresh sample takes a place). `Comparable` is why utilizations are sound: a
  retained sample was taken of the shape its fingerprint names, and it is compared
  only under the fingerprint of now. `Visited` accounts for every device a pass has
  finished, and gives `GpmOrphans`.

`AppProofs`
: `IInv` has three parts: `Running` (the goroutines are where `Run` has brought
  them, what ended the application is a request or a known failure, flags are
  checked before anything is built on them), `Scraping` (slots are the scrapes in
  the handler, deadlines lie ahead) and `ProcessInOrder` (the service and the exit
  status follow `Run`). `AppRegistration` is a fact about paths: one that passes the
  validation is none of the routes. `AppImplementsLifetime` maps the initial states
  and each step to those of `Lifetime`.

`OperatorProofs`
: What `Resolve`, `SmiTable` and `Exporter` compute, for lists, tables and snapshots
  of any size. `Without`, `removeDuplicates`, `Keys` and `FlattenSeq` are folds of the
  community modules, which are recursive functions over the subsets of a finite set;
  `SubsetRecursion` shows that such a function exists, and `WithoutFold`,
  `FlattenFold` and their likes turn it into a recursion from one prefix to the next.
  The library's induction theorems take a predicate as an operator, which cannot be
  instantiated here, so the induction is the one over a well-founded *set*:
  `InductionNat` shows that the set of naturals with a property is all of them.
  On that rest: what is left of a list and in which order (`WithoutList`), that each
  element of a flattened list comes from one place of one part (`FlattenPlaces`), and
  hence that series which are unique within their parts and apart between them are
  unique in the whole (`FlattenUnique`). One lemma per render function says which
  series it sends and that each is sent once; `NamesApart` says that no two families
  share a name, which is what the reserved and the contested names of
  `BuildQFieldToMetricInfoMap` are for; `ScrapeRendered` is the whole scrape.

`PipelineProofs`
: `IInv` has one part for each thing that a scrape relies on. `StartupOK`: a list that
  is queried has each field once, the identity and nothing else that is excluded
  (`Serves`), was made of the command line it stands for, and its fields have the units
  of the header. `LockOK`: the demo's lock is with the collection that is under way,
  from its first call to the overlay, and the configuration it has read is valid.
  `ReadingOK`: what a collection has read lists each GPU, process and MIG device once
  (`Lists`), is no further than its stage (`Follows`) and of the configuration of the
  lock's holder (`OfOne`). `SynthOK`: the XID counters are numbers for finitely many
  pairs. No property of the run is inductive by itself: they speak of what is served
  in the end, and what is served was parsed and rendered from what was resolved and
  read several steps before. That a process query which has not been made yet is not
  recorded as attempted is part of `Follows` for this reason: without it a process
  query that fails could leave an earlier success standing beside its failure. `StartupKeeps` and one lemma per collection
  action show that steps preserve it (`PipelineInvariant`); `Published` and
  `SnapshotsAre` bring it into the form `ScrapeRendered` needs. The assumptions:
  - `InfoFieldsAssumption`, `MappingsAssumption`: the uuid is one of several identity
    fields; the built-in names and the catalogue have all of them; an old spelling of a
    catalogue field is no field's own (`nvidiasmi/resolve.go`, `nvmlnative/catalog.go`).
  - `CommandLinesAssumption`: the shape of the flags. `BuiltinAssumption`: a field has
    the unit in the built-in mapping that nvidia-smi prints for it; the code has no
    other source when it falls back to that mapping.
  - `WorldsAssumption`: the shape of what nvidia-smi prints and a configuration holds,
    and, of a valid configuration, that a GPU has a GPU instance and that a compute
    instance once, which is what `validate` rejects otherwise and how the instances are
    numbered (`demo/config.go:135-172`, `demo/config.go:204-242`).
  - `ListedOnceAssumption`: nvidia-smi does not list a GPU, or a process of a GPU,
    twice. It is needed for uniqueness, and nothing in the code replaces it.

Only model-checked: liveness and everything that rests on ENABLED (out of this
prover's reach), with it the fairness half of `ImplementsLifetime`. The models use no
recursive operators.

## 5. Not modelled

- The fake nvidia-smi and the parsing of captures: test doubles, sequential
  transformations of recorded text without state or failure to interleave.
- The Windows installer: a list of calls of the service manager.
- The field catalogue and the formatting of driver values: tables and wording; the
  resolution against the catalogue is in `Resolve`.
- The per-call guard (`nvmlnative/guard_nvml.go`): one look-up before each call,
  ninety times the same. Which export guards which call is data that only the
  driver's headers could confirm. The snapshot of the exports, which a generation
  replaces, is in `NvmlLifecycle` and gates the MIG path in `GpmRetention`.
- The XID accumulator's map (`nvmlnative/xid_nvml.go:22-95`): counters under a
  mutex, with one writer that only adds.
- Log lines and their handlers, the landing page, pprof's handlers.
- Demo: the energy integral, PCIe values and the validation of the file.

What could follow: the promise of a query that `Live` and `Cached` rely on, stated
abstractly and shown to be implemented by `NativeQuery`; and a composition of `App`
with `NvmlLifecycle`, in which `Close` and a watcher that is past its context check
meet at the end of the process (`app/app.go:626`).
