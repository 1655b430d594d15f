---------------------------- MODULE NvmlLifecycle ----------------------------
(***************************************************************************)
(* The life of the NVML library inside the native backend: collection      *)
(* cycles, the XID event watcher and Close share one process-wide library  *)
(* that any lifecycle error tears down and the next cycle (or the watcher) *)
(* opens again.  mu serialises the cycles, recovery and Close; the reader- *)
(* writer lock lifecycleMu keeps a shutdown out of the watcher's driver    *)
(* calls; initialized is read under mu, generation and genLive are atomics *)
(* that the watcher reads one at a time without mu.                        *)
(*                                                                         *)
(* One action is one lock operation, one atomic access, or one return of a *)
(* driver call; a process whose pc names a driver call is inside it.       *)
(***************************************************************************)
EXTENDS Naturals

CONSTANTS
  Collectors,      \* the goroutines running collectCycle
  Watcher,         \* the goroutine running RunXIDWatcher
  Closer,          \* the goroutine that calls Close
  NoOne,
  Events,          \* does the driver support XID events
  Flaky,           \* may a driver call fail on a healthy driver
  MaxGenerations,  \* bound: how often NVML is initialized
  MaxFaults        \* bound: how often the driver dies

ASSUME ProcessAssumption ==
  /\ Watcher \notin Collectors
  /\ Closer \notin Collectors
  /\ Watcher # Closer
  /\ NoOne \notin Collectors \cup {Watcher, Closer}
ASSUME FlagAssumption == Events \in BOOLEAN /\ Flaky \in BOOLEAN
ASSUME BoundAssumption == MaxGenerations \in Nat /\ MaxFaults \in Nat

Procs == Collectors \cup {Watcher, Closer}

VARIABLES
  pc,           \* where each goroutine is
  mu,           \* the holder of b.mu
  initialized,  \* b.initialized
  generation,   \* b.generation
  genLive,      \* b.genLive
  avail,        \* b.avail has the event exports
  shared,       \* lifecycleMu is held shared, by the watcher
  attempt,      \* the blocking Lock of tryLifecycleLock, under mu
  late,         \* acquisitions still pending after their deadline
  lateHeld,     \* one of them holds the lock, to release it at once
  setGen,       \* the watcher's local generation
  setEra,       \* the library instance its event set belongs to
  healthy,      \* what xidWait is going to report
  ctxDone,      \* the application's context is over
  (* External: the driver library. *)
  open,         \* NVML is initialized in this process
  era,          \* counts the instances: a shutdown ends one
  driver,       \* is the kernel driver working
  stale,        \* it was reloaded since NVML was last initialized
  faults

lockVars    == <<shared, attempt, late, lateHeld>>
genVars     == <<initialized, generation, genLive, avail>>
setVars     == <<setGen, setEra, healthy>>
driverVars  == <<driver, stale, faults>>
libVars     == <<open, era>>
vars == <<pc, mu, genVars, lockVars, setVars, ctxDone, libVars, driverVars>>

(* Driver calls, other than the init call.                                 *)
WatcherCalls == {"create", "enum", "regFree", "wait", "free"}
DriverCalls  == WatcherCalls \cup {"call", "shutdown"}
WatcherPCs ==
  WatcherCalls \cup
  {"loop", "reg", "regLive", "regGen", "regAvail", "recover", "sleep",
   "waitLock", "drain", "drainLive", "drainGen", "freeLive", "freeGen",
   "exit"}
CommonPCs == {"init", "gen", "live", "lock", "shutdown"}
PCs == WatcherPCs \cup CommonPCs \cup {"idle", "call"}

(* Construction (newWithAPI) has opened NVML, generation 1.                *)
Init ==
  /\ pc = [p \in Procs |-> IF p = Watcher THEN "loop" ELSE "idle"]
  /\ mu = NoOne
  /\ initialized = TRUE
  /\ generation = 1
  /\ genLive = TRUE
  /\ avail = TRUE
  /\ shared = FALSE
  /\ attempt = "none"
  /\ late = 0
  /\ lateHeld = FALSE
  /\ setGen = 0
  /\ setEra = 0
  /\ healthy = TRUE
  /\ ctxDone = FALSE
  /\ open = TRUE
  /\ era = 0
  /\ driver = TRUE
  /\ stale = FALSE
  /\ faults = 0

Goto(p, l) == pc' = [pc EXCEPT ![p] = l]

(* Whether a driver call can succeed, and whether it can fail.             *)
Works    == driver /\ ~stale
MayFail  == ~Works \/ Flaky

-----------------------------------------------------------------------------
(* The driver.                                                             *)

DriverDies ==
  /\ driver
  /\ faults < MaxFaults
  /\ faults' = faults + 1
  /\ driver' = FALSE
  /\ UNCHANGED <<pc, mu, genVars, lockVars, setVars, ctxDone, libVars, stale>>

DriverReloads ==
  /\ ~driver
  /\ driver' = TRUE
  /\ stale' = TRUE
  /\ UNCHANGED <<pc, mu, genVars, lockVars, setVars, ctxDone, libVars, faults>>

Stop ==
  /\ ~ctxDone
  /\ ctxDone' = TRUE
  /\ UNCHANGED <<pc, mu, genVars, lockVars, setVars, libVars, driverVars>>

-----------------------------------------------------------------------------
(* lifecycleMu.  A pending Lock bars new readers.                          *)

WriterHolds == attempt = "acquired" \/ lateHeld

CanRLock == ~WriterHolds /\ attempt # "pending" /\ late = 0

(* The goroutine of tryLifecycleLock reaches Lock, and gets it.            *)
Announce ==
  /\ attempt = "spawned"
  /\ attempt' = "pending"
  /\ UNCHANGED <<pc, mu, genVars, shared, late, lateHeld, setVars, ctxDone,
                 libVars, driverVars>>

Acquire ==
  /\ attempt = "pending"
  /\ ~shared /\ ~WriterHolds
  /\ attempt' = "acquired"
  /\ UNCHANGED <<pc, mu, genVars, shared, late, lateHeld, setVars, ctxDone,
                 libVars, driverVars>>

(* An acquisition that lands after its deadline is released at once.       *)
LateAcquire ==
  /\ late > 0
  /\ ~shared /\ ~WriterHolds
  /\ late' = late - 1
  /\ lateHeld' = TRUE
  /\ UNCHANGED <<pc, mu, genVars, shared, attempt, setVars, ctxDone, libVars,
                 driverVars>>

LateRelease ==
  /\ lateHeld
  /\ lateHeld' = FALSE
  /\ UNCHANGED <<pc, mu, genVars, shared, attempt, late, setVars, ctxDone,
                 libVars, driverVars>>

-----------------------------------------------------------------------------
(* What cycles, the watcher's recovery and Close have in common.           *)

(* The part of markLost and Close up to tryLifecycleLock: the generation   *)
(* is declared dead before anything waits for the lock.                    *)
DeclareDead(p) ==
  /\ initialized' = FALSE
  /\ genLive' = FALSE
  /\ attempt' = "spawned"
  /\ Goto(p, "lock")
  /\ UNCHANGED <<generation, avail, shared, late, lateHeld, setVars, ctxDone,
                 libVars, driverVars>>

(* Where each goes once the shutdown has been done, or skipped.            *)
AfterShutdown(p) ==
  \/ /\ p \in Collectors
     /\ mu' = NoOne
     /\ Goto(p, "idle")
  \/ /\ p = Watcher           \* tryRecover goes on to initialize
     /\ mu' = mu
     /\ Goto(p, "init")
  \/ /\ p = Closer
     /\ mu' = NoOne
     /\ Goto(p, "exit")

Locked(p) ==
  /\ pc[p] = "lock"
  /\ attempt = "acquired"
  /\ Goto(p, "shutdown")
  /\ UNCHANGED <<mu, genVars, lockVars, setVars, ctxDone, libVars, driverVars>>

(* Fault: the lock is waited for without a deadline.                       *)
FaultNoDeadline(p) == FALSE

(* The two seconds are over, or both select cases were ready.              *)
Deadline(p) ==
  /\ pc[p] = "lock"
  /\ \/ attempt = "pending" /\ late' = late + 1 /\ UNCHANGED lateHeld
     \/ attempt = "acquired" /\ lateHeld' = TRUE /\ UNCHANGED late
  /\ attempt' = "none"
  /\ AfterShutdown(p)
  /\ UNCHANGED <<genVars, shared, setVars, ctxDone, libVars, driverVars>>

(* api.shutdown returns, and the deferred Unlock.                          *)
Shutdown(p) ==
  /\ pc[p] = "shutdown"
  /\ open' = FALSE
  /\ era' = era + 1
  /\ attempt' = "none"
  /\ AfterShutdown(p)
  /\ UNCHANGED <<genVars, shared, late, lateHeld, setVars, ctxDone,
                 driverVars>>

(* api.init returns.  On success the export snapshot is replaced too.      *)
InitFails(p) ==
  /\ pc[p] = "init"
  /\ ~driver \/ Flaky \/ generation >= MaxGenerations
  /\ mu' = NoOne
  /\ Goto(p, IF p = Watcher THEN "sleep" ELSE "idle")
  /\ UNCHANGED <<genVars, lockVars, setVars, ctxDone, libVars, driverVars>>

InitSucceeds(p) ==
  /\ pc[p] = "init"
  /\ driver
  /\ generation < MaxGenerations
  /\ open' = TRUE
  /\ stale' = FALSE
  /\ avail' \in IF Flaky THEN BOOLEAN ELSE {TRUE}
  /\ Goto(p, "gen")
  /\ UNCHANGED <<mu, initialized, generation, genLive, lockVars, setVars,
                 ctxDone, era, driver, faults>>

(* The generation counts up before it is announced live.                   *)
CountGeneration(p) ==
  /\ pc[p] = "gen"
  /\ initialized' = TRUE
  /\ generation' = generation + 1
  /\ Goto(p, "live")
  /\ UNCHANGED <<mu, genLive, avail, lockVars, setVars, ctxDone, libVars,
                 driverVars>>

AnnounceLive(p) ==
  /\ pc[p] = "live"
  /\ genLive' = TRUE
  /\ \/ p \in Collectors /\ Goto(p, "call") /\ mu' = mu
     \/ p = Watcher /\ Goto(p, "sleep") /\ mu' = NoOne
  /\ UNCHANGED <<initialized, generation, avail, lockVars, setVars, ctxDone,
                 libVars, driverVars>>

-----------------------------------------------------------------------------
(* A collection cycle.  When TryLock fails the cycle ends at once, having  *)
(* changed nothing.                                                        *)

BeginCycle(k) ==
  /\ pc[k] = "idle"
  /\ mu = NoOne
  /\ mu' = k
  /\ Goto(k, IF initialized THEN "call" ELSE "init")
  /\ UNCHANGED <<genVars, lockVars, setVars, ctxDone, libVars, driverVars>>

(* A driver call returns and ends the cycle: the last one, one that failed *)
(* without the generation being lost, or one after which the context of    *)
(* the collection is found over, whatever has become of the driver.        *)
EndCycle(k) ==
  /\ pc[k] = "call"
  /\ mu' = NoOne
  /\ Goto(k, "idle")
  /\ UNCHANGED <<genVars, lockVars, setVars, ctxDone, libVars, driverVars>>

(* A lifecycle error, in the table, the process list or the extras.        *)
CycleLosesDriver(k) ==
  /\ pc[k] = "call"
  /\ MayFail
  /\ DeclareDead(k)
  /\ UNCHANGED mu

-----------------------------------------------------------------------------
(* Close.                                                                  *)

CloseSkipped ==
  /\ pc[Closer] = "idle" /\ ctxDone
  /\ mu # NoOne \/ ~initialized
  /\ Goto(Closer, "exit")
  /\ UNCHANGED <<mu, genVars, lockVars, setVars, ctxDone, libVars, driverVars>>

Close ==
  /\ pc[Closer] = "idle" /\ ctxDone
  /\ mu = NoOne /\ initialized
  /\ mu' = Closer
  /\ DeclareDead(Closer)

-----------------------------------------------------------------------------
(* The watcher.                                                            *)

WatcherStep(from, to) == pc[Watcher] = from /\ Goto(Watcher, to)

(* A step that reads, or moves on, and writes nothing else.                *)
WatcherMoves(from, to) ==
  /\ WatcherStep(from, to)
  /\ UNCHANGED <<mu, genVars, lockVars, setVars, ctxDone, libVars, driverVars>>

(* Fault: the watcher calls the driver without the lock.                   *)
FaultNoRLock(from, to) == WatcherMoves(from, to)

RLock(from, to) ==
  /\ WatcherStep(from, to)
  /\ CanRLock
  /\ shared' = TRUE
  /\ UNCHANGED <<mu, genVars, attempt, late, lateHeld, setVars, ctxDone,
                 libVars, driverVars>>

RUnlock(from, to) ==
  /\ WatcherStep(from, to)
  /\ shared' = FALSE
  /\ UNCHANGED <<mu, genVars, attempt, late, lateHeld, setVars, ctxDone,
                 libVars, driverVars>>

Loop == WatcherMoves("loop", IF ctxDone THEN "exit" ELSE "reg")

(* xidRegister: genLive, generation and avail are three separate loads.    *)
RegLock == RLock("reg", "regLive")

RegLive ==
  \/ ~genLive /\ RUnlock("regLive", "recover")
  \/ genLive /\ WatcherMoves("regLive", "regGen")

RegGen ==
  /\ WatcherStep("regGen", "regAvail")
  /\ setGen' = generation
  /\ UNCHANGED <<mu, genVars, lockVars, setEra, healthy, ctxDone, libVars,
                 driverVars>>

RegAvail ==
  \/ ~avail /\ RUnlock("regAvail", "recover")
  \/ avail /\ WatcherMoves("regAvail", "create")

CreateSet ==
  \/ /\ Works
     /\ WatcherStep("create", "enum")
     /\ setEra' = era
     /\ UNCHANGED <<mu, genVars, lockVars, setGen, healthy, ctxDone, libVars,
                    driverVars>>
  \/ MayFail /\ RUnlock("create", "recover")

(* Counting and registering the devices: at least one, or none at all.     *)
RegisterDevices ==
  \/ Works /\ Events /\ RUnlock("enum", "waitLock")
  \/ (MayFail \/ ~Events) /\ WatcherMoves("enum", "regFree")

RegFree == RUnlock("regFree", "recover")

(* Fault: an initialized backend is taken for a healthy one.               *)
FaultTrustInitialized ==
  /\ pc[Watcher] = "recover"
  /\ IF mu # NoOne \/ initialized
       THEN WatcherMoves("recover", "sleep")
       ELSE /\ mu' = Watcher
            /\ Goto(Watcher, "init")
            /\ UNCHANGED <<genVars, lockVars, setVars, ctxDone, libVars,
                           driverVars>>

(* tryRecover, up to the shutdown or the init it asks for.                 *)
Recover ==
  /\ pc[Watcher] = "recover"
  /\ \/ /\ mu # NoOne
        /\ WatcherMoves("recover", "sleep")
     \/ /\ mu = NoOne /\ mu' = Watcher
        /\ initialized
        /\ DeclareDead(Watcher)
     \/ /\ mu = NoOne /\ mu' = Watcher
        /\ ~initialized
        /\ Goto(Watcher, "init")
        /\ UNCHANGED <<genVars, lockVars, setVars, ctxDone, libVars,
                       driverVars>>

Sleep == WatcherMoves("sleep", IF ctxDone THEN "exit" ELSE "loop")

(* xidWait.                                                                *)
WaitLock == RLock("waitLock", "drain")

Drain == WatcherMoves("drain", IF ctxDone THEN "freeLive" ELSE "drainLive")

(* Faults: the generation is not looked at again under the lock, or only   *)
(* whether one is live.                                                    *)
FaultNotLookedAt == WatcherMoves("drainLive", "drainGen")
FaultAnyGeneration == WatcherMoves("drainGen", "wait")

DrainLive ==
  WatcherMoves("drainLive", IF genLive THEN "drainGen" ELSE "freeLive")

DrainGen ==
  WatcherMoves("drainGen", IF generation = setGen THEN "wait" ELSE "freeLive")

(* An event or the one-second timeout; or the wait itself fails.           *)
WaitReturns ==
  \/ Works /\ RUnlock("wait", "waitLock")
  \/ /\ MayFail
     /\ WatcherStep("wait", "freeLive")
     /\ healthy' = FALSE
     /\ UNCHANGED <<mu, genVars, lockVars, setGen, setEra, ctxDone, libVars,
                    driverVars>>

(* xidWait returns, to register again or to back off first.                *)
LeaveWait(from) ==
  /\ WatcherStep(from, IF healthy THEN "loop" ELSE "sleep")
  /\ shared' = FALSE
  /\ healthy' = TRUE
  /\ setGen' = 0 /\ setEra' = 0
  /\ UNCHANGED <<mu, genVars, attempt, late, lateHeld, ctxDone, libVars,
                 driverVars>>

(* The set is freed only if its generation is (still) alive.               *)
FreeLive ==
  \/ genLive /\ WatcherMoves("freeLive", "freeGen")
  \/ ~genLive /\ LeaveWait("freeLive")

FreeGen ==
  \/ generation = setGen /\ WatcherMoves("freeGen", "free")
  \/ generation # setGen /\ LeaveWait("freeGen")

FreeSet == LeaveWait("free")

(* The watcher's own steps, and those that are a return from the driver.   *)
WatcherRuns ==
  \/ Loop \/ RegLock \/ RegLive \/ RegGen \/ RegAvail \/ Recover \/ Sleep
  \/ WaitLock \/ Drain \/ DrainLive \/ DrainGen \/ FreeLive \/ FreeGen

WatcherReturns ==
  CreateSet \/ RegisterDevices \/ RegFree \/ WaitReturns \/ FreeSet

-----------------------------------------------------------------------------
LibraryStep(p) ==
  \/ Locked(p) \/ Deadline(p) \/ Shutdown(p) \/ InitFails(p)
  \/ InitSucceeds(p) \/ CountGeneration(p) \/ AnnounceLive(p)

CycleReturns(k) == EndCycle(k) \/ CycleLosesDriver(k)

LockStep == Announce \/ Acquire \/ LateAcquire \/ LateRelease

Next ==
  \/ \E p \in Procs : LibraryStep(p)
  \/ \E k \in Collectors : BeginCycle(k) \/ CycleReturns(k)
  \/ CloseSkipped \/ Close
  \/ WatcherRuns \/ WatcherReturns
  \/ LockStep
  \/ DriverDies \/ DriverReloads \/ Stop

Spec == Init /\ [][Next]_vars

(* Goroutines are scheduled, timers fire, and init and shutdown return; no *)
(* other driver call need ever return, and nothing need ever scrape.       *)
WedgedSpec ==
  /\ Spec
  /\ WF_vars(WatcherRuns)
  /\ WF_vars(Announce) /\ WF_vars(Acquire)
  /\ WF_vars(LateAcquire) /\ WF_vars(LateRelease)
  /\ \A p \in Procs : WF_vars(LibraryStep(p))

-----------------------------------------------------------------------------
TypeOK ==
  /\ pc \in [Procs -> PCs]
  /\ mu \in Procs \cup {NoOne}
  /\ initialized \in BOOLEAN
  /\ generation \in Nat
  /\ genLive \in BOOLEAN
  /\ avail \in BOOLEAN
  /\ shared \in BOOLEAN
  /\ attempt \in {"none", "spawned", "pending", "acquired"}
  /\ late \in Nat
  /\ lateHeld \in BOOLEAN
  /\ setGen \in Nat
  /\ setEra \in Nat
  /\ healthy \in BOOLEAN
  /\ ctxDone \in BOOLEAN
  /\ open \in BOOLEAN
  /\ era \in Nat
  /\ driver \in BOOLEAN
  /\ stale \in BOOLEAN
  /\ faults \in Nat

(* No goroutine is ever inside a driver call on a library that has been    *)
(* torn down: not the watcher, which does not hold mu, whichever way its   *)
(* reads of genLive and generation interleave with losing the driver,      *)
(* skipped shutdowns and re-initialization, and not a collection cycle.    *)
DriverCallsOnOpenLibrary == \A p \in Procs : pc[p] \in DriverCalls => open

(* A shutdown call never overlaps a driver call of the watcher, even one   *)
(* that outlives the deadline, and only one goroutine shuts down.          *)
ShutdownExcludesWatcher ==
  \A p \in Procs : pc[p] = "shutdown" =>
    /\ pc[Watcher] \notin WatcherCalls
    /\ \A q \in Procs \ {p} : pc[q] # "shutdown"

(* The event set the watcher registers, waits on or frees was created in   *)
(* the library instance that is loaded now: a set reclaimed by a shutdown  *)
(* is never touched again, although a later generation is live by then.    *)
SetBelongsToLibrary ==
  pc[Watcher] \in {"enum", "regFree", "wait", "free"} => setEra = era

(* A lost driver never hangs a collection (or a scrape behind its lock)    *)
(* on a watcher that is stuck inside the driver.                           *)
NoCycleHangsOnWatcher == \A k \in Collectors : pc[k] = "lock" ~> mu # k

(* However the driver dies and comes back, and with nothing scraping, the  *)
(* watcher is waiting for events again, on a live event set, provided the  *)
(* driver calls return, a dead driver is reloaded, and the cycles that     *)
(* meet it (and keep mu from the watcher meanwhile) are not cut short by   *)
(* their context time and again.                                           *)
EventCollectionRecovers ==
  /\ WF_vars(WatcherReturns)
  /\ \A k \in Collectors :
       WF_vars(CycleReturns(k)) /\ SF_vars(CycleLosesDriver(k))
  /\ WF_vars(DriverReloads)
  => []<>(ctxDone \/ (pc[Watcher] = "wait" /\ setEra = era))

(* Contradicted by the code, see the README: the watcher's recovery        *)
(* replaces a generation only when the driver has failed.                  *)
HealthyGenerationKept ==
  faults = 0 /\ ~ctxDone => genLive /\ generation = 1
=============================================================================
