----------------------------- MODULE NativeQuery -----------------------------
(***************************************************************************)
(* The query of the native backend: QueryFunc runs each collection cycle   *)
(* in a goroutine of its own, which it abandons when the context ends; the *)
(* goroutine stays inside the driver, with the cycle lock b.mu, until the  *)
(* driver returns, and later queries are refused.  A cycle reads the       *)
(* devices three times over: for the table, whose failures are those of    *)
(* the query, for the process list and for the extras, which fail softly.  *)
(*                                                                         *)
(* One action is one lock or channel operation, one look at the context,   *)
(* or one return of the driver; reading one device (collectDevice with all *)
(* its getters) is one return.  A process whose pc is "init", "count" or   *)
(* "device" is inside the driver.  Of what was read the model keeps which  *)
(* devices and which generations of the library it was read from.          *)
(***************************************************************************)
EXTENDS Naturals

CONSTANTS
  Queries,         \* the calls of the query function
  Watcher,         \* stands for the event watcher, which recovers the driver
  NoOne,
  ComputeApps,     \* CollectOptions.ComputeApps
  MaxDevices,
  MaxGenerations   \* bound: how often NVML is initialized

ASSUME HolderAssumption == {Watcher, NoOne} \cap Queries = {}
ASSUME DistinctAssumption == Watcher # NoOne
ASSUME ComputeAppsAssumption == ComputeApps \in BOOLEAN
ASSUME NativeBoundAssumption == MaxDevices \in Nat /\ MaxGenerations \in Nat \ {0}

VARIABLES
  caller,        \* is the query function waiting, or has it answered
  ctxOver,       \* is the collection's context over
  answer,        \* what the query function has returned
  pc,            \* where the goroutine of each query is
  phase,         \* what its cycle is collecting
  count, next,   \* the devices counted, and the next one to read
  reading,       \* the Reading so far
  outcome,       \* what the goroutine has sent to resultCh
  mu,            \* the holder of b.mu
  initialized,   \* b.initialized
  generation,    \* b.generation
  (* External. *)
  devices,       \* how many devices the driver lists
  (* History. *)
  lost           \* the generations that reported a lifecycle error

callerVars == <<caller, ctxOver, answer>>
cycleVars  == <<phase, count, next, reading>>
libVars    == <<initialized, generation, lost>>
vars == <<callerVars, pc, cycleVars, outcome, mu, libVars, devices>>

Phases == {"table", "apps", "extras"}
PCs    == {"none", "try", "init", "begin", "count", "next", "device", "done"}
Errors == {"none", "plain", "fatal", "rejected", "abandoned"}

(* The devices in the table and those in the process list; the generations *)
(* that what it holds of any phase was read in.                            *)
EmptyReading ==
  [table |-> {}, counted |-> 0, apps |-> {}, appsOK |-> FALSE, readIn |-> {}]

(* An error comes with an empty Reading.                                   *)
Failed(err) == [err |-> err, reading |-> EmptyReading]
Good(r)     == [err |-> "none", reading |-> r]

Init ==
  /\ caller = [q \in Queries |-> "idle"]
  /\ ctxOver = [q \in Queries |-> FALSE]
  /\ answer = [q \in Queries |-> Failed("none")]
  /\ pc = [q \in Queries |-> "none"]
  /\ phase = [q \in Queries |-> "table"]
  /\ count = [q \in Queries |-> 0]
  /\ next = [q \in Queries |-> 0]
  /\ reading = [q \in Queries |-> EmptyReading]
  /\ outcome = [q \in Queries |-> Failed("none")]
  /\ mu = NoOne
  /\ initialized = TRUE
  /\ generation = 1
  /\ devices = MaxDevices
  /\ lost = {}

-----------------------------------------------------------------------------
(* The query function.                                                     *)

Ask(q) ==
  /\ caller[q] = "idle"
  /\ caller' = [caller EXCEPT ![q] = "waiting"]
  /\ pc' = [pc EXCEPT ![q] = "try"]
  /\ UNCHANGED <<ctxOver, answer, cycleVars, outcome, mu, libVars, devices>>

ContextEnds(q) ==
  /\ caller[q] = "waiting" /\ ~ctxOver[q]
  /\ ctxOver' = [ctxOver EXCEPT ![q] = TRUE]
  /\ UNCHANGED <<caller, answer, pc, cycleVars, outcome, mu, libVars, devices>>

Return(q, a) ==
  /\ caller[q] = "waiting"
  /\ caller' = [caller EXCEPT ![q] = "answered"]
  /\ answer' = [answer EXCEPT ![q] = a]
  /\ outcome' = [outcome EXCEPT ![q] = Failed("none")]
  /\ UNCHANGED <<ctxOver, pc, cycleVars, mu, libVars, devices>>

(* The two cases of the select.                                            *)
Receive(q) == pc[q] = "done" /\ Return(q, outcome[q])

(* Fault: the end of the context is not waited for.                        *)
FaultWaitsForCycle(q) == pc[q] = "done" /\ Return(q, Failed("abandoned"))

Abandon(q) == ctxOver[q] /\ Return(q, Failed("abandoned"))

-----------------------------------------------------------------------------
(* The lock, and the end of a cycle.                                       *)

Goto(q, l) == pc' = [pc EXCEPT ![q] = l]

(* The goroutine sends its result, having released the lock; what nobody   *)
(* waits for any more is forgotten, as are the variables of the cycle.     *)
Finish(q, out) ==
  /\ outcome' = [outcome EXCEPT ![q] =
                   IF caller[q] = "waiting" THEN out ELSE Failed("none")]
  /\ Goto(q, "done")
  /\ mu' = NoOne
  /\ phase' = [phase EXCEPT ![q] = "table"]
  /\ count' = [count EXCEPT ![q] = 0]
  /\ next' = [next EXCEPT ![q] = 0]
  /\ reading' = [reading EXCEPT ![q] = EmptyReading]

(* Faults: the cycle is refused nothing, or waits for its turn.            *)
FaultNoLock == TRUE
FaultQueuesUp(q) == FALSE

Free == mu = NoOne

Rejected(q) ==
  /\ pc[q] = "try" /\ mu # NoOne
  /\ outcome' = [outcome EXCEPT ![q] = Failed("rejected")]
  /\ Goto(q, "done")
  /\ UNCHANGED <<callerVars, cycleVars, mu, libVars, devices>>

TryLock(q) ==
  /\ pc[q] = "try" /\ Free
  /\ mu' = q
  /\ Goto(q, IF initialized THEN "count" ELSE "init")
  /\ UNCHANGED <<callerVars, cycleVars, outcome, libVars, devices>>

-----------------------------------------------------------------------------
(* The steps of a cycle, whose failures depend on the phase.               *)

(* The next phase begins; r is the Reading so far.                         *)
Proceed(q, ph, r) ==
  /\ phase' = [phase EXCEPT ![q] = ph]
  /\ reading' = [reading EXCEPT ![q] = r]
  /\ Goto(q, "begin")
  /\ UNCHANGED <<count, next, outcome, mu>>

(* Fault: a table that was cut short is served as far as it goes.          *)
FaultServesPart(q, err) ==
  \/ phase[q] = "table" /\ Finish(q, Good(reading[q]))
  \/ phase[q] = "apps" /\ Proceed(q, "extras", [reading[q] EXCEPT !.apps = {}])
  \/ phase[q] = "extras" /\ Finish(q, Good(reading[q]))

(* The phase fails: so does the query, with err, when it was the table;    *)
(* the process list is discarded; the extras are kept as far as they go.   *)
PhaseFails(q, err) ==
  \/ phase[q] = "table" /\ Finish(q, Failed(err))
  \/ phase[q] = "apps" /\ Proceed(q, "extras", [reading[q] EXCEPT !.apps = {}])
  \/ phase[q] = "extras" /\ Finish(q, Good(reading[q]))

InitFails(q) ==
  /\ pc[q] = "init"
  /\ Finish(q, Failed("fatal"))
  /\ UNCHANGED <<callerVars, libVars, devices>>

InitSucceeds(q) ==
  /\ pc[q] = "init"
  /\ generation < MaxGenerations
  /\ initialized' = TRUE
  /\ generation' = generation + 1
  /\ Goto(q, "count")
  /\ UNCHANGED <<callerVars, cycleVars, outcome, mu, lost, devices>>

(* Fault: the extras go on when the process list has lost the driver.      *)
FaultExtrasRegardless(q) ==
  /\ pc[q] = "begin"
  /\ IF phase[q] = "apps" /\ ctxOver[q]
       THEN PhaseFails(q, "plain")
       ELSE Goto(q, "count") /\ UNCHANGED <<cycleVars, outcome, mu>>
  /\ UNCHANGED <<callerVars, libVars, devices>>

(* The process list looks at the context first, the extras at the driver.  *)
BeginPhase(q) ==
  /\ pc[q] = "begin"
  /\ IF (phase[q] = "apps" /\ ctxOver[q]) \/ (phase[q] = "extras" /\ ~initialized)
       THEN PhaseFails(q, "plain")
       ELSE Goto(q, "count") /\ UNCHANGED <<cycleVars, outcome, mu>>
  /\ UNCHANGED <<callerVars, libVars, devices>>

(* The devices are counted.  No devices are an error of the table.         *)
Counted(q) ==
  /\ pc[q] = "count"
  /\ phase[q] = "table" => devices > 0
  /\ count' = [count EXCEPT ![q] = devices]
  /\ next' = [next EXCEPT ![q] = 0]
  /\ reading' = IF phase[q] = "table"
                  THEN [reading EXCEPT ![q].counted = devices] ELSE reading
  /\ Goto(q, "next")
  /\ UNCHANGED <<callerVars, phase, outcome, mu, libVars, devices>>

NextDevice(q) ==
  /\ pc[q] = "next"
  /\ next[q] < count[q] /\ ~ctxOver[q]
  /\ Goto(q, "device")
  /\ UNCHANGED <<callerVars, cycleVars, outcome, mu, libVars, devices>>

(* The context is found over before a device.                              *)
Interrupted(q) ==
  /\ pc[q] = "next" /\ next[q] < count[q] /\ ctxOver[q]
  /\ PhaseFails(q, "plain")
  /\ UNCHANGED <<callerVars, libVars, devices>>

(* Or between two readings of it, unless the processes are listed.         *)
DeviceInterrupted(q) ==
  /\ pc[q] = "device" /\ phase[q] # "apps" /\ ctxOver[q]
  /\ PhaseFails(q, "plain")
  /\ UNCHANGED <<callerVars, libVars, devices>>

(* What the phase keeps of the device.                                     *)
Keep(q, r) ==
  [r EXCEPT !.table  = IF phase[q] = "table" THEN @ \cup {next[q]} ELSE @,
            !.apps   = IF phase[q] = "apps" THEN @ \cup {next[q]} ELSE @,
            !.readIn = @ \cup {generation}]

ReadDevice(q) ==
  /\ pc[q] = "device"
  /\ next[q] < devices
  /\ reading' = [reading EXCEPT ![q] = Keep(q, @)]
  /\ next' = [next EXCEPT ![q] = @ + 1]
  /\ Goto(q, "next")
  /\ UNCHANGED <<callerVars, phase, count, outcome, mu, libVars, devices>>

(* A failure that is not of the lifecycle class; a field that cannot be    *)
(* read is a token in its cell and no failure.  Counting stands for the    *)
(* extras' other end before their loop too, when no family wants devices.  *)
CallFails(q) ==
  /\ pc[q] = "count" \/ (pc[q] = "device" /\ phase[q] # "extras")
  /\ PhaseFails(q, "plain")
  /\ UNCHANGED <<callerVars, libVars, devices>>

(* The extras skip a device that cannot be read.                           *)
ExtrasSkipDevice(q) ==
  /\ pc[q] = "device" /\ phase[q] = "extras"
  /\ next' = [next EXCEPT ![q] = @ + 1]
  /\ Goto(q, "next")
  /\ UNCHANGED <<callerVars, phase, count, reading, outcome, mu, libVars,
                 devices>>

(* A lifecycle error: markLost, in every phase.                            *)
DriverLost(q) ==
  /\ pc[q] \in {"count", "device"}
  /\ initialized' = FALSE
  /\ lost' = lost \cup {generation}
  /\ PhaseFails(q, "fatal")
  /\ UNCHANGED <<callerVars, generation, devices>>

PhaseOver(q) ==
  /\ pc[q] = "next" /\ next[q] = count[q]
  /\ \/ /\ phase[q] = "table"
        /\ Proceed(q, IF ComputeApps THEN "apps" ELSE "extras", reading[q])
     \/ /\ phase[q] = "apps"
        /\ Proceed(q, "extras", [reading[q] EXCEPT !.appsOK = TRUE])
     \/ /\ phase[q] = "extras"
        /\ Finish(q, Good(reading[q]))
  /\ UNCHANGED <<callerVars, libVars, devices>>

-----------------------------------------------------------------------------
(* The watcher's tryRecover, which shuts down what is initialized.         *)
WatcherTakes ==
  /\ mu = NoOne
  /\ mu' = Watcher
  /\ initialized' = FALSE
  /\ UNCHANGED <<callerVars, pc, cycleVars, outcome, generation, lost, devices>>

WatcherReleases ==
  /\ mu = Watcher
  /\ mu' = NoOne
  /\ \/ /\ generation < MaxGenerations
        /\ generation' = generation + 1
        /\ initialized' = TRUE
     \/ UNCHANGED <<generation, initialized>>
  /\ UNCHANGED <<callerVars, pc, cycleVars, outcome, lost, devices>>

(* Devices come and go.                                                    *)
DevicesChange ==
  /\ devices' \in (0 .. MaxDevices) \ {devices}
  /\ UNCHANGED <<callerVars, pc, cycleVars, outcome, mu, libVars>>

-----------------------------------------------------------------------------
GoroutineRuns(q) ==
  \/ Rejected(q) \/ TryLock(q) \/ BeginPhase(q) \/ NextDevice(q)
  \/ PhaseOver(q) \/ Interrupted(q)

DriverReturns(q) ==
  \/ InitFails(q) \/ InitSucceeds(q) \/ Counted(q) \/ DeviceInterrupted(q)
  \/ ReadDevice(q) \/ CallFails(q) \/ ExtrasSkipDevice(q) \/ DriverLost(q)

CallerRuns(q) == Receive(q) \/ Abandon(q)

Next ==
  \/ \E q \in Queries :
       \/ Ask(q) \/ ContextEnds(q) \/ CallerRuns(q)
       \/ GoroutineRuns(q) \/ DriverReturns(q)
  \/ WatcherTakes \/ WatcherReleases \/ DevicesChange

(* Goroutines are scheduled; the driver need never return, to a cycle or   *)
(* to the watcher, and no context need ever end.                           *)
Spec ==
  /\ Init /\ [][Next]_vars
  /\ \A q \in Queries : WF_vars(CallerRuns(q)) /\ WF_vars(GoroutineRuns(q))

-----------------------------------------------------------------------------
Readings ==
  [table : SUBSET (0 .. MaxDevices - 1), counted : 0 .. MaxDevices,
   apps : SUBSET (0 .. MaxDevices - 1), appsOK : BOOLEAN,
   readIn : SUBSET (1 .. MaxGenerations)]

Answers == [err : Errors, reading : Readings]

TypeOK ==
  /\ caller \in [Queries -> {"idle", "waiting", "answered"}]
  /\ ctxOver \in [Queries -> BOOLEAN]
  /\ answer \in [Queries -> Answers]
  /\ outcome \in [Queries -> Answers]
  /\ pc \in [Queries -> PCs]
  /\ phase \in [Queries -> Phases]
  /\ count \in [Queries -> 0 .. MaxDevices]
  /\ next \in [Queries -> 0 .. MaxDevices]
  /\ reading \in [Queries -> Readings]
  /\ mu \in Queries \cup {Watcher, NoOne}
  /\ initialized \in BOOLEAN
  /\ generation \in 1 .. MaxGenerations
  /\ devices \in 0 .. MaxDevices
  /\ lost \subseteq 1 .. generation

Served == {q \in Queries : caller[q] = "answered" /\ answer[q].err = "none"}

(* What a query serves of the devices was read in one generation of the    *)
(* driver library, whatever other queries, abandoned cycles and the        *)
(* watcher do meanwhile.                                                   *)
ReadingOfOneGeneration ==
  \A q \in Served :
    \A g, h \in answer[q].reading.readIn : g = h

(* No part of a table passes for the whole: a table that is served has a   *)
(* row for each device counted, and there is at least one; a process list  *)
(* has covered every device or is served as failed and empty.              *)
PartsAreWhole ==
  \A q \in Served :
    LET r == answer[q].reading
    IN  /\ r.counted > 0
        /\ r.table = 0 .. r.counted - 1
        /\ IF r.appsOK THEN \E n \in 0 .. MaxDevices : r.apps = 0 .. n - 1
                       ELSE r.apps = {}

(* After a lifecycle error, wherever in a cycle it was met, the driver is  *)
(* not called again before it has been initialized anew.                   *)
NoCallAfterLoss ==
  \A q \in Queries :
    pc[q] \in {"count", "device"} => initialized /\ generation \notin lost

(* Queries do not pile up behind a stuck driver call: each is answered, or *)
(* is itself the one that holds the driver.                                *)
AnsweredUnlessInDriver ==
  \A q \in Queries :
    caller[q] = "waiting" ~> (caller[q] = "answered" \/ mu = q)

(* A query is answered once its context is over, in the driver or not.     *)
AbandonedQueryEnds ==
  \A q \in Queries :
    (caller[q] = "waiting" /\ ctxOver[q]) ~> caller[q] = "answered"
=============================================================================
