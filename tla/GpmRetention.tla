---------------------------- MODULE GpmRetention ----------------------------
(***************************************************************************)
(* The GPM samples the native backend retains between collection cycles to *)
(* compute the activity of MIG GPU instances: one per GPU instance,        *)
(* allocated and freed through the driver, invalidated when the instance's *)
(* fingerprint changes or the window grows too long, rotated, dropped for  *)
(* instances that disappeared, and released when the driver is lost.  The  *)
(* pass over the devices that visits them (collectExtras) is modelled with *)
(* every reason it has to skip a device or to end early.  The cycle holds  *)
(* b.mu throughout, so the only interleavings are with the MIG             *)
(* configuration, the clock and the request's context.                     *)
(*                                                                         *)
(* Devices and instances are visited in index order by the code, in any    *)
(* order here.  A fingerprint stands for the profile and members of an     *)
(* instance; recreating the exact same shape under the same id, which the  *)
(* documentation calls indistinguishable, does not happen here.            *)
(***************************************************************************)
EXTENDS Naturals, FiniteSets

CONSTANTS
  Devices,
  Instances,      \* the (device, numeric GI id) keys of b.gpm
  DeviceOf,       \* the parent of each
  Handles,        \* GPM sample handles
  None,
  MinWindow, MaxWindow,
  MaxShapes,      \* bound: how many shapes the instances ever take
  GpmExports,     \* may the driver export all GPM entry points, or not
  Flaky,          \* may an enumeration miss a device or an instance
  MetricsMayLose  \* may gpmMetricsGet report a lifecycle error

ASSUME ParentAssumption == DeviceOf \in [Instances -> Devices]
ASSUME NoneAssumption == None \notin Handles \cup Instances \cup Devices
ASSUME WindowAssumption ==
  MinWindow \in Nat /\ MaxWindow \in Nat /\ MinWindow <= MaxWindow
ASSUME ShapeAssumption == MaxShapes \in Nat
ASSUME GpmFlagAssumption ==
  /\ GpmExports \subseteq BOOLEAN /\ GpmExports # {}
  /\ Flaky \in BOOLEAN /\ MetricsMayLose \in BOOLEAN

VARIABLES
  pc,            \* where the cycle is
  initialized,   \* b.initialized
  gpm,           \* b.gpm: the retained state of each instance, or NoState
  left,          \* devices the pass has not finished
  seen,          \* seenGIs
  device,        \* the device being visited
  groups,        \* its instances still to be sampled
  prints,        \* their fingerprints, as enumerated in this cycle
  gi,            \* the instance being sampled
  fresh,         \* the sample allocated for it
  ctxOver,       \* the collection's context is over
  exported,      \* b.avail has all the GPM entry points
  (* External: the driver. *)
  shape,         \* the shape of each instance, 0 when there is none
  shapes,        \* how many there have been
  allocated,     \* handles allocated and not freed
  content,       \* the shape of the instance a handle has sampled
  open,          \* NVML is initialized
  (* History. *)
  doubleFree,    \* a handle was freed that was not allocated
  lateFree,      \* a handle was freed after NVML was shut down
  report,        \* the utilization reported last
  overlooked     \* instances this pass has skipped or not enumerated

cycleVars  == <<left, seen, overlooked, device, groups, prints, gi, fresh>>
driverVars == <<shape, shapes>>
freeVars   == <<allocated, content, doubleFree, lateFree>>
vars == <<pc, initialized, gpm, cycleVars, ctxOver, driverVars, freeVars,
          exported, open, report>>

NoState  == [sample |-> None, age |-> 0, print |-> None, last |-> None]
NoReport == [from |-> 0, to |-> 0, window |-> MinWindow, actual |-> 0]

(* A fingerprint: the shape, and whether every member was enumerated.      *)
Prints == (Nat \X BOOLEAN) \cup {None}

InstancesOf(d) == {k \in Instances : DeviceOf[k] = d}
Retained       == {k \in Instances : gpm[k] # NoState}
SamplesOf(K)   == {gpm[k].sample : k \in K \cap Retained}

Init ==
  /\ pc = "idle"
  /\ initialized = TRUE
  /\ gpm = [k \in Instances |-> NoState]
  /\ left = {} /\ seen = {} /\ groups = {}
  /\ device = None /\ gi = None /\ fresh = None
  /\ prints = [k \in Instances |-> None]
  /\ ctxOver = FALSE
  /\ shape = [k \in Instances |-> 1]
  /\ shapes = 1
  /\ allocated = {}
  /\ content = [h \in Handles |-> 0]
  /\ exported \in GpmExports
  /\ open = TRUE
  /\ doubleFree = FALSE /\ lateFree = FALSE
  /\ report = NoReport
  /\ overlooked = {}

(* gpmSampleFree for each handle of H, while NVML is open or not.          *)
Free(H, whileOpen) ==
  /\ allocated' = allocated \ H
  /\ doubleFree' = (doubleFree \/ ~(H \subseteq allocated))
  /\ lateFree' = (lateFree \/ (H # {} /\ ~whileOpen))
  /\ content' = [h \in Handles |-> IF h \in H THEN 0 ELSE content[h]]

Forget(K) == gpm' = [k \in Instances |-> IF k \in K THEN NoState ELSE gpm[k]]

EndCycle ==
  /\ pc' = "idle"
  /\ seen' = {} /\ overlooked' = {} /\ groups' = {}
  /\ device' = None /\ gi' = None /\ fresh' = None
  /\ prints' = [k \in Instances |-> None]

(* markLost, after which the cycle ends: the retained samples are freed,   *)
(* NVML is shut down (or that is skipped behind a wedged watcher), and     *)
(* then whatever else the caller still frees.                              *)
MarkLostThenFree(H) ==
  /\ initialized' = FALSE
  /\ open' \in BOOLEAN
  /\ Forget(Instances)
  /\ LET retained == SamplesOf(Instances)
     IN  /\ allocated' = allocated \ (retained \cup H)
         /\ doubleFree' = (\/ doubleFree
                           \/ ~((retained \cup H) \subseteq allocated)
                           \/ retained \cap H # {})
         /\ lateFree' = (lateFree \/ (H # {} /\ ~open'))
         /\ content' = [h \in Handles |->
                          IF h \in retained \cup H THEN 0 ELSE content[h]]

LoseDriver ==
  /\ MarkLostThenFree({})
  /\ EndCycle
  /\ UNCHANGED <<left, ctxOver, driverVars, exported, report>>

-----------------------------------------------------------------------------
(* The surroundings.                                                       *)

(* An administrator recreates or destroys an instance between two cycles.  *)
Reconfigure(k) ==
  /\ pc = "idle"
  /\ \/ /\ shapes < MaxShapes
        /\ shapes' = shapes + 1
        /\ shape' = [shape EXCEPT ![k] = shapes + 1]
     \/ /\ shape[k] # 0
        /\ shape' = [shape EXCEPT ![k] = 0]
        /\ UNCHANGED shapes
  /\ UNCHANGED <<pc, initialized, gpm, cycleVars, ctxOver, freeVars, exported,
                 open, report>>

(* Time passes, though not noticeably from the clock reading at the top of *)
(* gpmUtilization to its end.  Ages count up to just past MaxWindow.       *)
Tick ==
  /\ pc \in {"idle", "extras", "sample"}
  /\ \E k \in Retained : gpm[k].age <= MaxWindow
  /\ gpm' = [k \in Instances |->
               IF gpm[k] # NoState /\ gpm[k].age <= MaxWindow
                 THEN [gpm[k] EXCEPT !.age = @ + 1] ELSE gpm[k]]
  /\ UNCHANGED <<pc, initialized, cycleVars, ctxOver, driverVars, freeVars,
                 exported, open, report>>

ContextEnds ==
  /\ pc # "idle" /\ ~ctxOver
  /\ ctxOver' = TRUE
  /\ UNCHANGED <<pc, initialized, gpm, cycleVars, driverVars, freeVars,
                 exported, open, report>>

-----------------------------------------------------------------------------
(* The cycle up to the extras, and Close between cycles.                   *)

BeginCycle ==
  /\ pc = "idle"
  /\ initialized' = TRUE
  /\ IF initialized THEN UNCHANGED exported
       ELSE exported' \in GpmExports     \* api.init, refreshAvailability
  /\ open' = TRUE
  /\ pc' = "extras"
  /\ left' = Devices
  /\ ctxOver' = FALSE
  /\ UNCHANGED <<gpm, seen, overlooked, device, groups, prints, gi, fresh,
                 driverVars, freeVars, report>>

(* Fault: Close does not release the samples.                              *)
FaultCloseKeeps ==
  /\ pc = "idle" /\ initialized
  /\ initialized' = FALSE
  /\ open' = FALSE
  /\ UNCHANGED <<pc, gpm, cycleVars, ctxOver, driverVars, freeVars, exported,
                 report>>

Close ==
  /\ pc = "idle" /\ initialized
  /\ LoseDriver

(* The table fails, or the devices cannot be counted, without a lifecycle  *)
(* error: the pass is not begun.                                           *)
PassNotBegun ==
  /\ pc = "extras" /\ left = Devices
  /\ Flaky
  /\ EndCycle
  /\ UNCHANGED <<initialized, gpm, left, ctxOver, driverVars, freeVars,
                 exported, open, report>>

(* A lifecycle error in the table, the process list, or at any call of the *)
(* extras up to the sampling.                                              *)
LoseDriverEarly ==
  /\ pc = "extras" /\ left # {}
  /\ LoseDriver

-----------------------------------------------------------------------------
(* collectExtras, device by device.                                        *)

(* Fault: a pass that ends early drops what it has not seen.               *)
FaultDropUnreached ==
  /\ pc = "extras" /\ left # {} /\ ctxOver
  /\ Free(SamplesOf(Instances \ seen), open)
  /\ Forget(Instances \ seen)
  /\ EndCycle
  /\ UNCHANGED <<initialized, left, ctxOver, driverVars, exported, open,
                 report>>

Interrupted ==
  /\ pc = "extras" /\ left # {} /\ ctxOver
  /\ EndCycle
  /\ UNCHANGED <<initialized, gpm, left, ctxOver, driverVars, freeVars,
                 exported, open, report>>

(* The device cannot be read, without a lifecycle error; or its MIG mode   *)
(* is off; or MIG activity is not supported or not probed for it.          *)
PassOver(d) ==
  /\ left' = left \ {d}
  /\ pc' = "extras"
  /\ UNCHANGED <<initialized, gpm, device, groups, prints, gi, fresh, ctxOver,
                 driverVars, freeVars, exported, open, report>>

SkipDevice(d) ==
  /\ pc = "extras" /\ d \in left
  /\ Flaky
  /\ PassOver(d)
  /\ overlooked' = overlooked \cup InstancesOf(d)
  /\ UNCHANGED seen

(* enumerateMIG has listed the instances K of the device, some perhaps     *)
(* without all their members.                                              *)
Enumerated(d, K) ==
  /\ pc = "extras" /\ d \in left
  /\ K \subseteq {k \in InstancesOf(d) : shape[k] # 0}
  /\ Flaky \/ K = {k \in InstancesOf(d) : shape[k] # 0}

InventoryOnly(d) ==
  \E K \in SUBSET Instances :
    /\ Enumerated(d, K)
    /\ K # {} => exported
    /\ seen' = seen \cup K
    /\ overlooked' = overlooked \cup (InstancesOf(d) \ K)
    /\ PassOver(d)

(* Without all the GPM exports collectMIG reports false, and the pass ends.*)
GpmMissing(d) ==
  \E K \in SUBSET Instances :
    /\ Enumerated(d, K)
    /\ K # {}
    /\ ~exported
    /\ left' = left \ {d}
    /\ EndCycle
    /\ UNCHANGED <<initialized, gpm, ctxOver, driverVars, freeVars, exported,
                   open, report>>

BeginSampling(d) ==
  \E K \in SUBSET Instances :
    /\ Enumerated(d, K)
    /\ K # {}
    /\ exported
    /\ pc' = "sample"
    /\ seen' = seen \cup K
    /\ overlooked' = overlooked \cup (InstancesOf(d) \ K)
    /\ device' = d
    /\ groups' = K
    /\ \E full \in [K -> IF Flaky THEN BOOLEAN ELSE {TRUE}] :
         prints' = [k \in Instances |->
                      IF k \in K THEN <<shape[k], full[k]>> ELSE None]
    /\ UNCHANGED <<initialized, gpm, left, gi, fresh, ctxOver, driverVars,
                   freeVars, exported, open, report>>

(* A complete pass ends by dropping the samples of instances not seen.     *)
EndPass ==
  /\ pc = "extras" /\ left = {}
  /\ Free(SamplesOf(Instances \ seen), open)
  /\ Forget(Instances \ seen)
  /\ EndCycle
  /\ UNCHANGED <<initialized, left, ctxOver, driverVars, exported, open,
                 report>>

-----------------------------------------------------------------------------
(* gpmUtilization, instance by instance.                                   *)

(* Fault: the fingerprint is not compared.                                 *)
FaultOnlyAge(k) == gpm[k] # NoState /\ gpm[k].age > MaxWindow

Invalid(k) ==
  /\ gpm[k] # NoState
  /\ gpm[k].print # prints[k] \/ gpm[k].age > MaxWindow

Anchored(k) ==
  gpm[k] # NoState /\ ~Invalid(k) /\ gpm[k].age < MinWindow

Invalidate(k) ==
  /\ pc = "sample" /\ k \in groups
  /\ Invalid(k)
  /\ Free({gpm[k].sample}, open)
  /\ Forget({k})
  /\ pc' = "alloc" /\ gi' = k
  /\ UNCHANGED <<initialized, left, seen, overlooked, device, groups, prints,
                 fresh, ctxOver, driverVars, exported, open, report>>

(* Too soon after the last sample: the last values are served again.       *)
ServeLast(k) ==
  /\ pc = "sample" /\ k \in groups
  /\ Anchored(k)
  /\ groups' = groups \ {k}
  /\ report' = IF gpm[k].last = None THEN report
                 ELSE [gpm[k].last EXCEPT !.actual = shape[k]]
  /\ UNCHANGED <<pc, initialized, gpm, left, seen, overlooked, device, prints,
                 gi, fresh, ctxOver, driverVars, freeVars, exported, open>>

Proceed(k) ==
  /\ pc = "sample" /\ k \in groups
  /\ ~Invalid(k) /\ ~Anchored(k)
  /\ pc' = "alloc" /\ gi' = k
  /\ UNCHANGED <<initialized, gpm, left, seen, overlooked, device, groups,
                 prints, fresh, ctxOver, driverVars, freeVars, exported, open,
                 report>>

NextInstance ==
  /\ pc' = "sample"
  /\ groups' = groups \ {gi}
  /\ gi' = None /\ fresh' = None

AllocSample ==
  /\ pc = "alloc"
  /\ \/ \E h \in Handles \ allocated :
          /\ allocated' = allocated \cup {h}
          /\ fresh' = h
          /\ pc' = "get"
          /\ UNCHANGED <<groups, gi>>
     \/ NextInstance /\ UNCHANGED allocated
  /\ UNCHANGED <<initialized, gpm, left, seen, overlooked, device, prints,
                 ctxOver, driverVars, doubleFree, lateFree, content, exported,
                 open, report>>

AllocLosesDriver == pc = "alloc" /\ LoseDriver

(* The first sample of an instance is only retained.                       *)
SeedSample ==
  /\ pc = "get"
  /\ gpm[gi] = NoState
  /\ content' = [content EXCEPT ![fresh] = shape[gi]]
  /\ gpm' = [gpm EXCEPT ![gi] = [sample |-> fresh, age |-> 0,
                                 print |-> prints[gi], last |-> None]]
  /\ NextInstance
  /\ UNCHANGED <<initialized, left, seen, overlooked, device, prints, ctxOver,
                 driverVars, allocated, doubleFree, lateFree, exported, open,
                 report>>

TakeSample ==
  /\ pc = "get"
  /\ gpm[gi] # NoState
  /\ content' = [content EXCEPT ![fresh] = shape[gi]]
  /\ pc' = "metrics"
  /\ UNCHANGED <<initialized, gpm, cycleVars, ctxOver, driverVars, allocated,
                 doubleFree, lateFree, exported, open, report>>

(* Fault: the sample that could not be filled is not freed.                *)
FaultLeak ==
  /\ pc = "get"
  /\ NextInstance
  /\ UNCHANGED <<initialized, gpm, left, seen, overlooked, device, prints,
                 ctxOver, driverVars, freeVars, exported, open, report>>

SampleFails ==
  /\ pc = "get"
  /\ Free({fresh}, open)
  /\ NextInstance
  /\ UNCHANGED <<initialized, gpm, left, seen, overlooked, device, prints,
                 ctxOver, driverVars, exported, open, report>>

(* The fresh sample is freed first, then markLost.                         *)
SampleLosesDriver ==
  /\ pc = "get"
  /\ initialized' = FALSE
  /\ open' \in BOOLEAN
  /\ Forget(Instances)
  /\ Free({fresh} \cup SamplesOf(Instances), open)
  /\ EndCycle
  /\ UNCHANGED <<left, ctxOver, driverVars, exported, report>>

(* gpmMetrics succeeds, or fails without a lifecycle error; either way the *)
(* fresh sample replaces the retained one.                                 *)
Rotate ==
  /\ pc = "metrics"
  /\ Free({gpm[gi].sample}, open)
  /\ \E ok \in BOOLEAN :
       LET util == [from |-> content[gpm[gi].sample], to |-> content[fresh],
                    window |-> gpm[gi].age, actual |-> shape[gi]]
       IN  /\ report' = IF ok THEN util ELSE report
           /\ gpm' = [gpm EXCEPT ![gi] =
                        [sample |-> fresh, age |-> 0, print |-> gpm[gi].print,
                         last |-> IF ok THEN util ELSE None]]
  /\ NextInstance
  /\ UNCHANGED <<initialized, left, seen, overlooked, device, prints, ctxOver,
                 driverVars, exported, open>>

(* A lifecycle error: gpmMetrics has called markLost by the time the fresh *)
(* sample is freed.                                                        *)
MetricsLoseDriver ==
  /\ pc = "metrics"
  /\ MetricsMayLose
  /\ MarkLostThenFree({fresh})
  /\ EndCycle
  /\ UNCHANGED <<left, ctxOver, driverVars, exported, report>>

EndDevice ==
  /\ pc = "sample" /\ groups = {}
  /\ left' = left \ {device}
  /\ pc' = "extras"
  /\ device' = None
  /\ prints' = [k \in Instances |-> None]
  /\ UNCHANGED <<initialized, gpm, seen, overlooked, groups, gi, fresh,
                 ctxOver, driverVars, freeVars, exported, open, report>>

-----------------------------------------------------------------------------
Next ==
  \/ \E k \in Instances : Reconfigure(k)
  \/ Tick \/ ContextEnds
  \/ BeginCycle \/ Close \/ PassNotBegun \/ LoseDriverEarly \/ Interrupted
  \/ \E d \in Devices :
       SkipDevice(d) \/ InventoryOnly(d) \/ GpmMissing(d) \/ BeginSampling(d)
  \/ \E k \in Instances : Invalidate(k) \/ ServeLast(k) \/ Proceed(k)
  \/ AllocSample \/ AllocLosesDriver
  \/ SeedSample \/ TakeSample \/ SampleFails \/ SampleLosesDriver
  \/ Rotate \/ MetricsLoseDriver
  \/ EndDevice \/ EndPass

Spec == Init /\ [][Next]_vars

-----------------------------------------------------------------------------
Reports == [from : Nat, to : Nat, window : Nat, actual : Nat]

States ==
  [sample : Handles, age : 0 .. MaxWindow + 1, print : Prints,
   last : Reports \cup {None}]

TypeOK ==
  /\ pc \in {"idle", "extras", "sample", "alloc", "get", "metrics"}
  /\ initialized \in BOOLEAN
  /\ gpm \in [Instances -> States \cup {NoState}]
  /\ left \subseteq Devices
  /\ seen \subseteq Instances
  /\ overlooked \subseteq Instances
  /\ device \in Devices \cup {None}
  /\ groups \subseteq Instances
  /\ prints \in [Instances -> Prints]
  /\ gi \in Instances \cup {None}
  /\ fresh \in Handles \cup {None}
  /\ ctxOver \in BOOLEAN
  /\ exported \in BOOLEAN
  /\ shape \in [Instances -> Nat]
  /\ shapes \in Nat
  /\ allocated \subseteq Handles
  /\ content \in [Handles -> Nat]
  /\ open \in BOOLEAN
  /\ doubleFree \in BOOLEAN
  /\ lateFree \in BOOLEAN
  /\ report \in Reports

(* No sample leaks and none is freed twice, whichever way the cycles, the  *)
(* invalidations, the lost drivers and the interrupted passes follow one   *)
(* another: what is allocated is exactly what is retained, each handle for *)
(* one instance, and the one sample being taken.                           *)
SamplesAreOwned ==
  /\ allocated = SamplesOf(Instances) \cup ({fresh} \ {None})
  /\ \A k, l \in Retained : gpm[k].sample = gpm[l].sample => k = l
  /\ fresh \notin SamplesOf(Instances)
  /\ ~doubleFree

(* No sample outlives the NVML generation it was taken in.                 *)
SamplesDieWithGeneration == ~initialized => Retained = {}

(* A utilization compares two samples of one and the same GPU instance,    *)
(* the one it is reported for, over a window within the two guards; also   *)
(* when it is served again.                                                *)
UtilizationIsSound ==
  /\ report.from = report.to
  /\ report.to = report.actual
  /\ report.window \in MinWindow .. MaxWindow

(* The end of a pass drops the samples of disappeared instances only, or   *)
(* of those the driver did not list when they were visited: a pass that    *)
(* ended early says nothing of the instances it did not reach.             *)
OrphansHaveDisappeared ==
  [][\A k \in Instances :
       /\ pc = "extras" /\ initialized'
       /\ gpm[k] # NoState /\ gpm'[k] = NoState
       => shape[k] = 0 \/ k \in overlooked]_vars

(* Contradicted by the code, see the README: no sample is freed once NVML  *)
(* has been shut down.                                                     *)
NoFreeAfterShutdown == ~lateFree

(* Contradicted by the code, see the README: only a lost driver (or the    *)
(* end of its context) makes a pass end before the last device.            *)
PassEndsEarlyOnlyWhenLost ==
  pc = "idle" /\ initialized /\ ~ctxOver => left = {}
=============================================================================
