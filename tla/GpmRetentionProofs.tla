------------------------- MODULE GpmRetentionProofs -------------------------
(***************************************************************************)
(* Proofs about the retained GPM samples, for any devices, instances,      *)
(* sample handles and windows.                                             *)
(***************************************************************************)
EXTENDS GpmRetention, TLAPS

(* The flags of the state, apart from the rest.                            *)
Marks ==
  /\ initialized \in BOOLEAN /\ ctxOver \in BOOLEAN /\ exported \in BOOLEAN
  /\ open \in BOOLEAN /\ doubleFree \in BOOLEAN /\ lateFree \in BOOLEAN

PassTypes ==
  /\ pc \in {"idle", "extras", "sample", "alloc", "get", "metrics"}
  /\ left \subseteq Devices
  /\ seen \subseteq Instances
  /\ overlooked \subseteq Instances
  /\ device \in Devices \cup {None}
  /\ groups \subseteq Instances
  /\ prints \in [Instances -> Prints]
  /\ gi \in Instances \cup {None}
  /\ shape \in [Instances -> Nat]
  /\ shapes \in Nat

MemoryTypes ==
  /\ gpm \in [Instances -> States \cup {NoState}]
  /\ fresh \in Handles \cup {None}
  /\ allocated \subseteq Handles
  /\ content \in [Handles -> Nat]
  /\ report \in Reports

(* Where the cycle is tells what it holds.                                 *)
InPlace ==
  /\ pc \in {"get", "metrics"} <=> fresh # None
  /\ pc \in {"alloc", "get", "metrics"} => gi \in groups
  /\ pc \in {"idle", "extras"} => groups = {} /\ device = None
  /\ pc = "metrics" => gpm[gi] # NoState
  /\ pc # "idle" => initialized

(* Every instance of a device that has been visited was listed, or was     *)
(* overlooked.                                                             *)
Visited ==
  pc # "idle" =>
    \A k \in Instances : DeviceOf[k] \in left \ {device} \/ k \in seen \cup overlooked

Typing == Marks /\ PassTypes /\ MemoryTypes /\ InPlace

(* A state that is retained is not the one that stands for none.           *)
LEMMA NoStateApart == NoState \notin States
  BY NoneAssumption DEF NoState, States

LEMMA InitTyping == Init => Typing /\ Visited
<1> SUFFICES ASSUME Init PROVE Typing /\ Visited
  OBVIOUS
<1>1. Marks
  BY GpmFlagAssumption DEF Init, Marks
<1>2. PassTypes
  BY DEF Init, PassTypes, Prints
<1>3. MemoryTypes
  BY WindowAssumption DEF Init, MemoryTypes, NoReport, Reports
<1>4. InPlace /\ Visited
  BY DEF Init, InPlace, Visited
<1> QED
  BY <1>1, <1>2, <1>3, <1>4 DEF Typing

(* Every action keeps the flags.                                           *)
LEMMA StepMarks == Typing /\ [Next]_vars => Marks'
<1> SUFFICES ASSUME Typing, [Next]_vars PROVE Marks'
  OBVIOUS
<1> USE DEF Typing, Marks, cycleVars, driverVars, freeVars
<1>1. ASSUME NEW k \in Instances, \/ Reconfigure(k) \/ Invalidate(k)
                                  \/ ServeLast(k) \/ Proceed(k)
      PROVE  Marks'
  BY <1>1 DEF Reconfigure, Invalidate, ServeLast, Proceed, Free
<1>2. CASE Tick \/ ContextEnds \/ PassNotBegun \/ Interrupted \/ EndPass
  BY <1>2 DEF Tick, ContextEnds, PassNotBegun, Interrupted, EndPass, Free
<1>3. CASE BeginCycle
  <2>1. exported' \in BOOLEAN
    BY <1>3, GpmFlagAssumption DEF BeginCycle
  <2> QED
    BY <1>3, <2>1 DEF BeginCycle
<1>4. CASE Close \/ LoseDriverEarly \/ AllocLosesDriver \/ MetricsLoseDriver
  BY <1>4 DEF Close, LoseDriverEarly, AllocLosesDriver, MetricsLoseDriver,
              LoseDriver, MarkLostThenFree
<1>5. ASSUME NEW d \in Devices, \/ SkipDevice(d) \/ InventoryOnly(d)
                                \/ GpmMissing(d) \/ BeginSampling(d)
      PROVE  Marks'
  BY <1>5 DEF SkipDevice, InventoryOnly, GpmMissing, BeginSampling, PassOver
<1>6. CASE AllocSample \/ SeedSample \/ TakeSample \/ SampleFails \/ EndDevice
  BY <1>6 DEF AllocSample, SeedSample, TakeSample, SampleFails, EndDevice, Free
<1>7. CASE SampleLosesDriver
  BY <1>7 DEF SampleLosesDriver, Free
<1>8. CASE Rotate
  BY <1>8 DEF Rotate, Free
<1>9. CASE UNCHANGED vars
  BY <1>9 DEF vars
<1> QED
  BY <1>1, <1>2, <1>3, <1>4, <1>5, <1>6, <1>7, <1>8, <1>9 DEF Next

(* And the pass over the devices.                                          *)
LEMMA StepPass == Typing /\ [Next]_vars => PassTypes'
<1> SUFFICES ASSUME Typing, [Next]_vars PROVE PassTypes'
  OBVIOUS
<1> USE DEF Typing, PassTypes, cycleVars, driverVars
<1>0. None \in Prints
  BY DEF Prints
<1>1. ASSUME NEW k \in Instances, \/ Reconfigure(k) \/ Invalidate(k)
                                  \/ ServeLast(k) \/ Proceed(k)
      PROVE  PassTypes'
  BY <1>1 DEF Reconfigure, Invalidate, ServeLast, Proceed
<1>2. CASE Tick \/ ContextEnds \/ PassNotBegun \/ Interrupted \/ EndPass
  BY <1>0, <1>2 DEF Tick, ContextEnds, PassNotBegun, Interrupted, EndPass,
                    EndCycle
<1>3. CASE BeginCycle
  BY <1>3 DEF BeginCycle
<1>4. CASE \/ Close \/ LoseDriverEarly \/ AllocLosesDriver \/ MetricsLoseDriver
           \/ SampleLosesDriver
  BY <1>0, <1>4
     DEF Close, LoseDriverEarly, AllocLosesDriver, MetricsLoseDriver,
         SampleLosesDriver, LoseDriver, EndCycle
<1>5. ASSUME NEW d \in Devices, SkipDevice(d) \/ InventoryOnly(d) \/ GpmMissing(d)
      PROVE  PassTypes'
  BY <1>0, <1>5 DEF SkipDevice, InventoryOnly, GpmMissing, PassOver, EndCycle,
                    InstancesOf
<1>6. ASSUME NEW d \in Devices, BeginSampling(d) PROVE PassTypes'
  <2>1. PICK K \in SUBSET Instances :
          /\ groups' = K
          /\ \E full \in [K -> IF Flaky THEN BOOLEAN ELSE {TRUE}] :
               prints' = [k \in Instances |->
                            IF k \in K THEN <<shape[k], full[k]>> ELSE None]
          /\ seen' = seen \cup K /\ device' = d /\ pc' = "sample"
          /\ overlooked' = overlooked \cup (InstancesOf(d) \ K)
          /\ UNCHANGED <<left, gi, shape, shapes>>
    BY <1>6 DEF BeginSampling
  <2>2. PICK full \in [K -> IF Flaky THEN BOOLEAN ELSE {TRUE}] :
          prints' = [k \in Instances |->
                       IF k \in K THEN <<shape[k], full[k]>> ELSE None]
    BY <2>1
  <2>3. \A k \in K : full[k] \in BOOLEAN
    BY <2>2
  <2>4. prints' \in [Instances -> Prints]
    BY <2>2, <2>3 DEF Prints
  <2> QED
    BY <2>1, <2>4 DEF InstancesOf
<1>7. CASE \/ AllocSample \/ SeedSample \/ TakeSample \/ SampleFails \/ EndDevice
           \/ Rotate
  BY <1>0, <1>7 DEF AllocSample, SeedSample, TakeSample, SampleFails, EndDevice,
                    Rotate, NextInstance
<1>8. CASE UNCHANGED vars
  BY <1>8 DEF vars
<1> QED
  BY <1>1, <1>2, <1>3, <1>4, <1>5, <1>6, <1>7, <1>8 DEF Next

(* Forgetting instances keeps the memory's types, and forgets just them.   *)
LEMMA Forgetting ==
  ASSUME gpm \in [Instances -> States \cup {NoState}],
         NEW K \in SUBSET Instances, Forget(K)
  PROVE  /\ gpm' \in [Instances -> States \cup {NoState}]
         /\ \A k \in Instances : gpm'[k] = IF k \in K THEN NoState ELSE gpm[k]
         /\ Retained' = Retained \ K
  BY DEF Forget, Retained

(* So does freeing handles.                                                *)
LEMMA Freeing ==
  ASSUME allocated \subseteq Handles, content \in [Handles -> Nat],
         NEW H, NEW whileOpen, Free(H, whileOpen)
  PROVE  /\ allocated' \subseteq Handles /\ content' \in [Handles -> Nat]
         /\ \A h \in Handles : h \notin H => content'[h] = content[h]
  BY DEF Free

(* And losing the driver.                                                  *)
LEMMA Losing ==
  ASSUME MemoryTypes, NEW H, MarkLostThenFree(H)
  PROVE  /\ gpm' \in [Instances -> States \cup {NoState}] /\ Retained' = {}
         /\ allocated' \subseteq Handles /\ content' \in [Handles -> Nat]
         /\ initialized' = FALSE
<1>1. Forget(Instances)
  BY DEF MarkLostThenFree
<1>2. gpm' \in [Instances -> States \cup {NoState}] /\ Retained' = {}
  BY <1>1, Forgetting DEF MemoryTypes, Retained
<1>3. allocated' \subseteq Handles /\ content' \in [Handles -> Nat]
  BY DEF MarkLostThenFree, MemoryTypes
<1> QED
  BY <1>2, <1>3 DEF MarkLostThenFree

(* Every action keeps the memory well typed.                               *)
LEMMA StepMemory == Typing /\ [Next]_vars => MemoryTypes'
<1> SUFFICES ASSUME Typing, [Next]_vars PROVE MemoryTypes'
  OBVIOUS
<1>0. MemoryTypes /\ PassTypes /\ InPlace
  BY DEF Typing
<1> USE DEF cycleVars, driverVars, freeVars
<1>1. ASSUME UNCHANGED <<gpm, fresh, allocated, content, report>>
      PROVE  MemoryTypes'
  BY <1>0, <1>1 DEF MemoryTypes
<1>2. ASSUME NEW k \in Instances, Reconfigure(k) \/ Proceed(k) PROVE MemoryTypes'
  BY <1>1, <1>2 DEF Reconfigure, Proceed
<1>3. ASSUME NEW k \in Instances, Invalidate(k) PROVE MemoryTypes'
  <2>1. /\ Free({gpm[k].sample}, open) /\ Forget({k})
        /\ UNCHANGED <<fresh, report>>
    BY <1>3 DEF Invalidate
  <2>2. /\ gpm' \in [Instances -> States \cup {NoState}]
        /\ allocated' \subseteq Handles /\ content' \in [Handles -> Nat]
    BY <1>0, <2>1, Forgetting, Freeing DEF MemoryTypes
  <2> QED
    BY <1>0, <2>1, <2>2 DEF MemoryTypes
<1>4. ASSUME NEW k \in Instances, ServeLast(k) PROVE MemoryTypes'
  <2>1. /\ gpm[k] # NoState
        /\ report' = IF gpm[k].last = None THEN report
                       ELSE [gpm[k].last EXCEPT !.actual = shape[k]]
        /\ UNCHANGED <<gpm, fresh, allocated, content>>
    BY <1>4 DEF ServeLast, Anchored
  <2>2. gpm[k].last \in Reports \cup {None} /\ shape[k] \in Nat
    BY <1>0, <2>1 DEF MemoryTypes, PassTypes, States
  <2>3. report' \in Reports
    BY <1>0, <2>1, <2>2 DEF Reports, MemoryTypes
  <2> QED
    BY <1>0, <2>1, <2>3 DEF MemoryTypes
<1>5. CASE Tick
  <2>1. ASSUME NEW k \in Instances, gpm[k] # NoState, gpm[k].age <= MaxWindow
        PROVE  [gpm[k] EXCEPT !.age = @ + 1] \in States
    BY <1>0, <2>1, WindowAssumption DEF MemoryTypes, States
  <2>2. gpm' \in [Instances -> States \cup {NoState}]
    BY <1>0, <1>5, <2>1 DEF Tick, MemoryTypes
  <2> QED
    BY <1>0, <1>5, <2>2 DEF Tick, MemoryTypes
<1>6. CASE ContextEnds \/ BeginCycle \/ EndDevice
  BY <1>1, <1>6 DEF ContextEnds, BeginCycle, EndDevice
<1>7. CASE PassNotBegun \/ Interrupted
  BY <1>0, <1>7 DEF PassNotBegun, Interrupted, EndCycle, MemoryTypes
<1>8. CASE Close \/ LoseDriverEarly \/ AllocLosesDriver \/ MetricsLoseDriver
  <2>1. PICK H \in {{}, {fresh}} : MarkLostThenFree(H) /\ EndCycle /\ report' = report
    BY <1>8 DEF Close, LoseDriverEarly, AllocLosesDriver, MetricsLoseDriver,
                LoseDriver
  <2>2. /\ gpm' \in [Instances -> States \cup {NoState}]
        /\ allocated' \subseteq Handles /\ content' \in [Handles -> Nat]
    BY <1>0, <2>1, Losing
  <2> QED
    BY <1>0, <2>1, <2>2 DEF EndCycle, MemoryTypes
<1>9. ASSUME NEW d \in Devices, \/ SkipDevice(d) \/ InventoryOnly(d)
                                \/ BeginSampling(d)
      PROVE  MemoryTypes'
  BY <1>1, <1>9 DEF SkipDevice, InventoryOnly, BeginSampling, PassOver
<1>10. ASSUME NEW d \in Devices, GpmMissing(d) PROVE MemoryTypes'
  BY <1>0, <1>10 DEF GpmMissing, EndCycle, MemoryTypes
<1>11. CASE EndPass
  <2>1. /\ Free(SamplesOf(Instances \ seen), open) /\ Forget(Instances \ seen)
        /\ EndCycle /\ report' = report
    BY <1>11 DEF EndPass
  <2>2. /\ gpm' \in [Instances -> States \cup {NoState}]
        /\ allocated' \subseteq Handles /\ content' \in [Handles -> Nat]
    BY <1>0, <2>1, Forgetting, Freeing DEF MemoryTypes
  <2> QED
    BY <1>0, <2>1, <2>2 DEF EndCycle, MemoryTypes
<1>12. CASE AllocSample
  <2>1. /\ UNCHANGED <<gpm, content, report>>
        /\ \/ \E h \in Handles : allocated' = allocated \cup {h} /\ fresh' = h
           \/ allocated' = allocated /\ fresh' = None
    BY <1>12 DEF AllocSample, NextInstance
  <2> QED
    BY <1>0, <2>1 DEF MemoryTypes
<1>13. CASE SeedSample
  <2>1. /\ fresh \in Handles /\ gi \in Instances /\ shape[gi] \in Nat
        /\ prints[gi] \in Prints
    BY <1>0, <1>13 DEF SeedSample, InPlace, MemoryTypes, PassTypes
  <2>2. [sample |-> fresh, age |-> 0, print |-> prints[gi], last |-> None] \in States
    BY <2>1, WindowAssumption DEF States
  <2>3. gpm' \in [Instances -> States \cup {NoState}] /\ content' \in [Handles -> Nat]
    BY <1>0, <1>13, <2>1, <2>2 DEF SeedSample, MemoryTypes
  <2> QED
    BY <1>0, <1>13, <2>3 DEF SeedSample, NextInstance, MemoryTypes
<1>14. CASE TakeSample
  <2>1. fresh \in Handles /\ gi \in Instances /\ shape[gi] \in Nat
    BY <1>0, <1>14 DEF TakeSample, InPlace, MemoryTypes, PassTypes
  <2> QED
    BY <1>0, <1>14, <2>1 DEF TakeSample, MemoryTypes
<1>15. CASE SampleFails
  <2>1. Free({fresh}, open) /\ fresh' = None /\ UNCHANGED <<gpm, report>>
    BY <1>15 DEF SampleFails, NextInstance
  <2> QED
    BY <1>0, <2>1, Freeing DEF MemoryTypes
<1>16. CASE SampleLosesDriver
  <2>1. /\ Free({fresh} \cup SamplesOf(Instances), open) /\ Forget(Instances)
        /\ fresh' = None /\ report' = report
    BY <1>16 DEF SampleLosesDriver, EndCycle
  <2>2. /\ gpm' \in [Instances -> States \cup {NoState}]
        /\ allocated' \subseteq Handles /\ content' \in [Handles -> Nat]
    BY <1>0, <2>1, Forgetting, Freeing DEF MemoryTypes
  <2> QED
    BY <1>0, <2>1, <2>2 DEF MemoryTypes
<1>17. CASE Rotate
  <2>1. PICK ok \in BOOLEAN :
          LET util == [from |-> content[gpm[gi].sample], to |-> content[fresh],
                       window |-> gpm[gi].age, actual |-> shape[gi]]
          IN  /\ report' = IF ok THEN util ELSE report
              /\ gpm' = [gpm EXCEPT ![gi] =
                           [sample |-> fresh, age |-> 0, print |-> gpm[gi].print,
                            last |-> IF ok THEN util ELSE None]]
    BY <1>17 DEF Rotate
  <2>2. /\ fresh \in Handles /\ gi \in Instances /\ shape[gi] \in Nat
        /\ gpm[gi] \in States
    BY <1>0, <1>17 DEF Rotate, InPlace, MemoryTypes, PassTypes
  <2> DEFINE util == [from |-> content[gpm[gi].sample], to |-> content[fresh],
                      window |-> gpm[gi].age, actual |-> shape[gi]]
  <2>3. util \in Reports
    BY <1>0, <2>2, WindowAssumption DEF MemoryTypes, States, Reports
  <2> DEFINE last == IF ok THEN util ELSE None
  <2>4. last \in Reports \cup {None}
    BY <2>3
  <2> DEFINE state == [sample |-> fresh, age |-> 0, print |-> gpm[gi].print,
                       last |-> last]
  <2>5. report' = (IF ok THEN util ELSE report) /\ gpm' = [gpm EXCEPT ![gi] = state]
    BY <2>1
  <2> HIDE DEF util, last
  <2>6. state \in States
    BY <2>2, <2>4, WindowAssumption DEF States
  <2> HIDE DEF state
  <2>7. report' \in Reports /\ gpm' \in [Instances -> States \cup {NoState}]
    BY <1>0, <2>2, <2>3, <2>5, <2>6 DEF MemoryTypes
  <2>8. /\ Free({gpm[gi].sample}, open) /\ fresh' = None
    BY <1>17 DEF Rotate, NextInstance
  <2> QED
    BY <1>0, <2>7, <2>8, Freeing DEF MemoryTypes
<1>18. CASE UNCHANGED vars
  BY <1>1, <1>18 DEF vars
<1> QED
  BY <1>2, <1>3, <1>4, <1>5, <1>6, <1>7, <1>8, <1>9, <1>10, <1>11, <1>12, <1>13,
     <1>14, <1>15, <1>16, <1>17, <1>18 DEF Next

(* Where the cycle is goes on to tell what it holds.                       *)
LEMMA StepPlace == Typing /\ [Next]_vars => InPlace'
<1> SUFFICES ASSUME Typing, [Next]_vars PROVE InPlace'
  OBVIOUS
<1> USE NoneAssumption
    DEF Typing, InPlace, PassTypes, MemoryTypes, cycleVars, driverVars, freeVars
<1>1. ASSUME NEW k \in Instances, Reconfigure(k) \/ ServeLast(k) \/ Proceed(k)
      PROVE  InPlace'
  BY <1>1 DEF Reconfigure, ServeLast, Proceed
<1>2. ASSUME NEW k \in Instances, Invalidate(k) PROVE InPlace'
  BY <1>2 DEF Invalidate
<1>3. CASE Tick
  BY <1>3 DEF Tick
<1>4. CASE ContextEnds \/ BeginCycle \/ EndDevice
  BY <1>4 DEF ContextEnds, BeginCycle, EndDevice
<1>5. ASSUME EndCycle PROVE InPlace'
  BY <1>5 DEF EndCycle
<1>6. CASE \/ PassNotBegun \/ Interrupted \/ EndPass \/ Close
           \/ LoseDriverEarly \/ AllocLosesDriver \/ MetricsLoseDriver
           \/ SampleLosesDriver \/ \E d \in Devices : GpmMissing(d)
  BY <1>5, <1>6
     DEF PassNotBegun, Interrupted, EndPass, Close, LoseDriverEarly,
         AllocLosesDriver, MetricsLoseDriver, SampleLosesDriver, LoseDriver,
         GpmMissing
<1>7. ASSUME NEW d \in Devices, SkipDevice(d) \/ InventoryOnly(d) PROVE InPlace'
  BY <1>7 DEF SkipDevice, InventoryOnly, PassOver, Enumerated
<1>8. ASSUME NEW d \in Devices, BeginSampling(d) PROVE InPlace'
  BY <1>8 DEF BeginSampling, Enumerated
<1>9. CASE AllocSample
  BY <1>9 DEF AllocSample, NextInstance
<1>10. CASE SeedSample \/ SampleFails \/ Rotate
  BY <1>10 DEF SeedSample, SampleFails, Rotate, NextInstance
<1>11. CASE TakeSample
  BY <1>11 DEF TakeSample
<1>12. CASE UNCHANGED vars
  BY <1>12 DEF vars
<1> QED
  BY <1>1, <1>2, <1>3, <1>4, <1>6, <1>7, <1>8, <1>9, <1>10, <1>11, <1>12 DEF Next

(* The typing of the retention is inductive.                               *)
LEMMA StepTyping == Typing /\ [Next]_vars => Typing'
  BY StepMarks, StepPass, StepMemory, StepPlace DEF Typing

(* The type invariant: every variable keeps its type, and what a cycle has *)
(* at hand is what it retained or what it enumerated.                      *)
THEOREM GpmTypeCorrect == Spec => []TypeOK
<1>1. Typing => TypeOK
  BY DEF Typing, Marks, PassTypes, MemoryTypes, TypeOK
<1> QED
  BY <1>1, InitTyping, StepTyping, PTL DEF Spec

-----------------------------------------------------------------------------
(* Only a lost driver or Close ends a generation, and both forget whatever *)
(* is retained.                                                            *)
LEMMA StepGeneration ==
  Typing /\ SamplesDieWithGeneration /\ [Next]_vars => SamplesDieWithGeneration'
<1> SUFFICES ASSUME Typing, SamplesDieWithGeneration, [Next]_vars
             PROVE  SamplesDieWithGeneration'
  OBVIOUS
<1>1. ASSUME pc # "idle", initialized' = initialized
      PROVE  SamplesDieWithGeneration'
  BY <1>1 DEF Typing, InPlace, SamplesDieWithGeneration
<1>2. ASSUME UNCHANGED <<initialized, gpm>> PROVE SamplesDieWithGeneration'
  BY <1>2 DEF SamplesDieWithGeneration, Retained
<1>3. ASSUME NEW k \in Instances, \/ Reconfigure(k) \/ Invalidate(k)
                                  \/ ServeLast(k) \/ Proceed(k)
      PROVE  SamplesDieWithGeneration'
  BY <1>1, <1>2, <1>3 DEF Reconfigure, Invalidate, ServeLast, Proceed
<1>4. CASE Tick
  BY <1>4 DEF Tick, SamplesDieWithGeneration
<1>5. CASE BeginCycle
  BY <1>5 DEF BeginCycle, SamplesDieWithGeneration
<1>6. CASE ContextEnds \/ PassNotBegun \/ Interrupted \/ EndPass \/ EndDevice
  BY <1>1, <1>6 DEF ContextEnds, PassNotBegun, Interrupted, EndPass, EndDevice
<1>7. CASE Close \/ LoseDriverEarly \/ AllocLosesDriver \/ MetricsLoseDriver
  <2>1. PICK H \in {{}, {fresh}} : MarkLostThenFree(H)
    BY <1>7 DEF Close, LoseDriverEarly, AllocLosesDriver, MetricsLoseDriver,
                LoseDriver
  <2> QED
    BY <2>1, Losing DEF Typing, SamplesDieWithGeneration
<1>8. CASE SampleLosesDriver
  <2>1. Forget(Instances)
    BY <1>8 DEF SampleLosesDriver
  <2> QED
    BY <2>1, Forgetting DEF Typing, MemoryTypes, SamplesDieWithGeneration, Retained
<1>9. ASSUME NEW d \in Devices, \/ SkipDevice(d) \/ InventoryOnly(d)
                                \/ GpmMissing(d) \/ BeginSampling(d)
      PROVE  SamplesDieWithGeneration'
  BY <1>2, <1>9 DEF SkipDevice, InventoryOnly, GpmMissing, BeginSampling, PassOver
<1>10. CASE AllocSample \/ SeedSample \/ TakeSample \/ SampleFails \/ Rotate
  BY <1>1, <1>10 DEF AllocSample, SeedSample, TakeSample, SampleFails, Rotate
<1>11. CASE UNCHANGED vars
  BY <1>2, <1>11 DEF vars
<1> QED
  BY <1>3, <1>4, <1>5, <1>6, <1>7, <1>8, <1>9, <1>10, <1>11 DEF Next

(* No sample outlives the NVML generation it was taken in.                 *)
THEOREM GpmSamplesDie == Spec => []SamplesDieWithGeneration
<1>1. Init => SamplesDieWithGeneration
  BY DEF Init, SamplesDieWithGeneration
<1> QED
  BY <1>1, InitTyping, StepTyping, StepGeneration, PTL DEF Spec

-----------------------------------------------------------------------------
(* Freeing the samples of the instances that are forgotten, while no fresh *)
(* sample is at hand, keeps every sample owned.                            *)
LEMMA OwnedForget ==
  ASSUME Typing, SamplesAreOwned, NEW K \in SUBSET Instances,
         allocated' = allocated \ SamplesOf(K),
         doubleFree' = (doubleFree \/ ~(SamplesOf(K) \subseteq allocated)),
         Forget(K), fresh = None, fresh' = None
  PROVE  SamplesAreOwned'
<1>1. /\ \A k \in Instances : gpm'[k] = IF k \in K THEN NoState ELSE gpm[k]
      /\ Retained' = Retained \ K /\ Retained \subseteq Instances
  BY Forgetting DEF Typing, MemoryTypes, Retained
<1>2. \A k, l \in Retained : gpm[k].sample = gpm[l].sample => k = l
  BY DEF SamplesAreOwned
<1>3. SamplesOf(Instances)' = SamplesOf(Instances) \ SamplesOf(K)
  BY <1>1, <1>2 DEF SamplesOf
<1>4. SamplesOf(K) \subseteq SamplesOf(Instances)
  BY DEF SamplesOf
<1>5. allocated' = SamplesOf(Instances)' /\ ~doubleFree'
  BY <1>3, <1>4 DEF SamplesAreOwned
<1>6. \A k, l \in Retained' : gpm'[k].sample = gpm'[l].sample => k = l
  BY <1>1, <1>2
<1>7. fresh' \notin SamplesOf(Instances)'
  BY <1>3 DEF SamplesAreOwned
<1> QED
  BY <1>5, <1>6, <1>7 DEF SamplesAreOwned

(* When everything is forgotten and freed nothing is left to own.          *)
LEMMA OwnedNothing ==
  ASSUME Retained' = {}, allocated' = {}, doubleFree' = FALSE, fresh' = None
  PROVE  SamplesAreOwned'
<1>1. SamplesOf(Instances)' = {}
  BY DEF SamplesOf
<1> QED
  BY <1>1 DEF SamplesAreOwned

(* The passage of time touches nothing but the ages.                       *)
LEMMA Ticking ==
  ASSUME Typing, Tick
  PROVE  /\ Retained' = Retained
         /\ \A k \in Retained : /\ gpm'[k].sample = gpm[k].sample
                                /\ gpm'[k].print = gpm[k].print
                                /\ gpm'[k].last = gpm[k].last
<1>1. ASSUME NEW k \in Instances
      PROVE  /\ gpm'[k] # NoState <=> gpm[k] # NoState
             /\ gpm[k] # NoState => /\ gpm'[k].sample = gpm[k].sample
                                    /\ gpm'[k].print = gpm[k].print
                                    /\ gpm'[k].last = gpm[k].last
  <2>1. CASE gpm[k] # NoState /\ gpm[k].age <= MaxWindow
    <3>1. gpm'[k] = [gpm[k] EXCEPT !.age = @ + 1] /\ gpm[k] \in States
      BY <2>1 DEF Tick, Typing, MemoryTypes
    <3>2. /\ gpm'[k].sample = gpm[k].sample /\ gpm[k].sample \in Handles
          /\ gpm'[k].print = gpm[k].print /\ gpm'[k].last = gpm[k].last
      BY <3>1 DEF States
    <3> QED
      BY <2>1, <3>2, NoneAssumption DEF NoState
  <2>2. CASE ~(gpm[k] # NoState /\ gpm[k].age <= MaxWindow)
    BY <2>2 DEF Tick
  <2> QED
    BY <2>1, <2>2
<1> QED
  BY <1>1 DEF Retained

(* Every action keeps the samples owned.                                   *)
LEMMA StepOwned == Typing /\ SamplesAreOwned /\ [Next]_vars => SamplesAreOwned'
<1> SUFFICES ASSUME Typing, SamplesAreOwned, [Next]_vars PROVE SamplesAreOwned'
  OBVIOUS
<1>0. MemoryTypes /\ PassTypes /\ InPlace
  BY DEF Typing
<1> USE DEF cycleVars, driverVars, freeVars
<1>1. ASSUME UNCHANGED <<gpm, fresh, allocated, doubleFree>>
      PROVE  SamplesAreOwned'
  BY <1>1 DEF SamplesAreOwned, SamplesOf, Retained
<1>2. ASSUME NEW k \in Instances, Reconfigure(k) \/ ServeLast(k) \/ Proceed(k)
      PROVE  SamplesAreOwned'
  BY <1>1, <1>2 DEF Reconfigure, ServeLast, Proceed
<1>3. ASSUME NEW k \in Instances, Invalidate(k) PROVE SamplesAreOwned'
  <2>1. /\ Free({gpm[k].sample}, open) /\ Forget({k}) /\ gpm[k] # NoState
        /\ fresh' = fresh /\ pc = "sample"
    BY <1>3 DEF Invalidate, Invalid
  <2>2. fresh = None
    BY <1>0, <2>1 DEF InPlace
  <2>3. SamplesOf({k}) = {gpm[k].sample}
    BY <2>1 DEF SamplesOf, Retained
  <2> QED
    BY <2>1, <2>2, <2>3, OwnedForget DEF Free
<1>4. CASE Tick
  <2>1. /\ Retained' = Retained
        /\ \A k \in Retained : gpm'[k].sample = gpm[k].sample
    BY <1>4, Ticking
  <2>2. SamplesOf(Instances)' = SamplesOf(Instances)
    BY <2>1 DEF SamplesOf
  <2>3. UNCHANGED <<fresh, allocated, doubleFree>>
    BY <1>4 DEF Tick
  <2> QED
    BY <2>1, <2>2, <2>3 DEF SamplesAreOwned
<1>5. CASE ContextEnds \/ BeginCycle \/ EndDevice
  BY <1>1, <1>5 DEF ContextEnds, BeginCycle, EndDevice
<1>6. ASSUME pc \in {"idle", "extras"}, EndCycle,
             UNCHANGED <<gpm, allocated, doubleFree>>
      PROVE  SamplesAreOwned'
  BY <1>0, <1>1, <1>6 DEF EndCycle, InPlace
<1>7. CASE PassNotBegun \/ Interrupted
  BY <1>6, <1>7 DEF PassNotBegun, Interrupted
<1>8. ASSUME NEW d \in Devices, \/ SkipDevice(d) \/ InventoryOnly(d)
                                \/ BeginSampling(d)
      PROVE  SamplesAreOwned'
  BY <1>1, <1>8 DEF SkipDevice, InventoryOnly, BeginSampling, PassOver
<1>9. ASSUME NEW d \in Devices, GpmMissing(d) PROVE SamplesAreOwned'
  BY <1>6, <1>9 DEF GpmMissing, Enumerated
<1>10. CASE EndPass
  <2>1. /\ Free(SamplesOf(Instances \ seen), open) /\ Forget(Instances \ seen)
        /\ fresh' = None /\ fresh = None
    BY <1>0, <1>10 DEF EndPass, EndCycle, InPlace
  <2> QED
    BY <2>1, OwnedForget DEF Free
<1>11. CASE \/ Close \/ LoseDriverEarly \/ AllocLosesDriver \/ MetricsLoseDriver
  <2>1. /\ MarkLostThenFree({fresh} \ {None}) /\ fresh' = None
    BY <1>0, <1>11
       DEF Close, LoseDriverEarly, AllocLosesDriver, MetricsLoseDriver,
           LoseDriver, EndCycle, InPlace
  <2>2. Retained' = {}
    BY <1>0, <2>1, Losing
  <2>3. allocated' = {} /\ doubleFree' = FALSE
    BY <2>1 DEF MarkLostThenFree, SamplesAreOwned
  <2> QED
    BY <2>1, <2>2, <2>3, OwnedNothing
<1>12. CASE SampleLosesDriver
  <2>1. /\ Free({fresh} \cup SamplesOf(Instances), open) /\ Forget(Instances)
        /\ fresh' = None /\ fresh # None
    BY <1>0, <1>12 DEF SampleLosesDriver, EndCycle, InPlace
  <2>2. Retained' = {}
    BY <1>0, <2>1, Forgetting DEF MemoryTypes, Retained
  <2>3. allocated' = {} /\ doubleFree' = FALSE
    BY <2>1 DEF Free, SamplesAreOwned
  <2> QED
    BY <2>1, <2>2, <2>3, OwnedNothing
<1>13. CASE AllocSample
  <2>1. /\ UNCHANGED <<gpm, doubleFree>> /\ fresh = None
        /\ \/ \E h \in Handles \ allocated :
                allocated' = allocated \cup {h} /\ fresh' = h
           \/ allocated' = allocated /\ fresh' = None
    BY <1>0, <1>13 DEF AllocSample, NextInstance, InPlace
  <2>2. SamplesOf(Instances)' = SamplesOf(Instances) /\ Retained' = Retained
    BY <2>1 DEF SamplesOf, Retained
  <2> QED
    BY <2>1, <2>2, NoneAssumption DEF SamplesAreOwned
<1>14. CASE TakeSample
  BY <1>1, <1>14 DEF TakeSample
<1>15. CASE SampleFails
  <2>1. /\ Free({fresh}, open) /\ fresh' = None /\ gpm' = gpm /\ fresh # None
    BY <1>0, <1>15 DEF SampleFails, NextInstance, InPlace
  <2>2. SamplesOf(Instances)' = SamplesOf(Instances) /\ Retained' = Retained
    BY <2>1 DEF SamplesOf, Retained
  <2>3. None \notin SamplesOf(Instances)
    BY <1>0, NoneAssumption DEF SamplesOf, Retained, MemoryTypes, States
  <2> QED
    BY <2>1, <2>2, <2>3 DEF SamplesAreOwned, Free
<1>16. ASSUME NEW k \in Instances, fresh # None, fresh' = None,
              NEW st \in States, gpm' = [gpm EXCEPT ![k] = st], st.sample = fresh,
              allocated' = allocated \ SamplesOf({k}),
              doubleFree' = (doubleFree \/ ~(SamplesOf({k}) \subseteq allocated))
       PROVE  SamplesAreOwned'
  <2>1. /\ gpm'[k] = st /\ st # NoState
        /\ \A l \in Instances : l # k => gpm'[l] = gpm[l]
    BY <1>0, <1>16, NoStateApart DEF MemoryTypes
  <2>2. Retained' = Retained \cup {k} /\ Retained \subseteq Instances
    BY <1>16, <2>1 DEF Retained
  <2>3. SamplesOf(Instances)' = (SamplesOf(Instances) \ SamplesOf({k})) \cup {fresh}
    BY <1>16, <2>1, <2>2 DEF SamplesOf, SamplesAreOwned
  <2>4. fresh \notin SamplesOf({k}) /\ SamplesOf({k}) \subseteq SamplesOf(Instances)
    BY DEF SamplesOf, SamplesAreOwned
  <2>5. allocated' = SamplesOf(Instances)' /\ doubleFree' = FALSE
    BY <1>16, <2>3, <2>4 DEF SamplesAreOwned
  <2>6. \A l \in Retained : gpm[l].sample # fresh
    BY <2>2 DEF SamplesOf, SamplesAreOwned
  <2>7. \A l, n \in Retained' : gpm'[l].sample = gpm'[n].sample => l = n
    BY <1>16, <2>1, <2>2, <2>6 DEF SamplesAreOwned
  <2>8. None \notin SamplesOf(Instances)
    BY <1>0, NoneAssumption DEF SamplesOf, Retained, MemoryTypes, States
  <2> QED
    BY <1>16, <2>3, <2>5, <2>7, <2>8 DEF SamplesAreOwned
<1>17. CASE SeedSample
  <2>1. /\ fresh \in Handles /\ fresh # None /\ gi \in Instances /\ fresh' = None
        /\ gpm[gi] = NoState /\ UNCHANGED <<allocated, doubleFree>>
        /\ prints[gi] \in Prints
    BY <1>0, <1>17 DEF SeedSample, NextInstance, InPlace, MemoryTypes, PassTypes
  <2> DEFINE st == [sample |-> fresh, age |-> 0, print |-> prints[gi], last |-> None]
  <2>2. st \in States /\ st.sample = fresh
    BY <2>1, WindowAssumption DEF States
  <2>3. gpm' = [gpm EXCEPT ![gi] = st]
    BY <1>17 DEF SeedSample
  <2>4. SamplesOf({gi}) = {}
    BY <2>1 DEF SamplesOf, Retained
  <2>5. /\ allocated' = allocated \ SamplesOf({gi})
        /\ doubleFree' = (doubleFree \/ ~(SamplesOf({gi}) \subseteq allocated))
    BY <2>1, <2>4 DEF Typing, Marks
  <2> HIDE DEF st
  <2> QED
    BY <1>16, <2>1, <2>2, <2>3, <2>5
<1>18. CASE Rotate
  <2>1. /\ Free({gpm[gi].sample}, open) /\ fresh \in Handles /\ fresh # None
        /\ gi \in Instances /\ fresh' = None /\ gpm[gi] # NoState
    BY <1>0, <1>18 DEF Rotate, NextInstance, InPlace, MemoryTypes, PassTypes
  <2>2. PICK ok \in BOOLEAN :
          LET util == [from |-> content[gpm[gi].sample], to |-> content[fresh],
                       window |-> gpm[gi].age, actual |-> shape[gi]]
          IN  gpm' = [gpm EXCEPT ![gi] =
                        [sample |-> fresh, age |-> 0, print |-> gpm[gi].print,
                         last |-> IF ok THEN util ELSE None]]
    BY <1>18 DEF Rotate
  <2> DEFINE last == IF ok
                       THEN [from |-> content[gpm[gi].sample], to |-> content[fresh],
                             window |-> gpm[gi].age, actual |-> shape[gi]]
                       ELSE None
             st == [sample |-> fresh, age |-> 0, print |-> gpm[gi].print,
                    last |-> last]
  <2>3. gpm' = [gpm EXCEPT ![gi] = st]
    BY <2>2
  <2>4. SamplesOf({gi}) = {gpm[gi].sample}
    BY <2>1 DEF SamplesOf, Retained
  <2>5. gpm'[gi] = st
    BY <1>0, <2>1, <2>3 DEF MemoryTypes
  <2>6. st \in States \cup {NoState} /\ st.sample = fresh
    BY <2>1, <2>5, StepMemory DEF MemoryTypes
  <2>7. st \in States
    BY <2>1, <2>6 DEF NoState
  <2> HIDE DEF st
  <2> QED
    BY <1>16, <2>1, <2>3, <2>4, <2>6, <2>7 DEF Free
<1>19. CASE UNCHANGED vars
  BY <1>1, <1>19 DEF vars
<1> QED
  BY <1>2, <1>3, <1>4, <1>5, <1>7, <1>8, <1>9, <1>10, <1>11, <1>12, <1>13, <1>14,
     <1>15, <1>17, <1>18, <1>19 DEF Next

(* No sample leaks and none is freed twice, on any path through any number *)
(* of cycles.                                                              *)
THEOREM GpmSamplesOwned == Spec => []SamplesAreOwned
<1>1. Init => SamplesAreOwned
  BY DEF Init, SamplesAreOwned, SamplesOf, Retained
<1> QED
  BY <1>1, InitTyping, StepTyping, StepOwned, PTL DEF Spec

-----------------------------------------------------------------------------
(* The pass accounts for every device it has finished.                     *)
LEMMA StepVisited == Typing /\ Visited /\ [Next]_vars => Visited'
<1> SUFFICES ASSUME Typing, Visited, [Next]_vars PROVE Visited'
  OBVIOUS
<1>0. PassTypes /\ InPlace
  BY DEF Typing
<1> USE DEF cycleVars, driverVars, freeVars
<1>1. ASSUME pc' = "idle" PROVE Visited'
  BY <1>1 DEF Visited
<1>2. ASSUME pc # "idle", UNCHANGED <<left, device, seen, overlooked>>
      PROVE  Visited'
  BY <1>2 DEF Visited
<1>3. ASSUME UNCHANGED <<pc, left, device, seen, overlooked>> PROVE Visited'
  BY <1>3 DEF Visited
<1>4. ASSUME NEW k \in Instances, Reconfigure(k) \/ ServeLast(k) PROVE Visited'
  BY <1>3, <1>4 DEF Reconfigure, ServeLast
<1>5. ASSUME NEW k \in Instances, Invalidate(k) \/ Proceed(k) PROVE Visited'
  BY <1>2, <1>5 DEF Invalidate, Proceed
<1>6. CASE Tick \/ ContextEnds
  BY <1>3, <1>6 DEF Tick, ContextEnds
<1>7. CASE BeginCycle
  BY <1>0, <1>7, ParentAssumption, NoneAssumption
     DEF BeginCycle, Visited, InPlace
<1>8. CASE \/ PassNotBegun \/ Interrupted \/ EndPass \/ Close
           \/ LoseDriverEarly \/ AllocLosesDriver \/ MetricsLoseDriver
           \/ SampleLosesDriver \/ \E d \in Devices : GpmMissing(d)
  BY <1>1, <1>8
     DEF PassNotBegun, Interrupted, EndPass, Close, LoseDriverEarly,
         AllocLosesDriver, MetricsLoseDriver, SampleLosesDriver, LoseDriver,
         GpmMissing, EndCycle
<1>9. ASSUME NEW d \in Devices, SkipDevice(d) PROVE Visited'
  BY <1>0, <1>9, NoneAssumption
     DEF SkipDevice, PassOver, InstancesOf, Visited, InPlace
<1>10. ASSUME NEW d \in Devices, InventoryOnly(d) PROVE Visited'
  BY <1>0, <1>10, NoneAssumption
     DEF InventoryOnly, PassOver, Enumerated, InstancesOf, Visited, InPlace
<1>11. ASSUME NEW d \in Devices, BeginSampling(d) PROVE Visited'
  <2>1. PICK K \in SUBSET Instances :
          /\ seen' = seen \cup K /\ left' = left /\ device' = d
          /\ overlooked' = overlooked \cup (InstancesOf(d) \ K)
          /\ pc = "extras"
    BY <1>11 DEF BeginSampling, Enumerated
  <2> QED
    BY <1>0, <2>1, NoneAssumption DEF InstancesOf, Visited, InPlace
<1>12. CASE AllocSample \/ SeedSample \/ TakeSample \/ SampleFails \/ Rotate
  BY <1>2, <1>12 DEF AllocSample, SeedSample, TakeSample, SampleFails, Rotate
<1>13. CASE EndDevice
  BY <1>0, <1>13, ParentAssumption, NoneAssumption DEF EndDevice, Visited
<1>14. CASE UNCHANGED vars
  BY <1>3, <1>14 DEF vars
<1> QED
  BY <1>4, <1>5, <1>6, <1>7, <1>8, <1>9, <1>10, <1>11, <1>12, <1>13, <1>14 DEF Next

(* A pass drops no instance it has not visited: at the end of a complete   *)
(* pass every instance is accounted for, and nothing else in the pass over *)
(* the devices forgets a sample while the driver is there.                 *)
THEOREM GpmOrphans == Spec => OrphansHaveDisappeared
<1>1. ASSUME Typing, Visited, [Next]_vars
      PROVE  [\A k \in Instances :
                /\ pc = "extras" /\ initialized'
                /\ gpm[k] # NoState /\ gpm'[k] = NoState
                => shape[k] = 0 \/ k \in overlooked]_vars
  <2> SUFFICES ASSUME NEW k \in Instances, pc = "extras", initialized',
                      gpm[k] # NoState, gpm'[k] = NoState
               PROVE  k \in overlooked
    OBVIOUS
  <2> USE DEF freeVars
  <2>1. CASE EndPass
    <3>1. gpm'[k] = IF k \in Instances \ seen THEN NoState ELSE gpm[k]
      BY <2>1 DEF EndPass, Forget
    <3> QED
      BY <1>1, <2>1, <3>1 DEF EndPass, Visited
  <2>2. CASE Tick
    BY <1>1, <2>2, Ticking DEF Retained
  <2>3. CASE Close \/ LoseDriverEarly
    BY <2>3 DEF Close, LoseDriverEarly, LoseDriver, MarkLostThenFree
  <2>4. CASE \/ ContextEnds \/ PassNotBegun \/ Interrupted
             \/ \E d \in Devices : \/ SkipDevice(d) \/ InventoryOnly(d)
                                  \/ GpmMissing(d) \/ BeginSampling(d)
    BY <2>4 DEF ContextEnds, PassNotBegun, Interrupted, SkipDevice,
                InventoryOnly, GpmMissing, BeginSampling, PassOver
  <2> QED
    BY <1>1, <2>1, <2>2, <2>3, <2>4
       DEF Next, Reconfigure, BeginCycle, Invalidate, ServeLast, Proceed,
           AllocSample, AllocLosesDriver, SeedSample, TakeSample, SampleFails,
           SampleLosesDriver, Rotate, MetricsLoseDriver, EndDevice, vars
<1> QED
  BY <1>1, InitTyping, StepTyping, StepVisited, PTL
     DEF Spec, OrphansHaveDisappeared

-----------------------------------------------------------------------------
(* Why a utilization is sound: an enumerated instance has the fingerprint  *)
(* of its shape; a retained sample was taken of the shape its fingerprint  *)
(* names, and so were both ends of the values computed last; and what is   *)
(* about to be compared was retained under the fingerprint of now.         *)
Of(print, s) == \E full \in BOOLEAN : print = <<s, full>>

Compares(r, s) == r.from = s /\ r.to = s /\ r.window \in MinWindow .. MaxWindow

Genuine(k) ==
  /\ Of(gpm[k].print, content[gpm[k].sample])
  /\ gpm[k].last = None \/ Compares(gpm[k].last, content[gpm[k].sample])

Listed == \A k \in groups : Of(prints[k], shape[k])
Kept   == \A k \in Retained : Genuine(k)

InHand ==
  /\ pc \in {"alloc", "get", "metrics"} /\ gpm[gi] # NoState =>
       gpm[gi].print = prints[gi] /\ gpm[gi].age \in MinWindow .. MaxWindow
  /\ pc = "metrics" => content[fresh] = shape[gi]

Comparable == Listed /\ Kept /\ InHand /\ UtilizationIsSound

(* A sample stays genuine while its handle's content and its state stay.   *)
LEMMA KeptStays ==
  ASSUME Kept, Retained' \subseteq Retained,
         \A k \in Retained' :
           /\ gpm'[k].sample = gpm[k].sample /\ gpm'[k].print = gpm[k].print
           /\ gpm'[k].last = gpm[k].last
           /\ content'[gpm[k].sample] = content[gpm[k].sample]
  PROVE  Kept'
  BY DEF Kept, Genuine

(* Freeing the samples of the instances that are forgotten leaves the      *)
(* others as they were.                                                    *)
LEMMA KeptForget ==
  ASSUME Typing, SamplesAreOwned, Kept, NEW K \in SUBSET Instances,
         NEW whileOpen, Free(SamplesOf(K), whileOpen), Forget(K)
  PROVE  Kept'
<1>1. /\ \A k \in Instances : gpm'[k] = IF k \in K THEN NoState ELSE gpm[k]
      /\ Retained' = Retained \ K /\ Retained \subseteq Instances
  BY Forgetting DEF Typing, MemoryTypes, Retained
<1>2. \A k \in Retained : gpm[k].sample \in Handles
  BY DEF Typing, MemoryTypes, Retained, States
<1>3. \A k \in Retained' : gpm[k].sample \notin SamplesOf(K)
  BY <1>1 DEF SamplesOf, SamplesAreOwned
<1>4. \A k \in Retained' : content'[gpm[k].sample] = content[gpm[k].sample]
  BY <1>1, <1>2, <1>3, Freeing DEF Typing, MemoryTypes
<1> QED
  BY <1>1, <1>4, KeptStays

(* Two shapes a fingerprint is of are the same.                            *)
LEMMA OneShape ==
  ASSUME NEW p, NEW s, NEW t, Of(p, s), Of(p, t) PROVE s = t
  BY DEF Of

(* Every action keeps what is enumerated under the fingerprint of its      *)
(* shape.                                                                  *)
LEMMA StepListed == Typing /\ Listed /\ [Next]_vars => Listed'
<1> SUFFICES ASSUME Typing, Listed, [Next]_vars PROVE Listed'
  OBVIOUS
<1>0. PassTypes /\ InPlace
  BY DEF Typing
<1> USE DEF cycleVars, driverVars, freeVars
<1>1. ASSUME groups' \subseteq groups, UNCHANGED <<prints, shape>> PROVE Listed'
  BY <1>1 DEF Listed
<1>2. ASSUME groups' = {} PROVE Listed'
  BY <1>2 DEF Listed
<1>3. ASSUME NEW k \in Instances, Reconfigure(k) PROVE Listed'
  BY <1>0, <1>2, <1>3 DEF Reconfigure, InPlace
<1>4. ASSUME NEW k \in Instances, Invalidate(k) \/ ServeLast(k) \/ Proceed(k)
      PROVE  Listed'
  BY <1>1, <1>4 DEF Invalidate, ServeLast, Proceed
<1>5. CASE Tick \/ ContextEnds \/ BeginCycle
  BY <1>1, <1>5 DEF Tick, ContextEnds, BeginCycle
<1>6. CASE \/ PassNotBegun \/ Interrupted \/ EndPass \/ Close
           \/ LoseDriverEarly \/ AllocLosesDriver \/ MetricsLoseDriver
           \/ SampleLosesDriver \/ \E d \in Devices : GpmMissing(d)
  BY <1>2, <1>6
     DEF PassNotBegun, Interrupted, EndPass, Close, LoseDriverEarly,
         AllocLosesDriver, MetricsLoseDriver, SampleLosesDriver, LoseDriver,
         GpmMissing, EndCycle
<1>7. ASSUME NEW d \in Devices, SkipDevice(d) \/ InventoryOnly(d) PROVE Listed'
  BY <1>1, <1>7 DEF SkipDevice, InventoryOnly, PassOver
<1>8. ASSUME NEW d \in Devices, BeginSampling(d) PROVE Listed'
  <2>1. PICK K \in SUBSET Instances :
          /\ groups' = K /\ shape' = shape
          /\ \E full \in [K -> IF Flaky THEN BOOLEAN ELSE {TRUE}] :
               prints' = [k \in Instances |->
                            IF k \in K THEN <<shape[k], full[k]>> ELSE None]
    BY <1>8 DEF BeginSampling
  <2>2. PICK full \in [K -> IF Flaky THEN BOOLEAN ELSE {TRUE}] :
          prints' = [k \in Instances |->
                       IF k \in K THEN <<shape[k], full[k]>> ELSE None]
    BY <2>1
  <2>3. \A k \in K : full[k] \in BOOLEAN
    BY <2>2
  <2> QED
    BY <2>1, <2>2, <2>3 DEF Listed, Of
<1>9. CASE AllocSample \/ SeedSample \/ TakeSample \/ SampleFails \/ Rotate
  BY <1>1, <1>9
     DEF AllocSample, SeedSample, TakeSample, SampleFails, Rotate, NextInstance
<1>10. CASE EndDevice
  BY <1>2, <1>10 DEF EndDevice
<1>11. CASE UNCHANGED vars
  BY <1>1, <1>11 DEF vars
<1> QED
  BY <1>3, <1>4, <1>5, <1>6, <1>7, <1>8, <1>9, <1>10, <1>11 DEF Next

(* What is at hand was retained under the fingerprint of now.              *)
LEMMA StepInHand == Typing /\ SamplesAreOwned /\ InHand /\ [Next]_vars => InHand'
<1> SUFFICES ASSUME Typing, SamplesAreOwned, InHand, [Next]_vars PROVE InHand'
  OBVIOUS
<1>0. PassTypes /\ MemoryTypes /\ InPlace
  BY DEF Typing
<1> USE DEF cycleVars, driverVars, freeVars
<1>1. ASSUME pc' \in {"idle", "extras", "sample"} PROVE InHand'
  BY <1>1 DEF InHand
<1>2. ASSUME NEW k \in Instances, Reconfigure(k) \/ ServeLast(k) PROVE InHand'
  BY <1>1, <1>2 DEF Reconfigure, ServeLast
<1>3. ASSUME NEW k \in Instances, Invalidate(k) PROVE InHand'
  <2>1. Forget({k}) /\ pc' = "alloc" /\ gi' = k
    BY <1>3 DEF Invalidate
  <2>2. gpm'[k] = NoState
    BY <2>1 DEF Forget
  <2> QED
    BY <2>1, <2>2 DEF InHand
<1>4. ASSUME NEW k \in Instances, Proceed(k) PROVE InHand'
  <2>1. gpm[k] # NoState => gpm[k].age \in Nat
    BY <1>0 DEF MemoryTypes, States
  <2> QED
    BY <1>4, <2>1, WindowAssumption DEF Proceed, Invalid, Anchored, InHand
<1>5. CASE Tick
  BY <1>1, <1>5 DEF Tick
<1>6. CASE ContextEnds
  BY <1>6 DEF ContextEnds, InHand
<1>7. CASE \/ BeginCycle \/ PassNotBegun \/ Interrupted \/ EndPass \/ Close
           \/ LoseDriverEarly \/ AllocLosesDriver \/ MetricsLoseDriver
           \/ SampleLosesDriver \/ \E d \in Devices : GpmMissing(d)
  BY <1>1, <1>7
     DEF BeginCycle, PassNotBegun, Interrupted, EndPass, Close,
         LoseDriverEarly, AllocLosesDriver, MetricsLoseDriver,
         SampleLosesDriver, LoseDriver, GpmMissing, EndCycle
<1>8. ASSUME NEW d \in Devices, \/ SkipDevice(d) \/ InventoryOnly(d)
                                \/ BeginSampling(d)
      PROVE  InHand'
  BY <1>1, <1>8 DEF SkipDevice, InventoryOnly, BeginSampling, PassOver
<1>9. CASE AllocSample
  BY <1>1, <1>9 DEF AllocSample, NextInstance, InHand
<1>10. CASE SeedSample \/ SampleFails \/ Rotate \/ EndDevice
  BY <1>1, <1>10 DEF SeedSample, SampleFails, Rotate, EndDevice, NextInstance
<1>11. CASE TakeSample
  <2>1. fresh \in Handles
    BY <1>0, <1>11 DEF TakeSample, InPlace, MemoryTypes
  <2> QED
    BY <1>0, <1>11, <2>1 DEF TakeSample, InHand, MemoryTypes
<1>12. CASE UNCHANGED vars
  BY <1>12 DEF vars, InHand
<1> QED
  BY <1>2, <1>3, <1>4, <1>5, <1>6, <1>7, <1>8, <1>9, <1>10, <1>11, <1>12 DEF Next

(* What is retained stays genuine, and so does what is reported.           *)
LEMMA StepGenuine ==
  Typing /\ SamplesAreOwned /\ Comparable /\ [Next]_vars
    => Kept' /\ UtilizationIsSound'
<1> SUFFICES ASSUME Typing, SamplesAreOwned, Comparable, [Next]_vars
             PROVE  Kept' /\ UtilizationIsSound'
  OBVIOUS
<1>0. /\ PassTypes /\ MemoryTypes /\ InPlace
      /\ Listed /\ Kept /\ InHand /\ UtilizationIsSound
  BY DEF Typing, Comparable
<1>00. \A k \in Retained : gpm[k] \in States /\ gpm[k].sample \in Handles
  BY <1>0 DEF MemoryTypes, Retained, States
<1> USE DEF cycleVars, driverVars, freeVars
<1>1. ASSUME report' = report PROVE UtilizationIsSound'
  BY <1>0, <1>1 DEF UtilizationIsSound
<1>2. ASSUME UNCHANGED <<gpm, content>> PROVE Kept'
  BY <1>0, <1>2 DEF Kept, Genuine, Retained
<1>3. ASSUME NEW k \in Instances, Reconfigure(k) \/ Proceed(k)
      PROVE  Kept' /\ UtilizationIsSound'
  BY <1>1, <1>2, <1>3 DEF Reconfigure, Proceed
<1>4. ASSUME NEW k \in Instances, Invalidate(k)
      PROVE  Kept' /\ UtilizationIsSound'
  <2>1. /\ Free({gpm[k].sample}, open) /\ Forget({k}) /\ gpm[k] # NoState
        /\ report' = report
    BY <1>4 DEF Invalidate, Invalid
  <2>2. SamplesOf({k}) = {gpm[k].sample}
    BY <2>1 DEF SamplesOf, Retained
  <2> QED
    BY <1>0, <1>1, <2>1, <2>2, KeptForget
<1>5. ASSUME NEW k \in Instances, ServeLast(k)
      PROVE  Kept' /\ UtilizationIsSound'
  <2>1. Kept'
    BY <1>2, <1>5 DEF ServeLast
  <2>2. /\ gpm[k] # NoState /\ gpm[k].print = prints[k] /\ k \in groups
        /\ report' = IF gpm[k].last = None THEN report
                       ELSE [gpm[k].last EXCEPT !.actual = shape[k]]
    BY <1>5 DEF ServeLast, Anchored, Invalid
  <2>3. Genuine(k) /\ Of(prints[k], shape[k])
    BY <1>0, <2>2 DEF Kept, Listed, Retained
  <2>4. shape[k] = content[gpm[k].sample]
    BY <2>2, <2>3, OneShape DEF Genuine
  <2>5. CASE gpm[k].last = None
    BY <1>1, <2>1, <2>2, <2>5
  <2>6. CASE gpm[k].last # None
    <3>1. Compares(gpm[k].last, shape[k]) /\ gpm[k].last \in Reports
      BY <1>0, <2>2, <2>3, <2>4, <2>6 DEF Genuine, MemoryTypes, States
    <3>2. report' = [gpm[k].last EXCEPT !.actual = shape[k]]
      BY <2>2, <2>6
    <3> QED
      BY <2>1, <3>1, <3>2 DEF Compares, Reports, UtilizationIsSound
  <2> QED
    BY <2>5, <2>6
<1>6. CASE Tick
  <2>1. content' = content /\ report' = report
    BY <1>6 DEF Tick
  <2> QED
    BY <1>0, <1>1, <1>6, <2>1, Ticking, KeptStays
<1>7. CASE \/ ContextEnds \/ BeginCycle \/ PassNotBegun \/ Interrupted
           \/ EndDevice \/ AllocSample
  BY <1>1, <1>2, <1>7
     DEF ContextEnds, BeginCycle, PassNotBegun, Interrupted, EndDevice, AllocSample
<1>8. ASSUME NEW d \in Devices, \/ SkipDevice(d) \/ InventoryOnly(d)
                                \/ GpmMissing(d) \/ BeginSampling(d)
      PROVE  Kept' /\ UtilizationIsSound'
  BY <1>1, <1>2, <1>8
     DEF SkipDevice, InventoryOnly, GpmMissing, BeginSampling, PassOver
<1>9. CASE EndPass
  <2>1. /\ Free(SamplesOf(Instances \ seen), open) /\ Forget(Instances \ seen)
        /\ report' = report
    BY <1>9 DEF EndPass
  <2> QED
    BY <1>0, <1>1, <2>1, KeptForget
<1>10. CASE \/ Close \/ LoseDriverEarly \/ AllocLosesDriver \/ MetricsLoseDriver
            \/ SampleLosesDriver
  <2>1. Forget(Instances) /\ report' = report
    BY <1>10 DEF Close, LoseDriverEarly, AllocLosesDriver, MetricsLoseDriver,
                 SampleLosesDriver, LoseDriver, MarkLostThenFree
  <2>2. Retained' = {}
    BY <1>0, <2>1, Forgetting DEF MemoryTypes, Retained
  <2> QED
    BY <1>1, <2>1, <2>2 DEF Kept
<1>11. ASSUME \A k \in Retained : gpm[k].sample # fresh =>
                content'[gpm[k].sample] = content[gpm[k].sample],
              gpm' = gpm
       PROVE  Kept'
  <2>1. \A k \in Retained : gpm[k].sample # fresh
    BY DEF SamplesAreOwned, SamplesOf, Retained
  <2> QED
    BY <1>0, <1>11, <2>1, KeptStays DEF Retained
<1>12. CASE TakeSample
  <2>1. /\ content' = [content EXCEPT ![fresh] = shape[gi]]
        /\ gpm' = gpm /\ report' = report
    BY <1>12 DEF TakeSample
  <2> QED
    BY <1>0, <1>00, <1>1, <1>11, <2>1 DEF MemoryTypes
<1>13. CASE SampleFails
  <2>1. Free({fresh}, open) /\ gpm' = gpm /\ report' = report
    BY <1>13 DEF SampleFails
  <2> QED
    BY <1>00, <1>1, <1>11, <2>1 DEF Free
<1>14. ASSUME NEW k \in Instances, NEW st \in States,
              gpm' = [gpm EXCEPT ![k] = st],
              Of(st.print, content'[st.sample]),
              st.last = None \/ Compares(st.last, content'[st.sample]),
              \A l \in Retained \ {k} :
                content'[gpm[l].sample] = content[gpm[l].sample]
       PROVE  Kept'
  <2>1. /\ gpm'[k] = st
        /\ \A l \in Instances : l # k => gpm'[l] = gpm[l]
    BY <1>0, <1>14 DEF MemoryTypes
  <2>2. Genuine(k)'
    BY <1>14, <2>1 DEF Genuine
  <2>3. ASSUME NEW l \in Retained', l # k PROVE Genuine(l)'
    <3>1. l \in Retained /\ gpm'[l] = gpm[l]
      BY <2>1, <2>3 DEF Retained
    <3> QED
      BY <1>0, <1>14, <2>3, <3>1 DEF Kept, Genuine
  <2> QED
    BY <2>2, <2>3 DEF Kept
<1>15. CASE SeedSample
  <2>1. /\ fresh \in Handles /\ gi \in Instances /\ gi \in groups
        /\ prints[gi] \in Prints
        /\ content' = [content EXCEPT ![fresh] = shape[gi]] /\ report' = report
    BY <1>0, <1>15 DEF SeedSample, InPlace, MemoryTypes, PassTypes
  <2> DEFINE st == [sample |-> fresh, age |-> 0, print |-> prints[gi], last |-> None]
  <2>2. /\ st \in States /\ st.sample = fresh /\ st.print = prints[gi]
        /\ st.last = None
    BY <2>1, WindowAssumption DEF States
  <2>3. gpm' = [gpm EXCEPT ![gi] = st]
    BY <1>15 DEF SeedSample
  <2>4. content'[fresh] = shape[gi] /\ Of(prints[gi], shape[gi])
    BY <1>0, <2>1 DEF MemoryTypes, Listed
  <2>5. \A l \in Retained : content'[gpm[l].sample] = content[gpm[l].sample]
    BY <1>0, <1>00, <2>1 DEF MemoryTypes, SamplesAreOwned, SamplesOf, Retained
  <2> HIDE DEF st
  <2> QED
    BY <1>1, <1>14, <2>1, <2>2, <2>3, <2>4, <2>5
<1>16. CASE Rotate
  <2>1. /\ Free({gpm[gi].sample}, open) /\ fresh \in Handles
        /\ gi \in Instances /\ gi \in groups /\ gpm[gi] # NoState
        /\ gi \in Retained /\ gpm[gi].print = prints[gi]
        /\ gpm[gi].age \in MinWindow .. MaxWindow /\ content[fresh] = shape[gi]
    BY <1>0, <1>16
       DEF Rotate, InPlace, MemoryTypes, PassTypes, InHand, Retained
  <2>2. PICK ok \in BOOLEAN :
          LET util == [from |-> content[gpm[gi].sample], to |-> content[fresh],
                       window |-> gpm[gi].age, actual |-> shape[gi]]
          IN  /\ report' = IF ok THEN util ELSE report
              /\ gpm' = [gpm EXCEPT ![gi] =
                           [sample |-> fresh, age |-> 0, print |-> gpm[gi].print,
                            last |-> IF ok THEN util ELSE None]]
    BY <1>16 DEF Rotate
  <2>3. Of(prints[gi], content[gpm[gi].sample]) /\ Of(prints[gi], shape[gi])
    BY <1>0, <2>1 DEF Kept, Genuine, Listed
  <2>4. content[gpm[gi].sample] = shape[gi]
    BY <2>3, OneShape
  <2> DEFINE util == [from |-> content[gpm[gi].sample], to |-> content[fresh],
                      window |-> gpm[gi].age, actual |-> shape[gi]]
             last == IF ok THEN util ELSE None
             st   == [sample |-> fresh, age |-> 0, print |-> gpm[gi].print,
                      last |-> last]
  <2>5. report' = (IF ok THEN util ELSE report) /\ gpm' = [gpm EXCEPT ![gi] = st]
    BY <2>2
  <2>6. /\ Compares(util, shape[gi]) /\ util.actual = shape[gi]
        /\ util.window \in MinWindow .. MaxWindow
    BY <2>1, <2>4 DEF Compares
  <2>7. st \in States
    <3>1. gpm'[gi] = st
      BY <1>0, <2>1, <2>5 DEF MemoryTypes
    <3>2. st \in States \cup {NoState} /\ st.sample = fresh
      BY <2>1, <3>1, StepMemory DEF MemoryTypes
    <3> QED
      BY <2>1, <3>2, NoneAssumption DEF NoState
  <2>8. /\ st.sample = fresh /\ st.print = prints[gi] /\ st.last = last
        /\ last = None \/ last = util
    BY <2>1
  <2> HIDE DEF util, last, st
  <2>9. UtilizationIsSound'
    BY <1>0, <2>5, <2>6 DEF UtilizationIsSound, Compares
  <2>10. fresh # gpm[gi].sample /\ content'[fresh] = shape[gi]
    BY <2>1 DEF SamplesAreOwned, SamplesOf, Retained, Free
  <2>11. \A l \in Retained \ {gi} : content'[gpm[l].sample] = content[gpm[l].sample]
    BY <1>00, <2>1 DEF SamplesAreOwned, Free
  <2>12. Kept'
    BY <1>14, <2>1, <2>3, <2>5, <2>6, <2>7, <2>8, <2>10, <2>11
  <2> QED
    BY <2>9, <2>12
<1>17. CASE UNCHANGED vars
  BY <1>1, <1>2, <1>17 DEF vars
<1> QED
  BY <1>3, <1>4, <1>5, <1>6, <1>7, <1>8, <1>9, <1>10, <1>12, <1>13, <1>15, <1>16,
     <1>17 DEF Next

(* A utilization compares two samples of one and the same instance, the    *)
(* one it is reported for, over a window within the two guards.            *)
THEOREM GpmUtilizationSound == Spec => []UtilizationIsSound
<1>1. Init => SamplesAreOwned
  BY DEF Init, SamplesAreOwned, SamplesOf, Retained
<1>2. Init => Comparable
  BY WindowAssumption
     DEF Init, Comparable, Listed, Kept, Retained, InHand, UtilizationIsSound,
         NoReport
<1>3. Typing /\ SamplesAreOwned /\ Comparable /\ [Next]_vars => Comparable'
  BY StepListed, StepInHand, StepGenuine DEF Comparable
<1>4. Comparable => UtilizationIsSound
  BY DEF Comparable
<1> QED
  BY <1>1, <1>2, <1>3, <1>4, InitTyping, StepTyping, StepOwned, PTL DEF Spec
=============================================================================
