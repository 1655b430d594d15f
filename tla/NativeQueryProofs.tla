-------------------------- MODULE NativeQueryProofs -------------------------
(***************************************************************************)
(* Proofs about the queries of the native backend, for any queries, any    *)
(* number of devices and of driver generations.                            *)
(***************************************************************************)
EXTENDS NativeQuery, TLAPS

(* A goroutine with the lock, and one that is calling or may call.         *)
InCycle == {"init", "begin", "count", "next", "device"}
AtWork  == {"begin", "count", "next", "device"}

(* A list that was cut short is empty.                                     *)
ListIsWhole(r) ==
  IF r.appsOK THEN \E n \in 0 .. MaxDevices : r.apps = 0 .. n - 1
              ELSE r.apps = {}

TableIsWhole(r) == r.counted > 0 /\ r.table = 0 .. r.counted - 1

Sound(r) ==
  /\ \A g, h \in r.readIn : g = h
  /\ TableIsWhole(r)
  /\ ListIsWhole(r)

(* A device that is being read is one of those counted.                    *)
InBounds == \A q \in Queries : pc[q] = "device" => next[q] < count[q]

-----------------------------------------------------------------------------
(* The values a cycle builds are readings and answers.                     *)
LEMMA ReadingTypes ==
  /\ EmptyReading \in Readings
  /\ \A err \in Errors : Failed(err) \in Answers
  /\ \A r \in Readings :
       /\ Good(r) \in Answers
       /\ [r EXCEPT !.apps = {}] \in Readings
       /\ [r EXCEPT !.appsOK = TRUE] \in Readings
<1>1. EmptyReading \in Readings
  BY NativeBoundAssumption DEF EmptyReading, Readings
<1>2. \A err \in Errors : Failed(err) \in Answers
  BY <1>1 DEF Failed, Answers
<1>3. ASSUME NEW r \in Readings
      PROVE  /\ Good(r) \in Answers
             /\ [r EXCEPT !.apps = {}] \in Readings
             /\ [r EXCEPT !.appsOK = TRUE] \in Readings
  BY <1>3 DEF Good, Answers, Errors, Readings
<1> QED
  BY <1>1, <1>2, <1>3

(* Ending a cycle, beginning a phase and failing one keep the types.       *)
LEMMA FinishTypes ==
  ASSUME TypeOK, NEW q \in Queries, NEW out \in Answers, Finish(q, out)
  PROVE  /\ outcome' \in [Queries -> Answers]
         /\ pc' \in [Queries -> PCs]
         /\ phase' \in [Queries -> Phases]
         /\ count' \in [Queries -> 0 .. MaxDevices]
         /\ next' \in [Queries -> 0 .. MaxDevices]
         /\ reading' \in [Queries -> Readings]
         /\ mu' = NoOne
  BY ReadingTypes, NativeBoundAssumption
     DEF Finish, Goto, TypeOK, PCs, Phases, Errors

LEMMA ProceedTypes ==
  ASSUME TypeOK, NEW q \in Queries, NEW ph \in Phases, NEW r \in Readings,
         Proceed(q, ph, r)
  PROVE  /\ outcome' = outcome
         /\ pc' \in [Queries -> PCs]
         /\ phase' \in [Queries -> Phases]
         /\ count' = count /\ next' = next
         /\ reading' \in [Queries -> Readings]
         /\ mu' = mu
  BY DEF Proceed, Goto, TypeOK, PCs

LEMMA FailTypes ==
  ASSUME TypeOK, NEW q \in Queries, NEW err \in Errors, PhaseFails(q, err)
  PROVE  /\ outcome' \in [Queries -> Answers]
         /\ pc' \in [Queries -> PCs]
         /\ phase' \in [Queries -> Phases]
         /\ count' \in [Queries -> 0 .. MaxDevices]
         /\ next' \in [Queries -> 0 .. MaxDevices]
         /\ reading' \in [Queries -> Readings]
         /\ mu' \in {mu, NoOne}
<1>1. reading[q] \in Readings
  BY DEF TypeOK
<1>2. CASE Finish(q, Failed(err)) \/ Finish(q, Good(reading[q]))
  BY <1>1, <1>2, FinishTypes, ReadingTypes
<1>3. CASE Proceed(q, "extras", [reading[q] EXCEPT !.apps = {}])
  BY <1>1, <1>3, ProceedTypes, ReadingTypes DEF Phases, TypeOK
<1> QED
  BY <1>2, <1>3 DEF PhaseFails

(* The initial state is well typed.                                        *)
LEMMA InitTypes == Init => TypeOK
<1> SUFFICES ASSUME Init PROVE TypeOK
  OBVIOUS
<1>1. Failed("none") \in Answers /\ EmptyReading \in Readings
  BY ReadingTypes DEF Errors
<1>2. /\ answer \in [Queries -> Answers] /\ outcome \in [Queries -> Answers]
      /\ reading \in [Queries -> Readings]
  BY <1>1 DEF Init
<1>3. initialized \in BOOLEAN /\ ctxOver \in [Queries -> BOOLEAN]
  BY DEF Init
<1> QED
  BY <1>2, <1>3, NativeBoundAssumption DEF Init, TypeOK, PCs, Phases

(* Every action keeps the state well typed.                                *)
LEMMA StepTypes == TypeOK /\ InBounds /\ [Next]_vars => TypeOK'
<1> SUFFICES ASSUME TypeOK, InBounds, [Next]_vars PROVE TypeOK'
  OBVIOUS
<1> USE NativeBoundAssumption DEF callerVars, cycleVars, libVars
<1>1. ASSUME NEW q \in Queries, Ask(q) PROVE TypeOK'
  BY <1>1 DEF Ask, TypeOK, PCs
<1>2. ASSUME NEW q \in Queries, ContextEnds(q) PROVE TypeOK'
  BY <1>2 DEF ContextEnds, TypeOK
<1>3. ASSUME NEW q \in Queries, NEW a \in Answers, Return(q, a) PROVE TypeOK'
  <2>1. Failed("none") \in Answers
    BY ReadingTypes DEF Errors
  <2> QED
    BY <1>3, <2>1 DEF Return, TypeOK
<1>4. ASSUME NEW q \in Queries, Receive(q) \/ Abandon(q) PROVE TypeOK'
  <2>1. outcome[q] \in Answers /\ Failed("abandoned") \in Answers
    BY ReadingTypes DEF TypeOK, Errors
  <2> QED
    BY <1>3, <1>4, <2>1 DEF Receive, Abandon
<1>5. ASSUME NEW q \in Queries, Rejected(q) PROVE TypeOK'
  <2>1. Failed("rejected") \in Answers
    BY ReadingTypes DEF Errors
  <2> QED
    BY <1>5, <2>1 DEF Rejected, Goto, TypeOK, PCs
<1>6. ASSUME NEW q \in Queries, TryLock(q) PROVE TypeOK'
  BY <1>6 DEF TryLock, Goto, TypeOK, PCs
<1>7. ASSUME NEW q \in Queries, InitFails(q) PROVE TypeOK'
  <2>1. Failed("fatal") \in Answers
    BY ReadingTypes DEF Errors
  <2> QED
    BY <1>7, <2>1, FinishTypes DEF InitFails, TypeOK
<1>8. ASSUME NEW q \in Queries, InitSucceeds(q) PROVE TypeOK'
  BY <1>8 DEF InitSucceeds, Goto, TypeOK, PCs
<1>9. ASSUME NEW q \in Queries, NEW err \in Errors, PhaseFails(q, err),
             UNCHANGED <<caller, ctxOver, answer, generation, devices>>,
             initialized' \in {initialized, FALSE},
             lost' \in {lost, lost \cup {generation}}
      PROVE  TypeOK'
  <2>1. lost' \subseteq 1 .. generation
    BY <1>9 DEF TypeOK
  <2>2. initialized' \in BOOLEAN
    BY <1>9 DEF TypeOK
  <2> QED
    BY <1>9, <2>1, <2>2, FailTypes DEF TypeOK
<1>10. ASSUME NEW q \in Queries,
              \/ BeginPhase(q) \/ Interrupted(q) \/ DeviceInterrupted(q)
              \/ CallFails(q) \/ DriverLost(q)
       PROVE  TypeOK'
  <2>1. CASE Goto(q, "count") /\ UNCHANGED <<callerVars, cycleVars, outcome, mu,
                                             libVars, devices>>
    BY <2>1 DEF Goto, TypeOK, PCs
  <2>2. "plain" \in Errors /\ "fatal" \in Errors
    BY DEF Errors
  <2> QED
    BY <1>9, <1>10, <2>1, <2>2
       DEF BeginPhase, Interrupted, DeviceInterrupted, CallFails, DriverLost
<1>11. ASSUME NEW q \in Queries, Counted(q) PROVE TypeOK'
  <2>1. [reading EXCEPT ![q].counted = devices] \in [Queries -> Readings]
    BY DEF TypeOK, Readings
  <2>2. reading' \in [Queries -> Readings]
    BY <1>11, <2>1 DEF Counted, TypeOK
  <2> QED
    BY <1>11, <2>2 DEF Counted, Goto, TypeOK, PCs
<1>12. ASSUME NEW q \in Queries, NextDevice(q) PROVE TypeOK'
  BY <1>12 DEF NextDevice, Goto, TypeOK, PCs
<1>13. ASSUME NEW q \in Queries, ReadDevice(q) PROVE TypeOK'
  <2>1. next[q] \in 0 .. MaxDevices - 1 /\ reading[q] \in Readings
    BY <1>13 DEF ReadDevice, TypeOK
  <2>2. Keep(q, reading[q]) \in Readings
    BY <2>1 DEF Keep, Readings, TypeOK
  <2> QED
    BY <1>13, <2>1, <2>2 DEF ReadDevice, Goto, TypeOK, PCs
<1>14. ASSUME NEW q \in Queries, ExtrasSkipDevice(q) PROVE TypeOK'
  <2>1. next[q] + 1 \in 0 .. MaxDevices
    BY <1>14 DEF ExtrasSkipDevice, InBounds, TypeOK
  <2> QED
    BY <1>14, <2>1 DEF ExtrasSkipDevice, Goto, TypeOK, PCs
<1>15. ASSUME NEW q \in Queries, PhaseOver(q) PROVE TypeOK'
  <2>1. reading[q] \in Readings
    BY DEF TypeOK
  <2>2. CASE Finish(q, Good(reading[q]))
    BY <1>15, <2>1, <2>2, FinishTypes, ReadingTypes DEF PhaseOver, TypeOK
  <2>3. ASSUME NEW ph \in Phases, NEW r \in Readings, Proceed(q, ph, r)
        PROVE  TypeOK'
    BY <1>15, <2>3, ProceedTypes DEF PhaseOver, TypeOK
  <2> QED
    BY <1>15, <2>1, <2>2, <2>3, ReadingTypes DEF PhaseOver, Phases
<1>16. CASE WatcherTakes \/ WatcherReleases
  <2>1. initialized' \in BOOLEAN
    BY <1>16 DEF WatcherTakes, WatcherReleases, TypeOK
  <2>2. /\ generation' \in {generation, generation + 1}
        /\ generation' \in 1 .. MaxGenerations
        /\ mu' \in {Watcher, NoOne}
    BY <1>16 DEF WatcherTakes, WatcherReleases, TypeOK
  <2>3. lost' \subseteq 1 .. generation'
    <3>1. lost' = lost /\ lost \subseteq 1 .. generation /\ generation \in Nat
      BY <1>16 DEF WatcherTakes, WatcherReleases, TypeOK
    <3> QED
      BY <2>2, <3>1
  <2> QED
    BY <1>16, <2>1, <2>2, <2>3 DEF WatcherTakes, WatcherReleases, TypeOK
<1>17. CASE DevicesChange
  BY <1>17 DEF DevicesChange, TypeOK
<1>18. CASE UNCHANGED vars
  BY <1>18 DEF vars, TypeOK
<1> QED
  BY <1>1, <1>2, <1>4, <1>5, <1>6, <1>7, <1>8, <1>10, <1>11, <1>12, <1>13,
     <1>14, <1>15, <1>16, <1>17, <1>18
     DEF Next, CallerRuns, GoroutineRuns, DriverReturns

-----------------------------------------------------------------------------
(* What a cycle has by now: the table, then the process list, as far as    *)
(* the devices have been read.                                             *)
TableSoFar(q) ==
  LET r == reading[q]
  IN  /\ pc[q] \in {"init", "count"} => r = EmptyReading
      /\ pc[q] \in {"next", "device"} =>
           /\ r.counted = count[q] /\ count[q] > 0
           /\ r.table = 0 .. next[q] - 1
           /\ r.apps = {} /\ ~r.appsOK

ListSoFar(q) ==
  LET r == reading[q]
  IN  /\ TableIsWhole(r) /\ ~r.appsOK
      /\ pc[q] \in {"begin", "count"} => r.apps = {}
      /\ pc[q] \in {"next", "device"} => r.apps = 0 .. next[q] - 1

Progress(q) ==
  CASE phase[q] = "table"  -> TableSoFar(q)
    [] phase[q] = "apps"   -> ListSoFar(q)
    [] phase[q] = "extras" -> TableIsWhole(reading[q]) /\ ListIsWhole(reading[q])

(* A cycle has the lock from one end to the other, so the library is the   *)
(* same to all of it.                                                      *)
CycleInOrder(q) ==
  /\ pc[q] \in InCycle => mu = q
  /\ pc[q] \notin AtWork => phase[q] = "table" /\ reading[q] = EmptyReading
  /\ pc[q] = "begin" => phase[q] # "table" /\ (phase[q] = "apps" => initialized)
  /\ pc[q] \in {"count", "next", "device"} => initialized
  /\ pc[q] = "next" => next[q] <= count[q]
  /\ pc[q] = "device" => next[q] < count[q]
  /\ reading[q].readIn \subseteq {generation}
  /\ pc[q] \in InCycle => Progress(q)

(* What it hands over, and what has been answered, is sound.               *)
HandOverInOrder(q) ==
  /\ caller[q] = "idle" => pc[q] = "none"
  /\ pc[q] = "done" /\ caller[q] = "waiting" /\ outcome[q].err = "none" =>
       Sound(outcome[q].reading)
  /\ caller[q] = "answered" /\ answer[q].err = "none" => Sound(answer[q].reading)

(* A library in use has not been lost.                                     *)
LibraryInOrder == initialized => generation \notin lost

IInv ==
  /\ TypeOK
  /\ LibraryInOrder
  /\ \A q \in Queries : CycleInOrder(q) /\ HandOverInOrder(q)

(* The bounds that the types rest on are part of the invariant.            *)
LEMMA BoundsKept == IInv => InBounds
  BY DEF IInv, CycleInOrder, InBounds

(* Nothing is being read in the initial state.                             *)
LEMMA InitIInv == Init => IInv
<1> SUFFICES ASSUME Init PROVE IInv
  OBVIOUS
<1>1. TypeOK
  BY InitTypes
<1>2. LibraryInOrder
  BY DEF Init, LibraryInOrder
<1>3. ASSUME NEW q \in Queries PROVE CycleInOrder(q) /\ HandOverInOrder(q)
  <2>1. /\ pc[q] = "none" /\ phase[q] = "table" /\ caller[q] = "idle"
        /\ reading[q] = EmptyReading
    BY DEF Init
  <2>2. EmptyReading.readIn = {}
    BY DEF EmptyReading
  <2> QED
    BY <2>1, <2>2 DEF CycleInOrder, HandOverInOrder, InCycle, AtWork
<1> QED
  BY <1>1, <1>2, <1>3 DEF IInv

-----------------------------------------------------------------------------
Same(h) ==
  /\ caller'[h] = caller[h] /\ answer'[h] = answer[h]
  /\ pc'[h] = pc[h] /\ phase'[h] = phase[h]
  /\ count'[h] = count[h] /\ next'[h] = next[h]
  /\ reading'[h] = reading[h] /\ outcome'[h] = outcome[h]

(* A query that is not in a cycle does not mind what one that is does.     *)
LEMMA OutsideIsSafe ==
  ASSUME IInv, NEW h \in Queries, pc[h] \notin InCycle, Same(h)
  PROVE  (CycleInOrder(h) /\ HandOverInOrder(h))'
<1>1. CycleInOrder(h) /\ HandOverInOrder(h)
  BY DEF IInv
<1>2. EmptyReading.readIn = {}
  BY DEF EmptyReading
<1>3. CycleInOrder(h)'
  BY <1>1, <1>2 DEF CycleInOrder, Same, InCycle, AtWork
<1>4. HandOverInOrder(h)'
  BY <1>1 DEF HandOverInOrder, Same, Sound, TableIsWhole, ListIsWhole
<1> QED
  BY <1>3, <1>4

(* Nor does any query mind a step that leaves the lock and the library.    *)
LEMMA SameCycle ==
  ASSUME IInv, NEW h \in Queries, pc'[h] = pc[h], phase'[h] = phase[h],
         count'[h] = count[h], next'[h] = next[h], reading'[h] = reading[h],
         UNCHANGED <<mu, initialized, generation>>
  PROVE  CycleInOrder(h)'
<1>1. CycleInOrder(h)
  BY DEF IInv
<1>2. Progress(h)' <=> Progress(h)
  BY DEF Progress, TableSoFar, ListSoFar, TableIsWhole, ListIsWhole
<1> QED
  BY <1>1, <1>2 DEF CycleInOrder

(* While one query is in a cycle no other is.                              *)
LEMMA OneCycle ==
  ASSUME IInv, NEW q \in Queries, mu = q \/ mu \notin Queries,
         NEW h \in Queries \ {q}
  PROVE  pc[h] \notin InCycle
  BY DEF IInv, CycleInOrder

(* Ending a cycle, with an error or with a sound reading.                  *)
LEMMA FinishInOrder ==
  ASSUME IInv, NEW q \in Queries, NEW out \in Answers, Finish(q, out),
         pc[q] \in InCycle, UNCHANGED callerVars,
         out.err = "none" => Sound(out.reading)
  PROVE  (CycleInOrder(q) /\ HandOverInOrder(q))'
<1>1. /\ pc'[q] = "done" /\ phase'[q] = "table" /\ reading'[q] = EmptyReading
      /\ outcome'[q] = IF caller[q] = "waiting" THEN out ELSE Failed("none")
      /\ caller'[q] = caller[q] /\ answer'[q] = answer[q]
  BY DEF Finish, Goto, IInv, TypeOK, callerVars
<1>2. HandOverInOrder(q)
  BY DEF IInv
<1>3. EmptyReading.readIn = {}
  BY DEF EmptyReading
<1>4. CycleInOrder(q)'
  BY <1>1, <1>3 DEF CycleInOrder, InCycle, AtWork
<1>5. caller[q] # "idle"
  BY <1>2 DEF HandOverInOrder, InCycle
<1>6. HandOverInOrder(q)'
  BY <1>1, <1>2, <1>5 DEF HandOverInOrder, Sound, TableIsWhole, ListIsWhole
<1> QED
  BY <1>4, <1>6

(* Going on with the next phase.                                           *)
LEMMA ProceedInOrder ==
  ASSUME IInv, NEW q \in Queries, NEW ph \in {"apps", "extras"},
         NEW r \in Readings, Proceed(q, ph, r), pc[q] \in InCycle,
         UNCHANGED <<callerVars, generation>>,
         r.readIn \subseteq {generation}, TableIsWhole(r),
         ph = "apps" => ~r.appsOK /\ r.apps = {} /\ initialized',
         ph = "extras" => ListIsWhole(r)
  PROVE  (CycleInOrder(q) /\ HandOverInOrder(q))'
<1>1. /\ pc'[q] = "begin" /\ phase'[q] = ph /\ reading'[q] = r /\ mu' = mu
      /\ caller'[q] = caller[q] /\ answer'[q] = answer[q]
      /\ generation' = generation
  BY DEF Proceed, Goto, IInv, TypeOK, callerVars
<1>2. HandOverInOrder(q) /\ mu = q
  BY DEF IInv, CycleInOrder
<1>3. Progress(q)'
  BY <1>1 DEF Progress, ListSoFar, TableIsWhole, ListIsWhole
<1>4. CycleInOrder(q)'
  BY <1>1, <1>2, <1>3 DEF CycleInOrder, InCycle, AtWork
<1>5. caller[q] # "idle"
  BY <1>2 DEF HandOverInOrder, InCycle
<1>6. HandOverInOrder(q)'
  BY <1>1, <1>2, <1>5 DEF HandOverInOrder, Sound, TableIsWhole, ListIsWhole
<1> QED
  BY <1>4, <1>6

(* A phase that fails leaves nothing of it that passes for the whole.      *)
LEMMA FailInOrder ==
  ASSUME IInv, NEW q \in Queries, NEW err \in Errors \ {"none"},
         PhaseFails(q, err), pc[q] \in AtWork,
         UNCHANGED <<callerVars, generation>>
  PROVE  (CycleInOrder(q) /\ HandOverInOrder(q))'
<1>1. /\ reading[q] \in Readings /\ phase[q] \in Phases
      /\ pc[q] \in InCycle /\ Progress(q)
      /\ reading[q].readIn \subseteq {generation}
  BY DEF IInv, TypeOK, CycleInOrder, InCycle, AtWork
<1>2. CASE phase[q] = "table"
  <2>1. Finish(q, Failed(err)) /\ Failed(err) \in Answers /\ Failed(err).err = err
    BY <1>2, ReadingTypes DEF PhaseFails, Failed
  <2> QED
    BY <1>1, <2>1, FinishInOrder
<1>3. CASE phase[q] = "apps"
  <2> DEFINE r == [reading[q] EXCEPT !.apps = {}]
  <2>1. Proceed(q, "extras", r) /\ r \in Readings
    BY <1>1, <1>3, ReadingTypes DEF PhaseFails
  <2>2. TableIsWhole(reading[q]) /\ ~reading[q].appsOK
    BY <1>1, <1>3 DEF Progress, ListSoFar
  <2>3. /\ r.table = reading[q].table /\ r.counted = reading[q].counted
        /\ r.apps = {} /\ r.appsOK = reading[q].appsOK
        /\ r.readIn = reading[q].readIn
    BY <1>1 DEF Readings
  <2>4. TableIsWhole(r) /\ ListIsWhole(r)
    BY <2>2, <2>3 DEF TableIsWhole, ListIsWhole
  <2> HIDE DEF r
  <2> QED
    BY <1>1, <2>1, <2>3, <2>4, ProceedInOrder
<1>4. CASE phase[q] = "extras"
  <2>1. /\ Finish(q, Good(reading[q])) /\ Good(reading[q]) \in Answers
        /\ Good(reading[q]).reading = reading[q]
    BY <1>1, <1>4, ReadingTypes DEF PhaseFails, Good
  <2>2. Sound(reading[q])
    BY <1>1, <1>4 DEF Progress, Sound
  <2> QED
    BY <1>1, <2>1, <2>2, FinishInOrder
<1> QED
  BY <1>1, <1>2, <1>3, <1>4 DEF Phases

(* What Finish, Proceed and PhaseFails do for the other queries: nothing.  *)
LEMMA OthersSame ==
  ASSUME TypeOK, NEW q \in Queries, NEW h \in Queries \ {q},
         UNCHANGED callerVars,
         \/ \E out : Finish(q, out)
         \/ \E ph, r : Proceed(q, ph, r)
         \/ \E err : PhaseFails(q, err)
  PROVE  Same(h)
  BY DEF Same, Finish, Proceed, PhaseFails, Goto, TypeOK, callerVars

(* One step of one query in a cycle, which the others are not in.          *)
LEMMA OwnStep ==
  ASSUME IInv, TypeOK', LibraryInOrder', NEW q \in Queries,
         mu = q \/ mu \notin Queries,
         \A h \in Queries \ {q} : Same(h),
         (CycleInOrder(q) /\ HandOverInOrder(q))'
  PROVE  IInv'
<1>1. ASSUME NEW h \in Queries PROVE (CycleInOrder(h) /\ HandOverInOrder(h))'
  <2>1. CASE h = q
    BY <2>1
  <2>2. CASE h # q
    BY <2>2, OneCycle, OutsideIsSafe
  <2> QED
    BY <2>1, <2>2
<1> QED
  BY <1>1 DEF IInv

(* Every action keeps the invariant.                                       *)
LEMMA StepIInv == IInv /\ [Next]_vars => IInv'
<1> SUFFICES ASSUME IInv, [Next]_vars PROVE IInv'
  OBVIOUS
<1>0. TypeOK /\ TypeOK' /\ LibraryInOrder
  BY BoundsKept, StepTypes DEF IInv
<1>00. \A q \in Queries : CycleInOrder(q) /\ HandOverInOrder(q)
  BY DEF IInv
<1> USE DEF callerVars, cycleVars, libVars
<1>1. ASSUME NEW q \in Queries, Ask(q) PROVE IInv'
  <2>1. /\ caller[q] = "idle" /\ pc' = [pc EXCEPT ![q] = "try"]
        /\ caller' = [caller EXCEPT ![q] = "waiting"]
        /\ UNCHANGED <<answer, phase, count, next, reading, outcome, mu,
                       initialized, generation, lost>>
    BY <1>1 DEF Ask
  <2>2. pc[q] = "none" /\ phase[q] = "table" /\ reading[q] = EmptyReading
    BY <1>00, <2>1 DEF HandOverInOrder, CycleInOrder, AtWork
  <2>3. (CycleInOrder(q) /\ HandOverInOrder(q))'
    <3>1. pc'[q] = "try" /\ caller'[q] = "waiting"
      BY <1>0, <2>1 DEF TypeOK
    <3>2. EmptyReading.readIn = {}
      BY DEF EmptyReading
    <3> QED
      BY <2>1, <2>2, <3>1, <3>2 DEF CycleInOrder, HandOverInOrder, InCycle, AtWork
  <2>4. ASSUME NEW h \in Queries \ {q}
        PROVE  (CycleInOrder(h) /\ HandOverInOrder(h))'
    <3>1. pc'[h] = pc[h] /\ caller'[h] = caller[h]
      BY <1>0, <2>1 DEF TypeOK
    <3>2. CycleInOrder(h)'
      BY <2>1, <3>1, SameCycle
    <3> QED
      BY <1>00, <2>1, <3>1, <3>2
         DEF HandOverInOrder, Sound, TableIsWhole, ListIsWhole
  <2>5. LibraryInOrder'
    BY <1>0, <2>1 DEF LibraryInOrder
  <2>6. \A h \in Queries : (CycleInOrder(h) /\ HandOverInOrder(h))'
    BY <2>3, <2>4
  <2> QED
    BY <1>0, <2>5, <2>6 DEF IInv
<1>2. ASSUME NEW q \in Queries, ContextEnds(q) PROVE IInv'
  <2>1. UNCHANGED <<caller, answer, pc, phase, count, next, reading, outcome, mu,
                    initialized, generation, lost>>
    BY <1>2 DEF ContextEnds
  <2>2. \A h \in Queries : CycleInOrder(h)'
    BY <2>1, SameCycle
  <2>3. \A h \in Queries : HandOverInOrder(h)'
    BY <1>00, <2>1 DEF HandOverInOrder, Sound, TableIsWhole, ListIsWhole
  <2> QED
    BY <1>0, <2>1, <2>2, <2>3 DEF IInv, LibraryInOrder
<1>3. ASSUME NEW q \in Queries, NEW a \in Answers, Return(q, a),
             a.err = "none" => Sound(a.reading)
      PROVE  IInv'
  <2>1. /\ caller[q] = "waiting" /\ caller' = [caller EXCEPT ![q] = "answered"]
        /\ answer' = [answer EXCEPT ![q] = a]
        /\ outcome' = [outcome EXCEPT ![q] = Failed("none")]
        /\ UNCHANGED <<pc, phase, count, next, reading, mu, initialized,
                       generation, lost>>
    BY <1>3 DEF Return
  <2>2. \A h \in Queries : CycleInOrder(h)'
    BY <2>1, SameCycle
  <2>3. ASSUME NEW h \in Queries PROVE HandOverInOrder(h)'
    <3>1. CASE h = q
      <4>1. caller'[h] = "answered" /\ answer'[h] = a
        BY <1>0, <2>1, <3>1 DEF TypeOK
      <4> QED
        BY <1>3, <4>1 DEF HandOverInOrder, Sound, TableIsWhole, ListIsWhole
    <3>2. CASE h # q
      <4>1. /\ caller'[h] = caller[h] /\ answer'[h] = answer[h]
            /\ outcome'[h] = outcome[h] /\ pc'[h] = pc[h]
        BY <1>0, <2>1, <3>2 DEF TypeOK
      <4> QED
        BY <1>00, <4>1 DEF HandOverInOrder, Sound, TableIsWhole, ListIsWhole
    <3> QED
      BY <3>1, <3>2
  <2> QED
    BY <1>0, <2>1, <2>2, <2>3 DEF IInv, LibraryInOrder
<1>4. ASSUME NEW q \in Queries, Receive(q) \/ Abandon(q) PROVE IInv'
  <2>1. CASE Receive(q)
    <3>1. outcome[q] \in Answers
      BY <1>0 DEF TypeOK
    <3>2. outcome[q].err = "none" => Sound(outcome[q].reading)
      BY <1>00, <2>1 DEF Receive, Return, HandOverInOrder
    <3> QED
      BY <1>3, <2>1, <3>1, <3>2 DEF Receive
  <2>2. CASE Abandon(q)
    <3>1. Failed("abandoned") \in Answers /\ Failed("abandoned").err # "none"
      BY ReadingTypes DEF Errors, Failed
    <3> QED
      BY <1>3, <2>2, <3>1 DEF Abandon
  <2> QED
    BY <1>4, <2>1, <2>2
<1>5. ASSUME NEW q \in Queries, Rejected(q) PROVE IInv'
  <2>1. /\ pc[q] = "try" /\ pc' = [pc EXCEPT ![q] = "done"]
        /\ outcome' = [outcome EXCEPT ![q] = Failed("rejected")]
        /\ UNCHANGED <<caller, answer, phase, count, next, reading, mu,
                       initialized, generation, lost>>
    BY <1>5 DEF Rejected, Goto
  <2>2. ASSUME NEW h \in Queries PROVE (CycleInOrder(h) /\ HandOverInOrder(h))'
    <3>1. CASE h = q
      <4>1. /\ pc'[h] = "done" /\ outcome'[h].err = "rejected"
            /\ phase[h] = "table" /\ reading[h] = EmptyReading
        BY <1>0, <1>00, <2>1, <3>1 DEF TypeOK, Failed, CycleInOrder, AtWork
      <4>2. EmptyReading.readIn = {} /\ caller[h] # "idle"
        BY <1>00, <2>1, <3>1 DEF EmptyReading, HandOverInOrder
      <4> QED
        BY <1>00, <2>1, <4>1, <4>2
           DEF CycleInOrder, HandOverInOrder, InCycle, AtWork, Sound,
               TableIsWhole, ListIsWhole
    <3>2. CASE h # q
      <4>1. pc'[h] = pc[h] /\ outcome'[h] = outcome[h]
        BY <1>0, <2>1, <3>2 DEF TypeOK
      <4>2. CycleInOrder(h)'
        BY <2>1, <4>1, SameCycle
      <4> QED
        BY <1>00, <2>1, <4>1, <4>2
           DEF HandOverInOrder, Sound, TableIsWhole, ListIsWhole
    <3> QED
      BY <3>1, <3>2
  <2> QED
    BY <1>0, <2>1, <2>2 DEF IInv, LibraryInOrder
<1>6. ASSUME NEW q \in Queries, TryLock(q) PROVE IInv'
  <2>1. /\ pc[q] = "try" /\ mu = NoOne /\ mu' = q
        /\ pc' = [pc EXCEPT ![q] = IF initialized THEN "count" ELSE "init"]
        /\ UNCHANGED <<caller, answer, phase, count, next, reading, outcome,
                       initialized, generation, lost>>
    BY <1>6 DEF TryLock, Free, Goto
  <2>2. phase[q] = "table" /\ reading[q] = EmptyReading /\ caller[q] # "idle"
    BY <1>00, <2>1 DEF CycleInOrder, HandOverInOrder, AtWork
  <2>3. pc'[q] = IF initialized THEN "count" ELSE "init"
    BY <1>0, <2>1 DEF TypeOK
  <2>4. Progress(q)'
    BY <2>1, <2>2, <2>3 DEF Progress, TableSoFar
  <2>5. CycleInOrder(q)'
    BY <2>1, <2>2, <2>3, <2>4 DEF CycleInOrder, AtWork, EmptyReading
  <2>6. HandOverInOrder(q)'
    BY <1>00, <2>1, <2>2, <2>3
       DEF HandOverInOrder, Sound, TableIsWhole, ListIsWhole
  <2>7. \A h \in Queries \ {q} : Same(h)
    BY <1>0, <2>1 DEF Same, TypeOK
  <2>8. mu \notin Queries
    BY <2>1, HolderAssumption
  <2> QED
    BY <1>0, <2>1, <2>5, <2>6, <2>7, <2>8, OwnStep DEF LibraryInOrder
<1>7. ASSUME NEW q \in Queries, InitFails(q) PROVE IInv'
  <2>1. /\ Finish(q, Failed("fatal")) /\ pc[q] = "init"
        /\ Failed("fatal") \in Answers /\ Failed("fatal").err = "fatal"
    BY <1>7, ReadingTypes DEF InitFails, Errors, Failed
  <2>2. mu = q
    BY <1>00, <2>1 DEF CycleInOrder, InCycle
  <2>3. (CycleInOrder(q) /\ HandOverInOrder(q))'
    BY <1>7, <2>1, FinishInOrder DEF InitFails, InCycle
  <2>4. \A h \in Queries \ {q} : Same(h)
    BY <1>0, <1>7, <2>1, OthersSame DEF InitFails
  <2> QED
    BY <1>0, <1>7, <2>2, <2>3, <2>4, OwnStep DEF InitFails, LibraryInOrder
<1>8. ASSUME NEW q \in Queries, InitSucceeds(q) PROVE IInv'
  <2>1. /\ pc[q] = "init" /\ pc' = [pc EXCEPT ![q] = "count"]
        /\ initialized' = TRUE /\ generation' = generation + 1
        /\ UNCHANGED <<caller, answer, phase, count, next, reading, outcome, mu,
                       lost>>
    BY <1>8 DEF InitSucceeds, Goto
  <2>2. /\ mu = q /\ phase[q] = "table" /\ reading[q] = EmptyReading
        /\ caller[q] # "idle"
    BY <1>00, <2>1 DEF CycleInOrder, HandOverInOrder, InCycle, AtWork
  <2>3. pc'[q] = "count"
    BY <1>0, <2>1 DEF TypeOK
  <2>4. CycleInOrder(q)'
    BY <2>1, <2>2, <2>3
       DEF CycleInOrder, AtWork, EmptyReading, Progress, TableSoFar
  <2>5. HandOverInOrder(q)'
    BY <1>00, <2>1, <2>2, <2>3
       DEF HandOverInOrder, Sound, TableIsWhole, ListIsWhole
  <2>6. \A h \in Queries \ {q} : Same(h)
    BY <1>0, <2>1 DEF Same, TypeOK
  <2>7. LibraryInOrder'
    BY <1>0, <2>1 DEF LibraryInOrder, TypeOK
  <2> QED
    BY <1>0, <2>2, <2>4, <2>5, <2>6, <2>7, OwnStep
<1>9. ASSUME NEW q \in Queries, NEW err \in {"plain", "fatal"},
             PhaseFails(q, err), pc[q] \in AtWork,
             UNCHANGED <<callerVars, generation>>, LibraryInOrder'
      PROVE  IInv'
  <2>1. mu = q
    BY <1>00, <1>9 DEF CycleInOrder, InCycle, AtWork
  <2>2. err \in Errors \ {"none"}
    BY DEF Errors
  <2>3. (CycleInOrder(q) /\ HandOverInOrder(q))'
    BY <1>9, <2>2, FailInOrder
  <2>4. \A h \in Queries \ {q} : Same(h)
    BY <1>0, <1>9, OthersSame
  <2> QED
    BY <1>0, <1>9, <2>1, <2>3, <2>4, OwnStep
<1>10. ASSUME NEW q \in Queries,
              \/ Interrupted(q) \/ DeviceInterrupted(q) \/ CallFails(q)
              \/ DriverLost(q)
       PROVE  IInv'
  <2>1. LibraryInOrder'
    <3>1. CASE DriverLost(q)
      BY <3>1 DEF DriverLost, LibraryInOrder
    <3>2. CASE Interrupted(q) \/ DeviceInterrupted(q) \/ CallFails(q)
      <4>1. UNCHANGED <<initialized, generation, lost>>
        BY <3>2 DEF Interrupted, DeviceInterrupted, CallFails
      <4> QED
        BY <1>0, <4>1 DEF LibraryInOrder
    <3> QED
      BY <1>10, <3>1, <3>2
  <2> QED
    BY <1>9, <1>10, <2>1
       DEF Interrupted, DeviceInterrupted, CallFails, DriverLost, AtWork
<1>11. ASSUME NEW q \in Queries, BeginPhase(q) PROVE IInv'
  <2>1. CASE PhaseFails(q, "plain")
    BY <1>0, <1>9, <1>11, <2>1 DEF BeginPhase, AtWork, LibraryInOrder
  <2>2. CASE ~PhaseFails(q, "plain")
    <3>1. /\ pc[q] = "begin" /\ pc' = [pc EXCEPT ![q] = "count"]
          /\ ~(phase[q] = "extras" /\ ~initialized)
          /\ UNCHANGED <<caller, answer, phase, count, next, reading, outcome,
                         mu, initialized, generation, lost>>
      BY <1>11, <2>2 DEF BeginPhase, Goto
    <3>2. /\ mu = q /\ initialized /\ phase[q] # "table" /\ Progress(q)
          /\ reading[q].readIn \subseteq {generation} /\ caller[q] # "idle"
      BY <1>0, <1>00, <3>1
         DEF CycleInOrder, HandOverInOrder, InCycle, TypeOK, Phases
    <3>3. pc'[q] = "count"
      BY <1>0, <3>1 DEF TypeOK
    <3>4. Progress(q)'
      BY <1>0, <3>1, <3>2, <3>3
         DEF Progress, ListSoFar, TableIsWhole, ListIsWhole, TypeOK, Phases
    <3>5. CycleInOrder(q)'
      BY <3>1, <3>2, <3>3, <3>4 DEF CycleInOrder, AtWork
    <3>6. HandOverInOrder(q)'
      BY <1>00, <3>1, <3>2, <3>3
         DEF HandOverInOrder, Sound, TableIsWhole, ListIsWhole
    <3>7. \A h \in Queries \ {q} : Same(h)
      BY <1>0, <3>1 DEF Same, TypeOK
    <3> QED
      BY <1>0, <3>1, <3>2, <3>5, <3>6, <3>7, OwnStep DEF LibraryInOrder
  <2> QED
    BY <2>1, <2>2
<1>12. ASSUME NEW q \in Queries, Counted(q) PROVE IInv'
  <2>1. /\ pc[q] = "count" /\ pc' = [pc EXCEPT ![q] = "next"]
        /\ phase[q] = "table" => devices > 0
        /\ count' = [count EXCEPT ![q] = devices]
        /\ next' = [next EXCEPT ![q] = 0]
        /\ UNCHANGED <<caller, answer, phase, outcome, mu, initialized,
                       generation, lost>>
    BY <1>12 DEF Counted, Goto
  <2>2. /\ reading'[q] = IF phase[q] = "table"
                           THEN [reading[q] EXCEPT !.counted = devices]
                           ELSE reading[q]
        /\ \A h \in Queries \ {q} : reading'[h] = reading[h]
    BY <1>0, <1>12 DEF Counted, TypeOK
  <2>3. /\ mu = q /\ initialized /\ Progress(q)
        /\ reading[q].readIn \subseteq {generation} /\ caller[q] # "idle"
    BY <1>00, <2>1 DEF CycleInOrder, HandOverInOrder, InCycle
  <2>4. /\ pc'[q] = "next" /\ count'[q] = devices /\ next'[q] = 0
        /\ devices \in Nat /\ phase[q] \in Phases
    BY <1>0, <2>1, NativeBoundAssumption DEF TypeOK
  <2>5. Progress(q)' /\ reading'[q].readIn \subseteq {generation}
    <3>1. CASE phase[q] = "table"
      <4>1. reading[q] = EmptyReading
        BY <2>1, <2>3, <3>1 DEF Progress, TableSoFar
      <4>2. /\ reading'[q].table = {} /\ reading'[q].counted = devices
            /\ reading'[q].apps = {} /\ ~reading'[q].appsOK
            /\ reading'[q].readIn = {}
        BY <2>2, <3>1, <4>1 DEF EmptyReading
      <4> QED
        BY <2>1, <2>4, <3>1, <4>2 DEF Progress, TableSoFar
    <3>2. CASE phase[q] # "table"
      <4>1. reading'[q] = reading[q] /\ phase'[q] = phase[q]
        BY <2>1, <2>2, <3>2
      <4>2. phase[q] = "apps" => reading[q].apps = 0 .. next'[q] - 1
        <5>1. 0 .. next'[q] - 1 = {}
          BY <2>4
        <5>2. phase[q] = "apps" => reading[q].apps = {}
          BY <2>1, <2>3 DEF Progress, ListSoFar
        <5> QED
          BY <5>1, <5>2
      <4> QED
        BY <2>1, <2>3, <2>4, <3>2, <4>1, <4>2
           DEF Progress, ListSoFar, TableIsWhole, ListIsWhole, Phases
    <3> QED
      BY <3>1, <3>2
  <2>6. CycleInOrder(q)'
    BY <2>1, <2>3, <2>4, <2>5 DEF CycleInOrder, AtWork
  <2>7. HandOverInOrder(q)'
    BY <1>00, <2>1, <2>3, <2>4
       DEF HandOverInOrder, Sound, TableIsWhole, ListIsWhole
  <2>8. \A h \in Queries \ {q} : Same(h)
    BY <1>0, <2>1, <2>2 DEF Same, TypeOK
  <2> QED
    BY <1>0, <2>1, <2>3, <2>6, <2>7, <2>8, OwnStep DEF LibraryInOrder
<1>13. ASSUME NEW q \in Queries, NextDevice(q) PROVE IInv'
  <2>1. /\ pc[q] = "next" /\ pc' = [pc EXCEPT ![q] = "device"]
        /\ next[q] < count[q]
        /\ UNCHANGED <<caller, answer, phase, count, next, reading, outcome, mu,
                       initialized, generation, lost>>
    BY <1>13 DEF NextDevice, Goto
  <2>2. /\ mu = q /\ initialized /\ Progress(q)
        /\ reading[q].readIn \subseteq {generation} /\ caller[q] # "idle"
    BY <1>00, <2>1 DEF CycleInOrder, HandOverInOrder, InCycle
  <2>3. pc'[q] = "device"
    BY <1>0, <2>1 DEF TypeOK
  <2>4. Progress(q)'
    BY <1>0, <2>1, <2>2, <2>3
       DEF Progress, TableSoFar, ListSoFar, TableIsWhole, ListIsWhole, TypeOK,
           Phases
  <2>5. CycleInOrder(q)'
    BY <2>1, <2>2, <2>3, <2>4 DEF CycleInOrder, AtWork
  <2>6. HandOverInOrder(q)'
    BY <1>00, <2>1, <2>2, <2>3
       DEF HandOverInOrder, Sound, TableIsWhole, ListIsWhole
  <2>7. \A h \in Queries \ {q} : Same(h)
    BY <1>0, <2>1 DEF Same, TypeOK
  <2> QED
    BY <1>0, <2>1, <2>2, <2>5, <2>6, <2>7, OwnStep DEF LibraryInOrder
<1>14. ASSUME NEW q \in Queries, ReadDevice(q) \/ ExtrasSkipDevice(q)
       PROVE  IInv'
  <2>1. /\ pc[q] = "device" /\ pc' = [pc EXCEPT ![q] = "next"]
        /\ next' = [next EXCEPT ![q] = next[q] + 1]
        /\ UNCHANGED <<caller, answer, phase, count, outcome, mu, initialized,
                       generation, lost>>
    BY <1>14 DEF ReadDevice, ExtrasSkipDevice, Goto
  <2>2. /\ \/ phase[q] = "extras" /\ reading'[q] = reading[q]
           \/ reading'[q] = Keep(q, reading[q])
        /\ \A h \in Queries \ {q} : reading'[h] = reading[h]
    BY <1>0, <1>14 DEF ReadDevice, ExtrasSkipDevice, TypeOK
  <2>3. /\ mu = q /\ initialized /\ Progress(q) /\ next[q] < count[q]
        /\ reading[q].readIn \subseteq {generation} /\ caller[q] # "idle"
    BY <1>00, <2>1 DEF CycleInOrder, HandOverInOrder, InCycle
  <2>4. /\ pc'[q] = "next" /\ next'[q] = next[q] + 1 /\ next[q] \in Nat
        /\ count[q] \in Nat /\ phase[q] \in Phases /\ reading[q] \in Readings
    BY <1>0, <2>1, NativeBoundAssumption DEF TypeOK
  <2>5. LET r == reading'[q]
        IN  /\ r.table = IF phase[q] = "table" THEN reading[q].table \cup {next[q]}
                                               ELSE reading[q].table
            /\ r.apps = IF phase[q] = "apps" THEN reading[q].apps \cup {next[q]}
                                             ELSE reading[q].apps
            /\ r.counted = reading[q].counted /\ r.appsOK = reading[q].appsOK
            /\ r.readIn \subseteq {generation}
    <3>1. CASE phase[q] = "extras" /\ reading'[q] = reading[q]
      BY <2>3, <3>1
    <3>2. CASE reading'[q] = Keep(q, reading[q])
      BY <2>3, <2>4, <3>2 DEF Keep, Readings
    <3> QED
      BY <2>2, <3>1, <3>2
  <2>6. (0 .. next[q] - 1) \cup {next[q]} = 0 .. next'[q] - 1
    BY <2>4
  <2>7. Progress(q)'
    <3>1. CASE phase[q] = "table"
      BY <2>1, <2>3, <2>4, <2>5, <2>6, <3>1 DEF Progress, TableSoFar
    <3>2. CASE phase[q] = "apps"
      BY <2>1, <2>3, <2>4, <2>5, <2>6, <3>2 DEF Progress, ListSoFar, TableIsWhole
    <3>3. CASE phase[q] = "extras"
      BY <2>1, <2>3, <2>4, <2>5, <3>3 DEF Progress, TableIsWhole, ListIsWhole
    <3> QED
      BY <2>4, <3>1, <3>2, <3>3 DEF Phases
  <2>8. CycleInOrder(q)'
    BY <2>1, <2>3, <2>4, <2>5, <2>7 DEF CycleInOrder, AtWork
  <2>9. HandOverInOrder(q)'
    BY <1>00, <2>1, <2>3, <2>4
       DEF HandOverInOrder, Sound, TableIsWhole, ListIsWhole
  <2>10. \A h \in Queries \ {q} : Same(h)
    BY <1>0, <2>1, <2>2 DEF Same, TypeOK
  <2> QED
    BY <1>0, <2>1, <2>3, <2>8, <2>9, <2>10, OwnStep DEF LibraryInOrder
<1>15. ASSUME NEW q \in Queries, PhaseOver(q) PROVE IInv'
  <2>1. /\ pc[q] = "next" /\ next[q] = count[q]
        /\ UNCHANGED <<caller, ctxOver, answer, initialized, generation, lost>>
    BY <1>15 DEF PhaseOver
  <2>2. /\ mu = q /\ initialized /\ Progress(q) /\ reading[q] \in Readings
        /\ reading[q].readIn \subseteq {generation}
        /\ pc[q] \in InCycle /\ count[q] \in Nat
    BY <1>0, <1>00, <2>1, NativeBoundAssumption DEF CycleInOrder, InCycle, TypeOK
  <2>3. CASE phase[q] = "table"
    <3>1. PICK ph \in {"apps", "extras"} : Proceed(q, ph, reading[q])
      BY <1>15, <2>3 DEF PhaseOver
    <3>2. /\ TableIsWhole(reading[q]) /\ ListIsWhole(reading[q])
          /\ ~reading[q].appsOK /\ reading[q].apps = {}
      BY <2>1, <2>2, <2>3
         DEF Progress, TableSoFar, TableIsWhole, ListIsWhole
    <3>3. (CycleInOrder(q) /\ HandOverInOrder(q))'
      BY <2>1, <2>2, <3>1, <3>2, ProceedInOrder
    <3>4. \A h \in Queries \ {q} : Same(h)
      BY <1>0, <2>1, <3>1, OthersSame
    <3> QED
      BY <1>0, <2>1, <2>2, <3>3, <3>4, OwnStep DEF LibraryInOrder
  <2>4. CASE phase[q] = "apps"
    <3> DEFINE r == [reading[q] EXCEPT !.appsOK = TRUE]
    <3>1. Proceed(q, "extras", r) /\ r \in Readings
      BY <1>15, <2>2, <2>4, ReadingTypes DEF PhaseOver
    <3>2. /\ r.table = reading[q].table /\ r.counted = reading[q].counted
          /\ r.apps = reading[q].apps /\ r.appsOK = TRUE
          /\ r.readIn = reading[q].readIn
      BY <2>2 DEF Readings
    <3>3. TableIsWhole(r)
      BY <2>2, <2>4, <3>2 DEF Progress, ListSoFar, TableIsWhole
    <3>4. ListIsWhole(r)
      <4>1. r.apps = 0 .. next[q] - 1 /\ next[q] \in 0 .. MaxDevices
        BY <1>0, <2>1, <2>2, <2>4, <3>2 DEF Progress, ListSoFar, TypeOK
      <4> QED
        BY <3>2, <4>1 DEF ListIsWhole
    <3> HIDE DEF r
    <3>5. (CycleInOrder(q) /\ HandOverInOrder(q))'
      BY <2>1, <2>2, <3>1, <3>2, <3>3, <3>4, ProceedInOrder
    <3>6. \A h \in Queries \ {q} : Same(h)
      BY <1>0, <2>1, <3>1, OthersSame
    <3> QED
      BY <1>0, <2>1, <2>2, <3>5, <3>6, OwnStep DEF LibraryInOrder
  <2>5. CASE phase[q] = "extras"
    <3>1. /\ Finish(q, Good(reading[q])) /\ Good(reading[q]) \in Answers
          /\ Good(reading[q]).reading = reading[q]
      BY <1>15, <2>2, <2>5, ReadingTypes DEF PhaseOver, Good
    <3>2. Sound(reading[q])
      BY <2>2, <2>5 DEF Progress, Sound
    <3>3. (CycleInOrder(q) /\ HandOverInOrder(q))'
      BY <2>1, <2>2, <3>1, <3>2, FinishInOrder
    <3>4. \A h \in Queries \ {q} : Same(h)
      BY <1>0, <2>1, <3>1, OthersSame
    <3> QED
      BY <1>0, <2>1, <2>2, <3>3, <3>4, OwnStep DEF LibraryInOrder
  <2> QED
    BY <1>0, <2>3, <2>4, <2>5 DEF TypeOK, Phases
<1>16. CASE WatcherTakes \/ WatcherReleases
  <2>1. /\ mu \notin Queries /\ LibraryInOrder'
        /\ UNCHANGED <<caller, answer, pc, phase, count, next, reading, outcome>>
    BY <1>0, <1>16, HolderAssumption
       DEF WatcherTakes, WatcherReleases, LibraryInOrder, TypeOK
  <2>2. \A h \in Queries : pc[h] \notin InCycle /\ Same(h)
    BY <1>00, <2>1 DEF CycleInOrder, Same
  <2>3. \A h \in Queries : (CycleInOrder(h) /\ HandOverInOrder(h))'
    BY <2>2, OutsideIsSafe
  <2> QED
    BY <1>0, <2>1, <2>3 DEF IInv
<1>17. CASE DevicesChange \/ UNCHANGED vars
  <2>1. UNCHANGED <<caller, answer, pc, phase, count, next, reading, outcome, mu,
                    initialized, generation, lost>>
    BY <1>17 DEF DevicesChange, vars
  <2>2. \A h \in Queries : CycleInOrder(h)'
    BY <2>1, SameCycle
  <2>3. \A h \in Queries : HandOverInOrder(h)'
    BY <1>00, <2>1 DEF HandOverInOrder, Sound, TableIsWhole, ListIsWhole
  <2> QED
    BY <1>0, <2>1, <2>2, <2>3 DEF IInv, LibraryInOrder
<1> QED
  BY <1>1, <1>2, <1>4, <1>5, <1>6, <1>7, <1>8, <1>10, <1>11, <1>12, <1>13,
     <1>14, <1>15, <1>16, <1>17
     DEF Next, CallerRuns, GoroutineRuns, DriverReturns

-----------------------------------------------------------------------------
(* The inductive invariant of the queries.                                 *)
THEOREM QueryInvariant == Spec => []IInv
  BY InitIInv, StepIInv, PTL DEF Spec

(* The type invariant: every variable keeps its type, and what is read and *)
(* answered stays within the devices and generations there are.            *)
THEOREM QueryTypeCorrect == Spec => []TypeOK
<1>1. IInv => TypeOK
  BY DEF IInv
<1> QED
  BY <1>1, QueryInvariant, PTL

(* What a query serves was read in one generation of the library, whatever *)
(* abandoned cycles and the watcher do meanwhile.                          *)
THEOREM QueryOneGeneration == Spec => []ReadingOfOneGeneration
<1>1. IInv => ReadingOfOneGeneration
  BY DEF IInv, HandOverInOrder, Sound, ReadingOfOneGeneration, Served
<1> QED
  BY <1>1, QueryInvariant, PTL

(* No part of a table, or of a process list, passes for the whole.         *)
THEOREM QueryPartsAreWhole == Spec => []PartsAreWhole
<1>1. IInv => PartsAreWhole
  BY DEF IInv, HandOverInOrder, Sound, TableIsWhole, ListIsWhole,
         PartsAreWhole, Served
<1> QED
  BY <1>1, QueryInvariant, PTL

(* After a lifecycle error the driver is not called before it has been     *)
(* initialized anew.                                                       *)
THEOREM QueryNoCallAfterLoss == Spec => []NoCallAfterLoss
<1>1. IInv => NoCallAfterLoss
  BY DEF IInv, CycleInOrder, LibraryInOrder, NoCallAfterLoss
<1> QED
  BY <1>1, QueryInvariant, PTL
=============================================================================
