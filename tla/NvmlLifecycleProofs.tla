------------------------- MODULE NvmlLifecycleProofs -------------------------
(***************************************************************************)
(* Proofs about the NVML lifecycle, for any number of collecting           *)
(* goroutines, generations and driver faults.                              *)
(***************************************************************************)
EXTENDS NvmlLifecycle, TLAPS

-----------------------------------------------------------------------------
(* The inductive invariant, in parts.  A goroutine is between taking and   *)
(* releasing mu exactly when it holds it.                                  *)
MuPCs == CommonPCs \cup {"call"}

MuHeld ==
  /\ \A p \in Procs : pc[p] \in MuPCs <=> mu = p
  /\ pc[Watcher] # "call" /\ pc[Watcher] # "idle"
  /\ \A k \in Collectors : pc[k] \in CommonPCs \cup {"idle", "call"}
  /\ pc[Closer] \in {"idle", "lock", "shutdown", "exit"}

(* The driver calls made under the shared lock, and the reads before them. *)
SharedPCs ==
  WatcherCalls \cup {"regLive", "regGen", "regAvail", "drain", "drainLive",
                     "drainGen", "freeLive", "freeGen"}

(* lifecycleMu: readers and a writer exclude one another, and the attempt  *)
(* to lock belongs to the goroutine that shuts down.                       *)
LockHeld ==
  /\ shared <=> pc[Watcher] \in SharedPCs
  /\ WriterHolds => ~shared
  /\ \A p \in Procs : pc[p] = "shutdown" => attempt = "acquired"

(* What initialized, genLive and open are, where the holder of mu is.      *)
GenerationState ==
  /\ initialized => open
  /\ genLive => initialized
  /\ \A p \in Procs :
       /\ pc[p] \in {"init", "gen", "lock", "shutdown"} => ~initialized
       /\ pc[p] \in {"gen", "lock", "shutdown", "call"} => open
       /\ pc[p] = "live" => initialized /\ ~genLive

(* Under the shared lock, what was live when it was looked at stays open.  *)
SharedIsOpen ==
  pc[Watcher] \in SharedPCs \ {"regLive", "drain", "drainLive", "freeLive"}
    => open

SetPCs ==
  {"enum", "regFree", "waitLock", "drain", "drainLive", "drainGen", "wait",
   "freeLive", "freeGen", "free"}

(* A set of another library instance that bears the current generation is  *)
(* one whose generation has been declared dead and not been followed yet.  *)
SetIsDated ==
  /\ setGen <= generation
  /\ pc[Watcher] \in SetPCs /\ setGen = generation /\ setEra # era =>
       /\ ~genLive
       /\ \A p \in Procs : pc[p] # "live"
  /\ pc[Watcher] \in {"drainGen", "freeGen"} /\ setGen = generation =>
       setEra = era
  /\ SetBelongsToLibrary

Lifecycle ==
  /\ TypeOK
  /\ MuHeld
  /\ LockHeld
  /\ GenerationState
  /\ SharedIsOpen
  /\ SetIsDated

-----------------------------------------------------------------------------
(* The initial state satisfies the invariant.                              *)
LEMMA InitLifecycle == Init => Lifecycle
<1> SUFFICES ASSUME Init PROVE Lifecycle
  OBVIOUS
<1> USE ProcessAssumption
<1>1. /\ pc[Watcher] = "loop" /\ pc[Closer] = "idle"
      /\ \A k \in Collectors : pc[k] = "idle"
      /\ \A p \in Procs : pc[p] \in {"loop", "idle"}
  BY DEF Init, Procs
<1>2. TypeOK
  BY <1>1 DEF Init, TypeOK, PCs, WatcherPCs
<1>3. MuHeld
  BY <1>1 DEF Init, MuHeld, MuPCs, CommonPCs, Procs
<1>4. LockHeld /\ SharedIsOpen /\ GenerationState
  BY <1>1 DEF Init, LockHeld, SharedIsOpen, GenerationState, SharedPCs,
              WatcherCalls, WriterHolds
<1>5. SetIsDated
  BY <1>1 DEF Init, SetIsDated, SetBelongsToLibrary, SetPCs
<1> QED
  BY <1>2, <1>3, <1>4, <1>5 DEF Lifecycle

(* A step sends at most one goroutine somewhere else.                      *)
Moves ==
  \/ pc' = pc
  \/ \E p \in Procs : \E l \in PCs : pc' = [pc EXCEPT ![p] = l]

(* Every action does.                                                      *)
LEMMA StepMoves == [Next]_vars => Moves
<1> SUFFICES ASSUME [Next]_vars PROVE Moves
  OBVIOUS
<1> USE DEF Moves, Goto, PCs, WatcherPCs, WatcherCalls, CommonPCs
<1>0. Watcher \in Procs /\ Closer \in Procs /\ Collectors \subseteq Procs
  BY DEF Procs
<1>1. ASSUME NEW p \in Procs, LibraryStep(p) PROVE Moves
  BY <1>1 DEF LibraryStep, Locked, Deadline, Shutdown, InitFails,
              InitSucceeds, CountGeneration, AnnounceLive, AfterShutdown
<1>2. ASSUME NEW k \in Collectors, BeginCycle(k) \/ CycleReturns(k)
      PROVE  Moves
  BY <1>0, <1>2 DEF BeginCycle, CycleReturns, EndCycle, CycleLosesDriver,
                    DeclareDead
<1>3. ASSUME CloseSkipped \/ Close PROVE Moves
  BY <1>0, <1>3 DEF CloseSkipped, Close, DeclareDead
<1>4. ASSUME WatcherRuns PROVE Moves
  BY <1>0, <1>4
     DEF WatcherRuns, Loop, RegLock, RegLive, RegGen, RegAvail, Recover,
         Sleep, WaitLock, Drain, DrainLive, DrainGen, FreeLive, FreeGen,
         WatcherMoves, WatcherStep, RLock, RUnlock, LeaveWait, DeclareDead
<1>5. ASSUME WatcherReturns PROVE Moves
  BY <1>0, <1>5
     DEF WatcherReturns, CreateSet, RegisterDevices, RegFree, WaitReturns,
         FreeSet, WatcherMoves, WatcherStep, RUnlock, LeaveWait
<1>6. ASSUME LockStep \/ DriverDies \/ DriverReloads \/ Stop PROVE Moves
  BY <1>6 DEF LockStep, Announce, Acquire, LateAcquire, LateRelease,
              DriverDies, DriverReloads, Stop
<1>7. CASE UNCHANGED vars
  BY <1>7 DEF vars
<1> QED
  BY <1>1, <1>2, <1>3, <1>4, <1>5, <1>6, <1>7 DEF Next

-----------------------------------------------------------------------------
(* The types, in three groups of variables.                                *)
Flags ==
  /\ initialized \in BOOLEAN /\ genLive \in BOOLEAN /\ avail \in BOOLEAN
  /\ shared \in BOOLEAN /\ lateHeld \in BOOLEAN /\ healthy \in BOOLEAN
  /\ ctxDone \in BOOLEAN /\ open \in BOOLEAN /\ driver \in BOOLEAN
  /\ stale \in BOOLEAN

Counts ==
  /\ generation \in Nat /\ late \in Nat /\ setGen \in Nat /\ setEra \in Nat
  /\ era \in Nat /\ faults \in Nat

Locks ==
  /\ mu \in Procs \cup {NoOne}
  /\ attempt \in {"none", "spawned", "pending", "acquired"}

(* Every action keeps the flags Boolean.                                   *)
LEMMA StepFlags == Flags /\ [Next]_vars => Flags'
<1> SUFFICES ASSUME Flags, [Next]_vars PROVE Flags'
  OBVIOUS
<1> USE DEF Flags, genVars, setVars, driverVars, libVars, lockVars
<1>1. ASSUME NEW p \in Procs, LibraryStep(p) PROVE Flags'
  <2>1. ASSUME Locked(p) PROVE Flags'
    BY <2>1 DEF Locked
  <2>2. ASSUME Deadline(p) PROVE Flags'
    BY <2>2 DEF Deadline
  <2>3. ASSUME Shutdown(p) PROVE Flags'
    BY <2>3 DEF Shutdown
  <2>4. ASSUME InitFails(p) PROVE Flags'
    BY <2>4 DEF InitFails
  <2>5. ASSUME InitSucceeds(p) PROVE Flags'
    BY <2>5 DEF InitSucceeds
  <2>6. ASSUME CountGeneration(p) PROVE Flags'
    BY <2>6 DEF CountGeneration
  <2>7. ASSUME AnnounceLive(p) PROVE Flags'
    BY <2>7 DEF AnnounceLive
  <2> QED
    BY <1>1, <2>1, <2>2, <2>3, <2>4, <2>5, <2>6, <2>7 DEF LibraryStep
<1>2. ASSUME NEW k \in Collectors, BeginCycle(k) \/ CycleReturns(k)
      PROVE  Flags'
  <2>1. ASSUME BeginCycle(k) PROVE Flags'
    BY <2>1 DEF BeginCycle
  <2>2. ASSUME EndCycle(k) PROVE Flags'
    BY <2>2 DEF EndCycle
  <2>3. ASSUME CycleLosesDriver(k) PROVE Flags'
    BY <2>3 DEF CycleLosesDriver, DeclareDead
  <2> QED
    BY <1>2, <2>1, <2>2, <2>3 DEF CycleReturns
<1>3. ASSUME CloseSkipped \/ Close PROVE Flags'
  <2>1. ASSUME CloseSkipped PROVE Flags'
    BY <2>1 DEF CloseSkipped
  <2>2. ASSUME Close PROVE Flags'
    BY <2>2 DEF Close, DeclareDead
  <2> QED
    BY <1>3, <2>1, <2>2
<1>4. ASSUME WatcherRuns PROVE Flags'
  <2> USE DEF WatcherMoves, WatcherStep
  <2>1. ASSUME Loop \/ Sleep \/ Drain PROVE Flags'
    BY <2>1 DEF Loop, Sleep, Drain
  <2>2. ASSUME DrainLive \/ DrainGen PROVE Flags'
    BY <2>2 DEF DrainLive, DrainGen
  <2>3. ASSUME RegGen PROVE Flags'
    BY <2>3 DEF RegGen
  <2>4. ASSUME RegLock \/ WaitLock PROVE Flags'
    BY <2>4 DEF RegLock, WaitLock, RLock
  <2>5. ASSUME RegLive PROVE Flags'
    BY <2>5 DEF RegLive, RUnlock
  <2>6. ASSUME RegAvail PROVE Flags'
    BY <2>6 DEF RegAvail, RUnlock
  <2>7. ASSUME FreeLive PROVE Flags'
    BY <2>7 DEF FreeLive, LeaveWait
  <2>8. ASSUME FreeGen PROVE Flags'
    BY <2>8 DEF FreeGen, LeaveWait
  <2>9. ASSUME Recover PROVE Flags'
    <3>1. CASE mu = NoOne /\ mu' = Watcher /\ initialized /\ DeclareDead(Watcher)
      BY <3>1 DEF DeclareDead
    <3>2. CASE WatcherMoves("recover", "sleep")
      BY <3>2
    <3>3. CASE UNCHANGED <<genVars, lockVars, setVars, ctxDone, libVars,
                           driverVars>>
      BY <3>3
    <3> QED
      BY <2>9, <3>1, <3>2, <3>3, Zenon DEF Recover
  <2> QED
    BY <1>4, <2>1, <2>2, <2>3, <2>4, <2>5, <2>6, <2>7, <2>8, <2>9, Zenon
       DEF WatcherRuns
<1>5. ASSUME WatcherReturns PROVE Flags'
  <2> USE DEF WatcherMoves, WatcherStep
  <2>1. ASSUME CreateSet PROVE Flags'
    BY <2>1 DEF CreateSet, RUnlock
  <2>2. ASSUME RegisterDevices PROVE Flags'
    BY <2>2 DEF RegisterDevices, RUnlock
  <2>3. ASSUME RegFree PROVE Flags'
    BY <2>3 DEF RegFree, RUnlock
  <2>4. ASSUME WaitReturns PROVE Flags'
    BY <2>4 DEF WaitReturns, RUnlock
  <2>5. ASSUME FreeSet PROVE Flags'
    BY <2>5 DEF FreeSet, LeaveWait
  <2> QED
    BY <1>5, <2>1, <2>2, <2>3, <2>4, <2>5 DEF WatcherReturns
<1>6. ASSUME LockStep \/ DriverDies \/ DriverReloads \/ Stop PROVE Flags'
  <2>1. ASSUME Announce PROVE Flags'
    BY <2>1 DEF Announce
  <2>2. ASSUME Acquire PROVE Flags'
    BY <2>2 DEF Acquire
  <2>3. ASSUME LateAcquire PROVE Flags'
    BY <2>3 DEF LateAcquire
  <2>4. ASSUME LateRelease PROVE Flags'
    BY <2>4 DEF LateRelease
  <2>5. ASSUME DriverDies PROVE Flags'
    BY <2>5 DEF DriverDies
  <2>6. ASSUME DriverReloads PROVE Flags'
    BY <2>6 DEF DriverReloads
  <2>7. ASSUME Stop PROVE Flags'
    BY <2>7 DEF Stop
  <2> QED
    BY <1>6, <2>1, <2>2, <2>3, <2>4, <2>5, <2>6, <2>7 DEF LockStep
<1>7. CASE UNCHANGED vars
  BY <1>7 DEF vars
<1> QED
  BY <1>1, <1>2, <1>3, <1>4, <1>5, <1>6, <1>7 DEF Next

(* Every action keeps the counts natural numbers.                          *)
LEMMA StepCounts == Counts /\ [Next]_vars => Counts'
<1> SUFFICES ASSUME Counts, [Next]_vars PROVE Counts'
  OBVIOUS
<1> USE BoundAssumption
    DEF Counts, genVars, setVars, driverVars, libVars, lockVars
<1>1. ASSUME NEW p \in Procs, LibraryStep(p) PROVE Counts'
  <2>1. ASSUME Locked(p) \/ InitFails(p) \/ AnnounceLive(p) \/ InitSucceeds(p)
        PROVE  Counts'
    BY <2>1 DEF Locked, InitFails, AnnounceLive, InitSucceeds
  <2>2. ASSUME Deadline(p) PROVE Counts'
    BY <2>2 DEF Deadline
  <2>3. ASSUME Shutdown(p) \/ CountGeneration(p) PROVE Counts'
    BY <2>3 DEF Shutdown, CountGeneration
  <2> QED
    BY <1>1, <2>1, <2>2, <2>3 DEF LibraryStep
<1>2. ASSUME NEW k \in Collectors, BeginCycle(k) \/ CycleReturns(k)
      PROVE  Counts'
  BY <1>2 DEF BeginCycle, CycleReturns, EndCycle, CycleLosesDriver,
              DeclareDead
<1>3. ASSUME CloseSkipped \/ Close PROVE Counts'
  BY <1>3 DEF CloseSkipped, Close, DeclareDead
<1>4. ASSUME WatcherRuns PROVE Counts'
  BY <1>4
     DEF WatcherRuns, Loop, RegLock, RegLive, RegGen, RegAvail, Recover,
         Sleep, WaitLock, Drain, DrainLive, DrainGen, FreeLive, FreeGen,
         WatcherMoves, WatcherStep, RLock, RUnlock, LeaveWait, DeclareDead
<1>5. ASSUME WatcherReturns PROVE Counts'
  BY <1>5
     DEF WatcherReturns, CreateSet, RegisterDevices, RegFree, WaitReturns,
         FreeSet, WatcherMoves, WatcherStep, RUnlock, LeaveWait
<1>6. ASSUME LockStep \/ DriverDies \/ DriverReloads \/ Stop PROVE Counts'
  BY <1>6 DEF LockStep, Announce, Acquire, LateAcquire, LateRelease,
              DriverDies, DriverReloads, Stop
<1>7. CASE UNCHANGED vars
  BY <1>7 DEF vars
<1> QED
  BY <1>1, <1>2, <1>3, <1>4, <1>5, <1>6, <1>7 DEF Next

(* Every action keeps the types of the locks.                              *)
LEMMA StepLocks == Locks /\ [Next]_vars => Locks'
<1> SUFFICES ASSUME Locks, [Next]_vars PROVE Locks'
  OBVIOUS
<1> USE DEF Locks, genVars, setVars, driverVars, libVars, lockVars, Procs
<1>1. ASSUME NEW p \in Procs, LibraryStep(p) PROVE Locks'
  BY <1>1 DEF LibraryStep, Locked, Deadline, Shutdown, InitFails,
              InitSucceeds, CountGeneration, AnnounceLive,
              AfterShutdown
<1>2. ASSUME NEW k \in Collectors, BeginCycle(k) \/ CycleReturns(k)
      PROVE  Locks'
  BY <1>2 DEF BeginCycle, CycleReturns, EndCycle, CycleLosesDriver,
              DeclareDead
<1>3. ASSUME CloseSkipped \/ Close PROVE Locks'
  BY <1>3 DEF CloseSkipped, Close, DeclareDead
<1>4. ASSUME WatcherRuns PROVE Locks'
  BY <1>4
     DEF WatcherRuns, Loop, RegLock, RegLive, RegGen, RegAvail, Recover,
         Sleep, WaitLock, Drain, DrainLive, DrainGen, FreeLive, FreeGen,
         WatcherMoves, WatcherStep, RLock, RUnlock, LeaveWait, DeclareDead
<1>5. ASSUME WatcherReturns PROVE Locks'
  BY <1>5
     DEF WatcherReturns, CreateSet, RegisterDevices, RegFree, WaitReturns,
         FreeSet, WatcherMoves, WatcherStep, RUnlock, LeaveWait
<1>6. ASSUME LockStep \/ DriverDies \/ DriverReloads \/ Stop PROVE Locks'
  BY <1>6 DEF LockStep, Announce, Acquire, LateAcquire, LateRelease,
              DriverDies, DriverReloads, Stop
<1>7. CASE UNCHANGED vars
  BY <1>7 DEF vars
<1> QED
  BY <1>1, <1>2, <1>3, <1>4, <1>5, <1>6, <1>7 DEF Next

(* Every action keeps the types.                                           *)
LEMMA StepTypes ==
  TypeOK /\ [Next]_vars => TypeOK'
<1> SUFFICES ASSUME TypeOK, [Next]_vars PROVE TypeOK'
  OBVIOUS
<1>1. Flags /\ Counts /\ Locks
  BY DEF TypeOK, Flags, Counts, Locks
<1>2. pc' \in [Procs -> PCs]
  BY StepMoves DEF Moves, TypeOK
<1> QED
  BY <1>1, <1>2, StepFlags, StepCounts, StepLocks
     DEF TypeOK, Flags, Counts, Locks

-----------------------------------------------------------------------------
(* Every action keeps mu in the hands of whoever is inside it.             *)
LEMMA StepMuHeld ==
  TypeOK /\ MuHeld /\ [Next]_vars => MuHeld'
<1> SUFFICES ASSUME TypeOK, MuHeld, [Next]_vars
             PROVE  MuHeld'
  OBVIOUS
<1> USE ProcessAssumption DEF MuHeld, MuPCs, CommonPCs, Goto, Procs
<1>0. pc \in [Procs -> PCs]
  BY DEF TypeOK
<1>1. ASSUME NEW p \in Procs, LibraryStep(p) PROVE MuHeld'
  <2>1. ASSUME Locked(p) \/ InitFails(p) \/ InitSucceeds(p) PROVE MuHeld'
    BY <1>0, <2>1 DEF Locked, InitFails, InitSucceeds
  <2>2. ASSUME CountGeneration(p) \/ AnnounceLive(p) PROVE MuHeld'
    BY <1>0, <2>2 DEF CountGeneration, AnnounceLive
  <2>3. ASSUME Deadline(p) PROVE MuHeld'
    BY <1>0, <2>3 DEF Deadline, AfterShutdown
  <2>4. ASSUME Shutdown(p) PROVE MuHeld'
    BY <1>0, <2>4 DEF Shutdown, AfterShutdown
  <2> QED
    BY <1>1, <2>1, <2>2, <2>3, <2>4, Zenon DEF LibraryStep
<1>2. ASSUME NEW k \in Collectors, BeginCycle(k) \/ CycleReturns(k)
      PROVE  MuHeld'
  BY <1>0, <1>2 DEF BeginCycle, CycleReturns, EndCycle, CycleLosesDriver,
              DeclareDead
<1>3. ASSUME CloseSkipped \/ Close PROVE MuHeld'
  BY <1>0, <1>3 DEF CloseSkipped, Close, DeclareDead
<1>4. ASSUME WatcherRuns PROVE MuHeld'
  BY <1>0, <1>4
     DEF WatcherRuns, Loop, RegLock, RegLive, RegGen, RegAvail, Recover,
         Sleep, WaitLock, Drain, DrainLive, DrainGen, FreeLive, FreeGen,
         WatcherMoves, WatcherStep, RLock, RUnlock, LeaveWait, DeclareDead
<1>5. ASSUME WatcherReturns PROVE MuHeld'
  BY <1>0, <1>5
     DEF WatcherReturns, CreateSet, RegisterDevices, RegFree, WaitReturns,
         FreeSet, WatcherMoves, WatcherStep, RUnlock, LeaveWait
<1>6. ASSUME LockStep \/ DriverDies \/ DriverReloads \/ Stop PROVE MuHeld'
  BY <1>6 DEF LockStep, Announce, Acquire, LateAcquire, LateRelease,
              DriverDies, DriverReloads, Stop
<1>7. CASE UNCHANGED vars
  BY <1>7 DEF vars
<1> QED
  BY <1>1, <1>2, <1>3, <1>4, <1>5, <1>6, <1>7 DEF Next

(* Every action keeps lifecycleMu a reader-writer lock, with the shutdowns *)
(* under it.                                                               *)
LEMMA StepLockHeld ==
  TypeOK /\ MuHeld /\ LockHeld /\ [Next]_vars => LockHeld'
<1> SUFFICES ASSUME TypeOK, MuHeld, LockHeld, [Next]_vars
             PROVE  LockHeld'
  OBVIOUS
<1> USE ProcessAssumption DEF LockHeld, MuHeld, MuPCs, CommonPCs, SharedPCs, WatcherCalls,
        WriterHolds, CanRLock, Goto, Procs, genVars, setVars, driverVars,
        libVars, lockVars
<1>0. pc \in [Procs -> PCs]
  BY DEF TypeOK
<1>1. ASSUME NEW p \in Procs, LibraryStep(p) PROVE LockHeld'
  <2>1. ASSUME Locked(p) PROVE LockHeld'
    BY <1>0, <2>1 DEF Locked
  <2>2. ASSUME Deadline(p) PROVE LockHeld'
    BY <1>0, <2>2 DEF Deadline, AfterShutdown
  <2>3. ASSUME Shutdown(p) PROVE LockHeld'
    BY <1>0, <2>3 DEF Shutdown, AfterShutdown
  <2>4. ASSUME InitFails(p) PROVE LockHeld'
    BY <1>0, <2>4 DEF InitFails
  <2>5. ASSUME InitSucceeds(p) PROVE LockHeld'
    BY <1>0, <2>5 DEF InitSucceeds
  <2>6. ASSUME CountGeneration(p) PROVE LockHeld'
    BY <1>0, <2>6 DEF CountGeneration
  <2>7. ASSUME AnnounceLive(p) PROVE LockHeld'
    BY <1>0, <2>7 DEF AnnounceLive
  <2> QED
    BY <1>1, <2>1, <2>2, <2>3, <2>4, <2>5, <2>6, <2>7 DEF LibraryStep
<1>2. ASSUME NEW k \in Collectors, BeginCycle(k) \/ CycleReturns(k)
      PROVE  LockHeld'
  BY <1>0, <1>2 DEF BeginCycle, CycleReturns, EndCycle, CycleLosesDriver,
              DeclareDead
<1>3. ASSUME CloseSkipped \/ Close PROVE LockHeld'
  BY <1>0, <1>3 DEF CloseSkipped, Close, DeclareDead
<1>4. ASSUME WatcherRuns PROVE LockHeld'
  BY <1>0, <1>4
     DEF WatcherRuns, Loop, RegLock, RegLive, RegGen, RegAvail, Recover,
         Sleep, WaitLock, Drain, DrainLive, DrainGen, FreeLive, FreeGen,
         WatcherMoves, WatcherStep, RLock, RUnlock, LeaveWait, DeclareDead
<1>5. ASSUME WatcherReturns PROVE LockHeld'
  BY <1>0, <1>5
     DEF WatcherReturns, CreateSet, RegisterDevices, RegFree, WaitReturns,
         FreeSet, WatcherMoves, WatcherStep, RUnlock, LeaveWait
<1>6. ASSUME LockStep \/ DriverDies \/ DriverReloads \/ Stop PROVE LockHeld'
  BY <1>0, <1>6 DEF LockStep, Announce, Acquire, LateAcquire, LateRelease,
              DriverDies, DriverReloads, Stop
<1>7. CASE UNCHANGED vars
  BY <1>0, <1>7 DEF vars
<1> QED
  BY <1>1, <1>2, <1>3, <1>4, <1>5, <1>6, <1>7 DEF Next

(* Every action keeps the generation's state in step with mu's holder.     *)
LEMMA StepGenerationState ==
  TypeOK /\ MuHeld /\ GenerationState /\ [Next]_vars => GenerationState'
<1> SUFFICES ASSUME TypeOK, MuHeld, GenerationState, [Next]_vars
             PROVE  GenerationState'
  OBVIOUS
<1> USE ProcessAssumption DEF GenerationState, MuHeld, MuPCs, CommonPCs, Goto, Procs,
        genVars, setVars, driverVars,
        libVars, lockVars
<1>0. pc \in [Procs -> PCs]
  BY DEF TypeOK
<1>1. ASSUME NEW p \in Procs, LibraryStep(p) PROVE GenerationState'
  <2>1. ASSUME Locked(p) PROVE GenerationState'
    BY <1>0, <2>1 DEF Locked
  <2>2. ASSUME Deadline(p) PROVE GenerationState'
    BY <1>0, <2>2 DEF Deadline, AfterShutdown
  <2>3. ASSUME Shutdown(p) PROVE GenerationState'
    BY <1>0, <2>3 DEF Shutdown, AfterShutdown
  <2>4. ASSUME InitFails(p) PROVE GenerationState'
    BY <1>0, <2>4 DEF InitFails
  <2>5. ASSUME InitSucceeds(p) PROVE GenerationState'
    BY <1>0, <2>5 DEF InitSucceeds
  <2>6. ASSUME CountGeneration(p) PROVE GenerationState'
    BY <1>0, <2>6 DEF CountGeneration
  <2>7. ASSUME AnnounceLive(p) PROVE GenerationState'
    BY <1>0, <2>7 DEF AnnounceLive
  <2> QED
    BY <1>1, <2>1, <2>2, <2>3, <2>4, <2>5, <2>6, <2>7 DEF LibraryStep
<1>2. ASSUME NEW k \in Collectors, BeginCycle(k) \/ CycleReturns(k)
      PROVE  GenerationState'
  BY <1>0, <1>2 DEF BeginCycle, CycleReturns, EndCycle, CycleLosesDriver,
              DeclareDead
<1>3. ASSUME CloseSkipped \/ Close PROVE GenerationState'
  BY <1>0, <1>3 DEF CloseSkipped, Close, DeclareDead
<1>4. ASSUME WatcherRuns PROVE GenerationState'
  BY <1>0, <1>4
     DEF WatcherRuns, Loop, RegLock, RegLive, RegGen, RegAvail, Recover,
         Sleep, WaitLock, Drain, DrainLive, DrainGen, FreeLive, FreeGen,
         WatcherMoves, WatcherStep, RLock, RUnlock, LeaveWait, DeclareDead
<1>5. ASSUME WatcherReturns PROVE GenerationState'
  BY <1>0, <1>5
     DEF WatcherReturns, CreateSet, RegisterDevices, RegFree, WaitReturns,
         FreeSet, WatcherMoves, WatcherStep, RUnlock, LeaveWait
<1>6. ASSUME LockStep \/ DriverDies \/ DriverReloads \/ Stop PROVE GenerationState'
  BY <1>0, <1>6 DEF LockStep, Announce, Acquire, LateAcquire, LateRelease,
              DriverDies, DriverReloads, Stop
<1>7. CASE UNCHANGED vars
  BY <1>0, <1>7 DEF vars
<1> QED
  BY <1>1, <1>2, <1>3, <1>4, <1>5, <1>6, <1>7 DEF Next

(* Every action keeps NVML open under the watcher's driver calls.          *)
LEMMA StepSharedIsOpen ==
  TypeOK /\ MuHeld /\ LockHeld /\ GenerationState /\ SharedIsOpen /\ [Next]_vars
    => SharedIsOpen'
<1> SUFFICES ASSUME TypeOK, MuHeld, LockHeld, GenerationState, SharedIsOpen, [Next]_vars
             PROVE  SharedIsOpen'
  OBVIOUS
<1> USE ProcessAssumption DEF GenerationState, LockHeld, SharedIsOpen, SharedPCs,
        WatcherCalls, WriterHolds, CommonPCs, MuHeld, MuPCs, Goto, Procs,
        genVars, setVars, driverVars,
        libVars, lockVars
<1>0. pc \in [Procs -> PCs]
  BY DEF TypeOK
<1>1. ASSUME NEW p \in Procs, LibraryStep(p) PROVE SharedIsOpen'
  BY <1>0, <1>1 DEF LibraryStep, Locked, Deadline, Shutdown, InitFails,
              InitSucceeds, CountGeneration, AnnounceLive, AfterShutdown
<1>2. ASSUME NEW k \in Collectors, BeginCycle(k) \/ CycleReturns(k)
      PROVE  SharedIsOpen'
  BY <1>0, <1>2 DEF BeginCycle, CycleReturns, EndCycle, CycleLosesDriver,
              DeclareDead
<1>3. ASSUME CloseSkipped \/ Close PROVE SharedIsOpen'
  BY <1>0, <1>3 DEF CloseSkipped, Close, DeclareDead
<1>4. ASSUME WatcherRuns PROVE SharedIsOpen'
  BY <1>0, <1>4
     DEF WatcherRuns, Loop, RegLock, RegLive, RegGen, RegAvail, Recover,
         Sleep, WaitLock, Drain, DrainLive, DrainGen, FreeLive, FreeGen,
         WatcherMoves, WatcherStep, RLock, RUnlock, LeaveWait, DeclareDead
<1>5. ASSUME WatcherReturns PROVE SharedIsOpen'
  BY <1>0, <1>5
     DEF WatcherReturns, CreateSet, RegisterDevices, RegFree, WaitReturns,
         FreeSet, WatcherMoves, WatcherStep, RUnlock, LeaveWait
<1>6. ASSUME LockStep \/ DriverDies \/ DriverReloads \/ Stop PROVE SharedIsOpen'
  BY <1>0, <1>6 DEF LockStep, Announce, Acquire, LateAcquire, LateRelease,
              DriverDies, DriverReloads, Stop
<1>7. CASE UNCHANGED vars
  BY <1>0, <1>7 DEF vars
<1> QED
  BY <1>1, <1>2, <1>3, <1>4, <1>5, <1>6, <1>7 DEF Next

(* Every action keeps a set of another library instance recognizable.      *)
LEMMA StepSetIsDated ==
  TypeOK /\ MuHeld /\ LockHeld /\ GenerationState /\ SetIsDated /\ [Next]_vars
    => SetIsDated'
<1> SUFFICES ASSUME TypeOK, MuHeld, LockHeld, GenerationState, SetIsDated, [Next]_vars
             PROVE  SetIsDated'
  OBVIOUS
<1> USE ProcessAssumption DEF SetIsDated, SetBelongsToLibrary, SetPCs, GenerationState, LockHeld,
        SharedPCs, WatcherCalls, WriterHolds, CommonPCs, MuHeld, MuPCs, Goto,
        Procs, genVars, setVars, driverVars,
        libVars, lockVars
<1>0. /\ pc \in [Procs -> PCs]
      /\ generation \in Nat /\ setGen \in Nat /\ era \in Nat /\ setEra \in Nat
  BY DEF TypeOK
<1>1. ASSUME NEW p \in Procs, LibraryStep(p) PROVE SetIsDated'
  <2>1. ASSUME Locked(p) PROVE SetIsDated'
    BY <1>0, <2>1 DEF Locked
  <2>2. ASSUME Deadline(p) PROVE SetIsDated'
    BY <1>0, <2>2 DEF Deadline, AfterShutdown
  <2>3. ASSUME Shutdown(p) PROVE SetIsDated'
    BY <1>0, <2>3 DEF Shutdown, AfterShutdown
  <2>4. ASSUME InitFails(p) PROVE SetIsDated'
    BY <1>0, <2>4 DEF InitFails
  <2>5. ASSUME InitSucceeds(p) PROVE SetIsDated'
    BY <1>0, <2>5 DEF InitSucceeds
  <2>6. ASSUME CountGeneration(p) PROVE SetIsDated'
    BY <1>0, <2>6 DEF CountGeneration
  <2>7. ASSUME AnnounceLive(p) PROVE SetIsDated'
    BY <1>0, <2>7 DEF AnnounceLive
  <2> QED
    BY <1>1, <2>1, <2>2, <2>3, <2>4, <2>5, <2>6, <2>7 DEF LibraryStep
<1>2. ASSUME NEW k \in Collectors, BeginCycle(k) \/ CycleReturns(k)
      PROVE  SetIsDated'
  BY <1>0, <1>2 DEF BeginCycle, CycleReturns, EndCycle, CycleLosesDriver,
              DeclareDead
<1>3. ASSUME CloseSkipped \/ Close PROVE SetIsDated'
  BY <1>0, <1>3 DEF CloseSkipped, Close, DeclareDead
<1>4. ASSUME WatcherRuns PROVE SetIsDated'
  BY <1>0, <1>4
     DEF WatcherRuns, Loop, RegLock, RegLive, RegGen, RegAvail, Recover,
         Sleep, WaitLock, Drain, DrainLive, DrainGen, FreeLive, FreeGen,
         WatcherMoves, WatcherStep, RLock, RUnlock, LeaveWait, DeclareDead
<1>5. ASSUME WatcherReturns PROVE SetIsDated'
  BY <1>0, <1>5
     DEF WatcherReturns, CreateSet, RegisterDevices, RegFree, WaitReturns,
         FreeSet, WatcherMoves, WatcherStep, RUnlock, LeaveWait
<1>6. ASSUME LockStep \/ DriverDies \/ DriverReloads \/ Stop PROVE SetIsDated'
  BY <1>0, <1>6 DEF LockStep, Announce, Acquire, LateAcquire, LateRelease,
              DriverDies, DriverReloads, Stop
<1>7. CASE UNCHANGED vars
  BY <1>0, <1>7 DEF vars
<1> QED
  BY <1>1, <1>2, <1>3, <1>4, <1>5, <1>6, <1>7 DEF Next

-----------------------------------------------------------------------------
(* The invariant is inductive.                                             *)
LEMMA StepLifecycle == Lifecycle /\ [Next]_vars => Lifecycle'
  BY StepTypes, StepMuHeld, StepLockHeld, StepGenerationState,
     StepSharedIsOpen, StepSetIsDated
     DEF Lifecycle

(* It holds throughout.                                                    *)
LEMMA LifecycleAlways == Spec => []Lifecycle
  BY InitLifecycle, StepLifecycle, PTL DEF Spec

(* The lifecycle keeps its types.                                          *)
THEOREM NvmlTyping == Spec => []TypeOK
<1>1. Lifecycle => TypeOK
  BY DEF Lifecycle
<1> QED
  BY <1>1, LifecycleAlways, PTL

(* No goroutine is inside a driver call on a library that was torn down.   *)
THEOREM NvmlCallsOnOpenLibrary == Spec => []DriverCallsOnOpenLibrary
<1>1. Lifecycle => DriverCallsOnOpenLibrary
  <2> SUFFICES ASSUME Lifecycle, NEW p \in Procs, pc[p] \in DriverCalls
               PROVE  open
    BY DEF DriverCallsOnOpenLibrary
  <2>1. CASE pc[p] \in {"call", "shutdown"}
    BY <2>1 DEF Lifecycle, GenerationState
  <2>2. CASE pc[p] \in WatcherCalls
    <3>1. p = Watcher
      BY <2>2, ProcessAssumption
         DEF Lifecycle, MuHeld, WatcherCalls, CommonPCs, Procs
    <3> QED
      BY <2>2, <3>1 DEF Lifecycle, SharedIsOpen, SharedPCs, WatcherCalls
  <2> QED
    BY <2>1, <2>2 DEF DriverCalls
<1> QED
  BY <1>1, LifecycleAlways, PTL

(* A shutdown never overlaps a driver call of the watcher, nor another one.*)
THEOREM NvmlShutdownExcludesWatcher == Spec => []ShutdownExcludesWatcher
<1>1. Lifecycle => ShutdownExcludesWatcher
  <2> SUFFICES ASSUME Lifecycle, NEW p \in Procs, pc[p] = "shutdown"
               PROVE  /\ pc[Watcher] \notin WatcherCalls
                      /\ \A q \in Procs \ {p} : pc[q] # "shutdown"
    BY DEF ShutdownExcludesWatcher
  <2>1. ~shared
    BY DEF Lifecycle, LockHeld, WriterHolds
  <2>2. \A q \in Procs : pc[q] = "shutdown" => mu = q
    BY DEF Lifecycle, MuHeld, MuPCs, CommonPCs
  <2> QED
    BY <2>1, <2>2 DEF Lifecycle, LockHeld, SharedPCs
<1> QED
  BY <1>1, LifecycleAlways, PTL

(* The watcher never touches an event set of a library instance that was   *)
(* shut down.                                                              *)
THEOREM NvmlSetBelongsToLibrary == Spec => []SetBelongsToLibrary
<1>1. Lifecycle => SetBelongsToLibrary
  BY DEF Lifecycle, SetIsDated
<1> QED
  BY <1>1, LifecycleAlways, PTL
=============================================================================
