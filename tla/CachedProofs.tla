---------------------------- MODULE CachedProofs ----------------------------
(***************************************************************************)
(* Proofs about the cached source, for any runners, readers and ticks.     *)
(***************************************************************************)
EXTENDS Cached, FiniteSetTheorems, TLAPS

(* What folding an outcome and building its snapshot preserve.             *)
LEMMA FoldTypes ==
  ASSUME NEW r \in Runs, NEW res \in QueryResults, NEW s \in Nat,
         NEW f \in Nat, NEW l \in Nat
  PROVE  /\ FoldFailures(res, f) \in Nat
         /\ FoldFailures(res, f) >= f
         /\ FoldLastOK(res, s, l) \in Nat
         /\ FoldLastOK(res, s, l) \in {s, l}
         /\ Outcome(r, res, f, l) \in Snapshots
         /\ Outcome(r, res, f, l).failures = f
  BY DEF FoldFailures, FoldLastOK, Outcome, Snapshots, QueryResults

(* What a snapshot with no data carries.                                   *)
LEMMA EmptyTypes ==
  ASSUME NEW f \in Nat, NEW l \in Nat
  PROVE  Empty(f, l) \in Snapshots /\ Empty(f, l).failures = f
  BY DEF Empty, Snapshots

(* The goroutines past the compare-and-swap of Run.                        *)
Past(g) == pc[g] \notin {"new", "rejected"}

(* A tick owns the memory of its snapshot until it is published, and knows *)
(* what its query returned once it has.                                    *)
TickIsItsOwn ==
  \A g \in Runners :
    /\ pc[g] \in Ticking => run[g] \in used \ ended
    /\ pc[g] \in {"returned", "fold", "store"} =>
         result[run[g]] \in QueryResults

(* A pointer, once it is not nil, leads to a published snapshot.           *)
PointersArePublished ==
  /\ cur # NoRun => cur \in ended
  /\ \A d \in Readers : at[d] # NoRun => at[d] \in ended

Loop ==
  /\ TypeOK
  /\ \A g \in Runners : Past(g) => started
  /\ \A g, h \in Runners : Past(g) /\ Past(h) => g = h
  /\ TickIsItsOwn
  /\ PointersArePublished

(* The initial state is one with no loop.                                  *)
LEMMA InitLoop == Init => Loop
<1> SUFFICES ASSUME Init PROVE Loop
  OBVIOUS
<1>1. NoSnapshot \in Snapshots
  BY EmptyTypes DEF NoSnapshot
<1>2. TypeOK
  BY <1>1 DEF Init, TypeOK, PCs
<1>3. \A g \in Runners : pc[g] = "new"
  BY DEF Init
<1>4. TickIsItsOwn /\ PointersArePublished
  BY <1>3 DEF Init, TickIsItsOwn, PointersArePublished, Ticking
<1> QED
  BY <1>2, <1>3, <1>4 DEF Loop, Past

(* Every action keeps one loop, and its tick to itself.                    *)
LEMMA StepLoop == Loop /\ [Next]_vars => Loop'
<1> SUFFICES ASSUME Loop, [Next]_vars PROVE Loop'
  OBVIOUS
<1> USE NoRunAssumption
    DEF Loop, TypeOK, Past, TickIsItsOwn, PointersArePublished, PCs, Ticking
<1>1. ASSUME NEW g \in Runners, Start(g) PROVE Loop'
  BY <1>1 DEF Start, MayStart, tickVars, readerVars
<1>2. ASSUME NEW g \in Runners, BeginTick(g) PROVE Loop'
  <2>1. PICK r \in Runs \ used : /\ run' = [run EXCEPT ![g] = r]
                                 /\ used' = used \cup {r}
    BY <1>2 DEF BeginTick
  <2>2. /\ pc[g] \in {"begin", "select"} /\ pc' = [pc EXCEPT ![g] = "query"]
        /\ ticked' = FALSE /\ expired' = FALSE
        /\ UNCHANGED <<started, ctxDone, cur, result, snapshot, failures,
                       lastOK, clock, fatal, at, answer, reading, ended,
                       cutShort>>
    BY <1>2 DEF BeginTick, readerVars
  <2>3. TypeOK'
    BY <2>1, <2>2
  <2>4. TickIsItsOwn'
    BY <2>1, <2>2
  <2> QED
    BY <2>2, <2>3, <2>4
<1>3. ASSUME NEW g \in Runners, QueryReturns(g) PROVE Loop'
  <2>1. PICK res \in QueryResults :
          /\ result' = [result EXCEPT ![run[g]] = res]
          /\ clock' = IF res = "ok" THEN clock + 1 ELSE clock
    BY <1>3 DEF QueryReturns
  <2>2. /\ run[g] \in used /\ pc[g] = "query"
        /\ pc' = [pc EXCEPT ![g] = "returned"]
        /\ cutShort' \subseteq used
        /\ UNCHANGED <<started, run, ticked, ctxDone, cur, expired, snapshot,
                       failures, lastOK, fatal, at, answer, reading, used,
                       ended>>
    BY <1>3 DEF QueryReturns, readerVars
  <2>3. TypeOK'
    BY <2>1, <2>2
  <2>4. TickIsItsOwn'
    BY <2>1, <2>2
  <2> QED
    BY <2>2, <2>3, <2>4
<1>4. ASSUME NEW g \in Runners, Classify(g) PROVE Loop'
  BY <1>4 DEF Classify, readerVars
<1>5. ASSUME NEW g \in Runners, Fold(g) PROVE Loop'
  <2>1. run[g] \in Runs /\ result[run[g]] \in QueryResults
    BY <1>5 DEF Fold
  <2>2. failures' \in Nat /\ lastOK' \in Nat
    BY <1>5, <2>1, FoldTypes DEF Fold
  <2>3. Outcome(run[g], result[run[g]], failures', lastOK') \in Snapshots
    BY <2>1, <2>2, FoldTypes
  <2>4. snapshot' \in [Runs -> Snapshots]
    BY <1>5, <2>1, <2>3 DEF Fold
  <2> QED
    BY <1>5, <2>1, <2>2, <2>4 DEF Fold, Own, readerVars
<1>6. ASSUME NEW g \in Runners, Store(g) PROVE Loop'
  BY <1>6 DEF Store, tickVars, readerVars
<1>7. ASSUME NEW g \in Runners, StopRun(g) PROVE Loop'
  BY <1>7 DEF StopRun, tickVars, readerVars
<1>8. ASSUME TickerFires \/ Timeout \/ Stop PROVE Loop'
  BY <1>8 DEF TickerFires, Timeout, Stop, tickVars, readerVars
<1>9. ASSUME NEW d \in Readers, Load(d) PROVE Loop'
  BY <1>9 DEF Load, tickVars
<1>10. ASSUME NEW d \in Readers, Copy(d) PROVE Loop'
  <2>1. NoSnapshot \in Snapshots
    BY EmptyTypes DEF NoSnapshot
  <2> QED
    BY <1>10, <2>1 DEF Copy, tickVars
<1>11. CASE UNCHANGED vars
  BY <1>11 DEF vars, tickVars, readerVars
<1> QED
  BY <1>1, <1>2, <1>3, <1>4, <1>5, <1>6, <1>7, <1>8, <1>9, <1>10, <1>11
     DEF Next, TickStep

(* The inductive invariant of the loop.                                    *)
THEOREM CachedLoop == Spec => []Loop
  BY InitLoop, StepLoop, PTL DEF Spec

(* The type invariant: every variable of the cached source keeps its type. *)
THEOREM CachedTypeCorrect == Spec => []TypeOK
<1>1. Loop => TypeOK
  BY DEF Loop
<1> QED
  BY <1>1, CachedLoop, PTL

(* However often and by whomever Run is called, one collection is in       *)
(* flight at a time.                                                       *)
THEOREM CachedOneCollection == Spec => []OneCollectionInFlight
<1>1. Loop => OneCollectionInFlight
  BY DEF Loop, OneCollectionInFlight, Past, Ticking
<1> QED
  BY <1>1, CachedLoop, PTL

(* No tick writes to a snapshot that has been published: a reader between  *)
(* the load of the pointer and the copy reads what was stored.             *)
THEOREM CachedImmutable == Spec => PublishedIsImmutable
<1>1. Loop /\ [Next]_vars => [\A r \in ended : snapshot'[r] = snapshot[r]]_vars
  <2> SUFFICES ASSUME Loop, Next PROVE \A r \in ended : snapshot'[r] = snapshot[r]
    OBVIOUS
  <2>1. ASSUME NEW g \in Runners, Fold(g)
        PROVE  \A r \in ended : snapshot'[r] = snapshot[r]
    BY <2>1 DEF Fold, Own, Loop, TickIsItsOwn, Ticking, TypeOK
  <2>2. ASSUME \A g \in Runners : ~Fold(g) PROVE snapshot' = snapshot
    BY <2>2
       DEF Next, TickStep, Start, BeginTick, QueryReturns, StopRun, Classify,
           Store, TickerFires, Timeout, Stop, Load, Copy, tickVars
  <2> QED
    BY <2>1, <2>2
<1> QED
  BY <1>1, CachedLoop, PTL DEF Spec, PublishedIsImmutable
-----------------------------------------------------------------------------
(* A tick that is still to be judged has not fired a shutdown, and one     *)
(* whose query came back too late is judged with its context over.         *)
Judging ==
  /\ Loop
  /\ fatal \subseteq used
  /\ NoSelfInflictedShutdown
  /\ \A g \in Runners :
       /\ pc[g] = "query" => run[g] \notin fatal \cup cutShort
       /\ pc[g] = "returned" => /\ run[g] \notin fatal
                                /\ run[g] \in cutShort => RunOver

(* The initial state has judged nothing.                                   *)
LEMMA InitJudging == Init => Judging
  BY InitLoop DEF Init, Judging, NoSelfInflictedShutdown

(* Every action judges a tick by its own context.                          *)
LEMMA StepJudging == Judging /\ [Next]_vars => Judging'
<1> SUFFICES ASSUME Judging, [Next]_vars PROVE Judging'
  OBVIOUS
<1>0. Loop /\ Loop'
  BY StepLoop DEF Judging
<1> USE DEF Judging, NoSelfInflictedShutdown, RunOver
<1>1. ASSUME NEW g \in Runners, Start(g) \/ Fold(g) \/ Store(g) \/ StopRun(g)
      PROVE  Judging'
  BY <1>0, <1>1
     DEF Start, MayStart, Fold, Store, StopRun, tickVars, Loop, TypeOK
<1>2. ASSUME NEW g \in Runners, BeginTick(g) PROVE Judging'
  <2>1. PICK r \in Runs \ used : run' = [run EXCEPT ![g] = r]
                                 /\ used' = used \cup {r}
    BY <1>2 DEF BeginTick
  <2>2. r \notin fatal \cup cutShort
    BY <1>0, <2>1 DEF Loop, TypeOK
  <2>3. \A h \in Runners \ {g} : pc[h] \in {"new", "rejected"}
    BY <1>0, <1>2 DEF BeginTick, Loop, Past
  <2> QED
    BY <1>0, <1>2, <2>1, <2>2, <2>3 DEF BeginTick, Loop, TypeOK
<1>3. ASSUME NEW g \in Runners, QueryReturns(g) PROVE Judging'
  <2>1. \A h \in Runners \ {g} : pc[h] \in {"new", "rejected"}
    BY <1>0, <1>3 DEF QueryReturns, Loop, Past
  <2> QED
    BY <1>0, <1>3, <2>1 DEF QueryReturns, Loop, TypeOK
<1>4. ASSUME NEW g \in Runners, Classify(g) PROVE Judging'
  <2>1. run[g] \in used
    BY <1>0, <1>4 DEF Classify, Loop, TickIsItsOwn, Ticking
  <2>2. \A h \in Runners \ {g} : pc[h] \in {"new", "rejected"}
    BY <1>0, <1>4 DEF Classify, Loop, Past
  <2> QED
    BY <1>0, <1>4, <2>1, <2>2 DEF Classify, FiresFatal, Loop, TypeOK
<1>5. ASSUME TickerFires \/ Timeout \/ Stop PROVE Judging'
  BY <1>0, <1>5 DEF TickerFires, Timeout, Stop, tickVars
<1>6. ASSUME NEW d \in Readers, Load(d) \/ Copy(d) PROVE Judging'
  BY <1>0, <1>6 DEF Load, Copy, tickVars
<1>7. CASE UNCHANGED vars
  BY <1>0, <1>7 DEF vars, tickVars
<1> QED
  BY <1>1, <1>2, <1>3, <1>4, <1>5, <1>6, <1>7 DEF Next, TickStep

(* A collection cut short by the end of the application's context, or by   *)
(* its own timeout, never fires shutdown-on-error.                         *)
THEOREM CachedNoShutdown == Spec => []NoSelfInflictedShutdown
<1>1. Judging => NoSelfInflictedShutdown
  BY DEF Judging
<1> QED
  BY <1>1, InitJudging, StepJudging, PTL DEF Spec

-----------------------------------------------------------------------------
(* The ticks of a set that failed.                                         *)
FailedOf(S) == {r \in S : result[r] # "ok"}

(* The counter is the number of failed ticks: the published ones, and the  *)
(* one that has been folded in but not stored.                             *)
Counting ==
  /\ Loop
  /\ IsFiniteSet(ended)
  /\ (\A g \in Runners : pc[g] # "store") =>
       failures = Cardinality(FailedOf(ended))
  /\ \A g \in Runners : pc[g] = "store" =>
       /\ failures = Cardinality(FailedOf(ended \cup {run[g]}))
       /\ snapshot[run[g]].attempted
       /\ snapshot[run[g]].failures = failures
  /\ PublishedIsComplete

(* The initial state has counted nothing.                                  *)
LEMMA InitCounting == Init => Counting
<1> SUFFICES ASSUME Init PROVE Counting
  OBVIOUS
<1>1. FailedOf(ended) = {} /\ ended = {}
  BY DEF Init, FailedOf
<1> QED
  BY <1>1, InitLoop, FS_EmptySet
     DEF Init, Counting, PublishedIsComplete

(* One more tick raises the number of failed ones exactly when it failed.  *)
LEMMA OneMore ==
  ASSUME IsFiniteSet(ended), NEW r \in Runs, r \notin ended
  PROVE  /\ Cardinality(FailedOf(ended)) \in Nat
         /\ IsFiniteSet(ended \cup {r})
         /\ Cardinality(FailedOf(ended \cup {r})) =
              IF result[r] = "ok" THEN Cardinality(FailedOf(ended))
                                  ELSE Cardinality(FailedOf(ended)) + 1
<1>1. IsFiniteSet(FailedOf(ended))
  BY FS_Subset DEF FailedOf
<1>2. FailedOf(ended \cup {r}) =
        IF result[r] = "ok" THEN FailedOf(ended) ELSE FailedOf(ended) \cup {r}
  BY DEF FailedOf
<1>3. r \notin FailedOf(ended)
  BY DEF FailedOf
<1> QED
  BY <1>1, <1>2, <1>3, FS_AddElement, FS_CardinalityType

(* A step that leaves the folded counters, the published ticks and what    *)
(* they returned as they are keeps the count.                              *)
LEMMA SameCount ==
  ASSUME Counting, Loop',
         UNCHANGED <<ended, failures, cur, snapshot>>,
         \A r \in ended : result'[r] = result[r],
         \A g \in Runners : (pc'[g] = "store") <=> (pc[g] = "store"),
         \A g \in Runners :
           pc[g] = "store" => run'[g] = run[g] /\ result'[run[g]] = result[run[g]]
  PROVE  Counting'
<1>1. FailedOf(ended)' = FailedOf(ended)
  BY DEF FailedOf
<1>2. \A g \in Runners :
        pc[g] = "store" =>
          FailedOf(ended \cup {run[g]})' = FailedOf(ended \cup {run[g]})
  BY DEF FailedOf
<1>3. PublishedIsComplete'
  BY <1>1 DEF Counting, PublishedIsComplete, FailedOf
<1> QED
  BY <1>1, <1>2, <1>3 DEF Counting

(* Every action keeps the count.                                           *)
LEMMA StepCounting == Counting /\ [Next]_vars => Counting'
<1> SUFFICES ASSUME Counting, [Next]_vars PROVE Counting'
  OBVIOUS
<1>0. Loop /\ Loop'
  BY StepLoop DEF Counting
<1>1. ASSUME NEW g \in Runners,
             Start(g) \/ BeginTick(g) \/ StopRun(g) \/ Classify(g)
      PROVE  Counting'
  BY <1>0, <1>1, SameCount
     DEF Start, MayStart, BeginTick, StopRun, Classify, tickVars, Loop, TypeOK
<1>2. ASSUME NEW g \in Runners, QueryReturns(g) PROVE Counting'
  <2>1. run[g] \notin ended /\ \A h \in Runners : pc[h] # "store"
    BY <1>0, <1>2 DEF QueryReturns, Loop, Past, TickIsItsOwn, Ticking
  <2>2. \A r \in ended : result'[r] = result[r]
    BY <1>0, <1>2, <2>1 DEF QueryReturns, Loop, TypeOK
  <2>3. \A h \in Runners : pc'[h] # "store"
    BY <1>0, <1>2, <2>1 DEF QueryReturns, Loop, TypeOK
  <2> QED
    BY <1>0, <1>2, <2>1, <2>2, <2>3, SameCount DEF QueryReturns
<1>3. ASSUME NEW g \in Runners, Fold(g) PROVE Counting'
  <2>1. /\ run[g] \in Runs \ ended /\ result[run[g]] \in QueryResults
        /\ \A h \in Runners \ {g} : pc[h] \in {"new", "rejected"}
        /\ pc[g] = "fold"
    BY <1>0, <1>3 DEF Fold, Loop, Past, TickIsItsOwn, Ticking, TypeOK
  <2>2. failures = Cardinality(FailedOf(ended))
    BY <2>1 DEF Counting
  <2>3. /\ failures' = FoldFailures(result[run[g]], failures)
        /\ snapshot' = [snapshot EXCEPT ![run[g]] =
                          Outcome(run[g], result[run[g]], failures', lastOK')]
        /\ pc' = [pc EXCEPT ![g] = "store"]
        /\ UNCHANGED <<run, result, cur, ended>>
    BY <1>3 DEF Fold, Own
  <2>4. failures' = Cardinality(FailedOf(ended \cup {run[g]}))
    BY <2>1, <2>2, <2>3, OneMore DEF Counting, FoldFailures
  <2>5. /\ snapshot'[run[g]].attempted
        /\ snapshot'[run[g]].failures = failures'
        /\ cur # NoRun => snapshot'[cur] = snapshot[cur]
    BY <1>0, <2>1, <2>3 DEF Outcome, Loop, TypeOK, PointersArePublished
  <2>6. FailedOf(ended)' = FailedOf(ended)
        /\ FailedOf(ended \cup {run[g]})' = FailedOf(ended \cup {run[g]})
    BY <2>3 DEF FailedOf
  <2>7. \A h \in Runners : pc'[h] = "store" <=> h = g
    BY <1>0, <2>1, <2>3 DEF Loop, TypeOK
  <2>8. PublishedIsComplete'
    BY <2>3, <2>5, <2>6 DEF Counting, PublishedIsComplete, FailedOf
  <2> QED
    BY <1>0, <2>3, <2>4, <2>5, <2>6, <2>7, <2>8 DEF Counting
<1>4. ASSUME NEW g \in Runners, Store(g) PROVE Counting'
  <2>1. /\ run[g] \in Runs \ ended
        /\ \A h \in Runners \ {g} : pc[h] \in {"new", "rejected"}
        /\ pc[g] = "store"
    BY <1>0, <1>4 DEF Store, Loop, Past, TickIsItsOwn, Ticking, TypeOK
  <2>2. IsFiniteSet(ended \cup {run[g]})
    BY <2>1, OneMore DEF Counting
  <2>3. /\ cur' = run[g] /\ ended' = ended \cup {run[g]}
        /\ \A h \in Runners : pc'[h] # "store"
        /\ UNCHANGED <<snapshot, failures, result>>
    BY <1>0, <1>4, <2>1 DEF Store, tickVars, Loop, TypeOK
  <2>4. FailedOf(ended)' = FailedOf(ended \cup {run[g]})
    BY <2>3 DEF FailedOf
  <2>5. PublishedIsComplete'
    BY <2>1, <2>3, <2>4 DEF Counting, PublishedIsComplete, FailedOf
  <2> QED
    BY <1>0, <2>1, <2>2, <2>3, <2>4, <2>5 DEF Counting
<1>5. ASSUME TickerFires \/ Timeout \/ Stop PROVE Counting'
  BY <1>0, <1>5, SameCount DEF TickerFires, Timeout, Stop, tickVars
<1>6. ASSUME NEW d \in Readers, Load(d) \/ Copy(d) PROVE Counting'
  BY <1>0, <1>6, SameCount DEF Load, Copy, tickVars
<1>7. CASE UNCHANGED vars
  BY <1>0, <1>7, SameCount DEF vars, tickVars
<1> QED
  BY <1>1, <1>2, <1>3, <1>4, <1>5, <1>6, <1>7 DEF Next, TickStep

(* What is published counts every tick that failed up to then, each once.  *)
THEOREM CachedComplete == Spec => []PublishedIsComplete
<1>1. Counting => PublishedIsComplete
  BY DEF Counting
<1> QED
  BY <1>1, InitCounting, StepCounting, PTL DEF Spec
-----------------------------------------------------------------------------
(* What a pointer leads to, and an order of snapshots: t carries at least  *)
(* what s carried.                                                         *)
Value(p) == IF p = NoRun THEN NoSnapshot ELSE snapshot[p]

Below(s, t) ==
  /\ s.failures <= t.failures
  /\ s.lastSuccess <= t.lastSuccess
  /\ s.attempted => t.attempted

(* A reader has seen no more than it is about to see, and that is no more  *)
(* than what is current, nor the current more than what has been folded.   *)
Ordered ==
  /\ Loop
  /\ lastOK <= clock
  /\ Value(cur).failures <= failures /\ Value(cur).lastSuccess <= lastOK
  /\ \A d \in Readers :
       /\ Below(answer[d], Value(cur))
       /\ d \in reading => /\ Below(answer[d], Value(at[d]))
                           /\ Below(Value(at[d]), Value(cur))
  /\ \A g \in Runners : pc[g] = "store" =>
       /\ snapshot[run[g]].attempted
       /\ snapshot[run[g]].failures = failures
       /\ snapshot[run[g]].lastSuccess = lastOK

(* The order of snapshots is one.                                          *)
LEMMA BelowOrder ==
  ASSUME NEW s \in Snapshots, NEW t \in Snapshots, NEW u \in Snapshots
  PROVE  Below(s, s) /\ (Below(s, t) /\ Below(t, u) => Below(s, u))
<1>1. /\ s.failures \in Nat /\ t.failures \in Nat /\ u.failures \in Nat
      /\ s.lastSuccess \in Nat /\ t.lastSuccess \in Nat
      /\ u.lastSuccess \in Nat
  BY DEF Snapshots
<1> QED
  BY <1>1 DEF Below

(* Every pointer of a well-formed loop leads to a snapshot.                *)
LEMMA ValueTypes ==
  ASSUME TypeOK, NEW p \in Runs \cup {NoRun}
  PROVE  Value(p) \in Snapshots
  BY EmptyTypes DEF TypeOK, Value, NoSnapshot

(* Nobody has seen anything in the initial state.                          *)
LEMMA InitOrdered == Init => Ordered
<1> SUFFICES ASSUME Init PROVE Ordered
  OBVIOUS
<1>1. Value(cur) = NoSnapshot /\ \A d \in Readers : answer[d] = NoSnapshot
  BY DEF Init, Value
<1>2. NoSnapshot.failures = 0 /\ NoSnapshot.lastSuccess = 0
  BY DEF NoSnapshot, Empty
<1>3. Below(NoSnapshot, NoSnapshot)
  BY <1>2 DEF Below
<1> QED
  BY <1>1, <1>2, <1>3, InitLoop DEF Init, Ordered

(* A step that leaves the counters, the pointers and the published         *)
(* snapshots as they are keeps the order.                                  *)
LEMMA SameOrder ==
  ASSUME Ordered, Loop',
         UNCHANGED <<lastOK, failures, cur, at, answer, reading, snapshot>>,
         clock' \in {clock, clock + 1},
         \A g \in Runners : pc'[g] = "store" => pc[g] = "store" /\ run'[g] = run[g]
  PROVE  Ordered'
<1>1. \A p : Value(p)' = Value(p)
  BY DEF Value
<1>2. lastOK' <= clock'
  BY DEF Ordered, Loop, TypeOK
<1> QED
  BY <1>1, <1>2 DEF Ordered, Below

(* Every action keeps the order.                                           *)
LEMMA StepOrdered == Ordered /\ [Next]_vars => Ordered'
<1> SUFFICES ASSUME Ordered, [Next]_vars PROVE Ordered'
  OBVIOUS
<1>0. Loop /\ Loop'
  BY StepLoop DEF Ordered
<1>1. ASSUME NEW g \in Runners,
             \/ Start(g) \/ BeginTick(g) \/ StopRun(g) \/ Classify(g)
             \/ QueryReturns(g)
      PROVE  Ordered'
  BY <1>0, <1>1, SameOrder
     DEF Start, MayStart, BeginTick, StopRun, Classify, QueryReturns, tickVars,
         readerVars, Loop, TypeOK
<1>2. ASSUME NEW g \in Runners, Fold(g) PROVE Ordered'
  <2>1. /\ run[g] \in Runs \ ended /\ result[run[g]] \in QueryResults
        /\ \A h \in Runners \ {g} : pc[h] \in {"new", "rejected"}
    BY <1>0, <1>2 DEF Fold, Loop, Past, TickIsItsOwn, Ticking, TypeOK
  <2>2. /\ failures' = FoldFailures(result[run[g]], failures)
        /\ lastOK' = FoldLastOK(result[run[g]], clock, lastOK)
        /\ snapshot' = [snapshot EXCEPT ![run[g]] =
                          Outcome(run[g], result[run[g]], failures', lastOK')]
        /\ pc' = [pc EXCEPT ![g] = "store"]
        /\ UNCHANGED <<run, cur, at, answer, reading, clock>>
    BY <1>2 DEF Fold, Own, readerVars
  <2>3. /\ failures <= failures' /\ lastOK <= lastOK' /\ lastOK' <= clock'
    BY <1>0, <2>1, <2>2 DEF Ordered, FoldFailures, FoldLastOK, Loop, TypeOK
  <2>4. /\ snapshot'[run[g]].attempted
        /\ snapshot'[run[g]].failures = failures'
        /\ snapshot'[run[g]].lastSuccess = lastOK'
    BY <1>0, <2>1, <2>2 DEF Outcome, Loop, TypeOK
  <2>5. \A p \in ended \cup {NoRun} : Value(p)' = Value(p)
    BY <1>0, <2>1, <2>2 DEF Value, Loop, TypeOK
  <2>6. /\ cur \in ended \cup {NoRun}
        /\ \A d \in Readers : at[d] \in ended \cup {NoRun}
    BY <1>0 DEF Loop, PointersArePublished
  <2>7. \A h \in Runners : pc'[h] = "store" => h = g
    BY <1>0, <2>1, <2>2 DEF Loop, TypeOK
  <2>8. /\ Value(cur)' = Value(cur)
        /\ \A d \in Readers : Value(at[d])' = Value(at[d])
    BY <2>2, <2>5, <2>6 DEF Value
  <2>9. /\ (Value(cur).failures <= failures)'
        /\ (Value(cur).lastSuccess <= lastOK)'
    <3>1. Value(cur) \in Snapshots
      BY <1>0, ValueTypes DEF Loop, TypeOK
    <3>2. Value(cur).failures \in Nat /\ Value(cur).lastSuccess \in Nat
      BY <3>1 DEF Snapshots
    <3> QED
      BY <1>0, <2>3, <2>8, <3>2 DEF Ordered, Loop, TypeOK
  <2>10. ASSUME NEW d \in Readers
         PROVE  (/\ Below(answer[d], Value(cur))
                 /\ d \in reading => /\ Below(answer[d], Value(at[d]))
                                     /\ Below(Value(at[d]), Value(cur)))'
    BY <2>2, <2>8 DEF Ordered, Below
  <2> QED
    BY <1>0, <2>2, <2>3, <2>4, <2>7, <2>9, <2>10 DEF Ordered
<1>3. ASSUME NEW g \in Runners, Store(g) PROVE Ordered'
  <2>1. /\ run[g] \in Runs /\ pc[g] = "store"
        /\ \A h \in Runners \ {g} : pc[h] \in {"new", "rejected"}
    BY <1>0, <1>3 DEF Store, Loop, Past, TickIsItsOwn, Ticking, TypeOK
  <2>2. /\ cur' = run[g] /\ pc' = [pc EXCEPT ![g] = "select"]
        /\ UNCHANGED <<snapshot, failures, lastOK, clock, at, answer, reading>>
    BY <1>3 DEF Store, tickVars, readerVars
  <2>3. /\ Value(cur)' = snapshot[run[g]]
        /\ \A d \in Readers : Value(at[d])' = Value(at[d])
    BY <2>1, <2>2, NoRunAssumption DEF Value
  <2>4. /\ snapshot[run[g]].failures = failures
        /\ snapshot[run[g]].lastSuccess = lastOK
        /\ snapshot[run[g]].attempted
    BY <2>1 DEF Ordered
  <2>5. Below(Value(cur), snapshot[run[g]])
    BY <2>4 DEF Ordered, Below
  <2>6. ASSUME NEW d \in Readers
        PROVE  /\ Below(answer[d], snapshot[run[g]])
               /\ d \in reading => Below(Value(at[d]), snapshot[run[g]])
    <3>1. /\ answer[d] \in Snapshots /\ Value(cur) \in Snapshots
          /\ Value(at[d]) \in Snapshots /\ snapshot[run[g]] \in Snapshots
      BY <1>0, <2>1, ValueTypes DEF Loop, TypeOK
    <3> QED
      BY <2>5, <3>1, BelowOrder DEF Ordered
  <2>7. ASSUME NEW d \in Readers
        PROVE  (/\ Below(answer[d], Value(cur))
                /\ d \in reading => /\ Below(answer[d], Value(at[d]))
                                    /\ Below(Value(at[d]), Value(cur)))'
    BY <2>2, <2>3, <2>6 DEF Ordered, Below
  <2>8. /\ (Value(cur).failures <= failures)'
        /\ (Value(cur).lastSuccess <= lastOK)'
    BY <1>0, <2>2, <2>3, <2>4 DEF Loop, TypeOK
  <2>9. \A h \in Runners : pc'[h] # "store"
    BY <1>0, <2>1, <2>2 DEF Loop, TypeOK
  <2> QED
    BY <1>0, <2>2, <2>7, <2>8, <2>9 DEF Ordered
<1>4. ASSUME TickerFires \/ Timeout \/ Stop PROVE Ordered'
  BY <1>0, <1>4, SameOrder DEF TickerFires, Timeout, Stop, tickVars, readerVars
<1>5. ASSUME NEW d \in Readers, Load(d) PROVE Ordered'
  <2>1. /\ at' = [at EXCEPT ![d] = cur] /\ reading' = reading \cup {d}
        /\ UNCHANGED <<cur, snapshot, failures, lastOK, clock, answer, pc, run>>
    BY <1>5 DEF Load, tickVars
  <2>2. \A p : Value(p)' = Value(p)
    BY <2>1 DEF Value
  <2>3. Below(Value(cur), Value(cur))
    BY <1>0, ValueTypes, BelowOrder DEF Loop, TypeOK
  <2>4. ASSUME NEW e \in Readers
        PROVE  (/\ Below(answer[e], Value(cur))
                /\ e \in reading => /\ Below(answer[e], Value(at[e]))
                                    /\ Below(Value(at[e]), Value(cur)))'
    <3>1. /\ Value(cur)' = Value(cur) /\ answer'[e] = answer[e]
          /\ Below(answer[e], Value(cur))
      BY <2>1, <2>2 DEF Ordered, Value
    <3>2. CASE e = d
      <4>1. Value(at[e])' = Value(cur)
        BY <1>0, <2>1, <3>2 DEF Loop, TypeOK, Value
      <4> QED
        BY <2>3, <3>1, <4>1 DEF Below
    <3>3. CASE e # d
      <4>1. Value(at[e])' = Value(at[e]) /\ (e \in reading' => e \in reading)
        BY <1>0, <2>1, <3>3 DEF Loop, TypeOK, Value
      <4> QED
        BY <3>1, <4>1 DEF Ordered, Below
    <3> QED
      BY <3>2, <3>3
  <2>5. Value(cur)' = Value(cur)
    BY <2>1 DEF Value
  <2> QED
    BY <1>0, <2>1, <2>4, <2>5 DEF Ordered
<1>6. ASSUME NEW d \in Readers, Copy(d) PROVE Ordered'
  <2>1. /\ d \in reading /\ reading' = reading \ {d}
        /\ answer' = [answer EXCEPT ![d] = Value(at[d])]
        /\ UNCHANGED <<cur, snapshot, failures, lastOK, clock, at, pc, run>>
    BY <1>6 DEF Copy, tickVars, Value
  <2>2. Value(cur)' = Value(cur) /\ \A e \in Readers : Value(at[e])' = Value(at[e])
    BY <2>1 DEF Value
  <2>3. ASSUME NEW e \in Readers
        PROVE  (/\ Below(answer[e], Value(cur))
                /\ e \in reading => /\ Below(answer[e], Value(at[e]))
                                    /\ Below(Value(at[e]), Value(cur)))'
    <3>1. CASE e = d
      <4>1. answer'[e] = Value(at[d]) /\ e \notin reading'
        BY <1>0, <2>1, <3>1 DEF Loop, TypeOK
      <4> QED
        BY <2>1, <2>2, <3>1, <4>1 DEF Ordered, Below
    <3>2. CASE e # d
      <4>1. answer'[e] = answer[e] /\ (e \in reading' => e \in reading)
        BY <1>0, <2>1, <3>2 DEF Loop, TypeOK
      <4> QED
        BY <2>2, <4>1 DEF Ordered, Below
    <3> QED
      BY <3>1, <3>2
  <2> QED
    BY <1>0, <2>1, <2>2, <2>3 DEF Ordered
<1>7. CASE UNCHANGED vars
  BY <1>0, <1>7, SameOrder DEF vars, tickVars, readerVars, Loop, TypeOK
<1> QED
  BY <1>1, <1>2, <1>3, <1>4, <1>5, <1>6, <1>7 DEF Next, TickStep

(* From one of its scrapes to the next a scraper never travels back: no    *)
(* counter goes down, and data is not replaced by a not-ready snapshot.    *)
THEOREM CachedNeverGoesBack == Spec => ReadersNeverGoBack
<1> DEFINE Forward ==
      \A d \in Readers :
        /\ answer'[d].failures >= answer[d].failures
        /\ answer'[d].lastSuccess >= answer[d].lastSuccess
        /\ answer[d].attempted => answer'[d].attempted
<1>1. Ordered /\ [Next]_vars => [Forward]_vars
  <2> SUFFICES ASSUME Ordered, Next PROVE Forward
    OBVIOUS
  <2>0. /\ answer \in [Readers -> Snapshots]
        /\ \A d \in Readers : Value(at[d]) \in Snapshots
    BY ValueTypes DEF Ordered, Loop, TypeOK
  <2>1. ASSUME NEW d \in Readers, Copy(d) PROVE Forward
    <3>1. /\ answer' = [answer EXCEPT ![d] = Value(at[d])]
          /\ Below(answer[d], Value(at[d]))
      BY <2>1 DEF Copy, Value, Ordered
    <3>2. ASSUME NEW e \in Readers
          PROVE  Below(answer[e], answer'[e]) /\ answer'[e] \in Snapshots
      BY <2>0, <3>1, BelowOrder
    <3> QED
      BY <2>0, <3>2 DEF Below, Snapshots
  <2>2. ASSUME \A d \in Readers : ~Copy(d) PROVE Forward
    <3>1. answer' = answer
      BY <2>2
         DEF Next, TickStep, Start, BeginTick, QueryReturns, StopRun, Classify,
             Fold, Store, TickerFires, Timeout, Stop, Load, readerVars
    <3> QED
      BY <2>0, <3>1 DEF Snapshots
  <2> QED
    BY <2>1, <2>2
<1>2. Spec => []Ordered
  BY InitOrdered, StepOrdered, PTL DEF Spec
<1> QED
  BY <1>1, <1>2, PTL DEF Spec, ReadersNeverGoBack
=============================================================================
