----------------------------- MODULE LiveProofs -----------------------------
(***************************************************************************)
(* Proofs about the live source, for any set of callers and runs.          *)
(***************************************************************************)
EXTENDS Live, FiniteSetTheorems, TLAPS

(* What folding an outcome and building its snapshot preserve.             *)
LEMMA FoldTypes ==
  ASSUME NEW r \in Runs, NEW res \in QueryResults, NEW s \in Nat,
         NEW f \in Nat, NEW l \in Nat
  PROVE  /\ FoldFailures(res, f) \in Nat
         /\ FoldFailures(res, f) >= f
         /\ FoldLastOK(res, s, l) \in Nat
         /\ FoldLastOK(res, s, l) \in {s, l}
         /\ Outcome(r, res, f, l) \in Snapshots
         /\ Outcome(r, res, f, l).failures = f
  BY DEF FoldFailures, FoldLastOK, Outcome, Snapshots, QueryResults

(* What a snapshot with no data carries.                                   *)
LEMMA EmptyTypes ==
  ASSUME NEW f \in Nat, NEW l \in Nat
  PROVE  Empty(f, l) \in Snapshots /\ Empty(f, l).failures = f
  BY DEF Empty, Snapshots

(* A run's result is one of the query's as soon as the query is over.      *)
ResultKnown ==
  \A r \in Runs :
    phase[r] \in {"returned", "fold", "done"} => result[r] \in QueryResults

(* A caller that has joined a flight holds a real one.                     *)
JoinedRunStarted ==
  \A c \in Callers :
    pc[c] \in {"wait", "left"} => on[c] \in Runs /\ phase[on[c]] # "unused"

(* The joinable slot holds a run that is going on.                         *)
JoinableRunRuns == inflight # NoRun => inflight \in Running

Typing == TypeOK /\ ResultKnown /\ JoinedRunStarted /\ JoinableRunRuns

(* The initial state is well typed.                                        *)
LEMMA InitTyping == Init => Typing
  BY NoRunAssumption
     DEF Init, Typing, TypeOK, ResultKnown, JoinedRunStarted, JoinableRunRuns,
         PCs, Phases, Snapshots, NoSnapshot, Empty, QueryResults

(* Every action keeps the state well typed.                                *)
LEMMA StepTyping == Typing /\ [Next]_vars => Typing'
<1> SUFFICES ASSUME Typing, [Next]_vars PROVE Typing'
  OBVIOUS
<1> USE NoRunAssumption DEF Typing, TypeOK, ResultKnown, JoinedRunStarted,
        JoinableRunRuns, Running, PCs, Phases
<1>1. ASSUME NEW c \in Callers, Call(c) PROVE Typing'
  BY <1>1 DEF Call, Published, sharedVars, runVars
<1>2. ASSUME NEW c \in Callers, RequestEnds(c) PROVE Typing'
  BY <1>2 DEF RequestEnds, sharedVars, runVars
<1>3. ASSUME NEW c \in Callers, Enter(c) PROVE Typing'
  BY <1>3 DEF Enter, sharedVars, runVars
<1>4. ASSUME NEW c \in Callers, JoinInflight(c) PROVE Typing'
  BY <1>4 DEF JoinInflight, sharedVars, runVars
<1>5. ASSUME NEW c \in Callers, StartRun(c) PROVE Typing'
  BY <1>5 DEF StartRun, Unused
<1>6. ASSUME NEW c \in Callers, Receive(c) PROVE Typing'
  BY <1>6 DEF Receive, Done, Return, sharedVars, runVars
<1>7. ASSUME NEW c \in Callers, Leave(c) PROVE Typing'
  <2>1. /\ cancelled' \in [Runs -> BOOLEAN]
        /\ inflight' \in {inflight, NoRun}
    BY <1>7 DEF Leave, LastOut
  <2>2. waiters' \in [Runs -> Int] /\ pc' \in [Callers -> PCs]
    BY <1>7 DEF Leave, LastOut
  <2> QED
    BY <1>7, <2>1, <2>2 DEF Leave, LastOut
<1>8. ASSUME NEW c \in Callers, LookAgain(c) PROVE Typing'
  BY <1>8 DEF LookAgain, Done, sharedVars, runVars
<1>9. ASSUME NEW c \in Callers, NoResult(c) PROVE Typing'
  BY <1>9 DEF NoResult, Return, Empty, Snapshots, sharedVars, runVars
<1>10. ASSUME NEW r \in Runs, Timeout(r) PROVE Typing'
  BY <1>10 DEF Timeout, callerVars, sharedVars
<1>11. ASSUME NEW r \in Runs, QueryReturns(r) PROVE Typing'
  BY <1>11 DEF QueryReturns, callerVars, sharedVars
<1>12. ASSUME NEW r \in Runs, Classify(r) PROVE Typing'
  BY <1>12 DEF Classify, callerVars, sharedVars
<1>13. ASSUME NEW r \in Runs, Publish(r) PROVE Typing'
  <2>1. result[r] \in QueryResults
    BY <1>13 DEF Publish, SlotAfter
  <2>2. failures' \in Nat /\ lastOK' \in Nat
    BY <1>13, <2>1, FoldTypes DEF Publish, SlotAfter
  <2>3. Outcome(r, result[r], failures', lastOK') \in Snapshots
    BY <2>1, <2>2, FoldTypes
  <2> QED
    BY <1>13, <2>2, <2>3 DEF Publish, SlotAfter, callerVars
<1>14. CASE UNCHANGED vars
  BY <1>14 DEF vars, callerVars, sharedVars, runVars
<1> QED
  BY <1>1, <1>2, <1>3, <1>4, <1>5, <1>6, <1>7, <1>8, <1>9, <1>10, <1>11,
     <1>12, <1>13, <1>14 DEF Next, Caller, Idle

(* The live source keeps its types, runs and callers are well formed.      *)
THEOREM LiveTyping == Spec => []Typing
  BY InitTyping, StepTyping, PTL DEF Spec

(* The type invariant, which that is the inductive form of: every variable *)
(* of the live source keeps its type in every behaviour.                   *)
THEOREM LiveTypeCorrect == Spec => []TypeOK
<1>1. Typing => TypeOK
  BY DEF Typing
<1> QED
  BY <1>1, LiveTyping, PTL

-----------------------------------------------------------------------------
(* A run nobody has started has no waiters and has not been cancelled.     *)
UnusedRunIsClean ==
  \A r \in Runs : phase[r] = "unused" => waiters[r] = 0 /\ ~cancelled[r]

(* The inductive invariant of the sharing of runs.                         *)
Sharing ==
  /\ Typing
  /\ UnusedRunIsClean
  /\ OneLiveRun
  /\ JoinableRunIsWanted
  /\ NoWaiterStranded

(* Callers who wait are finitely many, so a count of them is a number.     *)
LEMMA WaitersFinite ==
  ASSUME NEW r \in Runs
  PROVE  IsFiniteSet(WaitingOn(r)) /\ Cardinality(WaitingOn(r)) \in Nat
<1>1. WaitingOn(r) \in SUBSET Callers
  BY DEF WaitingOn
<1> QED
  BY <1>1, CallersAssumption, FS_Subset, FS_CardinalityType

(* A step that leaves pc, on, the runs' counts and the slot as they are    *)
(* keeps the runs shared as they were.                                     *)
LEMMA SameWaiting ==
  ASSUME Sharing, Typing',
         UNCHANGED <<on, waiters, inflight, phase, cancelled>>,
         \A c \in Callers : pc'[c] = "wait" <=> pc[c] = "wait"
  PROVE  Sharing'
<1>1. \A r \in Runs : WaitingOn(r)' = WaitingOn(r)
  BY DEF WaitingOn
<1>2. inflight # NoRun => inflight \in Runs
  BY DEF Sharing, Typing, TypeOK
<1> QED
  BY <1>1, <1>2 DEF Sharing, UnusedRunIsClean, OneLiveRun,
                    JoinableRunIsWanted, NoWaiterStranded, Running

(* Every action keeps the runs shared.                                     *)
LEMMA StepSharing == Sharing /\ [Next]_vars => Sharing'
<1> SUFFICES ASSUME Sharing, [Next]_vars PROVE Sharing'
  OBVIOUS
<1>0. Typing /\ Typing'
  BY StepTyping DEF Sharing
<1> USE DEF Sharing
<1>1. ASSUME NEW c \in Callers, Call(c) \/ RequestEnds(c) \/ Enter(c)
                                \/ LookAgain(c)
      PROVE  Sharing'
  BY <1>0, <1>1, SameWaiting
     DEF Call, RequestEnds, Enter, LookAgain, Done, sharedVars, runVars,
         Typing, TypeOK
<1>2. ASSUME NEW c \in Callers, JoinInflight(c) PROVE Sharing'
  <2>1. PICK q \in Runs :
          /\ q = inflight /\ inflight' = q /\ phase' = phase
          /\ cancelled' = cancelled
          /\ waiters' = [waiters EXCEPT ![q] = @ + 1]
    BY <1>0, <1>2 DEF JoinInflight, sharedVars, runVars, Typing, TypeOK
  <2>2. WaitingOn(q)' = WaitingOn(q) \cup {c} /\ c \notin WaitingOn(q)
    BY <1>0, <1>2, <2>1 DEF JoinInflight, WaitingOn, Typing, TypeOK
  <2>3. waiters'[q] = Cardinality(WaitingOn(q)') /\ waiters'[q] > 0
    <3>1. Cardinality(WaitingOn(q)') = Cardinality(WaitingOn(q)) + 1
      BY <2>2, WaitersFinite, FS_AddElement
    <3>2. waiters[q] = Cardinality(WaitingOn(q))
      BY <1>2, <2>1 DEF JoinableRunIsWanted, JoinInflight
    <3>3. waiters'[q] = waiters[q] + 1
      BY <1>0, <2>1 DEF Typing, TypeOK
    <3> QED
      BY <3>1, <3>2, <3>3, WaitersFinite
  <2>4. JoinableRunIsWanted'
    BY <1>2, <2>1, <2>3 DEF JoinInflight, JoinableRunIsWanted, Running
  <2>5. OneLiveRun' /\ NoWaiterStranded'
    BY <1>0, <1>2, <2>1
       DEF JoinInflight, OneLiveRun, NoWaiterStranded, Running, Typing, TypeOK
  <2>6. UnusedRunIsClean'
    BY <1>0, <1>2, <2>1
       DEF UnusedRunIsClean, JoinableRunIsWanted, JoinInflight, Running,
           Typing, TypeOK
  <2> QED
    BY <1>0, <2>4, <2>5, <2>6
<1>3. ASSUME NEW c \in Callers, StartRun(c) PROVE Sharing'
  <2>1. PICK q \in Unused :
          /\ phase' = [phase EXCEPT ![q] = "query"]
          /\ inflight' = q
          /\ on' = [on EXCEPT ![c] = q]
          /\ waiters' = [waiters EXCEPT ![q] = @ + 1]
    BY <1>3 DEF StartRun
  <2>2. /\ q \in Runs /\ phase[q] = "unused" /\ waiters[q] = 0
        /\ ~cancelled[q] /\ cancelled' = cancelled
        /\ pc' = [pc EXCEPT ![c] = "wait"] /\ pc[c] = "join"
        /\ inflight = NoRun
    BY <1>3 DEF Unused, UnusedRunIsClean, StartRun
  <2>3. WaitingOn(q)' = {c}
    BY <1>0, <2>1, <2>2 DEF WaitingOn, Typing, TypeOK, JoinedRunStarted
  <2>4. waiters'[q] = 1
    BY <1>0, <2>1, <2>2 DEF Typing, TypeOK
  <2>5. JoinableRunIsWanted'
    <3>1. Cardinality(WaitingOn(q)') = 1
      BY <2>3, FS_Singleton
    <3>2. q \in Running'
      BY <1>0, <2>1, <2>2 DEF Running, Typing, TypeOK
    <3> QED
      BY <2>1, <2>2, <2>4, <3>1, <3>2 DEF JoinableRunIsWanted
  <2>6. OneLiveRun' /\ NoWaiterStranded'
    BY <1>0, <2>1, <2>2, NoRunAssumption
       DEF OneLiveRun, NoWaiterStranded, Running, Typing, TypeOK,
           JoinedRunStarted
  <2>7. UnusedRunIsClean'
    BY <1>0, <2>1, <2>2 DEF UnusedRunIsClean, Typing, TypeOK
  <2> QED
    BY <1>0, <2>5, <2>6, <2>7
<1>4. ASSUME NEW c \in Callers, Receive(c) \/ NoResult(c) PROVE Sharing'
  <2>1. /\ pc' = [pc EXCEPT ![c] = "idle"]
        /\ on' = [on EXCEPT ![c] = NoRun]
        /\ UNCHANGED <<waiters, inflight, phase, cancelled>>
        /\ pc[c] = "wait" => phase[on[c]] = "done"
    BY <1>4 DEF Receive, Done, NoResult, Return, sharedVars, runVars
  <2>2. ASSUME inflight # NoRun
        PROVE  WaitingOn(inflight)' = WaitingOn(inflight)
    BY <1>0, <2>1, <2>2
       DEF WaitingOn, JoinableRunRuns, Running, Typing, TypeOK
  <2>3. JoinableRunIsWanted'
    BY <2>1, <2>2 DEF JoinableRunIsWanted, Running
  <2>4. OneLiveRun' /\ NoWaiterStranded' /\ UnusedRunIsClean'
    BY <1>0, <2>1
       DEF OneLiveRun, NoWaiterStranded, UnusedRunIsClean, Running, Typing,
           TypeOK
  <2> QED
    BY <1>0, <2>3, <2>4
<1>5. ASSUME NEW c \in Callers, Leave(c) PROVE Sharing'
  <2> DEFINE q == on[c]
  <2>1. /\ q \in Runs /\ phase[q] # "unused" /\ phase' = phase /\ on' = on
        /\ waiters' = [waiters EXCEPT ![q] = @ - 1]
        /\ pc' = [pc EXCEPT ![c] = "left"] /\ pc[c] = "wait"
    BY <1>0, <1>5 DEF Leave, LastOut, Typing, JoinedRunStarted
  <2>2. /\ WaitingOn(q)' = WaitingOn(q) \ {c} /\ c \in WaitingOn(q)
        /\ \A r \in Runs : r # q => WaitingOn(r)' = WaitingOn(r)
    BY <1>0, <2>1 DEF WaitingOn, Typing, TypeOK
  <2>3. Cardinality(WaitingOn(q)') = Cardinality(WaitingOn(q)) - 1
    BY <2>1, <2>2, WaitersFinite, FS_RemoveElement
  <2>4. UnusedRunIsClean'
    BY <1>0, <1>5, <2>1 DEF UnusedRunIsClean, Leave, LastOut, Typing, TypeOK
  <2>5. CASE waiters[q] = 1 /\ inflight = q
    <3>1. inflight' = NoRun /\ cancelled' = [cancelled EXCEPT ![q] = TRUE]
      BY <1>5, <2>5 DEF Leave, LastOut
    <3>2. WaitingOn(q)' = {}
      <4>1. Cardinality(WaitingOn(q)) = 1
        BY <2>1, <2>5, NoRunAssumption DEF JoinableRunIsWanted
      <4>2. Cardinality(WaitingOn(q) \ {c}) = 0
        BY <2>2, <2>3, <4>1
      <4>3. IsFiniteSet(WaitingOn(q) \ {c})
        BY <2>1, WaitersFinite, FS_RemoveElement
      <4> QED
        BY <2>2, <4>2, <4>3, FS_EmptySet
    <3>3. NoWaiterStranded'
      BY <1>0, <2>1, <2>5, <3>2
         DEF NoWaiterStranded, WaitingOn, Typing, TypeOK
    <3>4. OneLiveRun' /\ JoinableRunIsWanted'
      BY <1>0, <2>1, <2>5, <3>1
         DEF OneLiveRun, JoinableRunIsWanted, Running, Typing, TypeOK
    <3> QED
      BY <1>0, <2>4, <3>3, <3>4
  <2>6. CASE ~(waiters[q] = 1 /\ inflight = q)
    <3>1. inflight' = inflight /\ cancelled' = cancelled
      BY <1>5, <2>6 DEF Leave, LastOut
    <3>2. OneLiveRun' /\ NoWaiterStranded'
      BY <1>0, <2>1, <3>1
         DEF OneLiveRun, NoWaiterStranded, Running, Typing, TypeOK
    <3>3. ASSUME inflight # NoRun, inflight = q
          PROVE  waiters'[q] = Cardinality(WaitingOn(q)') /\ waiters'[q] > 0
      BY <1>0, <2>1, <2>3, <2>6, <3>3
         DEF JoinableRunIsWanted, Typing, TypeOK
    <3>4. ASSUME NEW i \in Runs, inflight = i, i # q, inflight # NoRun
          PROVE  waiters'[i] = Cardinality(WaitingOn(i)') /\ waiters'[i] > 0
      BY <1>0, <2>1, <2>2, <3>4
         DEF JoinableRunIsWanted, Typing, TypeOK
    <3>5. JoinableRunIsWanted'
      BY <1>0, <2>1, <3>1, <3>3, <3>4
         DEF JoinableRunIsWanted, Running, Typing, TypeOK
    <3> QED
      BY <1>0, <2>4, <3>2, <3>5
  <2> QED
    BY <2>5, <2>6
<1>6. ASSUME NEW r \in Runs, Timeout(r) PROVE Sharing'
  BY <1>0, <1>6, SameWaiting DEF Timeout, callerVars, sharedVars
<1>7. ASSUME NEW r \in Runs, QueryReturns(r) \/ Classify(r) PROVE Sharing'
  <2>1. /\ UNCHANGED <<pc, on, waiters, inflight, cancelled>>
        /\ \/ phase[r] = "query" /\ phase' = [phase EXCEPT ![r] = "returned"]
           \/ phase[r] = "returned" /\ phase' = [phase EXCEPT ![r] = "fold"]
    BY <1>7 DEF QueryReturns, Classify, callerVars, sharedVars
  <2>2. Running' = Running /\ \A q : WaitingOn(q)' = WaitingOn(q)
    BY <1>0, <2>1 DEF Running, WaitingOn, Typing, TypeOK
  <2>3. \A q \in Runs : /\ phase'[q] = "unused" <=> phase[q] = "unused"
                        /\ phase'[q] = "done" <=> phase[q] = "done"
    BY <1>0, <2>1 DEF Typing, TypeOK
  <2>4. NoWaiterStranded' /\ UnusedRunIsClean'
    BY <1>0, <2>1, <2>3
       DEF NoWaiterStranded, UnusedRunIsClean, Typing, TypeOK,
           JoinedRunStarted
  <2>5. OneLiveRun' /\ JoinableRunIsWanted'
    BY <2>1, <2>2 DEF OneLiveRun, JoinableRunIsWanted
  <2> QED
    BY <1>0, <2>4, <2>5
<1>8. ASSUME NEW r \in Runs, Publish(r) PROVE Sharing'
  <2>1. /\ phase[r] = "fold" /\ phase' = [phase EXCEPT ![r] = "done"]
        /\ cancelled' = [cancelled EXCEPT ![r] = TRUE]
        /\ inflight' = IF inflight = r THEN NoRun ELSE inflight
        /\ UNCHANGED <<pc, on, waiters>>
    BY <1>8 DEF Publish, SlotAfter, callerVars
  <2>2. \A q : WaitingOn(q)' = WaitingOn(q)
    BY <2>1 DEF WaitingOn
  <2>3. JoinableRunIsWanted'
    BY <1>0, <2>1, <2>2
       DEF JoinableRunIsWanted, Running, Typing, TypeOK
  <2>4. OneLiveRun'
    BY <1>0, <2>1 DEF OneLiveRun, Running, Typing, TypeOK
  <2>5. NoWaiterStranded' /\ UnusedRunIsClean'
    BY <1>0, <2>1
       DEF NoWaiterStranded, UnusedRunIsClean, Typing, TypeOK,
           JoinedRunStarted
  <2> QED
    BY <1>0, <2>3, <2>4, <2>5
<1>9. CASE UNCHANGED vars
  BY <1>0, <1>9, SameWaiting DEF vars, callerVars, sharedVars, runVars
<1> QED
  BY <1>1, <1>2, <1>3, <1>4, <1>5, <1>6, <1>7, <1>8, <1>9
     DEF Next, Caller, Idle

(* The sharing of runs is an invariant.                                    *)
LEMMA SharingAlways == Spec => []Sharing
<1>1. Init => Sharing
  BY InitTyping, NoRunAssumption
     DEF Sharing, Init, UnusedRunIsClean, OneLiveRun, JoinableRunIsWanted,
         NoWaiterStranded, Running
<1> QED
  BY <1>1, StepSharing, PTL DEF Spec

(* At most one run that anybody wants is going on, however many call.      *)
THEOREM LiveOneRun == Spec => []OneLiveRun
<1>1. Sharing => OneLiveRun
  BY DEF Sharing
<1> QED
  BY <1>1, SharingAlways, PTL

(* The run a new caller may join has not been given up, and counts exactly *)
(* the callers who wait for it.                                            *)
THEOREM LiveJoinable == Spec => []JoinableRunIsWanted
<1>1. Sharing => JoinableRunIsWanted
  BY DEF Sharing
<1> QED
  BY <1>1, SharingAlways, PTL

(* Nobody waits for a run that was taken away from them.                   *)
THEOREM LiveNobodyStranded == Spec => []NoWaiterStranded
<1>1. Sharing => NoWaiterStranded
  BY DEF Sharing
<1> QED
  BY <1>1, SharingAlways, PTL

-----------------------------------------------------------------------------
(* What a call knew when it began has been published, a run it has joined  *)
(* since was not among it, and a caller that is not calling knows nothing. *)
Knowledge ==
  /\ \A c \in Callers : seen[c] \subseteq Published
  /\ FreshResult
  /\ \A c \in Callers : pc[c] = "idle" => seen[c] = {}

(* The inductive invariant of the freshness of answers.                    *)
Fresh == Typing /\ Knowledge

(* Every action keeps answers fresh.                                       *)
LEMMA StepFresh == Fresh /\ [Next]_vars => Fresh'
<1> SUFFICES ASSUME Fresh, [Next]_vars PROVE Fresh'
  OBVIOUS
<1>0. Typing /\ Typing'
  BY StepTyping DEF Fresh
<1> USE DEF Fresh, Knowledge, FreshResult
<1>1. ASSUME NEW c \in Callers, Call(c) PROVE Fresh'
  <2>1. Published' = Published /\ on' = on
    BY <1>1 DEF Call, Published, runVars
  <2>2. pc' = [pc EXCEPT ![c] = "enter"]
        /\ seen' = [seen EXCEPT ![c] = Published]
    BY <1>1 DEF Call
  <2> QED
    BY <1>0, <2>1, <2>2 DEF Typing, TypeOK
<1>2. ASSUME NEW c \in Callers,
             RequestEnds(c) \/ Enter(c) \/ Leave(c) \/ LookAgain(c)
      PROVE  Fresh'
  <2>1. Published' = Published /\ UNCHANGED <<on, seen>>
    BY <1>2 DEF RequestEnds, Enter, Leave, LastOut, LookAgain, Done, Published,
                runVars
  <2>2. \/ pc' = pc
        \/ /\ pc[c] # "idle"
           /\ pc' = [pc EXCEPT ![c] = pc'[c]]
           /\ pc'[c] \in {"empty", "join"}
        \/ pc[c] = "wait" /\ pc' = [pc EXCEPT ![c] = "left"]
    BY <1>0, <1>2 DEF RequestEnds, Enter, Leave, LastOut, LookAgain, Done,
                      Typing, TypeOK
  <2> QED
    BY <1>0, <2>1, <2>2 DEF Typing, TypeOK
<1>3. ASSUME NEW c \in Callers, JoinInflight(c) \/ StartRun(c) PROVE Fresh'
  <2>1. Published' = Published
    BY <1>0, <1>3
       DEF JoinInflight, StartRun, Published, Unused, runVars, Typing, TypeOK
  <2>2. PICK r \in Runs \ Published :
          /\ on' = [on EXCEPT ![c] = r]
          /\ pc' = [pc EXCEPT ![c] = "wait"]
          /\ seen' = seen
    BY <1>0, <1>3
       DEF JoinInflight, StartRun, Published, Unused, Typing, TypeOK,
           JoinableRunRuns, Running
  <2> QED
    BY <1>0, <2>1, <2>2 DEF Typing, TypeOK
<1>4. ASSUME NEW c \in Callers, Receive(c) \/ NoResult(c) PROVE Fresh'
  <2>1. Published' = Published
    BY <1>4 DEF Receive, Done, NoResult, Published, runVars
  <2>2. /\ on' = [on EXCEPT ![c] = NoRun] /\ pc' = [pc EXCEPT ![c] = "idle"]
        /\ seen' = [seen EXCEPT ![c] = {}]
    BY <1>4 DEF Receive, Done, NoResult, Return
  <2> QED
    BY <1>0, <2>1, <2>2 DEF Typing, TypeOK
<1>5. ASSUME NEW r \in Runs,
             Timeout(r) \/ QueryReturns(r) \/ Classify(r) \/ Publish(r)
      PROVE  Fresh'
  <2>1. Published \subseteq Published' /\ UNCHANGED <<pc, on, seen>>
    BY <1>0, <1>5
       DEF Timeout, QueryReturns, Classify, Publish, SlotAfter, Published,
           callerVars, Typing, TypeOK
  <2> QED
    BY <1>0, <2>1
<1>6. CASE UNCHANGED vars
  BY <1>0, <1>6 DEF vars, callerVars, runVars, Published
<1> QED
  BY <1>1, <1>2, <1>3, <1>4, <1>5, <1>6 DEF Next, Caller, Idle

(* No call is given a collection that ended before the call began.         *)
THEOREM LiveFreshness == Spec => []FreshResult
<1>1. Init => Fresh
  BY InitTyping DEF Init, Fresh, Knowledge, FreshResult
<1>2. Fresh => FreshResult
  BY DEF Fresh, Knowledge
<1> QED
  BY <1>1, <1>2, StepFresh, PTL DEF Spec

-----------------------------------------------------------------------------
(* The published runs that failed.                                         *)
Failed == {r \in Published : result[r] # "ok"}

(* The counter is their number, and bounds what callers have read.         *)
Counting ==
  /\ Typing
  /\ IsFiniteSet(Failed)
  /\ failures = Cardinality(Failed)
  /\ \A c \in Callers : answer[c].failures <= failures
  /\ \A r \in Published : snapshot[r].failures <= failures
  /\ \A c \in Callers : \A r \in Published \ seen[c] :
       pc[c] # "idle" => answer[c].failures <= snapshot[r].failures

(* A step that publishes nothing and answers nobody keeps the count.       *)
LEMMA SameCount ==
  ASSUME Counting, Typing',
         UNCHANGED <<failures, answer, snapshot>>, Failed' = Failed,
         Published' = Published,
         \A c \in Callers :
           \/ pc'[c] = "idle"
           \/ pc[c] # "idle" /\ seen'[c] = seen[c]
           \/ seen'[c] = Published
  PROVE  Counting'
BY DEF Counting

(* Every action keeps the count, and never lets an answer go down.         *)
LEMMA StepCounting ==
  Counting /\ Fresh /\ [Next]_vars =>
    /\ Counting'
    /\ \A c \in Callers : answer'[c].failures >= answer[c].failures
<1> DEFINE NoDrop ==
      \A c \in Callers : answer'[c].failures >= answer[c].failures
<1> SUFFICES ASSUME Counting, Fresh, [Next]_vars PROVE Counting' /\ NoDrop
  OBVIOUS
<1>0. Typing /\ Typing' /\ Fresh'
  BY StepTyping, StepFresh DEF Counting
<1>A. \A c \in Callers : answer[c].failures \in Nat
  BY <1>0 DEF Typing, TypeOK, Snapshots
<1>1. ASSUME NEW c \in Callers,
             \/ Call(c) \/ RequestEnds(c) \/ Enter(c) \/ JoinInflight(c)
             \/ Leave(c) \/ LookAgain(c)
      PROVE  Counting' /\ NoDrop
  <2>1. /\ UNCHANGED <<failures, answer, snapshot, phase, result>>
        /\ Failed' = Failed /\ Published' = Published
    BY <1>1 DEF Call, RequestEnds, Enter, JoinInflight, Leave, LastOut,
                LookAgain, Done, sharedVars, runVars, Failed, Published
  <2>2. \A d \in Callers : \/ pc[d] # "idle" /\ seen'[d] = seen[d]
                           \/ pc'[d] = "idle"
                           \/ seen'[d] = Published
    BY <1>0, <1>1
       DEF Call, RequestEnds, Enter, JoinInflight, Leave, LastOut, LookAgain,
           Done, Typing, TypeOK
  <2> QED
    BY <1>0, <1>A, <2>1, <2>2, SameCount
<1>2. ASSUME NEW c \in Callers, StartRun(c) PROVE Counting' /\ NoDrop
  <2>1. /\ UNCHANGED <<failures, answer, snapshot, result, seen>>
        /\ Published' = Published
        /\ \A d \in Callers : d # c => pc'[d] = pc[d]
        /\ pc[c] = "join"
    BY <1>0, <1>2 DEF StartRun, Unused, Published, Typing, TypeOK
  <2>2. Failed' = Failed
    BY <2>1 DEF Failed
  <2>3. \A d \in Callers :
          pc'[d] = "idle" \/ (pc[d] # "idle" /\ seen'[d] = seen[d])
    BY <2>1
  <2> QED
    BY <1>0, <1>A, <2>1, <2>2, <2>3, SameCount
<1>3. ASSUME NEW c \in Callers, Receive(c) \/ NoResult(c)
      PROVE  Counting' /\ NoDrop
  <2>1. /\ UNCHANGED <<failures, snapshot, phase, result>>
        /\ Failed' = Failed /\ Published' = Published
        /\ pc' = [pc EXCEPT ![c] = "idle"] /\ seen' = [seen EXCEPT ![c] = {}]
        /\ pc[c] # "idle"
    BY <1>3 DEF Receive, Done, NoResult, Return, sharedVars, runVars, Failed,
                Published
  <2>2. \E s \in Snapshots :
          /\ answer' = [answer EXCEPT ![c] = s]
          /\ s.failures <= failures /\ s.failures >= answer[c].failures
    <3>1. CASE Receive(c)
      <4>1. on[c] \in Published \ seen[c]
        BY <1>0, <3>1
           DEF Receive, Done, Published, Fresh, Knowledge, FreshResult, Typing,
               TypeOK, JoinedRunStarted
      <4>2. PICK r \in Published \ seen[c] :
              r = on[c] /\ answer' = [answer EXCEPT ![c] = snapshot[r]]
        BY <3>1, <4>1 DEF Receive, Done, Return
      <4>3. snapshot[r] \in Snapshots /\ snapshot[r].failures >= answer[c].failures
        BY <1>0, <1>A, <2>1, <4>2
           DEF Counting, Published, Typing, TypeOK, Snapshots
      <4>4. snapshot[r].failures <= failures
        BY <4>2 DEF Counting
      <4> QED
        BY <4>2, <4>3, <4>4
    <3>2. CASE NoResult(c)
      <4>1. PICK empty \in Snapshots :
              empty = Empty(failures, lastOK) /\ empty.failures = failures
        BY <1>0, EmptyTypes DEF Typing, TypeOK
      <4>2. failures \in Nat /\ failures >= answer[c].failures
        BY <1>0, <1>A DEF Counting, Typing, TypeOK
      <4>3. answer' = [answer EXCEPT ![c] = empty]
        BY <3>2, <4>1 DEF NoResult, Return
      <4>4. empty.failures <= failures /\ empty.failures >= answer[c].failures
        BY <4>1, <4>2
      <4> QED
        BY <4>3, <4>4
    <3> QED
      BY <1>3, <3>1, <3>2
  <2>3. \A d \in Callers : d # c =>
          /\ answer'[d] = answer[d] /\ pc'[d] = pc[d] /\ seen'[d] = seen[d]
    BY <1>0, <2>1, <2>2 DEF Typing, TypeOK
  <2>4. /\ answer'[c].failures <= failures
        /\ answer'[c].failures >= answer[c].failures
        /\ pc'[c] = "idle"
    BY <1>0, <2>1, <2>2 DEF Typing, TypeOK
  <2> QED
    BY <1>0, <1>A, <2>1, <2>2, <2>3, <2>4 DEF Counting
<1>4. ASSUME NEW r \in Runs, Timeout(r) \/ QueryReturns(r) \/ Classify(r)
      PROVE  Counting' /\ NoDrop
  <2>1. /\ UNCHANGED <<failures, answer, snapshot, pc, seen>>
        /\ Published' = Published
    BY <1>0, <1>4
       DEF Timeout, QueryReturns, Classify, callerVars, sharedVars, Published,
           Typing, TypeOK
  <2>2. \A q \in Published : result'[q] = result[q]
    BY <1>0, <1>4
       DEF Timeout, QueryReturns, Classify, Published, Typing, TypeOK
  <2>3. Failed' = Failed
    BY <2>1, <2>2 DEF Failed
  <2> QED
    BY <1>0, <1>A, <2>1, <2>3, SameCount
<1>5. ASSUME NEW r \in Runs, Publish(r) PROVE Counting' /\ NoDrop
  <2>1. /\ Published' = Published \cup {r} /\ r \notin Published
        /\ UNCHANGED <<pc, seen, answer, result>>
    BY <1>0, <1>5 DEF Publish, SlotAfter, Published, callerVars, Typing, TypeOK
  <2>2. result[r] \in QueryResults
    BY <1>0, <1>5 DEF Publish, SlotAfter, Typing, ResultKnown
  <2>3. failures' \in Nat /\ failures \in Nat /\ failures' >= failures
    BY <1>0, <1>5, <2>2 DEF Publish, SlotAfter, FoldFailures, Typing, TypeOK
  <2>4. /\ snapshot'[r].failures = failures'
        /\ \A q \in Published : snapshot'[q] = snapshot[q]
    BY <1>0, <1>5, <2>1 DEF Publish, SlotAfter, Outcome, Published, Typing,
                            TypeOK
  <2>5. IsFiniteSet(Failed') /\ failures' = Cardinality(Failed')
    <3>1. CASE result[r] = "ok"
      <4>1. Failed' = Failed
        BY <2>1, <3>1 DEF Failed
      <4> QED
        BY <1>5, <3>1, <4>1 DEF Publish, SlotAfter, FoldFailures, Counting
    <3>2. CASE result[r] # "ok"
      <4>1. Failed' = Failed \cup {r} /\ r \notin Failed
        BY <2>1, <3>2 DEF Failed, Published
      <4>2. failures' = failures + 1
        BY <1>5, <3>2 DEF Publish, SlotAfter, FoldFailures
      <4> QED
        BY <4>1, <4>2, FS_AddElement DEF Counting
    <3> QED
      BY <3>1, <3>2
  <2>6. \A c \in Callers : answer[c].failures <= failures'
    BY <1>A, <2>3 DEF Counting
  <2>7. \A q \in Published \cup {r} : snapshot'[q].failures <= failures'
    <3>1. \A q \in Published : snapshot[q].failures \in Nat
      BY <1>0 DEF Typing, TypeOK, Published, Snapshots
    <3> QED
      BY <2>3, <2>4, <3>1 DEF Counting
  <2>8. \A c \in Callers : \A q \in (Published \cup {r}) \ seen[c] :
          pc[c] # "idle" => answer[c].failures <= snapshot'[q].failures
    BY <2>4, <2>6 DEF Counting
  <2>9. NoDrop
    BY <1>A, <2>1
  <2> QED
    BY <1>0, <2>1, <2>5, <2>6, <2>7, <2>8, <2>9 DEF Counting
<1>6. CASE UNCHANGED vars
  <2>1. /\ UNCHANGED <<failures, answer, snapshot, pc, seen, phase, result>>
        /\ Failed' = Failed /\ Published' = Published
    BY <1>6 DEF vars, callerVars, sharedVars, runVars, Failed, Published
  <2> QED
    BY <1>0, <1>A, <2>1, SameCount
<1> QED
  BY <1>1, <1>2, <1>3, <1>4, <1>5, <1>6 DEF Next, Caller, Idle

(* The initial state counts no failures.                                   *)
LEMMA InitCounting == Init => Counting /\ Fresh
<1> SUFFICES ASSUME Init PROVE Counting /\ Fresh
  OBVIOUS
<1>1. Published = {} /\ Failed = {}
  BY DEF Init, Published, Failed
<1>2. failures = Cardinality(Failed) /\ IsFiniteSet(Failed)
  BY <1>1, FS_EmptySet DEF Init
<1>3. \A c \in Callers : answer[c].failures <= failures
  BY DEF Init, NoSnapshot, Empty
<1> QED
  BY <1>1, <1>2, <1>3, InitTyping
     DEF Init, Counting, Fresh, Knowledge, FreshResult

(* The counter counts each failed run exactly once.                        *)
THEOREM LiveFailuresExact == Spec => []FailuresExact
<1>1. Counting => FailuresExact
  BY DEF Counting, FailuresExact, Failed
<1>2. Counting /\ Fresh /\ [Next]_vars => Counting' /\ Fresh'
  BY StepCounting, StepFresh
<1> QED
  BY <1>1, <1>2, InitCounting, PTL DEF Spec

(* What a caller reads of the counter never goes down.                     *)
THEOREM LiveFailuresNeverDrop == Spec => FailuresNeverDrop
<1>1. Counting /\ Fresh /\ [Next]_vars => Counting' /\ Fresh'
  BY StepCounting, StepFresh
<1>2. Counting /\ Fresh /\ [Next]_vars =>
        [\A c \in Callers : answer'[c].failures >= answer[c].failures]_vars
  BY StepCounting
<1> QED
  BY <1>1, <1>2, InitCounting, PTL DEF Spec, FailuresNeverDrop

-----------------------------------------------------------------------------
(* A run whose query was cut short is over for good, and neither it nor a  *)
(* run that has called onFatal is querying any more.                       *)
CutShort ==
  /\ Typing
  /\ \A r \in cutShort : RunOver(r)
  /\ \A r \in cutShort \cup fatal : phase[r] \notin {"unused", "query"}
  /\ \A r \in fatal : phase[r] \in {"fold", "done"}
  /\ NoSelfInflictedShutdown

(* Every action keeps onFatal away from the runs cut short.                *)
LEMMA StepCutShort == CutShort /\ [Next]_vars => CutShort'
<1> SUFFICES ASSUME CutShort, [Next]_vars PROVE CutShort'
  OBVIOUS
<1>0. Typing /\ Typing'
  BY StepTyping DEF CutShort
<1> USE DEF CutShort, RunOver, NoSelfInflictedShutdown
<1>1. ASSUME NEW c \in Callers, Call(c) \/ RequestEnds(c) \/ Caller(c)
      PROVE  CutShort'
  <2>1. /\ UNCHANGED <<expired, fatal, cutShort>>
        /\ \A r \in Runs : cancelled[r] => cancelled'[r]
    BY <1>0, <1>1
       DEF Call, RequestEnds, Caller, Enter, JoinInflight, StartRun, Receive,
           Done, Leave, LastOut, LookAgain, NoResult, sharedVars, runVars,
           Typing, TypeOK
  <2>2. \A r \in Runs : phase[r] # "unused" => phase'[r] = phase[r]
    BY <1>0, <1>1
       DEF Call, RequestEnds, Caller, Enter, JoinInflight, StartRun, Receive,
           Done, Leave, LastOut, LookAgain, NoResult, Unused, sharedVars,
           runVars, Typing, TypeOK
  <2> QED
    BY <1>0, <2>1, <2>2 DEF Typing, TypeOK
<1>2. ASSUME NEW r \in Runs, Timeout(r) PROVE CutShort'
  BY <1>0, <1>2 DEF Timeout, Typing, TypeOK
<1>3. ASSUME NEW r \in Runs, QueryReturns(r) PROVE CutShort'
  BY <1>0, <1>3 DEF QueryReturns, Typing, TypeOK
<1>4. ASSUME NEW r \in Runs, Classify(r) PROVE CutShort'
  BY <1>0, <1>4 DEF Classify, FiresFatal, Typing, TypeOK
<1>5. ASSUME NEW r \in Runs, Publish(r) PROVE CutShort'
  BY <1>0, <1>5 DEF Publish, SlotAfter, Typing, TypeOK
<1>6. CASE UNCHANGED vars
  BY <1>0, <1>6 DEF vars, runVars
<1> QED
  BY <1>1, <1>2, <1>3, <1>4, <1>5, <1>6 DEF Next, Idle

(* A failure of the exporter's own making never shuts it down.             *)
THEOREM LiveNoSelfInflictedShutdown == Spec => []NoSelfInflictedShutdown
<1>1. Init => CutShort
  BY InitTyping DEF Init, CutShort, NoSelfInflictedShutdown
<1>2. CutShort => NoSelfInflictedShutdown
  BY DEF CutShort
<1> QED
  BY <1>1, <1>2, StepCutShort, PTL DEF Spec

-----------------------------------------------------------------------------
(* The refinement mapping.                                                 *)
Calling == {c \in Callers : pc[c] # "idle"}

(* The initial state is one of a Source.                                   *)
LEMMA InitMaps == Init => Abstract!Init
  BY DEF Init, Abstract!Init, Published, NoSnapshot, Empty,
         Abstract!NoSnapshot, Abstract!Empty

(* A step that neither begins, answers nor publishes anything stutters.    *)
LEMMA Stutters ==
  ASSUME UNCHANGED <<seen, snapshot, failures, lastOK, answer>>,
         Published' = Published, Calling' = Calling
  PROVE  UNCHANGED Abstract!vars
BY DEF Abstract!vars, Calling

(* Every step of the live source is one of a Source, or a stutter.         *)
LEMMA StepMaps == Fresh /\ [Next]_vars => [Abstract!Next]_(Abstract!vars)
<1> SUFFICES ASSUME Fresh, [Next]_vars
             PROVE  [Abstract!Next]_(Abstract!vars)
  OBVIOUS
<1>0. Typing
  BY DEF Fresh
<1>1. ASSUME NEW c \in Callers, Call(c) PROVE Abstract!Open(c)
  <2>1. c \notin Calling /\ Calling' = Calling \cup {c}
    BY <1>0, <1>1 DEF Call, Calling, Typing, TypeOK
  <2>2. Published' = Published
    BY <1>1 DEF Call, Published, runVars
  <2> QED
    BY <1>1, <2>1, <2>2 DEF Call, Abstract!Open, Calling, sharedVars, runVars
<1>2. ASSUME NEW c \in Callers,
             RequestEnds(c) \/ Enter(c) \/ JoinInflight(c) \/ Leave(c)
             \/ LookAgain(c)
      PROVE  UNCHANGED Abstract!vars
  <2>1. /\ UNCHANGED <<seen, snapshot, failures, lastOK, answer, phase>>
        /\ Published' = Published
    BY <1>2 DEF RequestEnds, Enter, JoinInflight, Leave, LastOut, LookAgain,
                Done, sharedVars, runVars, Published
  <2>2. Calling' = Calling
    BY <1>0, <1>2 DEF RequestEnds, Enter, JoinInflight, Leave, LastOut,
                      LookAgain, Done, Calling, Typing, TypeOK
  <2> QED
    BY <2>1, <2>2, Stutters
<1>3. ASSUME NEW c \in Callers, StartRun(c) PROVE UNCHANGED Abstract!vars
  <2>1. /\ UNCHANGED <<seen, snapshot, failures, lastOK, answer>>
        /\ Published' = Published /\ Calling' = Calling
    BY <1>0, <1>3 DEF StartRun, Unused, Published, Calling, Typing, TypeOK
  <2> QED
    BY <2>1, Stutters
<1>4. ASSUME NEW c \in Callers, NEW s, Return(c, s), pc[c] # "idle",
             UNCHANGED <<sharedVars, runVars>>
      PROVE  Abstract!Answer(c, s)
  <2>1. c \in Calling /\ Calling' = Calling \ {c}
    BY <1>0, <1>4 DEF Return, Calling, Typing, TypeOK
  <2>2. Published' = Published
    BY <1>4 DEF runVars, Published
  <2> QED
    BY <1>4, <2>1, <2>2
       DEF Return, Abstract!Answer, Calling, sharedVars, runVars
<1>5. ASSUME NEW c \in Callers, Receive(c) PROVE Abstract!AnswerWithRun(c)
  <2>1. on[c] \in Published \ seen[c]
    BY <1>0, <1>5 DEF Receive, Done, Fresh, Knowledge, FreshResult, Published,
                      Typing, JoinedRunStarted
  <2>2. PICK r, s : r = on[c] /\ s = snapshot[r]
    OBVIOUS
  <2>3. Abstract!Answer(c, s)
    BY <1>4, <1>5, <2>2 DEF Receive, Done
  <2> QED
    BY <2>1, <2>2, <2>3 DEF Abstract!AnswerWithRun, Abstract!Answer
<1>6. ASSUME NEW c \in Callers, NoResult(c) PROVE Abstract!AnswerEmpty(c)
  <2>1. PICK s : s = Empty(failures, lastOK)
    OBVIOUS
  <2>2. Abstract!Answer(c, s)
    BY <1>4, <1>6, <2>1 DEF NoResult
  <2> QED
    BY <2>1, <2>2
       DEF Abstract!AnswerEmpty, Abstract!Answer, Empty, Abstract!Empty
<1>7. ASSUME NEW r \in Runs, Timeout(r) \/ QueryReturns(r) \/ Classify(r)
      PROVE  UNCHANGED Abstract!vars
  <2>1. /\ UNCHANGED <<seen, snapshot, failures, lastOK, answer>>
        /\ Published' = Published /\ Calling' = Calling
    BY <1>0, <1>7 DEF Timeout, QueryReturns, Classify, callerVars, sharedVars,
                      Published, Calling, Typing, TypeOK
  <2> QED
    BY <2>1, Stutters
<1>8. ASSUME NEW r \in Runs, Publish(r) PROVE Abstract!End(r, result[r])
  <2>1. /\ r \notin Published /\ Published' = Published \cup {r}
        /\ Calling' = Calling
    BY <1>0, <1>8 DEF Publish, SlotAfter, Published, callerVars, Calling,
                      Typing, TypeOK
  <2>2. /\ failures' = Abstract!FoldFailures(result[r], failures)
        /\ IF result[r] = "ok" THEN lastOK' \in Nat ELSE lastOK' = lastOK
    BY <1>0, <1>8 DEF Publish, SlotAfter, FoldFailures, FoldLastOK, Typing,
                      TypeOK, Abstract!FoldFailures
  <2>3. snapshot' = [snapshot EXCEPT
          ![r] = Abstract!Outcome(r, result[r], failures', lastOK')]
    BY <1>8 DEF Publish, SlotAfter, Outcome, Abstract!Outcome
  <2> QED
    BY <1>8, <2>1, <2>2, <2>3
       DEF Abstract!End, Publish, SlotAfter, callerVars, Calling
<1>9. CASE UNCHANGED vars
  <2>1. /\ UNCHANGED <<seen, snapshot, failures, lastOK, answer>>
        /\ Published' = Published /\ Calling' = Calling
    BY <1>9 DEF vars, callerVars, sharedVars, runVars, Published, Calling
  <2> QED
    BY <2>1, Stutters
<1>10. ASSUME NEW r \in Runs, Publish(r) PROVE Abstract!Next
  <2>1. result[r] \in Abstract!QueryResults
    BY <1>0, <1>10 DEF Publish, SlotAfter, Typing, ResultKnown, QueryResults,
                       Abstract!QueryResults
  <2> QED
    BY <1>8, <1>10, <2>1 DEF Abstract!Next
<1> QED
  BY <1>1, <1>2, <1>3, <1>5, <1>6, <1>7, <1>9, <1>10
     DEF Next, Caller, Idle, Abstract!Next

(* The live source keeps what a Source promises: every call is answered    *)
(* with a collection published during it, or with the counters as they are.*)
THEOREM LiveImplementsSource == Spec => ImplementsSource
<1>1. Init => Abstract!Init /\ Fresh
  BY InitMaps, InitCounting
<1> QED
  BY <1>1, StepFresh, StepMaps, PTL DEF Spec, ImplementsSource, Abstract!Spec
=============================================================================
