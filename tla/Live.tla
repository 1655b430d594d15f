-------------------------------- MODULE Live --------------------------------
(***************************************************************************)
(* The live source: a scrape collects inline, and scrapes that arrive      *)
(* while a collection is running share it.  Callers are the concurrent     *)
(* Latest calls (HTTP scrapes), runs the flights with their goroutine.     *)
(* One action is one critical section of s.mu, one channel or context      *)
(* operation, or one return of the query.                                  *)
(***************************************************************************)
EXTENDS Collect, Integers, FiniteSets

CONSTANTS
  Callers,
  HasTimeout      \* TRUE when --collect-timeout bounds a run

ASSUME CallersAssumption == IsFiniteSet(Callers)
ASSUME HasTimeoutAssumption == HasTimeout \in BOOLEAN

VARIABLES
  pc,          \* where each caller is in Latest
  ctxOver,     \* has the caller's request context ended
  on,          \* the flight a caller has joined
  answer,      \* the last snapshot returned to a caller
  inflight,    \* s.inflight: the joinable flight, or NoRun
  failures,    \* s.failures
  lastOK,      \* s.lastOK
  phase,       \* where each flight's goroutine is
  waiters,     \* flight.waiters
  cancelled,   \* flight.cancel has been called
  expired,     \* the collection timeout has passed
  result,      \* what the flight's query returned
  stamp,       \* when a successful query returned
  snapshot,    \* flight.snapshot
  fatal,       \* the flights that have called onFatal
  clock        \* logical time of the last successful return

(* History, read by the properties only. *)
VARIABLES
  seen,        \* flights already published when a caller's call began
  cutShort     \* flights whose context was over when their query returned

callerVars == <<pc, ctxOver, on, answer, seen>>
sharedVars == <<inflight, failures, lastOK>>
runVars    == <<phase, cancelled, expired, result, stamp, snapshot, fatal,
                clock, cutShort>>
vars == <<callerVars, sharedVars, runVars, waiters>>

PCs    == {"idle", "enter", "join", "wait", "left", "empty"}
Phases == {"unused", "query", "returned", "fold", "done"}

Unused    == {r \in Runs : phase[r] = "unused"}
Published == {r \in Runs : phase[r] = "done"}

(* The context the query runs under: cancelled or past its deadline.       *)
RunOver(r) == cancelled[r] \/ expired[r]

Init ==
  /\ pc = [c \in Callers |-> "idle"]
  /\ ctxOver = [c \in Callers |-> FALSE]
  /\ on = [c \in Callers |-> NoRun]
  /\ answer = [c \in Callers |-> NoSnapshot]
  /\ seen = [c \in Callers |-> {}]
  /\ inflight = NoRun
  /\ failures = 0
  /\ lastOK = 0
  /\ phase = [r \in Runs |-> "unused"]
  /\ waiters = [r \in Runs |-> 0]
  /\ cancelled = [r \in Runs |-> FALSE]
  /\ expired = [r \in Runs |-> FALSE]
  /\ result = [r \in Runs |-> "none"]
  /\ stamp = [r \in Runs |-> 0]
  /\ snapshot = [r \in Runs |-> NoSnapshot]
  /\ fatal = {}
  /\ clock = 0
  /\ cutShort = {}

-----------------------------------------------------------------------------
(* The callers.                                                            *)

(* Bound: a call begins only when, should every open call start a run of   *)
(* its own, there are runs left.  It keeps join from blocking.             *)
RunsLeft ==
  Cardinality(Unused)
    > Cardinality({c \in Callers : pc[c] \in {"enter", "join"}})

(* A scrape calls Latest; its request may be over already.                 *)
Call(c) ==
  /\ pc[c] = "idle"
  /\ RunsLeft
  /\ pc' = [pc EXCEPT ![c] = "enter"]
  /\ \E over \in BOOLEAN : ctxOver' = [ctxOver EXCEPT ![c] = over]
  /\ seen' = [seen EXCEPT ![c] = Published]
  /\ UNCHANGED <<on, answer, sharedVars, runVars, waiters>>

(* The scraper disconnects or its deadline passes.                         *)
RequestEnds(c) ==
  /\ pc[c] # "idle"
  /\ ~ctxOver[c]
  /\ ctxOver' = [ctxOver EXCEPT ![c] = TRUE]
  /\ UNCHANGED <<pc, on, answer, seen, sharedVars, runVars, waiters>>

(* The ctx.Err check at the top of Latest.                                 *)
Enter(c) ==
  /\ pc[c] = "enter"
  /\ pc' = [pc EXCEPT ![c] = IF ctxOver[c] THEN "empty" ELSE "join"]
  /\ UNCHANGED <<ctxOver, on, answer, seen, sharedVars, runVars, waiters>>

(* join, in one critical section: the run in flight, or a fresh one.       *)
JoinInflight(c) ==
  /\ pc[c] = "join"
  /\ inflight # NoRun
  /\ on' = [on EXCEPT ![c] = inflight]
  /\ waiters' = [waiters EXCEPT ![inflight] = @ + 1]
  /\ pc' = [pc EXCEPT ![c] = "wait"]
  /\ UNCHANGED <<ctxOver, answer, seen, sharedVars, runVars>>

StartRun(c) ==
  /\ pc[c] = "join"
  /\ inflight = NoRun
  /\ \E r \in Unused :
       /\ phase' = [phase EXCEPT ![r] = "query"]
       /\ inflight' = r
       /\ on' = [on EXCEPT ![c] = r]
       /\ waiters' = [waiters EXCEPT ![r] = @ + 1]
  /\ pc' = [pc EXCEPT ![c] = "wait"]
  /\ UNCHANGED <<ctxOver, answer, seen, failures, lastOK, cancelled, expired,
                 result, stamp, snapshot, fatal, clock, cutShort>>

(* Latest returns; the call's context and its flight are forgotten.        *)
Return(c, s) ==
  /\ answer' = [answer EXCEPT ![c] = s]
  /\ pc' = [pc EXCEPT ![c] = "idle"]
  /\ on' = [on EXCEPT ![c] = NoRun]
  /\ ctxOver' = [ctxOver EXCEPT ![c] = FALSE]
  /\ seen' = [seen EXCEPT ![c] = {}]

(* Faults: done is closed before the fold, or only after a success.        *)
FaultDoneEarly(r) == phase[r] \in {"fold", "done"}
FaultDoneOnSuccess(r) == phase[r] = "done" /\ result[r] = "ok"

Done(r) == phase[r] = "done"

(* The flight is done: its snapshot is read without a lock.                *)
Receive(c) ==
  /\ pc[c] \in {"wait", "left"}
  /\ Done(on[c])
  /\ Return(c, snapshot[on[c]])
  /\ UNCHANGED <<sharedVars, runVars, waiters>>

(* Faults: nobody, or anybody, is taken for the last waiter.               *)
FaultNobodyLast(c) == FALSE
FaultAnybodyLast(c) == inflight = on[c]

LastOut(c) == waiters[on[c]] = 1 /\ inflight = on[c]

(* leave: the last waiter out cancels the run and frees the joinable slot. *)
Leave(c) ==
  /\ pc[c] = "wait"
  /\ ctxOver[c]
  /\ waiters' = [waiters EXCEPT ![on[c]] = @ - 1]
  /\ pc' = [pc EXCEPT ![c] = "left"]
  /\ IF LastOut(c)
       THEN /\ cancelled' = [cancelled EXCEPT ![on[c]] = TRUE]
            /\ inflight' = NoRun
       ELSE UNCHANGED <<cancelled, inflight>>
  /\ UNCHANGED <<ctxOver, on, answer, seen, failures, lastOK, phase, expired,
                 result, stamp, snapshot, fatal, clock, cutShort>>

(* Fault: the second look has no default case, and blocks.                 *)
FaultLookBlocks(c) ==
  /\ pc[c] = "left"
  /\ Done(on[c])
  /\ pc' = [pc EXCEPT ![c] = "empty"]
  /\ UNCHANGED <<ctxOver, on, answer, seen, sharedVars, runVars, waiters>>

(* The second look at done, after leave has released the lock.             *)
LookAgain(c) ==
  /\ pc[c] = "left"
  /\ ~Done(on[c])
  /\ pc' = [pc EXCEPT ![c] = "empty"]
  /\ UNCHANGED <<ctxOver, on, answer, seen, sharedVars, runVars, waiters>>

(* noResult, in its own critical section.                                  *)
NoResult(c) ==
  /\ pc[c] = "empty"
  /\ Return(c, Empty(failures, lastOK))
  /\ UNCHANGED <<sharedVars, runVars, waiters>>

-----------------------------------------------------------------------------
(* The flights' goroutines.                                                *)

(* The deadline that withOptionalTimeout puts on the query.                *)
Timeout(r) ==
  /\ HasTimeout
  /\ phase[r] \in {"query", "returned"}
  /\ ~expired[r]
  /\ expired' = [expired EXCEPT ![r] = TRUE]
  /\ UNCHANGED <<callerVars, sharedVars, waiters, phase, cancelled, result,
                 stamp, snapshot, fatal, clock, cutShort>>

(* The query returns, in any way, whatever has become of its context.      *)
QueryReturns(r) ==
  /\ phase[r] = "query"
  /\ phase' = [phase EXCEPT ![r] = "returned"]
  /\ \E res \in QueryResults :
       /\ result' = [result EXCEPT ![r] = res]
       /\ IF res = "ok"
            THEN /\ clock' = clock + 1
                 /\ stamp' = [stamp EXCEPT ![r] = clock + 1]
            ELSE UNCHANGED <<clock, stamp>>
  /\ cutShort' = IF RunOver(r) THEN cutShort \cup {r} ELSE cutShort
  /\ UNCHANGED <<callerVars, sharedVars, waiters, cancelled, expired,
                 snapshot, fatal>>

(* collectOnce looks at its context, calls onFatal if it must, and ends;   *)
(* its deferred cancel releases the deadline.                              *)
Classify(r) ==
  /\ phase[r] = "returned"
  /\ phase' = [phase EXCEPT ![r] = "fold"]
  /\ fatal' = IF FiresFatal(result[r], RunOver(r)) THEN fatal \cup {r}
                                                   ELSE fatal
  /\ UNCHANGED <<callerVars, sharedVars, waiters, cancelled, expired, result,
                 stamp, snapshot, clock, cutShort>>

(* Faults: a run that ends frees a slot that is no longer its own, or      *)
(* keeps its own.                                                          *)
FaultFreeAnySlot(r) == NoRun
FaultKeepSlot(r) == inflight

SlotAfter(r) == IF inflight = r THEN NoRun ELSE inflight

(* The locked transition that ends a run: fold, free the slot, publish.    *)
Publish(r) ==
  /\ phase[r] = "fold"
  /\ failures' = FoldFailures(result[r], failures)
  /\ lastOK' = FoldLastOK(result[r], stamp[r], lastOK)
  /\ inflight' = SlotAfter(r)
  /\ snapshot' = [snapshot EXCEPT
                    ![r] = Outcome(r, result[r], failures', lastOK')]
  /\ phase' = [phase EXCEPT ![r] = "done"]
  /\ cancelled' = [cancelled EXCEPT ![r] = TRUE]   \* defer shared.cancel()
  /\ UNCHANGED <<callerVars, waiters, expired, result, stamp, fatal, clock,
                 cutShort>>

-----------------------------------------------------------------------------
Caller(c) ==
  \/ Enter(c) \/ JoinInflight(c) \/ StartRun(c) \/ Receive(c)
  \/ Leave(c) \/ LookAgain(c) \/ NoResult(c)

(* Nothing runs and nobody waits: the source is idle, and stays so when    *)
(* the bound on runs admits no further call.                               *)
Idle ==
  /\ \A c \in Callers : pc[c] = "idle"
  /\ \A r \in Runs : phase[r] \in {"unused", "done"}
  /\ UNCHANGED vars

Next ==
  \/ \E c \in Callers : Call(c) \/ RequestEnds(c) \/ Caller(c)
  \/ \E r \in Runs :
       Timeout(r) \/ QueryReturns(r) \/ Classify(r) \/ Publish(r)
  \/ Idle

Spec == Init /\ [][Next]_vars

(* Goroutines are scheduled; nothing says that a query ever returns (a     *)
(* wedged driver call, an nvidia-smi stuck in the kernel) or that a        *)
(* scraper ever disconnects.                                               *)
SchedulerFairness ==
  /\ \A c \in Callers : WF_vars(Caller(c))
  /\ \A r \in Runs : WF_vars(Classify(r)) /\ WF_vars(Publish(r))

FairSpec == Spec /\ SchedulerFairness

-----------------------------------------------------------------------------
TypeOK ==
  /\ pc \in [Callers -> PCs]
  /\ ctxOver \in [Callers -> BOOLEAN]
  /\ on \in [Callers -> Runs \cup {NoRun}]
  /\ answer \in [Callers -> Snapshots]
  /\ seen \in [Callers -> SUBSET Runs]
  /\ inflight \in Runs \cup {NoRun}
  /\ failures \in Nat
  /\ lastOK \in Nat
  /\ phase \in [Runs -> Phases]
  /\ waiters \in [Runs -> Int]
  /\ cancelled \in [Runs -> BOOLEAN]
  /\ expired \in [Runs -> BOOLEAN]
  /\ result \in [Runs -> QueryResults \cup {"none"}]
  /\ stamp \in [Runs -> Nat]
  /\ snapshot \in [Runs -> Snapshots]
  /\ fatal \in SUBSET Runs
  /\ clock \in Nat
  /\ cutShort \in SUBSET Runs

Running == {r \in Runs : phase[r] \in {"query", "returned", "fold"}}

WaitingOn(r) == {c \in Callers : pc[c] = "wait" /\ on[c] = r}

(* The number of collections does not grow with the number of scrapers:    *)
(* however calls, departures and ends interleave, at most one run that     *)
(* has not been cancelled is going on, and it is the joinable one.         *)
OneLiveRun == \A r \in Running : ~cancelled[r] => inflight = r

(* The run a scrape may join is going on, has not been cancelled, and is   *)
(* wanted: the waiter count is exactly the callers blocked on it.  (A run  *)
(* abandoned by its last waiter never poisons a later scrape.)             *)
JoinableRunIsWanted ==
  inflight # NoRun =>
    /\ inflight \in Running
    /\ ~cancelled[inflight]
    /\ waiters[inflight] = Cardinality(WaitingOn(inflight))
    /\ waiters[inflight] > 0

(* A caller giving up never takes the run away from those still waiting:   *)
(* what a caller waits on is the run in flight or has been published.      *)
NoWaiterStranded ==
  \A c \in Callers :
    pc[c] = "wait" => on[c] = inflight \/ phase[on[c]] = "done"

(* A call is never given a collection that ended before the call began.    *)
FreshResult ==
  \A c \in Callers : pc[c] \in {"wait", "left"} => on[c] \notin seen[c]

(* The failure counter counts each failed run exactly once, however many   *)
(* callers shared it and whether or not it was abandoned.                  *)
FailuresExact ==
  failures = Cardinality({r \in Published : result[r] # "ok"})

(* A query that failed because this exporter cancelled or timed it out     *)
(* never shuts the exporter down.                                          *)
NoSelfInflictedShutdown == fatal \cap cutShort = {}

(* The failure counter one scraper reads never goes down from one of its   *)
(* scrapes to the next, whether they are given a run or no result.         *)
FailuresNeverDrop ==
  [][\A c \in Callers : answer'[c].failures >= answer[c].failures]_vars

(* Contradicted by the code, see the README: the last-success time is the  *)
(* completion time of the most recent success.                             *)
LastSuccessIsMostRecent ==
  \A r \in Published : result[r] = "ok" => stamp[r] <= lastOK

(* A scrape whose request is over is answered, even while the query it     *)
(* waits for is wedged.                                                    *)
AbandonedCallEnds ==
  \A c \in Callers :
    (pc[c] # "idle" /\ ctxOver[c]) ~> pc[c] = "idle"

(* As long as queries return, every scrape is answered, also one that      *)
(* joins late, shares a run that fails, or leaves it.                      *)
EveryCallEnds ==
  (\A r \in Runs : WF_vars(QueryReturns(r))) =>
    \A c \in Callers : pc[c] # "idle" ~> pc[c] = "idle"

(* The live source keeps the promise of a Source.                          *)
Abstract == INSTANCE Source
  WITH open      <- {c \in Callers : pc[c] # "idle"},
       known     <- seen,
       published <- Published,
       outcome   <- snapshot

ImplementsSource == Abstract!Spec
=============================================================================
