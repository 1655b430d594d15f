------------------------------- MODULE Cached -------------------------------
(***************************************************************************)
(* The background source: one ticker loop collects and publishes immutable *)
(* snapshots through an atomic pointer, scrapes read whatever is current   *)
(* without a lock and without waiting.  Runners are the goroutines that    *)
(* call Run (only one of them may go on), readers the scrapes in Latest.   *)
(* A run is one tick; it stands for the Snapshot that tick allocates, so   *)
(* the pointer cur is a run and the memory it points to is snapshot[cur].  *)
(***************************************************************************)
EXTENDS Collect, FiniteSets

CONSTANTS
  Runners, Readers,
  HasTimeout      \* TRUE when --collect-timeout bounds a run

ASSUME CachedFlagAssumption == HasTimeout \in BOOLEAN

VARIABLES
  started,     \* s.started
  pc,          \* where each runner is
  run,         \* the tick each runner is in
  ticked,      \* a tick waits in the ticker's channel (of capacity one)
  ctxDone,     \* the application's context is over
  expired,     \* the collection timeout of the current tick has passed
  result,      \* what the query of each tick returned
  snapshot,    \* the memory of each snapshot
  cur,         \* s.cur, NoRun for nil
  failures,    \* s.failures
  lastOK,      \* s.lastOK
  clock,       \* logical time of the last successful return
  fatal,       \* the ticks that have called onFatal
  at,          \* the pointer each reader has loaded
  answer,      \* the last snapshot returned to a reader
  (* History. *)
  reading,     \* the readers between the load and the copy
  used,        \* the ticks so far
  ended,       \* the ticks published, in no order
  cutShort     \* ticks whose context was over when their query returned

readerVars == <<at, answer, reading>>
tickVars   == <<expired, result, snapshot, failures, lastOK, clock, fatal>>
vars == <<started, pc, run, ticked, ctxDone, cur, tickVars, readerVars, used,
          ended, cutShort>>

PCs == {"new", "begin", "query", "returned", "fold", "store", "select",
        "rejected", "stopped"}
Ticking == {"query", "returned", "fold", "store"}

Init ==
  /\ started = FALSE
  /\ pc = [g \in Runners |-> "new"]
  /\ run = [g \in Runners |-> NoRun]
  /\ ticked = FALSE
  /\ ctxDone = FALSE
  /\ expired = FALSE
  /\ result = [r \in Runs |-> "none"]
  /\ snapshot = [r \in Runs |-> NoSnapshot]
  /\ cur = NoRun
  /\ failures = 0 /\ lastOK = 0 /\ clock = 0
  /\ fatal = {}
  /\ at = [d \in Readers |-> NoRun]
  /\ answer = [d \in Readers |-> NoSnapshot]
  /\ reading = {}
  /\ used = {} /\ ended = {} /\ cutShort = {}

-----------------------------------------------------------------------------
(* Fault: Run does not look at started.                                    *)
FaultAlwaysStarts == TRUE

(* The compare-and-swap that makes Run single-use.                         *)
MayStart == ~started

Start(g) ==
  /\ pc[g] = "new"
  /\ started' = TRUE
  /\ pc' = [pc EXCEPT ![g] = IF MayStart THEN "begin" ELSE "rejected"]
  /\ UNCHANGED <<run, ticked, ctxDone, cur, tickVars, readerVars, used, ended,
                 cutShort>>

(* tick calls collectOnce, which calls the query; the tick that warms the  *)
(* cache needs no ticker.  Bound: as many ticks as there are runs.         *)
BeginTick(g) ==
  /\ pc[g] \in {"begin", "select"}
  /\ pc[g] = "select" => ticked
  /\ ticked' = FALSE
  /\ \E r \in Runs \ used :
       /\ run' = [run EXCEPT ![g] = r]
       /\ used' = used \cup {r}
  /\ pc' = [pc EXCEPT ![g] = "query"]
  /\ expired' = FALSE
  /\ UNCHANGED <<started, ctxDone, cur, result, snapshot, failures, lastOK,
                 clock, fatal, readerVars, ended, cutShort>>

(* The select in Run: with a tick pending too, either case may be taken.   *)
StopRun(g) ==
  /\ pc[g] = "select"
  /\ ctxDone
  /\ pc' = [pc EXCEPT ![g] = "stopped"]
  /\ UNCHANGED <<started, run, ticked, ctxDone, cur, tickVars, readerVars,
                 used, ended, cutShort>>

(* The ticker fires; it drops what the loop is too slow to take.           *)
TickerFires ==
  /\ ~ticked
  /\ Runs \ used # {}
  /\ \E g \in Runners : pc[g] \in Ticking \cup {"select"} /\ cur # NoRun
  /\ ticked' = TRUE
  /\ UNCHANGED <<started, pc, run, ctxDone, cur, tickVars, readerVars, used,
                 ended, cutShort>>

Timeout ==
  /\ HasTimeout /\ ~expired
  /\ \E g \in Runners : pc[g] \in {"query", "returned"}
  /\ expired' = TRUE
  /\ UNCHANGED <<started, pc, run, ticked, ctxDone, cur, result, snapshot,
                 failures, lastOK, clock, fatal, readerVars, used, ended,
                 cutShort>>

Stop ==
  /\ ~ctxDone
  /\ ctxDone' = TRUE
  /\ UNCHANGED <<started, pc, run, ticked, cur, tickVars, readerVars, used,
                 ended, cutShort>>

RunOver == ctxDone \/ expired

QueryReturns(g) ==
  /\ pc[g] = "query"
  /\ pc' = [pc EXCEPT ![g] = "returned"]
  /\ \E res \in QueryResults :
       /\ result' = [result EXCEPT ![run[g]] = res]
       /\ clock' = IF res = "ok" THEN clock + 1 ELSE clock
  /\ cutShort' = IF RunOver THEN cutShort \cup {run[g]} ELSE cutShort
  /\ UNCHANGED <<started, run, ticked, ctxDone, cur, expired, snapshot,
                 failures, lastOK, fatal, readerVars, used, ended>>

(* The rest of collectOnce.  Its context is looked at again.               *)
Classify(g) ==
  /\ pc[g] = "returned"
  /\ pc' = [pc EXCEPT ![g] = "fold"]
  /\ fatal' = IF FiresFatal(result[run[g]], RunOver)
                THEN fatal \cup {run[g]} ELSE fatal
  /\ UNCHANGED <<started, run, ticked, ctxDone, cur, expired, result, snapshot,
                 failures, lastOK, clock, readerVars, used, ended, cutShort>>

(* Fault: the published snapshot is updated in place.                      *)
FaultInPlace(g) == IF cur = NoRun THEN run[g] ELSE cur

(* The snapshot a tick works on, memory of its own.                        *)
Own(g) == run[g]

(* foldCumulative, before the Store.                                       *)
Fold(g) ==
  /\ pc[g] = "fold"
  /\ LET r == run[g]
     IN  /\ failures' = FoldFailures(result[r], failures)
         /\ lastOK' = FoldLastOK(result[r], clock, lastOK)
         /\ snapshot' =
              [snapshot EXCEPT
                 ![Own(g)] = Outcome(r, result[r], failures', lastOK')]
  /\ pc' = [pc EXCEPT ![g] = "store"]
  /\ UNCHANGED <<started, run, ticked, ctxDone, cur, expired, result, clock,
                 fatal, readerVars, used, ended, cutShort>>

Store(g) ==
  /\ pc[g] = "store"
  /\ cur' = run[g]
  /\ ended' = ended \cup {run[g]}
  /\ pc' = [pc EXCEPT ![g] = "select"]
  /\ run' = [run EXCEPT ![g] = NoRun]
  /\ UNCHANGED <<started, ticked, ctxDone, tickVars, readerVars, used,
                 cutShort>>

-----------------------------------------------------------------------------
(* Latest: the atomic load, then the copy of what it points to.            *)
Load(d) ==
  /\ d \notin reading
  /\ reading' = reading \cup {d}
  /\ at' = [at EXCEPT ![d] = cur]
  /\ UNCHANGED <<started, pc, run, ticked, ctxDone, cur, tickVars, answer,
                 used, ended, cutShort>>

Copy(d) ==
  /\ d \in reading
  /\ reading' = reading \ {d}
  /\ answer' = [answer EXCEPT
                  ![d] = IF at[d] = NoRun THEN NoSnapshot ELSE snapshot[at[d]]]
  /\ UNCHANGED <<started, pc, run, ticked, ctxDone, cur, tickVars, at, used,
                 ended, cutShort>>

-----------------------------------------------------------------------------
TickStep(g) ==
  BeginTick(g) \/ Classify(g) \/ Fold(g) \/ Store(g)

Next ==
  \/ \E g \in Runners :
       Start(g) \/ TickStep(g) \/ QueryReturns(g) \/ StopRun(g)
  \/ TickerFires \/ Timeout \/ Stop
  \/ \E d \in Readers : Load(d) \/ Copy(d)

Spec == Init /\ [][Next]_vars

-----------------------------------------------------------------------------
TypeOK ==
  /\ started \in BOOLEAN
  /\ pc \in [Runners -> PCs]
  /\ run \in [Runners -> Runs \cup {NoRun}]
  /\ ticked \in BOOLEAN
  /\ ctxDone \in BOOLEAN
  /\ expired \in BOOLEAN
  /\ result \in [Runs -> QueryResults \cup {"none"}]
  /\ snapshot \in [Runs -> Snapshots]
  /\ cur \in Runs \cup {NoRun}
  /\ failures \in Nat
  /\ lastOK \in Nat
  /\ clock \in Nat
  /\ fatal \subseteq Runs
  /\ at \in [Readers -> Runs \cup {NoRun}]
  /\ answer \in [Readers -> Snapshots]
  /\ reading \subseteq Readers
  /\ used \subseteq Runs
  /\ ended \subseteq used
  /\ cutShort \subseteq used

(* Exactly one collection is in flight at a time, whoever calls Run.       *)
OneCollectionInFlight ==
  \A g, h \in Runners : pc[g] \in Ticking /\ pc[h] \in Ticking => g = h

(* What is published is the complete account of every tick up to then: the *)
(* failures it carries are the ticks that failed, each counted once.       *)
PublishedIsComplete ==
  cur # NoRun =>
    /\ cur \in ended
    /\ snapshot[cur].attempted
    /\ snapshot[cur].failures = Cardinality({r \in ended : result[r] # "ok"})

(* A scraper never travels back in time: from one of its scrapes to the    *)
(* next, neither counter goes down, and collected data is not replaced by  *)
(* a not-ready snapshot; torn between the load and the copy included.      *)
ReadersNeverGoBack ==
  [][\A d \in Readers :
       /\ answer'[d].failures >= answer[d].failures
       /\ answer'[d].lastSuccess >= answer[d].lastSuccess
       /\ answer[d].attempted => answer'[d].attempted]_vars

(* Memory a reader may have a pointer to is never written again.           *)
PublishedIsImmutable ==
  [][\A r \in ended : snapshot'[r] = snapshot[r]]_vars

(* The collection cut short by the end of the application's context, or by *)
(* its own timeout, never fires shutdown-on-error.                         *)
NoSelfInflictedShutdown == fatal \cap cutShort = {}
=============================================================================
