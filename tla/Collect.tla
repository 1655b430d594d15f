------------------------------ MODULE Collect ------------------------------
(***************************************************************************)
(* What the two collection sources (Live and Cached) share: the snapshot   *)
(* a scrape is given, the outcome of one query, the fold of an outcome     *)
(* into the cumulative health counters, and the decision to shut the       *)
(* exporter down.  Times are stamps of a logical clock, zero being the     *)
(* zero time.  The data of a snapshot is abstracted to the run that        *)
(* produced it.                                                            *)
(***************************************************************************)
EXTENDS Naturals

CONSTANTS
  Runs,           \* the collection runs
  NoRun,          \* stands for "no data": a nil table
  FatalArmed      \* TRUE when --shutdown-on-error installs an onFatal

ASSUME NoRunAssumption == NoRun \notin Runs
ASSUME FatalArmedAssumption == FatalArmed \in BOOLEAN

(* How a query ends: without error, with an error of the fatal class (an   *)
(* exec.ExitError or a FatalError), or with any other error.               *)
QueryResults == {"ok", "fatal", "other"}

Snapshots ==
  [attempted : BOOLEAN, success : BOOLEAN, data : Runs \cup {NoRun},
   failures : Nat, lastSuccess : Nat]

(* Fault: no result means a zero snapshot.                                 *)
FaultZeroed(failures, lastOK) ==
  [attempted |-> FALSE, success |-> FALSE, data |-> NoRun,
   failures |-> 0, lastSuccess |-> 0]

(* No data and no attempt, with the health state carried over.             *)
Empty(failures, lastOK) ==
  [attempted |-> FALSE, success |-> FALSE, data |-> NoRun,
   failures |-> failures, lastSuccess |-> lastOK]

NoSnapshot == Empty(0, 0)

(* Faults: failures other than the fatal ones are not counted; a failure   *)
(* forgets the last success.                                               *)
FaultOnlyFatalCounts(result, failures) ==
  IF result = "fatal" THEN failures + 1 ELSE failures
FaultLastOKForgotten(result, stamp, lastOK) ==
  IF result = "ok" THEN stamp ELSE 0

(* The two cumulative counters after an outcome has been folded in.        *)
FoldFailures(result, failures) ==
  IF result = "ok" THEN failures ELSE failures + 1

FoldLastOK(result, stamp, lastOK) ==
  IF result = "ok" THEN stamp ELSE lastOK

(* The snapshot of a finished run, the counters already folded.            *)
Outcome(run, result, failures, lastOK) ==
  [attempted |-> TRUE, success |-> result = "ok",
   data |-> IF result = "ok" THEN run ELSE NoRun,
   failures |-> failures, lastSuccess |-> lastOK]

(* Fault: the end of the collection's own context is not looked at.        *)
FaultFiresAnyway(result, ctxOver) == FatalArmed /\ result = "fatal"

(* onFatal runs only for a genuine failure: never once the collection's    *)
(* own context is over.                                                    *)
FiresFatal(result, ctxOver) ==
  /\ FatalArmed
  /\ result = "fatal"
  /\ ~ctxOver
=============================================================================
