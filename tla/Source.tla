------------------------------- MODULE Source -------------------------------
(***************************************************************************)
(* What a synchronous Source promises its callers.  A call is answered     *)
(* either with the outcome of a collection that was published during the   *)
(* call, or, with no data, with the health counters as they are at that    *)
(* moment.  Each collection is published once, and moves one counter.      *)
(***************************************************************************)
EXTENDS Collect

CONSTANT Callers

VARIABLES
  open,        \* the calls that have not been answered
  known,       \* what was published before each caller's call began
  published,   \* the collections that have ended
  outcome,     \* and their snapshots
  failures, lastOK,
  answer       \* the last snapshot each caller was given

vars == <<open, known, published, outcome, failures, lastOK, answer>>

Init ==
  /\ open = {}
  /\ known = [c \in Callers |-> {}]
  /\ published = {}
  /\ outcome = [r \in Runs |-> NoSnapshot]
  /\ failures = 0
  /\ lastOK = 0
  /\ answer = [c \in Callers |-> NoSnapshot]

Open(c) ==
  /\ c \notin open
  /\ open' = open \cup {c}
  /\ known' = [known EXCEPT ![c] = published]
  /\ UNCHANGED <<published, outcome, failures, lastOK, answer>>

(* A collection ends, having returned res; a success may carry any time.   *)
End(r, res) ==
  /\ r \notin published
  /\ published' = published \cup {r}
  /\ failures' = FoldFailures(res, failures)
  /\ IF res = "ok" THEN lastOK' \in Nat ELSE UNCHANGED lastOK
  /\ outcome' = [outcome EXCEPT ![r] = Outcome(r, res, failures', lastOK')]
  /\ UNCHANGED <<open, known, answer>>

Answer(c, s) ==
  /\ c \in open
  /\ open' = open \ {c}
  /\ answer' = [answer EXCEPT ![c] = s]
  /\ known' = [known EXCEPT ![c] = {}]
  /\ UNCHANGED <<published, outcome, failures, lastOK>>

AnswerWithRun(c) ==
  \E r \in published \ known[c] : Answer(c, outcome[r])

AnswerEmpty(c) == Answer(c, Empty(failures, lastOK))

Next ==
  \/ \E c \in Callers : Open(c) \/ AnswerWithRun(c) \/ AnswerEmpty(c)
  \/ \E r \in Runs, res \in QueryResults : End(r, res)

Spec == Init /\ [][Next]_vars
=============================================================================
