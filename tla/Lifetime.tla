------------------------------ MODULE Lifetime ------------------------------
(***************************************************************************)
(* What the process owes whoever started it: it ends once it has been      *)
(* asked to or cannot go on, and its exit status tells the two apart.  A   *)
(* service may take a request that arrives beside a failure for the reason *)
(* of its end; a process in the foreground may not.                        *)
(***************************************************************************)
EXTENDS Naturals

CONSTANT NotYet

VARIABLES
  asked,      \* somebody has asked the exporter to stop
  failed,     \* something has failed for good
  endedBy,    \* what its end began with
  service,    \* is this a service
  exit        \* the exit status

vars == <<asked, failed, endedBy, service, exit>>

Init ==
  /\ asked = FALSE
  /\ failed = FALSE
  /\ endedBy = "none"
  /\ service \in BOOLEAN
  /\ exit = NotYet

Ask ==
  /\ ~asked
  /\ asked' = TRUE
  /\ endedBy' \in {endedBy, IF endedBy = "none" THEN "request" ELSE endedBy}
  /\ UNCHANGED <<failed, service, exit>>

Heed ==
  /\ asked /\ endedBy = "none"
  /\ endedBy' = "request"
  /\ UNCHANGED <<asked, failed, service, exit>>

(* Something fails, which need not be the end of the exporter.             *)
Fail ==
  /\ exit = NotYet
  /\ failed' = TRUE
  /\ endedBy' \in {endedBy, IF endedBy = "none" THEN "failure" ELSE endedBy}
  /\ UNCHANGED <<asked, service, exit>>

GiveUp ==
  /\ failed /\ endedBy = "none"
  /\ endedBy' = "failure"
  /\ UNCHANGED <<asked, failed, service, exit>>

ExitWell ==
  /\ exit = NotYet
  /\ endedBy = "request" \/ (service /\ asked /\ endedBy # "none")
  /\ exit' = 0
  /\ UNCHANGED <<asked, failed, endedBy, service>>

ExitBadly ==
  /\ exit = NotYet
  /\ failed /\ endedBy # "none"
  /\ exit' = 1
  /\ UNCHANGED <<asked, failed, endedBy, service>>

Next == Ask \/ Heed \/ Fail \/ GiveUp \/ ExitWell \/ ExitBadly

Spec ==
  /\ Init /\ [][Next]_vars
  /\ WF_vars(Heed)
  /\ WF_vars(ExitWell \/ ExitBadly)
=============================================================================
