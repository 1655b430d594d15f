------------------------------- MODULE Process ------------------------------
(***************************************************************************)
(* The process around the application: in the foreground a signal ends the *)
(* context of Run and main turns its error into the exit status; under the *)
(* Windows service manager Execute runs it in a goroutine, answers the     *)
(* control requests and reports the exit code of the service.              *)
(***************************************************************************)
EXTENDS App

CONSTANT NotYet

VARIABLES
  service,   \* where Execute is; "none" in the foreground
  asked,     \* a signal, or a stop request, or the end of the requests
  exit       \* the exit status, or that of the service

vars == <<appVars, service, asked, exit>>

Init ==
  /\ AppInit
  /\ service \in {"none", "startPending"}
  /\ asked = FALSE
  /\ exit = NotYet

Foreground == service = "none"

(* NotifyContext cancels the context with a cause that is context.Canceled *)
(* to errors.Is.                                                           *)
Signal ==
  /\ Foreground /\ ~asked /\ Alive
  /\ asked' = TRUE
  /\ CancelContext
  /\ UNCHANGED <<flags, run, outcome, group, first, watching, serveVars,
                 closed, reqVars, failed, service, exit>>

(* main, with the exit code of the command where there is one, never 0.    *)
MainExits ==
  /\ Foreground /\ run = "returned" /\ exit = NotYet
  /\ exit' = IF outcome = "nil" THEN 0 ELSE 1
  /\ UNCHANGED <<appVars, service, asked>>

-----------------------------------------------------------------------------
(* Execute.                                                                *)

ReportRunning ==
  /\ service = "startPending"
  /\ service' = "running"
  /\ UNCHANGED <<appVars, asked, exit>>

(* The service manager sends a request, or closes their channel.           *)
RequestStop ==
  /\ service \in {"startPending", "running"} /\ ~asked
  /\ asked' = TRUE
  /\ UNCHANGED <<appVars, service, exit>>

StopReceived ==
  /\ service = "running" /\ asked
  /\ service' = "stopPending"
  /\ CancelContext
  /\ UNCHANGED <<flags, run, outcome, group, first, watching, serveVars,
                 closed, reqVars, failed, asked, exit>>

EndsByItself ==
  /\ service = "running" /\ run = "returned"
  /\ service' = "stopped"
  /\ exit' = IF outcome = "nil" THEN 0 ELSE 1
  /\ UNCHANGED <<appVars, asked>>

StopDone ==
  /\ service = "stopPending" /\ run = "returned"
  /\ service' = "stopped"
  /\ exit' = 0
  /\ UNCHANGED <<appVars, asked>>

-----------------------------------------------------------------------------
AppStep == AppNext /\ UNCHANGED <<service, asked, exit>>

ServiceStep == ReportRunning \/ StopReceived \/ EndsByItself \/ StopDone

Next == AppStep \/ Signal \/ MainExits \/ ServiceStep \/ RequestStop

Spec == Init /\ [][Next]_vars

(* Goroutines are scheduled and timers fire: the library is initialized,   *)
(* or fails to be, the deadline of a scrape and the write timeout strike.  *)
(* Nobody need ask, scrape, read a response or let a driver call return.   *)
Does(step) == Alive /\ step /\ UNCHANGED <<service, asked, exit>>

FairSpec ==
  /\ Spec
  /\ WF_vars(Does(CheckFlags)) /\ WF_vars(Does(Setup \/ SetupFails))
  /\ WF_vars(Does(StartServing)) /\ WF_vars(Does(WaitReturns))
  /\ WF_vars(Does(LoopEnds)) /\ WF_vars(Does(CloseBackend))
  /\ WF_vars(Does(WatcherJoined \/ WatcherGrace \/ WatcherAbandoned))
  /\ WF_vars(Does(ServeStep)) /\ WF_vars(Does(ShutdownStep))
  /\ \A r \in Requests :
       WF_vars(Does(ScrapeStep(r))) /\ WF_vars(Does(DeadlineStrikes(r)))
  /\ WF_vars(MainExits) /\ WF_vars(ServiceStep)

-----------------------------------------------------------------------------
TypeOK ==
  /\ flags \in FlagSets
  /\ run \in {"flags", "setup", "mux", "waiting", "returned", "panicked"}
  /\ outcome \in {"none", "nil", "flags", "setup", "register", "listen",
                  "serve", "shutdown", "exporterFailed"}
  /\ cause \in {"none", "canceled", "fatal", "listen", "serve", "shutdown",
                "exporterFailed"}
  /\ group \in [Goroutines -> GroupPCs]
  /\ first \in {"none", "listen", "serve", "shutdown", "exporterFailed"}
  /\ watching \in BOOLEAN
  /\ bound \in 0..Addresses /\ up \in 0..Addresses
  /\ serveErr \in {"none", "serve", "closed"}
  /\ closed \in BOOLEAN
  /\ req \in [Requests -> {"idle", "collecting", "writing", "stalled",
                         "refused"}]
  /\ over \in [Requests -> BOOLEAN]
  /\ slots \in Nat
  /\ failed \in BOOLEAN
  /\ service \in {"none", "startPending", "running", "stopPending", "stopped"}
  /\ asked \in BOOLEAN
  /\ exit \in {NotYet, 0, 1}

(* Every slot of the limit is held by a scrape that is being served, on    *)
(* every path out of the handler, panics and lost clients included; so     *)
(* overload never outlives the scrapes that cause it.                      *)
SlotsMatchScrapes ==
  Limit > 0 => slots = Cardinality(InHandler) /\ slots <= Limit

(* What a bad advertised timeout does: no deadline that has passed before  *)
(* the scrape begins, none that leaves the response less than the offset.  *)
DeadlinesAreAhead ==
  \A r \in Requests : deadline[r] # <<>> =>
    deadline[r][1] > 0 /\ deadline[r][1] + flags.offset <= advert[r]

(* No command line the flag checks let through makes a route register      *)
(* twice: neither with pprof on nor off does the metrics path hit a route. *)
RegistrationNeverPanics == run # "panicked"

(* The graceful shutdown runs out of time only over a client that does not *)
(* read its response, never over a collection stuck inside the driver.     *)
GraceIsForClients ==
  [][GraceOver => \E r \in Requests : req[r] = "stalled"]_vars

(* An exporter that ends with no error has answered every scrape it took,  *)
(* has closed its listeners and has left no goroutine of its group behind. *)
CleanEndIsComplete ==
  outcome = "nil" =>
    /\ InFlight = {} /\ slots = 0 /\ bound = 0
    /\ \A g \in Goroutines : group[g] \in {"off", "done"}

(* A scrape with a deadline is answered, or refused, although neither the  *)
(* driver nor the client ever moves.                                       *)
BoundedScrapesEnd ==
  \A r \in Requests : deadline[r] # <<>> ~> (req[r] = "idle" \/ ~Alive)

(* The process keeps the promise of Lifetime: it ends when asked to or     *)
(* when it cannot go on, and its status tells which.                       *)
EndedBy ==
  CASE cause = "canceled" -> "request"
    [] cause \notin {"none", "canceled"} -> "failure"
    [] OTHER -> IF Alive THEN "none" ELSE "failure"

Life == INSTANCE Lifetime WITH endedBy <- EndedBy, service <- ~Foreground

ImplementsLifetime == Life!Spec
=============================================================================
