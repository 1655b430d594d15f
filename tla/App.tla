--------------------------------- MODULE App --------------------------------
(***************************************************************************)
(* The application: Run checks the flags, sets up the backend and the      *)
(* source, starts the goroutines of one errgroup and waits for all of      *)
(* them; scrapes are limited, bounded and cut short by its shutdown.       *)
(*                                                                         *)
(* One context rules them all.  It ends with the first of: the caller's    *)
(* context, shutdown-on-error, an error of a goroutine of the group; cause *)
(* is what context.Cause tells of it, first what the group will report.    *)
(***************************************************************************)
EXTENDS Integers, Sequences, FiniteSets

CONSTANTS
  Requests,     \* the scrapes that may be under way at once
  FlagSets,     \* the command lines
  Advertised,   \* scrape timeouts Prometheus may advertise
  Addresses     \* how many addresses to listen on

ASSUME AddressAssumption == Addresses \in Nat \ {0}
ASSUME RequestsAssumption == IsFiniteSet(Requests)
ASSUME FlagsAssumption ==
  \A f \in FlagSets :
    f.maxRequests \in Int /\ f.offset \in Int /\ f.path.segments \in Seq(STRING)
ASSUME AdvertisedAssumption == \A a \in Advertised : a.seconds \in Int

VARIABLES
  flags,      \* the command line of this process
  run,        \* where Run is
  outcome,    \* what it has returned
  cause,      \* the cause of the end of the context
  group,      \* where each goroutine of the errgroup is
  first,      \* the first error one of them returned
  watching,   \* the XID watcher has not returned
  bound,      \* listeners that are open
  up,         \* web.Serve loops that have not returned
  serveErr,   \* the first error one of them returned
  closed,     \* http.Server.Shutdown has been called
  req,        \* where each scrape is
  deadline,   \* the bound of the context of each scrape in Latest, an option
  advert,     \* what the scrape with a deadline advertised
  over,       \* the scrape's own context is over
  slots,      \* tokens in the slots channel
  failed      \* history: something failed for good

serveVars == <<bound, up, serveErr>>
scopeVars == <<deadline, advert, over>>
reqVars   == <<req, scopeVars, slots>>
groupVars == <<group, first, cause>>
appVars == <<flags, run, outcome, groupVars, watching, serveVars, closed,
             reqVars, failed>>

Goroutines == {"serve", "shutdown", "loop", "close", "supervise"}
GroupPCs   == {"off", "run", "bind", "serving", "shutting", "grace", "done"}

Cached == flags.interval > 0
Limit  == flags.maxRequests
ctxDone == cause # "none"

AppInit ==
  /\ flags \in FlagSets
  /\ run = "flags" /\ outcome = "none"
  /\ cause = "none" /\ first = "none"
  /\ group = [g \in Goroutines |-> "off"]
  /\ watching = FALSE
  /\ bound = 0 /\ up = 0 /\ serveErr = "none"
  /\ closed = FALSE
  /\ req = [r \in Requests |-> "idle"]
  /\ deadline = [r \in Requests |-> <<>>]
  /\ advert = [r \in Requests |-> 0]
  /\ over = [r \in Requests |-> FALSE]
  /\ slots = 0
  /\ failed = FALSE

-----------------------------------------------------------------------------
(* The flags.  A path is its segments, whether it starts and ends with a   *)
(* slash, and whether it holds a character the mux would interpret.        *)

ValidCollectFlags(f) == f.interval >= 0 /\ f.timeout >= 0

ValidPathShape(p) ==
  /\ p.leading /\ ~p.trailing /\ ~p.special
  /\ p.segments # <<>>
  /\ \A i \in DOMAIN p.segments : p.segments[i] \notin {"", ".", ".."}

(* Routes that are reserved as they are, and with all that is below them.  *)
ReservedExactly == {<<"-", "healthy">>, <<"-", "ready">>}
ReservedTree    == <<"debug", "pprof">>
Below(tree, s)  == Len(s) >= Len(tree) /\ SubSeq(s, 1, Len(tree)) = tree

FaultExactlyReserved(s) == s \in ReservedExactly \cup {ReservedTree}

Reserved(s) == s \in ReservedExactly \/ Below(ReservedTree, s)

ValidMetricsPath(p) == ValidPathShape(p) /\ ~Reserved(p.segments)

ValidWebFlags(f) ==
  ValidMetricsPath(f.path) /\ f.maxRequests >= 0 /\ f.offset >= 0

ValidBackendFlags(f) ==
  /\ f.backend # "exec" => ~f.customCommand
  /\ f.pcie => f.backend # "exec"
  /\ f.migLabels => f.backend # "exec" /\ f.computeApps
  /\ f.demoConfig => f.backend = "demo"

ValidFlags(f) ==
  ValidCollectFlags(f) /\ ValidWebFlags(f) /\ ValidBackendFlags(f)

(* The routes beside the metrics path; registering one twice panics.       *)
Routes(f) ==
  {<<>>, <<"-", "healthy">>, <<"-", "ready">>} \cup
  (IF f.pprof THEN {<<"debug", "pprof", page>> :
                      page \in {"cmdline", "profile", "symbol", "trace"}}
              ELSE {})

-----------------------------------------------------------------------------
(* The errgroup, and Run.                                                  *)

Alive == run \notin {"returned", "panicked"}

(* A goroutine of the group returns; the first error ends the context.     *)
Leaves(g, err) ==
  /\ group' = [group EXCEPT ![g] = "done"]
  /\ first' = IF first = "none" THEN err ELSE first
  /\ cause' = IF cause = "none" THEN err ELSE cause

Goes(g, to) ==
  /\ group' = [group EXCEPT ![g] = to]
  /\ UNCHANGED <<first, cause>>

Returns(result) ==
  /\ run' = "returned"
  /\ outcome' = result
  /\ UNCHANGED <<flags, groupVars, watching, serveVars, closed, reqVars>>

CheckFlags ==
  /\ run = "flags"
  /\ \/ /\ ValidFlags(flags)
        /\ run' = "setup"
        /\ UNCHANGED <<flags, outcome, groupVars, watching, serveVars, closed,
                       reqVars, failed>>
     \/ ~ValidFlags(flags) /\ failed' = TRUE /\ Returns("flags")

(* setupBackend: no driver, or fields that cannot be resolved.             *)
SetupFails ==
  /\ run = "setup"
  /\ failed' = TRUE
  /\ Returns("setup")

(* setupExporter has started the goroutines of the backend and the source. *)
Setup ==
  /\ run = "setup"
  /\ run' = "mux"
  /\ group' = [g \in Goroutines |->
                 IF \/ g \in {"close", "supervise"} /\ flags.backend = "nvml"
                    \/ g = "loop" /\ Cached
                   THEN "run" ELSE "off"]
  /\ watching' = (flags.backend = "nvml")
  /\ UNCHANGED <<flags, outcome, first, cause, serveVars, closed, reqVars,
                 failed>>

(* A failed registration or a failed landing page: Run leaves the group    *)
(* behind.                                                                 *)
RegisterFails ==
  /\ run = "mux"
  /\ failed' = TRUE
  /\ Returns("register")

(* newServeMux, which panics on a route that is registered twice, and      *)
(* serveHTTP.                                                              *)
StartServing ==
  /\ run = "mux"
  /\ IF flags.path.segments \in Routes(flags)
       THEN run' = "panicked" /\ group' = group
       ELSE /\ run' = "waiting"
            /\ group' = [group EXCEPT !["serve"] = "bind",
                                      !["shutdown"] = "run"]
  /\ UNCHANGED <<flags, outcome, first, cause, watching, serveVars, closed,
                 reqVars, failed>>

(* eg.Wait.                                                                *)
WaitReturns ==
  /\ run = "waiting"
  /\ \A g \in Goroutines : group[g] \in {"off", "done"}
  /\ UNCHANGED failed
  /\ Returns(IF first = "none" THEN "nil" ELSE first)

(* The caller's context, and shutdown-on-error: a collection that fails    *)
(* in the loop, or in the run that a scrape waits for.                     *)
CancelContext ==
  cause' = IF cause = "none" /\ Alive THEN "canceled" ELSE cause

(* Fault: the context of a request does not descend from Run's.            *)
FaultNoBaseContext(r) == over[r]

(* The context of a scrape in Latest.                                      *)
Over(r) == over[r] \/ ctxDone

Collecting(r) == req[r] = "collecting" /\ ~Over(r)

Fatal ==
  /\ flags.shutdownOnErr /\ ~ctxDone
  /\ group["loop"] = "run" \/ (~Cached /\ \E r \in Requests : Collecting(r))
  /\ cause' = "fatal"
  /\ failed' = TRUE
  /\ UNCHANGED <<flags, run, outcome, group, first, watching, serveVars,
                 closed, reqVars>>

-----------------------------------------------------------------------------
(* The goroutines beside the server.                                       *)

(* Cached.Run returns nil once the context is over.                        *)
LoopEnds ==
  /\ group["loop"] = "run" /\ ctxDone
  /\ Leaves("loop", "none")
  /\ UNCHANGED <<flags, run, outcome, watching, serveVars, closed, reqVars,
                 failed>>

(* Backend.Close, which never waits for a collection inside the driver.    *)
CloseBackend ==
  /\ group["close"] = "run" /\ ctxDone
  /\ Leaves("close", "none")
  /\ UNCHANGED <<flags, run, outcome, watching, serveVars, closed, reqVars,
                 failed>>

(* The watcher may be stuck inside the driver, and never return.           *)
WatcherReturns ==
  /\ watching /\ ctxDone
  /\ watching' = FALSE
  /\ UNCHANGED <<flags, run, outcome, groupVars, serveVars, closed, reqVars,
                 failed>>

WatcherJoined ==
  /\ group["supervise"] \in {"run", "grace"} /\ ~watching
  /\ Leaves("supervise", "none")
  /\ UNCHANGED <<flags, run, outcome, watching, serveVars, closed, reqVars,
                 failed>>

WatcherGrace ==
  /\ group["supervise"] = "run" /\ ctxDone
  /\ Goes("supervise", "grace")
  /\ UNCHANGED <<flags, run, outcome, watching, serveVars, closed, reqVars,
                 failed>>

WatcherAbandoned ==
  /\ group["supervise"] = "grace"
  /\ Leaves("supervise", "none")
  /\ UNCHANGED <<flags, run, outcome, watching, serveVars, closed, reqVars,
                 failed>>

-----------------------------------------------------------------------------
(* The server.  listenAndServe opens the addresses one after the other and *)
(* returns when every web.Serve loop has, with the first error.            *)

Bind ==
  /\ group["serve"] = "bind"
  /\ bound' = bound + 1
  /\ IF bound' = Addresses
       THEN up' = Addresses /\ Goes("serve", "serving")
       ELSE UNCHANGED <<up, groupVars>>
  /\ UNCHANGED <<flags, run, outcome, watching, serveErr, closed, reqVars,
                 failed>>

(* What is open already stays open.                                        *)
BindFails ==
  /\ group["serve"] = "bind"
  /\ failed' = TRUE
  /\ Leaves("serve", "listen")
  /\ UNCHANGED <<flags, run, outcome, watching, serveVars, closed, reqVars>>

ServeLoopEnds(err) ==
  /\ group["serve"] = "serving" /\ up > 0
  /\ up' = up - 1
  /\ serveErr' = IF serveErr = "none" THEN err ELSE serveErr
  /\ UNCHANGED <<flags, run, outcome, groupVars, watching, bound, closed,
                 reqVars>>

(* The listener breaks, or the web configuration cannot be read.           *)
ServeFails == failed' = TRUE /\ ServeLoopEnds("serve")

ServerClosed == closed /\ UNCHANGED failed /\ ServeLoopEnds("closed")

(* Fault: the cause of the shutdown is not looked at.                      *)
FaultErrNotCause == IF serveErr = "closed" THEN "none" ELSE serveErr

ServeResult ==
  IF serveErr # "closed" THEN serveErr
    ELSE IF cause = "canceled" THEN "none" ELSE "exporterFailed"

ServeReturns ==
  /\ group["serve"] = "serving" /\ up = 0
  /\ bound' = 0
  /\ Leaves("serve", ServeResult)
  /\ UNCHANGED <<flags, run, outcome, watching, up, serveErr, closed, reqVars,
                 failed>>

-----------------------------------------------------------------------------
(* The scrapes.                                                            *)

InHandler == {r \in Requests : req[r] \in {"collecting", "writing", "stalled"}}
InFlight  == {r \in Requests : req[r] # "idle"}

(* scrapeContext.  A value that is not a number, or not a positive one, or *)
(* larger than a day, which might overflow, adds no deadline; neither does *)
(* one the offset leaves nothing of.                                       *)
NoNumber == [number |-> FALSE, seconds |-> 0]
Number(n) == [number |-> TRUE, seconds |-> n]
MaxScrapeTimeout == 5

FaultOffsetOnly(a) ==
  IF ~a.number \/ ~(a.seconds > 0) \/ a.seconds > MaxScrapeTimeout
    THEN <<>> ELSE <<a.seconds - flags.offset>>

ScrapeTimeout(a) ==
  IF \/ ~a.number \/ ~(a.seconds > 0) \/ a.seconds > MaxScrapeTimeout
     \/ a.seconds - flags.offset <= 0
    THEN <<>> ELSE <<a.seconds - flags.offset>>

Serving == group["serve"] = "serving" /\ up > 0 /\ ~closed

HasSlot == Limit <= 0 \/ slots < Limit

Admit(r) ==
  /\ req[r] = "idle" /\ Serving /\ HasSlot
  /\ slots' = IF Limit <= 0 THEN slots ELSE slots + 1
  /\ req' = [req EXCEPT ![r] = "collecting"]
  /\ over' = [over EXCEPT ![r] = FALSE]
  /\ \E a \in Advertised :
       LET d == ScrapeTimeout(a)
       IN  /\ deadline' = [deadline EXCEPT ![r] = d]
           /\ advert' = [advert EXCEPT
                           ![r] = IF d = <<>> THEN 0 ELSE a.seconds]
  /\ UNCHANGED <<flags, run, outcome, groupVars, watching, serveVars, closed,
                 failed>>

(* 503; the answer is so short that no client can hold it up.              *)
Refuse(r) ==
  /\ req[r] = "idle" /\ Serving /\ ~HasSlot
  /\ req' = [req EXCEPT ![r] = "refused"]
  /\ UNCHANGED <<flags, run, outcome, groupVars, watching, serveVars, closed,
                 scopeVars, slots, failed>>

RefusalSent(r) ==
  /\ req[r] = "refused"
  /\ req' = [req EXCEPT ![r] = "idle"]
  /\ UNCHANGED <<flags, run, outcome, groupVars, watching, serveVars, closed,
                 scopeVars, slots, failed>>

ContextEnds(r) ==
  /\ req[r] = "collecting" /\ ~over[r]
  /\ over' = [over EXCEPT ![r] = TRUE]
  /\ UNCHANGED <<flags, run, outcome, groupVars, watching, serveVars, closed,
                 req, deadline, advert, slots, failed>>

(* The deadline strikes, or the client goes away.                          *)
DeadlineStrikes(r) == deadline[r] # <<>> /\ ContextEnds(r)
ClientLeaves(r)    == ContextEnds(r)

EndScope(r) ==
  /\ deadline' = [deadline EXCEPT ![r] = <<>>]
  /\ advert' = [advert EXCEPT ![r] = 0]
  /\ over' = [over EXCEPT ![r] = FALSE]

(* The response is written; its client may or may not read it.             *)
Rendered(r) ==
  /\ req' \in {[req EXCEPT ![r] = to] : to \in {"writing", "stalled"}}
  /\ EndScope(r)
  /\ UNCHANGED <<flags, run, outcome, groupVars, watching, serveVars, closed,
                 slots, failed>>

(* Fault: the end of the scrape's context is not waited for.               *)
FaultIgnoresContext(r) == req[r] = "collecting" /\ Cached /\ Rendered(r)

(* Latest returns: at once when the source is a cached one or the context  *)
(* is over, otherwise when the collection does.                            *)
LatestReturns(r) ==
  req[r] = "collecting" /\ (Cached \/ Over(r)) /\ Rendered(r)

CollectionReturns(r) == Collecting(r) /\ ~Cached /\ Rendered(r)

(* Fault: a panic skips the release.                                       *)
FaultRelease(r) == slots' = IF req[r] # "collecting" /\ Limit > 0
                              THEN slots - 1 ELSE slots

(* The deferred receive from slots.                                        *)
Release(r) == slots' = IF Limit <= 0 THEN slots ELSE slots - 1

HandlerLeaves(r) ==
  /\ Release(r)
  /\ req' = [req EXCEPT ![r] = "idle"]
  /\ EndScope(r)
  /\ UNCHANGED <<flags, run, outcome, groupVars, watching, serveVars, closed,
                 failed>>

(* net/http recovers a panic of the handler.                               *)
Panics(r) == req[r] = "collecting" /\ HandlerLeaves(r)

Written(r) == req[r] = "writing" /\ HandlerLeaves(r)

(* The write timeout of the server.                                        *)
WriteTimesOut(r) == req[r] = "stalled" /\ HandlerLeaves(r)

-----------------------------------------------------------------------------
(* http.Server.Shutdown closes the listeners, then waits for the scrapes   *)
(* in flight.                                                              *)
Shutdown ==
  /\ group["shutdown"] = "run" /\ ctxDone
  /\ closed' = TRUE
  /\ Goes("shutdown", "shutting")
  /\ UNCHANGED <<flags, run, outcome, watching, serveVars, reqVars, failed>>

(* Fault: the scrapes in flight are not waited for.                        *)
FaultNotDrained ==
  /\ group["shutdown"] = "shutting"
  /\ Leaves("shutdown", "none")
  /\ UNCHANGED <<flags, run, outcome, watching, serveVars, closed, reqVars,
                 failed>>

Drained ==
  /\ group["shutdown"] = "shutting" /\ InFlight = {}
  /\ Leaves("shutdown", "none")
  /\ UNCHANGED <<flags, run, outcome, watching, serveVars, closed, reqVars,
                 failed>>

(* A scrape that only somebody else can bring forward.                     *)
Stuck(r) == req[r] = "stalled" \/ (Collecting(r) /\ ~Cached)

(* The five seconds are over.  They are long enough for every scrape that  *)
(* is not stuck.                                                           *)
GraceOver ==
  /\ group["shutdown"] = "shutting"
  /\ InFlight # {} /\ \A r \in InFlight : Stuck(r)
  /\ failed' = TRUE
  /\ Leaves("shutdown", "shutdown")
  /\ UNCHANGED <<flags, run, outcome, watching, serveVars, closed, reqVars>>

-----------------------------------------------------------------------------
RunStep == CheckFlags \/ Setup \/ SetupFails \/ StartServing \/ WaitReturns

BackendStep ==
  LoopEnds \/ CloseBackend \/ WatcherJoined \/ WatcherGrace \/ WatcherAbandoned

ServeStep == Bind \/ BindFails \/ ServerClosed \/ ServeReturns

ShutdownStep == Shutdown \/ Drained \/ GraceOver

(* What the server and the application do for a scrape by themselves.      *)
ScrapeStep(r) ==
  LatestReturns(r) \/ RefusalSent(r) \/ Written(r) \/ WriteTimesOut(r)

ScrapeEvent(r) ==
  \/ Admit(r) \/ Refuse(r) \/ DeadlineStrikes(r) \/ ClientLeaves(r)
  \/ CollectionReturns(r) \/ Panics(r)

AppNext ==
  /\ Alive
  /\ \/ RunStep \/ RegisterFails \/ Fatal
     \/ BackendStep \/ WatcherReturns
     \/ ServeStep \/ ServeFails
     \/ ShutdownStep
     \/ \E r \in Requests : ScrapeStep(r) \/ ScrapeEvent(r)
=============================================================================
