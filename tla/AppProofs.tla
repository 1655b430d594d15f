----------------------------- MODULE AppProofs -----------------------------
(***************************************************************************)
(* Proofs about the application and its process: for any command lines,    *)
(* any advertised timeouts, any number of scrapes and of addresses.        *)
(***************************************************************************)
EXTENDS Process, FiniteSetTheorems, SequenceTheorems, TLAPS

(* Everything of the application but its scrapes.                          *)
TypeOfRun ==
  /\ flags \in FlagSets
  /\ run \in {"flags", "setup", "mux", "waiting", "returned", "panicked"}
  /\ outcome \in {"none", "nil", "flags", "setup", "register", "listen",
                  "serve", "shutdown", "exporterFailed"}
  /\ cause \in {"none", "canceled", "fatal", "listen", "serve", "shutdown",
                "exporterFailed"}
  /\ group \in [Goroutines -> GroupPCs]
  /\ first \in {"none", "listen", "serve", "shutdown", "exporterFailed"}
  /\ bound \in 0..Addresses /\ up \in 0..Addresses
  /\ serveErr \in {"none", "serve", "closed"}

Marks == watching \in BOOLEAN /\ closed \in BOOLEAN /\ failed \in BOOLEAN

(* Its goroutines are where Run has brought them.                          *)
GroupInOrder ==
  /\ run \in {"flags", "setup", "mux"} =>
       group["serve"] = "off" /\ group["shutdown"] = "off"
  /\ run = "waiting" => group["serve"] # "off" /\ group["shutdown"] # "off"
  /\ group["serve"] \in {"off", "bind", "serving", "done"}
  /\ group["shutdown"] \in {"off", "run", "shutting", "done"}

(* The server ends by itself, with an error, or because it was shut down.  *)
ServerInOrder ==
  /\ group["serve"] \in {"off", "bind"} => bound < Addresses /\ up = 0
  /\ group["serve"] = "serving" /\ up = 0 => serveErr # "none"
  /\ group["shutdown"] \in {"shutting", "done"} => closed
  /\ serveErr = "closed" => closed
  /\ closed => ctxDone

(* Whatever ends the application that is not a request is a failure.       *)
FailuresAreKnown ==
  /\ serveErr = "serve" => failed
  /\ cause \notin {"none", "canceled"} => failed
  /\ first # "none" => failed
  /\ outcome \notin {"none", "nil"} => failed

(* A server that returns no error was shut down by a request.              *)
CleanServer ==
  /\ group["serve"] = "done" /\ first = "none" =>
       cause = "canceled" /\ bound = 0
  /\ outcome # "none" <=> run = "returned"
  /\ outcome = "nil" =>
       /\ first = "none"
       /\ group["serve"] = "done" /\ group["shutdown"] = "done"
       /\ \A g \in Goroutines : group[g] \in {"off", "done"}

(* The flags have been checked before anything is built on them.           *)
FlagsChecked ==
  /\ run # "panicked"
  /\ run \in {"setup", "mux", "waiting"} => ValidFlags(flags)

Running ==
  /\ TypeOfRun /\ Marks /\ GroupInOrder /\ ServerInOrder
  /\ FailuresAreKnown /\ CleanServer /\ FlagsChecked

(* A path the flag check lets through is none of the routes.               *)
LEMMA ValidPathIsFree ==
  ASSUME NEW f \in FlagSets, ValidFlags(f)
  PROVE  f.path.segments \notin Routes(f)
<1>1. ValidMetricsPath(f.path) /\ f.path.segments \in Seq(STRING)
  BY FlagsAssumption DEF ValidFlags, ValidWebFlags
<1>2. f.path.segments # <<>> /\ ~Reserved(f.path.segments)
  BY <1>1 DEF ValidMetricsPath, ValidPathShape
<1>3. ASSUME NEW page PROVE f.path.segments # <<"debug", "pprof", page>>
  <2> DEFINE s == <<"debug", "pprof", page>>
  <2> DEFINE Words == {"debug", "pprof"}
  <2>1. ReservedTree \in Seq(Words)
    BY DEF ReservedTree
  <2>2. /\ Len(ReservedTree) = 2
        /\ ReservedTree[1] = "debug" /\ ReservedTree[2] = "pprof"
    BY DEF ReservedTree
  <2>3. Len(s) = 3 /\ s[1] = "debug" /\ s[2] = "pprof"
    OBVIOUS
  <2> HIDE DEF s
  <2>4. \A i \in 1..2 : s[i] \in Words
    BY <2>3
  <2> HIDE DEF Words
  <2>5. /\ SubSeq(s, 1, 2) \in Seq(Words) /\ Len(SubSeq(s, 1, 2)) = 2
        /\ \A i \in 1..2 : SubSeq(s, 1, 2)[i] = s[i]
    BY <2>4, SubSeqProperties, Z3
  <2>6. SubSeq(s, 1, 2) = ReservedTree
    BY <2>1, <2>2, <2>3, <2>5, SeqEqual
  <2>7. Reserved(s)
    BY <2>2, <2>3, <2>6 DEF Reserved, Below
  <2> QED
    BY <1>2, <2>7 DEF s
<1>4. f.path.segments \notin ReservedExactly
  BY <1>2 DEF Reserved
<1>5. f.path.segments \notin
        {<<"debug", "pprof", page>> :
           page \in {"cmdline", "profile", "symbol", "trace"}}
  BY <1>3
<1>6. f.path.segments # <<>> /\ f.path.segments # <<"-", "healthy">>
      /\ f.path.segments # <<"-", "ready">>
  BY <1>2, <1>4 DEF ReservedExactly
<1> QED
  BY <1>5, <1>6, Zenon DEF Routes

(* The initial state.                                                      *)
LEMMA InitRunning == Init => Running
<1> SUFFICES ASSUME Init PROVE Running
  OBVIOUS
<1>1. TypeOfRun
  BY AddressAssumption DEF Init, AppInit, TypeOfRun, GroupPCs
<1>0. Marks
  BY DEF Init, AppInit, Marks
<1>2. \A g \in Goroutines : group[g] = "off"
  BY DEF Init, AppInit
<1>3. GroupInOrder
  BY <1>2 DEF Init, AppInit, GroupInOrder, Goroutines
<1>4. ServerInOrder
  BY <1>2, AddressAssumption DEF Init, AppInit, ServerInOrder, Goroutines
<1>5. FailuresAreKnown
  BY DEF Init, AppInit, FailuresAreKnown
<1>6. CleanServer
  BY <1>2 DEF Init, AppInit, CleanServer, Goroutines
<1>7. FlagsChecked
  BY DEF Init, AppInit, FlagsChecked
<1> QED
  BY <1>0, <1>1, <1>3, <1>4, <1>5, <1>6, <1>7 DEF Running

(* Every step of the application keeps its marks.                          *)
LEMMA AppMarks == Marks /\ AppNext => Marks'
  BY DEF Marks, AppNext, RunStep, CheckFlags, Setup, SetupFails, StartServing,
         WaitReturns, Returns, RegisterFails, Fatal, BackendStep, LoopEnds,
         CloseBackend, WatcherJoined, WatcherGrace, WatcherAbandoned,
         WatcherReturns, ServeStep, Bind, BindFails, ServerClosed,
         ServeReturns, ServeLoopEnds, ServeFails, ShutdownStep, Shutdown,
         Drained, GraceOver, ScrapeStep, ScrapeEvent, LatestReturns,
         RefusalSent, Written, WriteTimesOut, Admit, Refuse, DeadlineStrikes,
         ClientLeaves, ContextEnds, CollectionReturns, Panics, Rendered,
         HandlerLeaves

(* Every step of the application keeps its order.                          *)
LEMMA AppRunning == Running /\ AppNext => Running'
<1> SUFFICES ASSUME Running, AppNext PROVE Running'
  OBVIOUS
<1>0. Marks'
  BY AppMarks DEF Running
<1> USE <1>0, AddressAssumption
    DEF Running, TypeOfRun, GroupInOrder, ServerInOrder, FailuresAreKnown,
        CleanServer, FlagsChecked, Goroutines, GroupPCs, ctxDone
<1>1. CASE CheckFlags
  BY <1>1 DEF CheckFlags, Returns, groupVars, serveVars
<1>2. CASE SetupFails \/ RegisterFails
  BY <1>2 DEF SetupFails, RegisterFails, Returns, groupVars, serveVars
<1>3. CASE Setup
  BY <1>3 DEF Setup, serveVars
<1>4. CASE StartServing
  <2>1. flags.path.segments \notin Routes(flags)
    BY <1>4, ValidPathIsFree DEF StartServing
  <2>2. run = "mux" /\ run' = "waiting"
        /\ group' = [group EXCEPT !["serve"] = "bind", !["shutdown"] = "run"]
    BY <1>4, <2>1 DEF StartServing
  <2> QED
    BY <1>4, <2>2 DEF StartServing, serveVars
<1>5. CASE WaitReturns
  BY <1>5 DEF WaitReturns, Returns, groupVars, serveVars
<1>6. CASE Fatal
  BY <1>6 DEF Fatal, serveVars
<1>7. CASE BackendStep
  BY <1>7 DEF BackendStep, LoopEnds, CloseBackend, WatcherJoined, WatcherGrace,
              WatcherAbandoned, Leaves, Goes, serveVars
<1>8. CASE WatcherReturns
  BY <1>8 DEF WatcherReturns, groupVars, serveVars
<1>9. CASE Bind
  BY <1>9 DEF Bind, Goes, groupVars
<1>10. CASE BindFails
  BY <1>10 DEF BindFails, Leaves, serveVars
<1>11. CASE ServerClosed
  BY <1>11 DEF ServerClosed, ServeLoopEnds, groupVars
<1>12. CASE ServeFails
  BY <1>12 DEF ServeFails, ServeLoopEnds, groupVars
<1>13. CASE ServeReturns
  BY <1>13 DEF ServeReturns, ServeResult, Leaves
<1>14. CASE Shutdown
  BY <1>14 DEF Shutdown, Goes, serveVars
<1>15. CASE Drained
  BY <1>15 DEF Drained, Leaves, serveVars
<1>16. CASE GraceOver
  BY <1>16 DEF GraceOver, Leaves, serveVars
<1>17. ASSUME NEW r \in Requests, ScrapeStep(r) \/ ScrapeEvent(r)
       PROVE  Running'
  BY <1>17
     DEF ScrapeStep, ScrapeEvent, LatestReturns, RefusalSent, Written,
         WriteTimesOut, Admit, Refuse, DeadlineStrikes, ClientLeaves,
         ContextEnds, CollectionReturns, Panics, Rendered, HandlerLeaves,
         groupVars, serveVars
<1> QED
  BY <1>1, <1>2, <1>3, <1>4, <1>5, <1>6, <1>7, <1>8, <1>9, <1>10, <1>11, <1>12,
     <1>13, <1>14, <1>15, <1>16, <1>17
     DEF AppNext, RunStep, ServeStep, ShutdownStep

-----------------------------------------------------------------------------
(* The scrapes: where each is, its deadline, and the slots they hold.      *)
TypeOfScrapes ==
  /\ req \in [Requests -> {"idle", "collecting", "writing", "stalled",
                           "refused"}]
  /\ deadline \in [Requests -> Seq(Int)]
  /\ advert \in [Requests -> Int]
  /\ over \in [Requests -> BOOLEAN]

SlotsAreHeld ==
  /\ slots = IF Limit > 0 THEN Cardinality(InHandler) ELSE 0
  /\ Limit > 0 => slots <= Limit

(* After a shutdown that ran to its end nothing is in flight.              *)
NothingInFlight ==
  group["shutdown"] = "done" /\ first = "none" => InFlight = {}

Scraping ==
  /\ TypeOfScrapes /\ SlotsAreHeld /\ DeadlinesAreAhead /\ NothingInFlight

(* No scrape is under way in the initial state.                            *)
LEMMA InitScraping == Init => Scraping
<1> SUFFICES ASSUME Init PROVE Scraping
  OBVIOUS
<1>1. /\ req = [r \in Requests |-> "idle"] /\ deadline = [r \in Requests |-> <<>>]
      /\ advert = [r \in Requests |-> 0] /\ over = [r \in Requests |-> FALSE]
      /\ slots = 0 /\ flags \in FlagSets
  BY DEF Init, AppInit
<1>2. TypeOfScrapes
  BY <1>1 DEF TypeOfScrapes
<1>3. InHandler = {} /\ InFlight = {}
  BY <1>1 DEF InHandler, InFlight
<1>4. SlotsAreHeld
  BY <1>1, <1>3, FS_EmptySet, FlagsAssumption DEF SlotsAreHeld, Limit
<1> QED
  BY <1>1, <1>2, <1>3, <1>4 DEF Scraping, NothingInFlight, DeadlinesAreAhead

(* Taking a slot and giving it back.                                       *)
LEMMA SlotTaken ==
  ASSUME TypeOfScrapes, SlotsAreHeld, flags \in FlagSets, flags' = flags,
         NEW r \in Requests, r \notin InHandler, HasSlot,
         slots' = IF Limit <= 0 THEN slots ELSE slots + 1,
         req' = [req EXCEPT ![r] = "collecting"]
  PROVE  SlotsAreHeld'
<1>1. InHandler' = InHandler \cup {r}
  BY DEF InHandler, TypeOfScrapes
<1>2. IsFiniteSet(InHandler)
  BY RequestsAssumption, FS_Subset DEF InHandler
<1>3. Cardinality(InHandler \cup {r}) = Cardinality(InHandler) + 1
  BY <1>2, FS_AddElement
<1>4. Limit' = Limit /\ Limit \in Int /\ Cardinality(InHandler) \in Nat
  BY <1>2, FS_CardinalityType, FlagsAssumption DEF Limit
<1> QED
  BY <1>1, <1>3, <1>4 DEF SlotsAreHeld, HasSlot

LEMMA SlotReturned ==
  ASSUME TypeOfScrapes, SlotsAreHeld, flags \in FlagSets, flags' = flags,
         NEW r \in InHandler, Release(r), req' = [req EXCEPT ![r] = "idle"]
  PROVE  SlotsAreHeld'
<1>1. InHandler' = InHandler \ {r}
  BY DEF InHandler, TypeOfScrapes
<1>2. IsFiniteSet(InHandler)
  BY RequestsAssumption, FS_Subset DEF InHandler
<1>3. Cardinality(InHandler \ {r}) = Cardinality(InHandler) - 1
  BY <1>2, FS_RemoveElement
<1>4. Limit' = Limit /\ Limit \in Int /\ Cardinality(InHandler) \in Nat
  BY <1>2, FS_CardinalityType, FlagsAssumption DEF Limit
<1> QED
  BY <1>1, <1>3, <1>4 DEF SlotsAreHeld, Release

(* A step that leaves the scrapes as they are.                             *)
LEMMA SameScrapes ==
  ASSUME Scraping, UNCHANGED <<flags, reqVars>>, NothingInFlight'
  PROVE  Scraping'
  BY DEF Scraping, TypeOfScrapes, SlotsAreHeld, DeadlinesAreAhead, reqVars,
         scopeVars, Limit, InHandler

(* The deadline of a scrape is ahead of it, and leaves the offset.         *)
LEMMA TimeoutAhead ==
  ASSUME flags \in FlagSets, NEW a \in Advertised, ScrapeTimeout(a) # <<>>
  PROVE  /\ ScrapeTimeout(a) = <<a.seconds - flags.offset>>
         /\ ScrapeTimeout(a)[1] > 0
         /\ ScrapeTimeout(a)[1] + flags.offset <= a.seconds
<1>1. a.seconds \in Int /\ flags.offset \in Int
  BY FlagsAssumption, AdvertisedAssumption
<1>2. /\ ScrapeTimeout(a) = <<a.seconds - flags.offset>>
      /\ ~(a.seconds - flags.offset <= 0)
  BY DEF ScrapeTimeout
<1> QED
  BY <1>1, <1>2

(* Every step of the application keeps its scrapes in order.               *)
LEMMA AppScraping == Running /\ Scraping /\ AppNext => Scraping'
<1> SUFFICES ASSUME Running, Scraping, AppNext PROVE Scraping'
  OBVIOUS
<1>0. TypeOfRun /\ GroupInOrder /\ ServerInOrder /\ flags \in FlagSets
  BY DEF Running, TypeOfRun
<1>1. CASE \/ RunStep \/ RegisterFails \/ Fatal \/ BackendStep
           \/ WatcherReturns \/ ServeStep \/ ServeFails \/ Shutdown
           \/ GraceOver
  <2>1. UNCHANGED <<flags, reqVars>>
    BY <1>1
       DEF RunStep, CheckFlags, Setup, SetupFails, StartServing, WaitReturns,
           Returns, RegisterFails, Fatal, BackendStep, LoopEnds, CloseBackend,
           WatcherJoined, WatcherGrace, WatcherAbandoned, WatcherReturns,
           ServeStep, Bind, BindFails, ServerClosed, ServeReturns,
           ServeLoopEnds, ServeFails, Shutdown, GraceOver
  <2>2. group'["shutdown"] = "done" /\ first' = "none" =>
          group["shutdown"] = "done" /\ first = "none"
    BY <1>0, <1>1
       DEF RunStep, CheckFlags, Setup, SetupFails, StartServing, WaitReturns,
           Returns, RegisterFails, Fatal, BackendStep, LoopEnds, CloseBackend,
           WatcherJoined, WatcherGrace, WatcherAbandoned, WatcherReturns,
           ServeStep, Bind, BindFails, ServerClosed, ServeReturns,
           ServeLoopEnds, ServeFails, Shutdown, GraceOver, Leaves, Goes,
           groupVars, TypeOfRun, GroupInOrder, Goroutines
  <2>3. NothingInFlight'
    BY <2>1, <2>2 DEF Scraping, NothingInFlight, InFlight, reqVars
  <2> QED
    BY <2>1, <2>3, SameScrapes
<1>2. CASE Drained
  <2>1. UNCHANGED <<flags, reqVars>> /\ InFlight = {}
    BY <1>2 DEF Drained
  <2> QED
    BY <2>1, SameScrapes DEF NothingInFlight, InFlight, reqVars
<1>3. ASSUME NEW r \in Requests, Admit(r) PROVE Scraping'
  <2>1. PICK a \in Advertised :
          /\ deadline' = [deadline EXCEPT ![r] = ScrapeTimeout(a)]
          /\ advert' = [advert EXCEPT ![r] = IF ScrapeTimeout(a) = <<>>
                                               THEN 0 ELSE a.seconds]
    BY <1>3 DEF Admit
  <2>2. /\ req' = [req EXCEPT ![r] = "collecting"]
        /\ over' = [over EXCEPT ![r] = FALSE]
        /\ slots' = IF Limit <= 0 THEN slots ELSE slots + 1
        /\ req[r] = "idle" /\ HasSlot /\ ~closed
        /\ UNCHANGED <<flags, group, first>>
    BY <1>3 DEF Admit, Serving, groupVars
  <2>3. ScrapeTimeout(a) \in Seq(Int) /\ a.seconds \in Int
    <3>1. a.seconds \in Int /\ a.seconds - flags.offset \in Int
      BY <1>0, FlagsAssumption, AdvertisedAssumption
    <3>2. <<a.seconds - flags.offset>> \in Seq(Int) /\ <<>> \in Seq(Int)
      BY <3>1
    <3> QED
      BY <3>1, <3>2, Zenon DEF ScrapeTimeout
  <2>4. TypeOfScrapes'
    BY <2>1, <2>2, <2>3 DEF Scraping, TypeOfScrapes
  <2>5. SlotsAreHeld'
    BY <1>0, <2>2, SlotTaken DEF Scraping, InHandler
  <2>6. ASSUME NEW q \in Requests, deadline'[q] # <<>>
        PROVE  deadline'[q][1] > 0 /\ deadline'[q][1] + flags.offset <= advert'[q]
    <3>1. CASE q = r
      <4>1. deadline'[q] = ScrapeTimeout(a) /\ advert'[q] = a.seconds
        BY <2>1, <2>6, <3>1 DEF Scraping, TypeOfScrapes
      <4> QED
        BY <1>0, <2>6, <4>1, TimeoutAhead
    <3>2. CASE q # r
      <4>1. deadline'[q] = deadline[q] /\ advert'[q] = advert[q]
        BY <2>1, <3>2 DEF Scraping, TypeOfScrapes
      <4> QED
        BY <2>6, <4>1 DEF Scraping, DeadlinesAreAhead
    <3> QED
      BY <3>1, <3>2
  <2>7. DeadlinesAreAhead'
    BY <2>2, <2>6 DEF DeadlinesAreAhead
  <2>8. NothingInFlight'
    BY <1>0, <2>2 DEF ServerInOrder, NothingInFlight
  <2> QED
    BY <2>4, <2>5, <2>7, <2>8 DEF Scraping
<1>4. ASSUME NEW r \in Requests, Refuse(r) \/ RefusalSent(r) PROVE Scraping'
  <2>1. /\ \E to \in {"idle", "refused"} : req' = [req EXCEPT ![r] = to]
        /\ req[r] \in {"idle", "refused"}
        /\ UNCHANGED <<flags, group, first, deadline, advert, over, slots>>
        /\ req[r] = "idle" => ~closed
    BY <1>4 DEF Refuse, RefusalSent, Serving, scopeVars, groupVars
  <2>2. TypeOfScrapes' /\ InHandler' = InHandler
    BY <2>1 DEF Scraping, TypeOfScrapes, InHandler
  <2>3. SlotsAreHeld' /\ DeadlinesAreAhead'
    BY <2>1, <2>2 DEF Scraping, SlotsAreHeld, DeadlinesAreAhead, Limit
  <2>4. NothingInFlight'
    BY <1>0, <2>1
       DEF Scraping, TypeOfScrapes, ServerInOrder, NothingInFlight, InFlight
  <2> QED
    BY <2>2, <2>3, <2>4 DEF Scraping
<1>5. ASSUME NEW r \in Requests, ContextEnds(r) PROVE Scraping'
  <2>1. /\ UNCHANGED <<flags, group, first, req, deadline, advert, slots>>
        /\ over' = [over EXCEPT ![r] = TRUE]
    BY <1>5 DEF ContextEnds, groupVars
  <2>2. TypeOfScrapes'
    BY <2>1 DEF Scraping, TypeOfScrapes
  <2> QED
    BY <2>1, <2>2
       DEF Scraping, SlotsAreHeld, DeadlinesAreAhead, NothingInFlight,
           InHandler, InFlight, Limit
<1>6. ASSUME NEW r \in Requests, req[r] = "collecting", Rendered(r)
      PROVE  Scraping'
  <2>1. PICK to \in {"writing", "stalled"} : req' = [req EXCEPT ![r] = to]
    BY <1>6 DEF Rendered
  <2>2. /\ deadline' = [deadline EXCEPT ![r] = <<>>]
        /\ advert' = [advert EXCEPT ![r] = 0]
        /\ over' = [over EXCEPT ![r] = FALSE]
        /\ UNCHANGED <<flags, group, first, slots>>
    BY <1>6 DEF Rendered, EndScope, groupVars
  <2>3. TypeOfScrapes' /\ InHandler' = InHandler
    BY <1>6, <2>1, <2>2 DEF Scraping, TypeOfScrapes, InHandler
  <2>4. SlotsAreHeld'
    BY <2>2, <2>3 DEF Scraping, SlotsAreHeld, Limit
  <2>5. DeadlinesAreAhead'
    BY <2>2 DEF Scraping, TypeOfScrapes, DeadlinesAreAhead
  <2>6. NothingInFlight'
    BY <1>6, <2>1, <2>2 DEF Scraping, TypeOfScrapes, NothingInFlight, InFlight
  <2> QED
    BY <2>3, <2>4, <2>5, <2>6 DEF Scraping
<1>7. ASSUME NEW r \in Requests, HandlerLeaves(r),
             req[r] \in {"collecting", "writing", "stalled"}
      PROVE  Scraping'
  <2>1. /\ Release(r) /\ req' = [req EXCEPT ![r] = "idle"]
        /\ deadline' = [deadline EXCEPT ![r] = <<>>]
        /\ advert' = [advert EXCEPT ![r] = 0]
        /\ over' = [over EXCEPT ![r] = FALSE]
        /\ UNCHANGED <<flags, group, first>>
    BY <1>7 DEF HandlerLeaves, EndScope, groupVars
  <2>2. TypeOfScrapes'
    BY <2>1 DEF Scraping, TypeOfScrapes
  <2>3. SlotsAreHeld'
    BY <1>0, <1>7, <2>1, SlotReturned DEF Scraping, InHandler
  <2>4. DeadlinesAreAhead'
    BY <2>1 DEF Scraping, TypeOfScrapes, DeadlinesAreAhead
  <2>5. NothingInFlight'
    BY <2>1 DEF Scraping, TypeOfScrapes, NothingInFlight, InFlight
  <2> QED
    BY <2>2, <2>3, <2>4, <2>5 DEF Scraping
<1> QED
  BY <1>1, <1>2, <1>3, <1>4, <1>5, <1>6, <1>7
     DEF AppNext, ShutdownStep, ScrapeStep, ScrapeEvent, LatestReturns,
         CollectionReturns, Collecting, DeadlineStrikes, ClientLeaves, Panics,
         Written, WriteTimesOut

-----------------------------------------------------------------------------
(* The process: a status is given once, at the end, and a request is what  *)
(* cancels.                                                                *)
ProcessInOrder ==
  /\ service \in {"none", "startPending", "running", "stopPending", "stopped"}
  /\ asked \in BOOLEAN
  /\ exit \in {NotYet, 0, 1}
  /\ cause = "canceled" => asked
  /\ service \in {"startPending", "running", "stopPending"} => exit = NotYet
  /\ service = "none" /\ exit # NotYet => run = "returned"
  /\ service = "stopped" => run = "returned"
  /\ service = "stopPending" => asked

IInv == Running /\ Scraping /\ ProcessInOrder

(* The invariant holds initially.                                          *)
LEMMA InitIInv == Init => IInv
  BY InitRunning, InitScraping DEF Init, AppInit, IInv, ProcessInOrder

(* No step of the application cancels its context for a request.           *)
LEMMA AppNeverCancels ==
  Running /\ AppNext => cause' = cause \/ cause' # "canceled"
  BY DEF AppNext, RunStep, CheckFlags, Setup, SetupFails, StartServing,
         WaitReturns, Returns, RegisterFails, Fatal, BackendStep, LoopEnds,
         CloseBackend, WatcherJoined, WatcherGrace, WatcherAbandoned,
         WatcherReturns, ServeStep, Bind, BindFails, ServerClosed,
         ServeReturns, ServeResult, ServeLoopEnds, ServeFails, ShutdownStep,
         Shutdown, Drained, GraceOver, ScrapeStep, ScrapeEvent, LatestReturns,
         RefusalSent, Written, WriteTimesOut, Admit, Refuse, DeadlineStrikes,
         ClientLeaves, ContextEnds, CollectionReturns, Panics, Rendered,
         HandlerLeaves, Leaves, Goes, groupVars, Running, TypeOfRun

(* The caller's context ends, and nothing else happens.                    *)
LEMMA Cancelling ==
  ASSUME IInv, CancelContext,
         UNCHANGED <<flags, run, outcome, group, first, watching, serveVars,
                     closed, reqVars, failed>>
  PROVE  Running' /\ Scraping'
<1>1. cause' \in {cause, "canceled"} /\ (cause # "none" => cause' = cause)
  BY DEF CancelContext
<1>2. NothingInFlight'
  BY DEF IInv, Scraping, NothingInFlight, InFlight, reqVars
<1>3. Scraping'
  BY <1>2, SameScrapes DEF IInv
<1> QED
  BY <1>1, <1>3
     DEF IInv, Running, TypeOfRun, Marks, GroupInOrder, ServerInOrder,
         FailuresAreKnown, CleanServer, FlagsChecked, ctxDone, serveVars

(* A step of the process that leaves the application as it is.             *)
LEMMA SameApp ==
  ASSUME IInv, UNCHANGED appVars
  PROVE  Running' /\ Scraping'
<1>1. UNCHANGED <<flags, run, outcome, cause, group, first, watching, bound, up,
                  serveErr, closed, reqVars, failed>>
  BY DEF appVars, groupVars, serveVars
<1>2. NothingInFlight'
  BY <1>1 DEF IInv, Scraping, NothingInFlight, InFlight, reqVars
<1>3. Scraping'
  BY <1>1, <1>2, SameScrapes DEF IInv
<1> QED
  BY <1>1, <1>3
     DEF IInv, Running, TypeOfRun, Marks, GroupInOrder, ServerInOrder,
         FailuresAreKnown, CleanServer, FlagsChecked, ctxDone

(* Every step keeps the invariant.                                         *)
LEMMA StepIInv == IInv /\ [Next]_vars => IInv'
<1> SUFFICES ASSUME IInv, [Next]_vars PROVE IInv'
  OBVIOUS
<1>1. CASE AppStep
  <2>1. Running' /\ Scraping'
    BY <1>1, AppRunning, AppScraping DEF IInv, AppStep
  <2>2. cause' = "canceled" => cause = "canceled"
    BY <1>1, AppNeverCancels DEF IInv, AppStep
  <2>3. Alive /\ UNCHANGED <<service, asked, exit>>
    BY <1>1 DEF AppStep, AppNext
  <2>4. ProcessInOrder'
    BY <2>2, <2>3 DEF IInv, ProcessInOrder, Alive
  <2> QED
    BY <2>1, <2>4 DEF IInv
<1>2. CASE Signal
  <2>1. ProcessInOrder'
    BY <1>2 DEF Signal, Foreground, CancelContext, IInv, ProcessInOrder
  <2> QED
    BY <1>2, <2>1, Cancelling DEF Signal, IInv
<1>3. CASE StopReceived
  <2>1. ProcessInOrder'
    BY <1>3 DEF StopReceived, CancelContext, IInv, ProcessInOrder
  <2> QED
    BY <1>3, <2>1, Cancelling DEF StopReceived, IInv
<1>4. CASE MainExits \/ ReportRunning \/ RequestStop \/ EndsByItself \/ StopDone
  <2>1. UNCHANGED <<appVars, run, cause>>
    BY <1>4 DEF MainExits, ReportRunning, RequestStop, EndsByItself, StopDone,
                appVars, groupVars
  <2>2. ProcessInOrder'
    BY <1>4, <2>1 DEF MainExits, ReportRunning, RequestStop, EndsByItself,
                      StopDone, Foreground, IInv, ProcessInOrder
  <2> QED
    BY <2>1, <2>2, SameApp DEF IInv
<1>5. CASE UNCHANGED vars
  <2>1. UNCHANGED <<appVars, run, cause, service, asked, exit>>
    BY <1>5 DEF vars, appVars, groupVars
  <2> QED
    BY <2>1, SameApp DEF IInv, ProcessInOrder
<1> QED
  BY <1>1, <1>2, <1>3, <1>4, <1>5 DEF Next, ServiceStep

(* The inductive invariant of the application and its process.             *)
THEOREM AppInvariant == Spec => []IInv
  BY InitIInv, StepIInv, PTL DEF Spec

(* The type invariant: every variable keeps its type, and the number of    *)
(* slots taken is a number.                                                *)
THEOREM AppTypeCorrect == Spec => []TypeOK
<1>1. IInv => TypeOK
  <2> SUFFICES ASSUME IInv PROVE TypeOK
    OBVIOUS
  <2>1. slots \in Nat
    <3>1. IsFiniteSet(InHandler)
      BY RequestsAssumption, FS_Subset DEF InHandler
    <3> QED
      BY <3>1, FS_CardinalityType DEF IInv, Scraping, SlotsAreHeld
  <2>2. /\ watching \in BOOLEAN /\ closed \in BOOLEAN /\ failed \in BOOLEAN
        /\ asked \in BOOLEAN /\ over \in [Requests -> BOOLEAN]
    BY DEF IInv, Running, Marks, ProcessInOrder, Scraping, TypeOfScrapes
  <2>3. /\ req \in [Requests -> {"idle", "collecting", "writing", "stalled",
                                 "refused"}]
        /\ service \in {"none", "startPending", "running", "stopPending",
                        "stopped"}
        /\ exit \in {NotYet, 0, 1}
    BY DEF IInv, ProcessInOrder, Scraping, TypeOfScrapes
  <2>4. TypeOfRun
    BY DEF IInv, Running
  <2> QED
    BY <2>1, <2>2, <2>3, <2>4, Zenon DEF TypeOK, TypeOfRun
<1> QED
  BY <1>1, AppInvariant, PTL

(* With any limit, a slot is taken for exactly the scrapes being served:   *)
(* none leaks, on any path out of the handler, and overload ends.          *)
THEOREM AppSlots == Spec => []SlotsMatchScrapes
<1>1. IInv => SlotsMatchScrapes
  BY DEF IInv, Scraping, SlotsAreHeld, SlotsMatchScrapes
<1> QED
  BY <1>1, AppInvariant, PTL

(* Whatever a scraper advertises and whatever the offset, the deadline of  *)
(* a scrape is ahead of it and leaves the offset for the response.         *)
THEOREM AppDeadlines == Spec => []DeadlinesAreAhead
<1>1. IInv => DeadlinesAreAhead
  BY DEF IInv, Scraping
<1> QED
  BY <1>1, AppInvariant, PTL

(* No metrics path that the flag check lets through panics at startup.     *)
THEOREM AppRegistration == Spec => []RegistrationNeverPanics
<1>1. IInv => RegistrationNeverPanics
  BY DEF IInv, Running, FlagsChecked, RegistrationNeverPanics
<1> QED
  BY <1>1, AppInvariant, PTL

(* An exporter that ends with no error has answered every scrape, closed   *)
(* its listeners and left no goroutine of its group behind.                *)
THEOREM AppCleanEnd == Spec => []CleanEndIsComplete
<1>1. IInv => CleanEndIsComplete
  <2> SUFFICES ASSUME IInv, outcome = "nil"
               PROVE  /\ InFlight = {} /\ slots = 0 /\ bound = 0
                      /\ \A g \in Goroutines : group[g] \in {"off", "done"}
    BY DEF CleanEndIsComplete
  <2>1. /\ first = "none" /\ group["serve"] = "done"
        /\ group["shutdown"] = "done" /\ bound = 0
        /\ \A g \in Goroutines : group[g] \in {"off", "done"}
    BY DEF IInv, Running, CleanServer
  <2>2. InFlight = {}
    BY <2>1 DEF IInv, Scraping, NothingInFlight
  <2>3. InHandler = {}
    BY <2>2 DEF InFlight, InHandler
  <2> QED
    BY <2>1, <2>2, <2>3, FS_EmptySet DEF IInv, Scraping, SlotsAreHeld
<1> QED
  BY <1>1, AppInvariant, PTL

(* The graceful shutdown runs out of time only over a client that does not *)
(* read: every scrape inside the source has been given up by then.         *)
THEOREM AppGrace == Spec => GraceIsForClients
<1>1. IInv /\ [Next]_vars =>
        [GraceOver => \E r \in Requests : req[r] = "stalled"]_vars
  <2> SUFFICES ASSUME IInv, GraceOver
               PROVE  \E r \in Requests : req[r] = "stalled"
    OBVIOUS
  <2>1. PICK r \in InFlight : Stuck(r)
    BY DEF GraceOver
  <2>2. ctxDone
    BY DEF GraceOver, IInv, Running, ServerInOrder
  <2> QED
    BY <2>1, <2>2 DEF Stuck, Collecting, Over, InFlight
<1> QED
  BY <1>1, AppInvariant, PTL DEF Spec, GraceIsForClients

-----------------------------------------------------------------------------
(* The process as Lifetime sees it: every step is one of Lifetime's, or    *)
(* none.                                                                   *)
LEMMA AppStepIsLife == IInv /\ AppStep => [Life!Next]_(Life!vars)
<1> SUFFICES ASSUME IInv, AppStep PROVE [Life!Next]_(Life!vars)
  OBVIOUS
<1>0. /\ Alive /\ exit = NotYet
      /\ UNCHANGED <<asked, exit, Foreground>> /\ failed \in BOOLEAN
  BY DEF AppStep, AppNext, IInv, ProcessInOrder, Running, Marks, Alive,
         Foreground
<1> USE <1>0
<1>1. ASSUME failed' = TRUE,
             EndedBy' \in {EndedBy, IF EndedBy = "none" THEN "failure" ELSE EndedBy}
      PROVE  [Life!Next]_(Life!vars)
  BY <1>1 DEF Life!Next, Life!Fail
<1>2. ASSUME failed' = failed, EndedBy' = EndedBy
      PROVE  [Life!Next]_(Life!vars)
  BY <1>2 DEF Life!vars
<1>3. CASE CheckFlags \/ SetupFails \/ RegisterFails
  BY <1>1, <1>2, <1>3
     DEF CheckFlags, SetupFails, RegisterFails, Returns, EndedBy, Alive,
         groupVars
<1>4. CASE Setup
  BY <1>2, <1>4 DEF Setup, EndedBy, Alive
<1>5. CASE StartServing
  <2>1. flags.path.segments \notin Routes(flags)
    BY <1>5, ValidPathIsFree
       DEF StartServing, IInv, Running, FlagsChecked, TypeOfRun
  <2> QED
    BY <1>2, <1>5, <2>1 DEF StartServing, EndedBy, Alive
<1>6. CASE WaitReturns
  <2>1. cause # "none"
    BY <1>6 DEF WaitReturns, IInv, Running, GroupInOrder, ServerInOrder,
                ctxDone, Goroutines
  <2> QED
    BY <1>2, <1>6, <2>1 DEF WaitReturns, Returns, EndedBy, groupVars
<1>7. CASE Fatal
  BY <1>1, <1>7 DEF Fatal, EndedBy, Alive, ctxDone
<1>8. CASE BackendStep \/ WatcherReturns \/ Shutdown \/ Drained
  BY <1>2, <1>8
     DEF BackendStep, LoopEnds, CloseBackend, WatcherJoined, WatcherGrace,
         WatcherAbandoned, WatcherReturns, Shutdown, Drained, Leaves, Goes,
         EndedBy, Alive, groupVars
<1>9. CASE Bind \/ ServerClosed
  BY <1>2, <1>9 DEF Bind, ServerClosed, ServeLoopEnds, Goes, EndedBy, Alive,
                    groupVars
<1>10. CASE ServeFails
  BY <1>1, <1>10 DEF ServeFails, ServeLoopEnds, EndedBy, Alive, groupVars
<1>11. CASE BindFails \/ GraceOver
  BY <1>1, <1>11 DEF BindFails, GraceOver, Leaves, EndedBy, Alive
<1>12. CASE ServeReturns
  <2>1. CASE cause # "none"
    BY <1>2, <1>12, <2>1 DEF ServeReturns, Leaves, EndedBy, Alive
  <2>2. CASE cause = "none"
    <3>1. serveErr = "serve" /\ failed
      BY <1>12, <2>2
         DEF ServeReturns, IInv, Running, ServerInOrder, FailuresAreKnown,
             TypeOfRun, ctxDone
    <3>2. EndedBy = "none" /\ EndedBy' = "failure" /\ failed' = failed
      BY <1>12, <2>2, <3>1 DEF ServeReturns, ServeResult, Leaves, EndedBy, Alive
    <3> QED
      BY <3>1, <3>2 DEF Life!Next, Life!GiveUp
  <2> QED
    BY <2>1, <2>2
<1>13. ASSUME NEW r \in Requests, ScrapeStep(r) \/ ScrapeEvent(r)
       PROVE  [Life!Next]_(Life!vars)
  BY <1>2, <1>13
     DEF ScrapeStep, ScrapeEvent, LatestReturns, RefusalSent, Written,
         WriteTimesOut, Admit, Refuse, DeadlineStrikes, ClientLeaves,
         ContextEnds, CollectionReturns, Panics, Rendered, HandlerLeaves,
         groupVars, EndedBy, Alive
<1> QED
  BY <1>3, <1>4, <1>5, <1>6, <1>7, <1>8, <1>9, <1>10, <1>11, <1>12, <1>13
     DEF AppStep, AppNext, RunStep, ServeStep, ShutdownStep

(* Of the steps around the application, too.                               *)
LEMMA ProcessStepIsLife ==
  IInv /\ (Signal \/ MainExits \/ ServiceStep \/ RequestStop) =>
    [Life!Next]_(Life!vars)
<1> SUFFICES ASSUME IInv, Signal \/ MainExits \/ ServiceStep \/ RequestStop
             PROVE  [Life!Next]_(Life!vars)
  OBVIOUS
<1>0. /\ cause = "canceled" => asked
      /\ asked \in BOOLEAN /\ failed \in BOOLEAN
      /\ cause \notin {"none", "canceled"} => failed
      /\ outcome \notin {"none", "nil"} => failed
      /\ run = "returned" => outcome # "none"
      /\ run # "panicked"
      /\ outcome = "nil" => cause = "canceled"
  BY DEF IInv, Running, Marks, ProcessInOrder, FailuresAreKnown, CleanServer,
         FlagsChecked
<1>1. CASE Signal
  <2>1. /\ asked' = TRUE /\ ~asked
        /\ UNCHANGED <<failed, exit>> /\ Foreground' = Foreground
    BY <1>1 DEF Signal, Foreground
  <2>2. EndedBy' = IF EndedBy = "none" THEN "request" ELSE EndedBy
    BY <1>1 DEF Signal, CancelContext, EndedBy, Alive
  <2> QED
    BY <2>1, <2>2 DEF Life!Next, Life!Ask
<1>2. CASE RequestStop
  <2>1. /\ asked' = TRUE /\ ~asked /\ EndedBy' = EndedBy
        /\ UNCHANGED <<failed, exit>> /\ Foreground' = Foreground
    BY <1>2 DEF RequestStop, Foreground, appVars, groupVars, EndedBy, Alive
  <2> QED
    BY <2>1 DEF Life!Next, Life!Ask
<1>3. CASE ReportRunning
  BY <1>3 DEF ReportRunning, Foreground, appVars, groupVars, EndedBy, Alive,
              Life!vars
<1>4. CASE StopReceived
  <2>1. /\ asked /\ UNCHANGED <<asked, failed, exit>>
        /\ Foreground' = Foreground
    BY <1>4 DEF StopReceived, Foreground
  <2>2. EndedBy' = IF EndedBy = "none" THEN "request" ELSE EndedBy
    BY <1>4 DEF StopReceived, CancelContext, EndedBy, Alive
  <2> QED
    BY <2>1, <2>2 DEF Life!Next, Life!Heed, Life!vars
<1>5. CASE MainExits \/ EndsByItself
  <2>1. /\ run = "returned" /\ exit = NotYet
        /\ exit' = IF outcome = "nil" THEN 0 ELSE 1
        /\ UNCHANGED <<asked, failed>> /\ EndedBy' = EndedBy
        /\ Foreground' = Foreground
    BY <1>5
       DEF MainExits, EndsByItself, Foreground, appVars, groupVars, EndedBy,
           Alive, IInv, ProcessInOrder
  <2>2. CASE outcome = "nil"
    <3>1. EndedBy = "request"
      BY <1>0, <2>2 DEF EndedBy
    <3> QED
      BY <2>1, <2>2, <3>1 DEF Life!Next, Life!ExitWell
  <2>3. CASE outcome # "nil"
    <3>1. failed /\ EndedBy # "none"
      BY <1>0, <2>1, <2>3 DEF EndedBy, Alive
    <3> QED
      BY <2>1, <2>3, <3>1 DEF Life!Next, Life!ExitBadly
  <2> QED
    BY <2>2, <2>3
<1>6. CASE StopDone
  <2>1. /\ ~Foreground /\ asked /\ exit = NotYet /\ exit' = 0
        /\ UNCHANGED <<asked, failed>> /\ EndedBy' = EndedBy
        /\ Foreground' = Foreground
    BY <1>6 DEF StopDone, Foreground, appVars, groupVars, EndedBy, Alive, IInv,
                ProcessInOrder
  <2>2. EndedBy # "none"
    BY <1>6 DEF StopDone, EndedBy, Alive
  <2> QED
    BY <2>1, <2>2 DEF Life!Next, Life!ExitWell
<1> QED
  BY <1>1, <1>2, <1>3, <1>4, <1>5, <1>6 DEF ServiceStep

(* The process implements the safety part of Lifetime: whatever it ends    *)
(* with, its status tells a stop that was asked for from a failure.        *)
THEOREM AppImplementsLifetime == Spec => Life!Init /\ [][Life!Next]_(Life!vars)
<1>1. Init => Life!Init
  BY DEF Init, AppInit, Life!Init, EndedBy, Alive, Foreground
<1>2. IInv /\ [Next]_vars => [Life!Next]_(Life!vars)
  <2> SUFFICES ASSUME IInv, [Next]_vars PROVE [Life!Next]_(Life!vars)
    OBVIOUS
  <2>1. CASE UNCHANGED vars
    BY <2>1 DEF vars, appVars, groupVars, Life!vars, EndedBy, Alive, Foreground
  <2> QED
    BY <2>1, AppStepIsLife, ProcessStepIsLife DEF Next
<1> QED
  BY <1>1, <1>2, AppInvariant, PTL DEF Spec
=============================================================================
