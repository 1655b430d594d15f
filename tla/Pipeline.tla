------------------------------- MODULE Pipeline -----------------------------
(***************************************************************************)
(* The pipeline around nvidia-smi: the fields are resolved at startup, a   *)
(* collection queries the GPUs and then the processes, a scrape renders    *)
(* the outcome.  Two collections may be under way, an abandoned one and    *)
(* the one that has taken its place.  The machine, or the configuration    *)
(* file of the demo backend, changes at any time.                          *)
(*                                                                         *)
(* The demo backend answers from one configuration per collection: it      *)
(* reads the file when the collection begins, and cycleMu keeps the next   *)
(* collection out until the extras have been laid over the reading.        *)
(***************************************************************************)
EXTENDS Exporter, Integers

CONSTANTS
  CommandLines,   \* what the flags say of fields, features and the backend
  Worlds,         \* machines, or configuration files
  Cycles,         \* collections that may overlap
  MaxXids,        \* bound: XID events of a demo GPU
  NoOne

ASSUME CyclesAssumption == NoOne \notin Cycles

ASSUME CommandLinesAssumption ==
  \A c \in CommandLines :
    c.list \in Seq(STRING) /\ c.apps \in BOOLEAN /\ c.migLabels \in BOOLEAN

(* The built-in mapping has the units that nvidia-smi prints.              *)
ASSUME BuiltinAssumption ==
  \A q \in DOMAIN Builtin : Builtin[q].unit = Returned[q].unit

Processes ==
  [uuid : STRING, pid : STRING, name : STRING, slot : Nat, parts : Nat,
   numericPid : BOOLEAN, memory : STRING, gi : STRING, ci : STRING]

(* A configuration that is valid has each GPU instance, and each compute   *)
(* instance of it, once.                                                   *)
ASSUME WorldsAssumption ==
  \A w \in Worlds :
    /\ w.help \in Seq(STRING)
    /\ w.gpus \in Seq(ToSet(w.gpus)) /\ w.apps.apps \in Seq(Processes)
    /\ w.initialXids \in Seq([gpu : Nat, xid : STRING, count : Nat])
    /\ w.mig \in Seq([gpu : Nat, gi : STRING, cis : Seq(STRING)])
    /\ w.valid => \A i, j \in DOMAIN w.mig :
         /\ IsInjective(w.mig[i].cis)
         /\ w.mig[i].gpu = w.mig[j].gpu /\ w.mig[i].gi = w.mig[j].gi => i = j

(* Nothing that becomes a series is listed twice under the same labels.    *)
ASSUME ListedOnceAssumption ==
  \A w \in Worlds :
    /\ \A g, h \in DOMAIN w.gpus : w.gpus[g].uuid = w.gpus[h].uuid => g = h
    /\ \A a, b \in DOMAIN w.apps.apps :
         LET p == w.apps.apps[a]
             q == w.apps.apps[b]
         IN  Usable(p) /\ Usable(q) /\ p.uuid = q.uuid /\ p.pid = q.pid
               /\ p.name = q.name => a = b

VARIABLES
  cfg,        \* the command line
  startup,    \* where the startup is
  query,      \* the fields it means to query
  resolved,   \* ResolvedFields
  cuda,       \* the cuda_version label
  world,      \* what nvidia-smi would tell, or what is in the file
  current,    \* demo: the configuration of the current cycle
  synth,      \* demo: the synthesized state
  cycleMu,    \* demo: the cycle that holds the lock
  cyc,        \* where each collection is
  reading,    \* what it has read
  succeeded   \* a collection has succeeded

startVars == <<cfg, startup, query, resolved, cuda>>
demoVars  == <<current, synth, cycleMu>>
vars == <<startVars, world, demoVars, cyc, reading, succeeded>>

Demo == cfg.backend = "demo"

NoReading ==
  [ok |-> FALSE, exitCode |-> -1, rows |-> <<>>, appsAttempted |-> FALSE,
   appsSuccess |-> FALSE, apps |-> <<>>, energy |-> <<>>, mig |-> <<>>,
   gpusOf |-> "none", appsOf |-> "none", extrasOf |-> "none"]

(* resetState.                                                             *)
NoSynth == [xids |-> [pair \in {} |-> 0], seeded |-> FALSE, seenGIs |-> {}]

Init ==
  /\ cfg \in CommandLines
  /\ startup = "begin"
  /\ query = <<>> /\ resolved = Failure /\ cuda = ""
  /\ world \in Worlds /\ current = world /\ synth = NoSynth
  /\ cycleMu = NoOne
  /\ cyc = [k \in Cycles |-> "idle"]
  /\ reading = [k \in Cycles |-> NoReading]
  /\ succeeded = FALSE

ChangeWorld ==
  /\ world' \in Worlds \ {world}
  /\ UNCHANGED <<startVars, demoVars, cyc, reading, succeeded>>

-----------------------------------------------------------------------------
(* RunFunc.  nvidia-smi may fail, or time out, at any call; the fake does  *)
(* only what its configuration says, and has no exit code of its own.      *)
Machine == IF Demo THEN current ELSE world

Runs == Machine.works

MayFail == ~Demo \/ ~Runs

ExitCodes == IF Demo THEN {-1} ELSE {-1, 9}

Knows(fields) == ToSet(fields) \subseteq Machine.fields

QueryTable(fields) ==
  IF Runs /\ Knows(fields)
    THEN ParseCSVIntoTable(Output(Machine, fields), fields) ELSE Failure

-----------------------------------------------------------------------------
(* Startup.                                                                *)

Starting(to, q, r) ==
  /\ startup' = to /\ query' = q /\ resolved' = r
  /\ UNCHANGED <<cfg, cuda, world, demoVars, cyc, reading, succeeded>>

Normalized(fields) ==
  filterExcludedQFields(withRequiredFields(fields), cfg.excluded)

BeginResolving ==
  /\ startup = "begin" /\ cfg.backend # "nvml" /\ ~Demo
  /\ IF cfg.list = AUTO THEN Starting("discover", <<>>, Failure)
                        ELSE Starting("initial", Normalized(cfg.list), Failure)

(* demo.New: the configuration must be valid and serve a table.            *)
NewDemo ==
  /\ startup = "begin" /\ Demo
  /\ current' = world /\ synth' = NoSynth
  /\ IF world.valid /\ world.works
       THEN IF cfg.list = AUTO
              THEN startup' = "discover" /\ query' = <<>>
              ELSE startup' = "initial" /\ query' = Normalized(cfg.list)
       ELSE startup' = "rejected" /\ query' = query
  /\ UNCHANGED <<cfg, resolved, cuda, world, cycleMu, cyc, reading, succeeded>>

ResolveNVML ==
  /\ startup = "begin" /\ cfg.backend = "nvml"
  /\ \E oldDriver \in BOOLEAN :
       LET r == CatalogResolve(oldDriver, cfg.list, cfg.excluded)
       IN  Starting(IF r.failed THEN "failed" ELSE "up", query, r)

(* autoQFields.                                                            *)
Discover ==
  /\ startup = "discover" /\ Runs /\ ExtractQFields(Machine.help) # <<>>
  /\ Starting("initial", Normalized(ExtractQFields(Machine.help)), Failure)

DiscoverFails ==
  /\ startup = "discover"
  /\ MayFail \/ ExtractQFields(Machine.help) = <<>>
  /\ Starting("version", query, builtinResolvedFields(cfg.excluded))

(* queryRFields.                                                           *)
InitialQuery ==
  LET table == QueryTable(query)
  IN  /\ startup = "initial" /\ ~table.failed
      /\ Starting("version", query,
                  Resolved(query, [q \in ToSet(query) |->
                    table.rFields[CHOOSE i \in DOMAIN query : query[i] = q]]))

InitialQueryFails ==
  LET r == InitialQueryFailed(cfg.list = AUTO, query, cfg.excluded)
  IN  /\ startup = "initial" /\ (MayFail \/ QueryTable(query).failed)
      /\ Starting(IF r.failed THEN "failed" ELSE "version", query, r)

QueryCudaVersion ==
  /\ startup = "version"
  /\ \/ Runs /\ cuda' = ParseCudaVersion(Machine.version)
     \/ MayFail /\ cuda' = ""
  /\ startup' = "up"
  /\ UNCHANGED <<cfg, query, resolved, world, demoVars, cyc, reading, succeeded>>

-----------------------------------------------------------------------------
(* A collection.                                                           *)

Ends(k, r) ==
  /\ cyc' = [cyc EXCEPT ![k] = "done"]
  /\ reading' = [reading EXCEPT ![k] = r]
  /\ succeeded' = (succeeded \/ r.ok)
  /\ cycleMu' = IF cycleMu = k THEN NoOne ELSE cycleMu
  /\ UNCHANGED <<startVars, world>>

Goes(k, to, r) ==
  /\ cyc' = [cyc EXCEPT ![k] = to]
  /\ reading' = [reading EXCEPT ![k] = r]
  /\ UNCHANGED <<startVars, world, demoVars, succeeded>>

(* Fault: cycles are not serialized.                                       *)
FaultNoCycleMu(k) == cycleMu' = NoOne

LockCycle(k) == cycleMu = NoOne /\ cycleMu' = k

(* WrapQueryFunc locks and reads the file; beginCycle resets what was      *)
(* synthesized when the file is another.                                   *)
BeginDemoCycle(k) ==
  /\ startup = "up" /\ Demo /\ cyc[k] = "idle"
  /\ world.valid /\ LockCycle(k)
  /\ current' = world
  /\ synth' = IF world = current THEN synth ELSE NoSynth
  /\ cyc' = [cyc EXCEPT ![k] = "gpus"]
  /\ UNCHANGED <<startVars, world, reading, succeeded>>

BadConfiguration(k) ==
  /\ startup = "up" /\ Demo /\ cyc[k] = "idle"
  /\ ~world.valid /\ cycleMu = NoOne
  /\ Ends(k, NoReading)
  /\ UNCHANGED <<current, synth>>

BeginCycle(k) ==
  /\ startup = "up" /\ cfg.backend = "exec" /\ cyc[k] = "idle"
  /\ Goes(k, "gpus", NoReading)

QueryGpus(k) ==
  LET table == QueryTable(resolved.query)
      r == [NoReading EXCEPT !.ok = TRUE, !.exitCode = 0,
                             !.rows = table.rows, !.gpusOf = Machine.id]
  IN  /\ cyc[k] = "gpus" /\ ~table.failed
      /\ CASE cfg.apps          -> Goes(k, "apps", r)
           [] ~cfg.apps /\ Demo -> Goes(k, "overlay", r)
           [] OTHER             -> Ends(k, r) /\ UNCHANGED <<current, synth>>

(* A run that fails has an exit code, one that cannot be parsed has not.   *)
QueryFails(k) ==
  /\ cyc[k] = "gpus"
  /\ \/ /\ MayFail \/ ~Knows(resolved.query)
        /\ \E code \in ExitCodes : Ends(k, [NoReading EXCEPT !.exitCode = code])
     \/ /\ Runs /\ Knows(resolved.query) /\ QueryTable(resolved.query).failed
        /\ Ends(k, NoReading)
  /\ UNCHANGED <<current, synth>>

AppsRead(k, r) ==
  IF Demo THEN Goes(k, "overlay", r)
          ELSE Ends(k, r) /\ UNCHANGED <<current, synth>>

QueryComputeApps(k) ==
  LET parsed == ParseComputeApps(Machine.apps)
  IN  /\ cyc[k] = "apps" /\ Runs /\ ~parsed.failed
      /\ AppsRead(k, [reading[k] EXCEPT !.appsAttempted = TRUE,
                        !.appsSuccess = TRUE, !.apps = parsed.apps,
                        !.appsOf = Machine.id])

(* It fails softly.                                                        *)
ComputeAppsFail(k) ==
  /\ cyc[k] = "apps"
  /\ MayFail \/ ParseComputeApps(Machine.apps).failed
  /\ AppsRead(k, [reading[k] EXCEPT !.appsAttempted = TRUE])

-----------------------------------------------------------------------------
(* The overlay of the demo backend, in terms of the table that was served. *)

Uuids(rows) == [g \in DOMAIN rows |-> rows[g].byField["uuid"].uuid]

(* The MIG devices of the GPUs the table has.                              *)
Instances(uuids) ==
  FlattenSeq([i \in DOMAIN current.mig |->
    LET it == current.mig[i]
    IN  IF it.gpu \in DOMAIN uuids
          THEN [c \in DOMAIN it.cis |->
                  [parent |-> uuids[it.gpu], gi |-> it.gi, ci |-> it.cis[c]]]
          ELSE <<>>])

(* No utilization the first time a GPU instance is seen; one that is gone  *)
(* starts over.                                                            *)
synthMIG(uuids) ==
  LET instances == Instances(uuids)
      device(it) ==
        [parent |-> it.parent, gi |-> it.gi, ci |-> it.ci,
         uuid |-> it.parent \o "/" \o it.gi \o "/" \o it.ci, memory |-> TRUE,
         utilization |-> <<it.parent, it.gi>> \in synth.seenGIs]
  IN  [i \in DOMAIN instances |-> device(instances[i])]

(* A process keeps its instance: the slot is a hash of its pid.            *)
attributeApps(uuids, apps) ==
  LET refs(uuid) == SelectSeq(Instances(uuids), LAMBDA it : it.parent = uuid)
      at(app) == refs(app.uuid)[(app.slot % Len(refs(app.uuid))) + 1]
  IN  [a \in DOMAIN apps |->
         IF refs(apps[a].uuid) = <<>> THEN apps[a]
           ELSE [apps[a] EXCEPT !.gi = at(apps[a]).gi, !.ci = at(apps[a]).ci]]

bumpXID(xids, uuid, xid, n) ==
  LET known(pair) == IF pair \in DOMAIN xids THEN xids[pair] ELSE 0
  IN  [pair \in DOMAIN xids \cup {<<uuid, xid>>} |->
         known(pair) + IF pair = <<uuid, xid>> THEN n ELSE 0]

(* The history in the configuration, once.                                 *)
seedInitialXIDs(uuids) ==
  IF synth.seeded THEN synth.xids
    ELSE FoldLeft(LAMBDA xids, event :
                    IF event.gpu \notin DOMAIN uuids \/ event.count = 0 THEN xids
                      ELSE bumpXID(xids, uuids[event.gpu], event.xid, event.count),
                  synth.xids, current.initialXids)

(* Then, as the clock has it, further events.                              *)
tickXIDs(uuids) ==
  LET seeded == seedInitialXIDs(uuids)
  IN  {seeded} \cup
        {bumpXID(seeded, uuids[g], "79", 1) : g \in
           {g \in DOMAIN uuids : current.xidInterval /\
              \A pair \in DOMAIN seeded : seeded[pair] < MaxXids}}

Overlay(k) ==
  LET r == reading[k]
      uuids == Uuids(r.rows)
      mig == synthMIG(uuids)
  IN  /\ cyc[k] = "overlay"
      /\ Ends(k, [r EXCEPT !.energy = uuids, !.mig = mig,
                           !.apps = attributeApps(uuids, r.apps),
                           !.extrasOf = current.id])
      /\ \E xids \in tickXIDs(uuids) :
           synth' = [xids |-> xids, seeded |-> TRUE,
                     seenGIs |-> {<<mig[i].parent, mig[i].gi>> : i \in DOMAIN mig}]
      /\ UNCHANGED current

(* The reading is no longer the latest.                                    *)
Retire(k) == cyc[k] = "done" /\ Goes(k, "idle", NoReading)

-----------------------------------------------------------------------------
Startup ==
  \/ BeginResolving \/ NewDemo \/ ResolveNVML
  \/ Discover \/ DiscoverFails \/ InitialQuery \/ InitialQueryFails
  \/ QueryCudaVersion

Collection(k) ==
  \/ BeginDemoCycle(k) \/ BadConfiguration(k) \/ BeginCycle(k)
  \/ QueryGpus(k) \/ QueryFails(k) \/ QueryComputeApps(k) \/ ComputeAppsFail(k)
  \/ Overlay(k) \/ Retire(k)

Next == ChangeWorld \/ Startup \/ \E k \in Cycles : Collection(k)

Spec == Init /\ [][Next]_vars

-----------------------------------------------------------------------------
(* Scrapes.                                                                *)

(* collectOnce: a reading that failed has no table.                        *)
Publish(r, attempted) ==
  [attempted |-> attempted, success |-> r.ok, hasTable |-> r.ok,
   everSucceeded |-> attempted /\ succeeded, exitCode |-> r.exitCode,
   cuda |-> cuda, rows |-> r.rows, appsAttempted |-> r.appsAttempted,
   appsSuccess |-> r.appsSuccess, apps |-> r.apps, energy |-> r.energy,
   pcie |-> r.energy, mig |-> r.mig]

Snapshot(k) == Publish(reading[k], TRUE)

BeforeAny == Publish(NoReading, FALSE)

(* setupExporter: demo serves what nvml serves.                            *)
Features ==
  [apps |-> cfg.apps, migLabels |-> cfg.migLabels, pcie |-> Demo,
   energy |-> Demo, mig |-> Demo, xids |-> Demo,
   exitCode |-> IF Demo THEN "nvml_return_code" ELSE "command_exit_code"]

(* XIDCounts.                                                              *)
Counters ==
  LET pairs == Keys(DOMAIN synth.xids)
  IN  [i \in DOMAIN pairs |-> [uuid |-> pairs[i][1], xid |-> pairs[i][2],
                               count |-> synth.xids[pairs[i]]]]

Done == {k \in Cycles : cyc[k] = "done"}

Scrape(s) == Collect(s, Counters, resolved, Features)

Scrapes == {Scrape(Snapshot(k)) : k \in Done} \cup {Scrape(BeforeAny)}

Named(scrape, name) == {i \in DOMAIN scrape : scrape[i].name = name}

-----------------------------------------------------------------------------
(* Auto mode comes up whatever nvidia-smi does; a list from the command    *)
(* line is served in full or the startup fails; the identity is always     *)
(* part of the query, and each field once.                                 *)
StartupHonoursTheList ==
  /\ startup = "failed" => cfg.list # AUTO
  /\ startup \in {"version", "up"} =>
       /\ ~resolved.failed
       /\ IsInjective(resolved.query)
       /\ ToSet(InfoFields) \subseteq ToSet(resolved.query)
       /\ ToSet(resolved.query) \cap cfg.excluded \subseteq ToSet(InfoFields)
       /\ cfg.list # AUTO =>
            ToSet(resolved.query)
              = (ToSet(cfg.list) \ cfg.excluded) \cup ToSet(InfoFields)

(* A value is exported under the name, the GPU and the unit of the field   *)
(* nvidia-smi printed it for, commas and odd lines or not.                 *)
ValuesStayWithTheirField ==
  startup = "up" =>
    LET infos == BuildQFieldToMetricInfoMap(resolved.returned)
    IN  \A scrape \in Scrapes : \A i \in DOMAIN scrape :
          LET s == scrape[i]
          IN  (Len(s.value) = 4) =>
                /\ s.value[2] \in DOMAIN infos
                /\ s.name = infos[s.value[2]].name
                /\ s.labels = <<s.value[3]>>
                /\ s.value[4] = Multiplier(Returned[s.value[2]])

(* No reading, however odd, makes the registry refuse a scrape as a whole: *)
(* series are unique and described.                                        *)
ScrapesAreAccepted ==
  startup = "up" =>
    \A scrape \in Scrapes : Accepted(scrape, Described(resolved, Features))

(* What could not be observed does not look idle: a failed collection has  *)
(* its health, the XID counters and nothing else, one without processes    *)
(* counts none for each GPU, one that could not list them counts nothing.  *)
FailureIsNotIdle ==
  startup = "up" => \A k \in Done :
    LET s == Snapshot(k)
        scrape == Scrape(s)
        health == HealthNames \cup ExitCodeNames
        gpus == {s.rows[g].byField["uuid"].uuid : g \in DOMAIN s.rows}
        counted == {scrape[i].labels[1] : i \in Named(scrape, "compute_apps")}
    IN  /\ Cardinality(Named(scrape, "xid_errors_total")) = Len(Counters)
        /\ \A i \in Named(scrape, "last_collect_success") :
             scrape[i].value = Flag(s.hasTable)
        /\ ~s.hasTable =>
             \A i \in DOMAIN scrape : scrape[i].name \in health \cup XidNames
        /\ s.appsSuccess => gpus \subseteq counted
        /\ s.appsAttempted /\ ~s.appsSuccess =>
             /\ counted = {}
             /\ \A i \in Named(scrape, "compute_apps_last_collect_success") :
                  scrape[i].value = <<0>>

(* A reading of the demo backend is of one configuration, though the file  *)
(* is edited and an abandoned collection overlaps its successor.           *)
OneConfigurationPerReading ==
  Demo => \A k \in Done : reading[k].ok =>
    /\ reading[k].extrasOf = reading[k].gpusOf
    /\ reading[k].appsSuccess => reading[k].appsOf = reading[k].gpusOf
=============================================================================
