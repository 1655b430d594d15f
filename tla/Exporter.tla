------------------------------ MODULE Exporter ------------------------------
(***************************************************************************)
(* The exporter: a snapshot rendered as the sequence of series that one    *)
(* scrape hands to the registry.  The registry takes all of them or, when  *)
(* two have the same name and labels or one was never described, none.     *)
(***************************************************************************)
EXTENDS SmiTable

(* The name of a field's metric and what its values are multiplied by.     *)
knownUnitSuffixes ==
  [W       |-> [suffix |-> "_watts",   times |-> "1"],
   MHz     |-> [suffix |-> "_clock_hz", times |-> "1000000"],
   MiB     |-> [suffix |-> "_bytes",   times |-> "1048576"],
   percent |-> [suffix |-> "_ratio",   times |-> "0.01"],
   us      |-> [suffix |-> "_seconds", times |-> "0.000001"],
   ms      |-> [suffix |-> "_seconds", times |-> "0.001"],
   seconds |-> [suffix |-> "_seconds", times |-> "1"],
   Wps     |-> [suffix |-> "_watts_per_second", times |-> "1"]]

MetricName(r) ==
  CASE r.unit = "" -> r.base
    [] r.unit \in DOMAIN knownUnitSuffixes ->
         r.base \o knownUnitSuffixes[r.unit].suffix
    [] OTHER -> r.base \o "_" \o r.unit

Multiplier(r) ==
  IF r.unit \in DOMAIN knownUnitSuffixes
    THEN knownUnitSuffixes[r.unit].times ELSE "1"

HealthNames == {"failed_scrapes_total", "last_collect_success",
                "last_collect_success_timestamp_seconds",
                "last_collect_duration_seconds"}
AppNames == {"compute_app_info", "compute_app_used_memory_bytes",
             "compute_apps", "compute_apps_last_collect_success"}
PcieNames == {"pcie_throughput_tx_bytes_per_second",
              "pcie_throughput_rx_bytes_per_second"}
MigMemory == <<"mig_memory_total_bytes", "mig_memory_used_bytes",
               "mig_memory_free_bytes", "mig_memory_reserved_bytes">>
MigActivity == <<"mig_graphics_activity_ratio", "mig_sm_activity_ratio",
                 "mig_sm_occupancy_ratio", "mig_tensor_activity_ratio",
                 "mig_pcie_throughput_tx_bytes_per_second",
                 "mig_pcie_throughput_rx_bytes_per_second">>
MigNames == {"mig_info"} \cup ToSet(MigMemory) \cup ToSet(MigActivity)
XidNames == {"xid_errors_total", "xid_last_timestamp_seconds"}
ExitCodeNames == {"command_exit_code", "nvml_return_code"}

(* Whatever features are on, and whatever the backend.                     *)
reservedMetricNames ==
  HealthNames \cup {"gpu_info"} \cup AppNames \cup PcieNames
    \cup {"energy_joules_total"} \cup MigNames \cup XidNames \cup ExitCodeNames

(* Fault: every claimant gets the contested name.                          *)
FaultContested(returned, q) == FALSE

Contested(returned, q) ==
  \E other \in DOMAIN returned \ {q} :
    MetricName(returned[other]) = MetricName(returned[q])

BuildQFieldToMetricInfoMap(returned) ==
  LET usable(q) == /\ returned[q].base # ""
                   /\ MetricName(returned[q]) \notin reservedMetricNames
                   /\ ~Contested(returned, q)
  IN  [q \in {f \in DOMAIN returned : usable(f)} |->
         [name |-> MetricName(returned[q]), times |-> Multiplier(returned[q])]]

(* Describe: nothing of a feature that is off.                             *)
Described(resolved, features) ==
  {m.name : m \in Range(BuildQFieldToMetricInfoMap(resolved.returned))}
    \cup HealthNames \cup {"gpu_info", features.exitCode}
    \cup (IF features.apps   THEN AppNames ELSE {})
    \cup (IF features.pcie   THEN PcieNames ELSE {})
    \cup (IF features.energy THEN {"energy_joules_total"} ELSE {})
    \cup (IF features.mig    THEN MigNames ELSE {})
    \cup (IF features.xids   THEN XidNames ELSE {})

-----------------------------------------------------------------------------
(* Series.  A value is a tuple: that of a field is the text it comes from  *)
(* and its multiplier, and <<>> where the value makes no difference.       *)
Emit(name, labels, value) ==
  <<[name |-> name, labels |-> labels, value |-> value]>>

When(condition, series) == IF condition THEN series ELSE <<>>

ForEach(items, Render(_)) == FlattenSeq([i \in DOMAIN items |-> Render(items[i])])

Flag(condition) == IF condition THEN <<1>> ELSE <<0>>

RenderHealth(s, features) ==
  Emit("failed_scrapes_total", <<>>, <<>>)
  \o Emit("last_collect_success", <<>>, Flag(s.success))
  \o When(s.attempted, Emit(features.exitCode, <<>>, <<s.exitCode>>)
                       \o Emit("last_collect_duration_seconds", <<>>, <<>>))
  \o When(s.everSucceeded,
          Emit("last_collect_success_timestamp_seconds", <<>>, <<>>))

RenderXIDs(counters, features) ==
  When(features.xids,
       ForEach(counters,
         LAMBDA c : Emit("xid_errors_total", <<c.uuid, c.xid>>, <<c.count>>)
                    \o Emit("xid_last_timestamp_seconds", <<c.uuid, c.xid>>, <<>>)))

RenderCell(cell, uuid, infos) ==
  When(cell.q \in DOMAIN infos /\ IsValue(cell.q, cell.raw.kind),
       Emit(infos[cell.q].name, <<uuid>>,
            <<"field", cell.raw.of, cell.raw.uuid, infos[cell.q].times>>))

RenderRow(row, infos, cuda) ==
  LET uuid == row.byField["uuid"].uuid
      label(q) == IF q = "uuid" THEN uuid
                    ELSE row.byField[q].of \o row.byField[q].uuid
  IN  Emit("gpu_info",
           [i \in DOMAIN InfoFields |-> label(InfoFields[i])] \o <<cuda>>, <<1>>)
      \o ForEach(row.cells, LAMBDA cell : RenderCell(cell, uuid, infos))

AppLabels(app, features) ==
  <<app.uuid, app.pid, app.name>>
    \o IF features.migLabels THEN <<app.gi, app.ci>> ELSE <<>>

RenderApp(app, features) ==
  Emit("compute_app_info", AppLabels(app, features), <<1>>)
  \o When(~KnownAbsent(app.memory) /\ app.memory = "number",
          Emit("compute_app_used_memory_bytes", AppLabels(app, features), <<>>))

(* Fault: whoever could not be observed is idle.                           *)
FaultIdle(s) == TRUE

(* The per-process series are there to be rendered.                        *)
Observed(s) == s.appsSuccess

RenderApps(s, features) ==
  LET gpus == {s.rows[g].byField["uuid"].uuid : g \in DOMAIN s.rows}
      uuids == Keys(gpus \cup {s.apps[a].uuid : a \in DOMAIN s.apps})
      count(uuid) == Cardinality({a \in DOMAIN s.apps : s.apps[a].uuid = uuid})
  IN  When(features.apps /\ s.appsAttempted,
        Emit("compute_apps_last_collect_success", <<>>, Flag(s.appsSuccess))
        \o When(Observed(s),
                ForEach(s.apps, LAMBDA app : RenderApp(app, features))
                \o ForEach(uuids, LAMBDA uuid : Emit("compute_apps", <<uuid>>,
                                                     <<count(uuid)>>))))

(* Memory and activity belong to the GPU instance, of which there is one   *)
(* for any number of MIG devices.                                          *)
RenderMIGInstance(instances, i) ==
  LET it == instances[i]
      labels == <<it.parent, it.gi>>
      emitted == \E j \in 1..(i - 1) :
                   instances[j].parent = it.parent /\ instances[j].gi = it.gi
  IN  Emit("mig_info", <<it.parent, it.uuid, it.gi, it.ci>>, <<1>>)
      \o When(~emitted,
              When(it.memory, ForEach(MigMemory, LAMBDA n : Emit(n, labels, <<>>)))
              \o When(it.utilization,
                      ForEach(MigActivity, LAMBDA n : Emit(n, labels, <<>>))))

RenderExtras(s, features) ==
  When(features.pcie, ForEach(s.pcie, LAMBDA uuid :
         Emit("pcie_throughput_tx_bytes_per_second", <<uuid>>, <<>>)
         \o Emit("pcie_throughput_rx_bytes_per_second", <<uuid>>, <<>>)))
  \o When(features.energy, ForEach(s.energy, LAMBDA uuid :
            Emit("energy_joules_total", <<uuid>>, <<>>)))
  \o When(features.mig,
          FlattenSeq([i \in DOMAIN s.mig |-> RenderMIGInstance(s.mig, i)]))

(* Collect.  A snapshot has no table when its collection failed, and then  *)
(* only its health is known, and what the events say.                      *)
Collect(s, counters, resolved, features) ==
  LET infos == BuildQFieldToMetricInfoMap(resolved.returned)
  IN  RenderHealth(s, features)
      \o RenderXIDs(counters, features)
      \o When(s.hasTable,
              ForEach(s.rows, LAMBDA row : RenderRow(row, infos, s.cuda))
              \o RenderApps(s, features)
              \o RenderExtras(s, features))

(* What the registry accepts.                                              *)
Accepted(series, described) ==
  /\ \A i, j \in DOMAIN series :
       i # j => <<series[i].name, series[i].labels>>
                  # <<series[j].name, series[j].labels>>
  /\ \A i \in DOMAIN series : series[i].name \in described
=============================================================================
