--------------------------- MODULE PipelineProofs ---------------------------
(***************************************************************************)
(* The pipeline around nvidia-smi: what the startup resolves, what one     *)
(* configuration is read, and what every scrape serves.                    *)
(***************************************************************************)
EXTENDS Pipeline, OperatorProofs

-----------------------------------------------------------------------------
(* The lists of fields.                                                    *)

(* What every list that is queried has: the identity, each field once and  *)
(* no other excluded field; one from the command line is served in full.   *)
Serves(fields, list, excluded) ==
  /\ IsSeq(fields) /\ IsInjective(fields)
  /\ ToSet(InfoFields) \subseteq ToSet(fields)
  /\ ToSet(fields) \cap excluded \subseteq ToSet(InfoFields)
  /\ list # AUTO =>
       ToSet(fields) = (ToSet(list) \ excluded) \cup ToSet(InfoFields)

(* What a list without repetitions is left with is without repetitions.    *)
LEMMA FilteredList ==
  ASSUME NEW fields, IsSeq(fields), IsInjective(fields), NEW excluded
  PROVE  /\ IsSeq(filterExcludedQFields(fields, excluded))
         /\ IsInjective(filterExcludedQFields(fields, excluded))
         /\ ToSet(filterExcludedQFields(fields, excluded))
              = ToSet(fields) \ (excluded \ ToSet(InfoFields))
<1> DEFINE T == ToSet(fields)
           out == excluded \ ToSet(InfoFields)
           w == Without(fields, out)
<1>1. fields \in Seq(T)
  BY DEF IsSeq
<1> HIDE DEF T, out
<1>2. /\ w \in Seq(T) /\ ToSet(w) = ToSet(fields) \ out
      /\ \E at \in [DOMAIN w -> DOMAIN fields] :
           IsInjective(at) /\ \A i \in DOMAIN at : w[i] = fields[at[i]]
  BY <1>1, WithoutList
<1> HIDE DEF w
<1>3. PICK at \in [DOMAIN w -> DOMAIN fields] :
        IsInjective(at) /\ \A i \in DOMAIN at : w[i] = fields[at[i]]
  BY <1>2
<1>4. IsInjective(w)
  <2>1. \A i, j \in DOMAIN w : w[i] = w[j] => at[i] = at[j]
    BY <1>3 DEF IsInjective
  <2>2. \A i, j \in DOMAIN w : at[i] = at[j] => i = j
    BY <1>3 DEF IsInjective
  <2> QED BY <2>1, <2>2 DEF IsInjective
<1>5. IsSeq(w)
  BY <1>2, SeqElements
<1>6. filterExcludedQFields(fields, excluded) = w
  BY DEF filterExcludedQFields, w, out
<1> QED BY <1>2, <1>4, <1>5, <1>6 DEF out

(* The identity is added to a list, and what was there twice is there      *)
(* once.                                                                   *)
LEMMA RequiredList ==
  ASSUME NEW fields \in Seq(STRING)
  PROVE  /\ IsSeq(withRequiredFields(fields)) /\ IsInjective(withRequiredFields(fields))
         /\ ToSet(withRequiredFields(fields)) = ToSet(fields) \cup ToSet(InfoFields)
<1> DEFINE all == fields \o InfoFields
<1>1. IsSeq(fields) /\ IsSeq(InfoFields) /\ all \in Seq(STRING)
  BY InfoFieldsAssumption, SeqElements
<1>2. ToSet(all) = ToSet(fields) \cup ToSet(InfoFields)
  BY <1>1, ConcatElements
<1> HIDE DEF all
<1>3. /\ removeDuplicates(all) \in Seq(STRING)
      /\ ToSet(removeDuplicates(all)) = ToSet(all)
      /\ IsInjective(removeDuplicates(all))
  BY <1>1, DuplicatesRemoved
<1>4. withRequiredFields(fields) = removeDuplicates(all)
  BY DEF withRequiredFields, all
<1> QED BY <1>2, <1>3, <1>4, SeqElements

(* The list that is queried: the identity added, the excluded taken out.   *)
LEMMA NormalizedList ==
  ASSUME NEW fields \in Seq(STRING), cfg.list # AUTO => fields = cfg.list
  PROVE  Serves(Normalized(fields), cfg.list, cfg.excluded)
<1> DEFINE all == withRequiredFields(fields)
           left == filterExcludedQFields(all, cfg.excluded)
           info == ToSet(InfoFields)
<1>1. IsSeq(all) /\ IsInjective(all) /\ ToSet(all) = ToSet(fields) \cup info
  BY RequiredList
<1> HIDE DEF all
<1>2. /\ IsSeq(left) /\ IsInjective(left)
      /\ ToSet(left) = ToSet(all) \ (cfg.excluded \ info)
  BY <1>1, FilteredList
<1> HIDE DEF left
<1>3. Normalized(fields) = left
  BY DEF Normalized, left, all
<1>4. info \subseteq ToSet(left) /\ ToSet(left) \cap cfg.excluded \subseteq info
  BY <1>1, <1>2
<1>5. cfg.list # AUTO => ToSet(left) = (ToSet(cfg.list) \ cfg.excluded) \cup info
  BY <1>1, <1>2
<1> QED BY <1>2, <1>3, <1>4, <1>5 DEF Serves

(* The fields have the units of the header.                                *)
UnitsAre(r) ==
  \A q \in DOMAIN r.returned : r.returned[q].unit = Returned[q].unit

(* A list that is resolved is the list that was queried.                   *)
LEMMA ResolvedFields ==
  ASSUME NEW fields, NEW names
  PROVE  /\ ~Resolved(fields, names).failed
         /\ Resolved(fields, names).query = fields
         /\ Resolved(fields, names).returned = [q \in ToSet(fields) |-> names[q]]
BY DEF Resolved

(* The built-in list is for the automatic mode.                            *)
LEMMA BuiltinList ==
  ASSUME cfg.list = AUTO
  PROVE  /\ ~builtinResolvedFields(cfg.excluded).failed
         /\ Serves(builtinResolvedFields(cfg.excluded).query, cfg.list, cfg.excluded)
         /\ UnitsAre(builtinResolvedFields(cfg.excluded))
<1> DEFINE all == Keys(DOMAIN Builtin)
           left == filterExcludedQFields(all, cfg.excluded)
           info == ToSet(InfoFields)
<1>1. IsSeq(all) /\ IsInjective(all) /\ ToSet(all) = DOMAIN Builtin
  BY MappingsAssumption, KeysList, SeqElements
<1> HIDE DEF all
<1>2. /\ IsSeq(left) /\ IsInjective(left)
      /\ ToSet(left) = ToSet(all) \ (cfg.excluded \ info)
  BY <1>1, FilteredList
<1> HIDE DEF left
<1>3. /\ builtinResolvedFields(cfg.excluded).query = left
      /\ ~builtinResolvedFields(cfg.excluded).failed
      /\ builtinResolvedFields(cfg.excluded).returned
           = [q \in ToSet(left) |-> Builtin[q]]
  BY ResolvedFields DEF builtinResolvedFields, left, all
<1>4. info \subseteq ToSet(all)
  BY <1>1, MappingsAssumption
<1>5. info \subseteq ToSet(left) /\ ToSet(left) \cap cfg.excluded \subseteq info
  BY <1>2, <1>4
<1>6. UnitsAre(builtinResolvedFields(cfg.excluded))
  <2>1. ToSet(left) \subseteq DOMAIN Builtin
    BY <1>1, <1>2
  <2> QED BY <1>3, <2>1, BuiltinAssumption DEF UnitsAre
<1> QED BY <1>2, <1>3, <1>5, <1>6 DEF Serves

(* The catalog of the nvml backend serves a list in full or fails, and     *)
(* does not fail in the automatic mode.                                    *)
LEMMA CatalogList ==
  ASSUME NEW oldDriver \in BOOLEAN, cfg.list \in Seq(STRING),
         NEW r, r = CatalogResolve(oldDriver, cfg.list, cfg.excluded)
  PROVE  /\ r.failed => cfg.list # AUTO
         /\ ~r.failed => Serves(r.query, cfg.list, cfg.excluded)
<1> DEFINE spelled(q) == IF oldDriver /\ q \in DOMAIN Aliases THEN Aliases[q] ELSE q
           canonical == Keys(DOMAIN Catalog)
           names == {Aliases[q] : q \in DOMAIN Aliases}
           vocabulary == [q \in DOMAIN Catalog \cup names |->
                            IF q \in names THEN [base |-> q, unit |-> ""]
                                           ELSE Catalog[q]]
           order == [i \in DOMAIN canonical |-> spelled(canonical[i])]
           info == ToSet(InfoFields)
           fields == IF cfg.list = AUTO THEN order ELSE withRequiredFields(cfg.list)
           left == filterExcludedQFields(fields, cfg.excluded)
<1>1. r = IF ToSet(left) \subseteq DOMAIN vocabulary
            THEN Resolved(left, vocabulary) ELSE Failure
  BY DEF CatalogResolve, ResolveFromCatalog
<1>2. /\ IsSeq(canonical) /\ IsInjective(canonical) /\ ToSet(canonical) = DOMAIN Catalog
      /\ DOMAIN canonical = 1..Len(canonical)
  BY MappingsAssumption, KeysList, SeqElements DEF IsSeq
<1>3. /\ \A p, q \in DOMAIN Catalog : spelled(p) = spelled(q) => p = q
      /\ \A q \in DOMAIN Catalog : spelled(q) \in DOMAIN Catalog \cup names
      /\ \A q \in info : q \in DOMAIN Catalog /\ spelled(q) = q
  BY MappingsAssumption
<1> HIDE DEF canonical, names
<1>4. /\ IsSeq(order) /\ IsInjective(order)
      /\ info \subseteq ToSet(order) /\ ToSet(order) \subseteq DOMAIN vocabulary
  <2>1. \A i \in 1..Len(canonical) : canonical[i] \in DOMAIN Catalog
    BY <1>2 DEF ToSet
  <2>2. \A q \in info : \E i \in 1..Len(canonical) : canonical[i] = q
    BY <1>2, <1>3 DEF ToSet
  <2> HIDE DEF spelled
  <2>3. IsSeq(order) /\ Len(order) = Len(canonical) /\ DOMAIN order = 1..Len(canonical)
    <3>1. order = [i \in DOMAIN canonical |-> order[i]] /\ DOMAIN order = DOMAIN canonical
      OBVIOUS
    <3> HIDE DEF order
    <3> QED BY <1>2, <3>1, PartsOfItems
  <2>4. \A i \in 1..Len(canonical) : order[i] = spelled(canonical[i])
    BY <1>2
  <2> HIDE DEF order
  <2>5. IsInjective(order)
    <3>1. \A i, j \in 1..Len(canonical) : order[i] = order[j] => canonical[i] = canonical[j]
      BY <1>3, <2>1, <2>4
    <3>2. \A i, j \in 1..Len(canonical) : canonical[i] = canonical[j] => i = j
      BY <1>2 DEF IsInjective
    <3> QED BY <2>3, <3>1, <3>2 DEF IsInjective
  <2>6. info \subseteq ToSet(order)
    <3> SUFFICES ASSUME NEW q \in info
                 PROVE  q \in ToSet(order)
      OBVIOUS
    <3>1. PICK i \in 1..Len(canonical) : canonical[i] = q
      BY <2>2
    <3>2. order[i] = q
      BY <1>3, <2>4, <3>1
    <3> QED BY <2>3, <3>2 DEF ToSet
  <2>7. ToSet(order) \subseteq DOMAIN vocabulary
    BY <1>3, <2>1, <2>3, <2>4 DEF ToSet
  <2> QED BY <2>3, <2>5, <2>6, <2>7
<1> HIDE DEF order
<1>5. /\ IsSeq(fields) /\ IsInjective(fields) /\ info \subseteq ToSet(fields)
      /\ cfg.list # AUTO => ToSet(fields) = ToSet(cfg.list) \cup info
  BY <1>4, RequiredList
<1>6. cfg.list = AUTO => ToSet(fields) \subseteq DOMAIN vocabulary
  BY <1>4
<1> HIDE DEF fields, vocabulary
<1>7. /\ IsSeq(left) /\ IsInjective(left)
      /\ ToSet(left) = ToSet(fields) \ (cfg.excluded \ info)
  BY <1>5, FilteredList
<1> HIDE DEF left
<1>8. Serves(left, cfg.list, cfg.excluded)
  <2>1. info \subseteq ToSet(left) /\ ToSet(left) \cap cfg.excluded \subseteq info
    BY <1>5, <1>7
  <2>2. cfg.list # AUTO => ToSet(left) = (ToSet(cfg.list) \ cfg.excluded) \cup info
    BY <1>5, <1>7
  <2> QED BY <1>7, <2>1, <2>2 DEF Serves
<1>9. cfg.list = AUTO => ToSet(left) \subseteq DOMAIN vocabulary
  BY <1>6, <1>7
<1>10. Resolved(left, vocabulary).query = left /\ ~Resolved(left, vocabulary).failed
  BY DEF Resolved
<1> QED BY <1>1, <1>8, <1>9, <1>10 DEF Failure

-----------------------------------------------------------------------------
(* The inductive invariant.                                                *)

Stages == {"idle", "gpus", "apps", "overlay", "done"}
Startups == {"begin", "discover", "initial", "version", "up", "failed", "rejected"}

TypeOK ==
  /\ cfg \in CommandLines /\ startup \in Startups
  /\ world \in Worlds /\ current \in Worlds
  /\ cycleMu \in Cycles \cup {NoOne}
  /\ cyc \in [Cycles -> Stages]
  /\ reading = [k \in Cycles |-> reading[k]]
  /\ succeeded \in BOOLEAN

(* A list is made of the right source, and is kept as it was made; the     *)
(* units of the fields are those of the header, or the same ones.          *)
StartupOK ==
  /\ startup = "discover" => cfg.list = AUTO
  /\ startup = "failed" => cfg.list # AUTO
  /\ startup = "initial" => Serves(query, cfg.list, cfg.excluded)
  /\ startup \in {"version", "up"} =>
       /\ ~resolved.failed
       /\ Serves(resolved.query, cfg.list, cfg.excluded)
       /\ cfg.backend # "nvml" => UnitsAre(resolved)

(* The lock is with the cycle that is under way, from its first call to    *)
(* the overlay, and the configuration it has read is a valid one.          *)
LockOK ==
  /\ startup # "up" \/ cfg.backend = "nvml" => \A k \in Cycles : cyc[k] = "idle"
  /\ Demo => \A k \in Cycles :
       cyc[k] \in {"gpus", "apps", "overlay"} <=> cycleMu = k
  /\ Demo /\ cycleMu # NoOne => current.valid
  /\ ~Demo => \A k \in Cycles : cyc[k] # "overlay"

(* What a collection has read so far, each GPU, process and device once.   *)
IsReading(r) ==
  /\ r = [x \in DOMAIN NoReading |-> r[x]]
  /\ r.ok \in BOOLEAN /\ r.appsAttempted \in BOOLEAN /\ r.appsSuccess \in BOOLEAN

Lists(r, fields) ==
  /\ TableOf(r.rows, fields) /\ DistinctApps(r.apps) /\ DistinctMIG(r.mig)
  /\ IsSeq(r.energy) /\ IsInjective(r.energy)

(* How far it has got, and of which configuration it all is.               *)
Follows(r, stage, apps) ==
  /\ stage \in {"idle", "gpus"} => r = NoReading
  /\ stage \in {"apps", "overlay"} => r.ok
  /\ stage = "apps" => apps /\ ~r.appsAttempted
  /\ stage \in {"apps", "overlay"} => r.apps \in Seq(Processes)
  /\ r.appsSuccess => r.appsAttempted
  /\ r.appsAttempted => r.ok /\ apps

OfOne(r, stage, id) ==
  /\ stage \in {"apps", "overlay"} => r.gpusOf = id
  /\ stage = "overlay" /\ r.appsSuccess => r.appsOf = id
  /\ stage = "done" /\ r.ok =>
       /\ r.extrasOf = r.gpusOf
       /\ r.appsSuccess => r.appsOf = r.gpusOf

ReadingOK(r, stage) ==
  /\ IsReading(r) /\ Lists(r, resolved.query) /\ Follows(r, stage, cfg.apps)
  /\ Demo => OfOne(r, stage, current.id)

(* The counted events: a number for each of finitely many pairs.           *)
PairCounts(xids) ==
  /\ IsFiniteSet(DOMAIN xids) /\ xids \in [DOMAIN xids -> Nat]
  /\ \A pair \in DOMAIN xids : pair = <<pair[1], pair[2]>>

SynthOK ==
  /\ PairCounts(synth.xids)
  /\ ~Demo => DOMAIN synth.xids = {}

IInv ==
  /\ TypeOK /\ StartupOK /\ LockOK /\ SynthOK
  /\ \A k \in Cycles : ReadingOK(reading[k], cyc[k])

-----------------------------------------------------------------------------
(* What one call of nvidia-smi gives.                                      *)

(* A list that is queried has the uuid and another field.                  *)
LEMMA QueriedList ==
  ASSUME NEW fields, NEW list, NEW excluded, Serves(fields, list, excluded)
  PROVE  /\ IsSeq(fields) /\ IsInjective(fields) /\ "uuid" \in ToSet(fields)
         /\ DOMAIN fields = 1..Len(fields) /\ Len(fields) \in Nat /\ Len(fields) # 1
<1>1. /\ IsSeq(fields) /\ IsInjective(fields)
      /\ ToSet(InfoFields) \subseteq ToSet(fields)
  BY DEF Serves
<1>2. DOMAIN fields = 1..Len(fields) /\ Len(fields) \in Nat
  BY <1>1, SeqElements DEF IsSeq
<1>3. PICK other : other \in ToSet(InfoFields) /\ other # "uuid"
  BY InfoFieldsAssumption
<1>4. "uuid" \in ToSet(fields) /\ other \in ToSet(fields)
  BY <1>1, <1>3, InfoFieldsAssumption
<1>5. PICK i \in 1..Len(fields), j \in 1..Len(fields) :
        fields[i] = "uuid" /\ fields[j] = other
  BY <1>2, <1>4 DEF ToSet
<1>6. Len(fields) # 1
  <2> SUFFICES ASSUME Len(fields) = 1
               PROVE  FALSE
    OBVIOUS
  <2>1. i = 1 /\ j = 1
    BY <1>2, <1>5
  <2> QED BY <1>3, <1>5, <2>1
<1> QED BY <1>1, <1>2, <1>4, <1>6

(* The table has a row for each GPU of the machine, its values at the      *)
(* places of their fields, and the header of each field.                   *)
LEMMA TableServed ==
  ASSUME NEW machine \in Worlds, NEW fields, NEW list, NEW excluded, Serves(fields, list, excluded),
         NEW table, table = ParseCSVIntoTable(Output(machine, fields), fields),
         ~table.failed
  PROVE  /\ TableOf(table.rows, fields)
         /\ table.rFields = [i \in DOMAIN fields |-> Returned[fields[i]]]
<1> DEFINE out == Output(machine, fields)
           gpus == machine.gpus
<1>1. /\ IsSeq(fields) /\ IsInjective(fields) /\ "uuid" \in ToSet(fields)
      /\ DOMAIN fields = 1..Len(fields) /\ Len(fields) \in Nat /\ Len(fields) # 1
  BY QueriedList
<1>2. /\ IsSeq(gpus) /\ DOMAIN gpus = 1..Len(gpus) /\ Len(gpus) \in Nat
      /\ \A g, h \in 1..Len(gpus) : gpus[g].uuid = gpus[h].uuid => g = h
  <2>1. /\ gpus \in Seq(ToSet(gpus))
        /\ \A g, h \in DOMAIN gpus : gpus[g].uuid = gpus[h].uuid => g = h
    BY WorldsAssumption, ListedOnceAssumption
  <2> HIDE DEF gpus
  <2> QED BY <2>1, SeqElements
<1>3. /\ Len(out.header) = Len(fields)
      /\ \A g \in DOMAIN out.lines : Fits(out.lines[g], fields)
      /\ table.rFields = [i \in DOMAIN fields |-> out.header[i]]
      /\ table.rows = [g \in DOMAIN out.lines |-> Row(out.lines[g], fields)]
  <2> HIDE DEF out
  <2> QED BY DEF ParseCSVIntoTable, Failure, out
<1>4. /\ out.header = [i \in DOMAIN fields |-> Returned[fields[i]]]
      /\ out.lines = [g \in DOMAIN gpus |-> Line(gpus[g], fields)]
  <2>1. CASE machine.garbled
    <3>1. out.header = <<[base |-> "No devices were found", unit |-> ""]>>
      BY <2>1 DEF Output
    <3>2. \A x : Len(<<x>>) = 1
      OBVIOUS
    <3>3. Len(out.header) = 1
      BY <3>1, <3>2
    <3> QED BY <1>1, <1>3, <3>3
  <2>2. CASE ~machine.garbled
    BY <2>2 DEF Output
  <2> QED BY <2>1, <2>2
<1> HIDE DEF out, gpus
<1>5. \A g \in 1..Len(gpus) : table.rows[g] = Row(Line(gpus[g], fields), fields)
  BY <1>2, <1>3, <1>4
<1>6. IsSeq(table.rows) /\ Len(table.rows) = Len(gpus)
  <2> DEFINE rows == table.rows
  <2>1. rows = [g \in DOMAIN gpus |-> rows[g]]
    BY <1>3, <1>4
  <2> HIDE DEF rows
  <2>2. IsSeq(rows) /\ Len(rows) = Len(gpus)
    BY <1>2, <2>1, PartsOfItems
  <2> QED BY <2>2 DEF rows
<1>7. \A g \in 1..Len(gpus) : RowOf(table.rows[g], fields, gpus[g].uuid)
  <2> SUFFICES ASSUME NEW g \in 1..Len(gpus)
               PROVE  RowOf(table.rows[g], fields, gpus[g].uuid)
    OBVIOUS
  <2> DEFINE gpu == gpus[g]
  <2>1. Fits(Line(gpu, fields), fields)
    BY <1>2, <1>3, <1>4
  <2> HIDE DEF gpu
  <2>2. RowOf(Row(Line(gpu, fields), fields), fields, gpu.uuid)
    BY <1>1, <2>1, RowThatFits
  <2> QED BY <1>5, <2>2 DEF gpu
<1>8. \A g \in 1..Len(gpus) : UuidOf(table.rows[g]) = gpus[g].uuid
  BY <1>7 DEF RowOf, UuidOf
<1>9. TableOf(table.rows, fields)
  <2>1. \A g \in 1..Len(gpus) : RowOf(table.rows[g], fields, UuidOf(table.rows[g]))
    BY <1>7, <1>8
  <2>2. \A g, h \in 1..Len(gpus) :
          g # h => UuidOf(table.rows[g]) # UuidOf(table.rows[h])
    BY <1>2, <1>8
  <2> QED BY <1>6, <2>1, <2>2 DEF TableOf
<1>10. table.rFields = [i \in DOMAIN fields |-> Returned[fields[i]]]
  BY <1>3, <1>4
<1> QED BY <1>9, <1>10

(* The processes that are usable are listed once.                          *)
LEMMA AppsParsed ==
  ASSUME NEW machine \in Worlds,
         NEW parsed, parsed = ParseComputeApps(machine.apps), ~parsed.failed
  PROVE  parsed.apps \in Seq(Processes) /\ DistinctApps(parsed.apps)
<1> DEFINE listed == machine.apps.apps
           out == {app \in ToSet(listed) : ~Usable(app)}
           left == Without(listed, out)
<1>1. parsed.apps = left
  BY DEF ParseComputeApps, Failure
<1>2. /\ listed \in Seq(Processes)
      /\ \A a, b \in DOMAIN listed :
           Usable(listed[a]) /\ Usable(listed[b]) /\ SameApp(listed[a], listed[b])
             => a = b
  BY WorldsAssumption, ListedOnceAssumption DEF SameApp
<1> HIDE DEF listed
<1>3. /\ left \in Seq(Processes) /\ ToSet(left) = ToSet(listed) \ out
      /\ \E at \in [DOMAIN left -> DOMAIN listed] :
           IsInjective(at) /\ \A i \in DOMAIN at : left[i] = listed[at[i]]
  <2> HIDE DEF out
  <2> QED BY <1>2, WithoutList
<1> HIDE DEF left
<1>4. /\ IsSeq(left) /\ DOMAIN left = 1..Len(left)
      /\ \A i \in 1..Len(left) : left[i] \in ToSet(left)
  BY <1>3, SeqElements
<1>5. \A i \in 1..Len(left) : Usable(left[i])
  BY <1>3, <1>4
<1>6. PICK at \in [DOMAIN left -> DOMAIN listed] :
        IsInjective(at) /\ \A i \in DOMAIN at : left[i] = listed[at[i]]
  BY <1>3
<1>7. \A i, j \in 1..Len(left) : SameApp(left[i], left[j]) => at[i] = at[j]
  BY <1>2, <1>4, <1>5, <1>6
<1>8. \A i, j \in 1..Len(left) : at[i] = at[j] => i = j
  BY <1>4, <1>6 DEF IsInjective
<1> QED BY <1>1, <1>3, <1>4, <1>7, <1>8 DEF DistinctApps

(* What a reading is made of.                                              *)
LEMMA ReadingParts ==
  DOMAIN NoReading = {"ok", "exitCode", "rows", "appsAttempted", "appsSuccess",
                      "apps", "energy", "mig", "gpusOf", "appsOf", "extrasOf"}
BY DEF NoReading

(* What has been read before anything was: nothing, and nothing twice.     *)
LEMMA NothingRead ==
  ASSUME NEW fields
  PROVE  IsReading(NoReading) /\ Lists(NoReading, fields)
<1>1. IsReading(NoReading)
  BY DEF IsReading, NoReading
<1>2. IsSeq(<<>>) /\ Len(<<>>) = 0 /\ IsInjective(<<>>)
  BY NoSeries DEF IsInjective
<1>3. TableOf(<<>>, fields) /\ DistinctApps(<<>>) /\ DistinctMIG(<<>>)
  BY <1>2 DEF TableOf, DistinctApps, DistinctMIG
<1>4. /\ NoReading.rows = <<>> /\ NoReading.apps = <<>> /\ NoReading.mig = <<>>
      /\ NoReading.energy = <<>>
  BY DEF NoReading
<1> QED BY <1>1, <1>2, <1>3, <1>4 DEF Lists

-----------------------------------------------------------------------------
(* The overlay of the demo backend.                                        *)

(* The GPUs of a table, each once.                                         *)
LEMMA UuidsListed ==
  ASSUME NEW rows, NEW fields, TableOf(rows, fields)
  PROVE  IsSeq(Uuids(rows)) /\ IsInjective(Uuids(rows))
<1> DEFINE uuids == Uuids(rows)
<1>1. uuids = [g \in DOMAIN rows |-> UuidOf(rows[g])]
  BY DEF Uuids, UuidOf
<1>2. IsSeq(rows) /\ \A g, h \in 1..Len(rows) : g # h => UuidOf(rows[g]) # UuidOf(rows[h])
  BY DEF TableOf
<1> HIDE DEF uuids
<1>3. uuids = [g \in DOMAIN rows |-> uuids[g]]
  BY <1>1
<1>4. IsSeq(uuids) /\ DOMAIN rows = 1..Len(rows)
  BY <1>2, <1>3, PartsOfItems
<1>5. IsInjective(uuids)
  BY <1>1, <1>2, <1>4 DEF IsInjective
<1> QED BY <1>4, <1>5 DEF uuids

(* The MIG devices are of different GPUs, GPU instances or compute         *)
(* instances.                                                              *)
LEMMA InstancesListed ==
  ASSUME current \in Worlds, current.valid,
         NEW uuids, IsSeq(uuids), IsInjective(uuids)
  PROVE  LET devices == Instances(uuids)
         IN  /\ IsSeq(devices)
             /\ \A i, j \in 1..Len(devices) :
                  devices[i].parent = devices[j].parent
                    /\ devices[i].gi = devices[j].gi
                    /\ devices[i].ci = devices[j].ci => i = j
<1> DEFINE mig == current.mig
           T == [parent : ToSet(uuids), gi : STRING, ci : STRING]
           parts == [i \in DOMAIN mig |->
                       IF mig[i].gpu \in DOMAIN uuids
                         THEN [c \in DOMAIN mig[i].cis |->
                                 [parent |-> uuids[mig[i].gpu], gi |-> mig[i].gi,
                                  ci |-> mig[i].cis[c]]]
                         ELSE <<>>]
           devices == FlattenSeq(parts)
<1>1. Instances(uuids) = devices
  BY DEF Instances
<1>2. mig \in Seq([gpu : Nat, gi : STRING, cis : Seq(STRING)])
  BY WorldsAssumption
<1>3. \A i, j \in DOMAIN mig :
        /\ IsInjective(mig[i].cis)
        /\ mig[i].gpu = mig[j].gpu /\ mig[i].gi = mig[j].gi => i = j
  BY WorldsAssumption
<1> HIDE DEF mig
<1>4. DOMAIN mig = 1..Len(mig) /\ Len(mig) \in Nat
  BY <1>2
<1>5. \A i \in 1..Len(mig) : mig[i].gi \in STRING /\ mig[i].cis \in Seq(STRING)
  <2> SUFFICES ASSUME NEW i \in 1..Len(mig)
               PROVE  mig[i].gi \in STRING /\ mig[i].cis \in Seq(STRING)
    OBVIOUS
  <2> DEFINE R == [gpu : Nat, gi : STRING, cis : Seq(STRING)]
  <2>1. mig \in Seq(R)
    BY <1>2
  <2> HIDE DEF R
  <2>2. mig[i] \in R
    BY <1>4, <2>1
  <2> QED BY <2>2 DEF R
<1>6. \A i \in 1..Len(mig) :
        IF mig[i].gpu \in DOMAIN uuids
          THEN /\ DOMAIN parts[i] = DOMAIN mig[i].cis
               /\ \A c \in DOMAIN mig[i].cis :
                    /\ parts[i][c].parent = uuids[mig[i].gpu]
                    /\ parts[i][c].gi = mig[i].gi
                    /\ parts[i][c].ci = mig[i].cis[c]
          ELSE parts[i] = <<>>
  BY <1>4
<1>7. \A i \in 1..Len(mig) : parts[i] \in Seq(T)
  <2> SUFFICES ASSUME NEW i \in 1..Len(mig)
               PROVE  parts[i] \in Seq(T)
    OBVIOUS
  <2>1. CASE mig[i].gpu \in DOMAIN uuids
    <3>1. parts[i] = [c \in DOMAIN mig[i].cis |->
                        [parent |-> uuids[mig[i].gpu], gi |-> mig[i].gi,
                         ci |-> mig[i].cis[c]]]
      BY <1>4, <2>1
    <3>2. uuids[mig[i].gpu] \in ToSet(uuids)
      BY <2>1 DEF ToSet
    <3>3. mig[i].gi \in STRING /\ mig[i].cis \in Seq(STRING)
      BY <1>5
    <3> HIDE DEF parts
    <3>4. \A c \in DOMAIN mig[i].cis : mig[i].cis[c] \in STRING
      BY <3>3
    <3>5. parts[i] \in [DOMAIN mig[i].cis -> T]
      BY <3>1, <3>2, <3>3, <3>4
    <3>6. DOMAIN mig[i].cis = 1..Len(mig[i].cis) /\ Len(mig[i].cis) \in Nat
      BY <3>3
    <3> HIDE DEF T
    <3> QED BY <3>5, <3>6
  <2>2. CASE mig[i].gpu \notin DOMAIN uuids
    <3>1. parts[i] = <<>>
      BY <1>4, <2>2
    <3> QED BY <3>1
  <2> QED BY <2>1, <2>2
<1>8. parts \in Seq(Seq(T)) /\ Len(parts) = Len(mig)
  <2>1. DOMAIN parts = 1..Len(mig)
    BY <1>4
  <2> HIDE DEF parts, T
  <2>2. parts = [i \in 1..Len(mig) |-> parts[i]]
    <3>1. parts = [i \in DOMAIN mig |-> parts[i]]
      BY DEF parts
    <3> QED BY <1>4, <3>1
  <2>3. parts \in [1..Len(mig) -> Seq(T)]
    BY <1>7, <2>2
  <2> QED BY <1>4, <2>3
<1> HIDE DEF parts, T
<1>9. /\ devices \in Seq(T)
      /\ \E part, off : FromParts(devices, parts, Len(parts), part, off)
  BY <1>8, FlattenPlaces
<1> HIDE DEF devices
<1>10. PICK part, off : FromParts(devices, parts, Len(parts), part, off)
  BY <1>9
<1>11. IsSeq(devices)
  BY <1>9, SeqElements
<1>12. \A i \in 1..Len(devices) :
         /\ part[i] \in 1..Len(mig)
         /\ off[i] \in 1..Len(parts[part[i]])
         /\ devices[i] = parts[part[i]][off[i]]
  BY <1>8, <1>10 DEF FromParts
<1>13. \A i \in 1..Len(devices) :
         /\ mig[part[i]].gpu \in DOMAIN uuids /\ off[i] \in DOMAIN mig[part[i]].cis
         /\ devices[i].parent = uuids[mig[part[i]].gpu]
         /\ devices[i].gi = mig[part[i]].gi
         /\ devices[i].ci = mig[part[i]].cis[off[i]]
  <2> SUFFICES ASSUME NEW i \in 1..Len(devices)
               PROVE  /\ mig[part[i]].gpu \in DOMAIN uuids
                      /\ off[i] \in DOMAIN mig[part[i]].cis
                      /\ devices[i].parent = uuids[mig[part[i]].gpu]
                      /\ devices[i].gi = mig[part[i]].gi
                      /\ devices[i].ci = mig[part[i]].cis[off[i]]
    OBVIOUS
  <2> DEFINE p == part[i]
             o == off[i]
  <2>1. p \in 1..Len(mig) /\ o \in 1..Len(parts[p]) /\ devices[i] = parts[p][o]
    BY <1>12
  <2> HIDE DEF p, o
  <2>2. mig[p].gpu \in DOMAIN uuids
    <3> SUFFICES ASSUME mig[p].gpu \notin DOMAIN uuids
                 PROVE  FALSE
      OBVIOUS
    <3>1. parts[p] = <<>>
      BY <1>6, <2>1
    <3> QED BY <2>1, <3>1
  <2>3. DOMAIN parts[p] = DOMAIN mig[p].cis
    BY <1>6, <2>1, <2>2
  <2>4. parts[p] \in Seq(T)
    BY <1>7, <2>1
  <2>5. o \in DOMAIN parts[p]
    BY <2>1, <2>4
  <2>6. /\ parts[p][o].parent = uuids[mig[p].gpu]
        /\ parts[p][o].gi = mig[p].gi
        /\ parts[p][o].ci = mig[p].cis[o]
    BY <1>6, <2>1, <2>2, <2>3, <2>5
  <2> QED BY <2>1, <2>2, <2>3, <2>5, <2>6 DEF p, o
<1>14. ASSUME NEW i \in 1..Len(devices), NEW j \in 1..Len(devices),
              devices[i].parent = devices[j].parent,
              devices[i].gi = devices[j].gi, devices[i].ci = devices[j].ci
       PROVE  i = j
  <2>1. mig[part[i]].gpu = mig[part[j]].gpu
    BY <1>13, <1>14 DEF IsInjective
  <2>2. part[i] = part[j]
    <3> DEFINE p == part[i]
               q == part[j]
    <3>1. p \in DOMAIN mig /\ q \in DOMAIN mig
      BY <1>4, <1>12
    <3>2. mig[p].gpu = mig[q].gpu /\ mig[p].gi = mig[q].gi
      BY <1>13, <1>14, <2>1
    <3> HIDE DEF p, q
    <3>3. p = q
      BY <1>3, <3>1, <3>2
    <3> QED BY <3>3 DEF p, q
  <2>3. IsInjective(mig[part[i]].cis)
    BY <1>3, <1>4, <1>12
  <2>4. /\ off[i] \in DOMAIN mig[part[i]].cis /\ off[j] \in DOMAIN mig[part[i]].cis
        /\ mig[part[i]].cis[off[i]] = mig[part[i]].cis[off[j]]
    BY <1>13, <1>14, <2>2
  <2>5. off[i] = off[j]
    BY <2>3, <2>4 DEF IsInjective
  <2> QED BY <1>10, <2>2, <2>5 DEF FromParts
<1> QED BY <1>1, <1>11, <1>14

(* The MIG devices of a valid configuration are synthesized each once.     *)
LEMMA MigSynthesized ==
  ASSUME current \in Worlds, current.valid,
         NEW uuids, IsSeq(uuids), IsInjective(uuids)
  PROVE  DistinctMIG(synthMIG(uuids))
<1> DEFINE devices == Instances(uuids)
           mig == synthMIG(uuids)
           name(i) == devices[i].parent \o "/" \o devices[i].gi \o "/" \o devices[i].ci
           seen(i) == <<devices[i].parent, devices[i].gi>> \in synth.seenGIs
<1>1. /\ mig = [i \in DOMAIN devices |-> mig[i]]
      /\ \A i \in DOMAIN devices :
           /\ mig[i].parent = devices[i].parent /\ mig[i].gi = devices[i].gi
           /\ mig[i].ci = devices[i].ci
           /\ mig[i].memory \in BOOLEAN /\ mig[i].utilization \in BOOLEAN
  <2>1. mig = [i \in DOMAIN devices |->
                 [parent |-> devices[i].parent, gi |-> devices[i].gi,
                  ci |-> devices[i].ci, uuid |-> name(i), memory |-> TRUE,
                  utilization |-> seen(i)]]
    BY DEF synthMIG
  <2>2. \A i : seen(i) \in BOOLEAN
    OBVIOUS
  <2> HIDE DEF mig, devices, name, seen
  <2> QED BY <2>1, <2>2
<1> HIDE DEF mig, devices
<1>2. /\ IsSeq(devices)
      /\ \A i, j \in 1..Len(devices) :
           devices[i].parent = devices[j].parent /\ devices[i].gi = devices[j].gi
             /\ devices[i].ci = devices[j].ci => i = j
  BY InstancesListed DEF devices
<1>3. IsSeq(mig) /\ Len(mig) = Len(devices) /\ DOMAIN devices = 1..Len(devices)
  BY <1>1, <1>2, PartsOfItems
<1>4. DistinctMIG(mig)
  BY <1>1, <1>2, <1>3 DEF DistinctMIG
<1> QED BY <1>4 DEF mig

(* A process keeps what tells it from the others.                          *)
LEMMA AppsAttributed ==
  ASSUME NEW apps, apps \in Seq(Processes), DistinctApps(apps), NEW uuids
  PROVE  DistinctApps(attributeApps(uuids, apps))
<1> DEFINE of == attributeApps(uuids, apps)
<1>1. \A a \in DOMAIN apps : \A gi, ci :
        SameApp([apps[a] EXCEPT !.gi = gi, !.ci = ci], apps[a])
  <2>1. \A a \in DOMAIN apps : apps[a] \in Processes
    OBVIOUS
  <2>2. ASSUME NEW app \in Processes, NEW gi, NEW ci
        PROVE  SameApp([app EXCEPT !.gi = gi, !.ci = ci], app)
    BY DEF Processes, SameApp
  <2> QED BY <2>1, <2>2
<1>2. \A app : SameApp(app, app)
  BY DEF SameApp
<1>3. /\ of = [a \in DOMAIN apps |-> of[a]]
      /\ \A a \in DOMAIN apps :
           of[a] = apps[a] \/ \E gi, ci : of[a] = [apps[a] EXCEPT !.gi = gi, !.ci = ci]
  BY DEF attributeApps
<1> HIDE DEF of
<1>4. ASSUME NEW a \in DOMAIN apps
      PROVE  SameApp(of[a], apps[a])
  <2>1. CASE of[a] = apps[a]
    BY <1>2, <2>1
  <2>2. CASE \E gi, ci : of[a] = [apps[a] EXCEPT !.gi = gi, !.ci = ci]
    <3>1. PICK gi, ci : of[a] = [apps[a] EXCEPT !.gi = gi, !.ci = ci]
      BY <2>2
    <3>2. SameApp([apps[a] EXCEPT !.gi = gi, !.ci = ci], apps[a])
      BY <1>1
    <3> QED BY <3>1, <3>2
  <2> QED BY <1>3, <2>1, <2>2
<1>5. IsSeq(of) /\ Len(of) = Len(apps) /\ DOMAIN apps = 1..Len(apps)
  BY <1>3, PartsOfItems DEF DistinctApps
<1>6. \A a, b \in 1..Len(apps) : SameApp(of[a], of[b]) => SameApp(apps[a], apps[b])
  BY <1>4, <1>5 DEF SameApp
<1>7. DistinctApps(of)
  BY <1>5, <1>6 DEF DistinctApps
<1> QED BY <1>7 DEF of

-----------------------------------------------------------------------------
(* The counters of XID events.                                             *)

(* Counting an event leaves a number for each of finitely many pairs, the  *)
(* one that occurred among them.                                           *)
LEMMA Bumped ==
  ASSUME NEW xids, PairCounts(xids), NEW uuid, NEW xid, NEW n, n \in Nat
  PROVE  /\ PairCounts(bumpXID(xids, uuid, xid, n))
         /\ DOMAIN bumpXID(xids, uuid, xid, n) = DOMAIN xids \cup {<<uuid, xid>>}
<1> DEFINE bumped == bumpXID(xids, uuid, xid, n)
           D == DOMAIN xids \cup {<<uuid, xid>>}
<1>1. /\ IsFiniteSet(DOMAIN xids) /\ xids \in [DOMAIN xids -> Nat]
      /\ \A pair \in DOMAIN xids : pair = <<pair[1], pair[2]>>
  BY DEF PairCounts
<1>2. bumped = [pair \in D |-> (IF pair \in DOMAIN xids THEN xids[pair] ELSE 0)
                                 + IF pair = <<uuid, xid>> THEN n ELSE 0]
  BY DEF bumpXID
<1>3. IsFiniteSet(D)
  BY <1>1, FS_AddElement
<1>4. \A pair \in D : pair = <<pair[1], pair[2]>>
  BY <1>1
<1> HIDE DEF bumped
<1>5. DOMAIN bumped = D
  BY <1>2
<1>6. bumped \in [D -> Nat]
  <2>1. \A pair \in DOMAIN xids : xids[pair] \in Nat
    BY <1>1
  <2> HIDE DEF D
  <2> QED BY <1>2, <2>1
<1>7. PairCounts(bumped) /\ DOMAIN bumped = D
  BY <1>3, <1>4, <1>5, <1>6 DEF PairCounts
<1> QED BY <1>7 DEF bumped

(* What every event of the history keeps, the history keeps.               *)
LEMMA HistoryKeeps ==
  ASSUME NEW uuids, NEW A, synth.xids \in A,
         NEW T, current.initialXids \in Seq(T),
         \A xids \in A, event \in T :
           (IF event.gpu \notin DOMAIN uuids \/ event.count = 0 THEN xids
              ELSE bumpXID(xids, uuids[event.gpu], event.xid, event.count)) \in A
  PROVE  seedInitialXIDs(uuids) \in A
<1> DEFINE items == current.initialXids
           base == synth.xids
           n == Len(items)
           step(xids, event) ==
             IF event.gpu \notin DOMAIN uuids \/ event.count = 0 THEN xids
               ELSE bumpXID(xids, uuids[event.gpu], event.xid, event.count)
           F == [p \in (1..n) \X A |-> step(p[2], items[p[1]])]
           pick == [s \in SUBSET (1..n) |-> Max(s)]
           Eq(it) == it = [s \in SUBSET (1..n) |->
                             IF s = {} THEN base
                               ELSE step(it[s \ {Max(s)}], items[Max(s)])]
           all == CHOOSE it : Eq(it)
           h == [k \in 0..n |-> all[1..k]]
<1>1. n \in Nat /\ DOMAIN items = 1..n /\ \A k \in 1..n : items[k] \in T
  OBVIOUS
<1>2. seedInitialXIDs(uuids) = IF synth.seeded THEN base ELSE all[1..n]
  BY <1>1 DEF seedInitialXIDs, FoldLeft, MapThenFoldSet
<1>3. \A a \in A, k \in 1..n : step(a, items[k]) \in A
  BY <1>1
<1>4. base \in A
  OBVIOUS
<1> HIDE DEF step, items, base
<1>5. \E it : Eq(it)
  <2>1. F \in [(1..n) \X A -> A]
    BY <1>3
  <2>2. Picks(pick, 1..n)
    BY <1>1, MaxOfPrefix DEF Picks
  <2>3. IsFiniteSet(1..n)
    BY <1>1, FS_Interval
  <2>4. PICK it \in [SUBSET (1..n) -> A] : FoldsBy(F, pick, base, 1..n, it)
    <3> HIDE DEF F, pick, n
    <3> QED BY <1>4, <2>1, <2>2, <2>3, SubsetRecursion
  <2>5. ASSUME NEW s \in SUBSET (1..n), s # {}
        PROVE  it[s] = step(it[s \ {Max(s)}], items[Max(s)])
    <3>1. Max(s) \in 1..n /\ it[s \ {Max(s)}] \in A /\ pick[s] = Max(s)
      BY <2>2, <2>5 DEF Picks
    <3>2. F[<<Max(s), it[s \ {Max(s)}]>>] = step(it[s \ {Max(s)}], items[Max(s)])
      <4> HIDE DEF pick
      <4> QED BY <3>1
    <3> HIDE DEF pick, F
    <3> QED BY <2>4, <2>5, <3>1, <3>2 DEF FoldsBy
  <2>6. it[{}] = base
    BY <2>4 DEF FoldsBy
  <2>7. Eq(it)
    <3>1. it = [s \in SUBSET (1..n) |-> it[s]]
      OBVIOUS
    <3> HIDE DEF n
    <3> QED BY <2>5, <2>6, <3>1
  <2> QED BY <2>7
<1>6. Eq(all)
  <2> HIDE DEF Eq
  <2> QED BY <1>5
<1>7. h[0] = base
  <2> HIDE DEF all
  <2> QED BY <1>1, <1>6
<1>8. ASSUME NEW k \in 1..n
      PROVE  h[k] = step(h[k - 1], items[k])
  <2>1. /\ Max(1..k) = k /\ 1..k # {} /\ 1..k \in SUBSET (1..n)
        /\ (1..k) \ {k} = 1..(k - 1) /\ k - 1 \in 0..n /\ k \in 0..n
    <3> HIDE DEF all, n
    <3> QED BY <1>1, MaxOfPrefix, Prefix
  <2> HIDE DEF all, n
  <2>2. all[1..k] = step(all[1..(k - 1)], items[k])
    BY <1>6, <2>1
  <2> QED BY <2>1, <2>2
<1> DEFINE S == {k \in 0..n : h[k] \in A}
<1>9. 0 \in S
  <2>1. 0 \in 0..n
    BY <1>1
  <2> HIDE DEF h, n
  <2> QED BY <1>4, <1>7, <2>1
<1>10. \A k \in 1..n : k - 1 \in S => k \in S
  <2> HIDE DEF h
  <2>1. \A k \in 1..n : k \in 0..n
    BY <1>1
  <2> QED BY <1>3, <1>8, <2>1
<1>11. h[n] \in A
  <2> HIDE DEF S, n
  <2>1. 0..n \subseteq S
    BY <1>1, <1>9, <1>10, InductionUpTo
  <2>2. n \in 0..n
    BY <1>1
  <2> QED BY <2>1, <2>2 DEF S
<1>12. h[n] = all[1..n]
  <2> HIDE DEF all
  <2> QED BY <1>1
<1> HIDE DEF h, all, n
<1> QED BY <1>2, <1>4, <1>11, <1>12

(* The counters remain a number for each of finitely many pairs.           *)
LEMMA EventsCounted ==
  ASSUME PairCounts(synth.xids), current \in Worlds, NEW uuids,
         NEW xids \in tickXIDs(uuids)
  PROVE  PairCounts(xids)
<1> DEFINE E == [gpu : Nat, xid : STRING, count : Nat]
           P == DOMAIN synth.xids \cup ({uuids[g] : g \in DOMAIN uuids} \X STRING)
           A == {f \in UNION {[D -> Nat] : D \in SUBSET P} : PairCounts(f)}
           seeded == seedInitialXIDs(uuids)
<1>1. synth.xids \in A
  <2>1. synth.xids \in [DOMAIN synth.xids -> Nat]
    BY DEF PairCounts
  <2> QED BY <2>1
<1>2. current.initialXids \in Seq(E)
  BY WorldsAssumption
<1>3. ASSUME NEW f \in A, NEW event \in E
      PROVE  (IF event.gpu \notin DOMAIN uuids \/ event.count = 0 THEN f
                ELSE bumpXID(f, uuids[event.gpu], event.xid, event.count)) \in A
  <2>1. CASE event.gpu \notin DOMAIN uuids \/ event.count = 0
    BY <2>1
  <2>2. CASE event.gpu \in DOMAIN uuids /\ event.count # 0
    <3> DEFINE u == uuids[event.gpu]
               xid == event.xid
               times == event.count
               to == bumpXID(f, u, xid, times)
    <3>1. PairCounts(f) /\ DOMAIN f \subseteq P
      OBVIOUS
    <3>2. times \in Nat /\ xid \in STRING
      OBVIOUS
    <3>3. PairCounts(to) /\ DOMAIN to = DOMAIN f \cup {<<u, xid>>}
      <4>1. PairCounts(f) /\ times \in Nat
        BY <3>1, <3>2
      <4> HIDE DEF A, P, E, u, xid, times
      <4>2. /\ PairCounts(bumpXID(f, u, xid, times))
            /\ DOMAIN bumpXID(f, u, xid, times) = DOMAIN f \cup {<<u, xid>>}
        BY <4>1, Bumped
      <4> QED BY <4>2
    <3>4. DOMAIN to \subseteq P
      <4>1. <<u, xid>> \in P
        BY <2>2, <3>2
      <4> HIDE DEF to, P, u, xid
      <4> QED BY <3>1, <3>3, <4>1
    <3>5. to \in [DOMAIN to -> Nat]
      BY <3>3 DEF PairCounts
    <3>6. to \in A
      <4> HIDE DEF to, P
      <4> QED BY <3>3, <3>4, <3>5
    <3> QED BY <2>2, <3>6
  <2> QED BY <2>1, <2>2
<1> HIDE DEF A, E
<1>4. seeded \in A
  BY <1>1, <1>2, <1>3, HistoryKeeps
<1> HIDE DEF seeded
<1>5. PairCounts(seeded)
  BY <1>4 DEF A
<1>6. xids = seeded \/ \E g \in DOMAIN uuids : xids = bumpXID(seeded, uuids[g], "79", 1)
  BY DEF tickXIDs, seeded
<1> QED BY <1>5, <1>6, Bumped

(* The counters are listed each once, and none when nothing was counted.   *)
LEMMA CountersListed ==
  ASSUME PairCounts(synth.xids)
  PROVE  /\ IsSeq(Counters) /\ DistinctCounters(Counters)
         /\ DOMAIN synth.xids = {} => Len(Counters) = 0
<1> DEFINE S == DOMAIN synth.xids
           pairs == Keys(S)
           counters == Counters
<1>1. IsFiniteSet(S) /\ \A pair \in S : pair = <<pair[1], pair[2]>>
  BY DEF PairCounts
<1>2. /\ counters = [i \in DOMAIN pairs |-> counters[i]]
      /\ \A i \in DOMAIN pairs :
           counters[i].uuid = pairs[i][1] /\ counters[i].xid = pairs[i][2]
  BY DEF Counters
<1> HIDE DEF S, counters
<1>3. pairs \in Seq(S) /\ ToSet(pairs) = S /\ IsInjective(pairs)
  BY <1>1, KeysList
<1> HIDE DEF pairs
<1>4. IsSeq(pairs)
  BY <1>3, SeqElements
<1>5. IsSeq(counters) /\ Len(counters) = Len(pairs) /\ DOMAIN pairs = 1..Len(pairs)
  BY <1>2, <1>4, PartsOfItems
<1>6. ASSUME NEW i \in 1..Len(pairs), NEW j \in 1..Len(pairs), i # j
      PROVE  counters[i].uuid # counters[j].uuid \/ counters[i].xid # counters[j].xid
  <2>1. pairs[i] # pairs[j]
    BY <1>3, <1>5, <1>6 DEF IsInjective
  <2>2. pairs[i] \in S /\ pairs[j] \in S
    BY <1>3, <1>5
  <2>3. pairs[i][1] # pairs[j][1] \/ pairs[i][2] # pairs[j][2]
    BY <1>1, <2>1, <2>2
  <2> QED BY <1>2, <1>5, <2>3
<1>7. S = {} => Len(pairs) = 0
  <2> SUFFICES ASSUME S = {}, Len(pairs) # 0
               PROVE  FALSE
    OBVIOUS
  <2>1. 1 \in 1..Len(pairs)
    BY <1>3
  <2>2. pairs[1] \in S
    BY <1>3, <1>5, <2>1
  <2> QED BY <2>2
<1>8. IsSeq(counters) /\ DistinctCounters(counters) /\ (S = {} => Len(counters) = 0)
  BY <1>5, <1>6, <1>7 DEF DistinctCounters
<1> QED BY <1>8 DEF counters, S
-----------------------------------------------------------------------------
(* The startup.                                                            *)

(* The names come from the header that has been queried ...                *)
HeaderNames(fields, rFields) ==
  [q \in ToSet(fields) |-> rFields[CHOOSE i \in DOMAIN fields : fields[i] = q]]

(* The fields of a list that was answered have the units of nvidia-smi.    *)
LEMMA QueryAnswered ==
  ASSUME NEW machine \in Worlds, NEW fields, NEW list, NEW excluded,
         Serves(fields, list, excluded),
         NEW table, table = ParseCSVIntoTable(Output(machine, fields), fields),
         ~table.failed
  PROVE  UnitsAre(Resolved(fields, HeaderNames(fields, table.rFields)))
<1> DEFINE at(q) == CHOOSE i \in DOMAIN fields : fields[i] = q
           names == [q \in ToSet(fields) |-> table.rFields[at(q)]]
<1>1. table.rFields = [i \in DOMAIN fields |-> Returned[fields[i]]]
  BY TableServed
<1>2. \A q \in ToSet(fields) : at(q) \in DOMAIN fields /\ fields[at(q)] = q
  BY DEF ToSet
<1> HIDE DEF at
<1>3. \A q \in ToSet(fields) : names[q] = Returned[q]
  BY <1>1, <1>2
<1> HIDE DEF names
<1>4. UnitsAre(Resolved(fields, names))
  <2> DEFINE r == Resolved(fields, names)
  <2>1. r.returned = [q \in ToSet(fields) |-> names[q]]
    BY ResolvedFields
  <2> HIDE DEF r
  <2>2. UnitsAre(r)
    BY <1>3, <2>1 DEF UnitsAre
  <2> QED BY <2>2 DEF r
<1> QED BY <1>4 DEF names, at, HeaderNames

(* ... or, when the query fails, from the built-in mapping.                *)
LEMMA QueryFallsBack ==
  ASSUME NEW fields, Serves(fields, cfg.list, cfg.excluded),
         NEW r, r = InitialQueryFailed(cfg.list = AUTO, fields, cfg.excluded)
  PROVE  /\ r.failed => cfg.list # AUTO
         /\ ~r.failed => Serves(r.query, cfg.list, cfg.excluded) /\ UnitsAre(r)
<1>1. CASE ToSet(fields) \subseteq DOMAIN Builtin
  <2>1. r = Resolved(fields, Builtin)
    BY <1>1, ResolvedFields DEF InitialQueryFailed, FromBuiltinNames
  <2>2. /\ ~r.failed /\ r.query = fields
        /\ r.returned = [q \in ToSet(fields) |-> Builtin[q]]
    BY <2>1, ResolvedFields
  <2>3. UnitsAre(r)
    BY <1>1, <2>2, BuiltinAssumption DEF UnitsAre
  <2> QED BY <2>2, <2>3
<1>2. CASE ~(ToSet(fields) \subseteq DOMAIN Builtin)
  <2>1. r = IF cfg.list = AUTO THEN builtinResolvedFields(cfg.excluded) ELSE Failure
    BY <1>2 DEF InitialQueryFailed, FromBuiltinNames, Failure
  <2>2. Failure.failed
    BY DEF Failure
  <2> QED BY <2>1, <2>2, BuiltinList
<1> QED BY <1>1, <1>2

(* Before the startup is over nothing has been collected.                  *)
LEMMA StartupFrame ==
  ASSUME IInv, startup # "up", startup' \in Startups, current' \in Worlds,
         UNCHANGED <<cfg, world, cycleMu, cyc, reading, succeeded>>,
         SynthOK', StartupOK'
  PROVE  IInv'
<1>1. \A k \in Cycles : cyc[k] = "idle" /\ reading[k] = NoReading
  BY DEF IInv, LockOK, ReadingOK, Follows
<1>2. TypeOK'
  BY DEF IInv, TypeOK
<1>3. Demo => cycleMu = NoOne
  BY <1>1 DEF IInv, TypeOK, LockOK
<1>4. LockOK'
  BY <1>1, <1>3 DEF IInv, LockOK, Demo
<1>5. ASSUME NEW k \in Cycles
      PROVE  ReadingOK(reading[k], cyc[k])'
  <2>1. reading'[k] = NoReading /\ cyc'[k] = "idle"
    BY <1>1
  <2>2. IsReading(NoReading) /\ Lists(NoReading, resolved'.query)
    BY NothingRead
  <2>3. Follows(NoReading, "idle", cfg'.apps) /\ OfOne(NoReading, "idle", current'.id)
    BY DEF Follows, OfOne, NoReading
  <2> QED BY <2>1, <2>2, <2>3 DEF ReadingOK
<1> QED BY <1>2, <1>4, <1>5 DEF IInv

(* The names that the help text lists are names.                           *)
LEMMA NamesListed ==
  ASSUME NEW names \in Seq(STRING)
  PROVE  ExtractQFields(names) \in Seq(STRING)
<1>1. Without(names, {"a,b"}) \in Seq(STRING)
  BY WithoutList
<1> QED BY <1>1 DEF ExtractQFields

(* What nvidia-smi is asked about is one of the configurations.            *)
LEMMA MachineOfWorlds == IInv => Machine \in Worlds
BY DEF IInv, TypeOK, Machine

(* A list reaches the first query normalized, and a resolution follows     *)
(* from an answer or from the built-in names.                              *)
LEMMA StartupKeeps ==
  ASSUME IInv, Startup
  PROVE  IInv'
<1>1. /\ cfg \in CommandLines /\ world \in Worlds /\ current \in Worlds
      /\ SynthOK /\ StartupOK /\ Machine \in Worlds /\ cfg.list \in Seq(STRING)
  BY MachineOfWorlds, CommandLinesAssumption DEF IInv, TypeOK
<1>2. CASE BeginResolving
  <2>1. startup' \in Startups /\ SynthOK' /\ current' \in Worlds
    BY <1>1, <1>2 DEF BeginResolving, Starting, Startups, SynthOK, Demo, demoVars
  <2>2. Serves(Normalized(cfg.list), cfg.list, cfg.excluded)
    BY <1>1, NormalizedList
  <2>3. StartupOK'
    BY <1>2, <2>2 DEF BeginResolving, Starting, StartupOK
  <2> QED BY <1>2, <2>1, <2>3, StartupFrame DEF BeginResolving, Starting, demoVars
<1>3. CASE NewDemo
  <2>1. startup' \in Startups /\ current' \in Worlds
    BY <1>1, <1>3 DEF NewDemo, Startups
  <2>2. SynthOK'
    <3>1. synth' = NoSynth /\ NoSynth.xids = [pair \in {} |-> 0] /\ Demo'
      BY <1>3 DEF NewDemo, NoSynth, Demo
    <3>2. PairCounts([pair \in {} |-> 0])
      BY FS_EmptySet DEF PairCounts
    <3> QED BY <3>1, <3>2 DEF SynthOK
  <2>3. Serves(Normalized(cfg.list), cfg.list, cfg.excluded)
    BY <1>1, NormalizedList
  <2>4. StartupOK'
    BY <1>1, <1>3, <2>3 DEF NewDemo, StartupOK
  <2> QED BY <1>3, <2>1, <2>2, <2>4, StartupFrame DEF NewDemo
<1>4. CASE ResolveNVML
  <2>1. PICK oldDriver \in BOOLEAN :
          LET r == CatalogResolve(oldDriver, cfg.list, cfg.excluded)
          IN  Starting(IF r.failed THEN "failed" ELSE "up", query, r)
    BY <1>4 DEF ResolveNVML
  <2> DEFINE r == CatalogResolve(oldDriver, cfg.list, cfg.excluded)
  <2>2. /\ r.failed => cfg.list # AUTO
        /\ ~r.failed => Serves(r.query, cfg.list, cfg.excluded)
    BY <1>1, CatalogList
  <2>3. Starting(IF r.failed THEN "failed" ELSE "up", query, r)
    BY <2>1
  <2> HIDE DEF r
  <2>4. startup' \in Startups /\ SynthOK' /\ current' \in Worlds
    BY <1>1, <2>3 DEF Starting, Startups, SynthOK, Demo, demoVars
  <2>5. StartupOK'
    BY <1>4, <2>2, <2>3 DEF ResolveNVML, Starting, StartupOK
  <2> QED BY <1>4, <2>3, <2>4, <2>5, StartupFrame DEF ResolveNVML, Starting, demoVars
<1>5. CASE Discover
  <2> DEFINE names == ExtractQFields(Machine.help)
  <2>1. names \in Seq(STRING)
    BY <1>1, NamesListed, WorldsAssumption
  <2>2. startup = "discover" /\ Starting("initial", Normalized(names), Failure)
    BY <1>5 DEF Discover
  <2> HIDE DEF names
  <2>3. cfg.list = AUTO
    BY <1>1, <2>2 DEF StartupOK
  <2>4. Serves(Normalized(names), cfg.list, cfg.excluded)
    BY <2>1, <2>3, NormalizedList
  <2>5. startup' \in Startups /\ SynthOK' /\ current' \in Worlds
    BY <1>1, <2>2 DEF Starting, Startups, SynthOK, Demo, demoVars
  <2>6. StartupOK'
    BY <2>2, <2>4 DEF Starting, StartupOK
  <2> QED BY <2>2, <2>5, <2>6, StartupFrame DEF Starting, demoVars
<1>6. CASE DiscoverFails
  <2>1. /\ startup = "discover"
        /\ Starting("version", query, builtinResolvedFields(cfg.excluded))
    BY <1>6 DEF DiscoverFails
  <2>2. cfg.list = AUTO
    BY <1>1, <2>1 DEF StartupOK
  <2>3. startup' \in Startups /\ SynthOK' /\ current' \in Worlds
    BY <1>1, <2>1 DEF Starting, Startups, SynthOK, Demo, demoVars
  <2>4. StartupOK'
    BY <2>1, <2>2, BuiltinList DEF Starting, StartupOK
  <2> QED BY <2>1, <2>3, <2>4, StartupFrame DEF Starting, demoVars
<1>7. CASE InitialQuery
  <2> DEFINE table == QueryTable(query)
             r == Resolved(query, HeaderNames(query, table.rFields))
  <2>1. startup = "initial" /\ ~table.failed /\ Starting("version", query, r)
    BY <1>7 DEF InitialQuery, HeaderNames
  <2>2. Serves(query, cfg.list, cfg.excluded)
    BY <1>1, <2>1 DEF StartupOK
  <2>3. table = ParseCSVIntoTable(Output(Machine, query), query)
    BY <2>1 DEF QueryTable, Failure
  <2>4. ~r.failed /\ r.query = query
    BY ResolvedFields
  <2>5. UnitsAre(r)
    <3> HIDE DEF table
    <3> QED BY <1>1, <2>1, <2>2, <2>3, QueryAnswered
  <2> HIDE DEF r, table
  <2>6. startup' \in Startups /\ SynthOK' /\ current' \in Worlds
    BY <1>1, <2>1 DEF Starting, Startups, SynthOK, Demo, demoVars
  <2>7. StartupOK'
    BY <2>1, <2>2, <2>4, <2>5 DEF Starting, StartupOK
  <2> QED BY <2>1, <2>6, <2>7, StartupFrame DEF Starting, demoVars
<1>8. CASE InitialQueryFails
  <2> DEFINE r == InitialQueryFailed(cfg.list = AUTO, query, cfg.excluded)
  <2>1. /\ startup = "initial"
        /\ Starting(IF r.failed THEN "failed" ELSE "version", query, r)
    BY <1>8 DEF InitialQueryFails
  <2>2. Serves(query, cfg.list, cfg.excluded)
    BY <1>1, <2>1 DEF StartupOK
  <2>3. /\ r.failed => cfg.list # AUTO
        /\ ~r.failed => Serves(r.query, cfg.list, cfg.excluded) /\ UnitsAre(r)
    BY <2>2, QueryFallsBack
  <2> HIDE DEF r
  <2>4. startup' \in Startups /\ SynthOK' /\ current' \in Worlds
    BY <1>1, <2>1 DEF Starting, Startups, SynthOK, Demo, demoVars
  <2>5. StartupOK'
    BY <2>1, <2>3 DEF Starting, StartupOK
  <2> QED BY <2>1, <2>4, <2>5, StartupFrame DEF Starting, demoVars
<1>9. CASE QueryCudaVersion
  <2>1. startup' \in Startups /\ SynthOK' /\ current' \in Worlds
    BY <1>1, <1>9 DEF QueryCudaVersion, Startups, SynthOK, Demo, demoVars
  <2>2. StartupOK'
    BY <1>1, <1>9 DEF QueryCudaVersion, StartupOK
  <2> QED BY <1>9, <2>1, <2>2, StartupFrame DEF QueryCudaVersion, demoVars
<1> QED BY <1>2, <1>3, <1>4, <1>5, <1>6, <1>7, <1>8, <1>9 DEF Startup

-----------------------------------------------------------------------------
(* A collection.                                                           *)

(* One collection has gone on; the configuration may be another one when   *)
(* none is under way.                                                      *)
LEMMA CollectionFrame ==
  ASSUME IInv, startup = "up", NEW k \in Cycles, NEW to \in Stages, NEW r,
         cyc' = [cyc EXCEPT ![k] = to], reading' = [reading EXCEPT ![k] = r],
         UNCHANGED <<startVars, world>>, current' \in Worlds,
         current' = current \/ cycleMu = NoOne,
         cycleMu' \in Cycles \cup {NoOne}, succeeded' \in BOOLEAN,
         LockOK', SynthOK',
         IsReading(r), Lists(r, resolved.query), Follows(r, to, cfg.apps),
         Demo => OfOne(r, to, current'.id)
  PROVE  IInv'
<1>1. /\ TypeOK /\ cyc \in [Cycles -> Stages]
      /\ reading = [j \in Cycles |-> reading[j]]
  BY DEF IInv, TypeOK
<1>2. TypeOK'
  <2>1. cyc' \in [Cycles -> Stages]
    BY <1>1
  <2>2. reading' = [j \in Cycles |-> reading'[j]]
    BY <1>1
  <2> QED BY <1>1, <2>1, <2>2 DEF TypeOK, startVars
<1>3. StartupOK'
  BY DEF IInv, StartupOK, startVars, UnitsAre
<1>4. ASSUME NEW j \in Cycles
      PROVE  ReadingOK(reading[j], cyc[j])'
  <2>1. CASE j = k
    <3>1. reading'[j] = r /\ cyc'[j] = to
      BY <1>1, <2>1
    <3> QED BY <3>1 DEF ReadingOK, startVars, Demo
  <2>2. CASE j # k
    <3>1. reading'[j] = reading[j] /\ cyc'[j] = cyc[j]
      BY <1>1, <2>2
    <3>2. /\ IsReading(reading[j]) /\ Lists(reading[j], resolved.query)
          /\ Follows(reading[j], cyc[j], cfg.apps)
          /\ Demo => OfOne(reading[j], cyc[j], current.id)
      BY DEF IInv, ReadingOK
    <3>3. Demo => OfOne(reading[j], cyc[j], current'.id)
      <4>1. CASE current' = current
        BY <3>2, <4>1
      <4>2. CASE cycleMu = NoOne
        <5>1. Demo => cyc[j] \notin {"apps", "overlay"}
          BY <4>2, CyclesAssumption DEF IInv, LockOK
        <5> QED BY <3>2, <5>1 DEF OfOne
      <4> QED BY <4>1, <4>2
    <3> QED BY <3>1, <3>2, <3>3 DEF ReadingOK, startVars, Demo
  <2> QED BY <2>1, <2>2
<1> QED BY <1>2, <1>3, <1>4 DEF IInv

(* A collection that goes on to its next stage keeps the invariant, if     *)
(* what it has read by then is what its stage says.                        *)
LEMMA GoesKeeps ==
  ASSUME IInv, startup = "up", cfg.backend # "nvml",
         NEW k \in Cycles, NEW to \in Stages, NEW r, Goes(k, to, r),
         Demo => (cyc[k] \in {"gpus", "apps", "overlay"}
                    <=> to \in {"gpus", "apps", "overlay"}),
         to = "overlay" => Demo,
         IsReading(r), Lists(r, resolved.query), Follows(r, to, cfg.apps),
         Demo => OfOne(r, to, current.id)
  PROVE  IInv'
<1>1. /\ cyc' = [cyc EXCEPT ![k] = to] /\ reading' = [reading EXCEPT ![k] = r]
      /\ UNCHANGED <<startVars, world>> /\ UNCHANGED demoVars
      /\ succeeded' = succeeded
  BY DEF Goes
<1>2. TypeOK /\ LockOK /\ SynthOK
  BY DEF IInv
<1>3. LockOK'
  BY <1>1, <1>2 DEF LockOK, TypeOK, Demo, startVars, demoVars
<1>4. SynthOK'
  BY <1>1, <1>2 DEF SynthOK, Demo, startVars, demoVars
<1>5. /\ current' \in Worlds /\ current' = current
      /\ cycleMu' \in Cycles \cup {NoOne} /\ succeeded' \in BOOLEAN
  BY <1>1, <1>2 DEF TypeOK, demoVars
<1> QED BY <1>1, <1>3, <1>4, <1>5, CollectionFrame

(* So does a collection that ends, of what it publishes.                   *)
LEMMA EndsKeeps ==
  ASSUME IInv, startup = "up", cfg.backend # "nvml",
         NEW k \in Cycles, NEW r, Ends(k, r), current' = current, SynthOK',
         IsReading(r), Lists(r, resolved.query), Follows(r, "done", cfg.apps),
         Demo => OfOne(r, "done", current.id)
  PROVE  IInv'
<1>1. /\ cyc' = [cyc EXCEPT ![k] = "done"] /\ reading' = [reading EXCEPT ![k] = r]
      /\ UNCHANGED <<startVars, world>>
      /\ cycleMu' = IF cycleMu = k THEN NoOne ELSE cycleMu
      /\ succeeded' = (succeeded \/ r.ok)
  BY DEF Ends
<1>2. TypeOK /\ LockOK
  BY DEF IInv
<1>3. LockOK'
  BY <1>1, <1>2, CyclesAssumption DEF LockOK, TypeOK, Demo, startVars
<1>4. succeeded' \in BOOLEAN
  BY <1>1, <1>2 DEF TypeOK, IsReading
<1>5. /\ current' \in Worlds /\ cycleMu' \in Cycles \cup {NoOne}
      /\ "done" \in Stages
  BY <1>1, <1>2 DEF TypeOK, Stages
<1> QED BY <1>1, <1>3, <1>4, <1>5, CollectionFrame

(* Nothing but an exit code comes of a collection that failed.             *)
LEMMA NothingButCode ==
  ASSUME NEW code, NEW fields, NEW apps, NEW id,
         NEW r, r = [NoReading EXCEPT !.exitCode = code]
  PROVE  /\ IsReading(r) /\ Lists(r, fields) /\ Follows(r, "done", apps)
         /\ OfOne(r, "done", id)
<1>1. /\ r.ok = FALSE /\ r.appsAttempted = FALSE /\ r.appsSuccess = FALSE
      /\ r.rows = NoReading.rows /\ r.apps = NoReading.apps
      /\ r.mig = NoReading.mig /\ r.energy = NoReading.energy
  BY DEF NoReading
<1>2. IsReading(r)
  BY DEF IsReading, NoReading
<1>3. Lists(NoReading, fields)
  BY NothingRead
<1>4. Lists(r, fields)
  BY <1>1, <1>3 DEF Lists
<1>5. Follows(r, "done", apps) /\ OfOne(r, "done", id)
  BY <1>1 DEF Follows, OfOne
<1> QED BY <1>2, <1>4, <1>5

(* A collection under way is one of a backend that collects here.          *)
LEMMA UnderWay ==
  ASSUME IInv, NEW k \in Cycles
  PROVE  /\ cyc[k] # "idle" => startup = "up" /\ cfg.backend # "nvml"
         /\ Machine \in Worlds /\ SynthOK
         /\ Demo => Machine = current
         /\ ReadingOK(reading[k], cyc[k])
         /\ startup = "up" => Serves(resolved.query, cfg.list, cfg.excluded)
         /\ cyc[k] = "overlay" => Demo
         /\ Demo => (cyc[k] \in {"gpus", "apps", "overlay"} <=> cycleMu = k)
         /\ Demo /\ cycleMu # NoOne => current.valid
<1>1. TypeOK /\ LockOK /\ StartupOK /\ SynthOK /\ ReadingOK(reading[k], cyc[k])
  BY DEF IInv
<1>2. /\ cyc[k] # "idle" => startup = "up" /\ cfg.backend # "nvml"
      /\ cyc[k] = "overlay" => Demo
      /\ Demo => (cyc[k] \in {"gpus", "apps", "overlay"} <=> cycleMu = k)
      /\ Demo /\ cycleMu # NoOne => current.valid
  BY <1>1 DEF LockOK
<1>3. startup = "up" => Serves(resolved.query, cfg.list, cfg.excluded)
  BY <1>1 DEF StartupOK
<1>4. Demo => Machine = current
  BY DEF Machine
<1> QED BY <1>1, <1>2, <1>3, <1>4, MachineOfWorlds

(* The demo reads one configuration under its lock                         *)
(* (internal/demo/backend.go).                                             *)
LEMMA BeginDemoCycleKeeps ==
  ASSUME IInv, NEW k \in Cycles, BeginDemoCycle(k)
  PROVE  IInv'
<1> DEFINE r == reading[k]
<1>1. /\ startup = "up" /\ Demo /\ cyc[k] = "idle" /\ world.valid
      /\ cycleMu = NoOne /\ cycleMu' = k /\ current' = world
      /\ synth' = IF world = current THEN synth ELSE NoSynth
      /\ cyc' = [cyc EXCEPT ![k] = "gpus"]
      /\ UNCHANGED <<startVars, world>> /\ reading' = reading
      /\ succeeded' = succeeded
  BY DEF BeginDemoCycle, LockCycle
<1>2. TypeOK /\ LockOK /\ SynthOK /\ ReadingOK(r, "idle")
  BY <1>1 DEF IInv
<1>3. reading' = [reading EXCEPT ![k] = r]
  BY <1>1, <1>2 DEF TypeOK
<1>4. LockOK'
  <2>1. cyc \in [Cycles -> Stages] /\ k # NoOne
    BY <1>2, CyclesAssumption DEF TypeOK
  <2>2. ASSUME NEW j \in Cycles
        PROVE  cyc'[j] \in {"gpus", "apps", "overlay"} <=> cycleMu' = j
    BY <1>1, <1>2, <2>1, CyclesAssumption DEF LockOK
  <2>3. startup' = "up" /\ cfg'.backend # "nvml" /\ Demo' /\ current'.valid
    BY <1>1 DEF startVars, Demo
  <2> QED BY <2>2, <2>3 DEF LockOK
<1>5. SynthOK'
  <2>1. PairCounts(NoSynth.xids)
    <3>1. NoSynth.xids = [pair \in {} |-> 0]
      BY DEF NoSynth
    <3>2. PairCounts([pair \in {} |-> 0])
      BY FS_EmptySet DEF PairCounts
    <3> QED BY <3>1, <3>2
  <2>2. synth' = synth \/ synth' = NoSynth
    BY <1>1
  <2>3. Demo'
    BY <1>1 DEF Demo, startVars
  <2> QED BY <1>2, <2>1, <2>2, <2>3 DEF SynthOK
<1>6. /\ IsReading(r) /\ Lists(r, resolved.query) /\ Follows(r, "gpus", cfg.apps)
      /\ OfOne(r, "gpus", current'.id)
  BY <1>2 DEF ReadingOK, Follows, OfOne
<1>7. /\ current' \in Worlds /\ cycleMu' \in Cycles \cup {NoOne}
      /\ succeeded' \in BOOLEAN /\ "gpus" \in Stages
  BY <1>1, <1>2 DEF TypeOK, Stages
<1> HIDE DEF r
<1> QED BY <1>1, <1>3, <1>4, <1>5, <1>6, <1>7, CollectionFrame

(* A configuration that cannot be used is a failure with nothing read.     *)
LEMMA BadConfigurationKeeps ==
  ASSUME IInv, NEW k \in Cycles, BadConfiguration(k)
  PROVE  IInv'
<1>1. /\ startup = "up" /\ Demo /\ Ends(k, NoReading)
      /\ current' = current /\ synth' = synth
  BY DEF BadConfiguration
<1>2. cfg.backend # "nvml" /\ SynthOK'
  BY <1>1 DEF Demo, IInv, SynthOK, Ends, startVars
<1>3. /\ IsReading(NoReading) /\ Lists(NoReading, resolved.query)
      /\ Follows(NoReading, "done", cfg.apps)
      /\ OfOne(NoReading, "done", current.id)
  BY NothingRead DEF Follows, OfOne, NoReading
<1> QED BY <1>1, <1>2, <1>3, EndsKeeps

(* The nvidia-smi collection begins with nothing read.                     *)
LEMMA BeginCycleKeeps ==
  ASSUME IInv, NEW k \in Cycles, BeginCycle(k)
  PROVE  IInv'
<1>1. /\ startup = "up" /\ cfg.backend = "exec" /\ ~Demo
      /\ Goes(k, "gpus", NoReading)
  BY DEF BeginCycle, Demo
<1>2. /\ IsReading(NoReading) /\ Lists(NoReading, resolved.query)
      /\ Follows(NoReading, "gpus", cfg.apps) /\ "gpus" \in Stages
  BY NothingRead DEF Follows, NoReading, Stages
<1> QED BY <1>1, <1>2, GoesKeeps

(* The table is parsed: a row for each GPU, or no collection.              *)
LEMMA QueryGpusKeeps ==
  ASSUME IInv, NEW k \in Cycles, QueryGpus(k)
  PROVE  IInv'
<1> DEFINE table == QueryTable(resolved.query)
           r == [NoReading EXCEPT !.ok = TRUE, !.exitCode = 0,
                                  !.rows = table.rows, !.gpusOf = Machine.id]
<1>1. /\ cyc[k] = "gpus" /\ ~table.failed
      /\ \/ cfg.apps /\ Goes(k, "apps", r)
         \/ ~cfg.apps /\ Demo /\ Goes(k, "overlay", r)
         \/ ~cfg.apps /\ ~Demo /\ Ends(k, r) /\ UNCHANGED <<current, synth>>
  BY DEF QueryGpus
<1>2. /\ startup = "up" /\ cfg.backend # "nvml" /\ Machine \in Worlds /\ SynthOK
      /\ Serves(resolved.query, cfg.list, cfg.excluded) /\ (Demo => Machine = current)
  BY <1>1, UnderWay
<1>3. table = ParseCSVIntoTable(Output(Machine, resolved.query), resolved.query)
  BY <1>1 DEF QueryTable, Failure
<1>4. TableOf(table.rows, resolved.query)
  <2> HIDE DEF table
  <2> QED BY <1>1, <1>2, <1>3, TableServed
<1> HIDE DEF table
<1>5. /\ r.ok = TRUE /\ r.appsAttempted = FALSE /\ r.appsSuccess = FALSE
      /\ r.rows = table.rows /\ r.apps = NoReading.apps /\ r.gpusOf = Machine.id
      /\ r.mig = NoReading.mig /\ r.energy = NoReading.energy /\ r.apps = <<>>
  BY DEF NoReading
<1>6. IsReading(r)
  <2>1. NoReading = [x \in DOMAIN NoReading |-> NoReading[x]]
    BY DEF NoReading
  <2>2. r = [x \in DOMAIN NoReading |-> r[x]]
    BY <2>1
  <2> HIDE DEF r
  <2> QED BY <1>5, <2>2 DEF IsReading
<1> HIDE DEF r
<1>7. Lists(r, resolved.query)
  BY <1>4, <1>5, NothingRead DEF Lists
<1>8. /\ cfg.apps => Follows(r, "apps", cfg.apps)
      /\ Follows(r, "overlay", cfg.apps) /\ Follows(r, "done", cfg.apps)
  BY <1>5 DEF Follows
<1>9. Demo => OfOne(r, "apps", current.id) /\ OfOne(r, "overlay", current.id)
  BY <1>2, <1>5 DEF OfOne
<1>10. "apps" \in Stages /\ "overlay" \in Stages
  BY DEF Stages
<1>11. CASE cfg.apps /\ Goes(k, "apps", r)
  BY <1>1, <1>2, <1>6, <1>7, <1>8, <1>9, <1>10, <1>11, GoesKeeps
<1>12. CASE ~cfg.apps /\ Demo /\ Goes(k, "overlay", r)
  BY <1>1, <1>2, <1>6, <1>7, <1>8, <1>9, <1>10, <1>12, GoesKeeps
<1>13. CASE ~cfg.apps /\ ~Demo /\ Ends(k, r) /\ UNCHANGED <<current, synth>>
  <2>1. SynthOK'
    BY <1>2, <1>13 DEF SynthOK, Ends, startVars, Demo
  <2> QED BY <1>2, <1>6, <1>7, <1>8, <1>13, <2>1, EndsKeeps
<1> QED BY <1>1, <1>11, <1>12, <1>13

(* The GPU query fails: nothing but the exit code is published.            *)
LEMMA QueryFailsKeeps ==
  ASSUME IInv, NEW k \in Cycles, QueryFails(k)
  PROVE  IInv'
<1>1. NoReading = [NoReading EXCEPT !.exitCode = -1]
  BY DEF NoReading
<1>2. /\ cyc[k] = "gpus" /\ current' = current /\ synth' = synth
      /\ \E code : Ends(k, [NoReading EXCEPT !.exitCode = code])
  BY <1>1 DEF QueryFails
<1>3. PICK code : Ends(k, [NoReading EXCEPT !.exitCode = code])
  BY <1>2
<1> DEFINE r == [NoReading EXCEPT !.exitCode = code]
<1>4. startup = "up" /\ cfg.backend # "nvml" /\ SynthOK
  BY <1>2, UnderWay
<1>5. SynthOK'
  BY <1>2, <1>3, <1>4 DEF SynthOK, Ends, startVars, Demo
<1>6. Ends(k, r)
  BY <1>3
<1>7. /\ IsReading(r) /\ Lists(r, resolved.query) /\ Follows(r, "done", cfg.apps)
      /\ OfOne(r, "done", current.id)
  BY NothingButCode
<1> HIDE DEF r
<1> QED BY <1>2, <1>4, <1>5, <1>6, <1>7, EndsKeeps

(* Past the process query the collection goes on to the overlay or ends.   *)
LEMMA AppsReadKeeps ==
  ASSUME IInv, NEW k \in Cycles, cyc[k] = "apps", NEW r, AppsRead(k, r),
         IsReading(r), Lists(r, resolved.query),
         Follows(r, "overlay", cfg.apps), Follows(r, "done", cfg.apps),
         Demo => OfOne(r, "overlay", current.id)
  PROVE  IInv'
<1>1. startup = "up" /\ cfg.backend # "nvml" /\ SynthOK /\ "overlay" \in Stages
  BY UnderWay DEF Stages
<1>2. CASE Demo
  <2>1. Goes(k, "overlay", r)
    BY <1>2 DEF AppsRead
  <2> QED BY <1>1, <1>2, <2>1, GoesKeeps
<1>3. CASE ~Demo
  <2>1. Ends(k, r) /\ current' = current /\ synth' = synth
    BY <1>3 DEF AppsRead
  <2>2. SynthOK'
    BY <1>1, <1>3, <2>1 DEF SynthOK, Ends, startVars, Demo
  <2> QED BY <1>1, <1>3, <2>1, <2>2, EndsKeeps
<1> QED BY <1>2, <1>3

(* The processes are parsed: each usable one once.                         *)
LEMMA QueryComputeAppsKeeps ==
  ASSUME IInv, NEW k \in Cycles, QueryComputeApps(k)
  PROVE  IInv'
<1> DEFINE parsed == ParseComputeApps(Machine.apps)
           was == reading[k]
           r == [was EXCEPT !.appsAttempted = TRUE, !.appsSuccess = TRUE,
                            !.apps = parsed.apps, !.appsOf = Machine.id]
<1>1. cyc[k] = "apps" /\ ~parsed.failed /\ AppsRead(k, r)
  BY DEF QueryComputeApps
<1>2. /\ Machine \in Worlds /\ (Demo => Machine = current)
      /\ ReadingOK(was, "apps")
  BY <1>1, UnderWay
<1>3. parsed.apps \in Seq(Processes) /\ DistinctApps(parsed.apps)
  BY <1>1, <1>2, AppsParsed
<1> HIDE DEF parsed, was
<1>4. /\ IsReading(was) /\ Lists(was, resolved.query)
      /\ Follows(was, "apps", cfg.apps) /\ (Demo => OfOne(was, "apps", current.id))
  BY <1>2 DEF ReadingOK
<1>5. /\ r = [x \in DOMAIN NoReading |-> r[x]]
      /\ r.appsAttempted = TRUE /\ r.appsSuccess = TRUE /\ r.apps = parsed.apps
      /\ r.appsOf = Machine.id /\ r.ok = was.ok /\ r.rows = was.rows
      /\ r.energy = was.energy /\ r.mig = was.mig /\ r.gpusOf = was.gpusOf
  BY <1>4, ReadingParts DEF IsReading
<1> HIDE DEF r
<1>6. IsReading(r)
  BY <1>4, <1>5 DEF IsReading
<1>7. Lists(r, resolved.query)
  BY <1>3, <1>4, <1>5 DEF Lists
<1>8. Follows(r, "overlay", cfg.apps) /\ Follows(r, "done", cfg.apps)
  BY <1>3, <1>4, <1>5 DEF Follows
<1>9. Demo => OfOne(r, "overlay", current.id)
  BY <1>2, <1>4, <1>5 DEF OfOne
<1> QED BY <1>1, <1>6, <1>7, <1>8, <1>9, AppsReadKeeps

(* The process query fails: attempted, not successful, and no processes.   *)
LEMMA ComputeAppsFailKeeps ==
  ASSUME IInv, NEW k \in Cycles, ComputeAppsFail(k)
  PROVE  IInv'
<1> DEFINE was == reading[k]
           r == [was EXCEPT !.appsAttempted = TRUE]
<1>1. cyc[k] = "apps" /\ AppsRead(k, r)
  BY DEF ComputeAppsFail
<1>2. ReadingOK(was, "apps")
  BY <1>1, UnderWay
<1> HIDE DEF was
<1>3. /\ IsReading(was) /\ Lists(was, resolved.query)
      /\ Follows(was, "apps", cfg.apps) /\ (Demo => OfOne(was, "apps", current.id))
  BY <1>2 DEF ReadingOK
<1>4. /\ r = [x \in DOMAIN NoReading |-> r[x]]
      /\ r.appsAttempted = TRUE /\ r.appsSuccess = was.appsSuccess
      /\ r.apps = was.apps /\ r.ok = was.ok /\ r.rows = was.rows
      /\ r.energy = was.energy /\ r.mig = was.mig
      /\ r.gpusOf = was.gpusOf /\ r.appsOf = was.appsOf
  BY <1>3, ReadingParts DEF IsReading
<1> HIDE DEF r
<1>5. IsReading(r)
  BY <1>3, <1>4 DEF IsReading
<1>6. Lists(r, resolved.query)
  BY <1>3, <1>4 DEF Lists
<1>7. Follows(r, "overlay", cfg.apps) /\ Follows(r, "done", cfg.apps)
  BY <1>3, <1>4 DEF Follows
<1>8. Demo => OfOne(r, "overlay", current.id)
  BY <1>3, <1>4 DEF Follows, OfOne
<1> QED BY <1>1, <1>5, <1>6, <1>7, <1>8, AppsReadKeeps

(* The overlay adds the MIG devices, attributes the processes to them and  *)
(* counts the events of the history.                                       *)
LEMMA OverlayKeeps ==
  ASSUME IInv, NEW k \in Cycles, Overlay(k)
  PROVE  IInv'
<1> DEFINE was == reading[k]
           uuids == Uuids(was.rows)
           mig == synthMIG(uuids)
           apps == attributeApps(uuids, was.apps)
           r == [was EXCEPT !.energy = uuids, !.mig = mig, !.apps = apps,
                            !.extrasOf = current.id]
<1>1. /\ cyc[k] = "overlay" /\ Ends(k, r) /\ current' = current
      /\ \E xids \in tickXIDs(uuids) : synth'.xids = xids
  BY DEF Overlay
<1>2. /\ startup = "up" /\ cfg.backend # "nvml" /\ Demo /\ SynthOK
      /\ ReadingOK(was, "overlay") /\ current.valid
  <2>1. cycleMu = k /\ Demo
    BY <1>1, UnderWay
  <2> QED BY <1>1, <2>1, UnderWay, CyclesAssumption
<1>3. current \in Worlds
  BY DEF IInv, TypeOK
<1> HIDE DEF was
<1>4. /\ IsReading(was) /\ Lists(was, resolved.query)
      /\ Follows(was, "overlay", cfg.apps) /\ OfOne(was, "overlay", current.id)
  BY <1>2 DEF ReadingOK
<1>5. IsSeq(uuids) /\ IsInjective(uuids)
  <2>1. TableOf(was.rows, resolved.query)
    BY <1>4 DEF Lists
  <2> QED BY <2>1, UuidsListed
<1>6. DistinctMIG(mig)
  <2> HIDE DEF uuids
  <2> QED BY <1>2, <1>3, <1>5, MigSynthesized
<1>7. DistinctApps(apps)
  <2>1. was.apps \in Seq(Processes) /\ DistinctApps(was.apps)
    BY <1>4 DEF Lists, Follows
  <2> HIDE DEF uuids
  <2> QED BY <2>1, AppsAttributed
<1>8. SynthOK'
  <2>1. PICK xids \in tickXIDs(uuids) : synth'.xids = xids
    BY <1>1
  <2>2. PairCounts(xids)
    <3> HIDE DEF uuids
    <3> QED BY <1>2, <1>3, <2>1, EventsCounted DEF SynthOK
  <2>3. Demo'
    BY <1>1, <1>2 DEF Ends, startVars, Demo
  <2> QED BY <2>1, <2>2, <2>3 DEF SynthOK
<1> HIDE DEF uuids, mig, apps
<1>9. /\ r = [x \in DOMAIN NoReading |-> r[x]]
      /\ r.energy = uuids /\ r.mig = mig /\ r.apps = apps
      /\ r.extrasOf = current.id /\ r.ok = was.ok /\ r.rows = was.rows
      /\ r.appsAttempted = was.appsAttempted /\ r.appsSuccess = was.appsSuccess
      /\ r.gpusOf = was.gpusOf /\ r.appsOf = was.appsOf
  BY <1>4, ReadingParts DEF IsReading
<1> HIDE DEF r
<1>10. IsReading(r)
  BY <1>4, <1>9 DEF IsReading
<1>11. Lists(r, resolved.query)
  BY <1>4, <1>5, <1>6, <1>7, <1>9 DEF Lists
<1>12. Follows(r, "done", cfg.apps)
  BY <1>4, <1>9 DEF Follows
<1>13. OfOne(r, "done", current.id)
  BY <1>4, <1>9 DEF OfOne
<1> QED BY <1>1, <1>2, <1>8, <1>10, <1>11, <1>12, <1>13, EndsKeeps

(* The cycle is free for another collection.                               *)
LEMMA RetireKeeps ==
  ASSUME IInv, NEW k \in Cycles, Retire(k)
  PROVE  IInv'
<1>1. cyc[k] = "done" /\ Goes(k, "idle", NoReading)
  BY DEF Retire
<1>2. startup = "up" /\ cfg.backend # "nvml" /\ "idle" \in Stages
  BY <1>1, UnderWay DEF Stages
<1>3. /\ IsReading(NoReading) /\ Lists(NoReading, resolved.query)
      /\ Follows(NoReading, "idle", cfg.apps)
      /\ OfOne(NoReading, "idle", current.id)
  BY NothingRead DEF Follows, OfOne, NoReading
<1> QED BY <1>1, <1>2, <1>3, GoesKeeps

-----------------------------------------------------------------------------
(* The invariant.                                                          *)

(* The inductive invariant holds of every behaviour, whatever the          *)
(* configurations, the failures and the order of the collections.          *)
THEOREM PipelineInvariant == Spec => []IInv
<1>1. Init => IInv
  <2> SUFFICES ASSUME Init
               PROVE  IInv
    OBVIOUS
  <2>1. /\ cfg \in CommandLines /\ startup = "begin" /\ world \in Worlds
        /\ current = world /\ synth = NoSynth /\ cycleMu = NoOne
        /\ cyc = [k \in Cycles |-> "idle"]
        /\ reading = [k \in Cycles |-> NoReading] /\ succeeded = FALSE
    BY DEF Init
  <2>2. TypeOK
    BY <2>1 DEF TypeOK, Startups, Stages
  <2>3. StartupOK
    BY <2>1 DEF StartupOK
  <2>4. LockOK
    BY <2>1, CyclesAssumption DEF LockOK
  <2>5. SynthOK
    <3>1. NoSynth.xids = [pair \in {} |-> 0] /\ DOMAIN NoSynth.xids = {}
      BY DEF NoSynth
    <3>2. PairCounts([pair \in {} |-> 0])
      BY FS_EmptySet DEF PairCounts
    <3> QED BY <2>1, <3>1, <3>2 DEF SynthOK
  <2>6. ASSUME NEW k \in Cycles
        PROVE  ReadingOK(reading[k], cyc[k])
    <3>1. /\ IsReading(NoReading) /\ Lists(NoReading, resolved.query)
          /\ Follows(NoReading, "idle", cfg.apps)
          /\ OfOne(NoReading, "idle", current.id)
      BY NothingRead DEF Follows, OfOne, NoReading
    <3> QED BY <2>1, <3>1 DEF ReadingOK
  <2> QED BY <2>2, <2>3, <2>4, <2>5, <2>6 DEF IInv
<1>2. IInv /\ [Next]_vars => IInv'
  <2> SUFFICES ASSUME IInv, [Next]_vars
               PROVE  IInv'
    OBVIOUS
  <2>1. ASSUME UNCHANGED <<startVars, current, synth, cycleMu, cyc, reading, succeeded>>,
               world' \in Worlds
        PROVE  IInv'
    <3>1. TypeOK' /\ StartupOK' /\ LockOK' /\ SynthOK'
      BY <2>1 DEF IInv, TypeOK, StartupOK, LockOK, SynthOK, UnitsAre, Demo, startVars
    <3>2. \A k \in Cycles : ReadingOK(reading[k], cyc[k])'
      BY <2>1 DEF IInv, ReadingOK, Demo, startVars
    <3> QED BY <3>1, <3>2 DEF IInv
  <2>2. CASE ChangeWorld
    BY <2>1, <2>2 DEF ChangeWorld, demoVars
  <2>3. CASE Startup
    BY <2>3, StartupKeeps
  <2>4. ASSUME NEW k \in Cycles, Collection(k)
        PROVE  IInv'
    BY <2>4, BeginDemoCycleKeeps, BadConfigurationKeeps, BeginCycleKeeps,
       QueryGpusKeeps, QueryFailsKeeps, QueryComputeAppsKeeps,
       ComputeAppsFailKeeps, OverlayKeeps, RetireKeeps DEF Collection
  <2>5. CASE UNCHANGED vars
    <3>1. world \in Worlds
      BY DEF IInv, TypeOK
    <3> QED BY <2>1, <2>5, <3>1 DEF vars, demoVars
  <2> QED BY <2>2, <2>3, <2>4, <2>5 DEF Next
<1> QED BY <1>1, <1>2, PTL DEF Spec

-----------------------------------------------------------------------------
(* The scrapes.                                                            *)

(* What the exporter is told to serve besides the table is a set of flags. *)
LEMMA FeaturesAre == IInv => FeatureFlags(Features)
<1> SUFFICES ASSUME IInv
             PROVE  FeatureFlags(Features)
  OBVIOUS
<1>1. cfg.apps \in BOOLEAN /\ cfg.migLabels \in BOOLEAN
  BY CommandLinesAssumption DEF IInv, TypeOK
<1>2. Demo \in BOOLEAN
  BY DEF Demo
<1> QED BY <1>1, <1>2 DEF FeatureFlags, Features, ExitCodeNames

(* What is published is what has been read.                                *)
LEMMA Published ==
  ASSUME NEW r, IsReading(r), NEW fields, Lists(r, fields),
         NEW attempted \in BOOLEAN, succeeded \in BOOLEAN
  PROVE  /\ SnapshotOf(Publish(r, attempted), fields)
         /\ Publish(r, attempted).hasTable = r.ok
         /\ Publish(r, attempted).success = r.ok
         /\ Publish(r, attempted).rows = r.rows
         /\ Publish(r, attempted).appsAttempted = r.appsAttempted
         /\ Publish(r, attempted).appsSuccess = r.appsSuccess
<1> DEFINE s == Publish(r, attempted)
<1>1. /\ s.attempted = attempted /\ s.success = r.ok /\ s.hasTable = r.ok
      /\ s.everSucceeded = (attempted /\ succeeded) /\ s.rows = r.rows
      /\ s.appsAttempted = r.appsAttempted /\ s.appsSuccess = r.appsSuccess
      /\ s.apps = r.apps /\ s.energy = r.energy /\ s.pcie = r.energy
      /\ s.mig = r.mig
  BY DEF Publish
<1> HIDE DEF s
<1>2. (attempted /\ succeeded) \in BOOLEAN
  OBVIOUS
<1>3. SnapshotOf(s, fields)
  BY <1>1, <1>2 DEF SnapshotOf, IsReading, Lists
<1> QED BY <1>1, <1>3 DEF s

(* A snapshot that has a table has one of a backend that collects here.    *)
LEMMA SnapshotsAre ==
  ASSUME IInv, startup = "up"
  PROVE  /\ SnapshotOf(BeforeAny, resolved.query) /\ BeforeAny.hasTable = FALSE
         /\ \A k \in Done :
              /\ SnapshotOf(Snapshot(k), resolved.query) /\ k \in Cycles
              /\ cfg.backend # "nvml" /\ ReadingOK(reading[k], "done")
<1>1. succeeded \in BOOLEAN
  BY DEF IInv, TypeOK
<1>2. SnapshotOf(BeforeAny, resolved.query) /\ BeforeAny.hasTable = FALSE
  <2>1. NoReading.ok = FALSE
    BY DEF NoReading
  <2>2. IsReading(NoReading) /\ Lists(NoReading, resolved.query)
    BY NothingRead
  <2> QED BY <1>1, <2>1, <2>2, Published DEF BeforeAny
<1>3. ASSUME NEW k \in Done
      PROVE  /\ SnapshotOf(Snapshot(k), resolved.query) /\ k \in Cycles
             /\ cfg.backend # "nvml" /\ ReadingOK(reading[k], "done")
  <2>1. k \in Cycles /\ cyc[k] = "done"
    BY DEF Done
  <2>2. cfg.backend # "nvml" /\ ReadingOK(reading[k], "done")
    BY <2>1, UnderWay
  <2>3. IsReading(reading[k]) /\ Lists(reading[k], resolved.query)
    BY <2>2 DEF ReadingOK
  <2>4. SnapshotOf(Snapshot(k), resolved.query)
    BY <1>1, <2>3, Published DEF Snapshot
  <2> QED BY <2>1, <2>2, <2>4
<1> QED BY <1>2, <1>3

(* The series of a scrape, and that each stands there once.                *)
LEMMA Served ==
  ASSUME IInv, startup = "up", NEW s, SnapshotOf(s, resolved.query)
  PROVE  LET infos == BuildQFieldToMetricInfoMap(resolved.returned)
         IN  /\ IsSeq(Scrape(s)) /\ Unique(Scrape(s))
             /\ \A x \in ToSet(Scrape(s)) : ScrapeSeries(x, s, Counters, infos, Features)
             /\ Features.xids =>
                  \A i \in 1..Len(Counters) : XidSeries(Counters[i]) \subseteq ToSet(Scrape(s))
             /\ s.hasTable /\ Features.apps /\ s.appsAttempted /\ s.appsSuccess =>
                  CountsEach(Scrape(s), s.rows)
<1>1. Serves(resolved.query, cfg.list, cfg.excluded)
  BY DEF IInv, StartupOK
<1>2. IsSeq(resolved.query) /\ IsInjective(resolved.query)
  BY <1>1 DEF Serves
<1>3. IsSeq(InfoFields) /\ "uuid" \in ToSet(InfoFields)
  BY InfoFieldsAssumption, SeqElements
<1>4. IsSeq(Counters) /\ DistinctCounters(Counters)
  BY CountersListed DEF IInv, SynthOK
<1>5. FeatureFlags(Features)
  BY FeaturesAre
<1>6. Scrape(s) = Collect(s, Counters, resolved, Features)
  BY DEF Scrape
<1> HIDE DEF Scrape
<1> QED BY <1>2, <1>3, <1>4, <1>5, <1>6, ScrapeRendered

(* A series of a scrape is described.                                      *)
LEMMA SeriesDescribed ==
  ASSUME NEW features, FeatureFlags(features), NEW r,
         NEW s, NEW counters, NEW x,
         ScrapeSeries(x, s, counters, BuildQFieldToMetricInfoMap(r.returned), features)
  PROVE  x.name \in Described(r, features)
<1> DEFINE infos == BuildQFieldToMetricInfoMap(r.returned)
           D == Described(r, features)
<1> SUFFICES x.name \in D
  OBVIOUS
<1>1. /\ {m.name : m \in Range(infos)} \subseteq D
      /\ HealthNames \cup {"gpu_info", features.exitCode} \subseteq D
      /\ features.apps => AppNames \subseteq D
      /\ features.pcie => PcieNames \subseteq D
      /\ features.energy => "energy_joules_total" \in D
      /\ features.mig => MigNames \subseteq D
      /\ features.xids => XidNames \subseteq D
  BY DEF Described
<1>2. ScrapeSeries(x, s, counters, infos, features)
  OBVIOUS
<1> HIDE DEF infos, D
<1>3. CASE HealthSeries(x, s, features)
  BY <1>1, <1>3 DEF HealthSeries
<1>4. CASE features.xids /\ \E i \in 1..Len(counters) : x \in XidSeries(counters[i])
  <2>1. x.name \in XidNames
    BY <1>4 DEF XidSeries, XidNames
  <2> QED BY <1>1, <1>4, <2>1
<1>5. ASSUME NEW uuid, RowSeries(x, uuid, infos)
      PROVE  x.name \in D
  <2>1. CASE x.name = "gpu_info"
    BY <1>1, <2>1
  <2>2. ASSUME NEW q \in DOMAIN infos, x.name = infos[q].name
        PROVE  x.name \in D
    <3>1. infos[q] \in Range(infos)
      BY DEF Range
    <3>2. infos[q].name \in {m.name : m \in Range(infos)}
      BY <3>1
    <3> QED BY <1>1, <2>2, <3>2
  <2> QED BY <1>5, <2>1, <2>2 DEF RowSeries, InfoSeries, FieldSeries
<1>6. CASE AppsSeries(x, s, features)
  BY <1>1, <1>6 DEF AppsSeries
<1>7. CASE ExtraSeries(x, features)
  BY <1>1, <1>7 DEF ExtraSeries
<1> QED BY <1>2, <1>3, <1>4, <1>5, <1>6, <1>7 DEF ScrapeSeries

(* Only a field of the table has the value of a field.                     *)
IsField(x, infos) ==
  \E uuid : \E q \in DOMAIN infos : FieldSeries(x, uuid, infos, q)

(* The value of a field of the table comes only from a snapshot with a     *)
(* table, and in the series of such a field.                               *)
LEMMA FieldValues ==
  ASSUME NEW s, NEW counters, NEW infos, NEW features, NEW x,
         ScrapeSeries(x, s, counters, infos, features), Len(x.value) = 4
  PROVE  s.hasTable /\ IsField(x, infos)
<1>1. ~HealthSeries(x, s, features) /\ ~AppsSeries(x, s, features)
      /\ ~ExtraSeries(x, features) /\ \A uuid : ~InfoSeries(x, uuid)
  BY DEF HealthSeries, AppsSeries, ExtraSeries, InfoSeries, OfNoField
<1>2. ASSUME NEW c
      PROVE  x \notin XidSeries(c)
  <2>1. \A n : Len(<<n>>) # 4
    OBVIOUS
  <2>2. Len(<<>>) # 4
    OBVIOUS
  <2>3. \A y \in XidSeries(c) : y.value = <<c.count>> \/ y.value = <<>>
    BY DEF XidSeries
  <2> QED BY <2>1, <2>2, <2>3
<1> QED BY <1>1, <1>2 DEF ScrapeSeries, RowSeries, IsField

-----------------------------------------------------------------------------
(* The properties.                                                         *)

(* Every variable has its type.                                            *)
THEOREM PipelineTypes == Spec => []TypeOK
<1>1. IInv => TypeOK
  BY DEF IInv
<1> QED BY <1>1, PipelineInvariant, PTL

(* The list that the startup resolves is the one on the command line, each *)
(* field once, no field that is excluded but the identity, and the         *)
(* identity always, whichever way the resolution went (resolve.go).        *)
THEOREM PipelineHonoursTheList == Spec => []StartupHonoursTheList
<1>1. IInv => StartupHonoursTheList
  BY DEF IInv, StartupOK, Serves, StartupHonoursTheList
<1> QED BY <1>1, PipelineInvariant, PTL

(* What one demo collection publishes (its GPUs, processes and MIG         *)
(* devices) is of one configuration, however often that changes between    *)
(* its calls (internal/demo/backend.go).                                   *)
THEOREM PipelineReadsOneConfiguration == Spec => []OneConfigurationPerReading
<1>1. IInv => OneConfigurationPerReading
  <2> SUFFICES ASSUME IInv, Demo, NEW k \in Done, reading[k].ok
               PROVE  /\ reading[k].extrasOf = reading[k].gpusOf
                      /\ reading[k].appsSuccess => reading[k].appsOf = reading[k].gpusOf
    BY DEF OneConfigurationPerReading
  <2>1. k \in Cycles /\ cyc[k] = "done"
    BY DEF Done
  <2>2. OfOne(reading[k], "done", current.id)
    BY <2>1 DEF IInv, ReadingOK
  <2> QED BY <2>2 DEF OfOne
<1> QED BY <1>1, PipelineInvariant, PTL

(* No scrape has two samples of one series, which the registry would       *)
(* reject as a whole (exporter.go), provided that nvidia-smi lists a GPU   *)
(* and a process once.                                                     *)
THEOREM PipelineScrapesAreAccepted == Spec => []ScrapesAreAccepted
<1>1. IInv => ScrapesAreAccepted
  <2> SUFFICES ASSUME IInv, startup = "up", NEW scrape \in Scrapes
               PROVE  Accepted(scrape, Described(resolved, Features))
    BY DEF ScrapesAreAccepted
  <2>1. PICK s : SnapshotOf(s, resolved.query) /\ scrape = Scrape(s)
    BY SnapshotsAre DEF Scrapes
  <2> DEFINE infos == BuildQFieldToMetricInfoMap(resolved.returned)
  <2>2. /\ IsSeq(scrape) /\ Unique(scrape)
        /\ \A x \in ToSet(scrape) : ScrapeSeries(x, s, Counters, infos, Features)
    BY <2>1, Served
  <2>3. \A x \in ToSet(scrape) : x.name \in Described(resolved, Features)
    BY <2>2, FeaturesAre, SeriesDescribed
  <2>4. DOMAIN scrape = 1..Len(scrape) /\ \A i \in 1..Len(scrape) : scrape[i] \in ToSet(scrape)
    BY <2>2, SeqElements DEF IsSeq
  <2>5. \A i, j \in DOMAIN scrape : i # j =>
          <<scrape[i].name, scrape[i].labels>> # <<scrape[j].name, scrape[j].labels>>
    BY <2>2, <2>4 DEF Unique, SameSeries
  <2>6. \A i \in DOMAIN scrape : scrape[i].name \in Described(resolved, Features)
    BY <2>3, <2>4
  <2> QED BY <2>5, <2>6 DEF Accepted
<1> QED BY <1>1, PipelineInvariant, PTL

(* Every value of a scrape is served under the name, and scaled by the     *)
(* unit, of the field it was printed for, on the GPU it was printed for,   *)
(* and is of no excluded field (table.go, resolve.go, exporter.go).        *)
THEOREM PipelineValuesStay == Spec => []ValuesStayWithTheirField
<1>1. IInv => ValuesStayWithTheirField
  <2> DEFINE infos == BuildQFieldToMetricInfoMap(resolved.returned)
  <2> SUFFICES ASSUME IInv, startup = "up", NEW scrape \in Scrapes,
                      NEW i \in DOMAIN scrape, Len(scrape[i].value) = 4
               PROVE  /\ scrape[i].value[2] \in DOMAIN infos
                      /\ scrape[i].name = infos[scrape[i].value[2]].name
                      /\ scrape[i].labels = <<scrape[i].value[3]>>
                      /\ scrape[i].value[4] = Multiplier(Returned[scrape[i].value[2]])
    BY DEF ValuesStayWithTheirField
  <2> DEFINE x == scrape[i]
  <2>1. PICK s : /\ SnapshotOf(s, resolved.query) /\ scrape = Scrape(s)
                 /\ s.hasTable => cfg.backend # "nvml"
    BY SnapshotsAre DEF Scrapes
  <2>2. ScrapeSeries(x, s, Counters, infos, Features)
    <3>1. /\ IsSeq(scrape)
          /\ \A y \in ToSet(scrape) : ScrapeSeries(y, s, Counters, infos, Features)
      BY <2>1, Served
    <3>2. x \in ToSet(scrape)
      BY DEF ToSet
    <3> HIDE DEF x, infos
    <3> QED BY <3>1, <3>2
  <2>3. Len(x.value) = 4
    OBVIOUS
  <2>4. s.hasTable /\ IsField(x, infos)
    <3> HIDE DEF x, infos
    <3> QED BY <2>2, <2>3, FieldValues
  <2>5. PICK uuid : \E q \in DOMAIN infos : FieldSeries(x, uuid, infos, q)
    BY <2>4 DEF IsField
  <2>6. PICK q \in DOMAIN infos : FieldSeries(x, uuid, infos, q)
    BY <2>5
  <2>7. q \in DOMAIN resolved.returned /\ infos[q].times = Multiplier(resolved.returned[q])
    BY InfosAreDistinct
  <2>8. resolved.returned[q].unit = Returned[q].unit
    BY <2>1, <2>4, <2>7 DEF IInv, StartupOK, UnitsAre
  <2>9. Multiplier(resolved.returned[q]) = Multiplier(Returned[q])
    BY <2>8 DEF Multiplier
  <2> HIDE DEF infos, x
  <2>10. /\ x.name = infos[q].name /\ x.labels = <<uuid>>
        /\ x.value = <<"field", q, uuid, infos[q].times>>
    BY <2>6 DEF FieldSeries
  <2>11. x.value[2] = q /\ x.value[3] = uuid /\ x.value[4] = infos[q].times
    BY <2>10
  <2> QED BY <2>7, <2>9, <2>10, <2>11 DEF x
<1> QED BY <1>1, PipelineInvariant, PTL

(* What the name of a series says of it.                                   *)
LEMMA SeriesOfName ==
  ASSUME NEW s, NEW counters, NEW infos, DistinctInfos(infos),
         NEW features, FeatureFlags(features), NEW x,
         ScrapeSeries(x, s, counters, infos, features)
  PROVE  /\ x.name = "xid_errors_total" =>
              features.xids /\ \E i \in 1..Len(counters) : x \in XidSeries(counters[i])
         /\ x.name = "last_collect_success" => x.value = Flag(s.success)
         /\ ~s.hasTable => x.name \in HealthNames \cup ExitCodeNames \cup XidNames
         /\ x.name \in {"compute_apps", "compute_apps_last_collect_success"} =>
              AppsSeries(x, s, features)
<1> DEFINE health == HealthNames \cup {features.exitCode}
           Xid == features.xids /\ \E i \in 1..Len(counters) : x \in XidSeries(counters[i])
<1>1. /\ health \cap XidNames = {}
      /\ (health \cup XidNames) \cap (RowNames(infos) \cup AppNames \cup ExtraNames) = {}
      /\ RowNames(infos) \cap AppNames = {}
      /\ (RowNames(infos) \cup AppNames) \cap ExtraNames = {}
  BY NamesApart
<1>2. HealthSeries(x, s, features) =>
        x.name \in health /\ (x.name = "last_collect_success" => x.value = Flag(s.success))
  BY DEF HealthSeries
<1>3. Xid => x.name \in XidNames
  BY DEF XidSeries, XidNames
<1>4. \A uuid : RowSeries(x, uuid, infos) => x.name \in RowNames(infos)
  BY DEF RowSeries, InfoSeries, FieldSeries, RowNames
<1>5. AppsSeries(x, s, features) => x.name \in AppNames
  BY DEF AppsSeries
<1>6. ExtraSeries(x, features) => x.name \in ExtraNames
  BY DEF ExtraSeries, ExtraNames
<1>7. /\ "xid_errors_total" \in XidNames /\ "last_collect_success" \in health
      /\ {"compute_apps", "compute_apps_last_collect_success"} \subseteq AppNames
  BY DEF XidNames, HealthNames, AppNames
<1>8. health \subseteq HealthNames \cup ExitCodeNames
  BY DEF FeatureFlags
<1> HIDE DEF health, Xid
<1>9. \/ HealthSeries(x, s, features) \/ Xid
      \/ s.hasTable /\ \E uuid : RowSeries(x, uuid, infos)
      \/ s.hasTable /\ AppsSeries(x, s, features)
      \/ s.hasTable /\ ExtraSeries(x, features)
  BY DEF ScrapeSeries, Xid
<1>10. x.name = "xid_errors_total" => Xid
  BY <1>1, <1>2, <1>4, <1>5, <1>6, <1>7, <1>9
<1>11. x.name = "last_collect_success" => x.value = Flag(s.success)
  BY <1>1, <1>2, <1>3, <1>4, <1>5, <1>6, <1>7, <1>9
<1>12. ~s.hasTable => x.name \in HealthNames \cup ExitCodeNames \cup XidNames
  BY <1>2, <1>3, <1>8, <1>9
<1>13. x.name \in AppNames => AppsSeries(x, s, features)
  BY <1>1, <1>2, <1>3, <1>4, <1>6, <1>9
<1> QED BY <1>7, <1>10, <1>11, <1>12, <1>13 DEF Xid

(* As many series of a name as there are counters, when each counter has   *)
(* one of its own and there are no others.                                 *)
LEMMA OneForEach ==
  ASSUME NEW scrape, IsSeq(scrape), Unique(scrape),
         NEW counters, IsSeq(counters), DistinctCounters(counters),
         \A i \in 1..Len(counters) : XidSeries(counters[i]) \subseteq ToSet(scrape),
         \A x \in ToSet(scrape) : x.name = "xid_errors_total" =>
           \E i \in 1..Len(counters) : x \in XidSeries(counters[i])
  PROVE  Cardinality(Named(scrape, "xid_errors_total")) = Len(counters)
<1> DEFINE N == Named(scrape, "xid_errors_total")
           n == Len(counters)
           Of(i, j) == scrape[j].labels = <<counters[i].uuid, counters[i].xid>>
           f == [i \in 1..n |-> CHOOSE j \in N : Of(i, j)]
<1>1. /\ DOMAIN scrape = 1..Len(scrape)
      /\ \A j \in 1..Len(scrape) : scrape[j] \in ToSet(scrape)
      /\ \A x \in ToSet(scrape) : \E j \in 1..Len(scrape) : scrape[j] = x
      /\ n \in Nat
  BY SeqElements DEF IsSeq
<1>2. N = {j \in 1..Len(scrape) : scrape[j].name = "xid_errors_total"}
  BY <1>1 DEF Named
<1> HIDE DEF N
<1>3. ASSUME NEW i \in 1..n
      PROVE  \E j \in N : Of(i, j)
  <2> DEFINE x == [name |-> "xid_errors_total",
                   labels |-> <<counters[i].uuid, counters[i].xid>>,
                   value |-> <<counters[i].count>>]
  <2>1. x \in XidSeries(counters[i])
    BY DEF XidSeries
  <2>2. x.name = "xid_errors_total" /\ x.labels = <<counters[i].uuid, counters[i].xid>>
    OBVIOUS
  <2> HIDE DEF x
  <2>3. PICK j \in 1..Len(scrape) : scrape[j] = x
    BY <1>1, <2>1
  <2> QED BY <1>2, <2>2, <2>3
<1>4. ASSUME NEW j \in N
      PROVE  \E i \in 1..n : Of(i, j)
  <2>1. PICK i \in 1..n : scrape[j] \in XidSeries(counters[i])
    BY <1>1, <1>2
  <2> QED BY <2>1 DEF XidSeries
<1>5. ASSUME NEW i \in 1..n, NEW j \in N, NEW k \in N, Of(i, j), Of(i, k)
      PROVE  j = k
  BY <1>2, <1>5 DEF Unique, SameSeries
<1>6. ASSUME NEW i \in 1..n, NEW k \in 1..n, NEW j \in N, Of(i, j), Of(k, j)
      PROVE  i = k
  BY <1>6 DEF DistinctCounters
<1> HIDE DEF Of, n
<1>7. f \in [1..n -> N] /\ \A i \in 1..n : Of(i, f[i])
  BY <1>3
<1> HIDE DEF f
<1>8. f \in Injection(1..n, N)
  <2>1. \A i, k \in 1..n : f[i] = f[k] => i = k
    BY <1>6, <1>7
  <2> QED BY <1>7, <2>1 DEF Injection, IsInjective
<1>9. f \in Surjection(1..n, N)
  <2>1. ASSUME NEW j \in N
        PROVE  \E i \in 1..n : f[i] = j
    <3>1. PICK i \in 1..n : Of(i, j)
      BY <1>4
    <3>2. f[i] = j
      BY <1>5, <1>7, <3>1
    <3> QED BY <3>2
  <2> QED BY <1>7, <2>1 DEF Surjection
<1>10. ExistsBijection(1..n, N)
  BY <1>8, <1>9 DEF ExistsBijection, Bijection
<1>11. IsFiniteSet(1..n) /\ Cardinality(1..n) = n
  BY <1>1, FS_Interval
<1>12. Cardinality(N) = n
  BY <1>10, <1>11, FS_Bijection
<1> QED BY <1>12 DEF N, n

(* A collection that failed leaves its health and the XID counters and     *)
(* nothing else; a process query that succeeded has a count for every GPU, *)
(* be it none, and one that failed counts nothing and says so; every XID   *)
(* counter is there each time (exporter.go, computeapps.go).               *)
THEOREM PipelineFailureIsNotIdle == Spec => []FailureIsNotIdle
<1>1. ASSUME IInv, startup = "up", NEW k \in Done
      PROVE  LET s == Snapshot(k)
                 scrape == Scrape(s)
                 health == HealthNames \cup ExitCodeNames
                 gpus == {s.rows[g].byField["uuid"].uuid : g \in DOMAIN s.rows}
                 counted == {scrape[i].labels[1] : i \in Named(scrape, "compute_apps")}
             IN  /\ Cardinality(Named(scrape, "xid_errors_total")) = Len(Counters)
                 /\ \A i \in Named(scrape, "last_collect_success") :
                      scrape[i].value = Flag(s.hasTable)
                 /\ ~s.hasTable =>
                      \A i \in DOMAIN scrape : scrape[i].name \in health \cup XidNames
                 /\ s.appsSuccess => gpus \subseteq counted
                 /\ s.appsAttempted /\ ~s.appsSuccess =>
                      /\ counted = {}
                      /\ \A i \in Named(scrape, "compute_apps_last_collect_success") :
                           scrape[i].value = <<0>>
  <2> DEFINE s == Snapshot(k)
             scrape == Scrape(s)
             infos == BuildQFieldToMetricInfoMap(resolved.returned)
  <2>1. /\ SnapshotOf(s, resolved.query) /\ k \in Cycles
        /\ cfg.backend # "nvml" /\ ReadingOK(reading[k], "done")
    BY <1>1, SnapshotsAre
  <2>2. /\ s.success = s.hasTable
        /\ s.appsSuccess => s.appsAttempted /\ s.hasTable /\ Features.apps
    <3>1. succeeded \in BOOLEAN
      BY <1>1 DEF IInv, TypeOK
    <3>2. /\ IsReading(reading[k]) /\ Lists(reading[k], resolved.query)
          /\ Follows(reading[k], "done", cfg.apps)
      BY <2>1 DEF ReadingOK
    <3>3. /\ s.hasTable = reading[k].ok /\ s.success = reading[k].ok
          /\ s.appsAttempted = reading[k].appsAttempted
          /\ s.appsSuccess = reading[k].appsSuccess
      BY <3>1, <3>2, Published DEF Snapshot
    <3>4. Features.apps = cfg.apps
      BY DEF Features
    <3> HIDE DEF s
    <3> QED BY <3>2, <3>3, <3>4 DEF Follows
  <2>3. FeatureFlags(Features) /\ DistinctInfos(infos)
    BY <1>1, FeaturesAre, InfosAreDistinct
  <2> HIDE DEF s
  <2>4. /\ IsSeq(scrape) /\ Unique(scrape)
        /\ \A x \in ToSet(scrape) : ScrapeSeries(x, s, Counters, infos, Features)
        /\ Features.xids =>
             \A i \in 1..Len(Counters) : XidSeries(Counters[i]) \subseteq ToSet(scrape)
        /\ s.hasTable /\ Features.apps /\ s.appsAttempted /\ s.appsSuccess =>
             CountsEach(scrape, s.rows)
    BY <1>1, <2>1, Served
  <2> HIDE DEF scrape, infos
  <2>5. ASSUME NEW x \in ToSet(scrape)
        PROVE  /\ x.name = "xid_errors_total" =>
                    /\ Features.xids
                    /\ \E i \in 1..Len(Counters) : x \in XidSeries(Counters[i])
               /\ x.name = "last_collect_success" => x.value = Flag(s.hasTable)
               /\ ~s.hasTable => x.name \in HealthNames \cup ExitCodeNames \cup XidNames
               /\ x.name \in {"compute_apps", "compute_apps_last_collect_success"} =>
                    AppsSeries(x, s, Features)
    BY <2>2, <2>3, <2>4, SeriesOfName
  <2>6. /\ DOMAIN scrape = 1..Len(scrape)
        /\ \A i \in DOMAIN scrape : scrape[i] \in ToSet(scrape)
        /\ \A x \in ToSet(scrape) : \E i \in DOMAIN scrape : scrape[i] = x
    BY <2>4, SeqElements DEF IsSeq
  <2>7. Cardinality(Named(scrape, "xid_errors_total")) = Len(Counters)
    <3>1. /\ PairCounts(synth.xids) /\ (~Demo => DOMAIN synth.xids = {})
          /\ Features.xids = Demo
      BY <1>1 DEF IInv, SynthOK, Features
    <3>2. /\ IsSeq(Counters) /\ DistinctCounters(Counters)
          /\ ~Demo => Len(Counters) = 0
      BY <3>1, CountersListed
    <3>3. \A i \in 1..Len(Counters) : XidSeries(Counters[i]) \subseteq ToSet(scrape)
      BY <2>4, <3>1, <3>2
    <3>4. \A x \in ToSet(scrape) : x.name = "xid_errors_total" =>
            \E i \in 1..Len(Counters) : x \in XidSeries(Counters[i])
      BY <2>5
    <3> QED BY <2>4, <3>2, <3>3, <3>4, OneForEach
  <2>8. \A i \in Named(scrape, "last_collect_success") :
          scrape[i].value = Flag(s.hasTable)
    BY <2>5, <2>6 DEF Named
  <2>9. ~s.hasTable => \A i \in DOMAIN scrape :
          scrape[i].name \in (HealthNames \cup ExitCodeNames) \cup XidNames
    BY <2>5, <2>6
  <2>10. ASSUME s.appsSuccess, NEW g \in DOMAIN s.rows
         PROVE  s.rows[g].byField["uuid"].uuid
                  \in {scrape[i].labels[1] : i \in Named(scrape, "compute_apps")}
    <3>1. DOMAIN s.rows = 1..Len(s.rows)
      <4>1. IsSeq(s.rows)
        BY <2>1 DEF SnapshotOf, TableOf
      <4> QED BY <4>1, SeqElements DEF IsSeq
    <3>2. CountsEach(scrape, s.rows)
      BY <2>2, <2>4, <2>10
    <3>3. PICK x \in ToSet(scrape) :
            x.name = "compute_apps" /\ x.labels = <<UuidOf(s.rows[g])>>
      BY <3>1, <3>2 DEF CountsEach
    <3>4. PICK i \in DOMAIN scrape : scrape[i] = x
      BY <2>6
    <3>5. i \in Named(scrape, "compute_apps")
      BY <3>3, <3>4 DEF Named
    <3>6. scrape[i].labels[1] = s.rows[g].byField["uuid"].uuid
      BY <3>3, <3>4 DEF UuidOf
    <3> QED BY <3>5, <3>6
  <2>11. ASSUME s.appsAttempted, ~s.appsSuccess
         PROVE  /\ Named(scrape, "compute_apps") = {}
                /\ \A i \in Named(scrape, "compute_apps_last_collect_success") :
                     scrape[i].value = <<0>>
    <3>1. \A i \in DOMAIN scrape : scrape[i].name # "compute_apps"
      BY <2>5, <2>6, <2>11 DEF AppsSeries
    <3>2. \A i \in DOMAIN scrape :
            scrape[i].name = "compute_apps_last_collect_success" =>
              scrape[i].value = Flag(s.appsSuccess)
      BY <2>5, <2>6 DEF AppsSeries
    <3>3. Flag(s.appsSuccess) = <<0>>
      BY <2>11 DEF Flag
    <3> QED BY <3>1, <3>2, <3>3 DEF Named
  <2> DEFINE gpus == {s.rows[g].byField["uuid"].uuid : g \in DOMAIN s.rows}
             counted == {scrape[i].labels[1] : i \in Named(scrape, "compute_apps")}
  <2>12. s.appsSuccess => gpus \subseteq counted
    BY <2>10
  <2>13. s.appsAttempted /\ ~s.appsSuccess => counted = {}
    BY <2>11
  <2> HIDE DEF gpus, counted
  <2> QED BY <2>7, <2>8, <2>9, <2>11, <2>12, <2>13 DEF s, scrape, gpus, counted
<1>2. IInv => FailureIsNotIdle
  BY <1>1 DEF FailureIsNotIdle
<1> QED BY <1>2, PipelineInvariant, PTL
=============================================================================
