------------------------------- MODULE Resolve ------------------------------
(***************************************************************************)
(* Which fields are queried, and under which names they come back.  A      *)
(* returned name is its base and the unit in brackets behind it, which is  *)
(* "" where there is none.  Nothing here has state: the outcome is frozen  *)
(* when the exporter starts.                                               *)
(***************************************************************************)
EXTENDS Sequences, SequencesExt, FiniteSets

CONSTANTS
  InfoFields,   \* the identity fields, in the order of their labels
  Builtin,      \* the built-in mapping from query fields to returned names
  Catalog,      \* the same of the nvml backend
  Aliases,      \* catalog fields an old driver spells otherwise
  Returned      \* the header nvidia-smi prints for each of its fields

(* The uuid is one of several identity fields, both mappings have them     *)
(* all, and an old spelling is that of one field and no field's own.       *)
ASSUME InfoFieldsAssumption ==
  /\ InfoFields \in Seq(STRING)
  /\ "uuid" \in ToSet(InfoFields) /\ ToSet(InfoFields) # {"uuid"}

ASSUME MappingsAssumption ==
  /\ IsFiniteSet(DOMAIN Builtin) /\ IsFiniteSet(DOMAIN Catalog)
  /\ ToSet(InfoFields) \subseteq DOMAIN Builtin \cap (DOMAIN Catalog \ DOMAIN Aliases)
  /\ \A p \in DOMAIN Aliases : Aliases[p] \notin DOMAIN Catalog
  /\ \A p, q \in DOMAIN Aliases : Aliases[p] = Aliases[q] => p = q

AUTO == <<"AUTO">>

(* The keys of a Go map, in an order of which nothing depends.             *)
Keys(S) == FoldSet(LAMBDA x, s : Append(s, x), <<>>, S)

Failure == [failed |-> TRUE]

removeDuplicates(fields) ==
  FoldLeft(LAMBDA uniques, q :
             IF q \in ToSet(uniques) THEN uniques ELSE Append(uniques, q),
           <<>>, fields)

withRequiredFields(fields) == removeDuplicates(fields \o InfoFields)

(* What is left of a list.                                                 *)
Without(items, out) ==
  FoldLeft(LAMBDA kept, item : IF item \in out THEN kept ELSE Append(kept, item),
           <<>>, items)

(* The patterns of the command line are the set of what they match.        *)
filterExcludedQFields(fields, excluded) ==
  Without(fields, excluded \ ToSet(InfoFields))

Resolved(query, returned) ==
  [failed |-> FALSE, query |-> query, info |-> InfoFields,
   returned |-> [q \in ToSet(query) |-> returned[q]]]

builtinResolvedFields(excluded) ==
  Resolved(filterExcludedQFields(Keys(DOMAIN Builtin), excluded), Builtin)

(* Fault: what the built-in list does not know is left out.                *)
FaultSilentlyNarrowed(query, excluded) == builtinResolvedFields(excluded)

(* fallbackRFields: all of the list, or nothing.                           *)
FromBuiltinNames(query, excluded) ==
  IF ToSet(query) \subseteq DOMAIN Builtin
    THEN Resolved(query, Builtin) ELSE Failure

(* The initial query has failed.                                           *)
InitialQueryFailed(auto, query, excluded) ==
  LET named == FromBuiltinNames(query, excluded)
  IN  IF named.failed /\ auto THEN builtinResolvedFields(excluded) ELSE named

(* Names of --help-query-gpu that would break the query apart are left out.*)
ExtractQFields(listed) == Without(listed, {"a,b"})

ResolveFromCatalog(order, catalog, list, excluded) ==
  LET query == filterExcludedQFields(
                 IF list = AUTO THEN order ELSE withRequiredFields(list),
                 excluded)
  IN  IF ToSet(query) \subseteq DOMAIN catalog
        THEN Resolved(query, catalog) ELSE Failure

(* nvmlnative.Resolve: old drivers have their own spellings, an explicit   *)
(* list may use either.                                                    *)
CatalogResolve(oldDriver, list, excluded) ==
  LET spelled(q) == IF oldDriver /\ q \in DOMAIN Aliases THEN Aliases[q] ELSE q
      canonical == Keys(DOMAIN Catalog)
      names == {Aliases[q] : q \in DOMAIN Aliases}
      vocabulary == [q \in DOMAIN Catalog \cup names |->
                       IF q \in names THEN [base |-> q, unit |-> ""]
                                      ELSE Catalog[q]]
  IN  ResolveFromCatalog([i \in DOMAIN canonical |-> spelled(canonical[i])],
                         vocabulary, list, excluded)

(* The CUDA version is on a line of its own; newer drivers put prose where *)
(* it used to be.                                                          *)
ParseCudaVersion(lines) ==
  LET plausible == SelectSeq(lines, LAMBDA line : line.plausible)
      umd    == SelectSeq(plausible, LAMBDA line : line.key = "umd")
      legacy == SelectSeq(plausible, LAMBDA line : line.key = "legacy")
  IN  IF umd # <<>> THEN umd[1].value
        ELSE IF legacy # <<>> THEN Last(legacy).value ELSE ""
=============================================================================
