------------------------------ MODULE SmiTable ------------------------------
(***************************************************************************)
(* What nvidia-smi prints and what becomes of it.  A value is the field    *)
(* and the GPU it belongs to and the kind of text it is: a number, a word  *)
(* of an enumeration, other text, one of the tokens for "not available",   *)
(* or text with a comma.  There is no quoting, so that the last of these   *)
(* is two values to whoever splits the line.                               *)
(***************************************************************************)
EXTENDS Resolve

CONSTANTS
  EnumFields    \* fields whose words are mapped to numbers

(* The lines of a query for the GPUs of a machine.                         *)
Tokens(gpu, q) ==
  LET token(kind) == [uuid |-> gpu.uuid, of |-> q, kind |-> kind]
  IN  IF gpu.kinds[q] = "comma" THEN <<token("text"), token("text")>>
                                ELSE <<token(gpu.kinds[q])>>

Line(gpu, query) ==
  FlattenSeq([i \in DOMAIN query |-> Tokens(gpu, query[i])])

Output(machine, query) ==
  IF machine.garbled
    THEN [header |-> <<[base |-> "No devices were found", unit |-> ""]>>,
          lines |-> <<>>]
    ELSE [header |-> [i \in DOMAIN query |-> Returned[query[i]]],
          lines |-> [g \in DOMAIN machine.gpus |->
                       Line(machine.gpus[g], query)]]

(* A row has its cells in the order of the query, and by field.            *)
Row(line, query) ==
  [cells |-> [i \in DOMAIN query |-> [q |-> query[i], raw |-> line[i]]],
   byField |-> [q \in ToSet(query) |->
                  line[CHOOSE i \in DOMAIN query : query[i] = q]]]

(* Fault: only a row that is too short is refused.                         *)
FaultExtraColumns(line, query) == Len(line) >= Len(query)

Fits(line, query) == Len(line) = Len(query)

(* One row that does not fit fails the whole table.                        *)
ParseCSVIntoTable(out, query) ==
  IF /\ Len(out.header) = Len(query)
     /\ \A g \in DOMAIN out.lines : Fits(out.lines[g], query)
    THEN [failed |-> FALSE,
          rFields |-> [i \in DOMAIN query |-> out.header[i]],
          rows |-> [g \in DOMAIN out.lines |-> Row(out.lines[g], query)]]
    ELSE Failure

-----------------------------------------------------------------------------
(* The processes.  A line has at least four parts, whatever is between the *)
(* second and the last is the name; a uuid, and a pid that is a number,    *)
(* are required.                                                           *)
Usable(app) == app.parts >= 4 /\ app.numericPid /\ app.uuid # ""

(* Nothing at all is no processes, and so is a header alone.               *)
ParseComputeApps(out) ==
  IF out.columns \notin {0, 4} THEN Failure
    ELSE [failed |-> FALSE,
          apps |-> Without(out.apps, {app \in ToSet(out.apps) : ~Usable(app)})]

-----------------------------------------------------------------------------
(* TransformFieldValue: whether a value is a number to the exporter.       *)
IsValue(q, kind) ==
  kind = IF q \in EnumFields THEN "word" ELSE "number"

KnownAbsent(kind) == kind = "absent"
=============================================================================
