----------------------------- MODULE MCPipeline -----------------------------
(* Fields of every kind, machines of every kind, two collections.          *)
EXTENDS Pipeline

R(base, unit) == [base |-> base, unit |-> unit]

MCReturned ==
  [uuid |-> R("uuid", ""), name |-> R("name", ""), power |-> R("power", "W"),
   up_ms |-> R("up", "ms"), up_us |-> R("up", "us"),       \* the same name
   owned |-> R("compute_apps", ""), blank |-> R("", ""),
   action |-> R("action", ""), fresh |-> R("fresh", "J")]

MCInfoFields == <<"uuid", "name">>

MCBuiltin ==
  [q \in DOMAIN MCReturned \ {"fresh"} |-> MCReturned[q]]

MCCatalog == [q \in {"uuid", "name", "power", "action"} |-> MCReturned[q]]
MCAliases == [action |-> "old_action"]

Line1(list, excluded, backend, apps) ==
  [list |-> list, excluded |-> excluded, backend |-> backend, apps |-> apps,
   migLabels |-> backend = "demo"]

MCCommandLines ==
  { Line1(AUTO, {}, "exec", TRUE),
    Line1(AUTO, {"power", "uuid"}, "exec", FALSE),
    Line1(<<"power", "action", "power">>, {"action"}, "exec", TRUE),
    Line1(<<"fresh">>, {}, "exec", FALSE),
    Line1(AUTO, {}, "demo", TRUE),
    Line1(<<"fresh">>, {}, "demo", FALSE),
    Line1(AUTO, {"power"}, "nvml", TRUE),
    Line1(<<"old_action">>, {}, "nvml", TRUE),
    Line1(<<"fresh">>, {}, "nvml", TRUE) }

GPU(uuid, name, power) ==
  [uuid |-> uuid,
   kinds |-> [uuid |-> "text", name |-> name, power |-> power,
              up_ms |-> "number", up_us |-> "number", owned |-> "number",
              blank |-> "number", action |-> "word", fresh |-> "number"]]

App(uuid, pid, slot, parts, memory) ==
  [uuid |-> uuid, pid |-> pid, slot |-> slot, numericPid |-> pid # "[N/A]",
   name |-> "app", parts |-> parts, memory |-> memory, gi |-> "", ci |-> ""]

Everything == DOMAIN MCReturned

Plain ==
  [id |-> "plain", works |-> TRUE, valid |-> TRUE, garbled |-> FALSE,
   fields |-> Everything,
   help |-> <<"name", "up_ms", "power", "a,b", "up_us", "owned", "blank",
              "action", "fresh", "power">>,
   gpus |-> <<GPU("g1", "text", "number"), GPU("g2", "number", "absent")>>,
   apps |-> [columns |-> 4,
             apps |-> <<App("g1", "1", 1, 4, "number"),
                        App("g1", "2", 2, 5, "absent"),
                        App("", "3", 0, 4, "number"), App("", "3", 0, 4, "number"),
                        App("g2", "[N/A]", 0, 4, "text"),
                        App("g2", "4", 0, 3, "text")>>],
   version |-> <<[key |-> "legacy", plausible |-> FALSE, value |-> "prose"],
                 [key |-> "umd", plausible |-> TRUE, value |-> "13"]>>,
   mig |-> <<[gpu |-> 1, gi |-> "1", cis |-> <<"0", "1">>],
             [gpu |-> 1, gi |-> "2", cis |-> <<"0">>]>>,
   initialXids |-> <<[gpu |-> 1, xid |-> "48", count |-> 1],
                     [gpu |-> 2, xid |-> "79", count |-> 0]>>,
   xidInterval |-> TRUE]

(* A comma in a name; an older nvidia-smi with another topology.           *)
Comma ==
  [Plain EXCEPT !.id = "comma",
                !.gpus = <<GPU("g1", "comma", "number")>>,
                !.apps = [columns |-> 3, apps |-> <<>>]]

Older ==
  [Plain EXCEPT !.id = "older", !.fields = Everything \ {"fresh"},
                !.help = <<>>, !.gpus = <<GPU("g2", "text", "number")>>,
                !.apps = [columns |-> 0, apps |-> <<>>],
                !.version = <<[key |-> "legacy", plausible |-> TRUE, value |-> "12"]>>,
                !.mig = <<[gpu |-> 1, gi |-> "1", cis |-> <<"0">>]>>,
                !.xidInterval = FALSE]

Broken  == [Plain EXCEPT !.id = "broken", !.works = FALSE]
Garbled == [Plain EXCEPT !.id = "garbled", !.garbled = TRUE, !.valid = FALSE]

MCWorlds == {Plain, Comma, Older, Broken, Garbled}
=============================================================================
