------------------------------- MODULE MCApp --------------------------------
(* Two scrapes, two addresses, and command lines of every kind.            *)
EXTENDS Process

Path(segments) ==
  [segments |-> segments, leading |-> TRUE, trailing |-> FALSE,
   special |-> FALSE]

Defaults ==
  [interval |-> 0, timeout |-> 2, maxRequests |-> 1, offset |-> 1,
   backend |-> "nvml", customCommand |-> FALSE, pcie |-> FALSE,
   computeApps |-> FALSE, migLabels |-> FALSE, demoConfig |-> FALSE,
   shutdownOnErr |-> TRUE, pprof |-> TRUE, path |-> Path(<<"metrics">>)]

MCFlagSets ==
  { Defaults,
    [Defaults EXCEPT !.backend = "demo", !.interval = 1, !.maxRequests = 2],
    [Defaults EXCEPT !.backend = "exec", !.maxRequests = 0,
                     !.customCommand = TRUE, !.shutdownOnErr = FALSE],
    [Defaults EXCEPT !.interval = -1],
    [Defaults EXCEPT !.timeout = -1],
    [Defaults EXCEPT !.maxRequests = -1],
    [Defaults EXCEPT !.offset = -1],
    [Defaults EXCEPT !.customCommand = TRUE],
    [Defaults EXCEPT !.backend = "exec", !.pcie = TRUE],
    [Defaults EXCEPT !.migLabels = TRUE],
    [Defaults EXCEPT !.demoConfig = TRUE],
    [Defaults EXCEPT !.path = [Path(<<"m">>) EXCEPT !.leading = FALSE]],
    [Defaults EXCEPT !.path = [Path(<<"m">>) EXCEPT !.trailing = TRUE]],
    [Defaults EXCEPT !.path = [Path(<<"m">>) EXCEPT !.special = TRUE]],
    [Defaults EXCEPT !.path = Path(<<>>)],
    [Defaults EXCEPT !.path = Path(<<"m", "..", "n">>)],
    [Defaults EXCEPT !.path = Path(<<"-", "healthy">>)],
    [Defaults EXCEPT !.path = Path(<<"debug", "pprof", "profile">>)] }

MCAdvertised == {NoNumber, Number(0), Number(1), Number(3), Number(9)}
=============================================================================
