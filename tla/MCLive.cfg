CONSTANTS
  Runs = {r1, r2}
  NoRun = NoRun
  FatalArmed = TRUE
  Callers = {c1, c2}
  HasTimeout = TRUE
SPECIFICATION FairSpec
INVARIANTS
  OneLiveRun JoinableRunIsWanted NoWaiterStranded FreshResult
  FailuresExact NoSelfInflictedShutdown
PROPERTIES
  FailuresNeverDrop ImplementsSource AbandonedCallEnds EveryCallEnds
