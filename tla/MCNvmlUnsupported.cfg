CONSTANTS
  Collectors = {k1}
  Watcher = watcher
  Closer = closer
  NoOne = NoOne
  Events = FALSE
  Flaky = FALSE
  MaxGenerations = 3
  MaxFaults = 0
SPECIFICATION Spec
INVARIANT HealthyGenerationKept

