CONSTANTS
  Collectors = {k1, k2}
  Watcher = watcher
  Closer = closer
  NoOne = NoOne
  Events = TRUE
  Flaky = TRUE
  MaxGenerations = 4
  MaxFaults = 1
SPECIFICATION Spec
INVARIANTS  ShutdownExcludesWatcher SetBelongsToLibrary
SYMMETRY Symmetry
