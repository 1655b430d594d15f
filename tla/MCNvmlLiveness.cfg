CONSTANTS
  Collectors = {k1}
  Watcher = watcher
  Closer = closer
  NoOne = NoOne
  Events = TRUE
  Flaky = FALSE
  MaxGenerations = 6
  MaxFaults = 2
SPECIFICATION WedgedSpec
PROPERTIES NoCycleHangsOnWatcher EventCollectionRecovers
