CONSTANTS
  Queries = {q1, q2}
  Watcher = watcher
  NoOne = NoOne
  ComputeApps = TRUE
  MaxDevices = 2
  MaxGenerations = 2
SPECIFICATION Spec
INVARIANTS ReadingOfOneGeneration  
PROPERTIES AnsweredUnlessInDriver AbandonedQueryEnds
