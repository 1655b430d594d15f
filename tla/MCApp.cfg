\* The application and the process around it.
SPECIFICATION FairSpec
CONSTANTS
  Requests = {r1, r2}
  FlagSets <- MCFlagSets
  Advertised <- MCAdvertised
  Addresses = 2
  NotYet = NotYet
INVARIANTS
  SlotsMatchScrapes  RegistrationNeverPanics
  CleanEndIsComplete
PROPERTIES
  GraceIsForClients BoundedScrapesEnd ImplementsLifetime
CHECK_DEADLOCK FALSE
