CONSTANTS
  Runs = {r1, r2, r3}
  NoRun = NoRun
  FatalArmed = TRUE
  Runners = {g1, g2}
  Readers = {d1, d2}
  HasTimeout = TRUE
SYMMETRY Symmetry
SPECIFICATION Spec
INVARIANTS
  OneCollectionInFlight PublishedIsComplete
PROPERTIES ReadersNeverGoBack PublishedIsImmutable
