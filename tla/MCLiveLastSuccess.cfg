CONSTANTS
  Runs = {r1, r2}
  NoRun = NoRun
  FatalArmed = FALSE
  Callers = {c1, c2}
  HasTimeout = FALSE
SPECIFICATION Spec
INVARIANT LastSuccessIsMostRecent
