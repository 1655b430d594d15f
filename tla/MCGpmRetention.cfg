CONSTANTS
  d1 = d1
  d2 = d2
  i1 = i1
  j1 = j1
  Devices = {d1, d2}
  Instances = {i1, j1}
  DeviceOf <- OneEachDeviceOf
  Handles = {h1, h2, h3}
  None = None
  MinWindow = 1
  MaxWindow = 2
  MaxShapes = 2
  GpmExports = {TRUE, FALSE}
  Flaky = TRUE
  MetricsMayLose = TRUE
SYMMETRY Symmetry
SPECIFICATION Spec
INVARIANTS
  SamplesAreOwned SamplesDieWithGeneration 
PROPERTY OrphansHaveDisappeared
