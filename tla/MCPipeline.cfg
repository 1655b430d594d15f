\* Resolution, collection and rendering around nvidia-smi, and its demo twin.
SPECIFICATION Spec
CONSTANTS
  InfoFields <- MCInfoFields
  Builtin <- MCBuiltin
  Catalog <- MCCatalog
  Aliases <- MCAliases
  Returned <- MCReturned
  EnumFields = {"action"}
  CommandLines <- MCCommandLines
  Worlds <- MCWorlds
  Cycles = {k1, k2}
  MaxXids = 2
  NoOne = NoOne
INVARIANTS
  StartupHonoursTheList ValuesStayWithTheirField ScrapesAreAccepted
  FailureIsNotIdle OneConfigurationPerReading
