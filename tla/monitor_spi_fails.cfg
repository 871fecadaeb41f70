SPECIFICATION Spec
CONSTANTS
  NoApp = NoApp
  Apps = {a1}
  Kind = "SPI"
  MaxMonitors = 1
  Faults = TRUE
INVARIANT EndIsReported
