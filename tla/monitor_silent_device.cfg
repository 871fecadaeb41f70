SPECIFICATION FairSpec
CONSTANTS
  NoApp = NoApp
  Apps = {a1}
  Kind = "UART"
  MaxMonitors = 1
  Faults = FALSE
PROPERTY AbortReturns
