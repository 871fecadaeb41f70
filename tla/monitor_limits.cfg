SPECIFICATION Spec
CONSTANTS
  NoApp = NoApp
  Apps = {a1}
  Kind = "UART"
  MaxMonitors = 1
  Faults = TRUE
INVARIANTS
  CancelsATransfer
  JoinsAThread
