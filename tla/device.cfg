SPECIFICATION FairDeviceSpec
CONSTANTS
  a1 = a1
  a2 = a2
  NoApp = NoApp
  Apps = {a1, a2}
  Callers = {a1, a2}
  Kind = "UART"
  MaxMonitors = 2
  Faults = TRUE
  Modes = {"off", "on"}
  Disable = "off"
  Duties <- Teams
INVARIANTS
  DeviceTypeOK
  WatcherIsKnown
  EndIsReported
  KnownMonitorRuns
  NoUseAfterFree
  LinesAgree
PROPERTIES
  AbortSilences
  AbortReturnsUnlessLate
  CloseReturnsUnlessLate
