\* Two runs of the device and five connections: a host that reconnects.
CONSTANTS
  PortSet = {"log", "cmd"}
  MaxRuns = 2
  MaxConns = 5
  FftFilterEnable = TRUE
  READ_SIZE = 3
  LINE_SIZE = 4
  MaxToggles = 2
SPECIFICATION FairSpec
INVARIANTS
  TypeOK
  ObeysWhatWasSent
  ButtonShowsSetting
PROPERTIES
  SentIsObeyed
CHECK_DEADLOCK FALSE
