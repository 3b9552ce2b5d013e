\* A command comes before main has stored the configured setting.
CONSTANTS
  Modes = {"DSP"}
  FftFilterEnable = TRUE
  CHANNELS = 2
  FileFrames = 1
  MaxCommands = 1
  MaxFaults = 0
  OnInvalidate = {"cleaned"}
SPECIFICATION Spec
PROPERTIES
  CommandsAreKept
CHECK_DEADLOCK FALSE
