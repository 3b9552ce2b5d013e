\* Two commands can meet each other, main's store, each of three frames of two
\* channels, and the end of the program.
CONSTANTS
  Modes = {"ARM", "DSP"}
  FftFilterEnable = TRUE
  CHANNELS = 2
  FileFrames = 3
  MaxCommands = 2
  MaxFaults = 0
  OnInvalidate = {"cleaned"}
SPECIFICATION FairSpec
INVARIANTS
  PlayedInOrder
  QuietFrameAsSet
  SettingInMemory
PROPERTIES
  MainReverts
CHECK_DEADLOCK FALSE
