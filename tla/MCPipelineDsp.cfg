\* Three frames leave room for two lost replies and a frame after them.
CONSTANTS
  Modes = {"DSP"}
  FftFilterEnable = TRUE
  CHANNELS = 2
  FileFrames = 3
  MaxCommands = 0
  MaxFaults = 2
  OnInvalidate = {"cleaned", "dropped"}
SPECIFICATION FairSpec
INVARIANTS
  TypeOK
  RepliesOwed
  DspHasFrameAlone
  PlayedInOrder
  DspDoneBeforeFree
PROPERTIES
  ImplementsPlayback
  MainReverts
CHECK_DEADLOCK FALSE
