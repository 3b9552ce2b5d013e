\* Two runs; each frame but the last of a run makes room for the next one.
CONSTANTS
  PortSet = {"log", "in"}
  MaxRuns = 2
  MaxConns = 4
  EthIface = TRUE
  FRAME_WORDS = 2
  SEND_BUFFER_SIZE = 5
  MaxFrames = 3
SPECIFICATION FairSpec
INVARIANTS
  TypeOK
  WaveformInStep
PROPERTIES
  StreamIsRead
CHECK_DEADLOCK FALSE
