\* Two runs of three frames, the last of which pushes the first off the
\* screen; a summary of two lines after the second.
CONSTANTS
  PortSet = {"log", "cmd"}
  MaxRuns = 2
  MaxConns = 4
  SUMMARY_EVERY = 2
  SUMMARY_LINES = 2
  MAX_FRAMES = 2
  RECV_SIZE = 4
  FirstMode = "CPU"
  MaxFrames = 3
SPECIFICATION FairSpec
INVARIANTS
  TypeOK
  ShowsWhatWasSent
  OneLeftover
  FramesInTheirMode
PROPERTIES
  LogIsRead
CHECK_DEADLOCK FALSE
