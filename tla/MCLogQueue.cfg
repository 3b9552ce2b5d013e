\* A ring of three slots is lapped twice by seven messages.
CONSTANTS
  LOG_QUEUE_SIZE = 3
  EthIface = TRUE
  MaxLogs = 7
SPECIFICATION FairSpec
INVARIANTS
  TypeOK
  PrintedInOrder
  LossInWholeLaps
  NoGapWithoutLap
PROPERTIES
  ImplementsLossyLog
  BacklogIsDrained
  ConnectedHostGetsLog
CHECK_DEADLOCK FALSE
