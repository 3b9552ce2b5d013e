\* One run, one connection for each port, one press of the button.
CONSTANTS
  PortSet = {"log", "cmd"}
  MaxRuns = 1
  MaxConns = 2
  FftFilterEnable = TRUE
  READ_SIZE = 3
  LINE_SIZE = 4
  MaxToggles = 1
SPECIFICATION Spec
INVARIANTS
  ButtonNeverLies
CHECK_DEADLOCK FALSE
