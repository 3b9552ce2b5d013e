\* One SIGINT, nothing else goes wrong.
CONSTANTS
  Handlers = {"first"}
  Contexts = {"main", "first"}
  current_mode = "DSP"
  RprocAtBoot = "running"
  MaxFaults = 0
  MaxKills = 0
SPECIFICATION Spec
INVARIANTS
  OriginalFirmwareRestored
CHECK_DEADLOCK FALSE
