\* The core was not running when the program was started.
CONSTANTS
  Handlers = {"first"}
  Contexts = {"main", "first"}
  current_mode = "DSP"
  RprocAtBoot = "offline"
  MaxFaults = 0
  MaxKills = 0
SPECIFICATION Spec
INVARIANTS
  RunsOnNewFirmware
CHECK_DEADLOCK FALSE
