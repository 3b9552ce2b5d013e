\* Two signals and main make three callers of switch_firmware.
CONSTANTS
  Handlers = {"first", "second"}
  Contexts = {"main", "first", "second"}
  current_mode = "DSP"
  RprocAtBoot = "running"
  MaxFaults = 2
  MaxKills = 1
SPECIFICATION FairSpec
INVARIANTS
  TypeOK
  SwitchIsExclusive
  RestoredOnExit
  RunsOnNewFirmware
PROPERTIES
  StartedIsTarget
  SigintEndsProgram
CHECK_DEADLOCK FALSE
