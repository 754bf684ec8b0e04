\* The kernel's process, three more slots, a keyboard with every shell command.
CONSTANTS
  PROC_MAX = 4
  TIME_SLICE = 2
  SleepTicks = {0, 3}
  MaxPid = 2
  ShellCommands = {"spawn", "exec"}
  Meddling = TRUE
  SlowBoot = TRUE
SPECIFICATION Spec
INVARIANTS
  TypeOK
  CurrentRuns
  IdleSchedulable
  EoiOwner
  PreemptsOnlyIdle
  HalfBuiltSafe
  PidsDistinct
PROPERTY SleepNotEarly
\* Switching to a half-built process is the end of the machine.
CHECK_DEADLOCK FALSE
