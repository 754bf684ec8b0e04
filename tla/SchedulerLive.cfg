\* Kernel threads only, as booted and as spawned by the shell.
CONSTANTS
  PROC_MAX = 4
  TIME_SLICE = 2
  SleepTicks = {0, 1, 3}
  MaxPid = 4
  ShellCommands = {"spawn"}
  Meddling = FALSE
  SlowBoot = FALSE
SPECIFICATION FairSpec
PROPERTIES
  ReadyRuns
  SleeperRuns
