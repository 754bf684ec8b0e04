\* One user process, started by the shell, that need not make system calls.
CONSTANTS
  PROC_MAX = 3
  TIME_SLICE = 2
  SleepTicks = {1}
  MaxPid = 1
  ShellCommands = {"exec"}
  Meddling = FALSE
  SlowBoot = FALSE
SPECIFICATION FairSpec
PROPERTY PitIrqsKeepFiring
