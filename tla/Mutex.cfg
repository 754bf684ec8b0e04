\* Three threads, twice each.
CONSTANTS
  Threads = {a, b, c}
  NoOwner = none
  Rounds = 2
SPECIFICATION FairMutexSpec
INVARIANTS
  MutexTypeOK
  MutualExclusion
  HolderNeverWaits
  NoLostUpdate
PROPERTY AllRoundsCount
