CONSTANTS
  LastCluster = 5
  Root = 2
  SlotsPer = 2
  Names = {"a", "long"}
  LongNames = {"long"}
  Shortened = "b"
  Handles = {h1}
  MaxSize = 2
  MaxEntries = 3
SPECIFICATION Spec
CHECK_DEADLOCK FALSE
INVARIANTS TypeOK ChainsSound OwnData 
