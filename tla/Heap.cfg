CONSTANTS
  Size = 200
  Header = 20
  MinSplit = 16
  Unit = 8
  Aligns = {32}
  Requests = {0, 1, 20, 60}
SPECIFICATION Spec
CHECK_DEADLOCK FALSE
INVARIANT ListSound
PROPERTY IsAllocator
