\* Two writers and two readers, a pipe that holds half of what is written.
CONSTANTS
  Writers = {w1, w2}
  Readers = {r1, r2}
  NoByte = nobyte
  PIPE_BUF_SIZE = 2
  Total = 2
  ReadLens = {1, 2}
  Lives = 2
SPECIFICATION FairSpec
INVARIANTS
  TypeOK
  Stream
  NothingLeftBehind
PROPERTY AllDelivered
