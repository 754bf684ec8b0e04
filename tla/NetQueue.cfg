\* Two packets and one that fits no slot; the indices wrap after three slots.
CONSTANTS
  Packets = {p, q, long}
  Unfit = {long}
  NoPacket = nopacket
  MODULUS = 4
  Polled = TRUE
SPECIFICATION Spec
INVARIANTS
  TypeOK
  NeverSameSlot
  WholePackets
PROPERTY IsFifo
