\* As booted: nothing calls net_poll.
CONSTANTS
  Packets = {p, q, long}
  Unfit = {long}
  NoPacket = nopacket
  MODULUS = 4
  Polled = FALSE
SPECIFICATION FairSpec
PROPERTY RepliesProcessed
