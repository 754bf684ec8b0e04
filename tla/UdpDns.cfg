CONSTANTS
  Names = {"a", "b", "c"}
  Ports = {53, 7}
  DnsPort = 53
  IdMod = 2
  Retries = 2
  Timeout = 1
  Ttl = 1
  CacheSize = 2
  Depth = 3
  Period = 5
  Listen = 3
  Pause = 2
  Macs <- MacsDef
  Preset <- PresetDef
  ArpSize = 2
  MaxCame = 3
SPECIFICATION FairSpec
INVARIANTS Answers Heard
PROPERTY CommandEnds
CONSTRAINT Unmixed
