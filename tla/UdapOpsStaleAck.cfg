\* A request sent twice leaves a second reply behind; the next operation takes it.
SPECIFICATION Spec

CONSTANTS
  d1 = d1
  d2 = d2
  zero = zero
  c1 = c1
  c2 = c2
  c3 = c3
  ip1 = ip1
  ip2 = ip2
  a = a
  b = b
  x = x
  huge = huge
  Callers <- One
  Macs = {d1}
  ZeroMac = zero
  Target <- MCTarget
  KnownIp <- IpKnown
  Address <- MCAddress
  NoIp = none
  Names <- PlainNames
  Slots <- MCSlots
  SlotOf <- PlainTable
  Canonical <- MCCanonical
  Rank <- MCRank
  Synthetic = {}
  Values = {a, b}
  Unencodable = {}
  Absent = absent
  Stored <- AsIs
  Seed <- SeedA
  Ops = {"set"}
  Configs <- MCConfigs
  Requested <- PartialGets
  Retries = 1
  SendFails = FALSE
  RecvFails = FALSE
  Cancels = FALSE
  Late = TRUE
  Concurrent = FALSE
  Refusals = {"ERROR"}
  Garbles = FALSE
  MaxSequence = 4

INVARIANTS
  CommitBarrier

\* Callers may stop calling, and MaxSequence ends every behaviour.
CHECK_DEADLOCK FALSE
