\* A set is cancelled after the device has applied it.
SPECIFICATION Spec

CONSTANTS
  d1 = d1
  d2 = d2
  zero = zero
  c1 = c1
  c2 = c2
  c3 = c3
  ip1 = ip1
  ip2 = ip2
  a = a
  b = b
  x = x
  huge = huge
  Callers <- One
  Macs = {d1}
  ZeroMac = zero
  Target <- MCTarget
  KnownIp <- IpKnown
  Address <- MCAddress
  NoIp = none
  Names <- PlainNames
  Slots <- MCSlots
  SlotOf <- PlainTable
  Canonical <- MCCanonical
  Rank <- MCRank
  Synthetic = {}
  Values = {a, b}
  Unencodable = {}
  Absent = absent
  Stored <- AsIs
  Seed <- SeedA
  Ops = {"set"}
  Configs <- RevertConfigs
  Requested <- PartialGets
  Retries = 0
  SendFails = FALSE
  RecvFails = FALSE
  Cancels = TRUE
  Late = FALSE
  Concurrent = FALSE
  Refusals = {}
  Garbles = FALSE
  MaxSequence = 5

PROPERTIES
  SetPreservesRest

\* Callers may stop calling, and MaxSequence ends every behaviour.
CHECK_DEADLOCK FALSE
