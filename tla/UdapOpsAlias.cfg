\* A name and its alias are set one after the other; nothing fails.
SPECIFICATION Spec

CONSTANTS
  d1 = d1
  d2 = d2
  zero = zero
  c1 = c1
  c2 = c2
  c3 = c3
  ip1 = ip1
  ip2 = ip2
  a = a
  b = b
  x = x
  huge = huge
  Callers <- One
  Macs = {d1}
  ZeroMac = zero
  Target <- MCTarget
  KnownIp <- IpKnown
  Address <- MCAddress
  NoIp = none
  Names <- AliasNames
  Slots <- MCSlots
  SlotOf <- AliasTable
  Canonical <- MCCanonical
  Rank <- MCRank
  Synthetic = {}
  Values = {a, b, x}
  Unencodable = {}
  Absent = absent
  Stored <- AsIs
  Seed <- SeedA
  Ops = {"set"}
  Configs <- AliasConfigs
  Requested <- PartialGets
  Retries = 0
  SendFails = FALSE
  RecvFails = FALSE
  Cancels = FALSE
  Late = FALSE
  Concurrent = FALSE
  Refusals = {}
  Garbles = FALSE
  MaxSequence = 4

INVARIANTS
  CommitBarrier

\* Callers may stop calling, and MaxSequence ends every behaviour.
CHECK_DEADLOCK FALSE
