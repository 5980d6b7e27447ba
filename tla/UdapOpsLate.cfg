\* Two callers in turn; every request is sent twice and datagrams outlive the
\* operation they belong to.  Fair scheduling.
SPECIFICATION FairSpec

CONSTANTS
  d1 = d1
  d2 = d2
  zero = zero
  c1 = c1
  c2 = c2
  c3 = c3
  ip1 = ip1
  ip2 = ip2
  a = a
  b = b
  x = x
  huge = huge
  Callers <- Two
  Macs = {d1, d2}
  ZeroMac = zero
  Target <- MCTarget
  KnownIp <- IpMixed
  Address <- MCAddress
  NoIp = none
  Names <- PlainNames
  Slots <- MCSlots
  SlotOf <- PlainTable
  Canonical <- MCCanonical
  Rank <- MCRank
  Synthetic = {}
  Values = {a, b, x}
  Unencodable = {}
  Absent = absent
  Stored <- AsIs
  Seed <- SeedOwn
  Ops = {"get", "get_all", "set", "reset"}
  Configs <- AdverseConfigs
  Requested <- WholeGets
  Retries = 1
  SendFails = FALSE
  RecvFails = FALSE
  Cancels = TRUE
  Late = TRUE
  Concurrent = FALSE
  Refusals = {"ERROR"}
  Garbles = FALSE
  MaxSequence = 2

INVARIANTS
  WholeWrites
  Isolation

PROPERTIES
  OnlyRequestedChanges
  EveryOperationReturns

\* Callers may stop calling, and MaxSequence ends every behaviour.
CHECK_DEADLOCK FALSE
