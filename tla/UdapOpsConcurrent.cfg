\* Three callers inside operations at once: two devices and a Device without a
\* MAC.  Waits are cancelled, transports fail, requests are sent twice.
SPECIFICATION Spec

CONSTANTS
  d1 = d1
  d2 = d2
  zero = zero
  c1 = c1
  c2 = c2
  c3 = c3
  ip1 = ip1
  ip2 = ip2
  a = a
  b = b
  x = x
  huge = huge
  Callers <- Three
  Macs = {d1, d2}
  ZeroMac = zero
  Target <- WithUnaddressed
  KnownIp <- IpKnown
  Address <- MCAddress
  NoIp = none
  Names <- PlainNames
  Slots <- MCSlots
  SlotOf <- PlainTable
  Canonical <- MCCanonical
  Rank <- MCRank
  Synthetic = {}
  Values = {a, b, x}
  Unencodable = {}
  Absent = absent
  Stored <- AsIs
  Seed <- SeedOwn
  Ops = {"get_all", "set", "reset"}
  Configs <- AdverseConfigs
  Requested <- WholeGets
  Retries = 1
  SendFails = TRUE
  RecvFails = TRUE
  Cancels = TRUE
  Late = FALSE
  Concurrent = TRUE
  Refusals = {"ERROR"}
  Garbles = FALSE
  MaxSequence = 3

INVARIANTS
  CommitBarrier
  UnaddressedNeverSucceeds

PROPERTIES
  SetOkIsPersisted

\* Callers may stop calling, and MaxSequence ends every behaviour.
CHECK_DEADLOCK FALSE
