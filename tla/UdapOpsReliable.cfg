\* One caller, every operation; replies that arrive do so during the wait they
\* belong to.  Devices may refuse, garble and answer unknown methods.
SPECIFICATION Spec

CONSTANTS
  d1 = d1
  d2 = d2
  zero = zero
  c1 = c1
  c2 = c2
  c3 = c3
  ip1 = ip1
  ip2 = ip2
  a = a
  b = b
  x = x
  huge = huge
  Callers <- One
  Macs = {d1}
  ZeroMac = zero
  Target <- MCTarget
  KnownIp <- IpKnown
  Address <- MCAddress
  NoIp = none
  Names <- OddNames
  Slots <- MCSlots
  SlotOf <- PlainTable
  Canonical <- MCCanonical
  Rank <- MCRank
  Synthetic = {"offset_5"}
  Values = {a, b, huge}
  Unencodable = {huge}
  Absent = absent
  Stored <- AsIs
  Seed <- SeedA
  Ops = {"get", "get_all", "set", "reset", "get_ip", "get_uuid"}
  Configs <- OddConfigs
  Requested <- OddGets
  Retries = 0
  SendFails = TRUE
  RecvFails = FALSE
  Cancels = FALSE
  Late = FALSE
  Concurrent = FALSE
  Refusals = {"ERROR", "CREDENTIALS_ERROR", "UNRECOGNISED"}
  Garbles = TRUE
  MaxSequence = 6

INVARIANTS
  TypeOK
  RecordIsPersisted

PROPERTIES
  SetPreservesRest
  GetIsCurrent
  ImplementsStore

\* Callers may stop calling, and MaxSequence ends every behaviour.
CHECK_DEADLOCK FALSE
