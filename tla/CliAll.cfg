\* Every command over changing interfaces, some of which break; one device, a
\* noisy network, one discovery.
SPECIFICATION CliFairSpec

CONSTANTS
  d1 = d1
  zero = zero
  pseudo = pseudo
  Devices = {d1}
  ZeroMac = zero
  Foreign = {pseudo}
  Children = {0, 1, 2}
  Filters = {0, 1, 2}
  Retries = 0
  SendFails = TRUE
  Breaks = TRUE
  Leftovers <- Noise
  MaxCalls = 1
  Hosts <- CliHosts
  Names <- CliNames
  Unpinned = 0

INVARIANTS
  CliTypeOK
  PrintedAreDevices
  HeardArePrinted
  NothingLost
  BoundAsChecked
  FanOutSurvives
  ListingIsStable
  ListedNaturally

PROPERTIES
  CommandExits

\* A command ends.
CHECK_DEADLOCK FALSE
