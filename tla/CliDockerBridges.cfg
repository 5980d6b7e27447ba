\* A machine with bridges Docker named and one named by hand.
SPECIFICATION CliSpec

CONSTANTS
  d1 = d1
  zero = zero
  pseudo = pseudo
  Devices = {d1}
  ZeroMac = zero
  Foreign = {pseudo}
  Children = {0, 1, 2, 3}
  Filters = {0, 1, 2, 3}
  Retries = 0
  SendFails = FALSE
  Breaks = FALSE
  Leftovers <- Noise
  MaxCalls = 1
  Hosts <- DockerBridges
  Names <- CliNames
  Unpinned = 0

INVARIANTS
  ListingIsStable

\* A command ends.
CHECK_DEADLOCK FALSE
