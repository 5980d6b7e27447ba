\* Two sockets, of which one passes our own requests back, alone or in a fan-out;
\* they may fail while replies wait, and no timer need end the wait.
SPECIFICATION FairSpec

CONSTANTS
  d1 = d1
  d2 = d2
  zero = zero
  pseudo = pseudo
  Devices = {d1}
  ZeroMac = zero
  Foreign = {pseudo}
  Children = {1, 2}
  Filters = {2}
  Retries = 0
  SendFails = TRUE
  Breaks = TRUE
  Leftovers <- MoreNoise
  MaxCalls = 1

INVARIANTS
  TypeOK
  OnlyDevices

PROPERTIES
  HealthyChildIsHeard

\* A client may be done.
CHECK_DEADLOCK FALSE
