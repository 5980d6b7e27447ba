\* One socket, and the answer to an operation that was given up on.
SPECIFICATION Spec

CONSTANTS
  d1 = d1
  d2 = d2
  zero = zero
  pseudo = pseudo
  Devices = {d1}
  ZeroMac = zero
  Foreign = {pseudo}
  Children = {1}
  Filters = {1}
  Retries = 0
  SendFails = FALSE
  Breaks = FALSE
  Leftovers <- OperationReply
  MaxCalls = 1

INVARIANTS
  EveryRecordIsAdvertised

\* A client may be done.
CHECK_DEADLOCK FALSE
