\* Two tasks receive while requests are sent, receives are dropped and
\* cancelled and the transport is closed.
SPECIFICATION FairSpec

CONSTANTS
  quick = quick
  brisk = brisk
  slow = slow
  Tasks = {t1, t2}
  Devices <- ThreeDevices
  Position <- InThisOrder
  Slow = {slow}
  Answers <- SomeAnswers
  MaxSends = 2
  MaxRecvs = 4
  MayClose = TRUE
  MayDrop = TRUE

INVARIANTS
  TypeOK
  RepliesOnce
  InstantRepliesInOrder

PROPERTIES
  CloseWakesEveryone
  NoLostWakeup

\* Nobody has to send or to receive.
CHECK_DEADLOCK FALSE
