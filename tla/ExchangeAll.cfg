\* Every operation against devices of every setting, replies cut anywhere
\* interesting.
SPECIFICATION Spec

CONSTANTS
  PARAMETERS <- Table
  ALIASES <- Aliases
  Products <- ProductNames
  SyntheticName <- OffsetName
  Synthetic <- IsOffsetName
  Cfg <- MCCfg
  Knobs <- MCKnobs
  Seed <- MCSeed
  Cuts <- MCCuts
  Requested <- MCRequested
  Configs <- MCConfigs
  Entries <- MCEntries
  MacTexts <- MCMacTexts

INVARIANTS
  TypeOK
  ReadsAreTrue
  RecordDenotesDevice
  NoPiling
  NothingInvented
  ValidatedIsKept
  MacIsKept

PROPERTIES
  WritesAreExact
  FailuresChangeNothing
