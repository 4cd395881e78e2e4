\* A conversation of two nodes (a, b) and the boot conversation's node c, a
\* quota of two nodes so that three do not fit, room for one pin and for two
\* queued nodes. The first boot may find a pinned boot node (MCEarlier).
CONSTANTS
  a = a
  b = b
  c = c
  none = none
  Key <- MCKeys
  NoKey <- none
  Parent <- MCParent
  Chain <- MCChain
  Base <- c
  Earlier <- MCEarlier
  Quota = 2
  PinBudget = 1
  QueueMax = 2
  MaxRequests = 2
  MaxFaults = 1
  MaxRestarts = 1
SPECIFICATION Spec
INVARIANTS
  TypeOK
  EntriesHaveDirs
  NoOrphanDirs
  ManifestWhole
  CrashLosesOnlyInHand
  PinBudgetKept
PROPERTIES
  EvictionSparesChains
  CleanExitPersists
  WriterReturns
CHECK_DEADLOCK FALSE
