\* Refuted: ConversationExclusive.  Three requests, widths 1 and 2, no heal; locks are
\* dropped from the registry when more than LockCap conversations have one.
CONSTANTS
  r1 = r1
  r2 = r2
  r3 = r3
  r4 = r4
  c1 = c1
  c2 = c2
  NoLock = NoLock
  Reqs <- MCReqs3
  Convs <- MCConvs
  ConvOf <- MCConvOf3
  PermitChoices <- MCWidths
  MaxPermits = 2
  MaxWaiting = 1
  LockCap = 1
  MaxHeals = 0
SPECIFICATION Spec
INVARIANTS
  ConversationExclusive
CHECK_DEADLOCK FALSE
