\* Liveness: three requests, two of them on one conversation, one waiting
\* place.  Requests are one-shot, so the system stops when all have ended.
CONSTANTS
  r1 = r1
  r2 = r2
  r3 = r3
  r4 = r4
  c1 = c1
  c2 = c2
  NoLock = NoLock
  Reqs <- MCReqs3
  Convs <- MCConvs
  ConvOf <- MCConvOf3
  PermitChoices <- MCWidths
  MaxPermits = 2
  MaxWaiting = 1
  LockCap = 1
  MaxHeals = 1
SPECIFICATION FairSpec
PROPERTIES
  NoStarvation
CHECK_DEADLOCK FALSE
