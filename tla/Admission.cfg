\* Safety: four requests on two conversations, widths 1 and 2 reported in any
\* order, two waiting places, a lock registry over its cap as soon as both
\* conversations have a lock, one watchdog heal.  Three of the requests are
\* on one conversation and interchangeable.  Requests are one-shot, so the
\* system stops when all have ended.
CONSTANTS
  r1 = r1
  r2 = r2
  r3 = r3
  r4 = r4
  c1 = c1
  c2 = c2
  NoLock = NoLock
  Reqs <- MCReqs4
  Convs <- MCConvs
  ConvOf <- MCConvOf4
  PermitChoices <- MCWidths
  MaxPermits = 2
  MaxWaiting = 2
  LockCap = 1
  MaxHeals = 1
SPECIFICATION Spec
SYMMETRY MCSymmetry
INVARIANTS
  TypeOK
  NoLeakedPermit
  OverAdmissionAccounted
  NoStrandedWaiter
  LockExclusive
  LockedSessionsExclusive
PROPERTIES
  FifoAdmission
  RefusedOnlyWhenFull
CHECK_DEADLOCK FALSE
