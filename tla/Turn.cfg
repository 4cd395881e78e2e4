CONSTANTS
  r1 = r1
  r2 = r2
  k1 = k1
  none = none
  Req = {r1, r2}
  NoReq = nobody
  Streams = {r1}
  Keys = {k1}
  NoKey = none
  KeyOf <- MCKeyOf
  EvqMax = 1
  MaxCycles = 2
  MaxFaults = 1
SPECIFICATION Spec
INVARIANTS
  TypeOK
  OneRunPerKey
  ExactDelivery
PROPERTIES
  FollowUpHonest
  SlotReturned
CHECK_DEADLOCK FALSE
