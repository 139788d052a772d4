SPECIFICATION Spec
CONSTANTS
  s1 = s1
  k1 = k1
  b1 = b1
  Sessions = {s1}
  Keys = {k1}
  Bodies = {b1, b2}
  None = None
  MaxRetries = 3
  MaxLate = 1
  MaxPolls = 1
  FundBody = b1
  b2 = b2
  Flows = {"call", "x402", "mpp", "ach"}
INVARIANTS
  TypeOK
  OneEffectPerKey
  OnceNotRepeated
  ReturnedIsDone
  ReturnedFunded
  SignedOnce
PROPERTY
  FlowEnds
