SPECIFICATION Spec
CONSTANTS
  None = None
  c1 = c1
  c2 = c2
  c3 = c3
  g1 = g1
  g2 = g2
  g3 = g3
  Calls = {c1, c2, c3}
  Grants = {g1, g2}
  Tools <- MCTools
  Operations <- MCOperations
  AllowedTools <- MCAllowed
  Policies <- MCPolicies
  Registry <- MCRegistry
  Digest <- MCDigest
  SandboxSpendCents = None
  ToolCallIds = {"t1"}
  Requests <- MCOnlyPaid
  Faults = {"sink", "lost", "rejected", "mapper", "cancel"}
  Ttl = 0
  MaxTime = 1
SYMMETRY CallSymmetry
INVARIANTS
  TypeOK
  InFlightExact
  SingleHolder
  ExecutionAuthorized
  ReceiptTruthful
PROPERTY LifecycleSpec
