SPECIFICATION FairSpec
CONSTANTS
  None = None
  c1 = c1
  c2 = c2
  c3 = c3
  g1 = g1
  g2 = g2
  g3 = g3
  Tools <- MCTools
  Operations <- MCOperations
  AllowedTools <- MCAllowed
  ToolCallIds = {"t1"}
  Calls = {c1, c2}
  Grants = {g1, g2}
  Policies <- MCPolicies
  Registry <- MCRegistry
  Digest <- MCDigest
  SandboxSpendCents = 1
  Requests <- MCRequests
  Faults = {"mapper"}
  Ttl = 0
  MaxTime = 1
INVARIANTS
  FinalizedAsItHappened
  DigestPinned
PROPERTIES
  EndedExecutionFinalized
  EndedExecutionReturns
