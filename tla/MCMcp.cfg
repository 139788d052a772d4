SPECIFICATION Spec
CONSTANTS
  None = None
  c1 = c1  c2 = c2  i1 = i1  i2 = i2  p1 = p1  p2 = p2
  book = book  pay = pay  look = look
  preload = preload
  Calls = {c1, c2}
  Intents = {i1, i2}
  Payloads = {p1, p2}
  SpendTools = {book, pay, look}
  AllowedBy <- MCAllowedBy
  Policies <- MCPolicies
  Scenarios <- MCScenarios
  ttl_sec = 1
  max_entries = 1
  window_sec = 2
  SweepWindows = 2
  rate_limit_per_minute = 2
  unauthenticated_rate_limit_per_minute = 1
  MaxTime = 4
INVARIANTS
  McpTypeOK
  InFlightExact
  RequestsWithinGrant
  ReadersDoNotMutate
  SubmittedWasValidated
  VerdictOfOnePolicy
  RateBound
PROPERTIES
  TokenFresh
  CallsEnd
CHECK_DEADLOCK FALSE
