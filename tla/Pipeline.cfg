SPECIFICATION Spec
CONSTANTS
  U64Max = 3
  None = None
  Unparseable = Unparseable
  owner = owner
  node = node
  c1 = c1
  Node = node
  Owners = {owner}
  Controllers = {c1}
  Callers = {c1}
  Names = {"pay", "info"}
  Served <- MCServed
  Costs = {0, 1, 2}
  GrantEvents <- MCGrants
  QuotaCeiling <- MCQuotaCeiling
  RateCeiling <- MCRateCeiling
  NodeKeepsSelection = TRUE
  MaxTime = 2
  MaxAdvance = 2
  MaxRestarts = 1
  MaxLapses = 1
INVARIANTS TypeOK QuotaBound RateBound CommitHonoured AuthorityInForce
PROPERTIES ParamsNotJudgedFirst BilledOnlyOnSuccess
CHECK_DEADLOCK FALSE
