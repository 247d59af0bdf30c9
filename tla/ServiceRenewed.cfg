SPECIFICATION Spec
CONSTANTS
  U64Max = 3
  None = None
  Unparseable = Unparseable
  Unreadable = Unreadable
  owner = owner
  node = node
  c1 = c1
  r1 = r1
  r2 = r2
  Node = node
  Owners = {owner}
  Controllers = {c1}
  Authors = {c1}
  Relays = {r1}
  Durable <- RenewedUnderSubscription
  Requests <- OneRequest
  StartupFaults = {}
  Capacity = 3
  MaxDrops = 0
  MaxCrashes = 0
INVARIANT StartupReadIsExact
CHECK_DEADLOCK FALSE
