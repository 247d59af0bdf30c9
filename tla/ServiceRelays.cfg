SPECIFICATION Spec
CONSTANTS
  U64Max = 3
  None = None
  Unparseable = Unparseable
  Unreadable = Unreadable
  owner = owner
  node = node
  c1 = c1
  r1 = r1
  r2 = r2
  Node = node
  Owners = {owner}
  Controllers = {c1}
  Authors = {c1}
  Relays = {r1, r2}
  Durable <- OthersSubscribe
  Requests <- NoRequests
  StartupFaults = {}
  Capacity = 2
  MaxDrops = 1
  MaxCrashes = 0
INVARIANT InSync
CHECK_DEADLOCK FALSE
