SPECIFICATION FairSpec
CONSTANTS
  U64Max = 3
  None = None
  Unparseable = Unparseable
  Unreadable = Unreadable
  owner = owner
  node = node
  c1 = c1
  r1 = r1
  r2 = r2
  Node = node
  Owners = {owner}
  Controllers = {c1}
  Authors = {c1}
  Relays = {r1}
  Durable <- AllGrants
  Requests <- OneRequest
  StartupFaults = {}
  Capacity = 2
  MaxDrops = 1
  MaxCrashes = 1
INVARIANTS TypeOK NoStaleAllow
PROPERTIES GrantTakesEffect RequestAnswered
CHECK_DEADLOCK FALSE
