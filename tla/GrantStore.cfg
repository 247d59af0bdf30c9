SPECIFICATION Spec
CONSTANTS
  U64Max = 3
  None = None
  Unparseable = Unparseable
  o1 = o1
  o2 = o2
  stranger = stranger
  c1 = c1
  c2 = c2
  node = node
  otherNode = otherNode
  Node = node
  Owners = {o1, o2}
  Controllers = {c1, c2}
  Names = {"pay", "info"}
  Events <- MCEvents
INVARIANTS TypeOK NewestInForce RevocationHolds
PROPERTY ImplementsRegister
