SPECIFICATION NotifierSpec
CONSTANTS
  U64Max = 1
  None = None
  Unparseable = Unparseable
  Unreadable = Unreadable
  owner = owner
  node = node
  otherNode = otherNode
  c1 = c1
  c2 = c2
  Node = node
  Owners = {owner}
  Controllers = {c1}
  Authors = {c1, c2}
  Types = {"paid", "channel"}
  Events <- AllEvents
  Scenes <- MCScenes
INVARIANTS TypeOK DeliveryNeedsBoth OnlyUnsubscriptionForgets BoundedByGrants EveryoneOnce
  SentByLastWord
