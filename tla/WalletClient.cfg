SPECIFICATION FairSpec
CONSTANTS
  None = None
  Capacity = 2
  pay = pay
  get = get
  Commands = {pay, get}
  Types = {"accepted", "settled"}
  Wallet = wallet
  Other = other
  Scenes <- MCScenes
INVARIANTS TypeOK NotificationNotMissed
PROPERTIES ImplementsCommand EveryWaitEnds
CHECK_DEADLOCK FALSE
