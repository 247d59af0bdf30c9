SPECIFICATION FairSpec
CONSTANTS
  None = None
  Capacity = 2
  get = get
  opn = opn
  cls = cls
  Scenes <- MCScenes
  Plain = {get}
  Async = {opn, cls}
  Node = node
  Other = other
  Elsewhere = elsewhere
  MaxAnnounced = 1
INVARIANTS TypeOK AnswerNotMissed OutcomeNotMissed PassedOn DeliveriesHandled
PROPERTIES ImplementsCommand EveryCallReturns HandleReleased
CHECK_DEADLOCK FALSE
