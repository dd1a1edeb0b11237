SPECIFICATION Spec
CONSTANTS
  Sessions = {A, B}
  Orphan = Orphan
  NoEngine = NoEngine
  Subs <- OneSub
  Requests = {r1, r2}
  Hinted = {}
  Priority <- FirstHigh
  MaxKeepAliveCount = 2
  LifeTimeCount = 6
  MaxNotificationsPerPublish = 1
  MaxPublishRequestInQueue = 1
  MaxSentMessages = 1
  MaxData = 2
  MaxCalls = 2
  MaxImmediates = 2
SYMMETRY RequestSymmetry
INVARIANTS TypeOK ClosedDrainsQueue NoNotificationLost OwnershipConsistent FarewellsElsewhere
PROPERTIES AnsweredOnce RetransmissionQueue ExpiresWithoutRequests StreamsImplemented
CHECK_DEADLOCK FALSE
