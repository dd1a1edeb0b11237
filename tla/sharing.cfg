SPECIFICATION Spec
CONSTANTS
  Sessions = {A, B}
  Orphan = Orphan
  NoEngine = NoEngine
  Subs <- TwoSubs
  Requests = {r1, r2}
  Hinted = {r1}
  Priority <- FirstHigh
  MaxKeepAliveCount = 2
  LifeTimeCount = 6
  MaxNotificationsPerPublish = 1
  MaxPublishRequestInQueue = 2
  MaxSentMessages = 1
  MaxData = 0
  MaxCalls = 1
  MaxImmediates = 1
SYMMETRY SessionSymmetry
PROPERTIES IdleByTransferOnly
CHECK_DEADLOCK FALSE
