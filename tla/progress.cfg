SPECIFICATION FairSpec
CONSTANTS
  Sessions = {A}
  Orphan = Orphan
  NoEngine = NoEngine
  Subs <- OneSub
  Requests = {r1, r2}
  Hinted = {r1}
  Priority <- FirstHigh
  MaxKeepAliveCount = 2
  LifeTimeCount = 6
  MaxNotificationsPerPublish = 2
  MaxPublishRequestInQueue = 2
  MaxSentMessages = 1
  MaxData = 2
  MaxCalls = 3
  MaxImmediates = 1
PROPERTIES RequestsAnswered StarvedSubscriptionsEnd DataDelivered
CHECK_DEADLOCK FALSE
