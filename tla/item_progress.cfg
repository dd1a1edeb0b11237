CONSTANTS
    Kinds = {"value", "attribute", "event"}
    Intervals <- OneTimer
    QueueSizes = {1, 2}
    Filters = {"Status", "StatusValue"}
    Classes = {1, 2}
    Refreshes = FALSE
    MaxStamp = 2
    MaxSemantics = 1
    MaxCalls = 2
    MaxImmediates = 1
SPECIFICATION FairSpec
PROPERTIES FollowsNode
CHECK_DEADLOCK FALSE
