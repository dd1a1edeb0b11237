CONSTANTS
    Kinds = {"value"}
    Intervals <- AllIntervals
    QueueSizes = {1, 2}
    Filters = {"StatusValue"}
    Classes = {1}
    Refreshes = TRUE
    MaxStamp = 3
    MaxSemantics = 0
    MaxCalls = 3
    MaxImmediates = 2
SPECIFICATION Spec
INVARIANTS TypeOK Attended QueueHoldsLatest LossAnnounced
CHECK_DEADLOCK FALSE
