\* Two losses, a forgotten session, a subscription that expires and a refusal.
SPECIFICATION FairSpec
CONSTANTS
    Ids = {1, 2}
    Pipeline = 1
    MaxAccepted = 1000
    Capacity = 1
    MaxMessages = 1
    MaxLosses = 2
    MaxForgotten = 1
    MaxExpired = 1
    MaxRefusals = 1
INVARIANTS TypeOK PendingCounted AcknowledgedReceived
PROPERTIES RegisteredFed
CHECK_DEADLOCK FALSE
