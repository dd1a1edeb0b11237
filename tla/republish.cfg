\* One loss, after a keep-alive or before the first notification has come.
SPECIFICATION Spec
CONSTANTS
    Ids = {1}
    Pipeline = 1
    MaxAccepted = 1000
    Capacity = 1
    MaxMessages = 2
    MaxLosses = 1
    MaxForgotten = 0
    MaxExpired = 0
    MaxRefusals = 0
INVARIANTS NothingSkipped
CHECK_DEADLOCK FALSE
