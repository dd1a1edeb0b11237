\* One client, two calls of connect, two losses: losing the connection while it is repaired.
SPECIFICATION FairSpec
CONSTANTS
    Connects = {c1, c2}
    Disconnects = {d1}
    Requests = {r1}
    Channels = {1, 2, 3}
    MaxLosses = 2
    MaxRefusals = 1
    MaxForgotten = 1
    Retries = {TRUE, FALSE}
    Keeps = {TRUE, FALSE}
INVARIANTS TypeOK OneChannel
PROPERTIES StaysDown ConnectionRestored CallsAnswered
CHECK_DEADLOCK FALSE
