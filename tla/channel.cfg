\* A transaction, a renewal of the token and the expiry of the first, one loss, one refusal.
SPECIFICATION FairSpec
CONSTANTS
    Transactions = {t1}
    Secured = {TRUE, FALSE}
    Lifetime = 4
    MaxTime = 6
    MaxLosses = 1
    MaxRefusals = 1
INVARIANTS
    TypeOK
    TokensHonoured
    Settled
PROPERTIES
    CallsImplemented
    CallsReturn
CHECK_DEADLOCK FALSE
