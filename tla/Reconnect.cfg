CONSTANTS
    Attempts = {a1, a2, a3}
    MaxLosses = 2
    MaxOutages = 2
SPECIFICATION FairReconnectSpec
INVARIANTS
    ReconnectTypeOK
    RetryArmed
    DialogOffersWayBack
PROPERTIES
    Recovers
