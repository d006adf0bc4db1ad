CONSTANTS
    t = t  x = x  c = c  k = k
    Plugins = {t, x, c}
    Rank <- SetupOrder
    Needs <- Required
    Wants <- Optional
    Depends <- Required
    Gated = {t}
    Calls = {k}
    MaxOps = 2
    Fragile = 1
    Starts <- AllOrNone
CHECK_DEADLOCK FALSE
SPECIFICATION FairSpec
INVARIANTS
    ProvidersStayOpen
    LiveConfig
    HoldsCurrent
    OpenWhenActive
PROPERTIES
    ResourcesSurvive
    TransitionsEnd
