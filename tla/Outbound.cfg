CONSTANTS
    m1 = m1  m2 = m2  m3 = m3
    a = a  b = b  t1 = t1  t2 = t2
    Messages = {m1, m2, m3}
    Channels = {a, b}
    Transports = {t1, t2}
    ChannelOf <- TwoLines
    Subscribed <- SomeTransports
    Acknowledged = {m2}
    Guarded = {}
    Host = host
    None = none
    MaxHandovers = 1
    CallbackCancels = FALSE
    LaneFails = TRUE
SPECIFICATION Spec
INVARIANTS
    WithdrawnNeverSent
PROPERTIES
    ImplementsLines
    NoReplay
