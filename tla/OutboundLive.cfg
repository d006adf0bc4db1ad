CONSTANTS
    m1 = m1  m2 = m2  m3 = m3
    a = a  b = b  t1 = t1  t2 = t2
    Messages = {m1, m2}
    Channels = {a}
    Transports = {t1}
    ChannelOf <- OneLine
    Subscribed <- OneTransport
    Acknowledged = {m2}
    Guarded = {m1, m2}
    Host = host
    None = none
    MaxHandovers = 1
    CallbackCancels = TRUE
    LaneFails = FALSE
SPECIFICATION FairSpec
PROPERTIES
    NoCallAfterRevoke
    EachSettles
    CallerAnswered
