\* Two copies of one event and a malformed message: a lost channel, a restart and a
\* Redis fault do not stop settlement.
SPECIFICATION FairSpec
CONSTANTS
    m1 = m1
    m2 = m2
    m3 = m3
    e1 = e1
    e2 = e2
    Messages = {m1, m2, m3}
    Events = {e1, e2}
    EventOf <- Copies
    Malformed = {m3}
    Tasks = {t1, t2}
    NoMessage = NoMessage
    MaxRetries = 1
    Prefetch = 1
    MaxFaults <- AllButExpiry
PROPERTIES
    RetryKeyExpires
    EveryRequestSettled
CHECK_DEADLOCK FALSE
