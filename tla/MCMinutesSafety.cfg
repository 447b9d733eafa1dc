\* Two copies of one event, every kind of fault but a restart once.
SPECIFICATION Spec
CONSTANTS
    m1 = m1
    m2 = m2
    m3 = m3
    e1 = e1
    e2 = e2
    Messages = {m1, m2}
    Events = {e1}
    EventOf <- Copies
    Malformed = {}
    Tasks = {t1, t2, t3}
    NoMessage = NoMessage
    MaxRetries = 1
    Prefetch = 2
    MaxFaults <- AllButRestart
SYMMETRY TaskSymmetry
INVARIANTS
    DeadLetterJustified
    RetryBudget
PROPERTIES
    JobPromise
    NoRework
CHECK_DEADLOCK FALSE
