\* A reconnection leaves a handler behind: its delete outlives the ack.
SPECIFICATION Spec
CONSTANTS
    d = d
    i1 = i1
    i2 = i2
    r = r
    mi1 = mi1
    mi2 = mi2
    mr = mr
    copy = copy
    Docs = {d}
    Events = {i1}
    Kind <- KindOf
    DocOf <- AllAboutD
    Size <- Lengths
    Messages = {mi1}
    EventOf <- Carries
    Malformed = {}
    Tasks = {t1, t2}
    Nothing = Nothing
    MaxRetries = 1
    Prefetch = 2
    MaxFaults <- Reconnects
INVARIANTS
    AckedIndexIsStored
CHECK_DEADLOCK FALSE
