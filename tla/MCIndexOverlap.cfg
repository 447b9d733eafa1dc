\* Two texts of different lengths and a copy of the first, in any order of deliveries, with a lost
\* channel.
SPECIFICATION Spec
CONSTANTS
    d = d
    i1 = i1
    i2 = i2
    r = r
    mi1 = mi1
    mi2 = mi2
    mr = mr
    copy = copy
    Docs = {d}
    Events = {i1, i2}
    Kind <- KindOf
    DocOf <- AllAboutD
    Size <- Lengths
    Messages = {mi1, mi2, copy}
    EventOf <- Carries
    Malformed = {}
    Tasks = {t1, t2}
    Nothing = Nothing
    MaxRetries = 1
    Prefetch = 2
    MaxFaults <- Reconnects
SYMMETRY TaskSymmetry
INVARIANTS
    NoLeftovers
    AckedIsCurrent
    DeadLetterJustified
PROPERTIES
    JobPromise
CHECK_DEADLOCK FALSE
