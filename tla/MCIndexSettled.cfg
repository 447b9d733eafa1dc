\* A text, a removal and a malformed message, with a restart and a dropped collection.
SPECIFICATION FairSpec
CONSTANTS
    d = d
    i1 = i1
    i2 = i2
    r = r
    mi1 = mi1
    mi2 = mi2
    mr = mr
    copy = copy
    Docs = {d}
    Events = {i1, r}
    Kind <- KindOf
    DocOf <- AllAboutD
    Size <- Lengths
    Messages = {mi1, mr, copy}
    EventOf <- Carries
    Malformed = {copy}
    Tasks = {t1, t2}
    Nothing = Nothing
    MaxRetries = 1
    Prefetch = 2
    MaxFaults <- Wipes
INVARIANTS
    AckedIsCurrent
PROPERTIES
    JobPromise
    EveryRequestSettled
CHECK_DEADLOCK FALSE
