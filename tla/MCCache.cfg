\* Three calls over two keys in a cache of one entry: evictions drop keys' locks.
SPECIFICATION FairSpec
CONSTANTS
    Keys = {k1, k2}
    Calls = {c1, c2, c3}
    Locks = {l1, l2, l3, l4}
    None = None
    MaxSize = 1
INVARIANTS
    NoStampedeUnlessEvicted
    WaitersQueued
PROPERTIES
    WaitersServed
