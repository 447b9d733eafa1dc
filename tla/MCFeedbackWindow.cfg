\* Overlapping, repeated and renumbered segments against a slow clock: windows expire
\* before cooldowns do.
SPECIFICATION Spec
CONSTANTS
    s1 = s1
    s2 = s2
    g0 = g0
    g1 = g1
    g2 = g2
    again = again
    other = other
    Sessions = {s1, s2}
    Segments = {g0, g1, g2, again, other}
    SessionOf <- Speaker
    IdOf <- Identity
    Number <- Order
    EndedAt <- Ends
    Chars <- OneChar
    Topics = {t1}
    NoWindow = NoWindow
    MaxSegments = 2
    Span = 1
    MinSegments = 1
    MinChars = 1
    Interval = 1
    Cooldown = 3
    StateTtl = 1
    MaxTime = 4
    MaxFaults = 1
INVARIANTS
    WindowSound
PROPERTIES
    QueriesMoveOn
    CooldownKept
