\* Chunks of 6 characters with an overlap of 2, pages of 3 points, every kind of text.
SPECIFICATION FairSpec
CONSTANTS
    docA = docA
    docB = docB
    ann = ann
    bob = bob
    team = team
    organization = organization
    Texts <- TextsTried
    MaxChars = 6
    Overlap = 2
    Backends <- BackendsTried
    NoRequest = NoRequest
    Commands <- CommandsTried
    SourceTypes <- TypesTried
    Rooms <- RoomsTried
    MaxFeedback = 1
    Periods <- PeriodsTried
    PageLimit = 3
    ListLimit = 2
    SearchLimit = 2
    MaxTextChars = 16
    MinPdfText = 2
    KstOffset = 9
INVARIANTS
    NothingLost
    PassagesWhole
    RowsKeepHeader
    OnlyAskedFor
    ListingComplete
    DocumentWhole
PROPERTY RequestEnds
CHECK_DEADLOCK FALSE
