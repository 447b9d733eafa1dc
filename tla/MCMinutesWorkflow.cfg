\* Transcripts of up to six lines in every order of three languages; three attempts.
SPECIFICATION Spec
CONSTANTS
    NoText = NoText
    NoName = NoName
    Meetings <- MeetingsTried
    Outputs <- OutputsTried
    MaxAttempts = 3
INVARIANTS
    GroundedOnly
    KeptOnce
    TrustedNearby
    KoreanStaysKorean
    GivenUpForReason
CHECK_DEADLOCK FALSE
