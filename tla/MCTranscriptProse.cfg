CONSTANTS
    MaxCalls = 2
    MaxLines = 2
    MaxLive = 1
    MaxAsides = 2
SPECIFICATION TranscriptSpec
CHECK_DEADLOCK FALSE
INVARIANTS NoProseLost
