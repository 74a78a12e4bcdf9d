CONSTANTS
    MaxMessages = 3
    MaxPolls = 2
SPECIFICATION Spec
CHECK_DEADLOCK FALSE
INVARIANTS
    HistorySound
PROPERTIES
    QueueServed
    QueueKept
    NoFollowupAfterQuit
