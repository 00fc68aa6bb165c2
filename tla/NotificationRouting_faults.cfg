SPECIFICATION FairSpec
CONSTANTS
    l1 = l1  l2 = l2
    None = None
    Lists = {l1, l2}
    Edited = {l1}
    MaxEvents = 2
    Modes <- FallbackModes
    FirstMode <- TelegramFirst
    MaxEdits = 1
    MaxFaults = 1
INVARIANT ShownOnce
INVARIANT FallbackNeverDoubles
INVARIANT AttemptIsTruthful
PROPERTY NotificationEnds
CHECK_DEADLOCK FALSE
