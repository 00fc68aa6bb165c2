SPECIFICATION FairSpec
CONSTANTS
    i1 = i1  i2 = i2  r1 = r1
    None = None
    Items = {i1, i2}
    Rooms = {r1}
    Target <- OneRoom
    Shape <- PlainAndBadTime
    Cap = 1
    ScanLimit = 3
    SyncLimit = 10
    MaxFaults = 1
    MaxReplies = 0
    MaxCancels = 1
    MaxAutos = 0
    MaxLinks = 1
INVARIANT RefusedMeansNotSaid
PROPERTY CancelledNeverSent
PROPERTY OnceOnly
PROPERTY ArmedIsAnswered
