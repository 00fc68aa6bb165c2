SPECIFICATION Spec
CONSTANTS
    i1 = i1  i2 = i2  r1 = r1
    None = None
    Items = {i1, i2}
    Rooms = {r1}
    Target <- OneRoom
    Shape <- AllPlain
    Cap = 1
    ScanLimit = 3
    SyncLimit = 10
    MaxFaults = 0
    MaxReplies = 1
    MaxCancels = 0
    MaxAutos = 1
    MaxLinks = 0
INVARIANT CapRespected
INVARIANT OvertakenNeverSent
