SPECIFICATION Spec
CONSTANTS
    p1 = p1  p2 = p2  p3 = p3  r1 = r1  l1 = l1  l2 = l2  l3 = l3  l4 = l4
    None = None
    Proposals = {p1, p2}
    Rooms = {r1}
    Links = {l1, l2, l4}
    FirstLink = l1
    Target <- OneRoom
    Kind <- NowAndForeign
    Identity <- LinkIdentity
    Authority <- LinkAuthority
    Epoch <- LinkEpoch
    Seasoned = TRUE
    Cap = 1
    ScanLimit = 2
    BatchLimit = 2
    MaxFaults = 0
    MaxReplies = 0
    MaxLinks = 2
    MaxLevels = 0
INVARIANT DispatchOnLedger
PROPERTY ConfirmedSenderOnly
