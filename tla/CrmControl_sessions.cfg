SPECIFICATION Spec
CONSTANTS
    Sessions = {s1, s2}
    People = {p1}
    Rooms = {r1}
    MaxOps = 3
    MaxRequests = 2
SYMMETRY SessionSymmetry
CHECK_DEADLOCK FALSE
INVARIANT GrantFollowsCommand
PROPERTY GrantBacked
PROPERTY SentToMembersOnly
PROPERTY ReviewedWatchKept
