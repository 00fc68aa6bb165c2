SPECIFICATION FairSpec
CONSTANTS
    o1 = o1  o2 = o2  b1 = b1  b2 = b2  d1 = d1  c1 = c1
    None = None
    Chats = {o1, o2}
    Bots = {b1, b2}
    FirstBot = b1
    FirstChat = o1
    Drafts = {d1}
    Commands = {c1}
    Parts = 2
    MaxUpdates = 2
    MaxPairs = 2
    MaxEpoch = 1
    MaxContext = 1
    MaxFaults = 1
INVARIANT SubmittedOnce
INVARIANT ConfirmerSawReview
 
PROPERTY OrderEnds
CHECK_DEADLOCK FALSE
