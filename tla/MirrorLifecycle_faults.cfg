SPECIFICATION FairSpec
CONSTANTS
    r1 = r1  l1 = l1  l2 = l2  g1 = g1  g2 = g2  g3 = g3  g4 = g4
    None = None
    Rooms = {r1}
    Links = {l1, l2}
    Generations = {g1, g2, g3, g4}
    Org <- TwoOrgs
    MaxFaults = 1
    MaxLevels = 2
    MaxSwitches = 1
    MaxLinks = 1
    MaxReturns = 0
    MaxCuts = 1
INVARIANT NothingForgotten
INVARIANT OwnerLeavesLast
PROPERTY NeverRevived
PROPERTY WrittenOverItsLink
PROPERTY CleanupFinishes
PROPERTY SharedIsArchived
