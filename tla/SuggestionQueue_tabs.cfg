SPECIFICATION Spec
CONSTANTS
    t1 = t1
    t2 = t2
    Tabs = {t1, t2}
    r1 = r1
    s1 = s1
    c1 = c1
    bot = bot
    eve = eve
    None = None
    Rooms = {r1}
    Bots = {bot}
    Joined = {r1}
    Invite <- MCInvite
    Suggestions = {s1, c1}
    Kind <- MCKind
    Target <- MCTarget
    Arrived <- MCArrived
    MaxJoins = 1
    MaxSession = 1
    MaxLogins = 2
    MaxAsked = 2
    MaxRefreshes = 2
SYMMETRY TabSymmetry
CHECK_DEADLOCK FALSE
INVARIANT SaidOnce
INVARIANT ToldStands
PROPERTY DecisionStands
