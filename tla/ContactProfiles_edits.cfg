SPECIFICATION ContactsSpec
CONSTANTS
    t1 = t1
    r1 = r1
    b1 = b1
    b2 = b2
    h1 = h1
    bot = bot
    eve = eve
    None = None
    Tabs = {t1}
    Rooms = {r1, b1, b2}
    Bots = {bot}
    Joined = {r1}
    Invite <- MCInvite
    Handles = {h1}
    Names = {"Cy"}
    Number <- MCNumber
    FirstStore <- MCFirstStore
    MaxJoins = 1
    MaxSession = 1
    MaxLogins = 2
    MaxAsked = 3
    MaxIds = 3
CHECK_DEADLOCK FALSE
INVARIANT JoinedAfterYes
 
