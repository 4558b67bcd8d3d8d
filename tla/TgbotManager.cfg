SPECIFICATION LiveSpec
CONSTANTS
    t1 = t1
    t2 = t2
    a1 = a1
    a2 = a2
    Tokens <- MCTokens
    NoToken = NoToken
    Admins <- MCOneAdmins
    NoAdmins = NoAdmins
    MaxGen = 3
    MaxCrashes = 1
INVARIANTS
    TypeOK
    OneLiveBot
    StatusHonest
    BotMatchesSettings
PROPERTIES
    EndIsNoticed
