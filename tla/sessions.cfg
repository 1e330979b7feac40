SPECIFICATION FairSpec
CONSTANTS
    s1 = s1
    s2 = s2
    Sessions <- MCSessions
    NoToken = NoToken
    Roles = {"ADMIN", "USER"}
    FirstRole = "ADMIN"
    MaxLock = 1
    MaxPasswords = 1
    TTL = 2
    MaxLag = 1
    MaxDeletes = 1
    MaxChanges = 2
PROPERTIES
    PromiseKept
    RevocationTakesEffect

