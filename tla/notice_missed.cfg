SPECIFICATION ServerSpec
CONSTANTS
    g1 = g1
    g2 = g2
    o1 = o1
    u1 = u1
    u2 = u2
    i1 = i1
    n1 = n1
    n2 = n2
    r1 = r1
    s1 = s1
    s2 = s2
    Gminas <- MCGminas
    Orgs <- MCOrgs
    Users <- MCUsers
    Invites <- MCInvites
    Names <- MCNames
    Slots <- MCSlots
    Reverts <- MCReverts
    Null = Null
    MaxLog = 4
    MaxEdits = 2
    alice = alice
    bob = bob
    t1 = t1
    t2 = t2
    t3 = t3
    look1 = look1
    look2 = look2
    change1 = change1
    change2 = change2
    own = own
    other = other
    link1 = link1
    use1 = use1
    use2 = use2
    Lookups = {look1, look2}
    Changes = {change1, change2}
    MaxEntries = 1
    StreamUsers = {alice, bob}
    Streams = {t1, t2, t3}
    Cap = 2
    SlotTTL = 2
    MaxDrops = 1
    Askers = {own, other}
    Form = own
    Threshold = 2
    MaxAttempts = 4
    MaxSolves = 1
    Links = {link1}
    Uses = {use1, use2}
    edit1 = edit1
    edit2 = edit2
    Editors = {edit1, edit2}
    ProfileThreshold = 3
    Sticky = 3
    MaxTries = 7
    proc1 = proc1
    proc2 = proc2
    conn1 = conn1
    conn2 = conn2
    Processes = {proc1, proc2}
    PoolConnections = {conn1, conn2}
    PurgedTables = {"LoginAttempt", "InviteToken"}
    MaxRuns = 2
    MaxMoves = 3
    MaxLoads = 2
INVARIANTS
    NeverMissed
CHECK_DEADLOCK FALSE
