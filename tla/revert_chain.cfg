SPECIFICATION MCSpec
CONSTANTS
    g1 = g1
    g2 = g2
    o1 = o1
    u1 = u1
    u2 = u2
    i1 = i1
    n1 = n1
    n2 = n2
    s1 = s1
    s2 = s2
    r1 = r1
    Gminas <- MCGminas
    Orgs <- MCOrgs
    Users <- MCUsers
    Invites <- MCInvites
    Names <- MCNames
    Slots <- MCSlots
    Reverts <- MCReverts
    Null = Null
    MaxLog = 4
    MaxEdits = 2
SYMMETRY MCSymmetry
INVARIANTS
    ChainsLinkUp
CHECK_DEADLOCK FALSE
