SPECIFICATION MCSpec
CONSTANTS
    u1 = u1
    u2 = u2
    u3 = u3
    g1 = g1
    g2 = g2
    o1 = o1
    q1 = q1
    q2 = q2
    i1 = i1
    Users <- MCUsers
    Gminas <- MCGminas
    Orgs <- MCOrgs
    Invites <- MCInvites
    Requests <- MCRequests
    Changes <- MCChanges
    Null = Null
    Keep = Keep
    MaxRequests = 3
SYMMETRY MCSymmetry
INVARIANTS
    NeverHalfMoved
CHECK_DEADLOCK FALSE
