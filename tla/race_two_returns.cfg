SPECIFICATION RacesSpec
CONSTANTS
    al1 = al1
    al2 = al2
    n1 = n1
    n2 = n2
    r1 = r1
    a1 = a1
    a2 = a2
    recipient = recipient
    donor = donor
    g1 = g1
    g2 = g2
    c1 = c1
    c2 = c2
    Null = Null
    Alerts = {al1}
    Needs = {n1}
    Resources = {r1}
    Allocations = {a1, a2}
    Orgs = {recipient, donor}
    Gminas = {g1, g2}
    Users <- MCUsers
    alertOwner <- MCAlertOwner
    alertGmina <- MCAlertGmina
    needAlert <- MCNeedAlert
    resourceOwner <- MCResourceOwner
    resourceGmina <- MCResourceGmina
    MaxQuantity = 2
    MaxStock = 2
    Clients = {c1, c2}
    Workloads <- TwoReturns
SYMMETRY MCSymmetry
INVARIANTS
    JournalWithinQuantity
CHECK_DEADLOCK FALSE
