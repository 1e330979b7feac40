SPECIFICATION Spec
CONSTANTS
    al1 = al1
    al2 = al2
    n1 = n1
    n2 = n2
    r1 = r1
    r2 = r2
    a1 = a1
    a2 = a2
    a3 = a3
    recipient = recipient
    donor = donor
    g1 = g1
    g2 = g2
    Null = Null
    Alerts = {al1}
    Needs = {n1}
    Resources = {r1, r2}
    Allocations = {a1, a2, a3}
    Orgs = {recipient, donor}
    Gminas = {g1, g2}
    Users <- MCUsers
    alertOwner <- MCAlertOwner
    alertGmina <- MCAlertGmina
    needAlert <- MCNeedAlert
    resourceOwner <- MCResourceOwner
    resourceGmina <- MCResourceGmina
    MaxQuantity = 2
    MaxStock = 2
SYMMETRY MCSymmetry
INVARIANTS
    OpenNeedsBalanced
    StatusMatchesJournal
    InboxCanBeWorkedOff
PROPERTY
    StockRefined
CHECK_DEADLOCK FALSE
