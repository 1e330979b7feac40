SPECIFICATION Spec
CONSTANTS
    al1 = al1
    al2 = al2
    n1 = n1
    n2 = n2
    r1 = r1
    r2 = r2
    a1 = a1
    a2 = a2
    a3 = a3
    recipient = recipient
    donor = donor
    g1 = g1
    g2 = g2
    Null = Null
    Alerts = {al1, al2}
    Needs = {n1, n2}
    Resources = {r1}
    Allocations = {a1, a2, a3}
    Orgs = {recipient, donor}
    Gminas = {g1, g2}
    Users <- MCLocalUsers
    alertOwner <- MCAlertOwner
    alertGmina <- MCAlertGmina
    needAlert <- MCNeedAlert
    resourceOwner <- MCResourceOwner
    resourceGmina <- MCResourceGmina
    MaxQuantity = 1
    MaxStock = 2
SYMMETRY MCSymmetry
INVARIANTS
    CancelledAlertSettled
    OffersAreAccepted
CHECK_DEADLOCK FALSE
