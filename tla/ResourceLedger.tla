--------------------------- MODULE ResourceLedger ---------------------------
(***************************************************************************)
(* The resource ledger: alerts declare needs, donor organizations allocate *)
(* units of their resources to them, recipients return the units or write  *)
(* them off, owners cancel alerts.                                         *)
(*                                                                         *)
(* Every route handler is an operator in two parts:                        *)
(*   XAccepts(..)   the reads and early returns before the write,          *)
(*   XTx(.., seen)  the transaction, given the rows the handler SAW when   *)
(*                  it made those reads.                                   *)
(* In this module a handler runs alone (X == XAccepts /\ XTx with the      *)
(* current rows); ResourceRaces takes the two parts at different moments.  *)
(* A statement that would break a CHECK constraint, or update a row that   *)
(* is gone, rolls the whole transaction back: XTx is then disabled.        *)
(***************************************************************************)
EXTENDS Quantities

CONSTANTS
    Alerts, Needs, Resources, Allocations,  \* primary keys, never reused
    Orgs,           \* organizations
    Gminas,         \* municipalities
    Users,          \* the accounts that call the routes
    Null,           \* SQL NULL, and an optional input that was left out
    alertOwner,     \* Alert.organizationId, fixed at creation
    alertGmina,     \* Alert.gminaId, fixed at creation
    needAlert,      \* AlertNeed.alertId, fixed at creation
    resourceOwner,  \* Resource.organizationId, fixed at creation
    resourceGmina,  \* Resource.gminaId, fixed at creation
    MaxQuantity,    \* bound: the largest quantity of a need, allocation or return
    MaxStock        \* bound: the largest quantity of a resource

ASSUME KeysFinite ==
    /\ IsFiniteSet(Alerts) /\ IsFiniteSet(Needs)
    /\ IsFiniteSet(Resources) /\ IsFiniteSet(Allocations)
ASSUME NullIsNoKey == Null \notin Alerts \cup Needs \cup Resources \cup Orgs \cup Gminas
ASSUME NullIsNoNumber == Null \notin Int /\ Null \notin STRING
ASSUME ImmutableColumns ==
    /\ alertOwner \in [Alerts -> Orgs \cup {Null}]
    /\ alertGmina \in [Alerts -> Gminas]
    /\ needAlert \in [Needs -> Alerts]
    /\ resourceOwner \in [Resources -> Orgs]
    /\ resourceGmina \in [Resources -> Gminas]
ASSUME UserColumns ==
    Users \subseteq [role : {"ADMIN", "COORDINATOR"},
                     gmina : Gminas \cup {Null}, org : Orgs \cup {Null}]
ASSUME BoundsPositive == MaxQuantity \in Nat \ {0} /\ MaxStock \in Nat \ {0}

VARIABLES
    alert,          \* Alert.status
    need,           \* AlertNeed rows
    resource,       \* Resource rows
    allocation,     \* ResourceAllocation rows
    journal         \* per allocation, the sum of its AllocationReturnEvent rows

vars == <<alert, need, resource, allocation, journal>>

-----------------------------------------------------------------------------
(* The tables.  "NEW" is a key not created yet, "GONE" a deleted row.      *)

AlertStatus == {"ACTIVE", "IN_PROGRESS", "RESOLVED", "CANCELLED"}
DerivedNeedStatus == {"OPEN", "PARTIALLY_FULFILLED", "FULFILLED"}
NeedStatus == DerivedNeedStatus \cup {"CLOSED", "CANCELLED"}
ActiveStatus == {"DELIVERY_AGREED", "DELIVERED", "RETURN_AGREED", "PARTIALLY_RETURNED"}
AllocationStatus == ActiveStatus \cup {"RETURNED", "CANCELLED"}
NoRow == {"NEW", "GONE"}

NeedRow(status, needed, fulfilled) ==
    [status |-> status, quantityNeeded |-> needed, quantityFulfilled |-> fulfilled]

ResourceRow(status, quantity, reserved) ==
    [status |-> status, quantity |-> quantity, reservedQuantity |-> reserved]

AllocationRow(status, n, al, r, donor, q) ==
    [status |-> status, needId |-> n, alertId |-> al, resourceId |-> r, donorOrgId |-> donor,
     quantity |-> q, quantityReturned |-> 0, quantityNotReturnable |-> 0]

Returned(x, y) == [quantityReturned |-> x, quantityNotReturnable |-> y]

NoNeed(status) == NeedRow(status, 0, 0)
NoResource(status) == ResourceRow(status, 0, 0)
NoAllocation(status) == AllocationRow(status, Null, Null, Null, Null, 0)
NoReturns == Returned(0, 0)

NeedTable == [status : NeedStatus \cup NoRow, quantityNeeded : Nat, quantityFulfilled : Nat]
ResourceTable == [status : {"LIVE"} \cup NoRow, quantity : Nat, reservedQuantity : Nat]
AllocationTable ==
    [status : AllocationStatus \cup NoRow, needId : Needs \cup {Null},
     alertId : Alerts \cup {Null}, resourceId : Resources \cup {Null},
     donorOrgId : Orgs \cup {Null}, quantity : Nat,
     quantityReturned : Nat, quantityNotReturnable : Nat]
ReturnTable == [quantityReturned : Nat, quantityNotReturnable : Nat]

AlertExists(al) == alert[al] \in AlertStatus
NeedExists(n) == need[n].status \in NeedStatus
ResourceExists(r) == resource[r].status = "LIVE"
AllocationExists(a) == allocation[a].status \in AllocationStatus

IsActive(row) == row.status \in ActiveStatus
Outstanding(row) == row.quantity - row.quantityReturned - row.quantityNotReturnable

\* The CHECK constraints of the 20260921220000 migration.
ResourceCheck(row) == 0 <= row.reservedQuantity /\ row.reservedQuantity <= row.quantity
NeedCheck(row) == 0 <= row.quantityFulfilled /\ row.quantityFulfilled <= row.quantityNeeded
AllocationCheck(row) ==
    /\ row.quantityReturned >= 0 /\ row.quantityNotReturnable >= 0
    /\ row.quantityReturned + row.quantityNotReturnable <= row.quantity

-----------------------------------------------------------------------------
(* lib/allocations.ts *)

Accounted(events) == events.quantityReturned + events.quantityNotReturnable

SumReturnEvents(events, event) ==
    Returned(events.quantityReturned + event.quantityReturned,
             events.quantityNotReturnable + event.quantityNotReturnable)

\* Mutant: a full return is taken for a partial one.
RecalculateAllocationStatusOffByOne(quantity, events, currentStatus) ==
    IF Accounted(events) <= 0 THEN currentStatus
    ELSE IF Accounted(events) <= quantity THEN "PARTIALLY_RETURNED"
    ELSE "RETURNED"

RecalculateAllocationStatus(quantity, events, currentStatus) ==
    IF Accounted(events) <= 0 THEN currentStatus
    ELSE IF Accounted(events) < quantity THEN "PARTIALLY_RETURNED"
    ELSE "RETURNED"

\* What one return event takes out of its resource's two counters.
ResourceAfterReturn(row, released, writtenOff) ==
    [row EXCEPT !.reservedQuantity = @ - released, !.quantity = @ - writtenOff]

\* The units of need n that the allocation rows cover.
Covered(rows, n) ==
    Total([a \in Allocations |->
              IF rows[a].needId = n /\ rows[a].status # "CANCELLED" THEN rows[a].quantity ELSE 0])

RecalculateNeedStatus(needed, fulfilled, currentStatus) ==
    IF currentStatus \in {"CLOSED", "CANCELLED"} THEN currentStatus
    ELSE IF fulfilled <= 0 THEN "OPEN"
    ELSE IF fulfilled < needed THEN "PARTIALLY_FULFILLED"
    ELSE "FULFILLED"

\* Mutant: a return may be agreed from any status.
AllowedActorsAnyStatus(current, next) ==
    CASE current = "DELIVERY_AGREED" /\ next = "DELIVERED" -> {"DONOR", "RECIPIENT"}
      [] next = "RETURN_AGREED" -> {"RECIPIENT"}
      [] OTHER -> {}

\* ALLOWED_TRANSITIONS: who may move an allocation by hand.
AllowedActors(current, next) ==
    CASE current = "DELIVERY_AGREED" /\ next = "DELIVERED" -> {"DONOR", "RECIPIENT"}
      [] current = "DELIVERED" /\ next = "RETURN_AGREED" -> {"RECIPIENT"}
      [] OTHER -> {}

-----------------------------------------------------------------------------
(* lib/resourceAuthz.ts *)

IsAdminForGmina(u, g) == u.role = "ADMIN" /\ (u.gmina = Null \/ u.gmina = g)
IsAlertOwnerOrg(u, al) == u.org # Null /\ alertOwner[al] = u.org
IsAllocationDonor(u, row) == u.org # Null /\ row.donorOrgId = u.org
CanManageAlert(u, al) ==
    \/ IsAdminForGmina(u, alertGmina[al])
    \/ u.role = "COORDINATOR" /\ IsAlertOwnerOrg(u, al)
CanManageNeed(u, n) ==
    IsAdminForGmina(u, alertGmina[needAlert[n]]) \/ IsAlertOwnerOrg(u, needAlert[n])
CanManageResource(u, r) ==
    IsAdminForGmina(u, resourceGmina[r]) \/ (u.org # Null /\ resourceOwner[r] = u.org)

-----------------------------------------------------------------------------
(* Alerts and needs *)

\* POST /api/alerts: the owner is the author's organization, if any.
CreateAlert(u, al) ==
    /\ alert[al] = "NEW"
    /\ IsAdminForGmina(u, alertGmina[al]) \/ u.gmina = alertGmina[al]
    /\ alertOwner[al] = u.org
    /\ alert' = [alert EXCEPT ![al] = "ACTIVE"]
    /\ UNCHANGED <<need, resource, allocation, journal>>

\* Mutant: a reopened need starts from nothing.
ReopenedNeedFromZero(row, seen) == NeedRow("OPEN", row.quantityNeeded, 0)

\* Need row, made allocatable again from what was seen of it.
ReopenedNeed(row, seen) ==
    NeedRow(RecalculateNeedStatus(seen.quantityNeeded, seen.covered, "OPEN"),
            row.quantityNeeded, seen.covered)

\* The CLOSED needs that a PATCH to status reopens, and what it sees of each.
Reopening(al, status, seenStatus) ==
    [n \in {m \in Needs : /\ status = "ACTIVE" /\ seenStatus # "ACTIVE"
                          /\ needAlert[m] = al /\ need[m].status = "CLOSED"} |->
        [quantityNeeded |-> need[n].quantityNeeded, covered |-> Covered(allocation, n)]]

InFlight(rows, al) == {a \in Allocations : rows[a].alertId = al /\ IsActive(rows[a])}

\* Mutant: only an ACTIVE alert is protected from the owner's plain cancel.
PatchAlertAcceptsOnceStarted(u, al, status) ==
    /\ AlertExists(al)
    /\ CanManageAlert(u, al)
    /\ status = "CANCELLED" /\ alert[al] = "ACTIVE" /\ IsAlertOwnerOrg(u, al)
          => InFlight(allocation, al) = {}

\* PATCH /api/alerts/[id], the part that carries a status.
PatchAlertAccepts(u, al, status) ==
    /\ AlertExists(al)
    /\ CanManageAlert(u, al)
    /\ status = "CANCELLED" /\ alert[al] # "CANCELLED" /\ IsAlertOwnerOrg(u, al)
          => InFlight(allocation, al) = {}

PatchAlertTx(al, status, reopened) ==
    /\ AlertExists(al)
    /\ alert' = [alert EXCEPT ![al] = status]
    /\ \A n \in DOMAIN reopened : NeedExists(n)
    /\ need' = [n \in Needs |->
          IF n \in DOMAIN reopened THEN ReopenedNeed(need[n], reopened[n]) ELSE need[n]]
    /\ \A n \in Needs : NeedCheck(need'[n])
    /\ UNCHANGED <<resource, allocation, journal>>

PatchAlert(u, al, status) ==
    /\ PatchAlertAccepts(u, al, status)
    /\ PatchAlertTx(al, status, Reopening(al, status, alert[al]))

\* POST /api/alerts/[id]/needs: no look at the alert's status.
CreateNeed(u, n, q) ==
    /\ need[n].status = "NEW"
    /\ AlertExists(needAlert[n])
    /\ CanManageNeed(u, n)
    /\ need' = [need EXCEPT ![n] = NeedRow("OPEN", q, 0)]
    /\ UNCHANGED <<alert, resource, allocation, journal>>

\* PATCH /api/needs/[id]: quantityNeeded and status are both optional (Null),
\* and the status is written as given, never recomputed.
PatchNeedAccepts(u, n, q, status) ==
    /\ NeedExists(n)
    /\ CanManageNeed(u, n)
    /\ q # Null \/ status # Null
    /\ q # Null => q >= need[n].quantityFulfilled

\* Mutant: an edit without a status reopens the need.
PatchNeedTxReopens(n, q, status) ==
    /\ NeedExists(n)
    /\ need' = [need EXCEPT ![n] =
          NeedRow(IF status = Null THEN "OPEN" ELSE status,
                  IF q = Null THEN @.quantityNeeded ELSE q, @.quantityFulfilled)]
    /\ NeedCheck(need'[n])
    /\ UNCHANGED <<alert, resource, allocation, journal>>

PatchNeedTx(n, q, status) ==
    /\ NeedExists(n)
    /\ need' = [need EXCEPT ![n] =
          NeedRow(IF status = Null THEN @.status ELSE status,
                  IF q = Null THEN @.quantityNeeded ELSE q, @.quantityFulfilled)]
    /\ NeedCheck(need'[n])
    /\ UNCHANGED <<alert, resource, allocation, journal>>

PatchNeed(u, n, q, status) == PatchNeedAccepts(u, n, q, status) /\ PatchNeedTx(n, q, status)

\* Mutant: only the allocations still to be delivered keep a need alive.
DeleteNeedAcceptsDelivered(u, n) ==
    /\ NeedExists(n)
    /\ CanManageNeed(u, n)
    /\ \A a \in Allocations : allocation[a].needId = n => allocation[a].status # "DELIVERY_AGREED"

\* DELETE /api/needs/[id]: refused while an allocation is in flight; the
\* settled allocations keep their rows with needId set to NULL.
DeleteNeedAccepts(u, n) ==
    /\ NeedExists(n)
    /\ CanManageNeed(u, n)
    /\ \A a \in Allocations : allocation[a].needId = n => ~IsActive(allocation[a])

DeleteNeedTx(n) ==
    /\ NeedExists(n)
    /\ need' = [need EXCEPT ![n] = NoNeed("GONE")]
    /\ allocation' = [a \in Allocations |->
          IF allocation[a].needId = n THEN [allocation[a] EXCEPT !.needId = Null] ELSE allocation[a]]
    /\ UNCHANGED <<alert, resource, journal>>

DeleteNeed(u, n) == DeleteNeedAccepts(u, n) /\ DeleteNeedTx(n)

-----------------------------------------------------------------------------
(* Resources *)

\* POST /api/resources: the owner is the caller's own organization.
CreateResource(u, r, q) ==
    /\ resource[r].status = "NEW"
    /\ u.org # Null /\ resourceOwner[r] = u.org
    /\ resource' = [resource EXCEPT ![r] = ResourceRow("LIVE", q, 0)]
    /\ UNCHANGED <<alert, need, allocation, journal>>

\* PATCH /api/resources/[id], the part that carries a quantity.
PatchResourceAccepts(u, r, q) ==
    /\ ResourceExists(r)
    /\ CanManageResource(u, r)
    /\ q >= resource[r].reservedQuantity

\* Mutant: a new quantity starts a new stock.
PatchResourceTxResets(r, q) ==
    /\ ResourceExists(r)
    /\ resource' = [resource EXCEPT ![r] = ResourceRow("LIVE", q, 0)]
    /\ UNCHANGED <<alert, need, allocation, journal>>

PatchResourceTx(r, q) ==
    /\ ResourceExists(r)
    /\ resource' = [resource EXCEPT ![r].quantity = q]
    /\ ResourceCheck(resource'[r])
    /\ UNCHANGED <<alert, need, allocation, journal>>

PatchResource(u, r, q) == PatchResourceAccepts(u, r, q) /\ PatchResourceTx(r, q)

\* Mutant: an empty shelf, not an empty reservation, lets a resource go.
DeleteResourceAcceptsEmptyShelf(u, r) ==
    /\ ResourceExists(r)
    /\ CanManageResource(u, r)
    /\ resource[r].quantity <= resource[r].reservedQuantity

\* DELETE /api/resources/[id]: resourceId of its allocations becomes NULL.
DeleteResourceAccepts(u, r) ==
    /\ ResourceExists(r)
    /\ CanManageResource(u, r)
    /\ resource[r].reservedQuantity <= 0

DeleteResourceTx(r) ==
    /\ ResourceExists(r)
    /\ resource' = [resource EXCEPT ![r] = NoResource("GONE")]
    /\ allocation' = [a \in Allocations |->
          IF allocation[a].resourceId = r THEN [allocation[a] EXCEPT !.resourceId = Null]
          ELSE allocation[a]]
    /\ UNCHANGED <<alert, need, journal>>

DeleteResource(u, r) == DeleteResourceAccepts(u, r) /\ DeleteResourceTx(r)

-----------------------------------------------------------------------------
(* Allocations *)

\* POST /api/alerts/[id]/allocations
AllocateAccepts(u, n, r, q) ==
    /\ u.org # Null
    /\ AlertExists(needAlert[n]) /\ alert[needAlert[n]] \notin {"RESOLVED", "CANCELLED"}
    /\ NeedExists(n) /\ need[n].status \notin {"CLOSED", "CANCELLED"}
    /\ q <= need[n].quantityNeeded - need[n].quantityFulfilled
    /\ ResourceExists(r) /\ resourceOwner[r] = u.org
    /\ q <= resource[r].quantity - resource[r].reservedQuantity

\* The two conditional updates, the new row, then the need recomputed from
\* its allocation rows, but from the quantityNeeded and status seen earlier.
AllocateTx(u, n, r, a, q, seenNeed, seenResource) ==
    /\ allocation[a].status = "NEW"
    /\ ResourceExists(r) /\ resource[r].reservedQuantity <= seenResource.quantity - q
    /\ NeedExists(n) /\ need[n].status \notin {"CLOSED", "CANCELLED"}
    /\ need[n].quantityFulfilled <= seenNeed.quantityNeeded - q
    /\ need[n].quantityFulfilled + q <= need[n].quantityNeeded
    /\ resource' = [resource EXCEPT ![r].reservedQuantity = @ + q]
    /\ ResourceCheck(resource'[r])
    /\ allocation' = [allocation EXCEPT ![a] =
          AllocationRow("DELIVERY_AGREED", n, needAlert[n], r, u.org, q)]
    /\ LET covered == Covered(allocation', n) IN
       need' = [need EXCEPT ![n] =
          NeedRow(RecalculateNeedStatus(seenNeed.quantityNeeded, covered, seenNeed.status),
                  @.quantityNeeded, covered)]
    /\ NeedCheck(need'[n])
    /\ UNCHANGED <<alert, journal>>

Allocate(u, n, r, a, q) ==
    AllocateAccepts(u, n, r, q) /\ AllocateTx(u, n, r, a, q, need[n], resource[r])

\* PATCH /api/allocations/[id]: the write is unconditional.
AdvanceAccepts(u, a, next) ==
    LET row == allocation[a]
        roles == {actor \in {"DONOR", "RECIPIENT"} :
                     IF actor = "DONOR" THEN IsAllocationDonor(u, row)
                     ELSE IsAlertOwnerOrg(u, row.alertId)}
    IN  /\ AllocationExists(a)
        /\ AllowedActors(row.status, next) # {}
        /\ \/ IsAdminForGmina(u, alertGmina[row.alertId])
           \/ AllowedActors(row.status, next) \cap roles # {}

AdvanceTx(a, next) ==
    /\ AllocationExists(a)
    /\ allocation' = [allocation EXCEPT ![a].status = next]
    /\ UNCHANGED <<alert, need, resource, journal>>

Advance(u, a, next) == AdvanceAccepts(u, a, next) /\ AdvanceTx(a, next)

-----------------------------------------------------------------------------
(* Returns.  A decision says how many units came back and how many never   *)
(* will; both forms that record one apply it the same way.                 *)

Decisions ==
    {d \in [quantityReturned : 0 .. MaxQuantity, quantityNotReturnable : 0 .. MaxQuantity] :
        Accounted(d) \in 1 .. MaxQuantity}

\* Allocation row a after its journal became events.
SettledRow(row, events, seenStatus) ==
    [row EXCEPT !.quantityReturned = events.quantityReturned,
                !.quantityNotReturnable = events.quantityNotReturnable,
                !.status = RecalculateAllocationStatus(row.quantity, events, seenStatus)]

\* POST /api/allocations/[id]/return-events
RecordReturnAccepts(u, a, d) ==
    LET row == allocation[a] IN
    /\ row.status \in {"RETURN_AGREED", "PARTIALLY_RETURNED"}
    /\ IsAdminForGmina(u, alertGmina[row.alertId]) \/ IsAlertOwnerOrg(u, row.alertId)
    /\ Accounted(journal[a]) + Accounted(d) <= row.quantity

\* seenEvents is the history the transaction read after inserting its event.
RecordReturnTx(a, d, seenRow, seenEvents) ==
    /\ AllocationExists(a)
    /\ journal' = [journal EXCEPT ![a] = SumReturnEvents(@, d)]
    /\ allocation' = [allocation EXCEPT ![a] = SettledRow(@, seenEvents, seenRow.status)]
    /\ AllocationCheck(allocation'[a])
    /\ seenRow.resourceId # Null => ResourceExists(seenRow.resourceId)
    /\ resource' = [r \in Resources |->
          IF r = seenRow.resourceId
          THEN ResourceAfterReturn(resource[r], Accounted(d), d.quantityNotReturnable)
          ELSE resource[r]]
    /\ \A r \in Resources : ResourceCheck(resource'[r])
    /\ UNCHANGED <<alert, need>>

RecordReturn(u, a, d) ==
    /\ RecordReturnAccepts(u, a, d)
    /\ RecordReturnTx(a, d, allocation[a], SumReturnEvents(journal[a], d))

-----------------------------------------------------------------------------
(* POST /api/alerts/[id]/cancel-with-return: the owner decides on every    *)
(* delivered allocation, the others are withdrawn.                         *)

Delivered(rows, al) == {a \in InFlight(rows, al) : rows[a].status # "DELIVERY_AGREED"}
Undelivered(rows, al) == {a \in InFlight(rows, al) : rows[a].status = "DELIVERY_AGREED"}

CancelAccepts(u, al, d) ==
    /\ AlertExists(al) /\ alert[al] # "CANCELLED"
    /\ IsAlertOwnerOrg(u, al)
    /\ \A a \in DOMAIN d : Accounted(journal[a]) + Accounted(d[a]) <= allocation[a].quantity

\* The part of column f that rows charge to resource r.
OnResource(f, rows, r) ==
    Total([a \in Allocations |-> IF rows[a].resourceId = r THEN f[a] ELSE 0])

CancelTx(al, d, seenRows, seenEvents) ==
    LET withdrawn == Undelivered(seenRows, al)
        released == [a \in Allocations |->
            IF a \in DOMAIN d THEN Accounted(d[a])
            ELSE IF a \in withdrawn THEN seenRows[a].quantity ELSE 0]
        writtenOff == [a \in Allocations |->
            IF a \in DOMAIN d THEN d[a].quantityNotReturnable ELSE 0]
    IN
    /\ AlertExists(al)
    /\ \A a \in DOMAIN d \cup withdrawn :
          /\ AllocationExists(a)
          /\ seenRows[a].resourceId # Null => ResourceExists(seenRows[a].resourceId)
    /\ journal' = [a \in Allocations |->
          IF a \in DOMAIN d THEN SumReturnEvents(journal[a], d[a]) ELSE journal[a]]
    /\ allocation' = [a \in Allocations |->
          IF a \in DOMAIN d
          THEN SettledRow(allocation[a], SumReturnEvents(seenEvents[a], d[a]), seenRows[a].status)
          ELSE IF a \in withdrawn THEN [allocation[a] EXCEPT !.status = "CANCELLED"]
          ELSE allocation[a]]
    /\ \A a \in DOMAIN d : AllocationCheck(allocation'[a])
    /\ resource' = [r \in Resources |->
          ResourceAfterReturn(resource[r], OnResource(released, seenRows, r),
                              OnResource(writtenOff, seenRows, r))]
    /\ \A r \in Resources : ResourceCheck(resource'[r])
    /\ need' = [n \in Needs |->
          IF needAlert[n] = al /\ NeedExists(n) /\ need[n].status # "CANCELLED"
          THEN NeedRow("CLOSED", need[n].quantityNeeded, Covered(allocation', n))
          ELSE need[n]]
    /\ \A n \in Needs : NeedCheck(need'[n])
    /\ alert' = [alert EXCEPT ![al] = "CANCELLED"]

CancelWithReturn(u, al, d) ==
    CancelAccepts(u, al, d) /\ CancelTx(al, d, allocation, journal)

-----------------------------------------------------------------------------
(* DELETE /api/alerts/[id]: releases what the alert's allocations still    *)
(* hold, then the row goes and its needs, allocations and events with it.  *)

DeleteAlertAccepts(u, al) == AlertExists(al) /\ IsAdminForGmina(u, alertGmina[al])

DeleteAlertTx(al, seenRows) ==
    LET released == [a \in Allocations |->
            IF a \in InFlight(seenRows, al) THEN Outstanding(seenRows[a]) ELSE 0]
        doomed == {a \in Allocations : allocation[a].alertId = al}
    IN
    /\ AlertExists(al)
    /\ \A a \in InFlight(seenRows, al) :
          seenRows[a].resourceId # Null => ResourceExists(seenRows[a].resourceId)
    /\ resource' = [r \in Resources |->
          ResourceAfterReturn(resource[r], OnResource(released, seenRows, r), 0)]
    /\ \A r \in Resources : ResourceCheck(resource'[r])
    /\ alert' = [alert EXCEPT ![al] = "GONE"]
    /\ need' = [n \in Needs |->
          IF needAlert[n] = al /\ NeedExists(n) THEN NoNeed("GONE") ELSE need[n]]
    /\ allocation' = [a \in Allocations |->
          IF a \in doomed THEN NoAllocation("GONE") ELSE allocation[a]]
    /\ journal' = [a \in Allocations |-> IF a \in doomed THEN NoReturns ELSE journal[a]]

DeleteAlert(u, al) == DeleteAlertAccepts(u, al) /\ DeleteAlertTx(al, allocation)

-----------------------------------------------------------------------------
Init ==
    /\ alert = [al \in Alerts |-> "NEW"]
    /\ need = [n \in Needs |-> NoNeed("NEW")]
    /\ resource = [r \in Resources |-> NoResource("NEW")]
    /\ allocation = [a \in Allocations |-> NoAllocation("NEW")]
    /\ journal = [a \in Allocations |-> NoReturns]

Quantity == 1 .. MaxQuantity

AlertNext(u) == \E al \in Alerts :
    \/ CreateAlert(u, al)
    \/ \E status \in AlertStatus : PatchAlert(u, al, status)
    \/ \E d \in [Delivered(allocation, al) -> Decisions] : CancelWithReturn(u, al, d)
    \/ DeleteAlert(u, al)

NeedNext(u) == \E n \in Needs :
    \/ \E q \in Quantity : CreateNeed(u, n, q)
    \/ \E q \in Quantity \cup {Null}, status \in {"CLOSED", "CANCELLED", Null} :
          PatchNeed(u, n, q, status)
    \/ DeleteNeed(u, n)

ResourceNext(u) == \E r \in Resources :
    \/ \E q \in 0 .. MaxStock : CreateResource(u, r, q) \/ PatchResource(u, r, q)
    \/ DeleteResource(u, r)

AllocationNext(u) == \E a \in Allocations :
    \/ \E n \in Needs, r \in Resources, q \in Quantity : Allocate(u, n, r, a, q)
    \/ \E next \in {"DELIVERED", "RETURN_AGREED"} : Advance(u, a, next)
    \/ \E d \in Decisions : RecordReturn(u, a, d)

Next == \E u \in Users : AlertNext(u) \/ NeedNext(u) \/ ResourceNext(u) \/ AllocationNext(u)

Spec == Init /\ [][Next]_vars

-----------------------------------------------------------------------------
(* What the ledger is correct about.                                       *)

\* The units of resource r that allocation a still holds.
Held(rows, r) == [a \in Allocations |->
    IF IsActive(rows[a]) /\ rows[a].resourceId = r THEN Outstanding(rows[a]) ELSE 0]

\* Every row has the columns and the values its table declares, and the
\* CHECK constraints hold.
TypeOK ==
    /\ alert \in [Alerts -> AlertStatus \cup NoRow]
    /\ need \in [Needs -> NeedTable]
    /\ resource \in [Resources -> ResourceTable]
    /\ allocation \in [Allocations -> AllocationTable]
    /\ journal \in [Allocations -> ReturnTable]
    /\ \A r \in Resources : ResourceCheck(resource[r])
    /\ \A n \in Needs : NeedCheck(need[n])
    /\ \A a \in Allocations : AllocationCheck(allocation[a])

\* Resource.reservedQuantity, moved by increments in five handlers, is at all
\* times the number of units its allocations in flight still hold: nothing is
\* promised twice, nothing stays reserved for nobody.
LedgerBalanced ==
    \A r \in Resources : resource[r].reservedQuantity = Total(Held(allocation, r))

\* AlertNeed.quantityFulfilled is the number of units its allocations cover,
\* for every need that can still receive an allocation: "stillNeeded", the cap
\* on the next donation, is the true remainder.
OpenNeedsBalanced ==
    \A n \in Needs : need[n].status \in DerivedNeedStatus =>
        /\ need[n].quantityFulfilled = Covered(allocation, n)
        /\ need[n].status = "OPEN" <=> need[n].quantityFulfilled = 0

\* An allocation's status, its two totals and its return journal tell the same
\* story, whichever of the two return forms wrote them.
StatusMatchesJournal ==
    \A a \in Allocations :
        LET row == allocation[a] IN
        /\ Accounted(row) = Accounted(journal[a])
        /\ row.quantityNotReturnable = journal[a].quantityNotReturnable
        /\ row.status = "RETURNED" => Accounted(row) = row.quantity /\ row.quantity > 0
        /\ row.status = "PARTIALLY_RETURNED" => Accounted(row) \in 1 .. row.quantity - 1
        /\ row.status \notin {"RETURNED", "PARTIALLY_RETURNED"} => Accounted(row) = 0

\* An allocation in flight is never orphaned: its alert, its need and the
\* resource it must be returned to all still exist.
InFlightNeverOrphaned ==
    \A a \in Allocations : IsActive(allocation[a]) =>
        /\ allocation[a].alertId # Null /\ AlertExists(allocation[a].alertId)
        /\ allocation[a].needId # Null /\ NeedExists(allocation[a].needId)
        /\ allocation[a].resourceId # Null /\ ResourceExists(allocation[a].resourceId)

\* RETURNED and CANCELLED are terminal, and what was recorded as returned or
\* written off is never taken back while the row exists.
SettledKept ==
    \A a \in Allocations : allocation'[a].status # "GONE" =>
        /\ allocation[a].status \in {"RETURNED", "CANCELLED"} =>
              allocation'[a].status = allocation[a].status
        /\ allocation'[a].quantityReturned >= allocation[a].quantityReturned
        /\ allocation'[a].quantityNotReturnable >= allocation[a].quantityNotReturnable

\* No handler takes back a settlement (lib/allocations.ts: "terminal either way").
SettledStaysSettled == [][SettledKept]_vars

\* The owner of an alert settles what it received before the alert is
\* CANCELLED: where no outside administrator can reach an alert (an
\* administrator's plain PATCH skips the check), nothing is still promised to
\* it, and nothing delivered is undecided, once it is cancelled.
OnlyOwnerManages(al) ==
    \A u \in Users : IsAdminForGmina(u, alertGmina[al]) => IsAlertOwnerOrg(u, al)

CancelledAlertSettled ==
    \A al \in Alerts : alert[al] = "CANCELLED" /\ OnlyOwnerManages(al) =>
        \A a \in InFlight(allocation, al) : allocation[a].status = "PARTIALLY_RETURNED"
=============================================================================
