------------------------- MODULE ResourceRaces_proofs -------------------------
(***************************************************************************)
(* What the ledger keeps while requests overlap, for any number of clients *)
(* and every workload.  A request reads in one step and writes in another, *)
(* so the invariants speak of the requests under way as well: what each    *)
(* has read, and how much of it is still true.                             *)
(***************************************************************************)
EXTENDS ResourceSettlement_proofs, ResourceRaces

-----------------------------------------------------------------------------
(* What a request under way carries. *)

\* Rows a transaction listed before it writes.
RowsTyped(rows) ==
    rows \in [Allocations -> AllocationTable] /\ \A a \in Allocations : AllocationCheck(rows[a])

RequestTyped(req) ==
    /\ req.op = "Allocate" =>
          /\ req.user \in Users /\ req.need \in Needs /\ req.resource \in Resources
          /\ req.quantity \in Quantity
          /\ req.seenNeed.quantityNeeded \in Nat /\ req.seenNeed.status \in DerivedNeedStatus
          /\ req.seenResource.quantity \in Nat
    /\ req.op = "Advance" =>
          req.allocation \in Allocations /\ req.next \in {"DELIVERED", "RETURN_AGREED"}
    /\ req.op = "RecordReturn" =>
          /\ req.allocation \in Allocations /\ req.decision \in Decisions
          /\ req.seenRow.status \in {"RETURN_AGREED", "PARTIALLY_RETURNED"}
          /\ req.seenRow.resourceId \in Resources \cup {Null}
          /\ "seenEvents" \in DOMAIN req =>
                req.seenEvents \in ReturnTable /\ Accounted(req.seenEvents) > 0
    /\ req.op = "Cancel" =>
          /\ req.alert \in Alerts /\ RowsTyped(req.seenRows)
          /\ req.decisions \in [Delivered(req.seenRows, req.alert) -> Decisions]
          /\ "seenEvents" \in DOMAIN req => req.seenEvents \in [Allocations -> ReturnTable]
    /\ req.op = "DeleteAlert" =>
          req.alert \in Alerts /\ ("seenRows" \in DOMAIN req => RowsTyped(req.seenRows))
    /\ req.op = "PatchAlert" =>
          /\ req.alert \in Alerts /\ req.status \in AlertStatus
          /\ "reopened" \in DOMAIN req =>
                \A n \in DOMAIN req.reopened : req.reopened[n].covered \in Nat
    /\ req.op = "PatchNeed" =>
          /\ req.need \in Needs /\ req.quantity \in Quantity \cup {Null}
          /\ req.status \in {"CLOSED", "CANCELLED", Null}
    /\ req.op = "PatchResource" => req.resource \in Resources /\ req.quantity \in 0 .. MaxStock
    /\ req.op = "DeleteNeed" => req.need \in Needs
    /\ req.op = "DeleteResource" => req.resource \in Resources

\* A client only has requests under way that its workload lets it send.
Sent(c) == request[c].op \in issues[c] \cup {"Idle"}

RaceTypes ==
    /\ TypeOK
    /\ request = [c \in Clients |-> request[c]]
    /\ \A c \in Clients : RequestTyped(request[c]) /\ Sent(c)

-----------------------------------------------------------------------------
(* What is still true of what it has read. *)

\* The rows listed before are the same allocations of the same alerts, or gone.
Recognised(seen, now) == \A a \in Allocations :
    seen[a].status \in AllocationStatus =>
        \/ now[a].status = "GONE"
        \/ now[a].status \in AllocationStatus /\ now[a].alertId = seen[a].alertId

\* A withdrawn allocation is one of a need that takes no donation any more:
\* a stale transition may bring the row back, but never under an open need.
WithdrawnStayShut == \A a \in Allocations :
    allocation[a].status = "CANCELLED" /\ allocation[a].needId # Null =>
        need[allocation[a].needId].status \notin DerivedNeedStatus

AlertsUnedited == \A c \in Clients : "PatchAlert" \notin issues[c]

RaceNeedInv ==
    /\ NeedInv /\ WithdrawnStayShut
    /\ \A c \in Clients : Serving(c, "Cancel") => Recognised(request[c].seenRows, allocation)

\* A resource a row was seen on is the one it is still on, or it is gone.
Detached(seen, now, stock) ==
    seen # now => now = Null /\ seen \in Resources /\ stock[seen].status # "LIVE"

\* A row is as it was seen, but for a need or a resource that was deleted.
SameRow(seen, now, stock) ==
    /\ now.status = seen.status /\ now.alertId = seen.alertId
    /\ now.quantity = seen.quantity
    /\ now.quantityReturned = seen.quantityReturned
    /\ now.quantityNotReturnable = seen.quantityNotReturnable
    /\ Detached(seen.resourceId, now.resourceId, stock)

\* The rows seen in flight still are as they were.
Remembered(seen, now, stock) == \A a \in Allocations :
    IsActive(seen[a]) => SameRow(seen[a], now[a], stock)

AdvanceFresh(req, rows) == req.op = "Advance" =>
    AllowedActors(rows[req.allocation].status, req.next) # {}

RecordReturnFresh(req, rows, stock, events) == req.op = "RecordReturn" =>
    LET a == req.allocation IN
    /\ rows[a].status = req.seenRow.status
    /\ Detached(req.seenRow.resourceId, rows[a].resourceId, stock)
    /\ Accounted(events[a]) + Accounted(req.decision) <= rows[a].quantity
    /\ "seenEvents" \in DOMAIN req => req.seenEvents = SumReturnEvents(events[a], req.decision)

CancelFresh(req, rows, stock, events) == req.op = "Cancel" =>
    /\ Remembered(req.seenRows, rows, stock)
    /\ \A a \in DOMAIN req.decisions :
          Accounted(events[a]) + Accounted(req.decisions[a]) <= rows[a].quantity
    /\ "seenEvents" \in DOMAIN req => req.seenEvents = events

DeleteAlertFresh(req, rows, stock) == req.op = "DeleteAlert" /\ "seenRows" \in DOMAIN req =>
    /\ Remembered(req.seenRows, rows, stock)
    /\ InFlight(req.seenRows, req.alert) = InFlight(rows, req.alert)

\* All a settling request has read still holds.
Fresh(req, rows, stock, events) ==
    /\ AdvanceFresh(req, rows) /\ RecordReturnFresh(req, rows, stock, events)
    /\ CancelFresh(req, rows, stock, events) /\ DeleteAlertFresh(req, rows, stock)

RaceLedgerInv ==
    LedgerInv /\ \A c \in Clients : Fresh(request[c], allocation, resource, journal)

NeedsHaveAlerts == \A n \in Needs : NeedExists(n) => AlertExists(needAlert[n])

\* A delete checked beforehand would still be accepted.
DeleteFresh(req, rows, stock) ==
    /\ req.op = "DeleteNeed" =>
          \A a \in Allocations : rows[a].needId = req.need => ~IsActive(rows[a])
    /\ req.op = "DeleteResource" => stock[req.resource].reservedQuantity <= 0

RaceFlightInv ==
    /\ FlightInv
    /\ NeedsHaveAlerts
    /\ \A c \in Clients : DeleteFresh(request[c], allocation, resource)

-----------------------------------------------------------------------------
(* Every table stays typed and within its CHECKs, whatever overlaps: the    *)
(* constraints are checked on the values written, not on the ones read.     *)

\* A settled row that passes its CHECK is a row of the table.
LEMMA SettledRowTyped ==
    ASSUME NEW row \in AllocationTable, NEW events \in ReturnTable,
           NEW status \in AllocationStatus
    PROVE  SettledRow(row, events, status) \in AllocationTable
<1>1. RecalculateAllocationStatus(row.quantity, events, status) \in AllocationStatus
  BY DEF RecalculateAllocationStatus, AllocationStatus, ActiveStatus
<1>2. events.quantityReturned \in Nat /\ events.quantityNotReturnable \in Nat
  BY DEF ReturnTable
<1>3. QED
  BY <1>1, <1>2 DEF SettledRow, AllocationTable

\* A journal with one more decision is a journal.
LEMMA SummedEventsTyped ==
    ASSUME NEW events \in ReturnTable, NEW d \in Decisions
    PROVE  /\ SumReturnEvents(events, d) \in ReturnTable
           /\ Accounted(SumReturnEvents(events, d)) > 0
BY DecisionsAreTyped DEF ReturnTable, SumReturnEvents, Returned, Accounted

LEMMA RecordReturnTypes ==
    ASSUME TypeOK, NEW a \in Allocations, NEW d \in Decisions, NEW seenRow,
           seenRow.status \in AllocationStatus, NEW seenEvents \in ReturnTable,
           RecordReturnTx(a, d, seenRow, seenEvents)
    PROVE  TypeOK'
<1>1. /\ allocation' = [allocation EXCEPT ![a] = SettledRow(allocation[a], seenEvents, seenRow.status)]
      /\ AllocationCheck(allocation'[a])
      /\ journal' = [journal EXCEPT ![a] = SumReturnEvents(journal[a], d)]
      /\ resource' = [r \in Resources |->
            IF r = seenRow.resourceId
            THEN ResourceAfterReturn(resource[r], Accounted(d), d.quantityNotReturnable)
            ELSE resource[r]]
      /\ \A r \in Resources : ResourceCheck(resource'[r])
      /\ UNCHANGED <<alert, need>>
  BY DEF RecordReturnTx
<1>2. allocation[a] \in AllocationTable /\ journal[a] \in ReturnTable
  BY DEF TypeOK
<1>3. SettledRow(allocation[a], seenEvents, seenRow.status) \in AllocationTable
  BY <1>2, SettledRowTyped
<1>4. /\ allocation' \in [Allocations -> AllocationTable]
      /\ \A b \in Allocations : AllocationCheck(allocation'[b])
  BY <1>1, <1>3 DEF TypeOK
<1>5. journal' \in [Allocations -> ReturnTable]
  BY <1>1, <1>2, SummedEventsTyped DEF TypeOK
<1>6. Accounted(d) \in Nat /\ d.quantityNotReturnable \in Nat
  BY DecisionsAreTyped
<1>7. \A r \in Resources : resource'[r] \in ResourceTable
  <2> TAKE r \in Resources
  <2>1. resource[r] \in ResourceTable
    BY DEF TypeOK
  <2>2. CASE r = seenRow.resourceId
    <3>1. resource'[r] = ResourceAfterReturn(resource[r], Accounted(d), d.quantityNotReturnable)
      BY <1>1, <2>2
    <3>2. QED
      BY <1>1, <1>6, <2>1, <3>1, ReleasedResource
  <2>3. CASE r # seenRow.resourceId
    BY <1>1, <2>1, <2>3
  <2>4. QED
    BY <2>2, <2>3
<1>8. resource' \in [Resources -> ResourceTable]
  BY <1>1, <1>7
<1>9. QED
  BY <1>1, <1>4, <1>5, <1>8 DEF TypeOK

LEMMA CancelTypes ==
    ASSUME TypeOK, NEW al \in Alerts, NEW rows, RowsTyped(rows),
           NEW d \in [Delivered(rows, al) -> Decisions],
           NEW events \in [Allocations -> ReturnTable], CancelTx(al, d, rows, events)
    PROVE  TypeOK'
<1> DEFINE withdrawn == Undelivered(rows, al)
           released == [a \in Allocations |->
              IF a \in DOMAIN d THEN Accounted(d[a])
              ELSE IF a \in withdrawn THEN rows[a].quantity ELSE 0]
           writtenOff == [a \in Allocations |->
              IF a \in DOMAIN d THEN d[a].quantityNotReturnable ELSE 0]
<1>1. /\ journal' = [a \in Allocations |->
            IF a \in DOMAIN d THEN SumReturnEvents(journal[a], d[a]) ELSE journal[a]]
      /\ allocation' = [a \in Allocations |->
            IF a \in DOMAIN d
            THEN SettledRow(allocation[a], SumReturnEvents(events[a], d[a]), rows[a].status)
            ELSE IF a \in withdrawn THEN [allocation[a] EXCEPT !.status = "CANCELLED"]
            ELSE allocation[a]]
      /\ \A a \in DOMAIN d : AllocationCheck(allocation'[a])
      /\ resource' = [r \in Resources |->
            ResourceAfterReturn(resource[r], OnResource(released, rows, r),
                                OnResource(writtenOff, rows, r))]
      /\ \A r \in Resources : ResourceCheck(resource'[r])
      /\ need' = [n \in Needs |->
            IF needAlert[n] = al /\ NeedExists(n) /\ need[n].status # "CANCELLED"
            THEN NeedRow("CLOSED", need[n].quantityNeeded, Covered(allocation', n))
            ELSE need[n]]
      /\ \A n \in Needs : NeedCheck(need'[n])
      /\ alert' = [alert EXCEPT ![al] = "CANCELLED"]
  BY DEF CancelTx
<1>2. \A a \in DOMAIN d : a \in Allocations /\ d[a] \in Decisions /\ rows[a].status \in AllocationStatus
  BY DEF Delivered, InFlight, IsActive, AllocationStatus
<1>3. \A a \in Allocations : rows[a].quantity \in Nat
  BY DEF RowsTyped, AllocationTable
<1>4. released \in [Allocations -> Nat] /\ writtenOff \in [Allocations -> Nat]
  BY <1>2, <1>3, DecisionsAreTyped
<1> HIDE DEF released, writtenOff, withdrawn
<1>5. ASSUME NEW a \in Allocations
      PROVE  /\ allocation'[a] \in AllocationTable /\ AllocationCheck(allocation'[a])
             /\ journal'[a] \in ReturnTable
  <2>1. allocation[a] \in AllocationTable /\ AllocationCheck(allocation[a]) /\ journal[a] \in ReturnTable
    BY DEF TypeOK
  <2>2. CASE a \in DOMAIN d
    <3>1. SumReturnEvents(events[a], d[a]) \in ReturnTable /\ SumReturnEvents(journal[a], d[a]) \in ReturnTable
      BY <1>2, <2>1, <2>2, SummedEventsTyped
    <3>2. SettledRow(allocation[a], SumReturnEvents(events[a], d[a]), rows[a].status) \in AllocationTable
      BY <1>2, <2>1, <2>2, <3>1, SettledRowTyped
    <3>3. QED
      BY <1>1, <2>2, <3>1, <3>2
  <2>3. CASE a \notin DOMAIN d /\ a \in withdrawn
    <3>1. allocation'[a] = [allocation[a] EXCEPT !.status = "CANCELLED"] /\ journal'[a] = journal[a]
      BY <1>1, <2>3
    <3>2. QED
      BY <2>1, <3>1 DEF AllocationTable, AllocationStatus, AllocationCheck
  <2>4. CASE a \notin DOMAIN d /\ a \notin withdrawn
    BY <1>1, <2>1, <2>4
  <2>5. QED
    BY <2>2, <2>3, <2>4
<1>6. /\ allocation' \in [Allocations -> AllocationTable]
      /\ \A a \in Allocations : AllocationCheck(allocation'[a])
      /\ journal' \in [Allocations -> ReturnTable]
  BY <1>1, <1>5
<1>7. \A r \in Resources : resource'[r] \in ResourceTable
  BY <1>1, <1>4, OnResourceIsNat, ReleasedResource DEF TypeOK
<1>8. resource' \in [Resources -> ResourceTable]
  BY <1>1, <1>7
<1>9. \A n \in Needs : need'[n] \in NeedTable
  <2>1. \A n \in Needs : Covered(allocation', n) \in Nat
    BY <1>6, CoveredIsNat
  <2>2. \A n \in Needs : need[n] \in NeedTable /\ need[n].quantityNeeded \in Nat
    BY DEF TypeOK, NeedTable
  <2>3. "CLOSED" \in NeedStatus \cup NoRow
    BY DEF NeedStatus
  <2>4. QED
    BY <1>1, <2>1, <2>2, <2>3, RowsAreTyped
<1>10. need' \in [Needs -> NeedTable]
  BY <1>1, <1>9
<1>11. alert' \in [Alerts -> AlertStatus \cup NoRow]
  BY <1>1 DEF TypeOK, AlertStatus
<1>12. QED
  BY <1>1, <1>6, <1>8, <1>10, <1>11 DEF TypeOK

LEMMA DeleteAlertTypes ==
    ASSUME TypeOK, NEW al \in Alerts, NEW rows, RowsTyped(rows), DeleteAlertTx(al, rows)
    PROVE  TypeOK'
<1> DEFINE released == [a \in Allocations |->
              IF a \in InFlight(rows, al) THEN Outstanding(rows[a]) ELSE 0]
           doomed == {a \in Allocations : allocation[a].alertId = al}
<1>1. /\ resource' = [r \in Resources |->
            ResourceAfterReturn(resource[r], OnResource(released, rows, r), 0)]
      /\ \A r \in Resources : ResourceCheck(resource'[r])
      /\ alert' = [alert EXCEPT ![al] = "GONE"]
      /\ need' = [n \in Needs |->
            IF needAlert[n] = al /\ NeedExists(n) THEN NoNeed("GONE") ELSE need[n]]
      /\ allocation' = [a \in Allocations |->
            IF a \in doomed THEN NoAllocation("GONE") ELSE allocation[a]]
      /\ journal' = [a \in Allocations |-> IF a \in doomed THEN NoReturns ELSE journal[a]]
  BY DEF DeleteAlertTx
<1>2. \A a \in Allocations : Outstanding(rows[a]) \in Nat
  BY DEF RowsTyped, AllocationTable, AllocationCheck, Outstanding
<1>3. released \in [Allocations -> Nat]
  BY <1>2
<1>4. "GONE" \in NoRow
  BY DEF NoRow
<1> HIDE DEF released, doomed
<1>5. \A r \in Resources : resource'[r] \in ResourceTable
  BY <1>1, <1>3, OnResourceIsNat, ReleasedResource DEF TypeOK
<1>6. resource' \in [Resources -> ResourceTable]
  BY <1>1, <1>5
<1>7. /\ allocation' \in [Allocations -> AllocationTable]
      /\ \A a \in Allocations : AllocationCheck(allocation'[a])
  BY <1>1, <1>4, BlankRows DEF TypeOK
<1>8. journal' \in [Allocations -> ReturnTable]
  BY <1>1, <1>4, BlankRows DEF TypeOK
<1>9. need' \in [Needs -> NeedTable] /\ \A n \in Needs : NeedCheck(need'[n])
  BY <1>1, <1>4, BlankRows DEF TypeOK
<1>10. alert' \in [Alerts -> AlertStatus \cup NoRow]
  BY <1>1, <1>4 DEF TypeOK
<1>11. QED
  BY <1>1, <1>6, <1>7, <1>8, <1>9, <1>10 DEF TypeOK

-----------------------------------------------------------------------------
(* The requests stay typed. *)

\* A step of client c that only puts a typed request in its place.
Prepares(c, req) ==
    /\ request' = [request EXCEPT ![c] = req]
    /\ RequestTyped(req) /\ req.op \in issues[c]
    /\ UNCHANGED vars

LEMMA IdleTyped == RequestTyped(Idle)
BY DEF Idle, RequestTyped

LEMMA BeginPrepares ==
    ASSUME RaceTypes, NEW c \in Clients, Begin(c)
    PROVE  request[c] = Idle /\ \E req : Prepares(c, req)
<1>1. need \in [Needs -> NeedTable] /\ resource \in [Resources -> ResourceTable]
      /\ RowsTyped(allocation)
  BY DEF RaceTypes, TypeOK, RowsTyped
<1>2. CASE BeginAllocate(c)
  <2>1. PICK u \in Users, n \in Needs, r \in Resources, q \in Quantity :
          /\ AllocateAccepts(u, n, r, q)
          /\ Start(c, [op |-> "Allocate", user |-> u, need |-> n, resource |-> r, quantity |-> q,
                 seenNeed |-> [quantityNeeded |-> need[n].quantityNeeded, status |-> need[n].status],
                 seenResource |-> [quantity |-> resource[r].quantity]])
    BY <1>2 DEF BeginAllocate
  <2> DEFINE seenNeed == [quantityNeeded |-> need[n].quantityNeeded, status |-> need[n].status]
             seenResource == [quantity |-> resource[r].quantity]
             req == [op |-> "Allocate", user |-> u, need |-> n, resource |-> r, quantity |-> q,
                     seenNeed |-> seenNeed, seenResource |-> seenResource]
  <2>2. /\ need[n].quantityNeeded \in Nat /\ need[n].status \in DerivedNeedStatus
        /\ resource[r].quantity \in Nat
    BY <1>1, <2>1 DEF NeedTable, ResourceTable, AllocateAccepts, NeedExists, NeedStatus
  <2>3. /\ seenNeed.quantityNeeded \in Nat /\ seenNeed.status \in DerivedNeedStatus
        /\ seenResource.quantity \in Nat
    BY <2>2
  <2> HIDE DEF seenNeed, seenResource
  <2>4. RequestTyped(req)
    BY <2>3 DEF RequestTyped
  <2>5. Start(c, req)
    BY <2>1 DEF seenNeed, seenResource
  <2>6. QED
    BY <2>4, <2>5 DEF Start, Prepares
<1>3. CASE BeginAdvance(c)
  <2>1. PICK u \in Users, a \in Allocations, next \in {"DELIVERED", "RETURN_AGREED"} :
          Start(c, [op |-> "Advance", allocation |-> a, next |-> next])
    BY <1>3 DEF BeginAdvance
  <2>2. RequestTyped([op |-> "Advance", allocation |-> a, next |-> next])
    BY DEF RequestTyped
  <2>3. QED
    BY <2>1, <2>2 DEF Start, Prepares
<1>4. CASE BeginRecordReturn(c)
  <2>1. PICK u \in Users, a \in Allocations, d \in Decisions :
          /\ RecordReturnAccepts(u, a, d)
          /\ Start(c, [op |-> "RecordReturn", allocation |-> a, decision |-> d,
                       seenRow |-> [status |-> allocation[a].status,
                                    resourceId |-> allocation[a].resourceId]])
    BY <1>4 DEF BeginRecordReturn
  <2> DEFINE seenRow == [status |-> allocation[a].status, resourceId |-> allocation[a].resourceId]
             req == [op |-> "RecordReturn", allocation |-> a, decision |-> d, seenRow |-> seenRow]
  <2>2. /\ seenRow.status \in {"RETURN_AGREED", "PARTIALLY_RETURNED"}
        /\ seenRow.resourceId \in Resources \cup {Null}
    BY <1>1, <2>1 DEF RowsTyped, AllocationTable, RecordReturnAccepts
  <2> HIDE DEF seenRow
  <2>3. RequestTyped(req)
    BY <2>2 DEF RequestTyped
  <2>4. Start(c, req)
    BY <2>1 DEF seenRow
  <2>5. QED
    BY <2>3, <2>4 DEF Start, Prepares
<1>5. CASE BeginCancel(c)
  <2>1. PICK u \in Users, al \in Alerts : \E d \in [Delivered(allocation, al) -> Decisions] :
          Start(c, [op |-> "Cancel", alert |-> al, decisions |-> d, seenRows |-> allocation])
    BY <1>5 DEF BeginCancel
  <2>2. PICK d \in [Delivered(allocation, al) -> Decisions] :
          Start(c, [op |-> "Cancel", alert |-> al, decisions |-> d, seenRows |-> allocation])
    BY <2>1
  <2>3. RequestTyped([op |-> "Cancel", alert |-> al, decisions |-> d, seenRows |-> allocation])
    BY <1>1 DEF RequestTyped
  <2>4. QED
    BY <2>2, <2>3 DEF Start, Prepares
<1>6. CASE BeginPatchAlert(c)
  <2>1. PICK u \in Users, al \in Alerts, status \in AlertStatus :
          Start(c, [op |-> "PatchAlert", alert |-> al, status |-> status, seenStatus |-> alert[al]])
    BY <1>6 DEF BeginPatchAlert
  <2>2. RequestTyped([op |-> "PatchAlert", alert |-> al, status |-> status, seenStatus |-> alert[al]])
    BY DEF RequestTyped
  <2>3. QED
    BY <2>1, <2>2 DEF Start, Prepares
<1>7. CASE BeginDeleteAlert(c)
  <2>1. PICK u \in Users, al \in Alerts : Start(c, [op |-> "DeleteAlert", alert |-> al])
    BY <1>7 DEF BeginDeleteAlert
  <2>2. RequestTyped([op |-> "DeleteAlert", alert |-> al])
    BY DEF RequestTyped
  <2>3. QED
    BY <2>1, <2>2 DEF Start, Prepares
<1>8. CASE BeginPatchNeed(c)
  <2>1. PICK u \in Users, n \in Needs, q \in Quantity \cup {Null},
             status \in {"CLOSED", "CANCELLED", Null} :
          Start(c, [op |-> "PatchNeed", need |-> n, quantity |-> q, status |-> status])
    BY <1>8 DEF BeginPatchNeed
  <2>2. RequestTyped([op |-> "PatchNeed", need |-> n, quantity |-> q, status |-> status])
    BY DEF RequestTyped
  <2>3. QED
    BY <2>1, <2>2 DEF Start, Prepares
<1>9. CASE BeginDeleteNeed(c)
  <2>1. PICK u \in Users, n \in Needs : Start(c, [op |-> "DeleteNeed", need |-> n])
    BY <1>9 DEF BeginDeleteNeed
  <2>2. RequestTyped([op |-> "DeleteNeed", need |-> n])
    BY DEF RequestTyped
  <2>3. QED
    BY <2>1, <2>2 DEF Start, Prepares
<1>10. CASE BeginPatchResource(c)
  <2>1. PICK u \in Users, r \in Resources, q \in 0 .. MaxStock :
          Start(c, [op |-> "PatchResource", resource |-> r, quantity |-> q])
    BY <1>10 DEF BeginPatchResource
  <2>2. RequestTyped([op |-> "PatchResource", resource |-> r, quantity |-> q])
    BY DEF RequestTyped
  <2>3. QED
    BY <2>1, <2>2 DEF Start, Prepares
<1>11. CASE BeginDeleteResource(c)
  <2>1. PICK u \in Users, r \in Resources : Start(c, [op |-> "DeleteResource", resource |-> r])
    BY <1>11 DEF BeginDeleteResource
  <2>2. RequestTyped([op |-> "DeleteResource", resource |-> r])
    BY DEF RequestTyped
  <2>3. QED
    BY <2>1, <2>2 DEF Start, Prepares
<1>12. QED
  BY <1>2, <1>3, <1>4, <1>5, <1>6, <1>7, <1>8, <1>9, <1>10, <1>11 DEF Begin

LEMMA ReadPrepares ==
    ASSUME RaceTypes, NEW c \in Clients, Read(c)
    PROVE  \E req : Prepares(c, req) /\ req.op = request[c].op
<1> DEFINE old == request[c]
<1>1. /\ RequestTyped(old) /\ old.op \in issues[c] \cup {"Idle"}
      /\ TypeOK /\ RowsTyped(allocation) /\ journal \in [Allocations -> ReturnTable]
  BY DEF RaceTypes, TypeOK, RowsTyped, Sent
<1>2. CASE ReadReturnEvents(c)
  <2> DEFINE events == SumReturnEvents(journal[old.allocation], old.decision)
             req == [op |-> "RecordReturn", allocation |-> old.allocation,
                     decision |-> old.decision, seenRow |-> old.seenRow, seenEvents |-> events]
  <2>1. /\ old.op = "RecordReturn"
        /\ request' = [request EXCEPT ![c] = req] /\ UNCHANGED vars
    BY <1>2 DEF ReadReturnEvents, Serving
  <2>2. /\ old.allocation \in Allocations /\ old.decision \in Decisions
        /\ old.seenRow.status \in {"RETURN_AGREED", "PARTIALLY_RETURNED"}
        /\ old.seenRow.resourceId \in Resources \cup {Null}
    BY <1>1, <2>1 DEF RequestTyped
  <2>3. events \in ReturnTable /\ Accounted(events) > 0
    BY <1>1, <2>2, SummedEventsTyped
  <2> HIDE DEF events
  <2>4. RequestTyped(req)
    BY <2>2, <2>3 DEF RequestTyped
  <2>5. req.op = old.op /\ req.op \in issues[c]
    BY <1>1, <2>1
  <2> HIDE DEF req
  <2>6. QED
    BY <2>1, <2>4, <2>5 DEF Prepares
<1>3. CASE ReadCancelEvents(c)
  <2> DEFINE req == [op |-> "Cancel", alert |-> old.alert, decisions |-> old.decisions,
                     seenRows |-> old.seenRows, seenEvents |-> journal]
  <2>1. /\ old.op = "Cancel"
        /\ request' = [request EXCEPT ![c] = req] /\ UNCHANGED vars
    BY <1>3 DEF ReadCancelEvents, Serving
  <2>2. RequestTyped(req)
    BY <1>1, <2>1 DEF RequestTyped
  <2>3. req.op = old.op /\ req.op \in issues[c]
    BY <1>1, <2>1
  <2> HIDE DEF req
  <2>4. QED
    BY <2>1, <2>2, <2>3 DEF Prepares
<1>4. CASE ReadDoomedAllocations(c)
  <2> DEFINE req == [op |-> "DeleteAlert", alert |-> old.alert, seenRows |-> allocation]
  <2>1. /\ old.op = "DeleteAlert"
        /\ request' = [request EXCEPT ![c] = req] /\ UNCHANGED vars
    BY <1>4 DEF ReadDoomedAllocations, Serving
  <2>2. RequestTyped(req)
    BY <1>1, <2>1 DEF RequestTyped
  <2>3. req.op = old.op /\ req.op \in issues[c]
    BY <1>1, <2>1
  <2> HIDE DEF req
  <2>4. QED
    BY <2>1, <2>2, <2>3 DEF Prepares
<1>5. CASE ReadClosedNeeds(c)
  <2> DEFINE reopened == Reopening(old.alert, old.status, old.seenStatus)
             req == [op |-> "PatchAlert", alert |-> old.alert, status |-> old.status,
                     reopened |-> reopened]
  <2>1. /\ old.op = "PatchAlert"
        /\ request' = [request EXCEPT ![c] = req] /\ UNCHANGED vars
    BY <1>5 DEF ReadClosedNeeds, Serving
  <2>2. \A n \in DOMAIN reopened : reopened[n].covered \in Nat
    BY <1>1, ReopeningTyped
  <2> HIDE DEF reopened
  <2>3. RequestTyped(req)
    BY <1>1, <2>1, <2>2 DEF RequestTyped
  <2>4. req.op = old.op /\ req.op \in issues[c]
    BY <1>1, <2>1
  <2> HIDE DEF req
  <2>5. QED
    BY <2>1, <2>3, <2>4 DEF Prepares
<1>6. QED
  BY <1>2, <1>3, <1>4, <1>5 DEF Read

\* Whatever a commit writes is typed.
LEMMA CommitTypes ==
    ASSUME RaceTypes, NEW c \in Clients, Commit(c)
    PROVE  TypeOK' /\ Done(c)
<1> DEFINE req == request[c]
<1>1. TypeOK /\ RequestTyped(req)
  BY DEF RaceTypes
<1>2. CASE CommitAllocate(c)
  <2>1. PICK a \in Allocations : AllocateTx(req.user, req.need, req.resource, a, req.quantity,
                                            req.seenNeed, req.seenResource)
    BY <1>2 DEF CommitAllocate
  <2>2. /\ req.user \in Users /\ req.need \in Needs /\ req.resource \in Resources
        /\ req.quantity \in Quantity /\ req.seenNeed.status \in NeedStatus
    BY <1>1, <1>2 DEF CommitAllocate, Serving, RequestTyped, NeedStatus
  <2>3. QED
    BY <1>1, <1>2, <2>1, <2>2, AllocateTypes DEF CommitAllocate
<1>3. CASE CommitAdvance(c)
  BY <1>1, <1>3, AdvanceTypes DEF CommitAdvance, Serving, RequestTyped
<1>4. CASE CommitRecordReturn(c)
  <2>1. /\ req.allocation \in Allocations /\ req.decision \in Decisions
        /\ req.seenRow.status \in AllocationStatus /\ req.seenEvents \in ReturnTable
    BY <1>1, <1>4 DEF CommitRecordReturn, Serving, HasRead, RequestTyped, AllocationStatus,
                      ActiveStatus
  <2>2. RecordReturnTx(req.allocation, req.decision, req.seenRow, req.seenEvents)
    BY <1>4 DEF CommitRecordReturn
  <2>3. QED
    BY <1>1, <1>4, <2>1, <2>2, RecordReturnTypes DEF CommitRecordReturn
<1>5. CASE CommitCancel(c)
  <2>1. /\ req.alert \in Alerts /\ RowsTyped(req.seenRows)
        /\ req.decisions \in [Delivered(req.seenRows, req.alert) -> Decisions]
        /\ req.seenEvents \in [Allocations -> ReturnTable]
    BY <1>1, <1>5 DEF CommitCancel, Serving, HasRead, RequestTyped
  <2>2. CancelTx(req.alert, req.decisions, req.seenRows, req.seenEvents)
    BY <1>5 DEF CommitCancel
  <2>3. QED
    BY <1>1, <1>5, <2>1, <2>2, CancelTypes DEF CommitCancel
<1>6. CASE CommitPatchAlert(c)
  <2>1. /\ req.alert \in Alerts /\ req.status \in AlertStatus
        /\ \A n \in DOMAIN req.reopened : req.reopened[n].covered \in Nat
    BY <1>1, <1>6 DEF CommitPatchAlert, Serving, HasRead, RequestTyped
  <2>2. PatchAlertTx(req.alert, req.status, req.reopened)
    BY <1>6 DEF CommitPatchAlert
  <2>3. QED
    BY <1>1, <1>6, <2>1, <2>2, PatchAlertTypes DEF CommitPatchAlert
<1>7. CASE CommitDeleteAlert(c)
  <2>1. req.alert \in Alerts /\ RowsTyped(req.seenRows)
    BY <1>1, <1>7 DEF CommitDeleteAlert, Serving, HasRead, RequestTyped
  <2>2. DeleteAlertTx(req.alert, req.seenRows)
    BY <1>7 DEF CommitDeleteAlert
  <2>3. QED
    BY <1>1, <1>7, <2>1, <2>2, DeleteAlertTypes DEF CommitDeleteAlert
<1>8. CASE CommitPatchNeed(c)
  BY <1>1, <1>8, PatchNeedTypes DEF CommitPatchNeed, Serving, RequestTyped
<1>9. CASE CommitDeleteNeed(c)
  BY <1>1, <1>9, DeleteNeedTypes DEF CommitDeleteNeed, Serving, RequestTyped
<1>10. CASE CommitPatchResource(c)
  BY <1>1, <1>10, PatchResourceTypes DEF CommitPatchResource, Serving, RequestTyped
<1>11. CASE CommitDeleteResource(c)
  BY <1>1, <1>11, DeleteResourceTypes DEF CommitDeleteResource, Serving, RequestTyped
<1>12. QED
  BY <1>2, <1>3, <1>4, <1>5, <1>6, <1>7, <1>8, <1>9, <1>10, <1>11 DEF Commit

LEMMA StepTypes ==
    ASSUME RaceTypes, [RacesNext]_racesVars
    PROVE  RaceTypes'
<1>1. ASSUME NEW c \in Clients, NEW req, request' = [request EXCEPT ![c] = req],
             RequestTyped(req), req.op \in issues[c] \cup {"Idle"}, TypeOK', issues' = issues
      PROVE  RaceTypes'
  <2>1. /\ request'[c] = req
        /\ \A e \in Clients \ {c} : request'[e] = request[e]
        /\ request' = [e \in Clients |-> request'[e]]
    BY <1>1 DEF RaceTypes
  <2>2. \A e \in Clients : RequestTyped(request'[e]) /\ request'[e].op \in issues[e] \cup {"Idle"}
    BY <1>1, <2>1 DEF RaceTypes, Sent
  <2>3. QED
    BY <1>1, <2>1, <2>2 DEF RaceTypes, Sent
<1>2. ASSUME UNCHANGED vars PROVE TypeOK'
  BY <1>2 DEF RaceTypes, TypeOK, vars
<1>3. CASE UNCHANGED racesVars
  BY <1>3 DEF racesVars, vars, RaceTypes, TypeOK, Sent
<1>4. ASSUME NEW c \in Clients, Begin(c) \/ Read(c), issues' = issues PROVE RaceTypes'
  <2>1. PICK req : Prepares(c, req)
    BY <1>4, BeginPrepares, ReadPrepares
  <2>2. QED
    BY <1>1, <1>2, <1>4, <2>1 DEF Prepares
<1>5. ASSUME NEW c \in Clients, Commit(c) \/ Abort(c), issues' = issues PROVE RaceTypes'
  <2>1. TypeOK' /\ request' = [request EXCEPT ![c] = Idle]
    BY <1>2, <1>5, CommitTypes DEF Abort, Done
  <2>2. Idle.op = "Idle"
    BY DEF Idle
  <2>3. QED
    BY <1>1, <1>5, <2>1, <2>2, IdleTyped
<1>6. QED
  BY <1>3, <1>4, <1>5 DEF RacesNext


-----------------------------------------------------------------------------
(* Open needs count what covers them, as long as no alert is edited.       *)

\* A row goes, or it stays the row of its alert.
Lasting(row, next) ==
    \/ row.status = "NEW"
    \/ next.status = "GONE"
    \/ /\ row.status \in AllocationStatus /\ next.status \in AllocationStatus
       /\ next.alertId = row.alertId

LEMMA SameRowLasts ==
    ASSUME NEW row \in AllocationTable, NEW next \in AllocationTable,
           next.status = row.status, next.alertId = row.alertId
    PROVE  Lasting(row, next)
BY DEF Lasting, AllocationTable, NoRow

LEMMA CommitLasts ==
    ASSUME RaceTypes, RaceTypes', NEW c \in Clients, Commit(c)
    PROVE  \A a \in Allocations : Lasting(allocation[a], allocation'[a])
<1> DEFINE req == request[c]
<1>1. /\ allocation \in [Allocations -> AllocationTable]
      /\ allocation' \in [Allocations -> AllocationTable]
  BY DEF RaceTypes, TypeOK
<1>2. CASE CommitAllocate(c)
  <2>1. \E a \in Allocations : \E row :
           allocation[a].status = "NEW" /\ allocation' = [allocation EXCEPT ![a] = row]
    BY <1>2 DEF CommitAllocate, AllocateTx
  <2>2. QED
    BY <1>1, <2>1, SameRowLasts DEF Lasting
<1>3. CASE CommitAdvance(c)
  <2>1. \E a \in Allocations, status \in AllocationStatus :
           AllocationExists(a) /\ allocation' = [allocation EXCEPT ![a].status = status]
    BY <1>3 DEF CommitAdvance, Serving, AdvanceTx, RaceTypes, RequestTyped, AllocationStatus,
                ActiveStatus
  <2>2. QED
    BY <1>1, <2>1, SameRowLasts DEF Lasting, AllocationExists, AllocationTable
<1>4. CASE CommitRecordReturn(c)
  <2> DEFINE a == req.allocation
             next == SettledRow(allocation[a], req.seenEvents, req.seenRow.status)
  <2>1. /\ a \in Allocations /\ req.seenRow.status \in AllocationStatus
        /\ AllocationExists(a) /\ allocation' = [allocation EXCEPT ![a] = next]
    BY <1>4 DEF CommitRecordReturn, Serving, RecordReturnTx, RaceTypes, RequestTyped,
                AllocationStatus, ActiveStatus
  <2>2. next.status \in AllocationStatus /\ next.alertId = allocation[a].alertId
    BY <1>1, <2>1 DEF SettledRow, AllocationTable, RecalculateAllocationStatus, AllocationStatus,
                      ActiveStatus
  <2> HIDE DEF next
  <2>3. QED
    BY <1>1, <2>1, <2>2, SameRowLasts DEF Lasting, AllocationExists
<1>5. CASE CommitCancel(c)
  <2> DEFINE d == req.decisions
             rows == req.seenRows
             withdrawn == Undelivered(rows, req.alert)
             next(a) == SettledRow(allocation[a], SumReturnEvents(req.seenEvents[a], d[a]),
                                   rows[a].status)
  <2>1. /\ \A a \in DOMAIN d \cup withdrawn : AllocationExists(a)
        /\ allocation' = [a \in Allocations |->
              IF a \in DOMAIN d THEN next(a)
              ELSE IF a \in withdrawn THEN [allocation[a] EXCEPT !.status = "CANCELLED"]
              ELSE allocation[a]]
    BY <1>5 DEF CommitCancel, CancelTx
  <2>2. \A a \in DOMAIN d : a \in Allocations /\ rows[a].status \in AllocationStatus
    BY <1>5 DEF CommitCancel, Serving, RaceTypes, RequestTyped, Delivered, InFlight, IsActive,
                AllocationStatus
  <2>3. \A a \in DOMAIN d :
           next(a).status \in AllocationStatus /\ next(a).alertId = allocation[a].alertId
    BY <1>1, <2>2 DEF SettledRow, AllocationTable, RecalculateAllocationStatus, AllocationStatus,
                      ActiveStatus
  <2> HIDE DEF next, withdrawn, d
  <2>4. QED
    BY <1>1, <2>1, <2>3, SameRowLasts
       DEF Lasting, AllocationExists, AllocationTable, AllocationStatus
<1>6. CASE CommitDeleteAlert(c)
  <2>1. \A a \in Allocations :
           allocation'[a] = NoAllocation("GONE") \/ allocation'[a] = allocation[a]
    BY <1>6 DEF CommitDeleteAlert, DeleteAlertTx
  <2>2. QED
    BY <1>1, <2>1, SameRowLasts DEF Lasting, NoAllocation, AllocationRow
<1>7. CASE CommitDeleteNeed(c)
  <2>1. \A a \in Allocations :
           allocation'[a] = [allocation[a] EXCEPT !.needId = Null] \/ allocation'[a] = allocation[a]
    BY <1>7 DEF CommitDeleteNeed, DeleteNeedTx
  <2>2. QED
    BY <1>1, <2>1, SameRowLasts DEF AllocationTable
<1>8. CASE CommitDeleteResource(c)
  <2>1. \A a \in Allocations : \/ allocation'[a] = [allocation[a] EXCEPT !.resourceId = Null]
                               \/ allocation'[a] = allocation[a]
    BY <1>8 DEF CommitDeleteResource, DeleteResourceTx
  <2>2. QED
    BY <1>1, <2>1, SameRowLasts DEF AllocationTable
<1>9. CASE CommitPatchAlert(c) \/ CommitPatchNeed(c) \/ CommitPatchResource(c)
  <2>1. allocation' = allocation
    BY <1>9 DEF CommitPatchAlert, PatchAlertTx, CommitPatchNeed, PatchNeedTx,
                CommitPatchResource, PatchResourceTx
  <2>2. QED
    BY <1>1, <2>1, SameRowLasts
<1>10. QED
  BY <1>2, <1>3, <1>4, <1>5, <1>6, <1>7, <1>8, <1>9 DEF Commit

\* No need is reopened, and a row withdrawn by this step belongs to a shut need.
LEMMA StayShut ==
    ASSUME WithdrawnStayShut,
           \A n \in Needs : need'[n].status \in DerivedNeedStatus =>
              need[n].status \in DerivedNeedStatus,
           allocation' \in [Allocations -> AllocationTable],
           \A a \in Allocations : allocation'[a].status = "CANCELLED" /\ allocation'[a].needId # Null =>
              \/ allocation[a].status = "CANCELLED" /\ allocation[a].needId = allocation'[a].needId
              \/ need'[allocation'[a].needId].status \notin DerivedNeedStatus
    PROVE  WithdrawnStayShut'
BY DEF WithdrawnStayShut, AllocationTable

\* A row that a transition moves on covers what it covered, even when it had
\* been withdrawn meanwhile: its need is then shut.
LEMMA MovedOn ==
    ASSUME TypeOK, TypeOK', NeedInv, WithdrawnStayShut, need' = need, NEW a \in Allocations,
           AllocationExists(a),
           \A b \in Allocations \ {a} : allocation'[b] = allocation[b],
           allocation'[a].needId = allocation[a].needId,
           allocation'[a].alertId = allocation[a].alertId,
           allocation'[a].quantity = allocation[a].quantity,
           allocation'[a].status \in AllocationStatus \ {"CANCELLED"}
    PROVE  NeedInv' /\ WithdrawnStayShut'
<1>1. /\ allocation \in [Allocations -> AllocationTable]
      /\ allocation' \in [Allocations -> AllocationTable]
      /\ allocation'[a].status # "NEW"
  BY DEF TypeOK, AllocationStatus, ActiveStatus
<1>2. ASSUME NEW n \in Needs PROVE Balanced(n)'
  <2>1. ASSUME need[n].status \in DerivedNeedStatus, NEW b \in Allocations
        PROVE  Contribution(allocation'[b], n) = Contribution(allocation[b], n)
    <3>1. ~(b = a /\ allocation[b].needId = n /\ allocation[b].status = "CANCELLED")
      BY <2>1, NullIsNoKey DEF WithdrawnStayShut
    <3>2. QED
      BY <3>1 DEF Contribution
  <2>2. QED
    BY <2>1, Undisturbed DEF NeedInv
<1>3. NeedsMatchAlerts'
  BY <1>1, StillMatching DEF NeedInv
<1>4. WithdrawnStayShut'
  BY <1>1, StayShut
<1>5. QED
  BY <1>2, <1>3, <1>4 DEF NeedInv

\* The commits that settle.
LEMMA SettlingCommitNeeds ==
    ASSUME RaceTypes, TypeOK', RaceNeedInv, NEW c \in Clients,
           CommitAdvance(c) \/ CommitRecordReturn(c) \/ CommitCancel(c) \/ CommitDeleteAlert(c)
    PROVE  NeedInv' /\ WithdrawnStayShut'
<1> DEFINE req == request[c]
<1>1. /\ TypeOK /\ RequestTyped(req) /\ NeedInv /\ WithdrawnStayShut
      /\ need \in [Needs -> NeedTable]
      /\ allocation \in [Allocations -> AllocationTable]
      /\ allocation' \in [Allocations -> AllocationTable]
  BY DEF RaceTypes, TypeOK, RaceNeedInv
<1>2. CASE CommitAdvance(c)
  <2> DEFINE a == req.allocation
  <2>1. /\ a \in Allocations /\ req.next \in AllocationStatus \ {"CANCELLED"}
        /\ AllocationExists(a) /\ allocation' = [allocation EXCEPT ![a].status = req.next]
        /\ need' = need
    BY <1>1, <1>2 DEF CommitAdvance, Serving, AdvanceTx, RequestTyped, AllocationStatus, ActiveStatus
  <2>2. /\ \A b \in Allocations \ {a} : allocation'[b] = allocation[b]
        /\ allocation'[a].needId = allocation[a].needId
        /\ allocation'[a].alertId = allocation[a].alertId
        /\ allocation'[a].quantity = allocation[a].quantity
        /\ allocation'[a].status = req.next
    BY <1>1, <2>1 DEF AllocationTable
  <2> HIDE DEF req
  <2>3. QED
    BY <1>1, <2>1, <2>2, MovedOn
<1>3. CASE CommitRecordReturn(c)
  <2> DEFINE a == req.allocation
             next == SettledRow(allocation[a], req.seenEvents, req.seenRow.status)
  <2>1. /\ a \in Allocations /\ AllocationExists(a)
        /\ allocation' = [allocation EXCEPT ![a] = next] /\ need' = need
        /\ req.seenEvents \in ReturnTable /\ Accounted(req.seenEvents) > 0
    BY <1>1, <1>3 DEF CommitRecordReturn, Serving, HasRead, RecordReturnTx, RequestTyped
  <2>2. next.status \in {"PARTIALLY_RETURNED", "RETURNED"}
    <3>1. Accounted(req.seenEvents) \in Nat
      BY <2>1 DEF ReturnTable, Accounted
    <3>2. QED
      BY <1>1, <2>1, <3>1 DEF SettledRow, AllocationTable, RecalculateAllocationStatus
  <2>3. /\ next.needId = allocation[a].needId /\ next.alertId = allocation[a].alertId
        /\ next.quantity = allocation[a].quantity
    BY <1>1, <2>1 DEF SettledRow, AllocationTable
  <2> HIDE DEF next
  <2>4. /\ \A b \in Allocations \ {a} : allocation'[b] = allocation[b]
        /\ allocation'[a] = next
        /\ next.status \in AllocationStatus \ {"CANCELLED"}
    BY <1>1, <2>1, <2>2 DEF AllocationStatus, ActiveStatus
  <2> HIDE DEF req
  <2>5. QED
    BY <1>1, <2>1, <2>3, <2>4, MovedOn
<1>4. CASE CommitCancel(c)
  <2> DEFINE d == req.decisions
             rows == req.seenRows
             al == req.alert
             withdrawn == Undelivered(rows, al)
             events(a) == SumReturnEvents(req.seenEvents[a], d[a])
             status(a) == RecalculateAllocationStatus(allocation[a].quantity, events(a), rows[a].status)
  <2>1. /\ al \in Alerts /\ d \in [Delivered(rows, al) -> Decisions]
        /\ req.seenEvents \in [Allocations -> ReturnTable] /\ Recognised(rows, allocation)
    BY <1>1, <1>4 DEF CommitCancel, Serving, HasRead, RequestTyped, RaceNeedInv
  <2>2. /\ \A a \in DOMAIN d \cup withdrawn : AllocationExists(a)
        /\ need' = [n \in Needs |->
              IF needAlert[n] = al /\ NeedExists(n) /\ need[n].status # "CANCELLED"
              THEN NeedRow("CLOSED", need[n].quantityNeeded, Covered(allocation', n))
              ELSE need[n]]
        /\ allocation' = [a \in Allocations |->
              IF a \in DOMAIN d THEN SettledRow(allocation[a], events(a), rows[a].status)
              ELSE IF a \in withdrawn THEN [allocation[a] EXCEPT !.status = "CANCELLED"]
              ELSE allocation[a]]
    BY <1>4 DEF CommitCancel, CancelTx
  <2>3. \A a \in DOMAIN d : a \in Allocations /\ d[a] \in Decisions /\ rows[a].status \in AllocationStatus
    BY <2>1 DEF Delivered, InFlight, IsActive, AllocationStatus
  <2>4. \A a \in DOMAIN d \cup withdrawn :
           /\ a \in Allocations /\ rows[a].status \in AllocationStatus /\ rows[a].alertId = al
    BY <2>1, <2>3 DEF Delivered, Undelivered, InFlight, IsActive, AllocationStatus
  <2>5. \A a \in DOMAIN d \cup withdrawn : allocation[a].alertId = al
    BY <2>1, <2>2, <2>4 DEF Recognised, AllocationExists, AllocationStatus, ActiveStatus
  <2>6. \A a \in DOMAIN d : status(a) \in {"PARTIALLY_RETURNED", "RETURNED"}
    <3> SUFFICES ASSUME NEW a \in DOMAIN d PROVE status(a) \in {"PARTIALLY_RETURNED", "RETURNED"}
      OBVIOUS
    <3>1. Accounted(events(a)) > 0 /\ events(a) \in ReturnTable
      BY <2>1, <2>3, SummedEventsTyped
    <3>2. Accounted(events(a)) \in Nat
      BY <3>1 DEF ReturnTable, Accounted
    <3>3. QED
      BY <3>1, <3>2 DEF RecalculateAllocationStatus
  <2>7. \A a \in DOMAIN d : allocation'[a] =
           [allocation[a] EXCEPT !.quantityReturned = events(a).quantityReturned,
                                 !.quantityNotReturnable = events(a).quantityNotReturnable,
                                 !.status = status(a)]
    BY <2>2, <2>3 DEF SettledRow
  <2> HIDE DEF withdrawn, events, status, d, al, rows
  <2>8. ASSUME NEW a \in Allocations
        PROVE  /\ LeavesRow(allocation[a], allocation'[a], al)
               /\ \/ allocation'[a].status # "CANCELLED"
                  \/ allocation'[a] = allocation[a]
                  \/ allocation'[a].needId = allocation[a].needId /\ allocation[a].alertId = al
    <3>1. CASE a \in DOMAIN d
      <4>1. /\ allocation'[a].alertId = allocation[a].alertId
            /\ allocation'[a].needId = allocation[a].needId
            /\ allocation'[a].status = status(a)
        BY <1>1, <2>7, <3>1 DEF AllocationTable
      <4>2. QED
        BY <2>5, <2>6, <3>1, <4>1 DEF LeavesRow
    <3>2. CASE a \notin DOMAIN d /\ a \in withdrawn
      <4>1. allocation'[a] = [allocation[a] EXCEPT !.status = "CANCELLED"]
        BY <2>2, <3>2
      <4>2. QED
        BY <1>1, <2>5, <3>2, <4>1 DEF AllocationTable, LeavesRow
    <3>3. CASE a \notin DOMAIN d /\ a \notin withdrawn
      BY <2>2, <3>3 DEF LeavesRow
    <3>4. QED
      BY <3>1, <3>2, <3>3
  <2>9. ASSUME NEW n \in Needs PROVE LeavesNeed(n, al)
    <3>1. CASE needAlert[n] = al /\ NeedExists(n) /\ need[n].status # "CANCELLED"
      <4>1. need'[n] = NeedRow("CLOSED", need[n].quantityNeeded, Covered(allocation', n))
        BY <2>2, <3>1
      <4>2. need'[n].status = "CLOSED"
        BY <4>1 DEF NeedRow
      <4>3. QED
        BY <3>1, <4>2 DEF DerivedNeedStatus, LeavesNeed
    <3>2. CASE ~(needAlert[n] = al /\ NeedExists(n) /\ need[n].status # "CANCELLED")
      <4>1. need'[n] = need[n]
        BY <2>2, <3>2
      <4>2. QED
        BY <3>2, <4>1 DEF NeedExists, NeedStatus, DerivedNeedStatus, LeavesNeed
    <3>3. QED
      BY <3>1, <3>2
  <2>10. al \in Alerts
    BY <2>1
  <2>11. NeedInv'
    BY <1>1, <2>8, <2>9, <2>10, AlertClosedDown
  <2>12. \A n \in Needs : need'[n].status \in DerivedNeedStatus => need[n].status \in DerivedNeedStatus
    BY <2>9 DEF LeavesNeed
  <2>13. ASSUME NEW a \in Allocations, allocation'[a].status = "CANCELLED", allocation'[a].needId # Null
         PROVE  \/ allocation[a].status = "CANCELLED" /\ allocation[a].needId = allocation'[a].needId
                \/ need'[allocation'[a].needId].status \notin DerivedNeedStatus
    <3>1. CASE allocation'[a] = allocation[a]
      BY <2>13, <3>1
    <3>2. CASE allocation'[a].needId = allocation[a].needId /\ allocation[a].alertId = al
      <4>1. /\ allocation'[a].needId \in Needs
            /\ needAlert[allocation'[a].needId] = al
        BY <1>1, <2>13, <3>2 DEF NeedInv, NeedsMatchAlerts, AllocationTable
      <4>2. QED
        BY <2>9, <4>1 DEF LeavesNeed
    <3>3. QED
      BY <2>8, <2>13, <3>1, <3>2
  <2>14. WithdrawnStayShut'
    BY <1>1, <2>12, <2>13, StayShut
  <2>15. QED
    BY <2>11, <2>14
<1>5. CASE CommitDeleteAlert(c)
  <2> DEFINE al == req.alert
  <2>1. /\ al \in Alerts
        /\ need' = [n \in Needs |->
              IF needAlert[n] = al /\ NeedExists(n) THEN NoNeed("GONE") ELSE need[n]]
        /\ allocation' = [a \in Allocations |->
              IF a \in {b \in Allocations : allocation[b].alertId = al}
              THEN NoAllocation("GONE") ELSE allocation[a]]
    BY <1>1, <1>5 DEF CommitDeleteAlert, Serving, DeleteAlertTx, RequestTyped
  <2> HIDE DEF al
  <2>2. ASSUME NEW a \in Allocations
        PROVE  /\ LeavesRow(allocation[a], allocation'[a], al)
               /\ allocation'[a].status = "CANCELLED" => allocation'[a] = allocation[a]
    BY <2>1 DEF NoAllocation, AllocationRow, LeavesRow
  <2>3. ASSUME NEW n \in Needs PROVE LeavesNeed(n, al)
    BY <2>1 DEF NoNeed, NeedRow, NeedExists, NeedStatus, DerivedNeedStatus, LeavesNeed
  <2>4. NeedInv'
    BY <1>1, <2>1, <2>2, <2>3, AlertClosedDown
  <2>5. \A n \in Needs : need'[n].status \in DerivedNeedStatus => need[n].status \in DerivedNeedStatus
    BY <2>3 DEF LeavesNeed
  <2>6. WithdrawnStayShut'
    BY <1>1, <2>2, <2>5, StayShut
  <2>7. QED
    BY <2>4, <2>6
<1>6. QED
  BY <1>2, <1>3, <1>4, <1>5

\* The other commits, except that of an edited alert.
LEMMA PlainCommitNeeds ==
    ASSUME RaceTypes, TypeOK', RaceNeedInv, NEW c \in Clients,
           \/ CommitAllocate(c) \/ CommitPatchNeed(c) \/ CommitDeleteNeed(c)
           \/ CommitPatchResource(c) \/ CommitDeleteResource(c)
    PROVE  NeedInv' /\ WithdrawnStayShut'
<1> DEFINE req == request[c]
<1>1. /\ TypeOK /\ RequestTyped(req) /\ NeedInv /\ WithdrawnStayShut
      /\ need \in [Needs -> NeedTable]
      /\ allocation \in [Allocations -> AllocationTable]
      /\ allocation' \in [Allocations -> AllocationTable]
  BY DEF RaceTypes, TypeOK, RaceNeedInv
<1>2. CASE CommitAllocate(c)
  <2> DEFINE n == req.need
  <2>1. PICK a \in Allocations : AllocateTx(req.user, n, req.resource, a, req.quantity,
                                            req.seenNeed, req.seenResource)
    BY <1>2 DEF CommitAllocate
  <2>2. n \in Needs /\ req.seenNeed.status \in DerivedNeedStatus
    BY <1>1, <1>2 DEF CommitAllocate, Serving, RequestTyped
  <2>3. NeedInv'
    BY <1>1, <2>1, <2>2, AllocateNeeds
  <2>4. /\ need[n].status \in DerivedNeedStatus
        /\ \A m \in Needs \ {n} : need'[m] = need[m]
        /\ \A b \in Allocations \ {a} : allocation'[b] = allocation[b]
        /\ allocation'[a].status = "DELIVERY_AGREED"
    BY <1>1, <2>1, <2>2 DEF AllocateTx, NeedExists, NeedStatus, AllocationRow
  <2> HIDE DEF req
  <2>5. WithdrawnStayShut'
    BY <1>1, <2>4, StayShut
  <2>6. QED
    BY <2>3, <2>5
<1>3. CASE CommitPatchNeed(c)
  <2>1. /\ req.need \in Needs /\ req.quantity \in Quantity \cup {Null}
        /\ req.status \in {"CLOSED", "CANCELLED", Null}
        /\ PatchNeedTx(req.need, req.quantity, req.status)
    BY <1>1, <1>3 DEF CommitPatchNeed, Serving, RequestTyped
  <2>2. allocation' = allocation
    BY <2>1 DEF PatchNeedTx
  <2> HIDE DEF req
  <2>3. NeedInv' /\ \A m \in Needs : need'[m].status \in DerivedNeedStatus => need'[m].status = need[m].status
    BY <1>1, <2>1, PatchNeedNeeds
  <2>4. QED
    BY <1>1, <2>2, <2>3, StayShut
<1>4. CASE CommitDeleteNeed(c)
  <2>1. req.need \in Needs /\ DeleteNeedTx(req.need)
    BY <1>1, <1>4 DEF CommitDeleteNeed, Serving, RequestTyped
  <2> HIDE DEF req
  <2>2. NeedInv'
    BY <1>1, <2>1, DeleteNeedNeeds
  <2>3. \A m \in Needs : need'[m].status \in DerivedNeedStatus => need'[m] = need[m]
    BY <1>1, <2>1 DEF DeleteNeedTx, NoNeed, NeedRow, DerivedNeedStatus
  <2>4. \A a \in Allocations : /\ allocation'[a].status = allocation[a].status
                               /\ allocation'[a].needId \in {allocation[a].needId, Null}
    BY <1>1, <2>1 DEF DeleteNeedTx, AllocationTable
  <2>5. WithdrawnStayShut'
    BY <1>1, <2>3, <2>4, StayShut
  <2>6. QED
    BY <2>2, <2>5
<1>5. CASE CommitPatchResource(c) \/ CommitDeleteResource(c)
  <2>1. need' = need
    BY <1>5 DEF CommitPatchResource, PatchResourceTx, CommitDeleteResource, DeleteResourceTx
  <2>2. \A a \in Allocations : \/ allocation'[a] = allocation[a]
                               \/ allocation'[a] = [allocation[a] EXCEPT !.resourceId = Null]
    BY <1>5 DEF CommitPatchResource, PatchResourceTx, CommitDeleteResource, DeleteResourceTx
  <2>3. \A a \in Allocations :
           /\ allocation'[a].status = allocation[a].status
           /\ allocation'[a].needId = allocation[a].needId
           /\ allocation'[a].alertId = allocation[a].alertId
           /\ allocation'[a].quantity = allocation[a].quantity
    BY <1>1, <2>2 DEF AllocationTable
  <2>4. NeedInv'
    BY <1>1, <2>1, <2>3, RowsUnmoved
  <2>5. WithdrawnStayShut'
    BY <1>1, <2>1, <2>3, StayShut
  <2>6. QED
    BY <2>4, <2>5
<1>6. QED
  BY <1>2, <1>3, <1>4, <1>5

\* What a cancel has listed stays recognised while its rows last.
LEMMA RecognisedKept ==
    ASSUME NEW rows, Recognised(rows, allocation), TypeOK,
           \A a \in Allocations : Lasting(allocation[a], allocation'[a])
    PROVE  Recognised(rows, allocation')
BY DEF Recognised, Lasting, AllocationExists, AllocationStatus, ActiveStatus

LEMMA StepNeeds ==
    ASSUME RaceTypes, RaceTypes', AlertsUnedited, RaceNeedInv, [RacesNext]_racesVars
    PROVE  RaceNeedInv'
<1>1. ASSUME UNCHANGED vars PROVE NeedInv' /\ WithdrawnStayShut'
  <2>1. \A n \in Needs : Balanced(n)'
    BY <1>1, Undisturbed DEF vars, RaceNeedInv, NeedInv
  <2>2. NeedsMatchAlerts' /\ WithdrawnStayShut'
    BY <1>1 DEF vars, RaceNeedInv, NeedInv, NeedsMatchAlerts, WithdrawnStayShut
  <2>3. QED
    BY <2>1, <2>2 DEF NeedInv
<1>2. ASSUME NEW rows, Recognised(rows, allocation), UNCHANGED vars PROVE Recognised(rows, allocation')
  BY <1>2 DEF vars, Recognised, AllocationExists
<1>3. Recognised(allocation, allocation)
  BY DEF Recognised, AllocationExists
<1>4. CASE UNCHANGED racesVars
  <2>1. UNCHANGED vars /\ request' = request
    BY <1>4 DEF racesVars
  <2>2. QED
    BY <1>1, <1>2, <2>1 DEF RaceNeedInv, Serving
<1>5. ASSUME NEW c \in Clients, Begin(c) \/ Read(c) PROVE RaceNeedInv'
  <2>1. PICK req : Prepares(c, req)
    BY <1>5, BeginPrepares, ReadPrepares
  <2>2. /\ UNCHANGED vars /\ request'[c] = req
        /\ \A e \in Clients \ {c} : request'[e] = request[e]
    BY <2>1 DEF Prepares, RaceTypes
  <2>3. req.op = "Cancel" => Recognised(req.seenRows, allocation)
    <3>1. CASE BeginCancel(c)
      BY <1>3, <2>2, <3>1 DEF BeginCancel, Start, RaceTypes
    <3>2. CASE ReadCancelEvents(c)
      BY <2>2, <3>2 DEF ReadCancelEvents, RaceTypes, RaceNeedInv
    <3>3. CASE (Begin(c) /\ ~BeginCancel(c)) \/ (Read(c) /\ ~ReadCancelEvents(c))
      BY <2>2, <3>3 DEF Begin, BeginAllocate, BeginAdvance, BeginRecordReturn, BeginPatchAlert,
           BeginDeleteAlert, BeginPatchNeed, BeginDeleteNeed, BeginPatchResource,
           BeginDeleteResource, Start, Read, ReadReturnEvents, ReadDoomedAllocations,
           ReadClosedNeeds, RaceTypes
    <3>4. QED
      BY <1>5, <3>1, <3>2, <3>3
  <2>4. \A e \in Clients : request'[e].op = "Cancel" => Recognised(request'[e].seenRows, allocation)
    BY <2>2, <2>3 DEF RaceNeedInv, Serving
  <2>5. \A e \in Clients : request'[e].op = "Cancel" => Recognised(request'[e].seenRows, allocation')
    BY <1>2, <2>2, <2>4
  <2>6. QED
    BY <1>1, <2>2, <2>5 DEF RaceNeedInv, Serving
<1>6. ASSUME NEW c \in Clients, Commit(c) \/ Abort(c) PROVE RaceNeedInv'
  <2>1. request' = [request EXCEPT ![c] = Idle]
    BY <1>6, CommitTypes DEF Abort, Done
  <2>2. /\ request'[c].op = "Idle"
        /\ \A e \in Clients \ {c} : request'[e] = request[e]
    BY <2>1 DEF RaceTypes, Idle
  <2>3. TypeOK /\ TypeOK'
    BY DEF RaceTypes
  <2>4. ~CommitPatchAlert(c)
    BY DEF CommitPatchAlert, Serving, AlertsUnedited, RaceTypes, Sent
  <2>5. NeedInv' /\ WithdrawnStayShut'
    <3>1. CASE Commit(c)
      BY <2>3, <2>4, <3>1, SettlingCommitNeeds, PlainCommitNeeds DEF Commit
    <3>2. CASE Abort(c)
      BY <1>1, <3>2 DEF Abort
    <3>3. QED
      BY <1>6, <3>1, <3>2
  <2>6. ASSUME NEW rows, Recognised(rows, allocation) PROVE Recognised(rows, allocation')
    <3>1. CASE Commit(c)
      BY <2>3, <2>6, <3>1, CommitLasts, RecognisedKept
    <3>2. CASE Abort(c)
      BY <1>2, <2>6, <3>2 DEF Abort
    <3>3. QED
      BY <1>6, <3>1, <3>2
  <2>7. \A e \in Clients : request'[e].op = "Cancel" => Recognised(request'[e].seenRows, allocation')
    BY <2>2, <2>6 DEF RaceNeedInv, Serving
  <2>8. QED
    BY <2>5, <2>7 DEF RaceNeedInv, Serving
<1>7. QED
  BY <1>4, <1>5, <1>6 DEF RacesNext

-----------------------------------------------------------------------------
(* The first theorems. *)

LEMMA InitTypes ==
    ASSUME RacesInit
    PROVE  RaceTypes
<1>1. TypeOK
  <2>1. "NEW" \in NoRow /\ MaxQuantity \in Nat /\ MaxStock \in Nat
    BY BoundsPositive DEF NoRow
  <2>2. \A al \in Alerts : alert[al] = "ACTIVE"
    BY DEF RacesInit
  <2>3. "OPEN" \in NeedStatus
    BY DEF NeedStatus, DerivedNeedStatus
  <2>4. alert \in [Alerts -> AlertStatus \cup NoRow]
    BY DEF RacesInit, AlertStatus
  <2>5. NeedRow("OPEN", MaxQuantity, 0) \in NeedTable /\ NeedCheck(NeedRow("OPEN", MaxQuantity, 0))
    BY <2>1, <2>3, RowsAreTyped DEF NeedRow, NeedCheck
  <2>6. /\ ResourceRow("LIVE", MaxStock, 0) \in ResourceTable
        /\ ResourceCheck(ResourceRow("LIVE", MaxStock, 0))
    BY <2>1, RowsAreTyped DEF ResourceRow, ResourceCheck
  <2>7. QED
    BY <2>1, <2>4, <2>5, <2>6, BlankRows DEF RacesInit, TypeOK
<1>2. request = [c \in Clients |-> Idle]
  BY DEF RacesInit
<1>3. \A c \in Clients : request[c] = Idle /\ Idle.op = "Idle"
  BY <1>2 DEF Idle
<1>4. QED
  BY <1>1, <1>2, <1>3, IdleTyped DEF RaceTypes, Sent

\* Every table stays typed and every CHECK constraint holds, whatever the
\* requests overlap with.
THEOREM RacesTypeCorrect == RacesSpec => []TypeOK
<1>1. RacesInit => RaceTypes
  BY InitTypes
<1>2. RaceTypes => TypeOK
  BY DEF RaceTypes
<1>3. QED
  BY <1>1, <1>2, StepTypes, PTL DEF RacesSpec

\* "stillNeeded", the cap on the next donation, is the true remainder under any
\* overlap of allocations, returns, cancels, deletes and edits of needs and
\* resources, as long as no alert is edited meanwhile.
THEOREM RacesOpenNeedsBalanced == RacesSpec => []OpenNeedsBalancedUnlessReactivated
<1> DEFINE Inv == RaceTypes /\ (AlertsUnedited => RaceNeedInv)
<1>1. RacesInit => Inv
  <2> SUFFICES ASSUME RacesInit PROVE RaceTypes /\ RaceNeedInv
    OBVIOUS
  <2>1. \A a \in Allocations : /\ allocation[a].needId = Null /\ allocation[a].status = "NEW"
                               /\ allocation[a] = NoAllocation("NEW")
    BY DEF RacesInit, NoAllocation, AllocationRow
  <2>2. ASSUME NEW n \in Needs PROVE Balanced(n)
    <3> DEFINE column == [a \in Allocations |-> IF allocation[a].needId = n /\ allocation[a].status # "CANCELLED"
                                                THEN allocation[a].quantity ELSE 0]
    <3>1. column \in [Allocations -> Nat] /\ \A a \in Allocations : column[a] = 0
      BY <2>1, NullIsNoKey
    <3>2. Total(column) = 0
      BY <3>1, KeysFinite, TotalZero
    <3>3. Covered(allocation, n) = 0
      BY <3>2 DEF Covered
    <3>4. need[n].status = "OPEN" /\ need[n].quantityFulfilled = 0
      BY DEF RacesInit, NeedRow
    <3>5. QED
      BY <3>3, <3>4 DEF Balanced
  <2>3. \A c \in Clients : request[c].op = "Idle"
    BY DEF RacesInit, Idle
  <2>4. QED
    BY <2>1, <2>2, <2>3, InitTypes
       DEF RaceNeedInv, NeedInv, NeedsMatchAlerts, WithdrawnStayShut, Serving
<1>2. Inv /\ [RacesNext]_racesVars => Inv'
  <2> SUFFICES ASSUME Inv, [RacesNext]_racesVars PROVE Inv'
    OBVIOUS
  <2>1. RaceTypes'
    BY StepTypes
  <2>2. issues' = issues
    BY DEF RacesNext, racesVars
  <2>3. AlertsUnedited' => AlertsUnedited
    BY <2>2 DEF AlertsUnedited
  <2>4. QED
    BY <2>1, <2>3, StepNeeds
<1>3. Inv => OpenNeedsBalancedUnlessReactivated
  BY DEF RaceNeedInv, NeedInv, Balanced, OpenNeedsBalancedUnlessReactivated, OpenNeedsBalanced,
         AlertsUnedited
<1>4. QED
  BY <1>1, <1>2, <1>3, PTL DEF RacesSpec

-----------------------------------------------------------------------------
(* What has been read stays fresh while the others commit.                 *)

\* A stock in which no resource that is gone has come back, and rows that are
\* the same, or were not there, leave a request as fresh as it was.
LEMMA FreshKept ==
    ASSUME TypeOK, NEW req, RequestTyped(req), Fresh(req, allocation, resource, journal),
           journal' = journal,
           \A r \in Resources : resource'[r].status = "LIVE" => resource[r].status = "LIVE",
           \A a \in Allocations :
              \/ SameRow(allocation[a], allocation'[a], resource')
              \/ allocation[a].status = "NEW" /\ req.op # "DeleteAlert"
    PROVE  Fresh(req, allocation', resource', journal')
<1>1. allocation \in [Allocations -> AllocationTable]
  BY DEF TypeOK
<1>2. ASSUME NEW seen, NEW a \in Allocations, SameRow(allocation[a], allocation'[a], resource'),
             Detached(seen, allocation[a].resourceId, resource)
      PROVE  Detached(seen, allocation'[a].resourceId, resource')
  <2>1. allocation[a].resourceId \in Resources \cup {Null}
    BY <1>1 DEF AllocationTable
  <2>2. QED
    BY <1>2, <2>1, NullIsNoKey DEF SameRow, Detached
<1>3. ASSUME NEW seen, Remembered(seen, allocation, resource)
      PROVE  Remembered(seen, allocation', resource')
  <2> SUFFICES ASSUME NEW a \in Allocations, IsActive(seen[a])
               PROVE  SameRow(seen[a], allocation'[a], resource')
    BY DEF Remembered
  <2>1. SameRow(seen[a], allocation[a], resource)
    BY <1>3 DEF Remembered
  <2>2. SameRow(allocation[a], allocation'[a], resource')
    BY <2>1 DEF SameRow, IsActive, ActiveStatus
  <2>3. Detached(seen[a].resourceId, allocation'[a].resourceId, resource')
    BY <1>2, <2>1, <2>2 DEF SameRow
  <2>4. QED
    BY <2>1, <2>2, <2>3 DEF SameRow
<1>4. AdvanceFresh(req, allocation')
  BY DEF Fresh, AdvanceFresh, RequestTyped, AllowedActors, SameRow
<1>5. RecordReturnFresh(req, allocation', resource', journal')
  <2> SUFFICES ASSUME req.op = "RecordReturn" PROVE RecordReturnFresh(req, allocation', resource', journal')
    BY DEF RecordReturnFresh
  <2> DEFINE a == req.allocation
  <2>1. /\ a \in Allocations /\ req.seenRow.status \in {"RETURN_AGREED", "PARTIALLY_RETURNED"}
        /\ RecordReturnFresh(req, allocation, resource, journal)
    BY DEF RequestTyped, Fresh
  <2>2. /\ SameRow(allocation[a], allocation'[a], resource')
        /\ Detached(req.seenRow.resourceId, allocation[a].resourceId, resource)
    BY <2>1 DEF RecordReturnFresh
  <2>3. Detached(req.seenRow.resourceId, allocation'[a].resourceId, resource')
    BY <1>2, <2>1, <2>2
  <2>4. QED
    BY <2>1, <2>2, <2>3 DEF RecordReturnFresh, SameRow
<1>6. CancelFresh(req, allocation', resource', journal')
  <2> SUFFICES ASSUME req.op = "Cancel" PROVE CancelFresh(req, allocation', resource', journal')
    BY DEF CancelFresh
  <2>1. CancelFresh(req, allocation, resource, journal)
    BY DEF Fresh
  <2>2. Remembered(req.seenRows, allocation, resource)
    BY <2>1 DEF CancelFresh
  <2>3. Remembered(req.seenRows, allocation', resource')
    BY <1>3, <2>2
  <2>4. \A a \in DOMAIN req.decisions : a \in Allocations /\ allocation'[a].quantity = allocation[a].quantity
    <3>1. \A a \in DOMAIN req.decisions : a \in Allocations /\ IsActive(req.seenRows[a])
      BY DEF RequestTyped, Delivered, InFlight
    <3>2. QED
      BY <2>2, <2>3, <3>1 DEF Remembered, SameRow
  <2>5. QED
    BY <2>1, <2>3, <2>4 DEF CancelFresh
<1>7. DeleteAlertFresh(req, allocation', resource')
  <2> SUFFICES ASSUME req.op = "DeleteAlert", "seenRows" \in DOMAIN req
               PROVE  DeleteAlertFresh(req, allocation', resource')
    BY DEF DeleteAlertFresh
  <2>1. /\ Remembered(req.seenRows, allocation, resource)
        /\ InFlight(req.seenRows, req.alert) = InFlight(allocation, req.alert)
    BY DEF Fresh, DeleteAlertFresh
  <2>2. Remembered(req.seenRows, allocation', resource')
    BY <1>3, <2>1
  <2>3. InFlight(allocation', req.alert) = InFlight(allocation, req.alert)
    BY DEF InFlight, IsActive, SameRow
  <2>4. QED
    BY <2>1, <2>2, <2>3 DEF DeleteAlertFresh
<1>8. QED
  BY <1>4, <1>5, <1>6, <1>7 DEF Fresh

\* The commits that do not settle keep the journal and every row, but for the
\* new row of an allocation, and bring back no resource.
LEMMA PlainCommitKeepsRows ==
    ASSUME RaceTypes, NEW c \in Clients, Commit(c), request[c].op \notin Settling
    PROVE  /\ journal' = journal
           /\ \A r \in Resources : resource'[r].status = "LIVE" => resource[r].status = "LIVE"
           /\ \A a \in Allocations :
                 \/ SameRow(allocation[a], allocation'[a], resource')
                 \/ allocation[a].status = "NEW" /\ request[c].op = "Allocate"
<1> DEFINE req == request[c]
<1>1. /\ TypeOK /\ RequestTyped(req) /\ resource \in [Resources -> ResourceTable]
      /\ allocation \in [Allocations -> AllocationTable]
  BY DEF RaceTypes, TypeOK
<1>2. CASE CommitAllocate(c)
  <2>1. PICK a \in Allocations : AllocateTx(req.user, req.need, req.resource, a, req.quantity,
                                            req.seenNeed, req.seenResource)
    BY <1>2 DEF CommitAllocate
  <2>2. /\ req.resource \in Resources /\ req.op = "Allocate"
        /\ resource' = [resource EXCEPT ![req.resource].reservedQuantity = @ + req.quantity]
        /\ allocation[a].status = "NEW"
        /\ \A b \in Allocations \ {a} : allocation'[b] = allocation[b]
        /\ journal' = journal
    BY <1>1, <1>2, <2>1 DEF CommitAllocate, Serving, RequestTyped, AllocateTx
  <2>3. \A r \in Resources : resource'[r].status = resource[r].status
    BY <1>1, <2>2 DEF ResourceTable
  <2>4. QED
    BY <2>2, <2>3 DEF SameRow, Detached
<1>3. CASE CommitPatchAlert(c) \/ CommitPatchNeed(c)
  BY <1>3 DEF CommitPatchAlert, PatchAlertTx, CommitPatchNeed, PatchNeedTx, SameRow, Detached
<1>4. CASE CommitDeleteNeed(c)
  <2>1. /\ \A a \in Allocations : allocation'[a] \in {allocation[a], [allocation[a] EXCEPT !.needId = Null]}
        /\ resource' = resource /\ journal' = journal
    BY <1>4 DEF CommitDeleteNeed, DeleteNeedTx
  <2>2. QED
    BY <1>1, <2>1 DEF SameRow, Detached, AllocationTable
<1>5. CASE CommitPatchResource(c)
  <2>1. /\ \A r \in Resources : resource'[r].status = resource[r].status
        /\ allocation' = allocation /\ journal' = journal
    BY <1>1, <1>5 DEF CommitPatchResource, PatchResourceTx, ResourceTable
  <2>2. QED
    BY <2>1 DEF SameRow, Detached
<1>6. CASE CommitDeleteResource(c)
  <2> DEFINE r == req.resource
  <2>1. /\ r \in Resources
        /\ resource' = [resource EXCEPT ![r] = NoResource("GONE")]
        /\ allocation' = [a \in Allocations |->
              IF allocation[a].resourceId = r THEN [allocation[a] EXCEPT !.resourceId = Null]
              ELSE allocation[a]]
        /\ journal' = journal
    BY <1>1, <1>6 DEF CommitDeleteResource, Serving, RequestTyped, DeleteResourceTx
  <2>2. /\ resource'[r].status = "GONE" /\ \A s \in Resources \ {r} : resource'[s] = resource[s]
    BY <1>1, <2>1 DEF NoResource, ResourceRow
  <2> HIDE DEF r
  <2>3. \A a \in Allocations : SameRow(allocation[a], allocation'[a], resource')
    BY <1>1, <2>1, <2>2 DEF SameRow, Detached, AllocationTable
  <2>4. QED
    BY <2>1, <2>2, <2>3
<1>7. ~(CommitAdvance(c) \/ CommitRecordReturn(c) \/ CommitCancel(c) \/ CommitDeleteAlert(c))
  BY DEF CommitAdvance, CommitRecordReturn, CommitCancel, CommitDeleteAlert, Serving, Settling
<1>8. QED
  BY <1>2, <1>3, <1>4, <1>5, <1>6, <1>7 DEF Commit

\* What a request reads is fresh.
LEMMA PreparedFresh ==
    ASSUME RaceTypes, NEW c \in Clients, Fresh(request[c], allocation, resource, journal),
           Begin(c) \/ Read(c), NEW req, Prepares(c, req)
    PROVE  Fresh(req, allocation, resource, journal)
<1>1. request'[c] = req
  BY DEF Prepares, RaceTypes
<1>2. Remembered(allocation, allocation, resource)
  BY DEF Remembered, SameRow, Detached
<1>3. ASSUME req.op \notin Settling PROVE Fresh(req, allocation, resource, journal)
  BY <1>3 DEF Settling, Fresh, AdvanceFresh, RecordReturnFresh, CancelFresh, DeleteAlertFresh
<1>4. CASE BeginAdvance(c)
  <2>1. PICK u \in Users, a \in Allocations, next \in {"DELIVERED", "RETURN_AGREED"} :
          /\ AdvanceAccepts(u, a, next)
          /\ req = [op |-> "Advance", allocation |-> a, next |-> next]
    BY <1>1, <1>4 DEF BeginAdvance, Start, RaceTypes
  <2>2. AllowedActors(allocation[a].status, next) # {}
    BY <2>1 DEF AdvanceAccepts
  <2>3. QED
    BY <2>1, <2>2 DEF Fresh, AdvanceFresh, RecordReturnFresh, CancelFresh, DeleteAlertFresh
<1>5. CASE BeginRecordReturn(c)
  <2>1. PICK u \in Users, a \in Allocations, d \in Decisions :
          /\ RecordReturnAccepts(u, a, d)
          /\ req = [op |-> "RecordReturn", allocation |-> a, decision |-> d,
                    seenRow |-> [status |-> allocation[a].status,
                                 resourceId |-> allocation[a].resourceId]]
    BY <1>1, <1>5 DEF BeginRecordReturn, Start, RaceTypes
  <2>2. /\ req.op = "RecordReturn" /\ req.allocation = a /\ req.decision = d
        /\ req.seenRow.status = allocation[a].status
        /\ req.seenRow.resourceId = allocation[a].resourceId
        /\ "seenEvents" \notin DOMAIN req
    BY <2>1
  <2>3. Accounted(journal[a]) + Accounted(d) <= allocation[a].quantity
    BY <2>1 DEF RecordReturnAccepts
  <2>4. QED
    BY <2>2, <2>3
       DEF Fresh, AdvanceFresh, RecordReturnFresh, CancelFresh, DeleteAlertFresh, Detached
<1>6. CASE BeginCancel(c)
  <2>1. PICK u \in Users, al \in Alerts : \E d \in [Delivered(allocation, al) -> Decisions] :
          /\ CancelAccepts(u, al, d)
          /\ req = [op |-> "Cancel", alert |-> al, decisions |-> d, seenRows |-> allocation]
    BY <1>1, <1>6 DEF BeginCancel, Start, RaceTypes
  <2>2. PICK d \in [Delivered(allocation, al) -> Decisions] :
          /\ CancelAccepts(u, al, d)
          /\ req = [op |-> "Cancel", alert |-> al, decisions |-> d, seenRows |-> allocation]
    BY <2>1
  <2>3. \A a \in DOMAIN d : Accounted(journal[a]) + Accounted(d[a]) <= allocation[a].quantity
    BY <2>2 DEF CancelAccepts
  <2>4. QED
    BY <1>2, <2>2, <2>3 DEF Fresh, AdvanceFresh, RecordReturnFresh, CancelFresh, DeleteAlertFresh
<1>7. CASE ReadReturnEvents(c)
  <2> DEFINE old == request[c]
             events == SumReturnEvents(journal[old.allocation], old.decision)
  <2>1. /\ old.op = "RecordReturn" /\ RecordReturnFresh(old, allocation, resource, journal)
        /\ req = [op |-> "RecordReturn", allocation |-> old.allocation, decision |-> old.decision,
                  seenRow |-> old.seenRow, seenEvents |-> events]
    BY <1>1, <1>7 DEF ReadReturnEvents, Serving, RaceTypes, Fresh
  <2> HIDE DEF old, events
  <2>2. /\ req.op = "RecordReturn" /\ req.allocation = old.allocation
        /\ req.decision = old.decision /\ req.seenRow = old.seenRow /\ req.seenEvents = events
    BY <2>1
  <2>3. RecordReturnFresh(req, allocation, resource, journal)
    BY <2>1, <2>2 DEF RecordReturnFresh, events
  <2>4. QED
    BY <2>2, <2>3 DEF Fresh, AdvanceFresh, CancelFresh, DeleteAlertFresh
<1>8. CASE ReadCancelEvents(c)
  <2> DEFINE old == request[c]
  <2>1. /\ old.op = "Cancel" /\ CancelFresh(old, allocation, resource, journal)
        /\ req = [op |-> "Cancel", alert |-> old.alert, decisions |-> old.decisions,
                  seenRows |-> old.seenRows, seenEvents |-> journal]
    BY <1>1, <1>8 DEF ReadCancelEvents, Serving, RaceTypes, Fresh
  <2> HIDE DEF old
  <2>2. QED
    BY <2>1 DEF Fresh, AdvanceFresh, RecordReturnFresh, CancelFresh, DeleteAlertFresh
<1>9. CASE ReadDoomedAllocations(c)
  <2>1. req = [op |-> "DeleteAlert", alert |-> request[c].alert, seenRows |-> allocation]
    BY <1>1, <1>9 DEF ReadDoomedAllocations, RaceTypes
  <2>2. QED
    BY <1>2, <2>1 DEF Fresh, AdvanceFresh, RecordReturnFresh, CancelFresh, DeleteAlertFresh
<1>10. CASE BeginDeleteAlert(c)
  <2>1. req.op = "DeleteAlert" /\ "seenRows" \notin DOMAIN req
    BY <1>1, <1>10 DEF BeginDeleteAlert, Start, RaceTypes
  <2>2. QED
    BY <2>1 DEF Fresh, AdvanceFresh, RecordReturnFresh, CancelFresh, DeleteAlertFresh
<1>11. CASE \/ BeginAllocate(c) \/ BeginPatchAlert(c) \/ BeginPatchNeed(c) \/ BeginDeleteNeed(c)
            \/ BeginPatchResource(c) \/ BeginDeleteResource(c) \/ ReadClosedNeeds(c)
  <2>1. req.op \notin Settling
    BY <1>1, <1>11 DEF BeginAllocate, BeginPatchAlert, BeginPatchNeed, BeginDeleteNeed,
         BeginPatchResource, BeginDeleteResource, Start, ReadClosedNeeds, RaceTypes, Settling
  <2>2. QED
    BY <1>3, <2>1
<1>12. QED
  BY <1>4, <1>5, <1>6, <1>7, <1>8, <1>9, <1>10, <1>11 DEF Begin, Read

\* Every request is as fresh after a step as it was before.
LEMMA StepFresh ==
    ASSUME RaceTypes, RaceTypes', Uncontended, [RacesNext]_racesVars, NEW e \in Clients,
           \A c \in Clients : Fresh(request[c], allocation, resource, journal)
    PROVE  Fresh(request'[e], allocation', resource', journal')
<1>1. Fresh(Idle, allocation', resource', journal')
  BY DEF Idle, Fresh, AdvanceFresh, RecordReturnFresh, CancelFresh, DeleteAlertFresh
<1>2. CASE UNCHANGED racesVars
  BY <1>2 DEF racesVars, vars
<1>3. ASSUME NEW c \in Clients, Begin(c) \/ Read(c)
      PROVE  Fresh(request'[e], allocation', resource', journal')
  <2>1. PICK req : Prepares(c, req)
    BY <1>3, BeginPrepares, ReadPrepares
  <2>2. Fresh(req, allocation, resource, journal)
    BY <1>3, <2>1, PreparedFresh
  <2>3. /\ UNCHANGED vars /\ request'[c] = req
        /\ \A b \in Clients \ {c} : request'[b] = request[b]
    BY <2>1 DEF Prepares, RaceTypes
  <2>4. QED
    BY <2>2, <2>3 DEF vars
<1>4. ASSUME NEW c \in Clients, Commit(c) \/ Abort(c)
      PROVE  Fresh(request'[e], allocation', resource', journal')
  <2>1. request' = [request EXCEPT ![c] = Idle]
    BY <1>4, CommitTypes DEF Abort, Done
  <2>2. /\ request'[c] = Idle /\ \A b \in Clients \ {c} : request'[b] = request[b]
    BY <2>1 DEF RaceTypes
  <2>3. CASE e = c
    BY <1>1, <2>2, <2>3
  <2>4. CASE e # c /\ Abort(c)
    BY <2>2, <2>4 DEF Abort, vars
  <2>5. CASE e # c /\ Commit(c)
    <3> DEFINE req == request[e]
    <3>1. request'[e] = req /\ RequestTyped(req) /\ TypeOK /\ Fresh(req, allocation, resource, journal)
      BY <2>2, <2>5 DEF RaceTypes
    <3>2. CASE req.op \notin Settling
      BY <3>1, <3>2
         DEF Settling, Fresh, AdvanceFresh, RecordReturnFresh, CancelFresh, DeleteAlertFresh
    <3>3. CASE req.op \in Settling
      <4>1. req.op \in issues[e] /\ request[c].op \in issues[c] \cup {"Idle"}
        BY <3>3 DEF RaceTypes, Sent, Settling
      <4>2. request[c].op \notin Settling
        BY <2>5, <3>3, <4>1 DEF Uncontended, OneSettles, Settling
      <4>3. req.op = "DeleteAlert" => request[c].op # "Allocate"
        BY <2>5, <4>1 DEF Uncontended, AllocatesAlone
      <4>4. /\ journal' = journal
            /\ \A r \in Resources : resource'[r].status = "LIVE" => resource[r].status = "LIVE"
            /\ \A a \in Allocations :
                  \/ SameRow(allocation[a], allocation'[a], resource')
                  \/ allocation[a].status = "NEW" /\ req.op # "DeleteAlert"
        BY <2>5, <4>2, <4>3, PlainCommitKeepsRows
      <4> HIDE DEF req
      <4>5. Fresh(req, allocation', resource', journal')
        BY <3>1, <4>4, FreshKept
      <4>6. QED
        BY <3>1, <4>5
    <3>4. QED
      BY <3>2, <3>3
  <2>6. QED
    BY <1>4, <2>3, <2>4, <2>5
<1>5. QED
  BY <1>2, <1>3, <1>4 DEF RacesNext

-----------------------------------------------------------------------------
(* The balance, as long as one client settles.                             *)

\* A transaction that still finds the resources of the rows it saw in flight
\* sees those rows as they are.
LEMMA RememberedCurrent ==
    ASSUME NEW rows, Remembered(rows, allocation, resource), NEW al,
           \A a \in InFlight(rows, al) :
              rows[a].resourceId # Null => ResourceExists(rows[a].resourceId)
    PROVE  Current(rows, InFlight(rows, al))
<1> SUFFICES ASSUME NEW a \in InFlight(rows, al)
             PROVE  /\ SameRow(rows[a], allocation[a], resource)
                    /\ rows[a].resourceId = allocation[a].resourceId
  BY DEF Current, SameRow
<1>1. SameRow(rows[a], allocation[a], resource)
  BY DEF InFlight, Remembered
<1>2. QED
  BY <1>1, NullIsNoKey DEF SameRow, Detached, ResourceExists

\* An advance that was allowed leaves one of the two statuses that have a successor.
LEMMA AdvancesFrom ==
    ASSUME NEW status, NEW next, AllowedActors(status, next) # {}
    PROVE  status \in {"DELIVERY_AGREED", "DELIVERED"}
BY DEF AllowedActors

\* A cancellation that commits has seen its rows in flight as they are.
LEMMA CancelSeesCurrent ==
    ASSUME RaceTypes, NEW c \in Clients, Fresh(request[c], allocation, resource, journal),
           CommitCancel(c)
    PROVE  LET al == request[c].alert
               d == request[c].decisions
               seen == request[c].seenRows
           IN  /\ request[c].op = "Cancel" /\ CancelTx(al, d, seen, journal)
               /\ al \in Alerts /\ d \in [Delivered(seen, al) -> Decisions]
               /\ \A a \in DOMAIN d : Accounted(journal[a]) + Accounted(d[a]) <= allocation[a].quantity
               /\ Current(seen, InFlight(seen, al))
<1> DEFINE req == request[c]
           al == req.alert
           d == req.decisions
           seen == req.seenRows
<1>1. /\ req.op = "Cancel" /\ "seenEvents" \in DOMAIN req
      /\ CancelTx(al, d, seen, req.seenEvents)
      /\ al \in Alerts /\ d \in [Delivered(seen, al) -> Decisions]
  BY DEF CommitCancel, Serving, HasRead, RaceTypes, RequestTyped
<1>2. /\ Remembered(seen, allocation, resource)
      /\ \A a \in DOMAIN d : Accounted(journal[a]) + Accounted(d[a]) <= allocation[a].quantity
      /\ req.seenEvents = journal
  BY <1>1 DEF Fresh, CancelFresh
<1>3. CancelTx(al, d, seen, journal)
  BY <1>1, <1>2
<1> HIDE DEF al, d, seen
<1>4. \A a \in InFlight(seen, al) :
         seen[a].resourceId # Null => ResourceExists(seen[a].resourceId)
  <2>1. \A a \in DOMAIN d \cup Undelivered(seen, al) :
           seen[a].resourceId # Null => ResourceExists(seen[a].resourceId)
    BY <1>3 DEF CancelTx
  <2>2. DOMAIN d \cup Undelivered(seen, al) = InFlight(seen, al)
    BY <1>1 DEF Delivered, Undelivered
  <2>3. QED
    BY <2>1, <2>2
<1>5. Current(seen, InFlight(seen, al))
  BY <1>2, <1>4, RememberedCurrent
<1>6. QED
  BY <1>1, <1>2, <1>3, <1>5 DEF al, d, seen

\* A settling request that is fresh keeps the balance and every settlement.
LEMMA SettlingCommitLedger ==
    ASSUME RaceTypes, LedgerInv, NEW c \in Clients,
           Fresh(request[c], allocation, resource, journal),
           CommitAdvance(c) \/ CommitRecordReturn(c) \/ CommitCancel(c) \/ CommitDeleteAlert(c)
    PROVE  LedgerInv' /\ SettledKept
<1> DEFINE req == request[c]
<1>1. TypeOK /\ RequestTyped(req) /\ Fresh(req, allocation, resource, journal)
  BY DEF RaceTypes
<1>2. CASE CommitAdvance(c)
  <2>1. /\ req.op = "Advance" /\ AdvanceTx(req.allocation, req.next)
        /\ req.allocation \in Allocations /\ req.next \in {"DELIVERED", "RETURN_AGREED"}
    BY <1>1, <1>2 DEF CommitAdvance, Serving, RequestTyped
  <2>2. allocation[req.allocation].status \in {"DELIVERY_AGREED", "DELIVERED"}
    BY <1>1, <2>1, AdvancesFrom DEF Fresh, AdvanceFresh
  <2>3. QED
    BY <2>1, <2>2, AdvanceInv, AdvanceKeeps
<1>3. CASE CommitRecordReturn(c)
  <2> DEFINE a == req.allocation
             d == req.decision
             seen == req.seenRow
  <2>1. /\ req.op = "RecordReturn" /\ "seenEvents" \in DOMAIN req
        /\ RecordReturnTx(a, d, seen, req.seenEvents)
        /\ a \in Allocations /\ d \in Decisions
        /\ seen.status \in {"RETURN_AGREED", "PARTIALLY_RETURNED"}
    BY <1>1, <1>3 DEF CommitRecordReturn, Serving, HasRead, RequestTyped
  <2>2. /\ allocation[a].status = seen.status
        /\ Detached(seen.resourceId, allocation[a].resourceId, resource)
        /\ Accounted(journal[a]) + Accounted(d) <= allocation[a].quantity
        /\ req.seenEvents = SumReturnEvents(journal[a], d)
    BY <1>1, <2>1 DEF Fresh, RecordReturnFresh
  <2>3. seen.resourceId = allocation[a].resourceId
    BY <2>1, <2>2, NullIsNoKey DEF RecordReturnTx, Detached, ResourceExists
  <2>4. IsActive(allocation[a]) /\ RecordReturnTx(a, d, seen, SumReturnEvents(journal[a], d))
    BY <2>1, <2>2 DEF IsActive, ActiveStatus
  <2> HIDE DEF a, d, seen
  <2>5. LedgerInv'
    BY <2>1, <2>2, <2>3, <2>4, RecordReturnInv
  <2>6. SettledKept
    BY <2>1, <2>2, <2>4, RecordReturnKeeps
  <2>7. QED
    BY <2>5, <2>6
<1>4. CASE CommitCancel(c)
  BY <1>4, CancelSeesCurrent, CancelInv, CancelKeeps
<1>5. CASE CommitDeleteAlert(c)
  <2> DEFINE al == req.alert
             seen == req.seenRows
  <2>1. /\ req.op = "DeleteAlert" /\ "seenRows" \in DOMAIN req
        /\ DeleteAlertTx(al, seen) /\ al \in Alerts
    BY <1>1, <1>5 DEF CommitDeleteAlert, Serving, HasRead, RequestTyped
  <2>2. /\ Remembered(seen, allocation, resource)
        /\ InFlight(seen, al) = InFlight(allocation, al)
    BY <1>1, <2>1 DEF Fresh, DeleteAlertFresh
  <2> HIDE DEF al, seen
  <2>3. \A a \in InFlight(seen, al) :
           seen[a].resourceId # Null => ResourceExists(seen[a].resourceId)
    BY <2>1 DEF DeleteAlertTx
  <2>4. Current(seen, InFlight(seen, al))
    BY <2>2, <2>3, RememberedCurrent
  <2>5. QED
    BY <1>1, <2>1, <2>2, <2>4, DeleteAlertInv, DeleteAlertKeeps
<1>6. QED
  BY <1>2, <1>3, <1>4, <1>5

\* The increments and the checks of the other requests keep them too, however
\* stale what they have read.
LEMMA PlainCommitLedger ==
    ASSUME RaceTypes, LedgerInv, NEW c \in Clients,
           \/ CommitAllocate(c) \/ CommitPatchAlert(c) \/ CommitPatchNeed(c)
           \/ CommitDeleteNeed(c) \/ CommitPatchResource(c) \/ CommitDeleteResource(c)
    PROVE  LedgerInv' /\ SettledKept
<1> DEFINE req == request[c]
<1>1. RequestTyped(req) /\ allocation \in [Allocations -> AllocationTable]
  BY DEF RaceTypes, TypeOK
<1>2. CASE CommitAllocate(c)
  <2>1. /\ req.user \in Users /\ req.need \in Needs /\ req.resource \in Resources
        /\ req.quantity \in Quantity /\ req.seenNeed.status \in NeedStatus
    BY <1>1, <1>2 DEF CommitAllocate, Serving, RequestTyped, NeedStatus
  <2>2. PICK a \in Allocations : AllocateTx(req.user, req.need, req.resource, a, req.quantity,
                                            req.seenNeed, req.seenResource)
    BY <1>2 DEF CommitAllocate
  <2>3. QED
    BY <2>1, <2>2, AllocateInv, AllocateKeeps
<1>3. CASE CommitPatchAlert(c)
  <2>1. /\ PatchAlertTx(req.alert, req.status, req.reopened)
        /\ req.alert \in Alerts /\ req.status \in AlertStatus
        /\ \A n \in DOMAIN req.reopened : req.reopened[n].covered \in Nat
    BY <1>1, <1>3 DEF CommitPatchAlert, Serving, HasRead, RequestTyped
  <2>2. LedgerInv'
    BY <2>1, PatchAlertInv
  <2>3. allocation' = allocation
    BY <2>1 DEF PatchAlertTx
  <2>4. QED
    BY <2>2, <2>3, SameSettlement
<1>4. CASE CommitPatchNeed(c)
  <2>1. /\ PatchNeedTx(req.need, req.quantity, req.status) /\ req.need \in Needs
        /\ req.quantity \in Quantity \cup {Null} /\ req.status \in {"CLOSED", "CANCELLED", Null}
    BY <1>1, <1>4 DEF CommitPatchNeed, Serving, RequestTyped
  <2>2. LedgerInv'
    BY <2>1, PatchNeedInv
  <2>3. allocation' = allocation
    BY <2>1 DEF PatchNeedTx
  <2>4. QED
    BY <2>2, <2>3, SameSettlement
<1>5. CASE CommitDeleteNeed(c)
  <2>1. DeleteNeedTx(req.need) /\ req.need \in Needs
    BY <1>1, <1>5 DEF CommitDeleteNeed, Serving, RequestTyped
  <2>2. LedgerInv'
    BY <2>1, DeleteNeedInv
  <2>3. \A a \in Allocations :
           allocation'[a] \in {allocation[a], [allocation[a] EXCEPT !.needId = Null]}
    BY <2>1 DEF DeleteNeedTx
  <2>4. SettledKept
    BY <1>1, <2>3, SameSettlement DEF AllocationTable
  <2>5. QED
    BY <2>2, <2>4
<1>6. CASE CommitPatchResource(c)
  <2>1. /\ PatchResourceTx(req.resource, req.quantity)
        /\ req.resource \in Resources /\ req.quantity \in 0 .. MaxStock
    BY <1>1, <1>6 DEF CommitPatchResource, Serving, RequestTyped
  <2>2. LedgerInv'
    BY <2>1, PatchResourceInv
  <2>3. allocation' = allocation
    BY <2>1 DEF PatchResourceTx
  <2>4. QED
    BY <2>2, <2>3, SameSettlement
<1>7. CASE CommitDeleteResource(c)
  <2>1. DeleteResourceTx(req.resource) /\ req.resource \in Resources
    BY <1>1, <1>7 DEF CommitDeleteResource, Serving, RequestTyped
  <2>2. LedgerInv'
    BY <2>1, DeleteResourceInv
  <2>3. \A a \in Allocations :
           allocation'[a] \in {allocation[a], [allocation[a] EXCEPT !.resourceId = Null]}
    BY <2>1 DEF DeleteResourceTx
  <2>4. SettledKept
    BY <1>1, <2>3, SameSettlement DEF AllocationTable
  <2>5. QED
    BY <2>2, <2>4
<1>8. QED
  BY <1>2, <1>3, <1>4, <1>5, <1>6, <1>7

LEMMA StepLedger ==
    ASSUME RaceTypes, RaceTypes', Uncontended, RaceLedgerInv, [RacesNext]_racesVars
    PROVE  RaceLedgerInv' /\ (SettledKept \/ UNCHANGED vars)
<1> USE DEF RaceLedgerInv
<1>1. \A e \in Clients : Fresh(request'[e], allocation', resource', journal')
  BY StepFresh
<1>2. LedgerInv' /\ (SettledKept \/ UNCHANGED vars)
  <2>1. CASE UNCHANGED vars
    BY <2>1, LedgerUntouched DEF vars, RaceTypes
  <2>2. ASSUME NEW c \in Clients, Commit(c) PROVE LedgerInv' /\ SettledKept
    <3>1. LedgerInv /\ Fresh(request[c], allocation, resource, journal)
      OBVIOUS
    <3>2. CASE CommitAdvance(c) \/ CommitRecordReturn(c) \/ CommitCancel(c) \/ CommitDeleteAlert(c)
      BY <3>1, <3>2, SettlingCommitLedger
    <3>3. CASE \/ CommitAllocate(c) \/ CommitPatchAlert(c) \/ CommitPatchNeed(c)
               \/ CommitDeleteNeed(c) \/ CommitPatchResource(c) \/ CommitDeleteResource(c)
      BY <3>1, <3>3, PlainCommitLedger
    <3>4. QED
      BY <2>2, <3>2, <3>3 DEF Commit
  <2>3. QED
    BY <2>1, <2>2, BeginPrepares, ReadPrepares DEF RacesNext, Abort, racesVars, Prepares
<1>3. QED
  BY <1>1, <1>2

LEMMA InitLedger ==
    ASSUME RacesInit
    PROVE  RaceLedgerInv
<1>1. TypeOK /\ request = [c \in Clients |-> Idle]
  BY InitTypes DEF RaceTypes, RacesInit
<1>2. allocation = [a \in Allocations |-> NoAllocation("NEW")]
  BY DEF RacesInit
<1>3. StatusMatchesJournal
  BY <1>2 DEF RacesInit, StatusMatchesJournal, NoAllocation, AllocationRow, NoReturns, Returned,
       Accounted
<1>4. LedgerBalanced
  <2>1. \A r \in Resources : \A a \in Allocations : Held(allocation, r)[a] = 0
    BY <1>2 DEF NoAllocation, AllocationRow, Held, IsActive, ActiveStatus
  <2>2. \A r \in Resources : Total(Held(allocation, r)) = 0
    <3> TAKE r \in Resources
    <3>1. Held(allocation, r) \in [Allocations -> Nat]
      BY <1>1, HeldIsNat DEF TypeOK
    <3>2. QED
      BY <2>1, <3>1, KeysFinite, TotalZero
  <2>3. QED
    BY <2>2 DEF LedgerBalanced, RacesInit, ResourceRow
<1>5. NewResourceEmpty
  BY DEF RacesInit, NewResourceEmpty, ResourceRow
<1>6. \A c \in Clients : Fresh(request[c], allocation, resource, journal)
  BY <1>1 DEF Idle, Fresh, AdvanceFresh, RecordReturnFresh, CancelFresh, DeleteAlertFresh
<1>7. QED
  BY <1>1, <1>3, <1>4, <1>5, <1>6 DEF RaceLedgerInv, LedgerInv

\* While at most one client settles, what it has read of the allocations holds
\* until it writes, so that no other request can make it write a wrong balance.
LEMMA RacesLedgerInvariant == RacesSpec => [](RaceTypes /\ (Uncontended => RaceLedgerInv))
<1>1. RacesInit => RaceTypes /\ (Uncontended => RaceLedgerInv)
  BY InitTypes, InitLedger
<1>2. ASSUME RaceTypes /\ (Uncontended => RaceLedgerInv), [RacesNext]_racesVars
      PROVE  (RaceTypes /\ (Uncontended => RaceLedgerInv))'
  <2>1. RaceTypes'
    BY <1>2, StepTypes
  <2>2. Uncontended' <=> Uncontended
    BY <1>2 DEF Uncontended, OneSettles, AllocatesAlone, RacesNext, racesVars
  <2>3. QED
    BY <1>2, <2>1, <2>2, StepLedger
<1>3. QED
  BY <1>1, <1>2, PTL DEF RacesSpec

\* Overlapping donations, edits and deletes keep each counter at what the
\* allocations in flight hold (api/alerts/[id]/allocations/route.ts:174-200),
\* whatever they have read, while one client at a time settles.
THEOREM RacesLedgerBalanced == RacesSpec => []LedgerBalancedUnlessContended
<1>1. RaceTypes /\ (Uncontended => RaceLedgerInv) => LedgerBalancedUnlessContended
  BY DEF RaceLedgerInv, LedgerInv, LedgerBalancedUnlessContended
<1>2. QED
  BY <1>1, RacesLedgerInvariant, PTL

\* No commit then takes a settlement back, whatever landed between a settling
\* request's reads and its writes (api/allocations/[id]/return-events/route.ts:90-131).
THEOREM RacesSettlementsKept == RacesSpec => SettlementsKeptUnlessContended
<1>1. RaceTypes /\ (Uncontended => RaceLedgerInv) /\ [RacesNext]_racesVars
         => [Uncontended => SettledKept]_vars
  <2> SUFFICES ASSUME RaceTypes, Uncontended => RaceLedgerInv, [RacesNext]_racesVars, Uncontended
               PROVE  SettledKept \/ UNCHANGED vars
    OBVIOUS
  <2>1. RaceTypes'
    BY StepTypes
  <2>2. QED
    BY <2>1, StepLedger
<1>2. QED
  BY <1>1, RacesLedgerInvariant, PTL DEF RacesSpec, SettlementsKeptUnlessContended

-----------------------------------------------------------------------------
(* Nothing in flight is orphaned, as long as deletes and donations do not  *)
(* overlap.                                                                *)

\* Without a donation, no row starts to be in flight, none moves to another
\* need, and no reservation grows.
LEMMA NothingNewInFlight ==
    ASSUME RaceTypes, NEW c \in Clients, Fresh(request[c], allocation, resource, journal),
           Commit(c), request[c].op # "Allocate"
    PROVE  /\ \A a \in Allocations : IsActive(allocation'[a]) =>
                 /\ IsActive(allocation[a])
                 /\ allocation'[a].needId \in {allocation[a].needId, Null}
           /\ \A r \in Resources : resource'[r].reservedQuantity <= resource[r].reservedQuantity
<1> DEFINE req == request[c]
<1>1. /\ RequestTyped(req) /\ resource \in [Resources -> ResourceTable]
      /\ allocation \in [Allocations -> AllocationTable]
      /\ \A r \in Resources : resource[r].reservedQuantity \in Nat
  BY DEF RaceTypes, TypeOK, ResourceTable
<1>2. CASE CommitAdvance(c)
  <2>1. /\ req.op = "Advance" /\ AdvanceTx(req.allocation, req.next)
        /\ req.allocation \in Allocations
    BY <1>1, <1>2 DEF CommitAdvance, Serving, RequestTyped
  <2>2. IsActive(allocation[req.allocation])
    BY <2>1, AdvancesFrom DEF Fresh, AdvanceFresh, IsActive, ActiveStatus
  <2>3. QED
    BY <1>1, <2>1, <2>2 DEF AdvanceTx, AllocationTable
<1>3. CASE CommitRecordReturn(c)
  <2>1. /\ req.op = "RecordReturn" /\ req.allocation \in Allocations /\ req.decision \in Decisions
        /\ RecordReturnTx(req.allocation, req.decision, req.seenRow, req.seenEvents)
        /\ req.seenRow.status \in {"RETURN_AGREED", "PARTIALLY_RETURNED"}
    BY <1>1, <1>3 DEF CommitRecordReturn, Serving, RequestTyped
  <2>2. IsActive(allocation[req.allocation])
    BY <2>1 DEF Fresh, RecordReturnFresh, IsActive, ActiveStatus
  <2>3. \A a \in Allocations : allocation'[a].needId = allocation[a].needId
    BY <1>1, <2>1 DEF RecordReturnTx, SettledRow, AllocationTable
  <2>4. \A a \in Allocations \ {req.allocation} : allocation'[a] = allocation[a]
    BY <1>1, <2>1 DEF RecordReturnTx
  <2>5. \A r \in Resources : resource'[r].reservedQuantity <= resource[r].reservedQuantity
    <3>1. Accounted(req.decision) \in Nat
      BY <2>1, DecisionsAreTyped
    <3>2. \A r \in Resources : resource'[r] \in
             {resource[r], ResourceAfterReturn(resource[r], Accounted(req.decision),
                                               req.decision.quantityNotReturnable)}
      BY <2>1 DEF RecordReturnTx
    <3>3. \A r \in Resources : resource'[r].reservedQuantity \in
             {resource[r].reservedQuantity,
              resource[r].reservedQuantity - Accounted(req.decision)}
      <4> TAKE r \in Resources
      <4>1. resource[r] \in ResourceTable
        BY <1>1
      <4>2. ResourceAfterReturn(resource[r], Accounted(req.decision),
               req.decision.quantityNotReturnable).reservedQuantity
             = resource[r].reservedQuantity - Accounted(req.decision)
        BY <4>1 DEF ResourceAfterReturn, ResourceTable
      <4>3. QED
        BY <3>2, <4>2
    <3>4. QED
      BY <1>1, <3>1, <3>3
  <2>6. QED
    BY <2>2, <2>3, <2>4, <2>5
<1>4. CASE CommitCancel(c)
  <2> DEFINE al == req.alert
             d == req.decisions
             seen == req.seenRows
             withdrawn == Undelivered(seen, al)
             released == [a \in Allocations |->
                IF a \in DOMAIN d THEN Accounted(d[a])
                ELSE IF a \in withdrawn THEN seen[a].quantity ELSE 0]
             writtenOff == [a \in Allocations |->
                IF a \in DOMAIN d THEN d[a].quantityNotReturnable ELSE 0]
  <2>1. /\ req.op = "Cancel" /\ CancelTx(al, d, seen, journal) /\ RowsTyped(seen)
        /\ d \in [Delivered(seen, al) -> Decisions] /\ Current(seen, InFlight(seen, al))
    BY <1>1, <1>4, CancelSeesCurrent DEF RequestTyped
  <2>2. /\ allocation' = [a \in Allocations |->
              IF a \in DOMAIN d
              THEN SettledRow(allocation[a], SumReturnEvents(journal[a], d[a]), seen[a].status)
              ELSE IF a \in withdrawn THEN [allocation[a] EXCEPT !.status = "CANCELLED"]
              ELSE allocation[a]]
        /\ resource' = [r \in Resources |->
              ResourceAfterReturn(resource[r], OnResource(released, seen, r),
                                  OnResource(writtenOff, seen, r))]
    BY <2>1 DEF CancelTx
  <2>3. released \in [Allocations -> Nat]
    BY <2>1, DecisionsAreTyped DEF RowsTyped, AllocationTable
  <2>4. \A a \in DOMAIN d : IsActive(allocation[a])
    BY <2>1 DEF Delivered, InFlight, IsActive, Current
  <2> HIDE DEF d, withdrawn, released, writtenOff, seen
  <2>5. ASSUME NEW a \in Allocations, IsActive(allocation'[a])
        PROVE  IsActive(allocation[a]) /\ allocation'[a].needId = allocation[a].needId
    <3>1. allocation[a] \in AllocationTable
      BY <1>1
    <3>2. QED
      BY <2>2, <2>4, <2>5, <3>1 DEF SettledRow, IsActive, ActiveStatus, AllocationTable
  <2>6. \A r \in Resources : resource'[r].reservedQuantity <= resource[r].reservedQuantity
    <3>1. \A r \in Resources : OnResource(released, seen, r) \in Nat
      BY <2>3, OnResourceIsNat
    <3>2. \A r \in Resources : resource'[r].reservedQuantity
             = resource[r].reservedQuantity - OnResource(released, seen, r)
      BY <1>1, <2>2 DEF ResourceAfterReturn, ResourceTable
    <3>3. QED
      BY <1>1, <3>1, <3>2
  <2>7. QED
    BY <2>5, <2>6
<1>5. CASE CommitDeleteAlert(c)
  <2> DEFINE al == req.alert
             seen == req.seenRows
             released == [a \in Allocations |->
                IF a \in InFlight(seen, al) THEN Outstanding(seen[a]) ELSE 0]
  <2>1. RowsTyped(seen) /\ DeleteAlertTx(al, seen)
    BY <1>1, <1>5 DEF CommitDeleteAlert, Serving, HasRead, RequestTyped
  <2>2. /\ resource' = [r \in Resources |->
              ResourceAfterReturn(resource[r], OnResource(released, seen, r), 0)]
        /\ \A a \in Allocations : allocation'[a] \in {allocation[a], NoAllocation("GONE")}
    BY <2>1 DEF DeleteAlertTx
  <2>3. released \in [Allocations -> Nat]
    BY <2>1 DEF RowsTyped, AllocationTable, AllocationCheck, Outstanding
  <2> HIDE DEF released, seen
  <2>4. \A r \in Resources : OnResource(released, seen, r) \in Nat
    BY <2>3, OnResourceIsNat
  <2>5. \A r \in Resources : resource'[r].reservedQuantity
           = resource[r].reservedQuantity - OnResource(released, seen, r)
    BY <1>1, <2>2 DEF ResourceAfterReturn, ResourceTable
  <2>6. \A a \in Allocations : IsActive(allocation'[a]) => allocation'[a] = allocation[a]
    BY <2>2 DEF NoAllocation, AllocationRow, IsActive, ActiveStatus
  <2>7. QED
    BY <1>1, <2>4, <2>5, <2>6
<1>6. CASE CommitDeleteNeed(c)
  <2>1. /\ resource' = resource
        /\ \A a \in Allocations : allocation'[a] \in {allocation[a], [allocation[a] EXCEPT !.needId = Null]}
    BY <1>6 DEF CommitDeleteNeed, DeleteNeedTx
  <2>2. QED
    BY <1>1, <2>1 DEF AllocationTable, IsActive
<1>7. CASE CommitDeleteResource(c)
  <2>1. /\ \A r \in Resources : resource'[r] \in {resource[r], NoResource("GONE")}
        /\ \A a \in Allocations :
              allocation'[a] \in {allocation[a], [allocation[a] EXCEPT !.resourceId = Null]}
    BY <1>1, <1>7 DEF CommitDeleteResource, DeleteResourceTx
  <2>2. QED
    BY <1>1, <2>1 DEF AllocationTable, IsActive, NoResource, ResourceRow
<1>8. CASE CommitPatchResource(c)
  <2>1. /\ \A r \in Resources : resource'[r].reservedQuantity = resource[r].reservedQuantity
        /\ allocation' = allocation
    BY <1>1, <1>8 DEF CommitPatchResource, PatchResourceTx, ResourceTable
  <2>2. QED
    BY <1>1, <2>1
<1>9. CASE CommitPatchAlert(c) \/ CommitPatchNeed(c)
  BY <1>1, <1>9 DEF CommitPatchAlert, PatchAlertTx, CommitPatchNeed, PatchNeedTx
<1>10. ~CommitAllocate(c)
  BY DEF CommitAllocate, Serving
<1>11. QED
  BY <1>2, <1>3, <1>4, <1>5, <1>6, <1>7, <1>8, <1>9, <1>10 DEF Commit

\* What a delete has checked stays so: whoever may delete is the only one to allocate.
LEMMA StepDeleteFresh ==
    ASSUME RaceTypes, UncontendedDeletes, [RacesNext]_racesVars, NEW e \in Clients,
           \A c \in Clients : Fresh(request[c], allocation, resource, journal)
                              /\ DeleteFresh(request[c], allocation, resource)
    PROVE  DeleteFresh(request'[e], allocation', resource')
<1>1. CASE UNCHANGED racesVars
  BY <1>1 DEF racesVars, vars
<1>2. ASSUME NEW c \in Clients, Begin(c) \/ Read(c)
      PROVE  DeleteFresh(request'[e], allocation', resource')
  <2>1. PICK req : Prepares(c, req)
    BY <1>2, BeginPrepares, ReadPrepares
  <2>2. /\ UNCHANGED vars /\ request'[c] = req
        /\ \A b \in Clients \ {c} : request'[b] = request[b]
    BY <2>1 DEF Prepares, RaceTypes
  <2>3. CASE BeginDeleteNeed(c) \/ BeginDeleteResource(c)
    <3>1. DeleteFresh(req, allocation, resource)
      BY <2>2, <2>3 DEF BeginDeleteNeed, DeleteNeedAccepts, BeginDeleteResource,
           DeleteResourceAccepts, Start, RaceTypes, DeleteFresh
    <3>2. QED
      BY <2>2, <3>1 DEF vars
  <2>4. CASE ~(BeginDeleteNeed(c) \/ BeginDeleteResource(c))
    <3>1. req.op \notin {"DeleteNeed", "DeleteResource"}
      BY <1>2, <2>2, <2>4
         DEF Begin, Read, Start, BeginAllocate, BeginAdvance, BeginRecordReturn, BeginCancel,
             BeginPatchAlert, BeginDeleteAlert, BeginPatchNeed, BeginPatchResource,
             ReadReturnEvents, ReadCancelEvents, ReadDoomedAllocations, ReadClosedNeeds, RaceTypes
    <3>2. QED
      BY <2>2, <3>1 DEF vars, DeleteFresh
  <2>5. QED
    BY <2>3, <2>4
<1>3. ASSUME NEW c \in Clients, Commit(c) \/ Abort(c)
      PROVE  DeleteFresh(request'[e], allocation', resource')
  <2>1. request' = [request EXCEPT ![c] = Idle]
    BY <1>3, CommitTypes DEF Abort, Done
  <2>2. /\ request'[c] = Idle /\ \A b \in Clients \ {c} : request'[b] = request[b]
    BY <2>1 DEF RaceTypes
  <2>3. CASE e = c
    BY <2>2, <2>3 DEF Idle, DeleteFresh
  <2>4. CASE e # c /\ Abort(c)
    BY <2>2, <2>4 DEF Abort, vars
  <2>5. CASE e # c /\ Commit(c)
    <3> DEFINE req == request[e]
    <3>1. /\ request'[e] = req /\ RequestTyped(req) /\ DeleteFresh(req, allocation, resource)
          /\ \A a \in Allocations : allocation[a].needId \in Needs \cup {Null}
          /\ \A r \in Resources : resource[r].reservedQuantity \in Nat
          /\ \A r \in Resources : resource'[r].reservedQuantity \in Nat
      BY <2>2, <2>5, CommitTypes DEF RaceTypes, TypeOK, AllocationTable, ResourceTable
    <3>2. CASE req.op \in {"DeleteNeed", "DeleteResource"}
      <4>1. req.op \in issues[e] /\ request[c].op \in issues[c] \cup {"Idle"}
        BY <3>2 DEF RaceTypes, Sent
      <4>2. request[c].op # "Allocate"
        BY <2>5, <3>2, <4>1 DEF UncontendedDeletes, AllocatesAlone
      <4>3. /\ \A a \in Allocations : IsActive(allocation'[a]) =>
                  /\ IsActive(allocation[a])
                  /\ allocation'[a].needId \in {allocation[a].needId, Null}
            /\ \A r \in Resources : resource'[r].reservedQuantity <= resource[r].reservedQuantity
        BY <2>5, <4>2, NothingNewInFlight
      <4>4. ASSUME req.op = "DeleteNeed", NEW a \in Allocations, allocation'[a].needId = req.need
            PROVE  ~IsActive(allocation'[a])
        BY <3>1, <4>3, <4>4, NullIsNoKey DEF RequestTyped, DeleteFresh
      <4>5. req.op = "DeleteResource" => resource'[req.resource].reservedQuantity <= 0
        BY <3>1, <4>3 DEF RequestTyped, DeleteFresh
      <4>6. QED
        BY <3>1, <4>4, <4>5 DEF DeleteFresh
    <3>3. CASE req.op \notin {"DeleteNeed", "DeleteResource"}
      BY <3>1, <3>3 DEF DeleteFresh
    <3>4. QED
      BY <3>2, <3>3
  <2>6. QED
    BY <1>3, <2>3, <2>4, <2>5
<1>4. QED
  BY <1>1, <1>2, <1>3 DEF RacesNext

\* A commit that creates no need and deletes no alert.
LEMMA NeedsStillHaveAlerts ==
    ASSUME NeedsHaveAlerts,
           \A al \in Alerts : AlertExists(al) => AlertExists(al)',
           \A n \in Needs : NeedExists(n)' => NeedExists(n)
    PROVE  NeedsHaveAlerts'
BY ImmutableColumns DEF NeedsHaveAlerts

LEMMA CommitFlight ==
    ASSUME RaceTypes, LedgerInv, FlightInv, NeedsHaveAlerts, NEW c \in Clients,
           Fresh(request[c], allocation, resource, journal),
           DeleteFresh(request[c], allocation, resource), Commit(c)
    PROVE  FlightInv' /\ NeedsHaveAlerts'
<1> DEFINE req == request[c]
<1>1. TypeOK /\ RequestTyped(req) /\ need \in [Needs -> NeedTable]
  BY DEF RaceTypes, TypeOK
<1>2. CASE CommitAllocate(c)
  <2>1. /\ req.need \in Needs /\ req.resource \in Resources /\ req.quantity \in Quantity
        /\ req.seenNeed.status \in NeedStatus
    BY <1>1, <1>2 DEF CommitAllocate, Serving, RequestTyped, NeedStatus
  <2>2. PICK a \in Allocations : AllocateTx(req.user, req.need, req.resource, a, req.quantity,
                                            req.seenNeed, req.seenResource)
    BY <1>2 DEF CommitAllocate
  <2>3. alert' = alert /\ AlertExists(needAlert[req.need])
    BY <2>1, <2>2 DEF AllocateTx, NeedsHaveAlerts
  <2>4. FlightInv' /\ \A m \in Needs : NeedExists(m)' => NeedExists(m)
    BY <1>1, <2>1, <2>2, <2>3, AllocateAnchored
  <2>5. QED
    BY <2>3, <2>4, NeedsStillHaveAlerts DEF AlertExists
<1>3. CASE CommitAdvance(c)
  <2>1. /\ req.op = "Advance" /\ AdvanceTx(req.allocation, req.next)
        /\ req.allocation \in Allocations /\ req.next \in {"DELIVERED", "RETURN_AGREED"}
    BY <1>1, <1>3 DEF CommitAdvance, Serving, RequestTyped
  <2>2. allocation[req.allocation].status \in {"DELIVERY_AGREED", "DELIVERED"}
    BY <2>1, AdvancesFrom DEF Fresh, AdvanceFresh
  <2>3. UNCHANGED <<alert, need>>
    BY <2>1 DEF AdvanceTx
  <2>4. QED
    BY <1>1, <2>1, <2>2, <2>3, AdvanceAnchored, NeedsStillHaveAlerts DEF AlertExists, NeedExists
<1>4. CASE CommitRecordReturn(c)
  <2>1. /\ req.op = "RecordReturn" /\ req.allocation \in Allocations /\ req.decision \in Decisions
        /\ RecordReturnTx(req.allocation, req.decision, req.seenRow, req.seenEvents)
        /\ req.seenRow.status \in {"RETURN_AGREED", "PARTIALLY_RETURNED"}
    BY <1>1, <1>4 DEF CommitRecordReturn, Serving, RequestTyped
  <2>2. IsActive(allocation[req.allocation])
    BY <2>1 DEF Fresh, RecordReturnFresh, IsActive, ActiveStatus
  <2>3. UNCHANGED <<alert, need>>
    BY <2>1 DEF RecordReturnTx
  <2>4. FlightInv'
    BY <1>1, <2>1, <2>2, RecordReturnAnchored
  <2>5. QED
    BY <2>3, <2>4, NeedsStillHaveAlerts DEF AlertExists, NeedExists
<1>5. CASE CommitCancel(c)
  <2>1. /\ FlightInv' /\ \A b \in Alerts : AlertExists(b) => AlertExists(b)'
        /\ \A n \in Needs : NeedExists(n)' => NeedExists(n)
    BY <1>1, <1>5, CancelSeesCurrent, CancelAnchored
  <2>2. QED
    BY <2>1, NeedsStillHaveAlerts
<1>6. CASE CommitPatchAlert(c)
  <2>1. PatchAlertTx(req.alert, req.status, req.reopened)
        /\ req.alert \in Alerts /\ req.status \in AlertStatus
    BY <1>1, <1>6 DEF CommitPatchAlert, Serving, RequestTyped
  <2>2. /\ FlightInv' /\ \A b \in Alerts : AlertExists(b) => AlertExists(b)'
        /\ \A n \in Needs : NeedExists(n)' => NeedExists(n)
    BY <1>1, <2>1, PatchAlertAnchored
  <2>3. QED
    BY <2>2, NeedsStillHaveAlerts
<1>7. CASE CommitDeleteAlert(c)
  <2>1. DeleteAlertTx(req.alert, req.seenRows) /\ req.alert \in Alerts
    BY <1>1, <1>7 DEF CommitDeleteAlert, Serving, RequestTyped
  <2>2. FlightInv'
    BY <1>1, <2>1, DeleteAlertAnchored
  <2>3. /\ alert' = [alert EXCEPT ![req.alert] = "GONE"]
        /\ need' = [n \in Needs |->
              IF needAlert[n] = req.alert /\ NeedExists(n) THEN NoNeed("GONE") ELSE need[n]]
    BY <2>1 DEF DeleteAlertTx
  <2>4. ASSUME NEW n \in Needs, NeedExists(n)' PROVE AlertExists(needAlert[n])'
    <3>1. need'[n] = need[n] /\ NeedExists(n) /\ needAlert[n] # req.alert
      BY <2>3, <2>4 DEF NeedExists, NoNeed, NeedRow, NeedStatus, DerivedNeedStatus
    <3>2. alert'[needAlert[n]] = alert[needAlert[n]]
      BY <1>1, <2>3, <3>1, ImmutableColumns DEF TypeOK
    <3>3. QED
      BY <3>1, <3>2 DEF NeedsHaveAlerts, AlertExists
  <2>5. QED
    BY <2>2, <2>4 DEF NeedsHaveAlerts
<1>8. CASE CommitPatchNeed(c)
  <2>1. /\ PatchNeedTx(req.need, req.quantity, req.status) /\ req.need \in Needs
        /\ req.status \in {"CLOSED", "CANCELLED", Null}
    BY <1>1, <1>8 DEF CommitPatchNeed, Serving, RequestTyped
  <2>2. alert' = alert
    BY <2>1 DEF PatchNeedTx
  <2>3. FlightInv' /\ \A m \in Needs : NeedExists(m)' => NeedExists(m)
    BY <1>1, <2>1, PatchNeedAnchored
  <2>4. QED
    BY <2>2, <2>3, NeedsStillHaveAlerts DEF AlertExists
<1>9. CASE CommitDeleteNeed(c)
  <2>1. /\ DeleteNeedTx(req.need) /\ req.need \in Needs
        /\ \A a \in Allocations : allocation[a].needId = req.need => ~IsActive(allocation[a])
    BY <1>1, <1>9 DEF CommitDeleteNeed, Serving, RequestTyped, DeleteFresh
  <2>2. FlightInv'
    BY <1>1, <2>1, DeleteNeedAnchored
  <2>3. alert' = alert /\ \A m \in Needs : NeedExists(m)' => NeedExists(m)
    BY <1>1, <2>1
       DEF DeleteNeedTx, NeedExists, NoNeed, NeedRow, NeedStatus, DerivedNeedStatus
  <2>4. QED
    BY <2>2, <2>3, NeedsStillHaveAlerts DEF AlertExists
<1>10. CASE CommitPatchResource(c)
  <2>1. PatchResourceTx(req.resource, req.quantity) /\ req.resource \in Resources
    BY <1>1, <1>10 DEF CommitPatchResource, Serving, RequestTyped
  <2>2. FlightInv' /\ UNCHANGED <<alert, need>>
    BY <1>1, <2>1, PatchResourceAnchored DEF PatchResourceTx
  <2>3. QED
    BY <2>2, NeedsStillHaveAlerts DEF AlertExists, NeedExists
<1>11. CASE CommitDeleteResource(c)
  <2>1. /\ DeleteResourceTx(req.resource) /\ req.resource \in Resources
        /\ resource[req.resource].reservedQuantity <= 0
    BY <1>1, <1>11 DEF CommitDeleteResource, Serving, RequestTyped, DeleteFresh
  <2>2. FlightInv'
    BY <2>1, DeleteResourceAnchored
  <2>3. UNCHANGED <<alert, need>>
    BY <2>1 DEF DeleteResourceTx
  <2>4. QED
    BY <2>2, <2>3, NeedsStillHaveAlerts DEF AlertExists, NeedExists
<1>12. QED
  BY <1>2, <1>3, <1>4, <1>5, <1>6, <1>7, <1>8, <1>9, <1>10, <1>11 DEF Commit

LEMMA StepFlight ==
    ASSUME RaceTypes, UncontendedDeletes, RaceLedgerInv, RaceFlightInv, [RacesNext]_racesVars
    PROVE  RaceFlightInv'
<1> USE DEF RaceLedgerInv, RaceFlightInv
<1>1. \A e \in Clients : DeleteFresh(request'[e], allocation', resource')
  BY StepDeleteFresh
<1>2. FlightInv' /\ NeedsHaveAlerts'
  <2>1. CASE UNCHANGED vars
    BY <2>1 DEF vars, FlightInv, Anchored, NeedsHaveAlerts, AlertExists, NeedExists, ResourceExists
  <2>2. ASSUME NEW c \in Clients, Commit(c) PROVE FlightInv' /\ NeedsHaveAlerts'
    <3>1. /\ LedgerInv /\ FlightInv /\ NeedsHaveAlerts
          /\ Fresh(request[c], allocation, resource, journal)
          /\ DeleteFresh(request[c], allocation, resource)
      OBVIOUS
    <3>2. QED
      BY <2>2, <3>1, CommitFlight
  <2>3. QED
    BY <2>1, <2>2, BeginPrepares, ReadPrepares DEF RacesNext, Abort, racesVars, Prepares
<1>3. QED
  BY <1>1, <1>2

LEMMA InitFlight ==
    ASSUME RacesInit
    PROVE  RaceFlightInv
<1>1. FlightInv
  BY DEF RacesInit, FlightInv, Anchored, NoAllocation, AllocationRow, IsActive, ActiveStatus
<1>2. NeedsHaveAlerts
  BY ImmutableColumns DEF RacesInit, NeedsHaveAlerts, AlertExists, AlertStatus
<1>3. \A c \in Clients : DeleteFresh(request[c], allocation, resource)
  BY DEF RacesInit, Idle, DeleteFresh
<1>4. QED
  BY <1>1, <1>2, <1>3 DEF RaceFlightInv

\* With deletes and donations kept apart, what a delete has checked still holds
\* when it commits (api/needs/[id]/route.ts:179-189, api/resources/[id]/route.ts:
\* 203-211), so that no allocation in flight loses its alert, its need or its
\* resource, whatever else overlaps.
THEOREM RacesNoOrphans == RacesSpec => []NoOrphansUnlessContended
<1> DEFINE Inv == /\ RaceTypes
                  /\ Uncontended => RaceLedgerInv
                  /\ UncontendedDeletes => RaceFlightInv
<1>1. RacesInit => Inv
  BY InitTypes, InitLedger, InitFlight
<1>2. ASSUME Inv, [RacesNext]_racesVars PROVE Inv'
  <2>1. RaceTypes'
    BY <1>2, StepTypes
  <2>2. /\ Uncontended' <=> Uncontended
        /\ UncontendedDeletes' <=> UncontendedDeletes
    BY <1>2 DEF UncontendedDeletes, Uncontended, OneSettles, AllocatesAlone, RacesNext, racesVars
  <2>3. UncontendedDeletes => Uncontended
    BY DEF UncontendedDeletes
  <2>4. Uncontended => RaceLedgerInv'
    BY <1>2, <2>1, StepLedger
  <2>5. UncontendedDeletes => RaceFlightInv'
    BY <1>2, <2>3, StepFlight
  <2>6. QED
    BY <2>1, <2>2, <2>4, <2>5
<1>3. Inv => NoOrphansUnlessContended
  BY NullIsNoKey
     DEF NoOrphansUnlessContended, RaceFlightInv, FlightInv, Anchored, InFlightNeverOrphaned
<1>4. QED
  BY <1>1, <1>2, <1>3, PTL DEF RacesSpec

\* allocation_returns_within_quantity speaks of a row's two totals; while one
\* client settles it speaks of the row's journal too, which is what two returns
\* recorded at once break (api/allocations/[id]/return-events/route.ts:119-121).
THEOREM RacesJournalsWithinQuantity == RacesSpec => [](Uncontended => JournalWithinQuantity)
<1>1. RaceTypes /\ (Uncontended => RaceLedgerInv) => (Uncontended => JournalWithinQuantity)
  <2> SUFFICES ASSUME RaceLedgerInv, NEW a \in Allocations
               PROVE  Accounted(journal[a]) <= allocation[a].quantity
    BY DEF JournalWithinQuantity
  <2>1. Accounted(allocation[a]) <= allocation[a].quantity
    BY DEF RaceLedgerInv, LedgerInv, TypeOK, AllocationCheck, AllocationTable, Accounted
  <2>2. Accounted(allocation[a]) = Accounted(journal[a])
    BY DEF RaceLedgerInv, LedgerInv, StatusMatchesJournal
  <2>3. QED
    BY <2>1, <2>2
<1>2. QED
  BY <1>1, RacesLedgerInvariant, PTL
============================================================================
