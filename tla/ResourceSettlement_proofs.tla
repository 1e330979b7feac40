---------------------- MODULE ResourceSettlement_proofs ----------------------
(***************************************************************************)
(* What ResourceLedger_proofs makes possible: the ledger implements        *)
(* DonorStock, settlements are never taken back, an allocation in flight   *)
(* never loses its alert, its need or its resource, an alert its owner     *)
(* cancelled leaves nothing undecided, a need counts what covers it, and   *)
(* what the pages offer goes through.  All rest on LedgerInv.              *)
(***************************************************************************)
EXTENDS ResourceLedger_proofs, LedgerStock, LedgerViews

-----------------------------------------------------------------------------
(* The ledger implements DonorStock. *)

\* What the tables say of the donor's stock: lent out is what is reserved,
\* on the shelf is the rest.
StockTold ==
    \A r \in Resources :
        /\ r \in known <=> resource[r].status = "LIVE"
        /\ lent[r] = resource[r].reservedQuantity
        /\ shelf[r] = resource[r].quantity - resource[r].reservedQuantity
        /\ lent[r] \in Nat /\ shelf[r] \in Nat
        /\ resource[r].quantity \in Nat /\ resource[r].reservedQuantity \in Nat

LEMMA TablesTellStock == LedgerInv => StockTold
<1> SUFFICES ASSUME LedgerInv, NEW r \in Resources
             PROVE  /\ r \in known <=> resource[r].status = "LIVE"
                    /\ lent[r] = resource[r].reservedQuantity
                    /\ shelf[r] = resource[r].quantity - resource[r].reservedQuantity
                    /\ lent[r] \in Nat /\ shelf[r] \in Nat
                    /\ resource[r].quantity \in Nat /\ resource[r].reservedQuantity \in Nat
  BY DEF StockTold
<1>1. resource[r] \in ResourceTable /\ ResourceCheck(resource[r])
  BY DEF LedgerInv, TypeOK
<1>2. lent[r] = resource[r].reservedQuantity
  BY DEF lent, LedgerInv, LedgerBalanced
<1>3. shelf[r] = resource[r].quantity - resource[r].reservedQuantity
  BY DEF shelf
<1>4. r \in known <=> resource[r].status = "LIVE"
  BY DEF known, ResourceExists
<1>5. QED
  BY <1>1, <1>2, <1>3, <1>4 DEF ResourceTable, ResourceCheck

\* The columns of the mapping have one entry for every resource.
LEMMA StockColumns ==
    /\ known = {r \in Resources : resource[r].status = "LIVE"}
    /\ shelf = [r \in Resources |-> shelf[r]]
    /\ lent = [r \in Resources |-> lent[r]]
BY DEF known, shelf, lent, ResourceExists

\* A handler that leaves the resources alone does nothing to the donor.
LEMMA StockStutters ==
    ASSUME StockTold, StockTold', UNCHANGED resource
    PROVE  UNCHANGED Stock!vars
<1>1. \A r \in Resources : lent'[r] = lent[r] /\ shelf'[r] = shelf[r]
  BY DEF StockTold
<1>2. lent' = lent
  BY <1>1 DEF lent
<1>3. known' = known /\ shelf' = shelf
  BY DEF known, shelf, ResourceExists
<1>4. QED
  BY <1>2, <1>3 DEF Stock!vars

\* A handler that releases reservations and writes off some of them settles.
LEMMA LoansSettle ==
    ASSUME StockTold, StockTold',
           NEW released \in [Resources -> Nat], NEW lost \in [Resources -> Nat],
           \A r \in Resources :
              /\ lost[r] <= released[r]
              /\ resource'[r].status = resource[r].status
              /\ resource'[r].reservedQuantity = resource[r].reservedQuantity - released[r]
              /\ resource'[r].quantity = resource[r].quantity - lost[r]
    PROVE  Stock!Next
<1>1. known' = known
  BY DEF known, ResourceExists
<1>2. /\ lent' = [r \in Resources |-> lent'[r]]
      /\ shelf' = [r \in Resources |-> shelf'[r]]
  BY DEF lent, shelf
<1>3. ASSUME NEW r \in Resources
      PROVE  /\ lent'[r] \in 0 .. lent[r]
             /\ shelf'[r] \in shelf[r] .. shelf[r] + (lent[r] - lent'[r])
  <2>1. /\ released[r] \in Nat /\ lost[r] \in Nat /\ lost[r] <= released[r]
        /\ resource'[r].reservedQuantity = resource[r].reservedQuantity - released[r]
        /\ resource'[r].quantity = resource[r].quantity - lost[r]
    OBVIOUS
  <2>2. /\ lent[r] = resource[r].reservedQuantity
        /\ shelf[r] = resource[r].quantity - resource[r].reservedQuantity
        /\ lent[r] \in Nat /\ shelf[r] \in Nat
    BY DEF StockTold
  <2>3. /\ lent'[r] = resource'[r].reservedQuantity
        /\ shelf'[r] = resource'[r].quantity - resource'[r].reservedQuantity
        /\ lent'[r] \in Nat /\ shelf'[r] \in Nat
    BY DEF StockTold
  <2>4. resource[r].quantity \in Nat /\ resource[r].reservedQuantity \in Nat
    BY DEF StockTold
  <2>5. QED
    BY <2>1, <2>2, <2>3, <2>4
<1>4. Stock!Settle
  BY <1>1, <1>2, <1>3 DEF Stock!Settle
<1>5. QED
  BY <1>4 DEF Stock!Next

\* What is written off on a resource is part of what is released on it.
LEMMA LostIsReleased ==
    ASSUME NEW rows, NEW r,
           NEW released \in [Allocations -> Nat], NEW lost \in [Allocations -> Nat],
           \A a \in Allocations : lost[a] <= released[a]
    PROVE  OnResource(lost, rows, r) <= OnResource(released, rows, r)
<1> DEFINE Charged(f) == [a \in Allocations |-> IF rows[a].resourceId = r THEN f[a] ELSE 0]
           back == [a \in Allocations |-> released[a] - lost[a]]
<1>1. back \in [Allocations -> Nat]
  OBVIOUS
<1>2. /\ Charged(released) \in [Allocations -> Nat] /\ Charged(lost) \in [Allocations -> Nat]
      /\ Charged(back) \in [Allocations -> Nat]
  BY <1>1
<1>3. \A a \in Allocations : Charged(released)[a] = Charged(lost)[a] + Charged(back)[a]
  OBVIOUS
<1>4. OnResource(released, rows, r) = Total(Charged(released))
      /\ OnResource(lost, rows, r) = Total(Charged(lost))
  BY DEF OnResource
<1> HIDE DEF Charged
<1>5. Total(Charged(released)) = Total(Charged(lost)) + Total(Charged(back))
  BY <1>2, <1>3, KeysFinite, TotalAdd
<1>6. Total(Charged(lost)) \in Nat /\ Total(Charged(back)) \in Nat
  BY <1>2, KeysFinite, TotalIsNat
<1>7. QED
  BY <1>4, <1>5, <1>6

\* The handlers of a resource declare it, declare it anew, or withdraw it.
LEMMA ResourceNextMaps ==
    ASSUME LedgerInv, StockTold, StockTold', NEW u \in Users, ResourceNext(u)
    PROVE  Stock!Next
<1>1. PICK r \in Resources :
         \/ \E q \in 0 .. MaxStock : CreateResource(u, r, q) \/ PatchResource(u, r, q)
         \/ DeleteResource(u, r)
  BY DEF ResourceNext
<1>2. /\ resource \in [Resources -> ResourceTable]
      /\ shelf'[r] \in Nat
  BY DEF LedgerInv, TypeOK, StockTold
<1>3. ASSUME NEW q \in 0 .. MaxStock, CreateResource(u, r, q) \/ PatchResource(u, r, q)
      PROVE  Stock!Next
  <2>1. /\ \A s \in Resources \ {r} : resource'[s] = resource[s]
        /\ resource'[r].status = "LIVE"
        /\ \A s \in Resources : resource'[s].reservedQuantity = resource[s].reservedQuantity
    BY <1>2, <1>3 DEF CreateResource, PatchResource, PatchResourceTx, ResourceRow, ResourceTable,
                      ResourceExists, LedgerInv, NewResourceEmpty
  <2>2. known' = known \cup {r}
    BY <2>1 DEF known, ResourceExists
  <2>3. \A s \in Resources : lent'[s] = lent[s]
    BY <2>1 DEF StockTold
  <2>4. \A s \in Resources \ {r} : shelf'[s] = shelf[s]
    BY <2>1 DEF StockTold
  <2>5. lent' = lent
    BY <2>3 DEF lent
  <2>6. shelf' = [shelf EXCEPT ![r] = shelf'[r]]
    BY <2>4 DEF shelf
  <2>7. Stock!Declare(r)
    BY <1>2, <2>2, <2>5, <2>6 DEF Stock!Declare
  <2>8. QED
    BY <2>7 DEF Stock!Next
<1>4. CASE DeleteResource(u, r)
  <2>1. /\ resource' = [resource EXCEPT ![r] = NoResource("GONE")]
        /\ resource[r].status = "LIVE" /\ resource[r].reservedQuantity <= 0
    BY <1>4 DEF DeleteResource, DeleteResourceAccepts, DeleteResourceTx, ResourceExists
  <2>2. /\ NoResource("GONE").status = "GONE"
        /\ NoResource("GONE").quantity = 0 /\ NoResource("GONE").reservedQuantity = 0
    BY DEF NoResource, ResourceRow
  <2>3. /\ \A s \in Resources \ {r} : resource'[s] = resource[s]
        /\ resource'[r] = NoResource("GONE")
    BY <1>2, <2>1
  <2>4. lent[r] = 0 /\ r \in known
    BY <2>1 DEF StockTold
  <2>5. known' = known \ {r}
    BY <2>2, <2>3 DEF known, ResourceExists
  <2>6. \A s \in Resources : lent'[s] = lent[s]
    BY <2>2, <2>3, <2>4 DEF StockTold
  <2>7. \A s \in Resources : shelf'[s] = IF s = r THEN 0 ELSE shelf[s]
    BY <2>2, <2>3 DEF StockTold
  <2>8. lent' = lent
    BY <2>6 DEF lent
  <2>9. shelf' = [shelf EXCEPT ![r] = 0]
    BY <2>7 DEF shelf
  <2>10. Stock!Withdraw(r)
    BY <2>4, <2>5, <2>8, <2>9 DEF Stock!Withdraw
  <2>11. QED
    BY <2>10 DEF Stock!Next
<1>5. QED
  BY <1>1, <1>3, <1>4

\* An accepted allocation lends units that are on the shelf.
LEMMA AllocateMaps ==
    ASSUME LedgerInv, StockTold, StockTold', NEW u \in Users, NEW n \in Needs, NEW r \in Resources,
           NEW a \in Allocations, NEW q \in Quantity, Allocate(u, n, r, a, q)
    PROVE  Stock!Next
<1>1. q \in Nat \ {0}
  BY BoundsPositive DEF Quantity
<1>2. /\ resource' = [resource EXCEPT ![r].reservedQuantity = @ + q]
      /\ resource[r].status = "LIVE" /\ q <= resource[r].quantity - resource[r].reservedQuantity
  BY DEF Allocate, AllocateAccepts, AllocateTx, ResourceExists
<1>3. \A s \in Resources :
         /\ resource'[s].status = resource[s].status
         /\ resource'[s].quantity = resource[s].quantity
         /\ resource'[s].reservedQuantity =
               IF s = r THEN resource[s].reservedQuantity + q ELSE resource[s].reservedQuantity
  BY <1>2 DEF LedgerInv, TypeOK, ResourceTable
<1>4. r \in known /\ q \in 1 .. shelf[r]
  BY <1>1, <1>2 DEF StockTold
<1>5. known' = known
  BY <1>3 DEF known, ResourceExists
<1>6. \A s \in Resources : /\ lent'[s] = IF s = r THEN lent[s] + q ELSE lent[s]
                           /\ shelf'[s] = IF s = r THEN shelf[s] - q ELSE shelf[s]
  BY <1>1, <1>3 DEF StockTold
<1>7. lent' = [lent EXCEPT ![r] = @ + q]
  BY <1>6 DEF lent
<1>8. shelf' = [shelf EXCEPT ![r] = @ - q]
  BY <1>6 DEF shelf
<1>9. Stock!Lend(r, q)
  BY <1>4, <1>5, <1>7, <1>8 DEF Stock!Lend
<1>10. QED
  BY <1>4, <1>9 DEF Stock!Next

\* One decision releases its units from one resource.
LEMMA RecordReturnMaps ==
    ASSUME LedgerInv, StockTold, StockTold', NEW u \in Users, NEW a \in Allocations,
           NEW d \in Decisions, RecordReturn(u, a, d)
    PROVE  Stock!Next
<1> DEFINE back == allocation[a].resourceId
           released == [r \in Resources |-> IF r = back THEN Accounted(d) ELSE 0]
           lost == [r \in Resources |-> IF r = back THEN d.quantityNotReturnable ELSE 0]
<1>1. resource' = [r \in Resources |->
          IF r = back THEN ResourceAfterReturn(resource[r], Accounted(d), d.quantityNotReturnable)
          ELSE resource[r]]
  BY DEF RecordReturn, RecordReturnTx
<1>2. released \in [Resources -> Nat] /\ lost \in [Resources -> Nat]
  BY DecisionsAreTyped
<1>3. \A r \in Resources : lost[r] <= released[r]
  BY DecisionsAreTyped
<1>4. ASSUME NEW r \in Resources
      PROVE  /\ resource'[r].status = resource[r].status
             /\ resource'[r].reservedQuantity = resource[r].reservedQuantity - released[r]
             /\ resource'[r].quantity = resource[r].quantity - lost[r]
  <2>1. resource[r] \in ResourceTable
    BY DEF LedgerInv, TypeOK
  <2>2. CASE r = back
    BY <1>1, <2>1, <2>2 DEF ResourceAfterReturn, ResourceTable
  <2>3. CASE r # back
    BY <1>1, <2>1, <2>3 DEF ResourceTable
  <2>4. QED
    BY <2>2, <2>3
<1> HIDE DEF released, lost
<1>5. QED
  BY <1>2, <1>3, <1>4, LoansSettle

\* What two columns of the allocations take out of the resources.
LEMMA ColumnsSettle ==
    ASSUME LedgerInv, StockTold, StockTold',
           NEW released \in [Allocations -> Nat], NEW lost \in [Allocations -> Nat],
           \A a \in Allocations : lost[a] <= released[a],
           \A r \in Resources : resource'[r] =
              ResourceAfterReturn(resource[r], OnResource(released, allocation, r),
                                  OnResource(lost, allocation, r))
    PROVE  Stock!Next
<1> DEFINE freed == [r \in Resources |-> OnResource(released, allocation, r)]
           gone == [r \in Resources |-> OnResource(lost, allocation, r)]
<1>1. freed \in [Resources -> Nat] /\ gone \in [Resources -> Nat]
  BY OnResourceIsNat
<1>2. \A r \in Resources : gone[r] <= freed[r]
  BY LostIsReleased
<1>3. ASSUME NEW r \in Resources
      PROVE  /\ resource'[r].status = resource[r].status
             /\ resource'[r].reservedQuantity = resource[r].reservedQuantity - freed[r]
             /\ resource'[r].quantity = resource[r].quantity - gone[r]
  <2>1. resource[r] \in ResourceTable
    BY DEF LedgerInv, TypeOK
  <2>2. QED
    BY <2>1 DEF ResourceAfterReturn, ResourceTable
<1> HIDE DEF freed, gone
<1>4. QED
  BY <1>1, <1>2, <1>3, LoansSettle

\* Cancelling an alert settles the loans of its allocations at once.
LEMMA CancelMaps ==
    ASSUME LedgerInv, StockTold, StockTold', NEW u \in Users, NEW al \in Alerts,
           NEW d \in [Delivered(allocation, al) -> Decisions], CancelWithReturn(u, al, d)
    PROVE  Stock!Next
<1> DEFINE withdrawn == Undelivered(allocation, al)
           released == [a \in Allocations |->
              IF a \in DOMAIN d THEN Accounted(d[a])
              ELSE IF a \in withdrawn THEN allocation[a].quantity ELSE 0]
           writtenOff == [a \in Allocations |->
              IF a \in DOMAIN d THEN d[a].quantityNotReturnable ELSE 0]
<1>1. \A a \in DOMAIN d : d[a] \in Decisions
  OBVIOUS
<1>2. \A a \in Allocations : allocation[a].quantity \in Nat
  BY DEF LedgerInv, TypeOK, AllocationTable
<1>3. released \in [Allocations -> Nat] /\ writtenOff \in [Allocations -> Nat]
  BY <1>1, <1>2, DecisionsAreTyped
<1>4. \A a \in Allocations : writtenOff[a] <= released[a]
  BY <1>1, <1>2, DecisionsAreTyped
<1>5. \A r \in Resources : resource'[r] =
         ResourceAfterReturn(resource[r], OnResource(released, allocation, r),
                             OnResource(writtenOff, allocation, r))
  BY DEF CancelWithReturn, CancelTx
<1> HIDE DEF released, writtenOff
<1>6. QED
  BY <1>3, <1>4, <1>5, ColumnsSettle

\* Deleting an alert gives back what its allocations still hold.
LEMMA DeleteAlertMaps ==
    ASSUME LedgerInv, StockTold, StockTold', NEW u \in Users, NEW al \in Alerts,
           DeleteAlert(u, al)
    PROVE  Stock!Next
<1> DEFINE released == [a \in Allocations |->
              IF a \in InFlight(allocation, al) THEN Outstanding(allocation[a]) ELSE 0]
           nothing == [a \in Allocations |-> 0]
<1>1. \A a \in Allocations : Outstanding(allocation[a]) \in Nat
  BY DEF LedgerInv, TypeOK, AllocationTable, AllocationCheck, Outstanding
<1>2. released \in [Allocations -> Nat] /\ nothing \in [Allocations -> Nat]
  BY <1>1
<1>3. \A a \in Allocations : nothing[a] <= released[a]
  BY <1>1
<1>4. \A r \in Resources : OnResource(nothing, allocation, r) = 0
  <2> TAKE r \in Resources
  <2> DEFINE column == [a \in Allocations |-> IF allocation[a].resourceId = r THEN nothing[a] ELSE 0]
  <2>1. column \in [Allocations -> Nat] /\ \A a \in Allocations : column[a] = 0
    OBVIOUS
  <2>2. OnResource(nothing, allocation, r) = Total(column)
    BY DEF OnResource
  <2> HIDE DEF column
  <2>3. QED
    BY <2>1, <2>2, KeysFinite, TotalZero
<1>5. \A r \in Resources : resource'[r] =
         ResourceAfterReturn(resource[r], OnResource(released, allocation, r),
                             OnResource(nothing, allocation, r))
  BY <1>4 DEF DeleteAlert, DeleteAlertTx
<1> HIDE DEF released, nothing
<1>6. QED
  BY <1>2, <1>3, <1>5, ColumnsSettle

LEMMA LedgerStepMaps ==
    LedgerInv /\ StockTold /\ StockTold' /\ [Next]_vars => [Stock!Next]_(Stock!vars)
<1> SUFFICES ASSUME LedgerInv, StockTold, StockTold', [Next]_vars
             PROVE  Stock!Next \/ UNCHANGED Stock!vars
  OBVIOUS
<1>1. CASE UNCHANGED vars
  BY <1>1, StockStutters DEF vars
<1>2. ASSUME NEW u \in Users, AlertNext(u)
      PROVE  Stock!Next \/ UNCHANGED Stock!vars
  <2>1. PICK al \in Alerts :
           \/ CreateAlert(u, al)
           \/ \E status \in AlertStatus : PatchAlert(u, al, status)
           \/ \E d \in [Delivered(allocation, al) -> Decisions] : CancelWithReturn(u, al, d)
           \/ DeleteAlert(u, al)
    BY <1>2 DEF AlertNext
  <2>2. CASE CreateAlert(u, al) \/ \E status \in AlertStatus : PatchAlert(u, al, status)
    BY <2>2, StockStutters DEF CreateAlert, PatchAlert, PatchAlertTx
  <2>3. QED
    BY <2>1, <2>2, CancelMaps, DeleteAlertMaps
<1>3. ASSUME NEW u \in Users, NeedNext(u)
      PROVE  Stock!Next \/ UNCHANGED Stock!vars
  <2>1. UNCHANGED resource
    BY <1>3 DEF NeedNext, CreateNeed, PatchNeed, PatchNeedTx, DeleteNeed, DeleteNeedTx
  <2>2. QED
    BY <2>1, StockStutters
<1>4. ASSUME NEW u \in Users, AllocationNext(u)
      PROVE  Stock!Next \/ UNCHANGED Stock!vars
  <2>1. PICK a \in Allocations :
           \/ \E n \in Needs, r \in Resources, q \in Quantity : Allocate(u, n, r, a, q)
           \/ \E next \in {"DELIVERED", "RETURN_AGREED"} : Advance(u, a, next)
           \/ \E d \in Decisions : RecordReturn(u, a, d)
    BY <1>4 DEF AllocationNext
  <2>2. CASE \E next \in {"DELIVERED", "RETURN_AGREED"} : Advance(u, a, next)
    BY <2>2, StockStutters DEF Advance, AdvanceTx
  <2>3. QED
    BY <2>1, <2>2, AllocateMaps, RecordReturnMaps
<1>5. QED
  BY <1>1, <1>2, <1>3, <1>4, ResourceNextMaps DEF Next

\* For any number of alerts, needs, resources and allocations: whatever handler
\* runs, a unit of the donor is on the shelf or lent out, never both
\* (allocations/route.ts, return-events/route.ts, cancel-with-return/route.ts,
\* alerts/[id]/route.ts, resources/[id]/route.ts).
THEOREM LedgerKeepsStock == Spec => StockRefined
<1>1. Init => Stock!Init
  <2> SUFFICES ASSUME Init
               PROVE  Stock!Init
    OBVIOUS
  <2>1. StockTold
    BY InitLedgerInv, TablesTellStock
  <2>2. \A r \in Resources : /\ resource[r].status = "NEW"
                             /\ resource[r].quantity = 0 /\ resource[r].reservedQuantity = 0
    BY DEF Init, NoResource, ResourceRow
  <2>3. known = {}
    BY <2>2 DEF known, ResourceExists
  <2>4. \A r \in Resources : lent[r] = 0 /\ shelf[r] = 0
    BY <2>1, <2>2 DEF StockTold
  <2>5. lent = [r \in Resources |-> 0] /\ shelf = [r \in Resources |-> 0]
    BY <2>4 DEF lent, shelf
  <2>6. QED
    BY <2>3, <2>5 DEF Stock!Init
<1>2. QED
  BY <1>1, LedgerInvariant, TablesTellStock, LedgerStepMaps, PTL DEF Spec, StockRefined, Stock!Spec


-----------------------------------------------------------------------------
(* Settlements are kept. *)

\* Handlers that leave status and totals alone keep every settlement.
LEMMA SameSettlement ==
    ASSUME LedgerInv,
           \A a \in Allocations :
              /\ allocation'[a].status = allocation[a].status
              /\ allocation'[a].quantityReturned = allocation[a].quantityReturned
              /\ allocation'[a].quantityNotReturnable = allocation[a].quantityNotReturnable
    PROVE  SettledKept
BY DEF LedgerInv, TypeOK, AllocationTable, SettledKept

\* A row settled with its own journal and a decision only gains returns.
LEMMA SettlingGains ==
    ASSUME LedgerInv, NEW a \in Allocations, NEW d \in Decisions, IsActive(allocation[a]),
           allocation'[a] =
              SettledRow(allocation[a], SumReturnEvents(journal[a], d), allocation[a].status)
    PROVE  /\ allocation[a].status \notin {"RETURNED", "CANCELLED"}
           /\ allocation'[a].quantityReturned >= allocation[a].quantityReturned
           /\ allocation'[a].quantityNotReturnable >= allocation[a].quantityNotReturnable
<1>1. allocation[a].status \notin {"RETURNED", "CANCELLED"}
  BY DEF IsActive, ActiveStatus
<1>2. /\ allocation'[a].quantityReturned = journal[a].quantityReturned + d.quantityReturned
      /\ allocation'[a].quantityNotReturnable =
            journal[a].quantityNotReturnable + d.quantityNotReturnable
  <2>1. allocation[a] \in AllocationTable
    BY DEF LedgerInv, TypeOK
  <2>2. QED
    BY <2>1 DEF AllocationTable, SettledRow, SumReturnEvents, Returned
<1>3. /\ journal[a].quantityReturned \in Nat /\ journal[a].quantityNotReturnable \in Nat
      /\ allocation[a].quantityReturned \in Nat /\ allocation[a].quantityNotReturnable \in Nat
  BY DEF LedgerInv, TypeOK, ReturnTable, AllocationTable
<1>4. d.quantityReturned \in Nat /\ d.quantityNotReturnable \in Nat
  BY DecisionsAreTyped DEF ReturnTable
<1>5. /\ Accounted(allocation[a]) = Accounted(journal[a])
      /\ allocation[a].quantityNotReturnable = journal[a].quantityNotReturnable
  BY DEF LedgerInv, StatusMatchesJournal
<1>6. allocation[a].quantityReturned = journal[a].quantityReturned
  BY <1>3, <1>5 DEF Accounted
<1>7. QED
  BY <1>1, <1>2, <1>3, <1>4, <1>5, <1>6

\* A transition moves a row that is not settled yet.
LEMMA AdvanceKeeps ==
    ASSUME LedgerInv, NEW a \in Allocations, NEW next \in {"DELIVERED", "RETURN_AGREED"},
           allocation[a].status \in {"DELIVERY_AGREED", "DELIVERED"}, AdvanceTx(a, next)
    PROVE  SettledKept
<1>1. /\ allocation \in [Allocations -> AllocationTable]
      /\ \A b \in Allocations : /\ allocation[b].quantityReturned \in Nat
                                /\ allocation[b].quantityNotReturnable \in Nat
  BY DEF LedgerInv, TypeOK, AllocationTable
<1>2. /\ allocation'[a].quantityReturned = allocation[a].quantityReturned
      /\ allocation'[a].quantityNotReturnable = allocation[a].quantityNotReturnable
      /\ \A b \in Allocations \ {a} : allocation'[b] = allocation[b]
  BY <1>1 DEF AdvanceTx, AllocationTable
<1>3. QED
  BY <1>1, <1>2 DEF SettledKept

\* A recorded return only adds to the two totals of a row in flight.
LEMMA RecordReturnKeeps ==
    ASSUME LedgerInv, NEW a \in Allocations, NEW d \in Decisions, IsActive(allocation[a]),
           NEW seen, seen.status = allocation[a].status,
           RecordReturnTx(a, d, seen, SumReturnEvents(journal[a], d))
    PROVE  SettledKept
<1>1. /\ allocation \in [Allocations -> AllocationTable]
      /\ \A b \in Allocations : /\ allocation[b].quantityReturned \in Nat
                                /\ allocation[b].quantityNotReturnable \in Nat
  BY DEF LedgerInv, TypeOK, AllocationTable
<1>2. /\ allocation'[a] =
            SettledRow(allocation[a], SumReturnEvents(journal[a], d), allocation[a].status)
      /\ \A b \in Allocations \ {a} : allocation'[b] = allocation[b]
  BY <1>1 DEF RecordReturnTx
<1>3. QED
  BY <1>1, <1>2, SettlingGains DEF SettledKept

\* Cancel-with-return settles rows in flight, and withdraws undelivered ones.
LEMMA CancelKeeps ==
    ASSUME LedgerInv, NEW al \in Alerts, NEW seen, Current(seen, InFlight(seen, al)),
           NEW d \in [Delivered(seen, al) -> Decisions], CancelTx(al, d, seen, journal)
    PROVE  SettledKept
<1> DEFINE delivered == Delivered(seen, al)
           withdrawn == Undelivered(seen, al)
<1>1. /\ \A a \in delivered : /\ a \in Allocations /\ d[a] \in Decisions /\ IsActive(allocation[a])
                              /\ seen[a].status = allocation[a].status
      /\ \A a \in withdrawn : allocation[a].status = "DELIVERY_AGREED"
  BY DEF Delivered, Undelivered, InFlight, Current, IsActive
<1>2. \A a \in Allocations : allocation'[a] =
         IF a \in delivered
         THEN SettledRow(allocation[a], SumReturnEvents(journal[a], d[a]), allocation[a].status)
         ELSE IF a \in withdrawn THEN [allocation[a] EXCEPT !.status = "CANCELLED"]
         ELSE allocation[a]
  BY <1>1 DEF CancelTx
<1> HIDE DEF delivered, withdrawn
<1>3. \A a \in Allocations :
         /\ allocation[a] \in AllocationTable
         /\ allocation[a].quantityReturned \in Nat /\ allocation[a].quantityNotReturnable \in Nat
  BY DEF LedgerInv, TypeOK, AllocationTable
<1>4. ASSUME NEW a \in Allocations
      PROVE  /\ allocation[a].status \in {"RETURNED", "CANCELLED"} =>
                   allocation'[a].status = allocation[a].status
             /\ allocation'[a].quantityReturned >= allocation[a].quantityReturned
             /\ allocation'[a].quantityNotReturnable >= allocation[a].quantityNotReturnable
  <2>1. CASE a \in delivered
    BY <1>1, <1>2, <2>1, SettlingGains
  <2>2. CASE a \notin delivered /\ a \in withdrawn
    <3>1. allocation'[a] = [allocation[a] EXCEPT !.status = "CANCELLED"]
      BY <1>2, <2>2
    <3>2. allocation[a].status = "DELIVERY_AGREED"
      BY <1>1, <2>2
    <3>3. /\ allocation'[a].quantityReturned = allocation[a].quantityReturned
          /\ allocation'[a].quantityNotReturnable = allocation[a].quantityNotReturnable
      BY <1>3, <3>1 DEF AllocationTable
    <3>4. QED
      BY <1>3, <3>2, <3>3
  <2>3. CASE a \notin delivered /\ a \notin withdrawn
    <3>1. allocation'[a] = allocation[a]
      BY <1>2, <2>3
    <3>2. QED
      BY <1>3, <3>1
  <2>4. QED
    BY <2>1, <2>2, <2>3
<1>5. QED
  BY <1>4 DEF SettledKept

\* The rows of a deleted alert go, the others stay.
LEMMA DeleteAlertKeeps ==
    ASSUME TypeOK, NEW al \in Alerts, NEW seen, DeleteAlertTx(al, seen)
    PROVE  SettledKept
<1>1. \A a \in Allocations :
         allocation'[a].status = "GONE" \/ allocation'[a] = allocation[a]
  BY DEF DeleteAlertTx, NoAllocation, AllocationRow
<1>2. QED
  BY <1>1 DEF TypeOK, AllocationTable, SettledKept

\* A new row takes the place of none.
LEMMA AllocateKeeps ==
    ASSUME LedgerInv, NEW u, NEW n, NEW r, NEW a \in Allocations, NEW q, NEW seenNeed,
           NEW seenResource, AllocateTx(u, n, r, a, q, seenNeed, seenResource)
    PROVE  SettledKept
<1>1. /\ allocation \in [Allocations -> AllocationTable]
      /\ \A b \in Allocations : /\ allocation[b].quantityReturned \in Nat
                                /\ allocation[b].quantityNotReturnable \in Nat
  BY DEF LedgerInv, TypeOK, AllocationTable
<1>2. /\ allocation[a].status = "NEW"
      /\ allocation' = [allocation EXCEPT ![a] =
            AllocationRow("DELIVERY_AGREED", n, needAlert[n], r, u.org, q)]
  BY DEF AllocateTx
<1>3. Accounted(allocation[a]) = 0
  BY <1>2 DEF LedgerInv, StatusMatchesJournal
<1>4. allocation[a].quantityReturned = 0 /\ allocation[a].quantityNotReturnable = 0
  BY <1>1, <1>3 DEF Accounted
<1>5. /\ allocation'[a].quantityReturned = 0 /\ allocation'[a].quantityNotReturnable = 0
      /\ \A b \in Allocations \ {a} : allocation'[b] = allocation[b]
  BY <1>1, <1>2 DEF AllocationRow
<1>6. QED
  BY <1>1, <1>2, <1>4, <1>5 DEF SettledKept

\* Only cancel-with-return settles among the handlers on alerts.
LEMMA AlertNextKeeps ==
    ASSUME LedgerInv, NEW u \in Users, AlertNext(u)
    PROVE  SettledKept
<1>1. PICK al \in Alerts :
         \/ CreateAlert(u, al)
         \/ \E status \in AlertStatus : PatchAlert(u, al, status)
         \/ \E d \in [Delivered(allocation, al) -> Decisions] : CancelWithReturn(u, al, d)
         \/ DeleteAlert(u, al)
  BY DEF AlertNext
<1>2. CASE CreateAlert(u, al)
  BY <1>2, SameSettlement DEF CreateAlert
<1>3. CASE \E status \in AlertStatus : PatchAlert(u, al, status)
  BY <1>3, SameSettlement DEF PatchAlert, PatchAlertTx
<1>4. ASSUME NEW d \in [Delivered(allocation, al) -> Decisions], CancelWithReturn(u, al, d)
      PROVE  SettledKept
  <2>1. Current(allocation, InFlight(allocation, al))
    BY DEF Current
  <2>2. QED
    BY <1>4, <2>1, CancelKeeps DEF CancelWithReturn
<1>5. CASE DeleteAlert(u, al)
  BY <1>5, DeleteAlertKeeps DEF DeleteAlert, LedgerInv
<1>6. QED
  BY <1>1, <1>2, <1>3, <1>4, <1>5

LEMMA AllocationNextKeeps ==
    ASSUME LedgerInv, NEW u \in Users, AllocationNext(u)
    PROVE  SettledKept
<1>1. PICK a \in Allocations :
         \/ \E n \in Needs, r \in Resources, q \in Quantity : Allocate(u, n, r, a, q)
         \/ \E next \in {"DELIVERED", "RETURN_AGREED"} : Advance(u, a, next)
         \/ \E d \in Decisions : RecordReturn(u, a, d)
  BY DEF AllocationNext
<1>2. ASSUME NEW n \in Needs, NEW r \in Resources, NEW q \in Quantity, Allocate(u, n, r, a, q)
      PROVE  SettledKept
  BY <1>2, AllocateKeeps DEF Allocate
<1>3. ASSUME NEW next \in {"DELIVERED", "RETURN_AGREED"}, Advance(u, a, next)
      PROVE  SettledKept
  BY <1>3, AdvanceKeeps DEF Advance, AdvanceAccepts, AllowedActors
<1>4. ASSUME NEW d \in Decisions, RecordReturn(u, a, d)
      PROVE  SettledKept
  BY <1>4, RecordReturnKeeps DEF RecordReturn, RecordReturnAccepts, IsActive, ActiveStatus
<1>5. QED
  BY <1>1, <1>2, <1>3, <1>4

\* No handler, run by any account, takes back a settlement.
THEOREM SettlementsKept == Spec => SettledStaysSettled
<1>1. ASSUME LedgerInv, [Next]_vars PROVE [SettledKept]_vars
  <2>1. CASE UNCHANGED vars
    BY <2>1
  <2>2. ASSUME NEW u \in Users, NeedNext(u) PROVE SettledKept
    <3>1. \A a \in Allocations :
              /\ allocation'[a].status = allocation[a].status
              /\ allocation'[a].quantityReturned = allocation[a].quantityReturned
              /\ allocation'[a].quantityNotReturnable = allocation[a].quantityNotReturnable
      BY <1>1, <2>2 DEF LedgerInv, TypeOK, AllocationTable, NeedNext, CreateNeed, PatchNeed,
           PatchNeedTx, DeleteNeed, DeleteNeedTx
    <3>2. QED
      BY <1>1, <3>1, SameSettlement
  <2>3. ASSUME NEW u \in Users, ResourceNext(u) PROVE SettledKept
    <3>1. \A a \in Allocations :
              /\ allocation'[a].status = allocation[a].status
              /\ allocation'[a].quantityReturned = allocation[a].quantityReturned
              /\ allocation'[a].quantityNotReturnable = allocation[a].quantityNotReturnable
      BY <1>1, <2>3 DEF LedgerInv, TypeOK, AllocationTable, ResourceNext, CreateResource,
           PatchResource, PatchResourceTx, DeleteResource, DeleteResourceTx
    <3>2. QED
      BY <1>1, <3>1, SameSettlement
  <2>4. QED
    BY <1>1, <2>1, <2>2, <2>3, AlertNextKeeps, AllocationNextKeeps DEF Next
<1>2. QED
  BY <1>1, LedgerInvariant, PTL DEF Spec, SettledStaysSettled

-----------------------------------------------------------------------------
(* Allocations in flight are never orphaned. *)

\* A row in flight has units, and hangs on a live alert, on a live need of
\* that same alert and on a live resource.
Anchored(row) == IsActive(row) =>
    /\ row.quantity > 0
    /\ row.alertId \in Alerts /\ AlertExists(row.alertId)
    /\ row.needId \in Needs /\ NeedExists(row.needId) /\ needAlert[row.needId] = row.alertId
    /\ row.resourceId \in Resources /\ ResourceExists(row.resourceId)

FlightInv == \A a \in Allocations : Anchored(allocation[a])

\* The balance turns the guard of DELETE /api/resources into a look at the
\* allocations: a resource with nothing reserved has no allocation in flight.
LEMMA NothingReservedNothingHeld ==
    ASSUME LedgerInv, FlightInv, NEW r \in Resources, resource[r].reservedQuantity <= 0
    PROVE  \A a \in Allocations : allocation[a].resourceId = r => ~IsActive(allocation[a])
<1> SUFFICES ASSUME NEW a \in Allocations, allocation[a].resourceId = r, IsActive(allocation[a])
             PROVE  FALSE
  OBVIOUS
<1>1. resource[r].reservedQuantity = 0
  BY DEF LedgerInv, TypeOK, ResourceTable
<1>2. Held(allocation, r) \in [Allocations -> Nat]
  BY HeldIsNat DEF LedgerInv, TypeOK
<1>3. Held(allocation, r)[a] = 0
  BY <1>1, <1>2, KeysFinite, TotalZero DEF LedgerInv, LedgerBalanced
<1>4. Outstanding(allocation[a]) = 0
  BY <1>3 DEF Held
<1>5. /\ allocation[a].quantity \in Nat \ {0} /\ allocation[a].quantityReturned \in Nat
      /\ allocation[a].quantityNotReturnable \in Nat
  BY DEF LedgerInv, TypeOK, AllocationTable, FlightInv, Anchored
<1>6. Accounted(allocation[a]) = allocation[a].quantity
  BY <1>4, <1>5 DEF Outstanding, Accounted
<1>7. /\ allocation[a].status # "RETURNED"
      /\ allocation[a].status = "PARTIALLY_RETURNED" =>
            Accounted(allocation[a]) <= allocation[a].quantity - 1
      /\ allocation[a].status # "PARTIALLY_RETURNED" => Accounted(allocation[a]) = 0
  BY <1>5 DEF LedgerInv, StatusMatchesJournal, IsActive, ActiveStatus
<1>8. QED
  BY <1>5, <1>6, <1>7

\* Handlers that keep every row in flight where it is, and delete nothing.
LEMMA StillAnchored ==
    ASSUME FlightInv,
           \A a \in Allocations : IsActive(allocation'[a]) =>
              /\ IsActive(allocation[a])
              /\ allocation'[a].quantity = allocation[a].quantity
              /\ allocation'[a].alertId = allocation[a].alertId
              /\ allocation'[a].needId = allocation[a].needId
              /\ allocation'[a].resourceId = allocation[a].resourceId,
           \A al \in Alerts : AlertExists(al) => AlertExists(al)',
           \A n \in Needs : NeedExists(n) => NeedExists(n)',
           \A r \in Resources : ResourceExists(r) => ResourceExists(r)'
    PROVE  FlightInv'
<1> SUFFICES ASSUME NEW a \in Allocations, IsActive(allocation'[a]) PROVE Anchored(allocation[a])'
  BY DEF FlightInv, Anchored
<1>1. Anchored(allocation[a]) /\ IsActive(allocation[a])
  BY DEF FlightInv
<1>2. QED
  BY <1>1 DEF Anchored

LEMMA PatchNeedAnchored ==
    ASSUME TypeOK, FlightInv, NEW n \in Needs, NEW q, NEW status \in {"CLOSED", "CANCELLED", Null},
           PatchNeedTx(n, q, status)
    PROVE  FlightInv' /\ \A m \in Needs : NeedExists(m)' => NeedExists(m)
<1>1. need \in [Needs -> NeedTable]
  BY DEF TypeOK
<1>2. /\ NeedExists(n) /\ \A m \in Needs \ {n} : need'[m] = need[m]
      /\ need'[n].status \in NeedStatus
  BY <1>1 DEF PatchNeedTx, NeedExists, NeedRow, NeedStatus
<1>3. \A m \in Needs : NeedExists(m) <=> NeedExists(m)'
  BY <1>2 DEF NeedExists
<1>4. QED
  BY <1>3, StillAnchored DEF PatchNeedTx, AlertExists, ResourceExists

LEMMA DeleteNeedAnchored ==
    ASSUME TypeOK, FlightInv, NEW n \in Needs,
           \A a \in Allocations : allocation[a].needId = n => ~IsActive(allocation[a]),
           DeleteNeedTx(n)
    PROVE  FlightInv'
<1> SUFFICES ASSUME NEW a \in Allocations, IsActive(allocation'[a])
             PROVE  Anchored(allocation[a])'
  BY DEF FlightInv, Anchored
<1>1. need \in [Needs -> NeedTable] /\ allocation \in [Allocations -> AllocationTable]
  BY DEF TypeOK
<1>2. allocation[a].needId # n
  BY <1>1 DEF DeleteNeedTx, IsActive, AllocationTable
<1>3. allocation'[a] = allocation[a]
  BY <1>2 DEF DeleteNeedTx
<1>4. \A m \in Needs \ {n} : need'[m] = need[m]
  BY <1>1 DEF DeleteNeedTx
<1>5. Anchored(allocation[a]) /\ IsActive(allocation[a])
  BY <1>3 DEF FlightInv
<1>6. QED
  BY <1>2, <1>3, <1>4, <1>5 DEF Anchored, DeleteNeedTx, AlertExists, NeedExists, ResourceExists

LEMMA NeedNextAnchored ==
    ASSUME LedgerInv, FlightInv, NEW u \in Users, NeedNext(u)
    PROVE  FlightInv'
<1>1. PICK n \in Needs :
         \/ \E q \in Quantity : CreateNeed(u, n, q)
         \/ \E q \in Quantity \cup {Null}, status \in {"CLOSED", "CANCELLED", Null} :
               PatchNeed(u, n, q, status)
         \/ DeleteNeed(u, n)
  BY DEF NeedNext
<1>2. TypeOK /\ need \in [Needs -> NeedTable]
  BY DEF LedgerInv, TypeOK
<1>3. ASSUME NEW q \in Quantity, CreateNeed(u, n, q) PROVE FlightInv'
  <2>1. \A m \in Needs : NeedExists(m) => NeedExists(m)'
    BY <1>2, <1>3 DEF CreateNeed, NeedExists, NeedRow, NeedStatus, DerivedNeedStatus
  <2>2. QED
    BY <1>3, <2>1, StillAnchored DEF CreateNeed, AlertExists, ResourceExists
<1>4. QED
  BY <1>1, <1>2, <1>3, PatchNeedAnchored, DeleteNeedAnchored
     DEF PatchNeed, DeleteNeed, DeleteNeedAccepts

LEMMA PatchResourceAnchored ==
    ASSUME TypeOK, FlightInv, NEW r \in Resources, NEW q, PatchResourceTx(r, q)
    PROVE  FlightInv'
<1>1. \A s \in Resources : ResourceExists(s) => ResourceExists(s)'
  BY DEF TypeOK, PatchResourceTx, ResourceExists, ResourceTable
<1>2. QED
  BY <1>1, StillAnchored DEF PatchResourceTx, AlertExists, NeedExists

LEMMA DeleteResourceAnchored ==
    ASSUME LedgerInv, FlightInv, NEW r \in Resources, resource[r].reservedQuantity <= 0,
           DeleteResourceTx(r)
    PROVE  FlightInv'
<1> SUFFICES ASSUME NEW a \in Allocations, IsActive(allocation'[a])
             PROVE  Anchored(allocation[a])'
  BY DEF FlightInv, Anchored
<1>1. resource \in [Resources -> ResourceTable] /\ allocation \in [Allocations -> AllocationTable]
  BY DEF LedgerInv, TypeOK
<1>2. \A b \in Allocations : allocation[b].resourceId = r => ~IsActive(allocation[b])
  BY NothingReservedNothingHeld
<1>3. allocation[a].resourceId # r
  BY <1>1, <1>2 DEF DeleteResourceTx, IsActive, AllocationTable
<1>4. allocation'[a] = allocation[a]
  BY <1>3 DEF DeleteResourceTx
<1>5. \A s \in Resources \ {r} : resource'[s] = resource[s]
  BY <1>1 DEF DeleteResourceTx
<1>6. Anchored(allocation[a]) /\ IsActive(allocation[a])
  BY <1>4 DEF FlightInv
<1>7. QED
  BY <1>3, <1>4, <1>5, <1>6 DEF Anchored, DeleteResourceTx, AlertExists, NeedExists, ResourceExists

LEMMA ResourceNextAnchored ==
    ASSUME LedgerInv, FlightInv, NEW u \in Users, ResourceNext(u)
    PROVE  FlightInv'
<1>1. PICK r \in Resources :
         \/ \E q \in 0 .. MaxStock : CreateResource(u, r, q) \/ PatchResource(u, r, q)
         \/ DeleteResource(u, r)
  BY DEF ResourceNext
<1>2. TypeOK /\ resource \in [Resources -> ResourceTable]
  BY DEF LedgerInv, TypeOK
<1>3. ASSUME NEW q \in 0 .. MaxStock, CreateResource(u, r, q) PROVE FlightInv'
  <2>1. \A s \in Resources : ResourceExists(s) => ResourceExists(s)'
    BY <1>2, <1>3 DEF CreateResource, ResourceExists, ResourceRow
  <2>2. QED
    BY <1>3, <2>1, StillAnchored DEF CreateResource, AlertExists, NeedExists
<1>4. QED
  BY <1>1, <1>2, <1>3, PatchResourceAnchored, DeleteResourceAnchored
     DEF PatchResource, DeleteResource, DeleteResourceAccepts

LEMMA PatchAlertAnchored ==
    ASSUME TypeOK, FlightInv, NEW al \in Alerts, NEW status \in AlertStatus, NEW reopened,
           PatchAlertTx(al, status, reopened)
    PROVE  /\ FlightInv' /\ \A b \in Alerts : AlertExists(b) => AlertExists(b)'
           /\ \A n \in Needs : NeedExists(n)' => NeedExists(n)
<1>1. alert \in [Alerts -> AlertStatus \cup NoRow] /\ need \in [Needs -> NeedTable]
  BY DEF TypeOK
<1>2. \A b \in Alerts : AlertExists(b) => AlertExists(b)'
  BY <1>1 DEF PatchAlertTx, AlertExists
<1>3. \A n \in Needs : NeedExists(n) <=> NeedExists(n)'
  <2> SUFFICES ASSUME NEW n \in Needs
               PROVE  need[n].status \in NeedStatus <=> need'[n].status \in NeedStatus
    BY DEF NeedExists
  <2>1. "OPEN" \in NeedStatus
    BY DEF NeedStatus, DerivedNeedStatus
  <2>2. \A seen : ReopenedNeed(need[n], seen).status \in NeedStatus
    BY <2>1, NeedStatusIsTyped DEF ReopenedNeed, NeedRow
  <2>3. QED
    BY <2>2 DEF PatchAlertTx, NeedExists
<1>4. QED
  BY <1>2, <1>3, StillAnchored DEF PatchAlertTx, ResourceExists

\* A cancelled alert stays, and its allocations that stay in flight stay put.
LEMMA CancelAnchored ==
    ASSUME TypeOK, FlightInv, NEW al \in Alerts, NEW seen, Current(seen, InFlight(seen, al)),
           NEW d \in [Delivered(seen, al) -> Decisions], NEW events, CancelTx(al, d, seen, events)
    PROVE  /\ FlightInv' /\ \A b \in Alerts : AlertExists(b) => AlertExists(b)'
           /\ \A n \in Needs : NeedExists(n)' => NeedExists(n)
<1>1. /\ alert \in [Alerts -> AlertStatus \cup NoRow] /\ need \in [Needs -> NeedTable]
      /\ resource \in [Resources -> ResourceTable]
      /\ allocation \in [Allocations -> AllocationTable]
  BY DEF TypeOK
<1>2. \A b \in Alerts : AlertExists(b) => AlertExists(b)'
  BY <1>1 DEF CancelTx, AlertExists, AlertStatus
<1>3. \A n \in Needs : NeedExists(n) <=> NeedExists(n)'
  BY DEF CancelTx, NeedExists, NeedRow, NeedStatus
<1>4. \A r \in Resources : ResourceExists(r) => ResourceExists(r)'
  BY <1>1 DEF CancelTx, ResourceExists, ResourceAfterReturn, ResourceTable
<1>5. \A a \in Allocations :
         \/ a \in Delivered(seen, al) /\ allocation'[a] =
              SettledRow(allocation[a], SumReturnEvents(events[a], d[a]), seen[a].status)
         \/ allocation'[a] = [allocation[a] EXCEPT !.status = "CANCELLED"]
         \/ allocation'[a] = allocation[a]
  BY DEF CancelTx
<1>6. ASSUME NEW a \in Allocations, IsActive(allocation'[a])
      PROVE  /\ IsActive(allocation[a])
             /\ allocation'[a].quantity = allocation[a].quantity
             /\ allocation'[a].alertId = allocation[a].alertId
             /\ allocation'[a].needId = allocation[a].needId
             /\ allocation'[a].resourceId = allocation[a].resourceId
  <2>1. allocation[a] \in AllocationTable
    BY <1>1
  <2>2. CASE a \in Delivered(seen, al) /\ allocation'[a] =
              SettledRow(allocation[a], SumReturnEvents(events[a], d[a]), seen[a].status)
    <3>1. IsActive(allocation[a])
      BY <2>2 DEF Delivered, InFlight, Current, IsActive
    <3>2. QED
      BY <2>1, <2>2, <3>1 DEF SettledRow, AllocationTable
  <2>3. allocation'[a] # [allocation[a] EXCEPT !.status = "CANCELLED"]
    BY <1>6, <2>1 DEF IsActive, ActiveStatus, AllocationTable
  <2>4. CASE allocation'[a] = allocation[a]
    BY <1>6, <2>4
  <2>5. QED
    BY <1>5, <2>2, <2>3, <2>4
<1>7. QED
  BY <1>2, <1>3, <1>4, <1>6, StillAnchored

\* A deleted alert takes its needs along, and every row in flight under them.
LEMMA DeleteAlertAnchored ==
    ASSUME TypeOK, FlightInv, NEW al \in Alerts, NEW seen, DeleteAlertTx(al, seen)
    PROVE  FlightInv'
<1> SUFFICES ASSUME NEW a \in Allocations, IsActive(allocation'[a])
             PROVE  Anchored(allocation[a])'
  BY DEF FlightInv, Anchored
<1>1. /\ alert \in [Alerts -> AlertStatus \cup NoRow] /\ need \in [Needs -> NeedTable]
      /\ resource \in [Resources -> ResourceTable]
      /\ allocation \in [Allocations -> AllocationTable]
  BY DEF TypeOK
<1>2. allocation'[a] = allocation[a] /\ allocation[a].alertId # al
  BY DEF DeleteAlertTx, NoAllocation, AllocationRow, IsActive, ActiveStatus
<1>3. Anchored(allocation[a]) /\ IsActive(allocation[a])
  BY <1>2 DEF FlightInv
<1>4. \A b \in Alerts \ {al} : alert'[b] = alert[b]
  BY <1>1 DEF DeleteAlertTx
<1>5. \A n \in Needs : needAlert[n] # al => need'[n] = need[n]
  BY DEF DeleteAlertTx
<1>6. \A r \in Resources : resource'[r].status = resource[r].status
  BY <1>1 DEF DeleteAlertTx, ResourceAfterReturn, ResourceTable
<1>7. QED
  BY <1>2, <1>3, <1>4, <1>5, <1>6 DEF Anchored, AlertExists, NeedExists, ResourceExists

LEMMA AlertNextAnchored ==
    ASSUME LedgerInv, FlightInv, NEW u \in Users, AlertNext(u)
    PROVE  FlightInv'
<1>1. PICK al \in Alerts :
         \/ CreateAlert(u, al)
         \/ \E status \in AlertStatus : PatchAlert(u, al, status)
         \/ \E d \in [Delivered(allocation, al) -> Decisions] : CancelWithReturn(u, al, d)
         \/ DeleteAlert(u, al)
  BY DEF AlertNext
<1>2. TypeOK /\ alert \in [Alerts -> AlertStatus \cup NoRow]
  BY DEF LedgerInv, TypeOK
<1>3. CASE CreateAlert(u, al)
  <2>1. \A b \in Alerts : AlertExists(b) => AlertExists(b)'
    BY <1>2, <1>3 DEF CreateAlert, AlertExists, AlertStatus
  <2>2. QED
    BY <1>3, <2>1, StillAnchored DEF CreateAlert, NeedExists, ResourceExists
<1>4. CASE \E status \in AlertStatus : PatchAlert(u, al, status)
  BY <1>2, <1>4, PatchAlertAnchored DEF PatchAlert
<1>5. CASE \E d \in [Delivered(allocation, al) -> Decisions] : CancelWithReturn(u, al, d)
  <2>1. Current(allocation, InFlight(allocation, al))
    BY DEF Current
  <2>2. QED
    BY <1>2, <1>5, <2>1, CancelAnchored DEF CancelWithReturn
<1>6. CASE DeleteAlert(u, al)
  BY <1>2, <1>6, DeleteAlertAnchored DEF DeleteAlert
<1>7. QED
  BY <1>1, <1>3, <1>4, <1>5, <1>6

\* A new row hangs on the need and the resource that are there to take it.
LEMMA AllocateAnchored ==
    ASSUME TypeOK, FlightInv, NEW u, NEW n \in Needs, NEW r \in Resources, NEW a \in Allocations,
           NEW q \in Quantity, NEW seenNeed, seenNeed.status \in NeedStatus, NEW seenResource,
           AlertExists(needAlert[n]), AllocateTx(u, n, r, a, q, seenNeed, seenResource)
    PROVE  FlightInv' /\ \A m \in Needs : NeedExists(m)' => NeedExists(m)
<1>1. /\ need \in [Needs -> NeedTable] /\ resource \in [Resources -> ResourceTable]
      /\ allocation \in [Allocations -> AllocationTable]
  BY DEF TypeOK
<1>2. /\ AlertExists(needAlert[n]) /\ NeedExists(n) /\ ResourceExists(r)
      /\ alert' = alert /\ needAlert[n] \in Alerts
  BY ImmutableColumns DEF AllocateTx
<1>3. \A m \in Needs : NeedExists(m) <=> NeedExists(m)'
  BY <1>1, NeedStatusIsTyped DEF AllocateTx, NeedExists, NeedRow
<1>4. \A s \in Resources : ResourceExists(s) => ResourceExists(s)'
  BY <1>1 DEF AllocateTx, ResourceExists, ResourceTable
<1>5. \A al \in Alerts : AlertExists(al) => AlertExists(al)'
  BY <1>2 DEF AlertExists
<1>6. q \in Nat \ {0}
  BY BoundsPositive DEF Quantity
<1>7. ASSUME NEW b \in Allocations, IsActive(allocation'[b]) PROVE Anchored(allocation[b])'
  <2>1. CASE b = a
    <3>1. /\ allocation'[b].quantity = q /\ allocation'[b].alertId = needAlert[n]
          /\ allocation'[b].needId = n /\ allocation'[b].resourceId = r
      BY <1>1, <2>1 DEF AllocateTx, AllocationRow
    <3>2. QED
      BY <1>2, <1>3, <1>4, <1>5, <1>6, <3>1 DEF Anchored
  <2>2. CASE b # a
    <3>1. allocation'[b] = allocation[b]
      BY <1>1, <2>2 DEF AllocateTx
    <3>2. Anchored(allocation[b]) /\ IsActive(allocation[b])
      BY <1>7, <3>1 DEF FlightInv
    <3>3. QED
      BY <1>3, <1>4, <1>5, <3>1, <3>2 DEF Anchored
  <2>3. QED
    BY <2>1, <2>2
<1>8. FlightInv'
  BY <1>7 DEF FlightInv, Anchored
<1>9. QED
  BY <1>3, <1>8

LEMMA AdvanceAnchored ==
    ASSUME TypeOK, FlightInv, NEW a \in Allocations, NEW next \in {"DELIVERED", "RETURN_AGREED"},
           allocation[a].status \in {"DELIVERY_AGREED", "DELIVERED"}, AdvanceTx(a, next)
    PROVE  FlightInv'
<1>1. allocation \in [Allocations -> AllocationTable]
  BY DEF TypeOK
<1>2. /\ \A b \in Allocations \ {a} : allocation'[b] = allocation[b]
      /\ allocation'[a] = [allocation[a] EXCEPT !.status = next]
      /\ UNCHANGED <<alert, need, resource>>
  BY <1>1 DEF AdvanceTx
<1>3. QED
  BY <1>1, <1>2, StillAnchored
     DEF AllocationTable, IsActive, ActiveStatus, AlertExists, NeedExists, ResourceExists

LEMMA RecordReturnAnchored ==
    ASSUME TypeOK, FlightInv, NEW a \in Allocations, NEW d \in Decisions, IsActive(allocation[a]),
           NEW seen, NEW events, RecordReturnTx(a, d, seen, events)
    PROVE  FlightInv'
<1>1. resource \in [Resources -> ResourceTable] /\ allocation \in [Allocations -> AllocationTable]
  BY DEF TypeOK
<1>2. /\ \A b \in Allocations \ {a} : allocation'[b] = allocation[b]
      /\ allocation'[a] = SettledRow(allocation[a], events, seen.status)
      /\ UNCHANGED <<alert, need>>
  BY <1>1 DEF RecordReturnTx
<1>3. \A r \in Resources : ResourceExists(r) => ResourceExists(r)'
  BY <1>1 DEF RecordReturnTx, ResourceExists, ResourceAfterReturn, ResourceTable
<1>4. /\ allocation'[a].quantity = allocation[a].quantity
      /\ allocation'[a].alertId = allocation[a].alertId
      /\ allocation'[a].needId = allocation[a].needId
      /\ allocation'[a].resourceId = allocation[a].resourceId
  BY <1>1, <1>2 DEF SettledRow, AllocationTable
<1>5. QED
  BY <1>2, <1>3, <1>4, StillAnchored DEF AlertExists, NeedExists

LEMMA AllocationNextAnchored ==
    ASSUME LedgerInv, FlightInv, NEW u \in Users, AllocationNext(u)
    PROVE  FlightInv'
<1>1. PICK a \in Allocations :
         \/ \E n \in Needs, r \in Resources, q \in Quantity : Allocate(u, n, r, a, q)
         \/ \E next \in {"DELIVERED", "RETURN_AGREED"} : Advance(u, a, next)
         \/ \E d \in Decisions : RecordReturn(u, a, d)
  BY DEF AllocationNext
<1>2. TypeOK
  BY DEF LedgerInv
<1>3. ASSUME NEW n \in Needs, NEW r \in Resources, NEW q \in Quantity, Allocate(u, n, r, a, q)
      PROVE  FlightInv'
  BY <1>2, <1>3, AllocateAnchored DEF Allocate, AllocateAccepts, NeedExists
<1>4. ASSUME NEW next \in {"DELIVERED", "RETURN_AGREED"}, Advance(u, a, next)
      PROVE  FlightInv'
  BY <1>2, <1>4, AdvanceAnchored DEF Advance, AdvanceAccepts, AllowedActors
<1>5. ASSUME NEW d \in Decisions, RecordReturn(u, a, d) PROVE FlightInv'
  BY <1>2, <1>5, RecordReturnAnchored DEF RecordReturn, RecordReturnAccepts, IsActive, ActiveStatus
<1>6. QED
  BY <1>1, <1>3, <1>4, <1>5

LEMMA FlightInvariant == Spec => []FlightInv
<1>1. Init => FlightInv
  BY DEF Init, FlightInv, Anchored, NoAllocation, AllocationRow, IsActive, ActiveStatus
<1>2. LedgerInv /\ FlightInv /\ [Next]_vars => FlightInv'
  <2> SUFFICES ASSUME LedgerInv, FlightInv, [Next]_vars PROVE FlightInv'
    OBVIOUS
  <2>1. CASE UNCHANGED vars
    BY <2>1, StillAnchored DEF vars, AlertExists, NeedExists, ResourceExists
  <2>2. QED
    BY <2>1, AlertNextAnchored, NeedNextAnchored, ResourceNextAnchored, AllocationNextAnchored
       DEF Next
<1>3. QED
  BY <1>1, <1>2, LedgerInvariant, PTL DEF Spec

\* DELETE /api/needs refuses while an allocation is in flight, DELETE
\* /api/resources while units are reserved, and DELETE /api/alerts takes the
\* allocations along: one at a time, they never orphan an allocation in flight.
THEOREM NoOrphans == Spec => []InFlightNeverOrphaned
<1>1. FlightInv => InFlightNeverOrphaned
  BY NullIsNoKey DEF FlightInv, Anchored, InFlightNeverOrphaned
<1>2. QED
  BY <1>1, FlightInvariant, PTL

-----------------------------------------------------------------------------
(* Cancelled alerts are settled. *)

\* A step that cancels no alert, and leaves or brings no allocation in flight
\* to a status other than PARTIALLY_RETURNED, leaves cancelled alerts settled.
LEMMA StillSettled ==
    ASSUME CancelledAlertSettled,
           \A al \in Alerts : alert'[al] = "CANCELLED" => alert[al] = "CANCELLED",
           \A a \in Allocations :
              IsActive(allocation'[a]) /\ allocation'[a].status # "PARTIALLY_RETURNED" =>
                 /\ IsActive(allocation[a]) /\ allocation[a].status # "PARTIALLY_RETURNED"
                 /\ allocation'[a].alertId = allocation[a].alertId
    PROVE  CancelledAlertSettled'
BY DEF CancelledAlertSettled, OnlyOwnerManages, InFlight

\* A return of at least one unit leaves a row RETURNED or PARTIALLY_RETURNED.
LEMMA SettlingDecides ==
    ASSUME LedgerInv, NEW a \in Allocations, NEW d \in Decisions,
           allocation'[a] =
              SettledRow(allocation[a], SumReturnEvents(journal[a], d), allocation[a].status)
    PROVE  allocation'[a].status \in {"PARTIALLY_RETURNED", "RETURNED"}
<1>1. allocation[a] \in AllocationTable
  BY DEF LedgerInv, TypeOK
<1>2. journal[a].quantityReturned \in Nat /\ journal[a].quantityNotReturnable \in Nat
  BY DEF LedgerInv, TypeOK, ReturnTable
<1>3. d.quantityReturned \in Nat /\ d.quantityNotReturnable \in Nat /\ Accounted(d) > 0
  BY DecisionsAreTyped DEF ReturnTable, Decisions
<1>4. Accounted(SumReturnEvents(journal[a], d)) > 0
  BY <1>2, <1>3 DEF Accounted, SumReturnEvents, Returned
<1>5. RecalculateAllocationStatus(allocation[a].quantity, SumReturnEvents(journal[a], d),
                                  allocation[a].status) \in {"PARTIALLY_RETURNED", "RETURNED"}
  <2>1. ~(Accounted(SumReturnEvents(journal[a], d)) <= 0)
    BY <1>2, <1>3, <1>4 DEF Accounted, SumReturnEvents, Returned
  <2>2. QED
    BY <2>1 DEF RecalculateAllocationStatus
<1>6. QED
  BY <1>1, <1>5 DEF AllocationTable, SettledRow

LEMMA AlertNextSettles ==
    ASSUME LedgerInv, CancelledAlertSettled, NEW u \in Users, AlertNext(u)
    PROVE  CancelledAlertSettled'
<1>1. PICK al \in Alerts :
         \/ CreateAlert(u, al)
         \/ \E status \in AlertStatus : PatchAlert(u, al, status)
         \/ \E d \in [Delivered(allocation, al) -> Decisions] : CancelWithReturn(u, al, d)
         \/ DeleteAlert(u, al)
  BY DEF AlertNext
<1>2. /\ alert \in [Alerts -> AlertStatus \cup NoRow]
      /\ allocation \in [Allocations -> AllocationTable]
  BY DEF LedgerInv, TypeOK
<1>3. CASE CreateAlert(u, al)
  BY <1>2, <1>3, StillSettled DEF CreateAlert
<1>4. ASSUME NEW status \in AlertStatus, PatchAlert(u, al, status)
      PROVE  CancelledAlertSettled'
  <2>1. /\ allocation' = allocation
        /\ alert' = [alert EXCEPT ![al] = status]
    BY <1>4 DEF PatchAlert, PatchAlertTx
  <2>2. CASE status # "CANCELLED" \/ alert[al] = "CANCELLED"
    BY <1>2, <2>1, <2>2, StillSettled
  <2>3. CASE status = "CANCELLED" /\ alert[al] # "CANCELLED"
    <3>1. OnlyOwnerManages(al) => IsAlertOwnerOrg(u, al)
      BY <1>4 DEF OnlyOwnerManages, PatchAlert, PatchAlertAccepts, CanManageAlert
    <3>2. OnlyOwnerManages(al) => InFlight(allocation, al) = {}
      BY <1>4, <2>3, <3>1 DEF PatchAlert, PatchAlertAccepts
    <3>3. QED
      BY <1>2, <2>1, <3>2 DEF CancelledAlertSettled, OnlyOwnerManages, InFlight
  <2>4. QED
    BY <2>2, <2>3
<1>5. ASSUME NEW d \in [Delivered(allocation, al) -> Decisions], CancelWithReturn(u, al, d)
      PROVE  CancelledAlertSettled'
  <2>1. \A a \in Allocations : allocation'[a] =
          IF a \in Delivered(allocation, al)
          THEN SettledRow(allocation[a], SumReturnEvents(journal[a], d[a]), allocation[a].status)
          ELSE IF a \in Undelivered(allocation, al) THEN [allocation[a] EXCEPT !.status = "CANCELLED"]
          ELSE allocation[a]
    BY <1>5 DEF CancelWithReturn, CancelTx
  <2>2. \A a \in Delivered(allocation, al) :
           allocation'[a].status \in {"PARTIALLY_RETURNED", "RETURNED"}
    BY <2>1, SettlingDecides DEF Delivered, InFlight
  <2>3. \A a \in Undelivered(allocation, al) \ Delivered(allocation, al) :
           allocation'[a].status = "CANCELLED"
    BY <1>2, <2>1 DEF AllocationTable, Undelivered, InFlight
  <2>4. \A a \in Allocations :
           a \notin Delivered(allocation, al) /\ a \notin Undelivered(allocation, al) =>
              allocation'[a] = allocation[a] /\ a \notin InFlight(allocation, al)
    BY <2>1 DEF Delivered, Undelivered
  <2>5. \A a \in Allocations :
           IsActive(allocation'[a]) /\ allocation'[a].status # "PARTIALLY_RETURNED" =>
              allocation'[a] = allocation[a] /\ a \notin InFlight(allocation, al)
    BY <2>2, <2>3, <2>4 DEF IsActive, ActiveStatus
  <2>6. \A b \in Alerts \ {al} : alert'[b] = alert[b]
    BY <1>2, <1>5 DEF CancelWithReturn, CancelTx
  <2>7. QED
    BY <2>5, <2>6 DEF CancelledAlertSettled, OnlyOwnerManages, InFlight
<1>6. CASE DeleteAlert(u, al)
  <2>1. \A a \in Allocations : IsActive(allocation'[a]) => allocation'[a] = allocation[a]
    BY <1>6 DEF DeleteAlert, DeleteAlertTx, NoAllocation, AllocationRow, IsActive, ActiveStatus
  <2>2. \A b \in Alerts : alert'[b] = "CANCELLED" => alert[b] = "CANCELLED"
    BY <1>2, <1>6 DEF DeleteAlert, DeleteAlertTx
  <2>3. QED
    BY <2>1, <2>2, StillSettled
<1>7. QED
  BY <1>1, <1>3, <1>4, <1>5, <1>6

LEMMA AllocationNextSettles ==
    ASSUME LedgerInv, CancelledAlertSettled, NEW u \in Users, AllocationNext(u)
    PROVE  CancelledAlertSettled'
<1>1. PICK a \in Allocations :
         \/ \E n \in Needs, r \in Resources, q \in Quantity : Allocate(u, n, r, a, q)
         \/ \E next \in {"DELIVERED", "RETURN_AGREED"} : Advance(u, a, next)
         \/ \E d \in Decisions : RecordReturn(u, a, d)
  BY DEF AllocationNext
<1>2. allocation \in [Allocations -> AllocationTable]
  BY DEF LedgerInv, TypeOK
<1>3. ASSUME NEW n \in Needs, NEW r \in Resources, NEW q \in Quantity, Allocate(u, n, r, a, q)
      PROVE  CancelledAlertSettled'
  <2>1. /\ alert' = alert /\ alert[needAlert[n]] # "CANCELLED"
        /\ \A b \in Allocations \ {a} : allocation'[b] = allocation[b]
        /\ allocation'[a].alertId = needAlert[n]
    BY <1>2, <1>3 DEF Allocate, AllocateAccepts, AllocateTx, AllocationRow
  <2>2. QED
    BY <2>1 DEF CancelledAlertSettled, OnlyOwnerManages, InFlight
<1>4. ASSUME NEW next \in {"DELIVERED", "RETURN_AGREED"}, Advance(u, a, next)
      PROVE  CancelledAlertSettled'
  <2>1. allocation[a].status \in {"DELIVERY_AGREED", "DELIVERED"}
    BY <1>4 DEF Advance, AdvanceAccepts, AllowedActors
  <2>2. /\ \A b \in Allocations \ {a} : allocation'[b] = allocation[b]
        /\ allocation'[a].alertId = allocation[a].alertId
        /\ alert' = alert
    BY <1>2, <1>4 DEF Advance, AdvanceTx, AllocationTable
  <2>3. QED
    BY <2>1, <2>2, StillSettled DEF IsActive, ActiveStatus
<1>5. ASSUME NEW d \in Decisions, RecordReturn(u, a, d) PROVE CancelledAlertSettled'
  <2>1. /\ \A b \in Allocations \ {a} : allocation'[b] = allocation[b]
        /\ allocation'[a] =
              SettledRow(allocation[a], SumReturnEvents(journal[a], d), allocation[a].status)
        /\ alert' = alert
    BY <1>2, <1>5 DEF RecordReturn, RecordReturnTx
  <2>2. allocation'[a].status \in {"PARTIALLY_RETURNED", "RETURNED"}
    BY <2>1, SettlingDecides
  <2>3. QED
    BY <2>1, <2>2, StillSettled DEF IsActive, ActiveStatus
<1>6. QED
  BY <1>1, <1>3, <1>4, <1>5

\* No sequence of requests, each served on its own, leaves anything promised
\* or undecided on a cancelled alert that only its owner may manage: not the
\* plain PATCH, not cancel-with-return, and no later step of an allocation.
THEOREM CancelledAlertsSettled == Spec => []CancelledAlertSettled
<1>1. Init => CancelledAlertSettled
  BY DEF Init, CancelledAlertSettled
<1>2. LedgerInv /\ CancelledAlertSettled /\ [Next]_vars => CancelledAlertSettled'
  <2> SUFFICES ASSUME LedgerInv, CancelledAlertSettled, [Next]_vars
               PROVE  CancelledAlertSettled'
    OBVIOUS
  <2>1. CASE UNCHANGED vars
    BY <2>1, StillSettled DEF vars
  <2>2. ASSUME NEW u \in Users, NeedNext(u) PROVE CancelledAlertSettled'
    <3>1. PICK n \in Needs :
             \/ \E q \in Quantity : CreateNeed(u, n, q)
             \/ \E q \in Quantity \cup {Null}, status \in {"CLOSED", "CANCELLED", Null} :
                   PatchNeed(u, n, q, status)
             \/ DeleteNeed(u, n)
      BY <2>2 DEF NeedNext
    <3>2. /\ alert' = alert
          /\ \A a \in Allocations : /\ allocation'[a].status = allocation[a].status
                                    /\ allocation'[a].alertId = allocation[a].alertId
      BY <3>1 DEF LedgerInv, TypeOK, AllocationTable, CreateNeed, PatchNeed, PatchNeedTx,
                  DeleteNeed, DeleteNeedTx
    <3>3. QED
      BY <3>2, StillSettled DEF IsActive
  <2>3. ASSUME NEW u \in Users, ResourceNext(u) PROVE CancelledAlertSettled'
    <3>1. PICK r \in Resources :
             \/ \E q \in 0 .. MaxStock : CreateResource(u, r, q) \/ PatchResource(u, r, q)
             \/ DeleteResource(u, r)
      BY <2>3 DEF ResourceNext
    <3>2. /\ alert' = alert
          /\ \A a \in Allocations : /\ allocation'[a].status = allocation[a].status
                                    /\ allocation'[a].alertId = allocation[a].alertId
      BY <3>1 DEF LedgerInv, TypeOK, AllocationTable, CreateResource, PatchResource,
                  PatchResourceTx, DeleteResource, DeleteResourceTx
    <3>3. QED
      BY <3>2, StillSettled DEF IsActive
  <2>4. QED
    BY <2>1, <2>2, <2>3, AlertNextSettles, AllocationNextSettles DEF Next
<1>3. QED
  BY <1>1, <1>2, LedgerInvariant, PTL DEF Spec

-----------------------------------------------------------------------------
(* AlertNeed.quantityFulfilled of a need that can still receive donations  *)
(* is what its allocation rows cover.                                      *)

\* What allocation row contributes to the coverage of need n.
Contribution(row, n) ==
    IF row.needId = n /\ row.status # "CANCELLED" THEN row.quantity ELSE 0

\* Need n counts what covers it, unless it was closed or withdrawn.
Balanced(n) == need[n].status \in DerivedNeedStatus =>
    /\ need[n].quantityFulfilled = Covered(allocation, n)
    /\ need[n].status = "OPEN" <=> need[n].quantityFulfilled = 0

\* The need of an allocation was created before it, and belongs to its alert.
NeedsMatchAlerts ==
    \A a \in Allocations :
        /\ allocation[a].status = "NEW" => allocation[a].needId = Null
        /\ allocation[a].needId # Null =>
              /\ need[allocation[a].needId].status # "NEW"
              /\ allocation[a].alertId = needAlert[allocation[a].needId]

NeedInv ==
    /\ \A n \in Needs : Balanced(n)
    /\ NeedsMatchAlerts

-----------------------------------------------------------------------------
(* A need that no handler touched, and whose rows contribute what they did. *)
LEMMA Undisturbed ==
    ASSUME NEW n \in Needs, Balanced(n),
           need'[n].status \in DerivedNeedStatus =>
              /\ need'[n].status = need[n].status
              /\ need'[n].quantityFulfilled = need[n].quantityFulfilled
              /\ \A a \in Allocations :
                    Contribution(allocation'[a], n) = Contribution(allocation[a], n)
    PROVE  Balanced(n)'
<1> SUFFICES ASSUME need'[n].status \in DerivedNeedStatus
             PROVE  /\ need'[n].quantityFulfilled = Covered(allocation', n)
                    /\ need'[n].status = "OPEN" <=> need'[n].quantityFulfilled = 0
  BY DEF Balanced, Covered
<1>1. [a \in Allocations |-> Contribution(allocation'[a], n)]
        = [a \in Allocations |-> Contribution(allocation[a], n)]
  OBVIOUS
<1>2. Covered(allocation', n) = Covered(allocation, n)
  BY <1>1 DEF Covered, Contribution
<1>3. QED
  BY <1>2 DEF Balanced

\* A need whose counter and status a handler has just recomputed.
LEMMA Recomputed ==
    ASSUME TypeOK', NEW n \in Needs, NEW needed, NEW status \in DerivedNeedStatus,
           need'[n].quantityFulfilled = Covered(allocation', n),
           need'[n].status = RecalculateNeedStatus(needed, Covered(allocation', n), status)
    PROVE  Balanced(n)'
<1>1. allocation' \in [Allocations -> AllocationTable]
  BY DEF TypeOK
<1>2. Covered(allocation', n) \in Nat
  BY <1>1, CoveredIsNat
<1>3. need'[n].status = "OPEN" <=> Covered(allocation', n) = 0
  BY <1>2 DEF RecalculateNeedStatus, DerivedNeedStatus
<1>4. QED
  BY <1>3 DEF Balanced, Covered

\* Rows that stay where they are, while no need becomes new.
LEMMA StillMatching ==
    ASSUME NeedsMatchAlerts,
           \A a \in Allocations :
              \/ allocation'[a].needId = Null
              \/ /\ allocation'[a].needId = allocation[a].needId
                 /\ allocation'[a].alertId = allocation[a].alertId
                 /\ allocation'[a].status = "NEW" => allocation[a].status = "NEW",
           allocation \in [Allocations -> AllocationTable],
           \A n \in Needs : need'[n].status = "NEW" => need[n].status = "NEW"
    PROVE  NeedsMatchAlerts'
BY DEF NeedsMatchAlerts, AllocationTable

-----------------------------------------------------------------------------
(* One lemma per group of handlers. *)

\* An edit of a need keeps its counter, and only ever takes it out of the open ones.
LEMMA PatchNeedNeeds ==
    ASSUME TypeOK, NeedInv, NEW n \in Needs, NEW q \in Quantity \cup {Null},
           NEW status \in {"CLOSED", "CANCELLED", Null}, PatchNeedTx(n, q, status)
    PROVE  /\ NeedInv'
           /\ \A m \in Needs : need'[m].status \in DerivedNeedStatus => need'[m].status = need[m].status
<1>1. need \in [Needs -> NeedTable] /\ allocation \in [Allocations -> AllocationTable]
  BY DEF TypeOK
<1>2. /\ need' = [need EXCEPT ![n] =
            NeedRow(IF status = Null THEN @.status ELSE status,
                    IF q = Null THEN @.quantityNeeded ELSE q, @.quantityFulfilled)]
      /\ NeedExists(n) /\ allocation' = allocation
  BY DEF PatchNeedTx
<1>3. /\ need'[n].status \in {need[n].status, "CLOSED", "CANCELLED"}
      /\ need'[n].quantityFulfilled = need[n].quantityFulfilled
      /\ \A m \in Needs \ {n} : need'[m] = need[m]
  BY <1>1, <1>2 DEF NeedRow
<1>4. \A m \in Needs : Balanced(m)'
  BY <1>2, <1>3, Undisturbed DEF NeedInv, DerivedNeedStatus
<1>5. NeedsMatchAlerts'
  BY <1>1, <1>2, <1>3, StillMatching DEF NeedInv, NeedExists, NeedStatus, DerivedNeedStatus
<1>6. QED
  BY <1>3, <1>4, <1>5 DEF NeedInv, DerivedNeedStatus

\* A deleted need counts nothing any more, and no other need loses a row.
LEMMA DeleteNeedNeeds ==
    ASSUME TypeOK, NeedInv, NEW n \in Needs, DeleteNeedTx(n)
    PROVE  NeedInv'
<1>1. need \in [Needs -> NeedTable] /\ allocation \in [Allocations -> AllocationTable]
  BY DEF TypeOK
<1>2. /\ need' = [need EXCEPT ![n] = NoNeed("GONE")]
      /\ allocation' = [a \in Allocations |->
            IF allocation[a].needId = n THEN [allocation[a] EXCEPT !.needId = Null]
            ELSE allocation[a]]
  BY DEF DeleteNeedTx
<1>3. need'[n].status = "GONE" /\ \A m \in Needs \ {n} : need'[m] = need[m]
  BY <1>1, <1>2 DEF NoNeed, NeedRow
<1>4. \A a \in Allocations :
         /\ allocation'[a].status = allocation[a].status
         /\ allocation'[a].needId = (IF allocation[a].needId = n THEN Null ELSE allocation[a].needId)
         /\ allocation'[a].alertId = allocation[a].alertId
         /\ allocation'[a].quantity = allocation[a].quantity
  BY <1>1, <1>2 DEF AllocationTable
<1>5. ASSUME NEW m \in Needs PROVE Balanced(m)'
  <2>1. CASE m = n
    BY <1>3, <2>1, Undisturbed DEF NeedInv, DerivedNeedStatus
  <2>2. CASE m # n
    <3>1. \A a \in Allocations :
             Contribution(allocation'[a], m) = Contribution(allocation[a], m)
      BY <1>4, <2>2, NullIsNoKey DEF Contribution
    <3>2. QED
      BY <1>3, <2>2, <3>1, Undisturbed DEF NeedInv
  <2>3. QED
    BY <2>1, <2>2
<1>6. NeedsMatchAlerts'
  BY <1>1, <1>3, <1>4, StillMatching DEF NeedInv
<1>7. QED
  BY <1>5, <1>6 DEF NeedInv

LEMMA NeedNextNeeds ==
    ASSUME LedgerInv, LedgerInv', NeedInv, NEW u \in Users, NeedNext(u)
    PROVE  NeedInv'
<1>1. PICK n \in Needs :
         \/ \E q \in Quantity : CreateNeed(u, n, q)
         \/ \E q \in Quantity \cup {Null}, status \in {"CLOSED", "CANCELLED", Null} :
               PatchNeed(u, n, q, status)
         \/ DeleteNeed(u, n)
  BY DEF NeedNext
<1>2. need \in [Needs -> NeedTable] /\ allocation \in [Allocations -> AllocationTable]
  BY DEF LedgerInv, TypeOK
<1>3. ASSUME NEW q \in Quantity, CreateNeed(u, n, q) PROVE NeedInv'
  <2>1. need[n].status = "NEW" /\ need' = [need EXCEPT ![n] = NeedRow("OPEN", q, 0)]
        /\ allocation' = allocation
    BY <1>3 DEF CreateNeed
  <2>2. /\ need'[n].status = "OPEN" /\ need'[n].quantityFulfilled = 0
        /\ \A m \in Needs \ {n} : need'[m] = need[m]
    BY <1>2, <2>1 DEF NeedRow
  <2>3. \A a \in Allocations : allocation[a].needId # n
    BY <2>1, NullIsNoKey DEF NeedInv, NeedsMatchAlerts
  <2>4. Balanced(n)'
    <3> DEFINE column == [a \in Allocations |->
                  IF allocation[a].needId = n /\ allocation[a].status # "CANCELLED"
                  THEN allocation[a].quantity ELSE 0]
    <3>1. column \in [Allocations -> Nat] /\ \A a \in Allocations : column[a] = 0
      BY <2>3
    <3>2. Total(column) = 0
      BY <3>1, KeysFinite, TotalZero
    <3>3. Covered(allocation, n) = 0
      BY <3>2 DEF Covered
    <3>4. QED
      BY <2>1, <2>2, <3>3 DEF Balanced, Covered
  <2>5. \A m \in Needs \ {n} : Balanced(m)'
    BY <2>1, <2>2, Undisturbed DEF NeedInv
  <2>6. NeedsMatchAlerts'
    BY <1>2, <2>1, <2>2, StillMatching DEF NeedInv
  <2>7. QED
    BY <2>4, <2>5, <2>6 DEF NeedInv
<1>4. TypeOK
  BY DEF LedgerInv
<1>5. QED
  BY <1>1, <1>3, <1>4, PatchNeedNeeds, DeleteNeedNeeds DEF PatchNeed, DeleteNeed

\* Handlers that keep the needs, and of every row what it covers of them.
LEMMA RowsUnmoved ==
    ASSUME TypeOK, NeedInv, need' = need,
           \A a \in Allocations :
              /\ allocation'[a].status = allocation[a].status
              /\ allocation'[a].needId = allocation[a].needId
              /\ allocation'[a].alertId = allocation[a].alertId
              /\ allocation'[a].quantity = allocation[a].quantity
    PROVE  NeedInv'
<1>1. allocation \in [Allocations -> AllocationTable]
  BY DEF TypeOK
<1>2. ASSUME NEW n \in Needs PROVE Balanced(n)'
  <2>1. \A a \in Allocations : Contribution(allocation'[a], n) = Contribution(allocation[a], n)
    BY DEF Contribution
  <2>2. QED
    BY <2>1, Undisturbed DEF NeedInv
<1>3. NeedsMatchAlerts'
  BY <1>1, StillMatching DEF NeedInv
<1>4. QED
  BY <1>2, <1>3 DEF NeedInv

LEMMA ResourceNextNeeds ==
    ASSUME LedgerInv, NeedInv, NEW u \in Users, ResourceNext(u)
    PROVE  NeedInv'
<1>1. TypeOK /\ allocation \in [Allocations -> AllocationTable]
  BY DEF LedgerInv, TypeOK
<1>2. need' = need
  BY DEF ResourceNext, CreateResource, PatchResource, PatchResourceTx,
         DeleteResource, DeleteResourceTx
<1>3. \/ allocation' = allocation
      \/ \E r \in Resources : allocation' = [a \in Allocations |->
            IF allocation[a].resourceId = r THEN [allocation[a] EXCEPT !.resourceId = Null]
            ELSE allocation[a]]
  BY DEF ResourceNext, CreateResource, PatchResource, PatchResourceTx,
         DeleteResource, DeleteResourceTx
<1>4. \A a \in Allocations :
         /\ allocation'[a].status = allocation[a].status
         /\ allocation'[a].needId = allocation[a].needId
         /\ allocation'[a].alertId = allocation[a].alertId
         /\ allocation'[a].quantity = allocation[a].quantity
  BY <1>1, <1>3 DEF AllocationTable
<1>5. QED
  BY <1>1, <1>2, <1>4, RowsUnmoved

\* An allocation recomputes its need from the rows that cover it by then,
\* whatever the handler had seen of the need before.
LEMMA AllocateNeeds ==
    ASSUME TypeOK, TypeOK', NeedInv, NEW u, NEW n \in Needs, NEW r, NEW a \in Allocations, NEW q,
           NEW seenNeed, seenNeed.status \in DerivedNeedStatus, NEW seenResource,
           AllocateTx(u, n, r, a, q, seenNeed, seenResource)
    PROVE  NeedInv'
<1> DEFINE covered == Covered(allocation', n)
<1>1. need \in [Needs -> NeedTable] /\ allocation \in [Allocations -> AllocationTable]
  BY DEF TypeOK
<1>2. /\ allocation[a].status = "NEW"
      /\ allocation' = [allocation EXCEPT ![a] =
            AllocationRow("DELIVERY_AGREED", n, needAlert[n], r, u.org, q)]
      /\ need' = [need EXCEPT ![n] =
            NeedRow(RecalculateNeedStatus(seenNeed.quantityNeeded, covered, seenNeed.status),
                    need[n].quantityNeeded, covered)]
  BY DEF AllocateTx
<1> HIDE DEF covered
<1>3. /\ \A m \in Needs \ {n} : need'[m] = need[m]
      /\ need'[n].quantityFulfilled = covered
      /\ need'[n].status = RecalculateNeedStatus(seenNeed.quantityNeeded, covered, seenNeed.status)
  BY <1>1, <1>2 DEF NeedRow
<1>4. /\ \A b \in Allocations \ {a} : allocation'[b] = allocation[b]
      /\ allocation'[a].needId = n /\ allocation'[a].alertId = needAlert[n]
      /\ allocation'[a].status = "DELIVERY_AGREED"
  BY <1>1, <1>2 DEF AllocationRow
<1>5. Balanced(n)'
  BY <1>3, Recomputed DEF covered
<1>6. allocation[a].needId = Null
  BY <1>2 DEF NeedInv, NeedsMatchAlerts
<1>7. ASSUME NEW m \in Needs \ {n} PROVE Balanced(m)'
  <2>1. \A b \in Allocations : Contribution(allocation'[b], m) = Contribution(allocation[b], m)
    BY <1>4, <1>6, NullIsNoKey DEF Contribution
  <2>2. QED
    BY <1>3, <2>1, Undisturbed DEF NeedInv
<1>8. need'[n].status # "NEW"
  BY <1>3 DEF RecalculateNeedStatus, DerivedNeedStatus
<1>9. NeedsMatchAlerts'
  BY <1>1, <1>3, <1>4, <1>8 DEF NeedInv, NeedsMatchAlerts, AllocationTable
<1>10. QED
  BY <1>5, <1>7, <1>9 DEF NeedInv

LEMMA AllocationNextNeeds ==
    ASSUME LedgerInv, LedgerInv', NeedInv, NEW u \in Users, AllocationNext(u)
    PROVE  NeedInv'
<1>1. PICK a \in Allocations :
         \/ \E n \in Needs, r \in Resources, q \in Quantity : Allocate(u, n, r, a, q)
         \/ \E next \in {"DELIVERED", "RETURN_AGREED"} : Advance(u, a, next)
         \/ \E d \in Decisions : RecordReturn(u, a, d)
  BY DEF AllocationNext
<1>2. need \in [Needs -> NeedTable] /\ allocation \in [Allocations -> AllocationTable]
  BY DEF LedgerInv, TypeOK
\* A row that keeps its need and its alert, and is withdrawn in neither state.
<1>3. ASSUME need' = need,
             \A b \in Allocations \ {a} : allocation'[b] = allocation[b],
             /\ allocation'[a].needId = allocation[a].needId
             /\ allocation'[a].alertId = allocation[a].alertId
             /\ allocation'[a].quantity = allocation[a].quantity,
             allocation[a].status \notin {"NEW", "CANCELLED"},
             allocation'[a].status \notin {"NEW", "CANCELLED"}
      PROVE  NeedInv'
  <2>1. ASSUME NEW n \in Needs PROVE Balanced(n)'
    <3>1. \A b \in Allocations : Contribution(allocation'[b], n) = Contribution(allocation[b], n)
      BY <1>3 DEF Contribution
    <3>2. QED
      BY <1>3, <3>1, Undisturbed DEF NeedInv
  <2>2. NeedsMatchAlerts'
    BY <1>2, <1>3, StillMatching DEF NeedInv
  <2>3. QED
    BY <2>1, <2>2 DEF NeedInv
<1>4. ASSUME NEW n \in Needs, NEW r \in Resources, NEW q \in Quantity, Allocate(u, n, r, a, q)
      PROVE  NeedInv'
  <2>1. TypeOK /\ TypeOK' /\ need[n].status \in DerivedNeedStatus
    BY <1>4 DEF LedgerInv, Allocate, AllocateAccepts, NeedExists, NeedStatus
  <2>2. QED
    BY <1>4, <2>1, AllocateNeeds DEF Allocate
<1>5. ASSUME NEW next \in {"DELIVERED", "RETURN_AGREED"}, Advance(u, a, next) PROVE NeedInv'
  <2>1. /\ allocation' = [allocation EXCEPT ![a].status = next] /\ need' = need
        /\ allocation[a].status \in {"DELIVERY_AGREED", "DELIVERED"}
    BY <1>5 DEF Advance, AdvanceAccepts, AdvanceTx, AllowedActors
  <2>2. /\ \A b \in Allocations \ {a} : allocation'[b] = allocation[b]
        /\ allocation'[a].needId = allocation[a].needId
        /\ allocation'[a].alertId = allocation[a].alertId
        /\ allocation'[a].quantity = allocation[a].quantity
        /\ allocation'[a].status = next
    BY <1>2, <2>1 DEF AllocationTable
  <2>3. QED
    BY <1>3, <2>1, <2>2
<1>6. ASSUME NEW d \in Decisions, RecordReturn(u, a, d) PROVE NeedInv'
  <2> DEFINE row == allocation[a]
             events == SumReturnEvents(journal[a], d)
             status == RecalculateAllocationStatus(row.quantity, events, row.status)
  <2>1. /\ row.status \in {"RETURN_AGREED", "PARTIALLY_RETURNED"} /\ need' = need
        /\ allocation' = [allocation EXCEPT ![a] = SettledRow(row, events, row.status)]
    BY <1>6 DEF RecordReturn, RecordReturnAccepts, RecordReturnTx
  <2>2. status \in {row.status, "PARTIALLY_RETURNED", "RETURNED"}
    BY DEF RecalculateAllocationStatus
  <2>3. /\ \A b \in Allocations \ {a} : allocation'[b] = allocation[b]
        /\ allocation'[a] = [row EXCEPT !.quantityReturned = events.quantityReturned,
                                        !.quantityNotReturnable = events.quantityNotReturnable,
                                        !.status = status]
    BY <1>2, <2>1 DEF SettledRow
  <2> HIDE DEF status, events
  <2>4. /\ allocation'[a].needId = row.needId /\ allocation'[a].alertId = row.alertId
        /\ allocation'[a].quantity = row.quantity /\ allocation'[a].status = status
    BY <1>2, <2>3 DEF AllocationTable
  <2>5. QED
    BY <1>3, <2>1, <2>2, <2>3, <2>4
<1>7. QED
  BY <1>1, <1>4, <1>5, <1>6

\* Need n after its alert al was closed down, or the alert was another one.
LeavesNeed(n, al) ==
    /\ need'[n].status = "NEW" => need[n].status = "NEW"
    /\ needAlert[n] = al => need'[n].status \notin DerivedNeedStatus
    /\ needAlert[n] # al => need'[n] = need[n]

\* An allocation row that is settled or withdrawn with its alert, removed with
\* it, or left alone.
LeavesRow(row, next, al) ==
    \/ /\ row.alertId = al /\ next.alertId = al /\ next.needId = row.needId
       /\ next.status = "NEW" => row.status = "NEW"
    \/ row.alertId = al /\ next.needId = Null
    \/ next = row

\* What a handler leaves of a cancelled alert, or of a deleted one: no need of
\* it can receive anything, and the rows of the others are as they were.
LEMMA AlertClosedDown ==
    ASSUME TypeOK, NeedInv, NEW al \in Alerts,
           \A n \in Needs : LeavesNeed(n, al),
           \A a \in Allocations : LeavesRow(allocation[a], allocation'[a], al)
    PROVE  NeedInv'
<1>1. allocation \in [Allocations -> AllocationTable] /\ needAlert \in [Needs -> Alerts]
  BY ImmutableColumns DEF TypeOK
<1>2. ASSUME NEW n \in Needs PROVE Balanced(n)'
  <2>1. CASE needAlert[n] = al
    <3>1. need'[n].status \notin DerivedNeedStatus
      BY <2>1 DEF LeavesNeed
    <3>2. QED
      BY <3>1, Undisturbed DEF NeedInv
  <2>2. CASE needAlert[n] # al
    <3>1. ASSUME NEW a \in Allocations
          PROVE  Contribution(allocation'[a], n) = Contribution(allocation[a], n)
      <4>1. CASE allocation[a].alertId = al
        <5>1. allocation[a].needId # n
          BY <2>2, <4>1, NullIsNoKey DEF NeedInv, NeedsMatchAlerts
        <5>2. allocation'[a].needId # n
          BY <4>1, <5>1, NullIsNoKey DEF LeavesRow
        <5>3. QED
          BY <5>1, <5>2 DEF Contribution
      <4>2. CASE allocation[a].alertId # al
        <5>1. allocation'[a] = allocation[a]
          BY <4>2 DEF LeavesRow
        <5>2. QED
          BY <5>1
      <4>3. QED
        BY <4>1, <4>2
    <3>2. QED
      BY <2>2, <3>1, Undisturbed DEF NeedInv, LeavesNeed
  <2>3. QED
    BY <2>1, <2>2
<1>3. \A n \in Needs : need'[n].status = "NEW" => need[n].status = "NEW"
  BY DEF LeavesNeed
<1>4. \A a \in Allocations :
         \/ allocation'[a].needId = Null
         \/ /\ allocation'[a].needId = allocation[a].needId
            /\ allocation'[a].alertId = allocation[a].alertId
            /\ allocation'[a].status = "NEW" => allocation[a].status = "NEW"
  BY DEF LeavesRow
<1>5. NeedsMatchAlerts'
  BY <1>1, <1>3, <1>4, StillMatching DEF NeedInv
<1>6. QED
  BY <1>2, <1>5 DEF NeedInv

LEMMA AlertNextNeeds ==
    ASSUME LedgerInv, LedgerInv', NeedInv, NEW u \in Users, AlertNext(u)
    PROVE  NeedInv'
<1>1. PICK al \in Alerts :
         \/ CreateAlert(u, al)
         \/ \E status \in AlertStatus : PatchAlert(u, al, status)
         \/ \E d \in [Delivered(allocation, al) -> Decisions] : CancelWithReturn(u, al, d)
         \/ DeleteAlert(u, al)
  BY DEF AlertNext
<1>2. /\ need \in [Needs -> NeedTable] /\ allocation \in [Allocations -> AllocationTable]
      /\ TypeOK /\ TypeOK'
  BY DEF LedgerInv, TypeOK
<1>3. CASE CreateAlert(u, al)
  <2>1. need' = need /\ allocation' = allocation
    BY <1>3 DEF CreateAlert
  <2>2. \A n \in Needs : Balanced(n)'
    BY <2>1, Undisturbed DEF NeedInv
  <2>3. NeedsMatchAlerts'
    BY <1>2, <2>1, StillMatching DEF NeedInv
  <2>4. QED
    BY <2>2, <2>3 DEF NeedInv
<1>4. ASSUME NEW status \in AlertStatus, PatchAlert(u, al, status) PROVE NeedInv'
  <2> DEFINE reopened == Reopening(al, status, alert[al])
  <2>1. /\ need' = [n \in Needs |->
              IF n \in DOMAIN reopened THEN ReopenedNeed(need[n], reopened[n]) ELSE need[n]]
        /\ allocation' = allocation
        /\ \A n \in DOMAIN reopened : NeedExists(n)
    BY <1>4 DEF PatchAlert, PatchAlertTx
  <2>2. \A n \in DOMAIN reopened :
           /\ reopened[n].quantityNeeded = need[n].quantityNeeded
           /\ reopened[n].covered = Covered(allocation, n)
    BY DEF Reopening
  <2>3. \A n \in DOMAIN reopened : n \in Needs
    BY DEF Reopening
  <2> HIDE DEF reopened
  <2>5. ASSUME NEW n \in Needs PROVE Balanced(n)' /\ (need'[n].status = "NEW" => need[n].status = "NEW")
    <3>1. CASE n \in DOMAIN reopened
      <4>1. need'[n] = NeedRow(RecalculateNeedStatus(need[n].quantityNeeded, Covered(allocation, n), "OPEN"),
                               need[n].quantityNeeded, Covered(allocation, n))
        BY <2>1, <2>2, <3>1 DEF ReopenedNeed
      <4>2. /\ need'[n].quantityFulfilled = Covered(allocation, n)
            /\ need'[n].status
                  = RecalculateNeedStatus(need[n].quantityNeeded, Covered(allocation, n), "OPEN")
        BY <4>1 DEF NeedRow
      <4>3. Covered(allocation', n) = Covered(allocation, n)
        BY <2>1
      <4>4. "OPEN" \in DerivedNeedStatus
        BY DEF DerivedNeedStatus
      <4>5. Balanced(n)'
        BY <1>2, <4>2, <4>3, <4>4, Recomputed
      <4>6. need'[n].status # "NEW"
        BY <4>2 DEF RecalculateNeedStatus
      <4>7. QED
        BY <4>5, <4>6
    <3>2. CASE n \notin DOMAIN reopened
      <4>1. need'[n] = need[n]
        BY <2>1, <3>2
      <4>2. QED
        BY <2>1, <4>1, Undisturbed DEF NeedInv
    <3>3. QED
      BY <3>1, <3>2
  <2>6. NeedsMatchAlerts'
    BY <1>2, <2>1, <2>5, StillMatching DEF NeedInv
  <2>7. QED
    BY <2>5, <2>6 DEF NeedInv
<1>5. ASSUME NEW d \in [Delivered(allocation, al) -> Decisions], CancelWithReturn(u, al, d)
      PROVE  NeedInv'
  <2> DEFINE withdrawn == Undelivered(allocation, al)
             events(a) == SumReturnEvents(journal[a], d[a])
             status(a) == RecalculateAllocationStatus(allocation[a].quantity, events(a),
                                                      allocation[a].status)
  <2>1. /\ need' = [n \in Needs |->
              IF needAlert[n] = al /\ NeedExists(n) /\ need[n].status # "CANCELLED"
              THEN NeedRow("CLOSED", need[n].quantityNeeded, Covered(allocation', n))
              ELSE need[n]]
        /\ allocation' = [a \in Allocations |->
              IF a \in DOMAIN d THEN SettledRow(allocation[a], events(a), allocation[a].status)
              ELSE IF a \in withdrawn THEN [allocation[a] EXCEPT !.status = "CANCELLED"]
              ELSE allocation[a]]
    BY <1>5 DEF CancelWithReturn, CancelTx
  <2>2. /\ \A a \in DOMAIN d : allocation[a].alertId = al /\ IsActive(allocation[a])
        /\ \A a \in withdrawn : allocation[a].alertId = al
    BY DEF Delivered, Undelivered, InFlight
  <2>3. \A a \in Allocations : status(a) \in {allocation[a].status, "PARTIALLY_RETURNED", "RETURNED"}
    BY DEF RecalculateAllocationStatus
  <2>4. \A a \in DOMAIN d : a \in Allocations => allocation'[a] =
           [allocation[a] EXCEPT !.quantityReturned = events(a).quantityReturned,
                                 !.quantityNotReturnable = events(a).quantityNotReturnable,
                                 !.status = status(a)]
    BY <2>1 DEF SettledRow
  <2> HIDE DEF withdrawn, events, status
  <2>5. ASSUME NEW a \in Allocations
        PROVE  LeavesRow(allocation[a], allocation'[a], al)
    <3>1. CASE a \in DOMAIN d
      <4>1. /\ allocation'[a].alertId = allocation[a].alertId
            /\ allocation'[a].needId = allocation[a].needId
            /\ allocation'[a].status = status(a)
        BY <1>2, <2>4, <3>1 DEF AllocationTable
      <4>2. QED
        BY <2>2, <2>3, <3>1, <4>1 DEF LeavesRow
    <3>2. CASE a \notin DOMAIN d /\ a \in withdrawn
      <4>1. allocation'[a] = [allocation[a] EXCEPT !.status = "CANCELLED"]
        BY <2>1, <3>2
      <4>2. QED
        BY <1>2, <2>2, <3>2, <4>1 DEF AllocationTable, LeavesRow
    <3>3. CASE a \notin DOMAIN d /\ a \notin withdrawn
      BY <2>1, <3>3 DEF LeavesRow
    <3>4. QED
      BY <3>1, <3>2, <3>3
  <2>6. ASSUME NEW n \in Needs
        PROVE  LeavesNeed(n, al)
    <3>1. CASE needAlert[n] = al /\ NeedExists(n) /\ need[n].status # "CANCELLED"
      <4>1. need'[n] = NeedRow("CLOSED", need[n].quantityNeeded, Covered(allocation', n))
        BY <2>1, <3>1
      <4>2. need'[n].status = "CLOSED"
        BY <4>1 DEF NeedRow
      <4>3. QED
        BY <3>1, <4>2 DEF DerivedNeedStatus, LeavesNeed
    <3>2. CASE ~(needAlert[n] = al /\ NeedExists(n) /\ need[n].status # "CANCELLED")
      <4>1. need'[n] = need[n]
        BY <2>1, <3>2
      <4>2. QED
        BY <3>2, <4>1 DEF NeedExists, NeedStatus, DerivedNeedStatus, LeavesNeed
    <3>3. QED
      BY <3>1, <3>2
  <2>7. QED
    BY <1>2, <2>5, <2>6, AlertClosedDown
<1>6. CASE DeleteAlert(u, al)
  <2>1. /\ need' = [n \in Needs |->
              IF needAlert[n] = al /\ NeedExists(n) THEN NoNeed("GONE") ELSE need[n]]
        /\ allocation' = [a \in Allocations |->
              IF a \in {b \in Allocations : allocation[b].alertId = al}
              THEN NoAllocation("GONE") ELSE allocation[a]]
    BY <1>6 DEF DeleteAlert, DeleteAlertTx
  <2>2. ASSUME NEW a \in Allocations
        PROVE  LeavesRow(allocation[a], allocation'[a], al)
    BY <2>1 DEF NoAllocation, AllocationRow, LeavesRow
  <2>3. ASSUME NEW n \in Needs
        PROVE  LeavesNeed(n, al)
    BY <2>1 DEF NoNeed, NeedRow, NeedExists, NeedStatus, DerivedNeedStatus, LeavesNeed
  <2>4. QED
    BY <1>2, <2>2, <2>3, AlertClosedDown
<1>7. QED
  BY <1>1, <1>3, <1>4, <1>5, <1>6

LEMMA NeedInvariant == Spec => []NeedInv
<1>1. Init => NeedInv
  BY DEF Init, NeedInv, Balanced, NeedsMatchAlerts, NoNeed, NeedRow, NoAllocation, AllocationRow,
         DerivedNeedStatus
<1>2. LedgerInv /\ LedgerInv' /\ NeedInv /\ [Next]_vars => NeedInv'
  <2> SUFFICES ASSUME LedgerInv, LedgerInv', NeedInv, [Next]_vars PROVE NeedInv'
    OBVIOUS
  <2>1. CASE UNCHANGED vars
    <3>1. \A n \in Needs : Balanced(n)'
      BY <2>1, Undisturbed DEF vars, NeedInv
    <3>2. NeedsMatchAlerts'
      BY <2>1 DEF vars, NeedInv, NeedsMatchAlerts
    <3>3. QED
      BY <3>1, <3>2 DEF NeedInv
  <2>2. QED
    BY <2>1, AlertNextNeeds, NeedNextNeeds, ResourceNextNeeds, AllocationNextNeeds DEF Next
<1>3. QED
  BY <1>1, <1>2, LedgerInvariant, PTL DEF Spec

\* "stillNeeded", the cap on the next donation, is the true remainder in every
\* state the handlers reach one at a time.
THEOREM NeedsAlwaysBalanced == Spec => []OpenNeedsBalanced
<1>1. NeedInv => OpenNeedsBalanced
  BY DEF NeedInv, Balanced, OpenNeedsBalanced
<1>2. QED
  BY <1>1, NeedInvariant, PTL

-----------------------------------------------------------------------------
(* A need that takes no donation any more counts at least what covers it,  *)
(* so that it can be reopened with the counter recomputed.                 *)

\* A need never counts less than what covers it, closed or withdrawn ones included.
CoverCounted ==
    \A n \in Needs : NeedExists(n) => Covered(allocation, n) <= need[n].quantityFulfilled

\* A column that is nowhere larger has no larger total.
LEMMA TotalGrows ==
    ASSUME NEW S, IsFiniteSet(S), NEW f \in [S -> Nat], NEW g \in [S -> Nat],
           \A x \in S : f[x] <= g[x]
    PROVE  Total(f) <= Total(g)
<1> DEFINE rest == [x \in S |-> g[x] - f[x]]
<1>1. rest \in [S -> Nat] /\ \A x \in S : g[x] = f[x] + rest[x]
  OBVIOUS
<1> HIDE DEF rest
<1>2. Total(g) = Total(f) + Total(rest)
  BY <1>1, TotalAdd
<1>3. Total(f) \in Nat /\ Total(rest) \in Nat
  BY <1>1, TotalIsNat
<1> QED
  BY <1>2, <1>3

\* Rows that contribute no more cover no more.
LEMMA CoverShrinks ==
    ASSUME NEW rows \in [Allocations -> AllocationTable],
           NEW next \in [Allocations -> AllocationTable], NEW n,
           \A a \in Allocations : Contribution(next[a], n) <= Contribution(rows[a], n)
    PROVE  Covered(next, n) <= Covered(rows, n)
<1> DEFINE f == [a \in Allocations |-> Contribution(next[a], n)]
           g == [a \in Allocations |-> Contribution(rows[a], n)]
<1>1. f \in [Allocations -> Nat] /\ g \in [Allocations -> Nat]
  BY DEF Contribution, AllocationTable
<1>2. \A a \in Allocations : f[a] <= g[a]
  OBVIOUS
<1>3. Covered(next, n) = Total(f) /\ Covered(rows, n) = Total(g)
  BY DEF Covered, Contribution
<1> HIDE DEF f, g
<1> QED
  BY <1>1, <1>2, <1>3, KeysFinite, TotalGrows

\* A step that leaves a closed need's counter alone adds no row to it; one
\* that writes the counter recomputes it.
CountKept(n) ==
    \/ need'[n].status \notin {"CLOSED", "CANCELLED"}
    \/ need'[n].quantityFulfilled = Covered(allocation', n)
    \/ /\ NeedExists(n) /\ need'[n].quantityFulfilled = need[n].quantityFulfilled
       /\ \A a \in Allocations : Contribution(allocation'[a], n) <= Contribution(allocation[a], n)

LEMMA CountsKept ==
    ASSUME TypeOK, TypeOK', NeedInv', CoverCounted, \A n \in Needs : CountKept(n)
    PROVE  CoverCounted'
<1> SUFFICES ASSUME NEW n \in Needs, NeedExists(n)'
             PROVE  Covered(allocation', n) <= need'[n].quantityFulfilled
  BY DEF CoverCounted, Covered
<1>1. /\ allocation \in [Allocations -> AllocationTable]
      /\ allocation' \in [Allocations -> AllocationTable]
      /\ need[n] \in NeedTable /\ need'[n] \in NeedTable
  BY DEF TypeOK
<1>2. Covered(allocation, n) \in Nat /\ Covered(allocation', n) \in Nat
  BY <1>1, CoveredIsNat
<1>3. CASE need'[n].status \in DerivedNeedStatus
  <2>1. need'[n].quantityFulfilled = Covered(allocation', n)
    BY <1>3 DEF NeedInv, Balanced, Covered
  <2> QED
    BY <1>2, <2>1
<1>4. CASE need'[n].status \in {"CLOSED", "CANCELLED"}
  <2>1. CASE need'[n].quantityFulfilled = Covered(allocation', n)
    BY <1>2, <2>1
  <2>2. CASE /\ NeedExists(n) /\ need'[n].quantityFulfilled = need[n].quantityFulfilled
             /\ \A a \in Allocations : Contribution(allocation'[a], n) <= Contribution(allocation[a], n)
    <3>1. Covered(allocation', n) <= Covered(allocation, n)
      BY <1>1, <2>2, CoverShrinks
    <3>2. Covered(allocation, n) <= need[n].quantityFulfilled
      BY <2>2 DEF CoverCounted
    <3>3. need[n].quantityFulfilled \in Nat
      BY <1>1 DEF NeedTable
    <3> QED
      BY <1>2, <2>2, <3>1, <3>2, <3>3
  <2> QED
    BY <1>4, <2>1, <2>2 DEF CountKept
<1> QED
  BY <1>3, <1>4 DEF NeedExists, NeedStatus

\* A need and its rows as they were.
LEMMA CountUntouched ==
    ASSUME TypeOK, NEW n \in Needs, need'[n] = need[n],
           \A a \in Allocations : \/ allocation'[a] = allocation[a]
                                  \/ Contribution(allocation'[a], n) = 0
                                  \/ Contribution(allocation'[a], n) = Contribution(allocation[a], n)
    PROVE  CountKept(n)
<1>1. \A a \in Allocations : Contribution(allocation[a], n) \in Nat
  BY DEF TypeOK, AllocationTable, Contribution
<1>2. \A a \in Allocations : Contribution(allocation'[a], n) <= Contribution(allocation[a], n)
  BY <1>1
<1>3. need'[n].status \in {"CLOSED", "CANCELLED"} => NeedExists(n)
  BY DEF NeedExists, NeedStatus
<1> QED
  BY <1>2, <1>3 DEF CountKept

\* Settling a row leaves what it covers as it was.
LEMMA SettledContribution ==
    ASSUME NEW row \in AllocationTable, row.status # "CANCELLED", NEW events, NEW n
    PROVE  Contribution(SettledRow(row, events, row.status), n) = Contribution(row, n)
<1> DEFINE status == RecalculateAllocationStatus(row.quantity, events, row.status)
           settled == SettledRow(row, events, row.status)
<1>1. status # "CANCELLED"
  BY DEF RecalculateAllocationStatus
<1>2. settled = [row EXCEPT !.quantityReturned = events.quantityReturned,
                            !.quantityNotReturnable = events.quantityNotReturnable,
                            !.status = status]
  BY DEF SettledRow
<1> HIDE DEF status
<1>3. settled.needId = row.needId /\ settled.quantity = row.quantity /\ settled.status = status
  BY <1>2 DEF AllocationTable
<1> QED
  BY <1>1, <1>3 DEF Contribution

\* A cancel recomputes the needs it closes and withdraws rows of others; a
\* status reopens a need, and does not close one.
LEMMA AlertNextCounts ==
    ASSUME LedgerInv, LedgerInv', NEW u \in Users, AlertNext(u)
    PROVE  \A n \in Needs : CountKept(n)
<1>1. PICK al \in Alerts :
         \/ CreateAlert(u, al)
         \/ \E status \in AlertStatus : PatchAlert(u, al, status)
         \/ \E d \in [Delivered(allocation, al) -> Decisions] : CancelWithReturn(u, al, d)
         \/ DeleteAlert(u, al)
  BY DEF AlertNext
<1>2. TypeOK /\ allocation \in [Allocations -> AllocationTable]
  BY DEF LedgerInv, TypeOK
<1>3. CASE CreateAlert(u, al)
  BY <1>2, <1>3, CountUntouched DEF CreateAlert
<1>4. ASSUME NEW status \in AlertStatus, PatchAlert(u, al, status), NEW n \in Needs
      PROVE  CountKept(n)
  <2>1. /\ \/ need'[n] = need[n]
           \/ \E seen : need'[n] = ReopenedNeed(need[n], seen)
        /\ allocation' = allocation
    BY <1>4 DEF PatchAlert, PatchAlertTx
  <2>2. CASE need'[n] = need[n]
    BY <1>2, <2>1, <2>2, CountUntouched
  <2>3. ASSUME NEW seen, need'[n] = ReopenedNeed(need[n], seen) PROVE CountKept(n)
    BY <2>3 DEF CountKept, ReopenedNeed, NeedRow, RecalculateNeedStatus
  <2> QED
    BY <2>1, <2>2, <2>3
<1>5. ASSUME NEW d \in [Delivered(allocation, al) -> Decisions], CancelWithReturn(u, al, d),
             NEW n \in Needs
      PROVE  CountKept(n)
  <2>1. /\ \/ need'[n] = need[n]
           \/ need'[n] = NeedRow("CLOSED", need[n].quantityNeeded, Covered(allocation', n))
        /\ allocation' = [a \in Allocations |->
              IF a \in DOMAIN d
              THEN SettledRow(allocation[a], SumReturnEvents(journal[a], d[a]), allocation[a].status)
              ELSE IF a \in Undelivered(allocation, al)
              THEN [allocation[a] EXCEPT !.status = "CANCELLED"]
              ELSE allocation[a]]
    BY <1>5 DEF CancelWithReturn, CancelTx
  <2>2. CASE need'[n] = NeedRow("CLOSED", need[n].quantityNeeded, Covered(allocation', n))
    BY <2>2 DEF CountKept, NeedRow
  <2>3. CASE need'[n] = need[n]
    <3>1. ASSUME NEW a \in Allocations
          PROVE  \/ allocation'[a] = allocation[a]
                 \/ Contribution(allocation'[a], n) = 0
                 \/ Contribution(allocation'[a], n) = Contribution(allocation[a], n)
      <4>1. CASE a \in DOMAIN d
        <5>1. allocation[a].status # "CANCELLED"
          BY <4>1 DEF Delivered, InFlight, IsActive, ActiveStatus
        <5>2. allocation'[a] =
                 SettledRow(allocation[a], SumReturnEvents(journal[a], d[a]), allocation[a].status)
          BY <2>1, <4>1
        <5> QED
          BY <1>2, <5>1, <5>2, SettledContribution
      <4>2. CASE a \notin DOMAIN d /\ a \in Undelivered(allocation, al)
        <5>1. allocation'[a].status = "CANCELLED"
          BY <1>2, <2>1, <4>2 DEF AllocationTable
        <5> QED
          BY <5>1 DEF Contribution
      <4>3. CASE a \notin DOMAIN d /\ a \notin Undelivered(allocation, al)
        BY <2>1, <4>3
      <4> QED
        BY <4>1, <4>2, <4>3
    <3> QED
      BY <1>2, <2>3, <3>1, CountUntouched
  <2> QED
    BY <2>1, <2>2, <2>3
<1>6. ASSUME DeleteAlert(u, al), NEW n \in Needs
      PROVE  CountKept(n)
  <2>1. /\ \/ need'[n] = need[n]
           \/ need'[n] = NoNeed("GONE")
        /\ \A a \in Allocations :
              \/ allocation'[a] = allocation[a]
              \/ allocation'[a] = NoAllocation("GONE")
    BY <1>6 DEF DeleteAlert, DeleteAlertTx
  <2>2. Contribution(NoAllocation("GONE"), n) = 0
    BY NullIsNoKey DEF NoAllocation, AllocationRow, Contribution
  <2>3. CASE need'[n] = need[n]
    BY <1>2, <2>1, <2>2, <2>3, CountUntouched
  <2>4. CASE need'[n] = NoNeed("GONE")
    BY <2>4 DEF CountKept, NoNeed, NeedRow
  <2> QED
    BY <2>1, <2>3, <2>4
<1> QED
  BY <1>1, <1>3, <1>4, <1>5, <1>6

\* An edit that closes a need keeps its counter and its rows.
LEMMA NeedNextCounts ==
    ASSUME LedgerInv, NEW u \in Users, NeedNext(u)
    PROVE  \A n \in Needs : CountKept(n)
<1>1. PICK m \in Needs :
         \/ \E q \in Quantity : CreateNeed(u, m, q)
         \/ \E q \in Quantity \cup {Null}, status \in {"CLOSED", "CANCELLED", Null} :
               PatchNeed(u, m, q, status)
         \/ DeleteNeed(u, m)
  BY DEF NeedNext
<1>2. /\ TypeOK /\ allocation \in [Allocations -> AllocationTable]
      /\ need \in [Needs -> NeedTable]
  BY DEF LedgerInv, TypeOK
<1>3. \A a \in Allocations : Contribution(allocation[a], m) \in Nat
  BY <1>2 DEF AllocationTable, Contribution
<1>4. ASSUME NEW q \in Quantity, CreateNeed(u, m, q), NEW n \in Needs PROVE CountKept(n)
  <2>1. CASE n = m
    BY <1>2, <1>4, <2>1 DEF CreateNeed, NeedRow, CountKept
  <2>2. CASE n # m
    BY <1>2, <1>4, <2>2, CountUntouched DEF CreateNeed
  <2> QED
    BY <2>1, <2>2
<1>5. ASSUME NEW q \in Quantity \cup {Null}, NEW status \in {"CLOSED", "CANCELLED", Null},
             PatchNeed(u, m, q, status), NEW n \in Needs
      PROVE  CountKept(n)
  <2>1. CASE n = m
    <3>1. NeedExists(m) /\ need'[m].quantityFulfilled = need[m].quantityFulfilled
          /\ allocation' = allocation
      BY <1>2, <1>5 DEF PatchNeed, PatchNeedTx, NeedRow
    <3> QED
      BY <1>3, <2>1, <3>1 DEF CountKept
  <2>2. CASE n # m
    BY <1>2, <1>5, <2>2, CountUntouched DEF PatchNeed, PatchNeedTx
  <2> QED
    BY <2>1, <2>2
<1>6. ASSUME DeleteNeed(u, m), NEW n \in Needs PROVE CountKept(n)
  <2>1. CASE n = m
    BY <1>2, <1>6, <2>1 DEF DeleteNeed, DeleteNeedTx, NoNeed, NeedRow, CountKept
  <2>2. CASE n # m
    <3>1. \A a \in Allocations :
             \/ allocation'[a] = allocation[a]
             \/ allocation'[a].needId = Null
      BY <1>2, <1>6 DEF DeleteNeed, DeleteNeedTx, AllocationTable
    <3>2. need'[n] = need[n]
      BY <1>2, <1>6, <2>2 DEF DeleteNeed, DeleteNeedTx
    <3> QED
      BY <1>2, <3>1, <3>2, CountUntouched, NullIsNoKey DEF Contribution
  <2> QED
    BY <2>1, <2>2
<1> QED
  BY <1>1, <1>4, <1>5, <1>6

LEMMA ResourceNextCounts ==
    ASSUME LedgerInv, NEW u \in Users, ResourceNext(u)
    PROVE  \A n \in Needs : CountKept(n)
<1>1. TypeOK /\ allocation \in [Allocations -> AllocationTable]
  BY DEF LedgerInv, TypeOK
<1>2. need' = need
  BY DEF ResourceNext, CreateResource, PatchResource, PatchResourceTx,
         DeleteResource, DeleteResourceTx
<1>3. \/ allocation' = allocation
      \/ \E r \in Resources : allocation' = [a \in Allocations |->
            IF allocation[a].resourceId = r THEN [allocation[a] EXCEPT !.resourceId = Null]
            ELSE allocation[a]]
  BY DEF ResourceNext, CreateResource, PatchResource, PatchResourceTx,
         DeleteResource, DeleteResourceTx
<1>4. \A a \in Allocations, n \in Needs :
         Contribution(allocation'[a], n) = Contribution(allocation[a], n)
  BY <1>1, <1>3 DEF AllocationTable, Contribution
<1> QED
  BY <1>1, <1>2, <1>4, CountUntouched

\* A donation goes to a need that is open, and stays so.
LEMMA AllocationNextCounts ==
    ASSUME LedgerInv, NeedInv, NEW u \in Users, AllocationNext(u)
    PROVE  \A n \in Needs : CountKept(n)
<1>1. PICK a \in Allocations :
         \/ \E n \in Needs, r \in Resources, q \in Quantity : Allocate(u, n, r, a, q)
         \/ \E next \in {"DELIVERED", "RETURN_AGREED"} : Advance(u, a, next)
         \/ \E d \in Decisions : RecordReturn(u, a, d)
  BY DEF AllocationNext
<1>2. /\ TypeOK /\ allocation \in [Allocations -> AllocationTable]
      /\ need \in [Needs -> NeedTable]
  BY DEF LedgerInv, TypeOK
<1>3. ASSUME NEW m \in Needs, NEW r \in Resources, NEW q \in Quantity, Allocate(u, m, r, a, q),
             NEW n \in Needs
      PROVE  CountKept(n)
  <2>1. CASE n = m
    BY <1>2, <1>3, <2>1 DEF Allocate, AllocateTx, NeedRow, CountKept
  <2>2. CASE n # m
    <3>1. need'[n] = need[n] /\ \A b \in Allocations \ {a} : allocation'[b] = allocation[b]
      BY <1>2, <1>3, <2>2 DEF Allocate, AllocateTx
    <3>2. allocation'[a].needId = m
      BY <1>2, <1>3 DEF Allocate, AllocateTx, AllocationRow
    <3>3. Contribution(allocation'[a], n) = 0
      BY <2>2, <3>2 DEF Contribution
    <3> QED
      BY <1>2, <3>1, <3>3, CountUntouched
  <2> QED
    BY <2>1, <2>2
<1>4. ASSUME NEW next \in {"DELIVERED", "RETURN_AGREED"}, Advance(u, a, next), NEW n \in Needs
      PROVE  CountKept(n)
  <2>1. /\ need' = need /\ \A b \in Allocations \ {a} : allocation'[b] = allocation[b]
        /\ allocation'[a] = [allocation[a] EXCEPT !.status = next]
        /\ allocation[a].status # "CANCELLED" /\ next # "CANCELLED"
    BY <1>2, <1>4 DEF Advance, AdvanceAccepts, AdvanceTx, AllowedActors
  <2>2. Contribution(allocation'[a], n) = Contribution(allocation[a], n)
    BY <1>2, <2>1 DEF AllocationTable, Contribution
  <2> QED
    BY <1>2, <2>1, <2>2, CountUntouched
<1>5. ASSUME NEW d \in Decisions, RecordReturn(u, a, d), NEW n \in Needs
      PROVE  CountKept(n)
  <2>1. /\ need' = need /\ \A b \in Allocations \ {a} : allocation'[b] = allocation[b]
        /\ allocation'[a] =
              SettledRow(allocation[a], SumReturnEvents(journal[a], d), allocation[a].status)
        /\ allocation[a].status # "CANCELLED"
    BY <1>2, <1>5 DEF RecordReturn, RecordReturnAccepts, RecordReturnTx
  <2>2. Contribution(allocation'[a], n) = Contribution(allocation[a], n)
    BY <1>2, <2>1, SettledContribution
  <2> QED
    BY <1>2, <2>1, <2>2, CountUntouched
<1> QED
  BY <1>1, <1>3, <1>4, <1>5

\* Whatever closes a need leaves its counter at what covers it or above, for
\* every need: it may be reopened at any time, and the counter it is then
\* given (PATCH /api/alerts/[id]) is within the units it asked for.
THEOREM NeedsCountTheirCover == Spec => []CoverCounted
<1>1. Init => CoverCounted
  BY DEF Init, CoverCounted, NeedExists, NeedStatus, DerivedNeedStatus, NoNeed, NeedRow
<1>2. LedgerInv /\ LedgerInv' /\ NeedInv /\ NeedInv' /\ CoverCounted /\ [Next]_vars => CoverCounted'
  <2> SUFFICES ASSUME LedgerInv, LedgerInv', NeedInv, NeedInv', CoverCounted, [Next]_vars
               PROVE  CoverCounted'
    OBVIOUS
  <2>1. CASE UNCHANGED vars
    BY <2>1 DEF vars, CoverCounted, NeedExists, Covered
  <2>2. CASE Next
    <3>1. \A n \in Needs : CountKept(n)
      BY <2>2, AlertNextCounts, NeedNextCounts, ResourceNextCounts, AllocationNextCounts DEF Next
    <3> QED
      BY <3>1, CountsKept DEF LedgerInv
  <2> QED
    BY <2>1, <2>2
<1> QED
  BY <1>1, <1>2, LedgerInvariant, NeedInvariant, PTL DEF Spec

-----------------------------------------------------------------------------
(* What the pages offer goes through.  OffersAreAccepted and               *)
(* InboxCanBeWorkedOff (LedgerViews) say so with ENABLED, which the prover *)
(* does not expand.  Without it they come to two things: a handler that    *)
(* accepts a request then finds its constraints satisfied (XFits: what XTx *)
(* demands of the rows it is about to write), and what is offered is       *)
(* accepted.                                                               *)

\* The rows a return is about to write: its allocation and its resource.
ReturnFits(a, d) ==
    LET row == allocation[a]
        settled == SettledRow(row, SumReturnEvents(journal[a], d), row.status)
    IN  /\ AllocationExists(a)
        /\ AllocationCheck(settled)
        /\ row.resourceId # Null => ResourceExists(row.resourceId)
        /\ \A r \in Resources : r = row.resourceId =>
              ResourceCheck(ResourceAfterReturn(resource[r], Accounted(d), d.quantityNotReturnable))

\* The need and the resource of a donation.
AllocateFits(u, n, r, a, q) ==
    LET rows == [allocation EXCEPT ![a] =
                    AllocationRow("DELIVERY_AGREED", n, needAlert[n], r, u.org, q)]
    IN  /\ need[n].quantityFulfilled + q <= need[n].quantityNeeded
        /\ ResourceCheck([resource[r] EXCEPT !.reservedQuantity = @ + q])
        /\ NeedCheck(NeedRow("OPEN", need[n].quantityNeeded, Covered(rows, n)))

\* The needs that a status reopens.
PatchAlertFits(al, status) ==
    LET reopened == Reopening(al, status, alert[al])
    IN  \A n \in DOMAIN reopened :
            NeedExists(n) /\ NeedCheck(ReopenedNeed(need[n], reopened[n]))

\* What a cancel, or a deletion, takes out of the resources of rows S that
\* are in flight: "released" from the reservation, "lost" of it for good.
ReleaseFits(S, released, lost) ==
    /\ \A a \in S : /\ AllocationExists(a)
                    /\ allocation[a].resourceId # Null => ResourceExists(allocation[a].resourceId)
    /\ \A r \in Resources :
          ResourceCheck(ResourceAfterReturn(resource[r], OnResource(released, allocation, r),
                                            OnResource(lost, allocation, r)))

Withdrawing(al, d) ==
    [a \in Allocations |->
        IF a \in DOMAIN d THEN Accounted(d[a])
        ELSE IF a \in Undelivered(allocation, al) THEN allocation[a].quantity ELSE 0]
WritingOff(d) == [a \in Allocations |-> IF a \in DOMAIN d THEN d[a].quantityNotReturnable ELSE 0]
HeldFor(al) ==
    [a \in Allocations |->
        IF a \in InFlight(allocation, al) THEN Outstanding(allocation[a]) ELSE 0]

CancelledRow(al, d, a) ==
    IF a \in DOMAIN d
    THEN SettledRow(allocation[a], SumReturnEvents(journal[a], d[a]), allocation[a].status)
    ELSE IF a \in Undelivered(allocation, al) THEN [allocation[a] EXCEPT !.status = "CANCELLED"]
    ELSE allocation[a]

CancelFits(al, d) ==
    LET rows == [a \in Allocations |-> CancelledRow(al, d, a)]
    IN  /\ ReleaseFits(DOMAIN d \cup Undelivered(allocation, al), Withdrawing(al, d), WritingOff(d))
        /\ \A a \in DOMAIN d : AllocationCheck(rows[a])
        /\ \A n \in Needs : needAlert[n] = al /\ NeedExists(n) =>
              NeedCheck(NeedRow("CLOSED", need[n].quantityNeeded, Covered(rows, n)))

DeleteAlertFits(al) ==
    ReleaseFits(InFlight(allocation, al), HeldFor(al), [a \in Allocations |-> 0])

\* No constraint of the database turns a handler down that runs alone and has
\* accepted the request.  The handlers not listed write nothing that a
\* constraint is about, or check the constraint's own condition.
AcceptedFits ==
    \A u \in Users :
        /\ \A n \in Needs, r \in Resources, a \in Allocations, q \in Quantity :
              AllocateAccepts(u, n, r, q) /\ allocation[a].status = "NEW" => AllocateFits(u, n, r, a, q)
        /\ \A a \in Allocations, d \in Decisions : RecordReturnAccepts(u, a, d) => ReturnFits(a, d)
        /\ \A al \in Alerts :
            /\ \A s \in AlertStatus : PatchAlertAccepts(u, al, s) => PatchAlertFits(al, s)
            /\ \A d \in [Delivered(allocation, al) -> Decisions] :
                  CancelAccepts(u, al, d) => CancelFits(al, d)
            /\ DeleteAlertAccepts(u, al) => DeleteAlertFits(al)

\* What a card offers, the route accepts: OffersAreAccepted for the checks.
OffersAllowed ==
    \A u \in Users :
        /\ \A n \in Needs, r \in Resources, q \in Quantity :
              OffersAllocate(u, n, r, q) => AllocateAccepts(u, n, r, q)
        /\ \A a \in Allocations, next \in ActiveStatus :
              OffersAdvance(u, a, next) => AdvanceAccepts(u, a, next)
        /\ \A al \in Alerts :
            /\ \A s \in AlertStatus : OffersStatus(u, al, s) => PatchAlertAccepts(u, al, s)
            /\ \A d \in [Delivered(allocation, al) -> Decisions] :
                  OffersCancelForm(u, al, d) => CancelAccepts(u, al, d)
            /\ OffersDelete(u, al) => DeleteAlertAccepts(u, al)

\* Whoever belongs to an organization is in its gmina.
OrgsAreLocal ==
    \A u, v \in Users : u.org # Null /\ u.org = v.org => u.gmina # Null /\ u.gmina = v.gmina

\* InboxCanBeWorkedOff for the checks.
InboxGoesOn ==
    \A org \in Orgs : \A a \in RecipientInbox(org) :
        \A u \in {v \in Users : v.org = org /\ v.role = "COORDINATOR"} :
            \/ \E next \in ActiveStatus : OffersAdvance(u, a, next) /\ AdvanceAccepts(u, a, next)
            \/ \E d \in Decisions : OffersReturn(u, a, d) /\ RecordReturnAccepts(u, a, d)

-----------------------------------------------------------------------------
(* What is accepted goes through. *)

\* What holds between handlers that run one at a time.
SerialInv == LedgerInv /\ NeedInv /\ FlightInv /\ CoverCounted

\* What is released on a resource was held on it, and what is lost released:
\* the CHECK on its two counters holds.
LEMMA ReleaseChecked ==
    ASSUME LedgerInv, NEW r \in Resources,
           NEW released \in [Allocations -> Nat], NEW lost \in [Allocations -> Nat],
           \A a \in Allocations : lost[a] <= released[a],
           \A a \in Allocations : allocation[a].resourceId = r => released[a] <= Held(allocation, r)[a]
    PROVE  ResourceCheck(ResourceAfterReturn(resource[r], OnResource(released, allocation, r),
                                             OnResource(lost, allocation, r)))
<1> DEFINE freed == OnResource(released, allocation, r)
           gone == OnResource(lost, allocation, r)
           column == [a \in Allocations |-> IF allocation[a].resourceId = r THEN released[a] ELSE 0]
<1>1. gone <= freed /\ freed \in Nat /\ gone \in Nat
  BY LostIsReleased, OnResourceIsNat
<1>2. Held(allocation, r) \in [Allocations -> Nat]
  BY HeldIsNat DEF LedgerInv, TypeOK
<1>3. column \in [Allocations -> Nat] /\ \A a \in Allocations : column[a] <= Held(allocation, r)[a]
  BY <1>2
<1>4. freed = Total(column)
  BY DEF OnResource
<1> HIDE DEF column
<1>5. Total(column) <= Total(Held(allocation, r))
  BY <1>2, <1>3, KeysFinite, TotalGrows
<1>6. freed <= resource[r].reservedQuantity
  BY <1>4, <1>5 DEF LedgerInv, LedgerBalanced
<1>7. resource[r] \in ResourceTable /\ ResourceCheck(resource[r])
  BY DEF LedgerInv, TypeOK
<1> HIDE DEF freed, gone
<1>8. LET after == ResourceAfterReturn(resource[r], freed, gone)
      IN  /\ after.reservedQuantity = resource[r].reservedQuantity - freed
          /\ after.quantity = resource[r].quantity - gone
  BY <1>7 DEF ResourceAfterReturn, ResourceTable
<1> QED
  BY <1>1, <1>6, <1>7, <1>8 DEF ResourceCheck, ResourceTable, freed, gone

\* A column with one entry charges its resource with that entry.
LEMMA OneCharged ==
    ASSUME NEW a \in Allocations, NEW q \in Nat, NEW r
    PROVE  OnResource([b \in Allocations |-> IF b = a THEN q ELSE 0], allocation, r)
             = IF allocation[a].resourceId = r THEN q ELSE 0
<1> DEFINE one == [b \in Allocations |-> IF b = a THEN q ELSE 0]
           column == [b \in Allocations |-> IF allocation[b].resourceId = r THEN one[b] ELSE 0]
<1>1. OnResource(one, allocation, r) = Total(column)
  BY DEF OnResource
<1>2. CASE allocation[a].resourceId = r
  <2>1. column = one
    BY <1>2
  <2> QED
    BY <1>1, <1>2, <2>1, KeysFinite, TotalOne
<1>3. CASE allocation[a].resourceId # r
  <2>1. column \in [Allocations -> Nat] /\ \A b \in Allocations : column[b] = 0
    BY <1>3
  <2>2. Total(column) = 0
    BY <2>1, KeysFinite, TotalZero
  <2> QED
    BY <1>1, <1>3, <2>2
<1> QED
  BY <1>2, <1>3

\* What a decision leaves of a row in flight, and that it fits.
LEMMA DecisionFits ==
    ASSUME LedgerInv, NEW a \in Allocations, NEW d \in Decisions, IsActive(allocation[a]),
           Accounted(journal[a]) + Accounted(d) <= allocation[a].quantity
    PROVE  /\ AllocationCheck(SettledRow(allocation[a], SumReturnEvents(journal[a], d),
                                         allocation[a].status))
           /\ Accounted(d) <= Outstanding(allocation[a])
<1> DEFINE settled == SettledRow(allocation[a], SumReturnEvents(journal[a], d), allocation[a].status)
<1>1. /\ allocation[a] \in AllocationTable /\ AllocationCheck(allocation[a])
      /\ journal[a] \in ReturnTable
      /\ Accounted(allocation[a]) = Accounted(journal[a])
      /\ allocation[a].quantityNotReturnable = journal[a].quantityNotReturnable
  BY DEF LedgerInv, TypeOK, StatusMatchesJournal
<1>2. AllocationCheck(settled)
  BY <1>1, SettledRowFacts
<1>3. Outstanding(allocation[a]) = allocation[a].quantity - Accounted(journal[a])
      /\ Accounted(journal[a]) \in Nat /\ allocation[a].quantity \in Nat
  BY <1>1 DEF Outstanding, Accounted, AllocationTable, ReturnTable
<1>4. Accounted(d) \in Nat
  BY DecisionsAreTyped
<1> HIDE DEF settled
<1>5. Accounted(d) <= Outstanding(allocation[a])
  BY <1>3, <1>4
<1> QED
  BY <1>2, <1>5 DEF settled

LEMMA ReturnGoesThrough ==
    ASSUME SerialInv, NEW u \in Users, NEW a \in Allocations, NEW d \in Decisions,
           RecordReturnAccepts(u, a, d)
    PROVE  ReturnFits(a, d)
<1> DEFINE released == [b \in Allocations |-> IF b = a THEN Accounted(d) ELSE 0]
           lost == [b \in Allocations |-> IF b = a THEN d.quantityNotReturnable ELSE 0]
<1>1. /\ LedgerInv /\ IsActive(allocation[a])
      /\ Accounted(journal[a]) + Accounted(d) <= allocation[a].quantity
  BY DEF SerialInv, RecordReturnAccepts, IsActive, ActiveStatus
<1>2. /\ AllocationCheck(SettledRow(allocation[a], SumReturnEvents(journal[a], d),
                                    allocation[a].status))
      /\ Accounted(d) <= Outstanding(allocation[a])
  BY <1>1, DecisionFits
<1>3. /\ AllocationExists(a)
      /\ allocation[a].resourceId \in Resources /\ ResourceExists(allocation[a].resourceId)
  BY <1>1 DEF SerialInv, FlightInv, Anchored, AllocationExists, AllocationStatus, IsActive
<1>4. /\ Accounted(d) \in Nat /\ d.quantityNotReturnable \in Nat
      /\ d.quantityNotReturnable <= Accounted(d)
  BY DecisionsAreTyped
<1>5. /\ released \in [Allocations -> Nat] /\ lost \in [Allocations -> Nat]
      /\ \A b \in Allocations : lost[b] <= released[b]
  BY <1>4
<1>6. ASSUME NEW r \in Resources, r = allocation[a].resourceId
      PROVE  ResourceCheck(ResourceAfterReturn(resource[r], Accounted(d), d.quantityNotReturnable))
  <2>1. \A b \in Allocations : allocation[b].resourceId = r => released[b] <= Held(allocation, r)[b]
    <3>1. Held(allocation, r) \in [Allocations -> Nat]
      BY <1>1, HeldIsNat DEF LedgerInv, TypeOK
    <3>2. Held(allocation, r)[a] = Outstanding(allocation[a])
      BY <1>1, <1>6 DEF Held
    <3> QED
      BY <1>2, <3>1, <3>2
  <2>2. OnResource(released, allocation, r) = Accounted(d)
        /\ OnResource(lost, allocation, r) = d.quantityNotReturnable
    BY <1>4, <1>6, OneCharged
  <2> HIDE DEF released, lost
  <2>3. ResourceCheck(ResourceAfterReturn(resource[r], OnResource(released, allocation, r),
                                          OnResource(lost, allocation, r)))
    BY <1>1, <1>5, <2>1, ReleaseChecked
  <2> QED
    BY <2>2, <2>3
<1> QED
  BY <1>2, <1>3, <1>6 DEF ReturnFits

LEMMA AllocateGoesThrough ==
    ASSUME SerialInv, NEW u \in Users, NEW n \in Needs, NEW r \in Resources,
           NEW a \in Allocations, NEW q \in Quantity,
           AllocateAccepts(u, n, r, q), allocation[a].status = "NEW"
    PROVE  AllocateFits(u, n, r, a, q)
<1> DEFINE added == AllocationRow("DELIVERY_AGREED", n, needAlert[n], r, u.org, q)
           rows == [allocation EXCEPT ![a] = added]
           before == [b \in Allocations |-> Contribution(allocation[b], n)]
           one == [b \in Allocations |-> IF b = a THEN q ELSE 0]
           after == [b \in Allocations |-> Contribution(rows[b], n)]
<1>1. /\ need[n] \in NeedTable /\ resource[r] \in ResourceTable
      /\ allocation \in [Allocations -> AllocationTable] /\ ResourceCheck(resource[r])
      /\ q \in Nat \ {0}
  BY BoundsPositive DEF SerialInv, LedgerInv, TypeOK, Quantity
<1>2. /\ need[n].status \in DerivedNeedStatus
      /\ q <= need[n].quantityNeeded - need[n].quantityFulfilled
      /\ q <= resource[r].quantity - resource[r].reservedQuantity
  BY DEF AllocateAccepts, NeedExists, NeedStatus
<1>3. need[n].quantityFulfilled = Covered(allocation, n)
  BY <1>2 DEF SerialInv, NeedInv, Balanced
<1>4. ResourceCheck([resource[r] EXCEPT !.reservedQuantity = @ + q])
  BY <1>1, <1>2 DEF ResourceTable, ResourceCheck
<1>5. need[n].quantityNeeded \in Nat /\ need[n].quantityFulfilled \in Nat
  BY <1>1 DEF NeedTable
<1>6. Covered(rows, n) = Covered(allocation, n) + q
  <2>1. before \in [Allocations -> Nat] /\ one \in [Allocations -> Nat]
    BY <1>1 DEF AllocationTable, Contribution
  <2>2. allocation[a].needId = Null
    BY DEF SerialInv, NeedInv, NeedsMatchAlerts
  <2>3. before[a] = 0
    BY <2>2, NullIsNoKey DEF Contribution
  <2>4. after[a] = q
    BY <1>1 DEF AllocationRow, Contribution
  <2>5. \A b \in Allocations \ {a} : after[b] = before[b]
    BY <1>1
  <2>6. after \in [Allocations -> Nat] /\ \A b \in Allocations : after[b] = before[b] + one[b]
    BY <1>1, <2>1, <2>3, <2>4, <2>5
  <2>7. Covered(allocation, n) = Total(before) /\ Covered(rows, n) = Total(after)
    BY DEF Covered, Contribution
  <2>8. Total(one) = q
    BY <1>1, KeysFinite, TotalOne
  <2> HIDE DEF before, one, after
  <2>9. Total(after) = Total(before) + Total(one)
    BY <2>1, <2>6, KeysFinite, TotalAdd
  <2> QED
    BY <2>7, <2>8, <2>9
<1> HIDE DEF added, rows
<1>7. NeedCheck(NeedRow("OPEN", need[n].quantityNeeded, Covered(rows, n)))
  BY <1>1, <1>2, <1>3, <1>5, <1>6 DEF NeedCheck, NeedRow
<1>8. need[n].quantityFulfilled + q <= need[n].quantityNeeded
  BY <1>1, <1>2, <1>5
<1> QED
  BY <1>4, <1>7, <1>8 DEF AllocateFits, rows, added

LEMMA PatchAlertGoesThrough ==
    ASSUME SerialInv, NEW al \in Alerts, NEW status
    PROVE  PatchAlertFits(al, status)
<1> DEFINE reopened == Reopening(al, status, alert[al])
<1> SUFFICES ASSUME NEW n \in DOMAIN reopened
             PROVE  NeedExists(n) /\ NeedCheck(ReopenedNeed(need[n], reopened[n]))
  BY DEF PatchAlertFits
<1>1. n \in Needs /\ need[n].status = "CLOSED" /\ reopened[n].covered = Covered(allocation, n)
  BY DEF Reopening
<1>2. NeedExists(n)
  BY <1>1 DEF NeedExists, NeedStatus
<1>3. Covered(allocation, n) <= need[n].quantityFulfilled
  BY <1>1, <1>2 DEF SerialInv, CoverCounted
<1>4. need[n] \in NeedTable /\ NeedCheck(need[n]) /\ Covered(allocation, n) \in Nat
  BY <1>1, CoveredIsNat DEF SerialInv, LedgerInv, TypeOK
<1> HIDE DEF reopened
<1> QED
  BY <1>1, <1>2, <1>3, <1>4 DEF NeedCheck, NeedTable, ReopenedNeed, NeedRow

LEMMA CancelGoesThrough ==
    ASSUME SerialInv, NEW u \in Users, NEW al \in Alerts,
           NEW d \in [Delivered(allocation, al) -> Decisions], CancelAccepts(u, al, d)
    PROVE  CancelFits(al, d)
<1> DEFINE rows == [a \in Allocations |-> CancelledRow(al, d, a)]
           released == Withdrawing(al, d)
           lost == WritingOff(d)
           withdrawn == Undelivered(allocation, al)
<1>1. /\ LedgerInv /\ DOMAIN d \subseteq Allocations
      /\ \A a \in DOMAIN d : d[a] \in Decisions /\ IsActive(allocation[a])
      /\ \A a \in withdrawn : a \in Allocations /\ allocation[a].status = "DELIVERY_AGREED"
      /\ \A a \in DOMAIN d : Accounted(journal[a]) + Accounted(d[a]) <= allocation[a].quantity
  BY DEF SerialInv, Delivered, Undelivered, InFlight, CancelAccepts
<1>2. \A a \in Allocations :
         /\ allocation[a] \in AllocationTable /\ allocation[a].quantity \in Nat
         /\ AllocationCheck(allocation[a])
  BY <1>1 DEF LedgerInv, TypeOK, AllocationTable
<1>3. \A a \in DOMAIN d :
         /\ AllocationCheck(SettledRow(allocation[a], SumReturnEvents(journal[a], d[a]),
                                       allocation[a].status))
         /\ Accounted(d[a]) <= Outstanding(allocation[a])
  BY <1>1, DecisionFits
<1>4. \A a \in DOMAIN d : AllocationCheck(rows[a])
  BY <1>1, <1>3 DEF CancelledRow
<1>5. \A a \in DOMAIN d \cup withdrawn :
         /\ AllocationExists(a)
         /\ allocation[a].resourceId # Null => ResourceExists(allocation[a].resourceId)
  <2> TAKE a \in DOMAIN d \cup withdrawn
  <2>1. a \in Allocations /\ IsActive(allocation[a])
    BY <1>1 DEF IsActive, ActiveStatus
  <2> QED
    BY <2>1 DEF SerialInv, FlightInv, Anchored, AllocationExists, AllocationStatus, IsActive
<1>6. /\ released \in [Allocations -> Nat] /\ lost \in [Allocations -> Nat]
      /\ \A a \in Allocations : lost[a] <= released[a]
  BY <1>1, <1>2, DecisionsAreTyped DEF Withdrawing, WritingOff
<1>7. ASSUME NEW r \in Resources, NEW a \in Allocations, allocation[a].resourceId = r
      PROVE  released[a] <= Held(allocation, r)[a]
  <2>1. Held(allocation, r) \in [Allocations -> Nat]
    BY <1>1, HeldIsNat DEF LedgerInv, TypeOK
  <2>2. CASE a \in DOMAIN d
    <3>1. released[a] = Accounted(d[a]) /\ Held(allocation, r)[a] = Outstanding(allocation[a])
      BY <1>1, <1>7, <2>2 DEF Withdrawing, Held
    <3> QED
      BY <1>3, <2>2, <3>1
  <2>3. CASE a \notin DOMAIN d /\ a \in withdrawn
    <3>1. /\ released[a] = allocation[a].quantity
          /\ Held(allocation, r)[a] = Outstanding(allocation[a])
      BY <1>1, <1>7, <2>3 DEF Withdrawing, Held, IsActive, ActiveStatus
    <3>2. Accounted(allocation[a]) = 0
      BY <1>1, <2>3 DEF LedgerInv, StatusMatchesJournal
    <3>3. Outstanding(allocation[a]) = allocation[a].quantity
      BY <1>2, <3>2 DEF Outstanding, Accounted, AllocationTable
    <3> QED
      BY <1>2, <3>1, <3>3
  <2>4. CASE a \notin DOMAIN d /\ a \notin withdrawn
    <3>1. released[a] = 0
      BY <2>4 DEF Withdrawing
    <3> QED
      BY <2>1, <3>1
  <2> QED
    BY <2>2, <2>3, <2>4
<1> HIDE DEF released, lost
<1>8. \A r \in Resources :
         ResourceCheck(ResourceAfterReturn(resource[r], OnResource(released, allocation, r),
                                           OnResource(lost, allocation, r)))
  BY <1>1, <1>6, <1>7, ReleaseChecked
<1>9. ReleaseFits(DOMAIN d \cup withdrawn, released, lost)
  BY <1>5, <1>8 DEF ReleaseFits
<1>10. ASSUME NEW n \in Needs, NeedExists(n)
       PROVE  NeedCheck(NeedRow("CLOSED", need[n].quantityNeeded, Covered(rows, n)))
  <2>1. \A a \in Allocations : Contribution(rows[a], n) <= Contribution(allocation[a], n)
                               /\ Contribution(rows[a], n) \in Nat
    <3> TAKE a \in Allocations
    <3>1. Contribution(allocation[a], n) \in Nat
      BY <1>2 DEF Contribution
    <3>2. CASE a \in DOMAIN d
      <4>1. rows[a] = SettledRow(allocation[a], SumReturnEvents(journal[a], d[a]), allocation[a].status)
            /\ allocation[a].status # "CANCELLED"
        BY <1>1, <3>2 DEF CancelledRow, IsActive, ActiveStatus
      <4>2. Contribution(rows[a], n) = Contribution(allocation[a], n)
        BY <1>2, <4>1, SettledContribution
      <4> QED
        BY <3>1, <4>2
    <3>3. CASE a \notin DOMAIN d /\ a \in withdrawn
      <4>1. rows[a].status = "CANCELLED"
        BY <1>2, <3>3 DEF CancelledRow, AllocationTable
      <4>2. Contribution(rows[a], n) = 0
        BY <4>1 DEF Contribution
      <4> QED
        BY <3>1, <4>2
    <3>4. CASE a \notin DOMAIN d /\ a \notin withdrawn
      <4>1. rows[a] = allocation[a]
        BY <3>4 DEF CancelledRow
      <4> QED
        BY <3>1, <4>1
    <3> QED
      BY <3>2, <3>3, <3>4
  <2> DEFINE f == [a \in Allocations |-> Contribution(rows[a], n)]
             g == [a \in Allocations |-> Contribution(allocation[a], n)]
  <2>2. f \in [Allocations -> Nat] /\ g \in [Allocations -> Nat] /\ \A a \in Allocations : f[a] <= g[a]
    BY <1>2, <2>1 DEF Contribution
  <2>3. Covered(rows, n) = Total(f) /\ Covered(allocation, n) = Total(g)
    BY DEF Covered, Contribution
  <2> HIDE DEF f, g
  <2>4. Total(f) <= Total(g) /\ Total(f) \in Nat /\ Total(g) \in Nat
    BY <2>2, KeysFinite, TotalGrows, TotalIsNat
  <2>5. Covered(allocation, n) <= need[n].quantityFulfilled
    BY <1>10 DEF SerialInv, CoverCounted
  <2>6. need[n] \in NeedTable /\ NeedCheck(need[n])
    BY <1>1 DEF LedgerInv, TypeOK
  <2> HIDE DEF rows
  <2> QED
    BY <2>3, <2>4, <2>5, <2>6 DEF NeedTable, NeedCheck, NeedRow
<1> QED
  BY <1>4, <1>9, <1>10 DEF CancelFits, released, lost

LEMMA DeleteAlertGoesThrough ==
    ASSUME SerialInv, NEW al \in Alerts
    PROVE  DeleteAlertFits(al)
<1> DEFINE released == HeldFor(al)
           lost == [a \in Allocations |-> 0]
<1>1. LedgerInv /\ \A a \in Allocations : Outstanding(allocation[a]) \in Nat
  BY DEF SerialInv, LedgerInv, TypeOK, AllocationTable, AllocationCheck, Outstanding
<1>2. /\ released \in [Allocations -> Nat] /\ lost \in [Allocations -> Nat]
      /\ \A a \in Allocations : lost[a] <= released[a]
  BY <1>1 DEF HeldFor
<1>3. ASSUME NEW r \in Resources, NEW a \in Allocations, allocation[a].resourceId = r
      PROVE  released[a] <= Held(allocation, r)[a]
  BY <1>1, <1>3 DEF HeldFor, Held, InFlight
<1>4. \A a \in InFlight(allocation, al) :
         /\ AllocationExists(a)
         /\ allocation[a].resourceId # Null => ResourceExists(allocation[a].resourceId)
  BY DEF InFlight, SerialInv, FlightInv, Anchored, AllocationExists, AllocationStatus, IsActive
<1> HIDE DEF released, lost
<1>5. \A r \in Resources :
         ResourceCheck(ResourceAfterReturn(resource[r], OnResource(released, allocation, r),
                                           OnResource(lost, allocation, r)))
  BY <1>1, <1>2, <1>3, ReleaseChecked
<1> QED
  BY <1>4, <1>5 DEF DeleteAlertFits, ReleaseFits, released, lost

LEMMA SerialInvariant == Spec => []SerialInv
BY LedgerInvariant, NeedInvariant, FlightInvariant, NeedsCountTheirCover, PTL DEF SerialInv

\* Whatever the handlers have done one at a time, none of them is turned down
\* by the database once it has accepted a request: a CHECK constraint or a
\* row that is gone can only stop requests that overlap.
THEOREM AcceptedGoesThrough == Spec => []AcceptedFits
<1>1. SerialInv => AcceptedFits
  BY ReturnGoesThrough, AllocateGoesThrough, PatchAlertGoesThrough, CancelGoesThrough,
     DeleteAlertGoesThrough DEF AcceptedFits
<1> QED
  BY <1>1, SerialInvariant, PTL

\* What is left of a row in flight is what its journal leaves of it.
LEMMA WithinOutstanding ==
    ASSUME LedgerInv, NEW a \in Allocations, NEW d \in Decisions,
           Accounted(d) <= Outstanding(allocation[a])
    PROVE  Accounted(journal[a]) + Accounted(d) <= allocation[a].quantity
<1>1. /\ allocation[a] \in AllocationTable /\ journal[a] \in ReturnTable
      /\ Accounted(allocation[a]) = Accounted(journal[a])
  BY DEF LedgerInv, TypeOK, StatusMatchesJournal
<1>2. /\ Outstanding(allocation[a]) = allocation[a].quantity - Accounted(journal[a])
      /\ Accounted(journal[a]) \in Nat /\ allocation[a].quantity \in Nat
  BY <1>1 DEF Outstanding, Accounted, AllocationTable, ReturnTable
<1>3. Accounted(d) \in Nat
  BY DecisionsAreTyped
<1> QED
  BY <1>2, <1>3

-----------------------------------------------------------------------------
(* What is offered is accepted. *)

\* Whoever the rows of a gmina are shown to, and is an administrator, may manage them.
LEMMA SeenByAdmin ==
    ASSUME NEW u, NEW g, u.role = "ADMIN", Sees(u, g)
    PROVE  IsAdminForGmina(u, g)
BY DEF Sees, IsAdminForGmina

\* The alert of an allocation on a card is the card's.
LEMMA OnCard ==
    ASSUME SerialInv, NEW u, NEW a \in Allocations, NEW n \in Needs, NeedExists(n),
           needAlert[n] \in Cards(u), a \in ContributionsTo(n)
    PROVE  allocation[a].alertId = needAlert[n] /\ Sees(u, alertGmina[allocation[a].alertId])
<1>1. allocation[a].needId = n /\ n # Null
  BY NullIsNoKey DEF ContributionsTo
<1> QED
  BY <1>1 DEF SerialInv, NeedInv, NeedsMatchAlerts, Cards

\* Nothing in flight on a card means nothing in flight on the alert, so that
\* the card knows when the plain cancel would be refused.
LEMMA CardShowsAll ==
    ASSUME SerialInv, NEW al \in Alerts, ~HasOpenAllocations(al)
    PROVE  InFlight(allocation, al) = {}
<1> SUFFICES ASSUME NEW a \in InFlight(allocation, al) PROVE FALSE
  OBVIOUS
<1>1. a \in Allocations /\ allocation[a].alertId = al /\ IsActive(allocation[a])
  BY DEF InFlight
<1>2. /\ allocation[a].needId \in Needs /\ NeedExists(allocation[a].needId)
      /\ needAlert[allocation[a].needId] = al
  BY <1>1 DEF SerialInv, FlightInv, Anchored
<1>3. AllocationExists(a)
  BY <1>1 DEF IsActive, AllocationExists, AllocationStatus
<1> QED
  BY <1>1, <1>2, <1>3 DEF HasOpenAllocations, NeedsOn, ContributionsTo

LEMMA AdvanceAllowed ==
    ASSUME SerialInv, NEW u \in Users, NEW a \in Allocations, NEW next, OffersAdvance(u, a, next)
    PROVE  AdvanceAccepts(u, a, next)
<1> DEFINE row == allocation[a]
           roles == {actor \in {"DONOR", "RECIPIENT"} :
                        IF actor = "DONOR" THEN IsAllocationDonor(u, row)
                        ELSE IsAlertOwnerOrg(u, row.alertId)}
<1>1. PICK n \in Needs : NeedExists(n) /\ needAlert[n] \in Cards(u) /\ a \in ContributionsTo(n)
  BY DEF OffersAdvance
<1>2. AllocationExists(a) /\ Sees(u, alertGmina[row.alertId])
  BY <1>1, OnCard DEF ContributionsTo
<1>3. CASE /\ row.status = "DELIVERY_AGREED" /\ next = "DELIVERED"
           /\ u.role = "ADMIN" \/ IsAllocationDonor(u, row) \/ IsAlertOwnerOrg(u, row.alertId)
  <2>1. AllowedActors(row.status, next) = {"DONOR", "RECIPIENT"}
    BY <1>3 DEF AllowedActors
  <2>2. CASE u.role = "ADMIN"
    BY <1>2, <2>1, <2>2, SeenByAdmin DEF AdvanceAccepts
  <2>3. CASE IsAllocationDonor(u, row)
    <3>1. "DONOR" \in roles
      BY <2>3
    <3> QED
      BY <1>2, <2>1, <3>1 DEF AdvanceAccepts
  <2>4. CASE IsAlertOwnerOrg(u, row.alertId)
    <3>1. "RECIPIENT" \in roles
      BY <2>4
    <3> QED
      BY <1>2, <2>1, <3>1 DEF AdvanceAccepts
  <2> QED
    BY <1>3, <2>2, <2>3, <2>4
<1>4. CASE /\ row.status = "DELIVERED" /\ next = "RETURN_AGREED"
           /\ u.role = "ADMIN" \/ IsAlertOwnerOrg(u, row.alertId)
  <2>1. AllowedActors(row.status, next) = {"RECIPIENT"}
    BY <1>4 DEF AllowedActors
  <2>2. CASE u.role = "ADMIN"
    BY <1>2, <2>1, <2>2, SeenByAdmin DEF AdvanceAccepts
  <2>3. CASE IsAlertOwnerOrg(u, row.alertId)
    <3>1. "RECIPIENT" \in roles
      BY <2>3
    <3> QED
      BY <1>2, <2>1, <3>1 DEF AdvanceAccepts
  <2> QED
    BY <1>4, <2>2, <2>3
<1> QED
  BY <1>3, <1>4 DEF OffersAdvance

LEMMA StatusAllowed ==
    ASSUME SerialInv, NEW u \in Users, NEW al \in Alerts, NEW s, OffersStatus(u, al, s)
    PROVE  PatchAlertAccepts(u, al, s)
<1>1. AlertExists(al) /\ CanManageAlert(u, al)
  BY DEF OffersStatus, Cards
<1>2. s = "CANCELLED" => ~NeedsReturnForm(u, al)
  BY DEF OffersStatus
<1>3. s = "CANCELLED" /\ IsAlertOwnerOrg(u, al) => InFlight(allocation, al) = {}
  BY <1>2, CardShowsAll DEF NeedsReturnForm
<1> QED
  BY <1>1, <1>3 DEF PatchAlertAccepts

LEMMA CancelFormAllowed ==
    ASSUME SerialInv, NEW u \in Users, NEW al \in Alerts,
           NEW d \in [Delivered(allocation, al) -> Decisions], OffersCancelForm(u, al, d)
    PROVE  CancelAccepts(u, al, d)
<1>1. /\ AlertExists(al) /\ alert[al] # "CANCELLED" /\ IsAlertOwnerOrg(u, al)
      /\ \A a \in DOMAIN d : Accounted(d[a]) <= Outstanding(allocation[a])
  BY DEF OffersCancelForm, Cards, AlertClosed, NeedsReturnForm
<1>2. ASSUME NEW a \in DOMAIN d
      PROVE  Accounted(journal[a]) + Accounted(d[a]) <= allocation[a].quantity
  <2>1. a \in Allocations /\ d[a] \in Decisions /\ Accounted(d[a]) <= Outstanding(allocation[a])
    BY <1>1 DEF Delivered, InFlight
  <2> QED
    BY <2>1, WithinOutstanding DEF SerialInv
<1> QED
  BY <1>1, <1>2 DEF CancelAccepts

LEMMA OfferAllowed == SerialInv => OffersAllowed
<1> SUFFICES ASSUME SerialInv, NEW u \in Users
             PROVE  /\ \A n \in Needs, r \in Resources, q \in Quantity :
                          OffersAllocate(u, n, r, q) => AllocateAccepts(u, n, r, q)
                    /\ \A al \in Alerts : OffersDelete(u, al) => DeleteAlertAccepts(u, al)
  BY AdvanceAllowed, StatusAllowed, CancelFormAllowed DEF OffersAllowed
<1>1. ASSUME NEW n \in Needs, NEW r \in Resources, NEW q \in Quantity, OffersAllocate(u, n, r, q)
      PROVE  AllocateAccepts(u, n, r, q)
  BY <1>1 DEF OffersAllocate, AllocateAccepts, Cards, AlertClosed, Available, Remaining
<1>2. ASSUME NEW al \in Alerts, OffersDelete(u, al) PROVE DeleteAlertAccepts(u, al)
  BY <1>2 DEF OffersDelete, DeleteAlertAccepts, Cards
<1> QED
  BY <1>1, <1>2

\* A card on the map has no button that the routes refuse: with
\* AcceptedGoesThrough, what OffersAreAccepted checks on its instance holds
\* for every number of rows, users and organizations.
THEOREM OffersAreAllowed == Spec => []OffersAllowed
BY OfferAllowed, SerialInvariant, PTL

-----------------------------------------------------------------------------
(* The inbox of returns. *)

\* Somebody of the organization that owns an alert was entitled to the alert's gmina.
AlertsHaveAuthors ==
    \A al \in Alerts : AlertExists(al) /\ alertOwner[al] # Null =>
        \E u \in Users : /\ u.org = alertOwner[al]
                         /\ IsAdminForGmina(u, alertGmina[al]) \/ u.gmina = alertGmina[al]

LEMMA AuthorsStay ==
    ASSUME TypeOK, AlertsHaveAuthors, [Next]_vars
    PROVE  AlertsHaveAuthors'
<1> SUFFICES ASSUME NEW al \in Alerts, AlertExists(al)', alertOwner[al] # Null
             PROVE  \E u \in Users : /\ u.org = alertOwner[al]
                                     /\ IsAdminForGmina(u, alertGmina[al]) \/ u.gmina = alertGmina[al]
  BY DEF AlertsHaveAuthors
<1>1. CASE AlertExists(al)
  BY <1>1 DEF AlertsHaveAuthors
<1>2. CASE ~AlertExists(al)
  <2>1. alert'[al] # alert[al] /\ Next
    BY <1>2 DEF AlertExists, vars
  <2>2. PICK u \in Users : AlertNext(u)
    BY <2>1 DEF Next, NeedNext, CreateNeed, PatchNeed, PatchNeedTx, DeleteNeed, DeleteNeedTx,
                ResourceNext, CreateResource, PatchResource, PatchResourceTx, DeleteResource,
                DeleteResourceTx, AllocationNext, Allocate, AllocateTx, Advance, AdvanceTx,
                RecordReturn, RecordReturnTx
  <2>3. PICK el \in Alerts :
           \/ CreateAlert(u, el)
           \/ \E status \in AlertStatus : PatchAlert(u, el, status)
           \/ \E d \in [Delivered(allocation, el) -> Decisions] : CancelWithReturn(u, el, d)
           \/ DeleteAlert(u, el)
    BY <2>2 DEF AlertNext
  <2>4. alert \in [Alerts -> AlertStatus \cup NoRow]
    BY DEF TypeOK
  <2>5. CASE CreateAlert(u, el)
    <3>1. el = al
      BY <2>1, <2>4, <2>5 DEF CreateAlert
    <3> QED
      BY <2>5, <3>1 DEF CreateAlert
  <2>6. ASSUME AlertExists(el), NEW status, alert' = [alert EXCEPT ![el] = status] PROVE FALSE
    BY <1>2, <2>1, <2>4, <2>6
  <2> QED
    BY <2>3, <2>5, <2>6 DEF PatchAlert, PatchAlertTx, CancelWithReturn, CancelTx, DeleteAlert, DeleteAlertTx
<1> QED
  BY <1>1, <1>2

\* A row in flight has at least one unit to decide on.
LEMMA SomethingOutstanding ==
    ASSUME SerialInv, NEW a \in Allocations, IsActive(allocation[a])
    PROVE  1 <= Outstanding(allocation[a])
<1>1. /\ allocation[a].quantity \in Nat \ {0} /\ allocation[a].quantityReturned \in Nat
      /\ allocation[a].quantityNotReturnable \in Nat
  BY DEF SerialInv, LedgerInv, TypeOK, AllocationTable, FlightInv, Anchored
<1>2. Accounted(allocation[a]) <= allocation[a].quantity - 1
  BY <1>1 DEF SerialInv, LedgerInv, StatusMatchesJournal, IsActive, ActiveStatus
<1> QED
  BY <1>1, <1>2 DEF Outstanding, Accounted

LEMMA InboxRowGoesOn ==
    ASSUME OrgsAreLocal, SerialInv, AlertsHaveAuthors,
           NEW org \in Orgs, NEW a \in RecipientInbox(org),
           NEW u \in Users, u.org = org, u.role = "COORDINATOR"
    PROVE  \/ \E next \in ActiveStatus : OffersAdvance(u, a, next) /\ AdvanceAccepts(u, a, next)
           \/ \E d \in Decisions : OffersReturn(u, a, d) /\ RecordReturnAccepts(u, a, d)
<1> DEFINE row == allocation[a]
           al == allocation[a].alertId
           n == allocation[a].needId
           one == Returned(1, 0)
<1>1. /\ a \in Allocations /\ AllocationExists(a) /\ IsActive(row)
      /\ alertOwner[al] = org /\ AlertClosed(al) /\ org # Null
  BY NullIsNoKey DEF RecipientInbox
<1>2. /\ al \in Alerts /\ AlertExists(al)
      /\ n \in Needs /\ NeedExists(n) /\ needAlert[n] = al
  BY <1>1 DEF SerialInv, FlightInv, Anchored
<1>3. PICK v \in Users : /\ v.org = org
                         /\ IsAdminForGmina(v, alertGmina[al]) \/ v.gmina = alertGmina[al]
  BY <1>1, <1>2 DEF AlertsHaveAuthors
<1>4. v.gmina # Null /\ v.gmina = u.gmina
  BY <1>1, <1>3 DEF OrgsAreLocal
<1>5. u.gmina = alertGmina[al] /\ u.gmina # Null
  BY <1>3, <1>4 DEF IsAdminForGmina
<1>6. al \in Cards(u) /\ IsAlertOwnerOrg(u, al) /\ a \in ContributionsTo(n)
  BY <1>1, <1>2, <1>5 DEF Cards, Sees, IsAlertOwnerOrg, ContributionsTo
<1>7. CASE row.status \in {"DELIVERY_AGREED", "DELIVERED"}
  <2>1. PICK next \in ActiveStatus : \/ row.status = "DELIVERY_AGREED" /\ next = "DELIVERED"
                                     \/ row.status = "DELIVERED" /\ next = "RETURN_AGREED"
    BY <1>7 DEF ActiveStatus
  <2>2. OffersAdvance(u, a, next)
    BY <1>2, <1>6, <2>1 DEF OffersAdvance
  <2> QED
    BY <1>1, <2>2, AdvanceAllowed
<1>8. CASE row.status \in {"RETURN_AGREED", "PARTIALLY_RETURNED"}
  <2>1. one \in Decisions /\ Accounted(one) = 1
    BY BoundsPositive DEF Returned, Decisions, Accounted
  <2>2. 1 <= Outstanding(row)
    BY <1>1, SomethingOutstanding
  <2>3. Accounted(journal[a]) + Accounted(one) <= row.quantity
    BY <1>1, <2>1, <2>2, WithinOutstanding DEF SerialInv
  <2>4. OffersReturn(u, a, one)
    BY <1>1, <2>1, <2>2 DEF OffersReturn
  <2>5. RecordReturnAccepts(u, a, one)
    BY <1>6, <1>8, <2>3 DEF RecordReturnAccepts
  <2> QED
    BY <2>1, <2>4, <2>5
<1> QED
  BY <1>1, <1>7, <1>8 DEF IsActive, ActiveStatus

\* Where the people of an organization are in one gmina, as administration
\* keeps them, a row of the inbox always has a next step that a coordinator of
\* the organization is offered and the routes accept: no loan of a closed
\* alert is stuck, for every number of alerts, rows and organizations.
THEOREM InboxNeverStuck ==
    ASSUME OrgsAreLocal
    PROVE  Spec => []InboxGoesOn
<1>1. Init => AlertsHaveAuthors
  BY DEF Init, AlertsHaveAuthors, AlertExists, AlertStatus
<1>2. SerialInv /\ AlertsHaveAuthors /\ [Next]_vars => AlertsHaveAuthors'
  BY AuthorsStay DEF SerialInv, LedgerInv
<1>3. SerialInv /\ AlertsHaveAuthors => InboxGoesOn
  BY OrgsAreLocal, InboxRowGoesOn DEF InboxGoesOn
<1> QED
  BY <1>1, <1>2, <1>3, SerialInvariant, PTL DEF Spec
=============================================================================
