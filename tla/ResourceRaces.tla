--------------------------- MODULE ResourceRaces ----------------------------
(***************************************************************************)
(* The handlers of ResourceLedger when requests overlap.  A handler reads  *)
(* the rows it checks outside any transaction (Begin), some read again     *)
(* inside it (Read), and the writes land at Commit: PostgreSQL runs the    *)
(* transactions at READ COMMITTED, so between those moments every other    *)
(* request may commit.  Commit is one step because each transaction holds  *)
(* the row locks of what it has written until it ends.  Any request may    *)
(* also fail (Abort): a guard or a CHECK that no longer holds, a row that  *)
(* is gone, a lost connection.                                             *)
(***************************************************************************)
EXTENDS ResourceLedger

CONSTANTS
    Clients,    \* requests being served at the same time
    Workloads   \* who may overlap with whom: a set of
                \* [Clients -> set of the operations the client sends]

VARIABLES
    request,    \* per client, the request in progress and what it has seen
    issues      \* the workload, one of Workloads, chosen once

racesVars == <<vars, request, issues>>

Idle == [op |-> "Idle"]

Start(c, req) ==
    /\ request[c] = Idle
    /\ req.op \in issues[c]
    /\ request' = [request EXCEPT ![c] = req]
    /\ UNCHANGED vars

Serving(c, op) == request[c].op = op

Done(c) == request' = [request EXCEPT ![c] = Idle]

-----------------------------------------------------------------------------
(* The reads before the write: each request keeps what its write will use. *)

BeginAllocate(c) == \E u \in Users, n \in Needs, r \in Resources, q \in Quantity :
    /\ AllocateAccepts(u, n, r, q)
    /\ Start(c, [op |-> "Allocate", user |-> u, need |-> n, resource |-> r, quantity |-> q,
                 seenNeed |-> [quantityNeeded |-> need[n].quantityNeeded, status |-> need[n].status],
                 seenResource |-> [quantity |-> resource[r].quantity]])

BeginAdvance(c) == \E u \in Users, a \in Allocations, next \in {"DELIVERED", "RETURN_AGREED"} :
    /\ AdvanceAccepts(u, a, next)
    /\ Start(c, [op |-> "Advance", allocation |-> a, next |-> next])

BeginRecordReturn(c) == \E u \in Users, a \in Allocations, d \in Decisions :
    /\ RecordReturnAccepts(u, a, d)
    /\ Start(c, [op |-> "RecordReturn", allocation |-> a, decision |-> d,
                 seenRow |-> [status |-> allocation[a].status,
                              resourceId |-> allocation[a].resourceId]])

BeginCancel(c) == \E u \in Users, al \in Alerts :
    \E d \in [Delivered(allocation, al) -> Decisions] :
        /\ CancelAccepts(u, al, d)
        /\ Start(c, [op |-> "Cancel", alert |-> al, decisions |-> d, seenRows |-> allocation])

BeginPatchAlert(c) == \E u \in Users, al \in Alerts, status \in AlertStatus :
    /\ PatchAlertAccepts(u, al, status)
    /\ Start(c, [op |-> "PatchAlert", alert |-> al, status |-> status, seenStatus |-> alert[al]])

BeginDeleteAlert(c) == \E u \in Users, al \in Alerts :
    /\ DeleteAlertAccepts(u, al)
    /\ Start(c, [op |-> "DeleteAlert", alert |-> al])

BeginPatchNeed(c) == \E u \in Users, n \in Needs, q \in Quantity \cup {Null},
                        status \in {"CLOSED", "CANCELLED", Null} :
    /\ PatchNeedAccepts(u, n, q, status)
    /\ Start(c, [op |-> "PatchNeed", need |-> n, quantity |-> q, status |-> status])

BeginDeleteNeed(c) == \E u \in Users, n \in Needs :
    /\ DeleteNeedAccepts(u, n)
    /\ Start(c, [op |-> "DeleteNeed", need |-> n])

BeginPatchResource(c) == \E u \in Users, r \in Resources, q \in 0 .. MaxStock :
    /\ PatchResourceAccepts(u, r, q)
    /\ Start(c, [op |-> "PatchResource", resource |-> r, quantity |-> q])

BeginDeleteResource(c) == \E u \in Users, r \in Resources :
    /\ DeleteResourceAccepts(u, r)
    /\ Start(c, [op |-> "DeleteResource", resource |-> r])

Begin(c) ==
    \/ BeginAllocate(c) \/ BeginAdvance(c) \/ BeginRecordReturn(c) \/ BeginCancel(c)
    \/ BeginPatchAlert(c) \/ BeginDeleteAlert(c) \/ BeginPatchNeed(c) \/ BeginDeleteNeed(c)
    \/ BeginPatchResource(c) \/ BeginDeleteResource(c)

-----------------------------------------------------------------------------
(* The reads a transaction makes before its first lock on what it read.    *)

HasRead(c, field) == field \in DOMAIN request[c]

\* The new event is inserted, then all events of the allocation are summed:
\* the sum has this transaction's own event and the committed ones.
ReadReturnEvents(c) ==
    /\ Serving(c, "RecordReturn") /\ ~HasRead(c, "seenEvents")
    /\ LET req == request[c] IN
       request' = [request EXCEPT ![c] =
           [op |-> "RecordReturn", allocation |-> req.allocation, decision |-> req.decision,
            seenRow |-> req.seenRow,
            seenEvents |-> SumReturnEvents(journal[req.allocation], req.decision)]]
    /\ UNCHANGED vars

ReadCancelEvents(c) ==
    /\ Serving(c, "Cancel") /\ ~HasRead(c, "seenEvents")
    /\ LET req == request[c] IN
       request' = [request EXCEPT ![c] =
           [op |-> "Cancel", alert |-> req.alert, decisions |-> req.decisions,
            seenRows |-> req.seenRows, seenEvents |-> journal]]
    /\ UNCHANGED vars

ReadDoomedAllocations(c) ==
    /\ Serving(c, "DeleteAlert") /\ ~HasRead(c, "seenRows")
    /\ request' = [request EXCEPT ![c] =
           [op |-> "DeleteAlert", alert |-> request[c].alert, seenRows |-> allocation]]
    /\ UNCHANGED vars

ReadClosedNeeds(c) ==
    /\ Serving(c, "PatchAlert") /\ ~HasRead(c, "reopened")
    /\ LET req == request[c] IN
       request' = [request EXCEPT ![c] =
           [op |-> "PatchAlert", alert |-> req.alert, status |-> req.status,
            reopened |-> Reopening(req.alert, req.status, req.seenStatus)]]
    /\ UNCHANGED vars

Read(c) ==
    \/ ReadReturnEvents(c) \/ ReadCancelEvents(c)
    \/ ReadDoomedAllocations(c) \/ ReadClosedNeeds(c)

-----------------------------------------------------------------------------
(* The writes. *)

CommitAllocate(c) ==
    /\ Serving(c, "Allocate")
    /\ LET req == request[c] IN \E a \in Allocations :
       AllocateTx(req.user, req.need, req.resource, a, req.quantity, req.seenNeed, req.seenResource)
    /\ Done(c)

CommitAdvance(c) ==
    /\ Serving(c, "Advance")
    /\ AdvanceTx(request[c].allocation, request[c].next)
    /\ Done(c)

CommitRecordReturn(c) ==
    /\ Serving(c, "RecordReturn") /\ HasRead(c, "seenEvents")
    /\ LET req == request[c] IN
       RecordReturnTx(req.allocation, req.decision, req.seenRow, req.seenEvents)
    /\ Done(c)

CommitCancel(c) ==
    /\ Serving(c, "Cancel") /\ HasRead(c, "seenEvents")
    /\ LET req == request[c] IN CancelTx(req.alert, req.decisions, req.seenRows, req.seenEvents)
    /\ Done(c)

CommitPatchAlert(c) ==
    /\ Serving(c, "PatchAlert") /\ HasRead(c, "reopened")
    /\ PatchAlertTx(request[c].alert, request[c].status, request[c].reopened)
    /\ Done(c)

CommitDeleteAlert(c) ==
    /\ Serving(c, "DeleteAlert") /\ HasRead(c, "seenRows")
    /\ DeleteAlertTx(request[c].alert, request[c].seenRows)
    /\ Done(c)

CommitPatchNeed(c) ==
    /\ Serving(c, "PatchNeed")
    /\ PatchNeedTx(request[c].need, request[c].quantity, request[c].status)
    /\ Done(c)

CommitDeleteNeed(c) ==
    /\ Serving(c, "DeleteNeed")
    /\ DeleteNeedTx(request[c].need)
    /\ Done(c)

CommitPatchResource(c) ==
    /\ Serving(c, "PatchResource")
    /\ PatchResourceTx(request[c].resource, request[c].quantity)
    /\ Done(c)

CommitDeleteResource(c) ==
    /\ Serving(c, "DeleteResource")
    /\ DeleteResourceTx(request[c].resource)
    /\ Done(c)

Commit(c) ==
    \/ CommitAllocate(c) \/ CommitAdvance(c) \/ CommitRecordReturn(c) \/ CommitCancel(c)
    \/ CommitPatchAlert(c) \/ CommitDeleteAlert(c) \/ CommitPatchNeed(c) \/ CommitDeleteNeed(c)
    \/ CommitPatchResource(c) \/ CommitDeleteResource(c)

Abort(c) ==
    /\ request[c] # Idle
    /\ Done(c)
    /\ UNCHANGED vars

-----------------------------------------------------------------------------
\* Alerts, needs and resources are already created, as CreateAlert, CreateNeed
\* and CreateResource leave them; no allocation exists yet.
RacesInit ==
    /\ alert = [al \in Alerts |-> "ACTIVE"]
    /\ need = [n \in Needs |-> NeedRow("OPEN", MaxQuantity, 0)]
    /\ resource = [r \in Resources |-> ResourceRow("LIVE", MaxStock, 0)]
    /\ allocation = [a \in Allocations |-> NoAllocation("NEW")]
    /\ journal = [a \in Allocations |-> NoReturns]
    /\ request = [c \in Clients |-> Idle]
    /\ issues \in Workloads

RacesNext ==
    /\ \E c \in Clients : Begin(c) \/ Read(c) \/ Commit(c) \/ Abort(c)
    /\ UNCHANGED issues

RacesSpec == RacesInit /\ [][RacesNext]_racesVars

-----------------------------------------------------------------------------
(* Properties of overlapping requests. *)

\* The conditional updates and the CHECK constraints keep an open need's
\* counter exact under overlapping allocations and edits, as long as no alert
\* is edited at the same time: a reactivation writes a count it read before
\* (api/alerts/[id]/route.ts:117-129).
OpenNeedsBalancedUnlessReactivated ==
    (\A c \in Clients : "PatchAlert" \notin issues[c]) => OpenNeedsBalanced

\* allocation_returns_within_quantity "catches the loser" of two returns that
\* are recorded at once: no journal ever records more than was allocated
\* (api/allocations/[id]/return-events/route.ts:119-121).
JournalWithinQuantity ==
    \A a \in Allocations : Accounted(journal[a]) <= allocation[a].quantity

\* The requests that write an allocation's status or its totals.
Settling == {"Advance", "RecordReturn", "Cancel", "DeleteAlert"}

\* Each of them writes over what it read outside its transaction: at most one
\* client sends them.
OneSettles == \A c, e \in Clients :
    Settling \cap issues[c] # {} /\ Settling \cap issues[e] # {} => c = e

\* Nobody allocates while somebody else's delete, checked before it, commits.
AllocatesAlone(delete) == \A c, e \in Clients :
    delete \in issues[c] /\ "Allocate" \in issues[e] => c = e

\* The cascade of an alert's delete takes rows it did not list along.
Uncontended == OneSettles /\ AllocatesAlone("DeleteAlert")
UncontendedDeletes ==
    Uncontended /\ AllocatesAlone("DeleteNeed") /\ AllocatesAlone("DeleteResource")

\* With one client settling, the increments of every other request (donations
\* and edits of needs, alerts and resources, all at once) keep each counter at
\* what the allocations in flight hold (api/alerts/[id]/allocations/route.ts:174-200).
LedgerBalancedUnlessContended == Uncontended => LedgerBalanced

\* And no delete that is checked beforehand (api/needs/[id]/route.ts:179-189,
\* api/resources/[id]/route.ts:203-211) then orphans an allocation in flight.
NoOrphansUnlessContended == UncontendedDeletes => InFlightNeverOrphaned

\* And no settlement is taken back, whatever commits between a settling
\* request's reads and its writes.
SettlementsKeptUnlessContended == [][Uncontended => SettledKept]_vars
=============================================================================
