----------------------------- MODULE LedgerViews -----------------------------
(***************************************************************************)
(* What the pages show of the ledger and offer to do with it: the cards of *)
(* the map (AlertsMapView, AlertNeedsBlock, AllocationContributorsList,    *)
(* AlertActions) and the inbox of returns (lib/allocationInbox.ts), each   *)
(* computed from one read of the tables.  A page decides by rules of its   *)
(* own which buttons it has; the routes decide again.                      *)
(***************************************************************************)
EXTENDS ResourceLedger

-----------------------------------------------------------------------------
(* What a page shows. *)

\* Mutant: the role alone makes an administrator of the whole country.
SeesAnyAdmin(u, g) == u.role = "ADMIN" \/ (u.gmina # Null /\ u.gmina = g)

\* scopedGminaWhere: the rows of gmina g are on u's pages.
Sees(u, g) == (u.role = "ADMIN" /\ u.gmina = Null) \/ (u.gmina # Null /\ u.gmina = g)

Cards(u) == {al \in Alerts : AlertExists(al) /\ Sees(u, alertGmina[al])}

\* A card lists the alert's needs, and each need its allocations.
NeedsOn(al) == {n \in Needs : NeedExists(n) /\ needAlert[n] = al}
ContributionsTo(n) == {a \in Allocations : AllocationExists(a) /\ allocation[a].needId = n}

AlertClosed(al) == alert[al] \in {"RESOLVED", "CANCELLED"}
Remaining(n) == need[n].quantityNeeded - need[n].quantityFulfilled
Available(r) == resource[r].quantity - resource[r].reservedQuantity

\* openAllocationCount: counted over the needs of the card.
HasOpenAllocations(al) ==
    \E n \in NeedsOn(al) : \E a \in ContributionsTo(n) : IsActive(allocation[a])

\* recipientWhere: what an organization still owes a decision on.
RecipientInbox(org) ==
    {a \in Allocations : /\ AllocationExists(a) /\ IsActive(allocation[a])
                         /\ alertOwner[allocation[a].alertId] = org
                         /\ AlertClosed(allocation[a].alertId)}

-----------------------------------------------------------------------------
(* What it offers. *)

\* "Przydziel zasoby", and a quantity its form takes.
OffersAllocate(u, n, r, q) ==
    /\ u.org # Null
    /\ NeedExists(n) /\ needAlert[n] \in Cards(u)
    /\ need[n].status \notin {"FULFILLED", "CLOSED", "CANCELLED"} /\ ~AlertClosed(needAlert[n])
    /\ ResourceExists(r) /\ resourceOwner[r] = u.org /\ Sees(u, resourceGmina[r])
    /\ q <= Available(r) /\ q <= Remaining(n)

\* AllocationContributorsList's two buttons, on the card.
OffersAdvance(u, a, next) ==
    LET row == allocation[a]
        receives == IsAlertOwnerOrg(u, row.alertId)
    IN  /\ \E n \in Needs : NeedExists(n) /\ needAlert[n] \in Cards(u) /\ a \in ContributionsTo(n)
        /\ \/ /\ row.status = "DELIVERY_AGREED" /\ next = "DELIVERED"
              /\ u.role = "ADMIN" \/ IsAllocationDonor(u, row) \/ receives
           \/ /\ row.status = "DELIVERED" /\ next = "RETURN_AGREED"
              /\ u.role = "ADMIN" \/ receives

\* AlertActions
NeedsReturnForm(u, al) == IsAlertOwnerOrg(u, al) /\ HasOpenAllocations(al)

OffersStatus(u, al, status) ==
    /\ al \in Cards(u) /\ CanManageAlert(u, al)
    /\ CASE status = "RESOLVED" -> ~AlertClosed(al)
         [] status = "CANCELLED" -> ~AlertClosed(al) /\ ~NeedsReturnForm(u, al)
         [] status = "ACTIVE" -> AlertClosed(al)
         [] OTHER -> FALSE

\* CancelWithReturnModal: a decision on everything delivered, within what is
\* left of it.
OffersCancelForm(u, al, d) ==
    /\ al \in Cards(u) /\ CanManageAlert(u, al)
    /\ ~AlertClosed(al) /\ NeedsReturnForm(u, al)
    /\ \A a \in DOMAIN d : Accounted(d[a]) <= Outstanding(allocation[a])

OffersDelete(u, al) == al \in Cards(u) /\ IsAdminForGmina(u, alertGmina[al])

\* ReturnResourcesModal, from a row of the inbox.
OffersReturn(u, a, d) ==
    /\ u.org # Null /\ a \in RecipientInbox(u.org)
    /\ Accounted(d) <= Outstanding(allocation[a])

-----------------------------------------------------------------------------
(* Properties. *)

\* What a card offers, the routes do: no button on a page that is up to date
\* ends in a 403, a 409 or a CHECK violation; in particular a cancellation goes
\* through the form with the decisions exactly when the plain one would be
\* refused, and the form's own 409 "never actually fires"
\* (CancelWithReturnModal.tsx:61-64, AlertActions.tsx:16-20).
OffersAreAccepted ==
    \A u \in Users :
        /\ \A n \in Needs, r \in Resources, q \in Quantity : OffersAllocate(u, n, r, q) =>
               \A a \in Allocations : allocation[a].status = "NEW" =>
                   ENABLED Allocate(u, n, r, a, q)
        /\ \A a \in Allocations, next \in ActiveStatus :
               OffersAdvance(u, a, next) => ENABLED Advance(u, a, next)
        /\ \A al \in Alerts :
            /\ \A s \in AlertStatus : OffersStatus(u, al, s) => ENABLED PatchAlert(u, al, s)
            /\ \A d \in [Delivered(allocation, al) -> Decisions] :
                   OffersCancelForm(u, al, d) => ENABLED CancelWithReturn(u, al, d)
            /\ OffersDelete(u, al) => ENABLED DeleteAlert(u, al)

\* Nothing stays in an inbox for good: a coordinator of the organization can
\* take the next step for every row it lists, here or on the alert's card
\* (allocationInbox.ts:23-31).  (Each row has a return button, but its form is
\* refused until the return was agreed on the card.)
InboxCanBeWorkedOff ==
    \A org \in Orgs : \A a \in RecipientInbox(org) :
        \A u \in {v \in Users : v.org = org /\ v.role = "COORDINATOR"} :
            \/ \E next \in ActiveStatus : OffersAdvance(u, a, next) /\ ENABLED Advance(u, a, next)
            \/ \E d \in Decisions : OffersReturn(u, a, d) /\ ENABLED RecordReturn(u, a, d)
=============================================================================
