-------------------------- MODULE MCResourceLedger --------------------------
(* Finite instances of ResourceLedger for TLC. *)
EXTENDS LedgerStock, LedgerViews, TLC

CONSTANTS al1, al2, n1, n2, r1, r2, a1, a2, a3, recipient, donor, g1, g2

MCAlertOwner == [al \in Alerts |-> IF al = al1 THEN recipient ELSE donor]
MCAlertGmina == [al \in Alerts |-> IF al = al1 THEN g1 ELSE g2]
MCNeedAlert == [n \in Needs |-> IF n = n1 THEN al1 ELSE al2]
MCResourceOwner == [r \in Resources |-> donor]
MCResourceGmina == [r \in Resources |-> g2]

Coordinator(org, g) == [role |-> "COORDINATOR", gmina |-> g, org |-> org]
Admin == [role |-> "ADMIN", gmina |-> Null, org |-> Null]

\* The two organizations' coordinators and a global administrator.
MCUsers == {Coordinator(recipient, g1), Coordinator(donor, g2), Admin}

\* Allocation keys are interchangeable, and so are the resources: no immutable
\* column tells them apart.
MCSymmetry == Permutations(Allocations) \cup Permutations(Resources)

\* The same coordinators and an administrator of the donor's gmina only: no
\* administrator reaches the recipient's alert.
MCLocalAdmin == [role |-> "ADMIN", gmina |-> g2, org |-> Null]
MCLocalUsers == {MCLocalAdmin} \cup (MCUsers \ {Admin})
=============================================================================
