--------------------------- MODULE MCResourceRaces ---------------------------
(* Finite instances of ResourceRaces for TLC: who overlaps with whom. *)
EXTENDS ResourceRaces, TLC

CONSTANTS al1, al2, n1, n2, r1, a1, a2, recipient, donor, g1, g2, c1, c2

MCAlertOwner == [al \in Alerts |-> recipient]
MCAlertGmina == [al \in Alerts |-> g1]
MCNeedAlert == [n \in Needs |-> IF n = n1 THEN al1 ELSE al2]
MCResourceOwner == [r \in Resources |-> donor]
MCResourceGmina == [r \in Resources |-> g2]

MCUsers ==
    {[role |-> "COORDINATOR", gmina |-> g1, org |-> recipient],
     [role |-> "COORDINATOR", gmina |-> g2, org |-> donor],
     [role |-> "ADMIN", gmina |-> Null, org |-> Null]}

MCSymmetry == Permutations(Allocations)

Clients2(first, second) == [c \in Clients |-> IF c = c1 THEN first ELSE second]

\* Donors allocate while the owner edits the need and the donor the resource;
\* one client settles, allocates and deletes while the other edits the alert and
\* the resource around it; one settles while the other allocates and edits;
\* and both settle or delete, where only the needs' counters are promised.
MCWorkloads ==
    {[c \in Clients |-> {"Allocate", "PatchNeed", "PatchResource"}],
     Clients2({"Allocate", "Advance", "RecordReturn", "Cancel", "DeleteAlert", "DeleteNeed",
               "DeleteResource"},
              {"PatchAlert", "PatchResource"}),
     Clients2({"Advance", "RecordReturn", "Cancel"},
              {"Allocate", "PatchAlert", "PatchNeed", "PatchResource"}),
     Clients2({"Allocate", "Advance", "RecordReturn", "Cancel"},
              {"Advance", "RecordReturn", "Cancel", "DeleteAlert", "DeleteNeed", "DeleteResource"})}

TwoReturns == {Clients2({"Allocate", "Advance", "RecordReturn"}, {"RecordReturn"})}
=============================================================================
