----------------------------- MODULE DonorStock -----------------------------
(***************************************************************************)
(* What the ledger promises a donor, with no alert, need or allocation in  *)
(* sight: each unit of a declared resource is on the shelf (free to give)  *)
(* or lent out, never both.  A loan takes units off the shelf; settling    *)
(* loans brings some of those units back and loses the others for good;    *)
(* nothing else ever touches what is lent out.                             *)
(***************************************************************************)
EXTENDS Integers

CONSTANTS Resources

VARIABLES
    known,  \* the resources that are declared
    shelf,  \* units free to be lent
    lent    \* units promised or delivered to somebody

vars == <<known, shelf, lent>>

Init ==
    /\ known = {}
    /\ shelf = [r \in Resources |-> 0]
    /\ lent = [r \in Resources |-> 0]

\* The donor declares a resource, or a new quantity for it: only the shelf
\* changes, whatever is lent out stays lent out.
Declare(r) ==
    /\ known' = known \cup {r}
    /\ shelf'[r] \in Nat
    /\ shelf' = [shelf EXCEPT ![r] = shelf'[r]]
    /\ UNCHANGED lent

\* A resource is withdrawn only when nothing of it is lent out.
Withdraw(r) ==
    /\ r \in known /\ lent[r] = 0
    /\ known' = known \ {r}
    /\ shelf' = [shelf EXCEPT ![r] = 0]
    /\ UNCHANGED lent

Lend(r, q) ==
    /\ r \in known /\ q \in 1 .. shelf[r]
    /\ shelf' = [shelf EXCEPT ![r] = @ - q]
    /\ lent' = [lent EXCEPT ![r] = @ + q]
    /\ UNCHANGED known

\* Loans of any number of resources are settled at once: of the units that
\* stop being lent, some return to the shelf and none goes there twice.
Settle ==
    /\ \A r \in Resources :
          /\ lent'[r] \in 0 .. lent[r]
          /\ shelf'[r] \in shelf[r] .. shelf[r] + (lent[r] - lent'[r])
    /\ lent' = [r \in Resources |-> lent'[r]]
    /\ shelf' = [r \in Resources |-> shelf'[r]]
    /\ UNCHANGED known

Next ==
    \/ \E r \in Resources : Declare(r) \/ Withdraw(r) \/ (\E q \in 1 .. shelf[r] : Lend(r, q))
    \/ Settle

Spec == Init /\ [][Next]_vars
=============================================================================
