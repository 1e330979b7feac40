---------------------------- MODULE LedgerStock -----------------------------
(***************************************************************************)
(* The ledger implements DonorStock.  The two sides of the mapping come    *)
(* from different tables: the shelf from the resource's own counters, the  *)
(* loans from the allocation rows.  They agree only while every handler    *)
(* moves a counter by exactly what it does to the rows.                    *)
(***************************************************************************)
EXTENDS ResourceLedger

known == {r \in Resources : ResourceExists(r)}
shelf == [r \in Resources |-> resource[r].quantity - resource[r].reservedQuantity]
lent == [r \in Resources |-> Total(Held(allocation, r))]

Stock == INSTANCE DonorStock WITH known <- known, shelf <- shelf, lent <- lent

\* Every step of every handler is, for the donor, a declaration, a loan, a
\* settlement or nothing at all.
StockRefined == Stock!Spec
=============================================================================
