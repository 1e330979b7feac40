------------------------ MODULE ResourceLedger_proofs ------------------------
(***************************************************************************)
(* Theorems about ResourceLedger, for every finite set of keys and every   *)
(* bound on quantities.                                                    *)
(***************************************************************************)
EXTENDS ResourceLedger, FiniteSetTheorems, FunctionTheorems, TLAPS

-----------------------------------------------------------------------------
(* Total.  A column of a finite table has a total; the total of a          *)
(* pointwise sum of two columns is the sum of their totals; a column with  *)
(* one non-zero entry totals that entry.  Every proof about a counter kept *)
(* in step with a column rests on these three.                             *)

\* A piece of f is a pair of a row of f and a number between 1 and its entry.
LEMMA PiecesMember ==
    ASSUME NEW S, NEW f \in [S -> Nat]
    PROVE  /\ \A x \in S : \A i \in 1 .. f[x] : <<x, i>> \in Pieces(f)
           /\ \A p \in Pieces(f) : p = <<p[1], p[2]>> /\ p[1] \in S /\ p[2] \in 1 .. f[p[1]]
<1>1. DOMAIN f = S
  OBVIOUS
<1>2. ASSUME NEW x \in S, NEW i \in 1 .. f[x]
      PROVE  <<x, i>> \in Pieces(f)
  <2>1. <<x, i>> \in {x} \X (1 .. f[x])
    OBVIOUS
  <2>2. QED
    BY <1>1, <2>1 DEF Pieces
<1>3. ASSUME NEW p \in Pieces(f)
      PROVE  p = <<p[1], p[2]>> /\ p[1] \in S /\ p[2] \in 1 .. f[p[1]]
  <2>1. PICK x \in S : p \in {x} \X (1 .. f[x])
    BY <1>1 DEF Pieces
  <2>2. QED
    BY <2>1
<1>4. QED
  BY <1>2, <1>3

\* The pieces of a column over finitely many rows are finitely many, so its
\* total is a natural number.
LEMMA TotalIsNat ==
    ASSUME NEW S, IsFiniteSet(S), NEW f \in [S -> Nat]
    PROVE  IsFiniteSet(Pieces(f)) /\ Total(f) \in Nat
<1> DEFINE Column == [x \in S |-> {x} \X (1 .. f[x])]
           Slices == {Column[x] : x \in S}
<1>1. \A x \in S : IsFiniteSet({x} \X (1 .. f[x]))
  <2> TAKE x \in S
  <2>1. IsFiniteSet({x})
    BY FS_Singleton
  <2>2. 1 \in Int /\ f[x] \in Int
    OBVIOUS
  <2>3. IsFiniteSet(1 .. f[x])
    BY <2>2, FS_Interval
  <2>4. QED
    BY <2>1, <2>3, FS_Product
<1>2. Column \in Surjection(S, Slices)
  BY DEF Surjection
<1>3. IsFiniteSet(Slices)
  BY <1>2, FS_Surjection
<1>4. Pieces(f) = UNION Slices
  BY DEF Pieces
<1>5. \A T \in Slices : IsFiniteSet(T)
  BY <1>1
<1> HIDE DEF Slices
<1>6. IsFiniteSet(Pieces(f))
  BY <1>3, <1>4, <1>5, FS_UNION
<1>7. QED
  BY <1>6, FS_CardinalityType DEF Total

\* Array.prototype.reduce over a column that is a sum of two: the pieces of g
\* come first in each row, the pieces of h, shifted past them, make the rest.
LEMMA TotalAdd ==
    ASSUME NEW S, IsFiniteSet(S),
           NEW f \in [S -> Nat], NEW g \in [S -> Nat], NEW h \in [S -> Nat],
           \A x \in S : f[x] = g[x] + h[x]
    PROVE  Total(f) = Total(g) + Total(h)
<1> DEFINE Rest == {p \in Pieces(f) : p[2] > g[p[1]]}
           Shift == [p \in Pieces(h) |-> <<p[1], g[p[1]] + p[2]>>]
<1>1. Pieces(f) = Pieces(g) \cup Rest
  <2>1. ASSUME NEW p \in Pieces(g) PROVE p \in Pieces(f)
    <3>1. p = <<p[1], p[2]>> /\ p[1] \in S /\ p[2] \in 1 .. g[p[1]]
      BY PiecesMember
    <3>2. p[2] \in 1 .. f[p[1]]
      BY <3>1
    <3>3. QED
      BY <3>1, <3>2, PiecesMember
  <2>2. ASSUME NEW p \in Pieces(f), p \notin Rest PROVE p \in Pieces(g)
    <3>1. p = <<p[1], p[2]>> /\ p[1] \in S /\ p[2] \in 1 .. f[p[1]]
      BY PiecesMember
    <3>2. p[2] \in 1 .. g[p[1]]
      BY <2>2, <3>1
    <3>3. QED
      BY <3>1, <3>2, PiecesMember
  <2>3. QED
    BY <2>1, <2>2
<1>2. Pieces(g) \cap Rest = {}
  <2>1. \A p \in Pieces(g) : p[1] \in S /\ p[2] \in 1 .. g[p[1]]
    BY PiecesMember
  <2>2. QED
    BY <2>1
<1>3. Shift \in Bijection(Pieces(h), Rest)
  <2>1. ASSUME NEW p \in Pieces(h) PROVE Shift[p] \in Rest
    <3>1. p[1] \in S /\ p[2] \in 1 .. h[p[1]]
      BY PiecesMember
    <3>2. g[p[1]] + p[2] \in 1 .. f[p[1]] /\ g[p[1]] + p[2] > g[p[1]]
      BY <3>1
    <3>3. <<p[1], g[p[1]] + p[2]>> \in Pieces(f)
      BY <3>1, <3>2, PiecesMember
    <3>4. QED
      BY <3>2, <3>3
  <2>2. ASSUME NEW p \in Pieces(h), NEW q \in Pieces(h), Shift[p] = Shift[q]
        PROVE  p = q
    <3>1. /\ p = <<p[1], p[2]>> /\ p[1] \in S /\ p[2] \in 1 .. h[p[1]]
          /\ q = <<q[1], q[2]>> /\ q[1] \in S /\ q[2] \in 1 .. h[q[1]]
      BY PiecesMember
    <3>2. p[1] = q[1] /\ g[p[1]] + p[2] = g[q[1]] + q[2]
      BY <2>2
    <3>3. p[2] = q[2]
      BY <3>1, <3>2
    <3>4. QED
      BY <3>1, <3>2, <3>3
  <2>3. ASSUME NEW t \in Rest PROVE \E p \in Pieces(h) : Shift[p] = t
    <3>1. t = <<t[1], t[2]>> /\ t[1] \in S /\ t[2] \in 1 .. f[t[1]] /\ t[2] > g[t[1]]
      BY PiecesMember
    <3>2. t[2] - g[t[1]] \in 1 .. h[t[1]]
      BY <3>1
    <3>3. <<t[1], t[2] - g[t[1]]>> \in Pieces(h)
      BY <3>1, <3>2, PiecesMember
    <3>4. g[t[1]] + (t[2] - g[t[1]]) = t[2]
      BY <3>1
    <3>5. Shift[<<t[1], t[2] - g[t[1]]>>] = t
      BY <3>1, <3>3, <3>4
    <3>6. QED
      BY <3>3, <3>5
  <2>4. Shift \in [Pieces(h) -> Rest]
    BY <2>1
  <2> HIDE DEF Shift, Rest
  <2>5. QED
    BY <2>2, <2>3, <2>4, Fun_IsBij
<1>4. IsFiniteSet(Pieces(f)) /\ IsFiniteSet(Pieces(g)) /\ IsFiniteSet(Pieces(h))
  BY TotalIsNat
<1> HIDE DEF Shift, Rest
<1>5. ExistsBijection(Pieces(h), Rest)
  BY <1>3 DEF ExistsBijection
<1>6. IsFiniteSet(Rest) /\ Cardinality(Rest) = Cardinality(Pieces(h))
  BY <1>4, <1>5, FS_Bijection
<1>7. Cardinality(Pieces(f)) = Cardinality(Pieces(g)) + Cardinality(Rest) - Cardinality({})
  BY <1>1, <1>2, <1>4, <1>6, FS_Union
<1>8. Cardinality({}) = 0
  BY FS_EmptySet
<1>9. Cardinality(Pieces(g)) \in Nat /\ Cardinality(Pieces(h)) \in Nat
  BY <1>4, FS_CardinalityType
<1>10. QED
  BY <1>6, <1>7, <1>8, <1>9 DEF Total

\* A column of zeros totals zero, and only such a column does.
LEMMA TotalZero ==
    ASSUME NEW S, IsFiniteSet(S), NEW f \in [S -> Nat]
    PROVE  Total(f) = 0 <=> \A x \in S : f[x] = 0
<1>1. Total(f) = 0 <=> Pieces(f) = {}
  BY TotalIsNat, FS_EmptySet DEF Total
<1>2. Pieces(f) = {} <=> \A x \in S : f[x] = 0
  <2>1. ASSUME NEW x \in S, f[x] # 0 PROVE Pieces(f) # {}
    <3>1. 1 \in 1 .. f[x]
      BY <2>1
    <3>2. QED
      BY <3>1, PiecesMember
  <2>2. ASSUME NEW p \in Pieces(f) PROVE \E x \in S : f[x] # 0
    <3>1. p[1] \in S /\ p[2] \in 1 .. f[p[1]]
      BY PiecesMember
    <3>2. f[p[1]] # 0
      BY <3>1
    <3>3. QED
      BY <3>1, <3>2
  <2>3. QED
    BY <2>1, <2>2
<1>3. QED
  BY <1>1, <1>2

\* A column that is q in row a and zero elsewhere totals q.
LEMMA TotalOne ==
    ASSUME NEW S, IsFiniteSet(S), NEW a \in S, NEW q \in Nat
    PROVE  Total([x \in S |-> IF x = a THEN q ELSE 0]) = q
<1> DEFINE f == [x \in S |-> IF x = a THEN q ELSE 0]
           Slot == [i \in 1 .. q |-> <<a, i>>]
<1>1. f \in [S -> Nat]
  OBVIOUS
<1>2. Slot \in Bijection(1 .. q, Pieces(f))
  <2>1. ASSUME NEW i \in 1 .. q PROVE Slot[i] \in Pieces(f)
    <3>1. f[a] = q
      OBVIOUS
    <3>2. QED
      BY <1>1, <3>1, PiecesMember
  <2>2. ASSUME NEW p \in Pieces(f) PROVE \E i \in 1 .. q : Slot[i] = p
    <3>1. p = <<p[1], p[2]>> /\ p[1] \in S /\ p[2] \in 1 .. f[p[1]]
      BY <1>1, PiecesMember
    <3>2. p[1] = a /\ p[2] \in 1 .. q
      BY <3>1
    <3>3. QED
      BY <3>1, <3>2
  <2>3. \A i, j \in 1 .. q : Slot[i] = Slot[j] => i = j
    OBVIOUS
  <2>4. Slot \in [1 .. q -> Pieces(f)]
    BY <2>1
  <2> HIDE DEF Slot, f
  <2>5. QED
    BY <2>2, <2>3, <2>4, Fun_IsBij
<1>3. ExistsBijection(1 .. q, Pieces(f))
  BY <1>2 DEF ExistsBijection
<1>4. QED
  BY <1>3, FS_CountingElements DEF Total

-----------------------------------------------------------------------------
(* The inductive invariant of the handlers served one at a time. *)

\* A resource that was never declared has nothing reserved.
NewResourceEmpty ==
    \A r \in Resources : resource[r].status = "NEW" => resource[r].reservedQuantity = 0

\* The inductive invariant: the balance of the ledger rests on the agreement
\* of every allocation's totals with its status and its journal.
LedgerInv ==
    /\ TypeOK
    /\ StatusMatchesJournal
    /\ LedgerBalanced
    /\ NewResourceEmpty

-----------------------------------------------------------------------------
(* The columns the handlers add up. *)

\* Covered is the total of a column of natural numbers.
LEMMA CoveredIsNat ==
    ASSUME NEW rows \in [Allocations -> AllocationTable], NEW n
    PROVE  Covered(rows, n) \in Nat
<1> DEFINE column == [a \in Allocations |->
              IF rows[a].needId = n /\ rows[a].status # "CANCELLED" THEN rows[a].quantity ELSE 0]
<1>1. column \in [Allocations -> Nat]
  BY DEF AllocationTable
<1>2. Total(column) \in Nat
  BY <1>1, KeysFinite, TotalIsNat
<1>3. QED
  BY <1>2 DEF Covered

\* What an allocation still holds is a natural number, because its return
\* totals never exceed its quantity.
LEMMA HeldIsNat ==
    ASSUME NEW rows \in [Allocations -> AllocationTable],
           \A a \in Allocations : AllocationCheck(rows[a]), NEW r
    PROVE  Held(rows, r) \in [Allocations -> Nat] /\ Total(Held(rows, r)) \in Nat
<1>1. \A a \in Allocations : Outstanding(rows[a]) \in Nat
  BY DEF AllocationTable, AllocationCheck, Outstanding
<1>2. Held(rows, r) \in [Allocations -> Nat]
  BY <1>1 DEF Held
<1>3. QED
  BY <1>2, KeysFinite, TotalIsNat

\* The part of a column that falls on one resource has a total as well.
LEMMA OnResourceIsNat ==
    ASSUME NEW rows, NEW f \in [Allocations -> Nat], NEW r
    PROVE  OnResource(f, rows, r) \in Nat
<1> DEFINE column == [a \in Allocations |-> IF rows[a].resourceId = r THEN f[a] ELSE 0]
<1>1. column \in [Allocations -> Nat]
  OBVIOUS
<1>2. Total(column) \in Nat
  BY <1>1, KeysFinite, TotalIsNat
<1>3. QED
  BY <1>2 DEF OnResource

\* Rows that the tables' constructors build are rows of the tables.
LEMMA RowsAreTyped ==
    /\ \A status \in NeedStatus \cup NoRow, needed \in Nat, fulfilled \in Nat :
          NeedRow(status, needed, fulfilled) \in NeedTable
    /\ \A status \in {"LIVE"} \cup NoRow, quantity \in Nat, reserved \in Nat :
          ResourceRow(status, quantity, reserved) \in ResourceTable
    /\ \A status \in AllocationStatus \cup NoRow, n \in Needs \cup {Null}, al \in Alerts \cup {Null},
          r \in Resources \cup {Null}, donor \in Orgs \cup {Null}, q \in Nat :
          AllocationRow(status, n, al, r, donor, q) \in AllocationTable
    /\ \A x \in Nat, y \in Nat : Returned(x, y) \in ReturnTable
BY DEF NeedRow, NeedTable, ResourceRow, ResourceTable, AllocationRow, AllocationTable,
       Returned, ReturnTable

\* A key without a row is typed, satisfies every CHECK and holds nothing.
LEMMA BlankRows ==
    ASSUME NEW status \in NoRow
    PROVE  /\ NoNeed(status) \in NeedTable /\ NeedCheck(NoNeed(status))
           /\ NoResource(status) \in ResourceTable /\ ResourceCheck(NoResource(status))
           /\ NoAllocation(status) \in AllocationTable /\ AllocationCheck(NoAllocation(status))
           /\ NoReturns \in ReturnTable
           /\ Accounted(NoAllocation(status)) = 0 /\ Accounted(NoReturns) = 0
<1>1. NoNeed(status) \in NeedTable /\ NeedCheck(NoNeed(status))
  BY DEF NoNeed, NeedRow, NeedTable, NeedCheck
<1>2. NoResource(status) \in ResourceTable /\ ResourceCheck(NoResource(status))
  BY DEF NoResource, ResourceRow, ResourceTable, ResourceCheck
<1>3. NoAllocation(status) \in AllocationTable /\ AllocationCheck(NoAllocation(status))
  BY DEF NoAllocation, AllocationRow, AllocationTable, AllocationCheck
<1>4. NoReturns \in ReturnTable /\ Accounted(NoAllocation(status)) = 0 /\ Accounted(NoReturns) = 0
  BY DEF NoReturns, Returned, ReturnTable, NoAllocation, AllocationRow, Accounted
<1>5. QED
  BY <1>1, <1>2, <1>3, <1>4

\* The status computed for a need is one of the declared ones.
LEMMA NeedStatusIsTyped ==
    ASSUME NEW needed, NEW fulfilled, NEW status \in NeedStatus
    PROVE  RecalculateNeedStatus(needed, fulfilled, status) \in NeedStatus
BY DEF RecalculateNeedStatus, NeedStatus, DerivedNeedStatus

\* The empty database satisfies the invariant.
LEMMA InitLedgerInv == Init => LedgerInv
<1> SUFFICES ASSUME Init PROVE LedgerInv
  OBVIOUS
<1>1. TypeOK
  <2>1. "NEW" \in NoRow
    BY DEF NoRow
  <2>2. QED
    BY <2>1, BlankRows DEF Init, TypeOK
<1>2. StatusMatchesJournal
  BY DEF Init, StatusMatchesJournal, NoAllocation, AllocationRow, NoReturns, Returned, Accounted
<1>3. \A r \in Resources : Total(Held(allocation, r)) = 0
  <2> TAKE r \in Resources
  <2>1. \A a \in Allocations : Held(allocation, r)[a] = 0
    BY DEF Init, Held, NoAllocation, AllocationRow, IsActive, ActiveStatus
  <2>2. Held(allocation, r) \in [Allocations -> Nat]
    BY <1>1, HeldIsNat DEF TypeOK
  <2>3. QED
    BY <2>1, <2>2, KeysFinite, TotalZero
<1>4. LedgerBalanced /\ NewResourceEmpty
  BY <1>3 DEF Init, LedgerBalanced, NewResourceEmpty, NoResource, ResourceRow
<1>5. QED
  BY <1>1, <1>2, <1>4 DEF LedgerInv

-----------------------------------------------------------------------------
(* Alerts and needs: these handlers leave the ledger itself alone. *)

LEMMA LedgerUntouched ==
    ASSUME LedgerInv, TypeOK', UNCHANGED <<resource, allocation, journal>>
    PROVE  LedgerInv'
<1>1. StatusMatchesJournal'
  BY DEF LedgerInv, StatusMatchesJournal
<1>2. \A r \in Resources : Held(allocation', r) = Held(allocation, r)
  OBVIOUS
<1>3. LedgerBalanced' /\ NewResourceEmpty'
  BY <1>2 DEF LedgerInv, LedgerBalanced, NewResourceEmpty
<1>4. QED
  BY <1>1, <1>3 DEF LedgerInv

LEMMA CreateAlertInv ==
    ASSUME LedgerInv, NEW u \in Users, NEW al \in Alerts, CreateAlert(u, al)
    PROVE  LedgerInv'
<1>1. "ACTIVE" \in AlertStatus \cup NoRow
  BY DEF AlertStatus
<1>2. TypeOK'
  BY <1>1 DEF LedgerInv, TypeOK, CreateAlert
<1>3. QED
  BY <1>2, LedgerUntouched DEF CreateAlert

LEMMA PatchAlertTypes ==
    ASSUME TypeOK, NEW al \in Alerts, NEW status \in AlertStatus, NEW reopened,
           \A n \in DOMAIN reopened : reopened[n].covered \in Nat,
           PatchAlertTx(al, status, reopened)
    PROVE  TypeOK'
<1>1. ASSUME NEW n \in Needs, n \in DOMAIN reopened
      PROVE  ReopenedNeed(need[n], reopened[n]) \in NeedTable
  <2>1. need[n].quantityNeeded \in Nat
    BY DEF TypeOK, NeedTable
  <2>2. "OPEN" \in NeedStatus
    BY DEF NeedStatus, DerivedNeedStatus
  <2>3. reopened[n].covered \in Nat
    BY <1>1
  <2>4. QED
    BY <2>1, <2>2, <2>3, RowsAreTyped, NeedStatusIsTyped DEF ReopenedNeed
<1>2. need' \in [Needs -> NeedTable]
  BY <1>1 DEF PatchAlertTx, TypeOK
<1>3. QED
  BY <1>2 DEF PatchAlertTx, TypeOK

\* Whatever count a reactivation has read, it moves no column of the ledger.
LEMMA PatchAlertInv ==
    ASSUME LedgerInv, NEW al \in Alerts, NEW status \in AlertStatus, NEW reopened,
           \A n \in DOMAIN reopened : reopened[n].covered \in Nat,
           PatchAlertTx(al, status, reopened)
    PROVE  LedgerInv'
<1>1. TypeOK'
  BY PatchAlertTypes DEF LedgerInv
<1>2. QED
  BY <1>1, LedgerUntouched DEF PatchAlertTx

\* What a reactivation reads of a closed need is a count.
LEMMA ReopeningTyped ==
    ASSUME TypeOK, NEW al, NEW status, NEW seen
    PROVE  \A n \in DOMAIN Reopening(al, status, seen) :
              Reopening(al, status, seen)[n].covered \in Nat
<1>1. \A n \in Needs : Covered(allocation, n) \in Nat
  BY CoveredIsNat DEF TypeOK
<1>2. QED
  BY <1>1 DEF Reopening

LEMMA CreateNeedInv ==
    ASSUME LedgerInv, NEW u \in Users, NEW n \in Needs, NEW q \in Quantity, CreateNeed(u, n, q)
    PROVE  LedgerInv'
<1> USE DEF LedgerInv
<1>1. q \in Nat
  BY BoundsPositive DEF Quantity
<1>2. NeedRow("OPEN", q, 0) \in NeedTable /\ NeedCheck(NeedRow("OPEN", q, 0))
  BY <1>1 DEF NeedRow, NeedTable, NeedCheck, NeedStatus, DerivedNeedStatus
<1>3. TypeOK'
  BY <1>2 DEF CreateNeed, TypeOK
<1>4. QED
  BY <1>3, LedgerUntouched DEF CreateNeed

LEMMA PatchNeedTypes ==
    ASSUME TypeOK, NEW n \in Needs, NEW q \in Quantity \cup {Null},
           NEW status \in {"CLOSED", "CANCELLED", Null}, PatchNeedTx(n, q, status)
    PROVE  TypeOK'
<1>1. q = Null \/ q \in Nat
  BY BoundsPositive DEF Quantity
<1>2. need[n] \in NeedTable
  BY DEF TypeOK
<1>3. need'[n] \in NeedTable
  BY <1>1, <1>2 DEF PatchNeedTx, TypeOK, NeedRow, NeedTable, NeedStatus
<1>4. need' \in [Needs -> NeedTable] /\ \A m \in Needs : NeedCheck(need'[m])
  BY <1>3 DEF PatchNeedTx, TypeOK
<1>5. QED
  BY <1>4 DEF PatchNeedTx, TypeOK

LEMMA PatchNeedInv ==
    ASSUME LedgerInv, NEW n \in Needs, NEW q \in Quantity \cup {Null},
           NEW status \in {"CLOSED", "CANCELLED", Null}, PatchNeedTx(n, q, status)
    PROVE  LedgerInv'
<1>1. TypeOK'
  BY PatchNeedTypes DEF LedgerInv
<1>2. QED
  BY <1>1, LedgerUntouched DEF PatchNeedTx

LEMMA DeleteNeedTypes ==
    ASSUME TypeOK, NEW n \in Needs, DeleteNeedTx(n)
    PROVE  TypeOK'
<1>1. \A a \in Allocations :
          allocation'[a] \in AllocationTable /\ AllocationCheck(allocation'[a])
  BY DEF DeleteNeedTx, TypeOK, AllocationTable, AllocationCheck
<1>2. "GONE" \in NoRow
  BY DEF NoRow
<1>3. allocation' \in [Allocations -> AllocationTable]
  BY <1>1 DEF DeleteNeedTx
<1>4. need' \in [Needs -> NeedTable] /\ \A m \in Needs : NeedCheck(need'[m])
  BY <1>2, BlankRows DEF DeleteNeedTx, TypeOK
<1>5. QED
  BY <1>1, <1>3, <1>4 DEF DeleteNeedTx, TypeOK

\* Deleting a need only clears needId, which no column of the ledger uses.
LEMMA DeleteNeedInv ==
    ASSUME LedgerInv, NEW n \in Needs, DeleteNeedTx(n)
    PROVE  LedgerInv'
<1> USE DEF LedgerInv
<1>1. \A a \in Allocations :
          /\ allocation'[a].status = allocation[a].status
          /\ allocation'[a].resourceId = allocation[a].resourceId
          /\ allocation'[a].quantity = allocation[a].quantity
          /\ allocation'[a].quantityReturned = allocation[a].quantityReturned
          /\ allocation'[a].quantityNotReturnable = allocation[a].quantityNotReturnable
  BY DEF DeleteNeedTx, TypeOK, AllocationTable
<1>2. TypeOK'
  BY DeleteNeedTypes
<1>3. StatusMatchesJournal'
  BY <1>1 DEF DeleteNeedTx, StatusMatchesJournal, Accounted
<1>4. \A r \in Resources : Held(allocation', r) = Held(allocation, r)
  BY <1>1 DEF Held, IsActive, Outstanding
<1>5. LedgerBalanced' /\ NewResourceEmpty'
  BY <1>4 DEF DeleteNeedTx, LedgerBalanced, NewResourceEmpty
<1>6. QED
  BY <1>2, <1>3, <1>5

-----------------------------------------------------------------------------
(* Resources: the counters move, the allocations hold what they held. *)

LEMMA CreateResourceInv ==
    ASSUME LedgerInv, NEW u \in Users, NEW r \in Resources, NEW q \in 0 .. MaxStock,
           CreateResource(u, r, q)
    PROVE  LedgerInv'
<1> USE DEF LedgerInv
<1>1. q \in Nat
  BY BoundsPositive
<1>2. ResourceRow("LIVE", q, 0) \in ResourceTable /\ ResourceCheck(ResourceRow("LIVE", q, 0))
  BY <1>1 DEF ResourceRow, ResourceTable, ResourceCheck
<1>3. TypeOK'
  BY <1>2 DEF CreateResource, TypeOK
<1>4. StatusMatchesJournal'
  BY DEF CreateResource, StatusMatchesJournal
<1>5. \A s \in Resources : resource'[s].reservedQuantity = resource[s].reservedQuantity
  BY DEF CreateResource, TypeOK, NewResourceEmpty, ResourceRow
<1>6. \A s \in Resources : Held(allocation', s) = Held(allocation, s)
  BY DEF CreateResource
<1>7. LedgerBalanced' /\ NewResourceEmpty'
  BY <1>5, <1>6 DEF CreateResource, TypeOK, LedgerBalanced, NewResourceEmpty, ResourceRow
<1>8. QED
  BY <1>3, <1>4, <1>7

LEMMA PatchResourceTypes ==
    ASSUME TypeOK, NEW r \in Resources, NEW q \in 0 .. MaxStock, PatchResourceTx(r, q)
    PROVE  /\ TypeOK'
           /\ \A s \in Resources :
                 /\ resource'[s].status = resource[s].status
                 /\ resource'[s].reservedQuantity = resource[s].reservedQuantity
<1>1. \A s \in Resources :
          /\ resource'[s] \in ResourceTable /\ ResourceCheck(resource'[s])
          /\ resource'[s].status = resource[s].status
          /\ resource'[s].reservedQuantity = resource[s].reservedQuantity
  BY BoundsPositive DEF PatchResourceTx, TypeOK, ResourceTable
<1>2. QED
  BY <1>1 DEF PatchResourceTx, TypeOK

LEMMA PatchResourceInv ==
    ASSUME LedgerInv, NEW r \in Resources, NEW q \in 0 .. MaxStock, PatchResourceTx(r, q)
    PROVE  LedgerInv'
<1> USE DEF LedgerInv
<1>1. \A s \in Resources :
          /\ resource'[s].status = resource[s].status
          /\ resource'[s].reservedQuantity = resource[s].reservedQuantity
  BY PatchResourceTypes
<1>2. TypeOK'
  BY PatchResourceTypes
<1>3. StatusMatchesJournal'
  BY DEF PatchResourceTx, StatusMatchesJournal
<1>4. \A s \in Resources : Held(allocation', s) = Held(allocation, s)
  BY DEF PatchResourceTx
<1>5. LedgerBalanced' /\ NewResourceEmpty'
  BY <1>1, <1>4 DEF LedgerBalanced, NewResourceEmpty
<1>6. QED
  BY <1>2, <1>3, <1>5

LEMMA DeleteResourceTypes ==
    ASSUME TypeOK, NEW r \in Resources, DeleteResourceTx(r)
    PROVE  TypeOK'
<1>1. \A a \in Allocations :
          allocation'[a] \in AllocationTable /\ AllocationCheck(allocation'[a])
  BY DEF DeleteResourceTx, TypeOK, AllocationTable, AllocationCheck
<1>2. "GONE" \in NoRow
  BY DEF NoRow
<1>3. allocation' \in [Allocations -> AllocationTable]
  BY <1>1 DEF DeleteResourceTx
<1>4. resource' \in [Resources -> ResourceTable] /\ \A s \in Resources : ResourceCheck(resource'[s])
  BY <1>2, BlankRows DEF DeleteResourceTx, TypeOK
<1>5. QED
  BY <1>1, <1>3, <1>4 DEF DeleteResourceTx, TypeOK

\* A deleted resource has nothing reserved; no row points at it any more.
LEMMA DeleteResourceInv ==
    ASSUME LedgerInv, NEW r \in Resources, DeleteResourceTx(r)
    PROVE  LedgerInv'
<1> USE DEF LedgerInv
<1>1. \A a \in Allocations :
          /\ allocation'[a].status = allocation[a].status
          /\ allocation'[a].resourceId =
                IF allocation[a].resourceId = r THEN Null ELSE allocation[a].resourceId
          /\ allocation'[a].quantity = allocation[a].quantity
          /\ allocation'[a].quantityReturned = allocation[a].quantityReturned
          /\ allocation'[a].quantityNotReturnable = allocation[a].quantityNotReturnable
  BY DEF DeleteResourceTx, TypeOK, AllocationTable
<1>2. TypeOK'
  BY DeleteResourceTypes
<1>3. StatusMatchesJournal'
  BY <1>1 DEF DeleteResourceTx, StatusMatchesJournal, Accounted
<1>4. r # Null
  BY NullIsNoKey
<1>5. Total(Held(allocation', r)) = 0
  <2>1. \A a \in Allocations : Held(allocation', r)[a] = 0
    BY <1>1, <1>4 DEF Held
  <2>2. Held(allocation', r) \in [Allocations -> Nat]
    BY <1>2, HeldIsNat DEF TypeOK
  <2>3. QED
    BY <2>1, <2>2, KeysFinite, TotalZero
<1>6. \A s \in Resources \ {r} : Held(allocation', s) = Held(allocation, s)
  BY <1>1, NullIsNoKey DEF Held, IsActive, Outstanding
<1>7. resource'[r].reservedQuantity = 0 /\ resource'[r].status = "GONE"
  BY DEF DeleteResourceTx, TypeOK, NoResource, ResourceRow
<1>8. \A s \in Resources \ {r} : resource'[s] = resource[s]
  BY DEF DeleteResourceTx, TypeOK
<1>9. LedgerBalanced' /\ NewResourceEmpty'
  BY <1>5, <1>6, <1>7, <1>8 DEF LedgerBalanced, NewResourceEmpty
<1>10. QED
  BY <1>2, <1>3, <1>9

-----------------------------------------------------------------------------
(* Allocations. *)

LEMMA AllocateTypes ==
    ASSUME TypeOK, NEW u \in Users, NEW n \in Needs, NEW r \in Resources, NEW a \in Allocations,
           NEW q \in Quantity, NEW seenNeed, seenNeed.status \in NeedStatus, NEW seenResource,
           AllocateTx(u, n, r, a, q, seenNeed, seenResource)
    PROVE  /\ TypeOK'
           /\ \A s \in Resources :
                 /\ resource'[s].status = resource[s].status
                 /\ resource'[s].reservedQuantity =
                       resource[s].reservedQuantity + (IF s = r THEN q ELSE 0)
<1> DEFINE row == AllocationRow("DELIVERY_AGREED", n, needAlert[n], r, u.org, q)
<1>1. q \in Nat
  BY BoundsPositive DEF Quantity
<1>2. row \in AllocationTable /\ AllocationCheck(row)
  <2>1. u.org \in Orgs \cup {Null} /\ needAlert[n] \in Alerts
    BY UserColumns, ImmutableColumns
  <2>2. QED
    BY <1>1, <2>1 DEF AllocationRow, AllocationTable, AllocationStatus, ActiveStatus, AllocationCheck
<1>3. allocation' \in [Allocations -> AllocationTable] /\ \A b \in Allocations : AllocationCheck(allocation'[b])
  BY <1>2 DEF AllocateTx, TypeOK
<1>4. need' \in [Needs -> NeedTable] /\ \A m \in Needs : NeedCheck(need'[m])
  <2>1. Covered(allocation', n) \in Nat
    BY <1>3, CoveredIsNat
  <2>2. need[n] \in NeedTable /\ need[n].status \in NeedStatus /\ need[n].quantityNeeded \in Nat
    BY DEF TypeOK, NeedTable, AllocateTx, NeedExists
  <2>3. need'[n] \in NeedTable
    BY <2>1, <2>2, RowsAreTyped, NeedStatusIsTyped DEF AllocateTx, TypeOK
  <2>4. QED
    BY <2>3 DEF AllocateTx, TypeOK
<1>5. \A s \in Resources :
          /\ resource'[s] \in ResourceTable /\ ResourceCheck(resource'[s])
          /\ resource'[s].status = resource[s].status
          /\ resource'[s].reservedQuantity =
                resource[s].reservedQuantity + (IF s = r THEN q ELSE 0)
  BY <1>1 DEF AllocateTx, TypeOK, ResourceTable
<1>6. QED
  BY <1>3, <1>4, <1>5 DEF AllocateTx, TypeOK

\* The units put into the new row are the units added to the counter, whatever
\* was seen of the need and the resource before.
LEMMA AllocateInv ==
    ASSUME LedgerInv, NEW u \in Users, NEW n \in Needs, NEW r \in Resources, NEW a \in Allocations,
           NEW q \in Quantity, NEW seenNeed, seenNeed.status \in NeedStatus, NEW seenResource,
           AllocateTx(u, n, r, a, q, seenNeed, seenResource)
    PROVE  LedgerInv'
<1> USE DEF LedgerInv
<1> DEFINE row == AllocationRow("DELIVERY_AGREED", n, needAlert[n], r, u.org, q)
<1>1. q \in Nat
  BY BoundsPositive DEF Quantity
<1>2. TypeOK'
  BY AllocateTypes
<1>3. allocation' \in [Allocations -> AllocationTable] /\ \A b \in Allocations : AllocationCheck(allocation'[b])
  BY <1>2 DEF TypeOK
<1>5. \A s \in Resources :
          /\ resource'[s].status = resource[s].status
          /\ resource'[s].reservedQuantity =
                resource[s].reservedQuantity + (IF s = r THEN q ELSE 0)
  BY AllocateTypes
<1>7. allocation[a].status = "NEW" /\ allocation' = [allocation EXCEPT ![a] = row]
  BY DEF AllocateTx
<1>8. StatusMatchesJournal'
  <2>1. Accounted(row) = 0 /\ row.quantityNotReturnable = 0 /\ row.status = "DELIVERY_AGREED"
    BY DEF AllocationRow, Accounted
  <2>2. Accounted(journal[a]) = 0 /\ journal[a].quantityNotReturnable = 0
    BY <1>7 DEF StatusMatchesJournal, TypeOK, AllocationTable, ReturnTable, Accounted
  <2>3. QED
    BY <1>7, <2>1, <2>2 DEF AllocateTx, StatusMatchesJournal, TypeOK
<1>9. ASSUME NEW s \in Resources
      PROVE  Total(Held(allocation', s)) = Total(Held(allocation, s)) + (IF s = r THEN q ELSE 0)
  <2> DEFINE added == [b \in Allocations |-> IF b = a THEN (IF s = r THEN q ELSE 0) ELSE 0]
  <2>1. \A b \in Allocations : Held(allocation', s)[b] = Held(allocation, s)[b] + added[b]
    <3>1. Held(allocation, s)[a] = 0
      BY <1>7 DEF Held, IsActive, ActiveStatus
    <3>2. Held(allocation', s)[a] = IF s = r THEN q ELSE 0
      BY <1>1, <1>7 DEF TypeOK, Held, IsActive, ActiveStatus, AllocationRow, Outstanding
    <3>3. \A b \in Allocations \ {a} : Held(allocation', s)[b] = Held(allocation, s)[b]
      BY <1>7 DEF TypeOK, Held, IsActive, Outstanding
    <3>4. Held(allocation, s) \in [Allocations -> Nat]
      BY HeldIsNat DEF TypeOK
    <3>5. QED
      BY <1>1, <3>1, <3>2, <3>3, <3>4
  <2>2. Held(allocation, s) \in [Allocations -> Nat] /\ Held(allocation', s) \in [Allocations -> Nat]
    BY <1>3, HeldIsNat DEF TypeOK
  <2>3. added \in [Allocations -> Nat]
    BY <1>1
  <2>4. Total(added) = IF s = r THEN q ELSE 0
    BY <1>1, KeysFinite, TotalOne
  <2> HIDE DEF added
  <2>5. Total(Held(allocation', s)) = Total(Held(allocation, s)) + Total(added)
    BY <2>1, <2>2, <2>3, KeysFinite, TotalAdd
  <2>6. QED
    BY <2>4, <2>5
<1>10. LedgerBalanced' /\ NewResourceEmpty'
  <2>1. LedgerBalanced'
    BY <1>5, <1>9 DEF LedgerBalanced
  <2>2. \A s \in Resources : resource[s].reservedQuantity \in Nat
    BY DEF TypeOK, ResourceTable
  <2>3. resource[r].status = "LIVE"
    BY DEF AllocateTx, ResourceExists
  <2>4. NewResourceEmpty'
    BY <1>5, <2>2, <2>3 DEF NewResourceEmpty
  <2>5. QED
    BY <2>1, <2>4
<1>11. QED
  BY <1>2, <1>8, <1>10

LEMMA AdvanceTypes ==
    ASSUME TypeOK, NEW a \in Allocations, NEW next \in {"DELIVERED", "RETURN_AGREED"},
           AdvanceTx(a, next)
    PROVE  TypeOK'
BY DEF AdvanceTx, TypeOK, AllocationTable, AllocationCheck, AllocationStatus, ActiveStatus

\* A manual transition keeps the allocation active and its totals at zero.
LEMMA AdvanceInv ==
    ASSUME LedgerInv, NEW a \in Allocations, NEW next \in {"DELIVERED", "RETURN_AGREED"},
           allocation[a].status \in {"DELIVERY_AGREED", "DELIVERED"}, AdvanceTx(a, next)
    PROVE  LedgerInv'
<1> USE DEF LedgerInv
<1>1. allocation[a].status \in {"DELIVERY_AGREED", "DELIVERED"}
  OBVIOUS
<1>2. \A b \in Allocations :
          /\ allocation'[b] \in AllocationTable /\ AllocationCheck(allocation'[b])
          /\ allocation'[b].status = (IF b = a THEN next ELSE allocation[b].status)
          /\ allocation'[b].resourceId = allocation[b].resourceId
          /\ allocation'[b].quantity = allocation[b].quantity
          /\ allocation'[b].quantityReturned = allocation[b].quantityReturned
          /\ allocation'[b].quantityNotReturnable = allocation[b].quantityNotReturnable
  BY DEF AdvanceTx, TypeOK, AllocationTable, AllocationCheck, AllocationStatus, ActiveStatus
<1>3. TypeOK'
  BY <1>2 DEF AdvanceTx, TypeOK
<1>4. StatusMatchesJournal'
  BY <1>1, <1>2 DEF AdvanceTx, StatusMatchesJournal, Accounted
<1>5. \A r \in Resources : Held(allocation', r) = Held(allocation, r)
  BY <1>1, <1>2 DEF Held, IsActive, ActiveStatus, Outstanding
<1>6. LedgerBalanced' /\ NewResourceEmpty'
  BY <1>5 DEF AdvanceTx, LedgerBalanced, NewResourceEmpty
<1>7. QED
  BY <1>3, <1>4, <1>6

-----------------------------------------------------------------------------
(* Returns and cancellation. *)

\* A typed decision, and the two numbers it takes out of a resource.
LEMMA DecisionsAreTyped ==
    ASSUME NEW d \in Decisions
    PROVE  /\ d \in ReturnTable /\ Accounted(d) \in Nat \ {0}
           /\ d.quantityNotReturnable \in Nat /\ d.quantityNotReturnable <= Accounted(d)
BY BoundsPositive DEF Decisions, ReturnTable, Accounted

\* Settling a row with its own journal keeps the row typed, its story
\* consistent, and frees exactly the units of the decision.
LEMMA SettledRowFacts ==
    ASSUME NEW row \in AllocationTable, NEW events \in ReturnTable, NEW d \in Decisions,
           IsActive(row), AllocationCheck(row),
           Accounted(row) = Accounted(events),
           row.quantityNotReturnable = events.quantityNotReturnable,
           Accounted(events) + Accounted(d) <= row.quantity,
           NEW settled, settled = SettledRow(row, SumReturnEvents(events, d), row.status)
    PROVE  /\ settled \in AllocationTable /\ AllocationCheck(settled)
           /\ settled.status = (IF Accounted(events) + Accounted(d) < row.quantity
                                THEN "PARTIALLY_RETURNED" ELSE "RETURNED")
           /\ settled.quantity = row.quantity /\ settled.resourceId = row.resourceId
           /\ Accounted(settled) = Accounted(events) + Accounted(d)
           /\ settled.quantityNotReturnable = events.quantityNotReturnable + d.quantityNotReturnable
           /\ Outstanding(row) = Outstanding(settled) + Accounted(d)
           /\ Outstanding(settled) = 0 <=> settled.status = "RETURNED"
<1> DEFINE total == SumReturnEvents(events, d)
<1>1. /\ d.quantityReturned \in Nat /\ d.quantityNotReturnable \in Nat
      /\ d.quantityReturned + d.quantityNotReturnable > 0
  BY DecisionsAreTyped DEF ReturnTable, Accounted
<1>2. events.quantityReturned \in Nat /\ events.quantityNotReturnable \in Nat
  BY DEF ReturnTable
<1>3. /\ total.quantityReturned = events.quantityReturned + d.quantityReturned
      /\ total.quantityNotReturnable = events.quantityNotReturnable + d.quantityNotReturnable
  BY DEF SumReturnEvents, Returned
<1> HIDE DEF total
<1>4. /\ total.quantityReturned \in Nat /\ total.quantityNotReturnable \in Nat
      /\ Accounted(total) = Accounted(events) + Accounted(d) /\ Accounted(total) > 0
  BY <1>1, <1>2, <1>3 DEF Accounted
<1>5. settled = SettledRow(row, total, row.status)
  BY DEF total
<1>6. Accounted(events) \in Nat /\ Accounted(d) \in Nat
  BY <1>1, <1>2 DEF Accounted
<1>7. settled.status = (IF Accounted(events) + Accounted(d) < row.quantity
                        THEN "PARTIALLY_RETURNED" ELSE "RETURNED")
  <2>1. Accounted(total) \in Nat \ {0} /\ row.quantity \in Nat
    BY <1>4, <1>6 DEF AllocationTable
  <2>2. settled.status = RecalculateAllocationStatus(row.quantity, total, row.status)
    BY <1>5 DEF SettledRow, AllocationTable
  <2>3. QED
    BY <1>4, <2>1, <2>2 DEF RecalculateAllocationStatus
<1>8. /\ settled.quantity = row.quantity /\ settled.resourceId = row.resourceId
      /\ settled.quantityReturned = total.quantityReturned
      /\ settled.quantityNotReturnable = total.quantityNotReturnable
  BY <1>5 DEF SettledRow, AllocationTable
<1>9. settled \in AllocationTable
  BY <1>4, <1>5, <1>7 DEF SettledRow, AllocationTable, AllocationStatus, ActiveStatus
<1>10. /\ Accounted(settled) = Accounted(events) + Accounted(d)
      /\ settled.quantityNotReturnable = events.quantityNotReturnable + d.quantityNotReturnable
  BY <1>3, <1>4, <1>8 DEF Accounted
<1>11. AllocationCheck(settled)
  BY <1>4, <1>8, <1>10 DEF AllocationCheck, Accounted
<1>12. row.quantity \in Nat /\ row.quantityReturned \in Nat /\ row.quantityNotReturnable \in Nat
  BY DEF AllocationTable
<1>13. Outstanding(settled) = row.quantity - (Accounted(events) + Accounted(d))
  BY <1>4, <1>8, <1>10, <1>12 DEF Accounted, Outstanding
<1>14. Outstanding(row) = row.quantity - Accounted(events)
  BY <1>12 DEF Accounted, Outstanding
<1>15. Outstanding(row) = Outstanding(settled) + Accounted(d)
  BY <1>12, <1>13, <1>14, <1>6
<1>16. Outstanding(settled) = 0 <=> settled.status = "RETURNED"
  BY <1>7, <1>12, <1>13, <1>6
<1>17. QED
  BY <1>7, <1>8, <1>9, <1>10, <1>11, <1>15, <1>16

\* What the rows on resource r no longer hold is what the handler releases.
LEMMA HeldAfterRelease ==
    ASSUME NEW before \in [Allocations -> AllocationTable],
           NEW after \in [Allocations -> AllocationTable],
           \A a \in Allocations : AllocationCheck(before[a]) /\ AllocationCheck(after[a]),
           NEW released \in [Allocations -> Nat], NEW r,
           \A a \in Allocations : Held(before, r)[a] =
              Held(after, r)[a] + (IF before[a].resourceId = r THEN released[a] ELSE 0)
    PROVE  Total(Held(before, r)) = Total(Held(after, r)) + OnResource(released, before, r)
<1> DEFINE column == [a \in Allocations |-> IF before[a].resourceId = r THEN released[a] ELSE 0]
<1>1. column \in [Allocations -> Nat]
  OBVIOUS
<1>2. \A a \in Allocations : Held(before, r)[a] = Held(after, r)[a] + column[a]
  OBVIOUS
<1>3. Held(before, r) \in [Allocations -> Nat] /\ Held(after, r) \in [Allocations -> Nat]
  BY HeldIsNat
<1>4. OnResource(released, before, r) = Total(column)
  BY DEF OnResource
<1> HIDE DEF column
<1>5. Total(Held(before, r)) = Total(Held(after, r)) + Total(column)
  BY <1>1, <1>2, <1>3, KeysFinite, TotalAdd
<1>6. QED
  BY <1>4, <1>5

\* The counters of a resource after a release that its CHECK accepts.
LEMMA ReleasedResource ==
    ASSUME NEW row \in ResourceTable, NEW released \in Nat, NEW writtenOff \in Nat,
           ResourceCheck(ResourceAfterReturn(row, released, writtenOff))
    PROVE  LET after == ResourceAfterReturn(row, released, writtenOff) IN
           /\ after \in ResourceTable /\ after.status = row.status
           /\ after.reservedQuantity = row.reservedQuantity - released
<1> DEFINE after == ResourceAfterReturn(row, released, writtenOff)
<1>1. /\ after.status = row.status
      /\ after.reservedQuantity = row.reservedQuantity - released
      /\ after.quantity = row.quantity - writtenOff
  BY DEF ResourceAfterReturn, ResourceTable
<1>2. after.reservedQuantity \in Nat /\ after.quantity \in Nat
  BY <1>1 DEF ResourceCheck, ResourceTable
<1>3. after \in ResourceTable
  BY <1>1, <1>2 DEF ResourceAfterReturn, ResourceTable
<1>4. QED
  BY <1>1, <1>3

\* A return frees on its resource the units it takes out of its allocation.
LEMMA RecordReturnInv ==
    ASSUME LedgerInv, NEW a \in Allocations, NEW d \in Decisions,
           allocation[a].status \in {"RETURN_AGREED", "PARTIALLY_RETURNED"},
           Accounted(journal[a]) + Accounted(d) <= allocation[a].quantity,
           NEW seen, seen.status = allocation[a].status,
           seen.resourceId = allocation[a].resourceId,
           RecordReturnTx(a, d, seen, SumReturnEvents(journal[a], d))
    PROVE  LedgerInv'
<1> USE DEF LedgerInv
<1> DEFINE row == allocation[a]
           settled == SettledRow(row, SumReturnEvents(journal[a], d), row.status)
<1>1. /\ row \in AllocationTable /\ AllocationCheck(row)
      /\ journal[a] \in ReturnTable
  BY DEF TypeOK
<1>2. row.status \in {"RETURN_AGREED", "PARTIALLY_RETURNED"}
  OBVIOUS
<1>3. IsActive(row)
  BY <1>2 DEF IsActive, ActiveStatus
<1>4. /\ Accounted(row) = Accounted(journal[a])
      /\ row.quantityNotReturnable = journal[a].quantityNotReturnable
  BY DEF StatusMatchesJournal
<1>5. Accounted(journal[a]) + Accounted(d) <= row.quantity
  OBVIOUS
<1>6. /\ settled \in AllocationTable /\ AllocationCheck(settled)
      /\ settled.status = (IF Accounted(journal[a]) + Accounted(d) < row.quantity
                           THEN "PARTIALLY_RETURNED" ELSE "RETURNED")
      /\ settled.quantity = row.quantity /\ settled.resourceId = row.resourceId
      /\ Accounted(settled) = Accounted(journal[a]) + Accounted(d)
      /\ settled.quantityNotReturnable =
            journal[a].quantityNotReturnable + d.quantityNotReturnable
      /\ Outstanding(row) = Outstanding(settled) + Accounted(d)
      /\ Outstanding(settled) = 0 <=> settled.status = "RETURNED"
  BY <1>1, <1>3, <1>4, <1>5, SettledRowFacts
<1>7. /\ allocation' = [allocation EXCEPT ![a] = settled]
      /\ journal' = [journal EXCEPT ![a] = SumReturnEvents(@, d)]
  BY DEF RecordReturnTx, TypeOK
<1> HIDE DEF settled
<1>8. SumReturnEvents(journal[a], d) \in ReturnTable
  BY <1>1, DecisionsAreTyped DEF ReturnTable, SumReturnEvents, Returned
<1>9. /\ \A r \in Resources :
            /\ resource'[r] \in ResourceTable /\ ResourceCheck(resource'[r])
            /\ resource'[r].status = resource[r].status
            /\ resource'[r].reservedQuantity = resource[r].reservedQuantity -
                  (IF row.resourceId = r THEN Accounted(d) ELSE 0)
      /\ resource' \in [Resources -> ResourceTable]
  <2>1. Accounted(d) \in Nat /\ d.quantityNotReturnable \in Nat
    BY DecisionsAreTyped
  <2>2. \A r \in Resources : resource'[r] =
           IF r = row.resourceId
           THEN ResourceAfterReturn(resource[r], Accounted(d), d.quantityNotReturnable)
           ELSE resource[r]
    BY DEF RecordReturnTx
  <2>3. \A r \in Resources : ResourceCheck(resource'[r]) /\ resource[r] \in ResourceTable
    BY DEF RecordReturnTx, TypeOK
  <2>4. ASSUME NEW r \in Resources
        PROVE  /\ resource'[r] \in ResourceTable
               /\ resource'[r].status = resource[r].status
               /\ resource'[r].reservedQuantity = resource[r].reservedQuantity -
                     (IF row.resourceId = r THEN Accounted(d) ELSE 0)
    <3>1. CASE row.resourceId = r
      BY <2>1, <2>2, <2>3, <3>1, ReleasedResource
    <3>2. CASE row.resourceId # r
      BY <2>2, <2>3, <3>2 DEF ResourceTable
    <3>3. QED
      BY <3>1, <3>2
  <2>5. resource' = [r \in Resources |-> resource'[r]]
    BY DEF RecordReturnTx
  <2>6. QED
    BY <2>3, <2>4, <2>5
<1>10. /\ allocation' \in [Allocations -> AllocationTable]
       /\ \A b \in Allocations : AllocationCheck(allocation'[b])
  BY <1>6, <1>7 DEF TypeOK
<1>11. TypeOK'
  BY <1>7, <1>8, <1>9, <1>10 DEF RecordReturnTx, TypeOK
<1>12. StatusMatchesJournal'
  <2>1. Accounted(journal'[a]) = Accounted(settled)
    BY <1>1, <1>6, <1>7, DecisionsAreTyped DEF TypeOK, ReturnTable, SumReturnEvents, Returned, Accounted
  <2>2. journal'[a].quantityNotReturnable = settled.quantityNotReturnable
    BY <1>6, <1>7 DEF TypeOK, SumReturnEvents, Returned
  <2>3. /\ settled.status = "RETURNED" => Accounted(settled) = settled.quantity /\ settled.quantity > 0
        /\ settled.status = "PARTIALLY_RETURNED" => Accounted(settled) \in 1 .. settled.quantity - 1
        /\ settled.status \in {"RETURNED", "PARTIALLY_RETURNED"}
    <3>1. Accounted(journal[a]) \in Nat /\ row.quantity \in Nat
      BY <1>1 DEF ReturnTable, AllocationTable, Accounted
    <3>2. Accounted(d) \in Nat \ {0}
      BY DecisionsAreTyped
    <3>3. QED
      BY <1>5, <1>6, <3>1, <3>2
  <2>4. \A b \in Allocations \ {a} : allocation'[b] = allocation[b] /\ journal'[b] = journal[b]
    BY <1>7 DEF TypeOK
  <2>5. allocation'[a] = settled
    BY <1>7 DEF TypeOK
  <2>6. QED
    BY <2>1, <2>2, <2>3, <2>4, <2>5 DEF StatusMatchesJournal
<1>13. ASSUME NEW r \in Resources
       PROVE  Total(Held(allocation, r)) =
                 Total(Held(allocation', r)) + (IF row.resourceId = r THEN Accounted(d) ELSE 0)
  <2> DEFINE freed == [b \in Allocations |->
                          IF b = a THEN (IF row.resourceId = r THEN Accounted(d) ELSE 0) ELSE 0]
  <2>1. Accounted(d) \in Nat
    BY DecisionsAreTyped
  <2>2. freed \in [Allocations -> Nat]
    BY <2>1
  <2>3. Held(allocation, r) \in [Allocations -> Nat] /\ Held(allocation', r) \in [Allocations -> Nat]
    BY <1>10, HeldIsNat DEF TypeOK
  <2>4. Held(allocation, r)[a] = Held(allocation', r)[a] + freed[a]
    <3>1. Held(allocation, r)[a] = IF row.resourceId = r THEN Outstanding(row) ELSE 0
      BY <1>3 DEF Held
    <3>2. settled.status \in ActiveStatus \/ (settled.status = "RETURNED" /\ Outstanding(settled) = 0)
      BY <1>6 DEF ActiveStatus
    <3>3. allocation'[a] = settled /\ settled.resourceId = row.resourceId
      BY <1>6, <1>7 DEF TypeOK
    <3>4. Held(allocation', r)[a] = IF row.resourceId = r THEN Outstanding(settled) ELSE 0
      BY <3>2, <3>3 DEF Held, IsActive, ActiveStatus
    <3>5. QED
      BY <1>6, <3>1, <3>4
  <2>5. \A b \in Allocations \ {a} : Held(allocation, r)[b] = Held(allocation', r)[b]
    BY <1>7 DEF TypeOK, Held
  <2>6. \A b \in Allocations : Held(allocation, r)[b] = Held(allocation', r)[b] + freed[b]
    BY <2>3, <2>4, <2>5
  <2>7. Total(freed) = IF row.resourceId = r THEN Accounted(d) ELSE 0
    BY <2>1, KeysFinite, TotalOne
  <2> HIDE DEF freed
  <2>8. Total(Held(allocation, r)) = Total(Held(allocation', r)) + Total(freed)
    BY <2>2, <2>3, <2>6, KeysFinite, TotalAdd
  <2>9. QED
    BY <2>7, <2>8
<1>14. LedgerBalanced' /\ NewResourceEmpty'
  <2>1. Accounted(d) \in Nat
    BY DecisionsAreTyped
  <2>2. \A r \in Resources : Total(Held(allocation', r)) \in Nat
    BY <1>10, HeldIsNat
  <2>3. LedgerBalanced'
    BY <1>9, <1>13, <2>1, <2>2 DEF LedgerBalanced
  <2>4. \A r \in Resources : resource'[r].status = "NEW" => resource'[r].reservedQuantity = 0
    <3> TAKE r \in Resources
    <3>1. CASE row.resourceId = r
      <4>1. resource[r].status = "LIVE"
        BY <3>1, NullIsNoKey DEF RecordReturnTx, ResourceExists
      <4>2. QED
        BY <1>9, <4>1
    <3>2. CASE row.resourceId # r
      <4>1. resource[r].reservedQuantity \in Nat
        BY DEF TypeOK, ResourceTable
      <4>2. QED
        BY <1>9, <3>2, <4>1 DEF NewResourceEmpty
    <3>3. QED
      BY <3>1, <3>2
  <2>5. QED
    BY <2>3, <2>4 DEF NewResourceEmpty
<1>15. QED
  BY <1>11, <1>12, <1>14

\* Counters that go down by what the rows stop holding stay balanced.
LEMMA ReleasesBalance ==
    ASSUME LedgerInv, NEW released \in [Allocations -> Nat],
           \A r \in Resources :
              /\ resource'[r] \in ResourceTable /\ resource'[r].status = resource[r].status
              /\ resource'[r].reservedQuantity =
                    resource[r].reservedQuantity - OnResource(released, allocation, r),
           \A r \in Resources :
              /\ Total(Held(allocation', r)) \in Nat
              /\ Total(Held(allocation, r)) =
                    Total(Held(allocation', r)) + OnResource(released, allocation, r)
    PROVE  LedgerBalanced' /\ NewResourceEmpty'
<1>1. \A r \in Resources : OnResource(released, allocation, r) \in Nat
  BY OnResourceIsNat
<1>2. \A r \in Resources : resource'[r].reservedQuantity \in Nat /\ resource[r].reservedQuantity \in Nat
  BY DEF LedgerInv, TypeOK, ResourceTable
<1>3. LedgerBalanced'
  BY <1>1 DEF LedgerInv, LedgerBalanced
<1>4. NewResourceEmpty'
  BY <1>1, <1>2 DEF LedgerInv, NewResourceEmpty
<1>5. QED
  BY <1>3, <1>4

\* The rows of S are still what a request has seen of them.
Current(seen, S) == \A a \in S :
    /\ seen[a].status = allocation[a].status /\ seen[a].resourceId = allocation[a].resourceId
    /\ seen[a].quantity = allocation[a].quantity
    /\ seen[a].quantityReturned = allocation[a].quantityReturned
    /\ seen[a].quantityNotReturnable = allocation[a].quantityNotReturnable

\* What is charged to rows that are as they were seen is charged to the same resources.
LEMMA SameCharges ==
    ASSUME NEW seen, NEW f, NEW r, NEW S, Current(seen, S),
           \A a \in Allocations : a \in S \/ f[a] = 0
    PROVE  OnResource(f, seen, r) = OnResource(f, allocation, r)
<1>1. [a \in Allocations |-> IF seen[a].resourceId = r THEN f[a] ELSE 0]
        = [a \in Allocations |-> IF allocation[a].resourceId = r THEN f[a] ELSE 0]
  BY DEF Current
<1>2. QED
  BY <1>1 DEF OnResource

\* Every row of a cancelled alert is settled by its decision, withdrawn whole,
\* or not in flight; either way its resource gets back what it stops holding.
LEMMA CancelInv ==
    ASSUME LedgerInv, NEW al \in Alerts, NEW seen, Current(seen, InFlight(seen, al)),
           NEW d \in [Delivered(seen, al) -> Decisions],
           \A a \in DOMAIN d : Accounted(journal[a]) + Accounted(d[a]) <= allocation[a].quantity,
           CancelTx(al, d, seen, journal)
    PROVE  LedgerInv'
<1> USE DEF LedgerInv
<1> DEFINE delivered == Delivered(seen, al)
           withdrawn == Undelivered(seen, al)
           released == [a \in Allocations |->
              IF a \in DOMAIN d THEN Accounted(d[a])
              ELSE IF a \in withdrawn THEN seen[a].quantity ELSE 0]
           writtenOff == [a \in Allocations |->
              IF a \in DOMAIN d THEN d[a].quantityNotReturnable ELSE 0]
           Settled(a) ==
              SettledRow(allocation[a], SumReturnEvents(journal[a], d[a]), allocation[a].status)
<1>1. /\ DOMAIN d = delivered /\ delivered \subseteq Allocations
      /\ \A a \in delivered : d[a] \in Decisions
      /\ \A a \in delivered : IsActive(allocation[a])
      /\ \A a \in withdrawn : a \in Allocations /\ allocation[a].status = "DELIVERY_AGREED"
      /\ delivered \cap withdrawn = {} /\ delivered \cup withdrawn = InFlight(seen, al)
      /\ \A a \in delivered \cup withdrawn : seen[a].status = allocation[a].status
                                           /\ seen[a].quantity = allocation[a].quantity
  BY DEF Delivered, Undelivered, InFlight, Current, IsActive
<1>2. \A a \in Allocations :
          /\ allocation[a] \in AllocationTable /\ AllocationCheck(allocation[a])
          /\ journal[a] \in ReturnTable /\ allocation[a].quantity \in Nat
          /\ Accounted(allocation[a]) = Accounted(journal[a])
          /\ allocation[a].quantityNotReturnable = journal[a].quantityNotReturnable
  BY DEF TypeOK, AllocationTable, StatusMatchesJournal
<1>3. released \in [Allocations -> Nat] /\ writtenOff \in [Allocations -> Nat]
  BY <1>1, <1>2, DecisionsAreTyped
<1>4. \A a \in Allocations : allocation'[a] =
          IF a \in delivered THEN Settled(a)
          ELSE IF a \in withdrawn THEN [allocation[a] EXCEPT !.status = "CANCELLED"]
          ELSE allocation[a]
  BY <1>1 DEF CancelTx
<1>5. \A a \in Allocations : journal'[a] =
          IF a \in delivered THEN SumReturnEvents(journal[a], d[a]) ELSE journal[a]
  BY <1>1 DEF CancelTx
<1>6. ASSUME NEW a \in delivered
      PROVE  /\ allocation'[a] \in AllocationTable /\ AllocationCheck(allocation'[a])
             /\ allocation'[a].status =
                   (IF Accounted(journal[a]) + Accounted(d[a]) < allocation[a].quantity
                    THEN "PARTIALLY_RETURNED" ELSE "RETURNED")
             /\ allocation'[a].quantity = allocation[a].quantity
             /\ allocation'[a].resourceId = allocation[a].resourceId
             /\ Accounted(allocation'[a]) = Accounted(journal[a]) + Accounted(d[a])
             /\ allocation'[a].quantityNotReturnable =
                   journal[a].quantityNotReturnable + d[a].quantityNotReturnable
             /\ Outstanding(allocation[a]) = Outstanding(allocation'[a]) + Accounted(d[a])
             /\ Outstanding(allocation'[a]) = 0 <=> allocation'[a].status = "RETURNED"
             /\ Accounted(journal[a]) + Accounted(d[a]) <= allocation[a].quantity
  <2>1. Accounted(journal[a]) + Accounted(d[a]) <= allocation[a].quantity
    BY <1>1
  <2>2. allocation'[a] = Settled(a)
    BY <1>1, <1>4
  <2>3. a \in Allocations /\ d[a] \in Decisions /\ IsActive(allocation[a])
    BY <1>1
  <2>4. /\ allocation[a] \in AllocationTable /\ AllocationCheck(allocation[a])
        /\ journal[a] \in ReturnTable
        /\ Accounted(allocation[a]) = Accounted(journal[a])
        /\ allocation[a].quantityNotReturnable = journal[a].quantityNotReturnable
    BY <1>2, <2>3
  <2> HIDE DEF LedgerInv
  <2>5. QED
    BY <2>1, <2>2, <2>3, <2>4, SettledRowFacts
<1>7. ASSUME NEW a \in withdrawn
      PROVE  /\ allocation'[a] \in AllocationTable /\ AllocationCheck(allocation'[a])
             /\ allocation'[a].status = "CANCELLED"
             /\ allocation'[a].resourceId = allocation[a].resourceId
             /\ Accounted(allocation'[a]) = 0 /\ allocation'[a].quantityNotReturnable =
                   allocation[a].quantityNotReturnable
             /\ Outstanding(allocation[a]) = allocation[a].quantity
  <2>1. a \in Allocations /\ a \notin delivered /\ allocation[a].status = "DELIVERY_AGREED"
    BY <1>1
  <2>2. allocation'[a] = [allocation[a] EXCEPT !.status = "CANCELLED"]
    BY <1>4, <2>1
  <2>3. Accounted(allocation[a]) = 0
    BY <2>1 DEF StatusMatchesJournal
  <2>4. allocation[a] \in AllocationTable /\ AllocationCheck(allocation[a])
    BY <1>2, <2>1
  <2>5. QED
    BY <2>2, <2>3, <2>4 DEF AllocationTable, AllocationStatus, AllocationCheck, Accounted, Outstanding
<1>8. \A a \in Allocations \ (delivered \cup withdrawn) : allocation'[a] = allocation[a]
  BY <1>4
<1>9. /\ allocation' \in [Allocations -> AllocationTable]
      /\ \A a \in Allocations : AllocationCheck(allocation'[a])
  <2>1. \A a \in Allocations : allocation'[a] \in AllocationTable /\ AllocationCheck(allocation'[a])
    BY <1>2, <1>6, <1>7, <1>8
  <2>2. allocation' = [a \in Allocations |-> allocation'[a]]
    BY DEF CancelTx
  <2>3. QED
    BY <2>1, <2>2
<1>10. journal' \in [Allocations -> ReturnTable]
  <2>1. \A a \in Allocations : journal'[a] \in ReturnTable
    <3> TAKE a \in Allocations
    <3>1. CASE a \in delivered
      <4>1. d[a] \in ReturnTable /\ journal[a] \in ReturnTable
        BY <1>1, <1>2, <3>1, DecisionsAreTyped
      <4>2. SumReturnEvents(journal[a], d[a]) \in ReturnTable
        BY <4>1 DEF ReturnTable, SumReturnEvents, Returned
      <4>3. QED
        BY <1>5, <3>1, <4>2
    <3>2. CASE a \notin delivered
      BY <1>2, <1>5, <3>2
    <3>3. QED
      BY <3>1, <3>2
  <2>2. journal' = [a \in Allocations |-> journal'[a]]
    BY DEF CancelTx
  <2>3. QED
    BY <2>1, <2>2
<1>11. /\ resource' = [r \in Resources |->
             ResourceAfterReturn(resource[r], OnResource(released, seen, r),
                                 OnResource(writtenOff, seen, r))]
       /\ \A r \in Resources : ResourceCheck(resource'[r])
  BY DEF CancelTx
<1>12. \A n \in Needs : need'[n] =
          IF needAlert[n] = al /\ NeedExists(n) /\ need[n].status # "CANCELLED"
          THEN NeedRow("CLOSED", need[n].quantityNeeded, Covered(allocation', n)) ELSE need[n]
  BY DEF CancelTx
<1> HIDE DEF released, writtenOff, delivered, withdrawn, Settled
<1>13. \A r \in Resources :
           /\ resource'[r] \in ResourceTable /\ resource'[r].status = resource[r].status
           /\ resource'[r].reservedQuantity =
                 resource[r].reservedQuantity - OnResource(released, allocation, r)
  <2>1. \A r \in Resources : OnResource(released, seen, r) = OnResource(released, allocation, r)
    <3>1. \A a \in Allocations : a \in InFlight(seen, al) \/ released[a] = 0
      BY <1>1 DEF released
    <3>2. QED
      BY <3>1, SameCharges
  <2>2. QED
    BY <1>3, <1>11, <2>1, OnResourceIsNat, ReleasedResource DEF TypeOK
<1>14. need' \in [Needs -> NeedTable]
  <2>1. \A n \in Needs : Covered(allocation', n) \in Nat
    BY <1>9, CoveredIsNat
  <2>2. \A n \in Needs : need[n] \in NeedTable /\ need[n].quantityNeeded \in Nat
    BY DEF TypeOK, NeedTable
  <2>3. "CLOSED" \in NeedStatus \cup NoRow
    BY DEF NeedStatus
  <2>4. \A n \in Needs : need'[n] \in NeedTable
    BY <1>12, <2>1, <2>2, <2>3, RowsAreTyped
  <2>5. need' = [n \in Needs |-> need'[n]]
    BY DEF CancelTx
  <2>6. QED
    BY <2>4, <2>5
<1>15. TypeOK'
  <2>1. alert' \in [Alerts -> AlertStatus \cup NoRow]
    BY DEF CancelTx, TypeOK, AlertStatus
  <2>2. resource' \in [Resources -> ResourceTable]
    BY <1>11, <1>13
  <2>3. \A n \in Needs : NeedCheck(need'[n])
    BY DEF CancelTx
  <2>4. QED
    BY <1>9, <1>10, <1>11, <1>14, <2>1, <2>2, <2>3 DEF TypeOK
<1>16. StatusMatchesJournal'
  <2> SUFFICES ASSUME NEW a \in Allocations
               PROVE  LET row == allocation'[a] IN
                      /\ Accounted(row) = Accounted(journal'[a])
                      /\ row.quantityNotReturnable = journal'[a].quantityNotReturnable
                      /\ row.status = "RETURNED" => Accounted(row) = row.quantity /\ row.quantity > 0
                      /\ row.status = "PARTIALLY_RETURNED" => Accounted(row) \in 1 .. row.quantity - 1
                      /\ row.status \notin {"RETURNED", "PARTIALLY_RETURNED"} => Accounted(row) = 0
    BY DEF StatusMatchesJournal
  <2>1. CASE a \in delivered
    <3>1. /\ Accounted(journal[a]) \in Nat /\ allocation[a].quantity \in Nat
          /\ journal[a].quantityReturned \in Nat /\ journal[a].quantityNotReturnable \in Nat
      BY <1>2 DEF ReturnTable, Accounted
    <3>2. d[a].quantityReturned \in Nat /\ d[a].quantityNotReturnable \in Nat
      BY <1>1, <2>1, DecisionsAreTyped DEF ReturnTable
    <3>3. Accounted(d[a]) \in Nat \ {0}
      BY <1>1, <2>1, DecisionsAreTyped
    <3>4. journal'[a] = SumReturnEvents(journal[a], d[a])
      BY <1>5, <2>1
    <3>5. /\ Accounted(journal'[a]) = Accounted(journal[a]) + Accounted(d[a])
          /\ journal'[a].quantityNotReturnable =
                journal[a].quantityNotReturnable + d[a].quantityNotReturnable
      BY <3>1, <3>2, <3>4 DEF SumReturnEvents, Returned, Accounted
    <3>6. QED
      BY <1>6, <2>1, <3>1, <3>3, <3>5
  <2>2. CASE a \in withdrawn
    <3>1. Accounted(allocation[a]) = 0
      BY <1>1, <2>2 DEF StatusMatchesJournal
    <3>2. journal'[a] = journal[a]
      BY <1>1, <1>5, <2>2
    <3>3. QED
      BY <1>2, <1>7, <2>2, <3>1, <3>2
  <2>3. CASE a \notin delivered \cup withdrawn
    <3>1. allocation'[a] = allocation[a] /\ journal'[a] = journal[a]
      BY <1>5, <1>8, <2>3
    <3>2. QED
      BY <3>1 DEF StatusMatchesJournal
  <2>4. QED
    BY <2>1, <2>2, <2>3
<1>17. ASSUME NEW r \in Resources
       PROVE  Total(Held(allocation, r)) =
                 Total(Held(allocation', r)) + OnResource(released, allocation, r)
  <2>1. \A a \in delivered : released[a] = Accounted(d[a])
    BY <1>1 DEF released
  <2>2. \A a \in withdrawn : released[a] = allocation[a].quantity
    BY <1>1 DEF released
  <2>3. \A a \in Allocations \ (delivered \cup withdrawn) : released[a] = 0
    BY <1>1 DEF released
  <2>4. Held(allocation, r) \in [Allocations -> Nat] /\ Held(allocation', r) \in [Allocations -> Nat]
    BY <1>9, HeldIsNat DEF TypeOK
  <2>5. ASSUME NEW a \in Allocations
        PROVE  Held(allocation, r)[a] = Held(allocation', r)[a]
                  + (IF allocation[a].resourceId = r THEN released[a] ELSE 0)
    <3>1. CASE a \in delivered
      <4>1. Held(allocation, r)[a] = IF allocation[a].resourceId = r THEN Outstanding(allocation[a]) ELSE 0
        BY <1>1, <3>1 DEF Held
      <4>2. \/ allocation'[a].status \in ActiveStatus
            \/ allocation'[a].status = "RETURNED" /\ Outstanding(allocation'[a]) = 0
        BY <1>6, <3>1 DEF ActiveStatus
      <4>3. Held(allocation', r)[a] = IF allocation[a].resourceId = r THEN Outstanding(allocation'[a]) ELSE 0
        BY <1>6, <3>1, <4>2 DEF Held, IsActive, ActiveStatus
      <4>4. QED
        BY <1>6, <2>1, <3>1, <4>1, <4>3
    <3>2. CASE a \in withdrawn
      <4>1. Held(allocation, r)[a] = IF allocation[a].resourceId = r THEN allocation[a].quantity ELSE 0
        BY <1>1, <1>7, <3>2 DEF Held, IsActive, ActiveStatus
      <4>2. Held(allocation', r)[a] = 0
        BY <1>7, <3>2 DEF Held, IsActive, ActiveStatus
      <4>3. QED
        BY <1>2, <2>2, <3>2, <4>1, <4>2
    <3>3. CASE a \notin delivered \cup withdrawn
      <4>1. Held(allocation', r)[a] = Held(allocation, r)[a]
        BY <1>8, <3>3 DEF Held
      <4>2. QED
        BY <2>3, <2>4, <3>3, <4>1
    <3>4. QED
      BY <3>1, <3>2, <3>3
  <2>6. QED
    BY <1>2, <1>3, <1>9, <2>5, HeldAfterRelease DEF TypeOK
<1>18. LedgerBalanced' /\ NewResourceEmpty'
  BY <1>3, <1>9, <1>13, <1>17, OnResourceIsNat, HeldIsNat, ReleasesBalance
<1>19. QED
  BY <1>15, <1>16, <1>18

-----------------------------------------------------------------------------
(* Deleting an alert. *)

\* The rows go; the counters lose exactly what those rows still held.
LEMMA DeleteAlertInv ==
    ASSUME LedgerInv, NEW al \in Alerts, NEW seen, Current(seen, InFlight(seen, al)),
           InFlight(seen, al) = InFlight(allocation, al), DeleteAlertTx(al, seen)
    PROVE  LedgerInv'
<1> USE DEF LedgerInv
<1> DEFINE held == InFlight(allocation, al)
           doomed == {a \in Allocations : allocation[a].alertId = al}
           released == [a \in Allocations |-> IF a \in held THEN Outstanding(allocation[a]) ELSE 0]
           listed == [a \in Allocations |->
              IF a \in InFlight(seen, al) THEN Outstanding(seen[a]) ELSE 0]
<1>1. \A a \in Allocations :
          /\ allocation[a] \in AllocationTable /\ AllocationCheck(allocation[a])
          /\ Outstanding(allocation[a]) \in Nat /\ journal[a] \in ReturnTable
  BY DEF TypeOK, AllocationTable, AllocationCheck, Outstanding
<1>2. held \subseteq doomed /\ \A a \in doomed : IsActive(allocation[a]) <=> a \in held
  BY DEF InFlight
<1>3. released \in [Allocations -> Nat]
  BY <1>1
<1>4. /\ allocation' = [a \in Allocations |->
             IF a \in doomed THEN NoAllocation("GONE") ELSE allocation[a]]
      /\ journal' = [a \in Allocations |-> IF a \in doomed THEN NoReturns ELSE journal[a]]
      /\ resource' = [r \in Resources |->
             ResourceAfterReturn(resource[r], OnResource(listed, seen, r), 0)]
      /\ \A r \in Resources : ResourceCheck(resource'[r])
      /\ alert' = [alert EXCEPT ![al] = "GONE"]
      /\ need' = [n \in Needs |->
             IF needAlert[n] = al /\ NeedExists(n) THEN NoNeed("GONE") ELSE need[n]]
  BY DEF DeleteAlertTx
<1>5. "GONE" \in NoRow
  BY DEF NoRow
<1>5a. listed = released /\ \A a \in Allocations : a \in InFlight(seen, al) \/ released[a] = 0
  <2>1. \A a \in InFlight(seen, al) : Outstanding(seen[a]) = Outstanding(allocation[a])
    BY DEF Current, Outstanding
  <2>2. QED
    BY <2>1
<1> HIDE DEF held, doomed, released, listed
<1>5b. \A r \in Resources : OnResource(listed, seen, r) = OnResource(released, allocation, r)
  BY <1>5a, SameCharges
<1>6. \A r \in Resources :
          /\ resource'[r] \in ResourceTable /\ resource'[r].status = resource[r].status
          /\ resource'[r].reservedQuantity =
                resource[r].reservedQuantity - OnResource(released, allocation, r)
  BY <1>3, <1>4, <1>5b, OnResourceIsNat, ReleasedResource DEF TypeOK
<1>7. TypeOK'
  <2>1. /\ allocation' \in [Allocations -> AllocationTable]
        /\ \A a \in Allocations : AllocationCheck(allocation'[a])
    BY <1>1, <1>4, <1>5, BlankRows
  <2>2. journal' \in [Allocations -> ReturnTable]
    BY <1>1, <1>4, <1>5, BlankRows
  <2>3. need' \in [Needs -> NeedTable] /\ \A n \in Needs : NeedCheck(need'[n])
    BY <1>4, <1>5, BlankRows DEF TypeOK
  <2>4. alert' \in [Alerts -> AlertStatus \cup NoRow]
    BY <1>4, <1>5 DEF TypeOK
  <2>5. resource' \in [Resources -> ResourceTable] /\ \A r \in Resources : ResourceCheck(resource'[r])
    BY <1>4, <1>6
  <2>6. QED
    BY <2>1, <2>2, <2>3, <2>4, <2>5 DEF TypeOK
<1>8. StatusMatchesJournal'
  BY <1>4 DEF StatusMatchesJournal, NoAllocation, AllocationRow, NoReturns, Returned, Accounted
<1>9. ASSUME NEW r \in Resources
      PROVE  Total(Held(allocation, r)) =
                Total(Held(allocation', r)) + OnResource(released, allocation, r)
  <2>1. Held(allocation, r) \in [Allocations -> Nat] /\ Held(allocation', r) \in [Allocations -> Nat]
    BY <1>1, <1>7, HeldIsNat DEF TypeOK
  <2>2. ASSUME NEW a \in Allocations
        PROVE  Held(allocation, r)[a] = Held(allocation', r)[a]
                  + (IF allocation[a].resourceId = r THEN released[a] ELSE 0)
    <3>1. CASE a \in doomed
      <4>1. Held(allocation', r)[a] = 0
        BY <1>4, <3>1 DEF Held, NoAllocation, AllocationRow, IsActive, ActiveStatus
      <4>2. Held(allocation, r)[a] = IF allocation[a].resourceId = r THEN released[a] ELSE 0
        BY <1>2, <3>1 DEF Held, released
      <4>3. QED
        BY <2>1, <4>1, <4>2
    <3>2. CASE a \notin doomed
      <4>1. Held(allocation', r)[a] = Held(allocation, r)[a]
        BY <1>4, <3>2 DEF Held
      <4>2. released[a] = 0
        BY <1>2, <3>2 DEF released
      <4>3. QED
        BY <2>1, <4>1, <4>2
    <3>3. QED
      BY <3>1, <3>2
  <2>3. QED
    BY <1>3, <1>7, <2>2, HeldAfterRelease DEF TypeOK
<1>10. LedgerBalanced' /\ NewResourceEmpty'
  <2>1. \A r \in Resources : Total(Held(allocation', r)) \in Nat
    BY <1>7, HeldIsNat DEF TypeOK
  <2>2. QED
    BY <1>3, <1>6, <1>9, <2>1, ReleasesBalance
<1>11. QED
  BY <1>7, <1>8, <1>10

-----------------------------------------------------------------------------
(* The theorems. *)

LEMMA AlertNextInv ==
    ASSUME LedgerInv, NEW u \in Users, AlertNext(u)
    PROVE  LedgerInv'
<1>1. PICK al \in Alerts :
         \/ CreateAlert(u, al)
         \/ \E status \in AlertStatus : PatchAlert(u, al, status)
         \/ \E d \in [Delivered(allocation, al) -> Decisions] : CancelWithReturn(u, al, d)
         \/ DeleteAlert(u, al)
  BY DEF AlertNext
<1>2. CASE CreateAlert(u, al)
  BY <1>2, CreateAlertInv
<1>3. CASE \E status \in AlertStatus : PatchAlert(u, al, status)
  <2>1. TypeOK
    BY DEF LedgerInv
  <2>2. QED
    BY <1>3, <2>1, ReopeningTyped, PatchAlertInv DEF PatchAlert
<1>4. CASE \E d \in [Delivered(allocation, al) -> Decisions] : CancelWithReturn(u, al, d)
  <2>1. Current(allocation, InFlight(allocation, al))
    BY DEF Current
  <2>2. QED
    BY <1>4, <2>1, CancelInv DEF CancelWithReturn, CancelAccepts
<1>5. CASE DeleteAlert(u, al)
  <2>1. Current(allocation, InFlight(allocation, al))
    BY DEF Current
  <2>2. QED
    BY <1>5, <2>1, DeleteAlertInv DEF DeleteAlert
<1>6. QED
  BY <1>1, <1>2, <1>3, <1>4, <1>5

\* Every handler, run by any account, preserves the invariant.
LEMMA NextLedgerInv == LedgerInv /\ [Next]_vars => LedgerInv'
<1> SUFFICES ASSUME LedgerInv, [Next]_vars PROVE LedgerInv'
  OBVIOUS
<1>1. CASE UNCHANGED vars
  BY <1>1 DEF vars, LedgerInv, TypeOK, StatusMatchesJournal, LedgerBalanced, NewResourceEmpty, Held
<1>2. ASSUME NEW u \in Users, AlertNext(u) PROVE LedgerInv'
  BY <1>2, AlertNextInv
<1>3. ASSUME NEW u \in Users, NeedNext(u) PROVE LedgerInv'
  BY <1>3, CreateNeedInv, PatchNeedInv, DeleteNeedInv DEF NeedNext, PatchNeed, DeleteNeed
<1>4. ASSUME NEW u \in Users, ResourceNext(u) PROVE LedgerInv'
  BY <1>4, CreateResourceInv, PatchResourceInv, DeleteResourceInv
     DEF ResourceNext, PatchResource, DeleteResource
<1>5. ASSUME NEW u \in Users, AllocationNext(u) PROVE LedgerInv'
  <2>1. ASSUME NEW n \in Needs, NEW r \in Resources, NEW a \in Allocations, NEW q \in Quantity,
               Allocate(u, n, r, a, q)
        PROVE  LedgerInv'
    BY <2>1, AllocateInv DEF Allocate, AllocateAccepts, NeedExists
  <2>2. ASSUME NEW a \in Allocations, NEW next \in {"DELIVERED", "RETURN_AGREED"},
               Advance(u, a, next)
        PROVE  LedgerInv'
    BY <2>2, AdvanceInv DEF Advance, AdvanceAccepts, AllowedActors
  <2>3. ASSUME NEW a \in Allocations, NEW d \in Decisions, RecordReturn(u, a, d)
        PROVE  LedgerInv'
    BY <2>3, RecordReturnInv DEF RecordReturn, RecordReturnAccepts
  <2>4. QED
    BY <1>5, <2>1, <2>2, <2>3 DEF AllocationNext
<1>6. QED
  BY <1>1, <1>2, <1>3, <1>4, <1>5 DEF Next

\* The inductive invariant holds in every state the handlers reach.
THEOREM LedgerInvariant == Spec => []LedgerInv
<1>1. QED
  BY InitLedgerInv, NextLedgerInv, PTL DEF Spec

\* Every row stays within its table and its CHECK constraints, whatever the
\* handlers of the resource module are called with.
THEOREM TypeCorrect == Spec => []TypeOK
<1>1. LedgerInv => TypeOK
  BY DEF LedgerInv
<1>2. QED
  BY <1>1, LedgerInvariant, PTL

\* Every counter Resource.reservedQuantity is the sum of what its allocations
\* in flight still hold.
THEOREM LedgerAlwaysBalanced == Spec => []LedgerBalanced
<1>1. LedgerInv => LedgerBalanced
  BY DEF LedgerInv
<1>2. QED
  BY <1>1, LedgerInvariant, PTL

\* Every allocation's status and totals agree with its return journal.
THEOREM StatusAlwaysMatchesJournal == Spec => []StatusMatchesJournal
<1>1. LedgerInv => StatusMatchesJournal
  BY DEF LedgerInv
<1>2. QED
  BY <1>1, LedgerInvariant, PTL
=============================================================================
