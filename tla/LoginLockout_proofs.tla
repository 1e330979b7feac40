------------------------ MODULE LoginLockout_proofs -------------------------
(***************************************************************************)
(* Proofs about LoginLockout, for every set of attempts, every lock,       *)
(* threshold and ladder of blocks, with and without a Redis that fails:    *)
(* the module is type correct, nobody gets past a lock that was there all  *)
(* along, no copy of a lock outlives it by more than the lock itself, and  *)
(* the threshold locks.                                                    *)
(***************************************************************************)
EXTENDS LoginLockout, TLAPS

USE TicksAreNat, ThresholdsAreNat, FailingIsBoolean

Row == [failedAttempts : 0 .. MaxFailedAttempts, lock : 0 .. LockTicks]
Address == [count : 0 .. MaxCount, block : 0 .. Tiers]

\* What checkLockout relies on: while the account is open, everyone who is
\* under way has seen it open.
OpenIsSeen == row.lock = 0 => \A a \in Attempts : At(a, "idle") \/ attempt[a].sawOpen

\* Only a failure has tasks left, so an attempt that starts one drops none.
TasksAreOfFailures == \A a \in Attempts : At(a, "fail") \/ attempt[a].todo = {}

LoginInv ==
    TypeOK /\ LockHolds /\ LockEndsInTime /\ ThresholdLocks /\ OpenIsSeen /\ TasksAreOfFailures

PastTheLock == {"verify", "clearKey", "resetRow", "forget"}

-----------------------------------------------------------------------------
(* Types of the pieces. *)

LEMMA IdleType == Idle \in Attempt
BY DEF Idle, Attempt, Phases

LEMMA MaxCountType == MaxCount \in Nat /\ MaxCount - AttemptsPerTier \in Nat
<1>1. PICK n \in Nat : Tiers = n + 1
  <2>1. Tiers - 1 \in Nat /\ Tiers = (Tiers - 1) + 1 OBVIOUS
  <2> QED BY <2>1
<1>2. AttemptsPerTier * (n + 1) = AttemptsPerTier * n + AttemptsPerTier OBVIOUS
<1>3. AttemptsPerTier * n \in Nat OBVIOUS
<1> QED BY <1>1, <1>2, <1>3 DEF MaxCount

LEMMA NextCountType == ASSUME NEW count \in 0 .. MaxCount PROVE NextCount(count) \in 0 .. MaxCount
BY MaxCountType DEF NextCount

LEMMA BlockForType == ASSUME NEW count \in 0 .. MaxCount PROVE BlockFor(count) \in 0 .. Tiers
<1>1. count \in Nat /\ AttemptsPerTier \in Nat \ {0} BY MaxCountType
<1>2. count \div AttemptsPerTier \in Nat BY <1>1
<1> QED BY <1>2 DEF BlockFor, AtMost

-----------------------------------------------------------------------------
(* A step of one attempt, whatever else it does to the lock. *)

LEMMA AttemptKeeps ==
    ASSUME LoginInv, NEW a \in Attempts, NEW r \in Attempt,
           attempt' = [attempt EXCEPT ![a] = r],
           row' \in Row, lockKey' \in 0 .. LockTicks, address' \in Address,
           imposed' \in 0 .. LockTicks, locked' \in BOOLEAN, lost' \in BOOLEAN,
           UNCHANGED unlock,
           imposed =< imposed', row'.lock =< imposed', lockKey' =< imposed', r.until =< imposed',
           row'.lock = 0 => row.lock = 0 /\ (r.phase = "idle" \/ r.sawOpen),
           r.phase \in PastTheLock => r.sawOpen,
           r.phase = "fail" \/ r.todo = {},
           row'.failedAttempts = MaxFailedAttempts /\ ~lost' =>
               \/ locked' \/ "impose" \in r.todo
               \/ /\ row.failedAttempts = MaxFailedAttempts /\ ~lost /\ ~locked
                  /\ "impose" \notin attempt[a].todo
    PROVE LoginInv'
<1> USE DEF LoginInv
<1>0. attempt \in [Attempts -> Attempt] BY DEF TypeOK
<1>1. \A b \in Attempts : attempt'[b] = IF b = a THEN r ELSE attempt[b] BY <1>0
<1>2. attempt' \in [Attempts -> Attempt] BY <1>0
<1>3. TypeOK' BY <1>2 DEF TypeOK, Row, Address
<1>4. LockHolds' BY <1>1 DEF LockHolds, PastTheLock
<1>5. LockEndsInTime'
  <2>1. ASSUME NEW b \in Attempts PROVE attempt'[b].until =< imposed'
    <3>1. attempt[b].until =< imposed /\ attempt[b].until \in Int /\ imposed \in Int
        BY DEF LockEndsInTime, TypeOK, Attempt
    <3> QED BY <1>1, <3>1
  <2> QED BY <2>1 DEF LockEndsInTime
<1>6. ThresholdLocks'
  <2> SUFFICES ASSUME row'.failedAttempts = MaxFailedAttempts, ~lost', ~locked',
                      "impose" \notin r.todo
               PROVE \E b \in Attempts : "impose" \in attempt'[b].todo
      BY <1>1 DEF ThresholdLocks
  <2>1. PICK b \in Attempts : "impose" \in attempt[b].todo BY DEF ThresholdLocks
  <2> QED BY <1>1, <2>1
<1>7. OpenIsSeen' BY <1>1 DEF OpenIsSeen, At
<1>8. TasksAreOfFailures' BY <1>1 DEF TasksAreOfFailures, At
<1> QED BY <1>3, <1>4, <1>5, <1>6, <1>7, <1>8

\* The common case: the lock stays as it is and the attempt changes phase.
LEMMA MoveKeeps ==
    ASSUME LoginInv, NEW a \in Attempts, attempt[a].phase # "fail",
           NEW phase \in Phases \ {"fail"}, Goto(a, phase),
           UNCHANGED <<row, unlock, imposed, locked, lost>>,
           lockKey' \in {0, lockKey}, address' \in Address,
           phase \in PastTheLock => attempt[a].sawOpen,
           phase = "idle" \/ attempt[a].phase # "idle"
    PROVE LoginInv'
<1> DEFINE r == [attempt[a] EXCEPT !.phase = phase]
<1>0. attempt[a] \in Attempt /\ attempt \in [Attempts -> Attempt] BY DEF LoginInv, TypeOK
<1>1. r \in Attempt BY <1>0 DEF Attempt
<1>2. r.phase = phase /\ r.todo = attempt[a].todo /\ r.until = attempt[a].until
      /\ r.sawOpen = attempt[a].sawOpen
    BY <1>0 DEF Attempt
<1>3. attempt' = [attempt EXCEPT ![a] = r] BY DEF Goto
<1> HIDE DEF r
<1>4. r.todo = {} BY <1>2 DEF LoginInv, TasksAreOfFailures, At
<1>5. /\ row \in Row /\ lockKey \in 0 .. LockTicks /\ imposed \in 0 .. LockTicks
      /\ locked \in BOOLEAN /\ lost \in BOOLEAN
      /\ row.lock =< imposed /\ lockKey =< imposed /\ r.until =< imposed
    BY <1>2 DEF LoginInv, TypeOK, Row, LockEndsInTime
<1>6. row.lock = 0 => r.phase = "idle" \/ r.sawOpen BY <1>2 DEF LoginInv, OpenIsSeen, At
<1>7. "impose" \notin attempt[a].todo BY <1>2, <1>4
<1>8. /\ row' \in Row /\ lockKey' \in 0 .. LockTicks /\ imposed' \in 0 .. LockTicks
      /\ locked' \in BOOLEAN /\ lost' \in BOOLEAN /\ UNCHANGED unlock
    BY <1>5
<1>9. /\ imposed =< imposed' /\ row'.lock =< imposed' /\ lockKey' =< imposed'
      /\ r.until =< imposed'
    BY <1>5
<1>10. row'.lock = 0 => row.lock = 0 /\ (r.phase = "idle" \/ r.sawOpen) BY <1>6
<1>11. r.phase \in PastTheLock => r.sawOpen BY <1>2
<1>12. row'.failedAttempts = MaxFailedAttempts /\ ~lost' =>
           \/ locked' \/ "impose" \in r.todo
           \/ /\ row.failedAttempts = MaxFailedAttempts /\ ~lost /\ ~locked
              /\ "impose" \notin attempt[a].todo
    BY <1>7
<1> QED BY <1>1, <1>3, <1>4, <1>8, <1>9, <1>10, <1>11, <1>12, AttemptKeeps

\* An attempt that ends leaves nothing behind.
LEMMA LeaveKeeps ==
    ASSUME LoginInv, NEW a \in Attempts, attempt[a].phase # "fail" \/ attempt[a].todo = {},
           Leave(a), UNCHANGED <<row, unlock, imposed, locked, lost>>,
           lockKey' \in 0 .. LockTicks, lockKey' =< imposed, address' \in Address
    PROVE LoginInv'
<1>1. Idle.phase = "idle" /\ Idle.todo = {} /\ Idle.until = 0 BY DEF Idle
<1>2. attempt' = [attempt EXCEPT ![a] = Idle] BY DEF Leave
<1>3. /\ row \in Row /\ imposed \in 0 .. LockTicks /\ locked \in BOOLEAN /\ lost \in BOOLEAN
      /\ row.lock =< imposed
    BY DEF LoginInv, TypeOK, Row, LockEndsInTime
<1>4. "impose" \notin attempt[a].todo BY DEF LoginInv, TasksAreOfFailures, At
<1>5. Idle.phase \notin PastTheLock BY <1>1 DEF PastTheLock
<1>6. /\ row' \in Row /\ imposed' \in 0 .. LockTicks
      /\ locked' \in BOOLEAN /\ lost' \in BOOLEAN /\ UNCHANGED unlock
    BY <1>3
<1>7. /\ imposed =< imposed' /\ row'.lock =< imposed' /\ lockKey' =< imposed'
      /\ Idle.until =< imposed'
    BY <1>1, <1>3
<1>8. row'.lock = 0 => row.lock = 0 /\ (Idle.phase = "idle" \/ Idle.sawOpen) BY <1>1
<1>9. row'.failedAttempts = MaxFailedAttempts /\ ~lost' =>
          \/ locked' \/ "impose" \in Idle.todo
          \/ /\ row.failedAttempts = MaxFailedAttempts /\ ~lost /\ ~locked
             /\ "impose" \notin attempt[a].todo
    BY <1>4
<1> QED BY <1>1, <1>2, <1>5, <1>6, <1>7, <1>8, <1>9, IdleType, AttemptKeeps

-----------------------------------------------------------------------------
(* The steps of authorize. *)

\* What every step may rely on.
LEMMA Known ==
    ASSUME LoginInv, NEW a \in Attempts
    PROVE  /\ attempt \in [Attempts -> Attempt] /\ attempt[a] \in Attempt
           /\ row \in Row /\ row.lock \in 0 .. LockTicks
           /\ row.failedAttempts \in 0 .. MaxFailedAttempts
           /\ lockKey \in 0 .. LockTicks /\ address \in Address
           /\ imposed \in 0 .. LockTicks /\ locked \in BOOLEAN /\ lost \in BOOLEAN
           /\ row.lock =< imposed /\ lockKey =< imposed
           /\ attempt[a].until =< imposed /\ attempt[a].until \in 0 .. LockTicks
           /\ attempt[a].todo \subseteq Tasks
           /\ row.lock = 0 => At(a, "idle") \/ attempt[a].sawOpen
           /\ attempt[a].phase \in PastTheLock => attempt[a].sawOpen
           /\ At(a, "fail") \/ attempt[a].todo = {}
BY DEF LoginInv, TypeOK, LockHolds, LockEndsInTime, OpenIsSeen, TasksAreOfFailures,
       Attempt, Row, Address, PastTheLock

LEMMA CheckKeeps ==
    ASSUME LoginInv, NEW a \in Attempts, Check(a) PROVE LoginInv'
<1> USE Known
<1>1. ASSUME CheckBlock(a) PROVE LoginInv'
  <2>1. CASE Leave(a) BY <1>1, <2>1, LeaveKeeps DEF CheckBlock, At
  <2>2. CASE Goto(a, "key") BY <1>1, <2>2, MoveKeeps DEF CheckBlock, At, Phases, PastTheLock
  <2> QED BY <1>1, <2>1, <2>2 DEF CheckBlock, Redis
<1>2. ASSUME CheckKey(a) PROVE LoginInv'
  <2>1. CASE Leave(a) BY <1>2, <2>1, LeaveKeeps DEF CheckKey, At
  <2>2. CASE Goto(a, "row") BY <1>2, <2>2, MoveKeeps DEF CheckKey, At, Phases, PastTheLock
  <2> QED BY <1>2, <2>1, <2>2 DEF CheckKey, Redis
<1>3. ASSUME CheckRow(a) PROVE LoginInv'
  <2>1. CASE row.lock = 0
    <3>1. attempt[a].sawOpen BY <1>3, <2>1 DEF CheckRow, At
    <3>2. Goto(a, "verify") BY <1>3, <2>1 DEF CheckRow
    <3>3. attempt[a].phase = "row" /\ "verify" \in Phases \ {"fail"} BY <1>3 DEF CheckRow, At, Phases
    <3>4. UNCHANGED <<row, lockKey, address, unlock, imposed, locked, lost>>
        BY <1>3 DEF CheckRow
    <3>5. address' \in Address BY <3>4
    <3> QED BY <3>1, <3>2, <3>3, <3>4, <3>5, MoveKeeps
  <2>2. CASE row.lock > 0
    <3> DEFINE r == [attempt[a] EXCEPT !.phase = "refill", !.until = row.lock]
    <3>0. attempt[a] \in Attempt BY Known
    <3>1. r.phase = "refill" /\ r.todo = attempt[a].todo /\ r.until = row.lock
        BY <3>0 DEF Attempt
    <3>2. r \in Attempt BY <3>0, row.lock \in 0 .. LockTicks DEF Attempt, Phases
    <3>3. attempt' = [attempt EXCEPT ![a] = r] BY <1>3, <2>2 DEF CheckRow
    <3>4. attempt[a].todo = {} BY <1>3 DEF CheckRow, At
    <3>5. r.phase = "refill" /\ r.todo = {} /\ r.until = row.lock BY <3>1, <3>4
    <3> HIDE DEF r
    <3>6. UNCHANGED <<row, lockKey, address, unlock, imposed, locked, lost>>
        BY <1>3 DEF CheckRow
    <3>7. /\ row' \in Row /\ lockKey' \in 0 .. LockTicks /\ address' \in Address
          /\ imposed' \in 0 .. LockTicks /\ locked' \in BOOLEAN /\ lost' \in BOOLEAN
          /\ UNCHANGED unlock
        BY <3>6
    <3>8. /\ imposed =< imposed' /\ row'.lock =< imposed' /\ lockKey' =< imposed'
          /\ r.until =< imposed'
        BY <3>5, <3>6
    <3>9. row'.lock = 0 => row.lock = 0 /\ (r.phase = "idle" \/ r.sawOpen) BY <2>2, <3>6
    <3>10. row'.failedAttempts = MaxFailedAttempts /\ ~lost' =>
              \/ locked' \/ "impose" \in r.todo
              \/ /\ row.failedAttempts = MaxFailedAttempts /\ ~lost /\ ~locked
                 /\ "impose" \notin attempt[a].todo
        BY <3>4, <3>6
    <3>11. r.phase \notin PastTheLock BY <3>5 DEF PastTheLock
    <3> QED BY <3>2, <3>3, <3>5, <3>7, <3>8, <3>9, <3>10, <3>11, AttemptKeeps
  <2> QED BY <2>1, <2>2
<1>4. ASSUME Refill(a) PROVE LoginInv'
  <2>1. lockKey' \in 0 .. LockTicks /\ lockKey' =< imposed BY <1>4 DEF Refill, Redis
  <2>2. address' \in Address BY <1>4 DEF Refill
  <2> QED BY <1>4, <2>1, <2>2, LeaveKeeps DEF Refill, At
<1> QED BY <1>1, <1>2, <1>3, <1>4 DEF Check

-----------------------------------------------------------------------------
(* The right and the wrong password. *)

LEMMA VerdictKeeps ==
    ASSUME LoginInv, NEW a \in Attempts, Reject(a) \/ Accept(a) PROVE LoginInv'
<1> USE Known
<1>1. ASSUME Accept(a) PROVE LoginInv'
  <2>1. attempt[a].phase = "verify" /\ attempt[a].sawOpen
      BY <1>1 DEF Accept, At, PastTheLock
  <2>2. UNCHANGED <<row, lockKey, address, unlock, imposed, locked, lost>>
      BY <1>1 DEF Accept
  <2>3. address' \in Address BY <2>2
  <2>4. Goto(a, "clearKey") /\ "clearKey" \in Phases \ {"fail"} BY <1>1 DEF Accept, Phases
  <2> QED BY <2>1, <2>2, <2>3, <2>4, MoveKeeps
<1>2. ASSUME Reject(a) PROVE LoginInv'
  <2> DEFINE r == [attempt[a] EXCEPT !.phase = "fail", !.todo = {"count", "bump"}]
  <2>0. attempt[a] \in Attempt BY Known
  <2>1. r.phase = "fail" /\ r.todo = {"count", "bump"} /\ r.until = attempt[a].until
        /\ r.sawOpen = attempt[a].sawOpen
      BY <2>0 DEF Attempt
  <2>2. r \in Attempt BY <2>0 DEF Attempt, Phases, Tasks
  <2>3. attempt' = [attempt EXCEPT ![a] = r] BY <1>2 DEF Reject, Fail
  <2>4. attempt[a].todo = {} /\ attempt[a].sawOpen BY <1>2 DEF Reject, At, PastTheLock
  <2>5. r.phase = "fail" /\ r.until = attempt[a].until /\ r.sawOpen BY <2>1, <2>4
  <2> HIDE DEF r
  <2>6. UNCHANGED <<row, lockKey, address, unlock, imposed, locked, lost>>
      BY <1>2 DEF Reject
  <2>7. /\ row' \in Row /\ lockKey' \in 0 .. LockTicks /\ address' \in Address
        /\ imposed' \in 0 .. LockTicks /\ locked' \in BOOLEAN /\ lost' \in BOOLEAN
        /\ UNCHANGED unlock
      BY <2>6
  <2>8. /\ imposed =< imposed' /\ row'.lock =< imposed' /\ lockKey' =< imposed'
        /\ r.until =< imposed'
      BY <2>5, <2>6
  <2>9. row'.lock = 0 => row.lock = 0 /\ (r.phase = "idle" \/ r.sawOpen) BY <2>5, <2>6
  <2>10. row'.failedAttempts = MaxFailedAttempts /\ ~lost' =>
            \/ locked' \/ "impose" \in r.todo
            \/ /\ row.failedAttempts = MaxFailedAttempts /\ ~lost /\ ~locked
               /\ "impose" \notin attempt[a].todo
      BY <2>4, <2>6
  <2> QED BY <2>2, <2>3, <2>5, <2>7, <2>8, <2>9, <2>10, AttemptKeeps
<1> QED BY <1>1, <1>2

\* A failure's task is done, and perhaps followed by another; the lock may
\* have been written.
LEMMA TaskKeeps ==
    ASSUME LoginInv, NEW a \in Attempts, At(a, "fail"),
           NEW todo \in SUBSET Tasks, NEW until \in 0 .. LockTicks,
           attempt' = [attempt EXCEPT ![a] = [phase |-> "fail", todo |-> todo, until |-> until,
                                              sawOpen |-> attempt[a].sawOpen]],
           row' \in Row, lockKey' \in 0 .. LockTicks, address' \in Address,
           imposed' \in 0 .. LockTicks, locked' \in BOOLEAN, lost' \in BOOLEAN,
           UNCHANGED unlock,
           imposed =< imposed', row'.lock =< imposed', lockKey' =< imposed', until =< imposed',
           row'.lock = 0 => row.lock = 0,
           row'.failedAttempts = MaxFailedAttempts /\ ~lost' =>
               \/ locked' \/ "impose" \in todo
               \/ /\ row.failedAttempts = MaxFailedAttempts /\ ~lost /\ ~locked
                  /\ "impose" \notin attempt[a].todo
    PROVE LoginInv'
<1> DEFINE r == [phase |-> "fail", todo |-> todo, until |-> until,
                 sawOpen |-> attempt[a].sawOpen]
<1>1. attempt[a].sawOpen \in BOOLEAN BY Known DEF Attempt
<1>2. r \in Attempt BY <1>1 DEF Attempt, Phases
<1>3. r.phase = "fail" /\ r.todo = todo /\ r.until = until /\ r.sawOpen = attempt[a].sawOpen
    OBVIOUS
<1>4. attempt' = [attempt EXCEPT ![a] = r] OBVIOUS
<1> HIDE DEF r
<1>5. row'.lock = 0 => row.lock = 0 /\ (r.phase = "idle" \/ r.sawOpen)
    BY <1>3, Known DEF At
<1>6. r.phase \notin PastTheLock BY <1>3 DEF PastTheLock
<1>7. r.until =< imposed' BY <1>3
<1>8. row'.failedAttempts = MaxFailedAttempts /\ ~lost' =>
          \/ locked' \/ "impose" \in r.todo
          \/ /\ row.failedAttempts = MaxFailedAttempts /\ ~lost /\ ~locked
             /\ "impose" \notin attempt[a].todo
    BY <1>3
<1> QED BY <1>2, <1>3, <1>4, <1>5, <1>6, <1>7, <1>8, AttemptKeeps

-----------------------------------------------------------------------------
(* recordFailure. *)

LEMMA RecordKeeps ==
    ASSUME LoginInv, NEW a \in Attempts, Record(a) PROVE LoginInv'
<1>0. /\ attempt[a] \in Attempt /\ row \in Row /\ address \in Address
      /\ attempt[a].todo \subseteq Tasks /\ attempt[a].until \in 0 .. LockTicks
      /\ lockKey \in 0 .. LockTicks /\ imposed \in 0 .. LockTicks
      /\ locked \in BOOLEAN /\ lost \in BOOLEAN
      /\ row.lock \in 0 .. LockTicks /\ row.failedAttempts \in 0 .. MaxFailedAttempts
      /\ row.lock =< imposed /\ lockKey =< imposed /\ attempt[a].until =< imposed
    BY Known
<1> DEFINE todo == attempt[a].todo
           until == attempt[a].until
           Left(rest, end) == [phase |-> "fail", todo |-> rest, until |-> end,
                               sawOpen |-> attempt[a].sawOpen]
<1>1. ASSUME At(a, "fail"), NEW rest, attempt' = [attempt EXCEPT ![a].todo = rest]
      PROVE attempt' = [attempt EXCEPT ![a] = Left(rest, until)]
  <2>1. [attempt[a] EXCEPT !.todo = rest] = Left(rest, until) BY <1>0, <1>1 DEF At, Attempt
  <2> QED BY <1>1, <2>1
<1>2. ASSUME At(a, "fail"), NEW task, task # "impose", Drop(a, task),
             UNCHANGED <<row, unlock, imposed, locked, lost>>, address' \in Address,
             lockKey' \in 0 .. LockTicks, lockKey' =< imposed
      PROVE LoginInv'
  <2> DEFINE rest == todo \ {task}
  <2>1. attempt' = [attempt EXCEPT ![a] = Left(rest, until)] BY <1>1, <1>2 DEF Drop
  <2>2. /\ rest \in SUBSET Tasks
        /\ row' \in Row /\ imposed' \in 0 .. LockTicks /\ locked' \in BOOLEAN /\ lost' \in BOOLEAN
        /\ imposed =< imposed' /\ row'.lock =< imposed' /\ lockKey' =< imposed'
        /\ until =< imposed' /\ (row'.lock = 0 => row.lock = 0) /\ UNCHANGED unlock
      BY <1>0, <1>2
  <2>3. row'.failedAttempts = MaxFailedAttempts /\ ~lost' =>
            \/ locked' \/ "impose" \in rest
            \/ /\ row.failedAttempts = MaxFailedAttempts /\ ~lost /\ ~locked
               /\ "impose" \notin todo
      BY <1>2
  <2> HIDE DEF rest
  <2> QED BY <1>0, <1>2, <2>1, <2>2, <2>3, TaskKeeps
<1>3. ASSUME CountFailure(a) PROVE LoginInv'
  <2>1. At(a, "fail") /\ UNCHANGED <<lockKey, address, unlock, imposed, locked, lost>>
      BY <1>3 DEF CountFailure
  <2>2. CASE Drop(a, "count") /\ UNCHANGED row
    <3>1. address' \in Address /\ lockKey' \in 0 .. LockTicks /\ lockKey' =< imposed
        BY <1>0, <2>1
    <3> QED BY <1>2, <2>1, <2>2, <3>1
  <2>3. CASE row' = [row EXCEPT !.failedAttempts = AtMost(@ + 1, MaxFailedAttempts)]
    <3>1. row' \in Row /\ row'.lock = row.lock BY <1>0, <2>3 DEF Row, AtMost
    <3>2. PICK rest \in SUBSET Tasks :
              /\ attempt' = [attempt EXCEPT ![a].todo = rest]
              /\ \/ row'.failedAttempts = MaxFailedAttempts => "impose" \in rest
                 \/ UNCHANGED row /\ rest = todo \ {"count"}
      <4> DEFINE dropped == todo \ {"count"}
                 replaced == (todo \ {"count"}) \cup {"impose"}
      <4>1. dropped \in SUBSET Tasks /\ replaced \in SUBSET Tasks BY <1>0 DEF Tasks
      <4>2. Drop(a, "count") => attempt' = [attempt EXCEPT ![a].todo = dropped]
          BY DEF Drop
      <4>3. Replace(a, "count", "impose") => attempt' = [attempt EXCEPT ![a].todo = replaced]
          BY DEF Replace
      <4>4. CASE Replace(a, "count", "impose")
        <5>1. "impose" \in replaced OBVIOUS
        <5> HIDE DEF replaced, dropped
        <5> QED BY <4>1, <4>3, <4>4, <5>1
      <4>5. CASE Drop(a, "count") /\ row'.failedAttempts < MaxFailedAttempts
        <5>1. row'.failedAttempts # MaxFailedAttempts BY <4>5
        <5> HIDE DEF dropped
        <5> QED BY <4>1, <4>2, <4>5, <5>1
      <4>6. CASE Drop(a, "count") /\ UNCHANGED row
        <5> QED BY <4>1, <4>2, <4>6
      <4> QED BY <1>3, <4>4, <4>5, <4>6 DEF CountFailure
    <3>3. attempt' = [attempt EXCEPT ![a] = Left(rest, until)] BY <1>1, <2>1, <3>2
    <3>4. /\ lockKey' \in 0 .. LockTicks /\ address' \in Address
          /\ imposed' \in 0 .. LockTicks /\ locked' \in BOOLEAN /\ lost' \in BOOLEAN
          /\ imposed =< imposed' /\ row'.lock =< imposed' /\ lockKey' =< imposed'
          /\ until =< imposed' /\ (row'.lock = 0 => row.lock = 0) /\ UNCHANGED unlock
        BY <1>0, <2>1, <3>1
    <3> QED BY <1>0, <2>1, <3>1, <3>2, <3>3, <3>4, TaskKeeps
  <2> QED BY <1>3, <2>2, <2>3 DEF CountFailure
<1>4. ASSUME Impose(a) PROVE LoginInv'
  <2>1. At(a, "fail") /\ UNCHANGED <<lockKey, address, unlock>> BY <1>4 DEF Impose
  <2>2. lockKey' \in 0 .. LockTicks /\ address' \in Address BY <1>0, <2>1
  <2>3. CASE /\ row' = [row EXCEPT !.lock = LockTicks] /\ imposed' = LockTicks /\ locked' = TRUE
             /\ attempt' = [attempt EXCEPT ![a].until = LockTicks,
                                           ![a].todo = (@ \ {"impose"}) \cup {"setKey"}]
             /\ UNCHANGED lost
    <3> DEFINE rest == (todo \ {"impose"}) \cup {"setKey"}
    <3>1. [attempt[a] EXCEPT !.until = LockTicks, !.todo = rest] = Left(rest, LockTicks)
      <4>1. ASSUME NEW set, NEW end
            PROVE [attempt[a] EXCEPT !.until = end, !.todo = set] = Left(set, end)
        <5> DEFINE half == [attempt[a] EXCEPT !.until = end]
        <5>1. half = [phase |-> "fail", todo |-> todo, until |-> end,
                      sawOpen |-> attempt[a].sawOpen]
            BY <1>0, <2>1 DEF At, Attempt
        <5> HIDE DEF half
        <5>2. [half EXCEPT !.todo = set] = Left(set, end) BY <5>1
        <5> QED BY <5>2 DEF half
      <4> HIDE DEF rest
      <4> QED BY <4>1
    <3>2. attempt' = [attempt EXCEPT ![a] = Left(rest, LockTicks)]
      <4>1. attempt' = [attempt EXCEPT ![a] = [attempt[a] EXCEPT !.until = LockTicks, !.todo = rest]]
          BY <2>3
      <4> QED BY <3>1, <4>1
    <3>3. rest \in SUBSET Tasks BY <1>0 DEF Tasks
    <3>4. row' \in Row /\ row'.lock = LockTicks BY <1>0, <2>3 DEF Row
    <3>5. /\ LockTicks \in 0 .. LockTicks /\ imposed' \in 0 .. LockTicks
          /\ locked' \in BOOLEAN /\ lost' \in BOOLEAN
          /\ imposed =< imposed' /\ row'.lock =< imposed' /\ lockKey' =< imposed'
          /\ LockTicks =< imposed' /\ row'.lock # 0
        BY <1>0, <2>1, <2>3, <3>4
    <3> HIDE DEF rest
    <3> QED BY <1>0, <2>1, <2>2, <2>3, <3>2, <3>3, <3>4, <3>5, TaskKeeps
  <2>4. CASE Drop(a, "impose") /\ lost' = TRUE /\ UNCHANGED <<row, imposed, locked>>
    <3> DEFINE rest == todo \ {"impose"}
    <3>1. attempt' = [attempt EXCEPT ![a] = Left(rest, until)] BY <1>1, <2>1, <2>4 DEF Drop
    <3>2. /\ rest \in SUBSET Tasks
          /\ row' \in Row /\ imposed' \in 0 .. LockTicks /\ locked' \in BOOLEAN /\ lost' \in BOOLEAN
          /\ imposed =< imposed' /\ row'.lock =< imposed' /\ lockKey' =< imposed'
          /\ until =< imposed' /\ (row'.lock = 0 => row.lock = 0) /\ UNCHANGED unlock
        BY <1>0, <2>1, <2>4
    <3> HIDE DEF rest
    <3> QED BY <1>0, <2>1, <2>2, <2>4, <3>1, <3>2, TaskKeeps
  <2> QED BY <1>4, <2>3, <2>4 DEF Impose
<1>5. ASSUME SetKey(a) PROVE LoginInv'
  <2>1. lockKey' \in 0 .. LockTicks /\ lockKey' =< imposed
      BY <1>0, <1>5 DEF SetKey, Redis
  <2>2. address' \in Address /\ "setKey" # "impose" BY <1>0, <1>5 DEF SetKey
  <2> QED BY <1>2, <1>5, <2>1, <2>2 DEF SetKey
<1>7. ASSUME Bump(a) PROVE LoginInv'
  <2>1. address.count \in 0 .. MaxCount /\ address.block \in 0 .. Tiers BY <1>0 DEF Address
  <2> DEFINE count == NextCount(address.count)
  <2>2. count \in 0 .. MaxCount BY <2>1, NextCountType
  <2>3. BlockFor(count) \in 0 .. Tiers BY <2>2, BlockForType
  <2>4. [address EXCEPT !.count = count] \in Address BY <1>0, <2>2 DEF Address
  <2>5. [count |-> count, block |-> IF BlockFor(count) > 0 THEN BlockFor(count)
                                    ELSE address.block] \in Address
      BY <2>1, <2>2, <2>3 DEF Address
  <2>6. address' \in Address BY <1>0, <1>7, <2>4, <2>5 DEF Bump, Redis
  <2>7. lockKey' \in 0 .. LockTicks /\ lockKey' =< imposed /\ "bump" # "impose"
      BY <1>0, <1>7 DEF Bump
  <2> QED BY <1>2, <1>7, <2>6, <2>7 DEF Bump
<1>6. ASSUME Refuse(a) PROVE LoginInv'
  <2>1. address' \in Address /\ lockKey' \in 0 .. LockTicks /\ lockKey' =< imposed
      BY <1>0, <1>6 DEF Refuse
  <2> QED BY <1>6, <2>1, LeaveKeeps DEF Refuse
<1> QED BY <1>3, <1>4, <1>5, <1>6, <1>7 DEF Record

-----------------------------------------------------------------------------
(* The resets, arrivals, time and Redis. *)

\* The row is cleared: everyone under way sees the account open.
LEMMA OpeningKeeps ==
    ASSUME LoginInv, ClearRow, attempt' \in [Attempts -> Attempt],
           \A b \in Attempts :
               /\ attempt'[b].until = attempt[b].until /\ attempt'[b].todo = attempt[b].todo
               /\ attempt[b].phase = "fail" => attempt'[b].phase = "fail"
               /\ attempt'[b].phase = "idle" \/ attempt'[b].sawOpen,
           unlock' \in {"none", "clearKey", "resetRow", "done", "failed"},
           UNCHANGED <<lockKey, address, imposed>>
    PROVE LoginInv'
<1> USE DEF LoginInv, ClearRow
<1>0. imposed \in Nat BY DEF TypeOK
<1>1. TypeOK'
  <2>1. row' \in [failedAttempts : 0 .. MaxFailedAttempts, lock : 0 .. LockTicks] OBVIOUS
  <2>2. /\ lockKey' \in 0 .. LockTicks /\ imposed' \in 0 .. LockTicks
        /\ address' \in [count : 0 .. MaxCount, block : 0 .. Tiers]
      BY DEF TypeOK
  <2> QED BY <2>1, <2>2 DEF TypeOK
<1>2. LockHolds' BY DEF LockHolds
<1>3. LockEndsInTime' BY <1>0 DEF LockEndsInTime
<1>4. ThresholdLocks' BY DEF ThresholdLocks
<1>5. OpenIsSeen' BY DEF OpenIsSeen, At
<1>6. TasksAreOfFailures' BY DEF TasksAreOfFailures, At
<1> QED BY <1>1, <1>2, <1>3, <1>4, <1>5, <1>6

LEMMA OpenedType ==
    ASSUME LoginInv
    PROVE  /\ Opened \in [Attempts -> Attempt]
           /\ \A b \in Attempts :
                  /\ Opened[b].phase = attempt[b].phase /\ Opened[b].until = attempt[b].until
                  /\ Opened[b].todo = attempt[b].todo
                  /\ Opened[b].phase = "idle" \/ Opened[b].sawOpen
<1>1. attempt \in [Attempts -> Attempt] BY DEF LoginInv, TypeOK
<1> QED BY <1>1 DEF Opened, Attempt, At

LEMMA ResetKeeps ==
    ASSUME LoginInv, NEW a \in Attempts, Reset(a) PROVE LoginInv'
<1> USE Known
<1>1. ASSUME ClearKey(a) PROVE LoginInv'
  <2>1. lockKey' \in {0, lockKey} /\ address' \in Address
      BY <1>1 DEF ClearKey, DeleteKey, Redis
  <2>2. attempt[a].phase = "clearKey" /\ attempt[a].sawOpen
      BY <1>1 DEF ClearKey, At, PastTheLock
  <2>3. "resetRow" \in Phases \ {"fail"} BY DEF Phases
  <2> QED BY <1>1, <2>1, <2>2, <2>3, MoveKeeps DEF ClearKey
<1>2. ASSUME ResetRow(a) PROVE LoginInv'
  <2>1. attempt[a].phase = "resetRow" /\ attempt[a].sawOpen
      BY <1>2 DEF ResetRow, At, PastTheLock
  <2>2. CASE UNCHANGED <<row, locked, lost>> /\ Goto(a, "forget")
    <3>1. lockKey' \in {0, lockKey} /\ address' \in Address
          /\ UNCHANGED <<row, unlock, imposed, locked, lost>>
        BY <1>2, <2>2 DEF ResetRow
    <3>2. "forget" \in Phases \ {"fail"} BY DEF Phases
    <3> QED BY <2>1, <2>2, <3>1, <3>2, MoveKeeps
  <2>3. CASE ClearRow /\ attempt' = [Opened EXCEPT ![a].phase = "forget"]
    <3> DEFINE r == [Opened[a] EXCEPT !.phase = "forget"]
    <3>1. Opened[a] \in Attempt /\ Opened \in [Attempts -> Attempt] BY OpenedType
    <3>2. r \in Attempt /\ r.phase = "forget" /\ r.until = Opened[a].until
          /\ r.todo = Opened[a].todo /\ r.sawOpen = Opened[a].sawOpen
        BY <3>1 DEF Attempt, Phases
    <3>3. attempt' = [Opened EXCEPT ![a] = r] BY <2>3
    <3> HIDE DEF r
    <3>4. attempt' \in [Attempts -> Attempt] BY <3>1, <3>2, <3>3
    <3>5. \A b \in Attempts : attempt'[b] = IF b = a THEN r ELSE Opened[b] BY <3>1, <3>3
    <3>6. attempt[a].phase # "fail" /\ Opened[a].sawOpen BY <2>1, OpenedType
    <3>7. \A b \in Attempts :
              /\ attempt'[b].until = attempt[b].until /\ attempt'[b].todo = attempt[b].todo
              /\ attempt[b].phase = "fail" => attempt'[b].phase = "fail"
              /\ attempt'[b].phase = "idle" \/ attempt'[b].sawOpen
        BY <3>2, <3>5, <3>6, OpenedType
    <3>8. unlock' \in {"none", "clearKey", "resetRow", "done", "failed"}
          /\ UNCHANGED <<lockKey, address, imposed>>
        BY <1>2 DEF ResetRow, LoginInv, TypeOK
    <3> QED BY <2>3, <3>4, <3>7, <3>8, OpeningKeeps
  <2> QED BY <1>2, <2>2, <2>3 DEF ResetRow
<1>3. ASSUME Forget(a) PROVE LoginInv'
  <2>1. address' \in Address BY <1>3, MaxCountType DEF Forget, Redis, Address
  <2>2. lockKey' \in 0 .. LockTicks /\ lockKey' =< imposed BY <1>3 DEF Forget
  <2>3. attempt[a].phase # "fail" BY <1>3 DEF Forget, At
  <2> QED BY <1>3, <2>1, <2>2, <2>3, LeaveKeeps DEF Forget
<1> QED BY <1>1, <1>2, <1>3 DEF Reset

LEMMA ArriveKeeps ==
    ASSUME LoginInv, NEW a \in Attempts, Arrive(a) PROVE LoginInv'
<1> DEFINE r == [attempt[a] EXCEPT !.phase = "block", !.sawOpen = (row.lock = 0)]
<1>0. attempt[a] \in Attempt /\ attempt[a].phase = "idle" /\ attempt[a].todo = {}
    BY Known DEF Arrive, At
<1>1. r.phase = "block" /\ r.todo = {} /\ r.until = attempt[a].until /\ r.sawOpen = (row.lock = 0)
    BY <1>0 DEF Attempt
<1>2. r \in Attempt BY <1>0 DEF Attempt, Phases
<1>3. attempt' = [attempt EXCEPT ![a] = r] BY DEF Arrive
<1> HIDE DEF r
<1>4. UNCHANGED <<row, lockKey, address, unlock, imposed, locked, lost>> BY DEF Arrive
<1>5. /\ row' \in Row /\ lockKey' \in 0 .. LockTicks /\ address' \in Address
      /\ imposed' \in 0 .. LockTicks /\ locked' \in BOOLEAN /\ lost' \in BOOLEAN
      /\ UNCHANGED unlock
    BY <1>4, Known
<1>6. /\ imposed =< imposed' /\ row'.lock =< imposed' /\ lockKey' =< imposed'
      /\ r.until =< imposed'
    BY <1>1, <1>4, Known
<1>7. row'.lock = 0 => row.lock = 0 /\ (r.phase = "idle" \/ r.sawOpen) BY <1>1, <1>4
<1>8. r.phase \notin PastTheLock BY <1>1 DEF PastTheLock
<1>9. row'.failedAttempts = MaxFailedAttempts /\ ~lost' =>
          \/ locked' \/ "impose" \in r.todo
          \/ /\ row.failedAttempts = MaxFailedAttempts /\ ~lost /\ ~locked
             /\ "impose" \notin attempt[a].todo
    BY <1>0, <1>4
<1> QED BY <1>1, <1>2, <1>3, <1>5, <1>6, <1>7, <1>8, <1>9, AttemptKeeps

\* Only the copies in Redis, the address's count, or the unlock request.
LEMMA AsideKeeps ==
    ASSUME LoginInv, UNCHANGED <<row, attempt, imposed, locked, lost>>,
           lockKey' \in {0, lockKey}, address' \in Address,
           unlock' \in {"none", "clearKey", "resetRow", "done", "failed"}
    PROVE LoginInv'
<1> USE DEF LoginInv
<1>0. imposed \in Nat /\ lockKey \in 0 .. LockTicks BY DEF TypeOK
<1>1. TypeOK' BY <1>0 DEF TypeOK, Address
<1>2. LockHolds' BY DEF LockHolds
<1>3. LockEndsInTime' BY <1>0 DEF LockEndsInTime
<1>4. ThresholdLocks' BY DEF ThresholdLocks
<1>5. OpenIsSeen' BY DEF OpenIsSeen, At
<1>6. TasksAreOfFailures' BY DEF TasksAreOfFailures, At
<1> QED BY <1>1, <1>2, <1>3, <1>4, <1>5, <1>6

LEMMA UnlockKeeps ==
    ASSUME LoginInv, Unlock PROVE LoginInv'
<1>0. address \in Address /\ unlock \in {"none", "clearKey", "resetRow", "done", "failed"}
    BY DEF LoginInv, TypeOK, Address
<1>1. CASE BeginUnlock \/ UnlockKey \/ EndUnlock
    BY <1>0, <1>1, AsideKeeps DEF BeginUnlock, UnlockKey, EndUnlock, DeleteKey, Redis
<1>2. ASSUME UnlockRow PROVE LoginInv'
  <2>1. CASE UNCHANGED <<row, attempt, locked, lost>> /\ unlock' = "failed"
    BY <1>0, <1>2, <2>1, AsideKeeps DEF UnlockRow
  <2>2. CASE ClearRow /\ attempt' = Opened /\ unlock' = "done"
    <3>1. UNCHANGED <<lockKey, address, imposed>> BY <1>2 DEF UnlockRow
    <3> QED BY <2>2, <3>1, OpenedType, OpeningKeeps
  <2> QED BY <1>2, <2>1, <2>2 DEF UnlockRow
<1> QED BY <1>1, <1>2 DEF Unlock

LEMMA RedisKeeps ==
    ASSUME LoginInv, Lapse \/ LoseRedis PROVE LoginInv'
<1>1. address \in Address /\ unlock \in {"none", "clearKey", "resetRow", "done", "failed"}
    BY DEF LoginInv, TypeOK, Address
<1>2. address' \in Address BY <1>1, MaxCountType DEF Lapse, LoseRedis, Address
<1> QED BY <1>1, <1>2, AsideKeeps DEF Lapse, LoseRedis

LEMMA TickKeeps ==
    ASSUME LoginInv, Tick PROVE LoginInv'
<1> USE DEF LoginInv
<1>0. /\ attempt \in [Attempts -> Attempt] /\ row \in Row /\ address \in Address
      /\ row.lock \in 0 .. LockTicks /\ lockKey \in 0 .. LockTicks
      /\ imposed \in 0 .. LockTicks
    BY DEF TypeOK, Row, Address
<1>1. \A n \in 0 .. LockTicks : Earlier(n) \in 0 .. LockTicks BY DEF Earlier
<1>2. \A m, n \in 0 .. LockTicks : m =< n => Earlier(m) =< Earlier(n) BY DEF Earlier
<1>3. \A b \in Attempts :
          /\ attempt'[b] \in Attempt
          /\ attempt'[b].phase = attempt[b].phase /\ attempt'[b].todo = attempt[b].todo
          /\ attempt'[b].until = Earlier(attempt[b].until)
          /\ attempt'[b].sawOpen = (attempt[b].sawOpen \/ (row.lock =< 1 /\ ~At(b, "idle")))
  <2> SUFFICES ASSUME NEW b \in Attempts
               PROVE /\ attempt'[b] \in Attempt
                     /\ attempt'[b].phase = attempt[b].phase /\ attempt'[b].todo = attempt[b].todo
                     /\ attempt'[b].until = Earlier(attempt[b].until)
                     /\ attempt'[b].sawOpen
                            = (attempt[b].sawOpen \/ (row.lock =< 1 /\ ~At(b, "idle")))
      OBVIOUS
  <2> DEFINE saw == attempt[b].sawOpen \/ (row.lock =< 1 /\ ~At(b, "idle"))
             end == Earlier(attempt[b].until)
  <2>1. attempt[b] \in Attempt BY <1>0
  <2>2. end \in 0 .. LockTicks BY <1>1, <2>1 DEF Attempt
  <2>3. attempt'[b] = [attempt[b] EXCEPT !.until = end, !.sawOpen = saw] BY DEF Tick
  <2>4. saw \in BOOLEAN BY <2>1 DEF Attempt
  <2> HIDE DEF saw, end
  <2>5. /\ attempt'[b] \in Attempt
        /\ attempt'[b].phase = attempt[b].phase /\ attempt'[b].todo = attempt[b].todo
        /\ attempt'[b].until = end /\ attempt'[b].sawOpen = saw
      BY <2>1, <2>2, <2>3, <2>4 DEF Attempt
  <2> QED BY <2>5 DEF saw, end
<1>4. TypeOK'
  <2>1. attempt' \in [Attempts -> Attempt] BY <1>3 DEF Tick
  <2>2. row' \in Row BY <1>0, <1>1 DEF Tick, Row
  <2>3. address' \in Address
    <3>1. address.block \in 0 .. Tiers BY <1>0 DEF Address
    <3>2. Earlier(address.block) \in 0 .. Tiers BY <3>1 DEF Earlier
    <3>3. address' = [address EXCEPT !.block = Earlier(address.block)] BY DEF Tick
    <3> QED BY <1>0, <3>2, <3>3 DEF Address
  <2> QED BY <1>0, <1>1, <2>1, <2>2, <2>3 DEF Tick, TypeOK, Row, Address
<1>5. LockHolds' BY <1>3 DEF LockHolds, Tick
<1>6. LockEndsInTime'
  <2>1. row'.lock = Earlier(row.lock) BY <1>0 DEF Tick, Row
  <2>2. \A b \in Attempts : attempt[b].until \in 0 .. LockTicks BY <1>0 DEF Attempt
  <2> QED BY <1>0, <1>2, <1>3, <2>1, <2>2 DEF LockEndsInTime, Tick
<1>7. ThresholdLocks'
  <2>1. row'.failedAttempts = row.failedAttempts BY <1>0 DEF Tick, Row
  <2> QED BY <1>3, <2>1 DEF ThresholdLocks, Tick
<1>8. OpenIsSeen'
  <2>1. row'.lock = Earlier(row.lock) BY <1>0 DEF Tick, Row
  <2>2. row'.lock = 0 => row.lock =< 1 BY <1>0, <2>1 DEF Earlier
  <2> QED BY <1>3, <2>2 DEF OpenIsSeen, At
<1>9. TasksAreOfFailures' BY <1>3 DEF TasksAreOfFailures, At
<1> QED BY <1>4, <1>5, <1>6, <1>7, <1>8, <1>9

-----------------------------------------------------------------------------
(* The invariant and the theorems. *)

LEMMA LoginInit == Init => LoginInv
<1> SUFFICES ASSUME Init PROVE LoginInv OBVIOUS
<1> USE DEF Init
<1>1. \A a \in Attempts : attempt[a] = Idle OBVIOUS
<1>2. Idle.phase = "idle" /\ Idle.todo = {} /\ Idle.until = 0 BY DEF Idle
<1>3. TypeOK
  <2>1. /\ row \in [failedAttempts : 0 .. MaxFailedAttempts, lock : 0 .. LockTicks]
        /\ lockKey \in 0 .. LockTicks /\ imposed \in 0 .. LockTicks
      OBVIOUS
  <2>2. address \in [count : 0 .. MaxCount, block : 0 .. Tiers] BY MaxCountType
  <2>3. attempt \in [Attempts -> Attempt] BY IdleType
  <2> QED BY <2>1, <2>2, <2>3 DEF TypeOK
<1>4. LockHolds BY <1>1, <1>2 DEF LockHolds
<1>5. LockEndsInTime BY <1>1, <1>2 DEF LockEndsInTime
<1>6. ThresholdLocks BY DEF ThresholdLocks
<1>7. OpenIsSeen BY <1>1, <1>2 DEF OpenIsSeen, At
<1>8. TasksAreOfFailures BY <1>1, <1>2 DEF TasksAreOfFailures, At
<1> QED BY <1>3, <1>4, <1>5, <1>6, <1>7, <1>8 DEF LoginInv

LEMMA LoginStep == LoginInv /\ [Next]_vars => LoginInv'
<1> SUFFICES ASSUME LoginInv, [Next]_vars PROVE LoginInv' OBVIOUS
<1>1. ASSUME NEW a \in Attempts, Arrive(a) PROVE LoginInv' BY <1>1, ArriveKeeps
<1>2. ASSUME NEW a \in Attempts, Work(a) PROVE LoginInv'
  <2>1. CASE Check(a) BY <2>1, CheckKeeps
  <2>2. CASE Reject(a) \/ Accept(a) BY <2>2, VerdictKeeps
  <2>3. CASE Record(a) BY <2>3, RecordKeeps
  <2>4. CASE Reset(a) BY <2>4, ResetKeeps
  <2> QED BY <1>2, <2>1, <2>2, <2>3, <2>4 DEF Work
<1>3. CASE Unlock BY <1>3, UnlockKeeps
<1>4. CASE Tick BY <1>4, TickKeeps
<1>5. CASE Lapse \/ LoseRedis BY <1>5, RedisKeeps
<1>6. CASE UNCHANGED vars
  <2>1. /\ UNCHANGED <<row, attempt, imposed, locked, lost>> /\ lockKey' \in {0, lockKey}
        /\ address' = address /\ unlock' = unlock
      BY <1>6 DEF vars
  <2> QED BY <2>1, AsideKeeps DEF LoginInv, TypeOK, Address
<1> QED BY <1>1, <1>2, <1>3, <1>4, <1>5, <1>6 DEF Next

\* The inductive invariant: the types, the three properties, and what they
\* rest on.
THEOREM LoginInvariant == Spec => []LoginInv
BY LoginInit, LoginStep, PTL DEF Spec

\* Every variable of the sign-in model keeps to its domain; in particular no
\* copy of a lock ever asks for more than LOCKOUT_SECONDS.
THEOREM LoginTypes == Spec => []TypeOK
<1>1. LoginInv => TypeOK BY DEF LoginInv
<1> QED BY <1>1, LoginInvariant, PTL

\* checkLockout lets nobody past a lock that Postgres held all along, however
\* Redis fails, restarts or disagrees.
THEOREM LockStands == Spec => []LockHolds
<1>1. LoginInv => LockHolds BY DEF LoginInv
<1> QED BY <1>1, LoginInvariant, PTL

\* What checkLockout and recordFailedAttempt write to Redis ends no later than
\* the last lock would have, had nobody lifted it.
THEOREM LocksEndInTime == Spec => []LockEndsInTime
<1>1. LoginInv => LockEndsInTime BY DEF LoginInv
<1> QED BY <1>1, LoginInvariant, PTL

\* recordFailedAttempt locks the account when the counter reaches the
\* threshold, whichever resets run beside it.
THEOREM ThresholdAlwaysLocks == Spec => []ThresholdLocks
<1>1. LoginInv => ThresholdLocks BY DEF LoginInv
<1> QED BY <1>1, LoginInvariant, PTL
=============================================================================
