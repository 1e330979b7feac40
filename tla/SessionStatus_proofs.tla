------------------------ MODULE SessionStatus_proofs ------------------------
(***************************************************************************)
(* Proofs about SessionStatus, for every set of sessions and roles, every  *)
(* TTL, lag and bound: the session layer is type correct, a stale copy of  *)
(* an account is never older than the slack, a fresh one is the row, and   *)
(* the cached layer implements SessionPromise.                             *)
(***************************************************************************)
EXTENDS SessionStatus, TLAPS

\* The three are inductive together: the ages bound each other, and the value
\* of a fresh copy matters to the refinement only.
SessionInv == TypeOK /\ StaleCopiesAreYoung /\ FreshCopiesAreExact

USE BoundsAreNat, TimesAreNat, CountsAreNat, FirstRoleIsRole

\* The empty slot is a row of the right type, and time keeps rows such.
LEMMA BlankType == Blank \in Status
BY DEF Blank, Status

LEMMA ElapseType == ASSUME NEW status \in Status PROVE Elapse(status) \in Status
<1>1. status.lock \in 0 .. MaxLock BY DEF Status
<1>2. (IF status.lock > 0 THEN status.lock - 1 ELSE 0) \in 0 .. MaxLock BY <1>1
<1> QED BY <1>2 DEF Elapse, Status

\* Every judgement is a verdict, and a judged request has one.
LEMMA JudgeType == ASSUME NEW status \in Status, NEW issued
                   PROVE Judge(status, issued) \in Verdicts \ {"none"}
BY RolesAreNoRefusal DEF Judge, Verdicts, Status

LEMMA InPhaseType == ASSUME NEW phase \in Phases, NEW age \in 0 .. MaxLag
                     PROVE InPhase(phase, age) \in Request
BY BlankType DEF InPhase, Request

LEMMA NoCopyType == NoCopy \in Copy
BY BlankType DEF NoCopy, Copy

-----------------------------------------------------------------------------
LEMMA InitSession == Init => SessionInv
<1> SUFFICES ASSUME Init PROVE SessionInv OBVIOUS
<1>1. account \in Status
  <2>1. account = [exists |-> TRUE, isActive |-> TRUE, lock |-> 0, password |-> 0,
                   role |-> FirstRole]
      BY DEF Init, Blank
  <2> QED BY <2>1 DEF Status
<1>2. InPhase("idle", 0) \in Request BY InPhaseType DEF Phases
<1>3. TypeOK BY <1>1, <1>2, NoCopyType DEF Init, TypeOK, Verdicts, Slack
<1>4. StaleCopiesAreYoung BY DEF Init, StaleCopiesAreYoung, NoCopy, InPhase, At
<1>5. FreshCopiesAreExact BY DEF Init, FreshCopiesAreExact, NoCopy, InPhase
<1> QED BY <1>3, <1>4, <1>5 DEF SessionInv

\* A commit makes every copy stale at age zero.
LEMMA CommitKeeps == ASSUME SessionInv, NEW row \in Status, Commit(row), deletes' \in 0 .. MaxDeletes
                     PROVE SessionInv'
<1> USE DEF SessionInv
<1>1. cache' \in Copy /\ cache'.ttl = cache.ttl /\ ~cache'.fresh
    BY DEF TypeOK, Commit, Copy
<1>2. request' \in [Sessions -> Request] /\ \A s \in Sessions : ~request'[s].fresh
    BY DEF TypeOK, Commit, Request
<1>3. TypeOK' BY <1>1, <1>2 DEF TypeOK, Commit, Slack
<1>4. StaleCopiesAreYoung'
    BY <1>1, <1>3 DEF Commit, StaleCopiesAreYoung, At, TypeOK, Copy, Request, Slack
<1>5. FreshCopiesAreExact' BY <1>1, <1>2 DEF FreshCopiesAreExact
<1> QED BY <1>3, <1>4, <1>5

LEMMA WriteKeeps == SessionInv /\ Write => SessionInv'
<1> SUFFICES ASSUME SessionInv, Write PROVE SessionInv' OBVIOUS
<1> USE DEF SessionInv, TypeOK, ThenDelete
<1>1. ASSUME NEW value \in BOOLEAN, SetActive(value) PROVE SessionInv'
  <2>1. [account EXCEPT !.isActive = value] \in Status BY DEF Status
  <2>2. deletes' \in 0 .. MaxDeletes BY <1>1 DEF SetActive
  <2> QED BY <1>1, <2>1, <2>2, CommitKeeps DEF SetActive
<1>2. ASSUME NEW role \in Roles, SetRole(role) PROVE SessionInv'
  <2>1. [account EXCEPT !.role = role] \in Status BY DEF Status
  <2>2. deletes' \in 0 .. MaxDeletes BY <1>2 DEF SetRole
  <2> QED BY <1>2, <2>1, <2>2, CommitKeeps DEF SetRole
<1>3. ASSUME NEW ticks \in 1 .. MaxLock, LockAccount(ticks) PROVE SessionInv'
  <2>1. [account EXCEPT !.lock = ticks] \in Status BY DEF Status
  <2>2. deletes' \in 0 .. MaxDeletes BY <1>3 DEF LockAccount
  <2> QED BY <1>3, <2>1, <2>2, CommitKeeps DEF LockAccount
<1>4. ASSUME UnlockAccount PROVE SessionInv'
  <2>1. [account EXCEPT !.lock = 0] \in Status BY DEF Status
  <2>2. deletes' \in 0 .. MaxDeletes BY <1>4 DEF UnlockAccount
  <2> QED BY <1>4, <2>1, <2>2, CommitKeeps DEF UnlockAccount
<1>5. ASSUME ResetPassword PROVE SessionInv'
  <2>1. account.password + 1 \in 0 .. MaxPasswords BY <1>5 DEF ResetPassword, Status
  <2>2. [account EXCEPT !.password = @ + 1, !.lock = 0] \in Status
    <3> DEFINE changed == [account EXCEPT !.password = account.password + 1]
    <3>1. changed \in Status BY <2>1 DEF Status
    <3>2. [account EXCEPT !.password = @ + 1, !.lock = 0] = [changed EXCEPT !.lock = 0]
        OBVIOUS
    <3> HIDE DEF changed
    <3> QED BY <3>1, <3>2 DEF Status
  <2>3. deletes' \in 0 .. MaxDeletes BY <1>5 DEF ResetPassword
  <2> QED BY <1>5, <2>2, <2>3, CommitKeeps DEF ResetPassword
<1>6. ASSUME DeleteAccount PROVE SessionInv'
  <2>1. deletes' \in 0 .. MaxDeletes BY <1>6 DEF DeleteAccount
  <2> QED BY <1>6, <2>1, BlankType, CommitKeeps DEF DeleteAccount
<1>7. ASSUME EditDirectly PROVE SessionInv'
  <2>1. [account EXCEPT !.isActive = FALSE] \in Status BY DEF Status
  <2>2. deletes' \in 0 .. MaxDeletes BY <1>7 DEF EditDirectly
  <2> QED BY <1>7, <2>1, <2>2, CommitKeeps DEF EditDirectly
<1> QED BY <1>1, <1>2, <1>3, <1>4, <1>5, <1>6, <1>7 DEF Write

\* What a step of one session's own request has to show: the other sessions'
\* requests are as they were.
LEMMA RequestKeeps ==
    ASSUME SessionInv, NEW s \in Sessions, NEW r \in Request,
           request' = [request EXCEPT ![s] = r],
           UNCHANGED <<account, deletes, sinceChange, changes>>,
           token' \in [Sessions -> {NoToken} \cup 0 .. MaxPasswords],
           verdict' \in [Sessions -> Verdicts],
           cache' \in Copy,
           cache'.ttl > 0 /\ ~cache'.fresh => sinceChange + cache'.ttl =< TTL + MaxLag,
           cache'.ttl > 0 /\ cache'.fresh => cache'.status = account,
           r.phase = "fill" /\ ~r.fresh => sinceChange =< r.age,
           r.phase = "judge" /\ ~r.fresh => sinceChange =< TTL + MaxLag + r.age,
           r.phase \in {"fill", "judge"} /\ r.fresh => r.status = account
    PROVE SessionInv'
<1> USE DEF SessionInv
<1>1. TypeOK' BY DEF TypeOK, Slack
<1>2. \A x \in Sessions : request'[x] = IF x = s THEN r ELSE request[x]
    BY DEF TypeOK
<1>3. StaleCopiesAreYoung' BY <1>2 DEF StaleCopiesAreYoung, At
<1>4. FreshCopiesAreExact' BY <1>2 DEF FreshCopiesAreExact
<1> QED BY <1>1, <1>3, <1>4

LEMMA SessionStepKeeps ==
    ASSUME SessionInv, NEW s \in Sessions,
           Authorize(s) \/ IssueToken(s) \/ Arrive(s) \/ Serve(s)
    PROVE SessionInv'
<1> USE DEF SessionInv, At
<1>0. /\ request[s] \in Request /\ request \in [Sessions -> Request] /\ cache \in Copy
      /\ account \in Status /\ sinceChange \in Nat
      /\ token \in [Sessions -> {NoToken} \cup 0 .. MaxPasswords]
      /\ verdict \in [Sessions -> Verdicts]
    BY DEF TypeOK, Slack
<1>a. /\ cache.ttl > 0 /\ ~cache.fresh => sinceChange + cache.ttl =< TTL + MaxLag
      /\ cache.ttl > 0 /\ cache.fresh => cache.status = account
    BY DEF StaleCopiesAreYoung, FreshCopiesAreExact
<1>b. ASSUME NEW phase \in Phases \ {"fill", "judge"},
             request' = [request EXCEPT ![s] = InPhase(phase, 0)],
             UNCHANGED <<account, cache, deletes, sinceChange, changes>>,
             token' \in [Sessions -> {NoToken} \cup 0 .. MaxPasswords],
             verdict' \in [Sessions -> Verdicts]
      PROVE SessionInv'
  <2> DEFINE r == InPhase(phase, 0)
  <2>1. r \in Request BY InPhaseType DEF Phases
  <2>2. r.phase \notin {"fill", "judge"} BY <1>b DEF InPhase
  <2> HIDE DEF r
  <2>3. request' = [request EXCEPT ![s] = r] BY <1>b DEF r
  <2> QED BY <2>1, <2>2, <2>3, <1>0, <1>a, <1>b, RequestKeeps
<1>1. CASE Authorize(s) BY <1>1, <1>0, <1>b DEF Authorize, Phases
<1>2. CASE IssueToken(s)
  <2>1. account.password \in 0 .. MaxPasswords BY <1>0 DEF Status
  <2>2. token' \in [Sessions -> {NoToken} \cup 0 .. MaxPasswords]
      BY <2>1, <1>0, <1>2 DEF IssueToken
  <2> QED BY <1>2, <2>2, <1>0, <1>b DEF IssueToken, Phases
<1>3. CASE Arrive(s) BY <1>3, <1>0, <1>b DEF Arrive, Phases
<1>4. CASE Hit(s)
  <2> DEFINE r == [request[s] EXCEPT !.phase = "judge", !.status = cache.status,
                                     !.fresh = cache.fresh]
  <2>1. r \in Request
    <3>1. "judge" \in Phases /\ cache.status \in Status /\ cache.fresh \in BOOLEAN
        BY <1>0 DEF Phases, Copy
    <3> QED BY <3>1, <1>0 DEF Request
  <2>2. r.phase = "judge" /\ r.fresh = cache.fresh /\ r.status = cache.status /\ r.age \in Nat
      BY <1>0 DEF Request
  <2>3. request' = [request EXCEPT ![s] = r] BY <1>4, <1>0 DEF Hit, Request
  <2>4. cache.ttl > 0 /\ cache.ttl \in Nat BY <1>4, <1>0 DEF Hit, Copy
  <2> HIDE DEF r
  <2>5. UNCHANGED <<account, cache, token, deletes, verdict, sinceChange, changes>>
      BY <1>4 DEF Hit
  <2>6. ~r.fresh => sinceChange =< TTL + MaxLag + r.age
      BY <2>2, <2>4, <1>0, <1>a
  <2>7. r.fresh => r.status = account BY <2>2, <2>4, <1>a
  <2> QED BY <2>1, <2>2, <2>3, <2>5, <2>6, <2>7, <1>0, <1>a, RequestKeeps
<1>5. CASE ReadRow(s)
  <2> DEFINE r == [request[s] EXCEPT !.phase = IF account.exists THEN "fill" ELSE "judge",
                                     !.status = account, !.fresh = TRUE]
  <2>1. r \in Request
    <3>1. (IF account.exists THEN "fill" ELSE "judge") \in Phases BY DEF Phases
    <3> QED BY <3>1, <1>0 DEF Request
  <2>2. r.fresh /\ r.status = account BY <1>0 DEF Request
  <2>3. request' = [request EXCEPT ![s] = r] BY <1>5, <1>0 DEF ReadRow, Request
  <2> HIDE DEF r
  <2> QED BY <2>1, <2>2, <2>3, <1>0, <1>a, <1>5, RequestKeeps DEF ReadRow
<1>6. CASE Fill(s)
  <2> DEFINE r == [request[s] EXCEPT !.phase = "judge"]
  <2>0. /\ ~request[s].fresh => sinceChange =< request[s].age
        /\ request[s].fresh => request[s].status = account
        /\ request[s].age \in 0 .. MaxLag
      BY <1>6, <1>0 DEF Fill, StaleCopiesAreYoung, FreshCopiesAreExact, Request
  <2>1. r \in Request BY <1>0 DEF Request, Phases
  <2>2. r.phase = "judge" /\ r.fresh = request[s].fresh /\ r.status = request[s].status
        /\ r.age = request[s].age
      BY <1>0 DEF Request
  <2>3. request' = [request EXCEPT ![s] = r] BY <1>6, <1>0 DEF Fill, Request
  <2>4. /\ cache' \in Copy
        /\ cache'.ttl > 0 /\ ~cache'.fresh => sinceChange + cache'.ttl =< TTL + MaxLag
        /\ cache'.ttl > 0 /\ cache'.fresh => cache'.status = account
    <3>1. CASE cache' = cache BY <3>1, <1>0, <1>a
    <3>2. CASE cache' = [status |-> request[s].status, ttl |-> TTL, fresh |-> request[s].fresh]
        BY <3>2, <2>0, <1>0 DEF Copy, Request
    <3> QED BY <3>1, <3>2, <1>6 DEF Fill
  <2> HIDE DEF r
  <2>5. UNCHANGED <<account, token, deletes, verdict, sinceChange, changes>>
      BY <1>6 DEF Fill
  <2>6. ~r.fresh => sinceChange =< TTL + MaxLag + r.age
      BY <2>0, <2>2, <1>0
  <2>7. r.fresh => r.status = account BY <2>0, <2>2
  <2> QED BY <2>1, <2>2, <2>3, <2>4, <2>5, <2>6, <2>7, <1>0, RequestKeeps
<1>7. CASE Decide(s)
  <2>1. Judge(request[s].status, token[s]) \in Verdicts BY <1>0, JudgeType DEF Request
  <2>2. verdict' \in [Sessions -> Verdicts] BY <2>1, <1>0, <1>7 DEF Decide
  <2> QED BY <1>7, <2>2, <1>0, <1>b DEF Decide, Phases
<1>8. CASE Deliver(s)
  <2>1. verdict' \in [Sessions -> Verdicts] BY <1>0, <1>8 DEF Deliver, Verdicts
  <2> QED BY <1>8, <2>1, <1>0, <1>b DEF Deliver, Phases
<1> QED BY <1>1, <1>2, <1>3, <1>4, <1>5, <1>6, <1>7, <1>8 DEF Serve

\* Time ages a copy and the change it missed by the same tick.
LEMMA TickKeeps == SessionInv /\ Tick => SessionInv'
<1> SUFFICES ASSUME SessionInv, Tick PROVE SessionInv' OBVIOUS
<1> USE DEF SessionInv
<1>0. /\ account \in Status /\ cache \in Copy /\ request \in [Sessions -> Request]
      /\ sinceChange \in 0 .. Slack + 1 /\ Slack \in Nat /\ TTL + MaxLag < Slack + 1
    BY DEF TypeOK, Slack
<1>1. /\ sinceChange' \in 0 .. Slack + 1
      /\ sinceChange' =< sinceChange + 1
    BY <1>0 DEF Tick
<1>2. /\ cache' \in Copy
      /\ cache'.ttl > 0 => /\ cache.ttl = cache'.ttl + 1
                           /\ cache'.fresh = cache.fresh
                           /\ cache'.status = Elapse(cache.status)
  <2>1. CASE cache.ttl =< 1 BY <2>1, NoCopyType DEF Tick, NoCopy
  <2>2. CASE cache.ttl > 1
    <3>1. Elapse(cache.status) \in Status BY <1>0, ElapseType DEF Copy
    <3>2. cache.ttl - 1 \in 0 .. TTL BY <2>2, <1>0 DEF Copy
    <3>3. cache.fresh \in BOOLEAN BY <1>0 DEF Copy
    <3>4. cache' = [status |-> Elapse(cache.status), ttl |-> cache.ttl - 1, fresh |-> cache.fresh]
        BY <2>2, <1>0 DEF Tick, Copy
    <3> QED BY <3>1, <3>2, <3>3, <3>4, <1>0 DEF Copy
  <2>3. cache.ttl \in Nat BY <1>0 DEF Copy
  <2> QED BY <2>1, <2>2, <2>3
<1>3. \A s \in Sessions :
        /\ request'[s] \in Request
        /\ request'[s].phase = request[s].phase
        /\ request'[s].fresh = request[s].fresh
        /\ request'[s].status = Elapse(request[s].status)
        /\ Busy(s) => request'[s].age = request[s].age + 1 /\ request[s].age \in Nat
  <2> SUFFICES ASSUME NEW s \in Sessions
               PROVE /\ request'[s] \in Request
                     /\ request'[s].phase = request[s].phase
                     /\ request'[s].fresh = request[s].fresh
                     /\ request'[s].status = Elapse(request[s].status)
                     /\ Busy(s) => request'[s].age = request[s].age + 1 /\ request[s].age \in Nat
      OBVIOUS
  <2> DEFINE age == IF Busy(s) THEN request[s].age + 1 ELSE request[s].age
  <2>1. request[s] \in Request BY <1>0
  <2>2. age \in 0 .. MaxLag BY <2>1 DEF Tick, Request
  <2>3. Elapse(request[s].status) \in Status BY <2>1, ElapseType DEF Request
  <2>4. request'[s] = [phase |-> request[s].phase, age |-> age,
                       status |-> Elapse(request[s].status), fresh |-> request[s].fresh]
      BY DEF Tick
  <2>5. request'[s] \in Request BY <2>1, <2>2, <2>3, <2>4 DEF Request
  <2> QED BY <2>1, <2>4, <2>5 DEF Request
<1>4. TypeOK'
  <2>1. request' \in [Sessions -> Request] BY <1>3 DEF Tick
  <2>2. account' \in Status BY <1>0, ElapseType DEF Tick
  <2> QED BY <1>1, <1>2, <2>1, <2>2 DEF TypeOK, Tick, Slack
<1>5. StaleCopiesAreYoung'
  <2>1. cache'.ttl > 0 /\ ~cache'.fresh => sinceChange' + cache'.ttl =< TTL + MaxLag
    <3>1. cache'.ttl \in Nat /\ cache.ttl \in Nat BY <1>2, <1>0 DEF Copy
    <3> QED BY <1>0, <1>1, <1>2, <3>1 DEF StaleCopiesAreYoung
  <2>2. ASSUME NEW s \in Sessions
        PROVE /\ At(s, "fill")' /\ ~request'[s].fresh => sinceChange' =< request'[s].age
              /\ At(s, "judge")' /\ ~request'[s].fresh =>
                    sinceChange' =< TTL + MaxLag + request'[s].age
      BY <1>0, <1>1, <1>3 DEF StaleCopiesAreYoung, At, Busy
  <2> QED BY <2>1, <2>2 DEF StaleCopiesAreYoung, At
<1>6. FreshCopiesAreExact'
  <2>1. account' = Elapse(account) BY DEF Tick
  <2>2. cache'.ttl > 0 /\ cache'.fresh => cache'.status = account'
    <3>1. cache'.ttl \in Nat BY <1>2 DEF Copy
    <3> SUFFICES ASSUME cache'.ttl > 0, cache'.fresh PROVE cache'.status = account'
        OBVIOUS
    <3>2. cache.ttl > 0 /\ cache.fresh
      <4>1. cache.ttl = cache'.ttl + 1 /\ cache'.fresh = cache.fresh BY <1>2
      <4>2. cache.ttl > 0 BY <3>1, <4>1
      <4>3. cache.fresh BY <4>1, Zenon
      <4> QED BY <4>2, <4>3
    <3>3. cache.status = account BY <3>2 DEF FreshCopiesAreExact
    <3> QED BY <1>2, <2>1, <3>3
  <2> QED BY <1>3, <2>1, <2>2 DEF FreshCopiesAreExact
<1> QED BY <1>4, <1>5, <1>6

LEMMA CacheLossKeeps == SessionInv /\ (Invalidate \/ LoseCache) => SessionInv'
<1> SUFFICES ASSUME SessionInv, Invalidate \/ LoseCache PROVE SessionInv' OBVIOUS
<1> USE DEF SessionInv
<1>1. cache' = cache \/ cache' = NoCopy BY DEF Invalidate, LoseCache
<1>2. /\ UNCHANGED <<account, request, token, verdict, sinceChange, changes>>
      /\ deletes' \in 0 .. MaxDeletes
    BY DEF Invalidate, LoseCache, TypeOK
<1>3. TypeOK' BY <1>1, <1>2, NoCopyType DEF TypeOK, Slack
<1>4. StaleCopiesAreYoung' BY <1>1, <1>2 DEF StaleCopiesAreYoung, At, NoCopy
<1>5. FreshCopiesAreExact' BY <1>1, <1>2 DEF FreshCopiesAreExact, NoCopy
<1> QED BY <1>3, <1>4, <1>5

LEMMA NextKeeps == SessionInv /\ [Next]_vars => SessionInv'
<1> SUFFICES ASSUME SessionInv, [Next]_vars PROVE SessionInv' OBVIOUS
<1>1. CASE UNCHANGED vars
  <2> USE <1>1 DEF vars, SessionInv
  <2>1. TypeOK' BY DEF TypeOK, Slack
  <2>2. StaleCopiesAreYoung' BY DEF StaleCopiesAreYoung, At
  <2>3. FreshCopiesAreExact' BY DEF FreshCopiesAreExact
  <2> QED BY <2>1, <2>2, <2>3
<1> QED BY <1>1, WriteKeeps, SessionStepKeeps, TickKeeps, CacheLossKeeps DEF Next

THEOREM SessionInvariant == Spec => []SessionInv
BY InitSession, NextKeeps, PTL DEF Spec

\* The types of every reachable state.
THEOREM SessionTypes == Spec => []TypeOK
<1>1. SessionInv => TypeOK BY DEF SessionInv
<1> QED BY <1>1, SessionInvariant, PTL

\* No request is judged, and no copy handed out, by a row that was replaced
\* longer than the slack ago, although a fill may overtake an invalidation.
THEOREM StaleCopiesStayYoung == Spec => []StaleCopiesAreYoung
<1>1. SessionInv => StaleCopiesAreYoung BY DEF SessionInv
<1> QED BY <1>1, SessionInvariant, PTL

\* A copy read since the last change is the row itself.
THEOREM FreshCopiesStayExact == Spec => []FreshCopiesAreExact
<1>1. SessionInv => FreshCopiesAreExact BY DEF SessionInv
<1> QED BY <1>1, SessionInvariant, PTL

-----------------------------------------------------------------------------
(* The cached layer implements SessionPromise. *)

LEMMA InitRefines == Init => Promise!Init
<1> SUFFICES ASSUME Init PROVE Promise!Init OBVIOUS
<1>1. SessionInv BY InitSession
<1>2. account \in Promise!Status BY <1>1 DEF SessionInv, TypeOK, Status, Promise!Status
<1>3. account.exists /\ account.isActive /\ account.lock = 0 BY DEF Init, Blank
<1> QED BY <1>2, <1>3 DEF Init, Promise!Init

\* Every step of the cached layer is one of the promise, or leaves it alone.
LEMMA StepRefines == SessionInv /\ SessionInv' /\ [Next]_vars => [Promise!Next]_(Promise!promiseVars)
<1> SUFFICES ASSUME SessionInv, SessionInv', [Next]_vars
             PROVE Promise!Next \/ UNCHANGED Promise!promiseVars
    OBVIOUS
<1>1. CASE Write
  <2>1. account' \in Status BY DEF SessionInv, TypeOK
  <2>2. sinceChange' = 0 /\ UNCHANGED <<token, verdict>>
      BY <1>1 DEF Write, SetActive, SetRole, LockAccount, UnlockAccount, ResetPassword,
                  DeleteAccount, EditDirectly, Commit
  <2>3. Promise!Change BY <2>1, <2>2 DEF Promise!Change, Status, Promise!Status
  <2> QED BY <2>3 DEF Promise!Next
<1>2. CASE Invalidate \/ LoseCache
    BY <1>2 DEF Invalidate, LoseCache, Promise!promiseVars
<1>3. CASE Tick
  <2>1. Promise!Tick BY <1>3 DEF Tick, Promise!Tick, Elapse, Promise!Elapse, Slack
  <2> QED BY <2>1 DEF Promise!Next
<1>4. ASSUME NEW s \in Sessions, Authorize(s) \/ IssueToken(s) \/ Arrive(s) \/ Serve(s)
      PROVE Promise!Next \/ UNCHANGED Promise!promiseVars
  <2>1. CASE Authorize(s) \/ Arrive(s) \/ Hit(s) \/ ReadRow(s) \/ Fill(s)
      BY <2>1 DEF Authorize, Arrive, Hit, ReadRow, Fill, Promise!promiseVars
  <2>2. CASE IssueToken(s)
    <3>1. Promise!SignIn(s) BY <2>2 DEF IssueToken, Promise!SignIn
    <3> QED BY <3>1 DEF Promise!Next
  <2>3. CASE Decide(s)
    <3> DEFINE v == Judge(request[s].status, token[s])
    <3>1. request[s] \in Request /\ verdict \in [Sessions -> Verdicts]
        BY DEF SessionInv, TypeOK
    <3>2. v \in Verdicts \ {"none"} BY <3>1, JudgeType DEF Request
    <3>3. verdict' = [verdict EXCEPT ![s] = v] BY <2>3 DEF Decide
    <3>4. sinceChange > Slack => v = Judge(account, token[s])
      <4>1. request[s].age \in 0 .. MaxLag /\ sinceChange \in Nat
          BY <3>1 DEF Request, SessionInv, TypeOK, Slack
      <4>2. At(s, "judge") BY <2>3 DEF Decide
      <4>3. ~request[s].fresh => sinceChange =< TTL + MaxLag + request[s].age
          BY <4>2 DEF SessionInv, StaleCopiesAreYoung
      <4>4. request[s].fresh => request[s].status = account
          BY <4>2 DEF SessionInv, FreshCopiesAreExact, At
      <4> QED BY <4>1, <4>3, <4>4 DEF Slack
    <3>5. Judge(account, token[s]) = Promise!Judge(account, token[s])
        BY DEF Judge, Promise!Judge
    <3> HIDE DEF v
    <3>6. Promise!Answer(s)
        BY <2>3, <3>1, <3>2, <3>3, <3>4, <3>5
           DEF Decide, Promise!Answer, Verdicts, Promise!Verdicts
    <3> QED BY <3>6 DEF Promise!Next
  <2>4. CASE Deliver(s)
    <3>1. Promise!Deliver(s) BY <2>4 DEF Deliver, Promise!Deliver
    <3> QED BY <3>1 DEF Promise!Next
  <2> QED BY <1>4, <2>1, <2>2, <2>3, <2>4 DEF Serve
<1>5. CASE UNCHANGED vars BY <1>5 DEF vars, Promise!promiseVars
<1> QED BY <1>1, <1>2, <1>3, <1>4, <1>5 DEF Next

\* A session is judged as if there were no cache, once its account has been
\* left alone for longer than the slack.
THEOREM SessionsKeepPromise == Spec => PromiseKept
<1> QED BY SessionInvariant, InitRefines, StepRefines, PTL
       DEF Spec, PromiseKept, Promise!Spec
=============================================================================
