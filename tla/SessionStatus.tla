---------------------------- MODULE SessionStatus ----------------------------
(***************************************************************************)
(* How a session is re-validated on every request: lib/auth.ts reads the   *)
(* account through the Redis cache of lib/userStatusCache.ts.  One account,*)
(* several sessions of it; every cache key belongs to one account, so      *)
(* accounts do not affect each other.  The writers of the row commit to    *)
(* Postgres first and delete the cached copy afterwards; between the two,  *)
(* and between a request's read of the row and its write to Redis, the     *)
(* other actors may take any number of steps.                              *)
(*                                                                         *)
(* Time is a Tick.  A request that runs for MaxLag ticks gets its answer   *)
(* before the next Tick: commandTimeout and the driver's timeouts bound    *)
(* every call it waits for.                                                *)
(***************************************************************************)
EXTENDS AccountStatus

CONSTANTS
    Sessions,       \* signed-in browsers of the account
    NoToken,        \* a browser without a session cookie
    TTL,            \* life of a cached copy, in ticks
    MaxLag,         \* bound: ticks one request can take
    MaxDeletes,     \* bound: writers between their commit and their cache delete
    MaxChanges      \* bound: changes of the row in a behaviour

ASSUME TimesAreNat == TTL \in Nat \ {0} /\ MaxLag \in Nat
ASSUME CountsAreNat == MaxDeletes \in Nat /\ MaxChanges \in Nat
ASSUME NoTokenIsNoEpoch == NoToken \notin Int

VARIABLES
    account,        \* the User row in Postgres
    cache,          \* the copy in Redis: its status, the ticks it has left
    request,        \* request[s]: how far the session's current request got
    token,          \* token[s]: the session's JWT
    deletes,        \* writers that have committed and not yet called redis.del
    verdict,        \* verdict[s]: the answer to the current request
    sinceChange,    \* history: ticks since the row changed, saturating
    changes         \* bounded: changes of the row so far

vars == <<account, cache, request, token, deletes, verdict, sinceChange, changes>>

\* The longest a change can stay unnoticed.
Slack == TTL + 2 * MaxLag

Promise == INSTANCE SessionPromise WITH
    Sessions <- Sessions, NoToken <- NoToken, Slack <- Slack,
    account <- account, sinceChange <- sinceChange,
    token <- token, verdict <- verdict

-----------------------------------------------------------------------------
Phases == {"idle", "signing", "lookup", "fill", "judge", "done"}

\* `fresh` is history: the copy was read after the row's last change.
Copy == [status : Status, ttl : 0 .. TTL, fresh : BOOLEAN]
Request == [phase : Phases, age : 0 .. MaxLag, status : Status, fresh : BOOLEAN]

NoCopy == [status |-> Blank, ttl |-> 0, fresh |-> FALSE]
InPhase(phase, age) == [phase |-> phase, age |-> age, status |-> Blank, fresh |-> FALSE]

Busy(s) == request[s].phase \in {"lookup", "fill", "judge"}

TypeOK ==
    /\ account \in Status
    /\ cache \in Copy
    /\ request \in [Sessions -> Request]
    /\ token \in [Sessions -> {NoToken} \cup 0 .. MaxPasswords]
    /\ deletes \in 0 .. MaxDeletes
    /\ verdict \in [Sessions -> Verdicts]
    /\ sinceChange \in 0 .. Slack + 1
    /\ changes \in 0 .. MaxChanges

Init ==
    /\ account = [Blank EXCEPT !.exists = TRUE, !.isActive = TRUE]
    /\ cache = NoCopy
    /\ request = [s \in Sessions |-> InPhase("idle", 0)]
    /\ token = [s \in Sessions |-> NoToken]
    /\ deletes = 0
    /\ verdict = [s \in Sessions |-> "none"]
    /\ sinceChange = Slack + 1
    /\ changes = 0

-----------------------------------------------------------------------------
(* The writers of the row. *)

\* Commit of a new row; every copy read before it is out of date.
Commit(row) ==
    /\ row # account
    /\ account' = row
    /\ sinceChange' = 0
    /\ changes < MaxChanges
    /\ changes' = changes + 1
    /\ cache' = [cache EXCEPT !.fresh = FALSE]
    /\ request' = [s \in Sessions |-> [request[s] EXCEPT !.fresh = FALSE]]
    /\ UNCHANGED <<token, verdict>>

\* The writer's redis.del is still to come.
ThenDelete ==
    /\ deletes < MaxDeletes
    /\ deletes' = deletes + 1

\* POST /api/admin/users/[id]/activate and /deactivate.
SetActive(value) ==
    /\ account.exists
    /\ account.isActive # value
    /\ Commit([account EXCEPT !.isActive = value])
    /\ ThenDelete

\* PATCH /api/admin/users/[id].
SetRole(role) ==
    /\ account.exists
    /\ Commit([account EXCEPT !.role = role])
    /\ ThenDelete

\* recordFailedAttempt at the lockout threshold.
LockAccount(ticks) ==
    /\ account.exists
    /\ Commit([account EXCEPT !.lock = ticks])
    /\ ThenDelete

\* resetAttempts: a login, a reset or an administrator lifts the lock.
UnlockAccount ==
    /\ account.exists
    /\ Commit([account EXCEPT !.lock = 0])
    /\ ThenDelete

\* POST /api/auth/reset-password.
ResetPassword ==
    /\ account.exists
    /\ account.password < MaxPasswords
    /\ Commit([account EXCEPT !.password = @ + 1, !.lock = 0])
    /\ ThenDelete

\* DELETE /api/admin/users/[id].
DeleteAccount ==
    /\ account.exists
    /\ Commit(Blank)
    /\ ThenDelete

\* A writer that never deletes the copy, like a direct edit of the database.
EditDirectly ==
    /\ account.exists
    /\ Commit([account EXCEPT !.isActive = FALSE])
    /\ UNCHANGED deletes

\* invalidateUserStatusCache: redis.del may fail, and is not repeated.
Invalidate ==
    /\ deletes > 0
    /\ deletes' = deletes - 1
    /\ cache' \in {cache, NoCopy}
    /\ UNCHANGED <<account, request, token, verdict, sinceChange, changes>>

-----------------------------------------------------------------------------
(* Sign-in and requests. *)

At(s, phase) == request[s].phase = phase

\* authorize read the row: active, not locked, and the password matched.
Authorize(s) ==
    /\ At(s, "idle")
    /\ account.exists /\ account.isActive /\ account.lock = 0
    /\ request' = [request EXCEPT ![s] = InPhase("signing", 0)]
    /\ UNCHANGED <<account, cache, token, deletes, verdict, sinceChange, changes>>

\* The jwt callback on sign-in stamps the token with the time it is issued.
IssueToken(s) ==
    /\ At(s, "signing")
    /\ token' = [token EXCEPT ![s] = account.password]
    /\ request' = [request EXCEPT ![s] = InPhase("idle", 0)]
    /\ UNCHANGED <<account, cache, deletes, verdict, sinceChange, changes>>

\* A request arrives with the session cookie.
Arrive(s) ==
    /\ At(s, "idle")
    /\ token[s] # NoToken
    /\ request' = [request EXCEPT ![s] = InPhase("lookup", 0)]
    /\ UNCHANGED <<account, cache, token, deletes, verdict, sinceChange, changes>>

\* Mutant: every use of a copy renews its life.
HitRenews(s) ==
    /\ At(s, "lookup")
    /\ cache.ttl > 0
    /\ cache' = [cache EXCEPT !.ttl = TTL]
    /\ request' = [request EXCEPT ![s].phase = "judge", ![s].status = cache.status,
                                  ![s].fresh = cache.fresh]
    /\ UNCHANGED <<account, token, deletes, verdict, sinceChange, changes>>

\* getCachedUserStatus finds a copy.
Hit(s) ==
    /\ At(s, "lookup")
    /\ cache.ttl > 0
    /\ request' = [request EXCEPT ![s].phase = "judge", ![s].status = cache.status,
                                  ![s].fresh = cache.fresh]
    /\ UNCHANGED <<account, cache, token, deletes, verdict, sinceChange, changes>>

\* Mutant: passwordChangedAt is left out of the select.
ReadRowWithoutPassword(s) ==
    /\ At(s, "lookup")
    /\ request' = [request EXCEPT ![s].phase = IF account.exists THEN "fill" ELSE "judge",
                                  ![s].status = [account EXCEPT !.password = 0], ![s].fresh = TRUE]
    /\ UNCHANGED <<account, cache, token, deletes, verdict, sinceChange, changes>>

\* No copy, or Redis does not answer (which it may do at any time):
\* prisma.user.findUnique.  A missing row is judged at once and not cached.
ReadRow(s) ==
    /\ At(s, "lookup")
    /\ request' = [request EXCEPT ![s].phase = IF account.exists THEN "fill" ELSE "judge",
                                  ![s].status = account, ![s].fresh = TRUE]
    /\ UNCHANGED <<account, cache, token, deletes, verdict, sinceChange, changes>>

\* setCachedUserStatus: a new life for whatever was read; it may fail.
Fill(s) ==
    /\ At(s, "fill")
    /\ cache' \in {cache, [status |-> request[s].status, ttl |-> TTL, fresh |-> request[s].fresh]}
    /\ request' = [request EXCEPT ![s].phase = "judge"]
    /\ UNCHANGED <<account, token, deletes, verdict, sinceChange, changes>>

\* The verdict the route handler acts on.
Decide(s) ==
    /\ At(s, "judge")
    /\ verdict' = [verdict EXCEPT ![s] = Judge(request[s].status, token[s])]
    /\ request' = [request EXCEPT ![s] = InPhase("done", 0)]
    /\ UNCHANGED <<account, cache, token, deletes, sinceChange, changes>>

\* The response has left; the browser may ask again.
Deliver(s) ==
    /\ At(s, "done")
    /\ verdict' = [verdict EXCEPT ![s] = "none"]
    /\ request' = [request EXCEPT ![s] = InPhase("idle", 0)]
    /\ UNCHANGED <<account, cache, token, deletes, sinceChange, changes>>

-----------------------------------------------------------------------------
(* Time and Redis. *)

\* No request outlives MaxLag ticks.
Tick ==
    /\ \A s \in Sessions : Busy(s) => request[s].age < MaxLag
    /\ account' = Elapse(account)
    /\ cache' = IF cache.ttl =< 1 THEN NoCopy
                ELSE [status |-> Elapse(cache.status), ttl |-> cache.ttl - 1, fresh |-> cache.fresh]
    /\ request' = [s \in Sessions |->
           [phase |-> request[s].phase,
            age |-> IF Busy(s) THEN request[s].age + 1 ELSE request[s].age,
            status |-> Elapse(request[s].status),
            fresh |-> request[s].fresh]]
    /\ sinceChange' = IF sinceChange > Slack THEN sinceChange ELSE sinceChange + 1
    /\ UNCHANGED <<token, deletes, verdict, changes>>

\* Redis restarts, or evicts the key.
LoseCache ==
    /\ cache.ttl > 0
    /\ cache' = NoCopy
    /\ UNCHANGED <<account, request, token, deletes, verdict, sinceChange, changes>>

-----------------------------------------------------------------------------
Write ==
    \/ \E value \in BOOLEAN : SetActive(value)
    \/ \E role \in Roles : SetRole(role)
    \/ \E ticks \in 1 .. MaxLock : LockAccount(ticks)
    \/ UnlockAccount
    \/ ResetPassword
    \/ DeleteAccount
    \/ EditDirectly

\* The part of a request the server carries out once it has arrived.
Serve(s) == Hit(s) \/ ReadRow(s) \/ Fill(s) \/ Decide(s) \/ Deliver(s)

Next ==
    \/ Write
    \/ Invalidate
    \/ \E s \in Sessions : Authorize(s) \/ IssueToken(s) \/ Arrive(s) \/ Serve(s)
    \/ Tick
    \/ LoseCache

Spec == Init /\ [][Next]_vars

\* Requests that arrived are carried on, and time passes.  Nothing makes a
\* browser ask again, a writer write, or its delete succeed.
FairSpec ==
    /\ Spec
    /\ WF_vars(Tick)
    /\ \A s \in Sessions : WF_vars(Serve(s))

-----------------------------------------------------------------------------
(* Properties. *)

\* A copy that is out of date dies before Slack ticks have passed since the
\* change: the one in Redis, and the one a request is about to store there.
\* This is what makes the two-minute TTL a bound although a fill may store a
\* row that a writer has replaced, and deleted from the cache, in between.
StaleCopiesAreYoung ==
    /\ cache.ttl > 0 /\ ~cache.fresh => sinceChange + cache.ttl =< TTL + MaxLag
    /\ \A s \in Sessions : At(s, "fill") /\ ~request[s].fresh => sinceChange =< request[s].age
    /\ \A s \in Sessions :
          At(s, "judge") /\ ~request[s].fresh => sinceChange =< TTL + MaxLag + request[s].age

\* A copy that is up to date is the row.
FreshCopiesAreExact ==
    /\ cache.ttl > 0 /\ cache.fresh => cache.status = account
    /\ \A s \in Sessions :
          request[s].phase \in {"fill", "judge"} /\ request[s].fresh => request[s].status = account

\* The cached session layer keeps the promise: an account that has been left
\* alone for longer than the slack is judged by its row.
PromiseKept == Promise!Spec

\* An account deactivated for good is refused for good: at some point the last
\* request that was let in has been, whatever Redis does.
RevocationTakesEffect ==
    \A s \in Sessions :
        <>[](account.exists /\ ~account.isActive) => <>[](verdict[s] \notin Roles)
=============================================================================
