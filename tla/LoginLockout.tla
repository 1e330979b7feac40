---------------------------- MODULE LoginLockout ----------------------------
(***************************************************************************)
(* Signing in, and the things that slow a guesser down: the lock of the    *)
(* account (lib/lockout.ts, in Postgres with a copy in Redis) and the      *)
(* escalating block of an address (lib/ipLockout.ts, lib/loginPairLockout, *)
(* the same code on two keys: one of them here).  Attempts on one account  *)
(* overlap; every await of authorize is a step, and every call to Redis    *)
(* may fail.  Whether a captcha is due is left open: lib/attemptTracker.ts *)
(* counts in Redis alone and forgets at any time.                          *)
(*                                                                         *)
(* Instants are kept as the ticks left until them, so that a Tick brings   *)
(* all of them closer: those stored and those an attempt has in hand.      *)
(***************************************************************************)
EXTENDS Integers

CONSTANTS
    Attempts,           \* requests to sign in that are under way at once
    LockTicks,          \* LOCKOUT_SECONDS
    MaxFailedAttempts,  \* failures that lock the account
    AttemptsPerTier,    \* failures between two blocks of an address
    Tiers,              \* TIER_BLOCK_SECONDS: tier t blocks for t ticks
    RedisFails          \* whether calls to Redis may fail

ASSUME TicksAreNat == LockTicks \in Nat \ {0}
ASSUME ThresholdsAreNat ==
    {MaxFailedAttempts, AttemptsPerTier, Tiers} \subseteq Nat \ {0}
ASSUME FailingIsBoolean == RedisFails \in BOOLEAN

VARIABLES
    row,        \* User: failedAttempts and the ticks left of lockedUntil
    lockKey,    \* lockout:<email> in Redis: ticks left
    address,    \* the address's failure count and the ticks left of its block
    attempt,    \* attempt[a]: how far it got and what it holds
    unlock,     \* the administrator's unlock request
    imposed,    \* history: ticks left of the last lock, had nobody lifted it
    locked,     \* history: locked since the counter was last reset
    lost        \* history: a write to Postgres was lost since then

vars == <<row, lockKey, address, attempt, unlock, imposed, locked, lost>>

-----------------------------------------------------------------------------
Phases == {"idle", "block", "key", "row", "refill", "verify", "fail",
           "clearKey", "resetRow", "forget"}
\* What a failure has left to do; its parts run side by side.
Tasks == {"count", "impose", "setKey", "bump"}
Attempt == [phase : Phases, todo : SUBSET Tasks,
            until : 0 .. LockTicks,     \* the lock it read or imposed
            sawOpen : BOOLEAN]          \* history: not locked at some point

MaxCount == AttemptsPerTier * Tiers

TypeOK ==
    /\ row \in [failedAttempts : 0 .. MaxFailedAttempts, lock : 0 .. LockTicks]
    /\ lockKey \in 0 .. LockTicks
    /\ address \in [count : 0 .. MaxCount, block : 0 .. Tiers]
    /\ attempt \in [Attempts -> Attempt]
    /\ unlock \in {"none", "clearKey", "resetRow", "done", "failed"}
    /\ imposed \in 0 .. LockTicks
    /\ locked \in BOOLEAN
    /\ lost \in BOOLEAN

Idle == [phase |-> "idle", todo |-> {}, until |-> 0,
               sawOpen |-> FALSE]

Init ==
    /\ row = [failedAttempts |-> 0, lock |-> 0]
    /\ lockKey = 0
    /\ address = [count |-> 0, block |-> 0]
    /\ attempt = [a \in Attempts |-> Idle]
    /\ unlock = "none"
    /\ imposed = 0
    /\ locked = FALSE
    /\ lost = FALSE

-----------------------------------------------------------------------------
Earlier(ticks) == IF ticks > 0 THEN ticks - 1 ELSE 0
AtMost(count, bound) == IF count > bound THEN bound ELSE count

\* blockSecondsForCount, 0 for null: every AttemptsPerTier-th failure blocks.
BlockFor(count) ==
    IF count % AttemptsPerTier # 0 THEN 0 ELSE AtMost(count \div AttemptsPerTier, Tiers)

\* The next count, kept within MaxCount: past the last tier they repeat.
NextCount(count) == IF count = MaxCount THEN MaxCount - AttemptsPerTier + 1 ELSE count + 1

\* A call to Redis is carried out, or fails and is only logged.
Redis(done, failed) == done \/ (RedisFails /\ failed)

At(a, phase) == attempt[a].phase = phase
Goto(a, phase) == attempt' = [attempt EXCEPT ![a].phase = phase]
Leave(a) == attempt' = [attempt EXCEPT ![a] = Idle]

-----------------------------------------------------------------------------
(* authorize. *)

Arrive(a) ==
    /\ At(a, "idle")
    /\ attempt' = [attempt EXCEPT ![a].phase = "block", ![a].sawOpen = (row.lock = 0)]
    /\ UNCHANGED <<row, lockKey, address, unlock, imposed, locked, lost>>

\* Mutant: asking whether an address is blocked renews its block.
CheckBlockRenews(a) ==
    /\ At(a, "block")
    /\ IF address.block > 0
       THEN address' = [address EXCEPT !.block = Tiers] /\ Leave(a)
       ELSE Goto(a, "key") /\ UNCHANGED address
    /\ UNCHANGED <<row, lockKey, unlock, imposed, locked, lost>>

\* checkIpBlock, checkLoginPairBlock: refuse, or fail open.
CheckBlock(a) ==
    /\ At(a, "block")
    /\ Redis(IF address.block > 0 THEN Leave(a) ELSE Goto(a, "key"), Goto(a, "key"))
    /\ UNCHANGED <<row, lockKey, address, unlock, imposed, locked, lost>>

\* Mutant: an account without a key in Redis is not locked.
CheckKeyOnly(a) ==
    /\ At(a, "key")
    /\ Redis(IF lockKey > 0 THEN Leave(a) ELSE Goto(a, "verify"), Goto(a, "row"))
    /\ UNCHANGED <<row, lockKey, address, unlock, imposed, locked, lost>>

\* checkLockout: a key in Redis decides; without one, or without Redis ...
CheckKey(a) ==
    /\ At(a, "key")
    /\ Redis(IF lockKey > 0 THEN Leave(a) ELSE Goto(a, "row"), Goto(a, "row"))
    /\ UNCHANGED <<row, lockKey, address, unlock, imposed, locked, lost>>

\* ... the row does, and a locked one is copied to Redis first.
CheckRow(a) ==
    /\ At(a, "row")
    /\ IF row.lock > 0
       THEN attempt' = [attempt EXCEPT ![a].phase = "refill", ![a].until = row.lock]
       ELSE Goto(a, "verify")
    /\ UNCHANGED <<row, lockKey, address, unlock, imposed, locked, lost>>

\* Mutant: the copy starts a new hour.
RefillAnew(a) ==
    /\ At(a, "refill")
    /\ lockKey' = LockTicks
    /\ Leave(a)
    /\ UNCHANGED <<row, address, unlock, imposed, locked, lost>>

\* The copy ends when the row's lock does.  Then the attempt is refused.
Refill(a) ==
    /\ At(a, "refill")
    /\ LET until == attempt[a].until
       IN  Redis(lockKey' = IF until > 0 THEN until ELSE lockKey, UNCHANGED lockKey)
    /\ Leave(a)
    /\ UNCHANGED <<row, address, unlock, imposed, locked, lost>>

\* recordFailure: independent updates, all begun at once.
Fail(a) == attempt' = [attempt EXCEPT ![a].phase = "fail", ![a].todo = {"count", "bump"}]

\* A captcha that is due and not solved, or a wrong password.
Reject(a) ==
    /\ At(a, "verify")
    /\ Fail(a)
    /\ UNCHANGED <<row, lockKey, address, unlock, imposed, locked, lost>>

\* The right password.
Accept(a) ==
    /\ At(a, "verify")
    /\ Goto(a, "clearKey")
    /\ UNCHANGED <<row, lockKey, address, unlock, imposed, locked, lost>>

-----------------------------------------------------------------------------
(* recordFailure. *)

Drop(a, task) == attempt' = [attempt EXCEPT ![a].todo = @ \ {task}]
Replace(a, task, next) ==
    attempt' = [attempt EXCEPT ![a].todo = (@ \ {task}) \cup {next}]

\* Mutant: the failure that reaches the threshold is still free.
CountFailureOffByOne(a) ==
    /\ At(a, "fail") /\ "count" \in attempt[a].todo
    /\ row' = [row EXCEPT !.failedAttempts = AtMost(@ + 1, MaxFailedAttempts)]
    /\ IF row.failedAttempts < MaxFailedAttempts
       THEN Drop(a, "count") ELSE Replace(a, "count", "impose")
    /\ UNCHANGED <<lockKey, address, unlock, imposed, locked, lost>>

\* recordFailedAttempt: the increment returns the new count; it may fail.
CountFailure(a) ==
    /\ At(a, "fail") /\ "count" \in attempt[a].todo
    /\ \/ /\ row' = [row EXCEPT !.failedAttempts = AtMost(@ + 1, MaxFailedAttempts)]
          /\ IF row'.failedAttempts < MaxFailedAttempts
             THEN Drop(a, "count") ELSE Replace(a, "count", "impose")
       \/ Drop(a, "count") /\ UNCHANGED row
    /\ UNCHANGED <<lockKey, address, unlock, imposed, locked, lost>>

\* ... and the escalation: lockedUntil, which may fail and is not repeated,
Impose(a) ==
    /\ At(a, "fail") /\ "impose" \in attempt[a].todo
    /\ \/ /\ row' = [row EXCEPT !.lock = LockTicks]
          /\ imposed' = LockTicks
          /\ locked' = TRUE
          /\ attempt' = [attempt EXCEPT ![a].until = LockTicks,
                                        ![a].todo = (@ \ {"impose"}) \cup {"setKey"}]
          /\ UNCHANGED lost
       \/ /\ Drop(a, "impose")
          /\ lost' = TRUE
          /\ UNCHANGED <<row, imposed, locked>>
    /\ UNCHANGED <<lockKey, address, unlock>>

\* ... then its key in Redis.
SetKey(a) ==
    /\ At(a, "fail") /\ "setKey" \in attempt[a].todo
    /\ LET until == attempt[a].until
       IN  Redis(lockKey' = IF until > 0 THEN until ELSE lockKey, UNCHANGED lockKey)
    /\ Drop(a, "setKey")
    /\ UNCHANGED <<row, address, unlock, imposed, locked, lost>>

\* recordFailedLoginByIp, recordFailedLoginPair: count, and block at a tier.
\* The block's SET may fail after its INCR; nobody else writes in between
\* what would not be written over by a block in any case.
Bump(a) ==
    /\ At(a, "fail") /\ "bump" \in attempt[a].todo
    /\ Drop(a, "bump")
    /\ LET count == NextCount(address.count)
       IN  Redis(address' = [count |-> count,
                             block |-> IF BlockFor(count) > 0 THEN BlockFor(count)
                                       ELSE address.block],
                 address' \in {address, [address EXCEPT !.count = count]})
    /\ UNCHANGED <<row, lockKey, unlock, imposed, locked, lost>>

Refuse(a) ==
    /\ At(a, "fail") /\ attempt[a].todo = {}
    /\ Leave(a)
    /\ UNCHANGED <<row, lockKey, address, unlock, imposed, locked, lost>>

-----------------------------------------------------------------------------
(* The right password, and the administrator's unlock: resetAttempts. *)

DeleteKey == Redis(lockKey' = 0, UNCHANGED lockKey)

ClearKey(a) ==
    /\ At(a, "clearKey")
    /\ DeleteKey
    /\ Goto(a, "resetRow")
    /\ UNCHANGED <<row, address, unlock, imposed, locked, lost>>

\* Every attempt under way sees the account open.
Opened == [a \in Attempts |-> [attempt[a] EXCEPT !.sawOpen = ~At(a, "idle")]]

ClearRow ==
    /\ row' = [failedAttempts |-> 0, lock |-> 0]
    /\ locked' = FALSE
    /\ lost' = FALSE

\* The update may fail; the sign-in goes on all the same.
ResetRow(a) ==
    /\ At(a, "resetRow")
    /\ \/ ClearRow /\ attempt' = [Opened EXCEPT ![a].phase = "forget"]
       \/ UNCHANGED <<row, locked, lost>> /\ Goto(a, "forget")
    /\ UNCHANGED <<lockKey, address, unlock, imposed>>

\* clearIpFailures and clearLoginPairFailures; then the user is signed in.
Forget(a) ==
    /\ At(a, "forget")
    /\ Redis(address' = [count |-> 0, block |-> 0], UNCHANGED address)
    /\ Leave(a)
    /\ UNCHANGED <<row, lockKey, unlock, imposed, locked, lost>>

\* POST /api/admin/users/[id]/unlock finds something to lift.
BeginUnlock ==
    /\ unlock = "none"
    /\ row.lock > 0 \/ row.failedAttempts > 0
    /\ unlock' = "clearKey"
    /\ UNCHANGED <<row, lockKey, address, attempt, imposed, locked, lost>>

UnlockKey ==
    /\ unlock = "clearKey"
    /\ DeleteKey
    /\ unlock' = "resetRow"
    /\ UNCHANGED <<row, address, attempt, imposed, locked, lost>>

\* It answers 200 only when the row was cleared.
UnlockRow ==
    /\ unlock = "resetRow"
    /\ \/ ClearRow /\ attempt' = Opened /\ unlock' = "done"
       \/ UNCHANGED <<row, attempt, locked, lost>> /\ unlock' = "failed"
    /\ UNCHANGED <<lockKey, address, imposed>>

\* The administrator may ask again.
EndUnlock ==
    /\ unlock \in {"done", "failed"}
    /\ unlock' = "none"
    /\ UNCHANGED <<row, lockKey, address, attempt, imposed, locked, lost>>

-----------------------------------------------------------------------------
(* Time and Redis. *)

Tick ==
    /\ row' = [row EXCEPT !.lock = Earlier(@)]
    /\ lockKey' = Earlier(lockKey)
    /\ address' = [address EXCEPT !.block = Earlier(@)]
    /\ attempt' = [a \in Attempts |->
           [attempt[a] EXCEPT !.until = Earlier(@),
                              !.sawOpen = @ \/ (row.lock =< 1 /\ ~At(a, "idle"))]]
    /\ imposed' = Earlier(imposed)
    /\ UNCHANGED <<unlock, locked, lost>>

\* A day without failures ends the address's count.
Lapse ==
    /\ address.count > 0
    /\ address' = [address EXCEPT !.count = 0]
    /\ UNCHANGED <<row, lockKey, attempt, unlock, imposed, locked, lost>>

\* Redis restarts empty.
LoseRedis ==
    /\ RedisFails
    /\ lockKey' = 0
    /\ address' = [count |-> 0, block |-> 0]
    /\ UNCHANGED <<row, attempt, unlock, imposed, locked, lost>>

-----------------------------------------------------------------------------
Check(a) == CheckBlock(a) \/ CheckKey(a) \/ CheckRow(a) \/ Refill(a)
Record(a) ==
    \/ CountFailure(a) \/ Impose(a) \/ SetKey(a)
    \/ Bump(a) \/ Refuse(a)
Reset(a) == ClearKey(a) \/ ResetRow(a) \/ Forget(a)
Work(a) == Check(a) \/ Reject(a) \/ Accept(a) \/ Record(a) \/ Reset(a)
Unlock == BeginUnlock \/ UnlockKey \/ UnlockRow \/ EndUnlock

Next ==
    \/ \E a \in Attempts : Arrive(a) \/ Work(a)
    \/ Unlock
    \/ Tick
    \/ Lapse
    \/ LoseRedis

Spec == Init /\ [][Next]_vars

\* The server carries on what has arrived, and time passes.
FairSpec ==
    /\ Spec
    /\ WF_vars(Tick)
    /\ \A a \in Attempts : WF_vars(Work(a))

-----------------------------------------------------------------------------
(* Properties. *)

\* An attempt that gets past checkLockout saw the account open: at some point
\* after it arrived, Postgres had no lock.  So no restart or failure of Redis
\* lets one in during a lock that was there all along.
LockHolds ==
    \A a \in Attempts :
        attempt[a].phase \in {"verify", "clearKey", "resetRow", "forget"}
            => attempt[a].sawOpen

\* A copy in Redis, and one about to be written there, ends no later than the
\* lock it was made from: the copies made around an unlock may outlive the
\* lock, but never the hour.
LockEndsInTime ==
    /\ row.lock =< imposed
    /\ lockKey =< imposed
    /\ \A a \in Attempts : attempt[a].until =< imposed

\* An account at the threshold has been locked since its counter was last
\* reset, once the failure that reached it is through, whatever resets run
\* beside it.
ThresholdLocks ==
    row.failedAttempts = MaxFailedAttempts /\ ~lost =>
        locked \/ \E a \in Attempts : "impose" \in attempt[a].todo

\* Once wrong passwords and missed captchas stop, the account and the address
\* are open again for good, however many attempts keep arriving.
Recovers ==
    \/ []<><<\E a \in Attempts : Reject(a)>>_vars
    \/ <>[](row.lock = 0 /\ lockKey = 0 /\ address.block = 0)
=============================================================================
