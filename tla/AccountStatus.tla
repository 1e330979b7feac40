---------------------------- MODULE AccountStatus ----------------------------
(***************************************************************************)
(* What a session is judged by: the columns of the User row that the jwt   *)
(* callback of lib/auth.ts selects, and the judgement it passes on them.   *)
(* Instants are kept relative: `lock` is the time left until lockedUntil,  *)
(* `password` counts the password changes committed so far, so that        *)
(* "passwordChangedAt is later than the token's issuedAtMs" becomes "more  *)
(* changes than when the token was issued".                                *)
(***************************************************************************)
EXTENDS Integers

CONSTANTS
    Roles,          \* the roles an account can have
    FirstRole,      \* the role its invite named
    MaxLock,        \* bound: the longest lock, in ticks
    MaxPasswords    \* bound: password changes in a behaviour

ASSUME BoundsAreNat == MaxLock \in Nat /\ MaxPasswords \in Nat
ASSUME RolesAreNoRefusal == {"none", "deactivated", "stale"} \cap Roles = {}
ASSUME FirstRoleIsRole == FirstRole \in Roles

\* The row, or the copy of it in Redis.  `exists` is FALSE once it is deleted.
Status == [exists : BOOLEAN, isActive : BOOLEAN, lock : 0 .. MaxLock,
           password : 0 .. MaxPasswords, role : Roles]

\* No row: a deleted account, and a slot that holds no copy.
Blank == [exists |-> FALSE, isActive |-> FALSE, lock |-> 0, password |-> 0,
          role |-> FirstRole]

\* jwt and session callbacks: what a request is told, given the status found
\* and the moment its token was issued.
Judge(status, issued) ==
    IF ~status.exists \/ ~status.isActive THEN "deactivated"
    ELSE IF status.password > issued \/ status.lock > 0 THEN "stale"
    ELSE status.role

Verdicts == {"none", "deactivated", "stale"} \cup Roles

\* One tick brings lockedUntil one tick closer, in the row and in every copy.
Elapse(status) == [status EXCEPT !.lock = IF @ > 0 THEN @ - 1 ELSE 0]
=============================================================================
