--------------------------- MODULE RetentionCleanup ---------------------------
(***************************************************************************)
(* The nightly deletion of old rows (lib/cleanup.ts): the cron job of      *)
(* every server process starts it, and an advisory lock of PostgreSQL lets *)
(* one of them do the work.  The lock belongs to the connection that took  *)
(* it, may be taken there again, and each query of a run goes through      *)
(* whichever connection of its process's pool is free.                     *)
(***************************************************************************)
EXTENDS Integers, FiniteSets

CONSTANTS
    Processes,      \* server processes
    PoolConnections,    \* connections of every pool
    PurgedTables,   \* the tables old rows are deleted from
    MaxRuns         \* bound: runs of each process

ASSUME RunsAreCounted == MaxRuns \in Nat

VARIABLES
    advisory,   \* pg_locks: how often each connection of a pool holds the lock
    cleanup,    \* cleanup[p]: where the run of a process is
    deleting,   \* its deletions under way
    nights,     \* bounded: runs so far
    astrayUnlock,   \* history: processes one of whose unlocks used another connection
    cutShort    \* history: a deletion failed, or a connection was lost

cleanupVars == <<advisory, cleanup, deleting, nights, astrayUnlock, cutShort>>

-----------------------------------------------------------------------------
CleanupTypeOK ==
    /\ advisory \in [Processes -> [PoolConnections -> 0 .. MaxRuns]]
    /\ cleanup \in [Processes -> {"idle", "working", "unlock"}]
    /\ deleting \in [Processes -> SUBSET PurgedTables]
    /\ nights \in [Processes -> 0 .. MaxRuns]
    /\ astrayUnlock \subseteq Processes
    /\ cutShort \in BOOLEAN

NoLocks == [c \in PoolConnections |-> 0]

CleanupInit ==
    /\ advisory = [p \in Processes |-> NoLocks]
    /\ cleanup = [p \in Processes |-> "idle"]
    /\ deleting = [p \in Processes |-> {}]
    /\ nights = [p \in Processes |-> 0]
    /\ astrayUnlock = {}
    /\ cutShort = FALSE

-----------------------------------------------------------------------------
\* Mutant: the answer of pg_try_advisory_lock is not looked at.
GrantedAnyway(p, c) == TRUE

\* pg_try_advisory_lock: no other connection holds the lock.
Granted(p, c) ==
    \A q \in Processes, d \in PoolConnections : advisory[q][d] > 0 => q = p /\ d = c

\* runRetentionCleanup, up to its early return.
TryLock(p) ==
    /\ cleanup[p] = "idle" /\ nights[p] < MaxRuns
    /\ nights' = [nights EXCEPT ![p] = @ + 1]
    /\ \E c \in PoolConnections :
        IF Granted(p, c)
        THEN /\ advisory' = [advisory EXCEPT ![p][c] = @ + 1]
             /\ cleanup' = [cleanup EXCEPT ![p] = "working"]
             /\ deleting' = [deleting EXCEPT ![p] = PurgedTables]
        ELSE UNCHANGED <<advisory, cleanup, deleting>>
    /\ UNCHANGED <<astrayUnlock, cutShort>>

\* The first failure of Promise.all ends the try block; the other deletions go on.
Failed(p) == cleanup' = [cleanup EXCEPT ![p] = IF @ = "working" THEN "unlock" ELSE @]

\* One of the four deleteMany is answered; after the last one the run unlocks.
Delete(p) ==
    /\ \E t \in deleting[p] : deleting' = [deleting EXCEPT ![p] = @ \ {t}]
    /\ \/ /\ cleanup' = [cleanup EXCEPT ![p] =
                 IF @ = "working" /\ deleting'[p] = {} THEN "unlock" ELSE @]
          /\ UNCHANGED cutShort
       \/ Failed(p) /\ cutShort' = TRUE
    /\ UNCHANGED <<advisory, nights, astrayUnlock>>

\* The finally block.  pg_advisory_unlock on a connection without the lock
\* warns and releases nothing.
Unlock(p) ==
    /\ cleanup[p] = "unlock"
    /\ \E c \in PoolConnections :
        /\ advisory' = [advisory EXCEPT ![p][c] = IF @ > 0 THEN @ - 1 ELSE 0]
        /\ astrayUnlock' = IF advisory[p][c] = 0 THEN astrayUnlock \cup {p} ELSE astrayUnlock
    /\ cleanup' = [cleanup EXCEPT ![p] = "idle"]
    /\ UNCHANGED <<deleting, nights, cutShort>>

\* PostgreSQL or the network closes a connection: its locks are gone.
LoseConnection(p) ==
    /\ \E c \in PoolConnections :
        advisory[p][c] > 0 /\ advisory' = [advisory EXCEPT ![p][c] = 0]
    /\ cutShort' = TRUE
    /\ UNCHANGED <<cleanup, deleting, nights, astrayUnlock>>

\* The process ends, its connections with it, and is started again.
RestartProcess(p) ==
    /\ advisory' = [advisory EXCEPT ![p] = NoLocks]
    /\ cleanup' = [cleanup EXCEPT ![p] = "idle"]
    /\ deleting' = [deleting EXCEPT ![p] = {}]
    /\ astrayUnlock' = astrayUnlock \ {p}
    /\ UNCHANGED <<nights, cutShort>>

CleanupNext == \E p \in Processes :
    \/ TryLock(p) \/ Delete(p) \/ Unlock(p)
    \/ LoseConnection(p) \/ RestartProcess(p)

CleanupSpec == CleanupInit /\ [][CleanupNext]_cleanupVars

-----------------------------------------------------------------------------
\* Only one process does the work at a time, whatever the earlier nights have
\* left of the lock (cleanup.ts:14-19).  A lost connection frees the lock, and
\* a failed deletion unlocks beside the other three.
OneCleanupAtATime ==
    ~cutShort => Cardinality({p \in Processes : deleting[p] # {}}) <= 1

\* A process that is not at work has given the lock back, also when its work
\* failed: what it may still hold, and would keep every process from the work
\* of the nights to come, was left by an unlock on another connection.
LockComesBack ==
    \A p \in Processes :
        cleanup[p] = "idle" /\ p \notin astrayUnlock => advisory[p] = NoLocks

\* The advisory lock keeps the processes apart and comes back every night.
CleanupLockHolds == OneCleanupAtATime /\ LockComesBack
=============================================================================
