----------------------------- MODULE AlertAccess -----------------------------
(***************************************************************************)
(* The copy of an alert's gmina, owner and status that the routes under    *)
(* /api/alerts/[id] authorize with (lib/alertAccessCache.ts), one alert.   *)
(* A lookup that misses reads the row and stores the copy in two awaits; a *)
(* change commits the row and drops the copy in two others; every call to  *)
(* Redis may fail.  Entries of the operational journal are posted on the   *)
(* strength of such a lookup.                                              *)
(***************************************************************************)
EXTENDS Integers

CONSTANTS
    Lookups,        \* requests that look the alert up at once
    Changes,        \* requests that change it
    MaxEntries      \* bound: entries of the journal

ASSUME EntriesAreCounted == MaxEntries \in Nat

VARIABLES
    alertRow,        \* the alert: its status, or "gone"
    alertCopy,       \* alert-access:<id>: a status, or NoCopy
    lookup,     \* lookup[l]: phase, the row it read, whether that changed since
    change,     \* change[c]: "idle", or "drop" between its two awaits
    entries,    \* root entries of the journal
    excused     \* history: the copy was stored late, or its removal was lost

accessVars == <<alertRow, alertCopy, lookup, change, entries, excused>>

NoCopy == "none"
RowStatuses == {"ACTIVE", "RESOLVED", "CANCELLED"}
AtRest == [phase |-> "idle", read |-> NoCopy, outdated |-> FALSE]

-----------------------------------------------------------------------------
AccessTypeOK ==
    /\ alertRow \in RowStatuses \cup {"gone"}
    /\ alertCopy \in RowStatuses \cup {NoCopy}
    /\ lookup \in [Lookups -> [phase : {"idle", "fill", "write"}, read : RowStatuses \cup {NoCopy},
                               outdated : BOOLEAN]]
    /\ change \in [Changes -> {"idle", "drop"}]
    /\ entries \in 0 .. MaxEntries
    /\ excused \in BOOLEAN

AccessInit ==
    /\ alertRow = "ACTIVE" /\ alertCopy = NoCopy
    /\ lookup = [l \in Lookups |-> AtRest]
    /\ change = [c \in Changes |-> "idle"]
    /\ entries = 0
    /\ excused = FALSE

-----------------------------------------------------------------------------
\* getCachedAlertAccess: a copy answers at once.
CopyHit(l) ==
    /\ lookup[l].phase = "idle" /\ alertCopy # NoCopy
    /\ lookup' = [lookup EXCEPT ![l] = [AtRest EXCEPT !.phase = "write"]]
    /\ UNCHANGED <<alertRow, alertCopy, change, entries, excused>>

\* ... or there is none, or Redis does not answer, and findAlert reads the row;
\* an unknown alert ends the request.
CopyMiss(l) ==
    /\ lookup[l].phase = "idle" /\ alertRow # "gone"
    /\ lookup' = [lookup EXCEPT ![l] = [phase |-> "fill", read |-> alertRow, outdated |-> FALSE]]
    /\ UNCHANGED <<alertRow, alertCopy, change, entries, excused>>

\* setCachedAlertAccess, or its failure, which nobody is told of.
Fill(l) ==
    /\ lookup[l].phase = "fill"
    /\ \/ alertCopy' = lookup[l].read /\ excused' = lookup[l].outdated
       \/ UNCHANGED <<alertCopy, excused>>
    /\ lookup' = [lookup EXCEPT ![l] = [AtRest EXCEPT !.phase = "write"]]
    /\ UNCHANGED <<alertRow, change, entries>>

\* GET .../messages lists the journal.
ReadEntries(l) ==
    /\ lookup[l].phase = "write"
    /\ lookup' = [lookup EXCEPT ![l] = AtRest]
    /\ UNCHANGED <<alertRow, alertCopy, change, entries, excused>>

\* POST .../messages creates an entry; the foreign key refuses one under an
\* alert that is gone (P2003, answered as 404).
PostEntry(l) ==
    /\ lookup[l].phase = "write"
    /\ lookup' = [lookup EXCEPT ![l] = AtRest]
    /\ alertRow # "gone" => entries < MaxEntries
    /\ entries' = IF alertRow = "gone" THEN entries ELSE entries + 1
    /\ UNCHANGED <<alertRow, alertCopy, change, excused>>

\* What a lookup has in hand is out of date once the row has changed.
Outdated == [l \in Lookups |-> [lookup[l] EXCEPT !.outdated = (lookup[l].phase = "fill")]]

\* Mutant: the copy is dropped first, the row committed afterwards.
ChangeRowAfterDrop(c) ==
    /\ alertRow # "gone"
    /\ \/ change[c] = "idle" /\ alertCopy' = NoCopy /\ excused' = FALSE
          /\ change' = [change EXCEPT ![c] = "drop"]
          /\ UNCHANGED <<alertRow, lookup, entries>>
       \/ change[c] = "drop" /\ alertRow' \in RowStatuses \ {alertRow}
          /\ change' = [change EXCEPT ![c] = "idle"]
          /\ lookup' = Outdated
          /\ UNCHANGED <<alertCopy, entries, excused>>

\* PATCH /api/alerts/[id] or cancel-with-return commits a status, DELETE
\* removes the row and, by the cascade, its journal.
ChangeRow(c) ==
    /\ alertRow # "gone" /\ change[c] = "idle"
    /\ \E next \in (RowStatuses \cup {"gone"}) \ {alertRow} :
        /\ alertRow' = next
        /\ entries' = IF next = "gone" THEN 0 ELSE entries
    /\ change' = [change EXCEPT ![c] = "drop"]
    /\ lookup' = Outdated
    /\ UNCHANGED <<alertCopy, excused>>

\* invalidateAlertAccessCache, or its failure: the copy stays for its TTL.
DropCopy(c) ==
    /\ change[c] = "drop"
    /\ change' = [change EXCEPT ![c] = "idle"]
    /\ \/ alertCopy' = NoCopy /\ excused' = FALSE
       \/ excused' = (alertCopy # NoCopy) /\ UNCHANGED alertCopy
    /\ UNCHANGED <<alertRow, lookup, entries>>

\* TTL_SECONDS are over.
ExpireCopy ==
    /\ alertCopy # NoCopy
    /\ alertCopy' = NoCopy /\ excused' = FALSE
    /\ UNCHANGED <<alertRow, lookup, change, entries>>

AccessNext ==
    \/ \E l \in Lookups : CopyHit(l) \/ CopyMiss(l) \/ Fill(l) \/ ReadEntries(l) \/ PostEntry(l)
    \/ \E c \in Changes : ChangeRow(c) \/ DropCopy(c)
    \/ ExpireCopy

AccessSpec == AccessInit /\ [][AccessNext]_accessVars

-----------------------------------------------------------------------------
\* A copy says what the row says, unless the change that made it wrong has yet
\* to drop it, a lookup stored what it had read before the change, or Redis
\* lost the removal: no other order of the awaits of findAlert and of the
\* routes that change an alert leaves a wrong copy behind.
CopyTellsRow ==
    alertCopy \notin {NoCopy, alertRow} => excused \/ \E c \in Changes : change[c] = "drop"
=============================================================================
