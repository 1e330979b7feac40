----------------------------- MODULE NeedListSave -----------------------------
(***************************************************************************)
(* Saving the list of an alert's needs (NeedFormModal.tsx): the rows are   *)
(* edited in the tab, then sent one request at a time, the deletions       *)
(* first.  A submission that fails in part leaves the modal as it is, and  *)
(* the next one sends everything again.                                    *)
(***************************************************************************)
EXTENDS Integers

CONSTANTS
    Listed,         \* needs the modal was opened with
    Added,          \* keys of rows the user may add
    MaxSaves        \* bound: submissions

ASSUME AddedKeysAreNew == Listed \cap Added = {}
ASSUME SavesAreCounted == MaxSaves \in Nat

VARIABLES
    formRow,    \* the rows on screen: "old" or "new" text, or no row
    deletedIds, \* listed needs taken off the list
    taken,      \* the rows and deletions the submission was started with
    saving,     \* handleSubmit: "no", "deleting", "sending" or "closed"
    queue,      \* what it has not sent yet
    failures,   \* some request of it failed
    table,      \* the server's needs: "old", "new" or "gone"
    copies,     \* copies stored of an added row
    saves       \* bounded: submissions so far

needFormVars == <<formRow, deletedIds, taken, saving, queue, failures, table, copies, saves>>

-----------------------------------------------------------------------------
NeedFormTypeOK ==
    /\ formRow \in [Listed \cup Added -> {"none", "old", "new"}]
    /\ deletedIds \subseteq Listed
    /\ taken \in [rows : [Listed \cup Added -> {"none", "old", "new"}], deleted : SUBSET Listed]
    /\ saving \in {"no", "deleting", "sending", "closed"}
    /\ queue \subseteq Listed \cup Added
    /\ failures \in BOOLEAN
    /\ table \in [Listed -> {"old", "new", "gone"}]
    /\ copies \in [Added -> 0 .. MaxSaves]
    /\ saves \in 0 .. MaxSaves

NeedFormInit ==
    /\ formRow = [k \in Listed \cup Added |-> IF k \in Listed THEN "old" ELSE "none"]
    /\ deletedIds = {}
    /\ taken = [rows |-> formRow, deleted |-> {}]
    /\ saving = "no"
    /\ queue = {}
    /\ failures = FALSE
    /\ table = [k \in Listed |-> "old"]
    /\ copies = [k \in Added |-> 0]
    /\ saves = 0

-----------------------------------------------------------------------------
\* addRow and updateRow: also while a submission runs, which has its own copy.
EditRow ==
    /\ saving # "closed"
    /\ \E k \in Listed \cup Added :
        /\ k \in Listed => formRow[k] = "old"
        /\ formRow[k] # "new"
        /\ formRow' = [formRow EXCEPT ![k] = "new"]
    /\ UNCHANGED <<deletedIds, taken, saving, queue, failures, table, copies, saves>>

\* removeRow
RemoveRow ==
    /\ saving # "closed"
    /\ \E k \in Listed \cup Added :
        /\ formRow[k] # "none"
        /\ formRow' = [formRow EXCEPT ![k] = "none"]
        /\ deletedIds' = deletedIds \cup ({k} \cap Listed)
    /\ UNCHANGED <<taken, saving, queue, failures, table, copies, saves>>

\* handleSubmit starts over, with the deletions.
Save ==
    /\ saving = "no"
    /\ saves < MaxSaves
    /\ saves' = saves + 1
    /\ saving' = "deleting"
    /\ taken' = [rows |-> formRow, deleted |-> deletedIds]
    /\ queue' = deletedIds
    /\ failures' = FALSE
    /\ UNCHANGED <<formRow, deletedIds, table, copies>>

\* DELETE /api/needs/[id]: 404 for a need that is gone, and any exchange may
\* fail with or without its effect.
DeleteRow ==
    /\ saving = "deleting"
    /\ \E k \in queue :
        /\ queue' = queue \ {k}
        /\ \/ /\ table[k] # "gone"
              /\ table' = [table EXCEPT ![k] = "gone"] /\ UNCHANGED failures
           \/ /\ table' \in {table, [table EXCEPT ![k] = "gone"]}
              /\ failures' = TRUE
    /\ UNCHANGED <<formRow, deletedIds, taken, saving, copies, saves>>

SendRows ==
    /\ saving = "deleting" /\ queue = {}
    /\ saving' = "sending"
    /\ queue' = {k \in Listed \cup Added : taken.rows[k] # "none"}
    /\ UNCHANGED <<formRow, deletedIds, taken, failures, table, copies, saves>>

\* PATCH /api/needs/[id] for a listed row, POST for an added one.
Stored(k) ==
    IF k \in Listed
    THEN /\ table[k] # "gone"
         /\ table' = [table EXCEPT ![k] = taken.rows[k]]
         /\ UNCHANGED copies
    ELSE copies' = [copies EXCEPT ![k] = @ + 1] /\ UNCHANGED table

SendRow ==
    /\ saving = "sending"
    /\ \E k \in queue :
        /\ queue' = queue \ {k}
        /\ \/ Stored(k) /\ UNCHANGED failures
           \/ failures' = TRUE /\ (Stored(k) \/ UNCHANGED <<table, copies>>)
    /\ UNCHANGED <<formRow, deletedIds, taken, saving, saves>>

\* Mutant: the modal closes with the last request, whatever came before it.
FinishAnyway ==
    /\ saving = "sending" /\ queue = {}
    /\ saving' = "closed"
    /\ UNCHANGED <<formRow, deletedIds, taken, queue, failures, table, copies, saves>>

\* The modal closes, or stays to show what failed.
FinishSave ==
    /\ saving = "sending" /\ queue = {}
    /\ saving' = IF failures THEN "no" ELSE "closed"
    /\ UNCHANGED <<formRow, deletedIds, taken, queue, failures, table, copies, saves>>

\* Another coordinator deletes a need meanwhile.
DeletedElsewhere ==
    /\ saving # "closed"
    /\ \E k \in Listed : table[k] # "gone" /\ table' = [table EXCEPT ![k] = "gone"]
    /\ UNCHANGED <<formRow, deletedIds, taken, saving, queue, failures, copies, saves>>

NeedFormNext ==
    \/ EditRow \/ RemoveRow \/ Save
    \/ DeleteRow \/ SendRows \/ SendRow \/ FinishSave
    \/ DeletedElsewhere

NeedFormSpec == NeedFormInit /\ [][NeedFormNext]_needFormVars

-----------------------------------------------------------------------------
(* Properties. *)

\* A modal that closed as saved left the server with the list it was sent:
\* what was taken off is gone, what was added is there, and once only unless
\* an earlier submission had failed (NeedFormModal.tsx:155-197).
SavedMeansStored ==
    saving = "closed" =>
        /\ \A k \in taken.deleted : table[k] = "gone"
        /\ \A k \in Added : taken.rows[k] # "none" => copies[k] >= 1
        /\ saves = 1 => \A k \in Added : copies[k] <= 1
=============================================================================
