----------------------------- MODULE AuditRevert -----------------------------
(***************************************************************************)
(* lib/auditLog.ts: administrators edit records, every edit is recorded    *)
(* after it has committed, and a recorded edit can be reverted together    *)
(* with everything recorded on the same record since.                      *)
(*                                                                         *)
(* An edit reads the record (Start), commits (Commit) and is recorded      *)
(* (Record), or its entry is lost (Lose): other edits and reverts come in  *)
(* between.  Whether an edit's own checks still hold when it commits is    *)
(* Administration's subject, so Commit makes them.                         *)
(*                                                                         *)
(* A revert is one transaction of many statements under READ COMMITTED: it *)
(* finds its chain first (BeginRevert), and each of its steps reads rows   *)
(* as they were at some moment since then (past), its own writes apart.    *)
(* What a step writes stays locked until the end, so the writes, their     *)
(* conditions, the foreign keys and the unique indexes are those of the    *)
(* moment it commits (CommitRevert).                                       *)
(***************************************************************************)
EXTENDS Integers, Sequences, SequencesExt, FiniteSetsExt

CONSTANTS
    Gminas, Orgs, Users, Invites,   \* the records, by key
    Names,                          \* names a gmina can have
    Null,                           \* no gmina, no organization, no name
    Slots,                          \* edits served at the same time
    Reverts,                        \* reverts served at the same time
    MaxLog,                         \* bound: entries in the log
    MaxEdits                        \* bound: edits in a behaviour

VARIABLES
    row,        \* the rows, one kind of record for all four tables
    log,        \* AuditLog, in the order of seq
    edit,       \* edit[s]: what a handler is doing
    edits,      \* bounded: edits so far
    revert,     \* revert[r]: the transaction of a revert
    told,       \* history: all that happened to the record is in the log, in order
    overtaken   \* history: records a revert wrote or left on what it had read of a
                \* record, or of the log, that was no longer so

vars == <<row, log, edit, edits, revert, told, overtaken>>

-----------------------------------------------------------------------------
Entities == Gminas \cup Orgs \cup Users \cup Invites
States == {"UNBORN", "NONE", "ACTIVE", "INACTIVE", "OPEN", "REVOKED", "USED", "EXPIRED"}
Row == [there : BOOLEAN, name : Names \cup {Null}, gmina : Gminas \cup {Null},
        org : Orgs \cup {Null}, role : {"NONE", "ADMIN", "VOLUNTEER"}, state : States]
Actions == {"CREATE", "UPDATE", "DELETE", "UNLOCK", "REVOKE", "REACTIVATE"}
Entry == [entity : Entities, action : Actions, before : Row, after : Row,
          gmina : Gminas \cup {Null}, isRevert : BOOLEAN, reverted : BOOLEAN]
Fields == {"all", "name", "gmina", "place", "role", "state", "none"}
Edit == [phase : {"idle", "read", "done"}, entity : Entities, action : Actions,
         field : Fields, to : Row, before : Row, after : Row]
\* The entry asked for, the entries to undo, and the rows committed since the
\* transaction began.
Reverting == [open : BOOLEAN, actor : Users, k : 0 .. MaxLog, chain : SUBSET (1 .. MaxLog),
              past : SUBSET [Entities -> Row]]

ASSUME BoundsAreNat == MaxLog \in Nat /\ MaxEdits \in Nat
ASSUME KeysAreApart ==
    /\ Gminas \cap Orgs = {} /\ Gminas \cap Users = {} /\ Gminas \cap Invites = {}
    /\ Orgs \cap Users = {} /\ Orgs \cap Invites = {} /\ Users \cap Invites = {}
    /\ Null \notin Entities

Absent == [there |-> FALSE, name |-> Null, gmina |-> Null, org |-> Null,
           role |-> "NONE", state |-> "NONE"]
Unborn == [Absent EXCEPT !.state = "UNBORN"]
NoEdit == [phase |-> "idle", entity |-> CHOOSE e \in Entities : TRUE, action |-> "UPDATE",
           field |-> "none", to |-> Absent, before |-> Absent, after |-> Absent]
NoRevert == [open |-> FALSE, actor |-> CHOOSE u \in Users : TRUE, k |-> 0, chain |-> {},
             past |-> {}]

GminaRows == {Unborn} \cup {[Absent EXCEPT !.there = TRUE, !.name = n] : n \in Names}
OrgRows == {Unborn} \cup {[Absent EXCEPT !.there = TRUE, !.gmina = g] : g \in Gminas}
UserRows == [there : {TRUE}, name : {Null}, gmina : Gminas \cup {Null}, org : Orgs \cup {Null},
             role : {"ADMIN", "VOLUNTEER"}, state : {"ACTIVE", "INACTIVE"}]
InviteRows == [there : {TRUE}, name : {Null}, gmina : {Null}, org : {Null}, role : {"NONE"},
               state : {"OPEN", "REVOKED", "USED", "EXPIRED"}]

TypeOK ==
    /\ row \in [Entities -> Row]
    /\ \A e \in Entities : row[e] \in
        {Unborn, Absent} \cup (CASE e \in Gminas -> GminaRows [] e \in Orgs -> OrgRows
                               [] e \in Users -> UserRows [] OTHER -> InviteRows)
    /\ log \in Seq(Entry) /\ Len(log) <= MaxLog
    /\ edit \in [Slots -> Edit]
    /\ edits \in 0 .. MaxEdits
    /\ revert \in [Reverts -> Reverting]
    /\ told \in [Entities -> BOOLEAN]
    /\ overtaken \subseteq Entities

-----------------------------------------------------------------------------
(* What the tables and the routes demand of a row. *)

Members(db, o) == {u \in Users : db[u].there /\ db[u].org = o}

\* Foreign keys, all RESTRICT.
Refers(db, r) == /\ r.gmina # Null => db[r.gmina].there
                 /\ r.org # Null => db[r.org].there
Referenced(db, e) == \E x \in Entities : db[x].there /\ (db[x].gmina = e \/ db[x].org = e)

NameIsFree(db, e, name) == \A g \in Gminas \ {e} : db[g].there => db[g].name # name

IsActiveAdmin(r) == r.there /\ r.role = "ADMIN" /\ r.state = "ACTIVE"
LosesAdmin(r, next) == IsActiveAdmin(r) /\ ~IsActiveAdmin(next)
IsLastActiveAdmin(db, u) == {x \in Users : IsActiveAdmin(db[x])} = {u}
HasItsGmina(r) == r.role # "ADMIN" => r.gmina # Null

-----------------------------------------------------------------------------
(* Edits. *)

Applied(r, e) ==
    CASE e.field = "all"   -> e.to
      [] e.field = "name"  -> [r EXCEPT !.name = e.to.name]
      [] e.field = "gmina" -> [r EXCEPT !.gmina = e.to.gmina]
      [] e.field = "place" -> [r EXCEPT !.gmina = e.to.gmina, !.org = e.to.org]
      [] e.field = "role"  -> [r EXCEPT !.role = e.to.role]
      [] e.field = "state" -> [r EXCEPT !.state = e.to.state]
      [] e.field = "none"  -> r

Put(field, values) == [field : {field}, to : values]

\* What the routes can be asked to do with a record, by its kind.
GminaEdits ==
    LET named == {[Absent EXCEPT !.there = TRUE, !.name = n] : n \in Names}
    IN  [action : {"CREATE"}, want : Put("all", named)]
        \cup [action : {"UPDATE"}, want : Put("name", named)]
        \cup [action : {"DELETE"}, want : Put("all", {Absent})]
OrgEdits ==
    LET located == {[Absent EXCEPT !.there = TRUE, !.gmina = g] : g \in Gminas}
    IN  [action : {"CREATE"}, want : Put("all", located)]
        \cup [action : {"UPDATE"}, want : Put("gmina", located)]
        \cup [action : {"DELETE"}, want : Put("all", {Absent})]
UserEdits ==
    LET placed == [there : {FALSE}, name : {Null}, gmina : Gminas \cup {Null}, org : Orgs \cup {Null},
                   role : {"NONE"}, state : {"NONE"}]
    IN
    [action : {"UPDATE"},
     want : Put("place", placed)
            \cup Put("role", {[Absent EXCEPT !.role = r] : r \in {"ADMIN", "VOLUNTEER"}})
            \cup Put("state", {[Absent EXCEPT !.state = s] : s \in {"ACTIVE", "INACTIVE"}})]
    \cup [action : {"DELETE"}, want : Put("all", {Absent})]
    \cup [action : {"UNLOCK"}, want : Put("none", {Absent})]
InviteEdits ==
    [action : {"CREATE"}, want : Put("all", {[Absent EXCEPT !.there = TRUE, !.state = "OPEN"]})]
    \cup [action : {"REVOKE"}, want : Put("state", {[Absent EXCEPT !.state = "REVOKED"]})]
    \cup [action : {"REACTIVATE"}, want : Put("state", {[Absent EXCEPT !.state = "OPEN"]})]

EditsOf(e) == IF e \in Gminas THEN GminaEdits
              ELSE IF e \in Orgs THEN OrgEdits
              ELSE IF e \in Users THEN UserEdits ELSE InviteEdits

\* A handler finds its record before it changes it.
Finds(e, action) ==
    CASE action = "CREATE"     -> row[e] = Unborn
      [] action = "REVOKE"     -> row[e].state = "OPEN"
      [] action = "REACTIVATE" -> row[e].state \in {"REVOKED", "EXPIRED"}
      [] OTHER                 -> row[e].there

\* ... and the row it leaves behind is one its checks and the tables accept.
Accepts(e, next) ==
    /\ Refers(row, next)
    /\ next.there \/ ~Referenced(row, e)
    /\ e \in Gminas /\ next.there => NameIsFree(row, e, next.name)
    /\ e \in Users =>
        /\ LosesAdmin(row[e], next) => ~IsLastActiveAdmin(row, e)
        /\ next.there => HasItsGmina(next)
        /\ next.org # Null => row[next.org].gmina = next.gmina

InFlight(e) == \/ \E s \in Slots : edit[s].phase # "idle" /\ edit[s].entity = e
               \/ \E r \in Reverts : revert[r].open /\ log[revert[r].k].entity = e

\* What the open transactions have seen go by when these rows are committed.
Passing(rows) == [r \in Reverts |-> IF revert[r].open THEN [revert[r] EXCEPT !.past = @ \cup {rows}]
                                   ELSE revert[r]]

Start(s) == \E e \in Entities : \E ask \in EditsOf(e) :
    /\ edit[s] = NoEdit
    /\ edits < MaxEdits
    /\ Finds(e, ask.action)
    /\ Accepts(e, Applied(row[e], ask.want))
    /\ edit' = [edit EXCEPT ![s] = [NoEdit EXCEPT !.phase = "read", !.entity = e,
                    !.action = ask.action, !.field = ask.want.field, !.to = ask.want.to,
                    !.before = IF ask.action = "CREATE" THEN Absent ELSE row[e]]]
    /\ edits' = edits + 1
    /\ told' = [told EXCEPT ![e] = @ /\ ~InFlight(e)]
    /\ UNCHANGED <<row, log, revert, overtaken>>

\* An organization that moves takes its members along, here and in a revert.
WithMembers(db, members, g) ==
    [x \in Entities |-> IF x \in members THEN [db[x] EXCEPT !.gmina = g] ELSE db[x]]

Commit(s) ==
    /\ edit[s].phase = "read"
    /\ LET e == edit[s].entity
           next == Applied(row[e], edit[s])
           carried == e \in Orgs /\ next.there /\ row[e].there /\ next.gmina # row[e].gmina
           db == IF carried THEN WithMembers(row, Members(row, e), next.gmina) ELSE row
       IN  /\ Finds(e, edit[s].action)
           /\ Accepts(e, next)
           /\ row' = [db EXCEPT ![e] = next]
           /\ revert' = Passing(row')
           /\ edit' = [edit EXCEPT ![s].phase = "done", ![s].after = next]
           /\ told' = [x \in Entities |-> told[x] /\ ~(carried /\ x \in Members(row, e))]
    /\ UNCHANGED <<log, edits, overtaken>>

\* The gmina an entry is filed under: the record's own, the row's otherwise.
Filed(e, before, after) ==
    IF e \in Gminas THEN e ELSE IF after.there THEN after.gmina ELSE before.gmina

\* recordAudit
Record(s) ==
    /\ edit[s].phase = "done"
    /\ Len(log) < MaxLog
    /\ log' = Append(log, [entity |-> edit[s].entity, action |-> edit[s].action,
                           before |-> edit[s].before, after |-> edit[s].after,
                           gmina |-> Filed(edit[s].entity, edit[s].before, edit[s].after),
                           isRevert |-> FALSE, reverted |-> FALSE])
    /\ edit' = [edit EXCEPT ![s] = NoEdit]
    /\ UNCHANGED <<row, edits, revert, told, overtaken>>

\* The insert failed, or the process died after the edit committed.
Lose(s) ==
    /\ edit[s].phase = "done"
    /\ edit' = [edit EXCEPT ![s] = NoEdit]
    /\ told' = [told EXCEPT ![edit[s].entity] = FALSE]
    /\ UNCHANGED <<row, log, edits, revert, overtaken>>

\* A refused or failed edit.
Abandon(s) ==
    /\ edit[s].phase = "read"
    /\ edit' = [edit EXCEPT ![s] = NoEdit]
    /\ UNCHANGED <<row, log, edits, revert, told, overtaken>>

\* What happens to an invite without an entry: it is used, or it lapses.
Outside(i, state) ==
    /\ row[i].state = "OPEN" \/ (row[i].state = "REVOKED" /\ state = "EXPIRED")
    /\ row' = [row EXCEPT ![i].state = state]
    /\ revert' = Passing(row')
    /\ told' = [told EXCEPT ![i] = FALSE]
    /\ UNCHANGED <<log, edit, edits, overtaken>>

-----------------------------------------------------------------------------
(* Reverts. *)

\* REVERTIBLE_ACTIONS
Revertible(entry) ==
    CASE entry.entity \in Users   -> entry.action = "UPDATE"
      [] entry.entity \in Invites -> entry.action \in {"CREATE", "REVOKE"}
      [] OTHER                    -> entry.action \in {"CREATE", "UPDATE", "DELETE"}

Opposite(e, action) ==
    CASE e \in Invites /\ action = "CREATE" -> "REVOKE"
      [] e \in Invites /\ action = "REVOKE" -> "CREATE"
      [] e \notin Invites /\ action = "CREATE" -> "DELETE"
      [] e \notin Invites /\ action = "DELETE" -> "CREATE"
      [] OTHER -> action

\* Mutant: a revert of a revert repeats the branch of the original.
EffectiveActionAsRecorded(step) == step.action

\* effectiveAction: to revert a revert is to do the opposite.
EffectiveAction(step) == IF step.isRevert THEN Opposite(step.entity, step.action) ELSE step.action

Refused == [ok |-> FALSE, db |-> <<>>]
Undone(db) == [ok |-> TRUE, db |-> db]
Unless(fails, db) == IF fails THEN Refused ELSE Undone(db)

\* Below, db is what a step writes to, and view what it has read before.

\* Mutant: the organization's present gmina is not looked at.
UndoUserBlindly(db, view, step, actor) ==
    LET e == step.entity  to == step.before
    IN  Unless(\/ ~view[e].there
               \/ e = actor /\ view[e].state = "ACTIVE" /\ to.state = "INACTIVE"
               \/ LosesAdmin(view[e], to) /\ IsLastActiveAdmin(view, e)
               \/ ~HasItsGmina(to) \/ ~Refers(db, to)
               \/ db[e] # step.after,
               [db EXCEPT ![e] = to])

\* revertUser
UndoUser(db, view, step, actor) ==
    LET e == step.entity  to == step.before
    IN  Unless(\/ ~view[e].there
               \/ e = actor /\ view[e].state = "ACTIVE" /\ to.state = "INACTIVE"
               \/ LosesAdmin(view[e], to) /\ IsLastActiveAdmin(view, e)
               \/ ~HasItsGmina(to)
               \/ to.org # Null /\ (view[to.org].there => view[to.org].gmina # to.gmina)
               \/ ~Refers(db, to)
               \/ db[e] # step.after,
               [db EXCEPT ![e] = to])

\* The branches revertGmina and revertOrganization share.
UndoCreation(db, e) == Unless(~db[e].there \/ Referenced(db, e), [db EXCEPT ![e] = Absent])

\* Nothing is made of an entry that has no row from before, the one left by
\* the revert of a creation's revert.
UndoDeletion(db, view, e, to) ==
    Unless(\/ view[e].there \/ db[e].there \/ ~to.there \/ ~Refers(db, to)
           \/ e \in Gminas /\ ~(NameIsFree(view, e, to.name) /\ NameIsFree(db, e, to.name)),
           [db EXCEPT ![e] = to])

UndoRename(db, view, step) ==
    LET e == step.entity  name == step.before.name
    IN  Unless(~view[e].there \/ ~NameIsFree(view, e, name) \/ ~NameIsFree(db, e, name)
                   \/ db[e] # step.after,
               [db EXCEPT ![e] = step.before])

\* The members that the statement finds and that are still there when it comes
\* to write them.
UndoMove(db, view, step) ==
    LET e == step.entity  to == step.before
        moved == IF view[e].gmina = to.gmina THEN {} ELSE Members(db, e) \cap Members(view, e)
    IN  Unless(~view[e].there \/ ~Refers(db, to) \/ db[e] # step.after,
               [WithMembers(db, moved, to.gmina) EXCEPT ![e] = to])

\* revertGmina, revertOrganization
UndoPlace(db, view, step) ==
    CASE EffectiveAction(step) = "CREATE" -> UndoCreation(db, step.entity)
      [] EffectiveAction(step) = "DELETE" -> UndoDeletion(db, view, step.entity, step.before)
      [] OTHER -> IF step.entity \in Gminas THEN UndoRename(db, view, step) ELSE UndoMove(db, view, step)

\* revertInvite: it can only be withdrawn, or have its withdrawal undone.  (One
\* that was made usable and withdrawn anew counts as withdrawn all along.)
UndoInvite(db, view, step) ==
    LET i == step.entity  seen == view[i].state  now == db[i].state
    IN  IF EffectiveAction(step) = "CREATE"
        THEN Unless(~view[i].there \/ seen = "USED" \/ (seen # "REVOKED" /\ now \in {"REVOKED", "USED"}),
                    [db EXCEPT ![i].state = IF seen # "REVOKED" /\ now = "OPEN" THEN "REVOKED" ELSE now])
        ELSE Unless(~view[i].there \/ seen # "REVOKED" \/ now \in {"OPEN", "USED"},
                    [db EXCEPT ![i].state = IF now = "REVOKED" THEN "OPEN" ELSE now])

Undo(db, view, step, actor) ==
    CASE step.entity \in Users   -> UndoUser(db, view, step, actor)
      [] step.entity \in Invites -> UndoInvite(db, view, step)
      [] OTHER                   -> UndoPlace(db, view, step)

\* The records that a step changes, or leaves where they are, on what is no
\* longer so: its own, an organization's members.
Outrun(db, view, step) ==
    LET e == step.entity  home == step.before.org
    IN  IF view[e] # db[e] \/ (home # Null /\ view[home] # db[home])
        THEN {e} \cup Members(db, e)
        ELSE {x \in Members(db, e) : view[x] # db[x]}

\* The entries a revert of the k-th one takes with it: all that still stand.
Chain(k) == {j \in k .. Len(log) : log[j].entity = log[k].entity /\ ~log[j].reverted}

\* Mutant: the entry of a revert keeps the sides of the original.
RevertEntryUnswapped(step) == [step EXCEPT !.isRevert = TRUE, !.reverted = FALSE]

\* A revert is an edit too, recorded with its sides exchanged.
RevertEntry(step) ==
    [step EXCEPT !.before = step.after, !.after = step.before, !.isRevert = TRUE, !.reverted = FALSE]

\* What a step reads: its own record at one moment and the others at another,
\* and what the transaction has written itself as it left it.
View(done, e, read) ==
    [x \in Entities |-> IF x \in done.wrote THEN done.db[x]
                        ELSE IF x = e THEN read.own[x] ELSE read.others[x]]

\* A step: the record, the mark on the entry, the revert's own entry.
StepBack(done, j, read, actor) ==
    LET view == View(done, log[j].entity, read)
        undone == Undo(done.db, view, log[j], actor)
    IN  [ok |-> undone.ok, db |-> undone.db,
         wrote |-> done.wrote \cup {x \in Entities : undone.ok /\ undone.db[x] # done.db[x]},
         outrun |-> done.outrun \cup Outrun(done.db, view, log[j]),
         log |-> Append([done.log EXCEPT ![j].reverted = TRUE], RevertEntry(log[j]))]

\* What the steps through the entries of the chain come to, the newest first.
Rewind(k, chain, reads, actor) ==
    LET done[n \in 0 .. Len(log) - k + 1] ==
            IF n = 0 THEN [ok |-> TRUE, db |-> row, wrote |-> {}, outrun |-> overtaken, log |-> log]
            ELSE LET j == Len(log) - n + 1
                 IN  IF done[n - 1].ok /\ j \in chain
                     THEN StepBack(done[n - 1], j, reads[j], actor) ELSE done[n - 1]
    IN  done

RunSteps(k, chain, reads, actor) == Rewind(k, chain, reads, actor)[Len(log) - k + 1]

\* restrictToGminaId: the route's check and the one on the whole chain.
WithinScope(actor, k) ==
    row[actor].gmina # Null => \A j \in Chain(k) : log[j].gmina = row[actor].gmina

\* The request is let in, and the transaction finds the entry and its chain.
BeginRevert(r, actor, k) ==
    /\ ~revert[r].open
    /\ IsActiveAdmin(row[actor])
    /\ ~log[k].reverted
    /\ Revertible(log[k])
    /\ WithinScope(actor, k)
    /\ \A j \in Chain(k) : Revertible(log[j])
    /\ Len(log) + Cardinality(Chain(k)) <= MaxLog
    /\ revert' = [revert EXCEPT ![r] = [open |-> TRUE, actor |-> actor, k |-> k,
                                        chain |-> Chain(k), past |-> {row}]]
    /\ told' = [told EXCEPT ![log[k].entity] = @ /\ ~InFlight(log[k].entity)]
    /\ UNCHANGED <<row, log, edit, edits, overtaken>>

\* Every step has gone through, and the transaction commits.
CommitRevert(r) ==
    /\ revert[r].open
    /\ LET k == revert[r].k
           chain == revert[r].chain
           e == log[k].entity
           past == revert[r].past
       IN  /\ Len(log) + Cardinality(chain) <= MaxLog
           /\ \E reads \in [chain -> [own : past, others : past]] :
                LET run == RunSteps(k, chain, reads, revert[r].actor)
                IN  /\ run.ok
                    /\ row' = run.db
                    /\ log' = run.log
                    /\ overtaken' = run.outrun \cup (IF chain = Chain(k) THEN {} ELSE {e})
           /\ told' = [x \in Entities |->
                          told[x] /\ x \notin overtaken' /\ (x # e => row'[x] = row[x])]
           /\ revert' = [Passing(row') EXCEPT ![r] = NoRevert]
    /\ UNCHANGED <<edit, edits>>

\* A step was refused or failed, and everything is rolled back.
AbortRevert(r) ==
    /\ revert[r].open
    /\ revert' = [revert EXCEPT ![r] = NoRevert]
    /\ UNCHANGED <<row, log, edit, edits, told, overtaken>>

-----------------------------------------------------------------------------
Init ==
    /\ \E gminas \in [Gminas -> GminaRows], orgs \in [Orgs -> OrgRows], users \in [Users -> UserRows] :
        row = [e \in Entities |-> IF e \in Gminas THEN gminas[e] ELSE IF e \in Orgs THEN orgs[e]
                                  ELSE IF e \in Users THEN users[e] ELSE Unborn]
    /\ \A e \in Entities : row[e].there => Refers(row, row[e])
    /\ \A g \in Gminas : row[g].there => NameIsFree(row, g, row[g].name)
    /\ \A u \in Users : HasItsGmina(row[u])
    /\ \A u \in Users : row[u].org # Null => row[row[u].org].gmina = row[u].gmina
    /\ \E u \in Users : IsActiveAdmin(row[u])
    /\ log = << >>
    /\ edit = [s \in Slots |-> NoEdit]
    /\ edits = 0
    /\ revert = [r \in Reverts |-> NoRevert]
    /\ overtaken = {}
    /\ told = [e \in Entities |-> TRUE]

Next ==
    \/ \E s \in Slots : Start(s) \/ Commit(s) \/ Record(s) \/ Lose(s) \/ Abandon(s)
    \/ \E i \in Invites, state \in {"USED", "EXPIRED"} : Outside(i, state)
    \/ \E r \in Reverts : \E actor \in Users, k \in DOMAIN log : BeginRevert(r, actor, k)
    \/ \E r \in Reverts : CommitRevert(r) \/ AbortRevert(r)

Spec == Init /\ [][Next]_vars

-----------------------------------------------------------------------------
(* Properties. *)

Undoing(e) == {k \in DOMAIN log : log[k].entity = e /\ ~log[k].reverted /\ log'[k].reverted}

\* A user of an organization has the organization's gmina, whatever is
\* reverted: a user's old placement is refused once the organization is
\* elsewhere, and a reverted move carries the members (auditLog.ts:609-619,
\* 896-915).  Nothing holds the organization between that read and the user's
\* write (auditLog.ts:610-675), nor the members between theirs and the commit:
\* those left behind in this way are overtaken.
MembersFollow ==
    \A u \in Users \ overtaken :
        row[u].there /\ row[u].org # Null => row[row[u].org].gmina = row[u].gmina

\* When every edit of a record was recorded, none overlapped another or a
\* revert, and none of its reverts was overtaken, the newest entry of its
\* history shows the record as it is, reverts included.
LogTellsState ==
    \A e \in Entities \ Invites :
        LET history == {k \in DOMAIN log : log[k].entity = e}
        IN  told[e] /\ ~InFlight(e) /\ history # {} => row[e] = log[Max(history)].after

\* The earliest entry a revert goes through is the one that was asked for.
AskedFor(e) == log[Min(Undoing(e))]

\* A revert that succeeds leaves a record exactly as it was before the entry
\* that was asked for, however many entries it went through
\* (auditLog.ts:381-389).  An invite it has withdrawn, or made usable again, as
\* that entry says, reverts of reverts included; one that somebody used is left
\* alone (auditLog.ts:335-349, 965-1003).  A record whose row, or whose entries,
\* had moved on since the transaction read them is overtaken.
RevertsTakeEffect ==
    [][/\ \A e \in Entities \ (Invites \cup overtaken') :
              Undoing(e) # {} => row'[e] = AskedFor(e).before
       /\ \A i \in Invites \ overtaken' : Undoing(i) # {} =>
              /\ row[i].state # "USED"
              /\ (row'[i].state = "OPEN")
                     = ((AskedFor(i).action = "REVOKE") # AskedFor(i).isRevert)]_vars

\* Undoing a history step by step, each step finds what the step before it
\* left, unless something outside the history touched the record
\* (auditLog.ts:453-456).
ChainsLinkUp ==
    \A k \in DOMAIN log : \A j \in Chain(k) \ {k} :
        LET older == {i \in Chain(k) : i < j}
        IN  ~log[k].reverted /\ told[log[k].entity] /\ log[k].entity \notin Invites
                => log[Max(older)].after = log[j].before
=============================================================================
