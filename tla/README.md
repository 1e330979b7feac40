# FundacjaQ: TLA+ models and proofs

FundacjaQ is a crisis-response application (Next.js, Prisma, PostgreSQL, Redis).
Municipalities (*gminas*) raise alerts, alerts declare needs, organizations
declare resources and allocate units of them to needs, recipients return the
units or write them off. Around that stand accounts and their administration,
an audit log that can revert what it records, live events, and a browser
interface that keeps lists, maps and forms up to date. Everything on the server
runs in stateless request handlers: the shared state is rows in PostgreSQL and
keys in Redis, and requests interleave wherever a handler awaits. PostgreSQL
runs at its default isolation level, READ COMMITTED.

This directory holds TLA+ modules translated from that code, the TLC instances
that check them, and TLAPS proofs. Paths below are relative to the repository;
`lib/`, `api/` and `components/` are under `src/`.

## Inventory

| Part | State it keeps | Operations | What is hard about it | What makes it correct | Here |
|---|---|---|---|---|---|
| Resource ledger (`api/{alerts,needs,resources,allocations}`, `lib/allocations.ts`, `lib/resourceAuthz.ts`) | rows of Alert, AlertNeed, Resource, ResourceAllocation, AllocationReturnEvent | create, edit, delete; allocate; advance; record a return; cancel with return | denormalized counters moved by five handlers; checks made outside the transaction; cascades and SetNull | counters equal what the rows say, settled is final, nothing in flight is orphaned | modelled, checked, proved; overlapping requests too |
| What the pages offer on the ledger, the allocation inbox | none of their own | which button, which amount, whose inbox | a page's rule and its route's rule are written twice | what is offered is accepted; a closed alert's loans can be worked off | rules modelled, checked, proved; request state of the modals not |
| Session status (`lib/auth.ts`, `lib/userStatusCache.ts`) | Redis copy of an account's status, a JWT per session | sign in, re-validate, write and invalidate | a fill that read before the write lands after the invalidation; Redis calls fail | a revoked account acts at most a bounded time longer | modelled, checked, proved |
| Login protection (`lib/lockout.ts`, `lib/ipLockout.ts`, `lib/loginPairLockout.ts`, `lib/escalatingBlock.ts`) | counters and locks in PostgreSQL and Redis | attempt, fail, succeed, unlock | two stores, several keys, every call may fail | a lock in force is not passed; every lock ends | modelled, checked, proved |
| Accounts, organizations, gminas, invitations (`api/admin`, `app/invite`, `lib/authz.ts`, `lib/scopeChangeNotice.ts`) | User, Organization, Gmina, InviteToken rows | create, edit, (de)activate, delete, move, invite, revoke, reactivate, accept | count-then-act on the last administrator; members follow a moving organization | an administrator remains; assignments agree; one account per invitation | modelled, checked, proved |
| Audit log and revert (`lib/auditLog.ts`) | AuditLog rows with snapshots | record, revert with everything later | entries lost after a commit, reverts of reverts, commits between a revert's reads and its writes | a revert restores what the entry says; the newest entry tells the row | modelled, checked, proved |
| Access cache of alerts (`lib/alertAccessCache.ts`, journal routes) | Redis copy of an alert | look up, change, drop | late fills | a copy tells the row unless the fill was late | modelled, checked, proved |
| Event streams (`lib/adminEvents.ts`, `lib/sseConnectionLimit.ts`, `api/events`, `api/admin/events`) | slots per user, one Redis subscription | open, beat, sweep, close, reconnect | callbacks in any order, outages | slots count what is served; a stream hears again after an outage | modelled, checked, proved |
| Forgotten passwords (`api/auth/forgot-password`, `api/auth/reset-password`, `lib/attemptTracker.ts`) | attempt counters, PasswordResetToken | ask, count, challenge, use a link | counts read before they are raised; single use | one change per link; the captcha comes due | modelled, checked, proved |
| Profile updates (`api/user/me`) | counter and sticky requirement in Redis | update | two keys with lives of their own | the requirement comes in time and goes in time | modelled, checked, proved |
| Notices of a changed assignment (`ScopeChangeNoticeModal.tsx`, `api/user/scope-change-notice`) | pending notice of an account | move, announce, load, acknowledge | events and answers out of order, events lost | a waiting notice is shown | modelled, checked, proved |
| Nightly cleanup (`lib/cleanup.ts`, `instrumentation.ts`) | an advisory lock of a database connection | run, delete, unlock | lock and unlock through a pool | one process at a time; the lock comes back | modelled, checked, proved |
| Directories of the admin panel (`UsersDirectory`, `OrganizationsDirectory`, `GminasDirectory`, `lib/adminListCache.ts`) | filters, page, list, cache | filter, page, refetch, mount | answers overtake one another; cache against events; a refetch called from an older render | a directory shows the answer to its filters | modelled, checked, proved |
| Alert form and need list form (`AlertForm.tsx`, `NeedFormModal.tsx`) | drafts, what is stored already, pin | submit, retry, place the pin | several requests per click, any may fail; late geocoder answers | one alert per form; the latest input wins; saved means stored | modelled, checked, proved |
| Map page (`AlertsMapView.tsx`) | three sets of filters, pin and card in focus | filter, switch, go from pin to card and back | filters set earlier hide what is asked for now | what the user goes to is there | filters modelled, checked, proved; open forms not |
| Journal page (`AlertOperationalJournal.tsx`), audit log page (`AuditLogDirectory.tsx`), resource matrix page (`ResourceMatrixView.tsx`, `ResourceMatrixCellDrawer.tsx`) | lists and figures loaded by requests | open, reload for events, page, save | answers out of order, events lost or filtered out, entries seen after newer ones | a quiet page shows what the server has | modelled, checked, proved |
| Middleware, rate limits | none; counters of a library | | | | not modelled |
| Access cache of resources, allocation messages, dashboard, matching, labels, external services, single-request modals, seed | | | | | not modelled (last section) |

How the parts meet: every route first asks the session (jwt callback, status
cache) who calls; ledger and administration routes then read and write their
tables, record an audit entry *after* the commit, drop the cached copies and
publish an event that open tabs use to refetch. The ledger never reads the
caches before a write (`api/alerts/[id]/allocations/route.ts:92-99` says why), so
its correctness depends on its tables alone. What one part needs of another is
written into its model as an input: a session is admitted or not, an event comes
late or twice, a request is stored or refused.

## Modules

| Module | Models |
|---|---|
| `Quantities` | the sum of an integer column over rows, as a cardinality (so that it can be proved about without recursion) |
| `ResourceLedger` | the five tables and every handler that writes them, one request at a time |
| `ResourceRaces` | the same handlers when requests overlap |
| `DonorStock`, `LedgerStock` | abstract specification of what a donor is promised, and the mapping from the ledger to it |
| `LedgerViews` | what the pages offer on the ledger, and the inbox |
| `AccountStatus`, `SessionPromise`, `SessionStatus` | what a session is judged by; the promise without a cache; the jwt callback and the writers over the cache |
| `LoginLockout` | signing in, failing and being locked out |
| `Administration` | accounts, organizations, gminas, invitations |
| `AuditRevert` | edits, their entries, reverts |
| `AlertAccess`, `LiveStreams`, `PasswordReset`, `ProfileUpdate`, `ScopeNotice`, `RetentionCleanup` | the smaller parts of the server |
| `AdminList`, `AlertSubmission`, `NeedListSave`, `PinPlacement`, `MapView`, `AlertJournal`, `AuditLogPages`, `ResourceMatrix` | the stateful pages of a tab |
| `MC...` | finite instances. `MCAdminPanel`, `MCServer` and `MCBrowser` put parts that share no state side by side |
| `..._proofs` | theorems |

### The ledger: ResourceLedger, ResourceRaces, DonorStock, LedgerViews

State: `alert` (status), `need` and `resource` (status and two numbers each),
`allocation` (the row) and `journal` (per allocation, the column sums of its
return events; the code never reads an event any other way). A row that was not
created is `"NEW"`, a deleted one `"GONE"`; keys are never reused, as with the
database's cuids. Columns fixed at creation (`Alert.organizationId`,
`AlertNeed.alertId`, ...) are constants.

Each handler `X` is `XAccepts` (the reads and early returns) and `XTx` (the
transaction, given the rows the handler saw). Nothing else in the application
writes these columns. The three CHECK constraints of the `20260921220000`
migration are conjuncts of the transactions: a statement that breaks one rolls
the transaction back, so the step is not taken. The order of two statements of
one transaction never matters to a constraint here: every row but the resource
is written by one statement, and a resource's decrements keep
`quantity - reservedQuantity` from falling. Abstracted: texts, dates, urgencies,
categories and units, parsing, messages, audit entries, cache invalidation,
events. Integer width is not modelled: PostgreSQL refuses a value outside its
INTEGER column, and every sum the handlers store is bounded by another column of
the same row through the CHECK constraints.

In `ResourceRaces` a request is served in two or three steps: `BeginX` takes the
reads before the transaction, `ReadX` the reads inside it that precede any lock
on what was read (the journal's sum, the allocations of a doomed alert, the
CLOSED needs a reactivation reopens and what covers them), `CommitX` the writes.
A commit is one step because each write holds its row lock to the end of its
transaction. One read that a transaction makes just before it writes what it
read is taken at its commit: the needs that a cancel closes. A request that
slips in between can only change the stored count of a need that ends up CLOSED,
of which `OpenNeedsBalanced` does not speak, or have a manual CANCELLED
overwritten. `Abort` ends a request anywhere. `Clients` requests are in progress
at once, and `Workloads` says which operations each sends.

The donor of `DonorStock` sees units on the shelf and units lent out.
`LedgerStock` maps the shelf to `quantity - reservedQuantity` of the resource
row, and the loans to the outstanding units of the *allocation* rows: the two
sides come from different tables and agree only while every handler moves a
counter by exactly what it does to the rows. `LedgerViews` states, for each
page, who sees which rows and which button with which amounts, from the
components' own conditions; its two properties compare that with the handlers.

### Sessions: SessionStatus and SessionPromise

One account, several sessions of it. `account` is the row as the jwt callback
judges it, `cache` the Redis copy with its time to live, `request[s]` how far a
session's current request got (`lookup`, `read`, `fill`, `judge`) and how long it
has been at it. The writers (deactivate, change of role, lock, unlock, reset,
delete, a direct edit) commit first and drop the copy later; the drop may fail.
`SessionPromise` has no cache: it judges an account by its row when nothing has
changed for longer than `Slack = TTL + 2 * MaxLag` ticks, and by anything it was
before otherwise. `PromiseKept` is the refinement.

### Signing in: LoginLockout

`row` is the account's counter and lock, `lockKey` its copy in Redis, `address`
the count and block of an address (`lib/ipLockout.ts` and
`lib/loginPairLockout.ts` are the same code on two keys), `attempt[a]` a request
in `authorize()`, each await a step. Instants are the ticks left until them.
`unlock` is the administrator's request to lift the lock.

### Administration and AuditRevert

`Administration` serves each request in two or three steps: what the handler
checks (`BeginX`), the second look at the organization inside the transaction of
the two routes that place a user (`Recheck`), and the write (`WriteX`).
`outdated` marks an account whose last write used data that had changed since it
was read, and `raced` that two removals of administrators overlapped; both are
history variables with which the properties name what the code accepts
(`lib/authz.ts:163-167` says so of the second).

`AuditRevert` keeps the rows of users, gminas, organizations and invitations as
far as the snapshots do, and the log. An edit reads, commits and is recorded in
three steps, and its entry may be lost. (That an edit's own checks still hold when
it commits is what `Administration` is about; here its commit makes them.)

A revert is one transaction, but of many statements under READ COMMITTED, and
others commit between them. `BeginRevert` lets the request in and finds the chain.
While it is open `revert[r].past` collects every committed state of the tables.
`CommitRevert` goes through the chain, newest entry first: each step may have read
its own record as it was in any of those states, and the other records it looks at
(the organization of `auditLog.ts:610-614`, the members of 896-915) as they were in
any other, its own transaction's writes apart. The writes themselves, their
conditions (`WHERE` the row is what the entry says it left), the foreign keys and the unique
indexes are evaluated on the rows of the moment it commits, because a row that a step
has written stays locked until then. `AbortRevert` is a refusal or a failure anywhere.

Two history variables say what the code accepts. `told` marks records whose every
edit was recorded, none of which overlapped another or a revert. `overtaken` holds the
records that a revert wrote, or left where they were, on what it had read of a
record or of the log and was no longer so. The entry of the revert of a creation
shows the row after it and none before; reverting that entry and then its own revert
asks for a row that no snapshot holds, which `UndoDeletion` refuses as the code does.

### The parts of the server: MCServer

`AlertAccess` (a lookup that fills, a change that drops), `LiveStreams` (slots,
beats, sweeps, the subscription and its `ready` handler), `PasswordReset` (asking
for links with their counter, captcha and form, and using them), `ProfileUpdate`
(the sticky requirement), `ScopeNotice` (the notice, its event, which may be lost, and
the modal) and
`RetentionCleanup` (the cron jobs, the lock and the pool) are explored by one run
together with `AuditRevert`. They share no state, so that a behaviour of the
product projects to one of each and nothing would be gained from interleaving
them: the variable `part` picks one and the others stay where they start.

### The pages: MCAdminPanel and MCBrowser

The directories of the admin panel are explored beside `Administration`
(`MCAdminPanel`), the other seven pages by `MCBrowser`, in the same arrangement as the
parts of the server. Each has the component's state, its
requests in flight as a set of pending questions (served at one moment, answered
at another, in any order, or lost), and the server's data as a version that
others change. What the code does about late answers (a request counter, an
abort, a comparison, or nothing) is in the action that takes the answer.

Events are best-effort (`lib/adminEvents.ts:79-86`): a publication that fails is
swallowed, a stream has gaps while it reconnects, and a tab filters by gmina. So a
change of the server's data either puts an event on its way to the tab or is unheard
from the start, and the parts keep which changes those were (`unheard`,
`unheardReplies`, `missed`). A handler that awaits a request and then refetches does so
with the filters of the render it was created in (`Acted` of `AdminList`, `Reverted` of
`AuditLogPages`, `AnswerSave` of `ResourceMatrix`), while an event's handler is that of
the latest render. In `AuditLogPages` an entry gets its number when it is inserted and
is seen when its transaction commits, so that a lower number may appear after a
higher one.

## Runs

| Run | Expect | Instance | Shows |
|---|---|---|---|
| `ledger` | pass | 1 alert, 1 need, 2 resources, 3 allocations, quantities up to 2 | needs, statuses and journal agree, a closed alert's loans can be worked off, and every step is one of `DonorStock` (`StockRefined`) |
| `two_alerts` | pass | 2 alerts (one the donor's), 2 needs, 1 resource, 3 allocations of one unit; the administrator belongs to the donor's gmina | the recipient's cancelled alert leaves nothing undecided; what any page offers, its route accepts |
| `races` | pass | 2 requests at once, in four workloads: donors and editors; one that settles, allocates and deletes beside an editor of alert and resource; one that settles beside one that allocates and edits; two that settle or delete | counters, references and settlements survive the overlap while at most one client settles; the needs' counters survive all of it |
| `race_two_returns` | violation | allocate, advance, return; and return | two returns are both journaled beyond the allocated quantity |
| `sessions` | pass | 2 sessions, TTL 2, lag 1, 2 changes | `SessionStatus` implements `SessionPromise`; a session of an account deactivated for good ends for good |
| `login` | pass | 2 attempts at once, the lock after 2 failures, two tiers, a Redis that fails | a lock in force stops everyone, ends in time and comes at the threshold; without further failures everything opens again |
| `accounts` | pass | 3 addresses, 2 gminas, 1 organization, 1 invitation, 2 requests at once, 3 in all; a directory of 2 rows, one of which goes with the change, 3 choices and 2 requests at once | an administrator remains, a directory at rest shows the query it is set to, assignments agree, an invitation makes one account, global rights come from a global administrator, moves are announced |
| `half_moved` | violation | the accounts of `accounts` | a member created in the organization's former gmina |
| `server` | pass | the parts of `MCServer`, 2 or 3 actors in each | what each part of the server promises, `StreamsHear` under fairness |
| `revert_chain` | violation | 2 gminas, 1 organization, 2 users, 4 entries | an edit made before a deletion that was reverted cannot be reverted any more |
| `notice_missed` | violation | 3 moves, 2 loads | an acknowledgement removes a notice nobody saw |
| `browser` | pass | 2 needs, spots, replies or holders in each part; up to 3 requests at once | a page that has come to rest shows what it says it shows |

The four violations are disagreements between the code and its own comments;
`PROJECT.json` quotes both sides of each.

**Bounds.** Constants named `Max...` only limit how often something is started;
key sets limit how many rows exist. Ledger: quantity 2 is the smallest with a
partial return, a partial fulfilment and a return partly written off; three
allocations on two resources let one be settled while another is in flight on
the same resource and a third on the other. Two overlapping requests are what
every comment in the code about concurrency speaks of; with a third in all,
`accounts` has an organization move between the check and the write of another
request. Sessions: with a TTL of 2 and a lag of 1 a copy can be stored late,
outlive a change and expire; two changes let a revoked account come back. Login:
two attempts can stand on both sides of the threshold, and two tiers tell a
block that grows from one that does not. Four entries of the log hold an edit, a
deletion, its revert and one more edit. Three streams with a cap of two refuse
one. Four attempts with a threshold of two, asked by as many clients as the
instance has, read a count before it is raised and pass it. In the browser two
requests of one kind overtake one another. A user of a directory makes
three choices: one in a picker, one in another which the first may clear, and leaving
the page or changing a row between them. The audit log has three requests, so that the first
page, a change of filter and a reload from a former filter's render meet; one revert
is waited for under each filter. `server` and `revert_chain` have one revert open at a
time, beside two edits: the overlaps that matter are those of a revert with edits, and
the proofs hold for any number of both. The map of `browser` has one organization, whose
filter therefore hides nothing in the run; the proof has any set of them.

**Deadlock.** `CHECK_DEADLOCK FALSE` is set where an instance really stops:
keys are not reused and requests, edits and moves are counted, so that after
enough of them no request is left to make.

**Fairness.** Stated where the program schedules the step itself. `sessions`:
time passes and a request that has arrived is carried on (`WF(Tick)`,
`WF(Serve(s))`): every call it waits for has a timeout. `login`: time passes and
an attempt that has arrived is carried on. `server`: the Redis client reconnects
by itself and its `ready` handler then runs (`WF(LinkReady)`, `WF(Subscribe)`);
outages are bounded by `MaxDrops`, since against a connection that never stays up
nothing can be promised. Nobody is assumed to send a request, press a button or
acknowledge anything. The ledger has no background work and no liveness.

**Symmetry** permutes keys of rows or slots that no constant and no `CHOOSE` tells
apart, and only in runs without liveness.

## What the properties say, and what they excuse

Properties are stated in the modules, each with the lines it is about. Where the
code accepts an anomaly, the property names exactly that anomaly with a history
variable and must hold otherwise; these are the cases in which it is false of
the code:

- `AdminRemains` (`Administration`): two removals of administrators overlapped.
- `AssignmentsHold`: the row was last written from data that had changed since
  it was read: between `Recheck` and the write, in an edit that overlapped
  another of the same account, or from an invitation issued before its
  organization moved (`half_moved`).
- `MembersFollow`: a revert overtaken by others. `revertUser` reads the organization's
  gmina (`auditLog.ts:610-614`) and writes the user (675) with no lock between the two:
  when the organization moves in between, the user is left in its former gmina. In the
  same way the reverted move of an organization misses an account that joins it after
  the statement that moves the members (911) has looked for them.
- `LogTellsState`: an entry of the record was lost, edits overlapped one another or a
  revert, or a revert of it was overtaken.
- `RevertsTakeEffect`: the record's row had moved on since the revert read it, or entries of it
  were recorded or reverted since the revert found its chain.
- `WaitingNoticeIsShown`: the event of the notice was lost or not published, a load failed, or
  an acknowledgement was answered after the next notice had been shown. The next
  page load shows it, which is what `scopeChangeNotice.ts:69-74` relies on.
- `CopyTellsRow`: a lookup stored its copy after a change had dropped it, or the
  drop failed; the TTL ends it.
- `ThresholdLocks`: the write of the lock was lost.
- `CaptchaHolds`, `ChallengeHolds`: a call to Redis failed or its caller died
  between INCR and EXPIRE (the counter then has no expiry at all); the answer to
  a form was lost. Requests that had read the count before it was raised go
  unchallenged, one for each.
- `CleanupLockHolds`: an unlock used another connection than the lock (the lock
  then stays until that connection ends); a deletion failed, which unlocks
  beside the other three, or a connection was lost.
- `DirectoryHolds`: an answer for a component already gone, cached as fresh. A refetch called by a
  row's button or a saved form after its await (`UsersDirectory.tsx:251-254`, 459, 475, and
  the same in the other two): it asks for the query of the render it was clicked
  in, under a new request number, and supersedes the request for the query chosen
  since (`adrift`), until the page asks again. And changes whose event was lost.
- `PublishedOnce`: the answer to the alert's POST was lost, and the author tried
  again.
- `SavedMeansStored`: additions of a submission that failed in part are sent
  again, and stored twice.
- `LatestInputWins`: coordinates typed by hand do not cancel a search.
- `FiltersLetThrough`: an archived alert shown from its card, which the reset
  filters hide.
- `RowsRunWithoutGap`: a change of filter that failed, followed by "load more"; the reload
  after a revert, which asks for the filter of the render that was clicked and supersedes
  the one chosen since (`strayed`; its rows may also get a page of the chosen filter
  appended, `Mixed`); and an entry of a longer transaction that became visible after
  one with a higher number (`belated`).
- `OpenThreadIsComplete`: an answer that overtook a later one, a reply appended
  to a list not loaded, an event for a closed thread, a load that failed, and a reply whose
  event was lost or not published.
- `CellIsCurrent`: answers that overtook one another, a save answered after the
  holder changed, another user's change under an open drawer, and a change that the tab
  does not hear of (`missed`): its event was lost, or is that of an allocation or a return,
  which names the alert's gmina (`alerts/[id]/allocations/route.ts:254`,
  `return-events/route.ts:138`) and so is kept from a donor's tab of another gmina
  (`api/events/route.ts:74`, `ResourceMatrixView.tsx:125`).

`OpenNeedsBalanced` speaks only of needs that can still receive an allocation: a
CLOSED or CANCELLED need may keep a stale count until it is reopened, and
reopening recomputes it.

Of overlapping requests, three properties of `races` hold under a condition on the
workload, and a workload in which it does not hold is admitted and explored.
`Uncontended`: at most one client sends the requests that write over an
allocation row they read earlier (advance, return, cancel, delete of an alert), and
nobody else allocates while an alert is deleted; then `LedgerBalanced` and
`SettledKept` hold. `UncontendedDeletes`: nobody else allocates either while a need
or a resource is deleted; then `InFlightNeverOrphaned` holds too. Without the
conditions they are false of the code: a RETURNED allocation advanced by a
transition checked earlier; two cancels that release one reservation twice; an
allocation that commits between the check and the delete of its resource, its need
or its alert. `OpenNeedsBalancedUnlessReactivated` asks only that no alert is edited
(a reactivation reopens a need on the coverage of an allocation withdrawn
meanwhile). That an allocation may commit on an alert closed meanwhile is also a
behaviour of `ResourceRaces`; no property denies it.

Three remarks made
while translating: the comment on `AdminEvent.gminaId` says that the filter by it "never
drops an event someone needed" (`adminEvents.ts:66-67`), and for a donor of another
gmina it drops every allocation of his resources; `PATCH api/needs/[id]` may set CLOSED on an active alert
although `alerts/[id]/route.ts:104-107` says only the cancel sweep does, and
leaves the stored status as it was when only the quantity changes, although the
status is called derived (`needs/[id]/route.ts:12-13`);
`Resource.reservedQuantity` is not the "sum of this resource's active allocation
quantities" (`schema.prisma:357`) after a partial return, but the sum of what
they still hold (`LedgerBalanced`).

Every property of a passing run has a mutant in `PROJECT.json`: a definition with
a plausible bug, next to the one it replaces, which the run must detect.

## Proofs

Everything below is checked by TLAPS for arbitrary values of the constants,
under the `ASSUME`s the modules name: key sets are finite where rows or requests
are counted (ledger, streams, clients, editors) or not empty (`KeysExist` of
`Administration`), `Null` and the other marks are no keys, columns fixed at creation
are well-typed, bounds and times are naturals, a threshold is not zero. Five
more: the keys a need list form makes up are no need's (`AddedKeysAreNew`), the
versions of a directory's rows are numbered from 0 (`ChangesAreCounted`) and each is a
finite set, shown in pages of at least one row (`PagesAreCounted`), the keys
of the four tables of `AuditRevert` are apart (`KeysAreApart`), and a page of the
audit log has at least one row (`PagesHaveRows`).
The bounds `Max...` are constants like the others, so that a theorem holds however
often something is started.

**The ledger, one request at a time** (`ResourceLedger_proofs`,
`ResourceSettlement_proofs`).

- `LedgerInvariant`: `Spec => []LedgerInv`, where
  `LedgerInv == TypeOK /\ StatusMatchesJournal /\ LedgerBalanced /\ NewResourceEmpty`.
  None of the parts is inductive alone. A return subtracts from
  `reservedQuantity` what it adds to the journal: that the counter stays a
  natural number needs `LedgerBalanced`; that the allocation's outstanding units
  fall by the same amount needs `StatusMatchesJournal` (the handler writes the
  journal's sum over the row's totals); and creating a resource needs that no
  allocation refers to a key not created yet. One lemma per handler; the ones
  that change allocations compare `Total(Held(...))` before and after with the
  lemmas about `Total` that open the module (a sum changes by the change of the one row, and
  the sum of a difference is the difference of the sums).
- `TypeCorrect`, `LedgerAlwaysBalanced`, `StatusAlwaysMatchesJournal` follow.
- `SettlementsKept`: `Spec => SettledStaysSettled`, step by step from `LedgerInv`.
- `NoOrphans`: `Spec => []InFlightNeverOrphaned`, from an invariant that anchors
  every allocation in flight to rows that exist; `DELETE /api/resources/[id]`
  refuses only a positive reservation, so the step needs `LedgerBalanced` and
  that an allocation in flight holds at least one unit.
- `CancelledAlertsSettled`: `Spec => []CancelledAlertSettled`, inductive relative
  to `LedgerInv`: an allocation in flight on a cancelled alert can only be
  PARTIALLY_RETURNED, from where no hand-made transition leads on and a further
  return leads to PARTIALLY_RETURNED or RETURNED.
- `NeedsAlwaysBalanced`: `Spec => []OpenNeedsBalanced`. The strengthening says how
  allocation rows point at needs: never at one not created yet, and only at needs
  of their own alert. So a cancel, which withdraws the rows of one alert and
  closes its needs, cannot change what covers a need of another.
- `LedgerKeepsStock`: `Spec => StockRefined`, the refinement of `DonorStock`. By
  `LedgerInv` the two tables agree (`StockTold`): what is lent of a resource is its
  `reservedQuantity`, what is on the shelf the rest of its quantity. Then one step
  per handler: a declaration, a change of quantity, a loan, a settlement or a
  stutter. Where a handler settles several allocations at once, what is written off
  is part of what is released, because sums over rows add up.

- `NeedsCountTheirCover`: a need never counts less than what covers it. For an open
  need that is `NeedsAlwaysBalanced`; for a closed one, its counter is only ever
  written from its rows, and no handler adds a row to it (`CountKept`).
- `AcceptedGoesThrough`: `Spec => []AcceptedFits`. `XFits` collects what the
  transaction of a handler demands of the rows it is about to write, and what is
  accepted fits: a release is part of what is held, which `LedgerBalanced` says is
  what is reserved; a write-off is part of the release; a reopened need has room for
  what covers it. TLC found `XAccepts /\ XFits` equal to `ENABLED X` on the instances
  of `ledger` and `two_alerts` before this was proved. While requests overlap the
  constraints do refuse: there the statement is false and not made.
- `OffersAreAllowed`: a page's rule implies the route's. The two differ in three
  places that take an invariant: a card looks for open allocations under its needs
  and the route under the alert (`CardShowsAll`, from `NoOrphans`' invariant); an
  administrator sees what he may manage, but the route asks by the allocation's alert
  (`OnCard`); and a form counts by the row's totals what the route counts by the
  journal (`WithinOutstanding`).
- `InboxNeverStuck`, under `OrgsAreLocal`: the people of an organization share one
  gmina, which is what `AssignmentsHold` of `Administration` says of any moment. It
  needs that somebody of the owning organization was entitled to the alert's gmina
  when it was created (`AlertsHaveAuthors`). The columns of users are constants here,
  so that nothing is said of an organization that moves to another gmina and leaves
  its alerts behind.

**The ledger while requests overlap** (`ResourceRaces_proofs`), for every number of
clients and every set of workloads. The lemma of each transaction is stated for
the rows the handler *saw*, so that both modules use it; what is new is an
invariant about the requests under way, in four layers:

- `RaceTypes`, with no condition (`RacesTypeCorrect`): what a request carries has the
  types its writes rely on, so that no overlap breaks a type or a CHECK constraint.
- `RaceNeedInv`, with no alert edited (`RacesOpenNeedsBalanced`, which covers two
  settling requests as well). A stale transition may bring a withdrawn
  allocation back; that this disturbs no counter rests on `WithdrawnStayShut`: a
  withdrawn allocation is one of a need that takes no donation any more. A cancel
  still withdraws and closes what belongs together, because the rows it listed are
  the same allocations of the same alert, or gone (`Recognised`).
- `RaceLedgerInv`, while one client settles: what a settling request has read is
  `Fresh`. The rows it listed in flight are as they were but for a resource that was
  deleted (`SameRow`, `Detached`), the journal it summed is the journal, its decision
  still fits. A transaction that then finds the resources of its rows sees them as
  they are (`RememberedCurrent`), and the step is one of a handler run alone. The
  other requests write by increments guarded in the same statement and need no
  fresh read. `RacesLedgerBalanced`, `RacesSettlementsKept` and
  `RacesJournalsWithinQuantity` follow; `race_two_returns` is the counterexample to
  the last one without the condition.
- `RaceFlightInv`, with deletes and donations apart as well: what a delete has checked
  stays so until it commits (`DeleteFresh`), because without a donation no row starts to
  be in flight, none moves to another need and no reservation grows
  (`NothingNewInFlight`), and a need that exists has its alert. `RacesNoOrphans`
  follows.

TLC checked the invariant on the workloads of `races` before it was proved.

**Sessions** (`SessionStatus_proofs`).
`SessionInv == TypeOK /\ StaleCopiesAreYoung /\ FreshCopiesAreExact`: a copy that the
row has left behind was read before the row changed, so its age since the change
is bounded by the life of the request that stored it plus the time to live; a
copy not left behind says what the row says, but for a lock that ended by itself.
`SessionInvariant` proves it, `SessionTypes`, `StaleCopiesStayYoung` and
`FreshCopiesStayExact` are its parts, and with it `SessionsKeepPromise` shows every
step to be a step of `SessionPromise` or a stutter, for every time to live, lag
and number of sessions: what a request is judged by is the row, or something the
row was no longer than `Slack` ago.

**Signing in** (`LoginLockout_proofs`). `LoginInvariant` adds two facts to the run's
three invariants: while the row carries no lock everybody under way has seen it
open (a lock is only ever lifted by time, a reset or an unlock, and those mark the
attempts under way), and only a failure has counting left to do, so that an
attempt that begins to fail drops no task of another. `LockStands`,
`LocksEndInTime` and `ThresholdAlwaysLocks` are its consequences, for every
threshold, lock, ladder of blocks, number of attempts at once, and with a Redis
that fails or not.

**Administration** (`Administration_proofs`). The handlers check first and write
later, so the invariant is about the requests under way: what each made sure of
when it began (`CountedAnother`: an administrator other than its target;
`LeadsSomewhere`: a role that needs a gmina ends up with one, the organization read
is in it, only a global administrator makes another; `BodyFits`), and what every
invitation was issued with. The writes preserve it because an account that
changed in between is marked `outdated`, an overlapping removal `raced`, and every
other row is as it was read. From `AdminInvariant` follow all five properties of
the run `accounts`: `AdminAlwaysRemains`, `AssignmentsAlwaysHold`,
`AcceptedAtMostOnce`, `GlobalAdminsAreMadeByGlobalAdmins` and
`MovesAreAlwaysAnnounced`, the last two step by step.

**The parts of the server** (`ServerParts_proofs`), each with an invariant of its own:

- `CopyAlwaysTellsRow`: a row that a lookup has read is the row as it is, unless
  the lookup was marked outdated meanwhile (`ReadsAreFresh`); the copy it stores is
  then right or excused.
- `SlotsAlwaysHold`: no slot of a stream that is served is old enough for the sweep
  (`SlotsAreYoung`), so that a sweep takes nothing and slots and streams change
  together; the cap then carries over from the slots, which are what `Open` counts.
- `LinkChangesOnce`: a link that changed a password is used up, by one form
  (`LinkSpentOnce`).
- `CaptchaAlwaysHolds`: those that went unchallenged and those about to are
  together fewer than the threshold and the clients (`EarlyOnesOnly`); tokens are
  spent in the order they were solved, and a widget holds a spent one only while
  the request that sent it is on its way (`SpentTokenTravels`).
- `ChallengeAlwaysHolds`: two keys with lives of their own need two facts. While no
  requirement stands, each attempt beyond the threshold belongs to a request about
  to set one, or was under way before (`FewUnchallenged`); a requirement some ticks
  old has met every attempt of a counter that started after it (`OldLatchMetAll`),
  so that it may end before the counter does.
- `CleanupLockAlwaysHolds`: one process holds the lock (`LockIsExclusive`), work is
  done under it (`WorkIsLocked`), and a process that unlocks where it locked holds
  it once (`HeldOnce`): PostgreSQL counts how often a connection took it.
- `WaitingNoticeIsAlwaysShown`: a notice that waits and is not shown is announced,
  unheard, asked for or on its way (`NoticeTravels`), and nothing newer than the latest
  move is (`NoticesInOrder`).
- `AuditRevertTypeCorrect`, `AuditRevertMembersFollow`, `AuditRevertLogTellsState`,
  `AuditRevertTakesEffect`: consequences of one invariant, `AuditInv`. The rows
  refer to rows that exist and members that were not overtaken follow their organization
  (`DbSound`). What an
  entry or an edit under way holds is a row its table could hold (`EntriesAreSound`,
  `EditsAreSound`); without that a revert could bring back anything. A record never
  made has no entry (`UnbornHasNoPast`) and at most one deletion of a record waits to
  be recorded (`OneDeletion`). The newest standing entry of a record that is there
  does not bring it back, and where a revert's revert deleted a record no revert of it
  succeeds any more (`DeadEnds`). Of a record that is `told`, the newest entry shows
  the row, unless an edit of it has still to be recorded, which then does (`ToldAsItIs`). An open
  revert's chain is of entries of one record that can be undone (`RevertsAreSound`), and of a
  record that is `told` nothing else is under way and the chain is still what
  `Chain` gives (`ToldAlone`). A commit is one step of the module but a walk through the
  chain, with rows read at any moment since the transaction began, so it has an invariant of its own
  (`WalkInv`): when the walk has come down to an entry the rows are sound but for those
  overtaken by then, the log is the old one with the entries passed marked and their reverts behind
  it, and the record, unless overtaken, is as it was before the last of them. The induction on n is written out, from the least
  number at which it would fail: the library's theorem takes an operator. TLC
  checked `AuditInv` on longer histories than the run's before it was proved.

**The pages** (`Pages_proofs`). The invariants say what an answer still under way may
hold when it arrives, which is what the property at rest cannot say:

- `DirectoryAlwaysHolds`: a request of the component on screen is the only one and
  asks for the query in force, unless it is adrift, and what it has read is up to date with every change
  the tab was told of (`FetchIsCurrent`); so is what the cache calls fresh
  (`CacheIsCurrent`), but for answers to a component gone. A change made from the page that is
  not yet answered will load only for the component that is still mounted (`ActingIsHere`).
- `AlertIsPublishedOnce`, `ClosedMeansStored`: what a submission has still to send is
  not stored and what it sent without a failure is, at every step of its queue
  (`NeedsAreSentOnce`; `DeletionsAreDone` and `AdditionsAreDone`).
- `LatestInputAlwaysWins`: no question is numbered beyond the counter, and the one
  with the latest number asks about the latest input (`QuestionMatchesInput`).
- `FiltersAlwaysLetThrough`: inductive with the types alone, but needs that a filter
  freshly set lets every alert of its kind through, and that an alert's card and
  pin depend on no other row.
- `OpenThreadIsAlwaysComplete`: what the latest GET has read, and what it has
  applied, is the stored replies up to some reply, behind by at most the replies whose events
  are on their way to the tab or were lost (`ThreadIsLoaded`).
- `CellIsAlwaysCurrent`: what the latest load of each kind has read is the stock of
  the chosen holder, unless an event about it is on its way or a change went unheard since
  (`FigureFollows`, `DrawerFollows`).
- `LogAlwaysRunsWithoutGap`: the entries a filter lets through are a recursive
  function of the log, so its facts come first, counting up to the entry at which
  one would fail: it is a list, without repetition, in order (`EntriesAreWhole`); from any of its entries
  on it is the list up to that entry (`RestIsWhole`), which is what a cursor asks
  for; and entries recorded later change no older list (`OlderStay`). What may be
  missing from a list are entries not yet visible or belated. Then the invariant: the latest
  request asks for the chosen filter unless it strayed, and goes on from the
  rows on screen or begins anew (`LatestAsks`), an answer under way is a run of its
  filter's list (`AnswersRun`), so are the rows (`RowsRun`), of the chosen filter unless an
  excuse stands (`RowsAreWanted`).

**Only model-checked.**

- `OffersAreAccepted` and `InboxCanBeWorkedOff` as they stand: they speak of ENABLED,
  which is out of this prover's reach. `OffersAreAllowed`, `InboxNeverStuck` and
  `AcceptedGoesThrough` prove what is left of them without it.
- Liveness: `RevocationTakesEffect`, `Recovers`, `StreamsHear`.

The `TypeOK`s of components without theorems hold on the runs' instances (add one to
the INVARIANTS of the `.cfg` to see it); no run lists them, so that its time goes to
the other properties.

## Not modelled

- **Middleware and rate limits.** The middleware enforces nothing (its own
  comment) and keeps no state; a limiter refuses a call or does not, which the
  models of its callers allow for where it matters.
- **Access cache of resources.** The shape of the alert cache, over columns that
  never change: a late fill stores what is still true.
- **Allocation messages.** Append-only rows behind one check of the caller.
- **Dashboard, matching, labels.** Queries and texts that change no state.
- **External services.** Geocoder, mail and the list of known passwords: I/O.
  Their answers enter as choices (`PinPlacement`, `PasswordReset`).
- **Modals with a single request.** One request, sent once, answered once.
- **Seed and deployment.** Run by hand on an empty database.
- **Partly:** the modals on the ledger's pages (what they offer is in
  `LedgerViews`; the state of their requests is not followed), and the map page's
  open forms (its filters and its ways between pin and card are in `MapView`).
- **Left to PostgreSQL:** isolation stronger than READ COMMITTED is not assumed and
  deadlocks between row locks are not modelled; the database ends them by
  aborting one transaction, which `Abort` covers.
