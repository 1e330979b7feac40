---------------------------- MODULE AuditLogPages ----------------------------
(***************************************************************************)
(* Reading the audit log page by page (AuditLogDirectory over              *)
(* GET /api/admin/logs): entries arrive while it is read, filters change,  *)
(* reverts are waited for, and answers come back in any order, or not at   *)
(* all.  An entry is its number in the log (seq), which it gets when it is *)
(* inserted and is seen under only when its transaction commits; what the  *)
(* filters tell apart is its kind.                                         *)
(***************************************************************************)
EXTENDS Integers, Sequences

CONSTANTS
    LogKinds,       \* what a filter chooses between
    AnyKind,        \* no filter
    MaxLog,         \* bound: entries of the log
    PageRows,       \* PAGE_SIZE
    MaxRequests,    \* bound: requests of the tab
    MaxReverts      \* bound: reverts waited for at once, of a filter

ASSUME PagesHaveRows == PageRows \in Nat \ {0}

VARIABLES
    log,        \* the kinds of the entries, in the order of their numbers
    hidden,     \* the entries of transactions that have not committed
    wanted,     \* the filter of the next request
    logs,       \* the rows that are shown: numbers of entries
    cursor,     \* the last row of a page with more behind it, or 0
    loading,    \* the rows are hidden
    loadingMore,    \* the button is disabled
    requestId,  \* requestIdRef
    requests,   \* requests that the server has not read the log for
    served,     \* answers under way
    clicked,    \* of each filter: reverts clicked while it was chosen and unanswered
    shownFor,   \* history: the filter of the rows, or Mixed
    lostPage,   \* history: a request failed since the rows were replaced
    strayed,    \* history: the latest request is for a filter no longer chosen
    belated     \* history: entries that a newer one was seen before

shownVars == <<logs, cursor, shownFor, lostPage>>
logVars == <<log, hidden, wanted, shownVars, loading, loadingMore, requestId, requests, served,
             clicked, strayed, belated>>

Mixed == "mixed"
LogFilters == LogKinds \cup {AnyKind}
Passes(seq, filter) == filter = AnyKind \/ log[seq] = filter

\* The entries of a filter below a bound that are seen, newest first.
Entries(filter, below) ==
    LET number[n \in 0 .. Len(log)] ==
            IF n = 0 THEN <<>>
            ELSE IF n < below /\ n \notin hidden /\ Passes(n, filter)
                 THEN <<n>> \o number[n - 1] ELSE number[n - 1]
    IN  number[Len(log)]

\* GET: `take + 1` rows by seq, descending.  A cursor names a row of the log;
\* the query starts at it and skips one row, the cursor's own only if the
\* filter lets that one through.
PageAnswer(filter, after) ==
    LET from == Entries(filter, IF after = 0 THEN Len(log) + 1 ELSE after + 1)
        rest == IF after = 0 THEN from ELSE SubSeq(from, 2, Len(from))
        page == SubSeq(rest, 1, IF Len(rest) < PageRows THEN Len(rest) ELSE PageRows)
    IN  [logs |-> page, next |-> IF Len(rest) > PageRows THEN page[PageRows] ELSE 0]

LogRequest == [id : 1 .. MaxRequests, filter : LogFilters, after : 0 .. MaxLog,
            purpose : {"filter", "more", "refresh"}]
Answers == [to : LogRequest, logs : Seq(1 .. MaxLog), next : 0 .. MaxLog]

-----------------------------------------------------------------------------
LogTypeOK ==
    /\ log \in Seq(LogKinds) /\ Len(log) <= MaxLog
    /\ hidden \subseteq 1 .. Len(log) /\ belated \subseteq 1 .. Len(log)
    /\ wanted \in LogFilters
    /\ logs \in Seq(1 .. MaxLog)
    /\ cursor \in 0 .. MaxLog
    /\ loading \in BOOLEAN /\ loadingMore \in BOOLEAN
    /\ requestId \in 0 .. MaxRequests
    /\ requests \subseteq LogRequest /\ served \subseteq Answers
    /\ clicked \in [LogFilters -> 0 .. MaxReverts]
    /\ shownFor \in LogFilters \cup {Mixed}
    /\ lostPage \in BOOLEAN /\ strayed \in BOOLEAN

\* The page opens: its effect has sent the first request.
LogInit ==
    /\ log \in {<<>>} \cup {<<k>> : k \in LogKinds} \cup {<<k, l>> : k, l \in LogKinds}
    /\ wanted = AnyKind /\ shownFor = AnyKind
    /\ logs = <<>> /\ cursor = 0
    /\ loading = TRUE /\ loadingMore = FALSE
    /\ requestId = 1
    /\ requests = {[id |-> 1, filter |-> AnyKind, after |-> 0, purpose |-> "filter"]}
    /\ served = {} /\ clicked = [f \in LogFilters |-> 0]
    /\ hidden = {} /\ belated = {}
    /\ lostPage = FALSE /\ strayed = FALSE

-----------------------------------------------------------------------------
\* recordAudit, in any administrator's request: in a statement of its own, or
\* in a transaction that goes on, or never commits.
Record ==
    /\ Len(log) < MaxLog
    /\ \E k \in LogKinds : log' = Append(log, k)
    /\ hidden' \in {hidden, hidden \cup {Len(log')}}
    /\ UNCHANGED <<wanted, shownVars, loading, loadingMore, requestId, requests, served, clicked,
                   strayed, belated>>

\* The transaction of some entries commits.
Appear ==
    /\ \E some \in (SUBSET hidden) \ {{}} :
        /\ hidden' = hidden \ some
        /\ belated' = belated \cup {n \in some : \E m \in 1 .. Len(log) : m > n /\ m \notin hidden'}
    /\ UNCHANGED <<log, wanted, shownVars, loading, loadingMore, requestId, requests, served,
                   clicked, strayed>>

FetchPage(filter, after, purpose) ==
    /\ requestId < MaxRequests
    /\ requestId' = requestId + 1
    /\ requests' = requests \cup {[id |-> requestId', filter |-> filter, after |-> after,
                                   purpose |-> purpose]}
    /\ strayed' = (filter # wanted')
    /\ UNCHANGED <<log, hidden, belated, shownVars, served>>

\* A select, or the debounced search: the effect fetches the first page anew.
Narrow ==
    /\ \E f \in LogFilters \ {wanted} :
        wanted' = f /\ FetchPage(f, 0, "filter")
    /\ loading' = TRUE
    /\ UNCHANGED <<loadingMore, clicked>>

\* handleLoadMore.
LoadMore ==
    /\ ~loading /\ cursor # 0 /\ ~loadingMore
    /\ wanted' = wanted /\ FetchPage(wanted, cursor, "more")
    /\ loadingMore' = TRUE
    /\ UNCHANGED <<loading, clicked>>

\* handleReverted for an event, of a revert anywhere: the listener is the one
\* of the latest render.
ReloadLog ==
    /\ wanted' = wanted /\ FetchPage(wanted, 0, "refresh")
    /\ UNCHANGED <<loading, loadingMore, clicked>>

\* handleRevert of a row that is shown: its request is sent and waited for.
ClickRevert ==
    /\ ~loading /\ logs # <<>>
    /\ clicked[wanted] < MaxReverts
    /\ clicked' = [clicked EXCEPT ![wanted] = @ + 1]
    /\ UNCHANGED <<log, hidden, wanted, shownVars, loading, loadingMore, requestId, requests,
                   served, strayed, belated>>

\* Its answer: a refusal, or handleReverted of the render that was clicked, for
\* the filter of that render.
Reverted ==
    \E f \in LogFilters :
        /\ clicked[f] > 0
        /\ clicked' = [clicked EXCEPT ![f] = @ - 1]
        /\ \/ wanted' = wanted /\ FetchPage(f, 0, "refresh")
           \/ UNCHANGED <<log, hidden, wanted, shownVars, requestId, requests, served, strayed,
                          belated>>
        /\ UNCHANGED <<loading, loadingMore>>

\* The server reads the log for a request.
ServePage ==
    /\ \E r \in requests :
        /\ requests' = requests \ {r}
        /\ served' = served \cup {[to |-> r, logs |-> PageAnswer(r.filter, r.after).logs,
                                   next |-> PageAnswer(r.filter, r.after).next]}
    /\ UNCHANGED <<log, hidden, wanted, shownVars, loading, loadingMore, requestId, clicked,
                   strayed, belated>>

\* Mutant: an answer is applied whenever it comes.
AppliesAlways(r) == TRUE

\* Only the answer to the latest request is applied.
Applies(r) == r.id = requestId

\* fetchPage after its await, and what follows it: answered, or failed, which
\* for the tab is the same before the server read the log and after.
AnswerPage ==
    \E a \in served :
        LET r == a.to IN
        /\ served' = served \ {a}
        /\ loading' = (loading /\ r.purpose # "filter")
        /\ loadingMore' = (loadingMore /\ r.purpose # "more")
        /\ \/ /\ Applies(r)
              /\ logs' = IF r.purpose = "more" THEN logs \o a.logs ELSE a.logs
              /\ cursor' = a.next
              /\ shownFor' = IF r.purpose # "more" THEN r.filter
                             ELSE IF r.filter = shownFor THEN shownFor ELSE Mixed
              /\ lostPage' = (lostPage /\ r.purpose = "more")
           \/ Applies(r) /\ lostPage' = TRUE /\ UNCHANGED <<logs, cursor, shownFor>>
           \/ ~Applies(r) /\ UNCHANGED shownVars
        /\ UNCHANGED <<log, hidden, wanted, requestId, requests, clicked, strayed, belated>>

LogNext ==
    \/ Record \/ Appear
    \/ Narrow \/ LoadMore \/ ReloadLog \/ ClickRevert \/ Reverted
    \/ ServePage \/ AnswerPage

LogSpec == LogInit /\ [][LogNext]_logVars

-----------------------------------------------------------------------------
\* The rows are entries of one filter, newest first, without a repetition, and
\* end where the cursor says: at the oldest entry when there is no cursor.
\* Between the first row and that end no entry is missing, but one that was
\* seen only after a newer one.  With nothing under way and nothing failed,
\* their filter is the chosen one, unless the latest request came from the
\* answer to a revert that was clicked under another filter (strayed): it
\* supersedes the request for the chosen one.  Excepted are the rows of one
\* filter that a page of another was appended to (Mixed): the answer to an
\* older change shows the button again while the newer change is under way,
\* and a failed change, or a stray reload, leaves rows of another filter and
\* their cursor in place.
RowsRunWithoutGap ==
    shownFor # Mixed =>
        /\ requests = {} /\ served = {} /\ ~lostPage /\ ~strayed => shownFor = wanted
        /\ \A i, j \in 1 .. Len(logs) : i < j => logs[i] > logs[j]
        /\ \A i \in 1 .. Len(logs) : Passes(logs[i], shownFor)
        /\ logs # <<>> =>
            /\ cursor \in {0, logs[Len(logs)]}
            /\ \A n \in 1 .. Len(log) \ (hidden \cup belated) :
                /\ Passes(n, shownFor)
                /\ cursor < n /\ n < logs[1]
                => \E i \in 1 .. Len(logs) : logs[i] = n
=============================================================================
