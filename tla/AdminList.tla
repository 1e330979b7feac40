------------------------------ MODULE AdminList ------------------------------
(***************************************************************************)
(* A directory of the admin panel in one tab: UsersDirectory,              *)
(* OrganizationsDirectory or GminasDirectory over GET /api/admin/users,    *)
(* organizations or gminas, with the tab's cache of the last list          *)
(* (lib/adminListCache.ts) and the events that tell of changes             *)
(* (components/AdminEventsBridge.tsx).  The records of the directory are   *)
(* data: Rows[v] after the v-th change.  Search, sort and the other        *)
(* filters behave as an outermost filter does.                             *)
(***************************************************************************)
EXTENDS Integers, FiniteSets

CONSTANTS
    All,            \* no filter
    Places,         \* the places the pickers offer: records of Fields
    Rows,           \* Rows[v]: the directory's rows after v changes, places with an id
    PageSize,
    MaxFetches,     \* bound: requests of the tab under way at once
    MaxPicks        \* bound: choices the user makes: pickers, pager, rows, leaving the page

ASSUME ChangesAreCounted == 0 \in DOMAIN Rows /\ DOMAIN Rows \subseteq Nat
ASSUME PagesAreCounted ==
    PageSize \in Nat \ {0} /\ \A v \in DOMAIN Rows : IsFiniteSet(Rows[v])

VARIABLES
    directory,  \* which directory the page shows
    version,    \* changes so far
    pending,    \* changes whose event is under way
    unheard,    \* changes whose event was lost
    view,       \* the mounted component: filter and page
    failed,     \* it shows an error
    shown,      \* the list on the page
    fetches,    \* requests under way whose answer will be used
    cached,     \* the directory's slot of the cache, while it is fresh
    acting,     \* changes made from the page and not yet answered, each with the query
                \* of the render it was made in
    adrift,     \* history: the component's latest request was for such a query, and
                \* not for the one the page is set to
    picks       \* bounded: choices so far

listVars == <<directory, version, pending, unheard, view, failed, shown, fetches, cached,
              acting, adrift, picks>>

-----------------------------------------------------------------------------
Fields == {"voivodeship", "powiat", "gmina", "org"}
Versions == DOMAIN Rows
Unread == -1
Nothing == [rows |-> Unread]

\* The pickers of each directory.
Pickers(dir) ==
    CASE dir = "users" -> {"gmina", "org"}
      [] dir = "organizations" -> {"voivodeship", "powiat", "gmina"}
      [] dir = "gminas" -> {"voivodeship", "powiat"}

\* The pickers a picker is narrowed by.
NarrowedBy(dir, field) ==
    CASE field = "voivodeship" -> {}
      [] field = "powiat" -> {"voivodeship"}
      [] field = "gmina" -> Pickers(dir) \cap {"voivodeship", "powiat"}
      [] field = "org" -> {"gmina"}

Fits(place, filter, fields) == \A f \in fields : filter[f] \in {All, place[f]}

\* organizationsInGmina, powiatsInVoivodeship, gminasInFilter.
Offered(filter, field) ==
    IF field = "powiat" /\ filter.voivodeship = All THEN {}
    ELSE {p[field] : p \in {x \in Places : Fits(x, filter, NarrowedBy(directory, field))}}

NoFilter == [f \in Fields |-> All]

\* totalPages
PageCount(n) == IF n = 0 THEN 1 ELSE (n + PageSize - 1) \div PageSize

Matching(filter, v) == {r \in Rows[v] : Fits(r, filter, Fields)}
TotalPages(filter, v) == PageCount(Cardinality(Matching(filter, v)))
Pages == 1 .. PageCount(CHOOSE n \in {Cardinality(Rows[v]) : v \in Versions} :
                            \A w \in Versions : n >= Cardinality(Rows[w]))

Filter == [Fields -> {All} \cup UNION {{p[f] : f \in Fields} : p \in Places}]
Key == [filter : Filter, page : Pages]
List == [key : Key, count : Versions, rows : Versions, late : BOOLEAN]
Fetch == [key : Key, count : Versions \cup {Unread}, rows : Versions \cup {Unread},
          orphan : BOOLEAN]
Acting == [pick : 1 .. MaxPicks, key : Key, orphan : BOOLEAN]

ListTypeOK ==
    /\ directory \in {"users", "organizations", "gminas"}
    /\ version \in Versions
    /\ pending \subseteq Versions /\ unheard \subseteq Versions
    /\ view \in [mounted : BOOLEAN, key : Key]
    /\ failed \in BOOLEAN
    /\ shown = Nothing \/ shown \in List
    /\ fetches \subseteq Fetch
    /\ cached = Nothing \/ cached \in List
    /\ acting \subseteq Acting
    /\ adrift \in BOOLEAN
    /\ picks \in 0 .. MaxPicks

Home == [filter |-> NoFilter, page |-> 1]

ListInit ==
    /\ directory \in {"users", "organizations", "gminas"}
    /\ version = 0
    /\ pending = {} /\ unheard = {}
    /\ view = [mounted |-> FALSE, key |-> Home]
    /\ failed = FALSE
    /\ shown = Nothing
    /\ fetches = {}
    /\ cached = Nothing
    /\ acting = {} /\ adrift = FALSE
    /\ picks = 0

-----------------------------------------------------------------------------
(* The server. *)

\* A change commits; its event is published, or not (publishAdminEvent).
Commit ==
    /\ version + 1 \in Versions
    /\ version' = version + 1
    /\ \/ pending' = pending \cup {version'} /\ UNCHANGED unheard
       \/ unheard' = unheard \cup {version'} /\ UNCHANGED pending
    /\ UNCHANGED <<directory, view, failed, shown, fetches, cached, acting, adrift, picks>>

\* The count and the page of rows are two queries.
Answer(f, field) ==
    /\ f[field] = Unread
    /\ fetches' = (fetches \ {f}) \cup {[f EXCEPT ![field] = version]}
    /\ UNCHANGED <<directory, version, pending, unheard, view, failed, shown, cached, acting,
                   adrift, picks>>

Serve == \E f \in fetches, field \in {"count", "rows"} : Answer(f, field)

-----------------------------------------------------------------------------
(* The page. *)

Orphans == {f \in fetches : f.orphan}

\* Mutant: no request is out of date.
SupersedeNothing == fetches

\* requestIdRef: a new request makes its component's earlier one out of date,
\* and the answer to that one is dropped: it is forgotten here.
Supersede == Orphans

AskFor(key) == [key |-> key, count |-> Unread, rows |-> Unread, orphan |-> FALSE]

Send(key) ==
    /\ fetches' = Supersede \cup {AskFor(key)}
    /\ Cardinality(fetches') <= MaxFetches

Choose == picks < MaxPicks /\ picks' = picks + 1

\* The first request of a component may be spared by the cache, which holds the
\* answer to a page's first query or Nothing.
Mount ==
    /\ ~view.mounted
    /\ view' = [mounted |-> TRUE, key |-> Home]
    /\ failed' = FALSE
    /\ IF cached # Nothing
       THEN shown' = cached /\ UNCHANGED fetches
       ELSE Send(Home) /\ UNCHANGED shown
    /\ adrift' = FALSE
    /\ UNCHANGED <<directory, version, pending, unheard, cached, acting, picks>>

\* The component goes; its last request and what was done in it still run.
Unmount ==
    /\ view.mounted /\ Choose
    /\ view' = [mounted |-> FALSE, key |-> Home]
    /\ failed' = FALSE
    /\ shown' = Nothing
    /\ fetches' = {[f EXCEPT !.orphan = TRUE] : f \in fetches}
    /\ acting' = {[a EXCEPT !.orphan = TRUE] : a \in acting}
    /\ adrift' = FALSE
    /\ UNCHANGED <<directory, version, pending, unheard, cached>>

\* The effects that clear a choice which is no longer offered.
Cleared(filter) ==
    [f \in Fields |-> IF filter[f] \in Offered(filter, f) THEN filter[f] ELSE All]

\* A picker changes.  The same render asks for the old page, and maybe for a
\* choice that is about to be cleared; the next one supersedes that request.
Pick(filter) ==
    /\ view' = [view EXCEPT !.key = [filter |-> Cleared(filter), page |-> 1]]
    /\ Send(view'.key)
    /\ adrift' = FALSE

SetFilter ==
    /\ view.mounted /\ Choose
    /\ \E field \in Pickers(directory) :
        \E choice \in Offered(view.key.filter, field) \cup {All} :
            /\ choice # view.key.filter[field]
            /\ Pick([view.key.filter EXCEPT ![field] = choice])
    /\ UNCHANGED <<directory, version, pending, unheard, failed, shown, cached, acting>>

\* The pager offers the pages of the list on screen.
GoToPage ==
    /\ view.mounted /\ shown # Nothing /\ Choose
    /\ \E page \in 1 .. TotalPages(shown.key.filter, shown.count) :
        /\ page # view.key.page
        /\ view' = [view EXCEPT !.key.page = page]
        /\ Send(view'.key)
    /\ adrift' = FALSE
    /\ UNCHANGED <<directory, version, pending, unheard, failed, shown, cached, acting>>

\* A row's button, or a form opened from the page: the change is sent (when it
\* is stored, it is one of Commit's).
Act ==
    /\ view.mounted /\ Choose
    /\ acting' = acting \cup {[pick |-> picks', key |-> view.key, orphan |-> FALSE]}
    /\ UNCHANGED <<directory, version, pending, unheard, view, failed, shown, fetches, cached,
                   adrift>>

-----------------------------------------------------------------------------
(* Answers and events. *)

\* It is answered.  onChanged and onSaved are the refetch of the render the
\* change was made in: it asks for that render's filter and page, under a new
\* request number.  In a component that is gone it supersedes at most that
\* component's own request.  A refusal loads nothing.
Acted ==
    /\ \E a \in acting :
        /\ acting' = acting \ {a}
        /\ \/ ~a.orphan /\ Send(a.key) /\ adrift' = (a.key # view.key)
           \/ /\ a.orphan
              /\ \E own \in {{}} \cup {{f} : f \in Orphans} :
                    fetches' = (fetches \ own) \cup {[AskFor(a.key) EXCEPT !.orphan = TRUE]}
              /\ Cardinality(fetches') <= MaxFetches
              /\ UNCHANGED adrift
           \/ UNCHANGED <<fetches, adrift>>
    /\ UNCHANGED <<directory, version, pending, unheard, view, failed, shown, cached, picks>>

Answered(f) == Unread \notin {f.count, f.rows}

\* The page that was asked for is gone: setPage to the last one there is, and
\* the effect asks for that page of the filter that is set by now.
TurnBack ==
    /\ \E f \in {x \in fetches : Answered(x)} :
        LET last == TotalPages(f.key.filter, f.count) IN
        /\ f.key.page > last
        /\ IF f.orphan \/ view.key.page = last
           THEN fetches' = fetches \ {f} /\ UNCHANGED <<view, adrift>>
           ELSE view' = [view EXCEPT !.key.page = last] /\ Send(view'.key) /\ adrift' = FALSE
    /\ UNCHANGED <<directory, version, pending, unheard, failed, shown, cached, acting, picks>>

\* Any other answer is shown and cached; that for a component which is gone is
\* only cached.  A slot that holds any query but the first one a page makes is
\* a miss for every page to come: Nothing.
Respond ==
    /\ \E f \in {x \in fetches : Answered(x)} :
        LET list == [key |-> f.key, count |-> f.count, rows |-> f.rows, late |-> f.orphan]
        IN  /\ f.key.page <= TotalPages(f.key.filter, f.count)
            /\ IF f.orphan THEN UNCHANGED <<shown, failed>>
               ELSE shown' = list /\ failed' = FALSE
            /\ cached' = IF f.key = Home THEN list ELSE Nothing
            /\ fetches' = fetches \ {f}
    /\ UNCHANGED <<directory, version, pending, unheard, view, acting, adrift, picks>>

\* The request fails, or is refused: the list stays, under an error.
FailFetch ==
    /\ \E f \in fetches :
        /\ fetches' = fetches \ {f}
        /\ failed' = IF f.orphan THEN failed ELSE TRUE
    /\ UNCHANGED <<directory, version, pending, unheard, view, shown, cached, acting, adrift,
                   picks>>

\* An event arrives: AdminEventsBridge marks the slot as not fresh, a miss from
\* then on, and useAdminEvents refetches.
Deliver ==
    /\ \E v \in pending : pending' = pending \ {v}
    /\ cached' = Nothing
    /\ IF view.mounted THEN Send(view.key) /\ adrift' = FALSE ELSE UNCHANGED <<fetches, adrift>>
    /\ UNCHANGED <<directory, version, unheard, view, failed, shown, acting, picks>>

\* The stream was down: nothing is sent again.
LoseEvent ==
    /\ \E v \in pending : pending' = pending \ {v} /\ unheard' = unheard \cup {v}
    /\ UNCHANGED <<directory, version, view, failed, shown, fetches, cached, acting, adrift,
                   picks>>

ListNext ==
    \/ Commit \/ Serve
    \/ Mount \/ Unmount \/ SetFilter \/ GoToPage \/ Act \/ Acted
    \/ TurnBack \/ Respond \/ FailFetch
    \/ Deliver \/ LoseEvent

ListSpec == ListInit /\ [][ListNext]_listVars

-----------------------------------------------------------------------------
(* Properties. *)

\* Once the tab is quiet, a directory shows the query it is set to, as it was
\* at some moment no change it was told of came after: neither a slower answer
\* to an earlier query nor the cache brings back an older list (UsersDirectory
\* .tsx:157-161, adminListCache.ts:16-19).  Not so after an answer that came for a
\* component already gone: it is cached as fresh however old it is; nor when a
\* change was answered after the query had been changed: its refetch asks for
\* the former query and supersedes the request for the present one (adrift).
ListShowsLatest ==
    /\ view.mounted /\ ~failed /\ ~adrift /\ pending = {}
    /\ fetches = Orphans
    /\ ~(shown # Nothing /\ shown.late)
    => /\ shown # Nothing /\ shown.key = view.key
       /\ \A v \in 1 .. version : v > shown.rows \/ v > shown.count => v \in unheard

\* A directory is never narrowed by a choice its pickers do not offer
\* (UsersDirectory.tsx:145-155, OrganizationsDirectory.tsx:138-157).
FiltersAreOffered ==
    \A f \in Fields : view.key.filter[f] \in Offered(view.key.filter, f) \cup {All}

\* A directory shows the answer to its filters, and its filters.
DirectoryHolds == ListShowsLatest /\ FiltersAreOffered
=============================================================================
