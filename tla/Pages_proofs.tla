---------------------------- MODULE Pages_proofs ----------------------------
(***************************************************************************)
(* Theorems about the pages in one tab: one section for each component,    *)
(* first its inductive invariant, then the three facts about it and the    *)
(* theorem.                                                                *)
(***************************************************************************)
EXTENDS AdminList, AlertSubmission, NeedListSave, PinPlacement, MapView, AlertJournal,
        AuditLogPages, ResourceMatrix, FiniteSetTheorems, WellFoundedInduction, SequenceTheorems,
        TLAPS

-----------------------------------------------------------------------------
(* A directory of the admin panel. *)

Fetched(key, count, read, orphan) == [key |-> key, count |-> count, rows |-> read, orphan |-> orphan]
ListShape ==
    /\ version \in Versions
    /\ \A f \in fetches : f = Fetched(f.key, f.count, f.rows, f.orphan) /\ f.orphan \in BOOLEAN
    /\ \A f \in fetches : f.count \in Versions \cup {Unread}
    /\ view = [mounted |-> view.mounted, key |-> view.key] /\ view.mounted \in BOOLEAN
    /\ view.key = [filter |-> view.key.filter, page |-> view.key.page]
    /\ cached # Nothing => cached.key = Home

\* What was read leaves out only changes the tab has not heard of.
Told == pending \cup unheard
UpToDate(read) == read # Unread => \A v \in 1 .. version : v > read => v \in Told
ListIsCurrent(list) == UpToDate(list.count) /\ UpToDate(list.rows) /\ Unread \notin {list.count, list.rows}

\* What is not yet answered and was done in the component that is mounted.
ActingIsHere ==
    \A a \in acting :
        /\ a = [pick |-> a.pick, key |-> a.key, orphan |-> a.orphan]
        /\ ~a.orphan => view.mounted

\* The one request of the mounted component asks for what it is set to, unless
\* it is adrift.
FetchIsCurrent ==
    \A f \in fetches \ Orphans :
        /\ view.mounted /\ (~adrift => f.key = view.key)
        /\ UpToDate(f.count) /\ UpToDate(f.rows)
        /\ \A g \in fetches \ Orphans : f = g
CacheIsCurrent ==
    cached # Nothing /\ ~cached.late => ListIsCurrent(cached)
PageIsCurrent ==
    view.mounted /\ ~failed /\ ~adrift /\ fetches = Orphans =>
        /\ shown # Nothing
        /\ ~shown.late => shown.key = view.key /\ ListIsCurrent(shown)

ListInv ==
    /\ ListShape /\ ActingIsHere
    /\ FetchIsCurrent /\ CacheIsCurrent /\ PageIsCurrent
    /\ FiltersAreOffered

LEMMA FetchedFields ==
    ASSUME NEW key, NEW count, NEW read, NEW orphan
    PROVE  /\ Fetched(key, count, read, orphan).key = key
           /\ Fetched(key, count, read, orphan).count = count
           /\ Fetched(key, count, read, orphan).rows = read
           /\ Fetched(key, count, read, orphan).orphan = orphan
BY DEF Fetched

LEMMA RequestFields ==
    ASSUME NEW key
    PROVE  /\ AskFor(key) = Fetched(AskFor(key).key, AskFor(key).count, AskFor(key).rows, AskFor(key).orphan)
           /\ AskFor(key).key = key /\ AskFor(key).orphan = FALSE
           /\ AskFor(key).count = Unread /\ AskFor(key).rows = Unread
BY DEF AskFor, Fetched

\* What clearing leaves is offered: a choice only loses choices it did not
\* depend on.
LEMMA ClearedIsOffered ==
    ASSUME NEW filter, NEW f \in Fields, Cleared(filter)[f] # All
    PROVE  Cleared(filter)[f] \in Offered(Cleared(filter), f)
<1> DEFINE c == Cleared(filter)
<1>1. \A g \in Fields : c[g] = IF filter[g] \in Offered(filter, g) THEN filter[g] ELSE All
  BY DEF Cleared
<1> HIDE DEF c
<1>2. c[f] = filter[f] /\ filter[f] \in Offered(filter, f)
  BY <1>1 DEF c
<1>3. NarrowedBy(directory, f) \subseteq Fields
  BY DEF NarrowedBy, Fields
<1>4. PICK x \in Places : filter[f] = x[f] /\ Fits(x, filter, NarrowedBy(directory, f))
  BY <1>2 DEF Offered
<1>5. Fits(x, c, NarrowedBy(directory, f))
  BY <1>1, <1>3, <1>4 DEF Fits
<1>6. ~(f = "powiat" /\ c.voivodeship = All)
  <2> SUFFICES ASSUME f = "powiat"
               PROVE  c.voivodeship # All
    OBVIOUS
  <2>1. filter["voivodeship"] # All
    BY <1>2 DEF Offered
  <2>2. filter["voivodeship"] = x["voivodeship"]
    BY <1>4, <2>1 DEF NarrowedBy, Fits
  <2>3. Fits(x, filter, NarrowedBy(directory, "voivodeship"))
    BY DEF Fits, NarrowedBy
  <2>4. filter["voivodeship"] \in Offered(filter, "voivodeship")
    BY <2>2, <2>3 DEF Offered
  <2>5. QED
    BY <1>1, <2>1, <2>4 DEF Fields
<1>7. c[f] \in Offered(c, f)
  BY <1>2, <1>4, <1>5, <1>6 DEF Offered
<1>8. QED
  BY <1>7 DEF c

LEMMA ListInitInv == ListInit => ListInv
<1> SUFFICES ASSUME ListInit
             PROVE  ListInv
  OBVIOUS
<1>1. /\ version = 0 /\ fetches = {} /\ cached = Nothing /\ acting = {}
      /\ view = [mounted |-> FALSE, key |-> Home]
  BY DEF ListInit
<1>2. /\ view.mounted = FALSE /\ view.key = Home /\ view.key.filter = NoFilter
      /\ view.key = [filter |-> view.key.filter, page |-> view.key.page]
      /\ view = [mounted |-> view.mounted, key |-> view.key]
  BY <1>1 DEF Home
<1>3. version \in Versions
  BY <1>1, ChangesAreCounted DEF Versions
<1>4. ListShape
  <2>1. view.mounted \in BOOLEAN
    BY <1>2
  <2>2. QED
    BY <1>1, <1>2, <1>3, <2>1 DEF ListShape
<1>5. ActingIsHere /\ FetchIsCurrent /\ CacheIsCurrent /\ PageIsCurrent
  BY <1>1, <1>2 DEF ActingIsHere, FetchIsCurrent, CacheIsCurrent, PageIsCurrent
<1>6. FiltersAreOffered
  BY <1>2 DEF FiltersAreOffered, NoFilter
<1>7. QED
  BY <1>4, <1>5, <1>6 DEF ListInv

LEMMA ActingStays ==
    ASSUME ActingIsHere, acting' \subseteq acting, view.mounted => view'.mounted
    PROVE  ActingIsHere'
BY DEF ActingIsHere

\* A new request of the component makes what is shown irrelevant.
LEMMA SendKeeps ==
    ASSUME ListInv, NEW key, Send(key), ~adrift' => key = view'.key,
           view'.mounted = TRUE, view' = [mounted |-> view'.mounted, key |-> view'.key],
           view'.key = [filter |-> view'.key.filter, page |-> view'.key.page],
           version' = version, acting' \subseteq acting,
           cached' # Nothing => cached'.key = Home,
           CacheIsCurrent', FiltersAreOffered'
    PROVE  ListInv'
<1>1. PICK q : q = AskFor(key)
  OBVIOUS
<1>2. /\ fetches' = Orphans \cup {q} /\ q.key = key
      /\ q = Fetched(q.key, q.count, q.rows, q.orphan) /\ q.orphan = FALSE
      /\ q.count = Unread /\ q.rows = Unread
  BY <1>1, RequestFields DEF Send, Supersede
<1>3. view'.mounted \in BOOLEAN /\ ActingIsHere'
  BY ActingStays DEF ListInv
<1>4. \A f \in fetches' : f = Fetched(f.key, f.count, f.rows, f.orphan) /\ f.orphan \in BOOLEAN
  <2>1. \A f \in fetches : f = Fetched(f.key, f.count, f.rows, f.orphan) /\ f.orphan \in BOOLEAN
    BY DEF ListInv, ListShape
  <2>2. QED
    BY ONLY <1>2, <2>1 DEF Orphans
<1>5. ListShape'
  <2>1. \A f \in fetches' : f.count \in Versions \cup {Unread}
    BY <1>2 DEF ListInv, ListShape, Orphans
  <2>2. QED
    BY <1>3, <1>4, <2>1 DEF ListInv, ListShape
<1>6. fetches' \ Orphans' = {q}
  BY ONLY <1>2 DEF Orphans
<1>7. FetchIsCurrent'
  BY <1>2, <1>6 DEF FetchIsCurrent, UpToDate
<1>8. PageIsCurrent'
  BY <1>6 DEF PageIsCurrent
<1>9. QED
  BY <1>3, <1>5, <1>7, <1>8 DEF ListInv

\* What the tab has been told, or will be, only grows with the changes.
TellsMore ==
    /\ version \in Nat
    /\ \/ version' = version /\ Told \subseteq Told'
       \/ version' = version + 1 /\ Told \cup {version'} \subseteq Told'

LEMMA TellsMoreKeeps ==
    ASSUME TellsMore
    PROVE  \A read : UpToDate(read) => UpToDate(read)'
<1> SUFFICES ASSUME NEW read, UpToDate(read), read # Unread, NEW v \in 1 .. version', v > read
             PROVE  v \in Told'
  BY DEF UpToDate
<1>1. CASE v \in 1 .. version
  BY <1>1 DEF UpToDate, TellsMore
<1>2. CASE v \notin 1 .. version
  <2>1. version' = version + 1 /\ v = version' /\ Told \cup {version'} \subseteq Told'
    BY <1>2 DEF TellsMore
  <2>2. QED
    BY <2>1
<1>3. QED
  BY <1>1, <1>2

LEMMA FiltersStay ==
    FiltersAreOffered /\ UNCHANGED directory /\ view'.key.filter = view.key.filter => FiltersAreOffered'
BY DEF FiltersAreOffered, Offered

LEMMA VersionsCount == version \in Versions => version \in Nat
BY ChangesAreCounted DEF Versions

LEMMA TablesKeep ==
    ASSUME ListInv, TellsMore, version' \in Versions,
           UNCHANGED <<directory, view, failed, shown, fetches, cached, acting, adrift>>
    PROVE  ListInv'
<1>1. ListShape' /\ ActingIsHere'
  BY ActingStays DEF ListInv, ListShape
<1>2. \A read : UpToDate(read) => UpToDate(read)'
  BY TellsMoreKeeps
<1>3. FetchIsCurrent'
  BY <1>2 DEF ListInv, FetchIsCurrent, Orphans
<1>4. \A list : ListIsCurrent(list) => ListIsCurrent(list)'
  BY <1>2 DEF ListIsCurrent, Unread
<1>5. CacheIsCurrent' /\ PageIsCurrent'
  BY <1>4 DEF ListInv, CacheIsCurrent, PageIsCurrent, Orphans, Nothing, Unread
<1>6. QED
  BY <1>1, <1>3, <1>5, FiltersStay DEF ListInv

LEMMA AnswerKeeps ==
    ASSUME ListInv, NEW f \in fetches, NEW field \in {"count", "rows"}, Answer(f, field)
    PROVE  ListInv'
<1>1. PICK g : g = [f EXCEPT ![field] = version]
  OBVIOUS
<1>2. /\ f = Fetched(f.key, f.count, f.rows, f.orphan) /\ f.orphan \in BOOLEAN /\ version \in Nat
      /\ fetches' = (fetches \ {f}) \cup {g}
      /\ UNCHANGED <<directory, version, pending, unheard, view, failed, shown, cached, acting,
                     adrift, picks>>
  BY <1>1, VersionsCount DEF ListInv, ListShape, Answer
<1>4. /\ g = Fetched(g.key, g.count, g.rows, g.orphan) /\ g.orphan = f.orphan /\ g.key = f.key
      /\ g.count \in {f.count, version} /\ g.rows \in {f.rows, version}
  <2>1. CASE field = "count"
    <3>1. g = Fetched(f.key, version, f.rows, f.orphan)
      BY <1>1, <1>2, <2>1 DEF Fetched
    <3>2. QED
      BY <3>1 DEF Fetched
  <2>2. CASE field = "rows"
    <3>1. g = Fetched(f.key, f.count, version, f.orphan)
      BY <1>1, <1>2, <2>2 DEF Fetched
    <3>2. QED
      BY <3>1 DEF Fetched
  <2>3. QED
    BY <2>1, <2>2
<1>5. \A read : UpToDate(read) => UpToDate(read)'
  BY <1>2 DEF UpToDate, Told
<1>6. \A read : read = version => UpToDate(read)'
  BY <1>2 DEF UpToDate
<1>7. ListShape' /\ ActingIsHere'
  <2>1. \A x \in fetches' : x.count \in Versions \cup {Unread}
    BY <1>2, <1>4 DEF ListInv, ListShape
  <2>2. QED
    BY <1>2, <1>4, <2>1, ActingStays DEF ListInv, ListShape
<1>8. FetchIsCurrent'
  <2>1. CASE f.orphan
    <3>1. fetches' \ Orphans' = fetches \ Orphans
      BY <1>2, <1>4, <2>1 DEF Orphans
    <3>2. QED
      BY <1>2, <1>5, <3>1 DEF ListInv, FetchIsCurrent
  <2>2. CASE ~f.orphan
    <3>1. f \in fetches \ Orphans
      BY <2>2 DEF Orphans
    <3>2. fetches' \ Orphans' = {g}
      BY <1>2, <1>4, <2>2, <3>1 DEF Orphans, ListInv, FetchIsCurrent
    <3>3. UpToDate(g.count)' /\ UpToDate(g.rows)'
      <4>1. UpToDate(f.count)' /\ UpToDate(f.rows)'
        BY <1>5, <3>1 DEF ListInv, FetchIsCurrent
      <4>2. QED
        BY <1>4, <1>6, <4>1
    <3>4. view.mounted /\ (~adrift => g.key = view.key)
      BY <1>4, <3>1 DEF ListInv, FetchIsCurrent
    <3>5. QED
      BY <1>2, <3>2, <3>3, <3>4 DEF FetchIsCurrent
  <2>3. QED
    BY <2>1, <2>2
<1>9. \A list : ListIsCurrent(list) => ListIsCurrent(list)'
  BY <1>5 DEF ListIsCurrent, Unread
<1>10. CacheIsCurrent'
  BY <1>2, <1>9 DEF ListInv, CacheIsCurrent, Nothing, Unread
<1>11. fetches' = Orphans' => fetches = Orphans
  BY <1>2, <1>4 DEF Orphans
<1>12. PageIsCurrent'
  BY <1>2, <1>9, <1>11 DEF ListInv, PageIsCurrent, Nothing, Unread
<1>13. QED
  BY <1>2, <1>7, <1>8, <1>10, <1>12, FiltersStay DEF ListInv

\* A request ends: its answer is shown and cached, or it is dropped.
LEMMA EndKeeps ==
    ASSUME ListInv, NEW f \in fetches, fetches' = fetches \ {f},
           UNCHANGED <<directory, version, pending, unheard, view, acting, adrift>>,
           cached' # Nothing => cached'.key = Home,
           CacheIsCurrent',
           f.orphan => UNCHANGED <<shown, failed>>,
           ~f.orphan => failed' \/ adrift'
               \/ (shown' # Nothing /\ shown'.key = f.key /\ ListIsCurrent(shown'))
    PROVE  ListInv'
<1>1. ListShape' /\ ActingIsHere'
  BY ActingStays DEF ListInv, ListShape
<1>2. \A read : UpToDate(read) => UpToDate(read)'
  BY DEF UpToDate, Told
<1>3. FetchIsCurrent'
  BY <1>2 DEF ListInv, FetchIsCurrent, Orphans
<1>4. \A list : ListIsCurrent(list) => ListIsCurrent(list)'
  BY <1>2 DEF ListIsCurrent, Unread
<1>5. PageIsCurrent'
  <2>1. CASE f.orphan
    <3>1. fetches' = Orphans' => fetches = Orphans
      BY <2>1 DEF Orphans
    <3>2. QED
      BY <1>4, <2>1, <3>1 DEF ListInv, PageIsCurrent, Nothing, Unread
  <2>2. CASE ~f.orphan
    <3>1. ~adrift => f.key = view.key
      BY <2>2 DEF ListInv, FetchIsCurrent, Orphans
    <3>2. ListIsCurrent(shown') => ListIsCurrent(shown)'
      BY DEF ListIsCurrent, UpToDate, Told, Unread
    <3>3. QED
      BY <2>2, <3>1, <3>2 DEF PageIsCurrent, Nothing, Unread
  <2>3. QED
    BY <2>1, <2>2
<1>6. QED
  BY <1>1, <1>3, <1>5, FiltersStay DEF ListInv

LEMMA CacheStays ==
    ASSUME CacheIsCurrent, UNCHANGED <<version, pending, unheard, cached>>
    PROVE  CacheIsCurrent'
BY DEF CacheIsCurrent, ListIsCurrent, UpToDate, Told, Nothing, Unread

LEMMA RespondKeeps == ListInv /\ Respond => ListInv'
<1> SUFFICES ASSUME ListInv, Respond
             PROVE  ListInv'
  OBVIOUS
<1>1. PICK f \in {x \in fetches : Answered(x)} :
        LET list == [key |-> f.key, count |-> f.count, rows |-> f.rows, late |-> f.orphan]
        IN  /\ IF f.orphan THEN UNCHANGED <<shown, failed>>
               ELSE shown' = list /\ failed' = FALSE
            /\ cached' = IF f.key = Home THEN list ELSE Nothing
            /\ fetches' = fetches \ {f}
  BY DEF Respond
<1>2. UNCHANGED <<directory, version, pending, unheard, view, acting, adrift>>
  BY DEF Respond
<1> DEFINE list == [key |-> f.key, count |-> f.count, rows |-> f.rows, late |-> f.orphan]
<1>3. list.key = f.key /\ list.count = f.count /\ list.rows = f.rows /\ list.late = f.orphan
  OBVIOUS
<1>4. /\ f \in fetches /\ fetches' = fetches \ {f} /\ Unread \notin {f.count, f.rows}
      /\ f.orphan => UNCHANGED <<shown, failed>>
      /\ ~f.orphan => shown' = list /\ failed' = FALSE
      /\ cached' = IF f.key = Home THEN list ELSE Nothing
  BY <1>1 DEF Answered
<1> HIDE DEF list
<1>5. list # Nothing
  BY <1>3, <1>4 DEF Nothing
<1>6. ~f.orphan => ListIsCurrent(list)
  BY <1>3, <1>4 DEF ListInv, FetchIsCurrent, Orphans, ListIsCurrent
<1>7. CASE f.key = Home
  <2>1. cached' = list /\ list.key = Home
    BY <1>3, <1>4, <1>7
  <2>2. ListIsCurrent(list) => ListIsCurrent(list)'
    BY <1>2 DEF ListIsCurrent, UpToDate, Told, list
  <2>3. ~list.late => ListIsCurrent(cached)'
    <3> SUFFICES ASSUME ~list.late
                 PROVE  ListIsCurrent(cached)'
      OBVIOUS
    <3>1. ListIsCurrent(list)
      BY <1>3, <1>6
    <3>2. QED
      BY <1>2, <2>1, <3>1 DEF ListIsCurrent, UpToDate, Told, Unread
  <2>4. CacheIsCurrent'
    BY <1>5, <2>1, <2>3 DEF CacheIsCurrent, Nothing, Unread
  <2>5. QED
    BY <1>2, <1>3, <1>4, <1>5, <1>6, <2>1, <2>4, EndKeeps
<1>8. CASE f.key # Home
  <2>1. cached' = Nothing
    BY <1>4, <1>8
  <2>2. CacheIsCurrent'
    BY <2>1 DEF CacheIsCurrent, Nothing, Unread
  <2>3. QED
    BY <1>2, <1>3, <1>4, <1>5, <1>6, <2>1, <2>2, EndKeeps
<1>9. QED
  BY <1>7, <1>8

LEMMA UnmountKeeps == ListInv /\ Unmount => ListInv'
<1> SUFFICES ASSUME ListInv, Unmount
             PROVE  ListInv'
  OBVIOUS
<1>1. /\ view' = [mounted |-> FALSE, key |-> Home]
      /\ fetches' = {[f EXCEPT !.orphan = TRUE] : f \in fetches}
      /\ acting' = {[a EXCEPT !.orphan = TRUE] : a \in acting}
      /\ UNCHANGED <<directory, version, pending, unheard, cached>>
  BY DEF Unmount
<1>2. /\ view'.mounted = FALSE /\ view'.key = Home /\ view'.key.filter = NoFilter
      /\ view'.key = [filter |-> view'.key.filter, page |-> view'.key.page]
      /\ view' = [mounted |-> view'.mounted, key |-> view'.key]
  BY <1>1 DEF Home
<1>3. \A f \in fetches' : /\ f = Fetched(f.key, f.count, f.rows, f.orphan) /\ f.orphan = TRUE
                          /\ f.count \in Versions \cup {Unread}
  <2> SUFFICES ASSUME NEW f \in fetches
               PROVE  LET g == [f EXCEPT !.orphan = TRUE] IN
                        /\ g = Fetched(g.key, g.count, g.rows, g.orphan) /\ g.orphan = TRUE
                        /\ g.count \in Versions \cup {Unread}
    BY <1>1
  <2>1. f = Fetched(f.key, f.count, f.rows, f.orphan) /\ f.count \in Versions \cup {Unread}
    BY DEF ListInv, ListShape
  <2>2. PICK gone : gone = TRUE
    OBVIOUS
  <2>3. [f EXCEPT !.orphan = gone] = Fetched(f.key, f.count, f.rows, gone)
    BY <2>1 DEF Fetched
  <2>4. [f EXCEPT !.orphan = TRUE] = Fetched(f.key, f.count, f.rows, TRUE)
    BY <2>2, <2>3
  <2>5. QED
    BY <2>1, <2>4, FetchedFields
<1>4. ListShape'
  <2>1. view'.mounted \in BOOLEAN /\ \A f \in fetches' : f.orphan \in BOOLEAN
    BY <1>2, <1>3
  <2>2. QED
    BY <1>1, <1>2, <1>3, <2>1 DEF ListInv, ListShape
<1>5. fetches' \ Orphans' = {}
  BY <1>3 DEF Orphans
<1>6. FetchIsCurrent' /\ PageIsCurrent'
  BY <1>2, <1>5 DEF FetchIsCurrent, PageIsCurrent
<1>7. CacheIsCurrent'
  BY <1>1, CacheStays DEF ListInv
<1>8. FiltersAreOffered'
  BY <1>2 DEF FiltersAreOffered, NoFilter
<1>9. ActingIsHere'
  <2> SUFFICES ASSUME NEW a \in acting
               PROVE  LET b == [a EXCEPT !.orphan = TRUE] IN
                        b = [pick |-> b.pick, key |-> b.key, orphan |-> b.orphan] /\ b.orphan
    BY <1>1 DEF ActingIsHere
  <2>1. a = [pick |-> a.pick, key |-> a.key, orphan |-> a.orphan]
    BY DEF ListInv, ActingIsHere
  <2>2. PICK gone : gone = TRUE
    OBVIOUS
  <2>3. [a EXCEPT !.orphan = gone] = [pick |-> a.pick, key |-> a.key, orphan |-> gone]
    BY <2>1
  <2>4. [a EXCEPT !.orphan = TRUE] = [pick |-> a.pick, key |-> a.key, orphan |-> TRUE]
    BY <2>2, <2>3
  <2>5. QED
    BY <2>4
<1>10. QED
  BY <1>4, <1>6, <1>7, <1>8, <1>9 DEF ListInv

LEMMA MountKeeps == ListInv /\ Mount => ListInv'
<1> SUFFICES ASSUME ListInv, Mount
             PROVE  ListInv'
  OBVIOUS
<1>1. /\ ~view.mounted
      /\ view' = [mounted |-> TRUE, key |-> Home] /\ failed' = FALSE
      /\ UNCHANGED <<directory, version, pending, unheard, cached, acting, picks>>
  BY DEF Mount
<1>2. /\ view'.mounted = TRUE /\ view'.key = Home /\ view'.key.filter = NoFilter
      /\ Home = [filter |-> Home.filter, page |-> Home.page]
      /\ view' = [mounted |-> view'.mounted, key |-> view'.key]
  BY <1>1 DEF Home
<1>3. CacheIsCurrent' /\ FiltersAreOffered'
  BY <1>1, <1>2, CacheStays DEF ListInv, FiltersAreOffered, NoFilter
<1>4. cached' # Nothing => cached'.key = Home
  BY <1>1 DEF ListInv, ListShape, Nothing, Unread
<1>5. CASE Send(Home)
  BY <1>1, <1>2, <1>3, <1>4, <1>5, SendKeeps
<1>6. CASE cached # Nothing /\ shown' = cached /\ UNCHANGED fetches
  <2>1. view'.mounted \in BOOLEAN
    BY <1>2
  <2>2. ListShape'
    BY <1>1, <1>2, <1>4, <1>6, <2>1 DEF ListInv, ListShape
  <2>8. ActingIsHere'
    BY <1>1, <1>2, ActingStays DEF ListInv
  <2>3. fetches' \ Orphans' = {}
    BY <1>1, <1>6 DEF ListInv, FetchIsCurrent, Orphans
  <2>4. FetchIsCurrent'
    BY <2>3 DEF FetchIsCurrent
  <2>5. /\ shown' # Nothing /\ shown'.key = view'.key
        /\ ~shown'.late => ListIsCurrent(shown)'
    BY <1>1, <1>2, <1>6 DEF ListInv, ListShape, CacheIsCurrent, ListIsCurrent, UpToDate, Told, Unread
  <2>6. PageIsCurrent'
    BY <2>5 DEF PageIsCurrent, Nothing, Unread
  <2>7. QED
    BY <1>3, <2>2, <2>4, <2>6, <2>8 DEF ListInv
<1>7. QED
  BY <1>5, <1>6 DEF Mount

\* A new query of the component that is mounted.
LEMMA QueryKeeps ==
    ASSUME ListInv, NEW key, key = [filter |-> key.filter, page |-> key.page],
           view.mounted, view' = [view EXCEPT !.key = key], Send(key), FiltersAreOffered',
           UNCHANGED <<version, pending, unheard, cached, acting>>
    PROVE  ListInv'
<1>1. /\ view'.mounted = TRUE /\ view'.key = key
      /\ view' = [mounted |-> view'.mounted, key |-> view'.key]
  BY DEF ListInv, ListShape
<1>2. CacheIsCurrent'
  BY CacheStays DEF ListInv
<1>3. cached' # Nothing => cached'.key = Home
  BY DEF ListInv, ListShape, Nothing, Unread
<1>4. QED
  BY <1>1, <1>2, <1>3, SendKeeps

LEMMA SetFilterKeeps == ListInv /\ SetFilter => ListInv'
<1> SUFFICES ASSUME ListInv, SetFilter
             PROVE  ListInv'
  OBVIOUS
<1>1. PICK filter : Pick(filter)
  BY DEF SetFilter
<1>2. view.mounted /\ UNCHANGED <<directory, version, pending, unheard, failed, shown, cached, acting>>
  BY DEF SetFilter
<1>3. PICK key : key = [filter |-> Cleared(filter), page |-> 1]
  OBVIOUS
<1>4. /\ view' = [view EXCEPT !.key = key] /\ Send(view'.key)
      /\ view = [mounted |-> view.mounted, key |-> view.key]
  BY <1>1, <1>3 DEF Pick, ListInv, ListShape
<1>5. view'.key = key /\ key.filter = Cleared(filter) /\ key = [filter |-> key.filter, page |-> key.page]
  BY <1>3, <1>4
<1>6. PICK c : c = Cleared(filter)
  OBVIOUS
<1>7. \A f \in Fields : c[f] \in Offered(c, f) \cup {All}
  BY <1>6, ClearedIsOffered
<1>8. FiltersAreOffered'
  <2>1. view'.key.filter = c
    BY <1>5, <1>6
  <2>2. \A f \in Fields : Offered(c, f)' = Offered(c, f)
    BY <1>2 DEF Offered
  <2>3. QED
    BY <1>7, <2>1, <2>2 DEF FiltersAreOffered, Offered
<1>9. QED
  BY <1>2, <1>4, <1>5, <1>8, QueryKeeps

LEMMA GoToPageKeeps == ListInv /\ GoToPage => ListInv'
<1> SUFFICES ASSUME ListInv, GoToPage
             PROVE  ListInv'
  OBVIOUS
<1>1. PICK page : view' = [view EXCEPT !.key.page = page] /\ Send(view'.key)
  BY DEF GoToPage
<1>2. view.mounted /\ UNCHANGED <<directory, version, pending, unheard, failed, shown, cached, acting>>
  BY DEF GoToPage
<1>3. PICK key : key = [view.key EXCEPT !.page = page]
  OBVIOUS
<1>4. /\ view' = [view EXCEPT !.key = key] /\ view'.key = key
      /\ key = [filter |-> key.filter, page |-> key.page] /\ key.filter = view.key.filter
  BY <1>1, <1>3 DEF ListInv, ListShape
<1>5. FiltersAreOffered'
  BY <1>2, <1>4, FiltersStay DEF ListInv
<1>6. QED
  BY <1>1, <1>2, <1>4, <1>5, QueryKeeps

LEMMA TotalPagesCount ==
    ASSUME NEW filter, NEW v \in Versions
    PROVE  TotalPages(filter, v) \in Int
<1>1. Matching(filter, v) \in SUBSET Rows[v] /\ IsFiniteSet(Rows[v])
  BY PagesAreCounted DEF Matching, Versions
<1>2. Cardinality(Matching(filter, v)) \in Nat
  BY <1>1, FS_Subset, FS_CardinalityType
<1>3. QED
  BY <1>2, PagesAreCounted DEF TotalPages, PageCount

LEMMA TurnBackKeeps == ListInv /\ TurnBack => ListInv'
<1> SUFFICES ASSUME ListInv, TurnBack
             PROVE  ListInv'
  OBVIOUS
<1>1. PICK f \in fetches : \E last :
        \/ f.orphan /\ fetches' = fetches \ {f} /\ UNCHANGED <<view, adrift>>
        \/ /\ ~f.orphan /\ f.key.page # last /\ view.key.page = last
           /\ fetches' = fetches \ {f} /\ UNCHANGED <<view, adrift>>
        \/ ~f.orphan /\ view' = [view EXCEPT !.key.page = last] /\ Send(view'.key)
  <2>1. PICK f \in {x \in fetches : Answered(x)} :
          LET last == TotalPages(f.key.filter, f.count) IN
          /\ f.key.page > last
          /\ IF f.orphan \/ view.key.page = last
             THEN fetches' = fetches \ {f} /\ UNCHANGED <<view, adrift>>
             ELSE view' = [view EXCEPT !.key.page = last] /\ Send(view'.key) /\ adrift' = FALSE
    BY DEF TurnBack
  <2>2. f.count \in Versions
    BY <2>1 DEF ListInv, ListShape, Answered
  <2>3. PICK last \in Int : last = TotalPages(f.key.filter, f.count)
    BY <2>2, TotalPagesCount
  <2>4. f.key.page # last
    BY <2>1, <2>3
  <2>5. CASE f.orphan \/ view.key.page = last
    BY <2>1, <2>3, <2>4, <2>5
  <2>6. CASE ~(f.orphan \/ view.key.page = last)
    BY <2>1, <2>3, <2>6
  <2>7. QED
    BY <2>5, <2>6
<1>2. UNCHANGED <<directory, version, pending, unheard, failed, shown, cached, acting, picks>>
  BY DEF TurnBack
<1>3. CASE fetches' = fetches \ {f} /\ UNCHANGED <<view, adrift>> /\ (f.orphan \/ adrift)
  <2>1. cached' # Nothing => cached'.key = Home
    BY <1>2 DEF ListInv, ListShape, Nothing, Unread
  <2>2. CacheIsCurrent'
    BY <1>2, CacheStays DEF ListInv
  <2>3. QED
    BY <1>2, <1>3, <2>1, <2>2, EndKeeps
<1>4. ASSUME ~f.orphan, NEW last, view' = [view EXCEPT !.key.page = last], Send(view'.key)
      PROVE  ListInv'
  <2>1. view.mounted
    BY <1>4 DEF ListInv, FetchIsCurrent, Orphans
  <2>2. PICK key : key = [view.key EXCEPT !.page = last]
    OBVIOUS
  <2>3. /\ view' = [view EXCEPT !.key = key] /\ view'.key = key
        /\ key = [filter |-> key.filter, page |-> key.page] /\ key.filter = view.key.filter
    BY <1>4, <2>2 DEF ListInv, ListShape
  <2>4. FiltersAreOffered'
    BY <1>2, <2>3, FiltersStay DEF ListInv
  <2>5. QED
    BY <1>2, <1>4, <2>1, <2>3, <2>4, QueryKeeps
<1>5. ASSUME ~f.orphan, NEW last, f.key.page # last, view.key.page = last
      PROVE  adrift
  BY <1>5 DEF ListInv, FetchIsCurrent, Orphans
<1>6. QED
  BY <1>1, <1>3, <1>4, <1>5

LEMMA FailFetchKeeps == ListInv /\ FailFetch => ListInv'
<1> SUFFICES ASSUME ListInv, FailFetch
             PROVE  ListInv'
  OBVIOUS
<1>1. PICK f \in fetches : fetches' = fetches \ {f} /\ failed' = IF f.orphan THEN failed ELSE TRUE
  BY DEF FailFetch
<1>2. UNCHANGED <<directory, version, pending, unheard, view, shown, cached, acting, adrift,
                  picks>>
  BY DEF FailFetch
<1>3. cached' # Nothing => cached'.key = Home
  BY <1>2 DEF ListInv, ListShape, Nothing, Unread
<1>4. CacheIsCurrent'
  BY <1>2, CacheStays DEF ListInv
<1>5. /\ f.orphan => UNCHANGED <<shown, failed>>
      /\ ~f.orphan => failed'
  BY <1>1, <1>2
<1>6. QED
  BY <1>1, <1>2, <1>3, <1>4, <1>5, EndKeeps

LEMMA DeliverKeeps == ListInv /\ Deliver => ListInv'
<1> SUFFICES ASSUME ListInv, Deliver
             PROVE  ListInv'
  OBVIOUS
<1>1. /\ cached' = Nothing
      /\ IF view.mounted THEN Send(view.key) /\ adrift' = FALSE ELSE UNCHANGED <<fetches, adrift>>
      /\ UNCHANGED <<directory, version, unheard, view, failed, shown, acting, picks>>
  BY DEF Deliver
<1>2. cached' # Nothing => cached'.key = Home
  BY <1>1 DEF Nothing, Unread
<1>3. CacheIsCurrent'
  BY <1>1 DEF CacheIsCurrent, Nothing, Unread
<1>4. FiltersAreOffered'
  BY <1>1, FiltersStay DEF ListInv
<1>5. CASE view.mounted
  <2>1. /\ view.mounted = TRUE /\ view = [mounted |-> view.mounted, key |-> view.key]
        /\ view.key = [filter |-> view.key.filter, page |-> view.key.page]
    BY <1>5 DEF ListInv, ListShape
  <2>2. QED
    BY <1>1, <1>2, <1>3, <1>4, <1>5, <2>1, SendKeeps
<1>6. CASE ~view.mounted
  <2>1. ListShape'
    BY <1>1, <1>2, <1>6 DEF ListInv, ListShape, Nothing, Unread
  <2>2. fetches \ Orphans = {} /\ fetches' = fetches
    BY <1>1, <1>6 DEF ListInv, FetchIsCurrent
  <2>3. fetches' \ Orphans' = {}
    BY <2>2 DEF Orphans
  <2>4. FetchIsCurrent' /\ PageIsCurrent'
    BY <1>1, <1>6, <2>3 DEF FetchIsCurrent, PageIsCurrent
  <2>5. ActingIsHere'
    BY <1>1, ActingStays DEF ListInv
  <2>6. QED
    BY <1>3, <1>4, <2>1, <2>4, <2>5 DEF ListInv
<1>7. QED
  BY <1>5, <1>6

\* The refetch of the component that is there, or of one that is gone.
LEMMA ActedKeeps == ListInv /\ Acted => ListInv'
<1> SUFFICES ASSUME ListInv, Acted
             PROVE  ListInv'
  OBVIOUS
<1>1. PICK a \in acting :
        /\ acting' = acting \ {a}
        /\ \/ ~a.orphan /\ Send(a.key) /\ adrift' = (a.key # view.key)
           \/ /\ a.orphan
              /\ \E own \in {{}} \cup {{f} : f \in Orphans} :
                    fetches' = (fetches \ own) \cup {[AskFor(a.key) EXCEPT !.orphan = TRUE]}
              /\ UNCHANGED adrift
           \/ UNCHANGED <<fetches, adrift>>
  BY DEF Acted
<1>2. UNCHANGED <<directory, version, pending, unheard, view, failed, shown, cached, picks>>
  BY DEF Acted
<1>3. CacheIsCurrent' /\ FiltersAreOffered' /\ ActingIsHere' /\ acting' \subseteq acting
  BY <1>1, <1>2, CacheStays, FiltersStay, ActingStays DEF ListInv
<1>4. cached' # Nothing => cached'.key = Home
  BY <1>2 DEF ListInv, ListShape, Nothing, Unread
<1>5. CASE ~a.orphan /\ Send(a.key) /\ adrift' = (a.key # view.key)
  <2>1. view.mounted = TRUE
    BY <1>5 DEF ListInv, ActingIsHere, ListShape
  <2>2. /\ view = [mounted |-> view.mounted, key |-> view.key]
        /\ view.key = [filter |-> view.key.filter, page |-> view.key.page]
    BY DEF ListInv, ListShape
  <2>3. QED
    BY <1>2, <1>3, <1>4, <1>5, <2>1, <2>2, SendKeeps
<1>6. CASE /\ \E own \in {{}} \cup {{f} : f \in Orphans} :
                 fetches' = (fetches \ own) \cup {[AskFor(a.key) EXCEPT !.orphan = TRUE]}
           /\ UNCHANGED adrift
  <2>1. PICK own : /\ own \subseteq Orphans
                   /\ fetches' = (fetches \ own) \cup {[AskFor(a.key) EXCEPT !.orphan = TRUE]}
    BY <1>6
  <2>2. PICK g : g = [AskFor(a.key) EXCEPT !.orphan = TRUE]
    OBVIOUS
  <2>3. g = Fetched(g.key, g.count, g.rows, g.orphan) /\ g.orphan = TRUE /\ g.count = Unread
    BY <2>2 DEF AskFor, Fetched
  <2>4. /\ \A f \in fetches' : f = Fetched(f.key, f.count, f.rows, f.orphan) /\ f.orphan \in BOOLEAN
        /\ \A f \in fetches' : f.count \in Versions \cup {Unread}
        /\ fetches' \ Orphans' = fetches \ Orphans
    BY <2>1, <2>2, <2>3 DEF ListInv, ListShape, Orphans
  <2>5. ListShape'
    BY <1>2, <1>4, <2>4 DEF ListInv, ListShape
  <2>6. FetchIsCurrent'
    BY <1>2, <1>6, <2>4 DEF ListInv, FetchIsCurrent, UpToDate, Told
  <2>7. fetches' = Orphans' => fetches = Orphans
    BY <2>4 DEF Orphans
  <2>8. PageIsCurrent'
    BY <1>2, <1>6, <2>7 DEF ListInv, PageIsCurrent, ListIsCurrent, UpToDate, Told, Nothing, Unread
  <2>9. QED
    BY <1>3, <2>5, <2>6, <2>8 DEF ListInv
<1>7. CASE UNCHANGED <<fetches, adrift>>
  <2>1. ListShape'
    BY <1>2, <1>4, <1>7 DEF ListInv, ListShape
  <2>2. FetchIsCurrent' /\ PageIsCurrent'
    BY <1>2, <1>7 DEF ListInv, FetchIsCurrent, PageIsCurrent, ListIsCurrent, UpToDate, Told, Orphans,
                      Nothing, Unread
  <2>3. QED
    BY <1>3, <2>1, <2>2 DEF ListInv
<1>8. QED
  BY <1>1, <1>5, <1>6, <1>7

LEMMA ActKeeps == ListInv /\ Act => ListInv'
<1> SUFFICES ASSUME ListInv, Act
             PROVE  ListInv'
  OBVIOUS
<1>1. /\ view.mounted
      /\ acting' = acting \cup {[pick |-> picks', key |-> view.key, orphan |-> FALSE]}
      /\ UNCHANGED <<directory, version, pending, unheard, view, failed, shown, fetches, cached,
                     adrift>>
  BY DEF Act
<1>2. ActingIsHere'
  BY <1>1 DEF ListInv, ActingIsHere
<1>3. CacheIsCurrent' /\ FiltersAreOffered'
  BY <1>1, CacheStays, FiltersStay DEF ListInv
<1>4. ListShape'
  BY <1>1 DEF ListInv, ListShape, Nothing, Unread
<1>5. FetchIsCurrent' /\ PageIsCurrent'
  BY <1>1 DEF ListInv, FetchIsCurrent, PageIsCurrent, ListIsCurrent, UpToDate, Told, Orphans,
              Nothing, Unread
<1>6. QED
  BY <1>2, <1>3, <1>4, <1>5 DEF ListInv

LEMMA ListNextInv == ListInv /\ [ListNext]_listVars => ListInv'
<1> SUFFICES ASSUME ListInv, [ListNext]_listVars
             PROVE  ListInv'
  OBVIOUS
<1>1. version \in Versions /\ version \in Nat
  BY VersionsCount DEF ListInv, ListShape
<1>2. CASE Commit
  <2>1. /\ version' = version + 1 /\ version' \in Versions
        /\ UNCHANGED <<directory, view, failed, shown, fetches, cached, acting, adrift>>
    BY <1>2 DEF Commit
  <2>2. Told \cup {version'} \subseteq Told'
    BY <1>2 DEF Commit, Told
  <2>3. QED
    BY <1>1, <2>1, <2>2, TablesKeep DEF TellsMore
<1>3. CASE Serve
  BY <1>3, AnswerKeeps DEF Serve
<1>4. CASE Mount
  BY <1>4, MountKeeps
<1>5. CASE Unmount
  BY <1>5, UnmountKeeps
<1>6. CASE SetFilter
  BY <1>6, SetFilterKeeps
<1>7. CASE GoToPage
  BY <1>7, GoToPageKeeps
<1>8. CASE TurnBack
  BY <1>8, TurnBackKeeps
<1>9. CASE Respond
  BY <1>9, RespondKeeps
<1>10. CASE FailFetch
  BY <1>10, FailFetchKeeps
<1>11. CASE Deliver
  BY <1>11, DeliverKeeps
<1>12. CASE LoseEvent
  <2>1. /\ Told \subseteq Told'
        /\ UNCHANGED <<directory, version, view, failed, shown, fetches, cached, acting, adrift, picks>>
    BY <1>12 DEF LoseEvent, Told
  <2>2. QED
    BY <1>1, <2>1, TablesKeep DEF TellsMore
<1>13. CASE UNCHANGED listVars
  <2>1. /\ Told \subseteq Told'
        /\ UNCHANGED <<directory, version, view, failed, shown, fetches, cached, acting, adrift, picks>>
    BY <1>13 DEF listVars, Told
  <2>2. QED
    BY <1>1, <2>1, TablesKeep DEF TellsMore
<1>14. CASE Act
  BY <1>14, ActKeeps
<1>15. CASE Acted
  BY <1>15, ActedKeeps
<1>16. QED
  BY <1>14, <1>15, <1>2, <1>3, <1>4, <1>5, <1>6, <1>7, <1>8, <1>9, <1>10, <1>11, <1>12, <1>13 DEF ListNext

\* For any places, any history of the directory's rows and any number of
\* requests: a quiet directory shows what it is set to, as it was after the last
\* change the tab was told of, but for the excuses, and is narrowed by nothing its pickers do not
\* offer (UsersDirectory.tsx:145-161, adminListCache.ts:16-19).
THEOREM DirectoryAlwaysHolds == ListSpec => []DirectoryHolds
<1>1. ASSUME ListInv
      PROVE  DirectoryHolds
  <2>1. ASSUME view.mounted, ~failed, ~adrift, pending = {}, fetches = Orphans, ~(shown # Nothing /\ shown.late)
        PROVE  /\ shown # Nothing /\ shown.key = view.key
               /\ \A v \in 1 .. version : v > shown.rows \/ v > shown.count => v \in unheard
    <3>1. shown # Nothing /\ shown.key = view.key /\ ListIsCurrent(shown)
      BY <1>1, <2>1 DEF ListInv, PageIsCurrent
    <3>2. QED
      BY <2>1, <3>1 DEF ListIsCurrent, UpToDate, Told
  <2>2. ListShowsLatest
    BY <2>1 DEF ListShowsLatest
  <2>3. QED
    BY <1>1, <2>2 DEF ListInv, DirectoryHolds
<1>2. ListInv => DirectoryHolds
  BY <1>1
<1>3. QED
  BY ListInitInv, ListNextInv, <1>2, PTL DEF ListSpec

-----------------------------------------------------------------------------
(* Publishing an alert with its needs. *)

\* Each alert stored is the one the form knows of, or one whose answer was
\* lost, and was posted by a submission of its own.
AlertsAreKnown ==
    /\ alerts = lostAnswers + (IF created THEN 1 ELSE 0)
    /\ alerts + (IF phase = "posting" THEN 1 ELSE 0) <= posts

\* What handleSubmit has still to send is not stored, what it has sent without
\* a failure is; and it sends needs for an alert it knows of only.
NeedsAreSentOnce ==
    /\ phase = "posting" => todo = asked
    /\ phase \in {"open", "posting"} => ~created
    /\ phase \in {"adding", "reported"} => created
    /\ ~created => \A r \in DraftRows : stored[r] = 0
    /\ created /\ phase # "adding" => todo = {}
    /\ created => /\ \A r \in todo : stored[r] = 0
                  /\ \A r \in asked \ (todo \cup needFailures) : stored[r] = 1

AlertFormInv == AlertFormTypeOK /\ AlertsAreKnown /\ NeedsAreSentOnce

LEMMA AlertFormInitInv == AlertFormInit => AlertFormInv
<1> SUFFICES ASSUME AlertFormInit
             PROVE  AlertFormInv
  OBVIOUS
<1>1. AlertFormTypeOK
  <2>1. /\ draft \in [DraftRows -> {"none", "blank", "partial", "filled"}]
        /\ stored \in [DraftRows -> 0 .. 1]
    BY DEF AlertFormInit
  <2>2. visible \in BOOLEAN /\ created \in BOOLEAN
    BY DEF AlertFormInit
  <2>3. alerts \in 0 .. MaxPosts /\ lostAnswers \in 0 .. MaxPosts /\ posts \in 0 .. MaxPosts
    BY PostsAreCounted DEF AlertFormInit
  <2>4. QED
    BY <2>1, <2>2, <2>3 DEF AlertFormInit, AlertFormTypeOK
<1>2. AlertsAreKnown /\ NeedsAreSentOnce
  BY DEF AlertFormInit, AlertsAreKnown, NeedsAreSentOnce
<1>3. QED
  BY <1>1, <1>2 DEF AlertFormInv

LEMMA AlertFormNextInv == AlertFormInv /\ [AlertFormNext]_alertFormVars => AlertFormInv'
<1> SUFFICES ASSUME AlertFormInv, [AlertFormNext]_alertFormVars
             PROVE  AlertFormInv'
  OBVIOUS
<1> USE PostsAreCounted DEF AlertFormInv, AlertFormTypeOK
<1>1. CASE EditDraft
  BY <1>1 DEF EditDraft, AlertsAreKnown, NeedsAreSentOnce
<1>2. CASE SubmitAlert
  <2>1. AlertsAreKnown'
    BY <1>2 DEF SubmitAlert, AlertsAreKnown
  <2>2. AlertFormTypeOK'
    BY <1>2 DEF SubmitAlert
  <2>3. NeedsAreSentOnce'
    BY <1>2 DEF SubmitAlert, NeedsAreSentOnce
  <2>4. QED
    BY <2>1, <2>2, <2>3
<1>3. CASE CloseReported
  BY <1>3 DEF CloseReported, AlertsAreKnown, NeedsAreSentOnce
<1>4. CASE CancelForm
  BY <1>4 DEF CancelForm, AlertsAreKnown, NeedsAreSentOnce
<1>5. CASE PostAlert
  <2>1. ~created /\ todo = asked /\ alerts = lostAnswers /\ alerts + 1 <= posts
    BY <1>5 DEF PostAlert, AlertsAreKnown, NeedsAreSentOnce
  <2>2. AlertsAreKnown' /\ AlertFormTypeOK'
    <3>1. CASE alerts' = alerts + 1 /\ created' /\ created' = TRUE /\ phase' = "adding" /\ UNCHANGED lostAnswers
      BY <1>5, <2>1, <3>1 DEF PostAlert, AlertsAreKnown
    <3>2. CASE alerts' = alerts + 1 /\ lostAnswers' = lostAnswers + 1 /\ phase' = "open" /\ UNCHANGED created
      BY <1>5, <2>1, <3>2 DEF PostAlert, AlertsAreKnown
    <3>3. CASE phase' = "open" /\ UNCHANGED <<alerts, lostAnswers, created>>
      BY <1>5, <2>1, <3>3 DEF PostAlert, AlertsAreKnown
    <3>4. QED
      BY <1>5, <3>1, <3>2, <3>3 DEF PostAlert
  <2>3. NeedsAreSentOnce'
    BY <1>5, <2>1 DEF PostAlert, NeedsAreSentOnce
  <2>4. QED
    BY <2>2, <2>3
<1>6. CASE PostNeed
  <2>1. PICK r \in todo :
          /\ todo' = todo \ {r}
          /\ \/ stored' = [stored EXCEPT ![r] = @ + 1] /\ UNCHANGED needFailures
             \/ /\ stored' \in {stored, [stored EXCEPT ![r] = @ + 1]}
                /\ needFailures' = needFailures \cup {r}
    BY <1>6 DEF PostNeed
  <2>2. created /\ phase = "adding" /\ stored[r] = 0 /\ r \in DraftRows
    BY <1>6 DEF PostNeed, NeedsAreSentOnce
  <2>3. AlertFormTypeOK' /\ AlertsAreKnown'
    BY <1>6, <2>1, <2>2 DEF PostNeed, AlertsAreKnown
  <2>4. NeedsAreSentOnce'
    BY <1>6, <2>1, <2>2 DEF PostNeed, NeedsAreSentOnce
  <2>5. QED
    BY <2>3, <2>4
<1>7. CASE FinishSubmit
  <2>1. visible' \in BOOLEAN
    BY <1>7 DEF FinishSubmit
  <2>2. QED
    BY <1>7, <2>1 DEF FinishSubmit, AlertsAreKnown, NeedsAreSentOnce
<1>8. CASE UNCHANGED alertFormVars
  BY <1>8 DEF alertFormVars, AlertsAreKnown, NeedsAreSentOnce
<1>9. QED
  BY <1>1, <1>2, <1>3, <1>4, <1>5, <1>6, <1>7, <1>8 DEF AlertFormNext

\* For any rows and any number of submissions: one alert is published but for
\* lost answers, and every need of it once or by name in the message
\* (AlertForm.tsx:121-124, 278-355).
THEOREM AlertIsPublishedOnce == AlertFormSpec => []PublishedOnce
<1>1. AlertFormInv => PublishedOnce
  BY PostsAreCounted DEF AlertFormInv, AlertFormTypeOK, AlertsAreKnown, NeedsAreSentOnce,
     PublishedOnce, OneAlertPublished, RowsAccountedFor
<1>2. QED
  BY AlertFormInitInv, AlertFormNextInv, <1>1, PTL DEF AlertFormSpec

-----------------------------------------------------------------------------
(* Saving the list of needs. *)

\* A row is sent once by each submission.
CopiesAreCounted ==
    \A k \in Added :
        /\ copies[k] <= saves
        /\ saving = "deleting" \/ (saving = "sending" /\ k \in queue) => copies[k] < saves

\* A deletion that was sent and did not fail is done, whoever did it ...
DeletionsAreDone ==
    /\ saving = "deleting" /\ ~failures => \A k \in taken.deleted \ queue : table[k] = "gone"
    /\ saving \in {"sending", "closed"} /\ ~failures => \A k \in taken.deleted : table[k] = "gone"

\* ... and so is an addition; only rows that are there are sent.
AdditionsAreDone ==
    /\ saving \in {"sending", "closed"} /\ ~failures =>
          \A k \in Added \ queue : taken.rows[k] # "none" => copies[k] >= 1
    /\ saving = "closed" => queue = {} /\ ~failures
    /\ saving = "sending" => \A k \in queue : taken.rows[k] # "none"

NeedFormInv == NeedFormTypeOK /\ CopiesAreCounted /\ DeletionsAreDone /\ AdditionsAreDone

LEMMA NeedFormInitInv == NeedFormInit => NeedFormInv
<1> SUFFICES ASSUME NeedFormInit
             PROVE  NeedFormInv
  OBVIOUS
<1>1. formRow \in [Listed \cup Added -> {"none", "old", "new"}]
  BY DEF NeedFormInit
<1>2. taken \in [rows : [Listed \cup Added -> {"none", "old", "new"}], deleted : SUBSET Listed]
  BY <1>1 DEF NeedFormInit
<1>3. NeedFormTypeOK
  <2>1. failures \in BOOLEAN
    BY DEF NeedFormInit
  <2>2. table \in [Listed -> {"old", "new", "gone"}] /\ copies \in [Added -> 0 .. MaxSaves]
    BY SavesAreCounted DEF NeedFormInit
  <2>3. QED
    BY <1>1, <1>2, <2>1, <2>2, SavesAreCounted DEF NeedFormInit, NeedFormTypeOK
<1>4. CopiesAreCounted /\ DeletionsAreDone /\ AdditionsAreDone
  BY DEF NeedFormInit, CopiesAreCounted, DeletionsAreDone, AdditionsAreDone
<1>5. QED
  BY <1>3, <1>4 DEF NeedFormInv

LEMMA NeedFormNextInv == NeedFormInv /\ [NeedFormNext]_needFormVars => NeedFormInv'
<1> SUFFICES ASSUME NeedFormInv, [NeedFormNext]_needFormVars
             PROVE  NeedFormInv'
  OBVIOUS
<1> USE AddedKeysAreNew, SavesAreCounted DEF NeedFormInv
<1>1. ASSUME NeedFormTypeOK', UNCHANGED <<taken, saving, queue, failures, copies, saves>>,
             \A k \in Listed : table[k] = "gone" => table'[k] = "gone"
      PROVE  NeedFormInv'
  BY <1>1 DEF NeedFormTypeOK, CopiesAreCounted, DeletionsAreDone, AdditionsAreDone
<1>2. CASE EditRow
  <2>1. NeedFormTypeOK'
    BY <1>2 DEF EditRow, NeedFormTypeOK
  <2>2. QED
    BY <1>1, <1>2, <2>1 DEF EditRow
<1>3. CASE RemoveRow
  <2>1. NeedFormTypeOK'
    BY <1>3 DEF RemoveRow, NeedFormTypeOK
  <2>2. QED
    BY <1>1, <1>3, <2>1 DEF RemoveRow
<1>4. CASE Save
  <2>1. taken' \in [rows : [Listed \cup Added -> {"none", "old", "new"}], deleted : SUBSET Listed]
    BY <1>4 DEF Save, NeedFormTypeOK
  <2>2. NeedFormTypeOK'
    <3>1. failures' \in BOOLEAN
      BY <1>4 DEF Save
    <3>2. saves' \in 0 .. MaxSaves
      BY <1>4 DEF Save, NeedFormTypeOK
    <3>3. queue' \subseteq Listed \cup Added
      BY <1>4 DEF Save, NeedFormTypeOK
    <3>4. QED
      BY <1>4, <2>1, <3>1, <3>2, <3>3 DEF Save, NeedFormTypeOK
  <2>3. CopiesAreCounted'
    BY <1>4 DEF Save, NeedFormTypeOK, CopiesAreCounted
  <2>4. DeletionsAreDone' /\ AdditionsAreDone'
    BY <1>4 DEF Save, DeletionsAreDone, AdditionsAreDone
  <2>5. QED
    BY <2>2, <2>3, <2>4
<1>5. CASE DeleteRow
  <2>1. PICK k \in queue :
          /\ queue' = queue \ {k}
          /\ table' \in {table, [table EXCEPT ![k] = "gone"]}
          /\ \/ table' = [table EXCEPT ![k] = "gone"] /\ UNCHANGED failures
             \/ failures' = TRUE
    BY <1>5 DEF DeleteRow
  <2>2. NeedFormTypeOK'
    BY <1>5, <2>1 DEF DeleteRow, NeedFormTypeOK
  <2>3. \A l \in Listed : table[l] = "gone" => table'[l] = "gone"
    BY <2>1 DEF NeedFormTypeOK
  <2>4. ~failures' => \A l \in taken.deleted \ queue' : table'[l] = "gone"
    <3> SUFFICES ASSUME ~failures', NEW l \in taken.deleted \ queue'
                 PROVE  table'[l] = "gone"
      OBVIOUS
    <3>1. table' = [table EXCEPT ![k] = "gone"] /\ ~failures /\ l \in Listed
      BY <2>1 DEF NeedFormTypeOK
    <3>2. CASE l = k
      BY <3>1, <3>2 DEF NeedFormTypeOK
    <3>3. CASE l # k
      BY <1>5, <2>1, <2>3, <3>1, <3>3 DEF DeleteRow, DeletionsAreDone
    <3>4. QED
      BY <3>2, <3>3
  <2>5. QED
    BY <1>5, <2>2, <2>4 DEF DeleteRow, CopiesAreCounted, DeletionsAreDone, AdditionsAreDone
<1>6. CASE SendRows
  BY <1>6 DEF SendRows, NeedFormTypeOK, CopiesAreCounted, DeletionsAreDone, AdditionsAreDone
<1>7. CASE SendRow
  <2>1. PICK k \in queue :
          /\ queue' = queue \ {k}
          /\ \/ Stored(k) /\ UNCHANGED failures
             \/ failures' = TRUE /\ (Stored(k) \/ UNCHANGED <<table, copies>>)
    BY <1>7 DEF SendRow
  <2>2. saving = "sending" /\ UNCHANGED <<formRow, deletedIds, taken, saving, saves>>
    BY <1>7 DEF SendRow
  <2>3. k \in Added => copies[k] < saves
    BY <2>2 DEF CopiesAreCounted
  <2>4. \A a \in Added : copies'[a] = copies[a] \/ (a = k /\ copies'[a] = copies[a] + 1)
    BY <2>1 DEF Stored, NeedFormTypeOK
  <2>5. \A l \in Listed : table[l] = "gone" => table'[l] = "gone"
    BY <2>1 DEF Stored, NeedFormTypeOK
  <2>6. copies' \in [Added -> 0 .. MaxSaves]
    <3>1. UNCHANGED copies \/ (k \in Added /\ copies' = [copies EXCEPT ![k] = copies[k] + 1])
      BY <2>1 DEF Stored, NeedFormTypeOK
    <3>2. k \in Added => copies[k] + 1 \in 0 .. MaxSaves
      BY <2>3 DEF NeedFormTypeOK
    <3>3. QED
      BY <3>1, <3>2 DEF NeedFormTypeOK
  <2>7. table' \in [Listed -> {"old", "new", "gone"}]
    <3>1. k \in Listed => taken.rows[k] \in {"old", "new"}
      BY <2>2 DEF AdditionsAreDone, NeedFormTypeOK
    <3>2. UNCHANGED table \/ (k \in Listed /\ table' = [table EXCEPT ![k] = taken.rows[k]])
      BY <2>1 DEF Stored
    <3>3. QED
      BY <3>1, <3>2 DEF NeedFormTypeOK
  <2>8. NeedFormTypeOK'
    BY <2>1, <2>2, <2>6, <2>7 DEF NeedFormTypeOK
  <2>9. CopiesAreCounted'
    BY <2>1, <2>2, <2>3, <2>4 DEF CopiesAreCounted, NeedFormTypeOK
  <2>10. DeletionsAreDone'
    BY <2>1, <2>2, <2>5 DEF DeletionsAreDone, NeedFormTypeOK
  <2>11. AdditionsAreDone'
    <3> SUFFICES ASSUME ~failures', NEW a \in Added \ queue', taken.rows[a] # "none"
                 PROVE  copies'[a] >= 1
      BY <2>1, <2>2 DEF AdditionsAreDone
    <3>1. Stored(k) /\ ~failures /\ copies[a] \in 0 .. MaxSaves
      BY <2>1 DEF NeedFormTypeOK
    <3>2. CASE a = k
      <4>1. copies'[a] = copies[a] + 1
        BY <3>1, <3>2 DEF Stored, NeedFormTypeOK
      <4>2. QED
        BY <3>1, <4>1
    <3>3. CASE a # k
      BY <2>1, <2>2, <2>4, <3>1, <3>3 DEF AdditionsAreDone
    <3>4. QED
      BY <3>2, <3>3
  <2>12. QED
    BY <2>8, <2>9, <2>10, <2>11
<1>8. CASE FinishSave
  BY <1>8 DEF FinishSave, NeedFormTypeOK, CopiesAreCounted, DeletionsAreDone, AdditionsAreDone
<1>9. CASE DeletedElsewhere
  <2>1. NeedFormTypeOK' /\ \A k \in Listed : table[k] = "gone" => table'[k] = "gone"
    BY <1>9 DEF DeletedElsewhere, NeedFormTypeOK
  <2>2. QED
    BY <1>1, <1>9, <2>1 DEF DeletedElsewhere
<1>10. CASE UNCHANGED needFormVars
  BY <1>10 DEF needFormVars, NeedFormTypeOK, CopiesAreCounted, DeletionsAreDone, AdditionsAreDone
<1>11. QED
  BY <1>2, <1>3, <1>4, <1>5, <1>6, <1>7, <1>8, <1>9, <1>10 DEF NeedFormNext

\* For any needs, rows and number of submissions: a modal that closed as saved
\* left the server with the list it was sent (NeedFormModal.tsx:155-197).
THEOREM ClosedMeansStored == NeedFormSpec => []SavedMeansStored
<1>1. NeedFormInv => SavedMeansStored
  BY SavesAreCounted DEF NeedFormInv, NeedFormTypeOK, CopiesAreCounted, DeletionsAreDone,
     AdditionsAreDone, SavedMeansStored
<1>2. QED
  BY NeedFormInitInv, NeedFormNextInv, <1>1, PTL DEF NeedFormSpec

-----------------------------------------------------------------------------
(* Placing the pin of an alert. *)

\* A question has the number of the counter when it was scheduled, and the one
\* that waits has the latest.
QuestionsAreCounted ==
    /\ \A c \in calls : c.seq <= geocodeSeq
    /\ timer # None => timer.seq = geocodeSeq

\* The question with the latest number is about what the user last put in.
Current(c) == c # None /\ c.seq = geocodeSeq
QuestionMatchesInput ==
    \A c \in calls \cup {timer} : Current(c) =>
        /\ input.kind = "pick" => c.kind = "reverse"
        /\ input.kind = "type" => c.kind = "search"

PinInv == PinTypeOK /\ QuestionsAreCounted /\ QuestionMatchesInput /\ LatestInputWins

LEMMA QuestionsAreTyped ==
    ASSUME NEW c \in Search \cup Reverse
    PROVE  c # None /\ c.kind \in {"search", "reverse"} /\ c.seq \in 1 .. MaxInputs
BY DEF Search, Reverse, None

LEMMA PinInitInv == PinInit => PinInv
<1> SUFFICES ASSUME PinInit
             PROVE  PinInv
  OBVIOUS
<1>1. input.kind = "none" /\ input \in Input /\ geo = "idle"
  BY DEF PinInit, Input, None
<1>2. PinTypeOK
  BY <1>1, InputsAreCounted DEF PinInit, PinTypeOK
<1>3. QED
  BY <1>1, <1>2 DEF PinInit, PinInv, QuestionsAreCounted, QuestionMatchesInput, Current, LatestInputWins

\* A question scheduled for an input of its kind.
LEMMA ScheduleKeeps ==
    ASSUME PinInv, NEW question, NEW value, Schedule(question, value),
           [kind |-> question, value |-> value, seq |-> geocodeSeq + 1] \in Search \cup Reverse,
           address' \in Texts \cup {Short}, coords' \in Spots \cup {None}, latLng' \in Spots \cup {None},
           input' \in Input,
           input'.kind = "pick" => question = "reverse" /\ coords' = input'.value,
           input'.kind = "type" => question = "search" /\ address' = input'.value
    PROVE  PinInv'
<1> DEFINE q == [kind |-> question, value |-> value, seq |-> geocodeSeq + 1]
<1>1. /\ geocodeSeq \in 0 .. MaxInputs /\ geocodeSeq < MaxInputs /\ geocodeSeq' = geocodeSeq + 1
      /\ timer' = q /\ q.kind = question /\ q.seq = geocodeSeq + 1
      /\ geo' = "searching" /\ UNCHANGED calls
  BY DEF PinInv, PinTypeOK, Schedule
<1>2. q # None /\ q \in Search \cup Reverse
  BY QuestionsAreTyped
<1> HIDE DEF q
<1>3. geocodeSeq' \in 0 .. MaxInputs
  BY <1>1, InputsAreCounted
<1>4. PinTypeOK'
  BY <1>1, <1>2, <1>3 DEF PinInv, PinTypeOK
<1>5. \A c \in calls : c.seq \in 1 .. MaxInputs /\ c.seq <= geocodeSeq /\ c # None
  BY QuestionsAreTyped DEF PinInv, PinTypeOK, QuestionsAreCounted
<1>6. QuestionsAreCounted'
  BY <1>1, <1>5 DEF QuestionsAreCounted
<1>7. QuestionMatchesInput'
  BY <1>1, <1>5 DEF QuestionMatchesInput, Current
<1>8. LatestInputWins'
  BY <1>1, <1>2 DEF LatestInputWins
<1>9. QED
  BY <1>4, <1>6, <1>7, <1>8 DEF PinInv

LEMMA PinNextInv == PinInv /\ [PinNext]_pinVars => PinInv'
<1> SUFFICES ASSUME PinInv, [PinNext]_pinVars
             PROVE  PinInv'
  OBVIOUS
<1> USE InputsAreCounted
<1>1. geocodeSeq \in 0 .. MaxInputs
  BY DEF PinInv, PinTypeOK
<1>2. CASE PickSpot
  <2>1. PICK spot \in Spots :
          /\ coords' = spot /\ latLng' = spot
          /\ Schedule("reverse", spot) /\ Entered("pick", spot)
          /\ UNCHANGED address
    BY <1>2 DEF PickSpot
  <2>2. [kind |-> "reverse", value |-> spot, seq |-> geocodeSeq + 1] \in Search \cup Reverse
    BY <1>1, <2>1 DEF Schedule, Reverse
  <2>3. input' \in Input /\ input'.kind = "pick" /\ input'.value = spot
    BY <2>1 DEF Entered, Input
  <2>4. address' \in Texts \cup {Short}
    BY <2>1 DEF PinInv, PinTypeOK
  <2>5. QED
    BY <2>1, <2>2, <2>3, <2>4, ScheduleKeeps
<1>3. CASE Type
  <2>1. PICK text \in Texts :
          /\ address' = text
          /\ Schedule("search", text) /\ Entered("type", text)
          /\ UNCHANGED <<coords, latLng>>
    BY <1>3 DEF Type
  <2>2. [kind |-> "search", value |-> text, seq |-> geocodeSeq + 1] \in Search \cup Reverse
    BY <1>1, <2>1 DEF Schedule, Search
  <2>3. input' \in Input /\ input'.kind = "type" /\ input'.value = text
    BY <2>1 DEF Entered, Input
  <2>4. coords' \in Spots \cup {None} /\ latLng' \in Spots \cup {None}
    BY <2>1 DEF PinInv, PinTypeOK
  <2>5. QED
    BY <2>1, <2>2, <2>3, <2>4, ScheduleKeeps
<1>4. CASE TypeShort
  <2>1. /\ geocodeSeq < MaxInputs /\ geocodeSeq' = geocodeSeq + 1
        /\ address' = Short /\ timer' = None /\ geo' = "idle"
        /\ input'.kind = "type" /\ input'.value = Short
        /\ UNCHANGED <<coords, latLng, calls>>
    BY <1>4 DEF TypeShort, Entered
  <2>2. input' \in Input
    BY <1>4 DEF TypeShort, Entered, Input
  <2>3. \A c \in calls : c.seq \in 1 .. MaxInputs /\ c.seq <= geocodeSeq
    BY QuestionsAreTyped DEF PinInv, PinTypeOK, QuestionsAreCounted
  <2>4. PinTypeOK'
    BY <1>1, <2>1, <2>2 DEF PinInv, PinTypeOK
  <2>5. QuestionsAreCounted'
    BY <1>1, <2>1, <2>3 DEF QuestionsAreCounted
  <2>6. QuestionMatchesInput'
    BY <1>1, <2>1, <2>3 DEF QuestionMatchesInput, Current
  <2>7. LatestInputWins'
    BY <2>1 DEF LatestInputWins
  <2>8. QED
    BY <2>4, <2>5, <2>6, <2>7 DEF PinInv
<1>5. CASE EditCoords
  <2>1. PICK spot \in Spots : coords' = spot /\ latLng' = spot /\ Entered("edit", spot)
    BY <1>5 DEF EditCoords
  <2>2. input' \in Input /\ input'.kind = "edit"
    BY <2>1 DEF Entered, Input
  <2>3. QED
    BY <1>5, <2>1, <2>2 DEF EditCoords, PinInv, PinTypeOK, QuestionsAreCounted, QuestionMatchesInput,
       Current, LatestInputWins
<1>6. CASE FireTimer
  <2>1. /\ timer # None /\ timer \in Search \cup Reverse /\ timer.seq = geocodeSeq
        /\ calls' = calls \cup {timer} /\ timer' = None
        /\ UNCHANGED <<address, coords, latLng, geo, geocodeSeq, input>>
    BY <1>6 DEF FireTimer, PinInv, PinTypeOK, QuestionsAreCounted
  <2>2. PinTypeOK' /\ QuestionsAreCounted'
    BY <1>1, <2>1 DEF PinInv, PinTypeOK, QuestionsAreCounted
  <2>3. QuestionMatchesInput' /\ LatestInputWins'
    BY <2>1 DEF PinInv, QuestionMatchesInput, Current, LatestInputWins
  <2>4. QED
    BY <2>2, <2>3 DEF PinInv
<1>7. CASE AnswerCall
  <2>1. PICK call \in calls :
          /\ calls' = calls \ {call}
          /\ IF call.seq = geocodeSeq THEN Use(call) ELSE UNCHANGED <<address, coords, geo>>
    BY <1>7 DEF AnswerCall
  <2>2. UNCHANGED <<latLng, timer, geocodeSeq, input>> /\ call # None
    BY <1>7, QuestionsAreTyped DEF AnswerCall, PinInv, PinTypeOK
  <2>3. QuestionsAreCounted' /\ QuestionMatchesInput'
    BY <2>1, <2>2 DEF PinInv, QuestionsAreCounted, QuestionMatchesInput, Current
  <2>4. CASE call.seq = geocodeSeq
    <3>1. PinTypeOK'
      BY <2>1, <2>2, <2>4 DEF Use, PinInv, PinTypeOK
    <3>2. /\ input.kind = "pick" => UNCHANGED coords
          /\ input.kind = "type" => UNCHANGED address
          /\ geo' # "searching"
      BY <2>1, <2>2, <2>4 DEF Use, PinInv, QuestionMatchesInput, Current
    <3>3. LatestInputWins'
      BY <2>2, <3>2 DEF PinInv, LatestInputWins
    <3>4. QED
      BY <2>3, <3>1, <3>3 DEF PinInv
  <2>5. CASE call.seq # geocodeSeq
    <3>1. PinTypeOK'
      BY <2>1, <2>2, <2>5 DEF PinInv, PinTypeOK
    <3>2. LatestInputWins'
      BY <2>1, <2>2, <2>5 DEF PinInv, LatestInputWins
    <3>3. QED
      BY <2>3, <3>1, <3>2 DEF PinInv
  <2>6. QED
    BY <2>4, <2>5
<1>8. CASE UNCHANGED pinVars
  BY <1>8 DEF pinVars, PinInv, PinTypeOK, QuestionsAreCounted, QuestionMatchesInput, Current, LatestInputWins
<1>9. QED
  BY <1>2, <1>3, <1>4, <1>5, <1>6, <1>7, <1>8 DEF PinNext

\* For any texts, spots and number of inputs: no late answer of the geocoder
\* replaces what the user put in after its question (AlertForm.tsx:125-130).
THEOREM LatestInputAlwaysWins == PinSpec => []LatestInputWins
<1>1. PinInv => LatestInputWins
  BY DEF PinInv
<1>2. QED
  BY PinInitInv, PinNextInv, <1>1, PTL DEF PinSpec

-----------------------------------------------------------------------------
(* The filters of the map page. *)

MapInv == MapTypeOK /\ FiltersLetThrough

LEMMA FreshFilters ==
    /\ AllPins \in MapFilter /\ AllCards \in ListFilter
    /\ AllPins.search = FALSE /\ AllPins.status = "active" /\ AllPins.recent = FALSE
    /\ AllPins.severities = Severities /\ AllPins.categories = Categories("EVENT")
    /\ AllCards.search = FALSE /\ AllCards.recent = FALSE
    /\ AllCards.category = Any /\ AllCards.org = Any
BY DEF AllPins, AllCards, MapFilter, ListFilter

\* Whether an alert has a card, or a pin, depends on its own row only.
OnCard(a, row, mode, filter) ==
    /\ row # Absent /\ KindOf[a] = mode
    /\ filter.recent => a \in Recent
    /\ filter.category \in {Any, CategoryOf[a]}
    /\ filter.org \in {Any, row.org}
    /\ filter.search => a \in Hits
OnPin(a, row, mode, filter) ==
    /\ row # Absent /\ KindOf[a] = mode
    /\ filter.status = "active" => ~row.archived
    /\ filter.status = "archived" => row.archived
    /\ filter.recent => a \in Recent
    /\ IF mode = "EVENT" THEN CategoryOf[a] \in filter.categories
       ELSE SeverityOf[a] \in filter.severities
    /\ filter.search => a \in Hits
NavigationArrivesByRow ==
    /\ card # NoAlert => OnCard(card, rows[card], kind, inList[ListOf(card)])
    /\ pin # NoAlert /\ ~rows[pin].archived => OnPin(pin, rows[pin], kind, onMap)

LEMMA NavigationByRow ==
    MapTypeOK => (NavigationArrives <=> NavigationArrivesByRow)
BY DEF MapTypeOK, NavigationArrives, NavigationArrivesByRow, Cards, Base, Present, Archived,
   Pins, OnCard, OnPin

LEMMA MapInvByRow == MapTypeOK /\ NavigationArrivesByRow /\ CategoriesFitView => MapInv
BY NavigationByRow DEF MapInv, FiltersLetThrough

LEMMA CategoriesAreKnown ==
    ASSUME kind \in Kinds
    PROVE  Categories(kind) \subseteq Categories("ALERT") \cup Categories("EVENT")
BY DEF Kinds

LEMMA MapInitInv == MapInit => MapInv
<1> SUFFICES ASSUME MapInit
             PROVE  MapInv
  OBVIOUS
<1>1. [AllCards EXCEPT !.recent = TRUE] \in ListFilter
      /\ [AllCards EXCEPT !.recent = TRUE].category = Any
  BY DEF AllCards, ListFilter
<1>2. inList \in [Lists -> ListFilter] /\ \A l \in Lists : inList[l].category = Any
  <2> DEFINE recent == [AllCards EXCEPT !.recent = TRUE]
  <2>1. inList = [active |-> AllCards, archive |-> recent]
    BY DEF MapInit
  <2>2. recent \in ListFilter /\ recent.category = Any
    BY <1>1
  <2> HIDE DEF recent
  <2>3. /\ inList = [l \in DOMAIN inList |-> inList[l]] /\ DOMAIN inList = Lists
        /\ inList["active"] = AllCards /\ inList["archive"] = recent
    BY <2>1 DEF Lists
  <2>4. \A l \in Lists : inList[l] \in ListFilter /\ inList[l].category = Any
    BY <2>2, <2>3, FreshFilters DEF Lists
  <2>5. QED
    BY <2>3, <2>4
<1>3. MapTypeOK
  <2>1. rows \in [MapAlerts -> Row \cup {Absent}]
    BY DEF MapInit
  <2>2. kind \in Kinds /\ onMap \in MapFilter
    BY FreshFilters DEF MapInit, Kinds
  <2>3. QED
    BY <1>2, <2>1, <2>2 DEF MapInit, MapTypeOK
<1>4. FiltersLetThrough
  BY <1>2 DEF MapInit, FiltersLetThrough, NavigationArrives, CategoriesFitView
<1>5. QED
  BY <1>3, <1>4 DEF MapInv

LEMMA FilterListKeeps == MapInv /\ FilterList => MapInv'
<1> SUFFICES ASSUME MapInv, FilterList
             PROVE  MapInv'
  OBVIOUS
<1>1. MapTypeOK /\ NavigationArrivesByRow /\ CategoriesFitView
  BY NavigationByRow DEF MapInv, FiltersLetThrough
<1>2. UNCHANGED <<rows, kind, onMap, pin>>
  BY DEF FilterList
<1>3. PICK list \in Lists :
        /\ \/ inList' = [inList EXCEPT ![list].search = ~@]
           \/ inList' = [inList EXCEPT ![list].recent = ~@]
           \/ \E c \in Categories(kind) \cup {Any} : inList' = [inList EXCEPT ![list].category = c]
           \/ \E o \in AvailableOrgs(list) \cup {Any} : inList' = [inList EXCEPT ![list].org = o]
        /\ card' = IF card # NoAlert /\ ListOf(card) = list THEN NoAlert ELSE card
  BY DEF FilterList
<1>4. inList[list] \in ListFilter
  BY <1>1 DEF MapTypeOK
<1>5. AvailableOrgs(list) \subseteq Firms \cup {Any}
  BY <1>1 DEF MapTypeOK, AvailableOrgs, Base, Row, Absent
<1>6. PICK r \in ListFilter :
        inList' = [inList EXCEPT ![list] = r] /\ r.category \in Categories(kind) \cup {Any}
  <2>1. inList[list].category \in Categories(kind) \cup {Any}
    BY <1>1 DEF CategoriesFitView
  <2>2. CASE inList' = [inList EXCEPT ![list].search = ~@]
    <3>1. inList' = [inList EXCEPT ![list] = [inList[list] EXCEPT !.search = ~inList[list].search]]
      BY <2>2
    <3>2. [inList[list] EXCEPT !.search = ~inList[list].search] \in ListFilter
      BY <1>4 DEF ListFilter
    <3>3. [inList[list] EXCEPT !.search = ~inList[list].search].category = inList[list].category
      BY <1>4 DEF ListFilter
    <3>4. QED
      BY <2>1, <3>1, <3>2, <3>3
  <2>3. CASE inList' = [inList EXCEPT ![list].recent = ~@]
    <3>1. inList' = [inList EXCEPT ![list] = [inList[list] EXCEPT !.recent = ~inList[list].recent]]
      BY <2>3
    <3>2. [inList[list] EXCEPT !.recent = ~inList[list].recent] \in ListFilter
      BY <1>4 DEF ListFilter
    <3>3. [inList[list] EXCEPT !.recent = ~inList[list].recent].category = inList[list].category
      BY <1>4 DEF ListFilter
    <3>4. QED
      BY <2>1, <3>1, <3>2, <3>3
  <2>4. ASSUME NEW c \in Categories(kind) \cup {Any}, inList' = [inList EXCEPT ![list].category = c]
        PROVE  \E r \in ListFilter : inList' = [inList EXCEPT ![list] = r]
                                     /\ r.category \in Categories(kind) \cup {Any}
    <3>1. inList' = [inList EXCEPT ![list] = [inList[list] EXCEPT !.category = c]]
      BY <2>4
    <3>2. c \in {Any} \cup Categories("ALERT") \cup Categories("EVENT")
      BY <1>1, CategoriesAreKnown DEF MapTypeOK
    <3>3. /\ [inList[list] EXCEPT !.category = c] \in ListFilter
          /\ [inList[list] EXCEPT !.category = c].category = c
      BY <1>4, <3>2 DEF ListFilter
    <3>4. QED
      BY <3>1, <3>3
  <2>5. ASSUME NEW o \in AvailableOrgs(list) \cup {Any}, inList' = [inList EXCEPT ![list].org = o]
        PROVE  \E r \in ListFilter : inList' = [inList EXCEPT ![list] = r]
                                     /\ r.category \in Categories(kind) \cup {Any}
    <3>1. inList' = [inList EXCEPT ![list] = [inList[list] EXCEPT !.org = o]]
      BY <2>5
    <3>2. o \in {Any} \cup Firms
      BY <1>5
    <3>3. /\ [inList[list] EXCEPT !.org = o] \in ListFilter
          /\ [inList[list] EXCEPT !.org = o].category = inList[list].category
      BY <1>4, <3>2 DEF ListFilter
    <3>4. QED
      BY <2>1, <3>1, <3>3
  <2>6. QED
    BY <1>3, <2>2, <2>3, <2>4, <2>5
<1>7. inList' \in [Lists -> ListFilter] /\ \A l \in Lists : inList'[l] = IF l = list THEN r ELSE inList[l]
  BY <1>1, <1>6 DEF MapTypeOK
<1>8. card' \in MapAlerts \cup {NoAlert}
  BY <1>1, <1>3 DEF MapTypeOK
<1>9. MapTypeOK'
  BY <1>1, <1>2, <1>7, <1>8 DEF MapTypeOK
<1>10. CategoriesFitView'
  BY <1>1, <1>2, <1>6, <1>7 DEF CategoriesFitView, Categories
<1>11. NavigationArrivesByRow'
  <2>1. pin' # NoAlert /\ ~rows'[pin'].archived => OnPin(pin', rows'[pin'], kind', onMap')
    BY <1>1, <1>2 DEF NavigationArrivesByRow
  <2>2. ASSUME card' # NoAlert
        PROVE  OnCard(card', rows'[card'], kind', inList'[ListOf(card)'])
    <3>1. card' = card /\ ListOf(card) # list /\ ListOf(card)' = ListOf(card) /\ ListOf(card) \in Lists
      BY <1>2, <1>3, <2>2 DEF ListOf, Archived, Lists
    <3>2. QED
      BY <1>1, <1>2, <1>7, <2>2, <3>1 DEF NavigationArrivesByRow
  <2>3. QED
    BY <2>1, <2>2 DEF NavigationArrivesByRow, NoAlert
<1>12. NavigationArrives'
  BY <1>9, <1>11, NavigationByRow, PTL
<1>13. QED
  BY <1>9, <1>10, <1>12 DEF MapInv, FiltersLetThrough

LEMMA MapNextInv == MapInv /\ [MapNext]_mapVars => MapInv'
<1> SUFFICES ASSUME MapInv, [MapNext]_mapVars
             PROVE  MapInv'
  OBVIOUS
<1>1. MapTypeOK /\ NavigationArrivesByRow /\ CategoriesFitView
  BY NavigationByRow DEF MapInv, FiltersLetThrough
<1>2. MapTypeOK' /\ NavigationArrivesByRow' /\ CategoriesFitView' => MapInv'
  BY MapInvByRow, PTL
<1>3. CASE Refresh
  <2>1. PICK a \in MapAlerts :
          /\ \E row \in Row \cup {Absent} : rows' = [rows EXCEPT ![a] = row]
          /\ card' = IF card = a THEN NoAlert ELSE card
          /\ pin' = IF pin = a THEN NoAlert ELSE pin
          /\ UNCHANGED <<kind, onMap, inList>>
    BY <1>3 DEF Refresh
  <2>2. \A b \in MapAlerts \ {a} : rows'[b] = rows[b]
    BY <1>1, <2>1 DEF MapTypeOK
  <2>3. MapTypeOK'
    BY <1>1, <2>1 DEF MapTypeOK
  <2>4. CategoriesFitView'
    BY <1>1, <2>1 DEF CategoriesFitView, Categories
  <2>5. ASSUME card' # NoAlert
        PROVE  OnCard(card', rows'[card'], kind', inList'[ListOf(card)'])
    <3>1. card' = card /\ card \in MapAlerts /\ rows'[card] = rows[card]
      BY <1>1, <2>1, <2>2, <2>5 DEF MapTypeOK
    <3>2. ListOf(card)' = ListOf(card)
      BY <3>1 DEF ListOf, Archived
    <3>3. QED
      BY <1>1, <2>1, <2>5, <3>1, <3>2 DEF NavigationArrivesByRow
  <2>6. pin' # NoAlert /\ ~rows'[pin'].archived => OnPin(pin', rows'[pin'], kind', onMap')
    BY <1>1, <2>1, <2>2 DEF MapTypeOK, NavigationArrivesByRow
  <2>7. QED
    BY <1>2, <2>3, <2>4, <2>5, <2>6 DEF NavigationArrivesByRow, NoAlert
<1>4. CASE FilterList
  BY <1>4, FilterListKeeps
<1>5. CASE FilterMap
  <2>1. onMap' \in MapFilter
    <3>1. onMap \in MapFilter
      BY <1>1 DEF MapTypeOK
    <3>2. CASE onMap' = [onMap EXCEPT !.search = ~@]
      BY <3>1, <3>2 DEF MapFilter
    <3>3. CASE \E s \in {"active", "archived", "all"} : onMap' = [onMap EXCEPT !.status = s]
      BY <3>1, <3>3 DEF MapFilter
    <3>4. CASE onMap' = [onMap EXCEPT !.recent = ~@]
      BY <3>1, <3>4 DEF MapFilter
    <3>5. CASE \E s \in Severities : onMap' = [onMap EXCEPT !.severities = Toggle(@, s)]
      BY <3>1, <3>5 DEF MapFilter, Toggle
    <3>6. CASE \E c \in Categories("EVENT") : onMap' = [onMap EXCEPT !.categories = Toggle(@, c)]
      BY <3>1, <3>6 DEF MapFilter, Toggle
    <3>7. QED
      BY <1>5, <3>2, <3>3, <3>4, <3>5, <3>6 DEF FilterMap
  <2>2. pin' = NoAlert /\ UNCHANGED <<rows, kind, inList, card>> /\ ListOf(card)' = ListOf(card)
    BY <1>5 DEF FilterMap, ListOf, Archived
  <2>3. QED
    BY <1>1, <1>2, <2>1, <2>2 DEF MapTypeOK, NavigationArrivesByRow, CategoriesFitView, Categories, NoAlert
<1>6. CASE SwitchView
  <2>1. /\ kind' \in Kinds /\ onMap' = AllPins /\ card' = NoAlert /\ pin' = NoAlert
        /\ UNCHANGED rows
        /\ inList' = [l \in Lists |-> [inList[l] EXCEPT !.category = Any, !.org = Any]]
    BY <1>6 DEF SwitchView
  <2>2. \A l \in Lists : /\ [inList[l] EXCEPT !.category = Any, !.org = Any] \in ListFilter
                         /\ [inList[l] EXCEPT !.category = Any, !.org = Any].category = Any
    <3> SUFFICES ASSUME NEW l \in Lists
                 PROVE  /\ [inList[l] EXCEPT !.category = Any, !.org = Any] \in ListFilter
                        /\ [inList[l] EXCEPT !.category = Any, !.org = Any].category = Any
      OBVIOUS
    <3>1. inList[l] \in ListFilter
      BY <1>1 DEF MapTypeOK
    <3>2. QED
      BY <3>1 DEF ListFilter
  <2>3. inList' \in [Lists -> ListFilter] /\ \A l \in Lists : inList'[l].category = Any
    BY <2>1, <2>2
  <2>4. MapTypeOK'
    BY <1>1, <2>1, <2>3, FreshFilters DEF MapTypeOK
  <2>5. QED
    BY <1>2, <2>1, <2>3, <2>4 DEF NavigationArrivesByRow, CategoriesFitView, NoAlert
<1>7. CASE FocusOnMap
  <2>1. PICK a \in Cards("active") \cup Cards("archive") :
          onMap' = AllPins /\ pin' = a /\ UNCHANGED <<rows, kind, inList, card>>
    BY <1>7 DEF FocusOnMap
  <2>2. a \in MapAlerts /\ rows[a] # Absent /\ KindOf[a] = kind
    BY <2>1 DEF Cards, Base, Present
  <2>3. MapTypeOK'
    BY <1>1, <2>1, <2>2, FreshFilters DEF MapTypeOK
  <2>4. ~rows[a].archived => OnPin(a, rows[a], kind, AllPins)
    BY <2>2, FreshFilters DEF OnPin, Categories, Severities
  <2>5. ListOf(card)' = ListOf(card)
    BY <2>1 DEF ListOf, Archived
  <2>6. QED
    BY <1>1, <1>2, <2>1, <2>3, <2>4, <2>5 DEF NavigationArrivesByRow, CategoriesFitView, Categories, NoAlert
<1>8. CASE GoToCard
  <2>1. PICK a \in Pins :
          /\ inList' = [inList EXCEPT ![ListOf(a)] = AllCards]
          /\ card' = a /\ UNCHANGED <<rows, kind, onMap, pin>>
    BY <1>8 DEF GoToCard
  <2>2. a \in MapAlerts /\ rows[a] # Absent /\ KindOf[a] = kind
    BY <2>1 DEF Pins, Present
  <2>3. ListOf(a) \in Lists /\ rows'[a] = rows[a] /\ (IF rows'[a].archived THEN "archive" ELSE "active") = ListOf(a)
    BY <2>1 DEF ListOf, Lists, Archived
  <2>4. inList' \in [Lists -> ListFilter]
        /\ \A l \in Lists : inList'[l] = IF l = ListOf(a) THEN AllCards ELSE inList[l]
    BY <1>1, <2>1, <2>3, FreshFilters DEF MapTypeOK
  <2>5. MapTypeOK'
    BY <1>1, <2>1, <2>2, <2>4 DEF MapTypeOK
  <2>6. OnCard(a, rows[a], kind, AllCards)
    BY <2>2, FreshFilters DEF OnCard
  <2>7. ListOf(card)' = ListOf(a)
    BY <2>1, <2>3 DEF ListOf, Archived
  <2>8. CategoriesFitView'
    BY <1>1, <2>1, <2>4, FreshFilters DEF CategoriesFitView, Categories
  <2>9. NavigationArrivesByRow'
    BY <1>1, <2>1, <2>3, <2>4, <2>6, <2>7 DEF NavigationArrivesByRow, NoAlert
  <2>10. QED
    BY <1>2, <2>5, <2>8, <2>9
<1>9. CASE UNCHANGED mapVars
  <2>1. UNCHANGED <<rows, kind, onMap, inList, card, pin>> /\ ListOf(card)' = ListOf(card)
    BY <1>9 DEF mapVars, ListOf, Archived
  <2>2. QED
    BY <1>1, <1>2, <2>1 DEF MapTypeOK, NavigationArrivesByRow, CategoriesFitView, Categories, NoAlert
<1>10. QED
  BY <1>3, <1>4, <1>5, <1>6, <1>7, <1>8, <1>9 DEF MapNext

\* For any alerts, whatever the user filters and however the rows change: what
\* was navigated to is shown, and no list is narrowed to a category its view
\* does not have (AlertsMapView.tsx:388-438).
THEOREM FiltersAlwaysLetThrough == MapSpec => []FiltersLetThrough
<1>1. MapInv => FiltersLetThrough
  BY DEF MapInv
<1>2. QED
  BY MapInitInv, MapNextInv, <1>1, PTL DEF MapSpec

-----------------------------------------------------------------------------
(* The thread under an entry of the operational journal. *)

\* No two requests have one number, and no answer is applied twice.
GetsAreNumbered ==
    /\ \A g \in gets : g.number <= lastGet /\ g.number # applied
    /\ \A g, h \in gets : g.number = h.number => g = h
    /\ applied <= lastGet

\* The tab will hear of each reply that the latest request, or the list its
\* answer was shown as, leaves out.
ReadsAreCurrent ==
    \A g \in gets : g.number = lastGet /\ g.read # Unserved =>
        g.read <= thread /\ g.read + 1 .. thread \subseteq heralds \cup unheardReplies
ShowsPrefix(n) ==
    replies = Upto(n) /\ n <= thread /\ n + 1 .. thread \subseteq heralds \cup unheardReplies
ThreadIsLoaded ==
    /\ applied = lastGet \/ \E g \in gets : g.number = lastGet
    /\ ReadsAreCurrent
    /\ applied = 0 <=> replies = NotLoaded
    /\ applied = lastGet /\ lastGet # 0 => \E n \in 0 .. thread : ShowsPrefix(n)
    /\ open \/ sent # NoPost => lastGet # 0

OwnReplyIsStored == sent \in 1 .. MaxReplies => sent <= thread

JournalInv ==
    /\ JournalTypeOK /\ OwnReplyIsStored /\ GetsAreNumbered
    /\ ~excuseThread => ThreadIsLoaded

\* The lists a tab shows.
LEMMA UptoTyped ==
    ASSUME NEW n \in 0 .. MaxReplies
    PROVE  Upto(n) \in Seq(0 .. MaxReplies) /\ Len(Upto(n)) = n
BY RepliesAreCounted DEF Upto

LEMMA UptoIsLoaded ==
    ASSUME NEW n \in Nat
    PROVE  Upto(n) # NotLoaded
<1>1. Len(Upto(n)) = n /\ \A k \in 1 .. n : Upto(n)[k] = k
  BY DEF Upto
<1>2. Len(NotLoaded) = 1 /\ NotLoaded[1] = 0
  BY DEF NotLoaded
<1>3. QED
  BY <1>1, <1>2

LEMMA UptoTellsItsEnd ==
    ASSUME NEW n \in Nat, NEW m \in Nat, Upto(n) = Upto(m)
    PROVE  n = m
<1>1. Len(Upto(n)) = n /\ Len(Upto(m)) = m
  BY DEF Upto
<1>2. QED
  BY <1>1

LEMMA UptoGoesOn ==
    ASSUME NEW n \in Nat \ {0}
    PROVE  Append(Upto(n - 1), n) = Upto(n)
<1>1. Upto(n - 1) \in Seq(Nat) /\ Len(Upto(n - 1)) = n - 1
  BY DEF Upto
<1>2. Upto(n) \in Seq(Nat) /\ Len(Upto(n)) = n /\ \A k \in 1 .. n : Upto(n)[k] = k
  BY DEF Upto
<1>3. \A k \in 1 .. n - 1 : Upto(n - 1)[k] = k
  BY DEF Upto
<1>4. Append(Upto(n - 1), n) \in Seq(Nat) /\ Len(Append(Upto(n - 1), n)) = n
  BY <1>1
<1>5. \A k \in 1 .. n : Append(Upto(n - 1), n)[k] = Upto(n)[k]
  BY <1>1, <1>2, <1>3
<1>6. QED
  BY <1>2, <1>4, <1>5

LEMMA JournalInitInv == JournalInit => JournalInv
<1> SUFFICES ASSUME JournalInit
             PROVE  JournalInv
  OBVIOUS
<1> USE RepliesAreCounted
<1>1. NotLoaded \in Seq(0 .. MaxReplies)
  BY DEF NotLoaded
<1>2. open \in BOOLEAN /\ excuseThread \in BOOLEAN
  BY DEF JournalInit
<1>3. JournalTypeOK
  BY <1>1, <1>2 DEF JournalInit, JournalTypeOK, NoPost, Unserved
<1>4. OwnReplyIsStored /\ GetsAreNumbered
  BY DEF JournalInit, OwnReplyIsStored, GetsAreNumbered, NoPost
<1>5. ThreadIsLoaded
  BY DEF JournalInit, ThreadIsLoaded, ReadsAreCurrent, NoPost
<1>6. QED
  BY <1>3, <1>4, <1>5 DEF JournalInv

LEMMA StoreFacts ==
    ASSUME JournalTypeOK, Store
    PROVE  /\ thread' = thread + 1 /\ thread' \in 1 .. MaxReplies
           /\ heralds' \subseteq 1 .. MaxReplies /\ unheardReplies' \subseteq 1 .. MaxReplies
           /\ heralds' \cup unheardReplies' = heralds \cup unheardReplies \cup {thread'}
<1>1. thread' = thread + 1 /\ thread' \in 1 .. MaxReplies
  BY RepliesAreCounted DEF JournalTypeOK, Store
<1>2. \/ heralds' = heralds \cup {thread'} /\ unheardReplies' = unheardReplies
      \/ unheardReplies' = unheardReplies \cup {thread'} /\ heralds' = heralds
  BY DEF Store
<1>3. heralds \subseteq 1 .. MaxReplies /\ unheardReplies \subseteq 1 .. MaxReplies
  BY DEF JournalTypeOK
<1>4. CASE heralds' = heralds \cup {thread'} /\ unheardReplies' = unheardReplies
  BY <1>1, <1>3, <1>4
<1>5. CASE unheardReplies' = unheardReplies \cup {thread'} /\ heralds' = heralds
  BY <1>1, <1>3, <1>5
<1>6. QED
  BY <1>2, <1>4, <1>5

\* One more reply, which the tab will hear of.
LEMMA StoreKeeps ==
    ASSUME JournalInv, Store, UNCHANGED <<open, replies, gets, lastGet, applied, excuseThread>>,
           sent' = sent \/ (sent = Unserved /\ sent' = thread')
    PROVE  JournalInv'
<1> USE RepliesAreCounted
<1>1. /\ thread' = thread + 1 /\ thread \in 0 .. MaxReplies /\ thread' \in 1 .. MaxReplies
      /\ heralds' \subseteq 1 .. MaxReplies /\ unheardReplies' \subseteq 1 .. MaxReplies
      /\ heralds' \cup unheardReplies' = heralds \cup unheardReplies \cup {thread'}
  BY StoreFacts DEF JournalInv, JournalTypeOK
<1>2. sent \in 0 .. Unserved /\ sent' \in 0 .. Unserved
  BY <1>1 DEF JournalInv, JournalTypeOK, Unserved
<1>3. JournalTypeOK'
  BY <1>1, <1>2 DEF JournalInv, JournalTypeOK, Unserved
<1>4. OwnReplyIsStored'
  BY <1>1, <1>2 DEF JournalInv, OwnReplyIsStored
<1>5. GetsAreNumbered'
  BY DEF JournalInv, GetsAreNumbered
<1>6. ASSUME ThreadIsLoaded
      PROVE  ThreadIsLoaded'
  <2>1. \A g \in gets : g.read \in 0 .. Unserved
    BY DEF JournalInv, JournalTypeOK
  <2>2. ReadsAreCurrent'
    BY <1>1, <1>6, <2>1 DEF ThreadIsLoaded, ReadsAreCurrent, Unserved
  <2>3. ASSUME applied' = lastGet', lastGet' # 0
        PROVE  \E n \in 0 .. thread' : ShowsPrefix(n)'
    <3>1. PICK n \in 0 .. thread : ShowsPrefix(n)
      BY <1>6, <2>3 DEF ThreadIsLoaded
    <3>2. n \in 0 .. thread' /\ ShowsPrefix(n)'
      BY <1>1, <3>1 DEF ShowsPrefix, Upto
    <3>3. QED
      BY <3>2
  <2>4. sent' # NoPost => sent # NoPost
    BY DEF NoPost, Unserved
  <2>5. QED
    BY <1>6, <2>2, <2>3, <2>4 DEF ThreadIsLoaded, NotLoaded
<1>7. QED
  BY <1>3, <1>4, <1>5, <1>6 DEF JournalInv

\* A new request, which will read the thread as it is by then.
LEMMA LoadRepliesKeeps ==
    ASSUME JournalInv, LoadReplies, UNCHANGED <<thread, unheardReplies, replies, sent, applied, excuseThread>>,
           open' \in BOOLEAN, heralds' \subseteq heralds
    PROVE  JournalInv'
<1> USE RepliesAreCounted
<1>1. /\ lastGet \in 0 .. MaxThreadLoads /\ lastGet < MaxThreadLoads /\ lastGet' = lastGet + 1
      /\ applied \in 0 .. MaxThreadLoads /\ applied <= lastGet
      /\ gets' = gets \cup {[number |-> lastGet', read |-> Unserved]}
      /\ \A g \in gets : g.number \in 1 .. MaxThreadLoads /\ g.number <= lastGet
  BY DEF JournalInv, JournalTypeOK, GetsAreNumbered, LoadReplies
<1>2. [number |-> lastGet', read |-> Unserved] \in [number : 1 .. MaxThreadLoads, read : 0 .. Unserved]
  BY <1>1 DEF Unserved
<1>3. JournalTypeOK'
  BY <1>1, <1>2 DEF JournalInv, JournalTypeOK, Unserved
<1>4. OwnReplyIsStored'
  BY DEF JournalInv, JournalTypeOK, OwnReplyIsStored
<1>5. GetsAreNumbered'
  BY <1>1 DEF JournalInv, GetsAreNumbered
<1>6. ASSUME ThreadIsLoaded
      PROVE  ThreadIsLoaded'
  <2>1. ReadsAreCurrent' /\ lastGet' # applied' /\ lastGet' # 0
    BY <1>1 DEF ReadsAreCurrent, Unserved
  <2>2. \E g \in gets' : g.number = lastGet'
    <3> DEFINE q == [number |-> lastGet', read |-> Unserved]
    <3>1. q \in gets' /\ q.number = lastGet'
      BY <1>1
    <3>2. QED
      BY <3>1
  <2>3. QED
    BY <1>6, <2>1, <2>2 DEF ThreadIsLoaded, NotLoaded
<1>7. QED
  BY <1>3, <1>4, <1>5, <1>6 DEF JournalInv

\* Steps that neither store nor load.
LEMMA QuietKeeps ==
    ASSUME JournalInv, UNCHANGED <<thread, unheardReplies, replies, gets, lastGet, applied>>,
           open' \in BOOLEAN, heralds' \subseteq heralds, excuseThread' \in BOOLEAN,
           sent' \in {sent, NoPost, Unserved},
           excuseThread => excuseThread',
           ~excuseThread' => heralds' = heralds \/ (replies = NotLoaded /\ gets = {}),
           ~excuseThread' => (open' \/ sent' # NoPost => lastGet # 0)
    PROVE  JournalInv'
<1> USE RepliesAreCounted
<1>1. JournalTypeOK'
  BY DEF JournalInv, JournalTypeOK, Unserved, NoPost
<1>2. OwnReplyIsStored'
  BY DEF JournalInv, JournalTypeOK, OwnReplyIsStored, Unserved, NoPost
<1>3. GetsAreNumbered'
  BY DEF JournalInv, GetsAreNumbered
<1>4. ASSUME ~excuseThread'
      PROVE  ThreadIsLoaded'
  <2>1. ThreadIsLoaded
    BY <1>4 DEF JournalInv
  <2>2. CASE heralds' = heralds
    BY <1>4, <2>1, <2>2 DEF ThreadIsLoaded, ReadsAreCurrent, ShowsPrefix, Upto, Unserved, NotLoaded
  <2>3. CASE replies = NotLoaded /\ gets = {}
    <3>1. applied = 0 /\ lastGet = 0
      BY <2>1, <2>3 DEF ThreadIsLoaded
    <3>2. QED
      BY <1>4, <2>1, <2>3, <3>1 DEF ThreadIsLoaded, ReadsAreCurrent, NotLoaded
  <2>4. QED
    BY <1>4, <2>2, <2>3
<1>5. QED
  BY <1>1, <1>2, <1>3, <1>4 DEF JournalInv

LEMMA ServeRepliesKeeps == JournalInv /\ ServeReplies => JournalInv'
<1> SUFFICES ASSUME JournalInv, ServeReplies
             PROVE  JournalInv'
  OBVIOUS
<1> USE RepliesAreCounted
<1>1. PICK g \in gets :
        g.read = Unserved /\ gets' = (gets \ {g}) \cup {[g EXCEPT !.read = thread]}
  BY DEF ServeReplies
<1>2. UNCHANGED <<thread, heralds, unheardReplies, open, replies, sent, lastGet, applied, excuseThread>>
  BY DEF ServeReplies
<1>3. /\ gets \subseteq [number : 1 .. MaxThreadLoads, read : 0 .. Unserved]
      /\ thread \in 0 .. MaxReplies /\ heralds \subseteq 1 .. MaxReplies
  BY DEF JournalInv, JournalTypeOK
<1> DEFINE h == [g EXCEPT !.read = thread]
<1>4. h \in [number : 1 .. MaxThreadLoads, read : 0 .. Unserved] /\ h.number = g.number /\ h.read = thread
  BY <1>3 DEF Unserved
<1>5. gets' = (gets \ {g}) \cup {h}
  BY <1>1
<1> HIDE DEF h
<1>6. JournalTypeOK'
  BY <1>2, <1>3, <1>4, <1>5 DEF JournalInv, JournalTypeOK, Unserved
<1>7. OwnReplyIsStored'
  BY <1>2 DEF JournalInv, OwnReplyIsStored
<1>8. GetsAreNumbered'
  BY <1>2, <1>4, <1>5 DEF JournalInv, GetsAreNumbered
<1>9. ASSUME ThreadIsLoaded
      PROVE  ThreadIsLoaded'
  <2>1. ReadsAreCurrent'
    BY <1>2, <1>3, <1>4, <1>5, <1>9 DEF ThreadIsLoaded, ReadsAreCurrent, Unserved
  <2>2. \A n : ShowsPrefix(n)' <=> ShowsPrefix(n)
    BY <1>2 DEF ShowsPrefix, Upto
  <2>3. applied' = lastGet' \/ \E f \in gets' : f.number = lastGet'
    BY <1>2, <1>4, <1>5, <1>9 DEF ThreadIsLoaded
  <2>4. QED
    BY <1>2, <1>9, <2>1, <2>2, <2>3 DEF ThreadIsLoaded, NotLoaded
<1>10. QED
  BY <1>2, <1>6, <1>7, <1>8, <1>9 DEF JournalInv

LEMMA AnswerRepliesKeeps == JournalInv /\ AnswerReplies => JournalInv'
<1> SUFFICES ASSUME JournalInv, AnswerReplies
             PROVE  JournalInv'
  OBVIOUS
<1> USE RepliesAreCounted
<1>1. PICK g \in gets :
        /\ gets' = gets \ {g}
        /\ \/ /\ g.read # Unserved
              /\ replies' = Upto(g.read)
              /\ applied' = g.number
              /\ excuseThread' = (excuseThread \/ g.number < applied)
           \/ excuseThread' = TRUE /\ UNCHANGED <<replies, applied>>
  BY DEF AnswerReplies
<1>2. UNCHANGED <<thread, heralds, unheardReplies, open, sent, lastGet>>
  BY DEF AnswerReplies
<1>3. /\ g.number \in 1 .. MaxThreadLoads /\ g.read \in 0 .. Unserved
      /\ g.number <= lastGet /\ g.number # applied
      /\ lastGet \in 0 .. MaxThreadLoads /\ applied \in 0 .. MaxThreadLoads /\ applied <= lastGet
      /\ thread \in 0 .. MaxReplies /\ heralds \subseteq 1 .. MaxReplies
  BY DEF JournalInv, JournalTypeOK, GetsAreNumbered
<1>4. CASE excuseThread' = TRUE /\ UNCHANGED <<replies, applied>>
  <2>1. excuseThread' \in BOOLEAN
    BY <1>4
  <2>2. JournalTypeOK' /\ OwnReplyIsStored'
    BY <1>1, <1>2, <1>4, <2>1 DEF JournalInv, JournalTypeOK, OwnReplyIsStored, Unserved
  <2>3. GetsAreNumbered'
    BY <1>1, <1>2, <1>4 DEF JournalInv, GetsAreNumbered
  <2>4. QED
    BY <1>4, <2>2, <2>3 DEF JournalInv
<1>5. CASE /\ g.read # Unserved
           /\ replies' = Upto(g.read)
           /\ applied' = g.number
           /\ excuseThread' = (excuseThread \/ g.number < applied)
  <2>1. excuseThread' \in BOOLEAN
    BY <1>5
  <2>2. g.read \in 0 .. MaxReplies
    BY <1>3, <1>5 DEF Unserved
  <2>3. replies' \in Seq(0 .. MaxReplies) /\ replies' # NotLoaded
    BY <1>5, <2>2, UptoTyped, UptoIsLoaded
  <2>4. JournalTypeOK'
    BY <1>1, <1>2, <1>3, <1>5, <2>1, <2>3 DEF JournalInv, JournalTypeOK, Unserved
  <2>5. OwnReplyIsStored'
    BY <1>2 DEF JournalInv, OwnReplyIsStored
  <2>6. GetsAreNumbered'
    BY <1>1, <1>2, <1>3, <1>5 DEF JournalInv, GetsAreNumbered
  <2>7. ASSUME ~excuseThread'
        PROVE  ThreadIsLoaded'
    <3>1. ~excuseThread /\ ~(g.number < applied)
      BY <1>5, <2>7
    <3>2. ThreadIsLoaded /\ applied # lastGet
      BY <1>3, <3>1 DEF JournalInv
    <3>3. applied' = lastGet' \/ \E f \in gets' : f.number = lastGet'
      BY <1>1, <1>2, <1>5, <3>2 DEF ThreadIsLoaded
    <3>4. ReadsAreCurrent'
      BY <1>1, <1>2, <3>2 DEF ThreadIsLoaded, ReadsAreCurrent, Unserved
    <3>5. ASSUME applied' = lastGet'
          PROVE  \E n \in 0 .. thread' : ShowsPrefix(n)'
      <4>1. g.read <= thread /\ g.read + 1 .. thread \subseteq heralds \cup unheardReplies
        BY <1>2, <1>5, <3>2, <3>5 DEF ThreadIsLoaded, ReadsAreCurrent
      <4>2. g.read \in 0 .. thread' /\ ShowsPrefix(g.read)'
        BY <1>2, <1>5, <2>2, <4>1 DEF ShowsPrefix, Upto
      <4>3. QED
        BY <4>2
    <3>6. applied' # 0 /\ lastGet' # 0
      BY <1>2, <1>3, <1>5
    <3>7. QED
      BY <1>2, <2>3, <3>3, <3>4, <3>5, <3>6 DEF ThreadIsLoaded, NotLoaded
  <2>8. QED
    BY <2>4, <2>5, <2>6, <2>7 DEF JournalInv
<1>6. QED
  BY <1>1, <1>4, <1>5

LEMMA AnswerReplyKeeps == JournalInv /\ AnswerReply => JournalInv'
<1> SUFFICES ASSUME JournalInv, AnswerReply
             PROVE  JournalInv'
  OBVIOUS
<1> USE RepliesAreCounted
<1> DEFINE before == IF replies = NotLoaded THEN <<>> ELSE replies
<1>1. /\ sent \in 1 .. MaxReplies /\ sent <= thread /\ sent' = NoPost
      /\ replies' = Append(before, sent)
      /\ excuseThread' = (excuseThread \/ before # Upto(sent - 1) \/ gets # {})
      /\ UNCHANGED <<thread, heralds, unheardReplies, open, gets, lastGet, applied>>
  BY DEF AnswerReply, JournalInv, OwnReplyIsStored
<1>2. excuseThread' \in BOOLEAN
  BY <1>1
<1>3. before \in Seq(0 .. MaxReplies)
  <2>1. <<>> \in Seq(0 .. MaxReplies) /\ replies \in Seq(0 .. MaxReplies)
    BY DEF JournalInv, JournalTypeOK
  <2>2. QED
    BY <2>1
<1>4. replies' \in Seq(0 .. MaxReplies)
  <2> HIDE DEF before
  <2>1. sent \in 0 .. MaxReplies
    BY <1>1
  <2>2. QED
    BY <1>1, <1>3, <2>1
<1>5. JournalTypeOK'
  <2> HIDE DEF before
  <2>1. QED
    BY <1>1, <1>2, <1>4 DEF JournalInv, JournalTypeOK, Unserved, NoPost
<1>6. OwnReplyIsStored' /\ GetsAreNumbered'
  <2> HIDE DEF before
  <2>1. QED
    BY <1>1 DEF JournalInv, OwnReplyIsStored, GetsAreNumbered, NoPost
<1>7. ASSUME ~excuseThread'
      PROVE  ThreadIsLoaded'
  <2>1. ~excuseThread /\ before = Upto(sent - 1) /\ gets = {}
    BY <1>1, <1>7
  <2>2. /\ ThreadIsLoaded /\ applied = lastGet /\ lastGet # 0 /\ replies # NotLoaded
        /\ thread \in 0 .. MaxReplies /\ heralds \subseteq 1 .. MaxReplies
    BY <1>1, <2>1 DEF JournalInv, JournalTypeOK, ThreadIsLoaded, NoPost
  <2>3. PICK n \in 0 .. thread : ShowsPrefix(n)
    BY <2>2 DEF ThreadIsLoaded
  <2>4. n = sent - 1
    <3>1. Upto(n) = Upto(sent - 1)
      BY <2>1, <2>2, <2>3 DEF ShowsPrefix
    <3>2. n \in Nat /\ sent - 1 \in Nat
      BY <1>1, <2>2
    <3>3. QED
      BY <3>1, <3>2, UptoTellsItsEnd
  <2>5. replies' = Upto(sent) /\ Upto(sent) # NotLoaded
    <3>1. sent \in Nat \ {0}
      BY <1>1
    <3>2. QED
      BY <1>1, <2>1, <3>1, UptoGoesOn, UptoIsLoaded
  <2>6. n + 1 \in 0 .. thread' /\ ShowsPrefix(n + 1)'
    <3>1. replies' = Upto(n + 1)
      BY <1>1, <2>4, <2>5
    <3>2. n + 1 \in 0 .. thread' /\ n + 1 <= thread'
          /\ (n + 1) + 1 .. thread' \subseteq heralds' \cup unheardReplies'
      BY <1>1, <2>2, <2>3, <2>4 DEF ShowsPrefix
    <3>3. QED
      BY <3>1, <3>2 DEF ShowsPrefix, Upto
  <2>7. replies' # NotLoaded'
    BY <2>5 DEF NotLoaded
  <2>8. QED
    BY <1>1, <2>1, <2>2, <2>6, <2>7 DEF ThreadIsLoaded, ReadsAreCurrent
<1>8. QED
  BY <1>5, <1>6, <1>7 DEF JournalInv

LEMMA JournalNextInv == JournalInv /\ [JournalNext]_journalVars => JournalInv'
<1> SUFFICES ASSUME JournalInv, [JournalNext]_journalVars
             PROVE  JournalInv'
  OBVIOUS
<1>1. /\ open \in BOOLEAN /\ excuseThread \in BOOLEAN /\ heralds \subseteq heralds
      /\ ~excuseThread => (open \/ sent # NoPost => lastGet # 0)
      /\ ~excuseThread => (replies # NotLoaded => lastGet # 0)
  BY DEF JournalInv, JournalTypeOK, ThreadIsLoaded, GetsAreNumbered
<1>2. CASE OtherReplies
  BY <1>2, StoreKeeps DEF OtherReplies
<1>3. CASE ToggleEntry
  <2>1. UNCHANGED <<thread, heralds, unheardReplies, replies, sent, applied, excuseThread>> /\ open' \in BOOLEAN
    BY <1>3 DEF ToggleEntry, OpenOrClose
  <2>2. CASE LoadReplies
    BY <1>1, <2>1, <2>2, LoadRepliesKeeps
  <2>3. CASE UNCHANGED <<gets, lastGet>> /\ (open' => replies # NotLoaded)
    BY <1>1, <2>1, <2>3, QuietKeeps
  <2>4. QED
    BY <1>3, <2>2, <2>3 DEF ToggleEntry, OpenOrClose
<1>4. CASE HearReply
  <2>1. /\ heralds' \subseteq heralds
        /\ UNCHANGED <<thread, unheardReplies, open, replies, sent, applied>>
    BY <1>4 DEF HearReply, JournalInv, JournalTypeOK
  <2>2. CASE open
    BY <1>1, <1>4, <2>1, <2>2, LoadRepliesKeeps DEF HearReply
  <2>3. CASE ~open
    <3>1. /\ excuseThread' = (excuseThread \/ replies # NotLoaded \/ gets # {})
          /\ UNCHANGED <<gets, lastGet>>
      BY <1>4, <2>3 DEF HearReply
    <3>2. excuseThread' \in BOOLEAN /\ (excuseThread => excuseThread')
          /\ (~excuseThread' => ~excuseThread /\ replies = NotLoaded /\ gets = {})
      BY <3>1
    <3>3. QED
      BY <1>1, <2>1, <3>1, <3>2, QuietKeeps
  <2>4. QED
    BY <2>2, <2>3
<1>5. CASE ServeReplies
  BY <1>5, ServeRepliesKeeps
<1>6. CASE AnswerReplies
  BY <1>6, AnswerRepliesKeeps
<1>7. CASE SendReply
  BY <1>1, <1>7, QuietKeeps DEF SendReply
<1>8. CASE StoreReply
  <2>1. CASE Store /\ sent' = thread'
    BY <1>8, <2>1, StoreKeeps DEF StoreReply
  <2>2. CASE sent' = NoPost /\ UNCHANGED <<thread, heralds, unheardReplies>>
    BY <1>1, <1>8, <2>2, QuietKeeps DEF StoreReply
  <2>3. QED
    BY <1>8, <2>1, <2>2 DEF StoreReply
<1>9. CASE AnswerReply
  BY <1>9, AnswerReplyKeeps
<1>10. CASE UNCHANGED journalVars
  BY <1>1, <1>10, QuietKeeps DEF journalVars
<1>11. QED
  BY <1>2, <1>3, <1>4, <1>5, <1>6, <1>7, <1>8, <1>9, <1>10 DEF JournalNext

\* For any number of replies and of loads: an open thread with nothing under
\* way shows the replies stored, but for the excuses (AlertOperationalJournal.tsx).
THEOREM OpenThreadIsAlwaysComplete == JournalSpec => []OpenThreadIsComplete
<1>1. ASSUME JournalInv, open, heralds = {}, gets = {}, ~excuseThread
      PROVE  \E n \in 0 .. thread : replies = Upto(n) /\ n + 1 .. thread \subseteq unheardReplies
  <2>1. applied = lastGet /\ lastGet # 0 /\ ThreadIsLoaded
    BY <1>1 DEF JournalInv, ThreadIsLoaded
  <2>2. PICK n \in 0 .. thread : ShowsPrefix(n)
    BY <2>1 DEF ThreadIsLoaded
  <2>3. QED
    BY <1>1, <2>2 DEF ShowsPrefix
<1>2. JournalInv => OpenThreadIsComplete
  BY <1>1 DEF OpenThreadIsComplete
<1>3. QED
  BY JournalInitInv, JournalNextInv, <1>2, PTL DEF JournalSpec

-----------------------------------------------------------------------------
(* The matrix of resources and the drawer over one of its cells. *)

LoadOf(what, number, chosen, read) ==
    [kind |-> what, number |-> number, holder |-> chosen, read |-> read]

MatrixShape ==
    /\ rumours \in Nat
    /\ drawer \in {"closed", "loading", "listed"} /\ inSave \in {"no", "drawer", "elsewhere"}
    /\ lastLoad \in [LoadKinds -> Nat] /\ shownLoad \in [LoadKinds -> Nat]
    /\ \A r \in loads :
          /\ r = LoadOf(r.kind, r.number, r.holder, r.read)
          /\ r.kind \in LoadKinds /\ r.number \in Nat
    /\ outdone \in BOOLEAN /\ astray \in BOOLEAN /\ missed \in BOOLEAN

\* No two loads of a kind have one number, and no answer is applied twice.
LoadsAreNumbered ==
    /\ \A k \in LoadKinds : shownLoad[k] <= lastLoad[k]
    /\ \A r \in loads : r.number <= lastLoad[r.kind] /\ r.number # shownLoad[r.kind]
    /\ \A r, s \in loads : r.kind = s.kind /\ r.number = s.number => r = s

\* The latest load of the matrix reads, and its answer shows, the stock of the
\* holder that is chosen, unless the tab will hear of a change.
FigureFollows ==
    /\ \A r \in loads : r.kind = "matrix" /\ r.number = lastLoad["matrix"] =>
          /\ ~astray => r.holder = holder
          /\ r.read # NotRead => rumours > 0 \/ missed \/ r.read = InScope(stock, r.holder)
    /\ IsLatest("matrix") /\ ~astray => rumours > 0 \/ missed \/ figure = Total(InScope(stock, holder))

\* ... and so does that of the drawer, but for another's change and for a save
\* of its own that will load the rows again.
DrawerFollows ==
    /\ inSave = "drawer" => drawer # "closed" /\ savedFor = holder
    /\ \A r \in loads : r.kind = "rows" => drawer # "closed" /\ r.holder = holder
    /\ \A r \in loads : r.kind = "rows" /\ r.number = lastLoad["rows"] /\ r.read # NotRead =>
          outdone \/ inSave = "drawer" \/ r.read = InScope(stock, holder)
    /\ drawer = "listed" /\ IsLatest("rows") =>
          outdone \/ inSave = "drawer" \/ listing = InScope(stock, holder)

MatrixInv == MatrixShape /\ LoadsAreNumbered /\ FigureFollows /\ DrawerFollows

LEMMA LoadOfFields ==
    ASSUME NEW what, NEW number, NEW chosen, NEW read
    PROVE  /\ LoadOf(what, number, chosen, read).kind = what
           /\ LoadOf(what, number, chosen, read).number = number
           /\ LoadOf(what, number, chosen, read).holder = chosen
           /\ LoadOf(what, number, chosen, read).read = read
           /\ \A x : [LoadOf(what, number, chosen, read) EXCEPT !.read = x] = LoadOf(what, number, chosen, x)
BY DEF LoadOf

LEMMA MatrixInitInv == MatrixInit => MatrixInv
<1> SUFFICES ASSUME MatrixInit
             PROVE  MatrixInv
  OBVIOUS
<1>1. /\ loads = {} /\ rumours = 0 /\ drawer = "closed" /\ inSave = "no" /\ holder = AnyHolder
      /\ lastLoad = [k \in LoadKinds |-> 0] /\ shownLoad = [k \in LoadKinds |-> 0]
      /\ figure = Total(stock)
  BY DEF MatrixInit
<1>2. outdone \in BOOLEAN /\ astray \in BOOLEAN /\ missed \in BOOLEAN
  BY DEF MatrixInit
<1>3. InScope(stock, AnyHolder) = stock
  BY DEF MatrixInit, InScope
<1>4. MatrixShape /\ LoadsAreNumbered
  BY <1>1, <1>2 DEF MatrixShape, LoadsAreNumbered
<1>5. FigureFollows /\ DrawerFollows
  BY <1>1, <1>3 DEF FigureFollows, DrawerFollows
<1>6. QED
  BY <1>4, <1>5 DEF MatrixInv

\* A load is the latest of its kind, and not read yet.
NewLoad(r, kinds, chosen) ==
    /\ r = LoadOf(r.kind, r.number, r.holder, r.read)
    /\ r.kind \in kinds /\ r.number = lastLoad'[r.kind] /\ r.holder = chosen /\ r.read = NotRead

LEMMA LoadFacts ==
    ASSUME MatrixShape, LoadsAreNumbered, NEW kinds \in SUBSET LoadKinds, NEW chosen,
           Load(kinds, chosen), UNCHANGED shownLoad
    PROVE  /\ lastLoad' \in [LoadKinds -> Nat]
           /\ \A k \in LoadKinds : k \notin kinds => lastLoad'[k] = lastLoad[k]
           /\ \A k \in kinds : shownLoad'[k] # lastLoad'[k]
           /\ \A r \in loads' : r \in loads \/ NewLoad(r, kinds, chosen)
           /\ \A r \in loads : r.kind \in kinds => r.number # lastLoad'[r.kind]
           /\ \A r \in loads' : /\ r = LoadOf(r.kind, r.number, r.holder, r.read)
                                /\ r.kind \in LoadKinds /\ r.number \in Nat
           /\ LoadsAreNumbered'
<1>1. /\ lastLoad' = [k \in LoadKinds |-> IF k \in kinds THEN lastLoad[k] + 1 ELSE lastLoad[k]]
      /\ loads' = loads \cup {LoadOf(k, lastLoad'[k], chosen, NotRead) : k \in kinds}
  BY DEF Load, LoadOf
<1>2. /\ lastLoad' \in [LoadKinds -> Nat]
      /\ \A k \in LoadKinds : /\ lastLoad'[k] = IF k \in kinds THEN lastLoad[k] + 1 ELSE lastLoad[k]
                              /\ lastLoad[k] \in Nat /\ shownLoad[k] \in Nat /\ shownLoad[k] <= lastLoad[k]
  BY <1>1 DEF MatrixShape, LoadsAreNumbered
<1>3. \A r \in loads' : r \in loads \/ NewLoad(r, kinds, chosen)
  BY <1>1, LoadOfFields DEF NewLoad
<1>4. \A r \in loads : /\ r.kind \in LoadKinds /\ r.number \in Nat /\ r.number <= lastLoad[r.kind]
                       /\ r.kind \in kinds => r.number < lastLoad'[r.kind] /\ r.number # lastLoad'[r.kind]
  BY <1>2 DEF MatrixShape, LoadsAreNumbered
<1>5. \A r \in loads' : /\ r = LoadOf(r.kind, r.number, r.holder, r.read)
                        /\ r.kind \in LoadKinds /\ r.number \in Nat
  BY <1>2, <1>3 DEF MatrixShape, NewLoad
<1>6. \A r \in loads' : r.number <= lastLoad'[r.kind] /\ r.number # shownLoad'[r.kind]
  <2> SUFFICES ASSUME NEW r \in loads'
               PROVE  r.number <= lastLoad'[r.kind] /\ r.number # shownLoad'[r.kind]
    OBVIOUS
  <2>1. CASE r \in loads
    <3>1. r.number # shownLoad[r.kind]
      BY <2>1 DEF LoadsAreNumbered
    <3>2. QED
      BY <1>2, <1>4, <2>1, <3>1
  <2>2. CASE NewLoad(r, kinds, chosen)
    BY <1>2, <2>2 DEF NewLoad
  <2>3. QED
    BY <1>3, <2>1, <2>2
<1>7. \A r, s \in loads' : r.kind = s.kind /\ r.number = s.number => r = s
  <2> SUFFICES ASSUME NEW r \in loads', NEW s \in loads', r.kind = s.kind, r.number = s.number
               PROVE  r = s
    OBVIOUS
  <2>1. CASE r \in loads /\ s \in loads
    BY <2>1 DEF LoadsAreNumbered
  <2>2. CASE NewLoad(r, kinds, chosen) /\ NewLoad(s, kinds, chosen)
    BY <2>2 DEF NewLoad
  <2>3. CASE r \in loads /\ NewLoad(s, kinds, chosen)
    BY <1>2, <1>4, <2>3 DEF NewLoad
  <2>4. CASE s \in loads /\ NewLoad(r, kinds, chosen)
    BY <1>2, <1>4, <2>4 DEF NewLoad
  <2>5. QED
    BY <1>3, <2>1, <2>2, <2>3, <2>4
<1>8. LoadsAreNumbered'
  BY <1>2, <1>6, <1>7 DEF LoadsAreNumbered
<1>9. QED
  BY <1>2, <1>3, <1>4, <1>5, <1>8

\* The matrix is loaded for the holder that is chosen, or for another (astray).
LEMMA LoadKeepsFigure ==
    ASSUME MatrixInv, NEW kinds \in SUBSET LoadKinds, NEW chosen, "matrix" \in kinds,
           Load(kinds, chosen), UNCHANGED <<shownLoad, missed>>, astray' \in BOOLEAN, ~astray' => chosen = holder'
    PROVE  FigureFollows'
<1>1. /\ \A k \in kinds : shownLoad'[k] # lastLoad'[k]
      /\ \A r \in loads' : r \in loads \/ NewLoad(r, kinds, chosen)
      /\ \A r \in loads : r.kind \in kinds => r.number # lastLoad'[r.kind]
  BY LoadFacts DEF MatrixInv
<1>2. \A r \in loads' : r.kind = "matrix" /\ r.number = lastLoad'["matrix"] => r.holder = chosen /\ r.read = NotRead
  BY <1>1 DEF NewLoad
<1>3. ~IsLatest("matrix")'
  BY <1>1 DEF IsLatest
<1>4. QED
  BY <1>2, <1>3 DEF FigureFollows, NotRead

\* The rows are not loaded, and what the drawer shows stays as it is.
LEMMA LoadKeepsDrawer ==
    ASSUME MatrixInv, NEW chosen, Load({"matrix"}, chosen),
           UNCHANGED <<stock, shownLoad, drawer, listing, savedFor, outdone>>,
           inSave' = inSave \/ (inSave # "drawer" /\ inSave' = "no"),
           holder' = holder \/ (drawer = "closed" /\ inSave # "drawer")
    PROVE  DrawerFollows'
<1>1. /\ lastLoad'["rows"] = lastLoad["rows"]
      /\ \A r \in loads' : r \in loads \/ r.kind = "matrix"
  <2>1. {"matrix"} \in SUBSET LoadKinds /\ "rows" \in LoadKinds \ {"matrix"}
    BY DEF LoadKinds
  <2>2. /\ \A k \in LoadKinds : k \notin {"matrix"} => lastLoad'[k] = lastLoad[k]
        /\ \A r \in loads' : r \in loads \/ NewLoad(r, {"matrix"}, chosen)
    BY <2>1, LoadFacts DEF MatrixInv
  <2>3. QED
    BY <2>1, <2>2 DEF NewLoad
<1>2. \A r \in loads' : r.kind = "rows" => r \in loads
  BY <1>1
<1>3. DrawerFollows /\ (inSave' = "drawer" <=> inSave = "drawer")
  BY DEF MatrixInv
<1>4. CASE holder' = holder
  BY <1>1, <1>2, <1>3, <1>4 DEF DrawerFollows, IsLatest, InScope, NotRead
<1>5. CASE drawer = "closed" /\ inSave # "drawer"
  BY <1>2, <1>3, <1>5 DEF DrawerFollows
<1>6. QED
  BY <1>4, <1>5

\* The stock changes, and the drawer that is open is out of date with it.
LEMMA StockChangesKeep ==
    ASSUME MatrixInv, StockChanges,
           UNCHANGED <<holder, figure, drawer, listing, loads, lastLoad, shownLoad, astray>>,
           outdone' \in BOOLEAN, inSave' \in {"no", "drawer", "elsewhere"},
           inSave' = "drawer" => drawer # "closed" /\ savedFor' = holder,
           drawer # "closed" => outdone' \/ inSave' = "drawer"
    PROVE  MatrixInv'
<1>1. /\ rumours' \in Nat /\ missed' \in BOOLEAN
      /\ rumours' > 0 \/ missed'
  <2>1. rumours \in Nat /\ missed \in BOOLEAN
    BY DEF MatrixInv, MatrixShape
  <2>2. CASE rumours' = rumours + 1 /\ UNCHANGED missed
    BY <2>1, <2>2
  <2>3. CASE missed' = TRUE /\ UNCHANGED rumours
    BY <2>1, <2>3
  <2>4. QED
    BY <2>2, <2>3 DEF StockChanges
<1>2. MatrixShape' /\ LoadsAreNumbered'
  BY <1>1 DEF MatrixInv, MatrixShape, LoadsAreNumbered
<1>3. FigureFollows'
  BY <1>1 DEF MatrixInv, FigureFollows, NotRead
<1>4. DrawerFollows'
  BY DEF MatrixInv, DrawerFollows
<1>5. QED
  BY <1>2, <1>3, <1>4 DEF MatrixInv

LEMMA ServeLoadKeeps == MatrixInv /\ ServeLoad => MatrixInv'
<1> SUFFICES ASSUME MatrixInv, ServeLoad
             PROVE  MatrixInv'
  OBVIOUS
<1>1. PICK r \in loads :
        /\ r.read = NotRead
        /\ loads' = (loads \ {r}) \cup {[r EXCEPT !.read = InScope(stock, r.holder)]}
        /\ outdone' = (outdone /\ ~(r.kind = "rows" /\ r.number = lastLoad["rows"]))
        /\ missed' = (missed /\ ~(r.kind = "matrix" /\ r.number = lastLoad["matrix"]))
  BY DEF ServeLoad
<1>2. UNCHANGED <<stock, rumours, holder, figure, drawer, listing, lastLoad, shownLoad, inSave,
                  savedFor, stockChanges, astray>>
  BY DEF ServeLoad
<1> DEFINE s == LoadOf(r.kind, r.number, r.holder, InScope(stock, r.holder))
<1>3. loads' = (loads \ {r}) \cup {s}
  <2>1. r = LoadOf(r.kind, r.number, r.holder, r.read)
    BY DEF MatrixInv, MatrixShape
  <2>2. [r EXCEPT !.read = InScope(stock, r.holder)] = s
    BY <2>1, LoadOfFields
  <2>3. QED
    BY <1>1, <2>2
<1>4. /\ s.kind = r.kind /\ s.number = r.number /\ s.holder = r.holder /\ s.read = InScope(stock, r.holder)
      /\ s = LoadOf(s.kind, s.number, s.holder, s.read)
  BY LoadOfFields
<1> HIDE DEF s
<1>5. outdone' \in BOOLEAN /\ missed' \in BOOLEAN
  BY <1>1
<1>6. MatrixShape'
  BY <1>2, <1>3, <1>4, <1>5 DEF MatrixInv, MatrixShape
<1>7. LoadsAreNumbered'
  BY <1>2, <1>3, <1>4 DEF MatrixInv, LoadsAreNumbered
<1>8. FigureFollows'
  <2>1. IsLatest("matrix")' <=> IsLatest("matrix")
    BY <1>2 DEF IsLatest
  <2>2. \A q \in loads' : q.kind = "matrix" /\ q.number = lastLoad["matrix"] =>
          /\ ~astray => q.holder = holder
          /\ q.read # NotRead => rumours > 0 \/ missed \/ q.read = InScope(stock, q.holder)
    BY <1>3, <1>4 DEF MatrixInv, FigureFollows
  <2>3. CASE r.kind = "matrix" /\ r.number = lastLoad["matrix"]
    <3>1. \A q \in loads' : q.kind = "matrix" /\ q.number = lastLoad["matrix"] => q = s
      BY <1>3, <1>4, <2>3 DEF MatrixInv, LoadsAreNumbered
    <3>2. ~IsLatest("matrix")
      BY <2>3 DEF MatrixInv, LoadsAreNumbered, IsLatest
    <3>3. QED
      BY <1>2, <1>4, <2>1, <2>2, <3>1, <3>2 DEF FigureFollows
  <2>4. CASE ~(r.kind = "matrix" /\ r.number = lastLoad["matrix"])
    <3>1. missed' <=> missed
      BY <1>1, <2>4
    <3>2. QED
      BY <1>2, <2>1, <2>2, <3>1 DEF MatrixInv, FigureFollows, NotRead
  <2>5. QED
    BY <2>3, <2>4
<1>9. DrawerFollows'
  <2>1. \A q \in loads' : q.kind = "rows" => drawer # "closed" /\ q.holder = holder
    BY <1>3, <1>4 DEF MatrixInv, DrawerFollows
  <2>2. CASE r.kind = "rows" /\ r.number = lastLoad["rows"]
    <3>1. \A q \in loads' : q.kind = "rows" /\ q.number = lastLoad["rows"] => q = s
      BY <1>3, <1>4, <2>2 DEF MatrixInv, LoadsAreNumbered
    <3>2. r.holder = holder /\ ~IsLatest("rows")
      BY <2>2 DEF MatrixInv, DrawerFollows, LoadsAreNumbered, IsLatest
    <3>3. ~IsLatest("rows")'
      BY <1>2, <3>2 DEF IsLatest
    <3>4. QED
      BY <1>2, <1>4, <2>1, <3>1, <3>2, <3>3 DEF MatrixInv, DrawerFollows
  <2>3. CASE ~(r.kind = "rows" /\ r.number = lastLoad["rows"])
    <3>1. outdone' <=> outdone
      BY <1>1, <2>3
    <3>2. \A q \in loads' : q.kind = "rows" /\ q.number = lastLoad["rows"] /\ q.read # NotRead =>
            outdone \/ inSave = "drawer" \/ q.read = InScope(stock, holder)
      BY <1>3, <1>4, <2>3 DEF MatrixInv, DrawerFollows
    <3>3. IsLatest("rows")' <=> IsLatest("rows")
      BY <1>2 DEF IsLatest
    <3>4. QED
      BY <1>2, <2>1, <3>1, <3>2, <3>3 DEF MatrixInv, DrawerFollows, NotRead
  <2>4. QED
    BY <2>2, <2>3
<1>10. QED
  BY <1>6, <1>7, <1>8, <1>9 DEF MatrixInv

LEMMA AnswerLoadKeeps == MatrixInv /\ AnswerLoad => MatrixInv'
<1> SUFFICES ASSUME MatrixInv, AnswerLoad
             PROVE  MatrixInv'
  OBVIOUS
<1>1. PICK r \in loads :
        /\ loads' = loads \ {r}
        /\ \/ /\ r.read # NotRead
              /\ shownLoad' = [shownLoad EXCEPT ![r.kind] = r.number]
              /\ \/ r.kind = "matrix" /\ figure' = Total(r.read) /\ UNCHANGED <<drawer, listing>>
                 \/ r.kind = "rows" /\ listing' = r.read /\ drawer' = "listed" /\ UNCHANGED figure
           \/ UNCHANGED <<shownLoad, figure, drawer, listing>>
  BY DEF AnswerLoad
<1>2. UNCHANGED <<stock, rumours, holder, lastLoad, inSave, savedFor, stockChanges, outdone,
                  astray, missed>>
  BY DEF AnswerLoad
<1>3. /\ r.kind \in LoadKinds /\ r.number \in Nat /\ r.number <= lastLoad[r.kind]
      /\ shownLoad \in [LoadKinds -> Nat] /\ lastLoad \in [LoadKinds -> Nat]
      /\ {"matrix", "rows"} = LoadKinds
  BY DEF MatrixInv, MatrixShape, LoadsAreNumbered, LoadKinds
<1>4. CASE UNCHANGED <<shownLoad, figure, drawer, listing>>
  <2>1. MatrixShape' /\ LoadsAreNumbered'
    BY <1>1, <1>2, <1>4 DEF MatrixInv, MatrixShape, LoadsAreNumbered
  <2>2. FigureFollows' /\ DrawerFollows'
    BY <1>1, <1>2, <1>4 DEF MatrixInv, FigureFollows, DrawerFollows, IsLatest, NotRead
  <2>3. QED
    BY <2>1, <2>2 DEF MatrixInv
<1>5. ASSUME r.read # NotRead, shownLoad' = [shownLoad EXCEPT ![r.kind] = r.number],
             drawer' \in {"closed", "loading", "listed"}
      PROVE  /\ MatrixShape' /\ LoadsAreNumbered'
             /\ \A k \in LoadKinds : shownLoad'[k] = IF k = r.kind THEN r.number ELSE shownLoad[k]
  <2>1. \A k \in LoadKinds : shownLoad'[k] = IF k = r.kind THEN r.number ELSE shownLoad[k]
    BY <1>3, <1>5
  <2>2. shownLoad' \in [LoadKinds -> Nat]
    BY <1>3, <1>5
  <2>3. MatrixShape'
    BY <1>1, <1>2, <1>5, <2>2 DEF MatrixInv, MatrixShape
  <2>4. LoadsAreNumbered'
    BY <1>1, <1>2, <1>3, <2>1 DEF MatrixInv, MatrixShape, LoadsAreNumbered
  <2>5. QED
    BY <2>1, <2>3, <2>4
<1>6. CASE /\ r.read # NotRead /\ shownLoad' = [shownLoad EXCEPT ![r.kind] = r.number]
           /\ r.kind = "matrix" /\ figure' = Total(r.read) /\ UNCHANGED <<drawer, listing>>
  <2>1. /\ MatrixShape' /\ LoadsAreNumbered'
        /\ shownLoad'["matrix"] = r.number /\ shownLoad'["rows"] = shownLoad["rows"]
    BY <1>3, <1>5, <1>6 DEF MatrixInv, MatrixShape
  <2>2. FigureFollows'
    <3>1. ASSUME IsLatest("matrix")', ~astray
          PROVE  rumours > 0 \/ missed \/ figure' = Total(InScope(stock, holder))
      BY <1>2, <1>6, <2>1, <3>1 DEF MatrixInv, FigureFollows, IsLatest
    <3>2. QED
      BY <1>1, <1>2, <3>1 DEF MatrixInv, FigureFollows, NotRead
  <2>3. DrawerFollows'
    BY <1>1, <1>2, <1>6, <2>1 DEF MatrixInv, DrawerFollows, IsLatest, NotRead
  <2>4. QED
    BY <2>1, <2>2, <2>3 DEF MatrixInv
<1>7. CASE /\ r.read # NotRead /\ shownLoad' = [shownLoad EXCEPT ![r.kind] = r.number]
           /\ r.kind = "rows" /\ listing' = r.read /\ drawer' = "listed" /\ UNCHANGED figure
  <2>1. /\ MatrixShape' /\ LoadsAreNumbered'
        /\ shownLoad'["rows"] = r.number /\ shownLoad'["matrix"] = shownLoad["matrix"]
    BY <1>3, <1>5, <1>7
  <2>2. FigureFollows'
    BY <1>1, <1>2, <1>7, <2>1 DEF MatrixInv, FigureFollows, IsLatest, NotRead
  <2>3. DrawerFollows'
    <3>1. ASSUME IsLatest("rows")'
          PROVE  outdone \/ inSave = "drawer" \/ listing' = InScope(stock, holder)
      BY <1>2, <1>7, <2>1, <3>1 DEF MatrixInv, DrawerFollows, IsLatest
    <3>2. QED
      BY <1>1, <1>2, <1>7, <3>1 DEF MatrixInv, DrawerFollows, NotRead
  <2>4. QED
    BY <2>1, <2>2, <2>3 DEF MatrixInv
<1>8. QED
  BY <1>1, <1>4, <1>6, <1>7

LEMMA MatrixNextInv == MatrixInv /\ [MatrixNext]_matrixVars => MatrixInv'
<1> SUFFICES ASSUME MatrixInv, [MatrixNext]_matrixVars
             PROVE  MatrixInv'
  OBVIOUS
<1>1. MatrixShape /\ LoadsAreNumbered /\ FigureFollows /\ DrawerFollows
  BY DEF MatrixInv
<1>2. {"matrix"} \in SUBSET LoadKinds /\ {"rows"} \in SUBSET LoadKinds /\ LoadKinds \in SUBSET LoadKinds
      /\ "matrix" \in LoadKinds
  BY DEF LoadKinds
<1>3. ASSUME NEW kinds \in SUBSET LoadKinds, NEW chosen, Load(kinds, chosen),
             UNCHANGED <<shownLoad, outdone, missed>>, astray' \in BOOLEAN, rumours' \in Nat,
             drawer' \in {"closed", "loading", "listed"}, inSave' \in {"no", "drawer", "elsewhere"}
      PROVE  MatrixShape' /\ LoadsAreNumbered'
  BY <1>1, <1>3, LoadFacts DEF MatrixShape
<1>4. CASE OthersChange
  <2>1. outdone' = (outdone \/ drawer # "closed") /\ StockChanges
    BY <1>4 DEF OthersChange
  <2>2. outdone' \in BOOLEAN /\ (drawer # "closed" => outdone')
    BY <2>1
  <2>3. /\ UNCHANGED <<holder, figure, drawer, listing, loads, lastLoad, shownLoad, astray>>
        /\ inSave' = inSave /\ savedFor' = savedFor
    BY <1>4 DEF OthersChange
  <2>4. /\ inSave' \in {"no", "drawer", "elsewhere"}
        /\ inSave' = "drawer" => drawer # "closed" /\ savedFor' = holder
        /\ drawer # "closed" => outdone' \/ inSave' = "drawer"
    BY <1>1, <2>2, <2>3 DEF MatrixShape, DrawerFollows
  <2>5. QED
    BY <2>1, <2>2, <2>3, <2>4, StockChangesKeep
<1>5. CASE HearStock
  <2>1. astray' \in BOOLEAN /\ ~astray' /\ rumours' \in Nat
    <3>1. astray' \in BOOLEAN /\ ~astray'
      BY <1>5 DEF HearStock
    <3>2. rumours' \in Nat
      BY <1>1, <1>5 DEF HearStock, MatrixShape
    <3>3. QED
      BY <3>1, <3>2
  <2>2. /\ Load({"matrix"}, holder)
        /\ UNCHANGED <<stock, holder, drawer, listing, shownLoad, inSave, savedFor, outdone, missed>>
    BY <1>5 DEF HearStock
  <2>3. MatrixShape' /\ LoadsAreNumbered'
    BY <1>1, <1>2, <1>3, <2>1, <2>2 DEF MatrixShape
  <2>4. FigureFollows'
    BY <1>2, <2>1, <2>2, LoadKeepsFigure
  <2>5. DrawerFollows'
    BY <2>2, LoadKeepsDrawer
  <2>6. QED
    BY <2>3, <2>4, <2>5 DEF MatrixInv
<1>6. CASE ChooseHolder
  <2>1. astray' \in BOOLEAN /\ ~astray'
    BY <1>6 DEF ChooseHolder
  <2>2. /\ Load({"matrix"}, holder') /\ drawer = "closed" /\ inSave # "drawer"
        /\ UNCHANGED <<stock, rumours, drawer, listing, shownLoad, inSave, savedFor, outdone, missed>>
    BY <1>1, <1>6 DEF ChooseHolder, DrawerFollows
  <2>3. MatrixShape' /\ LoadsAreNumbered'
    BY <1>1, <1>2, <1>3, <2>1, <2>2 DEF MatrixShape
  <2>4. FigureFollows'
    BY <1>2, <2>1, <2>2, LoadKeepsFigure
  <2>5. DrawerFollows'
    BY <2>2, LoadKeepsDrawer
  <2>6. QED
    BY <2>3, <2>4, <2>5 DEF MatrixInv
<1>7. CASE OpenCell
  <2>1. /\ Load({"rows"}, holder) /\ drawer = "closed" /\ drawer' = "loading" /\ inSave # "drawer"
        /\ UNCHANGED <<stock, rumours, holder, figure, shownLoad, inSave, savedFor, outdone, astray,
                       missed>>
    BY <1>1, <1>7 DEF OpenCell, DrawerFollows
  <2>2. MatrixShape' /\ LoadsAreNumbered'
    BY <1>1, <1>2, <1>3, <2>1 DEF MatrixShape
  <2>3. /\ \A r \in loads' : r \in loads \/ NewLoad(r, {"rows"}, holder)
        /\ \A k \in LoadKinds : k \notin {"rows"} => lastLoad'[k] = lastLoad[k]
    BY <1>1, <1>2, <2>1, LoadFacts
  <2>4. lastLoad'["matrix"] = lastLoad["matrix"] /\ \A r \in loads' : r.kind = "matrix" => r \in loads
    BY <1>2, <2>3 DEF NewLoad
  <2>5. FigureFollows'
    BY <1>1, <2>1, <2>4 DEF FigureFollows, IsLatest, NotRead
  <2>6. \A r \in loads' : r.kind = "rows" => r.holder = holder /\ r.read = NotRead
    BY <1>1, <2>1, <2>3 DEF DrawerFollows, NewLoad
  <2>7. DrawerFollows'
    BY <2>1, <2>6 DEF DrawerFollows, NotRead
  <2>8. QED
    BY <2>2, <2>5, <2>7 DEF MatrixInv
<1>8. CASE CloseCell
  <2>1. /\ drawer' = "closed" /\ outdone' = FALSE
        /\ loads' = {r \in loads : r.kind = "matrix"}
        /\ inSave' = IF inSave = "drawer" THEN "elsewhere" ELSE inSave
        /\ UNCHANGED <<stock, rumours, holder, figure, lastLoad, shownLoad, savedFor, astray,
                       missed>>
    BY <1>8 DEF CloseCell
  <2>2. outdone' \in BOOLEAN /\ inSave' # "drawer" /\ inSave' \in {"no", "drawer", "elsewhere"}
    BY <1>1, <2>1 DEF MatrixShape
  <2>3. MatrixShape' /\ LoadsAreNumbered'
    BY <1>1, <2>1, <2>2 DEF MatrixShape, LoadsAreNumbered
  <2>4. FigureFollows'
    BY <1>1, <2>1 DEF FigureFollows, IsLatest, NotRead
  <2>5. DrawerFollows'
    BY <2>1, <2>2 DEF DrawerFollows
  <2>6. QED
    BY <2>3, <2>4, <2>5 DEF MatrixInv
<1>9. CASE StoreSave
  <2>1. outdone' \in BOOLEAN
    BY <1>1, <1>9 DEF StoreSave, MatrixShape
  <2>2. /\ StockChanges /\ drawer \in {"closed", "listed"}
        /\ inSave' = IF drawer = "listed" THEN "drawer" ELSE "elsewhere"
        /\ savedFor' = holder
        /\ UNCHANGED <<holder, figure, drawer, listing, loads, lastLoad, shownLoad, outdone, astray>>
    BY <1>1, <1>9 DEF StoreSave, MatrixShape
  <2>3. /\ inSave' \in {"no", "drawer", "elsewhere"}
        /\ inSave' = "drawer" => drawer # "closed" /\ savedFor' = holder
        /\ drawer # "closed" => inSave' = "drawer"
    BY <2>2
  <2>4. QED
    BY <2>1, <2>2, <2>3, StockChangesKeep
<1>10. CASE AnswerSave
  <2>1. /\ inSave # "no" /\ inSave' = "no"
        /\ Load(IF inSave = "drawer" THEN LoadKinds ELSE {"matrix"}, savedFor)
        /\ astray' = (savedFor # holder)
        /\ UNCHANGED <<stock, rumours, holder, figure, drawer, listing, shownLoad, savedFor, outdone,
                       missed>>
    BY <1>10 DEF AnswerSave
  <2>2. astray' \in BOOLEAN /\ (~astray' => savedFor = holder')
    BY <2>1
  <2>3. CASE inSave = "drawer"
    <3>1. Load(LoadKinds, savedFor) /\ savedFor = holder /\ drawer # "closed"
      BY <1>1, <2>1, <2>3 DEF DrawerFollows
    <3>2. MatrixShape' /\ LoadsAreNumbered'
      BY <1>1, <1>2, <1>3, <2>1, <2>2, <3>1 DEF MatrixShape
    <3>3. FigureFollows'
      BY <1>2, <2>1, <2>2, <3>1, LoadKeepsFigure
    <3>4. /\ \A k \in LoadKinds : shownLoad'[k] # lastLoad'[k]
          /\ \A r \in loads' : r \in loads \/ NewLoad(r, LoadKinds, savedFor)
          /\ \A r \in loads : r.kind \in LoadKinds => r.number # lastLoad'[r.kind]
      BY <1>1, <1>2, <2>1, <3>1, LoadFacts
    <3>5. ~IsLatest("rows")'
      BY <3>4 DEF IsLatest, LoadKinds
    <3>6. \A r \in loads' : r.kind = "rows" =>
            r.holder = holder /\ (r.number = lastLoad'["rows"] => r.read = NotRead)
      BY <1>1, <3>1, <3>4 DEF DrawerFollows, MatrixShape, NewLoad
    <3>7. DrawerFollows'
      BY <2>1, <3>1, <3>5, <3>6 DEF DrawerFollows, NotRead
    <3>8. QED
      BY <3>2, <3>3, <3>7 DEF MatrixInv
  <2>4. CASE inSave # "drawer"
    <3>1. Load({"matrix"}, savedFor)
      BY <2>1, <2>4
    <3>2. MatrixShape' /\ LoadsAreNumbered'
      BY <1>1, <1>2, <1>3, <2>1, <2>2, <3>1 DEF MatrixShape
    <3>3. FigureFollows'
      BY <1>2, <2>1, <2>2, <3>1, LoadKeepsFigure
    <3>4. DrawerFollows'
      BY <2>1, <2>4, <3>1, LoadKeepsDrawer
    <3>5. QED
      BY <3>2, <3>3, <3>4 DEF MatrixInv
  <2>5. QED
    BY <2>3, <2>4
<1>11. CASE ServeLoad
  BY <1>11, ServeLoadKeeps
<1>12. CASE AnswerLoad
  BY <1>12, AnswerLoadKeeps
<1>13. CASE UNCHANGED matrixVars
  <2>1. UNCHANGED <<stock, rumours, holder, figure, drawer, listing, loads, lastLoad, shownLoad,
                    inSave, savedFor, stockChanges, outdone, astray, missed>>
    BY <1>13 DEF matrixVars
  <2>2. MatrixShape' /\ LoadsAreNumbered'
    BY <1>1, <2>1 DEF MatrixShape, LoadsAreNumbered
  <2>3. FigureFollows' /\ DrawerFollows'
    BY <1>1, <2>1 DEF FigureFollows, DrawerFollows, IsLatest, NotRead
  <2>4. QED
    BY <2>2, <2>3 DEF MatrixInv
<1>14. QED
  BY <1>4, <1>5, <1>6, <1>7, <1>8, <1>9, <1>10, <1>11, <1>12, <1>13 DEF MatrixNext

\* For any holders, stock and number of loads: the quiet tab's figure is what
\* the chosen holder has, and the rows of the drawer add up to it, but for the
\* excuses (ResourceMatrixView.tsx, ResourceMatrixCellDrawer.tsx).
THEOREM CellIsAlwaysCurrent == MatrixSpec => []CellIsCurrent
<1>1. MatrixInv => FigureIsCurrent
  BY DEF MatrixInv, MatrixQuiet, FigureFollows, FigureIsCurrent
<1>2. MatrixInv => BreakdownAddsUp
  BY DEF MatrixInv, MatrixQuiet, FigureFollows, DrawerFollows, BreakdownAddsUp
<1>3. QED
  BY MatrixInitInv, MatrixNextInv, <1>1, <1>2, PTL DEF MatrixSpec, CellIsCurrent

-----------------------------------------------------------------------------
(* Counting up: an induction over the numbers up to a bound, from the fact *)
(* that strict inclusion of finite sets is well-founded.                   *)

\* Some number is the least of those up to N that are out.
LEMMA LeastOf ==
    ASSUME NEW N \in Nat, NEW Out, Out \subseteq 0 .. N, Out # {}
    PROVE  \E x \in Out : \A y \in Out : x <= y
<1> DEFINE Below == {0 .. n : n \in Out}
<1>1. Below \subseteq FiniteSubsetsOf(0 .. N) /\ Below # {}
  <2>1. ASSUME NEW n \in Out PROVE 0 .. n \in SUBSET (0 .. N) /\ IsFiniteSet(0 .. n)
    BY FS_Interval
  <2> QED
    BY <2>1 DEF FiniteSubsetsOf
<1>2. IsWellFoundedOn(StrictSubsetOrdering(0 .. N), FiniteSubsetsOf(0 .. N))
  BY FS_StrictSubsetOrderingWellFounded
<1>3. PICK b \in Below : \A c \in Below : ~(<<c, b>> \in StrictSubsetOrdering(0 .. N))
  <2> HIDE DEF Below
  <2> QED
    BY <1>1, <1>2, WFMin
<1>4. PICK x \in Out : b = 0 .. x
  BY <1>3
<1>5. ASSUME NEW y \in Out, y < x PROVE FALSE
  <2>1. 0 .. y \in Below /\ 0 .. y \in SUBSET (0 .. N) /\ 0 .. x \in SUBSET (0 .. N)
    OBVIOUS
  <2>2. 0 .. y \subseteq 0 .. x /\ x \in 0 .. x /\ x \notin 0 .. y
    BY <1>5
  <2>3. <<0 .. y, 0 .. x>> \in StrictSubsetOrdering(0 .. N)
    BY <2>1, <2>2 DEF StrictSubsetOrdering
  <2> QED
    BY <2>1, <2>3, <1>3, <1>4
<1> QED
  BY <1>5

\* What holds of 0 and passes from each number to the next.
LEMMA UpTo ==
    ASSUME NEW N \in Nat, NEW T, 0 \in T, \A n \in 0 .. N - 1 : n \in T => n + 1 \in T
    PROVE  \A n \in 0 .. N : n \in T
<1>1. SUFFICES ASSUME NEW m \in 0 .. N, m \notin T PROVE FALSE
  OBVIOUS
<1> DEFINE Out == {n \in 0 .. N : n \notin T}
<1>2. PICK x \in Out : \A y \in Out : x <= y
  <2>1. Out \subseteq 0 .. N /\ Out # {}
    BY <1>1
  <2> HIDE DEF Out
  <2> QED
    BY <2>1, LeastOf
<1>3. x # 0 /\ x - 1 \in 0 .. N - 1 /\ x - 1 \notin Out
  BY <1>2
<1> QED
  BY <1>2, <1>3

-----------------------------------------------------------------------------
(* The audit log: the lists that the server's answers are cut from. *)

\* The list that the recursion of Entries describes, of the numbers in K.
ListsDown(K, g, N) ==
    g = [n \in 0 .. N |-> IF n = 0 THEN <<>>
                          ELSE IF n \in K THEN <<n>> \o g[n - 1] ELSE g[n - 1]]

\* The numbers that Entries lists.
Of(filter) == {n \in 1 .. Len(log) \ hidden : Passes(n, filter)}
Kept(filter, below) == {n \in Of(filter) : n < below}

\* There is such a list, so that the recursion defines one.
LEMMA ListExists ==
    ASSUME NEW K, NEW N \in Nat
    PROVE  \E g : ListsDown(K, g, N)
<1> DEFINE T == {m \in 0 .. N : \E g : ListsDown(K, g, m)}
<1>1. 0 \in T
  <2>1. ListsDown(K, [n \in 0 .. 0 |-> <<>>], 0)
    BY DEF ListsDown
  <2> QED
    BY <2>1
<1>2. ASSUME NEW m \in 0 .. N - 1, m \in T
      PROVE  m + 1 \in T
  <2>1. PICK f : ListsDown(K, f, m)
    BY <1>2
  <2> DEFINE next == IF m + 1 \in K THEN <<m + 1>> \o f[m] ELSE f[m]
             g == [n \in 0 .. m + 1 |-> IF n = m + 1 THEN next ELSE f[n]]
             h == [n \in 0 .. m + 1 |-> IF n = 0 THEN <<>>
                          ELSE IF n \in K THEN <<n>> \o g[n - 1] ELSE g[n - 1]]
  <2>2. ASSUME NEW n \in 0 .. m + 1
        PROVE  g[n] = h[n]
    <3>1. CASE n = m + 1
      <4>1. n # 0 /\ n - 1 = m /\ g[m] = f[m]
        BY <3>1
      <4> QED
        BY <4>1, <3>1
    <3>2. CASE n # m + 1 /\ n # 0
      <4>1. n \in 0 .. m /\ n - 1 \in 0 .. m + 1 /\ n - 1 # m + 1
        BY <3>2
      <4>2. g[n] = f[n] /\ g[n - 1] = f[n - 1]
        BY <3>2, <4>1
      <4>3. f[n] = IF n \in K THEN <<n>> \o f[n - 1] ELSE f[n - 1]
        BY <2>1, <3>2, <4>1 DEF ListsDown
      <4> QED
        BY <3>2, <4>2, <4>3
    <3>3. CASE n = 0
      BY <2>1, <3>3 DEF ListsDown
    <3> QED
      BY <3>1, <3>2, <3>3
  <2>3. g = h
    <3> HIDE DEF next
    <3>1. g = [n \in 0 .. m + 1 |-> g[n]] /\ h = [n \in 0 .. m + 1 |-> h[n]]
      OBVIOUS
    <3> HIDE DEF g, h
    <3> QED
      BY <2>2, <3>1
  <2>4. ListsDown(K, g, m + 1)
    BY <2>3 DEF ListsDown
  <2> HIDE DEF g
  <2> QED
    BY <2>4
<1>3. N \in T
  <2>1. 0 \in T /\ \A m \in 0 .. N - 1 : m \in T => m + 1 \in T
    BY <1>1, <1>2
  <2>2. N \in 0 .. N
    OBVIOUS
  <2> HIDE DEF T
  <2> QED
    BY <2>1, <2>2, UpTo
<1> QED
  BY <1>3 DEF T

LEMMA ListSteps ==
    ASSUME NEW K, NEW N \in Nat, NEW g, ListsDown(K, g, N)
    PROVE  /\ g[0] = <<>>
           /\ \A n \in 1 .. N : g[n] = IF n \in K THEN <<n>> \o g[n - 1] ELSE g[n - 1]
<1>1. \A n \in 0 .. N : g[n] = IF n = 0 THEN <<>>
                               ELSE IF n \in K THEN <<n>> \o g[n - 1] ELSE g[n - 1]
  BY DEF ListsDown
<1>2. g[0] = <<>>
  <2>1. 0 \in 0 .. N
    OBVIOUS
  <2> QED
    BY <1>1, <2>1
<1>3. ASSUME NEW n \in 1 .. N
      PROVE  g[n] = IF n \in K THEN <<n>> \o g[n - 1] ELSE g[n - 1]
  <2>1. n \in 0 .. N /\ n # 0
    OBVIOUS
  <2> QED
    BY <1>1, <2>1
<1> QED
  BY <1>2, <1>3

\* Entries is such a list.
LEMMA ListIsRead ==
    ASSUME Len(log) \in Nat, NEW filter, NEW below
    PROVE  \E g : /\ ListsDown(Kept(filter, below), g, Len(log))
                  /\ Entries(filter, below) = g[Len(log)]
<1> DEFINE Is(f) == f = [n \in 0 .. Len(log) |->
                            IF n = 0 THEN <<>>
                            ELSE IF n < below /\ n \notin hidden /\ Passes(n, filter)
                                 THEN <<n>> \o f[n - 1] ELSE f[n - 1]]
           K == Kept(filter, below)
<1>1. PICK g : ListsDown(K, g, Len(log))
  BY ListExists
<1>2. \A f : Is(f) <=> ListsDown(K, f, Len(log))
  <2>1. \A n \in 0 .. Len(log) :
            n # 0 => (n \in K <=> n < below /\ n \notin hidden /\ Passes(n, filter))
    BY DEF Kept, Of
  <2> HIDE DEF K
  <2>2. ASSUME NEW f
        PROVE  [n \in 0 .. Len(log) |->
                            IF n = 0 THEN <<>>
                            ELSE IF n < below /\ n \notin hidden /\ Passes(n, filter)
                                 THEN <<n>> \o f[n - 1] ELSE f[n - 1]]
               = [n \in 0 .. Len(log) |-> IF n = 0 THEN <<>>
                          ELSE IF n \in K THEN <<n>> \o f[n - 1] ELSE f[n - 1]]
    BY <2>1
  <2> QED
    BY <2>2 DEF ListsDown
<1>3. Is(CHOOSE f : Is(f))
  BY <1>1, <1>2
<1>4. Entries(filter, below) = (CHOOSE f : Is(f))[Len(log)]
  BY DEF Entries
<1> HIDE DEF Is
<1> QED
  BY <1>2, <1>3, <1>4


\* A list, newest first, of entries in K; one of all the entries in K.
InOrder(s, K) == s \in Seq(K) /\ \A i, j \in 1 .. Len(s) : i < j => s[i] > s[j]
Has(s, n) == \E i \in 1 .. Len(s) : s[i] = n
Whole(s, K) == InOrder(s, K) /\ \A n \in K : Has(s, n)

LEMMA PutFirst ==
    ASSUME NEW K, K \subseteq Nat, NEW n \in Nat, NEW s, Whole(s, K), \A k \in K : k < n
    PROVE  Whole(<<n>> \o s, K \cup {n})
<1> DEFINE L == K \cup {n}
<1>1. PICK t : t = <<n>> \o s
  OBVIOUS
<1>2. s \in Seq(K) /\ s \in Seq(L)
  <2>1. s \in Seq(K) /\ K \subseteq L
    BY DEF Whole, InOrder
  <2> QED
    BY <2>1, SeqMonotonic
<1>3. PICK d \in Nat : d = Len(s)
  BY <1>2, LenProperties
<1>4. <<n>> \in Seq(L) /\ Len(<<n>>) = 1 /\ <<n>>[1] = n
  OBVIOUS
<1>5. /\ t \in Seq(L) /\ Len(t) = 1 + d
      /\ \A i \in 1 .. 1 + d : t[i] = IF i <= 1 THEN <<n>>[i] ELSE s[i - 1]
  BY <1>1, <1>2, <1>3, <1>4, ConcatProperties
<1>6. t[1] = n
  <2>1. 1 \in 1 .. 1 + d
    OBVIOUS
  <2> QED
    BY <1>4, <1>5, <2>1
<1>7. ASSUME NEW i \in 2 .. 1 + d
      PROVE  t[i] = s[i - 1] /\ i - 1 \in 1 .. d /\ s[i - 1] \in K
  <2>1. i \in 1 .. 1 + d /\ ~(i <= 1) /\ i - 1 \in 1 .. d
    OBVIOUS
  <2> QED
    BY <1>2, <1>3, <1>5, <2>1, ElementOfSeq
<1>8. ASSUME NEW i \in 1 .. 1 + d, NEW j \in 1 .. 1 + d, i < j
      PROVE  t[i] > t[j]
  <2>1. j \in 2 .. 1 + d
    BY <1>8
  <2>2. CASE i = 1
    <3>1. PICK q \in K : q = t[j]
      BY <1>7, <2>1
    <3> QED
      BY <1>6, <2>2, <3>1
  <2>3. CASE i # 1
    <3>1. i \in 2 .. 1 + d
      BY <2>3
    <3>2. t[i] = s[i - 1] /\ t[j] = s[j - 1] /\ i - 1 \in 1 .. d /\ j - 1 \in 1 .. d
      BY <1>7, <2>1, <3>1
    <3>3. i - 1 < j - 1
      BY <1>8
    <3>4. s[i - 1] > s[j - 1]
      BY <1>3, <3>2, <3>3 DEF Whole, InOrder
    <3> QED
      BY <3>2, <3>4
  <2> QED
    BY <2>2, <2>3
<1>9. ASSUME NEW k \in L
      PROVE  Has(t, k)
  <2>1. CASE k = n
    <3>1. 1 \in 1 .. Len(t)
      BY <1>5
    <3> QED
      BY <1>6, <2>1, <3>1 DEF Has
  <2>2. CASE k \in K
    <3>1. PICK i \in 1 .. d : s[i] = k
      BY <1>3, <2>2 DEF Whole, Has
    <3>2. PICK j \in 2 .. 1 + d : j = i + 1
      OBVIOUS
    <3>3. j - 1 = i /\ j \in 1 .. 1 + d
      BY <3>2
    <3>4. t[j] = s[i]
      BY <1>7, <3>3
    <3> QED
      BY <1>5, <3>1, <3>3, <3>4 DEF Has
  <2> QED
    BY <2>1, <2>2
<1> QED
  BY <1>1, <1>5, <1>8, <1>9 DEF Whole, InOrder

\* The numbers of K up to one of them.
Low(K, m) == {n \in K : n <= m}

LEMMA LowGoesOn ==
    ASSUME NEW K, \A n \in K : n \in Nat /\ n >= 1, NEW m \in Nat
    PROVE  /\ Low(K, 0) = {}
           /\ \A k \in Low(K, m) : k \in Nat /\ k < m + 1
           /\ Low(K, m + 1) = IF m + 1 \in K THEN Low(K, m) \cup {m + 1} ELSE Low(K, m)
<1>1. \A j : \A k : k \in Low(K, j) <=> k \in K /\ k <= j
  BY DEF Low
<1>2. \A k \in K : ~(k <= 0) /\ (k <= m + 1 <=> k <= m \/ k = m + 1) /\ (k <= m => k < m + 1)
  <2>1. ASSUME NEW k \in K PROVE ~(k <= 0) /\ (k <= m + 1 <=> k <= m \/ k = m + 1)
                                 /\ (k <= m => k < m + 1)
    <3>1. PICK q \in Nat : q = k /\ q >= 1
      OBVIOUS
    <3> QED
      BY ONLY <3>1, m \in Nat
  <2> QED
    BY <2>1
<1>3. Low(K, 0) = {}
  BY <1>1, <1>2
<1>4. \A k \in Low(K, m) : k \in Nat /\ k < m + 1
  BY <1>1, <1>2
<1>5. Low(K, m + 1) = IF m + 1 \in K THEN Low(K, m) \cup {m + 1} ELSE Low(K, m)
  <2>1. PICK q \in Nat : q = m + 1
    OBVIOUS
  <2>2. ASSUME NEW k
        PROVE  k \in Low(K, q) <=> k \in (IF q \in K THEN Low(K, m) \cup {q} ELSE Low(K, m))
    <3>1. q \in K => q <= q
      BY <2>1
    <3> QED
      BY <1>1, <1>2, <2>1, <3>1
  <2> HIDE DEF Low
  <2>3. Low(K, q) = IF q \in K THEN Low(K, m) \cup {q} ELSE Low(K, m)
    BY <2>2
  <2> QED
    BY <2>1, <2>3
<1> QED
  BY <1>3, <1>4, <1>5

LEMMA ListIsWhole ==
    ASSUME NEW N \in Nat, NEW K, K \subseteq 1 .. N, NEW g, ListsDown(K, g, N)
    PROVE  Whole(g[N], K)
<1> DEFINE T == {m \in 0 .. N : Whole(g[m], Low(K, m))}
<1>0. \A n \in K : n \in Nat /\ n >= 1 /\ n <= N
  OBVIOUS
<1>1. Whole(g[0], Low(K, 0))
  <2>1. g[0] = <<>>
    BY ListSteps
  <2>2. <<>> \in Seq({}) /\ Len(<<>>) = 0
    BY EmptySeq
  <2>3. Low(K, 0) = {}
    BY ONLY <1>0, 0 \in Nat, LowGoesOn
  <2>4. \A i, j \in 1 .. Len(<<>>) : i < j => <<>>[i] > <<>>[j]
    BY <2>2
  <2>5. Whole(<<>>, {})
    BY <2>2, <2>4 DEF Whole, InOrder
  <2> QED
    BY <2>1, <2>3, <2>5
<1>2. ASSUME NEW m \in 0 .. N - 1, Whole(g[m], Low(K, m))
      PROVE  Whole(g[m + 1], Low(K, m + 1))
  <2>1. m + 1 \in 1 .. N /\ (m + 1) - 1 = m /\ m \in Nat /\ m + 1 \in Nat
    OBVIOUS
  <2>2. g[m + 1] = IF m + 1 \in K THEN <<m + 1>> \o g[m] ELSE g[m]
    BY <2>1, ListSteps
  <2>3. Low(K, m) \subseteq Nat /\ \A k \in Low(K, m) : k < m + 1
    <3>1. \A k \in Low(K, m) : k \in Nat /\ k < m + 1
      BY ONLY <1>0, <2>1, LowGoesOn
    <3> QED
      BY <3>1
  <2>4. CASE m + 1 \notin K
    <3>1. Low(K, m + 1) = Low(K, m)
      BY ONLY <1>0, <2>1, <2>4, LowGoesOn
    <3> QED
      BY <1>2, <2>2, <2>4, <3>1
  <2>5. CASE m + 1 \in K
    <3>1. Low(K, m + 1) = Low(K, m) \cup {m + 1}
      BY ONLY <1>0, <2>1, <2>5, LowGoesOn
    <3>3. Whole(<<m + 1>> \o g[m], Low(K, m) \cup {m + 1})
      BY ONLY <1>2, <2>1, <2>3, PutFirst
    <3> QED
      BY <2>2, <2>5, <3>1, <3>3
  <2> QED
    BY <2>4, <2>5
<1>3. N \in T
  <2>1. N \in 0 .. N
    OBVIOUS
  <2>2. 0 \in T
    BY <1>1
  <2>3. \A m \in 0 .. N - 1 : m \in T => m + 1 \in T
    <3>1. \A m \in 0 .. N - 1 : m + 1 \in 0 .. N
      OBVIOUS
    <3> QED
      BY <1>2, <3>1
  <2> HIDE DEF T
  <2> QED
    BY <2>1, <2>2, <2>3, UpTo
<1>4. Low(K, N) = K
  BY <1>0 DEF Low
<1> QED
  BY <1>3, <1>4

\* Entries lists the entries of a filter below a bound, all of them.
LEMMA EntriesAreWhole ==
    ASSUME Len(log) \in Nat, NEW filter, NEW below
    PROVE  Whole(Entries(filter, below), Kept(filter, below))
<1>1. PICK g : /\ ListsDown(Kept(filter, below), g, Len(log))
               /\ Entries(filter, below) = g[Len(log)]
  BY ListIsRead
<1>2. Kept(filter, below) \subseteq 1 .. Len(log)
  BY DEF Kept, Of
<1> QED
  BY <1>1, <1>2, ListIsWhole

\* What is left of a list without its first entry.
LEMMA RestOfList ==
    ASSUME NEW K, K \subseteq Nat, NEW from, InOrder(from, K)
    PROVE  LET rest == SubSeq(from, 2, Len(from))
           IN  /\ InOrder(rest, K)
               /\ Len(from) \in Nat
               /\ Len(rest) = IF Len(from) = 0 THEN 0 ELSE Len(from) - 1
               /\ \A i \in 1 .. Len(rest) : i + 1 \in 1 .. Len(from) /\ rest[i] = from[i + 1]
<1>1. PICK d \in Nat : d = Len(from)
  BY LenProperties DEF InOrder
<1>2. PICK rest : rest = SubSeq(from, 2, d)
  OBVIOUS
<1>3. \A i \in 1 .. d : from[i] \in K
  BY <1>1, ElementOfSeq DEF InOrder
<1>4. /\ rest \in Seq(K) /\ Len(rest) = IF 2 <= d THEN (d - 2) + 1 ELSE 0
      /\ \A i \in 1 .. (d - 2) + 1 : rest[i] = from[(2 + i) - 1]
  <2>1. \A i \in 2 .. d : from[i] \in K
    BY <1>3
  <2>2. 2 \in Int /\ d \in Int
    OBVIOUS
  <2> QED
    BY ONLY <1>2, <2>1, <2>2, SubSeqProperties
<1>5. Len(rest) = IF d = 0 THEN 0 ELSE d - 1
  BY <1>4
<1>6. ASSUME NEW i \in 1 .. Len(rest)
      PROVE  i + 1 \in 1 .. d /\ rest[i] = from[i + 1]
  <2>1. i \in 1 .. (d - 2) + 1 /\ (2 + i) - 1 = i + 1 /\ i + 1 \in 1 .. d
    BY <1>4
  <2> QED
    BY <1>4, <2>1
<1>7. ASSUME NEW i \in 1 .. Len(rest), NEW j \in 1 .. Len(rest), i < j
      PROVE  rest[i] > rest[j]
  <2>1. i + 1 \in 1 .. d /\ j + 1 \in 1 .. d /\ i + 1 < j + 1
    BY <1>6, <1>7, <1>5
  <2>2. from[i + 1] > from[j + 1]
    BY <1>1, <2>1 DEF InOrder
  <2> QED
    BY <1>6, <2>2
<1> QED
  BY <1>1, <1>2, <1>4, <1>5, <1>6, <1>7 DEF InOrder

\* Without its first entry, the newest, a whole list is one of the others.
LEMMA RestIsWhole ==
    ASSUME NEW K, K \subseteq Nat, NEW from, Whole(from, K), NEW n \in K, \A k \in K : k <= n
    PROVE  LET rest == SubSeq(from, 2, Len(from))
           IN  /\ \A i \in 1 .. Len(rest) : rest[i] < n
               /\ \A k \in K \ {n} : Has(rest, k)
<1>1. PICK rest : rest = SubSeq(from, 2, Len(from))
  OBVIOUS
<1>2. PICK d \in Nat : d = Len(from)
  BY LenProperties DEF Whole, InOrder
<1>3. /\ Len(rest) = IF d = 0 THEN 0 ELSE d - 1
      /\ \A i \in 1 .. Len(rest) : i + 1 \in 1 .. d /\ rest[i] = from[i + 1]
  BY <1>1, <1>2, RestOfList DEF Whole
<1>4. \A i \in 1 .. d : from[i] \in K
  BY <1>2, ElementOfSeq DEF Whole, InOrder
<1>5. PICK f \in 1 .. d : from[f] = n
  BY <1>2 DEF Whole, Has
<1>6. f = 1
  <2>1. SUFFICES ASSUME f # 1 PROVE FALSE
    OBVIOUS
  <2>2. 1 \in 1 .. d /\ 1 < f
    BY <2>1
  <2>3. from[1] > from[f]
    BY <1>2, <2>2 DEF Whole, InOrder
  <2>4. PICK k \in K : k = from[1]
    BY <1>4, <2>2
  <2> QED
    BY <1>5, <2>3, <2>4
<1>7. ASSUME NEW i \in 1 .. Len(rest)
      PROVE  rest[i] < n
  <2>1. i + 1 \in 1 .. d /\ rest[i] = from[i + 1] /\ 1 \in 1 .. d /\ 1 < i + 1
    BY <1>3
  <2>2. from[1] > from[i + 1]
    BY <1>2, <2>1 DEF Whole, InOrder
  <2>3. PICK k \in K : k = from[i + 1]
    BY <1>4, <2>1
  <2> QED
    BY <1>5, <1>6, <2>1, <2>2, <2>3
<1>8. ASSUME NEW k \in K \ {n}
      PROVE  Has(rest, k)
  <2>1. PICK i \in 1 .. d : from[i] = k
    BY <1>2 DEF Whole, Has
  <2>2. i # 1
    BY <1>5, <1>6, <2>1
  <2>3. PICK j \in 1 .. Len(rest) : j + 1 = i
    <3>1. i - 1 \in 1 .. Len(rest) /\ (i - 1) + 1 = i
      BY <1>3, <2>2
    <3> QED
      BY <3>1
  <2>4. rest[j] = k
    BY <1>3, <2>1, <2>3
  <2> QED
    BY <2>4 DEF Has
<1> QED
  BY <1>1, <1>7, <1>8

\* What the server makes of a list.
PageFrom(rest) ==
    LET page == SubSeq(rest, 1, IF Len(rest) < PageRows THEN Len(rest) ELSE PageRows)
    IN  [logs |-> page, next |-> IF Len(rest) > PageRows THEN page[PageRows] ELSE 0]

\* A cursor is the last row of its page.
Ends(page, next) == next # 0 => page # <<>> /\ next = page[Len(page)]

LEMMA PageOfList ==
    ASSUME NEW K, K \subseteq Nat \ {0}, NEW rest, InOrder(rest, K)
    PROVE  LET page == PageFrom(rest).logs
               next == PageFrom(rest).next
           IN  /\ InOrder(page, K)
               /\ next \in K \cup {0}
               /\ Ends(page, next)
               /\ \A i \in 1 .. Len(page) : i \in 1 .. Len(rest) /\ page[i] = rest[i]
               /\ \A n \in K : next < n /\ Has(rest, n) => Has(page, n)
<1> DEFINE m == IF Len(rest) < PageRows THEN Len(rest) ELSE PageRows
           page == SubSeq(rest, 1, m)
<1>1. /\ Len(rest) \in Nat /\ PageRows \in Nat \ {0}
      /\ \A i \in 1 .. Len(rest) : rest[i] \in K
  BY LenProperties, ElementOfSeq, PagesHaveRows DEF InOrder
<1>2. m \in Nat /\ m <= Len(rest)
  BY <1>1
<1>3. \A i \in 1 .. m : i \in 1 .. Len(rest) /\ rest[i] \in K
  BY <1>1, <1>2
<1>4. Len(rest) > PageRows => m = PageRows
  BY <1>1
<1>5. ~(Len(rest) > PageRows) => m = Len(rest)
  BY <1>1
<1> HIDE DEF m
<1>6. page \in Seq(K) /\ Len(page) = m /\ \A i \in 1 .. m : page[i] = rest[i]
  <2>1. 1 \in Int /\ m \in Int /\ (IF 1 <= m THEN m - 1 + 1 ELSE 0) = m /\ (m - 1) + 1 = m
        /\ \A i \in 1 .. m : (1 + i) - 1 = i
    BY <1>2
  <2> QED
    BY <1>3, <2>1, SubSeqProperties
<1>7. PageFrom(rest).logs = page
  BY DEF PageFrom, m
<1>8. PageFrom(rest).next = IF Len(rest) > PageRows THEN page[PageRows] ELSE 0
  BY DEF PageFrom, m
<1> HIDE DEF page
<1>9. InOrder(page, K)
  <2>1. ASSUME NEW i \in 1 .. m, NEW j \in 1 .. m, i < j
        PROVE  page[i] > page[j]
    <3>1. rest[i] > rest[j]
      BY <1>3, <2>1 DEF InOrder
    <3> QED
      BY <1>6, <3>1
  <2> QED
    BY <1>6, <2>1 DEF InOrder
<1>10. CASE Len(rest) > PageRows
  <2>1. m \in 1 .. m /\ m = PageRows
    BY <1>1, <1>4, <1>10
  <2>2. page[m] \in K /\ page[m] = rest[m] /\ m \in 1 .. Len(rest)
    BY <1>3, <1>6, <2>1
  <2>3. page # <<>>
    BY <1>6, <2>1, EmptySeq
  <2>4. PageFrom(rest).next = page[m]
    BY <1>8, <1>10, <2>1
  <2>5. ASSUME NEW n \in K, page[m] < n, NEW j \in 1 .. Len(rest), rest[j] = n
        PROVE  Has(page, n)
    <3>1. j < m
      <4>1. CASE j = m
        BY <2>2, <2>5, <4>1
      <4>2. CASE j > m
        <5>1. rest[m] > rest[j]
          BY <2>2, <4>2 DEF InOrder
        <5>2. PICK q \in K : q = rest[m]
          BY <1>1, <2>2
        <5> QED
          BY <2>2, <2>5, <5>1, <5>2
      <4> QED
        BY <1>2, <4>1, <4>2
    <3>2. j \in 1 .. m
      BY <1>2, <3>1
    <3> QED
      BY <1>6, <2>5, <3>2 DEF Has
  <2> QED
    BY <1>3, <1>6, <1>7, <1>9, <2>2, <2>3, <2>4, <2>5 DEF Ends, Has
<1>11. CASE ~(Len(rest) > PageRows)
  <2>1. PageFrom(rest).next = 0 /\ m = Len(rest)
    BY <1>5, <1>8, <1>11
  <2> QED
    BY <1>3, <1>6, <1>7, <1>9, <2>1 DEF Ends, Has
<1> QED
  BY <1>10, <1>11

-----------------------------------------------------------------------------
(* The rows that are shown, and those of an answer. *)

\* Of the entries that are to be listed, none between two bounds is missing.
Covers(page, filter, next, below) ==
    \A n \in Of(filter) \ belated : next < n /\ n < below => Has(page, n)

\* What rows satisfy that start at the newest entry, and those of a page that
\* goes on from an entry.
Runs(page, next, filter) ==
    /\ InOrder(page, Of(filter)) /\ Ends(page, next)
    /\ page # <<>> => Covers(page, filter, next, page[1])
GoesOn(page, next, filter, after) ==
    /\ InOrder(page, Of(filter)) /\ Ends(page, next)
    /\ \A i \in 1 .. Len(page) : page[i] < after
    /\ Covers(page, filter, next, after)

Seen == 1 .. Len(log) \ hidden
Pending == requests \cup {a.to : a \in served}

\* Requests are numbered; a cursor is an entry that was seen.
LogShape ==
    /\ log \in Seq(LogKinds)
    /\ requestId \in Nat
    /\ cursor \in Seen \cup {0}
    /\ \A r \in Pending : r.id \in Nat /\ r.id <= requestId /\ r.after \in Seen \cup {0}
    /\ \A a \in served : a.next \in Seen \cup {0}

\* The request whose answer is applied is one, under way to the server or
\* back, asks for the filter that is chosen unless it strayed, and goes on from
\* the rows that are shown or starts anew.
LatestAsks ==
    /\ \A q, r \in Pending : q.id = r.id => q = r
    /\ \A a, b \in served : a.to = b.to => a = b
    /\ \A a \in served : a.to \notin requests
    /\ \A r \in Pending : r.id = requestId =>
        /\ strayed \/ r.filter = wanted
        /\ IF r.purpose = "more" THEN cursor # 0 /\ r.after = cursor ELSE r.after = 0

\* When no answer is to be applied any more, none was lost and the latest did
\* not stray, the filter of the rows is the one that is chosen.
RowsAreWanted ==
    shownFor # Mixed /\ ~lostPage /\ ~strayed /\ (\A r \in Pending : r.id # requestId)
        => shownFor = wanted

RowsRun == shownFor # Mixed => Runs(logs, cursor, shownFor)

AnswersRun ==
    \A a \in served :
        IF a.to.after = 0 THEN Runs(a.logs, a.next, a.to.filter)
        ELSE Passes(a.to.after, a.to.filter)
             => GoesOn(a.logs, a.next, a.to.filter, a.to.after)

LogInv == LogShape /\ LatestAsks /\ RowsAreWanted /\ RowsRun /\ AnswersRun

\* The rows go on with a page that goes on from their cursor.
LEMMA PageIsAppended ==
    ASSUME Len(log) \in Nat, NEW filter, NEW page, NEW next, Runs(page, next, filter), next # 0,
           NEW more, NEW last, GoesOn(more, last, filter, next)
    PROVE  Runs(page \o more, last, filter)
<1> DEFINE K == Of(filter)
<1>1. /\ page \in Seq(K) /\ more \in Seq(K)
      /\ page # <<>> /\ next = page[Len(page)]
      /\ Covers(page, filter, next, page[1])
      /\ Ends(more, last) /\ Covers(more, filter, last, next)
  BY DEF Runs, GoesOn, InOrder, Ends
<1>2. PICK c \in Nat \ {0} : c = Len(page)
  BY <1>1, EmptySeq
<1>3. PICK d \in Nat : d = Len(more)
  BY <1>1, LenProperties
<1>4. \A n \in K : n \in Nat \ {0}
  BY DEF Of
<1>5. /\ \A i \in 1 .. c : page[i] \in K /\ page[i] \in Nat \ {0}
      /\ \A i \in 1 .. d : more[i] \in K /\ more[i] \in Nat \ {0} /\ more[i] < next
      /\ \A i, j \in 1 .. c : i < j => page[i] > page[j]
      /\ \A i, j \in 1 .. d : i < j => more[i] > more[j]
  <2>1. \A i \in 1 .. c : page[i] \in K
    BY <1>1, <1>2, ElementOfSeq
  <2>2. \A i \in 1 .. d : more[i] \in K
    BY <1>1, <1>3, ElementOfSeq
  <2> QED
    BY <1>2, <1>3, <1>4, <2>1, <2>2 DEF Runs, GoesOn, InOrder
<1>6. next \in K /\ next = page[c] /\ \A i \in 1 .. c : page[i] >= next
  <2>1. c \in 1 .. c
    BY <1>2
  <2>2. ASSUME NEW i \in 1 .. c
        PROVE  page[i] >= page[c]
    <3>1. i = c \/ i < c
      OBVIOUS
    <3>2. i < c => page[i] > page[c]
      BY <1>5, <2>1
    <3> QED
      BY <1>5, <2>1, <3>1, <3>2
  <2> QED
    BY <1>1, <1>2, <1>5, <2>1, <2>2
<1> HIDE DEF K
<1>7. PICK all : all = page \o more
  OBVIOUS
<1>8. /\ all \in Seq(K) /\ Len(all) = c + d
      /\ \A i \in 1 .. c + d : all[i] = IF i <= c THEN page[i] ELSE more[i - c]
  BY <1>1, <1>2, <1>3, <1>7, ConcatProperties
<1>9. /\ \A i \in 1 .. c : i \in 1 .. c + d /\ all[i] = page[i]
      /\ \A j \in 1 .. d : c + j \in 1 .. c + d /\ all[c + j] = more[j]
      /\ \A i \in 1 .. c + d : i \in 1 .. c \/ (i - c \in 1 .. d /\ i = c + (i - c))
  <2>1. \A i \in 1 .. c : i \in 1 .. c + d /\ i <= c
    OBVIOUS
  <2>2. \A j \in 1 .. d : c + j \in 1 .. c + d /\ ~(c + j <= c) /\ (c + j) - c = j
    OBVIOUS
  <2>3. \A i \in 1 .. c + d : i \in 1 .. c \/ (i - c \in 1 .. d /\ i = c + (i - c))
    OBVIOUS
  <2> QED
    BY <1>8, <2>1, <2>2, <2>3
<1>10. ASSUME NEW i \in 1 .. c + d, NEW j \in 1 .. c + d, i < j
       PROVE  all[i] > all[j]
  <2>1. CASE j \in 1 .. c
    <3>1. i \in 1 .. c
      BY <1>10, <2>1
    <3> QED
      BY <1>5, <1>9, <1>10, <2>1, <3>1
  <2>2. CASE j \notin 1 .. c
    <3>1. PICK y \in 1 .. d : j = c + y
      BY <1>9, <2>2
    <3>2. all[j] = more[y] /\ more[y] < next /\ more[y] \in Nat
      BY <1>5, <1>9, <3>1
    <3>3. CASE i \in 1 .. c
      <4>1. all[i] >= next /\ all[i] \in Nat /\ next \in Nat
        BY <1>4, <1>5, <1>6, <1>9, <3>3
      <4> QED
        BY <3>2, <4>1
    <3>4. CASE i \notin 1 .. c
      <4>1. PICK x \in 1 .. d : i = c + x
        BY <1>9, <3>4
      <4>2. x < y
        BY <1>10, <3>1, <4>1
      <4>3. more[x] > more[y]
        BY <1>5, <4>2
      <4> QED
        BY <1>9, <3>2, <4>1, <4>3
    <3> QED
      BY <3>3, <3>4
  <2> QED
    BY <2>1, <2>2
<1>11. Ends(all, last)
  <2>1. SUFFICES ASSUME last # 0 PROVE all # <<>> /\ last = all[Len(all)]
    BY DEF Ends
  <2>2. more # <<>> /\ last = more[d]
    BY <1>1, <1>3, <2>1 DEF Ends
  <2>3. d \in 1 .. d
    BY <1>1, <1>3, <2>2, EmptySeq
  <2>4. all[c + d] = more[d] /\ c + d # 0
    BY <1>9, <2>3
  <2>5. all # <<>>
    BY <1>8, <2>4, EmptySeq
  <2> QED
    BY <1>8, <2>2, <2>4, <2>5
<1>12. ASSUME NEW n \in K \ belated, last < n, n < page[1]
       PROVE  Has(all, n)
  <2>1. n < next \/ n = next \/ next < n
    BY <1>4, <1>6
  <2>2. CASE n < next
    <3>1. PICK j \in 1 .. d : more[j] = n
      BY <1>1, <1>3, <1>12, <2>2 DEF Covers, Has, K
    <3> QED
      BY <1>8, <1>9, <3>1 DEF Has
  <2>3. CASE next < n
    <3>1. PICK j \in 1 .. c : page[j] = n
      BY <1>1, <1>2, <1>12, <2>3 DEF Covers, Has, K
    <3> QED
      BY <1>8, <1>9, <3>1 DEF Has
  <2>4. CASE n = next
    <3>1. c \in 1 .. c /\ page[c] = n
      BY <1>6, <2>4
    <3> QED
      BY <1>8, <1>9, <3>1 DEF Has
  <2> QED
    BY <2>1, <2>2, <2>3, <2>4
<1>13. all[1] = page[1]
  BY <1>9
<1> QED
  BY <1>7, <1>8, <1>10, <1>11, <1>12, <1>13 DEF Runs, InOrder, Covers, K

\* What the server answers.
LEMMA AnswerRuns ==
    ASSUME Len(log) \in Nat, NEW filter, NEW after \in Seen \cup {0},
           NEW page, page = PageAnswer(filter, after)
    PROVE  /\ page.next \in Seen \cup {0}
           /\ IF after = 0 THEN Runs(page.logs, page.next, filter)
              ELSE Passes(after, filter) => GoesOn(page.logs, page.next, filter, after)
<1>1. after \in Nat /\ \A n \in Of(filter) : n \in Nat \ {0} /\ n < Len(log) + 1 /\ n \in Seen
  BY DEF Of, Seen
<1>2. CASE after = 0
  <2>1. PICK from : from = Entries(filter, Len(log) + 1)
    OBVIOUS
  <2>2. page = PageFrom(from)
    BY <1>2, <2>1 DEF PageAnswer, PageFrom
  <2>3. Kept(filter, Len(log) + 1) = Of(filter)
    BY <1>1 DEF Kept
  <2>4. Whole(from, Of(filter))
    BY <2>1, <2>3, EntriesAreWhole
  <2>5. /\ InOrder(page.logs, Of(filter))
        /\ page.next \in Of(filter) \cup {0}
        /\ Ends(page.logs, page.next)
        /\ \A n \in Of(filter) : page.next < n /\ Has(from, n) => Has(page.logs, n)
    <3>1. Of(filter) \subseteq Nat \ {0} /\ InOrder(from, Of(filter))
      BY <1>1, <2>4 DEF Whole
    <3> QED
      BY ONLY <2>2, <3>1, PageOfList
  <2>6. Covers(page.logs, filter, page.next, page.logs[1])
    BY <2>4, <2>5 DEF Covers, Whole
  <2>7. Runs(page.logs, page.next, filter)
    BY <2>5, <2>6 DEF Runs
  <2> QED
    BY <1>1, <1>2, <2>5, <2>7
<1>3. CASE after # 0
  <2> DEFINE K == Kept(filter, after + 1)
  <2>1. PICK from : from = Entries(filter, after + 1)
    OBVIOUS
  <2>2. PICK rest : rest = SubSeq(from, 2, Len(from))
    OBVIOUS
  <2>3. page = PageFrom(rest)
    BY <1>3, <2>1, <2>2 DEF PageAnswer, PageFrom
  <2>4. Whole(from, K)
    BY <2>1, EntriesAreWhole
  <2>5. K \subseteq Nat /\ K \subseteq Nat \ {0} /\ K \subseteq Of(filter)
        /\ \A n \in K : n <= after
    BY <1>1 DEF Kept
  <2> HIDE DEF K
  <2>6. InOrder(rest, K)
    BY <2>2, <2>4, <2>5, RestOfList DEF Whole
  <2>7. /\ InOrder(page.logs, K) /\ page.next \in K \cup {0} /\ Ends(page.logs, page.next)
        /\ \A i \in 1 .. Len(page.logs) : i \in 1 .. Len(rest) /\ page.logs[i] = rest[i]
        /\ \A n \in K : page.next < n /\ Has(rest, n) => Has(page.logs, n)
    <3>1. K \subseteq Nat \ {0} /\ InOrder(rest, K)
      BY <2>5, <2>6
    <3> QED
      BY ONLY <2>3, <3>1, PageOfList
  <2>8. ASSUME Passes(after, filter)
        PROVE  GoesOn(page.logs, page.next, filter, after)
    <3>1. after \in K
      BY <1>1, <1>3, <2>8 DEF K, Kept, Of, Seen
    <3>2. /\ \A i \in 1 .. Len(rest) : rest[i] < after
          /\ \A n \in K \ {after} : Has(rest, n)
      BY ONLY <2>2, <2>4, <2>5, <3>1, RestIsWhole
    <3>3. InOrder(page.logs, Of(filter))
      BY <2>5, <2>7, SeqMonotonic DEF InOrder
    <3>4. ASSUME NEW n \in Of(filter), page.next < n, n < after
          PROVE  Has(page.logs, n)
      <4>1. n \in K /\ n # after
        BY <1>1, <3>4 DEF K, Kept
      <4> QED
        BY <2>7, <3>2, <3>4, <4>1
    <3>5. Covers(page.logs, filter, page.next, after)
      BY <3>4 DEF Covers
    <3> QED
      BY <2>7, <3>2, <3>3, <3>5 DEF GoesOn
  <2> QED
    BY <1>1, <1>3, <2>5, <2>7, <2>8
<1> QED
  BY <1>2, <1>3

\* The log only grows: at its newer end, or by entries that come late.
LogGrows ==
    /\ \A n \in Seen : n \in Seen' /\ log'[n] = log[n]
    /\ belated \subseteq belated'
    /\ \A n \in Seen' \ belated' : n \notin Seen => \A m \in Seen : m < n

LEMMA OlderStay ==
    ASSUME LogGrows, NEW page, NEW next, NEW filter
    PROVE  /\ Runs(page, next, filter) => Runs(page, next, filter)'
           /\ \A after \in Seen : GoesOn(page, next, filter, after)
                                  => GoesOn(page, next, filter, after)'
<1>1. PICK K : K = Of(filter)
  OBVIOUS
<1>2. PICK L : L = Of(filter)'
  OBVIOUS
<1>3. K \subseteq L
  <2>1. ASSUME NEW n \in K PROVE n \in L
    <3>1. n \in Seen /\ Passes(n, filter)
      BY <1>1 DEF Of, Seen
    <3>2. n \in Seen' /\ log'[n] = log[n]
      BY <3>1 DEF LogGrows
    <3> QED
      BY <1>2, <3>1, <3>2 DEF Of, Seen, Passes
  <2> QED
    BY <2>1
<1>4. InOrder(page, K) => InOrder(page, L)
  BY <1>3, SeqMonotonic DEF InOrder
<1>5. \A n \in L \ belated' : \A m \in Seen : n < m => n \in K \ belated
  <2>1. ASSUME NEW n \in L \ belated', NEW m \in Seen, n < m
        PROVE  n \in K \ belated
    <3>1. n \in Seen' /\ n \in Int
      BY <1>2 DEF Of, Seen
    <3>2. n \in Seen
      <4>1. m \in Int
        BY DEF Seen
      <4> QED
        BY <2>1, <3>1, <4>1 DEF LogGrows
    <3>3. log'[n] = log[n] /\ n \notin belated
      BY <3>2 DEF LogGrows
    <3> QED
      BY <1>1, <1>2, <3>2, <3>3 DEF Of, Seen, Passes
  <2> QED
    BY <2>1
<1>6. ASSUME NEW below \in Seen, Covers(page, filter, next, below)
      PROVE  Covers(page, filter, next, below)'
  <2>1. \A n \in K \ belated : next < n /\ n < below => Has(page, n)
    BY <1>1, <1>6 DEF Covers
  <2>2. \A n \in L \ belated' : next < n /\ n < below => Has(page, n)
    BY <1>5, <2>1
  <2>3. Covers(page, filter, next, below)' <=>
            \A n \in Of(filter)' \ belated' : next < n /\ n < below => Has(page, n)
    BY DEF Covers, Has
  <2> QED
    BY <1>2, <2>2, <2>3
<1>7. ASSUME Runs(page, next, filter)
      PROVE  Runs(page, next, filter)'
  <2>1. InOrder(page, L) /\ Ends(page, next)
    BY <1>1, <1>4, <1>7 DEF Runs
  <2>2. ASSUME page # <<>>
        PROVE  Covers(page, filter, next, page[1])'
    <3>1. 1 \in 1 .. Len(page) /\ page \in Seq(K)
      BY <1>1, <1>7, <2>2, EmptySeq DEF Runs, InOrder
    <3>2. page[1] \in K
      BY <3>1, ElementOfSeq
    <3>3. page[1] \in Seen
      BY <1>1, <3>2 DEF Of, Seen
    <3>4. PICK below \in Seen : below = page[1]
      BY <3>3
    <3>5. Covers(page, filter, next, below)
      BY <1>7, <2>2, <3>4 DEF Runs
    <3>6. Covers(page, filter, next, below)'
      BY <1>6, <3>5
    <3> QED
      BY <3>4, <3>6
  <2> QED
    BY <1>2, <2>1, <2>2 DEF Runs, InOrder, Ends
<1>8. ASSUME NEW after \in Seen, GoesOn(page, next, filter, after)
      PROVE  GoesOn(page, next, filter, after)'
  <2>1. /\ InOrder(page, L) /\ Ends(page, next)
        /\ \A i \in 1 .. Len(page) : page[i] < after
    BY <1>1, <1>4, <1>8 DEF GoesOn
  <2>2. Covers(page, filter, next, after)'
    BY <1>6, <1>8 DEF GoesOn
  <2> QED
    BY <1>2, <2>1, <2>2 DEF GoesOn, InOrder, Ends
<1> QED
  BY <1>7, <1>8

-----------------------------------------------------------------------------
(* The steps of the audit log's page. *)

LEMMA LogInitInv == LogInit => LogInv
<1> SUFFICES ASSUME LogInit PROVE LogInv
  OBVIOUS
<1>1. log \in Seq(LogKinds)
  <2>1. CASE log = <<>>
    BY <2>1, EmptySeq
  <2>2. ASSUME NEW k \in LogKinds, log = <<k>>
        PROVE  log \in Seq(LogKinds)
    BY <2>2
  <2>3. ASSUME NEW k \in LogKinds, NEW l \in LogKinds, log = <<k, l>>
        PROVE  log \in Seq(LogKinds)
    BY <2>3
  <2> QED
    BY <2>1, <2>2, <2>3 DEF LogInit
<1>2. Pending = requests /\ served = {}
  BY DEF LogInit, Pending
<1>3. LogShape /\ LatestAsks /\ RowsAreWanted /\ AnswersRun
  BY <1>1, <1>2 DEF LogInit, LogShape, LatestAsks, RowsAreWanted, AnswersRun
<1>4. InOrder(<<>>, Of(AnyKind))
  BY EmptySeq DEF InOrder
<1>5. RowsRun
  BY <1>4 DEF LogInit, RowsRun, Runs, Ends
<1> QED
  BY <1>3, <1>5 DEF LogInv

\* The log grows, and nothing else happens.
LEMMA GrowingKeeps ==
    ASSUME LogInv, LogGrows, log' \in Seq(LogKinds),
           UNCHANGED <<wanted, logs, cursor, requestId, requests, served, shownFor, lostPage,
                       strayed>>
    PROVE  LogInv'
<1>1. Pending' = Pending /\ Seen \subseteq Seen'
  BY DEF Pending, LogGrows
<1>2. LogShape' /\ LatestAsks' /\ RowsAreWanted'
  BY <1>1 DEF LogInv, LogShape, LatestAsks, RowsAreWanted
<1>3. RowsRun'
  <2>1. PICK page, next, filter : page = logs /\ next = cursor /\ filter = shownFor
    OBVIOUS
  <2>2. Runs(page, next, filter) => Runs(page, next, filter)'
    BY OlderStay
  <2>3. RowsRun <=> (filter # Mixed => Runs(page, next, filter))
    BY <2>1 DEF RowsRun
  <2>4. page = logs' /\ next = cursor' /\ filter = shownFor'
    BY <2>1
  <2>5. RowsRun' <=> (filter # Mixed => Runs(page, next, filter)')
    BY <2>4 DEF RowsRun, Mixed, Runs, InOrder, Ends, Covers, Of, Has, Passes
  <2> QED
    BY <2>2, <2>3, <2>5 DEF LogInv
<1>4. AnswersRun'
  <2> SUFFICES ASSUME NEW a \in served
               PROVE  IF a.to.after = 0 THEN Runs(a.logs, a.next, a.to.filter)'
                      ELSE Passes(a.to.after, a.to.filter)'
                           => GoesOn(a.logs, a.next, a.to.filter, a.to.after)'
    BY DEF AnswersRun
  <2>1. PICK page, next, filter, after :
            page = a.logs /\ next = a.next /\ filter = a.to.filter /\ after = a.to.after
    OBVIOUS
  <2>2. IF after = 0 THEN Runs(page, next, filter)
        ELSE Passes(after, filter) => GoesOn(page, next, filter, after)
    BY <2>1 DEF LogInv, AnswersRun
  <2>3. after \in Seen \cup {0}
    BY <2>1 DEF LogInv, LogShape, Pending
  <2>4. after \in Seen => (Passes(after, filter)' => Passes(after, filter))
    BY DEF LogGrows, Passes
  <2>5. IF after = 0 THEN Runs(page, next, filter)'
        ELSE Passes(after, filter)' => GoesOn(page, next, filter, after)'
    BY <2>2, <2>3, <2>4, OlderStay
  <2> QED
    BY <2>1, <2>5
<1> QED
  BY <1>2, <1>3, <1>4 DEF LogInv

LEMMA RecordKeeps == LogInv /\ Record => LogInv'
<1> SUFFICES ASSUME LogInv, Record PROVE LogInv'
  OBVIOUS
<1>1. PICK k \in LogKinds : log' = Append(log, k)
  BY DEF Record
<1>2. PICK d \in Nat : d = Len(log)
  BY LenProperties DEF LogInv, LogShape
<1>3. /\ log' \in Seq(LogKinds) /\ Len(log') = d + 1
      /\ \A n \in 1 .. d : log'[n] = log[n]
  BY <1>1, <1>2, AppendProperties DEF LogInv, LogShape
<1>4. belated' = belated /\ (hidden' = hidden \/ hidden' = hidden \cup {d + 1})
  BY <1>3 DEF Record
<1>5. LogGrows
  <2>1. \A n \in Seen : n \in 1 .. d /\ n \in Seen' /\ log'[n] = log[n]
    <3>1. \A n \in 1 .. d : n \in 1 .. d + 1 /\ n # d + 1
      OBVIOUS
    <3> QED
      BY <1>2, <1>3, <1>4, <3>1 DEF Seen
  <2>2. ASSUME NEW n \in Seen', n \notin Seen, NEW m \in Seen
        PROVE  m < n
    <3>1. n = d + 1
      <4>1. n \in 1 .. d + 1 /\ n \notin hidden
        BY <1>3, <1>4 DEF Seen
      <4>2. n \notin 1 .. d
        BY <1>2, <2>2, <4>1 DEF Seen
      <4> QED
        BY <4>1, <4>2
    <3> QED
      BY <2>1, <3>1
  <2> QED
    BY <1>4, <2>1, <2>2 DEF LogGrows
<1> QED
  BY <1>3, <1>5, GrowingKeeps DEF Record, shownVars

LEMMA AppearKeeps == LogInv /\ Appear => LogInv'
<1> SUFFICES ASSUME LogInv, Appear PROVE LogInv'
  OBVIOUS
<1>1. PICK some \in SUBSET hidden :
        /\ hidden' = hidden \ some
        /\ belated' = belated \cup {n \in some : \E m \in 1 .. Len(log) : m > n /\ m \notin hidden'}
  BY DEF Appear
<1>2. log' = log /\ log \in Seq(LogKinds) /\ Len(log) \in Nat
  BY LenProperties DEF Appear, LogInv, LogShape
<1>3. \A n \in Seen : n \in Seen'
  BY <1>1, <1>2 DEF Seen
<1>4. ASSUME NEW n \in Seen', n \notin belated', n \notin Seen, NEW m \in Seen
      PROVE  m < n
  <2>1. n \in some /\ n \in 1 .. Len(log)
    BY <1>1, <1>2, <1>4 DEF Seen
  <2>2. m \in 1 .. Len(log) /\ m \notin hidden' /\ m # n
    BY <1>1, <1>4 DEF Seen
  <2>3. ~(m > n)
    BY <1>1, <1>4, <2>1, <2>2
  <2> QED
    BY <1>2, <2>1, <2>2, <2>3
<1>5. LogGrows
  BY <1>1, <1>2, <1>3, <1>4 DEF LogGrows
<1> QED
  BY <1>2, <1>5, GrowingKeeps DEF Appear, shownVars

\* A request is sent: it is the latest from now on.
LEMMA AskingKeeps ==
    ASSUME LogInv, NEW filter, NEW after, NEW purpose, FetchPage(filter, after, purpose),
           IF purpose = "more" THEN cursor # 0 /\ after = cursor ELSE after = 0
    PROVE  LogInv'
<1> DEFINE r == [id |-> requestId + 1, filter |-> filter, after |-> after, purpose |-> purpose]
<1>1. /\ requestId' = requestId + 1 /\ requests' = requests \cup {r}
      /\ strayed' = (filter # wanted')
      /\ UNCHANGED <<log, hidden, belated, logs, cursor, shownFor, lostPage, served>>
  BY DEF FetchPage, shownVars
<1>2. /\ r.id = requestId + 1 /\ r.filter = filter /\ r.after = after /\ r.purpose = purpose
  OBVIOUS
<1> HIDE DEF r
<1>3. Pending' = Pending \cup {r} /\ Seen' = Seen /\ \A a \in served : a.to \in Pending
  BY <1>1 DEF Pending, Seen
<1>4. /\ requestId \in Nat /\ requestId + 1 \in Nat
      /\ \A q \in Pending : q.id \in Nat /\ q.id <= requestId /\ q.id # requestId + 1
                             /\ q.id <= requestId + 1 /\ q # r
  BY <1>2 DEF LogInv, LogShape
<1>5. LogShape'
  <2>1. \A q \in Pending' : q.id \in Nat /\ q.id <= requestId' /\ q.after \in Seen' \cup {0}
    BY <1>1, <1>2, <1>3, <1>4 DEF LogInv, LogShape
  <2> QED
    BY <1>1, <1>3, <1>4, <2>1 DEF LogInv, LogShape
<1>6. LatestAsks'
  <2>1. ASSUME NEW p \in Pending', NEW q \in Pending', p.id = q.id
        PROVE  p = q
    BY <1>2, <1>3, <1>4, <2>1 DEF LogInv, LatestAsks
  <2>2. ASSUME NEW q \in Pending', q.id = requestId'
        PROVE  q = r
    BY <1>1, <1>2, <1>3, <1>4, <2>2
  <2>3. /\ strayed' \/ r.filter = wanted'
        /\ IF r.purpose = "more" THEN cursor' # 0 /\ r.after = cursor' ELSE r.after = 0
    BY <1>1, <1>2
  <2>4. \A a \in served' : a.to \notin requests'
    BY <1>1, <1>3, <1>4 DEF LogInv, LatestAsks
  <2>5. \A a, b \in served' : a.to = b.to => a = b
    BY <1>1 DEF LogInv, LatestAsks
  <2> QED
    BY <2>1, <2>2, <2>3, <2>4, <2>5 DEF LatestAsks
<1>7. RowsAreWanted'
  BY <1>1, <1>2, <1>3 DEF RowsAreWanted
<1>8. RowsRun'
  BY <1>1 DEF LogInv, RowsRun, Runs, InOrder, Ends, Covers, Of, Has, Passes
<1>9. AnswersRun'
  BY <1>1 DEF LogInv, AnswersRun, Runs, GoesOn, InOrder, Ends, Covers, Of, Has, Passes
<1> QED
  BY <1>5, <1>6, <1>7, <1>8, <1>9 DEF LogInv

\* A request is answered by what the server reads.
LEMMA ServingKeeps == LogInv /\ ServePage => LogInv'
<1> SUFFICES ASSUME LogInv, ServePage PROVE LogInv'
  OBVIOUS
<1>1. PICK r \in requests :
        /\ requests' = requests \ {r}
        /\ served' = served \cup {[to |-> r, logs |-> PageAnswer(r.filter, r.after).logs,
                                   next |-> PageAnswer(r.filter, r.after).next]}
  BY DEF ServePage
<1>2. UNCHANGED <<log, hidden, belated, wanted, logs, cursor, shownFor, lostPage, requestId, strayed>>
  BY DEF ServePage, shownVars
<1>3. PICK page : page = PageAnswer(r.filter, r.after)
  OBVIOUS
<1>4. PICK new : new = [to |-> r, logs |-> page.logs, next |-> page.next]
  OBVIOUS
<1>5. new.to = r /\ new.logs = page.logs /\ new.next = page.next /\ served' = served \cup {new}
  BY <1>1, <1>3, <1>4
<1>6. Pending' = Pending /\ Seen' = Seen /\ r \in Pending
  BY <1>1, <1>2, <1>5 DEF Pending, Seen
<1>7. /\ page.next \in Seen \cup {0}
      /\ IF r.after = 0 THEN Runs(page.logs, page.next, r.filter)
         ELSE Passes(r.after, r.filter) => GoesOn(page.logs, page.next, r.filter, r.after)
  <2>1. Len(log) \in Nat /\ r.after \in Seen \cup {0}
    BY <1>6, LenProperties DEF LogInv, LogShape
  <2> QED
    BY <1>3, <2>1, AnswerRuns
<1>8. LogShape'
  BY <1>2, <1>5, <1>6, <1>7 DEF LogInv, LogShape
<1>9. LatestAsks'
  <2>1. ASSUME NEW a \in served', NEW b \in served', a.to = b.to
        PROVE  a = b
    BY <1>5, <2>1 DEF LogInv, LatestAsks
  <2>2. \A a \in served' : a.to \notin requests'
    BY <1>1, <1>5 DEF LogInv, LatestAsks
  <2> QED
    BY <1>2, <1>6, <2>1, <2>2 DEF LogInv, LatestAsks
<1>10. RowsAreWanted' /\ RowsRun'
  BY <1>2, <1>6 DEF LogInv, RowsAreWanted, RowsRun, Runs, InOrder, Ends, Covers, Of, Has, Passes
<1>11. AnswersRun
  BY DEF LogInv
<1>12. \A a \in served' :
        IF a.to.after = 0 THEN Runs(a.logs, a.next, a.to.filter)
        ELSE Passes(a.to.after, a.to.filter)
             => GoesOn(a.logs, a.next, a.to.filter, a.to.after)
  BY <1>5, <1>7, <1>11 DEF AnswersRun
<1>13. AnswersRun'
  BY <1>2, <1>12 DEF AnswersRun, Runs, GoesOn, InOrder, Ends, Covers, Of, Has, Passes
<1> QED
  BY <1>8, <1>9, <1>10, <1>13 DEF LogInv

\* An answer comes: it is no longer under way.
LEMMA AnswerGoes ==
    ASSUME LogInv, NEW a \in served, served' = served \ {a},
           UNCHANGED <<log, hidden, belated, requestId, requests>>
    PROVE  /\ Pending' = Pending \ {a.to} /\ Seen' = Seen
           /\ AnswersRun'
           /\ \A q, r \in Pending' : q.id = r.id => q = r
           /\ \A b, c \in served' : b.to = c.to => b = c
           /\ \A b \in served' : b.to \notin requests'
<1>1. Pending' = Pending \ {a.to}
  BY DEF Pending, LogInv, LatestAsks
<1>2. \A b \in served' :
        IF b.to.after = 0 THEN Runs(b.logs, b.next, b.to.filter)
        ELSE Passes(b.to.after, b.to.filter)
             => GoesOn(b.logs, b.next, b.to.filter, b.to.after)
  BY DEF LogInv, AnswersRun
<1>3. AnswersRun'
  BY <1>2 DEF AnswersRun, Runs, GoesOn, InOrder, Ends, Covers, Of, Has, Passes
<1> QED
  BY <1>1, <1>3 DEF LogInv, LatestAsks, Seen

\* An answer is set aside, or a request failed.
LEMMA SetAsideKeeps ==
    ASSUME LogInv, NEW a \in served, served' = served \ {a},
           UNCHANGED <<log, hidden, belated, requestId, requests, logs, cursor, shownFor, wanted,
                       strayed>>,
           (lostPage' = lostPage /\ a.to.id # requestId) \/ lostPage' = TRUE
    PROVE  LogInv'
<1>1. /\ Pending' = Pending \ {a.to} /\ Seen' = Seen /\ AnswersRun'
      /\ \A q, r \in Pending' : q.id = r.id => q = r
      /\ \A b, c \in served' : b.to = c.to => b = c
      /\ \A b \in served' : b.to \notin requests'
  BY AnswerGoes
<1>2. LogShape' /\ LatestAsks'
  BY <1>1 DEF LogInv, LogShape, LatestAsks
<1>3. RowsRun'
  BY DEF LogInv, RowsRun, Runs, InOrder, Ends, Covers, Of, Has, Passes
<1>4. RowsAreWanted'
  <2>1. CASE lostPage' = TRUE
    BY <2>1 DEF RowsAreWanted
  <2>2. CASE lostPage' = lostPage /\ a.to.id # requestId
    BY <1>1, <2>2 DEF LogInv, RowsAreWanted
  <2> QED
    BY <2>1, <2>2
<1> QED
  BY <1>1, <1>2, <1>3, <1>4 DEF LogInv

\* The answer to the latest request replaces the rows, or goes on from them.
LEMMA ApplyingKeeps ==
    ASSUME LogInv, NEW a \in served, served' = served \ {a}, a.to.id = requestId,
           UNCHANGED <<log, hidden, belated, requestId, requests, wanted, strayed>>,
           logs' = IF a.to.purpose = "more" THEN logs \o a.logs ELSE a.logs,
           cursor' = a.next,
           shownFor' = IF a.to.purpose # "more" THEN a.to.filter
                       ELSE IF a.to.filter = shownFor THEN shownFor ELSE Mixed
    PROVE  LogInv'
<1>1. /\ Pending' = Pending \ {a.to} /\ Seen' = Seen /\ AnswersRun'
      /\ \A q, r \in Pending' : q.id = r.id => q = r
      /\ \A b, c \in served' : b.to = c.to => b = c
      /\ \A b \in served' : b.to \notin requests'
  BY AnswerGoes
<1>2. PICK r : r = a.to
  OBVIOUS
<1>3. /\ r \in Pending /\ r.id = requestId
      /\ strayed \/ r.filter = wanted
      /\ IF r.purpose = "more" THEN cursor # 0 /\ r.after = cursor ELSE r.after = 0
  BY <1>2 DEF LogInv, LatestAsks, Pending
<1>4. \A q \in Pending' : q \in Pending /\ q.id # requestId
  BY <1>1, <1>2, <1>3 DEF LogInv, LatestAsks
<1>5. LogShape' /\ LatestAsks'
  BY <1>1, <1>4 DEF LogInv, LogShape, LatestAsks
<1>6. RowsAreWanted'
  BY <1>2, <1>3 DEF RowsAreWanted
<1>7. ASSUME shownFor' # Mixed
      PROVE  Runs(logs', cursor', shownFor')
  <2>1. CASE r.purpose # "more"
    <3>1. logs' = a.logs /\ cursor' = a.next /\ shownFor' = r.filter /\ r.after = 0
      BY <1>2, <1>3, <2>1
    <3>2. Runs(a.logs, a.next, r.filter)
      BY <1>2, <3>1 DEF LogInv, AnswersRun
    <3> QED
      BY <3>1, <3>2
  <2>2. CASE r.purpose = "more"
    <3>1. /\ logs' = logs \o a.logs /\ cursor' = a.next /\ shownFor' = r.filter
          /\ shownFor = r.filter /\ shownFor # Mixed /\ cursor # 0 /\ r.after = cursor
      BY <1>2, <1>3, <1>7, <2>2
    <3>2. Runs(logs, cursor, r.filter) /\ Len(log) \in Nat
      BY <3>1, LenProperties DEF LogInv, LogShape, RowsRun
    <3>3. Passes(cursor, r.filter)
      <4>1. logs \in Seq(Of(r.filter)) /\ logs # <<>> /\ cursor = logs[Len(logs)]
        BY <3>1, <3>2 DEF Runs, InOrder, Ends
      <4>2. Len(logs) \in 1 .. Len(logs)
        BY <4>1, EmptySeq
      <4>3. cursor \in Of(r.filter)
        BY <4>1, <4>2, ElementOfSeq
      <4> QED
        BY <4>3 DEF Of
    <3>4. GoesOn(a.logs, a.next, r.filter, cursor)
      BY <1>2, <3>1, <3>3 DEF LogInv, AnswersRun
    <3>5. Runs(logs \o a.logs, a.next, r.filter)
      BY <3>1, <3>2, <3>4, PageIsAppended
    <3> QED
      BY <3>1, <3>5
  <2> QED
    BY <2>1, <2>2
<1>8. RowsRun'
  BY <1>7 DEF RowsRun, Runs, InOrder, Ends, Covers, Of, Has, Passes
<1> QED
  BY <1>1, <1>5, <1>6, <1>8 DEF LogInv

LEMMA LogNextInv == LogInv /\ [LogNext]_logVars => LogInv'
<1> SUFFICES ASSUME LogInv, [LogNext]_logVars PROVE LogInv'
  OBVIOUS
<1> USE DEF shownVars
<1>0. ASSUME UNCHANGED <<log, hidden, belated, wanted, logs, cursor, shownFor, lostPage, requestId,
                        requests, served, strayed>>
      PROVE  LogInv'
  <2>1. LogShape' /\ LatestAsks' /\ RowsAreWanted'
    BY <1>0 DEF LogInv, LogShape, LatestAsks, RowsAreWanted, Seen, Pending
  <2>2. RowsRun'
    BY <1>0 DEF LogInv, RowsRun, Runs, InOrder, Ends, Covers, Of, Has, Passes
  <2>3. AnswersRun'
    BY <1>0 DEF LogInv, AnswersRun, Runs, GoesOn, InOrder, Ends, Covers, Of, Has, Passes
  <2> QED
    BY <2>1, <2>2, <2>3 DEF LogInv
<1>1. CASE Record
  BY <1>1, RecordKeeps
<1>2. CASE Appear
  BY <1>2, AppearKeeps
<1>3. CASE Narrow
  <2>1. PICK f : FetchPage(f, 0, "filter")
    BY <1>3 DEF Narrow
  <2>2. IF "filter" = "more" THEN cursor # 0 /\ 0 = cursor ELSE 0 = 0
    OBVIOUS
  <2> QED
    BY <2>1, <2>2, AskingKeeps
<1>4. CASE LoadMore
  <2>1. cursor # 0 /\ FetchPage(wanted, cursor, "more")
    BY <1>4 DEF LoadMore
  <2> QED
    BY <2>1, AskingKeeps
<1>5. CASE ReloadLog
  <2>1. FetchPage(wanted, 0, "refresh")
    BY <1>5 DEF ReloadLog
  <2>2. IF "refresh" = "more" THEN cursor # 0 /\ 0 = cursor ELSE 0 = 0
    OBVIOUS
  <2> QED
    BY <2>1, <2>2, AskingKeeps
<1>6. CASE ClickRevert
  BY <1>0, <1>6 DEF ClickRevert
<1>7. CASE Reverted
  <2>1. CASE \E f \in LogFilters : FetchPage(f, 0, "refresh")
    <3>1. PICK f : FetchPage(f, 0, "refresh")
      BY <2>1
    <3>2. IF "refresh" = "more" THEN cursor # 0 /\ 0 = cursor ELSE 0 = 0
      OBVIOUS
    <3> QED
      BY <3>1, <3>2, AskingKeeps
  <2>2. CASE ~\E f \in LogFilters : FetchPage(f, 0, "refresh")
    BY <1>0, <1>7, <2>2 DEF Reverted
  <2> QED
    BY <2>1, <2>2
<1>8. CASE ServePage
  BY <1>8, ServingKeeps
<1>9. CASE AnswerPage
  <2>1. PICK a \in served :
            /\ served' = served \ {a}
            /\ \/ /\ Applies(a.to)
                  /\ logs' = IF a.to.purpose = "more" THEN logs \o a.logs ELSE a.logs
                  /\ cursor' = a.next
                  /\ shownFor' = IF a.to.purpose # "more" THEN a.to.filter
                                 ELSE IF a.to.filter = shownFor THEN shownFor ELSE Mixed
               \/ Applies(a.to) /\ lostPage' = TRUE /\ UNCHANGED <<logs, cursor, shownFor>>
               \/ ~Applies(a.to) /\ UNCHANGED <<logs, cursor, shownFor, lostPage>>
            /\ UNCHANGED <<log, hidden, wanted, requestId, requests, clicked, strayed, belated>>
    BY <1>9 DEF AnswerPage
  <2>2. CASE /\ Applies(a.to)
             /\ logs' = IF a.to.purpose = "more" THEN logs \o a.logs ELSE a.logs
             /\ cursor' = a.next
             /\ shownFor' = IF a.to.purpose # "more" THEN a.to.filter
                            ELSE IF a.to.filter = shownFor THEN shownFor ELSE Mixed
    BY <2>1, <2>2, ApplyingKeeps DEF Applies
  <2>3. CASE Applies(a.to) /\ lostPage' = TRUE /\ UNCHANGED <<logs, cursor, shownFor>>
    BY <2>1, <2>3, SetAsideKeeps
  <2>4. CASE ~Applies(a.to) /\ UNCHANGED <<logs, cursor, shownFor, lostPage>>
    BY <2>1, <2>4, SetAsideKeeps DEF Applies
  <2> QED
    BY <2>1, <2>2, <2>3, <2>4
<1>10. CASE UNCHANGED logVars
  BY <1>0, <1>10 DEF logVars
<1> QED
  BY <1>1, <1>2, <1>3, <1>4, <1>5, <1>6, <1>7, <1>8, <1>9, <1>10 DEF LogNext

\* The rows of the audit log are entries of one filter, newest first, without a
\* repetition, that end where the cursor says and leave out none in between
\* but the belated, and with nothing under way, nothing failed and nothing
\* astray that filter is the chosen one: for every log, size of a page and
\* number of requests and reverts.
THEOREM LogAlwaysRunsWithoutGap == LogSpec => []RowsRunWithoutGap
<1>1. LogInv => RowsRunWithoutGap
  <2> SUFFICES ASSUME LogInv, shownFor # Mixed
               PROVE  /\ requests = {} /\ served = {} /\ ~lostPage /\ ~strayed => shownFor = wanted
                      /\ \A i, j \in 1 .. Len(logs) : i < j => logs[i] > logs[j]
                      /\ \A i \in 1 .. Len(logs) : Passes(logs[i], shownFor)
                      /\ logs # <<>> =>
                          /\ cursor \in {0, logs[Len(logs)]}
                          /\ \A n \in 1 .. Len(log) \ (hidden \cup belated) :
                              /\ Passes(n, shownFor)
                              /\ cursor < n /\ n < logs[1]
                              => \E i \in 1 .. Len(logs) : logs[i] = n
    BY DEF RowsRunWithoutGap
  <2>1. requests = {} /\ served = {} /\ ~lostPage /\ ~strayed => shownFor = wanted
    BY DEF LogInv, RowsAreWanted, Pending
  <2>2. Runs(logs, cursor, shownFor)
    BY DEF LogInv, RowsRun
  <2>3. \A i \in 1 .. Len(logs) : logs[i] \in Of(shownFor)
    BY <2>2, ElementOfSeq DEF Runs, InOrder
  <2>4. \A i \in 1 .. Len(logs) : Passes(logs[i], shownFor)
    BY <2>3 DEF Of
  <2>5. /\ \A i, j \in 1 .. Len(logs) : i < j => logs[i] > logs[j]
        /\ logs # <<>> => cursor \in {0, logs[Len(logs)]}
                          /\ Covers(logs, shownFor, cursor, logs[1])
    BY <2>2 DEF Runs, InOrder, Ends
  <2>6. \A n \in 1 .. Len(log) \ (hidden \cup belated) :
            Passes(n, shownFor) => n \in Of(shownFor) \ belated
    BY DEF Of
  <2> QED
    BY <2>1, <2>4, <2>5, <2>6 DEF Covers, Has
<1> QED
  BY <1>1, LogInitInv, LogNextInv, PTL DEF LogSpec
=============================================================================
