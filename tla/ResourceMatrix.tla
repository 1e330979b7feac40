---------------------------- MODULE ResourceMatrix ----------------------------
(***************************************************************************)
(* The matrix of available resources in one coordinator's tab              *)
(* (ResourceMatrixView over GET /api/resources/matrix) and the drawer that *)
(* lists what one of its cells adds up (ResourceMatrixCellDrawer over      *)
(* GET /api/resources).  The two load on their own: the matrix for every   *)
(* event, a change of the holder and a save; the drawer when it is opened  *)
(* and for a save.  One cell; what a holder has there is a number.  A tab   *)
(* does not hear of every change: an allocation and a return announce the  *)
(* gmina of their alert and not the holder's, and a publication may fail.  *)
(***************************************************************************)
EXTENDS Integers, Functions

CONSTANTS
    Holders,        \* organizations that declare resources
    AnyHolder,      \* "Posiadacz" is not chosen
    MaxStock,       \* bound: what a holder has available in the cell
    MaxStockChanges,    \* bound: changes of the stock
    MaxLoadsEach    \* bound: loads of the matrix, and of the drawer

VARIABLES
    stock,      \* what each holder has available
    rumours,    \* 'resources' events on their way to the tab
    holder,     \* selectedOrganizationId
    figure,     \* the cell: its sum in the table and in the drawer's header
    drawer,     \* "closed", or what it lists: "loading" or "listed"
    listing,    \* its rows: what each holder has, 0 for those it leaves out
    loads,      \* requests under way: kind, number, holder, what was read
    lastLoad,   \* number of the latest request of each kind
    shownLoad,  \* ... and of the one whose answer was applied last
    inSave,     \* a save of this tab that is stored and not yet answered: from the
                \* drawer that is open, from "elsewhere", or "no"
    savedFor,   \* ... and the holder that was chosen when it was sent
    stockChanges,   \* changes so far
    outdone,    \* history: another's change came after the drawer's last load
    astray,     \* history: the latest load of the matrix was for such a holder, which
                \* is no longer chosen
    missed      \* history: a change the tab does not hear of came after the latest load
                \* of the matrix was read

matrixVars == <<stock, rumours, holder, figure, drawer, listing, loads, lastLoad, shownLoad,
                inSave, savedFor, stockChanges, outdone, astray, missed>>

LoadKinds == {"matrix", "rows"}
Choices == Holders \cup {AnyHolder}
Nobody == [h \in Holders |-> 0]
NotRead == [h \in Holders |-> MaxStock + 1]

\* Both queries: the declarations of the holder asked for, or of everyone.
InScope(of, chosen) ==
    [h \in Holders |-> IF chosen \in {h, AnyHolder} THEN of[h] ELSE 0]

Total(of) == FoldFunction(+, 0, of)

-----------------------------------------------------------------------------
MatrixTypeOK ==
    /\ stock \in [Holders -> 0 .. MaxStock]
    /\ rumours \in 0 .. MaxStockChanges
    /\ holder \in Choices
    /\ figure \in Nat
    /\ drawer \in {"closed", "loading", "listed"}
    /\ listing \in [Holders -> 0 .. MaxStock]
    /\ \A r \in loads : /\ r.kind \in LoadKinds /\ r.number \in 1 .. MaxLoadsEach
                          /\ r.holder \in Choices
                          /\ r.read \in [Holders -> 0 .. MaxStock + 1]
    /\ lastLoad \in [LoadKinds -> 0 .. MaxLoadsEach] /\ shownLoad \in [LoadKinds -> 0 .. MaxLoadsEach]
    /\ inSave \in {"no", "drawer", "elsewhere"}
    /\ stockChanges \in 0 .. MaxStockChanges
    /\ savedFor \in Choices
    /\ outdone \in BOOLEAN /\ astray \in BOOLEAN /\ missed \in BOOLEAN

\* The page comes with the matrix of everyone's resources.
MatrixInit ==
    /\ stock \in [Holders -> 0 .. MaxStock]
    /\ rumours = 0
    /\ holder = AnyHolder
    /\ figure = Total(stock)
    /\ drawer = "closed" /\ listing = Nobody
    /\ loads = {}
    /\ lastLoad = [k \in LoadKinds |-> 0] /\ shownLoad = [k \in LoadKinds |-> 0]
    /\ inSave = "no"
    /\ savedFor = AnyHolder
    /\ stockChanges = 0
    /\ outdone = FALSE /\ astray = FALSE /\ missed = FALSE

-----------------------------------------------------------------------------
Load(kinds, chosen) ==
    /\ \A k \in kinds : lastLoad[k] < MaxLoadsEach
    /\ lastLoad' = [k \in LoadKinds |-> IF k \in kinds THEN lastLoad[k] + 1 ELSE lastLoad[k]]
    /\ loads' = loads \cup {[kind |-> k, number |-> lastLoad'[k], holder |-> chosen,
                                 read |-> NotRead] : k \in kinds}

\* A declaration is stored, edited, lent or deleted and its event published,
\* which the tab hears (rumours) or not: the event is lost, or names a gmina
\* other than the tab's, as for what is lent to an alert of another gmina.
StockChanges ==
    /\ stockChanges < MaxStockChanges
    /\ stockChanges' = stockChanges + 1
    /\ \E h \in Holders, q \in 0 .. MaxStock : q # stock[h] /\ stock' = [stock EXCEPT ![h] = q]
    /\ \/ rumours' = rumours + 1 /\ UNCHANGED missed
       \/ missed' = TRUE /\ UNCHANGED rumours

OthersChange ==
    /\ StockChanges
    /\ outdone' = (outdone \/ drawer # "closed")
    /\ UNCHANGED <<holder, figure, drawer, listing, loads, lastLoad, shownLoad, inSave,
                   savedFor, astray>>

\* Mutant: the handler of the first render, with the holder of that time.
HearStockOfAll ==
    /\ rumours > 0
    /\ rumours' = rumours - 1
    /\ Load({"matrix"}, AnyHolder)
    /\ astray' = FALSE
    /\ UNCHANGED <<stock, holder, figure, drawer, listing, shownLoad, inSave, savedFor,
                   stockChanges, outdone, missed>>

\* useAppEvents('resources'): the matrix is loaded again, the drawer is not.
HearStock ==
    /\ rumours > 0
    /\ rumours' = rumours - 1
    /\ Load({"matrix"}, holder)
    /\ astray' = FALSE
    /\ UNCHANGED <<stock, holder, figure, drawer, listing, shownLoad, inSave, savedFor,
                   stockChanges, outdone, missed>>

\* handleOrganizationChange, and the refresh button (the same holder again).
\* The drawer covers both.
ChooseHolder ==
    /\ drawer = "closed"
    /\ holder' \in Choices
    /\ Load({"matrix"}, holder')
    /\ astray' = FALSE
    /\ UNCHANGED <<stock, rumours, figure, drawer, listing, shownLoad, inSave, savedFor,
                   stockChanges, outdone, missed>>

\* A click on the cell mounts the drawer, whose effect loads the rows.
OpenCell ==
    /\ drawer = "closed"
    /\ drawer' = "loading" /\ listing' = Nobody
    /\ Load({"rows"}, holder)
    /\ UNCHANGED <<stock, rumours, holder, figure, shownLoad, inSave, savedFor, stockChanges,
                   outdone, astray, missed>>

\* Closing it unmounts it: an answer on the way to it is dropped.
CloseCell ==
    /\ drawer # "closed"
    /\ drawer' = "closed" /\ listing' = Nobody /\ outdone' = FALSE
    /\ loads' = {r \in loads : r.kind = "matrix"}
    /\ inSave' = IF inSave = "drawer" THEN "elsewhere" ELSE inSave
    /\ UNCHANGED <<stock, rumours, holder, figure, lastLoad, shownLoad, savedFor, stockChanges,
                   astray, missed>>

\* A row of the drawer is edited or deleted, or a resource declared beside the
\* closed one: stored ...
StoreSave ==
    /\ inSave = "no" /\ drawer # "loading"
    /\ StockChanges
    /\ inSave' = IF drawer = "listed" THEN "drawer" ELSE "elsewhere"
    /\ savedFor' = holder
    /\ UNCHANGED <<holder, figure, drawer, listing, loads, lastLoad, shownLoad, outdone, astray>>

\* ... and answered: handleEditSaved and handleDeleteRow load the rows of their
\* own drawer, and onChanged and onCreated the matrix, all for the holder of
\* the render the save was sent from.
AnswerSave ==
    /\ inSave # "no"
    /\ inSave' = "no"
    /\ Load(IF inSave = "drawer" THEN LoadKinds ELSE {"matrix"}, savedFor)
    /\ astray' = (savedFor # holder)
    /\ UNCHANGED <<stock, rumours, holder, figure, drawer, listing, shownLoad, savedFor,
                   stockChanges, outdone, missed>>

\* GET .../matrix sums in the database, GET /api/resources lists.
ServeLoad ==
    /\ \E r \in loads :
        /\ r.read = NotRead
        /\ loads' = (loads \ {r}) \cup {[r EXCEPT !.read = InScope(stock, r.holder)]}
        /\ outdone' = (outdone /\ ~(r.kind = "rows" /\ r.number = lastLoad["rows"]))
        /\ missed' = (missed /\ ~(r.kind = "matrix" /\ r.number = lastLoad["matrix"]))
    /\ UNCHANGED <<stock, rumours, holder, figure, drawer, listing, lastLoad, shownLoad, inSave,
                   savedFor, stockChanges, astray>>

\* An answer is applied whenever it comes; a failure leaves what is shown.
AnswerLoad ==
    /\ \E r \in loads :
        /\ loads' = loads \ {r}
        /\ \/ /\ r.read # NotRead
              /\ shownLoad' = [shownLoad EXCEPT ![r.kind] = r.number]
              /\ \/ r.kind = "matrix" /\ figure' = Total(r.read) /\ UNCHANGED <<drawer, listing>>
                 \/ r.kind = "rows" /\ listing' = r.read /\ drawer' = "listed" /\ UNCHANGED figure
           \/ UNCHANGED <<shownLoad, figure, drawer, listing>>
    /\ UNCHANGED <<stock, rumours, holder, lastLoad, inSave, savedFor, stockChanges, outdone,
                   astray, missed>>

MatrixNext ==
    \/ OthersChange \/ HearStock \/ ChooseHolder \/ OpenCell \/ CloseCell
    \/ StoreSave \/ AnswerSave \/ ServeLoad \/ AnswerLoad

MatrixSpec == MatrixInit /\ [][MatrixNext]_matrixVars

-----------------------------------------------------------------------------
\* Nothing is under way, and what is shown is the answer to the latest load.
MatrixQuiet == rumours = 0 /\ loads = {} /\ inSave = "no"
IsLatest(kind) == shownLoad[kind] = lastLoad[kind]

\* The figure in the table is what the chosen holder has now, whoever changed
\* it and however the holder was chosen meanwhile, once nothing changed unheard
\* since the matrix was read (missed).  There is no guard against answers that
\* overtake one another, hence IsLatest; and a save that is answered after the
\* holder changed loads the matrix of the former one (astray).
FigureIsCurrent ==
    MatrixQuiet /\ IsLatest("matrix") /\ ~astray /\ ~missed =>
        figure = Total(InScope(stock, holder))

\* The rows of the drawer add up to the figure in its header, loaded by another
\* query at another time.  No event reloads them: after another's change
\* (outdone) the header moves on alone.
BreakdownAddsUp ==
    /\ MatrixQuiet /\ drawer = "listed"
    /\ IsLatest("matrix") /\ IsLatest("rows") /\ ~outdone /\ ~astray /\ ~missed
    => figure = Total(listing)

\* The table and the drawer over it show the stock of the chosen holder.
CellIsCurrent == FigureIsCurrent /\ BreakdownAddsUp
=============================================================================
