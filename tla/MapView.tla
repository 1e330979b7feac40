------------------------------- MODULE MapView -------------------------------
(***************************************************************************)
(* The map page (AlertsMapView.tsx): the same alerts as pins on the map    *)
(* and as cards in the lists of active and of archived ones, each of the   *)
(* three behind filters of its own, over rows that a refresh of the page   *)
(* replaces at any time.                                                   *)
(***************************************************************************)
EXTENDS Integers, FiniteSets

CONSTANTS
    MapAlerts,      \* alerts of the page
    KindOf,         \* Alert.kind: "ALERT" or "EVENT"
    CategoryOf,     \* Alert.category; the two kinds have none in common
    SeverityOf,     \* Alert.severity
    Recent,         \* the alerts whose period meets the last day
    Hits,           \* the alerts a text in a search field matches
    Firms,          \* names of organizations
    Any             \* "all"

VARIABLES
    rows,       \* initialAlerts: status and the author's organization
    kind,       \* view
    onMap,      \* the map's filters
    inList,     \* the filters of the two lists
    card,       \* history: the card gone to, until its list's filters change
    pin         \* focusedAlertId, until the map's filters or the alert change

mapVars == <<rows, kind, onMap, inList, card, pin>>

-----------------------------------------------------------------------------
Kinds == {"ALERT", "EVENT"}
Categories(k) == {CategoryOf[a] : a \in {x \in MapAlerts : KindOf[x] = k}}
Severities == {SeverityOf[a] : a \in MapAlerts}
NoAlert == Any

\* An alert of the page: is it RESOLVED or CANCELLED, and who reported it.
Row == [archived : BOOLEAN, org : Firms]
Absent == [archived |-> TRUE, org |-> Any]

ListFilter == [search : BOOLEAN, recent : BOOLEAN,
               category : {Any} \cup Categories("ALERT") \cup Categories("EVENT"),
               org : {Any} \cup Firms]
MapFilter == [search : BOOLEAN, status : {"active", "archived", "all"}, recent : BOOLEAN,
              severities : SUBSET Severities, categories : SUBSET Categories("EVENT")]
Lists == {"active", "archive"}

MapTypeOK ==
    /\ rows \in [MapAlerts -> Row \cup {Absent}]
    /\ kind \in Kinds
    /\ onMap \in MapFilter
    /\ inList \in [Lists -> ListFilter]
    /\ card \in MapAlerts \cup {NoAlert}
    /\ pin \in MapAlerts \cup {NoAlert}

Present(a) == rows[a] # Absent
Archived(a) == rows[a].archived
ListOf(a) == IF Archived(a) THEN "archive" ELSE "active"

AllPins == [search |-> FALSE, status |-> "active", recent |-> FALSE,
            severities |-> Severities, categories |-> Categories("EVENT")]
AllCards == [search |-> FALSE, recent |-> FALSE, category |-> Any, org |-> Any]

MapInit ==
    /\ rows \in [MapAlerts -> Row]
    /\ kind = "ALERT"
    /\ onMap = AllPins
    /\ inList = [active |-> AllCards, archive |-> [AllCards EXCEPT !.recent = TRUE]]
    /\ card = NoAlert /\ pin = NoAlert

-----------------------------------------------------------------------------
\* kindAlerts, activeBase, archivedBase.
Base(list) == {a \in MapAlerts : Present(a) /\ KindOf[a] = kind /\ ListOf(a) = list}

\* availableActiveOrgs, availableArchiveOrgs.
AvailableOrgs(list) == {rows[a].org : a \in Base(list)}

\* activeAlerts, archivedAlerts.
Cards(list) == {a \in Base(list) :
    /\ inList[list].recent => a \in Recent
    /\ inList[list].category \in {Any, CategoryOf[a]}
    /\ inList[list].org \in {Any, rows[a].org}
    /\ inList[list].search => a \in Hits}

\* mapAlerts
Pins == {a \in MapAlerts :
    /\ Present(a) /\ KindOf[a] = kind
    /\ onMap.status = "active" => ~Archived(a)
    /\ onMap.status = "archived" => Archived(a)
    /\ onMap.recent => a \in Recent
    /\ IF kind = "EVENT" THEN CategoryOf[a] \in onMap.categories
       ELSE SeverityOf[a] \in onMap.severities
    /\ onMap.search => a \in Hits}

-----------------------------------------------------------------------------
\* router.refresh: the rows change, the state of the page does not.
Refresh == \E a \in MapAlerts :
    /\ \E row \in Row \cup {Absent} : row # rows[a] /\ rows' = [rows EXCEPT ![a] = row]
    /\ card' = IF card = a THEN NoAlert ELSE card
    /\ pin' = IF pin = a THEN NoAlert ELSE pin
    /\ UNCHANGED <<kind, onMap, inList>>

\* A filter of one of the lists.
FilterList == \E list \in Lists :
    /\ \/ inList' = [inList EXCEPT ![list].search = ~@]
       \/ inList' = [inList EXCEPT ![list].recent = ~@]
       \/ \E c \in Categories(kind) \cup {Any} : inList' = [inList EXCEPT ![list].category = c]
       \/ \E o \in AvailableOrgs(list) \cup {Any} : inList' = [inList EXCEPT ![list].org = o]
    /\ card' = IF card # NoAlert /\ ListOf(card) = list THEN NoAlert ELSE card
    /\ UNCHANGED <<rows, kind, onMap, pin>>

\* toggleMapSeverity, toggleMapCategory.
Toggle(set, value) == IF value \in set THEN set \ {value} ELSE set \cup {value}

\* A filter of the map; the chips are those of the view.
FilterMap ==
    /\ \/ onMap' = [onMap EXCEPT !.search = ~@]
       \/ \E s \in {"active", "archived", "all"} : onMap' = [onMap EXCEPT !.status = s]
       \/ onMap' = [onMap EXCEPT !.recent = ~@]
       \/ /\ kind = "ALERT"
          /\ \E s \in Severities : onMap' = [onMap EXCEPT !.severities = Toggle(@, s)]
       \/ /\ kind = "EVENT"
          /\ \E c \in Categories("EVENT") : onMap' = [onMap EXCEPT !.categories = Toggle(@, c)]
    /\ pin' = NoAlert
    /\ UNCHANGED <<rows, kind, inList, card>>

\* switchView
SwitchView ==
    /\ kind' \in Kinds \ {kind}
    /\ inList' = [l \in Lists |-> [inList[l] EXCEPT !.category = Any, !.org = Any]]
    /\ onMap' = AllPins
    /\ card' = NoAlert /\ pin' = NoAlert
    /\ UNCHANGED rows

\* handleFocusOnMap, from a card.
FocusOnMap == \E a \in Cards("active") \cup Cards("archive") :
    /\ onMap' = AllPins
    /\ pin' = a
    /\ UNCHANGED <<rows, kind, inList, card>>

\* Mutant: the time range stays as it is.
GoToCardKeepsTime == \E a \in Pins :
    /\ inList' = [inList EXCEPT ![ListOf(a)] = [AllCards EXCEPT
                                !.recent = inList[ListOf(a)].recent]]
    /\ card' = a
    /\ UNCHANGED <<rows, kind, onMap, pin>>

\* handleGoToCard, from a pin.
GoToCard == \E a \in Pins :
    /\ inList' = [inList EXCEPT ![ListOf(a)] = AllCards]
    /\ card' = a
    /\ UNCHANGED <<rows, kind, onMap, pin>>

MapNext ==
    \/ Refresh \/ FilterList \/ FilterMap \/ SwitchView
    \/ FocusOnMap \/ GoToCard

MapSpec == MapInit /\ [][MapNext]_mapVars

-----------------------------------------------------------------------------
(* Properties. *)

\* A card gone to from its pin is in its list, and the pin of an active alert
\* shown from its card is on the map, until the user changes the filters there
\* or the alert itself changes (AlertsMapView.tsx:402-438).
NavigationArrives ==
    /\ card # NoAlert => card \in Cards(ListOf(card))
    /\ pin # NoAlert /\ ~Archived(pin) => pin \in Pins

\* A list is never narrowed to a category its view does not have, which would
\* leave it empty with no way to see why (AlertsMapView.tsx:388-396).
CategoriesFitView ==
    \A l \in Lists : inList[l].category \in Categories(kind) \cup {Any}

\* Nothing that was chosen earlier hides what the user is shown now.
FiltersLetThrough == NavigationArrives /\ CategoriesFitView
=============================================================================
