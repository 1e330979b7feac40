----------------------------- MODULE ScopeNotice -----------------------------
(***************************************************************************)
(* Telling a user that an administrator moved the account: the notice kept *)
(* in User.pendingScopeChangeNotice, the event that announces it, and the  *)
(* modal that loads, shows and acknowledges it (ScopeChangeNoticeModal     *)
(* over /api/user/scope-change-notice).  Notices are numbered in the order *)
(* of the moves; the tab may be closed and opened again at any time, and   *)
(* an event may be lost: its publication is best-effort, and the tab's     *)
(* stream has gaps while it reconnects.                                    *)
(***************************************************************************)
EXTENDS Integers

CONSTANTS
    MaxMoves,       \* bound: moves of the account
    MaxLoads        \* bound: requests for the notice under way at once

ASSUME NoticeAssumption == MaxMoves \in Nat /\ MaxLoads \in Nat \ {0}

VARIABLES
    moves,      \* moves so far
    noticed,    \* User.pendingScopeChangeNotice: the number of a move, or 0
    announced,  \* the moves whose 'user-notice' event is on its way to the tab
    unheard,    \* history: the moves since the mount whose event was lost
    mounted,    \* the modal is mounted
    displayed,  \* the notice it shows, or 0
    loadsOpen,  \* GETs that have not been served
    answers,    \* their answers on the way back, in any order: how many of each
    ack,        \* handleAcknowledge: "none", "sent", "served" or "refused"
    seen,       \* history: the moves shown so far
    wiped,      \* history: moves whose notice an acknowledgement removed unseen
    excuse      \* history: a load failed, or an answer came after a later one's

noticeVars == <<moves, noticed, announced, unheard, mounted, displayed, loadsOpen, answers, ack,
                seen, wiped, excuse>>

Moves == 1 .. MaxMoves

-----------------------------------------------------------------------------
NoticeTypeOK ==
    /\ moves \in 0 .. MaxMoves /\ noticed \in 0 .. MaxMoves
    /\ announced \subseteq Moves /\ unheard \subseteq Moves
    /\ mounted \in BOOLEAN
    /\ displayed \in 0 .. MaxMoves
    /\ loadsOpen \in 0 .. MaxLoads
    /\ answers \in [0 .. MaxMoves -> 0 .. MaxLoads]
    /\ ack \in {"none", "sent", "served", "refused"}
    /\ seen \subseteq Moves /\ wiped \subseteq Moves
    /\ excuse \in BOOLEAN

NoAnswers == [m \in 0 .. MaxMoves |-> 0]

\* The page opens with the tab's first load.
NoticeInit ==
    /\ moves = 0 /\ noticed = 0 /\ announced = {} /\ unheard = {}
    /\ mounted = TRUE /\ displayed = 0
    /\ loadsOpen = 1 /\ answers = NoAnswers
    /\ ack = "none"
    /\ seen = {} /\ wiped = {}
    /\ excuse = FALSE

-----------------------------------------------------------------------------
\* Mutant: the event is published before the transaction commits, and the load
\* that the tab starts on it still reads the former notice.
MoveAnnounced ==
    /\ moves < MaxMoves
    /\ mounted /\ answers[noticed] < MaxLoads
    /\ moves' = moves + 1
    /\ noticed' = moves'
    /\ answers' = [answers EXCEPT ![noticed] = @ + 1]
    /\ UNCHANGED <<announced, unheard, mounted, displayed, loadsOpen, ack, seen, wiped, excuse>>

\* A move (an edit of the account, of its organization, or the revert of one)
\* commits with its notice, which replaces one that is still pending; only
\* then publishAssignmentNoticeEvent, whose event a mounted tab hears unless
\* it is lost (publishAdminEvent swallows its failures).
Move ==
    /\ moves < MaxMoves
    /\ moves' = moves + 1
    /\ noticed' = moves'
    /\ \/ mounted /\ announced' = announced \cup {moves'} /\ UNCHANGED unheard
       \/ mounted /\ unheard' = unheard \cup {moves'} /\ UNCHANGED announced
       \/ ~mounted /\ UNCHANGED <<announced, unheard>>
    /\ UNCHANGED <<mounted, displayed, loadsOpen, answers, ack, seen, wiped, excuse>>

\* useAppEvents('user-notice'): another fetchNotice.
HearNotice ==
    /\ mounted /\ loadsOpen < MaxLoads
    /\ \E m \in announced : announced' = announced \ {m}
    /\ loadsOpen' = loadsOpen + 1
    /\ UNCHANGED <<moves, noticed, unheard, mounted, displayed, answers, ack, seen, wiped, excuse>>

\* GET: reads the row, or fails on the way: fetchNotice says nothing of it.
ServeNotice ==
    /\ loadsOpen > 0
    /\ loadsOpen' = loadsOpen - 1
    /\ \/ answers[noticed] < MaxLoads
          /\ answers' = [answers EXCEPT ![noticed] = @ + 1] /\ UNCHANGED excuse
       \/ excuse' = TRUE /\ UNCHANGED answers
    /\ UNCHANGED <<moves, noticed, announced, unheard, mounted, displayed, ack, seen, wiped>>

\* `if (data.notice) setNotice(...)`: nothing is taken down by an answer.
ShowNotice ==
    /\ mounted
    /\ \E m \in 0 .. MaxMoves :
        /\ answers[m] > 0
        /\ answers' = [answers EXCEPT ![m] = @ - 1]
        /\ displayed' = IF m = 0 THEN displayed ELSE m
        /\ seen' = IF m = 0 THEN seen ELSE seen \cup {m}
        /\ excuse' = (excuse \/ m \in 1 .. displayed - 1)
    /\ UNCHANGED <<moves, noticed, announced, unheard, mounted, loadsOpen, ack, wiped>>

\* handleAcknowledge: the button of the modal that is shown.
Acknowledge ==
    /\ mounted /\ displayed # 0 /\ ack = "none"
    /\ ack' = "sent"
    /\ UNCHANGED <<moves, noticed, announced, unheard, mounted, displayed, loadsOpen, answers, seen,
                   wiped, excuse>>

\* DELETE clears whatever is pending, or fails before it does.
Dismiss ==
    /\ ack = "sent"
    /\ \/ /\ ack' = "served"
          /\ noticed' = 0
          /\ wiped' = wiped \cup ({noticed} \ (seen \cup {0}))
       \/ ack' = "refused" /\ UNCHANGED <<noticed, wiped>>
    /\ UNCHANGED <<moves, announced, unheard, mounted, displayed, loadsOpen, answers, seen,
                   excuse>>

\* ... its answer: the modal closes and the page is refreshed, or an error is
\* shown in it (also when only the answer was lost).
Dismissed ==
    /\ ack \in {"served", "refused"}
    /\ ack' = "none"
    /\ \/ /\ ack = "served" /\ mounted
          /\ displayed' = 0
          /\ excuse' = (excuse \/ (noticed # 0 /\ noticed = displayed))
       \/ UNCHANGED <<displayed, excuse>>
    /\ UNCHANGED <<moves, noticed, announced, unheard, mounted, loadsOpen, answers, seen, wiped>>

CloseTab ==
    /\ mounted
    /\ mounted' = FALSE
    /\ displayed' = 0 /\ announced' = {} /\ loadsOpen' = 0 /\ answers' = NoAnswers
    /\ UNCHANGED <<moves, noticed, unheard, ack, seen, wiped, excuse>>

\* The effect of the mount loads the notice that waits.  What the closed tab
\* acknowledged has been served by then.
OpenTab ==
    /\ ~mounted /\ ack = "none"
    /\ mounted' = TRUE
    /\ loadsOpen' = 1
    /\ excuse' = FALSE /\ unheard' = {}
    /\ UNCHANGED <<moves, noticed, announced, displayed, answers, ack, seen, wiped>>

NoticeNext ==
    \/ Move \/ HearNotice \/ ServeNotice \/ ShowNotice
    \/ Acknowledge \/ Dismiss \/ Dismissed
    \/ CloseTab \/ OpenTab

NoticeSpec == NoticeInit /\ [][NoticeNext]_noticeVars

-----------------------------------------------------------------------------
NoticeQuiet == mounted /\ announced = {} /\ loadsOpen = 0 /\ answers = NoAnswers /\ ack = "none"

\* A tab with nothing under way shows the notice that waits for its user: the
\* event follows the commit and the modal loads again for every event.  Not
\* so when the event of that notice was lost, after a failed load, or when an
\* acknowledgement was answered after the next notice had been shown: then
\* the next mount shows it.
WaitingNoticeIsShown ==
    NoticeQuiet /\ ~excuse /\ noticed \notin unheard => noticed \in {0, displayed}

\* "So it's never missed": a notice is only taken away once it was shown.  An
\* acknowledgement of the notice on screen clears one that arrived since.
NeverMissed == wiped = {}
=============================================================================
