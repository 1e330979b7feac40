--------------------------- MODULE AlertSubmission ---------------------------
(***************************************************************************)
(* Publishing an alert with its list of needs (AlertForm.handleSubmit over *)
(* lib/apiClient.ts): one POST for the alert, then one for each need, from *)
(* a tab whose requests and answers may get lost.  The tables at the other *)
(* end are the routes' business (ResourceLedger): a request is stored or   *)
(* refused.                                                                *)
(***************************************************************************)
EXTENDS Integers

CONSTANTS
    DraftRows,      \* rows the author may add
    MaxPosts        \* bound: submissions that reach POST /api/alerts

ASSUME PostsAreCounted == MaxPosts \in Nat

VARIABLES
    draft,      \* the form: "none", "blank", "partial" or "filled" per row
    visible,    \* the form is on screen
    phase,      \* handleSubmit: "open", "posting", "adding", "reported" or "closed"
    todo,       \* filled rows of this submission not sent yet
    asked,      \* history: the filled rows of this submission
    needFailures,   \* rows whose request failed
    created,    \* createdAlertId is known
    alerts,     \* bounded: alerts stored by this form
    lostAnswers,    \* history: alerts stored whose answer was lost
    stored,     \* needs stored, per row
    posts       \* bounded: POST /api/alerts so far

alertFormVars == <<draft, visible, phase, todo, asked, needFailures, created, alerts, lostAnswers,
                   stored, posts>>

-----------------------------------------------------------------------------
AlertFormTypeOK ==
    /\ draft \in [DraftRows -> {"none", "blank", "partial", "filled"}]
    /\ visible \in BOOLEAN
    /\ phase \in {"open", "posting", "adding", "reported", "closed"}
    /\ todo \subseteq DraftRows /\ asked \subseteq DraftRows /\ needFailures \subseteq DraftRows
    /\ created \in BOOLEAN
    /\ alerts \in 0 .. MaxPosts /\ lostAnswers \in 0 .. MaxPosts
    /\ stored \in [DraftRows -> 0 .. 1]
    /\ posts \in 0 .. MaxPosts

AlertFormInit ==
    /\ draft = [r \in DraftRows |-> "none"]
    /\ visible = TRUE
    /\ phase = "open"
    /\ todo = {} /\ asked = {} /\ needFailures = {}
    /\ created = FALSE
    /\ alerts = 0 /\ lostAnswers = 0
    /\ stored = [r \in DraftRows |-> 0]
    /\ posts = 0

-----------------------------------------------------------------------------
\* addNeedRow, updateNeedRow, removeNeedRow: also while a submission runs,
\* which has its own copy of the rows.
EditDraft ==
    /\ visible
    /\ \E r \in DraftRows, content \in {"none", "blank", "partial", "filled"} :
        draft' = [draft EXCEPT ![r] = content]
    /\ UNCHANGED <<visible, phase, todo, asked, needFailures, created, alerts, lostAnswers, stored, posts>>

\* Mutant: the alert that is there already is forgotten.
SubmitAgain ==
    /\ visible /\ phase \in {"open", "reported"}
    /\ \A r \in DraftRows : draft[r] # "partial"
    /\ posts < MaxPosts
    /\ phase' = "posting"
    /\ asked' = {r \in DraftRows : draft[r] = "filled"}
    /\ todo' = asked'
    /\ needFailures' = {}
    /\ posts' = posts + 1
    /\ UNCHANGED <<draft, visible, created, alerts, lostAnswers, stored>>

\* handleSubmit, up to its first request.  The button is disabled meanwhile.
SubmitAlert ==
    /\ visible /\ phase = "open" /\ ~created
    /\ \A r \in DraftRows : draft[r] # "partial"
    /\ posts < MaxPosts
    /\ phase' = "posting"
    /\ asked' = {r \in DraftRows : draft[r] = "filled"}
    /\ todo' = asked'
    /\ needFailures' = {}
    /\ posts' = posts + 1
    /\ UNCHANGED <<draft, visible, created, alerts, lostAnswers, stored>>

\* ... its early return: the button only closes the form now.
CloseReported ==
    /\ visible /\ phase = "reported" /\ created
    /\ phase' = "closed"
    /\ visible' = FALSE
    /\ UNCHANGED <<draft, todo, asked, needFailures, created, alerts, lostAnswers, stored, posts>>

\* onCancel: the form goes, a submission under way does not stop.
CancelForm ==
    /\ visible
    /\ visible' = FALSE
    /\ phase' = IF phase \in {"posting", "adding"} THEN phase ELSE "closed"
    /\ UNCHANGED <<draft, todo, asked, needFailures, created, alerts, lostAnswers, stored, posts>>

\* POST /api/alerts: answered, refused or lost on the way, or only its answer
\* lost.  apiSend returns in every case, and tells the last two apart from a
\* refusal, not from each other.
PostAlert ==
    /\ phase = "posting"
    /\ \/ /\ alerts' = alerts + 1
          /\ created' = TRUE
          /\ phase' = "adding"
          /\ UNCHANGED lostAnswers
       \/ /\ alerts' = alerts + 1
          /\ lostAnswers' = lostAnswers + 1
          /\ phase' = "open"
          /\ UNCHANGED created
       \/ phase' = "open" /\ UNCHANGED <<alerts, lostAnswers, created>>
    /\ UNCHANGED <<draft, visible, todo, asked, needFailures, stored, posts>>

\* POST /api/alerts/[id]/needs for one row; a failure is noted, not retried.
PostNeed ==
    /\ phase = "adding"
    /\ \E r \in todo :
        /\ todo' = todo \ {r}
        /\ \/ stored' = [stored EXCEPT ![r] = @ + 1] /\ UNCHANGED needFailures
           \/ /\ stored' \in {stored, [stored EXCEPT ![r] = @ + 1]}
              /\ needFailures' = needFailures \cup {r}
    /\ UNCHANGED <<draft, visible, phase, asked, created, alerts, lostAnswers, posts>>

\* The end of handleSubmit: the form goes, or stays for its message.
FinishSubmit ==
    /\ phase = "adding" /\ todo = {}
    /\ phase' = IF needFailures = {} THEN "closed" ELSE "reported"
    /\ visible' = (visible /\ needFailures # {})
    /\ UNCHANGED <<draft, todo, asked, needFailures, created, alerts, lostAnswers, stored, posts>>

AlertFormNext ==
    \/ EditDraft \/ SubmitAlert \/ CloseReported \/ CancelForm
    \/ PostAlert \/ PostNeed \/ FinishSubmit

AlertFormSpec == AlertFormInit /\ [][AlertFormNext]_alertFormVars

-----------------------------------------------------------------------------
(* Properties. *)

\* However often the author presses the button, one alert is published, but
\* for those whose answer was lost (AlertForm.tsx:121-124, 278-284).
OneAlertPublished == alerts <= lostAnswers + (IF created THEN 1 ELSE 0) /\ alerts - lostAnswers <= 1

\* The message of a partly published alert is the whole truth: each filled row
\* it does not name is stored; and no row is stored twice, lost answers
\* included (AlertForm.tsx:330-355).
RowsAccountedFor ==
    /\ \A r \in DraftRows : stored[r] <= 1
    /\ created /\ phase \in {"reported", "closed"} =>
        \A r \in asked \ needFailures : stored[r] = 1

\* One alert, and every need of it once or by name in the message.
PublishedOnce == OneAlertPublished /\ RowsAccountedFor
=============================================================================
