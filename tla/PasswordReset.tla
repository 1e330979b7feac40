---------------------------- MODULE PasswordReset ----------------------------
(***************************************************************************)
(* A forgotten password: requests for a link (ForgotPasswordForm over      *)
(* api/auth/forgot-password, with the attempt counter of attemptTracker.ts *)
(* and the captcha it turns on) and the use of a link                      *)
(* (api/auth/reset-password).  One account; several clients ask at once,   *)
(* one of them is the form that is followed into the browser.  The second  *)
(* counter, of the client's address, is kept in the same way and appears   *)
(* only as a captcha that may be asked for early.                          *)
(***************************************************************************)
EXTENDS Integers, FiniteSets

CONSTANTS
    Askers,         \* clients that ask for a resetLink
    Form,           \* the one whose form is modelled
    Threshold,      \* CAPTCHA_ACCOUNT_ATTEMPT_THRESHOLD
    MaxAttempts,    \* bound: attempts counted
    MaxSolves,      \* bound: captchas solved in the form
    Links,          \* links that may be sent
    Uses            \* forms that use a resetLink

ASSUME FormAsks == Form \in Askers
ASSUME ResetAssumption ==
    /\ IsFiniteSet(Askers) /\ Links # {}
    /\ Threshold \in Nat \ {0}
    /\ MaxAttempts \in Nat /\ MaxSolves \in Nat

VARIABLES
    attempts,   \* attempts:pwd-reset-account:<email>: its count, 0 without key
    expires,    \* the key has an expiry
    ask,        \* ask[a]: phase, the count it saw, the captcha token it sent
    required,   \* captcha.required of the form: the widget is shown
    widget,     \* captcha.token of the form, or 0; tokens are numbered
    solves,     \* captchas solved so far
    spent,      \* tokens Google has verified
    resetLink,  \* passwordResetToken: "unsent", "open", "used"
    stale,      \* links whose expiresAt has passed
    use,        \* use[u]: phase, the link, what the form was told
    unchallenged,   \* history: attempts of this key that needed no captcha
    changedBy,  \* history: who changed the password with which link
    blind,      \* history: a call to Redis failed, or its caller died
    lostReply   \* history: an answer to the form was lost

resetVars == <<attempts, expires, ask, required, widget, solves, spent, resetLink, stale, use,
               unchallenged, changedBy, blind, lostReply>>

askVars == <<attempts, expires, ask, required, widget, solves, spent, unchallenged, blind,
             lostReply>>
useVars == <<stale, use, changedBy>>

-----------------------------------------------------------------------------
NotAsking == [phase |-> "idle", saw |-> 0, token |-> 0]
NotUsing == [phase |-> "idle", link |-> CHOOSE l \in Links : TRUE, told |-> "nothing"]

ResetTypeOK ==
    /\ attempts \in 0 .. MaxAttempts /\ expires \in BOOLEAN
    /\ ask \in [Askers -> [phase : {"idle", "record", "expire", "gate", "send", "passed",
                                     "challenged"},
                           saw : 0 .. MaxAttempts, token : 0 .. MaxSolves]]
    /\ required \in BOOLEAN
    /\ widget \in 0 .. MaxSolves /\ solves \in 0 .. MaxSolves
    /\ spent \subseteq 1 .. MaxSolves
    /\ resetLink \in [Links -> {"unsent", "open", "used"}]
    /\ stale \subseteq Links
    /\ use \in [Uses -> [phase : {"idle", "hashing", "answer"}, link : Links,
                         told : {"nothing", "changed", "invalid"}]]
    /\ unchallenged \in 0 .. MaxAttempts
    /\ changedBy \subseteq Uses \X Links
    /\ blind \in BOOLEAN /\ lostReply \in BOOLEAN

ResetInit ==
    /\ attempts = 0 /\ expires = FALSE
    /\ ask = [a \in Askers |-> NotAsking]
    /\ required = FALSE /\ widget = 0 /\ solves = 0 /\ spent = {}
    /\ resetLink \in [Links -> {"unsent", "open"}]
    /\ stale = {}
    /\ use = [u \in Uses |-> NotUsing]
    /\ unchallenged = 0 /\ changedBy = {}
    /\ blind = FALSE /\ lostReply = FALSE

-----------------------------------------------------------------------------
Goes(a, phase) == ask' = [ask EXCEPT ![a].phase = phase]

\* getAttemptCount: 0 when Redis does not answer.
Counted == {attempts, 0}

\* POST, up to getAttemptCount; a blocked address and a limiter end the request
\* before that, uncounted and with an answer like any other.  The form sends the
\* token its widget holds, is disabled until the answer, and is not sent without
\* a token once one is required.
Ask(a) ==
    /\ ask[a].phase = "idle"
    /\ a = Form /\ required => widget # 0
    /\ \E saw \in Counted, phase \in {"record", "passed"} :
        /\ ask' = [ask EXCEPT ![a] = [phase |-> phase, saw |-> saw,
                                      token |-> IF a = Form THEN widget ELSE 0]]
        /\ blind' = (blind \/ saw # attempts)
    /\ UNCHANGED <<attempts, expires, required, widget, solves, spent, unchallenged, lostReply,
                   resetLink, useVars>>

\* Mutant: the threshold is passed one attempt late.
NeedsCaptchaLate(saw) == saw > Threshold

\* Whether the attempts before this one call for a captcha.
NeedsCaptcha(saw) == saw >= Threshold

\* recordAttempt: INCR.  The first one has to set the expiry.
Increment(a) ==
    /\ ask[a].phase = "record" /\ attempts < MaxAttempts
    /\ \/ /\ attempts' = attempts + 1
          /\ unchallenged' = unchallenged + (IF NeedsCaptcha(ask[a].saw) THEN 0 ELSE 1)
          /\ Goes(a, IF attempts' = 1 THEN "expire" ELSE "gate")
          /\ UNCHANGED blind
       \/ Goes(a, "gate") /\ blind' = TRUE /\ UNCHANGED <<attempts, unchallenged>>
    /\ UNCHANGED <<expires, required, widget, solves, spent, lostReply, resetLink, useVars>>

\* ... EXPIRE; it fails, or the process ends between the two.
SetExpiry(a) ==
    /\ ask[a].phase = "expire"
    /\ \/ expires' = TRUE /\ Goes(a, "gate") /\ UNCHANGED blind
       \/ Goes(a, "gate") /\ blind' = TRUE /\ UNCHANGED expires
       \/ ask' = [ask EXCEPT ![a] = NotAsking] /\ blind' = TRUE /\ UNCHANGED expires
    /\ UNCHANGED <<attempts, required, widget, solves, spent, unchallenged, lostReply, resetLink,
                   useVars>>

\* WINDOW_SECONDS are over.
ExpireAttempts ==
    /\ expires
    /\ attempts' = 0 /\ expires' = FALSE /\ unchallenged' = 0
    /\ UNCHANGED <<ask, required, widget, solves, spent, blind, lostReply, resetLink, useVars>>

\* verifyCaptcha: Google accepts a token once; a failed call refuses it.
Gate(a) ==
    /\ ask[a].phase = "gate"
    /\ LET token == ask[a].token IN
        \/ ~NeedsCaptcha(ask[a].saw) /\ Goes(a, "send") /\ UNCHANGED spent
        \/ a = Form /\ token \in (1 .. MaxSolves) \ spent
           /\ Goes(a, "send") /\ spent' = spent \cup {token}
        \/ a # Form /\ Goes(a, "send") /\ UNCHANGED spent     \* with a captcha of its own
        \/ Goes(a, "challenged") /\ spent' = spent \cup ({token} \ {0})
    /\ UNCHANGED <<attempts, expires, required, widget, solves, unchallenged, blind, lostReply,
                   resetLink, useVars>>

\* The account is looked up and a link created, or neither; the same answer.
SendLink(a) ==
    /\ ask[a].phase = "send"
    /\ \/ \E l \in Links : resetLink[l] = "unsent" /\ resetLink' = [resetLink EXCEPT ![l] = "open"]
       \/ UNCHANGED resetLink
    /\ Goes(a, "passed")
    /\ UNCHANGED <<attempts, expires, required, widget, solves, spent, unchallenged, blind,
                   lostReply, useVars>>

\* captcha.require() and captcha.reset() of the form's gate.
RequiredAfter(a) == required \/ ask[a].phase = "challenged"
TokenAfter(a) == IF ask[a].phase = "challenged" \/ ask[a].token # 0 THEN 0 ELSE widget

\* The answer.  handleSubmit takes the token out of the widget when a captcha
\* is asked for or when it had sent one; the catch of a lost answer does not.
Told(a) ==
    /\ ask[a].phase \in {"passed", "challenged"}
    /\ ask' = [ask EXCEPT ![a] = NotAsking]
    /\ \/ /\ a = Form
          /\ required' = RequiredAfter(a)
          /\ widget' = TokenAfter(a)
          /\ UNCHANGED lostReply
       \/ a = Form /\ lostReply' = TRUE /\ UNCHANGED <<required, widget>>
       \/ a # Form /\ UNCHANGED <<required, widget, lostReply>>
    /\ UNCHANGED <<attempts, expires, solves, spent, unchallenged, blind, resetLink, useVars>>

\* The widget: solved (callback), or expired after a while (expired-callback).
Solve ==
    /\ required
    /\ \/ widget = 0 /\ solves < MaxSolves /\ solves' = solves + 1 /\ widget' = solves'
       \/ widget # 0 /\ widget' = 0 /\ UNCHANGED solves
    /\ UNCHANGED <<attempts, expires, ask, required, spent, unchallenged, blind, lostReply,
                   resetLink,
                   useVars>>

-----------------------------------------------------------------------------
\* POST reset-password, up to the hashing: the link is looked up and checked.
\* The limiter and a password in the list of known leaks end the request too.
Check(u) ==
    /\ use[u].phase = "idle"
    /\ \E l \in Links :
        /\ resetLink[l] # "unsent"
        /\ IF resetLink[l] = "used" \/ l \in stale
           THEN use' = [use EXCEPT ![u] = [phase |-> "answer", link |-> l, told |-> "invalid"]]
           ELSE \E phase \in {"hashing", "answer"} :
                use' = [use EXCEPT ![u] = [phase |-> phase, link |-> l, told |-> "nothing"]]
    /\ UNCHANGED <<askVars, resetLink, stale, changedBy>>

\* Mutant: the check before the transaction is relied on.
ChangeUnchecked(u) ==
    /\ use[u].phase = "hashing"
    /\ resetLink' = [resetLink EXCEPT ![use[u].link] = "used"]
    /\ changedBy' = changedBy \cup {<<u, use[u].link>>}
    /\ use' = [use EXCEPT ![u].phase = "answer", ![u].told = "changed"]
    /\ UNCHANGED <<askVars, stale>>

\* The transaction: usedAt is set if nobody has; the user's row gets the
\* password and loses its lock.  It may fail as a whole.
Change(u) ==
    /\ use[u].phase = "hashing"
    /\ LET l == use[u].link IN
        \/ /\ resetLink[l] = "open"
           /\ resetLink' = [resetLink EXCEPT ![l] = "used"]
           /\ changedBy' = changedBy \cup {<<u, l>>}
           /\ use' = [use EXCEPT ![u].phase = "answer", ![u].told = "changed"]
        \/ /\ resetLink[l] # "open"
           /\ use' = [use EXCEPT ![u].phase = "answer", ![u].told = "invalid"]
           /\ UNCHANGED <<resetLink, changedBy>>
        \/ use' = [use EXCEPT ![u].phase = "answer"] /\ UNCHANGED <<resetLink, changedBy>>
    /\ UNCHANGED <<askVars, stale>>

\* invalidateUserStatusCache and resetAttempts (SessionStatus, LoginLockout),
\* the answer, which may get lost, and perhaps another try from the same form.
AnswerUse(u) ==
    /\ use[u].phase = "answer"
    /\ use' = [use EXCEPT ![u] = [@ EXCEPT !.phase = "idle"]]
    /\ UNCHANGED <<askVars, resetLink, stale, changedBy>>

LinkExpires ==
    /\ \E l \in Links : resetLink[l] # "unsent" /\ stale' = stale \cup {l}
    /\ UNCHANGED <<askVars, resetLink, use, changedBy>>

\* Nothing but the links joins the two: one may have been sent long ago.
ForgotNext ==
    \/ \E a \in Askers : \/ Ask(a) \/ Increment(a) \/ SetExpiry(a)
                        \/ Gate(a) \/ SendLink(a) \/ Told(a)
    \/ ExpireAttempts \/ Solve
UseNext ==
    \/ \E u \in Uses : Check(u) \/ Change(u) \/ AnswerUse(u)
    \/ LinkExpires

ResetSpec == ResetInit /\ [][ForgotNext \/ UseNext]_resetVars

-----------------------------------------------------------------------------
\* A link changes the password once, however many forms use it at a time, and
\* a form that is told so did change it.
OneChangePerLink ==
    /\ \A l \in Links : Cardinality({u \in Uses : <<u, l>> \in changedBy}) <= 1
    /\ \A u \in Uses : use[u].told = "changed" => <<u, use[u].link>> \in changedBy

\* Within one life of the counter no more requests do without a captcha than
\* the threshold allows, and one for every other client that had read the
\* counter when it was reached: the count is read before, and raised whatever
\* becomes of the request.
CaptchaComesDue ==
    ~blind => unchallenged < Threshold + Cardinality(Askers)

\* A counter without an expiry, which would count for ever, is about to get
\* one, unless EXPIRE failed or its caller died.
CountersExpire ==
    attempts > 0 /\ ~expires /\ ~blind => \E a \in Askers : ask[a].phase = "expire"

\* A form that may be sent does not hold a token that was verified before,
\* unless the answer that would have cleared it was lost.
SpentTokenNotSent ==
    ask[Form].phase = "idle" /\ ~lostReply => widget \notin spent

\* The captcha comes due, the count it comes from ends, and a form is never
\* left with a token that can only be refused.
CaptchaHolds == CaptchaComesDue /\ CountersExpire /\ SpentTokenNotSent
=============================================================================
