---------------------------- MODULE ProfileUpdate ----------------------------
(***************************************************************************)
(* PATCH /api/user/me of one account: the attempts are counted for an hour *)
(* (recordAttempt), the fifth one turns on a captcha that stays required   *)
(* for an hour of its own (markCaptchaRequired), and a request decides by  *)
(* what it read before it was counted.  Requests run at once; every call   *)
(* to Redis is a step and may fail.                                        *)
(***************************************************************************)
EXTENDS Integers, FiniteSets

CONSTANTS
    Editors,            \* requests of the account under way at once
    ProfileThreshold,   \* CAPTCHA_ATTEMPT_THRESHOLD
    Sticky,             \* CAPTCHA_STICKY_SECONDS, in ticks: both keys live as long
    MaxTries            \* bound: attempts counted in one life of the counter

ASSUME ProfileAssumption ==
    /\ IsFiniteSet(Editors)
    /\ ProfileThreshold \in Nat \ {0} /\ Sticky \in Nat \ {0}
    /\ MaxTries \in Nat

VARIABLES
    tries,      \* attempts:profile-update:<id>: its count, 0 without key
    triesLeft,  \* ... ticks until it expires; 0 without an expiry
    latch,      \* captcha-required:profile-update:<id>: ticks left, 0 without key
    editor,     \* editor[e]: phase, and captchaChallengeActive
    latchAge,   \* history: ticks since the key was created
    unasked,    \* history: attempts of this counter's life that met no captcha
    faulty      \* history: a call to Redis failed, or its caller died

profileVars == <<tries, triesLeft, latch, editor, latchAge, unasked, faulty>>

AtEase == [phase |-> "idle", challenged |-> FALSE]

-----------------------------------------------------------------------------
ProfileTypeOK ==
    /\ tries \in 0 .. MaxTries /\ triesLeft \in 0 .. Sticky
    /\ latch \in 0 .. Sticky /\ latchAge \in 0 .. Sticky
    /\ editor \in [Editors -> [phase : {"idle", "record", "expire", "mark", "decide"},
                               challenged : BOOLEAN]]
    /\ unasked \in 0 .. MaxTries
    /\ faulty \in BOOLEAN

ProfileInit ==
    /\ tries = 0 /\ triesLeft = 0
    /\ latch = 0 /\ latchAge = 0
    /\ editor = [e \in Editors |-> AtEase]
    /\ unasked = 0 /\ faulty = FALSE

-----------------------------------------------------------------------------
Proceeds(e, phase) == editor' = [editor EXCEPT ![e].phase = phase]

\* isCaptchaRequired: not required when Redis does not answer.
AskWhetherRequired(e) ==
    /\ editor[e].phase = "idle"
    /\ \E challenged \in {latch > 0, FALSE} :
        /\ editor' = [editor EXCEPT ![e] = [phase |-> "record", challenged |-> challenged]]
        /\ faulty' = (faulty \/ challenged # (latch > 0))
    /\ UNCHANGED <<tries, triesLeft, latch, latchAge, unasked>>

TurnsOn(count) == count >= ProfileThreshold

\* recordAttempt: INCR.  The first attempt has the expiry to set as well; a
\* failed call reports no attempt at all.
CountTry(e) ==
    /\ editor[e].phase = "record" /\ tries < MaxTries
    /\ \/ /\ tries' = tries + 1
          /\ unasked' = unasked + (IF editor[e].challenged THEN 0 ELSE 1)
          /\ Proceeds(e, IF tries' = 1 THEN "expire"
                         ELSE IF TurnsOn(tries') THEN "mark" ELSE "decide")
          /\ UNCHANGED faulty
       \/ Proceeds(e, "decide") /\ faulty' = TRUE /\ UNCHANGED <<tries, unasked>>
    /\ UNCHANGED <<triesLeft, latch, latchAge>>

\* ... EXPIRE; it fails (recordAttempt reports no attempt), or the process ends.
LimitLife(e) ==
    /\ editor[e].phase = "expire"
    /\ \/ /\ triesLeft' = Sticky
          /\ Proceeds(e, IF TurnsOn(1) THEN "mark" ELSE "decide")
          /\ UNCHANGED faulty
       \/ Proceeds(e, "decide") /\ faulty' = TRUE /\ UNCHANGED triesLeft
       \/ editor' = [editor EXCEPT ![e] = AtEase] /\ faulty' = TRUE /\ UNCHANGED triesLeft
    /\ UNCHANGED <<tries, latch, latchAge, unasked>>

\* Mutant: SET without NX.
MarkAnew(e) ==
    /\ editor[e].phase = "mark"
    /\ latch' = Sticky
    /\ latchAge' = IF latch = 0 THEN 0 ELSE latchAge
    /\ Proceeds(e, "decide")
    /\ UNCHANGED <<tries, triesLeft, unasked, faulty>>

\* markCaptchaRequired: SET ... EX ... NX, which leaves a key as it is.
Mark(e) ==
    /\ editor[e].phase = "mark"
    /\ \/ /\ latch' = IF latch = 0 THEN Sticky ELSE latch
          /\ latchAge' = IF latch = 0 THEN 0 ELSE latchAge
          /\ UNCHANGED faulty
       \/ faulty' = TRUE /\ UNCHANGED <<latch, latchAge>>
    /\ Proceeds(e, "decide")
    /\ UNCHANGED <<tries, triesLeft, unasked>>

\* The body is parsed, a challenged request has its captcha verified, the
\* address is looked up and the row written or refused: whatever comes of it,
\* the request ends and both keys stay.
Decide(e) ==
    /\ editor[e].phase = "decide"
    /\ editor' = [editor EXCEPT ![e] = AtEase]
    /\ UNCHANGED <<tries, triesLeft, latch, latchAge, unasked, faulty>>

\* Some of the hour passes, not between the calls to Redis of one request.
PassTime ==
    /\ \A e \in Editors : editor[e].phase \in {"idle", "decide"}
    /\ triesLeft > 0 \/ latch > 0
    /\ triesLeft' = IF triesLeft = 0 THEN 0 ELSE triesLeft - 1
    /\ tries' = IF triesLeft = 1 THEN 0 ELSE tries
    /\ unasked' = IF triesLeft = 1 THEN 0 ELSE unasked
    /\ latch' = IF latch = 0 THEN 0 ELSE latch - 1
    /\ latchAge' = IF latch <= 1 THEN 0 ELSE latchAge + 1
    /\ UNCHANGED <<editor, faulty>>

ProfileNext ==
    \/ \E e \in Editors : \/ AskWhetherRequired(e) \/ CountTry(e) \/ LimitLife(e)
                          \/ Mark(e) \/ Decide(e)
    \/ PassTime

ProfileSpec == ProfileInit /\ [][ProfileNext]_profileVars

-----------------------------------------------------------------------------
\* "It starts biting from the next attempt onward": within one life of the
\* counter no more attempts go unchallenged than the threshold, and one for
\* every other request that had asked before it was reached.  The requirement
\* may end within the life of a later counter that reached the threshold while
\* it was on (NX left it alone): the next attempt renews it.
ChallengeLatches ==
    ~faulty => unasked < ProfileThreshold + Cardinality(Editors)

\* "Never pushed further out by more attempts": the requirement ends an hour
\* after it began, however many attempts come in meanwhile.
RequirementLastsAnHour ==
    latch > 0 => latch + latchAge = Sticky

\* The requirement comes in time and goes in time.
ChallengeHolds == ChallengeLatches /\ RequirementLastsAnHour
=============================================================================
