--------------------------- MODULE SessionPromise ---------------------------
(***************************************************************************)
(* What the session layer promises, without its cache: an account that has *)
(* not changed for more than Slack ticks is judged by its row; one that    *)
(* changed more recently may still be judged by what it used to be.        *)
(***************************************************************************)
EXTENDS AccountStatus

CONSTANTS Sessions, NoToken, Slack

VARIABLES
    account,    \* the User row
    sinceChange,\* ticks since the row last changed, at most Slack + 1
    token,      \* token[s]: password changes seen when it was issued
    verdict     \* verdict[s]: the answer to its current request, or "none"

promiseVars == <<account, sinceChange, token, verdict>>

Init ==
    /\ account \in {status \in Status : status.exists /\ status.isActive /\ status.lock = 0}
    /\ sinceChange = Slack + 1
    /\ token = [s \in Sessions |-> NoToken]
    /\ verdict = [s \in Sessions |-> "none"]

Change ==
    /\ account' \in Status
    /\ sinceChange' = 0
    /\ UNCHANGED <<token, verdict>>

Tick ==
    /\ account' = Elapse(account)
    /\ sinceChange' = IF sinceChange > Slack THEN sinceChange ELSE sinceChange + 1
    /\ UNCHANGED <<token, verdict>>

SignIn(s) ==
    /\ token' = [token EXCEPT ![s] = account.password]
    /\ UNCHANGED <<account, sinceChange, verdict>>

Answer(s) ==
    /\ verdict' \in {[verdict EXCEPT ![s] = v] : v \in Verdicts \ {"none"}}
    /\ sinceChange > Slack => verdict'[s] = Judge(account, token[s])
    /\ UNCHANGED <<account, sinceChange, token>>

Deliver(s) ==
    /\ verdict' = [verdict EXCEPT ![s] = "none"]
    /\ UNCHANGED <<account, sinceChange, token>>

Next ==
    \/ Change
    \/ Tick
    \/ \E s \in Sessions : SignIn(s) \/ Answer(s) \/ Deliver(s)

Spec == Init /\ [][Next]_promiseVars
=============================================================================
