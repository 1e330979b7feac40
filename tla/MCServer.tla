------------------------------ MODULE MCServer ------------------------------
(***************************************************************************)
(* The parts of the server beside the ledger, signing in and the accounts, *)
(* side by side: they share no state, so a behaviour is a behaviour of one *)
(* of them (part), the others stay where they start.                       *)
(***************************************************************************)
EXTENDS MCAuditRevert, AlertAccess, LiveStreams, PasswordReset, ProfileUpdate,
    RetentionCleanup, ScopeNotice

VARIABLE part

CONSTANTS alice, bob, t1, t2, t3, look1, look2, change1, change2, own, other, link1, use1, use2,
    edit1, edit2, proc1, proc2, conn1, conn2

Parts == {"audit", "access", "streams", "forgot", "reset", "profile", "cleanup", "notice"}

\* The parts other than the one that is explored.
Still(p) ==
    /\ p # "audit" => UNCHANGED vars
    /\ p # "access" => UNCHANGED accessVars
    /\ p # "streams" => UNCHANGED streamsVars
    /\ p \notin {"forgot", "reset"} => UNCHANGED resetVars
    /\ p # "profile" => UNCHANGED profileVars
    /\ p # "cleanup" => UNCHANGED cleanupVars
    /\ p # "notice" => UNCHANGED noticeVars

ServerInit ==
    /\ part \in Parts
    /\ MCInit /\ AccessInit /\ StreamsInit /\ ResetInit /\ ProfileInit
    /\ CleanupInit /\ NoticeInit
    /\ part # "audit" => row[g2].name = n2 /\ row[o1].gmina = g1 /\ row[u2].org = o1
    /\ part # "reset" => resetLink = [l \in Links |-> "unsent"]

ServerNext ==
    /\ UNCHANGED part
    /\ Still(part)
    /\ \/ part = "audit" /\ Next
       \/ part = "access" /\ AccessNext
       \/ part = "streams" /\ StreamsNext
       \/ part = "forgot" /\ ForgotNext
       \/ part = "reset" /\ UseNext
       \/ part = "profile" /\ ProfileNext
       \/ part = "cleanup" /\ CleanupNext
       \/ part = "notice" /\ NoticeNext

serverVars == <<part, vars, accessVars, streamsVars, resetVars, profileVars,
    cleanupVars, noticeVars>>

\* The connection to Redis comes back, and its ready handler runs.
ServerSpec ==
    /\ ServerInit /\ [][ServerNext]_serverVars
    /\ WF_serverVars(part = "streams" /\ LinkReady /\ UNCHANGED part /\ Still(part))
    /\ WF_serverVars(part = "streams" /\ Subscribe /\ UNCHANGED part /\ Still(part))
=============================================================================
