------------------------------ MODULE MCBrowser ------------------------------
(***************************************************************************)
(* The parts of the program that run in a tab side by side, the            *)
(* directories (MCAdminPanel) excepted: they share no state, so a          *)
(* behaviour is a behaviour of one of them (part), the others stay where   *)
(* they start.                                                             *)
(***************************************************************************)
EXTENDS AlertSubmission, NeedListSave, PinPlacement, MapView, AlertJournal, AuditLogPages,
        ResourceMatrix

VARIABLE part

CONSTANTS row1, row2, need1, need2, new1, spot1, spot2, text1, text2,
          alert1, event1, firm1, firm2

MCKindOf == [a \in MapAlerts |-> IF a = alert1 THEN "ALERT" ELSE "EVENT"]
MCCategoryOf == [a \in MapAlerts |-> IF a = alert1 THEN "FLOOD" ELSE "FAIR"]
MCSeverityOf == [a \in MapAlerts |-> "HIGH"]

Parts == {"alertForm", "needForm", "pin", "map", "journal", "log", "matrix"}

\* The parts other than the one that is explored.
Still(p) ==
    /\ p # "alertForm" => UNCHANGED alertFormVars
    /\ p # "needForm" => UNCHANGED needFormVars
    /\ p # "pin" => UNCHANGED pinVars
    /\ p # "map" => UNCHANGED mapVars
    /\ p # "journal" => UNCHANGED journalVars
    /\ p # "log" => UNCHANGED logVars
    /\ p # "matrix" => UNCHANGED matrixVars

MCInit ==
    /\ part \in Parts
    /\ AlertFormInit /\ NeedFormInit /\ PinInit /\ MapInit /\ JournalInit /\ LogInit
    /\ MatrixInit
    /\ part # "map" => rows = [a \in MapAlerts |-> [archived |-> FALSE,
                                                    org |-> CHOOSE f \in Firms : TRUE]]
    /\ part # "journal" => thread = 0
    /\ part # "log" => log = <<>>
    /\ part # "matrix" => stock = Nobody

MCNext ==
    /\ UNCHANGED part
    /\ Still(part)
    /\ \/ part = "alertForm" /\ AlertFormNext
       \/ part = "needForm" /\ NeedFormNext
       \/ part = "pin" /\ PinNext
       \/ part = "map" /\ MapNext
       \/ part = "journal" /\ JournalNext
       \/ part = "log" /\ LogNext
       \/ part = "matrix" /\ MatrixNext

mcVars == <<part, alertFormVars, needFormVars, pinVars, mapVars, journalVars,
            logVars, matrixVars>>

MCSpec == MCInit /\ [][MCNext]_mcVars
=============================================================================
