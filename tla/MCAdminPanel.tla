---------------------------- MODULE MCAdminPanel ----------------------------
(***************************************************************************)
(* The server's side of the administration and, on its own, a directory of *)
(* the admin panel in a tab.  They share no state: a behaviour is one of   *)
(* the first or one of the second (part), the other stays where it starts. *)
(***************************************************************************)
EXTENDS MCAdministration, AdminList

VARIABLE part

RowOf(v, p, g, o) == [voivodeship |-> v, powiat |-> p, gmina |-> g, org |-> o]
MCPlaces == {RowOf("v1", "p1", "g1", "o1"), RowOf("v2", "p2", "g2", "o2")}

\* A row of the first place is there until the change, one of the second stays.
MCRows ==
    LET first == {p \in MCPlaces : p.voivodeship = "v1"}
    IN  [v \in 0 .. 1 |-> IF v = 0 THEN MCPlaces ELSE MCPlaces \ first]

PanelInit ==
    /\ part \in {"accounts", "directory"}
    /\ MCInit /\ ListInit
    /\ part = "accounts" => directory = "users"
    /\ part = "directory" =>
        /\ organization[o1] = g1
        /\ user[u2] = [NoUser EXCEPT !.exists = TRUE, !.active = TRUE, !.role = "ADMIN"]
        /\ \A i \in Invites : invite[i] = NoInvite

PanelNext ==
    /\ UNCHANGED part
    /\ \/ part = "accounts" /\ Next /\ UNCHANGED listVars
       \/ part = "directory" /\ ListNext /\ UNCHANGED vars

panelVars == <<part, vars, listVars>>

PanelSpec == PanelInit /\ [][PanelNext]_panelVars
=============================================================================
