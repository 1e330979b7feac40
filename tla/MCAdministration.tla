-------------------------- MODULE MCAdministration --------------------------
(* The instance of Administration that accounts.cfg checks. *)
EXTENDS Administration, TLC

CONSTANTS u1, u2, u3, g1, g2, o1, q1, q2, i1

MCUsers == {u1, u2, u3}
MCGminas == {g1, g2}
MCOrgs == {o1}
MCInvites == {i1}
MCRequests == {q1, q2}

\* A body that changes one field, or moves the user to an organization.
MCChanges ==
    {[NoChange EXCEPT !.role = role] : role \in {"ADMIN", "VOLUNTEER"}}
    \cup {[NoChange EXCEPT !.gmina = g] : g \in Gminas \cup {Null}}
    \cup {[NoChange EXCEPT !.org = o] : o \in Orgs \cup {Null}}
    \cup {[NoChange EXCEPT !.active = FALSE]}
    \cup {[NoChange EXCEPT !.gmina = g2, !.org = o1]}

\* The slots are interchangeable, and no CHOOSE looks at them.
MCSymmetry == Permutations(Requests)

\* Two gminas, an organization in the first; the second account is a global or
\* a scoped administrator, or a coordinator of the organization.
MCInit ==
    /\ Init
    /\ gmina[g1] = "LIVE" /\ organization[o1] \in {g1, "NEW"}
    /\ (gmina[g2] = "NEW") = (organization[o1] = "NEW")
    /\ user[u1] = [NoUser EXCEPT !.exists = TRUE, !.active = TRUE, !.role = "ADMIN"]
    /\ user[u2].exists
    /\ user[u2].role = "ADMIN" => user[u2].org = Null
    /\ user[u2].role = "COORDINATOR" => user[u2].org = o1
    /\ user[u2].role # "VOLUNTEER" /\ user[u2].gmina # g2

MCSpec == MCInit /\ [][Next]_vars
=============================================================================
