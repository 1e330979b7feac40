--------------------------- MODULE MCAuditRevert ---------------------------
(* The instance of AuditRevert that revert_chain.cfg checks, and server.cfg through MCServer. *)
EXTENDS AuditRevert

CONSTANTS g1, g2, o1, u1, u2, i1, n1, n2, s1, s2, r1

MCGminas == {g1, g2}
MCOrgs == {o1}
MCUsers == {u1, u2}
MCInvites == {i1}
MCNames == {n1, n2}
MCSlots == {s1, s2}
MCReverts == {r1}
MCSymmetry == Permutations(Slots)

\* A global administrator, and a member of the organization or a scoped
\* administrator; the second gmina may still have to be made.
MCInit ==
    /\ Init
    /\ row[g1].name = n1 /\ row[g2].name \in {n2, Null}
    /\ row[o1].gmina \in {g1, Null}
    /\ row[u1] = [there |-> TRUE, name |-> Null, gmina |-> Null, org |-> Null,
                  role |-> "ADMIN", state |-> "ACTIVE"]
    /\ row[u2].gmina = g1 /\ row[u2].state = "ACTIVE"
    /\ row[u2].org = o1 => row[o1].there
    /\ row[u2].role = "ADMIN" => row[u2].org = Null

MCSpec == MCInit /\ [][Next]_vars
=============================================================================
