--------------------------- MODULE MCSessionStatus ---------------------------
(* The instance sessions.cfg checks: two browsers of one account. *)
EXTENDS SessionStatus

CONSTANTS s1, s2
MCSessions == {s1, s2}
=============================================================================
