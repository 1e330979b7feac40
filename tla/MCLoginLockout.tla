--------------------------- MODULE MCLoginLockout ---------------------------
(* Two sign-in requests on one account, for login.cfg. *)
EXTENDS LoginLockout

CONSTANTS a1, a2
MCAttempts == {a1, a2}
=============================================================================
