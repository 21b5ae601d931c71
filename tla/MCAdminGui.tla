----------------------------- MODULE MCAdminGui -----------------------------
(* The instance of AdminGui for TLC: the GUI's own account and another user.   *)
EXTENDS AdminGui

CONSTANT bob
=============================================================================
