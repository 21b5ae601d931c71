------------------------------ MODULE MCClient ------------------------------
(* The instance of Client for TLC (Client.cfg): two logins, and room for a     *)
(* LOGIN, a LOGOUT and another LOGIN to overtake their answers.                *)
EXTENDS Client
=============================================================================
