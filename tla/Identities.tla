----------------------------- MODULE Identities -----------------------------
(***************************************************************************)
(* The two kinds of identity the server's parts exchange: users, which     *)
(* Database.cpp knows by login and by id, and ClientHandler objects, which *)
(* SessionRegistry.cpp knows by address.                                   *)
(***************************************************************************)
CONSTANTS
    Users,      \* the logins of the system; a login stands for its user id too
    Handlers,   \* addresses at which a ClientHandler object can live
    NoUser      \* userId_ == -1, a session that is not logged in

ASSUME NoUserAssumption == NoUser \notin Users
=============================================================================
