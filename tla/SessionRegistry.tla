-------------------------- MODULE SessionRegistry --------------------------
(***************************************************************************)
(* The server's registry of logged-in connections: SessionRegistry.h/.cpp. *)
(*                                                                         *)
(* sessions_ maps a user id to a vector of raw ClientHandler pointers.     *)
(* The vector is kept as a bag, sessions[u][h] being the number of times h *)
(* occurs in the vector of u: no operation of the registry tells apart two *)
(* orders of one vector, except for the order in which a loop visits the   *)
(* pointers, which the handler module leaves open.  A user without an      *)
(* entry and a user with an empty vector are the same to every operation.  *)
(*                                                                         *)
(* Each operator below is the body of one critical section of mutex_.  The *)
(* loops of deliverToUser and disconnectUser run after the mutex has been  *)
(* released, over the copy that copyHandlers returns: they are actions of  *)
(* module ClientHandler.                                                   *)
(***************************************************************************)
EXTENDS Naturals, Identities

VARIABLE sessions   \* sessions_

SessionsTypeOK == sessions \in [Users -> [Handlers -> Nat]]

NoHandlers == [h \in Handlers |-> 0]

NoSessions == [u \in Users |-> NoHandlers]

SessionsInit == sessions = NoSessions

(* push_back: nothing checks whether h is there already. *)
addSession(u, h) == sessions' = [sessions EXCEPT ![u][h] = @ + 1]

(* erase(remove(...)): every occurrence of h goes. *)
removeSession(u, h) == sessions' = [sessions EXCEPT ![u][h] = 0]

(* What deliverToUser and disconnectUser copy while they hold the mutex. *)
copyHandlers(u) == sessions[u]
=============================================================================
