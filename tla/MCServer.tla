------------------------------ MODULE MCServer ------------------------------
(* Instances of Server for TLC: the users' first rows, and the symmetry of     *)
(* handler addresses, which no action and no invariant tells apart.            *)
EXTENDS Server, TLC

CONSTANTS alice, bob

(* Two plain users. *)
PlainRoles == [u \in Users |-> "user"]

(* Alice moderates, everybody else is a plain user. *)
AliceModerates == [u \in Users |-> IF u = alice THEN "moderator" ELSE "user"]

AllRegistered == [u \in Users |-> "offline"]

(* Bob has not registered yet. *)
BobAbsent == [u \in Users |-> IF u = bob THEN "absent" ELSE "offline"]

HandlerSymmetry == Permutations(Handlers)
=============================================================================
