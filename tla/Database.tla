------------------------------ MODULE Database ------------------------------
(***************************************************************************)
(* The rows of PostgreSQL that the server's decisions depend on, and the   *)
(* statements of Database.cpp that read and change them.                   *)
(*                                                                         *)
(* Every method of Database runs one READ COMMITTED transaction.  A        *)
(* transaction made of one UPDATE (plus its audit row) is one step.        *)
(* loginUser and sendMessage decide on the result of a SELECT and write in *)
(* a later statement, and nothing locks the row in between: the read and   *)
(* the write are two operators, and module ClientHandler makes them two    *)
(* steps.  A transaction that throws leaves these variables alone, with    *)
(* one exception: the sequence behind messages.id is not rolled back.      *)
(***************************************************************************)
EXTENDS Naturals, Identities

CONSTANTS
    InitStatus, \* chat.users.status when the server first starts
    InitRole,   \* chat.users.role when the server first starts
    IntMax,     \* the largest id that as<int>() can convert
    MaxIds      \* bound: the number of message ids drawn from the sequence

Roles == {"user", "moderator", "admin"}
ModeratorRoles == {"moderator", "admin"}

(* A login without a row in chat.users has the status "absent". *)
Statuses == {"absent", "offline", "online", "banned"}

ASSUME InitRowsAssumption ==
    /\ InitStatus \in [Users -> {"absent", "offline", "banned"}]
    /\ InitRole \in [Users -> Roles]

ASSUME IdsAssumption == IntMax \in Nat /\ MaxIds \in Nat

VARIABLES
    status,     \* chat.users.status
    role,       \* chat.users.role
    audit,      \* the latest of the user's "ban" and "unban" rows in chat.audit_log
    messages,   \* chat.messages
    nextId,     \* the next value of the sequence behind messages.id
    orphaned    \* auxiliary: users that a lost logout, a lost login or a crash left "online"

dbVars == <<status, role, audit, messages, nextId, orphaned>>

Message == [id : Nat, sender : Users, receiver : Users]

DatabaseTypeOK ==
    /\ status \in [Users -> Statuses]
    /\ role \in [Users -> Roles]
    /\ audit \in [Users -> {"none", "ban", "unban"}]
    /\ messages \in SUBSET Message
    /\ nextId \in Nat
    /\ orphaned \in SUBSET Users

(* A row that is banned from the start has been banned by its creator. *)
DatabaseInit ==
    /\ status = InitStatus
    /\ role = InitRole
    /\ audit = [u \in Users |-> IF InitStatus[u] = "banned" THEN "ban" ELSE "none"]
    /\ messages = {}
    /\ nextId = 1
    /\ orphaned = {}

-----------------------------------------------------------------------------
(* registerUser: the INSERT, refused by the unique index when the row exists. *)
registerUser(u) ==
    /\ status[u] = "absent"
    /\ status' = [status EXCEPT ![u] = "offline"]
    /\ role' = [role EXCEPT ![u] = "user"]
    /\ UNCHANGED <<audit, messages, nextId, orphaned>>

(* loginUser up to verifyPassword: what the SELECT must have returned. *)
loginSelect(u) == status[u] \notin {"absent", "banned"}

(* loginUser's UPDATE ... WHERE id = $1: the status is not read again. *)
loginUpdate(u) ==
    /\ status' = [status EXCEPT ![u] = "online"]
    /\ UNCHANGED <<role, audit, messages, nextId, orphaned>>

(* The same when the COMMIT is done but its answer is lost: the caller is told   *)
(* "database error", and no session will log this user out.                     *)
loginUpdateInDoubt(u) ==
    /\ status' = [status EXCEPT ![u] = "online"]
    /\ orphaned' = orphaned \cup {u}
    /\ UNCHANGED <<role, audit, messages, nextId>>

setOffline(u) ==
    /\ status' = [status EXCEPT ![u] = "offline"]
    /\ orphaned' = orphaned \ {u}
    /\ UNCHANGED <<role, audit, messages, nextId>>

(* Mutated form: the UPDATE without AND status <> 'banned'. *)
logoutUserUnguarded(u) == setOffline(u)

(* logoutUser: UPDATE ... WHERE id = $1 AND status <> 'banned'. *)
logoutUser(u) ==
    \/ status[u] # "banned" /\ setOffline(u)
    \/ status[u] = "banned" /\ UNCHANGED dbVars

(* logoutUser when the transaction throws: the caller ignores the result. *)
logoutUserFails(u) ==
    /\ orphaned' = IF status[u] = "online" THEN orphaned \cup {u} ELSE orphaned
    /\ UNCHANGED <<status, role, audit, messages, nextId>>

(* sendMessage up to its INSERT: the receiver the SELECT must have found. *)
sendMessageSelect(v) == status[v] \notin {"absent", "banned"}

(* sendMessage's INSERT, as<int>() and commit. *)
sendMessageInsert(u, v) ==
    /\ nextId < MaxIds
    /\ nextId <= IntMax
    /\ messages' = messages \cup {[id |-> nextId, sender |-> u, receiver |-> v]}
    /\ nextId' = nextId + 1
    /\ UNCHANGED <<status, role, audit, orphaned>>

(* The same transaction when it throws after the INSERT: as<int>() throws on *)
(* an id above IntMax, and any statement may fail.  The row is rolled back,  *)
(* the id stays used.                                                        *)
sendMessageAborts ==
    /\ nextId < MaxIds
    /\ nextId' = nextId + 1
    /\ UNCHANGED <<status, role, audit, messages, orphaned>>

(* hasModeratorRights reads the role of the row, not its status. *)
hasModeratorRights(u) == role[u] \in ModeratorRoles

(* audit: the row goes into the transaction of the change it records. *)
auditRow(v, action) == audit' = [audit EXCEPT ![v] = action]

(* banUser: UPDATE ... WHERE login = $1, whatever the status, and audit. *)
banUser(v) ==
    /\ status[v] # "absent"
    /\ status' = [status EXCEPT ![v] = "banned"]
    /\ auditRow(v, "ban")
    /\ orphaned' = orphaned \ {v}
    /\ UNCHANGED <<role, messages, nextId>>

(* unbanUser: UPDATE ... WHERE login = $1 AND status = 'banned', and audit. *)
unbanUser(v) ==
    /\ status[v] = "banned"
    /\ status' = [status EXCEPT ![v] = "offline"]
    /\ auditRow(v, "unban")
    /\ UNCHANGED <<role, messages, nextId, orphaned>>

(* kickUser: UPDATE ... WHERE login = $1 AND status <> 'banned'. *)
kickUser(v) ==
    /\ status[v] \notin {"absent", "banned"}
    /\ setOffline(v)

(* A role changed by an administrator in psql; no command of the server does it. *)
setRole(u, r) ==
    /\ role[u] # r
    /\ role' = [role EXCEPT ![u] = r]
    /\ UNCHANGED <<status, audit, messages, nextId, orphaned>>
=============================================================================
