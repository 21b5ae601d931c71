---------------------------- MODULE Descriptors ----------------------------
(***************************************************************************)
(* The socket numbers of the server's connections.  The kernel gives a     *)
(* number that has been closed to the next connection; clientSocket_ of a  *)
(* ClientHandler is read, closed and reset by two threads, its own (run    *)
(* and the destructor) and a moderator's (disconnectFromAdmin), with no    *)
(* lock between them.                                                      *)
(***************************************************************************)
CONSTANTS
    Handlers,   \* the handlers, each with its connection
    Fds,        \* descriptor numbers
    None        \* no connection, kInvalidSocket, nobody to disconnect

VARIABLES
    table,          \* the kernel's table: whose connection a number stands for
    clientSocket,   \* clientSocket_ of each handler
    thread,         \* what the thread of a handler does
    target,         \* the handler that disconnectFromAdmin is called on
    moderator,      \* what the moderator's thread does next
    kicked          \* handlers that have been disconnected

vars == <<table, clientSocket, thread, target, moderator, kicked>>

Init ==
    /\ table = [fd \in Fds |-> None]
    /\ clientSocket = [h \in Handlers |-> None]
    /\ thread = [h \in Handlers |-> "free"]
    /\ target = None /\ moderator = "idle"
    /\ kicked = {}

(* closeSocket of the number fd: whoever's connection it stands for ends. *)
closeSocket(fd) == table' = IF fd = None THEN table ELSE [table EXCEPT ![fd] = None]

(* accept returns a free number; a thread and a handler are made for it. *)
accept(h, fd) ==
    /\ thread[h] = "free" /\ target # h
    /\ table[fd] = None
    /\ table' = [table EXCEPT ![fd] = h]
    /\ clientSocket' = [clientSocket EXCEPT ![h] = fd]
    /\ thread' = [thread EXCEPT ![h] = "run"]
    /\ kicked' = kicked \ {h}
    /\ UNCHANGED <<target, moderator>>

(* The peer leaves, or recv fails on a number that has been closed. *)
leaveRun(h) ==
    /\ thread[h] = "run"
    /\ thread' = [thread EXCEPT ![h] = "destroy"]
    /\ UNCHANGED <<table, clientSocket, target, moderator, kicked>>

destroyHandler(h) ==
    /\ thread[h] = "destroy"
    /\ closeSocket(clientSocket[h])
    /\ clientSocket' = [clientSocket EXCEPT ![h] = None]
    /\ thread' = [thread EXCEPT ![h] = "free"]
    /\ UNCHANGED <<target, moderator, kicked>>

(* disconnectUser has found h in the registry: KICKED is sent. *)
disconnectBegins(h) ==
    /\ moderator = "idle"
    /\ thread[h] = "run"
    /\ target' = h /\ moderator' = "close"
    /\ kicked' = kicked \cup {h}
    /\ UNCHANGED <<table, clientSocket, thread>>

disconnectCloses ==
    /\ moderator = "close"
    /\ closeSocket(clientSocket[target])
    /\ moderator' = "reset"
    /\ UNCHANGED <<clientSocket, thread, target, kicked>>

disconnectResets ==
    /\ moderator = "reset"
    /\ clientSocket' = [clientSocket EXCEPT ![target] = None]
    /\ target' = None /\ moderator' = "idle"
    /\ UNCHANGED <<table, thread, kicked>>

Next ==
    \/ \E h \in Handlers, fd \in Fds : accept(h, fd)
    \/ \E h \in Handlers : leaveRun(h) \/ destroyHandler(h) \/ disconnectBegins(h)
    \/ disconnectCloses \/ disconnectResets

Spec == Init /\ [][Next]_vars

(* docs/protocol.md: "KICK <login>" disconnects the sessions of that login.  A  *)
(* connection that is being served and that nobody has kicked keeps its socket. *)
OnlyKickedAreClosed ==
    \A h \in Handlers :
        thread[h] = "run" /\ h \notin kicked => \E fd \in Fds : table[fd] = h
=============================================================================
