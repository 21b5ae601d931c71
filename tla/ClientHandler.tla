---------------------------- MODULE ClientHandler ----------------------------
(***************************************************************************)
(* The threads of the server: one ClientHandler per connection, running    *)
(* run() and the handle* methods of ClientHandler.cpp against the shared   *)
(* SessionRegistry and the shared Database.                                *)
(*                                                                         *)
(* pc[h] names what the thread of h does next.  One step is one critical   *)
(* section of the registry, one database statement that other threads can  *)
(* come between, one call on another handler's object, the reading of one  *)
(* frame, or the writing of a command's last reply.  A frame that is       *)
(* answered without a state change (ERROR_... replies, a failed            *)
(* validation, a database error) is the step refuse.  What replies say and *)
(* log lines are not modelled, and neither are the queries LIST, INBOX,    *)
(* HISTORY and ALL_MESSAGES, which change nothing.                         *)
(***************************************************************************)
EXTENDS SessionRegistry, Database

CONSTANTS
    Commands,       \* bound: the commands that the clients of an instance send
    CommitsInDoubt, \* whether a connection to PostgreSQL may break during a COMMIT
    PeersStall      \* whether a peer may stop reading for good

AllCommands ==
    {"REGISTER", "LOGIN", "LOGOUT", "MESSAGE", "BAN", "UNBAN", "KICK"}

ASSUME CommandsAssumption ==
    /\ Commands \subseteq AllCommands
    /\ CommitsInDoubt \in BOOLEAN /\ PeersStall \in BOOLEAN

VARIABLES
    pc,             \* what the thread of a handler does next
    return,         \* where cleanupSession, when it is running, returns to
    userId,         \* userId_; NoUser when authed_ is false
    role_,          \* role_, the role as it was at the login
    clientSocket,   \* clientSocket_: "open", "stalled" when the peer has stopped reading
                    \* and the buffers are full, or "closed" by either side's thread
    arg,            \* the login a command names
    loginRole,      \* the role the SELECT of loginUser returned
    msgId,          \* the id of the message being delivered
    targets,        \* the copy of a registry vector that a loop has yet to visit
    owed,           \* auxiliary: stored messages that a session of the receiver lacks
    untold,         \* auxiliary: messages stored that handleMessage delivers to nobody
    raced           \* auxiliary: handlers whose user's role changed after its check

requestVars == <<arg, loginRole, msgId, raced>>
sessionVars == <<userId, role_>>
loopVars == <<targets, owed, untold>>
handlerVars ==
    <<pc, return, sessionVars, clientSocket, requestVars, loopVars>>

(* cleanupSession's two calls, and the points of the handle* methods. *)
CleanupPoints == {"removeSession", "logoutUser"}
ModeratorPoints == {"banUser", "unbanUser", "kickUser"}
ReturnPoints == {"reply", "addSession", "destroy"}
DeliveryPoints == {"deliverToUser", "deliverFrame"}
Points ==
    {"free", "recv", "reply", "loginUpdate", "addSession", "insertMessage",
     "disconnectUser", "disconnectFromAdmin", "destroy", "ended"}
    \cup DeliveryPoints \cup AllCommands \cup CleanupPoints \cup ModeratorPoints

HandlersTypeOK ==
    /\ pc \in [Handlers -> Points]
    /\ return \in [Handlers -> ReturnPoints]
    /\ userId \in [Handlers -> Users \cup {NoUser}]
    /\ role_ \in [Handlers -> Roles \cup {"none"}]
    /\ clientSocket \in [Handlers -> {"open", "stalled", "closed"}]
    /\ arg \in [Handlers -> Users \cup {NoUser}]
    /\ loginRole \in [Handlers -> Roles \cup {"none"}]
    /\ msgId \in [Handlers -> Nat]
    /\ targets \in [Handlers -> [Handlers -> Nat]]
    /\ owed \in SUBSET [id : Nat, session : Handlers]
    /\ untold \in SUBSET Nat
    /\ raced \in SUBSET Handlers

HandlersInit ==
    /\ pc = [h \in Handlers |-> "free"]
    /\ return = [h \in Handlers |-> "reply"]
    /\ userId = [h \in Handlers |-> NoUser]
    /\ role_ = [h \in Handlers |-> "none"]
    /\ clientSocket = [h \in Handlers |-> "closed"]
    /\ arg = [h \in Handlers |-> NoUser]
    /\ loginRole = [h \in Handlers |-> "none"]
    /\ msgId = [h \in Handlers |-> 0]
    /\ targets = [h \in Handlers |-> NoHandlers]
    /\ owed = {} /\ untold = {}
    /\ raced = {}

(* The process is gone, and every thread with it. *)
handlersLost ==
    /\ pc' = [h \in Handlers |-> "free"]
    /\ return' = [h \in Handlers |-> "reply"]
    /\ userId' = [h \in Handlers |-> NoUser]
    /\ role_' = [h \in Handlers |-> "none"]
    /\ clientSocket' = [h \in Handlers |-> "closed"]
    /\ arg' = [h \in Handlers |-> NoUser]
    /\ loginRole' = [h \in Handlers |-> "none"]
    /\ msgId' = [h \in Handlers |-> 0]
    /\ targets' = [h \in Handlers |-> NoHandlers]
    /\ owed' = {} /\ untold' = {}
    /\ raced' = {}

-----------------------------------------------------------------------------
goto(h, point) == pc' = [pc EXCEPT ![h] = point]

(* A handle* method has done its work: its locals are gone, and what is left is *)
(* its last reply ("reply"), or nothing ("recv").                               *)
finish(h, next) ==
    /\ goto(h, next)
    /\ arg' = [arg EXCEPT ![h] = NoUser]
    /\ loginRole' = [loginRole EXCEPT ![h] = "none"]
    /\ msgId' = [msgId EXCEPT ![h] = 0]
    /\ raced' = raced \ {h}

(* sendResponse on t's socket returns: send() has no timeout, and waits under   *)
(* sendMutex_ while the peer does not read.  On a closed socket it fails at     *)
(* once.                                                                        *)
writable(t) == clientSocket[t] # "stalled"

(* cleanupSession is entered; it does nothing for a session that is not logged in. *)
cleanupSession(h, returnTo) ==
    \/ /\ userId[h] # NoUser
       /\ goto(h, "removeSession")
       /\ return' = [return EXCEPT ![h] = returnTo]
    \/ /\ userId[h] = NoUser
       /\ goto(h, returnTo)
       /\ UNCHANGED return

-----------------------------------------------------------------------------
(* run: a frame has been read, and it carries a command and a login. *)
receiveFrame(h) ==
    /\ pc[h] = "recv"
    /\ clientSocket[h] # "closed"
    /\ \E c \in Commands, u \in Users :
        /\ goto(h, c)
        /\ arg' = [arg EXCEPT ![h] = IF c = "LOGOUT" THEN NoUser ELSE u]
    /\ UNCHANGED <<sessions, dbVars, return, sessionVars, clientSocket, loginRole,
                   msgId, raced, loopVars>>

(* Mutated form: a failed read does not end the loop. *)
leaveRunRetrying(h) ==
    /\ pc[h] = "recv"
    /\ clientSocket[h] = "open"
    /\ cleanupSession(h, "destroy")
    /\ UNCHANGED <<sessions, dbVars, sessionVars, clientSocket, requestVars, loopVars>>

(* run: receiveFrame returned Closed, TooLarge, Timeout or Error.  On an open   *)
(* socket the peer left, was too slow or sent a bad frame; on a socket that     *)
(* disconnectFromAdmin closed it is the only thing that can be returned.  (A    *)
(* thread that cannot write ERROR_FRAME_TOO_LARGE stays at "recv".)             *)
leaveRun(h) ==
    /\ pc[h] = "recv"
    /\ cleanupSession(h, "destroy")
    /\ UNCHANGED <<sessions, dbVars, sessionVars, clientSocket, requestVars, loopVars>>

(* The last reply of a command is written. *)
reply(h) ==
    /\ pc[h] = "reply"
    /\ writable(h)
    /\ goto(h, "recv")
    /\ UNCHANGED <<sessions, dbVars, return, sessionVars, clientSocket, requestVars,
                   loopVars>>

(* The peer stops reading and never reads or closes again.  One that is only    *)
(* slow delays a step.                                                          *)
peerStalls(h) ==
    /\ PeersStall
    /\ pc[h] # "free" /\ clientSocket[h] = "open"
    /\ clientSocket' = [clientSocket EXCEPT ![h] = "stalled"]
    /\ UNCHANGED <<sessions, dbVars, pc, return, sessionVars, requestVars, loopVars>>

(* A command that is answered with an error before it has changed anything. *)
refuse(h) ==
    /\ \/ pc[h] \in AllCommands \ {"LOGOUT"}
       \/ pc[h] \in {"loginUpdate", "insertMessage"} \cup ModeratorPoints
    /\ finish(h, "reply")
    /\ UNCHANGED <<sessions, dbVars, return, sessionVars, clientSocket, loopVars>>

handleRegister(h) ==
    /\ pc[h] = "REGISTER"
    /\ registerUser(arg[h])
    /\ finish(h, "reply")
    /\ UNCHANGED <<sessions, return, sessionVars, clientSocket, loopVars>>

-----------------------------------------------------------------------------
(* handleLogin, first half of loginUser: the row is read, the password is right. *)
handleLogin(h) ==
    /\ pc[h] = "LOGIN"
    /\ loginSelect(arg[h])
    /\ loginRole' = [loginRole EXCEPT ![h] = role[arg[h]]]
    /\ goto(h, "loginUpdate")
    /\ UNCHANGED <<sessions, dbVars, return, sessionVars, clientSocket, arg, msgId,
                   raced, loopVars>>

(* Mutated form: the previous session of the connection is not cleaned up. *)
loginCommitsNoCleanup(h) ==
    /\ pc[h] = "loginUpdate"
    /\ loginUpdate(arg[h])
    /\ goto(h, "addSession")
    /\ UNCHANGED <<sessions, return, sessionVars, clientSocket, requestVars, loopVars>>

(* handleLogin, second half of loginUser, and the call of cleanupSession. *)
loginCommits(h) ==
    /\ pc[h] = "loginUpdate"
    /\ loginUpdate(arg[h])
    /\ cleanupSession(h, "addSession")
    /\ UNCHANGED <<sessions, sessionVars, clientSocket, requestVars, loopVars>>

(* handleLogin, the rest: the fields are set, the session is registered. *)
loginRegisters(h) ==
    /\ pc[h] = "addSession"
    /\ userId' = [userId EXCEPT ![h] = arg[h]]
    /\ role_' = [role_ EXCEPT ![h] = loginRole[h]]
    /\ addSession(arg[h], h)
    /\ finish(h, "reply")
    /\ UNCHANGED <<dbVars, return, clientSocket, loopVars>>

handleLogout(h) ==
    /\ pc[h] = "LOGOUT"
    /\ cleanupSession(h, "reply")
    /\ UNCHANGED <<sessions, dbVars, sessionVars, clientSocket, requestVars, loopVars>>

(* cleanupSession, its first call.  A session that has left is owed nothing. *)
cleanupRemoves(h) ==
    /\ pc[h] = "removeSession"
    /\ removeSession(userId[h], h)
    /\ owed' = {o \in owed : o.session # h}
    /\ goto(h, "logoutUser")
    /\ UNCHANGED <<dbVars, return, sessionVars, clientSocket, requestVars, targets, untold>>

(* Mutated form: the user's row is left as it is. *)
cleanupLogsOutSilently(h) ==
    /\ pc[h] = "logoutUser"
    /\ userId' = [userId EXCEPT ![h] = NoUser]
    /\ role_' = [role_ EXCEPT ![h] = "none"]
    /\ goto(h, return[h])
    /\ return' = [return EXCEPT ![h] = "reply"]
    /\ UNCHANGED <<sessions, dbVars, clientSocket, requestVars, loopVars>>

(* cleanupSession, the rest: the user's row, then the fields of the session. *)
cleanupLogsOut(h) ==
    /\ pc[h] = "logoutUser"
    /\ logoutUser(userId[h]) \/ logoutUserFails(userId[h])
    /\ userId' = [userId EXCEPT ![h] = NoUser]
    /\ role_' = [role_ EXCEPT ![h] = "none"]
    /\ goto(h, return[h])
    /\ return' = [return EXCEPT ![h] = "reply"]
    /\ UNCHANGED <<sessions, clientSocket, requestVars, loopVars>>

-----------------------------------------------------------------------------
(* handleMessage, sendMessage up to its SELECT. *)
handleMessage(h) ==
    /\ pc[h] = "MESSAGE"
    /\ userId[h] # NoUser
    /\ sendMessageSelect(arg[h])
    /\ goto(h, "insertMessage")
    /\ UNCHANGED <<sessions, dbVars, return, sessionVars, clientSocket, requestVars,
                   loopVars>>

(* Mutated form: MESSAGE_OK without a commit. *)
messageNotCommitted(h) ==
    /\ pc[h] = "insertMessage"
    /\ sendMessageAborts
    /\ msgId' = [msgId EXCEPT ![h] = nextId]
    /\ goto(h, "deliverToUser")
    /\ UNCHANGED <<sessions, return, sessionVars, clientSocket, arg, loginRole, raced,
                   loopVars>>

(* The message is committed: every session the receiver has now is owed it. *)
storeMessage(h) ==
    /\ sendMessageInsert(userId[h], arg[h])
    /\ owed' = owed \cup
          {[id |-> nextId, session |-> t] : t \in {k \in Handlers : sessions[arg[h]][k] > 0}}

(* handleMessage, the rest of sendMessage. *)
messageStored(h) ==
    /\ pc[h] = "insertMessage"
    /\ storeMessage(h)
    /\ msgId' = [msgId EXCEPT ![h] = nextId]
    /\ goto(h, "deliverToUser")
    /\ UNCHANGED <<sessions, return, sessionVars, clientSocket, arg, loginRole, raced,
                   targets, untold>>

(* sendMessage throws after the INSERT: MESSAGE_ERROR. *)
messageAborted(h) ==
    /\ pc[h] = "insertMessage"
    /\ sendMessageAborts
    /\ finish(h, "reply")
    /\ UNCHANGED <<sessions, return, sessionVars, clientSocket, loopVars>>

(* Mutated form: one session of the receiver is picked. *)
deliverToOneSession(h) ==
    /\ pc[h] = "deliverToUser"
    /\ LET all == {t \in Handlers : sessions[arg[h]][t] > 0}
           one == CHOOSE t \in all : TRUE
       IN  targets' = [targets EXCEPT ![h] =
                         [t \in Handlers |-> IF all # {} /\ t = one THEN 1 ELSE 0]]
    /\ goto(h, "deliverFrame")
    /\ UNCHANGED <<sessions, dbVars, return, sessionVars, clientSocket, requestVars,
                   owed, untold>>

(* handleMessage: MESSAGE_OK is written, getUserByLogin finds the receiver and  *)
(* deliverToUser copies its vector.                                             *)
deliverToUser(h) ==
    /\ pc[h] = "deliverToUser"
    /\ writable(h)
    /\ targets' = [targets EXCEPT ![h] = copyHandlers(arg[h])]
    /\ goto(h, "deliverFrame")
    /\ UNCHANGED <<sessions, dbVars, return, sessionVars, clientSocket, requestVars,
                   owed, untold>>

(* MESSAGE_OK is written and getUserByLogin fails: the message is stored, and   *)
(* none of the receiver's sessions is told.                                     *)
receiverLookupFails(h) ==
    /\ pc[h] = "deliverToUser"
    /\ writable(h)
    /\ untold' = untold \cup {msgId[h]}
    /\ finish(h, "recv")
    /\ UNCHANGED <<sessions, dbVars, return, sessionVars, clientSocket, targets, owed>>

(* Mutated form: the loop does not advance. *)
deliverFrameForever(h, t) ==
    /\ pc[h] = "deliverFrame"
    /\ targets[h][t] > 0
    /\ owed' = owed \ {[id |-> msgId[h], session |-> t]}
    /\ UNCHANGED <<sessions, dbVars, pc, return, sessionVars, clientSocket, requestVars,
                   targets, untold>>

(* One round of deliverToUser's loop.  The result of deliverFrame is not used. *)
deliverFrame(h, t) ==
    /\ pc[h] = "deliverFrame"
    /\ targets[h][t] > 0
    /\ writable(t)
    /\ targets' = [targets EXCEPT ![h][t] = @ - 1]
    /\ owed' = owed \ {[id |-> msgId[h], session |-> t]}
    /\ UNCHANGED <<sessions, dbVars, pc, return, sessionVars, clientSocket, requestVars,
                   untold>>

-----------------------------------------------------------------------------
(* Mutated form: the role cached at the login is believed. *)
requireModeratorCached(h) ==
    /\ userId[h] # NoUser
    /\ role_[h] \in ModeratorRoles

requireModerator(h) ==
    /\ userId[h] # NoUser
    /\ role_[h] \in ModeratorRoles
    /\ hasModeratorRights(userId[h])

AfterCheck == [BAN |-> "banUser", UNBAN |-> "unbanUser", KICK |-> "kickUser"]

(* handleBan, handleUnban and handleKick up to their own transaction. *)
handleModeration(h) ==
    /\ pc[h] \in DOMAIN AfterCheck
    /\ requireModerator(h)
    /\ goto(h, AfterCheck[pc[h]])
    /\ UNCHANGED <<sessions, dbVars, return, sessionVars, clientSocket, requestVars,
                   loopVars>>

banCommits(h) ==
    /\ pc[h] = "banUser"
    /\ banUser(arg[h])
    /\ goto(h, "disconnectUser")
    /\ UNCHANGED <<sessions, return, sessionVars, clientSocket, requestVars, loopVars>>

unbanCommits(h) ==
    /\ pc[h] = "unbanUser"
    /\ unbanUser(arg[h])
    /\ finish(h, "reply")
    /\ UNCHANGED <<sessions, return, sessionVars, clientSocket, loopVars>>

kickCommits(h) ==
    /\ pc[h] = "kickUser"
    /\ kickUser(arg[h])
    /\ goto(h, "disconnectUser")
    /\ UNCHANGED <<sessions, return, sessionVars, clientSocket, requestVars, loopVars>>

disconnectUser(h) ==
    /\ pc[h] = "disconnectUser"
    /\ targets' = [targets EXCEPT ![h] = copyHandlers(arg[h])]
    /\ goto(h, "disconnectFromAdmin")
    /\ UNCHANGED <<sessions, dbVars, return, sessionVars, clientSocket, requestVars,
                   owed, untold>>

(* One round of disconnectUser's loop: KICKED is sent, the socket is closed.    *)
(* The object at t may be destroyed, or another one may have been built there:  *)
(* then the call lands on whatever is there (or the process dies: crash in Server).  *)
disconnectFromAdmin(h, t) ==
    /\ pc[h] = "disconnectFromAdmin"
    /\ targets[h][t] > 0
    /\ writable(t)
    /\ targets' = [targets EXCEPT ![h][t] = @ - 1]
    /\ clientSocket' = [clientSocket EXCEPT ![t] = "closed"]
    /\ UNCHANGED <<sessions, dbVars, pc, return, sessionVars, requestVars,
                   owed, untold>>

(* The end of either loop.  BAN and KICK are answered after it, MESSAGE was before. *)
loopEnds(h) ==
    /\ pc[h] \in {"deliverFrame", "disconnectFromAdmin"}
    /\ targets[h] = NoHandlers
    /\ finish(h, IF pc[h] = "deliverFrame" THEN "recv" ELSE "reply")
    /\ UNCHANGED <<sessions, dbVars, return, sessionVars, clientSocket, loopVars>>

(* commit() throws although PostgreSQL has committed (pqxx::in_doubt_error): the *)
(* method returns "database error" and the handler answers with an error, so a  *)
(* login is not registered, a message not delivered, a session not closed.  (For *)
(* REGISTER, LOGOUT and UNBAN the state is that of their ordinary success.)     *)
commitInDoubt(h) ==
    /\ CommitsInDoubt
    /\ \/ pc[h] = "loginUpdate" /\ loginUpdateInDoubt(arg[h]) /\ UNCHANGED loopVars
       \/ pc[h] = "banUser" /\ banUser(arg[h]) /\ UNCHANGED loopVars
       \/ pc[h] = "kickUser" /\ kickUser(arg[h]) /\ UNCHANGED loopVars
       \/ /\ pc[h] = "insertMessage" /\ storeMessage(h)
          /\ untold' = untold \cup {nextId}
          /\ UNCHANGED targets
    /\ finish(h, "reply")
    /\ UNCHANGED <<sessions, return, sessionVars, clientSocket>>

-----------------------------------------------------------------------------
(* ~ClientHandler: its own cleanupSession finds the session logged out already. *)
destroyHandler(h) ==
    /\ pc[h] = "destroy"
    /\ clientSocket' = [clientSocket EXCEPT ![h] = "closed"]
    /\ goto(h, "ended")
    /\ UNCHANGED <<sessions, dbVars, return, sessionVars, requestVars, loopVars>>

(* What the thread of h does of its own accord, once it has read a frame. *)
handlerStep(h) ==
    \/ refuse(h) \/ reply(h)
    \/ handleRegister(h)
    \/ handleLogin(h) \/ loginCommits(h) \/ loginRegisters(h)
    \/ handleLogout(h) \/ cleanupRemoves(h) \/ cleanupLogsOut(h)
    \/ handleMessage(h) \/ messageStored(h) \/ messageAborted(h)
    \/ deliverToUser(h) \/ receiverLookupFails(h)
    \/ handleModeration(h) \/ banCommits(h) \/ unbanCommits(h) \/ kickCommits(h)
    \/ disconnectUser(h)
    \/ commitInDoubt(h)
    \/ \E t \in Handlers : deliverFrame(h, t) \/ disconnectFromAdmin(h, t)
    \/ loopEnds(h)
    \/ destroyHandler(h)
=============================================================================
