------------------------------- MODULE Server -------------------------------
(***************************************************************************)
(* The server process: the accept loop of Server.cpp, the handler threads  *)
(* it starts (module ClientHandler), the registry and the database they    *)
(* share, and what happens to the whole from outside: the process dies and *)
(* is started again, and an administrator changes a role in psql.          *)
(***************************************************************************)
EXTENDS ClientHandler, Integers, FiniteSets

CONSTANTS
    MaxClients,     \* config_.maxClients
    ProcessDies,    \* whether the process may die
    NewRoles        \* bound: the roles an administrator gives in psql

ASSUME ServerAssumption ==
    MaxClients \in Nat /\ ProcessDies \in BOOLEAN /\ NewRoles \subseteq Roles

VARIABLE activeClients  \* activeClients_

vars == <<sessions, dbVars, handlerVars, activeClients>>

TypeOK ==
    /\ SessionsTypeOK
    /\ DatabaseTypeOK
    /\ HandlersTypeOK
    /\ activeClients \in Nat

Init ==
    /\ SessionsInit
    /\ DatabaseInit
    /\ HandlersInit
    /\ activeClients = 0

-----------------------------------------------------------------------------
(* Mutated form: the limit is off by one. *)
acceptOneTooMany(h) ==
    /\ pc[h] = "free"
    /\ activeClients <= MaxClients
    /\ activeClients' = activeClients + 1
    /\ goto(h, "recv")
    /\ clientSocket' = [clientSocket EXCEPT ![h] = "open"]
    /\ UNCHANGED <<sessions, dbVars, return, sessionVars, requestVars, loopVars>>

(* start: a connection below the limit gets a thread and a handler at h.  One   *)
(* above it is answered ERROR_SERVER_BUSY and closed, which changes nothing.    *)
accept(h) ==
    /\ pc[h] = "free"
    /\ activeClients < MaxClients
    /\ activeClients' = activeClients + 1
    /\ goto(h, "recv")
    /\ clientSocket' = [clientSocket EXCEPT ![h] = "open"]
    /\ UNCHANGED <<sessions, dbVars, return, sessionVars, requestVars, loopVars>>

(* Mutated form: the catch block counts the client out as well. *)
threadEndsTwice(h) ==
    /\ pc[h] = "ended"
    /\ activeClients' = activeClients - 2
    /\ goto(h, "free")
    /\ UNCHANGED <<sessions, dbVars, return, sessionVars, clientSocket, requestVars,
                   loopVars>>

(* The thread's last statement: the handler has been destroyed. *)
threadEnds(h) ==
    /\ pc[h] = "ended"
    /\ activeClients' = activeClients - 1
    /\ goto(h, "free")
    /\ UNCHANGED <<sessions, dbVars, return, sessionVars, clientSocket, requestVars,
                   loopVars>>

(* The process dies and is started again: memory is lost, the rows stay, and   *)
(* no code of Server's or Database's constructor looks at them.                *)
crash ==
    /\ ProcessDies
    /\ sessions' = NoSessions
    /\ handlersLost
    /\ activeClients' = 0
    /\ orphaned' = {u \in Users : status[u] = "online"}
    /\ UNCHANGED <<status, role, audit, messages, nextId>>

(* UPDATE chat.users SET role = ... in psql. *)
changeRole(u, r) ==
    /\ setRole(u, r)
    /\ raced' = raced \cup {h \in Handlers : userId[h] = u /\ pc[h] \in ModeratorPoints}
    /\ UNCHANGED <<sessions, pc, return, sessionVars, clientSocket, arg, loginRole,
                   msgId, loopVars, activeClients>>

threadStep(h) ==
    \/ receiveFrame(h) /\ UNCHANGED activeClients
    \/ leaveRun(h) /\ UNCHANGED activeClients
    \/ handlerStep(h) /\ UNCHANGED activeClients
    \/ peerStalls(h) /\ UNCHANGED activeClients
    \/ threadEnds(h)

Next ==
    \/ \E h \in Handlers : accept(h) \/ threadStep(h)
    \/ crash
    \/ \E u \in Users, r \in NewRoles : changeRole(u, r)

(* The operating system schedules every thread that can run, and shutdown() in  *)
(* closeSocket wakes a thread blocked in recv.  Nothing makes a client send a   *)
(* frame, connect or leave, or read what it is sent: a step that writes to a    *)
(* stalled peer is not enabled.                                                 *)
Fairness ==
    \A h \in Handlers :
        /\ WF_vars(handlerStep(h) /\ UNCHANGED activeClients)
        /\ WF_vars(threadEnds(h))
        /\ WF_vars(clientSocket[h] = "closed" /\ leaveRun(h) /\ UNCHANGED activeClients)

Spec == Init /\ [][Next]_vars

FairSpec == Spec /\ Fairness

-----------------------------------------------------------------------------
(* What a thread's place in the code says about its session and its command. *)
IdlePoints == {"free", "recv", "reply", "LOGOUT", "destroy", "ended"}

ControlOK ==
    \A h \in Handlers :
        /\ pc[h] \in IdlePoints => arg[h] = NoUser
        /\ pc[h] \notin IdlePoints \cup CleanupPoints => arg[h] \in Users
        /\ pc[h] \in CleanupPoints =>
              userId[h] \in Users /\ (arg[h] \in Users <=> return[h] = "addSession")
        /\ pc[h] \in {"free", "destroy", "ended", "addSession"} => userId[h] = NoUser
        /\ pc[h] \in {"insertMessage"} \cup DeliveryPoints \cup ModeratorPoints
              => userId[h] \in Users

(* activeClients_ counts the threads. *)
Threads == {h \in Handlers : pc[h] # "free"}

CountOK ==
    /\ IsFiniteSet(Threads)
    /\ activeClients = Cardinality(Threads)
    /\ activeClients <= MaxClients

(* The registry holds a handler once, under the user its connection is logged   *)
(* in as, and holds nothing else: no second entry after a second LOGIN, no      *)
(* entry of a previous user, no pointer to a handler that has been destroyed.   *)
(* It rests on handleLogin's cleanupSession before addSession and on run()'s    *)
(* cleanupSession before the destructor.                                        *)
RegistryExact ==
    \A u \in Users, h \in Handlers :
        sessions[u][h] = IF userId[h] = u /\ pc[h] # "logoutUser" THEN 1 ELSE 0

(* h answers for u being "online": its session is u's, or its LOGIN has committed. *)
Serves(h, u) ==
    \/ userId[h] = u
    \/ arg[h] = u /\ pc[h] \in {"removeSession", "logoutUser", "addSession"}

(* A user is shown "online" only while a connection of that user exists or is   *)
(* being logged in, unless the logout that should have said so was lost in a    *)
(* database error or a crash, or its LOGIN was committed but reported as failed: *)
(* cleanupSession runs on every way out of a session.                           *)
NoGhostOnline ==
    \A u \in Users :
        status[u] = "online" => u \in orphaned \/ \E h \in Handlers : Serves(h, u)

(* A session of the receiver that was registered when a message was committed,  *)
(* and has been ever since, lacks the message only while handleMessage is still *)
(* at its delivery: one session that leaves, joins or has a dead socket costs   *)
(* the others nothing.  The code has two exceptions, the messages in untold:    *)
(* getUserByLogin failed after MESSAGE_OK, or the COMMIT was done and reported  *)
(* as an error.                                                                 *)
Delivering(h, id) == pc[h] \in DeliveryPoints /\ msgId[h] = id

DeliveredToAllActive ==
    \A o \in owed : o.id \in untold \/ \E h \in Handlers : Delivering(h, o.id)

(* What handleMessage announces to the receiver is in chat.messages, under the  *)
(* id of MESSAGE_OK, from this sender to this receiver.                         *)
DeliveredIsStored ==
    \A h \in Handlers : pc[h] \in DeliveryPoints =>
        [id |-> msgId[h], sender |-> userId[h], receiver |-> arg[h]] \in messages

(* A moderation command runs its transaction only for a user whose row gave     *)
(* the right when it was checked: a role revoked in psql during the session     *)
(* counts, whatever role_ was cached at the login.  (raced: the role changed    *)
(* between the check and the transaction.)                                      *)
ModeratorsOnly ==
    \A h \in Handlers :
        pc[h] \in ModeratorPoints => hasModeratorRights(userId[h]) \/ h \in raced

(* The number of handlers alive never exceeds maxClients: a slot is given back  *)
(* only after the handler that used it has been destroyed.                      *)
ClientLimit ==
    Cardinality({h \in Handlers : pc[h] \notin {"free", "ended"}}) <= MaxClients

(* A ban ends by UNBAN, or by a LOGIN that had read the row before the ban: not *)
(* by the logout of a session that the ban disconnects, not by KICK, not by a   *)
(* restart.                                                                     *)
BanLifted(u) ==
    \/ \E h \in Handlers : pc[h] = "unbanUser" /\ arg[h] = u /\ audit'[u] = "unban"
    \/ \E h \in Handlers : pc[h] = "loginUpdate" /\ arg[h] = u /\ status'[u] = "online"

BanOutlivesSessions ==
    [][\A u \in Users :
          status[u] = "banned" /\ status'[u] # "banned" => BanLifted(u)]_vars

-----------------------------------------------------------------------------
(* h has come to a send() to a peer that has stopped reading: its own, for a    *)
(* reply, or that of a connection its loop has yet to visit.                    *)
Waits(h) ==
    \/ pc[h] \in {"reply", "deliverToUser"} /\ ~writable(h)
    \/ /\ pc[h] \in {"deliverFrame", "disconnectFromAdmin"}
       /\ \E t \in Handlers : targets[h][t] > 0 /\ ~writable(t)

(* Every handle* method returns, unless it has to write to a peer that has      *)
(* stopped reading: such a peer holds up nobody else, because no lock that      *)
(* others need is held during a send.                                           *)
CommandsFinish ==
    \A h \in Handlers : pc[h] # "free" ~> pc[h] \in {"recv", "free"} \/ Waits(h)

(* A connection that an admin disconnected gives its slot back, unless its      *)
(* thread is held up in a loop over other connections.                          *)
KickedLeaves ==
    \A h \in Handlers : clientSocket[h] = "closed" ~> pc[h] = "free" \/ Waits(h)

-----------------------------------------------------------------------------
(* What the documentation promises and the interleavings do not keep.           *)

(* README: "Admin commands: ... ban".  When nobody is at work on u, a user whom  *)
(* the audit log shows as banned has that status, and has no session that still *)
(* reads commands.                                                              *)
BanTakesEffect ==
    \A u \in Users :
        audit[u] = "ban" /\ (\A k \in Handlers : arg[k] # u) =>
            /\ status[u] = "banned"
            /\ \A h \in Handlers :
                  userId[h] = u /\ pc[h] = "recv" => clientSocket[h] = "closed"

(* README: "Online/offline/banned statuses", "Multiple active sessions for one  *)
(* user are allowed".  A user with a live session and no command in progress is *)
(* "online".                                                                    *)
SessionIsOnline ==
    \A u \in Users, h \in Handlers :
        userId[h] = u /\ pc[h] = "recv" /\ clientSocket[h] = "open" => status[u] = "online"

(* README: "online delivery is sent to all active sessions" of the user.  A     *)
(* frame addressed to a user goes to a connection logged in as that user, or    *)
(* to one that is not logged in any more.                                       *)
DeliveredOnlyToReceiver ==
    [][\A h, t \in Handlers :
          pc[h] = "deliverFrame" /\ targets'[h][t] < targets[h][t]
          => userId[t] \in {arg[h], NoUser}]_vars
=============================================================================
