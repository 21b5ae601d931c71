------------------------ MODULE ServerDeliveryProofs ------------------------
(* Theorems about the commands of the server: what MESSAGE stores and delivers, *)
(* and who may moderate, for every set of users, handlers and bounds.           *)
EXTENDS ServerProofs

(* Only sendMessage touches chat.messages, and it adds a row. *)
LEMMA MessagesStep ==
    ASSUME [Next]_vars
    PROVE  messages \subseteq messages'
  <1> USE DEF dbVars
  <1>1. ASSUME NEW h \in Handlers, handlerStep(h)
        PROVE  \/ messages' = messages
               \/ \E u, v : sendMessageInsert(u, v)
    <2>1. CASE cleanupLogsOut(h)
      BY <2>1 DEF cleanupLogsOut, logoutUser, logoutUserFails, setOffline
    <2>2. CASE commitInDoubt(h)
      BY <2>2 DEF commitInDoubt, storeMessage, loginUpdateInDoubt, banUser, kickUser,
                  setOffline
    <2>3. CASE messageStored(h)
      BY <2>3 DEF messageStored, storeMessage
    <2>4. CASE ~ cleanupLogsOut(h) /\ ~ commitInDoubt(h) /\ ~ messageStored(h)
      BY <1>1, <2>4
         DEF handlerStep, refuse, reply, handleRegister, registerUser, handleLogin,
             loginCommits, loginUpdate, loginRegisters, handleLogout, cleanupRemoves,
             handleMessage, messageAborted, sendMessageAborts, deliverToUser,
             receiverLookupFails, handleModeration, banCommits, banUser, unbanCommits,
             unbanUser, kickCommits, kickUser, setOffline, disconnectUser, deliverFrame,
             disconnectFromAdmin, loopEnds, destroyHandler
    <2> QED
      BY <2>1, <2>2, <2>3, <2>4
  <1>2. CASE \E h \in Handlers : handlerStep(h)
    BY <1>1, <1>2 DEF sendMessageInsert
  <1>3. CASE ~ \E h \in Handlers : handlerStep(h)
    BY <1>3 DEF Next, threadStep, accept, receiveFrame, leaveRun, peerStalls, threadEnds,
                crash, changeRole, setRole, vars
  <1> QED
    BY <1>2, <1>3

-----------------------------------------------------------------------------
(* A thread is at a delivery after a step only because it stored its message in *)
(* that step, or because it was at a delivery before, of the same message.      *)
LEMMA DeliveryStep ==
    ASSUME IndInv, NEW h \in Handlers, handlerStep(h),
           NEW k \in Handlers, pc'[k] \in DeliveryPoints
    PROVE  \/ k = h /\ messageStored(h)
           \/ /\ pc[k] \in DeliveryPoints
              /\ pc'[k] = pc[k] \/ (k = h /\ deliverToUser(h))
              /\ arg'[k] = arg[k] /\ msgId'[k] = msgId[k] /\ userId'[k] = userId[k]
  <1> USE DEF IndInv, TypeOK, HandlersTypeOK, DeliveryPoints
  <1>1. CASE loginRegisters(h)
    BY <1>1 DEF loginRegisters, finish, goto
  <1>2. CASE cleanupRemoves(h)
    BY <1>2 DEF cleanupRemoves, goto, sessionVars, requestVars
  <1>3. CASE cleanupLogsOut(h)
    BY <1>3 DEF cleanupLogsOut, goto, requestVars, ReturnPoints
  <1>4. CASE ~ loginRegisters(h) /\ ~ cleanupRemoves(h) /\ ~ cleanupLogsOut(h)
    <2>1. userId' = userId
      BY <1>4, QuietSteps
    <2>2. CASE messageStored(h)
      BY <2>1, <2>2 DEF messageStored, goto
    <2>3. CASE deliverToUser(h)
      BY <2>1, <2>3 DEF deliverToUser, goto, requestVars
    <2>4. CASE ~ messageStored(h) /\ ~ deliverToUser(h)
      BY <1>4, <2>1, <2>4
         DEF handlerStep, refuse, reply, handleRegister, handleLogin, loginCommits,
             handleLogout, handleMessage, messageAborted, receiverLookupFails,
             handleModeration, banCommits, unbanCommits, kickCommits, disconnectUser,
             deliverFrame, disconnectFromAdmin, loopEnds, destroyHandler, commitInDoubt,
             goto, finish, cleanupSession, AfterCheck, requestVars
    <2> QED
      BY <2>2, <2>3, <2>4
  <1> QED
    BY <1>1, <1>2, <1>3, <1>4

LEMMA NextDelivered == IndInv /\ DeliveredIsStored /\ [Next]_vars => DeliveredIsStored'
  <1> SUFFICES ASSUME IndInv, DeliveredIsStored, [Next]_vars,
                      NEW k \in Handlers, pc'[k] \in DeliveryPoints
               PROVE  [id |-> msgId'[k], sender |-> userId'[k], receiver |-> arg'[k]]
                        \in messages'
    BY DEF DeliveredIsStored, DeliveryPoints
  <1> USE DEF IndInv, TypeOK, HandlersTypeOK, DeliveryPoints
  <1>1. messages \subseteq messages'
    BY MessagesStep
  <1>2. ASSUME NEW h \in Handlers, messageStored(h), k = h
        PROVE  [id |-> msgId'[k], sender |-> userId'[k], receiver |-> arg'[k]] \in messages'
    BY <1>2 DEF messageStored, storeMessage, sendMessageInsert, sessionVars
  <1>3. CASE /\ pc[k] \in DeliveryPoints
             /\ arg'[k] = arg[k] /\ msgId'[k] = msgId[k] /\ userId'[k] = userId[k]
    BY <1>1, <1>3 DEF DeliveredIsStored
  <1>4. ASSUME NEW h \in Handlers, handlerStep(h)
        PROVE  \/ k = h /\ messageStored(h)
               \/ /\ pc[k] \in DeliveryPoints
                  /\ arg'[k] = arg[k] /\ msgId'[k] = msgId[k] /\ userId'[k] = userId[k]
    BY <1>4, DeliveryStep
  <1>5. CASE ~ \E h \in Handlers : handlerStep(h)
    <2>1. ASSUME NEW h \in Handlers, accept(h)
          PROVE  /\ pc[k] \in DeliveryPoints
                 /\ arg'[k] = arg[k] /\ msgId'[k] = msgId[k] /\ userId'[k] = userId[k]
      BY <2>1 DEF accept, goto, sessionVars, requestVars
    <2>2. ASSUME NEW h \in Handlers, threadStep(h)
          PROVE  /\ pc[k] \in DeliveryPoints
                 /\ arg'[k] = arg[k] /\ msgId'[k] = msgId[k] /\ userId'[k] = userId[k]
      BY <1>5, <2>2, CommandsAssumption
         DEF threadStep, receiveFrame, leaveRun, peerStalls, threadEnds, cleanupSession,
             goto, AllCommands, sessionVars, requestVars
    <2>3. CASE crash
      BY <2>3 DEF crash, handlersLost
    <2>4. ASSUME NEW u \in Users, NEW r \in NewRoles, changeRole(u, r)
          PROVE  /\ pc[k] \in DeliveryPoints
                 /\ arg'[k] = arg[k] /\ msgId'[k] = msgId[k] /\ userId'[k] = userId[k]
      BY <2>4 DEF changeRole, sessionVars
    <2>5. CASE UNCHANGED vars
      BY <1>3, <2>5 DEF vars, handlerVars, sessionVars, requestVars
    <2> QED
      BY <1>3, <2>1, <2>2, <2>3, <2>4, <2>5 DEF Next
  <1> QED
    BY <1>2, <1>3, <1>4, <1>5

(* A message is announced to its receiver only after it is in chat.messages,    *)
(* with the id, the sender and the receiver that the announcement carries,      *)
(* whatever the other threads do to the session in between.                     *)
THEOREM AnnouncedIsStored == Spec => []DeliveredIsStored
  <1>1. Init => DeliveredIsStored
    BY DEF Init, HandlersInit, DeliveredIsStored, DeliveryPoints
  <1> QED
    BY <1>1, NextDelivered, Inductive, PTL DEF Spec

-----------------------------------------------------------------------------
(* The strengthening that DeliveredToAllActive needs: before deliverToUser      *)
(* copies the receiver's vector, a session that is owed the frame is in the     *)
(* vector, and afterwards it is in what the loop has yet to visit.              *)
Holds(h, o) ==
    /\ msgId[h] = o.id
    /\ \/ pc[h] = "deliverToUser" /\ sessions[arg[h]][o.session] > 0
       \/ pc[h] = "deliverFrame" /\ targets[h][o.session] > 0

OwedOK == \A o \in owed : o.id \in untold \/ \E h \in Handlers : Holds(h, o)

(* What one step of a thread does to a frame that is owed to a session and that *)
(* thread k holds: k goes on holding it, or the frame has been offered, or the  *)
(* session has left, or k has given the message up.                             *)
LEMMA HoldsKept ==
    ASSUME IndInv, NEW h \in Handlers, handlerStep(h), NEW k \in Handlers,
           NEW o \in owed, o \in owed', Holds(k, o)
    PROVE  Holds(k, o)' \/ o.id \in untold'
  <1> USE DEF IndInv, TypeOK, SessionsTypeOK, HandlersTypeOK, Holds, requestVars, loopVars,
              goto, finish
  <1>1. arg[k] \in Users \/ pc[k] = "deliverFrame"
    BY DEF ControlOK, IdlePoints, CleanupPoints
  <1>2. CASE deliverToUser(h)
    BY <1>2 DEF deliverToUser, copyHandlers
  <1>3. CASE receiverLookupFails(h)
    BY <1>3 DEF receiverLookupFails
  <1>4. ASSUME NEW t \in Handlers, deliverFrame(h, t) PROVE Holds(k, o)'
    <2>1. k = h => o.session # t
      BY <1>4 DEF deliverFrame
    <2> QED
      BY <1>4, <2>1 DEF deliverFrame
  <1>5. ASSUME NEW t \in Handlers, disconnectFromAdmin(h, t) PROVE Holds(k, o)'
    BY <1>5 DEF disconnectFromAdmin
  <1>6. CASE disconnectUser(h)
    BY <1>6 DEF disconnectUser
  <1>7. CASE loopEnds(h)
    BY <1>7 DEF loopEnds, NoHandlers
  <1>8. CASE loginRegisters(h)
    <2>1. \A u \in Users, t \in Handlers : sessions[u][t] > 0 => sessions'[u][t] > 0
      BY <1>8 DEF loginRegisters, addSession
    <2> QED
      BY <1>1, <1>8, <2>1 DEF loginRegisters
  <1>9. CASE cleanupRemoves(h)
    <2>1. \A u \in Users, t \in Handlers : t # h => sessions'[u][t] = sessions[u][t]
      BY <1>9 DEF cleanupRemoves, removeSession
    <2>2. o.session # h
      BY <1>9 DEF cleanupRemoves
    <2> QED
      BY <1>1, <1>9, <2>1, <2>2 DEF cleanupRemoves
  <1>10. CASE cleanupLogsOut(h)
    BY <1>10 DEF cleanupLogsOut
  <1>11. CASE loginCommits(h) \/ handleLogout(h)
    BY <1>11 DEF loginCommits, handleLogout, cleanupSession
  <1>12. CASE messageStored(h)
    BY <1>12 DEF messageStored
  <1>13. CASE \/ refuse(h) \/ reply(h) \/ handleRegister(h) \/ handleLogin(h)
              \/ handleMessage(h) \/ messageAborted(h) \/ handleModeration(h)
              \/ banCommits(h) \/ unbanCommits(h) \/ kickCommits(h) \/ commitInDoubt(h)
              \/ destroyHandler(h)
    BY <1>13 DEF refuse, reply, handleRegister, handleLogin, handleMessage,
                 messageAborted, handleModeration, AfterCheck, banCommits, unbanCommits,
                 kickCommits, commitInDoubt, destroyHandler, AllCommands, ModeratorPoints
  <1> QED
    BY <1>2, <1>3, <1>4, <1>5, <1>6, <1>7, <1>8, <1>9, <1>10, <1>11, <1>12, <1>13
       DEF handlerStep

(* A frame becomes owed when its message is stored, and no message is ever told *)
(* again that was given up.                                                     *)
LEMMA OwedStep ==
    ASSUME IndInv, NEW h \in Handlers, handlerStep(h), NEW o \in owed'
    PROVE  /\ untold \subseteq untold'
           /\ o \in owed \/ Holds(h, o)' \/ o.id \in untold'
  <1> USE DEF IndInv, loopVars
  <1>1. CASE messageStored(h)
    <2>1. CASE o \in owed
      BY <1>1, <2>1 DEF messageStored
    <2>2. CASE o \notin owed
      <3>1. o.id = nextId /\ sessions[arg[h]][o.session] > 0
        BY <1>1, <2>2 DEF messageStored, storeMessage
      <3> QED
        BY <1>1, <3>1 DEF messageStored, Holds, goto, TypeOK, HandlersTypeOK
    <2> QED
      BY <2>1, <2>2
  <1>2. CASE commitInDoubt(h)
    BY <1>2 DEF commitInDoubt, storeMessage
  <1>3. CASE ~ messageStored(h) /\ ~ commitInDoubt(h)
    BY <1>3
       DEF handlerStep, refuse, reply, handleRegister, handleLogin, loginCommits,
           loginRegisters, handleLogout, cleanupRemoves, cleanupLogsOut, handleMessage,
           messageAborted, deliverToUser, receiverLookupFails, handleModeration,
           banCommits, unbanCommits, kickCommits, disconnectUser, deliverFrame,
           disconnectFromAdmin, loopEnds, destroyHandler
  <1> QED
    BY <1>1, <1>2, <1>3

LEMMA NextOwed == IndInv /\ OwedOK /\ [Next]_vars => OwedOK'
  <1> SUFFICES ASSUME IndInv, OwedOK, [Next]_vars PROVE OwedOK'
    OBVIOUS
  <1> USE DEF IndInv, TypeOK, SessionsTypeOK, HandlersTypeOK, sessionVars, requestVars,
              loopVars
  <1>1. ASSUME NEW h \in Handlers, handlerStep(h) PROVE OwedOK'
    <2> SUFFICES ASSUME NEW o \in owed', o.id \notin untold'
                 PROVE  \E k \in Handlers : Holds(k, o)'
      BY DEF OwedOK, Holds
    <2>1. CASE Holds(h, o)'
      BY <2>1
    <2>2. CASE o \in owed /\ o.id \notin untold
      <3>1. PICK k \in Handlers : Holds(k, o)
        BY <2>2 DEF OwedOK
      <3> QED
        BY <1>1, <2>2, <3>1, HoldsKept
    <2> QED
      BY <1>1, <2>1, <2>2, OwedStep
  <1>2. ASSUME NEW h \in Handlers, accept(h) PROVE OwedOK'
    BY <1>2 DEF accept, goto, OwedOK, Holds
  <1>3. ASSUME NEW h \in Handlers, threadStep(h) PROVE OwedOK'
    <2>1. CASE receiveFrame(h)
      BY <2>1 DEF receiveFrame, goto, OwedOK, Holds
    <2>2. CASE leaveRun(h)
      BY <2>2 DEF leaveRun, cleanupSession, goto, OwedOK, Holds
    <2>3. CASE threadEnds(h)
      BY <2>3 DEF threadEnds, goto, OwedOK, Holds
    <2>4. CASE peerStalls(h)
      BY <2>4 DEF peerStalls, OwedOK, Holds
    <2> QED
      BY <1>1, <1>3, <2>1, <2>2, <2>3, <2>4 DEF threadStep
  <1>4. CASE crash
    BY <1>4 DEF crash, handlersLost, OwedOK
  <1>5. ASSUME NEW u \in Users, NEW r \in NewRoles, changeRole(u, r) PROVE OwedOK'
    BY <1>5 DEF changeRole, OwedOK, Holds
  <1>6. CASE UNCHANGED vars
    BY <1>6 DEF vars, handlerVars, OwedOK, Holds
  <1> QED
    BY <1>2, <1>3, <1>4, <1>5, <1>6 DEF Next

(* A session that the receiver had when a message was committed, and has had    *)
(* ever since, is offered the frame before handleMessage returns: for any       *)
(* number of sessions that log in, log out or are kicked during the delivery.   *)
(* The exceptions are the two of the code: getUserByLogin failed after          *)
(* MESSAGE_OK, or a COMMIT was done and reported as an error; such a message is *)
(* stored and delivered to nobody.                                              *)
THEOREM DeliveryComplete == Spec => []DeliveredToAllActive
  <1>1. Init => OwedOK
    BY DEF Init, HandlersInit, OwedOK
  <1>2. OwedOK => DeliveredToAllActive
    BY DEF OwedOK, Holds, DeliveredToAllActive, Delivering, DeliveryPoints
  <1> QED
    BY <1>1, <1>2, NextOwed, Inductive, PTL DEF Spec

-----------------------------------------------------------------------------
(* The strengthening that ModeratorsOnly needs, because REGISTER gives the row  *)
(* it inserts the role "user": a user who has a session, or is being logged in, *)
(* has a row already.                                                           *)
KnownUsers ==
    \A h \in Handlers :
        /\ userId[h] \in Users => status[userId[h]] # "absent"
        /\ pc[h] \in {"loginUpdate", "addSession"} \cup CleanupPoints /\ arg[h] \in Users
              => status[arg[h]] # "absent"

(* A row of chat.users is never deleted, and only REGISTER and psql change a    *)
(* role, REGISTER only that of a row it has just inserted.                      *)
LEMMA RowsStay ==
    ASSUME IndInv, [Next]_vars, NEW u \in Users, status[u] # "absent"
    PROVE  /\ status'[u] # "absent"
           /\ (\E r \in NewRoles : changeRole(u, r)) \/ role'[u] = role[u]
  <1> USE DEF IndInv, TypeOK, DatabaseTypeOK, dbVars
  <1>1. ASSUME NEW h \in Handlers, handlerStep(h)
        PROVE  status'[u] # "absent" /\ role'[u] = role[u]
    <2>1. CASE handleRegister(h)
      BY <2>1 DEF handleRegister, registerUser
    <2>2. CASE cleanupLogsOut(h)
      BY <2>2 DEF cleanupLogsOut, logoutUser, logoutUserFails, setOffline
    <2>3. CASE commitInDoubt(h)
      BY <2>3 DEF commitInDoubt, loginUpdateInDoubt, storeMessage, sendMessageInsert, banUser,
                  kickUser, setOffline
    <2>4. CASE ~ handleRegister(h) /\ ~ cleanupLogsOut(h) /\ ~ commitInDoubt(h)
      BY <1>1, <2>4
         DEF handlerStep, refuse, reply, handleLogin, loginCommits, loginUpdate,
             loginRegisters, handleLogout, cleanupRemoves, handleMessage, messageStored,
             storeMessage, sendMessageInsert, messageAborted, sendMessageAborts, deliverToUser,
             receiverLookupFails, handleModeration, banCommits, banUser, unbanCommits,
             unbanUser, kickCommits, kickUser, setOffline, disconnectUser, deliverFrame,
             disconnectFromAdmin, loopEnds, destroyHandler
    <2> QED
      BY <2>1, <2>2, <2>3, <2>4
  <1>2. ASSUME NEW v \in Users, NEW r \in NewRoles, changeRole(v, r)
        PROVE  /\ status'[u] # "absent"
               /\ (\E x \in NewRoles : changeRole(u, x)) \/ role'[u] = role[u]
    <2>1. CASE u = v
      BY <1>2, <2>1 DEF changeRole, setRole
    <2>2. CASE u # v
      BY <1>2, <2>2 DEF changeRole, setRole
    <2> QED
      BY <2>1, <2>2
  <1>3. CASE ~ \E h \in Handlers : handlerStep(h)
    BY <1>2, <1>3 DEF Next, threadStep, accept, receiveFrame, leaveRun, peerStalls,
                      threadEnds, crash, vars
  <1> QED
    BY <1>1, <1>3

LEMMA NextKnown == IndInv /\ KnownUsers /\ [Next]_vars => KnownUsers'
  <1> SUFFICES ASSUME IndInv, KnownUsers, [Next]_vars, NEW k \in Handlers
               PROVE  /\ userId'[k] \in Users => status'[userId'[k]] # "absent"
                      /\ /\ pc'[k] \in {"loginUpdate", "addSession"} \cup CleanupPoints
                         /\ arg'[k] \in Users
                         => status'[arg'[k]] # "absent"
    BY DEF KnownUsers
  <1> DEFINE Known(u) == u \in Users => status[u] # "absent"
             LoggingIn == {"loginUpdate", "addSession"} \cup CleanupPoints
  <1> USE DEF IndInv, TypeOK, HandlersTypeOK, CleanupPoints, sessionVars, requestVars, goto
  <1> SUFFICES /\ Known(userId'[k])
               /\ pc'[k] \in LoggingIn => Known(arg'[k])
    BY RowsStay
  <1>1. Known(userId[k]) /\ (pc[k] \in LoggingIn => Known(arg[k]))
    BY DEF KnownUsers
  <1>2. Known(NoUser)
    BY NoUserAssumption
  <1>3. ASSUME NEW h \in Handlers, handlerStep(h)
        PROVE  Known(userId'[k]) /\ (pc'[k] \in LoggingIn => Known(arg'[k]))
    <2>1. CASE handleLogin(h)
      BY <1>1, <2>1 DEF handleLogin, loginSelect
    <2>2. CASE loginCommits(h)
      BY <1>1, <2>2 DEF loginCommits, cleanupSession
    <2>3. CASE loginRegisters(h)
      BY <1>1, <1>2, <2>3 DEF loginRegisters, finish
    <2>4. CASE handleLogout(h)
      <3>1. arg[h] = NoUser
        BY <2>4 DEF handleLogout, ControlOK, IdlePoints
      <3> QED
        BY <1>1, <1>2, <2>4, <3>1 DEF handleLogout, cleanupSession
    <2>5. CASE cleanupRemoves(h)
      BY <1>1, <2>5 DEF cleanupRemoves
    <2>6. CASE cleanupLogsOut(h)
      BY <1>1, <1>2, <2>6 DEF cleanupLogsOut
    <2>7. CASE \/ refuse(h) \/ reply(h) \/ handleRegister(h) \/ handleMessage(h)
               \/ messageStored(h) \/ messageAborted(h) \/ receiverLookupFails(h) \/ handleModeration(h)
               \/ unbanCommits(h) \/ commitInDoubt(h) \/ loopEnds(h)
      BY <1>1, <1>2, <2>7
         DEF refuse, reply, handleRegister, handleMessage, messageStored, messageAborted,
             receiverLookupFails, handleModeration, AfterCheck, unbanCommits,
             commitInDoubt, loopEnds, finish
    <2>8. CASE \/ deliverToUser(h) \/ banCommits(h) \/ kickCommits(h)
               \/ disconnectUser(h) \/ destroyHandler(h)
      BY <1>1, <2>8
         DEF deliverToUser, banCommits, kickCommits, disconnectUser, destroyHandler
    <2>9. ASSUME NEW t \in Handlers, deliverFrame(h, t) \/ disconnectFromAdmin(h, t)
          PROVE  Known(userId'[k]) /\ (pc'[k] \in LoggingIn => Known(arg'[k]))
      BY <1>1, <2>9 DEF deliverFrame, disconnectFromAdmin
    <2> QED
      BY <1>3, <2>1, <2>2, <2>3, <2>4, <2>5, <2>6, <2>7, <2>8, <2>9 DEF handlerStep
  <1>4. ASSUME NEW h \in Handlers, accept(h)
        PROVE  Known(userId'[k]) /\ (pc'[k] \in LoggingIn => Known(arg'[k]))
    BY <1>1, <1>4 DEF accept
  <1>5. ASSUME NEW h \in Handlers, threadStep(h)
        PROVE  Known(userId'[k]) /\ (pc'[k] \in LoggingIn => Known(arg'[k]))
    <2>1. CASE receiveFrame(h)
      BY <1>1, <2>1, CommandsAssumption DEF receiveFrame, AllCommands
    <2>2. CASE leaveRun(h)
      <3>1. arg[h] = NoUser
        BY <2>2 DEF leaveRun, ControlOK, IdlePoints
      <3> QED
        BY <1>1, <1>2, <2>2, <3>1 DEF leaveRun, cleanupSession
    <2>3. CASE threadEnds(h)
      BY <1>1, <2>3 DEF threadEnds
    <2>4. CASE peerStalls(h)
      BY <1>1, <2>4 DEF peerStalls
    <2> QED
      BY <1>3, <1>5, <2>1, <2>2, <2>3, <2>4 DEF threadStep
  <1>6. CASE crash
    BY <1>2, <1>6 DEF crash, handlersLost
  <1>7. ASSUME NEW u \in Users, NEW r \in NewRoles, changeRole(u, r)
        PROVE  Known(userId'[k]) /\ (pc'[k] \in LoggingIn => Known(arg'[k]))
    BY <1>1, <1>7 DEF changeRole
  <1>8. CASE UNCHANGED vars
    BY <1>1, <1>8 DEF vars, handlerVars
  <1> QED
    BY <1>4, <1>5, <1>6, <1>7, <1>8 DEF Next

LEMMA NextModerators ==
    IndInv /\ KnownUsers /\ ModeratorsOnly /\ [Next]_vars => ModeratorsOnly'
  <1> SUFFICES ASSUME IndInv, KnownUsers, ModeratorsOnly, [Next]_vars,
                      NEW k \in Handlers, pc'[k] \in ModeratorPoints
               PROVE  role'[userId'[k]] \in ModeratorRoles \/ k \in raced'
    BY DEF ModeratorsOnly, hasModeratorRights
  <1> USE DEF IndInv, TypeOK, HandlersTypeOK, ModeratorPoints, sessionVars, requestVars,
              goto
  <1>1. ASSUME NEW h \in Handlers, handleModeration(h), k = h
        PROVE  role'[userId'[k]] \in ModeratorRoles \/ k \in raced'
    BY <1>1 DEF handleModeration, requireModerator, hasModeratorRights, dbVars
  <1>2. CASE /\ pc[k] \in ModeratorPoints /\ userId'[k] = userId[k]
             /\ k \in raced => k \in raced'
    <2>1. userId[k] \in Users /\ status[userId[k]] # "absent"
      BY <1>2 DEF ControlOK, KnownUsers
    <2>2. ASSUME NEW r \in NewRoles, changeRole(userId[k], r)
          PROVE  k \in raced'
      BY <1>2, <2>2 DEF changeRole
    <2>3. CASE role'[userId[k]] = role[userId[k]]
      BY <1>2, <2>3 DEF ModeratorsOnly, hasModeratorRights
    <2> QED
      BY <2>1, <2>2, <2>3, RowsStay
  <1>3. ASSUME NEW h \in Handlers, handlerStep(h), ~ (handleModeration(h) /\ k = h)
        PROVE  /\ pc[k] \in ModeratorPoints /\ userId'[k] = userId[k]
               /\ k \in raced => k \in raced'
    <2>1. CASE h = k
      BY <1>3, <2>1
         DEF handlerStep, refuse, reply, handleRegister, handleLogin, loginCommits,
             loginRegisters, handleLogout, cleanupRemoves, cleanupLogsOut, handleMessage,
             messageStored, messageAborted, deliverToUser, receiverLookupFails,
             banCommits, unbanCommits, kickCommits, disconnectUser, deliverFrame,
             disconnectFromAdmin, loopEnds, destroyHandler, commitInDoubt, finish,
             cleanupSession, ReturnPoints
    <2>2. CASE h # k
      BY <1>3, <2>2
         DEF handlerStep, refuse, reply, handleRegister, handleLogin, loginCommits,
             loginRegisters, handleLogout, cleanupRemoves, cleanupLogsOut, handleMessage,
             messageStored, messageAborted, deliverToUser, receiverLookupFails,
             handleModeration, banCommits, unbanCommits, kickCommits, disconnectUser,
             deliverFrame, disconnectFromAdmin, loopEnds, destroyHandler, commitInDoubt,
             finish, cleanupSession
    <2> QED
      BY <2>1, <2>2
  <1>4. ASSUME NEW h \in Handlers,
               \/ accept(h) \/ receiveFrame(h) \/ leaveRun(h) \/ peerStalls(h)
               \/ threadEnds(h)
        PROVE  /\ pc[k] \in ModeratorPoints /\ userId'[k] = userId[k]
               /\ k \in raced => k \in raced'
    BY <1>4, CommandsAssumption
       DEF accept, receiveFrame, leaveRun, peerStalls, threadEnds, cleanupSession,
           AllCommands
  <1>5. CASE crash
    BY <1>5 DEF crash, handlersLost
  <1>6. ASSUME NEW u \in Users, NEW r \in NewRoles, changeRole(u, r)
        PROVE  /\ pc[k] \in ModeratorPoints /\ userId'[k] = userId[k]
               /\ k \in raced => k \in raced'
    BY <1>6 DEF changeRole
  <1>7. CASE UNCHANGED vars
    BY <1>2, <1>7 DEF vars, handlerVars
  <1> QED
    BY <1>1, <1>2, <1>3, <1>4, <1>5, <1>6, <1>7 DEF Next, threadStep

(* BAN, UNBAN and KICK reach their transaction only for a user whose row gave   *)
(* the right at the check, for any number of handlers and of role changes in    *)
(* psql.                                                                        *)
THEOREM OnlyModeratorsModerate == Spec => []ModeratorsOnly
  <1>1. Init => KnownUsers /\ ModeratorsOnly
    BY NoUserAssumption
       DEF Init, HandlersInit, KnownUsers, CleanupPoints, ModeratorsOnly, ModeratorPoints
  <1> QED
    BY <1>1, NextKnown, NextModerators, Inductive, PTL DEF Spec
=============================================================================
