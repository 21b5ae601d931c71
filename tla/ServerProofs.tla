---------------------------- MODULE ServerProofs ----------------------------
(* Theorems about Server, for every set of users, handlers and bounds.         *)
EXTENDS Server, FiniteSetTheorems, TLAPS

(* cleanupSession leads to a point of the code, and remembers one. *)
LEMMA CleanupSessionType ==
    ASSUME pc \in [Handlers -> Points], return \in [Handlers -> ReturnPoints],
           NEW h \in Handlers, NEW r \in ReturnPoints, cleanupSession(h, r)
    PROVE  pc' \in [Handlers -> Points] /\ return' \in [Handlers -> ReturnPoints]
  <1>1. "removeSession" \in Points /\ r \in Points
    BY DEF Points, CleanupPoints, ReturnPoints
  <1> QED
    BY <1>1 DEF cleanupSession, goto

(* A message that is stored is owed to handlers. *)
LEMMA StoreMessageOwed ==
    ASSUME TypeOK, NEW h \in Handlers, arg[h] \in Users, storeMessage(h)
    PROVE  owed' \in SUBSET [id : Nat, session : Handlers]
  BY DEF storeMessage, TypeOK, DatabaseTypeOK, HandlersTypeOK

(* The shared variables, and those of the handlers, keep their types when a    *)
(* handler takes a step of its own.                                            *)
LEMMA HandlerStepType ==
    ASSUME TypeOK, ControlOK, NEW h \in Handlers, handlerStep(h), UNCHANGED activeClients
    PROVE  TypeOK'
  <1> USE DEF TypeOK, SessionsTypeOK, DatabaseTypeOK, HandlersTypeOK, dbVars,
              sessionVars, requestVars, loopVars, goto, finish
  <1>1. CASE refuse(h)
    BY <1>1 DEF refuse, Points
  <1>2. CASE handleRegister(h)
    BY <1>2 DEF handleRegister, registerUser, Points, Statuses, Roles
  <1>3. CASE handleLogin(h)
    <2>1. arg[h] \in Users
      BY <1>3 DEF handleLogin, ControlOK, IdlePoints, CleanupPoints
    <2> QED
      BY <1>3, <2>1 DEF handleLogin, Points
  <1>4. CASE loginCommits(h)
    <2>1. pc' \in [Handlers -> Points] /\ return' \in [Handlers -> ReturnPoints]
      BY <1>4, CleanupSessionType DEF loginCommits, ReturnPoints
    <2>2. status' \in [Users -> Statuses]
      BY <1>4 DEF loginCommits, loginUpdate, Statuses
    <2> QED
      BY <1>4, <2>1, <2>2 DEF loginCommits, loginUpdate
  <1>5. CASE loginRegisters(h)
    <2>1. arg[h] \in Users
      BY <1>5 DEF loginRegisters, ControlOK, IdlePoints, CleanupPoints
    <2>2. sessions' \in [Users -> [Handlers -> Nat]]
      BY <1>5, <2>1 DEF loginRegisters, addSession
    <2> QED
      BY <1>5, <2>2 DEF loginRegisters, Points
  <1>6. CASE handleLogout(h)
    <2>1. pc' \in [Handlers -> Points] /\ return' \in [Handlers -> ReturnPoints]
      BY <1>6, CleanupSessionType DEF handleLogout, ReturnPoints
    <2> QED
      BY <1>6, <2>1 DEF handleLogout
  <1>7. CASE cleanupRemoves(h)
    BY <1>7 DEF cleanupRemoves, removeSession, Points, CleanupPoints
  <1>8. CASE cleanupLogsOut(h)
    <2>1. pc' \in [Handlers -> Points] /\ return' \in [Handlers -> ReturnPoints]
      BY <1>8 DEF cleanupLogsOut, Points, ReturnPoints
    <2>2. DatabaseTypeOK'
      <3>1. userId[h] \in Users
        BY <1>8 DEF cleanupLogsOut, ControlOK, CleanupPoints
      <3>2. CASE logoutUser(userId[h])
        BY <3>1, <3>2 DEF logoutUser, setOffline, Statuses
      <3>3. CASE logoutUserFails(userId[h])
        BY <3>1, <3>3 DEF logoutUserFails
      <3> QED
        BY <1>8, <3>2, <3>3 DEF cleanupLogsOut
    <2> QED
      BY <1>8, <2>1, <2>2 DEF cleanupLogsOut
  <1>9. CASE handleMessage(h)
    BY <1>9 DEF handleMessage, Points
  <1>10. CASE messageStored(h)
    <2>1. arg[h] \in Users /\ userId[h] \in Users
      BY <1>10 DEF messageStored, ControlOK, IdlePoints, CleanupPoints
    <2>2. messages' \in SUBSET Message
      BY <1>10, <2>1 DEF messageStored, storeMessage, sendMessageInsert, Message
    <2>3. owed' \in SUBSET [id : Nat, session : Handlers]
      BY <1>10, <2>1, StoreMessageOwed DEF messageStored
    <2> QED
      BY <1>10, <2>2, <2>3 DEF messageStored, storeMessage, sendMessageInsert, Points,
                               DeliveryPoints
  <1>11. CASE messageAborted(h)
    BY <1>11 DEF messageAborted, sendMessageAborts, Points
  <1>12. CASE deliverToUser(h)
    BY <1>12 DEF deliverToUser, copyHandlers, Points, DeliveryPoints, ControlOK, IdlePoints,
                 CleanupPoints
  <1>13. CASE receiverLookupFails(h)
    BY <1>13 DEF receiverLookupFails, Points
  <1>14. CASE handleModeration(h)
    BY <1>14 DEF handleModeration, AfterCheck, Points, ModeratorPoints
  <1>15. CASE banCommits(h)
    BY <1>15 DEF banCommits, banUser, auditRow, Points, Statuses
  <1>16. CASE unbanCommits(h)
    BY <1>16 DEF unbanCommits, unbanUser, auditRow, Points, Statuses
  <1>17. CASE kickCommits(h)
    BY <1>17 DEF kickCommits, kickUser, setOffline, Points, Statuses
  <1>18. CASE disconnectUser(h)
    BY <1>18 DEF disconnectUser, copyHandlers, Points, ControlOK, IdlePoints, CleanupPoints
  <1>19. ASSUME NEW t \in Handlers, deliverFrame(h, t) PROVE TypeOK'
    BY <1>19 DEF deliverFrame
  <1>20. ASSUME NEW t \in Handlers, disconnectFromAdmin(h, t) PROVE TypeOK'
    BY <1>20 DEF disconnectFromAdmin
  <1>21. CASE loopEnds(h)
    BY <1>21 DEF loopEnds, Points
  <1>22. CASE destroyHandler(h)
    BY <1>22 DEF destroyHandler, Points
  <1>23. CASE commitInDoubt(h)
    <2>1. arg[h] \in Users /\ (pc[h] = "insertMessage" => userId[h] \in Users)
      BY <1>23 DEF commitInDoubt, ControlOK, IdlePoints, CleanupPoints
    <2>2. DatabaseTypeOK'
      <3>1. CASE loginUpdateInDoubt(arg[h])
        BY <2>1, <3>1 DEF loginUpdateInDoubt, Statuses
      <3>2. CASE pc[h] = "insertMessage" /\ storeMessage(h)
        <4>1. messages' \in SUBSET Message
          BY <2>1, <3>2 DEF storeMessage, sendMessageInsert, Message
        <4> QED
          BY <3>2, <4>1 DEF storeMessage, sendMessageInsert
      <3>3. CASE banUser(arg[h])
        BY <3>3 DEF banUser, auditRow, Statuses
      <3>4. CASE kickUser(arg[h])
        BY <3>4 DEF kickUser, setOffline, Statuses
      <3> QED
        BY <1>23, <3>1, <3>2, <3>3, <3>4 DEF commitInDoubt
    <2>3. /\ owed' \in SUBSET [id : Nat, session : Handlers]
          /\ untold' \in SUBSET Nat
      BY <1>23, <2>1, StoreMessageOwed DEF commitInDoubt
    <2> QED
      BY <1>23, <2>2, <2>3 DEF commitInDoubt, Points
  <1>24. CASE reply(h)
    BY <1>24 DEF reply, Points
  <1> QED
    BY <1>1, <1>2, <1>3, <1>4, <1>5, <1>6, <1>7, <1>8, <1>9, <1>10, <1>11, <1>12,
       <1>13, <1>14, <1>15, <1>16, <1>17, <1>18, <1>19, <1>20, <1>21, <1>22,
       <1>23, <1>24
       DEF handlerStep

(* A handler's own step leaves ControlOK true. *)
LEMMA HandlerStepControl ==
    ASSUME TypeOK, ControlOK, NEW h \in Handlers, handlerStep(h)
    PROVE  ControlOK'
  <1> USE DEF TypeOK, HandlersTypeOK, dbVars, sessionVars, requestVars, loopVars, goto,
              finish, ControlOK, IdlePoints, CleanupPoints, DeliveryPoints, ModeratorPoints
  <1>1. CASE refuse(h)
    BY <1>1 DEF refuse
  <1>2. CASE handleRegister(h)
    BY <1>2 DEF handleRegister
  <1>3. CASE handleLogin(h)
    BY <1>3 DEF handleLogin
  <1>4. CASE loginCommits(h)
    BY <1>4 DEF loginCommits, cleanupSession
  <1>5. CASE loginRegisters(h)
    BY <1>5 DEF loginRegisters
  <1>6. CASE handleLogout(h)
    BY <1>6, NoUserAssumption DEF handleLogout, cleanupSession
  <1>7. CASE cleanupRemoves(h)
    BY <1>7 DEF cleanupRemoves
  <1>8. CASE cleanupLogsOut(h)
    BY <1>8, NoUserAssumption DEF cleanupLogsOut, ReturnPoints
  <1>9. CASE handleMessage(h)
    BY <1>9 DEF handleMessage
  <1>10. CASE messageStored(h)
    BY <1>10 DEF messageStored
  <1>11. CASE messageAborted(h)
    BY <1>11 DEF messageAborted
  <1>12. CASE deliverToUser(h)
    BY <1>12 DEF deliverToUser
  <1>13. CASE receiverLookupFails(h)
    BY <1>13 DEF receiverLookupFails
  <1>14. CASE handleModeration(h)
    BY <1>14 DEF handleModeration, AfterCheck, requireModerator
  <1>15. CASE banCommits(h)
    BY <1>15 DEF banCommits
  <1>16. CASE unbanCommits(h)
    BY <1>16 DEF unbanCommits
  <1>17. CASE kickCommits(h)
    BY <1>17 DEF kickCommits
  <1>18. CASE disconnectUser(h)
    BY <1>18 DEF disconnectUser
  <1>19. ASSUME NEW t \in Handlers, deliverFrame(h, t) PROVE ControlOK'
    BY <1>19 DEF deliverFrame
  <1>20. ASSUME NEW t \in Handlers, disconnectFromAdmin(h, t) PROVE ControlOK'
    BY <1>20 DEF disconnectFromAdmin
  <1>21. CASE loopEnds(h)
    BY <1>21 DEF loopEnds
  <1>22. CASE destroyHandler(h)
    BY <1>22 DEF destroyHandler
  <1>23. CASE commitInDoubt(h)
    BY <1>23 DEF commitInDoubt
  <1>24. CASE reply(h)
    BY <1>24 DEF reply
  <1> QED
    BY <1>1, <1>2, <1>3, <1>4, <1>5, <1>6, <1>7, <1>8, <1>9, <1>10, <1>11, <1>12,
       <1>13, <1>14, <1>15, <1>16, <1>17, <1>18, <1>19, <1>20, <1>21, <1>22,
       <1>23, <1>24
       DEF handlerStep

(* A handler's own step neither starts a thread nor ends one. *)
LEMMA HandlerStepThreads ==
    ASSUME TypeOK, NEW h \in Handlers, handlerStep(h)
    PROVE  Threads' = Threads
  <1>1. pc[h] # "free" /\ pc'[h] # "free"
    BY DEF handlerStep, refuse, reply, handleRegister, handleLogin, loginCommits,
           loginRegisters, handleLogout, cleanupRemoves, cleanupLogsOut, handleMessage,
           messageStored, messageAborted, deliverToUser, receiverLookupFails,
           handleModeration, banCommits, unbanCommits, kickCommits, disconnectUser,
           deliverFrame, disconnectFromAdmin, loopEnds, destroyHandler, commitInDoubt,
           goto, finish, cleanupSession, AfterCheck, ReturnPoints, AllCommands, ModeratorPoints,
           TypeOK, HandlersTypeOK
  <1>2. \A k \in Handlers : k # h => pc'[k] = pc[k]
    BY DEF handlerStep, refuse, reply, handleRegister, handleLogin, loginCommits,
           loginRegisters, handleLogout, cleanupRemoves, cleanupLogsOut, handleMessage,
           messageStored, messageAborted, deliverToUser, receiverLookupFails,
           handleModeration, banCommits, unbanCommits, kickCommits, disconnectUser,
           deliverFrame, disconnectFromAdmin, loopEnds, destroyHandler, commitInDoubt,
           goto, finish, cleanupSession, TypeOK, HandlersTypeOK
  <1> QED
    BY <1>1, <1>2 DEF Threads

-----------------------------------------------------------------------------
IndInv == TypeOK /\ ControlOK /\ CountOK

LEMMA InitIndInv == Init => IndInv
  <1> SUFFICES ASSUME Init PROVE IndInv
    OBVIOUS
  <1>1. TypeOK
    BY InitRowsAssumption DEF Init, TypeOK, SessionsInit, SessionsTypeOK, NoSessions,
       NoHandlers, DatabaseInit, DatabaseTypeOK, HandlersInit, HandlersTypeOK, Statuses,
       Points, ReturnPoints
  <1>2. ControlOK
    BY DEF Init, HandlersInit, ControlOK, IdlePoints, CleanupPoints, DeliveryPoints, ModeratorPoints
  <1>3. Threads = {}
    BY DEF Init, HandlersInit, Threads
  <1>4. CountOK
    BY <1>3, FS_EmptySet, ServerAssumption DEF Init, CountOK
  <1> QED
    BY <1>1, <1>2, <1>4 DEF IndInv

LEMMA AcceptIndInv ==
    ASSUME IndInv, NEW h \in Handlers, accept(h)
    PROVE  IndInv'
  <1> USE DEF IndInv, accept, goto, dbVars, sessionVars, requestVars, loopVars
  <1>1. TypeOK'
    BY DEF TypeOK, SessionsTypeOK, DatabaseTypeOK, HandlersTypeOK, Points
  <1>2. ControlOK'
    BY DEF TypeOK, HandlersTypeOK, ControlOK, IdlePoints, CleanupPoints, DeliveryPoints, ModeratorPoints
  <1>3. Threads' = Threads \cup {h} /\ h \notin Threads
    BY DEF Threads, TypeOK, HandlersTypeOK
  <1>4. CountOK'
    <2>1. IsFiniteSet(Threads') /\ Cardinality(Threads') = Cardinality(Threads) + 1
      BY <1>3, FS_AddElement DEF CountOK
    <2> QED
      BY <2>1, ServerAssumption DEF CountOK, TypeOK
  <1> QED
    BY <1>1, <1>2, <1>4

LEMMA ThreadEndsIndInv ==
    ASSUME IndInv, NEW h \in Handlers, threadEnds(h)
    PROVE  IndInv'
  <1> USE DEF IndInv, threadEnds, goto, dbVars, sessionVars, requestVars, loopVars
  <1>1. Threads' = Threads \ {h} /\ h \in Threads
    BY DEF Threads, TypeOK, HandlersTypeOK
  <1>2. CountOK'
    <2>1. IsFiniteSet(Threads') /\ Cardinality(Threads') = Cardinality(Threads) - 1
      BY <1>1, FS_RemoveElement DEF CountOK
    <2> QED
      BY <2>1, ServerAssumption DEF CountOK, TypeOK
  <1>3. TypeOK'
    <2>1. activeClients' \in Nat
      BY <1>2, FS_CardinalityType DEF CountOK
    <2> QED
      BY <2>1 DEF TypeOK, SessionsTypeOK, DatabaseTypeOK, HandlersTypeOK, Points
  <1>4. ControlOK'
    BY DEF TypeOK, HandlersTypeOK, ControlOK, IdlePoints, CleanupPoints, DeliveryPoints, ModeratorPoints
  <1> QED
    BY <1>2, <1>3, <1>4

LEMMA CrashIndInv ==
    ASSUME IndInv, crash
    PROVE  IndInv'
  <1> USE DEF IndInv, crash, handlersLost
  <1>1. TypeOK'
    BY DEF TypeOK, SessionsTypeOK, NoSessions, NoHandlers, DatabaseTypeOK, HandlersTypeOK,
           Points, ReturnPoints
  <1>2. ControlOK'
    BY DEF ControlOK, IdlePoints, CleanupPoints, DeliveryPoints, ModeratorPoints
  <1>3. Threads' = {}
    BY DEF Threads
  <1>4. CountOK'
    BY <1>3, FS_EmptySet, ServerAssumption DEF CountOK
  <1> QED
    BY <1>1, <1>2, <1>4

LEMMA ChangeRoleIndInv ==
    ASSUME IndInv, NEW u \in Users, NEW r \in NewRoles, changeRole(u, r)
    PROVE  IndInv'
  <1> USE DEF IndInv, changeRole, setRole, sessionVars, loopVars
  <1>1. TypeOK'
    BY ServerAssumption
       DEF TypeOK, SessionsTypeOK, DatabaseTypeOK, HandlersTypeOK
  <1>2. ControlOK' /\ CountOK'
    BY DEF ControlOK, CountOK, Threads
  <1> QED
    BY <1>1, <1>2

(* Reading a frame, leaving the loop of run(), and a peer that stops reading. *)
LEMMA RunIndInv ==
    ASSUME IndInv, NEW h \in Handlers, receiveFrame(h) \/ leaveRun(h) \/ peerStalls(h),
           UNCHANGED activeClients
    PROVE  IndInv'
  <1> USE DEF IndInv, dbVars, sessionVars, requestVars, loopVars
  <1>1. CASE receiveFrame(h)
    <2>1. TypeOK'
      BY <1>1, CommandsAssumption
         DEF receiveFrame, goto, TypeOK, SessionsTypeOK, DatabaseTypeOK, HandlersTypeOK,
             Points
    <2>2. ControlOK'
      BY <1>1, CommandsAssumption
         DEF receiveFrame, goto, TypeOK, HandlersTypeOK, ControlOK, AllCommands,
             IdlePoints, CleanupPoints, DeliveryPoints, ModeratorPoints
    <2>3. Threads' = Threads
      BY <1>1, CommandsAssumption
         DEF receiveFrame, goto, TypeOK, HandlersTypeOK, Threads, AllCommands
    <2> QED
      BY <2>1, <2>2, <2>3 DEF CountOK
  <1>2. CASE leaveRun(h)
    <2>1. TypeOK'
      BY <1>2, CleanupSessionType
         DEF leaveRun, TypeOK, SessionsTypeOK, DatabaseTypeOK, HandlersTypeOK, ReturnPoints
    <2>2. ControlOK'
      BY <1>2, NoUserAssumption
         DEF leaveRun, cleanupSession, goto, TypeOK, HandlersTypeOK, ControlOK,
             IdlePoints, CleanupPoints, DeliveryPoints, ModeratorPoints
    <2>3. Threads' = Threads
      BY <1>2 DEF leaveRun, cleanupSession, goto, TypeOK, HandlersTypeOK, Threads
    <2> QED
      BY <2>1, <2>2, <2>3 DEF CountOK
  <1>3. CASE peerStalls(h)
    <2>1. TypeOK'
      BY <1>3 DEF peerStalls, TypeOK, SessionsTypeOK, DatabaseTypeOK, HandlersTypeOK
    <2> QED
      BY <1>3, <2>1 DEF peerStalls, ControlOK, CountOK, Threads
  <1> QED
    BY <1>1, <1>2, <1>3

LEMMA NextIndInv == IndInv /\ [Next]_vars => IndInv'
  <1> SUFFICES ASSUME IndInv, [Next]_vars PROVE IndInv'
    OBVIOUS
  <1>1. ASSUME NEW h \in Handlers, accept(h) PROVE IndInv'
    BY <1>1, AcceptIndInv
  <1>2. ASSUME NEW h \in Handlers, threadStep(h) PROVE IndInv'
    <2>1. CASE handlerStep(h) /\ UNCHANGED activeClients
      <3>1. TypeOK' /\ ControlOK'
        BY <2>1, HandlerStepType, HandlerStepControl DEF IndInv
      <3>2. CountOK'
        BY <2>1, HandlerStepThreads DEF IndInv, CountOK
      <3> QED
        BY <3>1, <3>2 DEF IndInv
    <2> QED
      BY <1>2, <2>1, RunIndInv, ThreadEndsIndInv DEF threadStep
  <1>3. CASE crash
    BY <1>3, CrashIndInv
  <1>4. ASSUME NEW u \in Users, NEW r \in NewRoles, changeRole(u, r) PROVE IndInv'
    BY <1>4, ChangeRoleIndInv
  <1>5. CASE UNCHANGED vars
    BY <1>5 DEF IndInv, TypeOK, SessionsTypeOK, DatabaseTypeOK, HandlersTypeOK, ControlOK,
                CountOK, Threads, vars, dbVars, handlerVars, sessionVars, requestVars,
                loopVars
  <1> QED
    BY <1>1, <1>2, <1>3, <1>4, <1>5 DEF Next

(* In every execution of the server the variables keep their types, and a      *)
(* thread's place in the code says what ControlOK and CountOK claim.           *)
THEOREM Inductive == Spec => []IndInv
  BY InitIndInv, NextIndInv, PTL DEF Spec

(* Every variable of the registry, the database, the handlers and the accept   *)
(* loop keeps its type; activeClients_, decremented by every thread that ends, *)
(* never goes below zero.                                                      *)
THEOREM TypeCorrect == Spec => []TypeOK
  BY Inductive, PTL DEF IndInv

(* No more than maxClients handlers are alive at once, however connections     *)
(* come and go.                                                                *)
THEOREM LimitKept == Spec => []ClientLimit
  <1>1. IndInv => ClientLimit
    <2> SUFFICES ASSUME IndInv PROVE ClientLimit
      OBVIOUS
    <2> DEFINE Alive == {h \in Handlers : pc[h] \notin {"free", "ended"}}
    <2>1. Alive \subseteq Threads
      BY DEF Threads
    <2>2. IsFiniteSet(Alive) /\ Cardinality(Alive) <= Cardinality(Threads)
      BY <2>1, FS_Subset DEF IndInv, CountOK
    <2>3. Cardinality(Alive) \in Nat
      BY <2>2, FS_CardinalityType
    <2> QED
      BY <2>2, <2>3, ServerAssumption DEF IndInv, CountOK, ClientLimit, TypeOK
  <1> QED
    BY <1>1, Inductive, PTL

-----------------------------------------------------------------------------
(* Only three steps of a handler concern the registry: the two halves of       *)
(* cleanupSession, and the end of handleLogin.                                 *)
LEMMA QuietSteps ==
    ASSUME TypeOK, NEW h \in Handlers, handlerStep(h),
           ~ loginRegisters(h), ~ cleanupRemoves(h), ~ cleanupLogsOut(h)
    PROVE  /\ UNCHANGED <<sessions, userId>>
           /\ \A k \in Handlers : pc'[k] = "logoutUser" <=> pc[k] = "logoutUser"
  BY DEF handlerStep, refuse, reply, handleRegister, handleLogin, loginCommits,
         handleLogout, handleMessage, messageStored, messageAborted, deliverToUser,
         receiverLookupFails, handleModeration, banCommits, unbanCommits, kickCommits,
         disconnectUser, deliverFrame, disconnectFromAdmin, loopEnds, destroyHandler,
         commitInDoubt, goto, finish, cleanupSession, AfterCheck, AllCommands, ModeratorPoints,
         sessionVars, TypeOK, HandlersTypeOK

LEMMA HandlerStepRegistry ==
    ASSUME IndInv, RegistryExact, NEW h \in Handlers, handlerStep(h)
    PROVE  RegistryExact'
  <1> USE DEF IndInv, TypeOK, SessionsTypeOK, HandlersTypeOK, RegistryExact
  <1>1. CASE loginRegisters(h)
    <2>1. arg[h] \in Users /\ userId[h] = NoUser
      BY <1>1 DEF loginRegisters, ControlOK, IdlePoints, CleanupPoints
    <2>2. \A u \in Users : sessions[u][h] = 0
      BY <2>1, NoUserAssumption
    <2> QED
      BY <1>1, <2>1, <2>2 DEF loginRegisters, addSession, finish, goto
  <1>2. CASE cleanupRemoves(h)
    <2>1. userId[h] \in Users
      BY <1>2 DEF cleanupRemoves, ControlOK, CleanupPoints
    <2> QED
      BY <1>2, <2>1 DEF cleanupRemoves, removeSession, sessionVars, goto
  <1>3. CASE cleanupLogsOut(h)
    BY <1>3, NoUserAssumption DEF cleanupLogsOut, goto, ReturnPoints
  <1>4. CASE ~ loginRegisters(h) /\ ~ cleanupRemoves(h) /\ ~ cleanupLogsOut(h)
    BY <1>4, QuietSteps
  <1> QED
    BY <1>1, <1>2, <1>3, <1>4

LEMMA NextRegistry == IndInv /\ RegistryExact /\ [Next]_vars => RegistryExact'
  <1> SUFFICES ASSUME IndInv, RegistryExact, [Next]_vars PROVE RegistryExact'
    OBVIOUS
  <1> USE DEF IndInv, TypeOK, SessionsTypeOK, HandlersTypeOK, sessionVars
  <1>1. ASSUME NEW h \in Handlers, accept(h) PROVE RegistryExact'
    BY <1>1 DEF accept, goto, RegistryExact
  <1>2. ASSUME NEW h \in Handlers, threadStep(h) PROVE RegistryExact'
    <2>1. CASE receiveFrame(h)
      BY <2>1, CommandsAssumption DEF receiveFrame, goto, AllCommands, RegistryExact
    <2>2. CASE leaveRun(h)
      BY <2>2 DEF leaveRun, cleanupSession, goto, RegistryExact
    <2>3. CASE threadEnds(h)
      BY <2>3 DEF threadEnds, goto, RegistryExact
    <2>4. CASE peerStalls(h)
      BY <2>4 DEF peerStalls, RegistryExact
    <2> QED
      BY <1>2, <2>1, <2>2, <2>3, <2>4, HandlerStepRegistry DEF threadStep
  <1>3. CASE crash
    BY <1>3, NoUserAssumption
       DEF crash, handlersLost, NoSessions, NoHandlers, RegistryExact
  <1>4. ASSUME NEW u \in Users, NEW r \in NewRoles, changeRole(u, r) PROVE RegistryExact'
    BY <1>4 DEF changeRole, RegistryExact
  <1>5. CASE UNCHANGED vars
    BY <1>5 DEF vars, handlerVars, RegistryExact
  <1> QED
    BY <1>1, <1>2, <1>3, <1>4, <1>5 DEF Next

(* The registry is exact in every execution: whatever logins, second logins,   *)
(* logouts, kicks, lost connections and crashes do, a handler is registered    *)
(* once, under its own user, and never after its destruction.                  *)
THEOREM RegistryStaysExact == Spec => []RegistryExact
  <1>1. Init => RegistryExact
    BY NoUserAssumption
       DEF Init, SessionsInit, NoSessions, NoHandlers, HandlersInit, RegistryExact
  <1> QED
    BY <1>1, NextRegistry, Inductive, PTL DEF Spec

-----------------------------------------------------------------------------
(* A handler that answers for a user goes on doing so, until cleanupSession    *)
(* has logged that user out.                                                   *)
LEMMA ServesKept ==
    ASSUME IndInv, NEW h \in Handlers, handlerStep(h),
           NEW k \in Handlers, NEW v \in Users, Serves(k, v),
           ~ (cleanupLogsOut(h) /\ k = h /\ userId[h] = v)
    PROVE  Serves(k, v)'
  <1> USE DEF IndInv, TypeOK, HandlersTypeOK, Serves, sessionVars, requestVars
  <1>1. CASE cleanupLogsOut(h)
    BY <1>1 DEF cleanupLogsOut, goto, ControlOK, CleanupPoints
  <1>2. CASE loginRegisters(h)
    BY <1>2, NoUserAssumption DEF loginRegisters, finish, goto, ControlOK
  <1>3. CASE cleanupRemoves(h)
    BY <1>3 DEF cleanupRemoves, goto
  <1>4. CASE ~ cleanupLogsOut(h) /\ ~ loginRegisters(h) /\ ~ cleanupRemoves(h)
    <2>1. userId' = userId
      BY <1>4, QuietSteps
    <2>2. pc[k] \in {"removeSession", "logoutUser", "addSession"} =>
            pc'[k] = pc[k] /\ arg'[k] = arg[k]
      BY <1>4 DEF handlerStep, refuse, reply, handleRegister, handleLogin, loginCommits,
         handleLogout, handleMessage, messageStored, messageAborted, deliverToUser,
         receiverLookupFails, handleModeration, banCommits, unbanCommits, kickCommits,
         disconnectUser, deliverFrame, disconnectFromAdmin, loopEnds, destroyHandler,
         commitInDoubt, goto, finish, cleanupSession, AfterCheck, AllCommands, ModeratorPoints,
         loginRegisters, cleanupRemoves, cleanupLogsOut
    <2> QED
      BY <2>1, <2>2
  <1> QED
    BY <1>1, <1>2, <1>3, <1>4

(* A user becomes "online" by a LOGIN, which the handler then answers for      *)
(* unless its commit is in doubt, and is taken out of orphaned only when it is *)
(* not "online" any more.                                                      *)
LEMMA OnlineByLogin ==
    ASSUME IndInv, NEW h \in Handlers, handlerStep(h), NEW v \in Users, status'[v] = "online"
    PROVE  /\ status[v] = "online" \/ Serves(h, v)' \/ v \in orphaned'
           /\ v \in orphaned => v \in orphaned'
           /\ cleanupLogsOut(h) /\ userId[h] = v => v \in orphaned'
  <1> USE DEF IndInv, TypeOK, DatabaseTypeOK, HandlersTypeOK, dbVars
  <1>1. CASE loginCommits(h)
    <2>1. arg[h] \in Users
      BY <1>1 DEF loginCommits, ControlOK, IdlePoints, CleanupPoints
    <2>2. v = arg[h] => Serves(h, v)'
      BY <1>1, <2>1 DEF loginCommits, cleanupSession, goto, Serves, requestVars
    <2> QED
      BY <1>1, <2>1, <2>2 DEF loginCommits, loginUpdate, cleanupLogsOut
  <1>2. CASE cleanupLogsOut(h)
    <2>1. userId[h] \in Users
      BY <1>2 DEF cleanupLogsOut, ControlOK, CleanupPoints
    <2>2. CASE logoutUser(userId[h])
      BY <2>1, <2>2 DEF logoutUser, setOffline
    <2>3. CASE logoutUserFails(userId[h])
      BY <2>1, <2>3 DEF logoutUserFails
    <2> QED
      BY <1>2, <2>2, <2>3 DEF cleanupLogsOut
  <1>3. CASE ~ loginCommits(h) /\ ~ cleanupLogsOut(h)
    <2>1. CASE UNCHANGED <<status, orphaned>>
      BY <1>3, <2>1
    <2>2. CASE handleRegister(h)
      BY <1>3, <2>2 DEF handleRegister, registerUser
    <2>3. CASE banCommits(h)
      BY <1>3, <2>3 DEF banCommits, banUser
    <2>4. CASE unbanCommits(h)
      BY <1>3, <2>4 DEF unbanCommits, unbanUser
    <2>5. CASE kickCommits(h)
      BY <1>3, <2>5 DEF kickCommits, kickUser, setOffline
    <2>6. CASE commitInDoubt(h)
      BY <1>3, <2>6
         DEF commitInDoubt, loginUpdateInDoubt, storeMessage, sendMessageInsert, banUser, kickUser,
             setOffline
    <2> QED
      BY <1>3, <2>1, <2>2, <2>3, <2>4, <2>5, <2>6
         DEF handlerStep, refuse, reply, handleLogin, loginRegisters, handleLogout,
             cleanupRemoves, handleMessage, messageStored, messageAborted,
             storeMessage, sendMessageInsert, sendMessageAborts, deliverToUser, receiverLookupFails,
             handleModeration, disconnectUser, deliverFrame, disconnectFromAdmin,
             loopEnds, destroyHandler
  <1> QED
    BY <1>1, <1>2, <1>3

LEMMA HandlerStepNoGhost ==
    ASSUME IndInv, NoGhostOnline, NEW h \in Handlers, handlerStep(h)
    PROVE  NoGhostOnline'
  <1> SUFFICES ASSUME NEW v \in Users, status'[v] = "online", v \notin orphaned'
               PROVE  \E k \in Handlers : Serves(k, v)'
    BY DEF NoGhostOnline, Serves
  <1>1. CASE Serves(h, v)'
    BY <1>1
  <1>2. CASE ~ Serves(h, v)'
    <2>1. status[v] = "online" /\ v \notin orphaned
      BY <1>2, OnlineByLogin
    <2>2. PICK k \in Handlers : Serves(k, v)
      BY <2>1 DEF NoGhostOnline
    <2>3. ~ (cleanupLogsOut(h) /\ userId[h] = v)
      BY OnlineByLogin
    <2> QED
      BY <2>2, <2>3, ServesKept
  <1> QED
    BY <1>1, <1>2

LEMMA NextNoGhost == IndInv /\ NoGhostOnline /\ [Next]_vars => NoGhostOnline'
  <1> SUFFICES ASSUME IndInv, NoGhostOnline, [Next]_vars PROVE NoGhostOnline'
    OBVIOUS
  <1> USE DEF IndInv, TypeOK, DatabaseTypeOK, HandlersTypeOK, NoGhostOnline, Serves,
              dbVars, sessionVars, requestVars
  <1>1. ASSUME NEW h \in Handlers, accept(h) PROVE NoGhostOnline'
    BY <1>1 DEF accept, goto
  <1>2. ASSUME NEW h \in Handlers, threadStep(h) PROVE NoGhostOnline'
    <2>1. CASE receiveFrame(h)
      <3>1. ASSUME NEW k \in Handlers, NEW v \in Users, Serves(k, v) PROVE Serves(k, v)'
        BY <2>1, <3>1 DEF receiveFrame, goto
      <3> QED
        BY <2>1, <3>1 DEF receiveFrame
    <2>2. CASE leaveRun(h)
      BY <2>2 DEF leaveRun, cleanupSession, goto
    <2>3. CASE threadEnds(h)
      BY <2>3 DEF threadEnds, goto
    <2>4. CASE peerStalls(h)
      BY <2>4 DEF peerStalls
    <2> QED
      BY <1>2, <2>1, <2>2, <2>3, <2>4, HandlerStepNoGhost DEF threadStep
  <1>3. CASE crash
    BY <1>3 DEF crash
  <1>4. ASSUME NEW u \in Users, NEW r \in NewRoles, changeRole(u, r) PROVE NoGhostOnline'
    BY <1>4 DEF changeRole, setRole
  <1>5. CASE UNCHANGED vars
    BY <1>5 DEF vars, handlerVars
  <1> QED
    BY <1>1, <1>2, <1>3, <1>4, <1>5 DEF Next

(* A user shown "online" has a connection, or its logout was lost: for any     *)
(* number of connections, users and commands.                                  *)
THEOREM OnlineIsServed == Spec => []NoGhostOnline
  <1>1. Init => NoGhostOnline
    BY InitRowsAssumption DEF Init, DatabaseInit, NoGhostOnline
  <1> QED
    BY <1>1, NextNoGhost, Inductive, PTL DEF Spec

-----------------------------------------------------------------------------
(* What one step may do to a ban. *)
LEMMA BanStep ==
    ASSUME IndInv, [Next]_vars, NEW u \in Users,
           status[u] = "banned", status'[u] # "banned"
    PROVE  BanLifted(u)
  <1> USE DEF IndInv, TypeOK, DatabaseTypeOK, HandlersTypeOK, dbVars
  <1>1. PICK h \in Handlers : handlerStep(h)
    BY DEF Next, threadStep, accept, receiveFrame, leaveRun, peerStalls, threadEnds,
           crash, changeRole, setRole, vars
  <1>2. CASE loginCommits(h)
    <2>1. pc[h] = "loginUpdate" /\ arg[h] = u
      BY <1>2 DEF loginCommits, loginUpdate
    <2>2. status'[u] = "online"
      BY <1>2, <2>1 DEF loginCommits, loginUpdate
    <2> QED
      BY <2>1, <2>2 DEF BanLifted
  <1>3. CASE unbanCommits(h)
    BY <1>3 DEF unbanCommits, unbanUser, auditRow, BanLifted
  <1>4. CASE cleanupLogsOut(h)
    BY <1>4 DEF cleanupLogsOut, logoutUser, logoutUserFails, setOffline
  <1>5. CASE commitInDoubt(h)
    <2>1. pc[h] = "loginUpdate" /\ loginUpdateInDoubt(arg[h])
      BY <1>5 DEF commitInDoubt, storeMessage, sendMessageInsert, banUser, kickUser, setOffline
    <2> QED
      BY <2>1 DEF loginUpdateInDoubt, BanLifted
  <1>6. CASE /\ ~ loginCommits(h) /\ ~ unbanCommits(h)
             /\ ~ cleanupLogsOut(h) /\ ~ commitInDoubt(h)
    BY <1>1, <1>6
       DEF handlerStep, refuse, reply, handleRegister, registerUser, handleLogin,
           loginRegisters, handleLogout, cleanupRemoves, handleMessage, messageStored,
           messageAborted, storeMessage, sendMessageInsert, sendMessageAborts, deliverToUser,
           receiverLookupFails, handleModeration, banCommits, banUser, kickCommits,
           kickUser, setOffline, disconnectUser, deliverFrame, disconnectFromAdmin,
           loopEnds, destroyHandler
  <1> QED
    BY <1>2, <1>3, <1>4, <1>5, <1>6

(* A ban is lifted by UNBAN, or by a LOGIN that read the row before the ban;   *)
(* no other step of any thread, and no crash, ends it.                         *)
THEOREM BansOutliveSessions == Spec => BanOutlivesSessions
  <1>1. IndInv /\ [Next]_vars =>
          [\A u \in Users :
              status[u] = "banned" /\ status'[u] # "banned" => BanLifted(u)]_vars
    BY BanStep
  <1> QED
    BY <1>1, Inductive, PTL DEF Spec, BanOutlivesSessions
=============================================================================
