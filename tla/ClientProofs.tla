---------------------------- MODULE ClientProofs ----------------------------
(* Theorems about Client, for every set of logins and any number of frames on  *)
(* their way.                                                                  *)
EXTENDS Client, TLAPS

(* What Tail and Append do to the places of a sequence. *)
LEMMA TailPlaces ==
    ASSUME NEW S, NEW s \in Seq(S), s # <<>>
    PROVE  /\ Tail(s) \in Seq(S) /\ Len(s) \in Nat \ {0} /\ Len(Tail(s)) = Len(s) - 1
           /\ Head(s) = s[1] /\ Head(s) \in S
           /\ \A i \in 1..Len(Tail(s)) : i + 1 \in 1..Len(s) /\ Tail(s)[i] = s[i + 1]
  OBVIOUS

LEMMA AppendPlaces ==
    ASSUME NEW S, NEW s \in Seq(S), NEW e \in S
    PROVE  /\ Append(s, e) \in Seq(S) /\ Len(s) \in Nat /\ Len(Append(s, e)) = Len(s) + 1
           /\ Append(s, e)[Len(s) + 1] = e
           /\ \A i \in 1..Len(s) : Append(s, e)[i] = s[i]
  OBVIOUS

-----------------------------------------------------------------------------
(* Before connectToServer there is nothing, and a login is sent for a user. *)
ControlOK ==
    /\ menu = "start" =>
          /\ receiver = "none" /\ peer = "none"
          /\ currentUser = NoUser /\ session = NoUser
          /\ toServer = <<>> /\ toClient = <<>>
    /\ menu = "sendLogin" => typed \in Users

LEMMA CommandsTyped ==
    /\ \A u \in Users : Command("LOGIN", u) \in Commands
    /\ Command("LOGOUT", NoUser) \in Commands
    /\ Command("ASK", NoUser) \in Commands
    /\ \A c \in Commands : c.cmd = "LOGIN" => c.login \in Users
    /\ \A u : Command("LOGIN", u).cmd = "LOGIN" /\ Command("LOGIN", u).login = u
    /\ Command("LOGOUT", NoUser).cmd = "LOGOUT" /\ Command("ASK", NoUser).cmd = "ASK"
  BY DEF Command, Commands

(* sendCommand sends one command more, or none. *)
LEMMA SendType ==
    ASSUME TypeOK, NEW c \in Commands, sendCommand(c)
    PROVE  toServer' \in Seq(Commands) /\ running' \in BOOLEAN
  BY AppendPlaces DEF sendCommand, TypeOK

LEMMA NextType == TypeOK /\ ControlOK /\ [Next]_vars => TypeOK' /\ ControlOK'
  <1> SUFFICES ASSUME TypeOK, ControlOK, [Next]_vars PROVE TypeOK' /\ ControlOK'
    OBVIOUS
  <1> USE DEF TypeOK, ControlOK, fields, wires, auxiliary
  <1>1. CASE menuStep
    <2>1. CASE showMenu
      BY <1>1, <2>1 DEF menuStep, showMenu
    <2>2. CASE menu = "sendLogin" /\ login
      <3>1. Command("LOGIN", typed) \in Commands
        BY <2>2, CommandsTyped
      <3>2. toServer' \in Seq(Commands) /\ running' \in BOOLEAN
        BY <2>2, <3>1, SendType DEF login
      <3> QED
        BY <1>1, <2>2, <3>2 DEF menuStep, login
    <2>3. CASE menu = "clear" /\ logout
      BY <1>1, <2>3 DEF menuStep, logout, clearCurrentUser
    <2>4. CASE closeSocket \/ join \/ cancel
      BY <1>1, <2>4 DEF menuStep, closeSocket, join, cancel
    <2> QED
      BY <1>1, <2>1, <2>2, <2>3, <2>4 DEF menuStep
  <1>2. CASE input
    <2>1. CASE menu = "initial" /\ login
      BY <1>2, <2>1 DEF input, login
    <2>2. CASE ask
      <3>1. toServer' \in Seq(Commands) /\ running' \in BOOLEAN
        BY <2>2, CommandsTyped, SendType DEF ask
      <3> QED
        BY <1>2, <2>2, <3>1 DEF input, ask
    <2>3. CASE cancel \/ quit
      BY <1>2, <2>3 DEF input, cancel, quit
    <2>4. CASE menu = "user" /\ logout
      <3>1. toServer' \in Seq(Commands) /\ running' \in BOOLEAN
        BY <2>4, CommandsTyped, SendType DEF logout
      <3> QED
        BY <1>2, <2>4, <3>1 DEF input, logout
    <2> QED
      BY <1>2, <2>1, <2>2, <2>3, <2>4 DEF input
  <1>3. CASE receiverStep
    <2>1. CASE testRunning \/ receiveEnds
      BY <1>3, <2>1 DEF receiverStep, testRunning, receiveEnds
    <2>2. CASE receiveFrame
      <3>1. toClient' \in Seq(Answers)
        BY <2>2, TailPlaces DEF receiveFrame
      <3> QED
        BY <1>3, <2>2, <3>1 DEF receiverStep, receiveFrame, clearCurrentUser
    <2>3. CASE loginConfirmed
      BY <1>3, <2>3 DEF receiverStep, loginConfirmed, setCurrentUser
    <2> QED
      BY <1>3, <2>1, <2>2, <2>3 DEF receiverStep
  <1>4. CASE environment
    <2>1. CASE connectToServer \/ connectTimesOut
      BY <1>4, <2>1 DEF environment, connectToServer, connectTimesOut
    <2>2. CASE serve
      <3>1. toServer' \in Seq(Commands) /\ Head(toServer) \in Commands
        BY <2>2, TailPlaces DEF serve
      <3>2. toClient' \in Seq(Answers)
        <4>1. PICK a \in Answers : toClient' = Append(toClient, a)
          BY <2>2 DEF serve, Answers
        <4> QED
          BY <4>1, AppendPlaces
      <3>3. session' \in Users \cup {NoUser}
        BY <2>2, <3>1, CommandsTyped DEF serve
      <3> QED
        BY <1>4, <2>2, <3>1, <3>2, <3>3 DEF environment, serve
    <2>3. CASE serverDelivers
      <3>1. toClient' \in Seq(Answers)
        BY <2>3, AppendPlaces DEF serverDelivers, Answers
      <3> QED
        BY <1>4, <2>3, <3>1 DEF environment, serverDelivers
    <2>4. CASE serverKicks
      <3>1. toClient' \in Seq(Answers)
        BY <2>4, AppendPlaces DEF serverKicks, Answers
      <3> QED
        BY <1>4, <2>4, <3>1 DEF environment, serverKicks
    <2>5. CASE serverCloses
      BY <1>4, <2>5 DEF environment, serverCloses
    <2> QED
      BY <1>4, <2>1, <2>2, <2>3, <2>4, <2>5 DEF environment
  <1>5. CASE endOfInput
    BY <1>5 DEF endOfInput
  <1>6. CASE UNCHANGED vars
    BY <1>6 DEF vars
  <1> QED
    BY <1>1, <1>2, <1>3, <1>4, <1>5, <1>6 DEF Next

LEMMA InitType == Init => TypeOK /\ ControlOK
  <1> SUFFICES ASSUME Init PROVE TypeOK /\ ControlOK
    OBVIOUS
  <1>1. toServer \in Seq(Commands) /\ toClient \in Seq(Answers)
    BY DEF Init
  <1> QED
    BY <1>1 DEF Init, TypeOK, ControlOK

LEMMA Typed == Spec => [](TypeOK /\ ControlOK)
  BY InitType, NextType, PTL DEF Spec

(* Every field of the client, whichever thread writes it, and every frame on    *)
(* its way keeps its type: currentUser_ is always a login or empty.             *)
THEOREM TypeCorrect == Spec => []TypeOK
  BY Typed, PTL

-----------------------------------------------------------------------------
(* The answers that clear currentUser_. *)
Clearing == {"LOGIN_ERROR", "LOGOUT_OK", "KICKED"}

(* The strengthening that ShownMeansSession needs.  While the server has no     *)
(* session for this connection, whatever would make the client show a user, or  *)
(* has done so, will be undone by an answer that is still to be read.           *)
ShownOK ==
    peer = "open" /\ session = NoUser =>
        /\ \A i \in 1..Len(toClient) : toClient[i] = "LOGIN_OK" =>
              \E j \in 1..Len(toClient) : i < j /\ toClient[j] \in Clearing
        /\ receiver = "setUser" \/ currentUser # NoUser =>
              \E j \in 1..Len(toClient) : toClient[j] \in Clearing

(* An answer that leaves the server without a session for this connection, or   *)
(* says nothing of sessions, keeps ShownOK.                                     *)
LEMMA AppendShown ==
    ASSUME TypeOK, NEW a \in Answers, toClient' = Append(toClient, a),
           UNCHANGED <<receiver, currentUser, peer>>,
           a \in Clearing \/ (a # "LOGIN_OK" /\ session = NoUser /\ ShownOK)
    PROVE  ShownOK'
  <1>1. /\ Len(toClient) \in Nat /\ Len(toClient') = Len(toClient) + 1
        /\ toClient'[Len(toClient) + 1] = a
        /\ \A i \in 1..Len(toClient) : toClient'[i] = toClient[i]
    BY AppendPlaces DEF TypeOK
  <1>2. CASE a \in Clearing
    <2>1. \A i \in 1..Len(toClient') : toClient'[i] = "LOGIN_OK" => i < Len(toClient')
      BY <1>1, <1>2 DEF Clearing
    <2>2. Len(toClient') \in 1..Len(toClient') /\ toClient'[Len(toClient')] \in Clearing
      BY <1>1, <1>2
    <2> QED
      BY <2>1, <2>2 DEF ShownOK
  <1>3. CASE a # "LOGIN_OK" /\ session = NoUser /\ ShownOK
    BY <1>1, <1>3 DEF ShownOK
  <1> QED
    BY <1>2, <1>3

LEMMA NextShown == TypeOK /\ ControlOK /\ ShownOK /\ [Next]_vars => ShownOK'
  <1> SUFFICES ASSUME TypeOK, ControlOK, ShownOK, [Next]_vars PROVE ShownOK'
    OBVIOUS
  <1> USE DEF fields, wires, auxiliary
  <1>1. CASE UNCHANGED <<toClient, session, receiver, currentUser, peer>>
    BY <1>1 DEF ShownOK
  <1>2. CASE menu = "clear" /\ logout
    BY <1>2 DEF logout, clearCurrentUser, ShownOK
  <1>3. CASE testRunning \/ receiveEnds
    BY <1>3 DEF testRunning, receiveEnds, ShownOK
  <1>4. CASE receiveFrame
    <2>1. /\ Len(toClient) \in Nat \ {0} /\ Len(toClient') = Len(toClient) - 1
          /\ Head(toClient) = toClient[1]
          /\ \A i \in 1..Len(toClient') : toClient'[i] = toClient[i + 1]
      BY <1>4, TailPlaces DEF receiveFrame, TypeOK
    <2> SUFFICES ASSUME peer = "open", session = NoUser
                 PROVE  /\ \A i \in 1..Len(toClient') : toClient'[i] = "LOGIN_OK" =>
                             \E j \in 1..Len(toClient') : i < j /\ toClient'[j] \in Clearing
                        /\ receiver' = "setUser" \/ currentUser' # NoUser =>
                             \E j \in 1..Len(toClient') : toClient'[j] \in Clearing
      BY <1>4 DEF receiveFrame, ShownOK
    <2>2. ASSUME NEW i \in 1..Len(toClient'), toClient'[i] = "LOGIN_OK"
          PROVE  \E j \in 1..Len(toClient') : i < j /\ toClient'[j] \in Clearing
      <3>1. PICK j \in 1..Len(toClient) : i + 1 < j /\ toClient[j] \in Clearing
        BY <2>1, <2>2 DEF ShownOK
      <3>2. j - 1 \in 1..Len(toClient') /\ toClient'[j - 1] = toClient[j] /\ i < j - 1
        BY <2>1, <3>1
      <3> QED
        BY <3>1, <3>2
    <2>3. ASSUME receiver' = "setUser" \/ currentUser' # NoUser
          PROVE  \E j \in 1..Len(toClient') : toClient'[j] \in Clearing
      <3>1. toClient[1] \notin Clearing
        BY <1>4, <2>1, <2>3 DEF receiveFrame, clearCurrentUser, Clearing
      <3>2. toClient[1] = "LOGIN_OK" \/ currentUser # NoUser
        BY <1>4, <2>1, <2>3 DEF receiveFrame, clearCurrentUser
      <3>3. PICK j \in 1..Len(toClient) : toClient[j] \in Clearing
        BY <2>1, <3>2 DEF ShownOK
      <3>4. j - 1 \in 1..Len(toClient') /\ toClient'[j - 1] = toClient[j]
        BY <2>1, <3>1, <3>3
      <3> QED
        BY <3>3, <3>4
    <2> QED
      BY <2>2, <2>3
  <1>5. CASE loginConfirmed
    BY <1>5 DEF loginConfirmed, setCurrentUser, ShownOK
  <1>6. CASE connectToServer
    <2>1. Len(toClient') = 0 /\ currentUser' = NoUser /\ receiver' = "test"
      BY <1>6 DEF connectToServer, ControlOK
    <2> QED
      BY <2>1 DEF ShownOK
  <1>7. CASE serve
    <2>1. CASE Head(toServer).cmd = "LOGIN" /\ session' = Head(toServer).login
      <3>1. session' \in Users
        BY <1>7, <2>1, TailPlaces, CommandsTyped DEF serve, TypeOK
      <3> QED
        BY <3>1, ClientAssumption DEF ShownOK
    <2>2. CASE toClient' = Append(toClient, "LOGIN_ERROR") \/ toClient' = Append(toClient, "LOGOUT_OK")
      BY <1>7, <2>2, AppendShown DEF serve, Clearing, Answers
    <2>3. CASE toClient' = Append(toClient, "TEXT") /\ session' = session
      <3>1. CASE session = NoUser
        BY <1>7, <2>3, <3>1, AppendShown DEF serve, Answers
      <3>2. CASE session # NoUser
        BY <2>3, <3>2 DEF ShownOK
      <3> QED
        BY <3>1, <3>2
    <2> QED
      BY <1>7, <2>1, <2>2, <2>3 DEF serve
  <1>8. CASE serverDelivers
    BY <1>8 DEF serverDelivers, ShownOK
  <1>9. CASE serverKicks \/ serverCloses
    BY <1>9 DEF serverKicks, serverCloses, ShownOK
  <1> QED
    <2>1. CASE menuStep
      BY <1>1, <1>2, <2>1 DEF menuStep, showMenu, login, closeSocket, join, cancel
    <2>2. CASE input
      BY <1>1, <2>2 DEF input, login, ask, cancel, quit, logout
    <2>3. CASE receiverStep
      BY <1>3, <1>4, <1>5, <2>3 DEF receiverStep
    <2>4. CASE environment
      BY <1>1, <1>6, <1>7, <1>8, <1>9, <2>4 DEF environment, connectTimesOut
    <2>5. CASE endOfInput \/ UNCHANGED vars
      BY <1>1, <2>5 DEF endOfInput, vars
    <2> QED
      BY <2>1, <2>2, <2>3, <2>4, <2>5 DEF Next

(* However the answers and the two threads of the client interleave, and        *)
(* however logins and logouts overlap, a client that shows a user when          *)
(* everything has arrived has a session on the server.                          *)
THEOREM ShownHasSession == Spec => []ShownMeansSession
  <1>1. Init => ShownOK
    BY DEF Init, ShownOK
  <1>2. ShownOK => ShownMeansSession
    BY DEF ShownOK, ShownMeansSession, Quiet
  <1> QED
    BY <1>1, <1>2, NextShown, Typed, PTL DEF Spec

-----------------------------------------------------------------------------
(* The LOGIN and LOGOUT commands on their way, and the answers to them. *)
Asked == {i \in 1..Len(toServer) : toServer[i].cmd # "ASK"}
Answered == {i \in 1..Len(toClient) : toClient[i] # "TEXT"}

(* As long as the user waits for the answer to each LOGIN and LOGOUT, there is  *)
(* one of them in the whole round from the menu to currentUser_.                *)
OneAtATime ==
    /\ \A i, j \in Asked : i = j
    /\ \A i, j \in Answered : i = j
    /\ Asked = {} \/ Answered = {}
    /\ receiver = "setUser" => Asked = {} /\ Answered = {}

(* Wherever it is, it agrees with the fields of the client and the session of   *)
(* the server.                                                                  *)
Tracked ==
    /\ ~ Unanswered => currentUser = session
    /\ menu = "sendLogin" => ~ Unanswered /\ pendingLogin = typed
    /\ menu = "clear" =>
          /\ receiver # "setUser"
          /\ \A i \in Asked : toServer[i].cmd = "LOGOUT"
          /\ \A i \in Answered : toClient[i] = "LOGOUT_OK"
          /\ Asked # {} \/ session = NoUser
    /\ \A i \in Asked : toServer[i].cmd = "LOGIN" => pendingLogin = toServer[i].login
    /\ \A i \in Answered : \/ toClient[i] = "LOGIN_OK" /\ pendingLogin = session
                           \/ toClient[i] \in {"LOGIN_ERROR", "LOGOUT_OK"} /\ session = NoUser
    /\ receiver = "setUser" => user = session

(* The strengthening that InSync needs. *)
Orderly == peer = "open" /\ running /\ ~overlapped /\ ~refused

InOrder == Orderly => OneAtATime /\ Tracked

(* How the two sets move with the frames. *)
LEMMA AskedAppend ==
    ASSUME TypeOK, NEW c \in Commands, toServer' = Append(toServer, c)
    PROVE  /\ Asked' = IF c.cmd = "ASK" THEN Asked ELSE Asked \cup {Len(toServer) + 1}
           /\ \A i \in Asked : toServer'[i] = toServer[i]
           /\ toServer'[Len(toServer) + 1] = c
  <1>1. /\ Len(toServer) \in Nat /\ Len(toServer') = Len(toServer) + 1
        /\ toServer'[Len(toServer) + 1] = c
        /\ \A i \in 1..Len(toServer) : toServer'[i] = toServer[i]
    BY AppendPlaces DEF TypeOK
  <1> QED
    BY <1>1 DEF Asked

LEMMA AskedTail ==
    ASSUME TypeOK, toServer # <<>>, toServer' = Tail(toServer)
    PROVE  /\ \A i \in Asked' : i + 1 \in Asked /\ toServer'[i] = toServer[i + 1] /\ i + 1 # 1
           /\ Asked # {} => 1 \in Asked \/ Asked' # {}
           /\ 1 \in Asked <=> Head(toServer).cmd # "ASK"
           /\ Head(toServer) = toServer[1]
  <1>1. /\ Len(toServer) \in Nat \ {0} /\ Len(toServer') = Len(toServer) - 1
        /\ Head(toServer) = toServer[1]
        /\ \A i \in 1..Len(toServer') : i + 1 \in 1..Len(toServer) /\ toServer'[i] = toServer[i + 1]
    BY TailPlaces DEF TypeOK
  <1>2. ASSUME NEW i \in Asked, i # 1 PROVE i - 1 \in Asked'
    <2>1. i \in 1..Len(toServer) /\ i - 1 \in 1..Len(toServer')
      BY <1>1, <1>2 DEF Asked
    <2>2. toServer'[i - 1] = toServer[(i - 1) + 1] /\ (i - 1) + 1 = i
      BY <1>1, <2>1
    <2> QED
      BY <1>2, <2>1, <2>2 DEF Asked
  <1>3. \A i \in Asked' : i + 1 \in Asked /\ toServer'[i] = toServer[i + 1] /\ i + 1 # 1
    BY <1>1 DEF Asked
  <1>4. 1 \in Asked <=> Head(toServer).cmd # "ASK"
    BY <1>1 DEF Asked
  <1> QED
    BY <1>1, <1>2, <1>3, <1>4

LEMMA AnsweredAppend ==
    ASSUME TypeOK, NEW a \in Answers, toClient' = Append(toClient, a)
    PROVE  /\ Answered' = IF a = "TEXT" THEN Answered ELSE Answered \cup {Len(toClient) + 1}
           /\ \A i \in Answered : toClient'[i] = toClient[i]
           /\ toClient'[Len(toClient) + 1] = a
  <1>1. /\ Len(toClient) \in Nat /\ Len(toClient') = Len(toClient) + 1
        /\ toClient'[Len(toClient) + 1] = a
        /\ \A i \in 1..Len(toClient) : toClient'[i] = toClient[i]
    BY AppendPlaces DEF TypeOK
  <1> QED
    BY <1>1 DEF Answered

LEMMA AnsweredTail ==
    ASSUME TypeOK, toClient # <<>>, toClient' = Tail(toClient)
    PROVE  /\ \A i \in Answered' : i + 1 \in Answered /\ toClient'[i] = toClient[i + 1] /\ i + 1 # 1
           /\ Answered # {} => 1 \in Answered \/ Answered' # {}
           /\ 1 \in Answered <=> Head(toClient) # "TEXT"
           /\ Head(toClient) = toClient[1]
  <1>1. /\ Len(toClient) \in Nat \ {0} /\ Len(toClient') = Len(toClient) - 1
        /\ Head(toClient) = toClient[1]
        /\ \A i \in 1..Len(toClient') : i + 1 \in 1..Len(toClient) /\ toClient'[i] = toClient[i + 1]
    BY TailPlaces DEF TypeOK
  <1>2. ASSUME NEW i \in Answered, i # 1 PROVE i - 1 \in Answered'
    <2>1. i \in 1..Len(toClient) /\ i - 1 \in 1..Len(toClient')
      BY <1>1, <1>2 DEF Answered
    <2>2. toClient'[i - 1] = toClient[(i - 1) + 1] /\ (i - 1) + 1 = i
      BY <1>1, <2>1
    <2> QED
      BY <1>2, <2>1, <2>2 DEF Answered
  <1>3. \A i \in Answered' : i + 1 \in Answered /\ toClient'[i] = toClient[i + 1] /\ i + 1 # 1
    BY <1>1 DEF Answered
  <1>4. 1 \in Answered <=> Head(toClient) # "TEXT"
    BY <1>1 DEF Answered
  <1> QED
    BY <1>1, <1>2, <1>3, <1>4

(* The steps of the menu thread. *)
LEMMA MenuInOrder ==
    ASSUME TypeOK, ControlOK, InOrder, Orderly', menuStep \/ input
    PROVE  (OneAtATime /\ Tracked)'
  <1> USE DEF fields, wires, auxiliary
  <1>1. /\ Unanswered <=> receiver = "setUser" \/ Asked # {} \/ Answered # {}
        /\ Unanswered' <=> receiver' = "setUser" \/ Asked' # {} \/ Answered' # {}
    BY DEF Unanswered, Asked, Answered
  <1>2. UNCHANGED <<receiver, user, peer, toClient, session, refused>> /\ Answered' = Answered
    BY DEF menuStep, input, showMenu, login, logout, closeSocket, join, cancel, ask, quit,
           clearCurrentUser, Answered
  <1>3. OneAtATime /\ Tracked /\ peer = "open" /\ running'
    <2>1. running' = running \/ running' = FALSE
      BY DEF menuStep, input, showMenu, login, logout, closeSocket, join, cancel, ask, quit,
             sendCommand
    <2>2. overlapped' = overlapped \/ overlapped' = (overlapped \/ Unanswered)
      BY DEF menuStep, input, showMenu, login, logout, closeSocket, join, cancel, ask, quit
    <2>3. running' /\ ~overlapped'
      BY DEF Orderly
    <2>4. running
      BY <2>1, <2>3
    <2>5. ~overlapped
      BY <2>2, <2>3, Zenon
    <2> QED
      BY <1>2, <2>3, <2>4, <2>5 DEF Orderly, InOrder
  <1>4. CASE menu = "initial" /\ login
    <2>1. ~Unanswered
      BY <1>4 DEF login, Orderly
    <2>2. Asked' = Asked /\ toServer' = toServer
      BY <1>4 DEF login, Asked
    <2> QED
      BY <1>1, <1>2, <1>3, <1>4, <2>1, <2>2 DEF login, OneAtATime, Tracked
  <1>5. CASE menu = "sendLogin" /\ login
    <2>1. ~Unanswered /\ pendingLogin = typed
      BY <1>3, <1>5 DEF Tracked
    <2>2. toServer' = Append(toServer, Command("LOGIN", typed)) /\ typed \in Users
      BY <1>3, <1>5 DEF login, sendCommand, ControlOK
    <2>3. Asked' = {Len(toServer) + 1} /\ toServer'[Len(toServer) + 1] = Command("LOGIN", typed)
      BY <1>1, <2>1, <2>2, AskedAppend, CommandsTyped
    <2>4. Answered' = {} /\ receiver' # "setUser" /\ pendingLogin' = typed /\ menu' = "top"
      BY <1>1, <1>2, <1>5, <2>1 DEF login
    <2> QED
      BY <1>1, <2>3, <2>4, CommandsTyped DEF OneAtATime, Tracked
  <1>6. CASE ask
    <2>1. toServer' = Append(toServer, Command("ASK", NoUser))
      BY <1>3, <1>6 DEF ask, sendCommand
    <2>2. Asked' = Asked /\ \A i \in Asked : toServer'[i] = toServer[i]
      BY <2>1, AskedAppend, CommandsTyped
    <2> QED
      BY <1>1, <1>2, <1>3, <1>6, <2>2 DEF ask, OneAtATime, Tracked
  <1>7. CASE menu = "user" /\ logout
    <2>1. ~Unanswered
      BY <1>7 DEF logout, Orderly
    <2>2. toServer' = Append(toServer, Command("LOGOUT", NoUser))
      BY <1>3, <1>7 DEF logout, sendCommand
    <2>3. Asked' = {Len(toServer) + 1} /\ toServer'[Len(toServer) + 1] = Command("LOGOUT", NoUser)
      BY <1>1, <2>1, <2>2, AskedAppend, CommandsTyped
    <2>4. Answered' = {} /\ receiver' # "setUser" /\ menu' = "clear"
      BY <1>1, <1>2, <1>7, <2>1 DEF logout
    <2> QED
      BY <1>1, <2>3, <2>4, CommandsTyped DEF OneAtATime, Tracked
  <1>8. CASE menu = "clear" /\ logout
    <2>1. Asked' = Asked /\ toServer' = toServer /\ currentUser' = NoUser /\ menu' = "top"
      BY <1>8 DEF logout, clearCurrentUser, Asked
    <2> QED
      BY <1>1, <1>2, <1>3, <1>8, <2>1 DEF OneAtATime, Tracked
  <1>9. CASE showMenu \/ closeSocket \/ join \/ cancel
    <2>1. /\ Asked' = Asked /\ UNCHANGED <<toServer, currentUser, pendingLogin>>
          /\ menu' \notin {"sendLogin", "clear"}
      BY <1>9 DEF showMenu, closeSocket, join, cancel, Asked
    <2> QED
      BY <1>1, <1>2, <1>3, <2>1 DEF OneAtATime, Tracked
  <1>10. CASE quit
    BY <1>3, <1>10 DEF quit
  <1> QED
    BY <1>4, <1>5, <1>6, <1>7, <1>8, <1>9, <1>10 DEF menuStep, input

(* The steps of receiveLoop. *)
LEMMA ReceiverInOrder ==
    ASSUME TypeOK, InOrder, Orderly', receiverStep
    PROVE  (OneAtATime /\ Tracked)'
  <1> USE DEF fields, wires, auxiliary
  <1>1. /\ Unanswered <=> receiver = "setUser" \/ Asked # {} \/ Answered # {}
        /\ Unanswered' <=> receiver' = "setUser" \/ Asked' # {} \/ Answered' # {}
    BY DEF Unanswered, Asked, Answered
  <1>2. UNCHANGED <<menu, typed, peer, toServer, session, refused, overlapped>> /\ Asked' = Asked
    BY DEF receiverStep, testRunning, receiveFrame, loginConfirmed, receiveEnds, Asked
  <1>3. OneAtATime /\ Tracked
    <2>1. running
      BY DEF receiverStep, testRunning, receiveFrame, loginConfirmed, receiveEnds, Orderly,
             TypeOK
    <2> QED
      BY <1>2, <2>1 DEF Orderly, InOrder
  <1>4. CASE testRunning
    <2>1. /\ Answered' = Answered /\ UNCHANGED <<toClient, currentUser, pendingLogin>>
          /\ receiver # "setUser" /\ receiver' # "setUser"
      BY <1>4 DEF testRunning, Answered
    <2> QED
      BY <1>1, <1>2, <1>3, <2>1 DEF OneAtATime, Tracked
  <1>5. CASE receiveFrame
    <2>1. /\ \A i \in Answered' : i + 1 \in Answered /\ toClient'[i] = toClient[i + 1] /\ i + 1 # 1
          /\ Answered # {} => 1 \in Answered \/ Answered' # {}
          /\ 1 \in Answered <=> Head(toClient) # "TEXT"
          /\ Head(toClient) = toClient[1]
      BY <1>5, AnsweredTail DEF receiveFrame
    <2>2. Answered' \subseteq Nat
      BY DEF Answered
    <2>3. CASE Head(toClient) = "LOGIN_OK"
      <3>1. 1 \in Answered /\ Answered' = {} /\ Asked = {}
        BY <1>3, <2>1, <2>3 DEF OneAtATime
      <3>2. pendingLogin = session /\ menu \notin {"sendLogin", "clear"}
        BY <1>1, <1>3, <2>1, <2>3, <3>1 DEF Tracked
      <3>3. receiver' = "setUser" /\ user' = pendingLogin
        BY <1>5, <2>3 DEF receiveFrame
      <3> QED
        BY <1>1, <1>2, <3>1, <3>2, <3>3 DEF OneAtATime, Tracked
    <2>4. CASE Head(toClient) \in {"LOGIN_ERROR", "LOGOUT_OK", "KICKED"}
      <3>1. 1 \in Answered /\ Answered' = {} /\ Asked = {}
        BY <1>3, <2>1, <2>4 DEF OneAtATime
      <3>2. session = NoUser /\ menu # "sendLogin"
        BY <1>1, <1>3, <2>1, <2>4, <3>1 DEF Tracked
      <3>3. receiver' = "test" /\ currentUser' = NoUser
        BY <1>5, <2>4 DEF receiveFrame, clearCurrentUser
      <3> QED
        BY <1>1, <1>2, <3>1, <3>2, <3>3 DEF OneAtATime, Tracked
    <2>5. CASE Head(toClient) = "TEXT"
      <3>1. receiver # "setUser" /\ receiver' = "test" /\ UNCHANGED <<currentUser, pendingLogin>>
        BY <1>5, <2>5 DEF receiveFrame
      <3>2. Answered = {} <=> Answered' = {}
        BY <2>1, <2>5
      <3>3. OneAtATime'
        <4>1. \A i, j \in Answered' : i = j
          <5>1. \A i, j \in Answered' : i + 1 = j + 1
            BY <1>3, <2>1 DEF OneAtATime
          <5> QED
            BY <2>2, <5>1
        <4> QED
          BY <1>2, <1>3, <3>1, <3>2, <4>1 DEF OneAtATime
      <3> QED
        BY <1>1, <1>2, <1>3, <2>1, <3>1, <3>2, <3>3 DEF Tracked
    <2> QED
      BY <1>5, <2>3, <2>4, <2>5 DEF receiveFrame
  <1>6. CASE loginConfirmed
    <2>1. /\ receiver = "setUser" /\ receiver' = "test" /\ currentUser' = user
          /\ Answered' = Answered
      BY <1>6 DEF loginConfirmed, setCurrentUser, Answered
    <2>2. Asked = {} /\ Answered = {} /\ user = session
      BY <1>3, <2>1 DEF OneAtATime, Tracked
    <2>3. menu \notin {"sendLogin", "clear"}
      BY <1>1, <1>3, <2>1 DEF Tracked
    <2> QED
      BY <1>1, <1>2, <2>1, <2>2, <2>3 DEF OneAtATime, Tracked
  <1>7. CASE receiveEnds
    BY <1>7 DEF receiveEnds, Orderly
  <1> QED
    BY <1>4, <1>5, <1>6, <1>7 DEF receiverStep

(* The steps of the server, and the connecting. *)
LEMMA ServerInOrder ==
    ASSUME TypeOK, ControlOK, InOrder, Orderly', environment
    PROVE  (OneAtATime /\ Tracked)'
  <1> USE DEF fields, wires, auxiliary
  <1>1. /\ Unanswered <=> receiver = "setUser" \/ Asked # {} \/ Answered # {}
        /\ Unanswered' <=> receiver' = "setUser" \/ Asked' # {} \/ Answered' # {}
    BY DEF Unanswered, Asked, Answered
  <1>2. CASE connectToServer
    <2>1. /\ menu' = "top" /\ receiver' = "test" /\ currentUser' = session'
          /\ toServer' = <<>> /\ toClient' = <<>>
      BY <1>2 DEF connectToServer, ControlOK
    <2>2. Asked' = {} /\ Answered' = {}
      BY <2>1 DEF Asked, Answered
    <2> QED
      BY <1>1, <2>1, <2>2 DEF OneAtATime, Tracked
  <1>3. CASE connectTimesOut \/ serverKicks \/ serverCloses
    BY <1>3 DEF connectTimesOut, serverKicks, serverCloses, ControlOK, Orderly
  <1>4. ASSUME serve \/ serverDelivers
        PROVE  /\ OneAtATime /\ Tracked
               /\ UNCHANGED <<menu, typed, receiver, user, currentUser, pendingLogin>>
    BY <1>4 DEF serve, serverDelivers, InOrder, Orderly, TypeOK
  <1>5. CASE serverDelivers
    <2>1. Answered' = Answered /\ \A i \in Answered : toClient'[i] = toClient[i]
      BY <1>5, AnsweredAppend DEF serverDelivers, Answers
    <2>2. Asked' = Asked /\ UNCHANGED <<toServer, session>>
      BY <1>5 DEF serverDelivers, Asked
    <2> QED
      BY <1>1, <1>4, <1>5, <2>1, <2>2 DEF OneAtATime, Tracked
  <1>6. CASE serve
    <2>1. /\ \A i \in Asked' : i + 1 \in Asked /\ toServer'[i] = toServer[i + 1] /\ i + 1 # 1
          /\ Asked # {} => 1 \in Asked \/ Asked' # {}
          /\ 1 \in Asked <=> Head(toServer).cmd # "ASK"
          /\ Head(toServer) = toServer[1]
      BY <1>6, AskedTail DEF serve
    <2>2. Asked' \subseteq Nat
      BY DEF Asked
    <2>3. CASE Head(toServer).cmd = "ASK"
      <3>1. Answered' = Answered /\ \A i \in Answered : toClient'[i] = toClient[i]
        BY <1>6, <2>3, AnsweredAppend DEF serve, Answers
      <3>2. session' = session
        BY <1>6, <2>3 DEF serve
      <3>3. Asked = {} <=> Asked' = {}
        BY <2>1, <2>3
      <3>4. \A i, j \in Asked' : i = j
        <4>1. \A i, j \in Asked' : i + 1 = j + 1
          BY <1>4, <1>6, <2>1 DEF OneAtATime
        <4> QED
          BY <2>2, <4>1
      <3>5. OneAtATime'
        BY <1>4, <1>6, <3>1, <3>3, <3>4 DEF OneAtATime
      <3> QED
        BY <1>1, <1>4, <1>6, <2>1, <3>1, <3>2, <3>3, <3>5 DEF Tracked
    <2>4. CASE Head(toServer).cmd # "ASK"
      <3>1. /\ 1 \in Asked /\ Asked' = {} /\ Answered = {}
            /\ receiver # "setUser" /\ menu # "sendLogin"
        BY <1>1, <1>4, <1>6, <2>1, <2>4 DEF OneAtATime, Tracked
      <3>2. PICK a \in Answers \ {"TEXT"} :
               /\ toClient' = Append(toClient, a)
               /\ \/ /\ a = "LOGIN_OK" /\ Head(toServer).cmd = "LOGIN"
                     /\ session' = Head(toServer).login
                  \/ a = "LOGIN_ERROR" /\ Head(toServer).cmd = "LOGIN" /\ session' = NoUser
                  \/ a = "LOGOUT_OK" /\ Head(toServer).cmd = "LOGOUT" /\ session' = NoUser
        BY <1>6, <2>4 DEF serve, Answers, Orderly
      <3>3. Answered' = {Len(toClient) + 1} /\ toClient'[Len(toClient) + 1] = a
        BY <3>1, <3>2, AnsweredAppend
      <3>4. a = "LOGIN_OK" => pendingLogin = session'
        BY <1>4, <1>6, <2>1, <3>1, <3>2 DEF Tracked
      <3>5. menu = "clear" => a = "LOGOUT_OK"
        BY <1>4, <1>6, <2>1, <3>1, <3>2 DEF Tracked
      <3> QED
        BY <1>1, <1>4, <1>6, <3>1, <3>2, <3>3, <3>4, <3>5 DEF OneAtATime, Tracked
    <2> QED
      BY <2>3, <2>4
  <1> QED
    BY <1>2, <1>3, <1>5, <1>6 DEF environment

LEMMA NextInOrder == TypeOK /\ ControlOK /\ InOrder /\ [Next]_vars => InOrder'
  <1> SUFFICES ASSUME TypeOK, ControlOK, InOrder, [Next]_vars, Orderly'
               PROVE  (OneAtATime /\ Tracked)'
    BY DEF InOrder
  <1>1. CASE endOfInput \/ UNCHANGED vars
    <2>1. UNCHANGED <<menu, typed, receiver, user, running, currentUser, pendingLogin, peer,
                      toServer, toClient, session, overlapped, refused>>
      BY <1>1 DEF endOfInput, vars, fields, wires, auxiliary
    <2> QED
      BY <2>1 DEF InOrder, Orderly, OneAtATime, Tracked, Asked, Answered, Unanswered
  <1> QED
    BY <1>1, MenuInOrder, ReceiverInOrder, ServerInOrder DEF Next

(* A client whose user waits for each answer shows, when everything has         *)
(* arrived, the user that the server has logged in: for every interleaving of   *)
(* the menu, receiveLoop with its two critical sections, and the server.        *)
THEOREM ClientInSync == Spec => []InSync
  <1>1. Init => InOrder
    BY DEF Init, InOrder, Orderly
  <1>2. InOrder => InSync
    BY DEF InOrder, Orderly, Tracked, InSync, Quiet, Unanswered
  <1> QED
    BY <1>1, <1>2, NextInOrder, Typed, PTL DEF Spec
=============================================================================
