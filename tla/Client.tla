------------------------------- MODULE Client -------------------------------
(***************************************************************************)
(* The console client of Client.cpp: the thread of run(), which shows      *)
(* menus and sends commands, the thread of receiveLoop(), which reads what *)
(* the server sends, the fields they share, and the server as this one     *)
(* connection sees it.                                                     *)
(*                                                                         *)
(* The menu thread does not wait for answers: after login() it shows the   *)
(* initial menu again, whatever the server will say.  The channels carry   *)
(* whole frames in order (see module Framing).  An answer that only prints *)
(* is "TEXT", whatever its command and however many frames it has, and a   *)
(* command that only asks for such an answer is "ASK".                     *)
(***************************************************************************)
EXTENDS Naturals, Sequences

CONSTANTS
    Users,      \* logins
    NoUser,     \* the empty string in currentUser_ and pendingLogin_
    MaxFlight   \* bound: frames on their way in one direction

ASSUME ClientAssumption == NoUser \notin Users /\ MaxFlight \in Nat

VARIABLES
    menu,           \* what the thread of run() does next
    typed,          \* the login typed in at promptLogin
    stdin,          \* standard input: "open", or "eof"
    receiver,       \* what the thread of receiveLoop() does next
    user,           \* receiveLoop's copy of pendingLogin_
    running,        \* running_
    currentUser,    \* currentUser_
    pendingLogin,   \* pendingLogin_
    socket,         \* socket_: "none", "open" or "closed"
    peer,           \* the server's end: "none", "open" or "closed"
    toServer,       \* commands on their way
    toClient,       \* answers and events on their way
    session,        \* the user the server has this connection logged in as
    overlapped,     \* auxiliary: a login or logout was begun before the last was answered
    refused         \* auxiliary: a login was refused while the session had a user

fields == <<running, currentUser, pendingLogin>>
wires == <<toServer, toClient>>
auxiliary == <<overlapped, refused>>
vars ==
    <<menu, typed, stdin, receiver, user, fields, socket, peer, wires, session, auxiliary>>

Command(c, u) == [cmd |-> c, login |-> u]
Commands == {Command("LOGIN", u) : u \in Users}
            \cup {Command("LOGOUT", NoUser), Command("ASK", NoUser)}
Answers == {"LOGIN_OK", "LOGIN_ERROR", "LOGOUT_OK", "KICKED", "TEXT"}

TypeOK ==
    /\ menu \in {"start", "top", "initial", "user", "sendLogin", "clear", "closing",
                 "joining", "ended"}
    /\ receiver \in {"none", "test", "recv", "setUser", "ended"}
    /\ {typed, user, currentUser, pendingLogin, session} \subseteq Users \cup {NoUser}
    /\ stdin \in {"open", "eof"}
    /\ socket \in {"none", "open", "closed"} /\ peer \in {"none", "open", "closed"}
    /\ toServer \in Seq(Commands) /\ toClient \in Seq(Answers)
    /\ {running, overlapped, refused} \subseteq BOOLEAN

Init ==
    /\ menu = "start" /\ receiver = "none"
    /\ typed = NoUser /\ user = NoUser /\ stdin = "open"
    /\ running = FALSE /\ currentUser = NoUser /\ pendingLogin = NoUser
    /\ socket = "none" /\ peer = "none"
    /\ toServer = <<>> /\ toClient = <<>>
    /\ session = NoUser
    /\ overlapped = FALSE /\ refused = FALSE

-----------------------------------------------------------------------------
(* The fields under userMutex_. *)
setCurrentUser(u) == currentUser' = u /\ pendingLogin' = NoUser

(* Mutated form: the user is left as it was. *)
clearPendingOnly == pendingLogin' = NoUser /\ UNCHANGED currentUser

clearCurrentUser == currentUser' = NoUser /\ pendingLogin' = NoUser

(* A LOGIN or LOGOUT whose answer receiveLoop has not dealt with. *)
Unanswered ==
    \/ receiver = "setUser"
    \/ \E i \in 1..Len(toServer) : toServer[i].cmd # "ASK"
    \/ \E i \in 1..Len(toClient) : toClient[i] # "TEXT"

(* connectToServer succeeds within its deadline, and run starts the receiver. *)
connectToServer ==
    /\ menu = "start"
    /\ menu' = "top" /\ receiver' = "test"
    /\ running' = TRUE
    /\ socket' = "open" /\ peer' = "open"
    /\ UNCHANGED <<typed, user, currentUser, pendingLogin, wires, session, auxiliary>>

(* Sixty seconds are over, and run returns. *)
connectTimesOut ==
    /\ menu = "start"
    /\ menu' = "ended"
    /\ UNCHANGED <<typed, receiver, user, fields, socket, peer, wires, session, auxiliary>>

(* run's loop: which menu is shown depends on currentUser_ as it is now. *)
showMenu ==
    /\ menu = "top"
    /\ menu' = IF ~running THEN "closing"
               ELSE IF currentUser = NoUser THEN "initial" ELSE "user"
    /\ UNCHANGED <<typed, receiver, user, fields, socket, peer, wires, session, auxiliary>>

(* sendCommand: sendFrame writes the frame, which is lost if the server is gone; *)
(* or it fails, on a broken connection or for a command that is too long.        *)
sendCommand(c) ==
    \/ /\ Len(toServer) < MaxFlight
       /\ toServer' = IF peer = "open" THEN Append(toServer, c) ELSE toServer
       /\ UNCHANGED running
    \/ /\ peer = "closed" \/ c.cmd # "LOGOUT"
       /\ running' = FALSE
       /\ UNCHANGED toServer

(* Mutated form: pendingLogin_ is set after the command has been sent. *)
loginSendsFirst ==
    \/ /\ menu = "initial"
       /\ typed' \in Users
       /\ sendCommand(Command("LOGIN", typed'))
       /\ overlapped' = (overlapped \/ Unanswered)
       /\ menu' = "sendLogin"
       /\ UNCHANGED <<receiver, user, currentUser, pendingLogin, socket, peer, toClient,
                      session, refused>>
    \/ /\ menu = "sendLogin"
       /\ pendingLogin' = typed
       /\ typed' = NoUser
       /\ menu' = "top"
       /\ UNCHANGED <<receiver, user, running, currentUser, socket, peer, wires, session,
                      auxiliary>>

(* login: the name is kept in pendingLogin_ under the lock, then LOGIN is sent. *)
login ==
    \/ /\ menu = "initial"
       /\ typed' \in Users
       /\ pendingLogin' = typed'
       /\ overlapped' = (overlapped \/ Unanswered)
       /\ menu' = "sendLogin"
       /\ UNCHANGED <<receiver, user, running, currentUser, socket, peer, wires, session,
                      refused>>
    \/ /\ menu = "sendLogin"
       /\ sendCommand(Command("LOGIN", typed))
       /\ typed' = NoUser
       /\ menu' = "top"
       /\ UNCHANGED <<receiver, user, currentUser, pendingLogin, socket, peer, toClient,
                      session, auxiliary>>

(* registerUser from the initial menu; listUsers, inbox, and, if currentUser_ is *)
(* still set, sendMessage and history from the other.                            *)
ask ==
    /\ menu \in {"initial", "user"}
    /\ sendCommand(Command("ASK", NoUser))
    /\ menu' = "top"
    /\ UNCHANGED <<typed, receiver, user, currentUser, pendingLogin, socket, peer, toClient,
                   session, auxiliary>>

(* Mutated form: the menu asks again until a key is pressed. *)
cancelAsksAgain ==
    /\ menu \in {"initial", "user"}
    /\ stdin = "open"
    /\ menu' = "top"
    /\ UNCHANGED <<typed, receiver, user, fields, socket, peer, wires, session, auxiliary>>

(* A wrong key, an empty answer to a prompt, sendMessage and history for a user  *)
(* who has been logged out since the menu was shown; or the end of the input,    *)
(* at which every menu returns at once.                                          *)
cancel ==
    /\ menu \in {"initial", "user"}
    /\ menu' = "top"
    /\ UNCHANGED <<typed, receiver, user, fields, socket, peer, wires, session, auxiliary>>

quit ==
    /\ menu = "initial"
    /\ running' = FALSE
    /\ menu' = "top"
    /\ UNCHANGED <<typed, receiver, user, currentUser, pendingLogin, socket, peer, wires,
                   session, auxiliary>>

(* logout: LOGOUT is sent, then the fields are cleared without waiting for the   *)
(* answer.                                                                       *)
logout ==
    \/ /\ menu = "user"
       /\ sendCommand(Command("LOGOUT", NoUser))
       /\ overlapped' = (overlapped \/ Unanswered)
       /\ menu' = "clear"
       /\ UNCHANGED <<typed, receiver, user, currentUser, pendingLogin, socket, peer, toClient,
                      session, refused>>
    \/ /\ menu = "clear"
       /\ clearCurrentUser
       /\ menu' = "top"
       /\ UNCHANGED <<typed, receiver, user, running, socket, peer, wires, session, auxiliary>>

(* Mutated form: the receiver is joined without being woken. *)
closeSocketLater ==
    /\ menu = "closing"
    /\ menu' = "joining"
    /\ UNCHANGED <<typed, receiver, user, fields, socket, peer, wires, session, auxiliary>>

(* After the loop: the socket is shut down and closed, which wakes the receiver. *)
closeSocket ==
    /\ menu = "closing"
    /\ socket' = "closed"
    /\ menu' = "joining"
    /\ UNCHANGED <<typed, receiver, user, fields, peer, wires, session, auxiliary>>

join ==
    /\ menu = "joining"
    /\ receiver = "ended"
    /\ menu' = "ended"
    /\ UNCHANGED <<typed, receiver, user, fields, socket, peer, wires, session, auxiliary>>

-----------------------------------------------------------------------------
(* receiveLoop tests running_ before it blocks in receiveFrame, not while. *)
testRunning ==
    /\ receiver = "test"
    /\ receiver' = IF running THEN "recv" ELSE "ended"
    /\ UNCHANGED <<menu, typed, user, fields, socket, peer, wires, session, auxiliary>>

(* One frame.  LOGIN_OK copies pendingLogin_ and sets the user in a second       *)
(* critical section.                                                             *)
receiveFrame ==
    /\ receiver = "recv"
    /\ socket = "open"
    /\ toClient # <<>>
    /\ toClient' = Tail(toClient)
    /\ \/ /\ Head(toClient) = "LOGIN_OK"
          /\ user' = pendingLogin
          /\ receiver' = "setUser"
          /\ UNCHANGED <<currentUser, pendingLogin>>
       \/ /\ Head(toClient) \in {"LOGIN_ERROR", "LOGOUT_OK", "KICKED"}
          /\ clearCurrentUser
          /\ receiver' = "test"
          /\ UNCHANGED user
       \/ /\ Head(toClient) = "TEXT"
          /\ receiver' = "test"
          /\ UNCHANGED <<user, currentUser, pendingLogin>>
    /\ UNCHANGED <<menu, typed, running, socket, peer, toServer, session, auxiliary>>

(* Mutated form: the word after LOGIN_OK is taken for the user. *)
loginConfirmedAsRole ==
    /\ receiver = "setUser"
    /\ setCurrentUser("moderator")
    /\ user' = NoUser
    /\ receiver' = "test"
    /\ UNCHANGED <<menu, typed, running, socket, peer, wires, session, auxiliary>>

(* The second critical section of LOGIN_OK. *)
loginConfirmed ==
    /\ receiver = "setUser"
    /\ setCurrentUser(user)
    /\ user' = NoUser
    /\ receiver' = "test"
    /\ UNCHANGED <<menu, typed, running, socket, peer, wires, session, auxiliary>>

(* Mutated form: the loop is left, running_ is not told. *)
receiveEndsQuietly ==
    /\ receiver = "recv"
    /\ socket = "closed" \/ (peer = "closed" /\ toClient = <<>>)
    /\ receiver' = "ended"
    /\ UNCHANGED <<menu, typed, user, fields, socket, peer, wires, session, auxiliary>>

(* receiveFrame returned Closed or an error: either end has closed. *)
receiveEnds ==
    /\ receiver = "recv"
    /\ socket = "closed" \/ (peer = "closed" /\ toClient = <<>>)
    /\ running' = FALSE
    /\ receiver' = "ended"
    /\ UNCHANGED <<menu, typed, user, currentUser, pendingLogin, socket, peer, wires, session,
                   auxiliary>>

-----------------------------------------------------------------------------
(* The server's ClientHandler reads one command and answers it.  A refused LOGIN *)
(* leaves the session as it is; LOGOUT is answered LOGOUT_OK in any case.        *)
serve ==
    /\ peer = "open"
    /\ toServer # <<>>
    /\ Len(toClient) < MaxFlight
    /\ toServer' = Tail(toServer)
    /\ \/ /\ Head(toServer).cmd = "LOGIN"
          /\ session' = Head(toServer).login
          /\ toClient' = Append(toClient, "LOGIN_OK")
          /\ UNCHANGED refused
       \/ /\ Head(toServer).cmd = "LOGIN"
          /\ toClient' = Append(toClient, "LOGIN_ERROR")
          /\ refused' = (refused \/ session # NoUser)
          /\ UNCHANGED session
       \/ /\ Head(toServer).cmd = "LOGOUT"
          /\ session' = NoUser
          /\ toClient' = Append(toClient, "LOGOUT_OK")
          /\ UNCHANGED refused
       \/ /\ Head(toServer).cmd = "ASK"
          /\ toClient' = Append(toClient, "TEXT")
          /\ UNCHANGED <<session, refused>>
    /\ UNCHANGED <<menu, typed, receiver, user, fields, socket, peer, overlapped>>

(* Another handler delivers a MESSAGE. *)
serverDelivers ==
    /\ peer = "open" /\ session # NoUser
    /\ Len(toClient) < MaxFlight
    /\ toClient' = Append(toClient, "TEXT")
    /\ UNCHANGED <<menu, typed, receiver, user, fields, socket, peer, toServer, session,
                   auxiliary>>

(* disconnectFromAdmin, for a KICK or a BAN. *)
serverKicks ==
    /\ peer = "open" /\ session # NoUser
    /\ Len(toClient) < MaxFlight
    /\ toClient' = Append(toClient, "KICKED")
    /\ peer' = "closed" /\ toServer' = <<>> /\ session' = NoUser
    /\ UNCHANGED <<menu, typed, receiver, user, fields, socket, auxiliary>>

(* The server leaves run(): a timeout, the client's close, or its own end. *)
serverCloses ==
    /\ peer = "open"
    /\ peer' = "closed" /\ toServer' = <<>> /\ session' = NoUser
    /\ UNCHANGED <<menu, typed, receiver, user, fields, socket, toClient, auxiliary>>

(* Nothing more can be typed. *)
endOfInput ==
    /\ stdin = "open"
    /\ stdin' = "eof"
    /\ UNCHANGED <<menu, typed, receiver, user, fields, socket, peer, wires, session, auxiliary>>

menuStep ==
    /\ \/ showMenu \/ (menu = "sendLogin" /\ login) \/ (menu = "clear" /\ logout)
       \/ closeSocket \/ join \/ (stdin = "eof" /\ cancel)
    /\ UNCHANGED stdin

receiverStep ==
    (testRunning \/ receiveFrame \/ loginConfirmed \/ receiveEnds) /\ UNCHANGED stdin

input ==
    /\ stdin = "open"
    /\ (menu = "initial" /\ login) \/ ask \/ cancel \/ quit \/ (menu = "user" /\ logout)
    /\ UNCHANGED stdin

environment ==
    /\ \/ connectToServer \/ connectTimesOut
       \/ serve \/ serverDelivers \/ serverKicks \/ serverCloses
    /\ UNCHANGED stdin

Next == menuStep \/ input \/ receiverStep \/ environment \/ endOfInput

Spec == Init /\ [][Next]_vars

(* Both threads run; a menu waits for the user, but not at the end of the input. *)
(* Nobody has to type, and the server owes no answer.                            *)
FairSpec == Spec /\ WF_vars(menuStep) /\ WF_vars(receiverStep)

-----------------------------------------------------------------------------
(* Nothing is on its way, and no thread is in the middle of something. *)
Quiet ==
    /\ peer = "open" /\ running
    /\ menu \in {"top", "initial", "user"} /\ receiver \in {"test", "recv"}
    /\ toServer = <<>> /\ toClient = <<>>

(* A client whose user waits for the answer to each LOGIN and LOGOUT shows the   *)
(* user that the server has logged in, once everything has arrived: the two      *)
(* threads and their two critical sections for LOGIN_OK lose nothing.  The       *)
(* exceptions are what the code does not provide for: a login or logout begun    *)
(* before the last was answered (there is one pendingLogin_ for all), and a      *)
(* refused login on a connection that is logged in (LOGIN_ERROR clears the user, *)
(* the server keeps the session).                                                *)
InSync == Quiet /\ ~overlapped /\ ~refused => currentUser = session

(* However logins and logouts overlap, a client that shows a user, once          *)
(* everything has arrived, has a session on the server.                          *)
ShownMeansSession == Quiet /\ currentUser # NoUser => session # NoUser

(* When run has left its loop it returns: the join does not hang on a receiver   *)
(* that is blocked in recv.                                                      *)
RunReturns == menu = "closing" ~> menu = "ended"

(* A connection that the server has closed is noticed, whatever is still to be   *)
(* read.                                                                         *)
CloseIsNoticed == peer = "closed" ~> ~running

(* At the end of standard input the menus come back without a key, again and     *)
(* again; once the server has closed the connection, run returns all the same.   *)
UnattendedEnds == stdin = "eof" /\ peer = "closed" ~> menu = "ended"
=============================================================================
